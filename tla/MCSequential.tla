----------------------------- MODULE MCSequential -----------------------------
(***************************************************************************)
(* The parts that work by themselves on the worker's thread, for TLC:       *)
(* ProcessThread, ScheduleEvery, NalScan, SeqNo and PayloadTypes.  They     *)
(* share no state, so they are not composed: a behaviour is one of one      *)
(* part, and the variables of the others keep an initial value.             *)
(***************************************************************************)
EXTENDS ProcessThread, ScheduleEvery, NalScan, SeqNo, PayloadTypes

CONSTANT MaxLen         \* bound on the bytes of a frame

VARIABLE part

(* Every frame of up to MaxLen bytes. 2 stands for the bytes above 1. *)
Frames == UNION {[1 .. n -> 0 .. 2] : n \in 0 .. MaxLen}

ThreadRests == wants = [m \in Modules |-> Max(Intervals)] /\ ThreadInit
NalRests == payload = <<>> /\ NalInit
TypesRests == /\ offer = <<[pt |-> RED_90000_PT, codec |-> "red"]>>
              /\ prefer = CHOOSE p \in Profiles : TRUE
              /\ TypesInit

Init == /\ EveryInit /\ SeqInit
        /\ \/ part = "thread" /\ NalRests /\ TypesRests /\ ThreadInit
           \/ part = "nal" /\ ThreadRests /\ TypesRests /\ NalInit
           \/ part = "types" /\ ThreadRests /\ NalRests /\ TypesInit
           \/ part \in {"every", "seq"} /\ ThreadRests /\ NalRests /\ TypesRests

Of(p, rest) == part = p /\ UNCHANGED <<part, rest>>

OfThread == Of("thread", <<everyVars, nalVars, seqVars, typesVars>>)
OfNal == Of("nal", <<threadVars, everyVars, seqVars, typesVars>>)

Next == \/ ThreadNext /\ OfThread
        \/ EveryNext /\ Of("every", <<threadVars, nalVars, seqVars, typesVars>>)
        \/ NalNext /\ OfNal
        \/ SeqNext /\ Of("seq", <<threadVars, everyVars, nalVars, typesVars>>)
        \/ TypesNext /\ Of("types", <<threadVars, everyVars, nalVars, seqVars>>)

vars == <<part, threadVars, everyVars, nalVars, seqVars, typesVars>>

(* The worker runs its tasks and its timers, and time passes; onFrame runs  *)
(* to its end.                                                              *)
Fairness == /\ WF_vars((RunTask \/ DropTask) /\ OfThread)
            /\ WF_vars(Fire /\ OfThread)
            /\ WF_vars(ThreadTick /\ OfThread)
            /\ WF_vars(NalNext /\ OfNal)

Spec == Init /\ [][Next]_vars /\ Fairness

=============================================================================
