---------------------------- MODULE ProcessThread ----------------------------
(***************************************************************************)
(* rtc_adapter::ProcessThreadMock, which gives WebRTC modules their         *)
(* periodic callbacks on the task queue of a worker, through the queue      *)
(* proxy of StaticTaskQueueFactory.cc.  All operations run on the worker.   *)
(*                                                                          *)
(* Time is relative: an absolute time t of the code is t - now here, and    *)
(* Tick makes every such number smaller.  The code only asks whether a time *)
(* has been reached and which is the earliest, so times in the past are     *)
(* kept as -1.  Time may pass between any two steps.                        *)
(***************************************************************************)
EXTENDS Integers, Sequences, FiniteSetsExt

CONSTANTS
    Modules,        \* the webrtc::Module objects
    Intervals,      \* how long a module may want to wait after Process
    MaxWait,        \* the minute that Process waits at most
    QueueBound      \* bound on the tasks waiting, a limit of the model

ASSUME IntervalsAssumption == Intervals \subseteq Nat /\ Intervals # {}
ASSUME MaxWaitAssumption == MaxWait \in Nat \ {0}
ASSUME QueueBoundAssumption == QueueBound \in Nat \ {0}

VARIABLES
    modules,        \* keys of modules_
    asked,          \* "unset" (0), "now" (kCallProcessImmediately) or "timed"
    nextCallback,   \* next_callback, if "timed"
    wants,          \* when the module wants its next Process: its own state
    running,        \* running_
    queue,          \* tasks posted, in order
    timers,         \* delays left of the delayed tasks
    owner,          \* TaskQueueProxy::m_sp is set
    called          \* the module whose Process the last step called, or none

threadVars == <<modules, asked, nextCallback, wants, running, queue, timers, owner, called>>

None == "none"

ProcessTask == [type |-> "Process", module |-> None]
NowTask(m) == [type |-> "Process_now", module |-> m]
ThreadTasks == [type : {"Process", "Process_now"}, module : Modules \cup {None}]

Relative == Nat \cup {-1}

ThreadInit == /\ modules = {}
              /\ asked = [m \in Modules |-> "unset"]
              /\ nextCallback = [m \in Modules |-> 0]
              /\ wants \in [Modules -> Intervals]
              /\ running = FALSE
              /\ queue = <<>>
              /\ timers = <<>>
              /\ owner = TRUE
              /\ called = {}

-----------------------------------------------------------------------------

(* GetNextCallbackTime: the wish of the module, or now if that has passed. *)
GetNextCallbackTime(wish) == IF wish < 0 THEN 0 ELSE wish

(* RegisterModule. The module may have a new wish by now. *)
RegisterModule(m) ==
    /\ owner /\ m \notin modules
    /\ Len(queue) < QueueBound
    /\ modules' = modules \cup {m}
    /\ asked' = [asked EXCEPT ![m] = "unset"]
    /\ \E i \in Intervals : wants' = [wants EXCEPT ![m] = i]
    /\ queue' = IF running THEN queue ELSE Append(queue, ProcessTask)
    /\ running' = TRUE
    /\ called' = {}
    /\ UNCHANGED <<nextCallback, timers, owner>>

(* Mutant of DeRegisterModule: a thread without modules counts as stopped. *)
DeRegisterModuleStops(m) ==
    /\ owner /\ m \in modules
    /\ modules' = modules \ {m}
    /\ running' = (modules' # {})
    /\ called' = {}
    /\ UNCHANGED <<asked, nextCallback, wants, queue, timers, owner>>

(* DeRegisterModule. *)
DeRegisterModule(m) ==
    /\ owner /\ m \in modules
    /\ modules' = modules \ {m}
    /\ called' = {}
    /\ UNCHANGED <<asked, nextCallback, wants, running, queue, timers, owner>>

(* Mutant of WakeUp: the wake-up is noted but nothing is posted for it. *)
WakeUpNoPost(m) ==
    /\ owner /\ m \in modules
    /\ Len(queue) < QueueBound
    /\ asked' = [asked EXCEPT ![m] = "now"]
    /\ called' = {}
    /\ UNCHANGED <<modules, nextCallback, wants, running, queue, timers, owner>>

(* WakeUp of a registered module; for another one it only logs. *)
WakeUp(m) ==
    /\ owner /\ m \in modules
    /\ Len(queue) < QueueBound
    /\ asked' = [asked EXCEPT ![m] = "now"]
    /\ queue' = Append(queue, NowTask(m))
    /\ called' = {}
    /\ UNCHANGED <<modules, nextCallback, wants, running, timers, owner>>

-----------------------------------------------------------------------------
(* The worker. A task is a QueuedTaskProxy: it runs if the owner exists.    *)

(* Module::Process of the modules in M: each does its work and then wants   *)
(* to be called again after an interval of its own.                         *)
CallProcess(M) ==
    /\ called' = M
    /\ \E i \in [M -> Intervals] :
         wants' = [m \in Modules |-> IF m \in M THEN i[m] ELSE wants[m]]

(* Process_now: a module that is gone, or that Process has run, is left.    *)
Process_now(m) ==
    IF m \in modules /\ asked[m] = "now"
    THEN /\ CallProcess({m})
         /\ asked' = [asked EXCEPT ![m] = "timed"]
         /\ nextCallback' = [nextCallback EXCEPT ![m] = GetNextCallbackTime(wants'[m])]
    ELSE /\ called' = {}
         /\ UNCHANGED <<asked, nextCallback, wants>>

(* The time a module is due, as Process sees it.  *)
DueTime(m) == IF asked[m] = "unset" THEN GetNextCallbackTime(wants[m])
              ELSE nextCallback[m]

(* The modules whose Process is called by Process.  *)
DueModules == {m \in modules : asked[m] = "now" \/ DueTime(m) <= 0}

(* How long Process waits: until the earliest callback, at most MaxWait.    *)
TimeToWait(next) == Min({MaxWait} \cup {next[m] : m \in modules})

(* Mutant of Process: the posted task is forgotten when nothing is due. *)
ProcessNoRepost(rest) ==
    /\ CallProcess(DueModules)
    /\ asked' = [m \in Modules |-> IF m \in modules THEN "timed" ELSE asked[m]]
    /\ nextCallback' = [m \in Modules |->
            IF m \in DueModules THEN GetNextCallbackTime(wants'[m])
            ELSE IF m \in modules THEN DueTime(m) ELSE nextCallback[m]]
    /\ IF DueModules = {} THEN queue' = rest /\ UNCHANGED timers
       ELSE queue' = Append(rest, ProcessTask) /\ UNCHANGED timers
    /\ UNCHANGED running

(* Process: with no modules the thread stops; otherwise the due modules are *)
(* run, each is asked for its next time, and Process is posted again.       *)
Process(rest) ==
    IF modules = {}
    THEN /\ running' = FALSE
         /\ queue' = rest
         /\ called' = {}
         /\ UNCHANGED <<asked, nextCallback, wants, timers>>
    ELSE /\ CallProcess(DueModules)
         /\ asked' = [m \in Modules |-> IF m \in modules THEN "timed" ELSE asked[m]]
         /\ nextCallback' = [m \in Modules |->
                IF m \in DueModules THEN GetNextCallbackTime(wants'[m])
                ELSE IF m \in modules THEN DueTime(m) ELSE nextCallback[m]]
         /\ IF TimeToWait(nextCallback') > 0
            THEN queue' = rest /\ timers' = Append(timers, TimeToWait(nextCallback'))
            ELSE queue' = Append(rest, ProcessTask) /\ UNCHANGED timers
         /\ UNCHANGED running

(* The worker runs the first task. *)
RunTask ==
    /\ queue # <<>> /\ owner
    /\ CASE Head(queue).type = "Process" -> Process(Tail(queue))
         [] Head(queue).type = "Process_now" ->
              /\ Process_now(Head(queue).module)
              /\ queue' = Tail(queue)
              /\ UNCHANGED <<running, timers>>
    /\ UNCHANGED <<modules, owner>>

(* QueuedTaskProxy::Run once the owner is gone: nothing. *)
DropTask ==
    /\ queue # <<>> /\ ~owner
    /\ queue' = Tail(queue)
    /\ called' = {}
    /\ UNCHANGED <<modules, asked, nextCallback, wants, running, timers, owner>>

(* A delayed task is due: libevent runs it, here by way of the queue. *)
TimerFires(k) ==
    /\ timers[k] = 0
    /\ timers' = [j \in 1..Len(timers) - 1 |-> IF j < k THEN timers[j] ELSE timers[j + 1]]
    /\ queue' = Append(queue, ProcessTask)
    /\ called' = {}
    /\ UNCHANGED <<modules, asked, nextCallback, wants, running, owner>>

(* TaskQueueProxy::Delete, at the end of the adapter that holds the queue.  *)
(* The adapters deregister their modules first (~VideoSendAdapterImpl).     *)
Delete ==
    /\ owner
    /\ owner' = FALSE
    /\ modules' = {}
    /\ called' = {}
    /\ UNCHANGED <<asked, nextCallback, wants, running, queue, timers>>

AfterTick(t) == IF t > 0 THEN t - 1 ELSE -1

(* A millisecond passes. *)
ThreadTick ==
    /\ timers' = [k \in DOMAIN timers |-> Max({0, AfterTick(timers[k])})]
    /\ nextCallback' = [m \in Modules |-> AfterTick(nextCallback[m])]
    /\ wants' = [m \in Modules |-> AfterTick(wants[m])]
    /\ called' = {}
    /\ UNCHANGED <<modules, asked, running, queue, owner>>

-----------------------------------------------------------------------------

Fire == \E k \in DOMAIN timers : TimerFires(k)

ThreadStep == \/ \E m \in Modules : RegisterModule(m) \/ DeRegisterModule(m) \/ WakeUp(m)
              \/ RunTask \/ DropTask \/ Fire \/ Delete

ThreadNext == ThreadStep \/ ThreadTick

ThreadSpec == ThreadInit /\ [][ThreadNext]_threadVars

-----------------------------------------------------------------------------

(* Type correctness; no Process waits longer than a minute. *)
ThreadTypeOK == /\ modules \subseteq Modules
                /\ asked \in [Modules -> {"unset", "now", "timed"}]
                /\ nextCallback \in [Modules -> Relative]
                /\ wants \in [Modules -> Relative]
                /\ running \in BOOLEAN
                /\ queue \in Seq(ThreadTasks)
                /\ timers \in Seq(0..MaxWait)
                /\ owner \in BOOLEAN
                /\ called \subseteq Modules

ProcessTasks == {i \in DOMAIN queue : queue[i].type = "Process"}

(* running_ is set exactly while one Process is waiting, as a task or as a  *)
(* timer: RegisterModule neither forgets to start the chain of Process, nor *)
(* starts a second one beside a chain that has not noticed yet that the     *)
(* modules are gone.                                                        *)
OneProcess ==
    owner => IF running
             THEN \/ timers = <<>> /\ \E i \in DOMAIN queue : ProcessTasks = {i}
                  \/ Len(timers) = 1 /\ ProcessTasks = {}
             ELSE timers = <<>> /\ ProcessTasks = {}

(* A wake-up waits in the queue until it is served: a module marked         *)
(* kCallProcessImmediately has a Process_now of its own behind it.          *)
WakeUpPending ==
    owner => \A m \in modules : asked[m] = "now" =>
                \E i \in DOMAIN queue : queue[i] = NowTask(m)

(* A module that has been deregistered is not called, "DeRegisterModule     *)
(* after WakeUp won't call module::Process", and after Delete no task of    *)
(* the proxy calls anything ("Only run when owner exists").                 *)
OnlyRegisteredCalled == [][called' \subseteq modules /\ (called' # {} => owner)]_threadVars

(* A module that stays registered is called again and again. *)
EveryModuleProcessed ==
    \A m \in Modules : m \in modules ~> (m \in called \/ m \notin modules)

=============================================================================
