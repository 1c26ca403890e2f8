----------------------------- MODULE WebrtcAgent -----------------------------
(***************************************************************************)
(* WebrtcAgent: the map from connection ids to peer connections, used by    *)
(* several application threads at once.  Only the map is under pcLock_; a   *)
(* connection gets its worker, and its first two tasks, after the lock has  *)
(* been given back.  subscribe and unsubscribe differ from publish and      *)
(* unpublish in the direction of the tracks only.  The worker is picked by  *)
(* the use counts of shared pointers, which change while they are read.     *)
(***************************************************************************)
EXTENDS Integers, Sequences, FiniteSets

CONSTANTS
    Threads,        \* application threads
    Ids,            \* connection ids
    NumWorkers,     \* workers of the pool
    Calls,          \* bound on publish calls, which are the connections made
    LinkBound,      \* bound on the link tasks of a connection
    MaxHeld,        \* bound on the scheduled tasks of a worker
    MaxDrift,       \* bound on the changes after which none is scheduled
    Serial          \* calls that name the same id do not overlap

ASSUME NumWorkersAssumption == NumWorkers \in Nat \ {0}
ASSUME SerialAssumption == Serial \in BOOLEAN
ASSUME BoundAssumption == Calls \in Nat /\ LinkBound \in Nat
ASSUME ThreadsAssumption == IsFiniteSet(Threads)

VARIABLES
    peerConnections,    \* the map: id to the number of a connection, or 0
    made,               \* connections made so far
    worker,             \* worker_ of a connection, or 0
    posted,             \* tasks posted for a connection
    at,                 \* where each thread is
    badCall,            \* a null worker_ was used
    held,               \* references to a worker held by its scheduled tasks
    seen,               \* the use count a thread has read of its chosen worker, or 0
    drift               \* changes to the workers' uses since a thread began to pick

vars == <<peerConnections, made, worker, posted, at, badCall, held, seen, drift>>
counts == <<held, seen, drift>>

Workers == 1..NumWorkers
Conns == 1..Calls
None == "none"

(* A thread: the step it is at, the ids it was called with, the connection  *)
(* it works on, and the locals of getLessUsedWorker.                        *)
Out == [step |-> "out", ids |-> <<>>, pc |-> 0, chosen |-> 0, next |-> 0]

Init == /\ peerConnections = [i \in Ids |-> 0]
        /\ made = 0
        /\ worker = [c \in Conns |-> 0]
        /\ posted = [c \in Conns |-> <<>>]
        /\ at = [t \in Threads |-> Out]
        /\ badCall = FALSE
        /\ held = [w \in Workers |-> 0]
        /\ seen = [t \in Threads |-> 0]
        /\ drift = [t \in Threads |-> 0]

Goto(t, step) == at' = [at EXCEPT ![t].step = step]
Return(t) == at' = [at EXCEPT ![t] = Out]

(* A use of some worker begins or ends; drift is not in the program. *)
Shift == drift' = [t \in Threads |-> IF at'[t].step = "pick" THEN drift[t] + 1 ELSE 0]

-----------------------------------------------------------------------------

(* A thread calls publish, unpublish, linkup or cutoff. *)
Call(t, op, ids) ==
    /\ at[t] = Out
    /\ Serial => \A u \in Threads, i \in DOMAIN ids : \A j \in DOMAIN at[u].ids :
                    at[u].ids[j] # ids[i]
    /\ at' = [at EXCEPT ![t].step = op, ![t].ids = ids]
    /\ UNCHANGED <<peerConnections, made, worker, posted, badCall, counts>>

(* publish, in the lock: wa_e_found, or a new connection. *)
Emplace(t) ==
    LET i == at[t].ids[1] IN
    /\ at[t].step = "publish" /\ made < Calls
    /\ made' = made + 1
    /\ IF peerConnections[i] # 0
       THEN Return(t) /\ UNCHANGED peerConnections
       ELSE /\ peerConnections' = [peerConnections EXCEPT ![i] = made']
            /\ at' = [at EXCEPT ![t].step = "pick", ![t].pc = made',
                                ![t].chosen = 1, ![t].next = 1]
    /\ UNCHANGED <<worker, posted, badCall, counts>>

Load(w) == Cardinality({c \in Conns : worker[c] = w})

(* The uses of a worker that last: by its connections and its timers. *)
Uses(w) == Load(w) + held[w]

(* use_count of a worker's shared pointer: the pool, these uses, and the    *)
(* locals of the threads, of which a thread that picks has two.             *)
UseCount(w) == 1 + Uses(w)
                 + Cardinality({t \in Threads : at[t].chosen = w})
                 + Cardinality({t \in Threads : at[t].step = "pick" /\ at[t].next = w})

(* getLessUsedWorker reads the use count of the worker chosen so far ... *)
ReadChosen(t) ==
    /\ at[t].step = "pick" /\ at[t].next <= NumWorkers /\ seen[t] = 0
    /\ seen' = [seen EXCEPT ![t] = UseCount(at[t].chosen)]
    /\ UNCHANGED <<peerConnections, made, worker, posted, at, badCall, held, drift>>

(* Mutant of GetLessUsedWorker: prefers the busier worker. *)
GetLessUsedWorkerMore(t) ==
    LET w == at[t].next IN
    /\ at[t].step = "pick" /\ w <= NumWorkers /\ seen[t] # 0
    /\ at' = [at EXCEPT
                ![t].chosen = IF seen[t] < UseCount(w) THEN w ELSE @,
                ![t].next = @ + 1]
    /\ seen' = [seen EXCEPT ![t] = 0]
    /\ UNCHANGED <<peerConnections, made, worker, posted, badCall, held, drift>>

(* ... and then that of the next, and keeps the one it saw less of. *)
GetLessUsedWorker(t) ==
    LET w == at[t].next IN
    /\ at[t].step = "pick" /\ w <= NumWorkers /\ seen[t] # 0
    /\ at' = [at EXCEPT
                ![t].chosen = IF seen[t] > UseCount(w) THEN w ELSE @,
                ![t].next = @ + 1]
    /\ seen' = [seen EXCEPT ![t] = 0]
    /\ UNCHANGED <<peerConnections, made, worker, posted, badCall, held, drift>>

(* asyncTask or worker_->task of connection c. *)
Post(c, task) ==
    IF worker[c] = 0 THEN badCall' = TRUE /\ UNCHANGED posted
    ELSE posted' = [posted EXCEPT ![c] = Append(@, task)] /\ UNCHANGED badCall

(* Mutant of PcInit: the offer goes first. *)
PcInitLate(t) ==
    /\ at[t].step = "pick" /\ at[t].next > NumWorkers
    /\ Post(at[t].pc, "offer")
    /\ worker' = [worker EXCEPT ![at[t].pc] = at[t].chosen]
    /\ Goto(t, "signal") /\ Shift
    /\ UNCHANGED <<peerConnections, made, held, seen>>

(* Mutant of PcInit: init_i is called in place and not posted. *)
PcInitInPlace(t) ==
    /\ at[t].step = "pick" /\ at[t].next > NumWorkers
    /\ worker' = [worker EXCEPT ![at[t].pc] = at[t].chosen]
    /\ Goto(t, "signal") /\ Shift
    /\ UNCHANGED <<peerConnections, made, posted, badCall, held, seen>>

(* WrtcAgentPc::init: the worker is set, and init_i posted to it. *)
PcInit(t) ==
    LET c == at[t].pc IN
    /\ at[t].step = "pick" /\ at[t].next > NumWorkers
    /\ worker' = [worker EXCEPT ![c] = at[t].chosen]
    /\ posted' = [posted EXCEPT ![c] = Append(@, "init")]
    /\ Goto(t, "signal") /\ Shift
    /\ UNCHANGED <<peerConnections, made, badCall, held, seen>>

(* signalling with the offer; publish returns. *)
Signalling(t) ==
    /\ at[t].step = "signal"
    /\ Post(at[t].pc, "offer")
    /\ Return(t)
    /\ UNCHANGED <<peerConnections, made, worker, counts>>

(* Mutant of Erase: the entry stays in the map. *)
EraseNot(t) ==
    LET i == at[t].ids[1] IN
    /\ at[t].step = "unpublish"
    /\ IF peerConnections[i] = 0
       THEN Return(t)
       ELSE at' = [at EXCEPT ![t].step = "close", ![t].pc = peerConnections[i]]
    /\ UNCHANGED <<peerConnections, made, worker, posted, badCall, counts>>

(* unpublish, in the lock: wa_e_not_found, or the connection is taken out. *)
Erase(t) ==
    LET i == at[t].ids[1] IN
    /\ at[t].step = "unpublish"
    /\ IF peerConnections[i] = 0
       THEN Return(t) /\ UNCHANGED peerConnections
       ELSE /\ at' = [at EXCEPT ![t].step = "close", ![t].pc = peerConnections[i]]
            /\ peerConnections' = [peerConnections EXCEPT ![i] = 0]
    /\ UNCHANGED <<made, worker, posted, badCall, counts>>

(* WrtcAgentPc::close, out of the lock. *)
Close(t) ==
    /\ at[t].step = "close"
    /\ Post(at[t].pc, "close")
    /\ Return(t)
    /\ UNCHANGED <<peerConnections, made, worker, counts>>

(* linkup and cutoff, in the lock: both connections are looked up. *)
Find(t) ==
    LET ids == at[t].ids IN
    /\ at[t].step = "linkup"
    /\ IF \E i \in DOMAIN ids : peerConnections[ids[i]] = 0
       THEN Return(t)
       ELSE at' = [at EXCEPT ![t].step = "link", ![t].pc = peerConnections[ids[1]]]
    /\ UNCHANGED <<peerConnections, made, worker, posted, badCall, counts>>

(* subscribe_i, out of the lock. *)
Subscribe(t) ==
    /\ at[t].step = "link"
    /\ Len(posted[at[t].pc]) < LinkBound + 2
    /\ Post(at[t].pc, "link")
    /\ Return(t)
    /\ UNCHANGED <<peerConnections, made, worker, counts>>

(* A connection that was closed goes away and gives its worker back. *)
Gone(c) ==
    /\ worker[c] # 0
    /\ \E i \in DOMAIN posted[c] : posted[c][i] = "close"
    /\ \A t \in Threads : at[t].pc # c
    /\ worker' = [worker EXCEPT ![c] = 0]
    /\ UNCHANGED <<peerConnections, made, posted, at, badCall, held, seen>> /\ Shift

(* scheduleEvery on a connection's worker, from addDestination or           *)
(* createReceiveVideo: the scheduled task holds the worker.                 *)
Hold(c) ==
    /\ worker[c] # 0
    /\ held[worker[c]] < MaxHeld /\ \A t \in Threads : drift[t] < MaxDrift
    /\ held' = [held EXCEPT ![worker[c]] = @ + 1]
    /\ UNCHANGED <<peerConnections, made, worker, posted, at, badCall, seen>> /\ Shift

(* The task finds that its track is gone, and is not scheduled again. *)
Release(w) ==
    /\ held[w] > 0
    /\ held' = [held EXCEPT ![w] = @ - 1]
    /\ UNCHANGED <<peerConnections, made, worker, posted, at, badCall, seen>> /\ Shift

Next == \/ \E t \in Threads :
             \/ \E i \in Ids : Call(t, "publish", <<i>>) \/ Call(t, "unpublish", <<i>>)
             \/ \E i, j \in Ids : i # j /\ LinkBound > 0 /\ Call(t, "linkup", <<i, j>>)
             \/ Emplace(t) \/ ReadChosen(t) \/ GetLessUsedWorker(t) \/ PcInit(t)
             \/ Signalling(t) \/ Erase(t) \/ Close(t) \/ Find(t) \/ Subscribe(t)
        \/ \E c \in Conns : Gone(c) \/ Hold(c)
        \/ \E w \in Workers : Release(w)

Spec == Init /\ [][Next]_vars

-----------------------------------------------------------------------------

CallTypes ==
          /\ peerConnections \in [Ids -> 0..made]
          /\ made \in 0..Calls
          /\ worker \in [Conns -> 0..NumWorkers]
          /\ posted \in [Conns -> Seq({"init", "offer", "link", "close"})]
          /\ at \in [Threads -> [step : {"out", "publish", "unpublish", "linkup", "pick",
                                          "signal", "close", "link"},
                                 ids : Seq(Ids), pc : 0..made,
                                 chosen : 0..NumWorkers, next : 0..NumWorkers + 1]]
          /\ badCall \in BOOLEAN

(* Type correctness. *)
TypeOK == /\ CallTypes
          /\ held \in [Workers -> Nat]
          /\ seen \in [Threads -> Nat]
          /\ drift \in [Threads -> Nat]

(* When calls that name the same id do not overlap, no call meets a         *)
(* connection that has no worker yet, although publish makes a connection   *)
(* known before it has one.                                                 *)
NoNullWorker == ~badCall

(* The tasks of a connection start with init and offer and end with close,  *)
(* which is what the peer connection's handlers rely on.                    *)
TasksInOrder ==
    \A c \in Conns : \A i \in DOMAIN posted[c] :
        /\ posted[c][i] = "init" <=> i = 1
        /\ posted[c][i] = "offer" <=> i = 2
        /\ posted[c][i] = "close" => i = Len(posted[c])

(* A connection that is out of the map is closed by the call that took it   *)
(* out, and one that is in the map is not.                                  *)
ClosedOnce ==
    \A c \in 1..made :
        LET inMap == \E i \in Ids : peerConnections[i] = c
            closed == "close" \in {posted[c][i] : i \in DOMAIN posted[c]}
            closing == \E t \in Threads : at[t].step = "close" /\ at[t].pc = c
        IN (inMap => ~closed /\ ~closing)
           /\ (~inMap /\ posted[c] # <<>> => closed \/ closing)

(* getLessUsedWorker compares counts that the other threads' locals raise   *)
(* and that are old when they are used.  With n threads, a connection gets  *)
(* a worker with at most 2(n - 1) uses more than the least used one for     *)
(* every worker compared with another, and one more for every use that      *)
(* began or ended since it started to pick.                                 *)
NearLeastUsed ==
    [][\A t \in Threads : PcInit(t) =>
          \A w \in Workers :
              Uses(at[t].chosen) <= Uses(w) + drift[t]
                + 2 * (Cardinality(Threads) - 1) * (NumWorkers - 1)]_vars

=============================================================================
