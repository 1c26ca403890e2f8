---------------------------- MODULE TimerProofs -----------------------------
(***************************************************************************)
(* Proofs about what a thread runs and when.                                *)
(*                                                                          *)
(* TaskQueue, for every number of posting threads, every pipe capacity and  *)
(* every number of posts.  WakeupFindsTask is not inductive: it must also   *)
(* count the bytes behind kQuit and the posts that have pushed their task   *)
(* and not yet written a byte or taken the task back.  A failing post       *)
(* removes at most one task, which pays for the post that leaves PostTask,  *)
(* whichever task it is.                                                    *)
(*                                                                          *)
(* ProcessThread, for any modules, intervals and longest wait.              *)
(*                                                                          *)
(* ScheduleEvery, for every period, lateness and duration.  Its inductive   *)
(* invariant is about the time the next call is wanted, start + next_delay: *)
(* it is never before its multiple of the period, and is exactly that while *)
(* no call ends more than a period late.                                    *)
(***************************************************************************)
EXTENDS TaskQueue, ProcessThread, ScheduleEvery, FiniteSetTheorems, TLAPS

(* TaskQueue. *)

(* The threads inside PostTask: each has pushed a task and written no byte. *)
InPost == {t \in Threads : pc[t] # "idle"}

EnoughTasks ==
  thread # "joined" =>
    Len(pending) >= runTokens + lateTokens + Cardinality(InPost)

(* pending_ is in push order and later than everything taken from it. *)
PushOrder ==
  /\ \A i, j \in 1 .. Len(pending) : i < j => pending[i] < pending[j]
  /\ \A i \in 1 .. Len(pending) : lastRun < pending[i] /\ pending[i] < next
  /\ lastRun < next

Shutdown ==
  /\ quit = "read" => runTokens = 0 /\ runningTask = NoTask
  /\ thread # "looping" => quit = "read" /\ pendingTimers = {}
  /\ thread = "joined" => \A k \in Tasks : status[k] # "queued"

PostingTask == \A t \in Threads : pc[t] # "idle" => posting[t] # NoTask

IInv == TypeOK /\ EnoughTasks /\ PushOrder /\ Shutdown /\ PostingTask

-----------------------------------------------------------------------------
(* Entering or leaving PostTask changes the number of threads inside by one. *)
LEMMA InPostFinite == IsFiniteSet(InPost) /\ Cardinality(InPost) \in Nat
<1>1. IsFiniteSet(Threads)
  BY PostersAssumption, FS_AddElement, Zenon DEF Threads
<1>2. IsFiniteSet(InPost)
  BY <1>1, FS_Subset, Zenon DEF InPost
<1> QED
  BY <1>2, FS_CardinalityType, Zenon

(* A thread that calls PostTask joins the threads inside it. *)
LEMMA EnterPost ==
  ASSUME TypeOK, NEW t \in Threads, pc[t] = "idle",
         pc' = [pc EXCEPT ![t] = "pushed"]
  PROVE  Cardinality(InPost') = Cardinality(InPost) + 1
<1>1. InPost' = InPost \cup {t} /\ t \notin InPost
  BY Zenon DEF InPost, TypeOK
<1> QED
  BY <1>1, InPostFinite, FS_AddElement, Zenon

(* A thread whose PostTask returns leaves the threads inside it. *)
LEMMA LeavePost ==
  ASSUME TypeOK, NEW t \in Threads, pc[t] # "idle",
         pc' = [pc EXCEPT ![t] = "idle"]
  PROVE  Cardinality(InPost') = Cardinality(InPost) - 1
<1>1. InPost' = InPost \ {t} /\ t \in InPost
  BY Zenon DEF InPost, TypeOK
<1> QED
  BY <1>1, InPostFinite, FS_RemoveElement, Zenon

(* Taking one element out of pending_ leaves a shorter sequence of its
   elements, in the same order: what list::remove_if does. *)
LEMMA WithoutIsShorter ==
  ASSUME NEW S, NEW s \in Seq(S), NEW i \in 1 .. Len(s)
  PROVE  /\ Without(s, i) \in Seq(S)
         /\ Len(Without(s, i)) = Len(s) - 1
         /\ \A j \in 1 .. Len(s) - 1 :
              Without(s, i)[j] = IF j < i THEN s[j] ELSE s[j + 1]
<1> DEFINE n == Len(s) - 1
<1>1. n \in Nat
  OBVIOUS
<1>2. \A j \in 1 .. n : (IF j < i THEN s[j] ELSE s[j + 1]) \in S
  OBVIOUS
<1>3. Without(s, i) \in [1 .. n -> S]
  BY <1>2, Zenon DEF Without
<1>4. Without(s, i) \in Seq(S) /\ Len(Without(s, i)) = n
  BY <1>1, <1>3
<1> QED
  BY <1>4, Zenon DEF Without

(* The initial state of the constructor satisfies the invariant. *)
LEMMA InitIInv == Init => IInv
<1> SUFFICES ASSUME Init PROVE IInv
  BY Zenon
<1>1. TypeOK
  BY AddrsAssumption, MaxPostsAssumption
  DEF Init, TypeOK, Threads, Tasks, NoTask, Kinds, Statuses
<1>2. InPost = {}
  BY ZenonT(40) DEF Init, InPost
<1>3. Cardinality(InPost) = 0
  BY <1>2, FS_EmptySet, Zenon
<1>4. EnoughTasks
  BY <1>3 DEF Init, EnoughTasks
<1>5. PushOrder /\ Shutdown /\ PostingTask
  BY DEF Init, PushOrder, Shutdown, PostingTask, NoTask
<1> QED
  BY <1>1, <1>4, <1>5, Zenon DEF IInv

(* Every step keeps the invariant. *)
LEMMA NextIInv == IInv /\ [Next]_vars => IInv'
<1> SUFFICES ASSUME IInv, [Next]_vars PROVE IInv'
  BY Zenon
<1> USE MaxPostsAssumption DEF NoTask, Tasks
<1>1. CASE \E t \in Threads, a \in Addrs, k \in Kinds : Push(t, a, k)
  <2>1. PICK t \in Threads, a \in Addrs, k \in Kinds : Push(t, a, k)
    BY <1>1, Zenon
  <2>2. next \in Tasks /\ pending' = Append(pending, next) /\ pending \in Seq(Tasks)
    BY <2>1 DEF Push, MayPost, IInv, TypeOK
  <2>3. TypeOK'
    BY <2>1, <2>2 DEF Push, IInv, TypeOK, Kinds, Statuses
  <2>4. EnoughTasks'
    <3>1. Cardinality(InPost') = Cardinality(InPost) + 1
      BY <2>1, EnterPost, Zenon DEF Push, MayPost, IInv
    <3>2. Len(pending') = Len(pending) + 1
      BY <2>2
    <3> QED
      BY <3>1, <3>2, <2>1, InPostFinite DEF Push, IInv, EnoughTasks, TypeOK
  <2>5. PushOrder'
    BY <2>1, <2>2 DEF Push, IInv, PushOrder, TypeOK
  <2>6. Shutdown'
    BY <2>1, Zenon DEF Push, MayPost, IInv, Shutdown, TypeOK
  <2>7. PostingTask'
    BY <2>1, <2>2 DEF Push, IInv, PostingTask, TypeOK
  <2> QED
    BY <2>3, <2>4, <2>5, <2>6, <2>7, Zenon DEF IInv
<1>2. CASE \E t \in Threads : WriteOk(t)
  <2>1. PICK t \in Threads : WriteOk(t)
    BY <1>2, Zenon
  <2>2. TypeOK'
    <3>1. posting[t] \in Tasks \cup {NoTask}
      BY Zenon DEF IInv, TypeOK
    <3>2. posting[t] # NoTask
      BY <2>1, Zenon DEF WriteOk, IInv, PostingTask
    <3>3. accepted' \subseteq Tasks
      BY <2>1, <3>1, <3>2, Zenon DEF WriteOk, IInv, TypeOK
    <3>4. runTokens' \in Nat /\ lateTokens' \in Nat
      BY <2>1 DEF WriteOk, WriteRunTask, IInv, TypeOK
    <3> QED
      BY <2>1, <3>3, <3>4, Zenon DEF WriteOk, IInv, TypeOK
  <2>3. EnoughTasks'
    <3>1. Cardinality(InPost') = Cardinality(InPost) - 1
      BY <2>1, LeavePost, Zenon DEF WriteOk, IInv
    <3>2. runTokens' + lateTokens' = runTokens + lateTokens + 1
      BY <2>1 DEF WriteOk, WriteRunTask, IInv, TypeOK
    <3> QED
      BY <3>1, <3>2, <2>1, InPostFinite DEF WriteOk, WriteRunTask, IInv, EnoughTasks, TypeOK
  <2>4. PushOrder' /\ Shutdown' /\ PostingTask'
    BY <2>1, Zenon DEF WriteOk, WriteRunTask, IInv, TypeOK, PushOrder, Shutdown, PostingTask
  <2> QED
    BY <2>2, <2>3, <2>4, Zenon DEF IInv
<1>3. CASE \E t \in Threads : WriteFails(t)
  <2>1. PICK t \in Threads : WriteFails(t)
    BY <1>3
  <2>2. InPost' = InPost
    BY <2>1, Zenon DEF WriteFails, InPost, IInv, TypeOK
  <2> QED
    BY <2>1, <2>2, Zenon DEF WriteFails, IInv, TypeOK, EnoughTasks, PushOrder, Shutdown, PostingTask
<1>4. CASE \E t \in Threads : Remove(t)
  <2>1. PICK t \in Threads : Remove(t)
    BY <1>4
  <2>2. Cardinality(InPost') = Cardinality(InPost) - 1
    BY <2>1, LeavePost, Zenon DEF Remove, IInv
  <2>3. CASE UNCHANGED <<pending, status>>
    BY <2>1, <2>2, <2>3, InPostFinite
    DEF Remove, IInv, TypeOK, EnoughTasks, PushOrder, Shutdown, PostingTask
  <2>4. CASE \E i \in AtAddressOf(posting[t]) :
               /\ pending' = Without(pending, i)
               /\ status' = [status EXCEPT ![pending[i]] = "dropped"]
    <3>1. PICK i \in 1 .. Len(pending) :
                 /\ pending' = Without(pending, i)
                 /\ status' = [status EXCEPT ![pending[i]] = "dropped"]
      BY <2>4, Zenon DEF AtAddressOf
    <3>2. /\ pending' \in Seq(Tasks)
          /\ Len(pending') = Len(pending) - 1
          /\ \A j \in 1 .. Len(pending) - 1 :
                pending'[j] = IF j < i THEN pending[j] ELSE pending[j + 1]
      BY <3>1, WithoutIsShorter, Zenon DEF IInv, TypeOK
    <3>3. TypeOK'
      BY <2>1, <3>1, <3>2, Zenon DEF Remove, IInv, TypeOK, Statuses
    <3>4. EnoughTasks'
      BY <2>1, <2>2, <3>2, InPostFinite DEF Remove, IInv, TypeOK, EnoughTasks
    <3>5. PushOrder'
      <4> DEFINE from(j) == IF j < i THEN j ELSE j + 1
      <4>0. Len(pending) \in Nat /\ Len(pending') = Len(pending) - 1
        BY <3>2 DEF IInv, TypeOK
      <4>1. \A j \in 1 .. Len(pending') :
              from(j) \in 1 .. Len(pending) /\ pending'[j] = pending[from(j)]
        <5> SUFFICES ASSUME NEW j \in 1 .. Len(pending')
                     PROVE  from(j) \in 1 .. Len(pending) /\ pending'[j] = pending[from(j)]
          BY Zenon
        <5>1. j \in 1 .. Len(pending) - 1
          BY <4>0, Zenon
        <5>2. pending'[j] = IF j < i THEN pending[j] ELSE pending[j + 1]
          BY <5>1, <3>2, Zenon
        <5> QED
          BY <5>1, <5>2, <4>0
      <4>2. \A j, k \in 1 .. Len(pending') : j < k => from(j) < from(k)
        BY <4>0
      <4>3. next' = next /\ lastRun' = lastRun
        BY <2>1, Zenon DEF Remove
      <4> HIDE DEF from
      <4> QED
        BY <4>1, <4>2, <4>3, Zenon DEF IInv, PushOrder
    <3>6. Shutdown' /\ PostingTask'
      BY <2>1, <3>1, Zenon DEF Remove, IInv, TypeOK, Shutdown, PostingTask
    <3> QED
      BY <3>3, <3>4, <3>5, <3>6, Zenon DEF IInv
  <2> QED
    BY <2>1, <2>3, <2>4, Zenon DEF Remove
<1>5. CASE PostDelayedOnQueue
  BY <1>5 DEF PostDelayedOnQueue, MayPost, IInv, TypeOK, EnoughTasks, InPost,
              PushOrder, Shutdown, PostingTask
<1>6. CASE OnWakeupRunTask
  <2>1. /\ Head(pending) = pending[1]
        /\ Head(pending) \in Tasks
        /\ Tail(pending) \in Seq(Tasks)
        /\ Len(Tail(pending)) = Len(pending) - 1
        /\ \A i \in 1 .. Len(pending) - 1 : Tail(pending)[i] = pending[i + 1]
    BY <1>6 DEF OnWakeupRunTask, RunFront, IInv, TypeOK
  <2>2. TypeOK'
    BY <1>6, <2>1 DEF OnWakeupRunTask, RunFront, IInv, TypeOK, Statuses
  <2>3. EnoughTasks'
    BY <1>6, <2>1, InPostFinite
    DEF OnWakeupRunTask, RunFront, IInv, TypeOK, EnoughTasks, InPost
  <2>4. PushOrder'
    BY <1>6, <2>1 DEF OnWakeupRunTask, RunFront, IInv, TypeOK, PushOrder
  <2>5. Shutdown' /\ PostingTask'
    BY <1>6, <2>1, Zenon DEF OnWakeupRunTask, RunFront, IInv, TypeOK, Shutdown, PostingTask
  <2> QED
    BY <2>2, <2>3, <2>4, <2>5, Zenon DEF IInv
<1>7. CASE OnWakeupQuit
  BY <1>7, Zenon DEF OnWakeupQuit, IInv, TypeOK, EnoughTasks, InPost, PushOrder,
       Shutdown, PostingTask
<1>8. CASE \E k \in Tasks : RunTimer(k)
  BY <1>8 DEF RunTimer, IInv, TypeOK, Statuses, EnoughTasks, InPost, PushOrder,
       Shutdown, PostingTask
<1>9. CASE RunReturns
  BY <1>9, Zenon DEF RunReturns, IInv, TypeOK, EnoughTasks, InPost, PushOrder,
       Shutdown, PostingTask
<1>10. CASE ThreadExit
  BY <1>10, Zenon DEF ThreadExit, IInv, TypeOK, EnoughTasks, InPost, PushOrder,
       Shutdown, PostingTask
<1>11. CASE DeleteWritesQuit
  BY <1>11, Zenon DEF DeleteWritesQuit, IInv, TypeOK, EnoughTasks, InPost, PushOrder,
       Shutdown, PostingTask
<1>12. CASE DeleteReturns
  BY <1>12 DEF DeleteReturns, IInv, TypeOK, Statuses, EnoughTasks, PushOrder,
       Shutdown, PostingTask
<1>13. CASE UNCHANGED vars
  BY <1>13, Zenon DEF vars, IInv, TypeOK, EnoughTasks, InPost, PushOrder,
       Shutdown, PostingTask
<1> QED
  BY <1>1, <1>2, <1>3, <1>4, <1>5, <1>6, <1>7, <1>8, <1>9, <1>10, <1>11, <1>12, <1>13, Zenon
  DEF Next, PostStep, LoopStep

(* The invariant holds throughout every behaviour. *)
LEMMA AlwaysIInv == Spec => []IInv
  BY InitIInv, NextIInv, PTL DEF Spec

(* The state of the task queue is well typed, for every instance. *)
THEOREM TypeCorrect == Spec => []TypeOK
<1>1. IInv => TypeOK
  BY Zenon DEF IInv
<1> QED
  BY <1>1, AlwaysIInv, PTL

(* OnWakeup never finds pending_ empty: its RTC_DCHECK holds for any number of
   posting threads and any pipe capacity, address reuse included. *)
THEOREM WakeupAlwaysFindsTask == Spec => []WakeupFindsTask
<1>1. IInv => WakeupFindsTask
  <2> SUFFICES ASSUME IInv, runTokens > 0 PROVE pending # << >>
    BY Zenon DEF WakeupFindsTask
  <2>1. thread # "joined"
    BY DEF IInv, TypeOK, Shutdown
  <2>2. Len(pending) > 0
    BY <2>1, InPostFinite DEF IInv, TypeOK, EnoughTasks
  <2> QED
    BY <2>2
<1> QED
  BY <1>1, AlwaysIInv, PTL

(* OnWakeup runs the tasks in the order PostTask pushed them. *)
THEOREM FifoOrder == Spec => []RunInPushOrder
<1>1. IInv => RunInPushOrder
  BY Zenon DEF IInv, TypeOK, PushOrder, RunInPushOrder, Tasks, NoTask
<1> QED
  BY <1>1, AlwaysIInv, PTL

(* When Delete returns no task runs, is armed or waits. *)
THEOREM DeleteLeavesNothing == Spec => []DeleteQuiesces
<1>1. IInv => DeleteQuiesces
  BY Zenon DEF IInv, TypeOK, Shutdown, DeleteQuiesces
<1> QED
  BY <1>1, AlwaysIInv, PTL

(* While no write fails there is exactly one byte to come, or in the pipe, for
   every task that waits. *)
NoneFailed == \A t \in Threads : pc[t] # "failed"

ExactTasks ==
  IF thread = "joined" THEN pending = << >>
  ELSE Len(pending) = runTokens + lateTokens + Cardinality(InPost)

(* Every step in which no write fails keeps the balance. *)
LEMMA NextExact ==
  ASSUME IInv, ExactTasks, NoneFailed, NoneFailed', [Next]_vars
  PROVE  ExactTasks'
<1> USE DEF ExactTasks
<1> DEFINE n == Cardinality(InPost)
<1>0. Len(pending) \in Nat /\ runTokens \in Nat /\ lateTokens \in Nat /\ n \in Nat
  BY InPostFinite DEF IInv, TypeOK
<1>1. ASSUME NEW t \in Threads, NEW a \in Addrs, NEW k \in Kinds, Push(t, a, k)
      PROVE  ExactTasks'
  <2>1. n' = n + 1
    BY <1>1, EnterPost, Zenon DEF Push, MayPost, IInv
  <2>2. pending \in Seq(Tasks) /\ pending' = Append(pending, next)
    BY <1>1, Zenon DEF Push, IInv, TypeOK
  <2>3. Len(pending') = Len(pending) + 1
    BY <2>2
  <2>4. thread # "joined"
    BY <1>1, Zenon DEF Push, MayPost
  <2>5. UNCHANGED <<thread, runTokens, lateTokens>>
    BY <1>1, Zenon DEF Push
  <2> QED
    BY <1>0, <2>1, <2>3, <2>4, <2>5
<1>2. ASSUME NEW t \in Threads, WriteOk(t) PROVE ExactTasks'
  <2>1. n' = n - 1
    BY <1>2, LeavePost, Zenon DEF WriteOk, IInv
  <2>2. runTokens' + lateTokens' = runTokens + lateTokens + 1
    BY <1>0, <1>2 DEF WriteOk, WriteRunTask
  <2>3. runTokens' \in Nat /\ lateTokens' \in Nat
    BY <1>0, <1>2 DEF WriteOk, WriteRunTask
  <2>4. thread' = thread /\ pending' = pending
    BY <1>2, Zenon DEF WriteOk
  <2>5. CASE thread = "joined"
    BY <2>4, <2>5, Zenon
  <2>6. CASE thread # "joined"
    <3>1. Len(pending') = runTokens + lateTokens + n
      BY <2>4, <2>6, Zenon
    <3>2. runTokens + lateTokens + n = runTokens' + lateTokens' + n'
      <4> HIDE DEF n, ExactTasks
      <4> QED
        BY <1>0, <2>1, <2>2
    <3> QED
      BY <2>4, <2>6, <3>1, <3>2, Zenon
  <2> QED
    BY <2>5, <2>6, Zenon
<1>3. ASSUME NEW t \in Threads, WriteFails(t) PROVE FALSE
  BY <1>3, Zenon DEF WriteFails, NoneFailed, IInv, TypeOK
<1>4. ASSUME NEW t \in Threads, Remove(t) PROVE FALSE
  BY <1>4, Zenon DEF Remove, NoneFailed
<1>5. CASE OnWakeupRunTask
  <2>1. Len(pending') = Len(pending) - 1
    BY <1>5 DEF OnWakeupRunTask, RunFront, IInv, TypeOK
  <2>2. n' = n
    BY <1>5, Zenon DEF OnWakeupRunTask, RunFront, InPost
  <2>3. thread = "looping" /\ UNCHANGED <<thread, lateTokens>> /\ runTokens' = runTokens - 1
    BY <1>5, Zenon DEF OnWakeupRunTask, RunFront
  <2> QED
    BY <1>0, <2>1, <2>2, <2>3
<1>6. ASSUME UNCHANGED <<pending, runTokens, lateTokens, pc>>,
             thread = "joined" <=> thread' = "joined"
      PROVE  ExactTasks'
  BY <1>6, ZenonT(40) DEF InPost
<1>7. CASE PostDelayedOnQueue \/ OnWakeupQuit \/ RunReturns \/ DeleteWritesQuit \/ UNCHANGED vars
  BY <1>6, <1>7, Zenon DEF PostDelayedOnQueue, OnWakeupQuit, RunReturns, DeleteWritesQuit, vars
<1>8. CASE ThreadExit \/ \E k \in Tasks : RunTimer(k)
  BY <1>6, <1>8, Zenon DEF ThreadExit, RunTimer
<1>9. CASE DeleteReturns
  BY <1>9, Zenon DEF DeleteReturns
<1> QED
  BY <1>1, <1>2, <1>3, <1>4, <1>5, <1>7, <1>8, <1>9, Zenon DEF Next, PostStep, LoopStep

(* As long as no write to the pipe has failed, no task is left behind: when no
   byte is on its way (none in the pipe and no thread inside PostTask), no task
   waits.  After a failed write this is false: the task of an accepted post may
   wait with no byte that would run it. *)
THEOREM NoneStranded ==
  Spec /\ []NoneFailed =>
    [](runTokens = 0 /\ lateTokens = 0 /\ (\A t \in Threads : pc[t] = "idle")
         => pending = << >>)
<1>1. Init => ExactTasks
  <2> SUFFICES ASSUME Init PROVE ExactTasks
    OBVIOUS
  <2>1. InPost = {}
    BY DEF Init, InPost
  <2> QED
    BY <2>1, FS_EmptySet DEF Init, ExactTasks
<1>2. IInv /\ ExactTasks /\ NoneFailed /\ NoneFailed' /\ [Next]_vars => ExactTasks'
  BY NextExact, Zenon
<1>3. IInv /\ ExactTasks =>
        (runTokens = 0 /\ lateTokens = 0 /\ (\A t \in Threads : pc[t] = "idle")
           => pending = << >>)
  <2> SUFFICES ASSUME IInv, ExactTasks, runTokens = 0, lateTokens = 0,
                      \A t \in Threads : pc[t] = "idle"
               PROVE  pending = << >>
    BY Zenon
  <2>1. InPost = {}
    BY Zenon DEF InPost
  <2>2. CASE thread # "joined"
    BY <2>1, <2>2, FS_EmptySet DEF ExactTasks, IInv, TypeOK
  <2>3. CASE thread = "joined"
    BY <2>3, Zenon DEF ExactTasks
  <2> QED
    BY <2>2, <2>3, Zenon
<1> QED
  BY <1>1, <1>2, <1>3, AlwaysIInv, PTL DEF Spec

-----------------------------------------------------------------------------
(* ProcessThread. *)

WF == INSTANCE WellFoundedInduction

(* A set of natural numbers with a member has a least one. *)
LEMMA NatMin ==
  ASSUME NEW S \in SUBSET Nat, S # {}
  PROVE  Min(S) \in S /\ \A y \in S : Min(S) <= y
<1> DEFINE R == {ss \in Nat \X Nat : ss[1] < ss[2]}
<1>1. WF!IsWellFoundedOn(R, Nat)
  BY WF!NatLessThanWellFounded, Zenon DEF WF!OpToRel
<1>2. PICK x \in S : \A y \in S : ~(<<y, x>> \in R)
  BY <1>1, WF!WFMin, Zenon
<1>3. ASSUME NEW y \in S PROVE x <= y
  <2>1. <<y, x>> \in Nat \X Nat  BY Zenon
  <2>2. ~(y < x)  BY <2>1, <1>2, Zenon
  <2>. QED  BY <2>2
<1>. QED  BY <1>3, Zenon DEF Min

(* How long Process waits, when no registered module is past its time. *)
LEMMA TimeToWaitBound ==
  ASSUME modules \subseteq Modules, NEW soonest, \A m \in modules : soonest[m] \in Nat
  PROVE  TimeToWait(soonest) \in 0..MaxWait
<1> DEFINE S == {MaxWait} \cup {soonest[m] : m \in modules}
<1>1. S \in SUBSET Nat /\ S # {} /\ MaxWait \in S  BY MaxWaitAssumption, Zenon
<1>2. Min(S) \in S /\ Min(S) <= MaxWait  BY <1>1, NatMin, Zenon
<1>. QED  BY <1>1, <1>2, MaxWaitAssumption DEF TimeToWait

LEMMA CallProcessType ==
  ASSUME NEW M \in SUBSET Modules, wants \in [Modules -> Relative], CallProcess(M)
  PROVE  /\ called' \subseteq Modules
         /\ wants' \in [Modules -> Relative]
         /\ \A m \in M : wants'[m] \in Nat
BY IntervalsAssumption, Zenon DEF CallProcess, Relative

LEMMA GetNextCallbackTimeType ==
  ASSUME NEW wish \in Relative
  PROVE  GetNextCallbackTime(wish) \in Nat
BY DEF GetNextCallbackTime, Relative

-----------------------------------------------------------------------------

LEMMA SeqElement ==
  ASSUME NEW S, NEW s \in Seq(S), NEW k \in DOMAIN s
  PROVE  s[k] \in S
OBVIOUS

LEMMA SeqAppend ==
  ASSUME NEW S, NEW s \in Seq(S), NEW e \in S
  PROVE  Append(s, e) \in Seq(S)
OBVIOUS

LEMMA TaskTypes ==
  ProcessTask \in ThreadTasks /\ \A m \in Modules : NowTask(m) \in ThreadTasks
BY Zenon DEF ProcessTask, NowTask, ThreadTasks

(* Process asks every registered module for a time that has not passed. *)
LEMMA ProcessType ==
  ASSUME ThreadTypeOK, NEW rest \in Seq(ThreadTasks), Process(rest)
  PROVE  /\ asked' \in [Modules -> {"unset", "now", "timed"}]
         /\ nextCallback' \in [Modules -> Relative]
         /\ wants' \in [Modules -> Relative]
         /\ running' \in BOOLEAN
         /\ queue' \in Seq(ThreadTasks)
         /\ timers' \in Seq(0..MaxWait)
         /\ called' \subseteq Modules
<1>1. CASE modules = {}
  BY <1>1, Zenon DEF Process, ThreadTypeOK
<1>2. CASE modules # {}
  <2>1. /\ CallProcess(DueModules)
        /\ asked' = [m \in Modules |-> IF m \in modules THEN "timed" ELSE asked[m]]
        /\ nextCallback' = [m \in Modules |->
               IF m \in DueModules THEN GetNextCallbackTime(wants'[m])
               ELSE IF m \in modules THEN DueTime(m) ELSE nextCallback[m]]
        /\ UNCHANGED running
    BY <1>2, Zenon DEF Process
  <2>0. \/ queue' = rest /\ timers' = Append(timers, TimeToWait(nextCallback'))
        \/ queue' = Append(rest, ProcessTask) /\ timers' = timers
    BY <1>2, Zenon DEF Process
  <2>2. DueModules \subseteq modules /\ DueModules \subseteq Modules /\ modules \subseteq Modules
    BY Zenon DEF DueModules, ThreadTypeOK
  <2>3. /\ called' \subseteq Modules /\ wants' \in [Modules -> Relative]
        /\ \A m \in DueModules : wants'[m] \in Nat
    BY <2>1, <2>2, CallProcessType, Zenon DEF ThreadTypeOK
  <2>4. \A m \in modules \ DueModules : DueTime(m) \in Nat
    <3> SUFFICES ASSUME NEW m \in modules \ DueModules PROVE DueTime(m) \in Nat  BY Zenon
    <3>1. DueTime(m) \in Relative
      BY <2>2, GetNextCallbackTimeType, Zenon DEF DueTime, ThreadTypeOK, Relative
    <3>. QED  BY <3>1 DEF DueModules, Relative
  <2>5. \A m \in Modules : nextCallback'[m] \in Relative /\ (m \in modules => nextCallback'[m] \in Nat)
    <3> SUFFICES ASSUME NEW m \in Modules
                 PROVE  nextCallback'[m] \in Relative /\ (m \in modules => nextCallback'[m] \in Nat)
      BY Zenon
    <3>1. CASE m \in DueModules
      <4>1. nextCallback'[m] = GetNextCallbackTime(wants'[m])  BY <2>1, <3>1, Zenon
      <4>. QED  BY <4>1, <2>3, GetNextCallbackTimeType, Zenon DEF Relative
    <3>2. CASE m \in modules \ DueModules
      BY <2>1, <2>4, <3>2, Zenon DEF Relative
    <3>3. CASE m \notin modules
      BY <2>1, <2>2, <3>3, Zenon DEF ThreadTypeOK
    <3>. QED  BY <3>1, <3>2, <3>3, Zenon
  <2>6. nextCallback' \in [Modules -> Relative]
    BY <2>1, <2>5, ZenonT(40)
  <2>7. TimeToWait(nextCallback') \in 0..MaxWait
    BY <2>2, <2>5, TimeToWaitBound, Zenon
  <2>8. queue' \in Seq(ThreadTasks)
    BY <2>0, TaskTypes
  <2>9. timers' \in Seq(0..MaxWait)
    <3>1. timers \in Seq(0..MaxWait)  BY Zenon DEF ThreadTypeOK
    <3>. QED  BY <2>0, <2>7, <3>1, SeqAppend, Zenon
  <2>10. asked' \in [Modules -> {"unset", "now", "timed"}]
    BY <2>1, Zenon DEF ThreadTypeOK
  <2>. QED  BY <2>1, <2>3, <2>6, <2>8, <2>9, <2>10, Zenon DEF ThreadTypeOK
<1>. QED  BY <1>1, <1>2, Zenon


LEMMA TypeInductive ==
  ASSUME ThreadTypeOK, [ThreadNext]_threadVars
  PROVE  ThreadTypeOK'
<1>1. ASSUME NEW m \in Modules, RegisterModule(m) PROVE ThreadTypeOK'
  <2>1. wants' \in [Modules -> Relative]
    BY <1>1, IntervalsAssumption, Zenon DEF RegisterModule, ThreadTypeOK, Relative
  <2>2. queue' \in Seq(ThreadTasks)
    BY <1>1, TaskTypes DEF RegisterModule, ThreadTypeOK
  <2>. QED  BY <1>1, <2>1, <2>2, ZenonT(40) DEF RegisterModule, ThreadTypeOK
<1>2. ASSUME NEW m \in Modules, DeRegisterModule(m) PROVE ThreadTypeOK'
  BY <1>2, Zenon DEF DeRegisterModule, ThreadTypeOK
<1>3. ASSUME NEW m \in Modules, WakeUp(m) PROVE ThreadTypeOK'
  <2>1. queue' \in Seq(ThreadTasks)  BY <1>3, TaskTypes DEF WakeUp, ThreadTypeOK
  <2>. QED  BY <1>3, <2>1, Zenon DEF WakeUp, ThreadTypeOK
<1>4. CASE RunTask
  <2>1. /\ queue \in Seq(ThreadTasks) /\ queue # <<>>
        /\ Head(queue) \in ThreadTasks /\ Tail(queue) \in Seq(ThreadTasks)
    BY <1>4 DEF RunTask, ThreadTypeOK
  <2>2. CASE Head(queue).type = "Process"
    <3>1. Process(Tail(queue))  BY <1>4, <2>2, Zenon DEF RunTask
    <3>2. UNCHANGED <<modules, owner>>  BY <1>4, Zenon DEF RunTask
    <3>. QED  BY <2>1, <3>1, <3>2, ProcessType, Zenon DEF ThreadTypeOK
  <2>3. CASE Head(queue).type = "Process_now"
    <3> DEFINE m == Head(queue).module
    <3>1. Process_now(m) /\ queue' = Tail(queue) /\ UNCHANGED <<running, timers>>
      BY <1>4, <2>3, Zenon DEF RunTask
    <3>2. UNCHANGED <<modules, owner>>  BY <1>4 DEF RunTask
    <3>3. CASE m \in modules /\ asked[m] = "now"
      <4>1. /\ CallProcess({m})
            /\ asked' = [asked EXCEPT ![m] = "timed"]
            /\ nextCallback' = [nextCallback EXCEPT ![m] = GetNextCallbackTime(wants'[m])]
        BY <3>1, <3>3, Zenon DEF Process_now
      <4>2. m \in Modules  BY <3>3, Zenon DEF ThreadTypeOK
      <4>3. called' \subseteq Modules /\ wants' \in [Modules -> Relative]
        BY <4>1, <4>2, CallProcessType, Zenon DEF ThreadTypeOK
      <4>4. GetNextCallbackTime(wants'[m]) \in Relative
        BY <4>2, <4>3, GetNextCallbackTimeType, ZenonT(40) DEF Relative
      <4>5. nextCallback' \in [Modules -> Relative]  BY <4>1, <4>4, Zenon DEF ThreadTypeOK
      <4>. QED  BY <2>1, <3>1, <3>2, <4>1, <4>3, <4>5, Zenon DEF ThreadTypeOK
    <3>4. CASE ~(m \in modules /\ asked[m] = "now")
      <4>1. called' = {} /\ UNCHANGED <<asked, nextCallback, wants>>
        BY <3>1, <3>4, Zenon DEF Process_now
      <4>. QED  BY <2>1, <3>1, <3>2, <4>1, Zenon DEF ThreadTypeOK
    <3>. QED  BY <3>3, <3>4, Zenon
  <2>. QED  BY <2>1, <2>2, <2>3, Zenon DEF ThreadTasks
<1>5. CASE DropTask
  BY <1>5 DEF DropTask, ThreadTypeOK
<1>6. ASSUME NEW k \in DOMAIN timers, TimerFires(k) PROVE ThreadTypeOK'
  <2>1. queue' \in Seq(ThreadTasks)  BY <1>6, TaskTypes DEF TimerFires, ThreadTypeOK
  <2>2. timers' \in Seq(0..MaxWait)
    <3>1. timers \in Seq(0..MaxWait) /\ k \in 1..Len(timers) /\ Len(timers) \in Nat
      BY <1>6 DEF ThreadTypeOK
    <3>2. \A j \in 1..Len(timers) - 1 : j \in DOMAIN timers /\ j + 1 \in DOMAIN timers
      BY <3>1
    <3>3. \A j \in 1..Len(timers) - 1 :
            (IF j < k THEN timers[j] ELSE timers[j + 1]) \in 0..MaxWait
      BY <3>1, <3>2, SeqElement, Zenon
    <3>4. Len(timers) - 1 \in Nat  BY <3>1
    <3>5. timers' = [j \in 1..Len(timers) - 1 |-> IF j < k THEN timers[j] ELSE timers[j + 1]]
      BY <1>6, Zenon DEF TimerFires
    <3>. QED  BY <3>3, <3>4, <3>5
  <2>. QED  BY <1>6, <2>1, <2>2, Zenon DEF TimerFires, ThreadTypeOK
<1>7. CASE Delete
  BY <1>7, Zenon DEF Delete, ThreadTypeOK
<1>8. CASE ThreadTick
  <2>1. \A t \in Relative : AfterTick(t) \in Relative  BY DEF AfterTick, Relative
  <2>2. timers' \in Seq(0..MaxWait)
    <3>1. ASSUME NEW t \in 0..MaxWait PROVE Max({0, AfterTick(t)}) \in 0..MaxWait
      <4>1. AfterTick(t) \in -1..MaxWait  BY MaxWaitAssumption DEF AfterTick
      <4>2. Max({0, AfterTick(t)}) \in {0, AfterTick(t)} /\ Max({0, AfterTick(t)}) >= 0
        <5>1. \E x \in {0, AfterTick(t)} : \A y \in {0, AfterTick(t)} : x >= y  BY <4>1, MaxWaitAssumption
        <5>. QED  BY <5>1, Zenon DEF Max
      <4>. QED  BY <4>1, <4>2, MaxWaitAssumption
    <3>2. timers' = [k \in DOMAIN timers |-> Max({0, AfterTick(timers[k])})]
      BY <1>8, ZenonT(40) DEF ThreadTick
    <3>3. timers \in Seq(0..MaxWait) /\ DOMAIN timers = 1..Len(timers) /\ Len(timers) \in Nat
      BY DEF ThreadTypeOK
    <3>4. \A k \in 1..Len(timers) : timers[k] \in 0..MaxWait  BY <3>3, SeqElement, Zenon
    <3>5. \A k \in 1..Len(timers) : Max({0, AfterTick(timers[k])}) \in 0..MaxWait  BY <3>1, <3>4, Zenon
    <3>. QED  BY <3>2, <3>3, <3>5
  <2>3. nextCallback' \in [Modules -> Relative] /\ wants' \in [Modules -> Relative]
    BY <1>8, <2>1, Zenon DEF ThreadTick, ThreadTypeOK
  <2>. QED  BY <1>8, <2>2, <2>3, Zenon DEF ThreadTick, ThreadTypeOK
<1>9. CASE UNCHANGED threadVars
  BY <1>9, Zenon DEF threadVars, ThreadTypeOK
<1>. QED
  BY <1>1, <1>2, <1>3, <1>4, <1>5, <1>6, <1>7, <1>8, <1>9, Zenon DEF ThreadNext, ThreadStep, Fire


-----------------------------------------------------------------------------
(* The queue. *)

PTasks(q) == {i \in DOMAIN q : q[i].type = "Process"}

Holds(q, e) == \E i \in DOMAIN q : q[i] = e

LEMMA AppendProcess ==
  ASSUME NEW q \in Seq(ThreadTasks), PTasks(q) = {}
  PROVE  PTasks(Append(q, ProcessTask)) = {Len(q) + 1} /\ Len(q) + 1 \in DOMAIN Append(q, ProcessTask)
BY DEF PTasks, ProcessTask, ThreadTasks

LEMMA AppendNow ==
  ASSUME NEW q \in Seq(ThreadTasks), NEW m \in Modules
  PROVE  PTasks(Append(q, NowTask(m))) = PTasks(q)
BY DEF PTasks, NowTask, ThreadTasks

LEMMA HeadProcess ==
  ASSUME NEW q \in Seq(ThreadTasks), q # <<>>, Head(q).type = "Process"
  PROVE  /\ PTasks(q) # {}
         /\ \A i : PTasks(q) = {i} => PTasks(Tail(q)) = {}
<1>1. 1 \in PTasks(q)  BY DEF PTasks
<1>2. ASSUME NEW i, PTasks(q) = {i}, NEW j \in PTasks(Tail(q)) PROVE FALSE
  <2>1. j + 1 \in PTasks(q) /\ j \in Nat \ {0}  BY <1>2 DEF PTasks
  <2>. QED  BY <1>1, <1>2, <2>1
<1>. QED  BY <1>1, <1>2, Zenon

LEMMA HeadNow ==
  ASSUME NEW q \in Seq(ThreadTasks), q # <<>>, Head(q).type # "Process"
  PROVE  /\ PTasks(q) = {} => PTasks(Tail(q)) = {}
         /\ \A i : PTasks(q) = {i} => PTasks(Tail(q)) = {i - 1} /\ i - 1 \in DOMAIN Tail(q)
<1>1. \A j \in DOMAIN Tail(q) : j + 1 \in DOMAIN q /\ Tail(q)[j] = q[j + 1] /\ j \in Nat
  OBVIOUS
<1>2. \A j \in DOMAIN q : j # 1 => j - 1 \in DOMAIN Tail(q) /\ Tail(q)[j - 1] = q[j] /\ j \in Nat
  OBVIOUS
<1>3. 1 \notin PTasks(q)  BY DEF PTasks
<1>4. ASSUME NEW i, PTasks(q) = {i}
      PROVE  PTasks(Tail(q)) = {i - 1} /\ i - 1 \in DOMAIN Tail(q)
  <2>1. i \in DOMAIN q /\ i # 1 /\ q[i].type = "Process"  BY <1>3, <1>4, Zenon DEF PTasks
  <2>2. i - 1 \in DOMAIN Tail(q) /\ i - 1 \in PTasks(Tail(q)) /\ i \in Nat
    BY <1>2, <2>1, Zenon DEF PTasks
  <2>3. ASSUME NEW j \in PTasks(Tail(q)) PROVE j = i - 1
    <3>1. j + 1 \in PTasks(q) /\ j \in Nat  BY <1>1, <2>3, ZenonT(40) DEF PTasks
    <3>. QED  BY <3>1, <2>2, <1>4
  <2>. QED  BY <2>2, <2>3, Zenon
<1>5. ASSUME PTasks(q) = {} PROVE PTasks(Tail(q)) = {}
  BY <1>1, <1>5, Zenon DEF PTasks
<1>. QED  BY <1>4, <1>5, Zenon

LEMMA HoldsAppend ==
  ASSUME NEW S, NEW q \in Seq(S), NEW e \in S
  PROVE  Holds(Append(q, e), e) /\ \A x : Holds(q, x) => Holds(Append(q, e), x)
<1>1. /\ Len(q) + 1 \in DOMAIN Append(q, e) /\ Append(q, e)[Len(q) + 1] = e
      /\ \A i \in DOMAIN q : i \in DOMAIN Append(q, e) /\ Append(q, e)[i] = q[i]
  OBVIOUS
<1>. QED  BY <1>1, Zenon DEF Holds

LEMMA HoldsTail ==
  ASSUME NEW S, NEW q \in Seq(S), q # <<>>, NEW x, x # Head(q), Holds(q, x)
  PROVE  Holds(Tail(q), x)
<1>1. PICK i \in DOMAIN q : q[i] = x  BY Zenon DEF Holds
<1>2. i # 1  BY <1>1
<1>3. i - 1 \in DOMAIN Tail(q) /\ Tail(q)[i - 1] = x  BY <1>1, <1>2
<1>. QED  BY <1>3, Zenon DEF Holds


-----------------------------------------------------------------------------
(* OneProcess for timers ts and queue q. *)
Chain(run, ts, q) ==
  IF run THEN \/ ts = <<>> /\ \E i \in DOMAIN q : PTasks(q) = {i}
              \/ Len(ts) = 1 /\ PTasks(q) = {}
  ELSE ts = <<>> /\ PTasks(q) = {}

LEMMA OneProcessChain ==
  OneProcess <=> (owner => Chain(running, timers, queue))
BY ZenonT(40) DEF OneProcess, Chain, PTasks, ProcessTasks

LEMMA OneProcessInductive ==
  ASSUME ThreadTypeOK, OneProcess, [ThreadNext]_threadVars
  PROVE  OneProcess'
<1> SUFFICES ASSUME owner' PROVE Chain(running', timers', queue')
  BY Zenon DEF OneProcess, Chain, PTasks, ProcessTasks
<1>0. /\ owner /\ Chain(running, timers, queue)
      /\ queue \in Seq(ThreadTasks) /\ timers \in Seq(0..MaxWait)
  <2>1. owner
    BY Zenon DEF ThreadNext, ThreadStep, Fire, RegisterModule, DeRegisterModule, WakeUp, RunTask, DropTask,
           TimerFires, Delete, ThreadTick, threadVars
  <2>. QED  BY <2>1, OneProcessChain, Zenon DEF ThreadTypeOK
<1>1. ASSUME NEW m \in Modules, RegisterModule(m) PROVE Chain(running', timers', queue')
  <2>1. CASE running
    BY <1>0, <1>1, <2>1, Zenon DEF RegisterModule, Chain
  <2>2. CASE ~running
    <3>1. running' /\ timers' = <<>> /\ queue' = Append(queue, ProcessTask) /\ PTasks(queue) = {}
      BY <1>0, <1>1, <2>2, Zenon DEF RegisterModule, Chain
    <3>. QED  BY <1>0, <3>1, AppendProcess, Zenon DEF Chain
  <2>. QED  BY <2>1, <2>2, Zenon
<1>2. ASSUME NEW m \in Modules, DeRegisterModule(m) PROVE Chain(running', timers', queue')
  BY <1>0, <1>2, Zenon DEF DeRegisterModule
<1>3. ASSUME NEW m \in Modules, WakeUp(m) PROVE Chain(running', timers', queue')
  <2>1. queue' = Append(queue, NowTask(m)) /\ UNCHANGED <<running, timers>>
    BY <1>3, Zenon DEF WakeUp
  <2>2. PTasks(queue') = PTasks(queue)  BY <1>0, <2>1, AppendNow, Zenon
  <2>3. DOMAIN queue \subseteq DOMAIN queue'  BY <1>0, <2>1, TaskTypes
  <2>. QED  BY <1>0, <2>1, <2>2, <2>3, ZenonT(40) DEF Chain
<1>4. CASE RunTask
  <2>1. queue # <<>> /\ Head(queue) \in ThreadTasks /\ Tail(queue) \in Seq(ThreadTasks)
    BY <1>0, <1>4 DEF RunTask
  <2>2. CASE Head(queue).type = "Process"
    <3>1. Process(Tail(queue))  BY <1>4, <2>2, Zenon DEF RunTask
    <3>2. running /\ timers = <<>> /\ PTasks(Tail(queue)) = {}
      BY <1>0, <2>1, <2>2, HeadProcess, Zenon DEF Chain
    <3>3. CASE modules = {}
      BY <3>1, <3>2, <3>3, Zenon DEF Process, Chain
    <3>4. CASE modules # {}
      <4>1. \/ queue' = Tail(queue) /\ timers' = Append(timers, TimeToWait(nextCallback'))
            \/ queue' = Append(Tail(queue), ProcessTask) /\ timers' = timers
        BY <3>1, <3>4, ZenonT(40) DEF Process
      <4>2. running' = running  BY <3>1, <3>4, Zenon DEF Process
      <4>3. CASE queue' = Tail(queue) /\ timers' = Append(timers, TimeToWait(nextCallback'))
        <5>1. Len(timers') = 1  BY <3>2, <4>3
        <5>. QED  BY <3>2, <4>2, <4>3, <5>1, Zenon DEF Chain
      <4>4. CASE queue' = Append(Tail(queue), ProcessTask) /\ timers' = timers
        BY <2>1, <3>2, <4>2, <4>4, AppendProcess, Zenon DEF Chain
      <4>. QED  BY <4>1, <4>3, <4>4, Zenon
    <3>. QED  BY <3>3, <3>4, Zenon
  <2>3. CASE Head(queue).type = "Process_now"
    <3>1. queue' = Tail(queue) /\ UNCHANGED <<running, timers>>
      BY <1>4, <2>3, Zenon DEF RunTask
    <3>2. Head(queue).type # "Process"  BY <2>3, Zenon
    <3>3. /\ PTasks(queue) = {} => PTasks(Tail(queue)) = {}
          /\ \A i : PTasks(queue) = {i} =>
               PTasks(Tail(queue)) = {i - 1} /\ i - 1 \in DOMAIN Tail(queue)
      BY <1>0, <2>1, <3>2, HeadNow, Zenon
    <3>. QED  BY <1>0, <3>1, <3>3, Zenon DEF Chain
  <2>. QED  BY <2>1, <2>2, <2>3, Zenon DEF ThreadTasks
<1>5. CASE DropTask
  BY <1>0, <1>5, Zenon DEF DropTask
<1>6. ASSUME NEW k \in DOMAIN timers, TimerFires(k) PROVE Chain(running', timers', queue')
  <2>1. /\ timers' = [j \in 1..Len(timers) - 1 |-> IF j < k THEN timers[j] ELSE timers[j + 1]]
        /\ queue' = Append(queue, ProcessTask) /\ running' = running
    BY <1>6, ZenonT(40) DEF TimerFires
  <2>2. timers # <<>>  BY <1>6
  <2>3. running /\ Len(timers) = 1 /\ PTasks(queue) = {}  BY <1>0, <2>2, Zenon DEF Chain
  <2>4. timers' = <<>>  BY <2>1, <2>3
  <2>. QED  BY <1>0, <2>1, <2>3, <2>4, AppendProcess, Zenon DEF Chain
<1>7. CASE Delete
  BY <1>7, Zenon DEF Delete
<1>8. CASE ThreadTick
  <2>1. timers' = [k \in DOMAIN timers |-> Max({0, AfterTick(timers[k])})]
        /\ UNCHANGED <<running, queue>>
    BY <1>8, ZenonT(40) DEF ThreadTick
  <2>2. DOMAIN timers = 1..Len(timers) /\ Len(timers) \in Nat  BY <1>0
  <2>3. timers = <<>> => timers' = <<>>  BY <2>1, <2>2
  <2>4. Len(timers) = 1 => Len(timers') = 1  BY <2>1, <2>2
  <2>. QED  BY <1>0, <2>1, <2>3, <2>4, Zenon DEF Chain
<1>9. CASE UNCHANGED threadVars
  BY <1>0, <1>9, Zenon DEF threadVars
<1>. QED
  BY <1>1, <1>2, <1>3, <1>4, <1>5, <1>6, <1>7, <1>8, <1>9 DEF ThreadNext, ThreadStep, Fire


-----------------------------------------------------------------------------

LEMMA WakeUpInductive ==
  ASSUME ThreadTypeOK, WakeUpPending, [ThreadNext]_threadVars
  PROVE  WakeUpPending'
<1> SUFFICES ASSUME owner', NEW x \in modules', asked'[x] = "now"
             PROVE  Holds(queue', NowTask(x))
  BY Zenon DEF WakeUpPending, Holds
<1>0. /\ owner /\ queue \in Seq(ThreadTasks) /\ modules \subseteq Modules
      /\ asked \in [Modules -> {"unset", "now", "timed"}]
  <2>1. owner
    BY Zenon DEF ThreadNext, ThreadStep, Fire, RegisterModule, DeRegisterModule, WakeUp, RunTask, DropTask,
           TimerFires, Delete, ThreadTick, threadVars
  <2>. QED  BY <2>1, Zenon DEF ThreadTypeOK
<1>1. x \in modules /\ asked[x] = "now" => Holds(queue, NowTask(x))
  BY <1>0, Zenon DEF WakeUpPending, Holds
<1>2. ASSUME NEW m \in Modules, RegisterModule(m) PROVE Holds(queue', NowTask(x))
  <2>1. x # m /\ x \in modules /\ asked[x] = "now"
    BY <1>0, <1>2, Zenon DEF RegisterModule
  <2>2. queue' = queue \/ queue' = Append(queue, ProcessTask)
    BY <1>2, ZenonT(40) DEF RegisterModule
  <2>3. Holds(queue, NowTask(x))  BY <1>1, <2>1, Zenon
  <2>4. Holds(Append(queue, ProcessTask), NowTask(x))
    BY <1>0, <2>3, TaskTypes, HoldsAppend, Zenon
  <2>. QED  BY <2>2, <2>3, <2>4, Zenon
<1>3. ASSUME NEW m \in Modules, DeRegisterModule(m) PROVE Holds(queue', NowTask(x))
  BY <1>1, <1>3, ZenonT(40) DEF DeRegisterModule
<1>4. ASSUME NEW m \in Modules, WakeUp(m) PROVE Holds(queue', NowTask(x))
  <2>1. /\ queue' = Append(queue, NowTask(m)) /\ NowTask(m) \in ThreadTasks /\ x \in modules
        /\ asked' = [asked EXCEPT ![m] = "now"]
    BY <1>4, TaskTypes, Zenon DEF WakeUp
  <2>2. CASE x = m  BY <1>0, <2>1, <2>2, HoldsAppend, Zenon
  <2>3. CASE x # m
    <3>1. asked[x] = "now"  BY <1>0, <2>1, <2>3, Zenon
    <3>. QED  BY <1>0, <1>1, <2>1, <3>1, HoldsAppend, Zenon
  <2>. QED  BY <2>2, <2>3, Zenon
<1>5. CASE RunTask
  <2>1. /\ queue # <<>> /\ Head(queue) \in ThreadTasks /\ Tail(queue) \in Seq(ThreadTasks)
        /\ x \in modules /\ x \in Modules
    BY <1>0, <1>5 DEF RunTask
  <2>2. CASE Head(queue).type = "Process"
    (* Process has just asked every module. *)
    <3>1. Process(Tail(queue)) /\ modules # {}  BY <1>5, <2>1, <2>2, Zenon DEF RunTask
    <3>2. asked' = [m \in Modules |-> IF m \in modules THEN "timed" ELSE asked[m]]
      BY <3>1, Zenon DEF Process
    <3>. QED  BY <2>1, <3>2, Zenon
  <2>3. CASE Head(queue).type = "Process_now"
    <3> DEFINE m == Head(queue).module
    <3>1. Process_now(m) /\ queue' = Tail(queue)
      BY <1>5, <2>3, Zenon DEF RunTask
    <3>2. CASE x = m /\ asked[x] = "now"
      <4>1. asked' = [asked EXCEPT ![m] = "timed"]
        BY <2>1, <3>1, <3>2, Zenon DEF Process_now
      <4>. QED  BY <1>0, <2>1, <3>2, <4>1, Zenon
    <3>3. CASE ~(x = m /\ asked[x] = "now")
      <4>1. asked' = [asked EXCEPT ![m] = "timed"] \/ asked' = asked
        BY <3>1, Zenon DEF Process_now
      <4>2. x # m /\ asked[x] = "now"
        BY <1>0, <2>1, <3>3, <4>1, Zenon
      <4>3. NowTask(x) # Head(queue)  BY <4>2 DEF NowTask
      <4>. QED  BY <1>0, <1>1, <2>1, <3>1, <4>2, <4>3, HoldsTail, ZenonT(40)
    <3>. QED  BY <3>2, <3>3, Zenon
  <2>. QED  BY <2>1, <2>2, <2>3, Zenon DEF ThreadTasks
<1>6. CASE DropTask
  BY <1>0, <1>6, Zenon DEF DropTask
<1>7. ASSUME NEW k \in DOMAIN timers, TimerFires(k) PROVE Holds(queue', NowTask(x))
  BY <1>0, <1>1, <1>7, TaskTypes, HoldsAppend, Zenon DEF TimerFires
<1>8. CASE Delete
  BY <1>8, Zenon DEF Delete
<1>9. CASE ThreadTick
  BY <1>1, <1>9, Zenon DEF ThreadTick
<1>10. CASE UNCHANGED threadVars
  BY <1>1, <1>10, ZenonT(40) DEF threadVars
<1>. QED
  BY <1>2, <1>3, <1>4, <1>5, <1>6, <1>7, <1>8, <1>9, <1>10, ZenonT(40) DEF ThreadNext, ThreadStep, Fire

-----------------------------------------------------------------------------

LEMMA InitType ==
  ThreadInit => ThreadTypeOK
<1> SUFFICES ASSUME ThreadInit PROVE ThreadTypeOK  OBVIOUS
<1>1. wants \in [Modules -> Relative] /\ nextCallback \in [Modules -> Relative]
  BY IntervalsAssumption, Zenon DEF ThreadInit, Relative
<1>2. queue \in Seq(ThreadTasks) /\ timers \in Seq(0..MaxWait)
  BY DEF ThreadInit
<1>. QED  BY <1>1, <1>2, Zenon DEF ThreadInit, ThreadTypeOK

(* Type correctness: in particular no Process waits longer than MaxWait,    *)
(* whatever the modules ask for.                                            *)
THEOREM ThreadTypeCorrect ==
  ThreadSpec => []ThreadTypeOK
BY InitType, TypeInductive, PTL DEF ThreadSpec

(* running_ always tells whether a Process is waiting, and there is never a *)
(* second one: RegisterModule may go by it.                                 *)
THEOREM OneProcessHolds ==
  ThreadSpec => []OneProcess
<1>1. ThreadInit => OneProcess
  BY DEF ThreadInit, OneProcess, ProcessTasks
<1>2. ThreadTypeOK /\ OneProcess /\ [ThreadNext]_threadVars => OneProcess'
  BY OneProcessInductive, Zenon
<1>. QED  BY <1>1, <1>2, ThreadTypeCorrect, PTL DEF ThreadSpec

(* No wake-up of a registered module is lost. *)
THEOREM WakeUpPendingHolds ==
  ThreadSpec => []WakeUpPending
<1>1. ThreadInit => WakeUpPending
  BY Zenon DEF ThreadInit, WakeUpPending
<1>2. ThreadTypeOK /\ WakeUpPending /\ [ThreadNext]_threadVars => WakeUpPending'
  BY WakeUpInductive
<1>. QED  BY <1>1, <1>2, ThreadTypeCorrect, PTL DEF ThreadSpec

(* DeRegisterModule and Delete are final: neither a task that was posted    *)
(* before nor a timer calls a module afterwards.                            *)
THEOREM OnlyRegisteredCalledHolds ==
  ThreadSpec => OnlyRegisteredCalled
<1>1. ThreadTypeOK /\ [ThreadNext]_threadVars => [called' \subseteq modules /\ (called' # {} => owner)]_threadVars
  <2> SUFFICES ASSUME ThreadTypeOK, ThreadNext
               PROVE  called' \subseteq modules /\ (called' # {} => owner)  BY Zenon
  <2>1. CASE RunTask
    <3>1. owner /\ Head(queue).type \in {"Process", "Process_now"}
      <4>1. owner /\ queue # <<>> /\ queue \in Seq(ThreadTasks)  BY <2>1, Zenon DEF RunTask, ThreadTypeOK
      <4>2. Head(queue) \in ThreadTasks  BY <4>1
      <4>. QED  BY <4>1, <4>2, Zenon DEF ThreadTasks
    <3>2. CASE Process(Tail(queue))
      BY <3>1, <3>2, Zenon DEF Process, CallProcess, DueModules
    <3>3. CASE Process_now(Head(queue).module)
      BY <3>1, <3>3, Zenon DEF Process_now, CallProcess
    <3>. QED  BY <2>1, <3>1, <3>2, <3>3, Zenon DEF RunTask
  <2>. QED
    BY <2>1, Zenon DEF ThreadNext, ThreadStep, Fire, RegisterModule, DeRegisterModule, WakeUp, DropTask,
           TimerFires, Delete, ThreadTick
<1>. QED  BY <1>1, ThreadTypeCorrect, PTL DEF ThreadSpec, OnlyRegisteredCalled

-----------------------------------------------------------------------------
(* ScheduleEvery. *)

(* When the next call is wanted. *)
Wanted == start + next_delay

(* The next call is not wanted before its multiple of the period. *)
WantedInv == /\ Wanted >= (runs + 1) * Period
             /\ NeverAhead

(* While calls end within a period the next one is wanted at its multiple,  *)
(* and the worker has not let a due task wait for longer than MaxLate.      *)
DriftInv == MaxLate + MaxRun <= Period =>
                /\ Wanted = (runs + 1) * Period
                /\ armed => now <= EveryDue + MaxLate
                /\ ranAt <= runs * Period + MaxLate

(* What durationToMs cuts off is less than a millisecond. *)
LEMMA DurationToMsBound ==
    ASSUME NEW d \in Nat
    PROVE  /\ DurationToMs(d) \in Nat
           /\ DurationToMs(d) <= d
           /\ d < DurationToMs(d) + Ms
<1>1. d % Ms \in 0 .. Ms - 1
  BY MsAssumption
<1>2. d % Ms <= d
  BY MsAssumption
<1> QED
  BY <1>1, <1>2, MsAssumption DEF DurationToMs

(* One more period. *)
LEMMA NextMultiple ==
    ASSUME NEW n \in Nat
    PROVE  /\ n * Period \in Nat
           /\ (n + 1) * Period = n * Period + Period
BY PeriodAssumption

(* A call that finds its object sets the next one for a period after it was *)
(* wanted itself, or for now when that has passed.                          *)
LEMMA NextWanted ==
    ASSUME EveryTypeOK, NEW end \in Nat, end >= now, now >= EveryDue
    PROVE  /\ Delay(end) \in 0 .. Period + Ms - 1
           /\ end + Delay(end) >= Wanted + Period
           /\ end <= Wanted + Period => end + Delay(end) = Wanted + Period
<1>1. next_delay \in Nat /\ start \in Nat /\ now \in Nat
  BY MsAssumption, PeriodAssumption, BoundAssumption DEF EveryTypeOK
<1>2. end > start + next_delay - Ms
  BY <1>1, DurationToMsBound, MsAssumption DEF EveryDue
<1> QED
  BY <1>1, <1>2, MsAssumption, PeriodAssumption DEF Delay, Wanted

(* The type invariant of scheduleEvery's state. *)
THEOREM EveryTypeCorrect == EverySpec => []EveryTypeOK
<1>1. EveryInit => EveryTypeOK
  BY MsAssumption, PeriodAssumption, BoundAssumption DEF EveryInit, EveryTypeOK
<1>2. EveryTypeOK /\ [EveryNext]_everyVars => EveryTypeOK'
  <2> SUFFICES ASSUME EveryTypeOK, [EveryNext]_everyVars PROVE EveryTypeOK'
    OBVIOUS
  <2>1. CASE EveryTick
    BY <2>1, BoundAssumption DEF EveryTick, EveryTypeOK
  <2>2. CASE Release
    BY <2>2, Zenon DEF Release, EveryTypeOK
  <2>3. CASE Run
    <3>1. CASE alive
      <4>1. PICK end \in now .. now + MaxRun :
                /\ end <= MaxNow
                /\ now' = end
                /\ runs' = runs + 1 /\ ranAt' = now
                /\ start' = end /\ next_delay' = Delay(end)
        BY <2>3, <3>1, Zenon DEF Run
      <4>2. end \in 0..MaxNow /\ end >= now
        BY <4>1, BoundAssumption DEF EveryTypeOK
      <4>3. next_delay' \in 0 .. Period + Ms - 1
        BY <2>3, <4>1, <4>2, NextWanted, BoundAssumption DEF Run
      <4> QED
        BY <2>3, <3>1, <4>1, <4>2, <4>3, BoundAssumption DEF Run, EveryTypeOK
    <3>2. CASE ~alive
      BY <2>3, <3>2, Zenon DEF Run, EveryTypeOK
    <3> QED
      BY <3>1, <3>2, Zenon
  <2>4. CASE UNCHANGED everyVars
    BY <2>4, ZenonT(40) DEF everyVars, EveryTypeOK
  <2> QED
    BY <2>1, <2>2, <2>3, <2>4, Zenon DEF EveryNext
<1> QED
  BY <1>1, <1>2, PTL DEF EverySpec

(* The n-th call comes less than a millisecond before n periods have        *)
(* passed, however late the calls before it were.                           *)
THEOREM NeverAheadHolds == EverySpec => []NeverAhead
<1>1. EveryInit => WantedInv
  BY PeriodAssumption DEF EveryInit, WantedInv, Wanted, NeverAhead
<1>2. EveryTypeOK /\ WantedInv /\ [EveryNext]_everyVars => WantedInv'
  <2> SUFFICES ASSUME EveryTypeOK, WantedInv, [EveryNext]_everyVars PROVE WantedInv'
    OBVIOUS
  <2>1. CASE EveryTick
    BY <2>1, ZenonT(40) DEF EveryTick, WantedInv, Wanted, NeverAhead
  <2>2. CASE Release
    BY <2>2, Zenon DEF Release, WantedInv, Wanted, NeverAhead
  <2>3. CASE Run
    <3>1. CASE alive
      <4>1. PICK end \in now .. now + MaxRun :
                /\ end <= MaxNow
                /\ now' = end
                /\ runs' = runs + 1 /\ ranAt' = now
                /\ start' = end /\ next_delay' = Delay(end)
        BY <2>3, <3>1, Zenon DEF Run
      <4>2. end \in Nat /\ end >= now /\ now >= EveryDue /\ now \in Nat /\ runs \in Nat
        BY <2>3, <4>1, BoundAssumption DEF EveryTypeOK, Run
      <4>3. Wanted \in Nat /\ Wanted' \in Int /\ Wanted' >= Wanted + Period
        BY <4>1, <4>2, NextWanted, MsAssumption, PeriodAssumption, BoundAssumption DEF Wanted, EveryTypeOK
      <4>4. now > Wanted - Ms
        BY <4>2, DurationToMsBound, MsAssumption, PeriodAssumption DEF Wanted, EveryDue, EveryTypeOK
      <4>5. Wanted' >= (runs' + 1) * Period
        BY <4>1, <4>2, <4>3, NextMultiple, PeriodAssumption DEF WantedInv
      <4>6. ranAt' > runs' * Period - Ms
        BY <4>1, <4>2, <4>3, <4>4, NextMultiple, MsAssumption DEF WantedInv
      <4> QED
        BY <4>5, <4>6, Zenon DEF WantedInv, NeverAhead
    <3>2. CASE ~alive
      BY <2>3, <3>2, Zenon DEF Run, WantedInv, Wanted, NeverAhead
    <3> QED
      BY <3>1, <3>2, Zenon
  <2>4. CASE UNCHANGED everyVars
    BY <2>4, Zenon DEF everyVars, WantedInv, Wanted, NeverAhead
  <2> QED
    BY <2>1, <2>2, <2>3, <2>4, Zenon DEF EveryNext
<1>3. WantedInv => NeverAhead
  BY Zenon DEF WantedInv
<1> QED
  BY <1>1, <1>2, <1>3, EveryTypeCorrect, PTL DEF EverySpec

(* While the calls end within a period of when they were wanted, the n-th   *)
(* call is late by its own delay only: lateness does not add up.            *)
THEOREM NoDriftHolds == EverySpec => []NoDrift
<1>1. EveryInit => DriftInv
  BY PeriodAssumption, MsAssumption, BoundAssumption, DurationToMsBound
     DEF EveryInit, DriftInv, Wanted, EveryDue
<1>2. EveryTypeOK /\ DriftInv /\ [EveryNext]_everyVars => DriftInv'
  <2> SUFFICES ASSUME EveryTypeOK, DriftInv, [EveryNext]_everyVars, MaxLate + MaxRun <= Period
               PROVE  DriftInv'
    BY Zenon DEF DriftInv
  <2>0. /\ next_delay \in Nat /\ start \in Nat /\ now \in Nat /\ runs \in Nat
        /\ DurationToMs(next_delay) \in Nat /\ DurationToMs(next_delay) <= next_delay
    BY DurationToMsBound, MsAssumption, PeriodAssumption, BoundAssumption DEF EveryTypeOK
  <2>1. CASE EveryTick
    BY <2>0, <2>1, BoundAssumption DEF EveryTick, DriftInv, Wanted, EveryDue
  <2>2. CASE Release
    BY <2>2, Zenon DEF Release, DriftInv, Wanted, EveryDue
  <2>3. CASE Run
    <3>1. CASE alive
      <4>1. PICK end \in now .. now + MaxRun :
                /\ end <= MaxNow
                /\ now' = end
                /\ runs' = runs + 1 /\ ranAt' = now
                /\ start' = end /\ next_delay' = Delay(end)
        BY <2>3, <3>1, Zenon DEF Run
      <4>2. end \in Nat /\ end >= now /\ now >= EveryDue /\ armed
        BY <2>0, <2>3, <4>1, BoundAssumption DEF Run
      <4>3. now <= Wanted + MaxLate /\ Wanted \in Nat
        BY <2>0, <4>2, BoundAssumption DEF DriftInv, Wanted, EveryDue
      <4>4. Wanted' = Wanted + Period
        <5>1. end <= Wanted + Period
          BY <2>0, <4>1, <4>2, <4>3, BoundAssumption, PeriodAssumption
        <5> QED
          BY <4>1, <4>2, <5>1, NextWanted, Zenon DEF Wanted
      <4>5. Wanted' = (runs' + 1) * Period
        BY <2>0, <4>1, <4>4, NextMultiple DEF DriftInv
      <4>6. ranAt' <= runs' * Period + MaxLate
        BY <2>0, <4>1, <4>3, Zenon DEF DriftInv
      <4>7. now' <= EveryDue' + MaxLate
        <5>1. Delay(end) \in Nat
          BY <4>2, NextWanted, MsAssumption, PeriodAssumption
        <5>2. DurationToMs(Delay(end)) \in Nat
          BY <5>1, DurationToMsBound, Zenon
        <5>3. EveryDue' = end + DurationToMs(Delay(end))
          BY <4>1, Zenon DEF EveryDue, DurationToMs
        <5> QED
          BY <4>1, <4>2, <5>2, <5>3, BoundAssumption
      <4> QED
        BY <4>5, <4>6, <4>7, Zenon DEF DriftInv
    <3>2. CASE ~alive
      BY <2>3, <3>2, Zenon DEF Run, DriftInv, Wanted, EveryDue
    <3> QED
      BY <3>1, <3>2, Zenon
  <2>4. CASE UNCHANGED everyVars
    BY <2>4, Zenon DEF everyVars, DriftInv, Wanted, EveryDue
  <2> QED
    BY <2>1, <2>2, <2>3, <2>4, Zenon DEF EveryNext
<1>3. DriftInv => NoDrift
  BY Zenon DEF DriftInv, NoDrift
<1> QED
  BY <1>1, <1>2, <1>3, EveryTypeCorrect, PTL DEF EverySpec

(* Once the object is gone its function does nothing more and the timer is  *)
(* not set again.                                                           *)
THEOREM EndsWithObjectHolds == EverySpec => EndsWithObject
<1>1. [EveryNext]_everyVars => [~alive => runs' = runs /\ start' = start]_everyVars
  BY Zenon DEF EveryNext, everyVars, EveryTick, Release, Run
<1> QED
  BY <1>1, PTL DEF EverySpec, EndsWithObject

=============================================================================
