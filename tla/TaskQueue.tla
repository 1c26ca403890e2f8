------------------------------ MODULE TaskQueue ------------------------------
(***************************************************************************)
(* The libevent task queue under every wa::Worker                          *)
(* (src/myrtc/rtc_base/task_queue_libevent.cc).                            *)
(*                                                                         *)
(* PostTask appends the task to pending_ under pending_lock_, releases the *)
(* lock, writes one byte to a non-blocking pipe and, when that write       *)
(* fails, takes the lock again and removes the task by its address.  The   *)
(* queue thread reads one byte at a time and runs the FRONT of pending_,   *)
(* which need not be the task whose post wrote the byte.  The three steps  *)
(* of a post are separate actions here, interleaved with other posters,    *)
(* with the queue thread and with Delete.                                  *)
(*                                                                         *)
(* A task is named by the number of its push, so a later push has a larger *)
(* number.  addr is where its QueuedTask object lives: an address is free  *)
(* for reuse as soon as the object at it has been deleted.                 *)
(***************************************************************************)
EXTENDS Integers, Sequences, FiniteSets

CONSTANTS
  Posters,        \* threads other than the queue's own that call PostTask
  QueueThread,    \* thread_ of the queue
  Addrs,          \* addresses the allocator hands out for QueuedTask objects
  PipeCapacity,   \* bytes the wakeup pipe holds before write() fails (EAGAIN)
  MaxPosts        \* bound on the number of posts in a behaviour

ASSUME PostersAssumption == IsFiniteSet(Posters) /\ QueueThread \notin Posters
ASSUME AddrsAssumption == Addrs # {}
ASSUME PipeAssumption == PipeCapacity \in Nat \ {0}
ASSUME MaxPostsAssumption == MaxPosts \in Nat

VARIABLES
  pending,      \* pending_: the tasks waiting, front first
  runTokens,    \* kRunTask bytes in the pipe ahead of any kQuit byte
  lateTokens,   \* kRunTask bytes in the pipe behind the kQuit byte
  quit,         \* the kQuit byte: "unsent", "inPipe" or "read" (is_active_ = false)
  thread,       \* the queue thread: "looping", "exited" or "joined"
  pc,           \* where each thread is inside PostTask
  posting,      \* the task each thread is posting
  runningTask,  \* the task whose Run() is on the queue thread's stack
  pendingTimers, \* pending_timers_: the delayed tasks armed as timer events
  next,         \* the number the next post gets
  addr,         \* address of each task posted to pending_ so far
  kind,         \* "task", or "setTimer" for a SetTimerTask wrapper
  status,       \* history: what became of each task
  accepted,     \* history: the tasks whose pipe write succeeded
  lastRun       \* history: the last task OnWakeup took from pending_

vars == <<pending, runTokens, lateTokens, quit, thread, pc, posting, runningTask,
          pendingTimers, next, addr, kind, status, accepted, lastRun>>

Threads == Posters \cup {QueueThread}
Tasks == 1 .. MaxPosts
NoTask == 0
Kinds == {"task", "setTimer"}
Statuses == {"unused", "queued", "started", "dropped", "deleted"}

TypeOK ==
  /\ pending \in Seq(Tasks)
  /\ runTokens \in Nat
  /\ lateTokens \in Nat
  /\ quit \in {"unsent", "inPipe", "read"}
  /\ thread \in {"looping", "exited", "joined"}
  /\ pc \in [Threads -> {"idle", "pushed", "failed"}]
  /\ posting \in [Threads -> Tasks \cup {NoTask}]
  /\ runningTask \in Tasks \cup {NoTask}
  /\ pendingTimers \subseteq Tasks
  /\ next \in 1 .. MaxPosts + 1
  /\ addr \in [Tasks -> Addrs]
  /\ kind \in [Tasks -> Kinds]
  /\ status \in [Tasks -> Statuses]
  /\ accepted \subseteq Tasks
  /\ lastRun \in Tasks \cup {NoTask}

(* The constructor: an empty queue, its pipe and its thread.  Addresses and
   kinds of tasks not posted yet are arbitrary and never read. *)
Init ==
  /\ pending = << >>
  /\ runTokens = 0
  /\ lateTokens = 0
  /\ quit = "unsent"
  /\ thread = "looping"
  /\ pc = [t \in Threads |-> "idle"]
  /\ posting = [t \in Threads |-> NoTask]
  /\ runningTask = NoTask
  /\ pendingTimers = {}
  /\ next = 1
  /\ addr = [k \in Tasks |-> CHOOSE a \in Addrs : TRUE]
  /\ kind = [k \in Tasks |-> "task"]
  /\ status = [k \in Tasks |-> "unused"]
  /\ accepted = {}
  /\ lastRun = NoTask

-----------------------------------------------------------------------------
(* wakeup_pipe_: a FIFO of bytes with a capacity. *)
PipeBytes == runTokens + lateTokens + (IF quit = "inPipe" THEN 1 ELSE 0)
PipeHasRoom == PipeBytes < PipeCapacity

WriteRunTask ==
  IF quit = "unsent"
    THEN runTokens' = runTokens + 1 /\ UNCHANGED lateTokens
    ELSE lateTokens' = lateTokens + 1 /\ UNCHANGED runTokens

(* The addresses of the QueuedTask objects that pending_ or the queue thread's
   stack owns.  The objects timer events own are elsewhere in memory: no post
   ever compares an address with theirs. *)
LiveAddrs ==
  {addr[k] : k \in {t \in Tasks : \/ status[t] = "queued"
                                 \/ t \in {runningTask} \ pendingTimers}}

(* A thread may call PostTask while the queue exists; the queue's own thread
   only from inside a task it is running. *)
MayPost(t) ==
  /\ pc[t] = "idle"
  /\ next <= MaxPosts
  /\ thread # "joined"
  /\ t = QueueThread => runningTask # NoTask

(* Mutant: push_front. *)
PushFront(t, a, k) ==
  /\ MayPost(t)
  /\ a \notin LiveAddrs
  /\ k = "setTimer" => t # QueueThread
  /\ pending' = <<next>> \o pending
  /\ pc' = [pc EXCEPT ![t] = "pushed"]
  /\ posting' = [posting EXCEPT ![t] = next]
  /\ addr' = [addr EXCEPT ![next] = a]
  /\ kind' = [kind EXCEPT ![next] = k]
  /\ status' = [status EXCEPT ![next] = "queued"]
  /\ next' = next + 1
  /\ UNCHANGED <<runTokens, lateTokens, quit, thread, runningTask, pendingTimers,
                 accepted, lastRun>>

(* PostTask, first critical section: the task joins pending_.  Off the queue
   thread PostDelayedTask is this with a SetTimerTask around the task. *)
Push(t, a, k) ==
  /\ MayPost(t)
  /\ a \notin LiveAddrs
  /\ k = "setTimer" => t # QueueThread
  /\ pending' = Append(pending, next)
  /\ pc' = [pc EXCEPT ![t] = "pushed"]
  /\ posting' = [posting EXCEPT ![t] = next]
  /\ addr' = [addr EXCEPT ![next] = a]
  /\ kind' = [kind EXCEPT ![next] = k]
  /\ status' = [status EXCEPT ![next] = "queued"]
  /\ next' = next + 1
  /\ UNCHANGED <<runTokens, lateTokens, quit, thread, runningTask, pendingTimers,
                 accepted, lastRun>>

(* PostTask, the write() to the pipe: it succeeds and the call returns, or the
   pipe is full and the task has to be taken back. *)
WriteOk(t) ==
  /\ pc[t] = "pushed"
  /\ PipeHasRoom
  /\ WriteRunTask
  /\ pc' = [pc EXCEPT ![t] = "idle"]
  /\ accepted' = accepted \cup {posting[t]}
  /\ UNCHANGED <<pending, quit, thread, posting, runningTask, pendingTimers, next, addr,
                 kind, status, lastRun>>

WriteFails(t) ==
  /\ pc[t] = "pushed"
  /\ ~PipeHasRoom
  /\ pc' = [pc EXCEPT ![t] = "failed"]
  /\ UNCHANGED <<pending, runTokens, lateTokens, quit, thread, posting, runningTask,
                 pendingTimers, next, addr, kind, status, accepted, lastRun>>

(* The positions of pending_ that hold a task at the address of task k. *)
AtAddressOf(k) == {i \in 1 .. Len(pending) : addr[pending[i]] = addr[k]}

Without(s, i) == [j \in 1 .. Len(s) - 1 |-> IF j < i THEN s[j] ELSE s[j + 1]]

(* PostTask, second critical section: remove_if by address.  The tasks in
   pending_ are distinct objects, so at most one is found; none when a byte of
   another post made the queue thread run it. *)
Remove(t) ==
  /\ pc[t] = "failed"
  /\ pc' = [pc EXCEPT ![t] = "idle"]
  /\ \/ /\ AtAddressOf(posting[t]) = {}
        /\ UNCHANGED <<pending, status>>
     \/ \E i \in AtAddressOf(posting[t]) :
          /\ pending' = Without(pending, i)
          /\ status' = [status EXCEPT ![pending[i]] = "dropped"]
  /\ UNCHANGED <<runTokens, lateTokens, quit, thread, posting, runningTask,
                 pendingTimers, next, addr, kind, accepted, lastRun>>

(* PostDelayedTask on the queue thread: a timer event, no pipe. *)
PostDelayedOnQueue ==
  /\ MayPost(QueueThread)
  /\ pendingTimers' = pendingTimers \cup {next}
  /\ next' = next + 1
  /\ UNCHANGED <<pending, runTokens, lateTokens, quit, thread, pc, posting, runningTask,
                 addr, kind, status, accepted, lastRun>>

-----------------------------------------------------------------------------
(* OnWakeup takes the front of pending_ and calls its Run(). *)
RunFront(woken, bytesLeft) ==
  /\ thread = "looping"
  /\ runningTask = NoTask
  /\ quit # "read"
  /\ woken
  /\ pending # << >>
  /\ runTokens' = bytesLeft
  /\ runningTask' = Head(pending)
  /\ lastRun' = Head(pending)
  /\ status' = [status EXCEPT ![Head(pending)] = "started"]
  /\ pending' = Tail(pending)
  /\ UNCHANGED <<lateTokens, quit, thread, pc, posting, pendingTimers, next, addr, kind,
                 accepted>>

(* Mutants: one task is run for all the bytes read; the byte is not read. *)
RunOnePerBatch == RunFront(runTokens > 0, 0)
RunWithoutRead == RunFront(runTokens > 0, runTokens)

(* OnWakeup with a kRunTask byte.  RTC_DCHECK(!pending_.empty()) is an
   invariant below and a guard of RunFront. *)
OnWakeupRunTask == RunFront(runTokens > 0, runTokens - 1)

(* OnWakeup with the kQuit byte: is_active_ becomes false. *)
OnWakeupQuit ==
  /\ thread = "looping"
  /\ runningTask = NoTask
  /\ runTokens = 0
  /\ quit = "inPipe"
  /\ quit' = "read"
  /\ UNCHANGED <<pending, runTokens, lateTokens, thread, pc, posting, runningTask,
                 pendingTimers, next, addr, kind, status, accepted, lastRun>>

(* A timer event comes due; its task stays owned by the timer while it runs. *)
RunTimer(k) ==
  /\ thread = "looping"
  /\ runningTask = NoTask
  /\ quit # "read"
  /\ k \in pendingTimers
  /\ runningTask' = k
  /\ status' = [status EXCEPT ![k] = "started"]
  /\ UNCHANGED <<pending, runTokens, lateTokens, quit, thread, pc, posting,
                 pendingTimers, next, addr, kind, accepted, lastRun>>

(* Run() returns: a SetTimerTask has armed the task it wraps, a timer event is
   erased, and the task object is deleted. *)
RunReturns ==
  /\ runningTask # NoTask
  /\ pc[QueueThread] = "idle"
  /\ pendingTimers' = IF runningTask \notin pendingTimers /\ kind[runningTask] = "setTimer"
                 THEN pendingTimers \cup {runningTask} ELSE pendingTimers \ {runningTask}
  /\ runningTask' = NoTask
  /\ UNCHANGED <<pending, runTokens, lateTokens, quit, thread, pc, posting, next, addr,
                 kind, status, accepted, lastRun>>

(* Mutants: the loop drains pending_ before it ends; the timers are left. *)
ThreadExitDrained ==
  /\ pending = << >>
  /\ thread = "looping"
  /\ quit = "read"
  /\ thread' = "exited"
  /\ pendingTimers' = {}
  /\ UNCHANGED <<pending, runTokens, lateTokens, quit, pc, posting, runningTask, next,
                 addr, kind, status, accepted, lastRun>>

ThreadExitKeepsTimers ==
  /\ thread = "looping"
  /\ quit = "read"
  /\ thread' = "exited"
  /\ UNCHANGED <<pending, runTokens, lateTokens, quit, pc, posting, runningTask,
                 pendingTimers, next, addr, kind, status, accepted, lastRun>>

(* ThreadMain leaves its loop once is_active_ is false and deletes the timers. *)
ThreadExit ==
  /\ thread = "looping"
  /\ quit = "read"
  /\ thread' = "exited"
  /\ pendingTimers' = {}
  /\ UNCHANGED <<pending, runTokens, lateTokens, quit, pc, posting, runningTask, next,
                 addr, kind, status, accepted, lastRun>>

(* Delete: write kQuit, retrying while the pipe is full ... *)
DeleteWritesQuit ==
  /\ quit = "unsent"
  /\ PipeHasRoom
  /\ quit' = "inPipe"
  /\ UNCHANGED <<pending, runTokens, lateTokens, thread, pc, posting, runningTask,
                 pendingTimers, next, addr, kind, status, accepted, lastRun>>

(* ... then join the thread and destroy the queue with what pending_ still
   holds.  No thread may be inside PostTask by then: "should not call any
   methods after Delete" (task_queue_base.h:32). *)
DeleteReturns ==
  /\ thread = "exited"
  /\ \A t \in Posters : pc[t] = "idle"
  /\ thread' = "joined"
  /\ pending' = << >>
  /\ status' = [k \in Tasks |-> IF status[k] = "queued" THEN "deleted" ELSE status[k]]
  /\ UNCHANGED <<runTokens, lateTokens, quit, pc, posting, runningTask, pendingTimers,
                 next, addr, kind, accepted, lastRun>>

PostStep(t) ==
  \/ \E a \in Addrs, k \in Kinds : Push(t, a, k)
  \/ WriteOk(t)
  \/ WriteFails(t)
  \/ Remove(t)

LoopStep ==
  \/ OnWakeupRunTask
  \/ OnWakeupQuit
  \/ \E k \in Tasks : RunTimer(k)
  \/ RunReturns
  \/ ThreadExit

Next ==
  \/ \E t \in Threads : PostStep(t)
  \/ PostDelayedOnQueue
  \/ LoopStep
  \/ DeleteWritesQuit
  \/ DeleteReturns

Spec == Init /\ [][Next]_vars

(* The queue thread is scheduled, the tasks it runs return, and a call of
   PostTask or Delete that has begun goes on.  Nobody has to post or to delete. *)
Fairness ==
  /\ WF_vars(LoopStep)
  /\ \A t \in Threads : WF_vars(WriteOk(t) \/ WriteFails(t) \/ Remove(t))
  /\ WF_vars(DeleteReturns)

FairSpec == Spec /\ Fairness

-----------------------------------------------------------------------------
(* The assertion RTC_DCHECK(!me->pending_.empty()) of OnWakeup: whenever the
   next byte in the pipe is a kRunTask, there is a task to run, although a post
   that fails takes its task back and a byte may run another post's task. *)
WakeupFindsTask == runTokens > 0 => pending # << >>

(* FIFO order ("Tasks are executed in FIFO order", task_queue_base.h:37): no task
   is still waiting that was pushed before a task OnWakeup has already taken. *)
RunInPushOrder == \A i \in 1 .. Len(pending) : pending[i] > lastRun

(* "On return ensures no task are running and no new tasks are able to start"
   (task_queue_base.h:27): once Delete has joined the thread nothing runs, is
   armed as a timer or is waiting. *)
DeleteQuiesces ==
  thread = "joined" =>
    /\ runningTask = NoTask
    /\ pendingTimers = {}
    /\ \A k \in Tasks : status[k] # "queued"

(* A task for which PostTask succeeded is started, unless the queue is being
   deleted: the byte it wrote, or one written for another task, reaches it. *)
AcceptedTaskStarts ==
  \A k \in Tasks :
    (k \in accepted) ~> (status[k] = "started" \/ quit # "unsent")

(* While no write to the pipe fails, a task for which PostTask succeeded is
   started: every byte finds its way to a task, whoever runs in between. *)
StartsUnlessWriteFails ==
  [](\A t \in Threads : pc[t] # "failed") => AcceptedTaskStarts

(* Delete does not hang: thread_.Stop() returns once kQuit is in the pipe,
   whatever is still queued, armed or posted meanwhile. *)
DeleteCompletes == (quit = "inPipe") ~> (thread = "joined")
=============================================================================
