------------------------------- MODULE Worker -------------------------------
(***************************************************************************)
(* wa::Worker as the peer connection sees it: a single thread that runs    *)
(* the tasks posted to it one at a time, in the order of the posts.        *)
(* Worker::task forwards to the libevent task queue; that queue is modelled*)
(* in detail, with its failures, in TaskQueue.  Here every post succeeds.  *)
(*                                                                         *)
(* A task is a record: its type names the lambda that was posted, the other*)
(* fields are what the lambda captured.                                    *)
(***************************************************************************)
EXTENDS Integers, Sequences

VARIABLE tasks          \* tasks posted to the worker and not yet started

workerVars == <<tasks>>

WorkerInit == tasks = <<>>

(* Mutant of Task: the newest task is run first. *)
TaskFirst(t) == tasks' = <<t>> \o tasks

(* Worker::task, from any thread. *)
Task(t) == tasks' = Append(tasks, t)

(* The worker thread starts the oldest task, which is of the given type. *)
Starts(type) == /\ tasks # <<>>
                /\ Head(tasks).type = type
                /\ tasks' = Tail(tasks)

=============================================================================
