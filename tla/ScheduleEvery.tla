---------------------------- MODULE ScheduleEvery ----------------------------
(***************************************************************************)
(* Worker::scheduleEvery: a function called every period.  Each call        *)
(* computes how late it was and shortens the wait for the next one.  The    *)
(* timer counts whole milliseconds while the skew is computed in clock      *)
(* ticks, so a call may also come early.  The function holds its object     *)
(* weakly and the series ends when the object is gone.                      *)
(***************************************************************************)
EXTENDS Integers

CONSTANTS
    Ms,             \* clock ticks of a millisecond
    Period,         \* the period of the series, in ticks
    MaxLate,        \* how late the worker may run a task that is due
    MaxRun,         \* how long the function may run
    MaxNow          \* bound on the clock

ASSUME MsAssumption == Ms \in Nat \ {0}
ASSUME PeriodAssumption == Period \in Nat \ {0}
ASSUME BoundAssumption == MaxLate \in Nat /\ MaxRun \in Nat /\ MaxNow \in Nat

VARIABLES
    now,            \* the clock
    alive,          \* the object of the function exists
    armed,          \* a delayed task is waiting
    start,          \* start, as the waiting task captured it
    next_delay,     \* next_delay, as the waiting task captured it
    runs,           \* calls of the function that found the object
    ranAt           \* time of the last of them

everyVars == <<now, alive, armed, start, next_delay, runs, ranAt>>

EveryInit == /\ now = 0 /\ alive = TRUE /\ armed = TRUE
             /\ start = 0 /\ next_delay = Period
             /\ runs = 0 /\ ranAt = 0

(* scheduleFromNow gives the timer whole milliseconds. *)
DurationToMs(d) == d - (d % Ms)

(* When the timer of the waiting task fires. *)
EveryDue == start + DurationToMs(next_delay)

(* The clock; the worker runs a task at most MaxLate after it is due. *)
EveryTick == /\ now < MaxNow
             /\ armed => now < EveryDue + MaxLate
             /\ now' = now + 1
             /\ UNCHANGED <<alive, armed, start, next_delay, runs, ranAt>>

(* The last reference to the object is given up. *)
Release == /\ alive
           /\ alive' = FALSE
           /\ UNCHANGED <<now, armed, start, next_delay, runs, ranAt>>

(* Mutant of Delay: the lateness is not made up for. *)
DelayWhole(end) == Period

(* The wait for the next call, computed when the function has returned. *)
Delay(end) ==
    LET clock_skew == end - start - next_delay
    IN  IF Period - clock_skew > 0 THEN Period - clock_skew ELSE 0

(* Mutant of Run: the series goes on without its object. *)
RunAnyway ==
    /\ armed /\ now >= EveryDue
    /\ \E end \in now .. now + MaxRun :
          /\ end <= MaxNow
          /\ now' = end
          /\ runs' = runs + 1 /\ ranAt' = now
          /\ start' = end /\ next_delay' = Delay(end)
          /\ UNCHANGED <<armed, alive>>

(* The delayed task: f(), and if that returns true the next delayed task.   *)
Run ==
    /\ armed /\ now >= EveryDue
    /\ \/ /\ alive
          /\ \E end \in now .. now + MaxRun :
                /\ end <= MaxNow
                /\ now' = end
                /\ runs' = runs + 1 /\ ranAt' = now
                /\ start' = end /\ next_delay' = Delay(end)
          /\ UNCHANGED <<armed, alive>>
       \/ /\ ~alive
          /\ armed' = FALSE
          /\ UNCHANGED <<now, alive, start, next_delay, runs, ranAt>>

EveryNext == EveryTick \/ Release \/ Run

EverySpec == EveryInit /\ [][EveryNext]_everyVars

-----------------------------------------------------------------------------

(* Type correctness: the wait is never negative and is at most a period and *)
(* the part of a millisecond the timer cut off.                             *)
EveryTypeOK == /\ now \in 0..MaxNow /\ start \in 0..MaxNow
               /\ next_delay \in 0 .. Period + Ms - 1
               /\ runs \in Nat /\ ranAt \in 0..MaxNow
               /\ alive \in BOOLEAN /\ armed \in BOOLEAN

(* The series is never ahead of its period: whatever lateness the earlier   *)
(* calls made up for, the n-th call of scheduleEvery's function comes less  *)
(* than a millisecond before n periods have passed.                         *)
NeverAhead == runs > 0 => ranAt > runs * Period - Ms

(* Lateness does not add up: while a call ends within a period of when it   *)
(* was wanted, the n-th call is late by its own delay only.                 *)
NoDrift == MaxLate + MaxRun <= Period => ranAt <= runs * Period + MaxLate

(* Once the object is gone its function does nothing more, and the timer    *)
(* is not set again.                                                        *)
EndsWithObject == [][~alive => runs' = runs /\ start' = start]_everyVars

=============================================================================
