------------------------------- MODULE Timers -------------------------------
(***************************************************************************)
(* setTimeout, setInterval and setImmediate over the host's sleeps         *)
(* (runtime/polyfills/timers.js).  A timer is known by a number, and the   *)
(* numbers of timers that were cleared are kept in one set until the timer *)
(* comes up.                                                               *)
(***************************************************************************)
EXTENDS Integers, Sequences

CONSTANTS
  TimerIdMax,  \* the last number (0x7fffffff); the next is 1 again
  MaxTimers,   \* bound: timers that are set
  MaxTicks     \* bound: runs of an interval

ASSUME TimersAssumption == TimerIdMax \in Nat \ {0} /\ MaxTimers \in Nat /\ MaxTicks \in Nat

VARIABLES
  nextId,     \* the number of the next timer
  cancelled,  \* the numbers that were cleared
  timers,     \* in the order they were set, with what became of them
  ticking     \* the interval whose callback runs, 0 for none

timerVars == <<nextId, cancelled, timers, ticking>>

Indices == DOMAIN timers

TimersInit ==
  /\ nextId = 1 /\ cancelled = {}
  /\ timers = <<>> /\ ticking = 0

WrapEarly(n) == IF n + 1 >= TimerIdMax THEN 1 ELSE n + 1

nextTimerId(n) == IF n + 1 > TimerIdMax THEN 1 ELSE n + 1

(***************************************************************************)
(* A timer is asleep in the host, elapsed (its promise is resolved and its *)
(* turn has not come), running if it is an interval, or over.  What it was *)
(* told and what it did are kept for the property: cleared before it was   *)
(* over, runs, and late runs, those after it was cleared.                  *)
(***************************************************************************)
SetTimer(repeats) ==
  /\ Len(timers) < MaxTimers
  /\ nextId' = nextTimerId(nextId)
  /\ timers' = Append(timers, [id |-> nextId, repeats |-> repeats, state |-> "asleep",
                               cleared |-> FALSE, runs |-> 0, late |-> FALSE])
  /\ UNCHANGED <<cancelled, ticking>>

(***************************************************************************)
(* Whoever has the object or its number clears it, a timer that is over    *)
(* too.                                                                    *)
(***************************************************************************)
Clear(i) ==
  /\ cancelled' = cancelled \cup {timers[i].id}
  /\ timers' = [timers EXCEPT ![i].cleared = @ \/ timers[i].state # "over"]
  /\ UNCHANGED <<nextId, ticking>>

Elapse(i) ==
  /\ timers[i].state = "asleep"
  /\ timers' = [timers EXCEPT ![i].state = "elapsed"]
  /\ UNCHANGED <<nextId, cancelled, ticking>>

Dropped(i) ==
  /\ timers[i].id \in cancelled
  /\ cancelled' = cancelled \ {timers[i].id}
  /\ timers' = [timers EXCEPT ![i].state = "over"]
  /\ UNCHANGED ticking

Called(i) ==
  /\ timers[i].id \notin cancelled
  /\ timers[i].runs < MaxTicks
  /\ timers' = [timers EXCEPT ![i].state = IF timers[i].repeats THEN "running" ELSE "over",
                              ![i].runs = @ + 1,
                              ![i].late = @ \/ timers[i].cleared]
  /\ ticking' = IF timers[i].repeats THEN i ELSE ticking
  /\ UNCHANGED cancelled

(***************************************************************************)
(* Callbacks run one after another; what a callback sets and clears is     *)
(* steps of its own.                                                       *)
(***************************************************************************)
runOnce(i) ==
  /\ ticking = 0 /\ timers[i].state = "elapsed"
  /\ Dropped(i) \/ Called(i)
  /\ UNCHANGED nextId

(***************************************************************************)
(* The callback of an interval has returned or thrown: cleared meanwhile,  *)
(* it is over; otherwise it sleeps again.                                  *)
(***************************************************************************)
Again(i) ==
  /\ timers' = [timers EXCEPT ![i].state = IF timers[i].id \in cancelled THEN "over" ELSE "asleep"]
  /\ cancelled' = cancelled \ {timers[i].id}

tick ==
  /\ ticking # 0
  /\ Again(ticking)
  /\ ticking' = 0
  /\ UNCHANGED nextId

TimersNext ==
  \/ \E repeats \in BOOLEAN : SetTimer(repeats)
  \/ \E i \in Indices : Clear(i) \/ Elapse(i) \/ runOnce(i)
  \/ tick

-----------------------------------------------------------------------------
(***************************************************************************)
(* Timers obey their own callers only: as long as no other timer was given *)
(* its number, a timer that is cleared at any moment, in its own callback  *)
(* too, never runs again, and one that nobody cleared in time is never     *)
(* dropped, whatever else was cleared, twice or too late.  Numbers are     *)
(* unique until the counter wraps.                                         *)
(***************************************************************************)
Unshared(i) == \A j \in Indices \ {i} : timers[j].id # timers[i].id

TimersObey ==
  /\ \A i \in Indices : Unshared(i) =>
       /\ ~ timers[i].late
       /\ timers[i].state = "over" /\ (timers[i].repeats \/ timers[i].runs = 0) => timers[i].cleared
  /\ Len(timers) <= TimerIdMax => \A i \in Indices : Unshared(i)
=============================================================================
