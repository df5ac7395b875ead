---------------------------- MODULE PeriodicTimers ----------------------------
(***************************************************************************)
(* What the timers of the programs promise.  Every timer has the offset 0  *)
(* and a period.  Its firings have the instants 0, Period, 2 * Period, ... *)
(* none is skipped or repeated, none comes before its instant, and the     *)
(* timers of one program fire in the order of their instants.              *)
(***************************************************************************)
EXTENDS Naturals

CONSTANTS
  Timers,
  Period,         \* of each timer
  Owner           \* the program of each timer

VARIABLES
  clock,          \* the physical time
  count           \* firings of each timer so far

timerVars == <<clock, count>>

TimersInit ==
  /\ clock = 0
  /\ count = [t \in Timers |-> 0]

\* The instant at which t fires next.
Instant(t) == count[t] * Period[t]

ClockGoesOn ==
  /\ clock' \in Nat
  /\ clock' > clock
  /\ UNCHANGED count

Fire(t) ==
  /\ Instant(t) <= clock
  /\ \A s \in Timers : Owner[s] = Owner[t] => Instant(t) <= Instant(s)
  /\ count' = [count EXCEPT ![t] = count[t] + 1]
  /\ UNCHANGED clock

TimersNext == ClockGoesOn \/ \E t \in Timers : Fire(t)

TimersSpec == TimersInit /\ [][TimersNext]_timerVars
=============================================================================
