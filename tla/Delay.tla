------------------------------- MODULE Delay -------------------------------
(***************************************************************************)
(* The clock of SysTick.h and the test its users make of it.  Times are    *)
(* uint32_t counts of ticks; MAX_DELAY is the largest of them.  The macro  *)
(* may read the clock several times; a tick that falls between two reads   *)
(* is taken as one before the first.                                       *)
(***************************************************************************)
EXTENDS Integers

CONSTANT MAX_DELAY    (* UINT32_MAX in the code *)

ASSUME MaxDelayAssumption == MAX_DELAY \in Nat \ {0}

Time == 0 .. MAX_DELAY

(* The uint32_t sum of two times. *)
Wrap(t) == IF t > MAX_DELAY THEN t - MAX_DELAY - 1 ELSE t

(* A mutant: the last tick of the wait ends it. *)
DELAY_REACHED(startTime, currentTime, waitTime) ==
  \/ /\ currentTime >= Wrap(startTime + waitTime)
     /\ currentTime > startTime
  \/ /\ Wrap(currentTime + (MAX_DELAY - startTime)) >= waitTime
     /\ currentTime < startTime

DELAY_EXCEEDED(startTime, currentTime, waitTime) ==
  \/ /\ currentTime > Wrap(startTime + waitTime)
     /\ currentTime > startTime
  \/ /\ Wrap(currentTime + (MAX_DELAY - startTime)) > waitTime
     /\ currentTime < startTime

(* The ticks from one time to a later one, less than a turn of the clock. *)
Elapsed(startTime, currentTime) == Wrap(currentTime + (MAX_DELAY + 1 - startTime))
=============================================================================
