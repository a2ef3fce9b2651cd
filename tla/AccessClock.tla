----------------------------- MODULE AccessClock ----------------------------
(* The clock by which API keys and sessions expire. *)
EXTENDS AccessBase, Naturals

CONSTANT MaxClock  \* bound: time

ASSUME ClockAssumption == MaxClock \in Nat

VARIABLE clock  \* Date.now()

Never == MaxClock + 1

Tick == clock < MaxClock /\ clock' = clock + 1
=============================================================================
