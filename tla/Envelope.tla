------------------------------ MODULE Envelope ------------------------------
(***************************************************************************)
(* What the canary envelope of one recorded authorization promises         *)
(* (section 9.3a), whatever processes run, crash and restart under it:     *)
(* trading days are used up one by one, never given back and never beyond  *)
(* the ceiling, and an exhausted loss budget stays exhausted.              *)
(***************************************************************************)
EXTENDS Integers, FiniteSets

CONSTANTS Days, Ceiling
VARIABLES sessions, tripped

Init == sessions = {} /\ tripped = FALSE

\* A day is used up while the envelope still has a slot.
Use ==
    /\ Cardinality(sessions) < Ceiling
    /\ \E d \in Days \ sessions : sessions' = sessions \cup {d}
    /\ UNCHANGED tripped

\* Losses are only made on a day that was counted.
Trip ==
    /\ sessions # {} /\ ~tripped
    /\ tripped' = TRUE
    /\ UNCHANGED sessions

Next == Use \/ Trip

Spec == Init /\ [][Next]_<<sessions, tripped>>
=============================================================================
