------------------------- MODULE MCShadowScheduler -------------------------
(* Instances of ShadowScheduler for TLC.                                   *)
EXTENDS ShadowScheduler

CONSTANTS a, b, x

Live(w, k, e) == [want |-> w, book |-> k, exits |-> e]

(* Quiet, both names with an exit, and both names with one that the        *)
(* order-state book already has in flight.                                 *)
Reads == {Live({}, {}, {}), Live({a, b}, {}, {x}), Live({a, b}, {a}, {})}

FewReads == {Live({}, {}, {}), Live({a}, {}, {})}

Config(v, e, f, n, g) ==
    [valid |-> v, enabled |-> e, flag |-> f, cycles |-> n, gate |-> g]

(* An invalid, a disabled and an unflagged configuration, and good ones:   *)
(* one with max_cycles and one edited between two processes.               *)
AllConfigs ==
    {Config(FALSE, FALSE, TRUE, 0, "g1"), Config(TRUE, FALSE, TRUE, 0, "g1"),
     Config(TRUE, TRUE, FALSE, 0, "g1"), Config(TRUE, TRUE, TRUE, 2, "g1"),
     Config(TRUE, TRUE, TRUE, 0, "g2")}

OneConfig == {Config(TRUE, TRUE, TRUE, 0, "g1")}

(* Yesterday's run and, should calendar and database disagree, today's.    *)
Days == [s \in Signals |-> IF s = "late" THEN 1 ELSE 0]

(* A session with an entry window, one too short for it, and a holiday.    *)
Calendar == {[open |-> 0, close |-> 5], [open |-> 1, close |-> 3], NoSession}

LongDay == {[open |-> 0, close |-> 4]}
=============================================================================
