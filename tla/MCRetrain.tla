------------------------------ MODULE MCRetrain ------------------------------
(* Instances of Retrain for TLC.                                           *)
EXTENDS Retrain

CONSTANTS t, u

Option(r, l, f, s) == [refresh |-> r, rawlabel |-> l, fail |-> f, slot |-> s]

(* The weekly run in place, and a lenient staged one on the bars at hand   *)
(* that leaves the sigma head alone.                                       *)
CommandLines == {Option(TRUE, TRUE, TRUE, "prod"), Option(FALSE, FALSE, FALSE, "staging")}

(* One name is excluded, or the file does not validate.                    *)
Edits == {[valid |-> TRUE, names |-> {u}], [valid |-> FALSE, names |-> {}]}

(* One name without any bar yet.                                           *)
HalfEmpty == [n \in Tickers |-> IF n = t THEN 1 ELSE 0]
=============================================================================
