---------------------------- MODULE MCAgentStore ----------------------------
(* Instances of AgentStore for TLC.                                        *)
EXTENDS AgentStore

CONSTANTS p1, p2, e1, e2, e3, k1, k2, k3

(* Two reviews (k1, k2) of one head of a pull request; k3 is a review of a *)
(* newer head of the same pull request.                                    *)
OnePr == [k \in Keys |-> 1]
TwoHeads == [k \in Keys |-> IF k = k3 THEN 2 ELSE 1]

(* A change request on one review, an approval on another.                 *)
ReviewKeys == [e \in Events |-> IF e = e1 THEN k1 ELSE k2]
ReviewKinds == [e \in Events |-> IF e = e1 THEN "changes" ELSE "approved"]

(* A change request and an approval that share a row, and a notice of a    *)
(* newer head.                                                             *)
RoundKeys == [e \in Events |-> IF e = e3 THEN k3 ELSE k1]
RoundKinds ==
    [e \in Events |-> CASE e = e1 -> "changes" [] e = e2 -> "approved" [] OTHER -> "other"]

(* A change request on the old head, an approval on the new one.           *)
TwoHeadKeys == [e \in Events |-> IF e = e1 THEN k1 ELSE k3]
TwoHeadKinds == [e \in Events |-> IF e = e1 THEN "changes" ELSE "approved"]
=============================================================================
