-------------------------- MODULE MCSessionRunner --------------------------
(***************************************************************************)
(* SessionRunner on small instances: authorization a1 has the evidence for *)
(* real trading, a2 for paper only.                                        *)
(***************************************************************************)
EXTENDS SessionRunner

CONSTANTS a1, a2

\* a1 expires before the last day, a2 is recorded after the first.
Windows == [a \in Auths |-> IF a = a1 THEN 1 .. 2 ELSE 2 .. MaxDay]

AlwaysValid == [a \in Auths |-> Days]

OneSession == [a \in Auths |-> 1]

Ceilings == [a \in Auths |-> IF a = a1 THEN 2 ELSE 1]
=============================================================================
