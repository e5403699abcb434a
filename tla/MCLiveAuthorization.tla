------------------------- MODULE MCLiveAuthorization -------------------------
(***************************************************************************)
(* Instances of LiveAuthorization: two plans of one author, or one plan    *)
(* with two actions, and callers' commands that are duplicated and delayed.*)
(***************************************************************************)
EXTENDS LiveAuthorization

CONSTANTS p1, p2, a1, a2, author, stranger, k1, k2

PlanOfBoth == [a \in Actions |-> p1]

PlanOfEach == [a \in Actions |-> IF a = a1 THEN p1 ELSE p2]

Authored == [p \in Plans |-> author]
=============================================================================
