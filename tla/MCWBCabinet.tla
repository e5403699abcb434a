---------------------------- MODULE MCWBCabinet ----------------------------
(* The sellers, names and tokens on which WBCabinet is checked. *)
EXTENDS WBCabinet, TLC

CONSTANTS o1, o2, s1, s2, n1, n2, k1, k2

\* n2 is n1 in another spelling: both normalize to n1.
JustName == n1 :> n1
OneName == n1 :> n1 @@ n2 :> n1
TwoNames == n1 :> n1 @@ n2 :> n2

OneSeller == k1 :> s1 @@ k2 :> s1
TwoSellers == k1 :> s1 @@ k2 :> s2

Symmetry == Permutations(Workers)

=============================================================================
