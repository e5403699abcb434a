------------------------ MODULE MCAttentionResolution ------------------------
(* The plans on which AttentionResolution is checked. *)
EXTENDS AttentionResolution

CONSTANTS t1, g1, g2, i1, i2, a1, a2, v1, v2

MCVendorOf == i1 :> v1 @@ i2 :> v2
NothingExists == t1 :> {}

\* Two groups of one item, each published by its own action.
TwoTransferOf == a1 :> t1 @@ a2 :> t1
TwoMembersOf == a1 :> {i1} @@ a2 :> {i2}
TwoGroupOf == i1 :> g1 @@ i2 :> g2

=============================================================================
