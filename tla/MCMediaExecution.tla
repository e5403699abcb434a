-------------------------- MODULE MCMediaExecution --------------------------
(* The plans on which MediaExecution is checked. *)
EXTENDS MediaExecution, TLC

CONSTANTS t1, g1, i1, i2, a1, v1, v2

MCVendorOf == i1 :> v1 @@ i2 :> v2

\* One group of two items that one action publishes, both with media.
PairTransferOf == a1 :> t1
PairMembersOf == a1 :> {i1, i2}
PairGroupOf == i1 :> g1 @@ i2 :> g1
NothingExists == t1 :> {}

=============================================================================
