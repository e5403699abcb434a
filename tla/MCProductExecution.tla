------------------------- MODULE MCProductExecution -------------------------
(* The shapes of plans on which ProductExecution is checked. *)
EXTENDS ProductExecution, TLC

CONSTANTS t1, t2, g1, g2, i1, i2, a1, a2, v1, v2

\* No card exists when the plans are made.
NothingExists == [t \in Transfers |-> {}]

\* One transfer, one action that publishes a group of two items.
PairTransferOf == a1 :> t1
PairMembersOf == a1 :> {i1, i2}
PairGroupOf == i1 :> g1 @@ i2 :> g1
PairVendorOf == i1 :> v1 @@ i2 :> v2

\* One transfer with two groups of one item, each published by its own action.
OnePlanTransferOf == a1 :> t1 @@ a2 :> t1
OnePlanMembersOf == a1 :> {i1} @@ a2 :> {i2}
OnePlanGroupOf == i1 :> g1 @@ i2 :> g2
OnePlanVendorOf == i1 :> v1 @@ i2 :> v2

\* Two transfers that publish the same vendor code.
SharedTransferOf == a1 :> t1 @@ a2 :> t2
SharedMembersOf == a1 :> {i1} @@ a2 :> {i2}
SharedGroupOf == i1 :> g1 @@ i2 :> g2
SharedVendorOf == i1 :> v1 @@ i2 :> v1

=============================================================================
