------------------------ MODULE MCTransferProjection ------------------------
(* Two groups, the first with two items, so that groups and items end at    *)
(* different times and with different results.                              *)
EXTENDS TransferProjection, TLC

CONSTANTS g1, g2, i1, i2, i3

MCGroupOf == i1 :> g1 @@ i2 :> g1 @@ i3 :> g2

=============================================================================
