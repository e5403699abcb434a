---------------------------- MODULE MCFlowControl ----------------------------
(* Small instances of FlowControl. *)
EXTENDS FlowControl, TLC

CallerSymmetry == Permutations(Callers)
=============================================================================
