----------------------------- MODULE MCCardImport -----------------------------
(***************************************************************************)
(* Documents for the import.  Document 1 is correct.  Document 2 repeats a *)
(* vendor code and a barcode of document 1, has a row with a price that    *)
(* the first parser refuses, a row that contradicts the row before it, and *)
(* a card with the barcode of that refused row.  To the second parser it   *)
(* is correct and only shares the barcode.                                 *)
(***************************************************************************)
EXTENDS CardImport

Row(n, vendor, fields, codes) ==
    [row |-> n, vendor |-> vendor, fields |-> fields, size |-> "s",
     codes |-> codes]

MCParse(d, v) ==
    CASE d = 1 -> [rows |-> <<Row(3, "A", "f", {"a"}), Row(4, "B", "f", {"b", "c"})>>,
                   issues |-> {}]
      [] d = 2 /\ v = 1 ->
            [rows |-> <<Row(4, "A", "f", {}), Row(5, "A", "g", {"e"}),
                        Row(6, "F", "f", {"e"}), Row(7, "G", "f", {"b"})>>,
             issues |-> {[row |-> 3, code |-> "price_invalid"]}]
      [] d = 2 /\ v = 2 ->
            [rows |-> <<Row(3, "C", "f", {}), Row(6, "C", "f", {"e"}),
                        Row(7, "G", "f", {"b"})>>,
             issues |-> {}]
=============================================================================
