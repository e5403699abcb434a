--------------------------- MODULE CardAggregation ---------------------------
(***************************************************************************)
(* AggregateParsedFile of cardimport/service/aggregation: the rows of one  *)
(* XLSX file become cards, one for each vendor code, and the rows that do  *)
(* not fit become error issues.                                            *)
(*                                                                         *)
(* A parsed row is [row, vendor, fields, size, codes]: its number in the   *)
(* sheet, the trimmed vendor code, the fields two rows of one card must    *)
(* agree on (group, category, price, title, ..., media), the size and the  *)
(* set of its barcodes (splitValues has removed repetitions and blanks).   *)
(* A card is [pos, rows, vendor, fields, skus], skus being the pairs       *)
(* <<size, barcode>>.  An issue is [row, code]; row 0 is the NULL row of   *)
(* an issue about the whole file.  Every issue the import makes is an      *)
(* error, so severities are left out.                                      *)
(***************************************************************************)
EXTENDS Integers, FiniteSets, SequencesExt

\* Card.Barcodes without the repetitions.
Barcodes(card) == {sku[2] : sku \in card.skus}

\* The same barcode under two sizes of one card.
RepeatsBarcode(card) == Cardinality(Barcodes(card)) # Cardinality(card.skus)

CardOf(row, position) ==
    [pos |-> position, rows |-> {row.row}, vendor |-> row.vendor,
     fields |-> row.fields, skus |-> {row.size} \X row.codes]

Start(parsed) == [cards |-> <<>>, issues |-> parsed.issues, seen |-> {}]

(***************************************************************************)
(* One turn of the loop over the rows.  The barcodes of a row are checked  *)
(* and remembered before its card is looked up, so the barcodes of a row   *)
(* that is then refused stay remembered.                                   *)
(***************************************************************************)
DuplicateBarcodeIssues(result, row) ==
    IF row.codes \cap result.seen = {} THEN {}
    ELSE {[row |-> row.row, code |-> "duplicate_barcode_in_file"]}

CardIndex(result, row) ==
    {i \in DOMAIN result.cards : result.cards[i].vendor = row.vendor}

ConflictingCardFields(card, row) == card.fields # row.fields

\* The card with one more row.
Joined(card, row) ==
    [card EXCEPT !.rows = @ \cup {row.row},
                 !.skus = @ \cup ({row.size} \X row.codes)]

AddRow(result, row) ==
    LET checked == [result EXCEPT
            !.issues = @ \cup DuplicateBarcodeIssues(result, row),
            !.seen = @ \cup row.codes]
    IN  IF CardIndex(result, row) = {}
        THEN [checked EXCEPT
                !.cards = Append(@, CardOf(row, Len(@) + 1))]
        ELSE LET i == CHOOSE j \in CardIndex(result, row) : TRUE
             IN IF ConflictingCardFields(result.cards[i], row)
                THEN [checked EXCEPT !.issues = @ \cup
                        {[row |-> row.row, code |-> "vendor_code_fields_conflict"]}]
                ELSE [checked EXCEPT !.cards[i] = Joined(@, row)]

AggregateParsedFile(parsed) ==
    LET after[n \in 0..Len(parsed.rows)] ==
            IF n = 0 THEN Start(parsed) ELSE AddRow(after[n - 1], parsed.rows[n])
    IN  after[Len(parsed.rows)]
=============================================================================
