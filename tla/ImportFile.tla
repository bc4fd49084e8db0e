----------------------------- MODULE ImportFile -----------------------------
(***************************************************************************)
(* parse_import and _dedupe_by_external_id: an uploaded catalogue as its   *)
(* lines, each blank, a row that does not validate, an item that is no     *)
(* object (JSON), or a product named by its external_id.  A file's own     *)
(* structural errors (a missing column, JSON that does not parse) refuse   *)
(* it as a whole and are left out.                                         *)
(***************************************************************************)
EXTENDS Naturals, Sequences, FiniteSets, SequencesExt, Ordering

Sku == {"a", "b"}
Formats == {"csv", "xlsx", "json"}

\* A JSON array has items and no blank lines, a table has cells and no items.
LinesOf(format) ==
    IF format = "json" THEN {"bad", "junk"} \union Sku ELSE {"bad", "blank"} \union Sku

Files(n) ==
    UNION {[format : {f}, lines : UNION {[1..k -> LinesOf(f)] : k \in 0..n}] : f \in Formats}

\* The number of line i: the header is row 1 of a table, an array has none.
RowNumber(format, i) == IF format = "json" THEN i ELSE i + 1

\* What the reader hands on, as <<row number, line>>: csv.DictReader skips blank
\* lines and its rows are counted after that; a workbook's are counted before.
Numbered(file) ==
    LET filled == Increasing({i \in DOMAIN file.lines : file.lines[i] # "blank"})
        counted(n) == IF file.format = "csv" THEN n ELSE filled[n]
    IN [n \in DOMAIN filled |->
          <<RowNumber(file.format, counted(n)), file.lines[filled[n]]>>]

\* _parse_table and _parse_json: rows that build a ProductInput, and errors.
Parse(file) ==
    LET rows == Numbered(file)
    IN [total  |-> Len(rows),
        rows   |-> KeptAt(rows, {n \in DOMAIN rows : rows[n][2] \in Sku}),
        errors |-> KeptAt(rows, {n \in DOMAIN rows : rows[n][2] \notin Sku})]

\* Mutant of Repeated: the first row of an external_id wins, and the later ones
\* are reported.
RepeatedEarlier(rows, i) == \E j \in DOMAIN rows : j < i /\ rows[j][2] = rows[i][2]

\* Whether a later row of the file has the same external_id.
Repeated(rows, i) == \E j \in DOMAIN rows : j > i /\ rows[j][2] = rows[i][2]

\* _dedupe_by_external_id: a dict keeps a key where it was first put, with the
\* row last put there; the row it replaced becomes an error.
Dedupe(rows) ==
    LET kept == {i \in DOMAIN rows : ~Repeated(rows, i)}
        firstOf(i) == CHOOSE k \in DOMAIN rows :
                        /\ rows[k][2] = rows[i][2]
                        /\ \A m \in DOMAIN rows : rows[m][2] = rows[i][2] => k <= m
        order == Ranked(kept, LAMBDA i, j : firstOf(i) < firstOf(j))
    IN [rows   |-> [n \in DOMAIN order |-> rows[order[n]]],
        errors |-> {rows[i] : i \in {j \in DOMAIN rows : Repeated(rows, j)}}]

-----------------------------------------------------------------------------
(* What reading a file promises. *)

\* Every filled line is imported or reported, once; of the rows of one
\* external_id the last is imported, and no statement sees one twice.
EveryLineIsAccountedFor(file) ==
    LET parsed == Parse(file)
        unique == Dedupe(parsed.rows)
        filled == {i \in DOMAIN file.lines : file.lines[i] # "blank"}
        reported == unique.errors \union ToSet(parsed.errors)
        all == Numbered(file)
    IN /\ parsed.total = Cardinality(filled)
       /\ Len(unique.rows) + Cardinality(reported) = parsed.total
       /\ ToSet(unique.rows) \intersect reported = {}
       /\ \A s \in Sku :
            LET mine == {n \in DOMAIN all : all[n][2] = s}
            IN mine # {} =>
                 all[CHOOSE n \in mine : \A m \in mine : m <= n] \in ToSet(unique.rows)
       /\ \A m, n \in DOMAIN unique.rows :
            unique.rows[m][2] = unique.rows[n][2] => m = n

\* What RowError's docstring says: a row's number is the one its reader would
\* point at in their own spreadsheet.
RowNumbersAreTheFiles(file) ==
    \A r \in ToSet(Numbered(file)) :
        \E i \in DOMAIN file.lines :
            RowNumber(file.format, i) = r[1] /\ file.lines[i] = r[2]

=============================================================================
