------------------------------ MODULE CSVFiles ------------------------------
(***************************************************************************)
(* A file from its writer to its reader: a program writes rows with a      *)
(* DelimWriter, or somebody else does; it may be killed on the way; then   *)
(* the file is read in chunks by one of the parsers, and its fields are    *)
(* asked for as texts and as numbers.                                      *)
(***************************************************************************)
EXTENDS CSVWriter, CSVSource

CONSTANT Setups  \* rows and options of the writer and of the reader

vars == <<writerVars, sourceVars>>

Init ==
    \E setup \in Setups : WriterInit(setup.writer) /\ SourceInit(setup.source, setup.format)

(* Rows that another program wrote, with line ends of its own, the last of *)
(* which it may leave out, and a byte order mark in front or none.  With   *)
(* the mark, the first row is in the head: the mark of a row that has to   *)
(* be parsed a second time would be taken for text.                        *)
Foreign ==
    /\ writer = "open" /\ written = 0 /\ plan # <<>> /\ writer' = "foreign"
    /\ \E bom \in {<<>>, BOM}, end \in {<<LF>>, <<CR, LF>>}, last \in BOOLEAN :
          LET lines == [n \in DOMAIN plan |-> Front(Line(plan[n])) \o end]
              all == FlattenSeq(lines)
          IN  /\ bom # <<>> => Len(bom) + Len(lines[1]) <= HeadSize
              /\ out' = [out EXCEPT !.file = bom \o IF last THEN all
                                     ELSE SubSeq(all, 1, Len(all) - Len(end))]
    /\ written' = Len(plan) /\ flushed' = Len(plan) /\ Fixed

Write ==
    /\ WriteRow \/ (\E n \in 2..Len(plan) : write_rows(n)) \/ flush \/ Destroy \/ Kill \/ Foreign
    /\ UNCHANGED sourceVars

OpenFile == writer # "open" /\ Open(out.file) /\ UNCHANGED writerVars

ReadFile == Read /\ UNCHANGED writerVars

Ended == phase = "eof" /\ UNCHANGED vars

Next == Write \/ OpenFile \/ ReadFile \/ Ended

(* The program runs on: it writes, reads and ends. *)
Spec == Init /\ [][Next]_vars /\ WF_vars(Next)

-----------------------------------------------------------------------------
(* A row of one empty field is a blank line, and blank lines are no rows.  *)
IsBlank(values) == values \in {<<>>, << <<>> >>}
Meant(row) == [i \in DOMAIN row |->
    Trimmed(IF row[i].kind = "number" THEN to_string(row[i].value) ELSE row[i].text, format.trim)]
RowsMeant(given) == SelectSeq(given, LAMBDA row : ~IsBlank(Meant(row)))
ValuesOf(given) == [n \in DOMAIN RowsMeant(given) |-> Meant(RowsMeant(given)[n])]

RowsRead ==
    SelectSeq([n \in DOMAIN rows |-> LET chunk == chunks[rows[n].chunk]
                                     IN  Values(rows[n].row, chunk.data, chunk.fields, parser.flags)],
              LAMBDA values : ~IsBlank(values))

(* Whatever is in the fields, however the rows are quoted and wherever a   *)
(* chunk ends, the rows that are read are those that were written; only    *)
(* the last row of a file whose writer was killed may be another.          *)
RowsAsWritten ==
    IsPrefix(IF writer = "killed" /\ RowsRead # <<>> THEN Front(RowsRead) ELSE RowsRead,
             ValuesOf(plan))

(* What was flushed, or written by a writer that was destroyed, is read,   *)
(* all of it.                                                              *)
NothingFlushedIsLost ==
    phase = "eof" => IsPrefix(ValuesOf(SubSeq(plan, 1, flushed)), RowsRead)

(* The type of a number: the smallest one that holds its absolute value.  *)
(* An integer beyond all of them is CSV_BIGINT, "Value too big to fit in a *)
(* 64-bit in" as the enumeration says of it, although the note above it    *)
(* has it "stored and classified as doubles".                              *)
TypeOf(value) ==
    IF ~value.integral THEN CSV_DOUBLE
    ELSE CHOOSE t \in CSV_INT8..CSV_BIGINT :
            \A w \in IntTypes : w < t <=> Magnitude(value.m) > CSV_INT_MAX[w]

(* A number is read back as the number that was written, rounded, and as   *)
(* the numeral says that somebody wrote; as one of its type, CSV_BIGINT if *)
(* no integral type holds it; and it converts to just the types that hold  *)
(* it, but for the lowest value of a signed type.                          *)
IsRead(value, in) ==
    /\ data_type(in).type = TypeOf(value) /\ SameNumber(data_type(in).value, value)
    /\ \A w \in IntTypes :
          /\ (get(in, "signed", w) = "converted") =
                (value.integral /\ Magnitude(value.m) <= CSV_INT_MAX[w])
          /\ (get(in, "unsigned", w) = "converted") =
                (value.integral /\ value.m \in 0..(2 * CSV_INT_MAX[w] + 1))
          /\ get(in, "float", w) = "converted"

NumbersReadBack ==
    phase = "eof" /\ writer # "killed" =>
        \A n \in DOMAIN RowsRead : LET row == RowsMeant(plan)[n] IN
            \A i \in DOMAIN row :
                /\ row[i].kind = "number" => IsRead(AsWritten(row[i].value), RowsRead[n][i])
                /\ row[i].kind = "numeral" => IsRead(row[i].value, RowsRead[n][i])

(* A file is read to its end. *)
ReadEnds == <>(phase = "eof")
=============================================================================
