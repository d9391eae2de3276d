------------------------------ MODULE CSVWriter ------------------------------
(***************************************************************************)
(* csv::DelimWriter of scripts/csv.hpp: rows of texts and numbers become   *)
(* lines in batch_buffer_, which goes to the output stream and from there  *)
(* to the file.  The file is a sequence of characters; the stream, which   *)
(* is the standard library's, may be anywhere between two flushes when the *)
(* program is killed.                                                      *)
(***************************************************************************)
EXTENDS CSVNumbers

CONSTANT batch_flush_threshold_

VARIABLES
    Delim, quote_minimal, auto_flush_,
    plan,    \* the rows the program is about to write
    out,     \* batch_buffer_, what the stream holds back, and the file
    writer,  \* "open", "destroyed" or "killed"
    written, flushed  \* how many rows of the plan were written, and flushed

writerVars == <<Delim, quote_minimal, auto_flush_, plan, out, writer, written, flushed>>

-----------------------------------------------------------------------------
(* The line of a row. *)
HasSpecial(in) == \E i \in DOMAIN in : in[i] \in {Quote, Delim, CR, LF}

write_quoted_field(in) ==
    <<Quote>>
    \o FlattenSeq([i \in DOMAIN in |-> IF in[i] = Quote THEN <<Quote, Quote>> ELSE <<in[i]>>])
    \o <<Quote>>

write_escaped_field(in) ==
    IF HasSpecial(in) THEN write_quoted_field(in)
    ELSE IF quote_minimal THEN in ELSE <<Quote>> \o in \o <<Quote>>

(* A field is a text or a number. *)
write_field(field) ==
    IF field.kind = "number" THEN to_string(field.value) ELSE write_escaped_field(field.text)

Line(row) ==
    FlattenSeq([i \in DOMAIN row |->
                   (IF i = 1 THEN <<>> ELSE <<Delim>>) \o write_field(row[i])])
    \o <<LF>>

-----------------------------------------------------------------------------
flush_batch(o) == [o EXCEPT !.stream = @ \o o.batch, !.batch = <<>>]
FlushStream(o) == [o EXCEPT !.file = @ \o o.stream, !.stream = <<>>]

flush_batch_if_needed(o) ==
    IF Len(o.batch) >= batch_flush_threshold_ THEN flush_batch(o) ELSE o

finish_write_call(o) ==
    IF auto_flush_ THEN FlushStream(flush_batch(o)) ELSE flush_batch_if_needed(o)

Appended(o, row) == [o EXCEPT !.batch = @ \o Line(row)]

WriterInit(options) ==
    /\ Delim = options.delimiter /\ quote_minimal = options.quote_minimal
    /\ auto_flush_ = options.auto_flush /\ plan = options.rows
    /\ out = [batch |-> <<>>, stream |-> <<>>, file |-> <<>>]
    /\ writer = "open" /\ written = 0 /\ flushed = 0

Fixed == UNCHANGED <<Delim, quote_minimal, auto_flush_, plan>>

(* operator<< and write_row of a range or a tuple. *)
WriteRow ==
    /\ writer = "open" /\ written < Len(plan)
    /\ out' = finish_write_call(Appended(out, plan[written + 1]))
    /\ written' = written + 1
    /\ flushed' = IF auto_flush_ THEN written' ELSE flushed
    /\ UNCHANGED writer /\ Fixed

(* Many rows in one call. *)
write_rows(n) ==
    /\ writer = "open" /\ written + n <= Len(plan)
    /\ out' = finish_write_call(
                  FoldLeft(LAMBDA o, row : flush_batch_if_needed(Appended(o, row)),
                           out, SubSeq(plan, written + 1, written + n)))
    /\ written' = written + n
    /\ flushed' = IF auto_flush_ THEN written' ELSE flushed
    /\ UNCHANGED writer /\ Fixed

flush ==
    /\ writer = "open" /\ flushed < written
    /\ out' = FlushStream(flush_batch(out)) /\ flushed' = written
    /\ UNCHANGED <<writer, written>> /\ Fixed

\* Mutated Destroy: the batch is forgotten.
DestroyUnflushed ==
    /\ writer = "open" /\ writer' = "destroyed"
    /\ out' = FlushStream(out) /\ flushed' = written
    /\ UNCHANGED written /\ Fixed

(* The destructor. *)
Destroy ==
    /\ writer = "open" /\ writer' = "destroyed"
    /\ out' = FlushStream(flush_batch(out)) /\ flushed' = written
    /\ UNCHANGED written /\ Fixed

(* The program is killed, between two calls or while a row is written: the *)
(* file has any part of what the stream held back.                         *)
Kill ==
    /\ writer = "open" /\ writer' = "killed"
    /\ \E o \in {out} \cup
               {flush_batch(Appended(out, plan[n])) : n \in {written + 1} \cap DOMAIN plan} :
          \E n \in 0..Len(o.stream) :
             out' = [batch |-> <<>>, stream |-> <<>>, file |-> o.file \o SubSeq(o.stream, 1, n)]
    /\ UNCHANGED <<written, flushed>> /\ Fixed
=============================================================================
