----------------------------- MODULE ConvertMSR -----------------------------
(***************************************************************************)
(* scripts/convert_msr.cc on one argument: every request of the raw trace  *)
(* becomes one entry per page, in batches handed to a stdio stream.  The   *)
(* file gets whole blocks of the stream: the rest is written by fclose,    *)
(* whose result nobody looks at, and not at all when the program aborts.   *)
(***************************************************************************)
EXTENDS TraceRows

CONSTANTS
    PAGE,   \* 2^12, the bytes of a page
    DISK,   \* 2^60, the page numbers of a disk
    BATCH   \* WRITE_BATCH_SIZE

VARIABLES
    batch,
    stream,     \* the entries given to fwrite
    wset, max_page, max_dsknum, num_pages,
    file,       \* what is on the disk: whole entries, and whether part of one is
    conversion  \* "runs", "done" or "aborted"

convertVars == <<batch, stream, wset, max_page, max_dsknum, num_pages, file, conversion>>

ConvertInit ==
    /\ batch = <<>> /\ stream = <<>> /\ wset = {}
    /\ max_page = 0 /\ max_dsknum = 0 /\ num_pages = 0
    /\ file = [entries |-> <<>>, torn |-> FALSE]
    /\ conversion = "runs"

(* Everything but the four numeric fields is ignored, and so is a type     *)
(* that is not "Read".                                                     *)
Converts(row) == Parses(row.disk) /\ Parses(row.offset) /\ Parses(row.size)

Mode(row) == IF row.type = "Read" THEN "Read" ELSE "Write"

get_page(offset) == offset \div PAGE

(* No page number reaches into the bits of the disk number. *)
make_pageid(disknum, page) == Word(disknum * DISK) + page

LastPage(row) == get_page(Word(row.offset + row.size))

EntriesOf(row) ==
    LET start_pg == get_page(row.offset)
    IN  [i \in 1..(LastPage(row) - start_pg + 1) |->
            [mode |-> Mode(row), page_id |-> make_pageid(row.disk, start_pg + i - 1)]]

Larger(m, n) == IF m > n THEN m ELSE n

(* The batches that are full go out, the others stay. *)
Flushed(pushed) ==
    LET full == BATCH * (Len(pushed) \div BATCH)
    IN  [out |-> SubSeq(pushed, 1, full), left |-> SubSeq(pushed, full + 1, Len(pushed))]

ConvertRow(row) ==
    /\ conversion = "runs" /\ Converts(row)
    /\ LET flushed == Flushed(batch \o EntriesOf(row))
       IN  stream' = stream \o flushed.out /\ batch' = flushed.left
    /\ wset' = wset \cup {e.page_id : e \in ToSet(EntriesOf(row))}
    /\ num_pages' = Word(num_pages + LastPage(row) - get_page(row.offset))
    /\ max_page' = Larger(max_page, LastPage(row))
    /\ max_dsknum' = Larger(max_dsknum, row.disk)
    /\ UNCHANGED <<file, conversion>>

(* What may be on the disk when the entries s were given to the stream and *)
(* not all of it could be or was written.                                  *)
Pieces(s) ==
    [entries : {SubSeq(s, 1, n) : n \in 0..(Len(s) - 1)}, torn : BOOLEAN]
        \cup {[entries |-> s, torn |-> FALSE]}

(* abort() by parse_u64, or an exception of the reader that nobody         *)
(* catches: the batch is lost.                                             *)
ConvertAborts ==
    /\ conversion = "runs" /\ conversion' = "aborted"
    /\ file' \in Pieces(stream)
    /\ UNCHANGED <<batch, stream, wset, max_page, max_dsknum, num_pages>>

(* abort() after a fwrite that did not take the whole of a batch. *)
WriteFails(given) ==
    /\ conversion = "runs" /\ given # <<>> /\ conversion' = "aborted"
    /\ stream' = stream \o given /\ batch' = <<>>
    /\ file' \in Pieces(stream')
    /\ UNCHANGED <<wset, max_page, max_dsknum, num_pages>>

ConvertRefuses(row) == ~Converts(row) /\ ConvertAborts

\* Mutated ConvertEnds: the last batch is forgotten.
ConvertEndsEarly ==
    /\ conversion = "runs" /\ conversion' = "done"
    /\ file' = [entries |-> stream, torn |-> FALSE]
    /\ UNCHANGED <<batch, stream, wset, max_page, max_dsknum, num_pages>>

(* The last batch and fclose. *)
ConvertEnds ==
    /\ conversion = "runs" /\ conversion' = "done"
    /\ stream' = stream \o batch /\ batch' = <<>>
    /\ file' = [entries |-> stream', torn |-> FALSE]
    /\ UNCHANGED <<wset, max_page, max_dsknum, num_pages>>

(* The same on a disk that is full. *)
ConvertEndsShort ==
    /\ conversion = "runs" /\ conversion' = "done"
    /\ stream' = stream \o batch /\ batch' = <<>>
    /\ file' \in Pieces(stream')
    /\ UNCHANGED <<wset, max_page, max_dsknum, num_pages>>
=============================================================================
