----------------------------- MODULE TraceTools -----------------------------
(***************************************************************************)
(* The tools of scripts/ on one raw trace, as the README has them used:    *)
(* convert_msr writes the parsed trace, analyze_raw_trace counts the       *)
(* requests of the same file, analyze_locality reads the parsed trace.     *)
(* The first two get their rows from a CSVReader, of which they know what  *)
(* RowStream says: rows in order, an end that may come before the last     *)
(* rows of the file, or an exception, which nobody catches.                *)
(***************************************************************************)
EXTENDS ConvertMSR, RawTraceStats, LocalityAnalysis

CONSTANT Traces  \* the raw traces, sequences of rows

VARIABLES
    trace,
    stage,                            \* the program that runs
    coming, last_chunk, got, status,  \* its reader
    converted                         \* the rows convert_msr got

readerVars == <<coming, last_chunk, got, status>>
vars == <<trace, stage, readerVars, converted, convertVars, rawVars, localityVars>>

Reader == INSTANCE RowStream

(* A file smaller than a chunk. *)
Opened(rows) == coming = rows /\ last_chunk = ToSet(rows) /\ Reader!Init

Init ==
    /\ trace \in Traces /\ Opened(trace)
    /\ stage = "convert" /\ converted = <<>>
    /\ ConvertInit /\ RawInit /\ LocalityInit

NextRow == Head(coming)
Row == coming # <<>> /\ Reader!Deliver(1)

Convert ==
    /\ stage = "convert"
    /\ \/ Row /\ ConvertRow(NextRow)
       \/ Row /\ ConvertRefuses(NextRow)
       \/ Row /\ Converts(NextRow) /\ WriteFails(Flushed(batch \o EntriesOf(NextRow)).out)
       \/ Reader!Fail(0, 0) /\ ConvertAborts
       \/ Reader!End /\ (ConvertEnds \/ ConvertEndsShort \/ WriteFails(batch))
    /\ UNCHANGED <<trace, stage, converted, rawVars, localityVars>>

Analyse ==
    /\ stage = "analyse"
    /\ \/ Row /\ AnalyseRow(NextRow)
       \/ Row /\ AnalysisRefuses(NextRow)
       \/ Reader!Fail(0, 0) /\ AnalysisAborts
       \/ Reader!End /\ AnalysisEnds
    /\ UNCHANGED <<trace, stage, converted, convertVars, localityVars>>

(* The next program is started on the same raw trace. *)
StartAnalysis ==
    /\ stage = "convert" /\ conversion # "runs"
    /\ stage' = "analyse" /\ converted' = got
    /\ coming' = trace /\ UNCHANGED last_chunk /\ got' = <<>> /\ status' = "open"
    /\ UNCHANGED <<trace, convertVars, rawVars, localityVars>>

StartLocality ==
    /\ stage = "analyse" /\ analysis # "runs"
    /\ stage' = "locality" /\ LocalityOpens(file)
    /\ UNCHANGED <<trace, readerVars, converted, convertVars, rawVars>>

Locality ==
    /\ stage = "locality"
    /\ Access \/ ObserveFlush \/ ObserveInsert \/ LocalityFails \/ LocalityEnds
    /\ UNCHANGED <<trace, stage, readerVars, converted, convertVars, rawVars>>

Finished ==
    /\ stage = "locality" /\ locality \in {"done", "refused", "failed"}
    /\ UNCHANGED vars

Next == Convert \/ StartAnalysis \/ Analyse \/ StartLocality \/ Locality \/ Finished

(* The programs run on. *)
Spec == Init /\ [][Next]_vars /\ WF_vars(Next)

-----------------------------------------------------------------------------
Wraps(row) == row.offset + row.size >= WORD

(* The pages convert_msr is about: those of the bytes of a request and of  *)
(* the byte after it.                                                      *)
PagesOf(row) ==
    SetToSortSeq({b \div PAGE : b \in row.offset..(row.offset + row.size)}, <)

Expected(row) ==
    [i \in DOMAIN PagesOf(row) |->
        [mode |-> IF row.type = "Read" THEN "Read" ELSE "Write",
         page_id |-> <<row.disk % (WORD \div DISK), PagesOf(row)[i]>>]]

Decoded(entries) ==
    [i \in DOMAIN entries |->
        [entries[i] EXCEPT !.page_id = <<@ \div DISK, @ % DISK>>]]

ConvertedRows == IF stage = "convert" THEN got ELSE converted

(* Whatever the batches and wherever the program stops, the file holds the *)
(* entries of the first requests in their order, disks kept apart; all of  *)
(* them when the program ended, unless the disk was full, of which nothing *)
(* tells; requests that end past the last byte of the disk excepted.       *)
ConvertsInOrder ==
    LET rows == SelectSeq(ConvertedRows, Converts)
        expected == FlattenSeq([i \in DOMAIN rows |-> Expected(rows[i])])
    IN  (\A i \in DOMAIN rows : ~Wraps(rows[i])) =>
            /\ IsPrefix(file.entries, stream)
            /\ IsPrefix(Decoded(stream \o batch), expected)
            /\ conversion # "aborted" => Len(stream \o batch) = Len(expected)
            /\ conversion = "done" => batch = <<>>

(* The two programs that read the raw trace agree: convert_msr has one     *)
(* entry more per request that is empty or ends with a page, and prints    *)
(* one page too few per request; the working set is that of the analysis   *)
(* of a complete file.                                                     *)
ExtraEntry(row) == row.size = 0 \/ (row.offset + row.size) % PAGE = 0

TotalsAgree ==
    /\ stage = "locality" /\ conversion = "done" /\ analysis = "done"
       /\ converted = got /\ page_size = PAGE /\ (\A i \in DOMAIN got : ~Wraps(got[i])) =>
            /\ Len(stream) = stats["overall"].total_pages
                   + Cardinality({i \in DOMAIN got : ExtraEntry(got[i])})
            /\ Len(stream) = num_pages + Len(got)
    /\ locality = "done" /\ conversion = "done" /\ file.entries = stream =>
            Cardinality(DOMAIN last_seen) = Cardinality(wset) /\ accesses = Len(stream)

(* Every request is counted once under its mode, every value of a table is *)
(* the quantile it claims to be, every distribution ends with all requests *)
(* and only requests of no byte are in no bucket of pages.                 *)
TablesAddUp ==
    /\ \A field \in {"requests", "total_bytes", "total_pages"} :
           Word(stats["read"][field] + stats["write"][field]) = stats["overall"][field]
    /\ analysis = "done" => \A s \in Series :
           LET t == tables[s]
           IN  /\ \A q \in {50, 90, 99} :
                      IsQuantile(t.summary.sizes[q], stats[s].size_counts, q)
               /\ stats[s].requests > 0 =>
                      /\ Max({t.size_dist[v] : v \in DOMAIN t.size_dist}) = stats[s].requests
                      /\ Max({t.page_dist[v] : v \in DOMAIN t.page_dist}) = stats[s].requests
               /\ FoldFunction(+, 0, t.summary.buckets)
                      = stats[s].requests - Bucket(stats[s].page_counts, 0, 0)
    /\ locality = "done" => \A q \in {50, 90, 99} : IsQuantile(gaps[q], reuse_gap_counts, q)

(* All three programs end, whatever happens to the files, if no window has *)
(* size 0: WindowTracker::observe never gets past such a window.           *)
ToolsEnd ==
    (\A w \in DOMAIN window_sizes : window_sizes[w] > 0)
        ~> locality \in {"done", "refused", "failed"}

-----------------------------------------------------------------------------
(* For model checking: raw traces of up to two requests, or three common  *)
(* ones, on pages of four bytes.                                           *)
Request(disk, type, offset, size) ==
    [disk |-> disk, type |-> type, offset |-> offset, size |-> size]

Requests == {
    Request(0, "Read", 3, 1),            \* ends with its page
    Request(1, "w", 3, 2),               \* crosses into the next page
    Request(4, "Read", 4, 8),            \* three entries, on the disk of number 0
    Request(0, "Write", 5, 0),           \* empty
    Request(0, "Read", 30, 4),           \* ends past the last byte
    Request(1, "Read", NotANumber, 1),
    Request(1, "flush", 0, 4)}           \* of no type analyze_raw_trace knows

Common == {Request(0, "Read", 3, 1), Request(0, "Write", 1, 2), Request(0, "Read", 6, 2)}

SmallTraces == UNION {[1..n -> Requests] : n \in 0..2} \cup [1..3 -> Common]

SmallWindows == {<<1, 2>>, <<3, 0>>}
=============================================================================
