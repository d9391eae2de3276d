---------------------------- MODULE RawTraceStats ----------------------------
(***************************************************************************)
(* scripts/analyze_raw_trace.cc on one trace: the requests, their sizes    *)
(* and the pages they touch, counted for all requests and for reads and    *)
(* writes, and the tables computed from the counts.                        *)
(***************************************************************************)
EXTENDS TraceRows

CONSTANT PageSizes  \* the values of --page-size

VARIABLES
    page_size,
    stats,     \* the Stats of every series
    analysis,  \* "runs", "done" or "aborted"
    tables     \* what write_summary_csv and write_distribution_csv write

rawVars == <<page_size, stats, analysis, tables>>

Series == {"overall", "read", "write"}

NoStats == [requests |-> 0, total_bytes |-> 0, total_pages |-> 0,
            size_counts |-> NoCounts, page_counts |-> NoCounts]

RawInit ==
    /\ page_size \in PageSizes
    /\ stats = [s \in Series |-> NoStats]
    /\ analysis = "runs" /\ tables = NoCounts

(* parse_mode; any other type aborts. *)
parse_mode == [mode \in {"Read", "read", "R", "r", "Write", "write", "W", "w"} |->
                  IF mode \in {"Read", "read", "R", "r"} THEN "read" ELSE "write"]

\* Mutated touched_pages: the byte after the request is counted.
touched_pages_more(offset, size_bytes) ==
    IF size_bytes = 0 THEN 0
    ELSE Word(Word(offset + size_bytes) \div page_size - offset \div page_size + 1)

touched_pages(offset, size_bytes) ==
    IF size_bytes = 0 THEN 0
    ELSE Word(Word(offset + size_bytes - 1) \div page_size - offset \div page_size + 1)

(* parse_row returns, and touched_pages does not divide by zero. *)
Analyses(row) ==
    /\ row.type \in DOMAIN parse_mode /\ Parses(row.offset) /\ Parses(row.size)
    /\ page_size = 0 => row.size = 0

(* Stats::add *)
Added(s, size_bytes, pages) ==
    [requests    |-> s.requests + 1,
     total_bytes |-> Word(s.total_bytes + size_bytes),
     total_pages |-> Word(s.total_pages + pages),
     size_counts |-> Counted(s.size_counts, size_bytes),
     page_counts |-> Counted(s.page_counts, pages)]

AnalyseRow(row) ==
    /\ analysis = "runs" /\ Analyses(row)
    /\ stats' = [s \in Series |->
                    IF s \in {"overall", parse_mode[row.type]}
                    THEN Added(stats[s], row.size, touched_pages(row.offset, row.size))
                    ELSE stats[s]]
    /\ UNCHANGED <<page_size, analysis, tables>>

AnalysisAborts ==
    /\ analysis = "runs" /\ analysis' = "aborted"
    /\ UNCHANGED <<page_size, stats, tables>>

AnalysisRefuses(row) == ~Analyses(row) /\ AnalysisAborts

-----------------------------------------------------------------------------
(* bucket_fraction and bucket_fraction_ge, as counts. *)
Bucket(counts, lower, upper) ==
    SumFunctionOnSet(counts, {v \in DOMAIN counts : lower <= v /\ v <= upper})

(* A line of write_summary_csv. *)
SummaryOf(s) ==
    [sizes   |-> [q \in {50, 90, 99} |-> Quantile(s.size_counts, s.requests, q)],
     buckets |-> <<Bucket(s.page_counts, 1, 1), Bucket(s.page_counts, 2, 4),
                   Bucket(s.page_counts, 5, 16), Bucket(s.page_counts, 17, WORD)>>]

(* write_distribution_csv: how many values there are up to each one. *)
DistributionOf(counts) == [v \in DOMAIN counts |-> UpTo(counts, v)]

AnalysisEnds ==
    /\ analysis = "runs" /\ analysis' = "done"
    /\ tables' = [s \in Series |->
                     [summary |-> SummaryOf(stats[s]),
                      size_dist |-> DistributionOf(stats[s].size_counts),
                      page_dist |-> DistributionOf(stats[s].page_counts)]]
    /\ UNCHANGED <<page_size, stats>>
=============================================================================
