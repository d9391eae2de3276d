-------------------------- MODULE LocalityAnalysis --------------------------
(***************************************************************************)
(* scripts/analyze_locality.cc on one parsed trace: the gaps between two   *)
(* accesses to the same page, and for every window size the number of      *)
(* pages in each window of that many accesses.  One action is one access,  *)
(* one turn of the loop of WindowTracker::observe, or the end.             *)
(***************************************************************************)
EXTENDS TraceRows

CONSTANT WindowSizes  \* the lists that --window-sizes may give

VARIABLES
    window_sizes,
    parsed,      \* the pages of the entries in the file
    accesses,
    last_seen, reuse_gap_counts, reuses,
    windows,     \* a WindowTracker per window size
    observer,    \* the one whose observe is called, 0 between two accesses
    locality,    \* "waits" for a file, "runs", "done", "refused" or "failed"
    gaps         \* p50, p90 and p99

localityVars == <<window_sizes, parsed, accesses, last_seen, reuse_gap_counts, reuses,
                  windows, observer, locality, gaps>>

LocalityInit ==
    /\ window_sizes \in WindowSizes
    /\ parsed = <<>> /\ accesses = 0
    /\ last_seen = NoCounts /\ reuse_gap_counts = NoCounts /\ reuses = 0
    /\ windows = [w \in DOMAIN window_sizes |->
                     [window_index |-> 0, window_start |-> 0, pages |-> {}, out |-> <<>>]]
    /\ observer = 0 /\ locality = "waits" /\ gaps = NoCounts

(* A file that does not consist of entries is refused. *)
LocalityOpens(f) ==
    /\ locality = "waits"
    /\ locality' = IF f.torn THEN "refused" ELSE "runs"
    /\ parsed' = [i \in DOMAIN f.entries |-> f.entries[i].page_id]
    /\ UNCHANGED <<window_sizes, accesses, last_seen, reuse_gap_counts, reuses, windows,
                   observer, gaps>>

Page == parsed[accesses + 1]

\* Mutated Access: the entry in last_seen is not renewed.
AccessFirst ==
    /\ locality = "runs" /\ observer = 0 /\ accesses < Len(parsed)
    /\ IF Page \in DOMAIN last_seen
       THEN /\ reuse_gap_counts' = Counted(reuse_gap_counts, accesses - last_seen[Page] - 1)
            /\ reuses' = reuses + 1 /\ UNCHANGED last_seen
       ELSE /\ last_seen' = [p \in DOMAIN last_seen \cup {Page} |->
                                IF p = Page THEN accesses ELSE last_seen[p]]
            /\ UNCHANGED <<reuse_gap_counts, reuses>>
    /\ observer' = 1
    /\ UNCHANGED <<window_sizes, parsed, accesses, windows, locality, gaps>>

Access ==
    /\ locality = "runs" /\ observer = 0 /\ accesses < Len(parsed)
    /\ IF Page \in DOMAIN last_seen
       THEN /\ reuse_gap_counts' = Counted(reuse_gap_counts, accesses - last_seen[Page] - 1)
            /\ reuses' = reuses + 1
       ELSE UNCHANGED <<reuse_gap_counts, reuses>>
    /\ last_seen' = [p \in DOMAIN last_seen \cup {Page} |->
                        IF p = Page THEN accesses ELSE last_seen[p]]
    /\ observer' = 1
    /\ UNCHANGED <<window_sizes, parsed, accesses, windows, locality, gaps>>

(* WindowTracker::flush; an empty window at its own start has no line. *)
Flush(w, current_access) ==
    IF w.pages = {} /\ current_access = w.window_start THEN w
    ELSE [window_index |-> w.window_index + 1, window_start |-> current_access, pages |-> {},
          out |-> Append(w.out, [index |-> w.window_index, first |-> w.window_start,
                                 last |-> current_access, unique |-> Cardinality(w.pages)])]

WindowOver == accesses >= windows[observer].window_start + window_sizes[observer]

\* Mutated ObserveFlush: the window is not moved on.
ObserveFlushInPlace ==
    /\ locality = "runs" /\ observer \in DOMAIN window_sizes /\ WindowOver
    /\ windows' = [windows EXCEPT ![observer] = Flush(@, @.window_start)]
    /\ UNCHANGED <<window_sizes, parsed, accesses, last_seen, reuse_gap_counts, reuses,
                   observer, locality, gaps>>

(* observe: the windows before this access end ... *)
ObserveFlush ==
    /\ locality = "runs" /\ observer \in DOMAIN window_sizes /\ WindowOver
    /\ windows' = [windows EXCEPT ![observer] =
           Flush(@, @.window_start + window_sizes[observer])]
    /\ UNCHANGED <<window_sizes, parsed, accesses, last_seen, reuse_gap_counts, reuses,
                   observer, locality, gaps>>

(* ... and its page is counted; after the last tracker comes the next entry. *)
ObserveInsert ==
    /\ locality = "runs" /\ observer \in DOMAIN window_sizes /\ ~WindowOver
    /\ windows' = [windows EXCEPT ![observer].pages = @ \cup {Page}]
    /\ IF observer = Len(window_sizes)
       THEN observer' = 0 /\ accesses' = accesses + 1
       ELSE observer' = observer + 1 /\ UNCHANGED accesses
    /\ UNCHANGED <<window_sizes, parsed, last_seen, reuse_gap_counts, reuses, locality, gaps>>

(* fread fails: the program returns, the windows so far are written. *)
LocalityFails ==
    /\ locality = "runs" /\ observer = 0 /\ accesses < Len(parsed)
    /\ locality' = "failed"
    /\ UNCHANGED <<window_sizes, parsed, accesses, last_seen, reuse_gap_counts, reuses,
                   windows, observer, gaps>>

(* finish of every tracker, and the summary. *)
LocalityEnds ==
    /\ locality = "runs" /\ observer = 0 /\ accesses = Len(parsed)
    /\ locality' = "done"
    /\ windows' = [w \in DOMAIN windows |-> Flush(windows[w], accesses)]
    /\ gaps' = [q \in {50, 90, 99} |-> Quantile(reuse_gap_counts, reuses, q)]
    /\ UNCHANGED <<window_sizes, parsed, accesses, last_seen, reuse_gap_counts, reuses,
                   observer>>

-----------------------------------------------------------------------------
(* The lines of a window size, with the accesses not yet written as a last *)
(* one, cut the accesses into windows of that size and count their pages.  *)
WindowsExact ==
    \A w \in {v \in DOMAIN windows : window_sizes[v] > 0} :
        LET out == windows[w].out
        IN  /\ \A i \in DOMAIN out :
                  /\ out[i].index = i - 1
                  /\ out[i].first = (i - 1) * window_sizes[w]
                  /\ out[i].last = IF i * window_sizes[w] <= Len(parsed)
                                   THEN i * window_sizes[w] ELSE Len(parsed)
                  /\ out[i].last > out[i].first
                  /\ out[i].unique = Cardinality(
                         {parsed[j] : j \in (out[i].first + 1)..out[i].last})
            /\ locality = "done" =>
                  Len(out) = (Len(parsed) + window_sizes[w] - 1) \div window_sizes[w]

(* The gaps are the numbers of accesses between neighbouring accesses to   *)
(* the same page.                                                          *)
GapsExact ==
    LET n == accesses + (IF observer = 0 THEN 0 ELSE 1)
        pairs == {<<i, j>> \in (1..n) \X (1..n) :
                     /\ i < j /\ parsed[i] = parsed[j]
                     /\ \A k \in (i + 1)..(j - 1) : parsed[k] # parsed[i]}
    IN  /\ reuses = Cardinality(pairs)
        /\ \A g \in 0..n :
              (IF g \in DOMAIN reuse_gap_counts THEN reuse_gap_counts[g] ELSE 0)
                  = Cardinality({<<i, j>> \in pairs : j - i - 1 = g})

LocalityExact == WindowsExact /\ GapsExact
=============================================================================
