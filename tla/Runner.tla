------------------------------- MODULE Runner -------------------------------
(***************************************************************************)
(* BufPoolRunner and run_loader (include/runner.hh) replaying the entries  *)
(* of a FileLoader over a buffer pool with any policy that keeps           *)
(* PoolContract.  access decides what to count as a hit and as an eviction *)
(* before it calls get_page.  An exception of the loader leaves run_loader *)
(* and the statistics are lost.                                            *)
(***************************************************************************)
EXTENDS PoolContract, Sequences

CONSTANTS EntrySize, BatchSize, MaxFileSize

(* The source has 4 MiB and 16, so that a batch is a number of entries. *)
ASSUME SizesAssumption ==
    /\ EntrySize \in Nat \ {0} /\ BatchSize \in Nat \ {0} /\ MaxFileSize \in Nat
    /\ BatchSize % EntrySize = 0

VARIABLES
    filesize, buffer, entries_in_buffer, cursor, file_offset, total_read, mode,
    trace,  \* the page numbers in the file, entry by entry
    stats   \* RunStatistics

Loader == INSTANCE FileLoader

loaderVars == <<filesize, buffer, entries_in_buffer, cursor, file_offset, total_read, mode>>
runVars == <<vars, loaderVars, trace, stats>>

RunInit ==
    /\ Init
    /\ Loader!Init
    /\ trace \in [1..filesize \div EntrySize -> Pages]
    /\ stats = [accesses |-> 0, hits |-> 0, misses |-> 0, evictions |-> 0]

(* What access decides beforehand. *)
IsHit(p) == p \in Resident

\* Mutated IsEviction: an access that hits a full pool counts as well.
IsEvictionOnHit(p) == Cardinality(Resident) = Capacity

\* Mutated IsEviction: the pool is taken to be full one page early.
IsEvictionEarly(p) == ~IsHit(p) /\ Cardinality(Resident) + 1 >= Capacity

IsEviction(p) == ~IsHit(p) /\ Cardinality(Resident) = Capacity

(* RunStatistics::record *)
Recorded(hit, eviction) ==
    [accesses  |-> stats.accesses + 1,
     hits      |-> stats.hits + (IF hit THEN 1 ELSE 0),
     misses    |-> stats.misses + (IF hit THEN 0 ELSE 1),
     evictions |-> stats.evictions + (IF eviction THEN 1 ELSE 0)]

(* The entry that get returns is the one of the file its first byte is in. *)
Requested == trace[(Loader!Entry[0] \div EntrySize) + 1]

(* One turn of the loop: get of the loader, access of the runner, record. *)
Step ==
    /\ Loader!Get
    /\ GetPage(Requested)
    /\ stats' = Recorded(IsHit(Requested), IsEviction(Requested))
    /\ UNCHANGED trace

Load == Loader!Reads /\ UNCHANGED <<vars, trace, stats>>

Fail == Loader!PreadFails /\ UNCHANGED <<vars, trace, stats>>

Returned == mode = "idle" /\ Loader!done

(* run_loader has returned or an exception has left it. *)
Ended == (Returned \/ mode = "thrown") /\ UNCHANGED runVars

RunNext == Step \/ Load \/ Fail \/ Ended

(* The loop runs in one thread that nothing stops, and pread returns. *)
RunSpec == RunInit /\ [][RunNext]_runVars /\ WF_runVars(Step \/ Load)

-----------------------------------------------------------------------------
RunTypeOK ==
    /\ TypeOK /\ Loader!TypeOK
    /\ trace \in Seq(Pages)
    /\ stats \in [accesses : 0..Len(trace), hits : 0..Len(trace),
                  misses : 0..Len(trace), evictions : 0..Len(trace)]

(* Short reads neither lose nor mix entries: what get is about to return   *)
(* are the bytes of the first entry of the file not returned before, in    *)
(* their order.                                                            *)
EntriesInOrder ==
    Loader!CanGet =>
        \A j \in 0..EntrySize - 1 : Loader!Entry[j] = stats.accesses * EntrySize + j

(* The statistics balance: every access is a hit or a miss, the pages that *)
(* were missed and not evicted are the resident ones, each page requested  *)
(* so far was missed at least once, and a run that returns has accessed    *)
(* every entry of the file.                                                *)
StatsBalance ==
    /\ stats.hits + stats.misses = stats.accesses
    /\ stats.misses = stats.evictions + Cardinality(Resident)
    /\ stats.misses >= Cardinality({trace[i] : i \in 1..stats.accesses})
    /\ Returned => stats.accesses = Len(trace)

(* The types, and the balance between what was counted, what was read and  *)
(* what the pool holds.                                                    *)
Consistent == RunTypeOK /\ StatsBalance

(* The predictions made before get_page are what get_page then does: a     *)
(* step that counts an eviction removes one page and a step that does not  *)
(* removes none, and only a step that counts a miss adds a page.           *)
PredictionsComeTrue ==
    [][ /\ Cardinality(Resident \ Resident') = stats'.evictions - stats.evictions
        /\ Cardinality(Resident' \ Resident) = stats'.misses - stats.misses ]_runVars

(* Every run ends: the loader is done or has thrown. *)
RunEnds == <>(Returned \/ mode = "thrown")
=============================================================================
