# A verification project for eviction-analysis

TLA+ models of the buffer-pool eviction policies in `include/`, of the pool
they serve, the runner that replays traces over them, the configuration they
are run from, the tools in `scripts/` that prepare and analyse traces, and the
CSV library those tools read traces with; checked with TLC, and theorems about
the pool, five policies, the runner, the CSV reader and the data frame proved
with TLAPS. `PROJECT.json` lists the components, the runs, the
mutants of the code that each property detects, the source lines each
definition models, the hazards and the theorems.

## 1. Inventory

The benchmark is sequential: one thread asks a loader for the next page number
and a buffer pool for the page. What makes it hard is that four parties keep
their own view of the same frames (the pool's lookup table, the page number in
every handle, the policy's intrusive lists or heap, and the history of evicted
pages) and that a miss changes all of them in a fixed order, halfway through
which the policy calls back into the pool. The CSV library is concurrent: a
thread parses a chunk while another one consumes rows, and data frames run
callbacks on a pool of worker threads.

| component | state | operations | interacts with | what makes it correct |
|---|---|---|---|---|
| `list.hh` | links of the nodes, counter `size_` | push, pop_back, release, `_release_callback` | every policy | each node on one list; the counter is right wherever somebody trusts it |
| `bufpool.hh` | `lookup_tbl_`, `page_id` of every frame | `get_page`, `evict_callback`, `contains`, `resident_pages` | calls `get`/`touch`/`release` of the policy, is called back by `on_evict` | table and frames describe one assignment; evicts only when full, and then one page |
| `eviction_policy.hh` | none (a concept) | | pool and policies | what the pool may expect of a policy |
| `fifo_policy.hh`, `lru_policy.hh`, `random_policy.hh` | a free list and a list or vector of residents | get, touch, evict | pool | lists share out the frames; the order of eviction |
| `lru2_policy.hh`, `heap.hh` | free list, heap, last K access numbers of every frame, `seqnum_`, store of histories | get, touch, evict_one; push, pop, update with callbacks | pool, recency store | heap order and `heap_id` while keys change; the K-th last reference decides |
| `recency.hh`, `recency_pool.hh` | map, nodes, list of nodes | insert, contains, take | 2Q, LRU-K | remembers exactly the last keys |
| `2q_policy.hh` | free, cold and hot list, state per frame, recency store | get, touch, evict_one | pool, recency store | lists match states; a victim always exists; the share of cold pages |
| `arc_policy.hh` | the same with two lists of ghosts, history nodes, threshold | get, replace, touch | pool | bounds of the directory, no missing history node, no division by zero |
| `runner.hh`, `stats.hh` | `RunStatistics` | access, run_loader, record | loader, pool | predictions made before `get_page` come true; the counters balance |
| `loader.hh` | buffer, cursor, file offset | refill, get, done | the file, through `pread` | every entry once and in order in spite of short reads; ends |
| `benchmark_config.hh` | `current_section`, `current_values`, the specs so far | load_benchmark_specs, build_trace | trace generators | one spec per section, from its own entries; faulty files are refused and no others |
| `traces.hh` | none | seven generators | configuration | pages of the domain; no reserved page by accident |
| `main.cc` | none kept after a row | run_suite, run_policy | all of the above | a row depends on its policy and the trace only |
| `convert_msr.cc` | batch, working set, the stream to the file | one request, flush | CSVReader, file | entries of the requests in order, whole |
| `analyze_raw_trace.cc` | counts per series | one request, the tables | CSVReader | totals, quantiles and buckets add up |
| `analyze_locality.cc` | last access of each page, gaps, windows | one entry, observe, flush, finish | file of `convert_msr` | exact windows and gaps; ends |
| CSVReader, ThreadSafeDeque | queue of rows with its lock, two atomics, the thread, a stored exception | read_csv; check_for_rows, read_row, read_chunk, destructor | parser, caller | rows in order, once; errors arrive; nobody waits for ever |
| parsers of `csv.hpp` | chunk, position, current row and field, state of quotes; window or leftover | parse case by case, end_feed, next, guess_format | file or stream | the rows that were written, wherever a chunk ends |
| DelimWriter | batch buffer, stream | write_row, write_rows, flush, destructor | stream | what is flushed can be read back |
| field conversions | none | data_type, get, to_string | rows, writer | a number is read as the number written |
| DataFrame | rows, keys, overlays, lazy index | building, cells, lookups, erase | reader, callbacks | a keyed table; no edit lost; lookups find what is there |
| DataFrameExecutor | generation counters, next task, function, exception | parallel_for, worker_loop, destructor | callbacks | each task once; calls come back |

Hard behaviours, each with its line in `PROJECT.json` under "hazards":
callbacks in the middle of an update (an eviction inside a miss), values read
before a call and relied on after it (the runner's prediction), counters that
are deliberately not maintained (LRU and the recency pool unlink without
telling the list), keys that change while an element is in a heap, reserved
values that are also legal page numbers (`INVALID_ID`, `SENTINEL`), ghosts that
are displaced by the very miss that looks for them, short and failing reads and
writes, sections of a configuration that are only built when the next one
begins, boundaries (one frame, a full pool, a file of whole batches, a chunk
that ends between two quotes, a rounding that carries); and, in the CSV
library, two flags read one after the other, sleeping threads, exceptions that
cross threads, workers of an earlier call, rows erased under an index, and an
index built by a const method.

## 2. Modules

### Pool, policies and runner

One action stands for one call of `get_page`, everything it calls included,
because nothing can happen in between. `GetPage(p)` is split by the way the
call goes: a miss with a free frame, a miss that evicts, a hit. A failing
assertion is modelled as a guard of the action, so that a call that would stop
the program is a request no action serves; `EveryRequestServed` says there is
none. (With `NDEBUG` such a call would go on with garbage; the models say
nothing about that.)

| module | models | notes |
|---|---|---|
| `List` | `list.hh` | a list is the sequence of its linked elements together with `size_`; the two are separate, since callers make them differ |
| `BufPool` | `bufpool.hh` | `Admit` is the miss branch of `_get_page` around the policy's `get`, given the frames the policy evicted and the one it returned; `Found` is the hit branch |
| `PoolContract` | `bufpool.hh` with the concept in `eviction_policy.hh` | abstract: any policy that hands out free frames first and, when there is none, evicts one page and reuses its frame |
| `PoolContractProofs`, `RunnerProofs`, `PolicyProofs`, `SuiteProofs` | | theorems, section 4 |
| `FifoPolicy`, `LRUPolicy`, `RandomPolicy` | the policies, with the pool | the random index is a choice |
| `LRUKPolicy`, `UpdatableHeap` | `lru2_policy.hh`, `heap.hh` | heap slots are counted from 1. The loops that swap an element up or down are one shift along the path they take; HeapCallback is `Reported` |
| `RecencyPool` | `recency_pool.hh` as a value | used by 2Q (with `Void`) and LRU-K (with histories) |
| `TwoQPolicy` | `2q_policy.hh` | both recency stores, chosen in `Init` |
| `ARCPolicy` | `arc_policy.hh` | the history nodes are a value, `hist`; `Replace` is `replace` with the push of the freed frame by `get` |
| `Suite` | `run_suite`, `run_policy` of `main.cc` | composes the five policies over one set of variables: a row of the table is a choice of the policy in `Init`. The row of ARC is commented out in `main.cc` and kept here. LRU-K has a run of its own |
| `FileLoader` | `FileLoader` of `loader.hh` | one action per `pread`; a byte is known by its offset in the file |
| `Runner` | `runner.hh`, `stats.hh` | composes `FileLoader` and `PoolContract`: what holds here holds for every policy that implements the contract |
| `Traces` | `traces.hh` | a generator is the set of the traces it can return; overflow of an int sum wraps around or is widened |
| `BenchmarkConfig` | `benchmark_config.hh` | one action per line and way it goes; composes the parser with `Traces`. Lines and values are what the parser tells apart in them |

Abstract specifications on page numbers alone, which the policies are checked
to implement by a refinement mapping: `FifoQueue` (order of arrival),
`RecencyStack` (the most recently used items), `TwoQueues`, `AdaptiveCache`
(the four lists of ARC), `KthReference` (replacement by the K-th last counted
reference, with remembered histories). They say who the victim is; the frames,
lists, nodes, counters, heaps and maps of the code do not occur in them. Each
policy also implements `PoolContract` (`KeepsContract`), with the frames that
are not on its free list for `used`; this is what lets the theorems and the
results of `Runner` speak about all of them.

`requested` is a history variable, the argument of the last call of
`get_page`: it belongs to what a caller observes, and without it a policy that
ignores a hit would pass for one that takes no step.

### Tools

| module | models | notes |
|---|---|---|
| `TraceRows` | what the tools share: `parse_u64`, words, maps of frequencies, `quantile_from_counts` | a rank, computed in double in the code, is the exact ceiling |
| `ConvertMSR` | `convert_msr.cc` | one action per request; the stdio stream is told apart from the file, which holds some prefix of it when a write fails or the program aborts |
| `RawTraceStats` | `analyze_raw_trace.cc` | one action per request, one for the tables |
| `LocalityAnalysis` | `analyze_locality.cc` | one action per entry and per turn of the loop of `observe` |
| `TraceTools` | the three on one trace | the first two get rows from a reader of which they know what `RowStream` says, so that an early end or an exception of the CSV library is among the behaviours |

### CSV library

| module | models | notes |
|---|---|---|
| `ThreadSafeDeque` | the queue of rows | an operator is one critical section or one load of an atomic; the condition variable may wake without a reason |
| `Selections` | loops that pick elements with a test | a recursive function; also induction over the natural numbers and what is proved by it |
| `CSVReader` | `CSVReader` | the two threads, step by step: every load of a flag in `check_for_rows` is an action, so that the other thread can run in between. A row is its number in the file |
| `RowStream` | what the caller of a reader is promised | abstract; `CSVReader` implements it and `TraceTools` uses it |
| `CSVParser` | the parser, its field list, quotes and trimming | a parser is a record; one operator per case of the loop of `parse` |
| `CSVSource` | `MmapParser`, `StreamParser`, `guess_format` | one action per turn of the loop of `parse` and per chunk |
| `CSVNumbers` | `data_type`, `get`, `to_string` | a number is an integer and a count of decimal places; the limits of the integer types are constants |
| `CSVWriter` | `DelimWriter` | batch buffer, stream and file are told apart; the process may be killed between any two calls |
| `CSVFiles`, `MCCSVFiles` | a file from writer to reader | composes the four above; also files of other programs, with a byte order mark, CR LF and no last line end |
| `DataFrame` | rows, keys, overlays, index | a step is what a thread does between two accesses to shared memory |
| `DataFrameExecutor` | `parallel_for` and its workers | one action per critical section or atomic operation |
| `KeyedTable` | what the owner of a frame is promised | abstract |
| `ColumnApply` | `column_parallel_apply` and `chunk_parallel_apply` | composes frame and executor: callbacks edit cells, look keys up, or throw |
| `CSVReaderProofs`, `ColumnApplyProofs` | | theorems, section 4 |

The values that a run gives to constants are at the end of the module it checks
("For model checking"), and in `MCCSVFiles` for `CSVFiles`.

Variables of these modules that stand for nothing in the code are history
variables (`got`, `reason`, `retries` of the caller; `done`, `threw`, `asked`,
`outcome` of a call; `converted`, `written`, `flushed`) or name the place where
a thread is.

Bounds. Page numbers, frames, rows, tasks and workers are small sets. Counters
that grow without limit have a bound: the `size_` of a list from which nodes
are unlinked without `_release_callback` (`MaxCount`, `MaxMoves`), the sequence
numbers of LRU-K, which the code itself ends with an abort when the 64-bit
counter wraps around (`SeqRange`), calls after an error (`MaxRetries`), calls
of `parallel_for` (`MaxCalls`), and calls and other operations of the owner of a
frame by the number of its rows (`Bounds`). Requests that would pass a bound on a list's counter are not
explored, and `EveryRequestServed` excepts exactly those.

## 3. Runs

| run | instance | question |
|---|---|---|
| `runner` | 2 frames, files of up to 5 entries, 2 entries per batch, 4 pages of which one is `INVALID_ID` | entries in order, balanced statistics, predictions that come true, a consistent pool, an end |
| `suite` | FIFO and 2Q with 5 frames, LRU, Random and ARC with 3, 7 pages | lists intact, every request served, contract, and the victim each policy's description names |
| `lruk` | 4 frames, 6 pages, K = 2, stores of 1 and 2 histories or none, grace 0 and 2, 7 counted references | heap order, `heap_id`, histories in one place; the victim has the oldest K-th last reference |
| `config` | ints from -4 to 3, words modulo 16; 1887 files of up to two sections | specs as written, faulty files refused, pages in their domain |
| `csv_reader` | files of up to 3 rows and 3 chunks cut anywhere, blank rows, an unreadable chunk, four column policies, `read_row` and batches of 2, one retry | flags and queue agree; rows in order and once; errors arrive; both threads finish |
| `tools` | words of 32 values, pages of 4 bytes, batches of 2 entries, traces of up to 2 requests of seven kinds or 3 common ones, windows of 0 to 3 | entries in order whatever fails, totals that agree, exact windows, gaps and quantiles, an end |
| `data_frame` | 2 workers, 2 or 3 tasks, frames of up to 2 rows made in six ways; one call and 2 other operations of the owner, or, on one row, 2 calls | each task once, calls come back, a keyed table, no edit lost, lookups find keys |
| `csv_files` | up to 2 rows of up to 2 fields with quotes, line ends and delimiters in them, head of 9 and chunks of 14 characters; 40 numbers at the limits of the types, 12 with a carry, 144 numerals; mmap and stream | files are read as written, to the end; nothing flushed is lost; numbers are read back |
| `two_q_single`, `csv_reader_end`, `data_frame_index`, `csv_files_chunks` | small | expected violations, section 5 |

`runner` shows that short reads at any byte neither lose, repeat nor mix
entries (`EntriesInOrder`); that hits, misses and evictions balance with the
resident pages and that a run that returns has accessed the whole file
(`Consistent`); that the eviction `access` predicts before `get_page` is the
one that happens (`PredictionsComeTrue`); that the pool stays consistent and a
page keeps its frame as long as it is resident (`LookupCorrect`,
`CapacityRespected`, `PagesKept`), also for a page numbered `INVALID_ID`; and
that every run ends (`RunEnds`).

`config` loads a section of every kind, each with every key left out or given
a negative, zero, too large, non-numeric or empty value, all pairs of sound
sections, and pairs with a faulty or stray line in every place. `WellFormed`
says of a whole file, by the positions of its headers, what the parser decides
line by line; `LoadedAsWritten` states that the two agree and that each spec is
made of its own section. `PagesInDomain` is about the traces that come out,
and says that the page number which the pool and the recency pool reserve is
requested only if the file gives a negative start page. That overflow cannot
produce it is close: the largest sum of two ints that wraps ends three below
zero, and the reserved number is minus one as an unsigned word.

`csv_reader` states what is true of `check_for_rows` in spite of the race of
section 5: rows come in order and once, and an end that comes early leaves rows
of the last chunk only (`IsRowStream`). `tools` builds on exactly that promise,
so that `ConvertsInOrder` and `TotalsAgree` hold of the rows the programs got.

`tools` says how the programs count differently: `convert_msr` makes one entry
more than `analyze_raw_trace` counts pages for every request that is empty or
ends on a page boundary, and prints one page too few per request
(`TotalsAgree`). Requests whose end passes 2^64 are in the traces and excepted
from these two properties; the entries of such a request are none at all.

`csv_files` writes each file with the writer's own quoting, minimal or not,
flushed by itself or by its threshold, killed or destroyed, and reads it with
either parser; the chunk holds the longest row, which is what the library asks
of its user. A number is read back with the smallest type that holds it; that
an integer beyond all of them is `CSV_BIGINT` and not a double, as a note of the
library says, is in section 5.

`data_frame` has the lookups of callbacks only after the index was built;
without this restriction `data_frame_index` fails. Two calls of `parallel_for`
in a row let a worker that reported late, or was not yet asleep again, meet the
next call: it must be counted, find the tasks of that call and the function of
that call. The mutant of `TasksRunOnce` is wrong from the second call on only.
The two calls are on a frame of one row and without other operations of the
owner between them; one more doubles the state space. Callbacks of
the second call look nothing up, as there is no index.
The theorems have no such bound, but `CallsComeBack` is not among them.

Why the instances are large enough. The pages outnumber frames and ghosts
together (2Q: 5 + 2 of which 7 pages are used; ARC: 3 + 3 < 7), so that every
list fills, overflows and is emptied, and a page can be resident, remembered or
forgotten. The heap of four frames has three levels, so that an element sinks
twice and a right child is preferred. Files of 0 to 5 entries with batches of 2
have no batch, whole batches and a partial last batch; files of an odd number
of bytes are refused by the constructor. Three chunks have a first, a middle
and a last one, with and without rows; a queue told of at two rows is below, at
and above its limit. Three tasks on two workers make a worker come back for
more while the other one sleeps, runs or throws; two callbacks are enough to
lose an edit. A head of 9 and a chunk of 14 characters cut the rows between any
two characters, quotes and CR LF included. In `suite` and `lruk` the page
numbers are interchangeable, and `PageSymmetry` identifies states that differ in
their names only; the properties of these runs are invariants and step
properties, for which that is sound. `INVALID_ID` and `SENTINEL` are the same
number in the code, and one value outside `Pages` in these runs.

Deadlock is checked in every run except `lruk`, where the program really stops
(the abort in `touch`). The others have an explicit step for a program that
ended.

Fairness. `Runner`: weak fairness of the loader's and the runner's steps, since
one thread runs the loop and nothing can keep it from its next step; it
includes that a `pread` returns, with at least one byte or a failure.
`TraceTools`, `CSVFiles`: the program takes its next step. `CSVReader`,
`ColumnApply`: each thread takes a step that stays possible, as the scheduler
of the operating system sees to; a thread that waits on a condition variable
has none until it is woken. A wake-up without a reason is possible and never
owed, so that no liveness rests on one. No fairness is assumed of failures, of
calls of the owner, or of callbacks that throw.

## 4. Proofs

What a run shows for one small instance, these theorems show for every value of
the constants: any number of frames, pages, entries, rows, chunks, workers,
tasks and calls. The properties named are those the runs check. Bounds such as
`MaxCalls` or `MaxFileSize` are parameters here like any other.

| module | theorems |
|---|---|
| `PoolContractProofs` | `TypeCorrect`, `LookupIsCorrect`, `CapacityHolds`, `PagesAreKept` |
| `RunnerProofs` | `StatisticsBalance` (`Consistent`), `EntriesComeInOrder`, `PredictionsHold`, and that a run uses the pool as `PoolContract` says (`RunUsesPool`), from which `RunLookupCorrect`, `RunCapacityRespected` and `RunPagesKept` follow |
| `SuiteProofs`, with `PolicyProofs` for 2Q and ARC | `PoliciesConsistent` (`Consistent`), `ColdShareHolds`, `DirectoryIsBounded`, and four refinements: `PoliciesKeepContract` for all five policies, `FifoIsFifo`, `LRUIsLRU`, `TwoQIsTwoQueues` |
| `CSVReaderProofs` | `ReaderConsistent` (`Consistent`), and the refinement `ReaderIsRowStream` |
| `ColumnApplyProofs` | `TasksRunOnceHolds`, `FrameAndExecutorConsistent` (`Consistent`), `LookupsFindTheirKeys`, and the refinement `FrameIsKeyedTable` |
| `List`, `Selections` | lemmas about lists with a counter, and about the elements a loop picks |

### Assumptions

Named assumptions in the modules that declare the constants; TLC evaluates them
in every run. `CapacityAssumption`, `Suite!SizesAssumption`: at least one frame.
`Runner!SizesAssumption`: entries have a size, a batch is whole entries.
`NotifySizeAssumption`, `FilesAssumption`: the chunks of a file follow each
other to its last row, and the first holds the header, as the format is guessed
from it, or is the whole file. `ExecutorAssumption`: finitely many workers, none
of them the calling thread. `SetupsAssumption`: the default key is a key, and a
missing key is not one.

Three theorems assume more, and a check shows why:

- `PoliciesConsistent` and `TwoQIsTwoQueues` assume `SENTINEL \notin Pages`. A
  page of that number does break the recency pool (section 6). The other
  theorems about the suite do without: in particular 2Q keeps the contract of
  the pool and the cold share with any page numbers.
- `LookupsFindTheirKeys` assumes `~ColdLookups`: callbacks look keys up only
  when there is an index. Without it the property is false (`data_frame_index`).

### Arguments

*Pool.* `IInv` is `TypeOK`, `LookupInverse` and `UsedIsMapped`. `LookupInverse`
alone is not inductive: when a frame is filled one has to know that no other
entry of the table leads to it, which is what `UsedIsMapped` says of a frame
that was not handed out. `CapacityRespected` follows by a bijection between
resident pages and used frames, `PagesKept` from the effect of a step.

*Runner.* `RunInv` adds to the pool's invariant that the entries accessed are
the bytes before `file_offset` that are not left in the buffer (`OffsetCounts`),
that each byte of the batch is that of its place in the file, also in the middle
of a refill (`BufferHolds`), and the counters (`Balance`). Neither of the first
two is inductive without the other: `done` looks at the offset, `get` at the
buffer. The balance needs the two cardinalities a miss changes, which come from
the theorems about the pool.

*Policies.* Each invariant says which list a frame is on from what the code
knows of it: its state in 2Q and ARC, the list itself in FIFO, LRU and Random.
With it, every action is a step of `PoolContract` in which the frames that are
not on the free list are the used ones. The proofs use `PoolContractProofs`
through an instance. The counters of LRU and of the hot list of 2Q are not exact
(section 1), and the invariants do not say that they are. `FifoIsFifo` and
`LRUIsLRU` follow from what `PopBack`, `PushFront` and `Unlink` do to the pages
on a list. `TwoQIsTwoQueues` needs an invariant of the recency pool besides
(`GhostsKept`): its nodes in use come first in its list, as many as its map has
keys, so that `insert` is `Raised` on the sequence of keys, whether it moves the
node of a remembered key or takes the last node from the key it holds. Then an
eviction makes a ghost of the right page before the requested one is looked up,
and the pages on the two lists are the two queues. `ColdShare`, which gives
`ColdShareKept`, needs to know that nothing is remembered before the first
eviction. For ARC, `HistKept` says that a history node is free or carries one
ghost, and that the two ghost lists and the map have the same members; with the
bounds of the directory in the invariant each of the ways through `get` keeps
them, as each adds a page to one side only after it made room there. That
`replace` finds a history node to use (`resource_bound` in the hazards) is part
of it.

*CSV reader.* `ReaderInv` connects the flags with the places of the two threads
(`FlagsRight`), says what is left of a chunk when its thread has stopped
(`ChunkDone`), when the header is gone (`HeaderFirst`) and from which chunk the
rows in the queue are once the caller has found it empty (`RowsOfChunk`). The
last is what an early end needs: the rows lost are of the last chunk only. The
mapping to `RowStream` is the sequence of accepted rows in the queue, the chunk
in work and the chunks to come; a step of the worker moves rows between these
and is a stutter, and a call delivers what it takes from their front. What
`Selected` picks from a sequence, of any length, is proved by induction in
`Selections`.

*Executor.* A worker may come late and see the next call, so that `next_task`
runs past `task_count`; the invariant bounds it by the workers that have
finished (`Claims`), which shows too that nobody leaves tasks behind: the first
that finishes has seen them all claimed. `TasksKept` says that a claimed task
has ended or is in the hands of a worker, and that an exception is stored or
about to be; without it a call could complete with neither. `ActiveCounted` and
`Generations` are what lets `Return` conclude that all workers are done when the
last one says so.

*Frame.* `FrameInv` says that only a thread in the middle of an edit holds the
lock of a row, one thread a lock (`FrameConsistent`), and that workers do
anything with the frame only while they run a task (`FrameInUse`); so the owner
erases rows with nothing locked, and no edit reaches a row that moved. `IndexInv`
adds that only the owner, between calls, fills the index, and that what is
entered in it is right.

*Table.* `FrameIsKeyedTable` needs three facts more (`TableInv`): the rows that
came and those still to come are the source (`SourceKept`); while rows are
loaded, the rows, keys and overlays are the table of the keys that came
(`TableBuilt`); and the copy of an overlay that a thread works on is still that
overlay when the thread stores it (`CopiesKept`), which holds because the row is
locked from the copy to the store. So the step that stores the copy with its new
cell changes one cell of the record, and every other step of an edit is a
stutter. `KeyedTable` says
where keys come first with `Selected`, so that what one more key adds to the
table follows from the lemmas of `Selections`.

### What stays with TLC

- Liveness: `RunEnds`, `ReaderFinishes`, `ErrorsReachCaller`, `ToolsEnd`,
  `CallsComeBack`, `ReadEnds`; and `EveryRequestServed`, which is stated with
  ENABLED. Both are out of the prover's reach.
- `IsAdaptiveCache`: the victims of ARC. Its lists, directory and contract are
  proved; the mapping of its ghosts is not.
- LRU-K with its heap and `EvictsKthReference`: that sinking along a path keeps
  a heap ordered.
- `TraceTools`, `BenchmarkConfig`: plain programs over sums, maps of frequencies
  and lines, whose results are folds over data.
- `CSVFiles`: the parser, `data_type` and `to_string` as functions of a whole
  text.

## 5. Findings

- `two_q_single`: the constructor asserts `capacity > 0` (`2q_policy.hh:53`),
  but with one frame the cold threshold is 1, the single cold page never
  exceeds it, and the second distinct page stops at `assert(!hot_list_.empty())`
  (`2q_policy.hh:116`). No other policy makes an assumption of this kind.
- `csv_reader_end`: `check_for_rows` loads `empty()` and then `is_waitable()`
  (`csv.hpp:9155`, `9158`). If the worker pushes its last rows and finishes in
  between, the caller joins it, finds the end of the file and returns false
  with rows in the queue. The loss is silent: `convert_msr` and
  `analyze_raw_trace` would end with fewer requests.
- `data_frame_index`: the lazy index of keys is built by a const method without
  a lock (`csv.hpp:7969`), though callbacks are promised safe read-only access
  (`csv.hpp:7643`): one of them reads an index that another one fills.
- `csv_files_chunks`: a mapped file is taken for read when its first window
  after the head is parsed, if it is smaller than the default chunk
  (`csv.hpp:9692`), also when the format asked for smaller chunks: the rest of
  the file is lost.
- `csv_files` (a passing run): the note of `DataType` says "Overflowing integers
  will be stored and classified as doubles." (`csv.hpp:4043`).
  `_determine_integral_type` returns `CSV_BIGINT` for them (`csv.hpp:4250`), as
  the comment of that enumerator has it (`csv.hpp:4054`, "Value too big to fit
  in a 64-bit in"), so that `is_float` is false of such a field and its
  conversion to any signed type is an overflow, not a conversion from a floating
  point. Only the value is kept in a `long double`. `NumbersReadBack` states what
  the code does, `CSV_BIGINT`; the numbers of the run include six beyond the
  largest type, so that it fails of a library that does as the note says.

## 6. Observations that no run states as a violation

Pool and policies:

- A page with the number of `SENTINEL`, `UINT64_MAX` (`recency_pool.hh:19`),
  marks its node as unused: once it was inserted, its node can be reused
  without its key leaving the map, and
  `assert(recently_evicted_.size() == capacity_)` (`recency_pool.hh:113`) fails
  on a later insert (capacity 1: insert that page, then any other). `parse_int`
  admits a negative `start_page`, with which a trace requests it; the pool
  copes (`runner`), the recency pool does not. A capacity of 0 is admitted too.
- `ARCPolicy::get` erases the history of the page (`arc_policy.hh:165`) before
  `replace` asks for it (`arc_policy.hh:107`), so that the tie-break for pages
  of the hot history never applies; `AdaptiveCache` describes what the code does.
- With a recency store, small pools (capacity 3 and less, where
  `ceil(0.3 * capacity)` is 1) never find a page in it: the eviction of the
  miss replaces the only node first.
- `BufPoolRunner(capacity, policy)` (`runner.hh:24`) passes an lvalue to a
  constructor that takes `EvictionPolicy&&`, and `lruk_experiment.cc:26` uses a
  constructor that does not exist; `lruk_exp.cc` and `lruk_experiment.cc` do not
  compile, and the latter is not in `src/CMakeLists.txt`.
- `LRUKMetadata<1>` satisfies the concept check, but `touch` applies `.back()`
  to its `int64_t`, so that K = 1 cannot be used. The move constructor of
  `LRUKPolicy` moves lists whose dummy nodes other nodes point to; no program
  that compiles uses it.

Tools:

- A window of size 0 makes `observe` loop for ever, `--page-size 0` divides by
  zero, disks from 16 on share page numbers with lower ones
  (`convert_msr.cc:42`), and a request whose end passes 2^64 has no entry.
- The result of `fclose` is not looked at (`convert_msr.cc:104`): a full disk
  can leave a file that ends within an entry, after a success message.
- `read` in lower case is a write for `convert_msr` and a read for
  `analyze_raw_trace`.

CSV library:

- The byte order mark is looked for again at the start of the file, but found
  only once (`csv.hpp:9666`): if the first row is longer than the head, the
  mark becomes part of its first field. `Foreign` has no such file.
- The move constructor of `CSVReader` moves parser and queue before it joins
  the thread that uses them (`csv.hpp:6320`, `6332`), against its comment; the
  move assignment of `DelimWriter` drops a batch that was not flushed
  (`csv.hpp:8549`).
- "End of file not reached and no more records parsed" (`csv.hpp:9169`) is also
  thrown when all rows of a chunk are rejected, or after an error;
  `read_chunk` loses the rest of the rows it took out when one throws. The
  reader's public `eof()` is not synchronised with the worker.
- The copy of a field with doubled quotes is cached outside of the lock that
  guards the test (`csv.hpp:5262`), so that two threads may both make it.
- A row longer than a chunk is never finished by `MmapParser`; CR at the end of
  a chunk and LF at the start of the next make an extra blank row;
  `field_has_double_quote_` survives the end of a chunk; a row of one empty
  field is a blank line.
- `data_type`: "-", "+" and "." are CSV_NULL, "5 -" is -5, ".e5" is a number,
  "-128" is an INT16; "1.e" at the end of a buffer reads one character past it
  (`csv.hpp:4323`). `to_string` of the lowest `long long` overflows
  (`csv.hpp:8391`). `csv_data_types` calls a column of ints and doubles an int
  column (`csv.hpp:9127`).
- Setters of `CSVFormat` assign before they throw; references to rows of a
  frame are invalid after `erase`, as documented; editing a key column does not
  change the key.

## 7. Not modelled

- Page contents and write-back: the pool is a mock, `data_` is a number.
- The constructor of `BufPool` that moves a policy, and the move operations of
  lists, policies, loaders, readers, writers and executors. No caller in the
  repository uses them after the object did something.
- The iteration order and hashing of `unordered_map`; allocation failures.
- `hit_rate`, tables, messages, `posix_fadvise`; the option parsing of the
  programs; the SPC layout of rows, which only picks other columns.
- The pseudo-random numbers themselves: a draw is any number it can give.
- Files that cannot be opened at all, and which of several errors in a
  configuration is reported.
- Of `csv.hpp`: the vendored mio and string_view, the SIMD scans (an
  optimisation of `parse_field`), JSON, CSVStat and `csv_data_types`, column
  names and header guessing, `group_by`, hexadecimal values, builds without
  threads.
- The unit tests, read for the behaviour they expect.

## 8. Plan

Every component that carries logic of its own is modelled; what is left is to
prove more:

1. `IsAdaptiveCache`: the steps of ARC on its four queues of page numbers, from
   `HistKept`, in the way of `TwoQIsTwoQueues`.
2. LRU-K: `KeepsContract` and the part of `Consistent` that speaks of frames and
   of histories; then that a shift along the path of an element keeps the heap
   ordered.
3. `BenchmarkConfig`: `LoadedAsWritten` line by line.
4. `ConvertMSR`: `ConvertsInOrder`, from what is in the batch, in the stream and
   in the file.
