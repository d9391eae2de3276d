------------------------------ MODULE CSVReader ------------------------------
(***************************************************************************)
(* csv::CSVReader of scripts/csv.hpp: one thread at a time runs read_csv,  *)
(* which parses the next chunk of the file into records, while the caller  *)
(* takes rows out with read_row (begin and ++ of the iterator are calls of *)
(* read_row) or with read_chunk.  A row is its number in the file; how the *)
(* bytes become rows is the business of module CSVParser.                  *)
(***************************************************************************)
EXTENDS ThreadSafeDeque, Selections

CONSTANTS
    Files,       \* the files: [rows |-> kinds of its rows, ends |-> the last row of
                 \* each chunk, open_end |-> the last line has no terminator,
                 \* bad |-> the chunk that cannot be read, or 0]
    Header,      \* the rows up to the header, 0 with no_header
    Policies,    \* a subset of VariableColumnPolicy
    BatchSizes,  \* max_rows of read_chunk; 0 stands for read_row
    MaxRetries   \* bound on the calls after an error

(* The chunks of a file follow each other to its last row, and the first,  *)
(* from which the format is guessed, holds the header or is all there is.  *)
IsFile(f) ==
    /\ f.rows \in Seq({"ok", "odd", "blank"})
    /\ f.ends \in Seq(Nat) /\ f.ends # <<>> /\ f.ends[Len(f.ends)] = Len(f.rows)
    /\ \A i, j \in DOMAIN f.ends : i < j => f.ends[i] <= f.ends[j]
    /\ Len(f.ends) = 1 \/ f.ends[1] >= Header

ASSUME FilesAssumption ==
    /\ \A f \in Files : IsFile(f)
    /\ Header \in Nat /\ BatchSizes \subseteq Nat /\ MaxRetries \in Nat

VARIABLES
    file, policy, max_rows,       \* of this run, never changed
    chunk, todo,                  \* the chunk in work and its rows not yet pushed
    eof, header_trimmed,
    exception,                    \* read_csv_exception is set
    worker,                       \* "none" when read_csv_worker is not joinable
    caller,                       \* where the consuming thread is
    out_size,                     \* out.size() in read_chunk
    read_requested,
    reason,                       \* what the last exception said
    retries,
    got                           \* the rows handed to the caller so far

fileVars == <<file, policy, max_rows>>
workVars == <<chunk, todo, eof, header_trimmed, exception>>
callVars == <<out_size, read_requested, reason, retries, got>>
vars == <<dequeVars, fileVars, workVars, worker, caller, callVars>>

Chunks == Len(file.ends)

RowsOf(c) ==
    LET first == IF c = 1 THEN 1 ELSE file.ends[c - 1] + 1
    IN  [i \in 1..(file.ends[c] - first + 1) |-> first + i - 1]

Init ==
    /\ EmptyDeque
    /\ file \in Files /\ policy \in Policies /\ max_rows \in BatchSizes
    /\ chunk = 1 /\ todo = RowsOf(1)
    /\ eof = FALSE /\ header_trimmed = FALSE /\ exception = FALSE
    /\ worker = "none" /\ caller = "construct"
    /\ out_size = 0 /\ read_requested = FALSE /\ reason = "none" /\ retries = 0
    /\ got = <<>>

-----------------------------------------------------------------------------
(* accept_row: what the policy makes of a row of n_cols fields ("ok"), of  *)
(* another number of fields ("odd") or of none ("blank").                  *)
Throws(r) == policy = "THROW" /\ file.rows[r] # "ok"

Rejects(r) ==
    \/ policy = "IGNORE_ROW" /\ file.rows[r] # "ok"
    \/ policy = "KEEP_NON_EMPTY" /\ file.rows[r] = "blank"

Accepts(r) == ~Throws(r) /\ ~Rejects(r)

AcceptedRows == {r \in DOMAIN file.rows : Accepts(r)}

-----------------------------------------------------------------------------
(* The worker thread: read_csv. *)
ParseStarts ==
    /\ worker = "started" /\ worker' = "parsing"
    /\ NotifyAll
    /\ UNCHANGED <<fileVars, workVars, caller, callVars>>

(* next throws: the file cannot be mapped or read. *)
ParseFails ==
    /\ worker = "parsing" /\ file.bad = chunk
    /\ exception' = TRUE /\ worker' = "stopping"
    /\ UNCHANGED <<dequeVars, fileVars, chunk, todo, eof, header_trimmed, caller, callVars>>

(* The row an open end leaves to end_feed. *)
Unfinished == chunk = Chunks /\ file.open_end /\ Len(todo) = 1 /\ ~eof

(* push_row, for a row in the middle of the chunk or the one of end_feed. *)
ParseRow ==
    /\ worker = "parsing" /\ file.bad # chunk /\ todo # <<>> /\ ~Unfinished
    /\ PushBack(Head(todo)) /\ todo' = Tail(todo)
    /\ UNCHANGED <<fileVars, chunk, eof, header_trimmed, exception, worker, caller, callVars>>

(* The last byte of the file is parsed; end_feed follows. *)
ReachEnd ==
    /\ worker = "parsing" /\ file.bad # chunk
    /\ Unfinished \/ (chunk = Chunks /\ ~eof /\ todo = <<>>)
    /\ eof' = TRUE
    /\ UNCHANGED <<dequeVars, fileVars, chunk, todo, header_trimmed, exception,
                   worker, caller, callVars>>

\* Mutated TrimHeader: the row after the header goes as well.
TrimHeaderLong ==
    /\ worker = "parsing" /\ file.bad # chunk /\ todo = <<>> /\ (chunk = Chunks => eof)
    /\ IF header_trimmed THEN UNCHANGED dequeVars ELSE DrainFront(Header + 1)
    /\ header_trimmed' = TRUE
    /\ worker' = "stopping"
    /\ UNCHANGED <<fileVars, chunk, todo, eof, exception, caller, callVars>>

(* next has returned; the first chunk loses its header, while the caller   *)
(* waits for the thread.                                                   *)
TrimHeader ==
    /\ worker = "parsing" /\ file.bad # chunk /\ todo = <<>> /\ (chunk = Chunks => eof)
    /\ IF header_trimmed THEN UNCHANGED dequeVars ELSE DrainFront(Header)
    /\ header_trimmed' = TRUE
    /\ worker' = "stopping"
    /\ UNCHANGED <<fileVars, chunk, todo, eof, exception, caller, callVars>>

ParseStops ==
    /\ worker = "stopping" /\ worker' = "finished"
    /\ KillAll
    /\ UNCHANGED <<fileVars, workVars, caller, callVars>>

Worker == ParseStarts \/ ParseFails \/ ParseRow \/ ReachEnd \/ TrimHeader \/ ParseStops

-----------------------------------------------------------------------------
(* The caller.  JOIN_WORKER waits for a joinable thread. *)
Joinable == worker \in {"none", "finished"}

(* init_parser up to the thread of initial_read. *)
Construct ==
    /\ caller = "construct" /\ caller' = "joins first"
    /\ worker' = "started"
    /\ UNCHANGED <<dequeVars, fileVars, workVars, callVars>>

(* The rest of initial_read: an exception leaves no reader behind. *)
Constructed ==
    /\ caller = "joins first" /\ worker = "finished"
    /\ worker' = "none" /\ exception' = FALSE
    /\ IF exception THEN caller' = "closed" /\ reason' = "unreadable"
                    ELSE caller' = "outside" /\ UNCHANGED reason
    /\ UNCHANGED <<dequeVars, fileVars, chunk, todo, eof, header_trimmed,
                   out_size, read_requested, retries, got>>

(* Calls of read_row and read_chunk until one returns false, with some     *)
(* after an error.                                                         *)
Call ==
    /\ \/ caller = "outside" /\ UNCHANGED retries
       \/ caller = "caught" /\ retries < MaxRetries /\ retries' = retries + 1
    /\ caller' = "asks empty" /\ out_size' = 0
    /\ UNCHANGED <<dequeVars, fileVars, workVars, worker, read_requested, reason, got>>

(* check_for_rows, line by line: the two atomics are read one after the    *)
(* other, and the worker may run in between.                               *)
AskEmpty ==
    /\ caller = "asks empty"
    /\ caller' = IF is_empty THEN "asks waitable" ELSE "takes"
    /\ UNCHANGED <<dequeVars, fileVars, workVars, worker, callVars>>

AskWaitable ==
    /\ caller = "asks waitable"
    /\ caller' = IF is_waitable THEN "waits" ELSE "joins"
    /\ UNCHANGED <<dequeVars, fileVars, workVars, worker, callVars>>

Wait ==
    /\ caller = "waits" /\ ~asleep
    /\ IF WaitOver THEN caller' = "takes" /\ UNCHANGED dequeVars
                   ELSE FallAsleep /\ UNCHANGED caller
    /\ UNCHANGED <<fileVars, workVars, worker, callVars>>

Wake ==
    /\ WakeUp
    /\ UNCHANGED <<fileVars, workVars, worker, caller, callVars>>

\* Mutated Rethrow: the exception is forgotten.
RethrowNothing ==
    /\ caller = "joins" /\ Joinable /\ exception
    /\ exception' = FALSE /\ worker' = "none"
    /\ reason' = "stuck" /\ caller' = "caught"
    /\ UNCHANGED <<dequeVars, fileVars, chunk, todo, eof, header_trimmed,
                   out_size, read_requested, retries, got>>

(* rethrow_read_csv_exception_if_any. *)
Rethrow ==
    /\ caller = "joins" /\ Joinable /\ exception
    /\ exception' = FALSE /\ worker' = "none"
    /\ reason' = "unreadable" /\ caller' = "caught"
    /\ UNCHANGED <<dequeVars, fileVars, chunk, todo, eof, header_trimmed,
                   out_size, read_requested, retries, got>>

(* The end: read_chunk still returns true when it has rows. *)
FindEof ==
    /\ caller = "joins" /\ Joinable /\ ~exception /\ eof
    /\ worker' = "none"
    /\ caller' = IF out_size > 0 THEN "outside" ELSE "ended"
    /\ UNCHANGED <<dequeVars, fileVars, workVars, callVars>>

(* The guard against a row that no chunk can hold. *)
FindStuck ==
    /\ caller = "joins" /\ Joinable /\ ~exception /\ ~eof /\ read_requested /\ is_empty
    /\ worker' = "none" /\ reason' = "stuck" /\ caller' = "caught"
    /\ UNCHANGED <<dequeVars, fileVars, workVars, out_size, read_requested, retries, got>>

(* The next chunk: notify_all and a new thread.  A chunk that failed is    *)
(* tried again, and fails again.                                           *)
ReadOn ==
    /\ caller = "joins" /\ Joinable /\ ~exception /\ ~eof /\ ~(read_requested /\ is_empty)
    /\ worker' = "started" /\ NotifyAll
    /\ IF file.bad = chunk THEN UNCHANGED <<chunk, todo>>
                           ELSE chunk' = chunk + 1 /\ todo' = RowsOf(chunk + 1)
    /\ read_requested' = TRUE /\ caller' = "takes"
    /\ UNCHANGED <<fileVars, eof, header_trimmed, exception, out_size, reason, retries, got>>

(* records->empty() after check_for_rows: the loop starts again. *)
FindNothing ==
    /\ caller = "takes" /\ is_empty
    /\ caller' = "asks empty"
    /\ UNCHANGED <<dequeVars, fileVars, workVars, worker, callVars>>

(* The rows a call takes out under one lock: one for read_row, the free    *)
(* part of the batch for read_chunk.                                       *)
Taken ==
    LET room == IF max_rows = 0 THEN 1 ELSE max_rows - out_size
    IN  SubSeq(data, 1, IF room < Len(data) THEN room ELSE Len(data))

(* Every row taken passes accept_row; the first one it throws at takes the *)
(* rest of those taken with it.                                            *)
TakeAndThrow ==
    /\ caller = "takes" /\ ~is_empty
    /\ \E i \in DOMAIN Taken :
          /\ Throws(Taken[i]) /\ \A j \in 1..(i - 1) : Accepts(Taken[j])
          /\ got' = got \o SubSeq(Taken, 1, i - 1)
          /\ read_requested' = (read_requested /\ i = 1)
    /\ DrainFront(Len(Taken))
    /\ reason' = "row" /\ caller' = "caught"
    /\ UNCHANGED <<fileVars, workVars, worker, out_size, retries>>

Take ==
    /\ caller = "takes" /\ ~is_empty
    /\ \A i \in DOMAIN Taken : ~Throws(Taken[i])
    /\ LET accepted == Selected(Taken, AcceptedRows)
           size == out_size + Len(accepted)
       IN  /\ got' = got \o accepted
           /\ read_requested' = (read_requested /\ accepted = <<>>)
           /\ out_size' = size
           /\ caller' = IF size = (IF max_rows = 0 THEN 1 ELSE max_rows)
                        THEN "outside" ELSE "asks empty"
    /\ DrainFront(Len(Taken))
    /\ UNCHANGED <<fileVars, workVars, worker, reason, retries>>

\* Mutated Close: the destructor does not join.
CloseAtOnce ==
    /\ caller \in {"outside", "caught", "ended"} /\ caller' = "closed"
    /\ UNCHANGED <<dequeVars, fileVars, workVars, worker, callVars>>

(* The caller leaves at the end, after an error or in the middle of the    *)
(* file: the destructor joins the worker.                                  *)
Close ==
    /\ caller \in {"outside", "caught", "ended"} /\ Joinable
    /\ caller' = "closed" /\ worker' = "none"
    /\ UNCHANGED <<dequeVars, fileVars, workVars, callVars>>

Caller ==
    \/ Construct \/ Constructed \/ Call \/ AskEmpty \/ AskWaitable \/ Wait
    \/ Rethrow \/ FindEof \/ FindStuck \/ ReadOn \/ FindNothing \/ TakeAndThrow \/ Take
    \/ Close

Closed == caller = "closed" /\ UNCHANGED vars

Next == Worker \/ Caller \/ Wake \/ Closed

(* Both threads are scheduled; a wake-up without a reason is never owed.   *)
Spec == Init /\ [][Next]_vars /\ WF_vars(Worker) /\ WF_vars(Caller)

-----------------------------------------------------------------------------
(* Where the two threads, the queue and the rows can be. *)
TypeOK ==
    /\ worker \in {"none", "started", "parsing", "stopping", "finished"}
    /\ caller \in {"construct", "joins first", "outside", "asks empty", "asks waitable",
                   "waits", "takes", "joins", "caught", "ended", "closed"}
    /\ chunk \in 1..Chunks /\ out_size \in 0..max_rows + 1 /\ retries \in 0..MaxRetries
    /\ ToSet(data) \cup ToSet(todo) \cup ToSet(got) \subseteq DOMAIN file.rows

(* The queue agrees with its flags, nobody sleeps through a row or the end *)
(* of a chunk, and is_waitable tells the caller whether the thread may     *)
(* still push; the thread is gone when the reader is.                      *)
Consistent ==
    /\ TypeOK /\ DequeConsistent
    /\ worker \in {"parsing", "stopping"} => is_waitable
    /\ worker \in {"none", "finished"} => ~is_waitable
    /\ caller = "closed" => worker = "none"

(* The caller gets the accepted rows of the file in their order, each at   *)
(* most once and none skipped, whichever thread runs when, with either way *)
(* of reading.  An end announced early leaves rows of the last chunk only. *)
Wanted == {r \in AcceptedRows : r > Header}

Later(c) == [i \in 1..(Len(file.rows) - file.ends[c]) |-> file.ends[c] + i]

Remaining == Selected(data \o (todo \o Later(chunk)), Wanted)

LastRows == ToSet(RowsOf(Chunks))

Status == CASE caller = "ended"  -> "end"
            [] caller = "caught" -> "error"
            [] caller = "closed" -> "closed"
            [] OTHER -> "open"

Stream ==
    INSTANCE RowStream
        WITH coming <- Remaining, last_chunk <- LastRows, status <- Status
IsRowStream == Stream!Spec

(* The end is announced when no row is left: check_for_rows returns true   *)
(* while "the queue has hot and fresh rows ready".                         *)
EndsAtTheEnd == caller = "ended" => Remaining = <<>>

(* Whatever the file, the reader is closed in the end: neither thread      *)
(* waits for the other for ever, and the caller's loop stops.              *)
ReaderFinishes == <>(caller = "closed")

(* An exception of the worker is thrown at the caller, by whichever call   *)
(* finds it, or is still there when the caller leaves without another one. *)
ErrorsReachCaller ==
    exception ~> (reason = "unreadable" \/ (caller = "closed" /\ exception))

-----------------------------------------------------------------------------
(* For model checking: files of up to n rows of some kinds, their header   *)
(* sound, cut into up to three chunks in every way.                        *)
Cuts(n) ==
    {<<n>>} \cup {<<i, n>> : i \in 0..n} \cup {<<i, j, n>> : i \in 1..n, j \in 1..n}

(* A chunk that is empty has no last line. *)
LastChunkEmpty(ends) ==
    LET k == Len(ends) IN ends[k] = IF k = 1 THEN 0 ELSE ends[k - 1]

FilesOf(n, kinds) ==
    {f \in [rows : [1..n -> kinds], ends : Cuts(n), open_end : BOOLEAN, bad : 0..3] :
        /\ IsFile(f) /\ f.bad <= Len(f.ends)
        /\ Len(f.ends) > 1 => f.ends[1] > 0
        /\ \A i \in 1..n : i <= Header => f.rows[i] = "ok"
        /\ f.open_end => ~LastChunkEmpty(f.ends)}

SmallFiles == UNION {FilesOf(n, {"ok", "blank"}) : n \in 0..3}
SoundFiles == UNION {FilesOf(n, {"ok"}) : n \in 0..2}
=============================================================================
