----------------------------- MODULE ColumnApply -----------------------------
(***************************************************************************)
(* A DataFrame and its executor together: the owner builds the frame from  *)
(* the rows of a reader, edits, looks up and erases, and runs callbacks    *)
(* over its columns with column_parallel_apply, which chunk_parallel_apply *)
(* does for every batch.  A callback edits a cell of its column, or looks  *)
(* a key up, through references it holds to the frame, or throws.          *)
(***************************************************************************)
EXTENDS DataFrameExecutor, DataFrame

CONSTANTS
    Setups,       \* frames: the options, and the keys of the rows a reader yields
    Bounds,       \* on the owner: calls and other operations it makes, of a frame of so many rows
    ColdLookups   \* callbacks look up keys also when there is no index yet

ASSUME SetupsAssumption ==
    /\ DefaultKey \in Keys /\ Missing \notin Keys
    /\ \A setup \in Setups : setup.keyed \in BOOLEAN /\ setup.source \in Seq(Keys \cup {Missing})

VARIABLES source, steps

vars == <<executorVars, frameVars, source, steps>>

Init ==
    /\ ExecutorInit
    /\ FrameInit(Threads, Setups) /\ source = coming
    /\ steps = 0

Build ==
    /\ BuildRow(RowNumber(source)) \/ Built
    /\ UNCHANGED <<executorVars, source, steps>>

-----------------------------------------------------------------------------
(* The owner between two calls. *)
Idle == frame = "ready" /\ caller = "outside"
Within(c, n) == \E b \in Bounds : c <= b.calls /\ n <= b.steps /\ Len(rows) <= b.rows

OwnerBegins ==
    /\ Idle /\ Within(calls, steps + 1) /\ steps' = steps + 1
    /\ \/ \E i \in DOMAIN rows : LockRow(Main, i) \/ EraseAt(Main, i)
       \/ \E k \in Keys : Lookup(Main, k)
    /\ UNCHANGED <<executorVars, source>>

OwnerGoesOn ==
    /\ Idle
    /\ SetCell(Main, 0, Nothing) \/ IndexRow(Main) \/ Find(Main)
    /\ UNCHANGED <<executorVars, source, steps>>

column_parallel_apply ==
    /\ Idle /\ AtRest(Main) /\ Within(calls + 1, steps)
    /\ \E n \in TaskCounts : parallel_for(n)
    /\ Does(Main, Nothing)
    /\ UNCHANGED <<optionVars, coming, frame, storeVars, source, steps>>

Executor ==
    /\ \/ \E w \in Workers : WorkerSteps(w)
       \/ frame = "ready" /\ AtRest(Main) /\ CallerSteps
       \/ Wakes
    /\ UNCHANGED <<frameVars, source, steps>>

-----------------------------------------------------------------------------
(* A callback of thread t, for the column of its task. *)
CallbackEdits(t) ==
    /\ Runs(t)
    /\ \/ op[t] = Nothing /\ \E i \in DOMAIN rows : LockRow(t, i)
       \/ SetCell(t, task_index[t], Acted)
    /\ UNCHANGED <<executorVars, source, steps>>

CallbackLooksUp(t) ==
    /\ Runs(t)
    /\ \/ op[t] = Nothing /\ (ColdLookups \/ key_index # NoIndex) /\ \E k \in Keys : Lookup(t, k)
       \/ IndexRow(t)
       \/ Find(t)
    /\ UNCHANGED <<executorVars, source, steps>>

CallbackReturns(t) ==
    /\ AtRest(t) \/ op[t] = Acted
    /\ TaskReturns(t) /\ Does(t, Nothing)
    /\ UNCHANGED <<optionVars, coming, frame, storeVars, source, steps>>

CallbackThrows(t) ==
    /\ op[t] = Nothing /\ TaskThrows(t)
    /\ UNCHANGED <<frameVars, source, steps>>

Callback(t) ==
    CallbackEdits(t) \/ CallbackLooksUp(t) \/ CallbackReturns(t) \/ CallbackThrows(t)

Ended == (caller = "destroyed" \/ frame = "failed") /\ UNCHANGED vars

Next ==
    \/ Build \/ OwnerBegins \/ OwnerGoesOn \/ column_parallel_apply \/ Executor
    \/ \E t \in Threads : Callback(t)
    \/ Ended

(* Every thread is scheduled.                                              *)
Spec ==
    /\ Init /\ [][Next]_vars
    /\ WF_vars(Build) /\ WF_vars(OwnerGoesOn)
    /\ WF_vars(Executor /\ CallerSteps)
    /\ \A w \in Workers : WF_vars(Executor /\ WorkerSteps(w))
    /\ \A t \in Threads : WF_vars(Callback(t))

-----------------------------------------------------------------------------
(* The executor counts its workers and calls its function only during a    *)
(* call, and the vectors of the frame stay side by side under a lock per   *)
(* row.                                                                    *)
Consistent == ExecutorConsistent /\ FrameConsistent

(* No two workers have the same task; a call returns when every task has   *)
(* returned, and raises when one threw.                                    *)
TasksRunOnce ==
    /\ \A v, w \in Workers : InTask(v) /\ InTask(w) /\ v # w => task_index[v] # task_index[w]
    /\ \A w \in Workers : pc[w] = "runs" => task_index[w] \notin done \cup threw
    /\ outcome = "returned" => done = Tasks /\ threw = {}
    /\ outcome = "raised" => threw # {}

(* The table that the owner sees: the keys that came, and the records. *)
LoadedKeys ==
    [n \in 1..(Len(source) - Len(coming)) |->
        IF ~keyed THEN n
        ELSE IF source[n] = Missing THEN DefaultKey ELSE source[n]]
Records ==
    [i \in DOMAIN rows |->
        [key   |-> IF keyed THEN keys_[i] ELSE rows[i],
         row   |-> rows[i],
         cells |-> edits[i].values]]
Table ==
    INSTANCE KeyedTable
        WITH overwrites <- policy = "OVERWRITE", loaded <- LoadedKeys,
             records <- Records, complete <- frame = "ready"

(* Whoever edits, in whatever order, the frame is a table of records: keys *)
(* in the order they came, one row each by the policy, no edit lost, and   *)
(* an erased row takes its key and its edits with it and no others.        *)
IsKeyedTable == Table!Spec

(* A key that is in the frame is found where it is, and no other: "Callbacks *)
(* may safely perform read-only access through the provided column view and  *)
(* any explicit read-only references they already hold" to the frame.        *)
LookupsFindKeys ==
    \A t \in Threads : op[t].doing = "found" => op[t].position = PositionOf(op[t].key)

(* The owner gets to the end: every call of parallel_for comes back, and    *)
(* the destructor gets all threads to return, whatever threads sleep when   *)
(* it is called.                                                            *)
CallsComeBack == <>(caller = "destroyed" \/ frame = "failed")

-----------------------------------------------------------------------------
(* For model checking: frames without keys, with keys that differ, with a  *)
(* key that repeats and with one that is missing, the default key also     *)
(* coming as a key.                                                        *)
TwoKeys == {"a", "b"}
SecondKey == "b"
Setup(keys, repeated, throwing, column) ==
    [keyed |-> keys, policy |-> repeated, throws |-> throwing, source |-> column]
(* One call with two other operations around it, or, on a frame of one row, *)
(* two calls, of which the second meets workers that are late.             *)
OneOrTwoCalls ==
    {[calls |-> 1, steps |-> 2, rows |-> 2], [calls |-> 2, steps |-> 0, rows |-> 1]}
SmallFrames ==
    {Setup(FALSE, "KEEP_FIRST", TRUE, <<Missing>>),
     Setup(TRUE, "KEEP_FIRST", TRUE, <<"b", Missing>>),
     Setup(TRUE, "THROW", FALSE, <<"b", Missing>>),
     Setup(TRUE, "KEEP_FIRST", FALSE, <<"b", Missing>>),
     Setup(TRUE, "OVERWRITE", FALSE, <<"b", Missing>>),
     Setup(TRUE, "THROW", FALSE, <<"a", Missing>>)}
=============================================================================
