------------------------------ MODULE DataFrame ------------------------------
(***************************************************************************)
(* csv::DataFrame of scripts/csv.hpp: rows, keys and overlays of edits in  *)
(* vectors side by side, and an index from keys to positions that is built *)
(* at the first lookup and dropped when a row is erased.  A step is what a *)
(* thread does between two accesses to memory that others may touch: the   *)
(* overlays have a lock each, the index has none.                          *)
(***************************************************************************)
EXTENDS Integers, SequencesExt

CONSTANTS
    Keys,
    DefaultKey  \* KeyType()

VARIABLES
    keyed, policy, throw_on_missing_key,  \* how the frame is made
    coming,     \* the keys of the rows the reader will yield; Missing where there is none
    frame,      \* "building", "ready" or "failed"
    rows, keys_, edits,
    key_index,
    op          \* what every thread is doing or has found

optionVars == <<keyed, policy, throw_on_missing_key>>
storeVars == <<rows, keys_, edits, key_index>>
frameVars == <<optionVars, coming, frame, storeVars, op>>

Missing == "missing"
NoIndex == <<>>
Nothing == [doing |-> "nothing"]
Acted == [doing |-> "acted"]

(* The constructors and from_csv with their DataFrameOptions; init_unkeyed *)
(* has none.                                                               *)
FrameInit(threads, setups) ==
    /\ \E setup \in setups :
          /\ keyed = setup.keyed /\ policy = setup.policy
          /\ throw_on_missing_key = setup.throws /\ coming = setup.source
    /\ frame = "building"
    /\ rows = <<>> /\ keys_ = <<>> /\ edits = <<>> /\ key_index = NoIndex
    /\ op = [t \in threads |-> Nothing]

-----------------------------------------------------------------------------
(* The loop of build_from_key_function and of init_unkeyed_from_reader.    *)
RowNumber(sources) == Len(sources) - Len(coming) + 1

(* What the key function makes of the next row. *)
NextKey == IF Head(coming) = Missing THEN DefaultKey ELSE Head(coming)

PushRow(number) ==
    /\ rows' = Append(rows, number)
    /\ keys_' = IF keyed THEN Append(keys_, NextKey) ELSE keys_
    /\ edits' = Append(edits, [busy |-> FALSE, values |-> {}])
    /\ coming' = Tail(coming)
    /\ UNCHANGED frame

(* A key that is there already. *)
KnownRow(number) ==
    \E i \in DOMAIN keys_ :
        /\ keys_[i] = NextKey
        /\ rows' = IF policy = "OVERWRITE" THEN [rows EXCEPT ![i] = number] ELSE rows
        /\ coming' = Tail(coming)
        /\ UNCHANGED <<keys_, edits, frame>>

Fails == frame' = "failed" /\ UNCHANGED <<coming, rows, keys_, edits>>

BuildRow(number) ==
    /\ frame = "building" /\ coming # <<>>
    /\ IF keyed
       THEN IF Head(coming) = Missing /\ throw_on_missing_key THEN Fails
            ELSE IF NextKey \notin ToSet(keys_) THEN PushRow(number)
            ELSE IF policy = "THROW" THEN Fails ELSE KnownRow(number)
       ELSE PushRow(number)
    /\ UNCHANGED <<optionVars, key_index, op>>

Built ==
    /\ frame = "building" /\ coming = <<>>
    /\ frame' = "ready"
    /\ UNCHANGED <<optionVars, coming, storeVars, op>>

-----------------------------------------------------------------------------
(* An operation of thread t, by steps. *)
Does(t, what) == op' = [op EXCEPT ![t] = what]
AtRest(t) == op[t].doing \in {"nothing", "found"}

\* Mutated LockRow: no test_and_set.
LockRowNever(t, i) ==
    /\ AtRest(t) /\ i \in DOMAIN rows
    /\ edits' = [edits EXCEPT ![i].busy = TRUE]
    /\ Does(t, [doing |-> "setting", row |-> i, copy |-> edits[i].values])
    /\ UNCHANGED <<optionVars, coming, frame, rows, keys_, key_index>>

(* DataFrameCell::assign of a cell of row i: RowOverlay::set up to the     *)
(* change of the map ...                                                   *)
LockRow(t, i) ==
    /\ AtRest(t) /\ i \in DOMAIN rows /\ ~edits[i].busy
    /\ edits' = [edits EXCEPT ![i].busy = TRUE]
    /\ Does(t, [doing |-> "setting", row |-> i, copy |-> edits[i].values])
    /\ UNCHANGED <<optionVars, coming, frame, rows, keys_, key_index>>

(* ... and the change with the release. *)
SetCell(t, c, after) ==
    /\ op[t].doing = "setting"
    /\ edits' = [edits EXCEPT ![op[t].row] =
                    [busy |-> FALSE, values |-> op[t].copy \cup {c}]]
    /\ Does(t, after)
    /\ UNCHANGED <<optionVars, coming, frame, rows, keys_, key_index>>

(* contains and operator[] with a key: ensure_key_index tests the pointer  *)
(* and puts an empty map there ...                                         *)
Lookup(t, k) ==
    /\ AtRest(t) /\ keyed
    /\ IF key_index = NoIndex
       THEN /\ key_index' = [x \in {Missing} |-> 0]
            /\ Does(t, [doing |-> "indexing", key |-> k, row |-> 1])
       ELSE Does(t, [doing |-> "finding", key |-> k]) /\ UNCHANGED key_index
    /\ UNCHANGED <<optionVars, coming, frame, rows, keys_, edits>>

(* ... fills the map the pointer names, row by row ...                     *)
IndexRow(t) ==
    /\ op[t].doing = "indexing"
    /\ IF op[t].row <= Len(rows)
       THEN /\ key_index' = [x \in DOMAIN key_index \cup {keys_[op[t].row]} |->
                                IF x = keys_[op[t].row] THEN op[t].row ELSE key_index[x]]
            /\ Does(t, [op[t] EXCEPT !.row = @ + 1])
       ELSE Does(t, [doing |-> "finding", key |-> op[t].key]) /\ UNCHANGED key_index
    /\ UNCHANGED <<optionVars, coming, frame, rows, keys_, edits>>

(* ... and the key is looked for in it. *)
Find(t) ==
    /\ op[t].doing = "finding"
    /\ LET k == op[t].key
       IN  Does(t, [doing |-> "found", key |-> k, position |->
                        IF k \in DOMAIN key_index THEN key_index[k] ELSE 0])
    /\ UNCHANGED <<optionVars, coming, frame, storeVars>>

\* Mutated EraseAt: the index stays.
EraseAtKeepsIndex(t, i) ==
    /\ AtRest(t) /\ i \in DOMAIN rows
    /\ edits' = RemoveAt(edits, i) /\ rows' = RemoveAt(rows, i)
    /\ keys_' = IF keyed THEN RemoveAt(keys_, i) ELSE keys_
    /\ Does(t, Nothing)
    /\ UNCHANGED <<optionVars, coming, frame, key_index>>

(* DataFrameRow::erase; what thread t looked up before is void. *)
EraseAt(t, i) ==
    /\ AtRest(t) /\ i \in DOMAIN rows
    /\ edits' = RemoveAt(edits, i) /\ rows' = RemoveAt(rows, i)
    /\ keys_' = IF keyed THEN RemoveAt(keys_, i) ELSE keys_
    /\ key_index' = NoIndex
    /\ Does(t, Nothing)
    /\ UNCHANGED <<optionVars, coming, frame>>

-----------------------------------------------------------------------------
PositionOf(k) ==
    IF k \in ToSet(keys_) THEN CHOOSE i \in DOMAIN keys_ : keys_[i] = k ELSE 0

(* The vectors stay side by side, no key is there twice, a row is locked   *)
(* by the one thread that sets a cell of it.                               *)
FrameConsistent ==
    /\ Len(edits) = Len(rows) /\ Len(keys_) = IF keyed THEN Len(rows) ELSE 0
    /\ IsInjective(keys_)
    /\ \A i \in DOMAIN edits :
          edits[i].busy <=> \E t \in DOMAIN op : op[t].doing = "setting" /\ op[t].row = i
    /\ \A t, u \in DOMAIN op :
          t # u /\ op[t].doing = "setting" /\ op[u].doing = "setting" => op[t].row # op[u].row
=============================================================================
