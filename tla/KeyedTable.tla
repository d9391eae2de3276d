----------------------------- MODULE KeyedTable -----------------------------
(***************************************************************************)
(* What the owner of a DataFrame sees: a table of records in the order in  *)
(* which their keys first came, of which one cell is edited or one record  *)
(* erased at a time.                                                       *)
(***************************************************************************)
EXTENDS Selections

VARIABLES
    overwrites,  \* of a key that comes again the last row stays, not the first
    loaded,      \* the keys that came, in order; the rows are numbered from 1
    records,     \* of a key, the number of a row, and the columns edited
    complete     \* no more rows come

vars == <<overwrites, loaded, records, complete>>

Occurrences(k, keys) == {n \in DOMAIN keys : keys[n] = k}

(* Where a key comes for the first time. *)
FirstsOf(keys) ==
    Selected([n \in DOMAIN keys |-> n], {n \in DOMAIN keys : \A m \in 1..(n - 1) : keys[m] # keys[n]})

(* The table that a sequence of keys makes. *)
TableOf(keys) ==
    [i \in DOMAIN FirstsOf(keys) |->
        LET first == FirstsOf(keys)[i]
        IN  [key   |-> keys[first],
             row   |-> IF overwrites THEN Max(Occurrences(keys[first], keys)) ELSE first,
             cells |-> {}]]

Init == overwrites \in BOOLEAN /\ loaded = <<>> /\ records = <<>> /\ complete = FALSE

Load ==
    /\ ~complete
    /\ Len(loaded') = Len(loaded) + 1 /\ IsPrefix(loaded, loaded')
    /\ records' = TableOf(loaded') /\ UNCHANGED <<overwrites, complete>>

Complete == ~complete /\ complete' = TRUE /\ UNCHANGED <<overwrites, loaded, records>>

Edit(i) ==
    /\ complete /\ i \in DOMAIN records'
    /\ \E c \in records'[i].cells : records' = [records EXCEPT ![i].cells = @ \cup {c}]
    /\ UNCHANGED <<overwrites, loaded, complete>>

Erase(i) ==
    /\ complete
    /\ records' = RemoveAt(records, i)
    /\ UNCHANGED <<overwrites, loaded, complete>>

Next ==
    \/ Load \/ Complete
    \/ \E i \in DOMAIN records : Erase(i) \/ Edit(i)

Spec == Init /\ [][Next]_vars
=============================================================================
