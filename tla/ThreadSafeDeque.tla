--------------------------- MODULE ThreadSafeDeque ---------------------------
(***************************************************************************)
(* internals::ThreadSafeDeque of scripts/csv.hpp: the queue between the    *)
(* thread that parses a CSV file and the thread that consumes its rows.    *)
(* One operator is one critical section of _lock or one load of an atomic; *)
(* asleep says whether the one consumer waits on _cond.                    *)
(***************************************************************************)
EXTENDS Integers, SequencesExt

CONSTANT NotifySize  \* _notify_size, 100 in CSVReader

ASSUME NotifySizeAssumption == NotifySize \in Nat \ {0}

VARIABLES
    data,
    is_empty, is_waitable,  \* the two atomics
    asleep

dequeVars == <<data, is_empty, is_waitable, asleep>>

EmptyDeque == data = <<>> /\ is_empty = TRUE /\ is_waitable = FALSE /\ asleep = FALSE

(* push_back; the waiter is told once NotifySize rows are there. *)
PushBack(item) ==
    /\ data' = Append(data, item)
    /\ is_empty' = FALSE
    /\ asleep' = (asleep /\ Len(data') < NotifySize)
    /\ UNCHANGED is_waitable

(* drain_front, which leaves all but the first n items, and, with n = 1,   *)
(* pop_front.                                                              *)
DrainFront(n) ==
    /\ data' = SubSeq(data, n + 1, Len(data))
    /\ is_empty' = (is_empty \/ data' = <<>>)
    /\ UNCHANGED <<is_waitable, asleep>>

NotifyAll ==
    /\ is_waitable' = TRUE
    /\ asleep' = FALSE
    /\ UNCHANGED <<data, is_empty>>

\* Mutated KillAll: the waiter is not told.
KillAllSilently ==
    /\ is_waitable' = FALSE
    /\ UNCHANGED <<data, is_empty, asleep>>

KillAll ==
    /\ is_waitable' = FALSE
    /\ asleep' = FALSE
    /\ UNCHANGED <<data, is_empty>>

(* The predicate wait evaluates under the lock; it sleeps until it holds.  *)
WaitOver == Len(data) >= NotifySize \/ ~is_waitable

FallAsleep ==
    /\ asleep' = TRUE
    /\ UNCHANGED <<data, is_empty, is_waitable>>

(* A condition variable may wake its waiter for no reason. *)
WakeUp ==
    /\ asleep
    /\ asleep' = FALSE
    /\ UNCHANGED <<data, is_empty, is_waitable>>

(* The atomic agrees with the contents whenever _lock is free, and nobody  *)
(* sleeps through rows he was to be told of or through the end of parsing. *)
DequeConsistent ==
    /\ is_empty = (data = <<>>)
    /\ asleep => Len(data) < NotifySize /\ is_waitable
=============================================================================
