--------------------------- MODULE UpdatableHeap ----------------------------
(***************************************************************************)
(* The binary heap of include/heap.hh as LRUKPolicy instantiates it: a     *)
(* value with                                                              *)
(*   slots  the first size_ elements of heap_, counted from 1,             *)
(*   id     HeapMeta::heap_id of every frame, which HeapCallback writes.   *)
(* The elements are pointers to frames, compared by their last_access at   *)
(* the time of the comparison; a frame that is not in the heap keeps the   *)
(* number of the last slot it was reported in.                             *)
(***************************************************************************)
EXTENDS Naturals, Sequences, SequencesExt

EmptyHeap(frames) == [slots |-> <<>>, id |-> [f \in frames |-> 1]]

Parent(i) == i \div 2
Left(i)   == 2 * i
Right(i)  == 2 * i + 1

(* operator< of std::array. *)
Precedes(s, t) ==
    \E i \in DOMAIN s : s[i] < t[i] /\ \A j \in 1..(i - 1) : s[j] = t[j]

(* MetaCmp; access is last_access of every frame. *)
Less(access, f, g) == Precedes(access[f], access[g])

\* Mutated Reported: the callback is left out.
ReportedNever(heap, I) == heap

(* callback_ on the slots I. *)
Reported(heap, I) ==
    [heap EXCEPT !.id = [f \in DOMAIN @ |->
        IF \E i \in I : heap.slots[i] = f
        THEN CHOOSE i \in I : heap.slots[i] = f ELSE @[f]]]

(* The loops of push, pop and update: the element in slot i changes places *)
(* with that in next[i], and so on while there is a next slot; callback_   *)
(* reports all that moved.                                                 *)
Shifted(heap, i, next) ==
    LET s == heap.slots
        path[j \in DOMAIN s] == IF next[j] = j THEN {j} ELSE {j} \cup path[next[j]]
        moved == [j \in DOMAIN s |->
                     CASE j \notin path[i] -> s[j]
                       [] j \in path[i] /\ next[j] # j -> s[next[j]]
                       [] j \in path[i] /\ next[j] = j -> s[i]]
    IN  Reported([heap EXCEPT !.slots = moved], path[i])

(* Up, while the element precedes its parent. *)
Risen(heap, access, i) ==
    LET s == heap.slots
    IN  Shifted(heap, i, [j \in DOMAIN s |->
            IF j > 1 /\ Less(access, s[i], s[Parent(j)]) THEN Parent(j) ELSE j])

(* Down, while a child precedes it, to the place of the first child.       *)
(* swap_cand prefers the left one when neither precedes the other.         *)
Sunk(heap, access, i) ==
    LET s == heap.slots
        Better(j, f) == j <= Len(s) /\ Less(access, s[j], f)
    IN  Shifted(heap, i, [j \in DOMAIN s |->
            CASE Better(Left(j), s[i]) /\ ~Better(Right(j), s[Left(j)]) -> Left(j)
              [] Better(Left(j), s[i]) /\ Better(Right(j), s[Left(j)]) -> Right(j)
              [] ~Better(Left(j), s[i]) /\ Better(Right(j), s[i]) -> Right(j)
              [] OTHER -> j])

(* push: the element rises from the end; it is reported where it stays. *)
Push(heap, access, f) ==
    LET n == Len(heap.slots) + 1
    IN  Risen(Reported([heap EXCEPT !.slots = Append(@, f)], {n}), access, n)

(* The swap pop begins with, and its callbacks. *)
LastToTop(heap) ==
    LET n == Len(heap.slots)  s == heap.slots
    IN  Reported([heap EXCEPT !.slots[1] = s[n], !.slots[n] = s[1]], {1, n})

(* pop: the last element takes the top and sinks. *)
Top(heap) == heap.slots[1]
Pop(heap, access) ==
    LET kept == [LastToTop(heap) EXCEPT !.slots = Front(@)]
    IN  IF kept.slots = <<>> THEN kept ELSE Sunk(kept, access, 1)

(* update: the element f stands in slot i already, with its new value, so  *)
(* that the comparison with the old one is a comparison with itself.       *)
Update(heap, access, i, f) ==
    LET stored == [heap EXCEPT !.slots[i] = f]
    IN  IF Less(access, f, heap.slots[i])
        THEN Risen(stored, access, i) ELSE Sunk(stored, access, i)

-----------------------------------------------------------------------------
(* No element precedes its parent, and each one is in the slot its heap_id *)
(* names, where the next touch updates it.                                 *)
HeapOrdered(heap, access) ==
    \A i \in 2..Len(heap.slots) : ~Less(access, heap.slots[i], heap.slots[Parent(i)])

IdsAgree(heap) == \A i \in DOMAIN heap.slots : heap.id[heap.slots[i]] = i
=============================================================================
