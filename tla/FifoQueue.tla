----------------------------- MODULE FifoQueue ------------------------------
(***************************************************************************)
(* What first-in-first-out replacement promises about pages, without       *)
(* frames, tables or free lists: the pages in the order of their arrival,  *)
(* newest first.  A page that is present does not move when requested; a   *)
(* full queue loses its oldest page.                                       *)
(***************************************************************************)
EXTENDS Naturals, Sequences, Functions

CONSTANTS Capacity, Pages

VARIABLES queue,
          requested  \* the page of the last request

vars == <<queue, requested>>

Init == queue = <<>>

Arrive(p) ==
    /\ p \notin Range(queue)
    /\ requested' = p
    /\ queue' = <<p>> \o
          (IF Len(queue) = Capacity THEN SubSeq(queue, 1, Len(queue) - 1) ELSE queue)

Hit(p) == p \in Range(queue) /\ requested' = p /\ UNCHANGED queue

Next == \E p \in Pages : Arrive(p) \/ Hit(p)

Spec == Init /\ [][Next]_vars
=============================================================================
