----------------------------- MODULE TwoQueues ------------------------------
(***************************************************************************)
(* What the two-queue policy promises about pages: cold pages in the order *)
(* of their arrival, hot pages in the order of their last use, and the     *)
(* evicted pages remembered by the order of their last eviction.  A page   *)
(* that is missed leaves its ghost behind, and its ghost may be pushed out *)
(* by the very eviction that makes room for it.                            *)
(***************************************************************************)
EXTENDS Naturals, Sequences, Functions

CONSTANTS Capacity, Pages,
          Thres,   \* the share of the cold queue
          Ghosts   \* how many evicted pages are remembered

VARIABLES cold, hot, ghosts,
          requested, \* the page of the last request
          remember  \* FALSE if evicted pages are not remembered at all

vars == <<cold, hot, ghosts, requested, remember>>

Init == cold = <<>> /\ hot = <<>> /\ ghosts = <<>> /\ remember \in BOOLEAN

Full == Len(cold) + Len(hot) = Capacity

Present(p) == p \in Range(cold) \cup Range(hot)

Stack == INSTANCE RecencyStack WITH Depth <- Ghosts, Items <- Pages, stack <- ghosts

(* p arrives at queues c and h after their victim, if any, became a ghost. *)
Arrive(p, c, h, g) ==
    /\ ghosts' = g
    /\ UNCHANGED remember
    /\ IF p \in Range(g)
       THEN hot' = <<p>> \o h /\ cold' = c
       ELSE cold' = <<p>> \o c /\ hot' = h

AfterEvicting(v) == IF remember THEN Stack!Raised(ghosts, v) ELSE ghosts

Miss(p) ==
    /\ ~Present(p)
    /\ \/ ~Full /\ Arrive(p, cold, hot, ghosts)
       \/ /\ Full /\ Len(cold) > Thres
          /\ Arrive(p, SubSeq(cold, 1, Len(cold) - 1), hot, AfterEvicting(cold[Len(cold)]))
       \/ /\ Full /\ Len(cold) <= Thres
          /\ Arrive(p, cold, SubSeq(hot, 1, Len(hot) - 1), AfterEvicting(hot[Len(hot)]))

HitHot(p) ==
    /\ p \in Range(hot)
    /\ hot' = <<p>> \o Stack!Without(hot, p)
    /\ UNCHANGED <<cold, ghosts, remember>>

(* Without ghosts the second request makes a page hot. *)
HitCold(p) ==
    /\ p \in Range(cold)
    /\ IF remember THEN UNCHANGED <<cold, hot>>
       ELSE cold' = Stack!Without(cold, p) /\ hot' = <<p>> \o hot
    /\ UNCHANGED <<ghosts, remember>>

Next == \E p \in Pages : requested' = p /\ (Miss(p) \/ HitHot(p) \/ HitCold(p))

Spec == Init /\ [][Next]_vars
=============================================================================
