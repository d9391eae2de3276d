------------------------------ MODULE LRUPolicy ------------------------------
(***************************************************************************)
(* BufPool<LRUPolicy>: include/lru_policy.hh under include/bufpool.hh, one *)
(* action per call of get_page.  touch unlinks a frame and pushes it again *)
(* without _release_callback, so lru_list_ counts every hit: its size_     *)
(* grows without bound while its elements stay put.                        *)
(***************************************************************************)
EXTENDS BufPool, List

CONSTANT MaxSize  \* bound on the counter of lru_list that is explored

VARIABLES free_list, lru_list

vars == <<poolVars, free_list, lru_list>>

(* The pool registers the frames in order; register_metadata asserts that  *)
(* no more than total_cap_ of them are.                                    *)
Init ==
    /\ PoolInit
    /\ free_list = Stacked(Capacity) /\ free_list.size <= Capacity
    /\ lru_list = EmptyList

(* get with a frame to spare. *)
MissFree(p) ==
    /\ EmptyAgrees(free_list) /\ ~IsEmpty(free_list) /\ CanPop(free_list)
    /\ Admit(p, Back(free_list), {})
    /\ free_list' = PopBack(free_list)
    /\ lru_list' = PushFront(lru_list, Back(free_list))

\* Mutated MissEvict: evict frees two frames at a time, like the loop that
\* is commented out in the source.
MissEvictTwo(p) ==
    /\ IsEmpty(free_list) /\ Len(lru_list.nodes) >= 2
    /\ LET rest == PopBack(lru_list)
       IN  /\ Admit(p, Back(lru_list), {Back(lru_list), Back(rest)})
           /\ free_list' = PushFront(free_list, Back(rest))
           /\ lru_list' = PushFront(PopBack(rest), Back(lru_list))

(* get without: evict_one moves the back of lru_list_ to the free list,    *)
(* from which get takes it at once.                                        *)
MissEvict(p) ==
    /\ EmptyAgrees(free_list) /\ IsEmpty(free_list) /\ CanPop(lru_list)
    /\ LET freed  == Back(lru_list)
           filled == PushFront(free_list, freed)
           res    == Back(filled)
       IN  /\ Admit(p, res, {freed})
           /\ free_list' = PopBack(filled)
           /\ lru_list' = PushFront(PopBack(lru_list), res)

\* Mutated Hit: touch does nothing.
HitIgnored(p) ==
    /\ \E f \in Frames : Found(p, f)
    /\ UNCHANGED <<free_list, lru_list>>

(* touch: release, push_front. *)
Hit(p) ==
    /\ lru_list.size < MaxSize
    /\ \E f \in Frames :
          /\ Found(p, f)
          /\ lru_list' = PushFront(Unlink(lru_list, f), f)
    /\ UNCHANGED free_list

GetPage(p) == MissFree(p) \/ MissEvict(p) \/ Hit(p)

Next == \E p \in Pages : GetPage(p)

Spec == Init /\ [][Next]_vars

-----------------------------------------------------------------------------
TypeOK ==
    /\ PoolTypeOK
    /\ free_list \in [nodes : Seq(Frames), size : Nat]
    /\ lru_list \in [nodes : Seq(Frames), size : Nat]

(* Every frame is linked once, in one of the lists.  The counter of the    *)
(* free list, which decides whether to evict, is right; that of lru_list_  *)
(* may only be too large, so that its assertions never fire by mistake.    *)
FramesOnOneList ==
    /\ Exact(free_list)
    /\ IsInjective(lru_list.nodes) /\ lru_list.size >= Len(lru_list.nodes)
    /\ Members(free_list) \cap Members(lru_list) = {}
    /\ Members(free_list) \cup Members(lru_list) = Frames

Consistent == TypeOK /\ FramesOnOneList

(* No request stops at an assertion of bufpool.hh, list.hh or get; hits    *)
(* are explored up to the bound on the counter.                            *)
EveryRequestServed ==
    \A p \in Pages : ENABLED GetPage(p) \/ (p \in Resident /\ lru_list.size >= MaxSize)

(* The policy keeps the pool's contract. *)
Contract == INSTANCE PoolContract WITH used <- Frames \ Members(free_list)
KeepsContract == Contract!Spec

(* The resident pages are the Capacity most recently requested ones, in    *)
(* the order of lru_list_, whatever its counter says: the victim is always *)
(* the page whose last request is the oldest.                              *)
Recent == INSTANCE RecencyStack
              WITH Depth <- Capacity, Items <- Pages, stack <- Labels(lru_list, page_id)
IsLRU == Recent!Spec
=============================================================================
