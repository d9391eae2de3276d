----------------------------- MODULE FifoPolicy -----------------------------
(***************************************************************************)
(* BufPool<FifoPolicy>: include/fifo_policy.hh under include/bufpool.hh.   *)
(* One action is one call of get_page, with the policy's get or touch and  *)
(* the evict callback in the middle of it, up to the destruction of the    *)
(* PageHandle, whose call of release does nothing.                         *)
(***************************************************************************)
EXTENDS BufPool, List

VARIABLES free_list, used_list

vars == <<poolVars, free_list, used_list>>

(* The pool registers frames 1, ..., Capacity in this order. *)
Init ==
    /\ PoolInit
    /\ free_list = Stacked(Capacity)
    /\ used_list = EmptyList

(* get with a frame to spare: the back of the free list. *)
MissFree(p) ==
    /\ EmptyAgrees(free_list) /\ ~IsEmpty(free_list) /\ CanPop(free_list)
    /\ Admit(p, Back(free_list), {})
    /\ free_list' = PopBack(free_list)
    /\ used_list' = PushFront(used_list, Back(free_list))

(* get without: the oldest frame is evicted and becomes the newest. *)
MissEvict(p) ==
    /\ EmptyAgrees(free_list) /\ IsEmpty(free_list) /\ CanPop(used_list)
    /\ LET freed == Back(used_list)
       IN  /\ Admit(p, freed, {freed})
           /\ used_list' = PushFront(PopBack(used_list), freed)
    /\ UNCHANGED free_list

\* Mutated Hit: touch moves the frame to the front.
HitRaises(p) ==
    /\ \E f \in Frames :
          Found(p, f) /\ used_list' = PushFront(ReleaseCallback(Unlink(used_list, f)), f)
    /\ UNCHANGED free_list

(* touch is empty. *)
Hit(p) ==
    /\ \E f \in Frames : Found(p, f)
    /\ UNCHANGED <<free_list, used_list>>

GetPage(p) == MissFree(p) \/ MissEvict(p) \/ Hit(p)

Next == \E p \in Pages : GetPage(p)

Spec == Init /\ [][Next]_vars

-----------------------------------------------------------------------------
TypeOK ==
    /\ PoolTypeOK
    /\ free_list \in [nodes : Seq(Frames), size : Nat]
    /\ used_list \in [nodes : Seq(Frames), size : Nat]

(* Every frame is linked once, in one of the two lists, whose counters are *)
(* right: pushing a frame that is still linked would fail an assertion of  *)
(* list.hh or, without assertions, corrupt both lists.                     *)
FramesOnOneList ==
    /\ Exact(free_list) /\ Exact(used_list)
    /\ Members(free_list) \cap Members(used_list) = {}
    /\ Members(free_list) \cup Members(used_list) = Frames

Consistent == TypeOK /\ FramesOnOneList

(* No request stops at an assertion of bufpool.hh or list.hh: every page   *)
(* can be requested in every state.                                        *)
EveryRequestServed == \A p \in Pages : ENABLED GetPage(p)

(* The policy keeps the pool's contract: it evicts exactly one page, only  *)
(* when all frames are used, and hands out a frame that holds no page.     *)
Contract == INSTANCE PoolContract WITH used <- Frames \ Members(free_list)
KeepsContract == Contract!Spec

(* The pages leave in the order they came, whatever is requested between.  *)
Fifo == INSTANCE FifoQueue WITH queue <- Labels(used_list, page_id)
IsFifo == Fifo!Spec
=============================================================================
