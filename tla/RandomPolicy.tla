---------------------------- MODULE RandomPolicy ----------------------------
(***************************************************************************)
(* BufPool<RandomPolicy>: include/random_policy.hh under                   *)
(* include/bufpool.hh, one action per call of get_page.  residents is the  *)
(* vector residents_; the victim is removed by moving the last element     *)
(* into its place.  The index drawn from the generator is any index.       *)
(***************************************************************************)
EXTENDS BufPool, List

VARIABLES free_list, residents

vars == <<poolVars, free_list, residents>>

Init ==
    /\ PoolInit
    /\ free_list = Stacked(Capacity)
    /\ residents = <<>>

(* get with a frame to spare. *)
MissFree(p) ==
    /\ EmptyAgrees(free_list) /\ ~IsEmpty(free_list) /\ CanPop(free_list)
    /\ Admit(p, Back(free_list), {})
    /\ free_list' = PopBack(free_list)
    /\ residents' = Append(residents, Back(free_list))

(* residents_[i] = residents_.back(); residents_.pop_back() *)
SwapOut(s, i) == Front([s EXCEPT ![i] = Last(s)])

(* get without: the frame at a random index goes to the free list, from    *)
(* which get takes it at once.                                             *)
MissEvict(p) ==
    /\ EmptyAgrees(free_list) /\ IsEmpty(free_list)
    /\ \E victim_idx \in DOMAIN residents :
          LET victim == residents[victim_idx]
              filled == PushFront(free_list, victim)
              res    == Back(filled)
          IN  /\ Admit(p, res, {victim})
              /\ free_list' = PopBack(filled)
              /\ residents' = Append(SwapOut(residents, victim_idx), res)

(* touch is empty. *)
Hit(p) ==
    /\ \E f \in Frames : Found(p, f)
    /\ UNCHANGED <<free_list, residents>>

GetPage(p) == MissFree(p) \/ MissEvict(p) \/ Hit(p)

Next == \E p \in Pages : GetPage(p)

Spec == Init /\ [][Next]_vars

-----------------------------------------------------------------------------
TypeOK ==
    /\ PoolTypeOK
    /\ free_list \in [nodes : Seq(Frames), size : Nat]
    /\ residents \in Seq(Frames)

(* The vector and the free list share the frames out between them, each    *)
(* once, and the vector never needs more room than the constructor         *)
(* reserved.                                                               *)
FramesOnOneSide ==
    /\ Exact(free_list) /\ IsInjective(residents)
    /\ Members(free_list) \cap ToSet(residents) = {}
    /\ Members(free_list) \cup ToSet(residents) = Frames

Consistent == TypeOK /\ FramesOnOneSide

(* No request stops at an assertion of bufpool.hh, list.hh or get. *)
EveryRequestServed == \A p \in Pages : ENABLED GetPage(p)

(* The policy keeps the pool's contract. *)
Contract == INSTANCE PoolContract WITH used <- Frames \ Members(free_list)
KeepsContract == Contract!Spec
=============================================================================
