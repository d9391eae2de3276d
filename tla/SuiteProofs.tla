---------------------------- MODULE SuiteProofs ----------------------------
(***************************************************************************)
(* The policies side by side: what FifoPolicy, LRUPolicy and RandomPolicy  *)
(* keep true of their lists, that every policy of the suite is consistent  *)
(* and keeps the contract of a buffer pool, and that FifoPolicy, LRUPolicy *)
(* and TwoQPolicy evict what a first-in-first-out queue, a stack of        *)
(* recencies and the two queues with their ghosts would: for every number  *)
(* of frames and of pages.                                                 *)
(***************************************************************************)
EXTENDS PolicyProofs

FifoPool == INSTANCE PoolContractProofs
                WITH Capacity <- Many, used <- Fifo!Frames \ Fifo!Members(free_list)

(* BufPool below the policy and BufPool below the contract are one.        *)
LEMMA FifoSamePool ==
    /\ Fifo!Frames = FifoPool!Frames
    /\ Fifo!PoolTypeOK <=> FifoPool!PoolTypeOK
    /\ Fifo!PoolInit <=> FifoPool!PoolInit
    /\ \A p, f, V : Fifo!Admit(p, f, V) <=> FifoPool!Admit(p, f, V)
    /\ \A p, f : Fifo!Found(p, f) <=> FifoPool!Found(p, f)
<1> USE DEF Fifo!Frames, FifoPool!Frames, Fifo!Resident, FifoPool!Resident
<1>1. Fifo!PoolTypeOK <=> FifoPool!PoolTypeOK
  BY DEF Fifo!PoolTypeOK, FifoPool!PoolTypeOK
<1>2. Fifo!PoolInit <=> FifoPool!PoolInit
  BY DEF Fifo!PoolInit, FifoPool!PoolInit
<1>3. ASSUME NEW p, NEW f, NEW V PROVE Fifo!Admit(p, f, V) <=> FifoPool!Admit(p, f, V)
  BY DEF Fifo!Admit, FifoPool!Admit, Fifo!IdsAfterEvict, FifoPool!IdsAfterEvict,
         Fifo!PagesAfterEvict, FifoPool!PagesAfterEvict
<1>4. ASSUME NEW p, NEW f PROVE Fifo!Found(p, f) <=> FifoPool!Found(p, f)
  BY DEF Fifo!Found, FifoPool!Found
<1> QED
  BY <1>1, <1>2, <1>3, <1>4

(* The contract the policy declares and the one proved about are one.      *)
LEMMA FifoSameContract ==
    /\ FifoPool!Init <=> Fifo!Contract!Init
    /\ FifoPool!Next <=> Fifo!Contract!Next
<1> USE DEF FifoPool!Frames, Fifo!Contract!Frames, FifoPool!Resident, Fifo!Contract!Resident
<1>1. FifoPool!Init <=> Fifo!Contract!Init
  BY DEF FifoPool!Init, Fifo!Contract!Init, FifoPool!PoolInit, Fifo!Contract!PoolInit
<1>2. ASSUME NEW p, NEW f, NEW V PROVE FifoPool!Admit(p, f, V) <=> Fifo!Contract!Admit(p, f, V)
  BY DEF FifoPool!Admit, Fifo!Contract!Admit, FifoPool!IdsAfterEvict,
         Fifo!Contract!IdsAfterEvict, FifoPool!PagesAfterEvict, Fifo!Contract!PagesAfterEvict
<1>3. ASSUME NEW p, NEW f PROVE FifoPool!Found(p, f) <=> Fifo!Contract!Found(p, f)
  BY DEF FifoPool!Found, Fifo!Contract!Found
<1>4. ASSUME NEW p
      PROVE  /\ FifoPool!MissFree(p) <=> Fifo!Contract!MissFree(p)
             /\ FifoPool!MissEvict(p) <=> Fifo!Contract!MissEvict(p)
             /\ FifoPool!Hit(p) <=> Fifo!Contract!Hit(p)
  BY <1>2, <1>3 DEF FifoPool!MissFree, Fifo!Contract!MissFree, FifoPool!MissEvict,
         Fifo!Contract!MissEvict, FifoPool!Hit, Fifo!Contract!Hit
<1> QED
  BY <1>1, <1>4 DEF FifoPool!Next, FifoPool!GetPage, Fifo!Contract!Next, Fifo!Contract!GetPage

FifoInv ==
    /\ free_list \in Fifo!ListOf(Fifo!Frames) /\ used_list \in Fifo!ListOf(Fifo!Frames)
    /\ Fifo!FramesOnOneList
    /\ FifoPool!IInv

(* The invariant gives what the run checks.                                *)
LEMMA FifoConsistent == FifoInv => Fifo!Consistent
BY FifoSamePool
DEF FifoInv, Fifo!Consistent, Fifo!TypeOK, Fifo!ListOf, FifoPool!IInv, FifoPool!TypeOK

(* The invariant holds of the empty pool.                                  *)
LEMMA FifoInit ==
    ASSUME Fifo!Init
    PROVE  FifoInv /\ FifoPool!Init
<1>1. /\ free_list = Fifo!Stacked(Many) /\ used_list = Fifo!EmptyList /\ Fifo!PoolInit
  BY DEF Fifo!Init
<1>2. /\ free_list \in Fifo!ListOf(1..Many) /\ Fifo!Exact(free_list)
      /\ Fifo!Members(free_list) = 1..Many
  BY <1>1, Fifo!StackedEffect, SizesAssumption
<1>3. /\ Fifo!EmptyList \in Fifo!ListOf(1..Many) /\ Fifo!Exact(Fifo!EmptyList)
      /\ Fifo!Members(Fifo!EmptyList) = {}
  BY Fifo!EmptyListEffect, SizesAssumption
<1>4. FifoPool!Init
  BY <1>1, <1>2, FifoSamePool DEF FifoPool!Init, Fifo!Frames
<1>5. FifoPool!IInv
  BY <1>4, FifoPool!InitIInv, SizesAssumption
<1> QED
  BY <1>1, <1>2, <1>3, <1>4, <1>5 DEF FifoInv, Fifo!FramesOnOneList, Fifo!Frames

(* The queue of the refinement: the pages of used_list.                    *)
FifoPages == Fifo!Labels(used_list, page_id)

(* The labels of the list are the pages that the abstract queue holds.     *)
LEMMA FifoPagesAre ==
    ASSUME FifoInv
    PROVE  /\ FifoPages \in Seq(Pages \cup {INVALID_ID})
           /\ \A p \in Pages : p \in Fifo!Fifo!Range(FifoPages) <=> p \in FifoPool!Resident
           /\ Len(FifoPages) = Many <=> Fifo!Members(free_list) = {}
<1> USE SizesAssumption
<1>1. /\ used_list \in Fifo!ListOf(Fifo!Frames)
      /\ page_id \in [Fifo!Frames -> Pages \cup {INVALID_ID}]
  BY FifoSamePool DEF FifoInv, FifoPool!IInv, FifoPool!TypeOK, FifoPool!PoolTypeOK
<1>2. FifoPages \in Seq(Pages \cup {INVALID_ID}) /\ Len(FifoPages) = Len(used_list.nodes)
  BY <1>1, Fifo!LabelsTyped DEF FifoPages
<1>3. Fifo!Frames \ Fifo!Members(free_list) = Fifo!Members(used_list)
  BY DEF FifoInv, Fifo!FramesOnOneList
<1>4. ASSUME NEW p \in Pages PROVE p \in Fifo!Fifo!Range(FifoPages) <=> p \in FifoPool!Resident
  <2>1. Fifo!Fifo!Range(FifoPages) = Fifo!ToSet(FifoPages)
    BY DEF Fifo!Fifo!Range, Fifo!ToSet
  <2>2. /\ \A f \in Fifo!Members(used_list) : page_id[f] \in Fifo!ToSet(FifoPages)
        /\ \A q \in Fifo!ToSet(FifoPages) : \E f \in Fifo!Members(used_list) : q = page_id[f]
    <3>1. Fifo!ToSet(FifoPages) = {page_id[f] : f \in Fifo!Members(used_list)}
      BY <1>1, Fifo!LabelsElements DEF FifoPages
    <3> QED
      BY <3>1
  <2>3. /\ \A q \in FifoPool!Resident :
              /\ lookup_tbl[q] \in Fifo!Members(used_list) 
              /\ page_id[lookup_tbl[q]] = q
        /\ \A f \in Fifo!Members(used_list) : page_id[f] \in FifoPool!Resident
    BY <1>3 DEF FifoInv, FifoPool!IInv, FifoPool!UsedIsMapped, FifoPool!LookupInverse
  <2> QED
    BY <2>1, <2>2, <2>3
<1>5. Len(FifoPages) = Many <=> Fifo!Members(free_list) = {}
  <2>1. Cardinality(Fifo!Members(used_list)) = Len(FifoPages)
    <3>1. Fifo!IsInjective(used_list.nodes)
      BY DEF FifoInv, Fifo!FramesOnOneList, Fifo!Exact
    <3>2. Fifo!Cardinality(Fifo!Members(used_list)) = Len(FifoPages)
      BY <3>1, <1>1, <1>2, Fifo!LengthIsCount
    <3> QED
      BY <3>2 DEF Fifo!Cardinality, Cardinality
  <2>2. Fifo!Frames = 1..Many /\ IsFiniteSet(1..Many) /\ Cardinality(1..Many) = Many
    BY FS_Interval DEF Fifo!Frames
  <2>3. Fifo!Members(free_list) \subseteq Fifo!Frames
    BY DEF FifoInv, Fifo!FramesOnOneList
  <2>4. Cardinality(Fifo!Members(used_list)) = Many => Fifo!Members(used_list) = 1..Many
    BY <1>3, <2>2, FS_Subset
  <2> QED
    BY <2>1, <2>2, <2>3, <2>4, <1>3
<1> QED
  BY <1>2, <1>4, <1>5

(* get with a frame to spare. *)
LEMMA FifoMissFree ==
    ASSUME FifoInv, NEW p \in Pages, Fifo!MissFree(p)
    PROVE  FifoInv' /\ FifoPool!MissFree(p) /\ Fifo!Fifo!Arrive(p)
<1> USE SizesAssumption
<1> DEFINE f == Fifo!Back(free_list)
<1>1. /\ Fifo!CanPop(free_list) /\ Fifo!Admit(p, f, {})
      /\ free_list' = Fifo!PopBack(free_list)
      /\ used_list' = Fifo!PushFront(used_list, f)
  BY DEF Fifo!MissFree
<1>2. /\ free_list' \in Fifo!ListOf(Fifo!Frames) /\ Fifo!Exact(free_list')
      /\ f \in Fifo!Frames /\ f \in Fifo!Members(free_list)
      /\ Fifo!Members(free_list') = Fifo!Members(free_list) \ {f}
  BY <1>1, Fifo!PopBackExact DEF FifoInv, Fifo!FramesOnOneList
<1>3. f \in Fifo!Frames \ Fifo!Members(used_list)
  BY <1>2 DEF FifoInv, Fifo!FramesOnOneList
<1> HIDE DEF f
<1>4. /\ used_list' \in Fifo!ListOf(Fifo!Frames) /\ Fifo!Exact(used_list')
      /\ Fifo!Members(used_list') = Fifo!Members(used_list) \cup {f}
  BY <1>1, <1>3, Fifo!PushFrontExact DEF FifoInv, Fifo!FramesOnOneList
<1>5. Fifo!FramesOnOneList'
  BY <1>2, <1>3, <1>4 DEF FifoInv, Fifo!FramesOnOneList, Fifo!Frames
<1>6. FifoPool!MissFree(p)
  BY <1>1, <1>2, FifoSamePool DEF FifoPool!MissFree, Fifo!Frames
<1>7. FifoPool!IInv'
  BY <1>6, FifoPool!MissFreeIInv DEF FifoInv
<1>8. FifoInv'
  BY <1>2, <1>4, <1>5, <1>7 DEF FifoInv, Fifo!Frames
<1>9. /\ p \notin FifoPool!Resident /\ requested' = p
      /\ page_id' \in [Fifo!Frames -> Pages \cup {INVALID_ID}]
      /\ page_id'[f] = p
      /\ \A g \in Fifo!Frames : g # f => page_id'[g] = page_id[g]
  BY <1>1, <1>2, FifoSamePool, FifoPool!AdmitEffect DEF FifoInv
<1>10. FifoPages' = <<p>> \o FifoPages
  <2>1. page_id \in [Fifo!Frames -> Pages \cup {INVALID_ID}]
    BY FifoSamePool DEF FifoInv, FifoPool!IInv, FifoPool!TypeOK, FifoPool!PoolTypeOK
  <2>2. /\ used_list \in Fifo!ListOf(Fifo!Frames) /\ Fifo!IsInjective(used_list.nodes)
        /\ \A g \in Fifo!Members(used_list) : page_id'[g] = page_id[g]
    BY <1>3, <1>9 DEF FifoInv, Fifo!FramesOnOneList, Fifo!Exact
  <2>3. Fifo!Labels(Fifo!PushFront(used_list, f), page_id')
          = <<page_id'[f]>> \o Fifo!Labels(used_list, page_id)
    BY <1>3, <1>9, <2>1, <2>2, Fifo!LabelsPushFront
  <2> QED
    BY <1>1, <1>9, <2>3 DEF FifoPages
<1>11. Fifo!Fifo!Arrive(p)
  BY <1>2, <1>9, <1>10, FifoPagesAre DEF Fifo!Fifo!Arrive, FifoPages, Fifo!Front
<1> QED
  BY <1>6, <1>8, <1>11

(* get without: the back of used_list moves to its front. *)
LEMMA FifoMissEvict ==
    ASSUME FifoInv, NEW p \in Pages, Fifo!MissEvict(p)
    PROVE  FifoInv' /\ FifoPool!MissEvict(p) /\ Fifo!Fifo!Arrive(p)
<1> USE SizesAssumption
<1> DEFINE f == Fifo!Back(used_list)
           rest == Fifo!PopBack(used_list)
<1>1. /\ Fifo!IsEmpty(free_list) /\ Fifo!CanPop(used_list)
      /\ Fifo!Admit(p, f, {f})
      /\ used_list' = Fifo!PushFront(rest, f)
      /\ free_list' = free_list
  BY DEF Fifo!MissEvict
<1>2. /\ rest \in Fifo!ListOf(Fifo!Frames) /\ Fifo!Exact(rest)
      /\ f \in Fifo!Frames /\ f \in Fifo!Members(used_list)
      /\ Fifo!Members(rest) = Fifo!Members(used_list) \ {f}
  BY <1>1, Fifo!PopBackExact DEF FifoInv, Fifo!FramesOnOneList
<1>3. Fifo!Labels(rest, page_id) = Fifo!Front(FifoPages)
  BY <1>1, Fifo!LabelsPopBack
  DEF FifoPages, FifoInv, Fifo!FramesOnOneList, Fifo!Exact, Fifo!CanPop
<1>4. Fifo!Members(free_list) = {}
  BY <1>1, Fifo!EmptyExact DEF FifoInv, Fifo!FramesOnOneList
<1> HIDE DEF f, rest
<1>5. /\ used_list' \in Fifo!ListOf(Fifo!Frames) /\ Fifo!Exact(used_list')
      /\ Fifo!Members(used_list') = Fifo!Members(rest) \cup {f}
  <2>1. f \in Fifo!Frames \ Fifo!Members(rest)
    BY <1>2
  <2> QED
    BY <2>1, <1>1, <1>2, Fifo!PushFrontExact
<1>6. Fifo!FramesOnOneList'
  <2>1. Fifo!Members(used_list') = Fifo!Members(used_list)
    BY <1>2, <1>5
  <2> QED
    BY <2>1, <1>1, <1>5 DEF FifoInv, Fifo!FramesOnOneList, Fifo!Frames
<1>7. FifoPool!MissEvict(p)
  BY <1>1, <1>2, <1>4, FifoSamePool DEF FifoPool!MissEvict, Fifo!Frames
<1>8. FifoPool!IInv'
  BY <1>7, FifoPool!MissEvictIInv DEF FifoInv
<1>9. FifoInv'
  BY <1>1, <1>5, <1>6, <1>8 DEF FifoInv, Fifo!Frames
<1>10. /\ p \notin FifoPool!Resident /\ requested' = p
       /\ page_id'[f] = p
       /\ \A g \in Fifo!Frames : g # f => page_id'[g] = page_id[g]
  BY <1>1, <1>2, FifoSamePool, FifoPool!AdmitEffect DEF FifoInv
<1>11. FifoPages' = <<p>> \o Fifo!Front(FifoPages)
  <2>1. /\ f \in Fifo!Frames \ Fifo!Members(rest) /\ Fifo!IsInjective(rest.nodes)
        /\ \A g \in Fifo!Members(rest) : page_id'[g] = page_id[g]
    BY <1>2, <1>10 DEF FifoInv, Fifo!FramesOnOneList, Fifo!Exact
  <2>2. Fifo!Labels(Fifo!PushFront(rest, f), page_id')
          = <<page_id'[f]>> \o Fifo!Labels(rest, page_id)
    BY <1>2, <2>1, Fifo!LabelsPushFront, ZenonT(60)
  <2> QED
    BY <1>1, <1>3, <1>10, <2>2 DEF FifoPages
<1>12. Fifo!Fifo!Arrive(p)
  BY <1>4, <1>10, <1>11, FifoPagesAre DEF Fifo!Fifo!Arrive, FifoPages, Fifo!Front
<1> QED
  BY <1>7, <1>9, <1>12

(* touch. *)
LEMMA FifoHit ==
    ASSUME FifoInv, NEW p \in Pages, Fifo!Hit(p)
    PROVE  FifoInv' /\ FifoPool!Hit(p) /\ Fifo!Fifo!Hit(p)
<1> USE SizesAssumption
<1>1. PICK f \in Fifo!Frames : Fifo!Found(p, f)
  BY DEF Fifo!Hit
<1>2. /\ p \in FifoPool!Resident /\ requested' = p
      /\ UNCHANGED <<lookup_tbl, page_id, free_list, used_list>>
  BY <1>1, FifoSamePool DEF Fifo!Hit, FifoPool!Found
<1>3. FifoPool!Hit(p)
  BY <1>1, <1>2, FifoSamePool DEF FifoPool!Hit
<1>4. FifoPool!IInv'
  BY <1>3, FifoPool!HitIInv DEF FifoInv
<1>5. FifoInv'
  BY <1>2, <1>4 DEF FifoInv, Fifo!FramesOnOneList, Fifo!Frames
<1>6. Fifo!Fifo!Hit(p)
  BY <1>2, FifoPagesAre DEF Fifo!Fifo!Hit, FifoPages
<1> QED
  BY <1>3, <1>5, <1>6

(* Every action of FifoPolicy keeps its invariant, and is a step of the    *)
(* queue.                                                                  *)
LEMMA FifoNext ==
    ASSUME FifoInv, Fifo!Next
    PROVE  FifoInv' /\ FifoPool!Next /\ Fifo!Fifo!Next
<1>1. PICK p \in Pages : Fifo!MissFree(p) \/ Fifo!MissEvict(p) \/ Fifo!Hit(p)
  BY DEF Fifo!Next, Fifo!GetPage
<1>2. /\ FifoInv'
      /\ FifoPool!MissFree(p) \/ FifoPool!MissEvict(p) \/ FifoPool!Hit(p)
      /\ Fifo!Fifo!Arrive(p) \/ Fifo!Fifo!Hit(p)
  BY <1>1, FifoMissFree, FifoMissEvict, FifoHit
<1> QED
  BY <1>2 DEF FifoPool!Next, FifoPool!GetPage, Fifo!Fifo!Next

-----------------------------------------------------------------------------
LRUPool == INSTANCE PoolContractProofs
                WITH Capacity <- Few, used <- LRU!Frames \ LRU!Members(free_list)

(* BufPool below the policy and BufPool below the contract are one.        *)
LEMMA LRUSamePool ==
    /\ LRU!Frames = LRUPool!Frames
    /\ LRU!PoolTypeOK <=> LRUPool!PoolTypeOK
    /\ LRU!PoolInit <=> LRUPool!PoolInit
    /\ \A p, f, V : LRU!Admit(p, f, V) <=> LRUPool!Admit(p, f, V)
    /\ \A p, f : LRU!Found(p, f) <=> LRUPool!Found(p, f)
<1> USE DEF LRU!Frames, LRUPool!Frames, LRU!Resident, LRUPool!Resident
<1>1. LRU!PoolTypeOK <=> LRUPool!PoolTypeOK
  BY DEF LRU!PoolTypeOK, LRUPool!PoolTypeOK
<1>2. LRU!PoolInit <=> LRUPool!PoolInit
  BY DEF LRU!PoolInit, LRUPool!PoolInit
<1>3. ASSUME NEW p, NEW f, NEW V PROVE LRU!Admit(p, f, V) <=> LRUPool!Admit(p, f, V)
  BY DEF LRU!Admit, LRUPool!Admit, LRU!IdsAfterEvict, LRUPool!IdsAfterEvict,
         LRU!PagesAfterEvict, LRUPool!PagesAfterEvict
<1>4. ASSUME NEW p, NEW f PROVE LRU!Found(p, f) <=> LRUPool!Found(p, f)
  BY DEF LRU!Found, LRUPool!Found
<1> QED
  BY <1>1, <1>2, <1>3, <1>4

(* The contract the policy declares and the one proved about are one.      *)
LEMMA LRUSameContract ==
    /\ LRUPool!Init <=> LRU!Contract!Init
    /\ LRUPool!Next <=> LRU!Contract!Next
<1> USE DEF LRUPool!Frames, LRU!Contract!Frames, LRUPool!Resident, LRU!Contract!Resident
<1>1. LRUPool!Init <=> LRU!Contract!Init
  BY DEF LRUPool!Init, LRU!Contract!Init, LRUPool!PoolInit, LRU!Contract!PoolInit
<1>2. ASSUME NEW p, NEW f, NEW V PROVE LRUPool!Admit(p, f, V) <=> LRU!Contract!Admit(p, f, V)
  BY DEF LRUPool!Admit, LRU!Contract!Admit, LRUPool!IdsAfterEvict,
         LRU!Contract!IdsAfterEvict, LRUPool!PagesAfterEvict, LRU!Contract!PagesAfterEvict
<1>3. ASSUME NEW p, NEW f PROVE LRUPool!Found(p, f) <=> LRU!Contract!Found(p, f)
  BY DEF LRUPool!Found, LRU!Contract!Found
<1>4. ASSUME NEW p
      PROVE  /\ LRUPool!MissFree(p) <=> LRU!Contract!MissFree(p)
             /\ LRUPool!MissEvict(p) <=> LRU!Contract!MissEvict(p)
             /\ LRUPool!Hit(p) <=> LRU!Contract!Hit(p)
  BY <1>2, <1>3 DEF LRUPool!MissFree, LRU!Contract!MissFree, LRUPool!MissEvict,
         LRU!Contract!MissEvict, LRUPool!Hit, LRU!Contract!Hit
<1> QED
  BY <1>1, <1>4 DEF LRUPool!Next, LRUPool!GetPage, LRU!Contract!Next, LRU!Contract!GetPage

LRUInv ==
    /\ free_list \in LRU!ListOf(LRU!Frames) /\ lru_list \in LRU!ListOf(LRU!Frames)
    /\ LRU!FramesOnOneList
    /\ LRUPool!IInv

(* The invariant gives what the run checks.                                *)
LEMMA LRUConsistent == LRUInv => LRU!Consistent
BY LRUSamePool DEF LRUInv, LRU!Consistent, LRU!TypeOK, LRU!ListOf, LRUPool!IInv, LRUPool!TypeOK

(* The invariant holds of the empty pool.                                  *)
LEMMA LRUInit ==
    ASSUME LRU!Init
    PROVE  LRUInv /\ LRUPool!Init
<1>1. /\ free_list = LRU!Stacked(Few) /\ lru_list = LRU!EmptyList /\ LRU!PoolInit
  BY DEF LRU!Init
<1>2. /\ free_list \in LRU!ListOf(1..Few) /\ LRU!Exact(free_list)
      /\ LRU!Members(free_list) = 1..Few
  BY <1>1, LRU!StackedEffect, SizesAssumption
<1>3. /\ LRU!EmptyList \in LRU!ListOf(1..Few) /\ LRU!Exact(LRU!EmptyList)
      /\ LRU!Members(LRU!EmptyList) = {}
  BY LRU!EmptyListEffect, SizesAssumption
<1>4. LRUPool!Init
  BY <1>1, <1>2, LRUSamePool DEF LRUPool!Init, LRU!Frames
<1>5. LRUPool!IInv
  BY <1>4, LRUPool!InitIInv, SizesAssumption
<1>6. LRU!FramesOnOneList
  BY <1>1, <1>2, <1>3 DEF LRU!FramesOnOneList, LRU!Frames, LRU!Exact, LRU!EmptyList
<1> QED
  BY <1>1, <1>2, <1>3, <1>4, <1>5, <1>6 DEF LRUInv, LRU!Frames

(* The stack of the refinement: the pages of lru_list, each once.          *)
LRUPages == LRU!Labels(lru_list, page_id)

(* The labels of the list are the pages that the abstract stack holds.     *)
LEMMA LRUPagesAre ==
    ASSUME LRUInv
    PROVE  /\ LRUPages \in Seq(Pages \cup {INVALID_ID})
           /\ LRU!Recent!Range(LRUPages) = LRUPool!Resident
           /\ \A i, j \in 1..Len(LRUPages) : LRUPages[i] = LRUPages[j] => i = j
           /\ Len(LRUPages) = Len(lru_list.nodes) /\ Len(LRUPages) <= Few
           /\ Len(LRUPages) = Few <=> LRU!Members(free_list) = {}
<1> USE SizesAssumption
<1>1. /\ lru_list \in LRU!ListOf(LRU!Frames)
      /\ page_id \in [LRU!Frames -> Pages \cup {INVALID_ID}]
  BY LRUSamePool DEF LRUInv, LRUPool!IInv, LRUPool!TypeOK, LRUPool!PoolTypeOK
<1>2. LRUPages \in Seq(Pages \cup {INVALID_ID}) /\ Len(LRUPages) = Len(lru_list.nodes)
      /\ \A i \in 1..Len(lru_list.nodes) : LRUPages[i] = page_id[lru_list.nodes[i]]
  BY <1>1, LRU!LabelsTyped DEF LRUPages
<1>3. /\ LRU!Frames \ LRU!Members(free_list) = LRU!Members(lru_list)
      /\ LRU!IsInjective(lru_list.nodes)
  BY DEF LRUInv, LRU!FramesOnOneList
<1>4. /\ \A q \in LRUPool!Resident :
            /\ lookup_tbl[q] \in LRU!Members(lru_list)
            /\ page_id[lookup_tbl[q]] = q
      /\ \A f \in LRU!Members(lru_list) :
            page_id[f] \in LRUPool!Resident /\ lookup_tbl[page_id[f]] = f
  BY <1>3 DEF LRUInv, LRUPool!IInv, LRUPool!UsedIsMapped, LRUPool!LookupInverse
<1>5. LRU!Recent!Range(LRUPages) = LRUPool!Resident
  <2>1. LRU!Recent!Range(LRUPages) = LRU!ToSet(LRUPages)
    BY DEF LRU!Recent!Range, LRU!ToSet
  <2>2. LRU!ToSet(LRUPages) = {page_id[f] : f \in LRU!Members(lru_list)}
    BY <1>1, LRU!LabelsElements DEF LRUPages
  <2> QED
    BY <2>1, <2>2, <1>4
<1>6. ASSUME NEW i \in 1..Len(LRUPages), NEW j \in 1..Len(LRUPages), LRUPages[i] = LRUPages[j]
      PROVE  i = j
  <2>1. /\ DOMAIN lru_list.nodes = 1..Len(lru_list.nodes)
        /\ lru_list.nodes[i] \in LRU!Members(lru_list)
        /\ lru_list.nodes[j] \in LRU!Members(lru_list)
    BY <1>1, <1>2, LRU!MembersOfList
  <2>2. lru_list.nodes[i] = lru_list.nodes[j]
    BY <2>1, <1>2, <1>4, <1>6
  <2> QED
    BY <2>1, <2>2, <1>2, <1>3 DEF LRU!IsInjective
<1>7. Len(LRUPages) <= Few /\ (Len(LRUPages) = Few <=> LRU!Members(free_list) = {})
  <2>1. Cardinality(LRU!Members(lru_list)) = Len(LRUPages)
    <3>1. LRU!Cardinality(LRU!Members(lru_list)) = Len(LRUPages)
      BY <1>1, <1>2, <1>3, LRU!LengthIsCount
    <3> QED
      BY <3>1 DEF LRU!Cardinality, Cardinality
  <2>2. LRU!Frames = 1..Few /\ IsFiniteSet(1..Few) /\ Cardinality(1..Few) = Few
    BY FS_Interval DEF LRU!Frames
  <2>3. LRU!Members(free_list) \subseteq LRU!Frames
    BY DEF LRUInv, LRU!FramesOnOneList
  <2>4. /\ Cardinality(LRU!Members(lru_list)) <= Few
        /\ Cardinality(LRU!Members(lru_list)) = Few => LRU!Members(lru_list) = 1..Few
    BY <1>3, <2>2, FS_Subset
  <2> QED
    BY <2>1, <2>2, <2>3, <2>4, <1>3
<1> QED
  BY <1>2, <1>5, <1>6, <1>7

(* What Raised makes of a stack with room, of a full one, and of one that  *)
(* holds the item.                                                         *)
LEMMA RaisedNew ==
    ASSUME NEW T, NEW s \in Seq(T), NEW x \in T, x \notin LRU!Recent!Range(s), Len(s) <= Few
    PROVE  LRU!Recent!Raised(s, x)
             = <<x>> \o (IF Len(s) = Few THEN SubSeq(s, 1, Len(s) - 1) ELSE s)
<1> DEFINE t == <<x>> \o s
<1>1. Len(s) \in Nat /\ Few \in Nat \ {0}
  BY SizesAssumption
<1>2. t \in Seq(T) /\ Len(t) = Len(s) + 1
      /\ \A i \in 1..Len(t) : t[i] = IF i = 1 THEN x ELSE s[i - 1]
  BY <1>1
<1>3. LRU!Recent!Raised(s, x) = SubSeq(t, 1, IF Len(t) > Few THEN Few ELSE Len(t))
  BY DEF LRU!Recent!Raised, LRU!Recent!Without
<1>4. CASE Len(s) < Few
  BY <1>1, <1>2, <1>3, <1>4
<1>5. CASE Len(s) = Few
  <2> DEFINE u == <<x>> \o SubSeq(s, 1, Len(s) - 1)
             v == SubSeq(t, 1, Few)
  <2>1. /\ SubSeq(s, 1, Len(s) - 1) \in Seq(T) /\ Len(SubSeq(s, 1, Len(s) - 1)) = Few - 1
        /\ \A i \in 1..Few - 1 : SubSeq(s, 1, Len(s) - 1)[i] = s[i]
    BY <1>1, <1>5
  <2>2. u \in Seq(T) /\ Len(u) = Few /\ \A i \in 1..Few : u[i] = IF i = 1 THEN x ELSE s[i - 1]
    BY <2>1, <1>1, <1>5
  <2> HIDE DEF t, u
  <2>3. v \in Seq(T) /\ Len(v) = Few /\ \A i \in 1..Few : v[i] = t[i]
    BY <1>1, <1>2, <1>5
  <2> HIDE DEF v
  <2>4. u = v
    BY <2>2, <2>3, <1>1, <1>2, <1>5, SeqEqual
  <2> QED
    BY <2>4, <1>1, <1>2, <1>3, <1>5 DEF u, v
<1> QED
  BY <1>1, <1>4, <1>5

(* The stack of recencies with a page of it raised to the top.             *)
LEMMA RaisedOld ==
    ASSUME NEW T, NEW s \in Seq(T), NEW k \in 1..Len(s), Len(s) <= Few,
           \A i, j \in 1..Len(s) : s[i] = s[j] => i = j
    PROVE  LRU!Recent!Raised(s, s[k]) = <<s[k]>> \o LRU!RemoveAt(s, k)
<1> DEFINE r == LRU!RemoveAt(s, k)
           t == <<s[k]>> \o r
<1>1. Few \in Nat \ {0}
  BY SizesAssumption
<1>2. r \in Seq(T) /\ Len(r) = Len(s) - 1
  BY SizesAssumption, LRU!RemoveAtEffect
<1>3. s[k] \in LRU!Recent!Range(s) /\ DOMAIN s = 1..Len(s)
  BY DEF LRU!Recent!Range
<1>4. (CHOOSE i \in DOMAIN s : s[i] = s[k]) = k
  BY <1>3
<1>5. LRU!Recent!Without(s, s[k]) = r
  BY <1>3, <1>4 DEF LRU!Recent!Without, LRU!RemoveAt
<1> HIDE DEF r
<1>6. t \in Seq(T) /\ Len(t) = Len(s)
  BY <1>2
<1>7. LRU!Recent!Raised(s, s[k]) = SubSeq(t, 1, IF Len(t) > Few THEN Few ELSE Len(t))
  BY <1>5 DEF LRU!Recent!Raised
<1>8. LRU!Recent!Raised(s, s[k]) = SubSeq(t, 1, Len(t))
  BY <1>1, <1>6, <1>7
<1> HIDE DEF t
<1>9. SubSeq(t, 1, Len(t)) = t
  BY <1>6, SubSeqFull
<1> QED
  BY <1>8, <1>9 DEF r, t

(* get with a frame to spare. *)
LEMMA LRUMissFree ==
    ASSUME LRUInv, NEW p \in Pages, LRU!MissFree(p)
    PROVE  LRUInv' /\ LRUPool!MissFree(p) /\ LRU!Recent!Access(p)
<1> USE SizesAssumption
<1> DEFINE f == LRU!Back(free_list)
<1>1. /\ LRU!CanPop(free_list) /\ LRU!Admit(p, f, {})
      /\ free_list' = LRU!PopBack(free_list)
      /\ lru_list' = LRU!PushFront(lru_list, f)
  BY DEF LRU!MissFree
<1>2. /\ free_list' \in LRU!ListOf(LRU!Frames) /\ LRU!Exact(free_list')
      /\ f \in LRU!Frames /\ f \in LRU!Members(free_list)
      /\ LRU!Members(free_list') = LRU!Members(free_list) \ {f}
  BY <1>1, LRU!PopBackExact DEF LRUInv, LRU!FramesOnOneList
<1>3. f \in LRU!Frames \ LRU!Members(lru_list)
  BY <1>2 DEF LRUInv, LRU!FramesOnOneList
<1> HIDE DEF f
<1>4. /\ lru_list' \in LRU!ListOf(LRU!Frames) /\ LRU!IsInjective(lru_list'.nodes)
      /\ LRU!Members(lru_list') = LRU!Members(lru_list) \cup {f}
      /\ lru_list'.size = lru_list.size + 1
      /\ Len(lru_list'.nodes) = Len(lru_list.nodes) + 1
  BY <1>1, <1>3, LRU!PushFrontEffect DEF LRUInv, LRU!FramesOnOneList
<1>5. LRU!FramesOnOneList'
  <2>1. lru_list.size \in Nat /\ Len(lru_list.nodes) \in Nat
    BY LRU!MembersOfList DEF LRUInv, LRU!ListOf
  <2>2. lru_list'.size >= Len(lru_list'.nodes)
    BY <2>1, <1>4 DEF LRUInv, LRU!FramesOnOneList
  <2> QED
    BY <2>2, <1>2, <1>3, <1>4 DEF LRUInv, LRU!FramesOnOneList, LRU!Frames
<1>6. LRUPool!MissFree(p)
  BY <1>1, <1>2, LRUSamePool DEF LRUPool!MissFree, LRU!Frames
<1>7. LRUPool!IInv'
  BY <1>6, LRUPool!MissFreeIInv DEF LRUInv
<1>8. LRUInv'
  BY <1>2, <1>4, <1>5, <1>7 DEF LRUInv, LRU!Frames
<1>9. /\ p \notin LRUPool!Resident /\ requested' = p
      /\ page_id'[f] = p
      /\ \A g \in LRU!Frames : g # f => page_id'[g] = page_id[g]
  BY <1>1, <1>2, LRUSamePool, LRUPool!AdmitEffect DEF LRUInv
<1>10. LRUPages' = <<p>> \o LRUPages
  <2>1. /\ lru_list \in LRU!ListOf(LRU!Frames) /\ LRU!IsInjective(lru_list.nodes)
        /\ \A g \in LRU!Members(lru_list) : page_id'[g] = page_id[g]
    BY <1>3, <1>9 DEF LRUInv, LRU!FramesOnOneList
  <2>2. LRU!Labels(LRU!PushFront(lru_list, f), page_id')
          = <<page_id'[f]>> \o LRU!Labels(lru_list, page_id)
    BY <1>3, <2>1, LRU!LabelsPushFront, ZenonT(60)
  <2> QED
    BY <1>1, <1>9, <2>2 DEF LRUPages
<1>11. LRU!Recent!Access(p)
  <2>1. /\ LRUPages \in Seq(Pages \cup {INVALID_ID}) /\ p \in Pages \cup {INVALID_ID}
        /\ p \notin LRU!Recent!Range(LRUPages)
        /\ Len(LRUPages) <= Few /\ Len(LRUPages) # Few
    BY <1>2, <1>9, LRUPagesAre
  <2>2. LRU!Recent!Raised(LRUPages, p) = <<p>> \o LRUPages
    BY <2>1, RaisedNew
  <2> QED
    BY <2>2, <1>9, <1>10 DEF LRU!Recent!Access, LRUPages
<1> QED
  BY <1>6, <1>8, <1>11

(* get without: the back of lru_list_ goes through the free list to the    *)
(* front of lru_list_.                                                     *)
LEMMA LRUMissEvict ==
    ASSUME LRUInv, NEW p \in Pages, LRU!MissEvict(p)
    PROVE  LRUInv' /\ LRUPool!MissEvict(p) /\ LRU!Recent!Access(p)
<1> USE SizesAssumption
<1> DEFINE f == LRU!Back(lru_list)
           rest == LRU!PopBack(lru_list)
           filled == LRU!PushFront(free_list, f)
<1>1. /\ LRU!IsEmpty(free_list) /\ LRU!CanPop(lru_list)
      /\ LRU!Admit(p, LRU!Back(filled), {f})
      /\ free_list' = LRU!PopBack(filled)
      /\ lru_list' = LRU!PushFront(rest, LRU!Back(filled))
  BY DEF LRU!MissEvict
<1>2. /\ rest \in LRU!ListOf(LRU!Frames) /\ LRU!IsInjective(rest.nodes)
      /\ f \in LRU!Frames /\ f \in LRU!Members(lru_list)
      /\ LRU!Members(rest) = LRU!Members(lru_list) \ {f}
      /\ rest.size = lru_list.size - 1 /\ Len(rest.nodes) = Len(lru_list.nodes) - 1
      /\ lru_list.size > 0
  BY <1>1, LRU!PopBackEffect DEF LRUInv, LRU!FramesOnOneList, LRU!CanPop
<1>3. LRU!Labels(rest, page_id) = SubSeq(LRUPages, 1, Len(LRUPages) - 1)
  <2>1. LRU!Labels(rest, page_id) = LRU!Front(LRUPages)
    BY <1>1, LRU!LabelsPopBack DEF LRUPages, LRUInv, LRU!FramesOnOneList, LRU!CanPop
  <2> QED
    BY <2>1 DEF LRU!Front
<1>4. free_list.nodes = <<>> /\ free_list.size = 0 /\ LRU!Members(free_list) = {}
  <2>1. LRU!Members(free_list) = {}
    BY <1>1, LRU!EmptyExact DEF LRUInv, LRU!FramesOnOneList
  <2> QED
    BY <2>1, <1>1, LRU!MembersOfList DEF LRUInv, LRU!IsEmpty
<1> HIDE DEF f, rest
<1>5. LRU!Back(filled) = f /\ free_list' = LRU!EmptyList
  BY <1>1, <1>2, <1>4, LRU!PushThenPop DEF LRUInv
<1> HIDE DEF filled
<1>6. /\ free_list' \in LRU!ListOf(LRU!Frames) /\ LRU!Exact(free_list')
      /\ LRU!Members(free_list') = {}
  BY <1>5, LRU!EmptyListEffect
<1>7. /\ lru_list' \in LRU!ListOf(LRU!Frames) /\ LRU!IsInjective(lru_list'.nodes)
      /\ LRU!Members(lru_list') = LRU!Members(rest) \cup {f}
      /\ lru_list'.size = rest.size + 1 /\ Len(lru_list'.nodes) = Len(rest.nodes) + 1
  <2>1. f \in LRU!Frames \ LRU!Members(rest)
    BY <1>2
  <2> QED
    BY <2>1, <1>1, <1>2, <1>5, LRU!PushFrontEffect
<1>8. LRU!FramesOnOneList'
  <2>1. LRU!Members(lru_list') = LRU!Members(lru_list)
    BY <1>2, <1>7
  <2>2. lru_list.size \in Nat /\ Len(lru_list.nodes) \in Nat
    BY LRU!MembersOfList DEF LRUInv, LRU!ListOf
  <2>3. lru_list'.size >= Len(lru_list'.nodes)
    BY <2>2, <1>2, <1>7 DEF LRUInv, LRU!FramesOnOneList
  <2> QED
    BY <2>1, <2>3, <1>4, <1>6, <1>7 DEF LRUInv, LRU!FramesOnOneList, LRU!Frames
<1>9. LRUPool!MissEvict(p)
  BY <1>1, <1>2, <1>4, <1>5, <1>6, LRUSamePool DEF LRUPool!MissEvict, LRU!Frames
<1>10. LRUPool!IInv'
  BY <1>9, LRUPool!MissEvictIInv DEF LRUInv
<1>11. LRUInv'
  BY <1>6, <1>7, <1>8, <1>10 DEF LRUInv, LRU!Frames
<1>12. /\ p \notin LRUPool!Resident /\ requested' = p
       /\ page_id'[f] = p
       /\ \A g \in LRU!Frames : g # f => page_id'[g] = page_id[g]
  BY <1>1, <1>2, <1>5, LRUSamePool, LRUPool!AdmitEffect DEF LRUInv
<1>13. LRUPages' = <<p>> \o SubSeq(LRUPages, 1, Len(LRUPages) - 1)
  <2>1. /\ f \in LRU!Frames \ LRU!Members(rest)
        /\ \A g \in LRU!Members(rest) : page_id'[g] = page_id[g]
    BY <1>2, <1>12 DEF LRUInv, LRU!FramesOnOneList
  <2>2. LRU!Labels(LRU!PushFront(rest, f), page_id')
          = <<page_id'[f]>> \o LRU!Labels(rest, page_id)
    BY <1>2, <2>1, LRU!LabelsPushFront, ZenonT(60)
  <2> QED
    BY <1>1, <1>3, <1>5, <1>12, <2>2 DEF LRUPages
<1>14. LRU!Recent!Access(p)
  <2>1. /\ LRUPages \in Seq(Pages \cup {INVALID_ID}) /\ p \in Pages \cup {INVALID_ID}
        /\ p \notin LRU!Recent!Range(LRUPages)
        /\ Len(LRUPages) <= Few /\ Len(LRUPages) = Few
    BY <1>4, <1>12, LRUPagesAre
  <2>2. LRU!Recent!Raised(LRUPages, p) = <<p>> \o SubSeq(LRUPages, 1, Len(LRUPages) - 1)
    BY <2>1, RaisedNew
  <2> QED
    BY <2>2, <1>12, <1>13 DEF LRU!Recent!Access, LRUPages
<1> QED
  BY <1>9, <1>11, <1>14

(* touch: the frame moves to the front, and is counted once more.          *)
LEMMA LRUHit ==
    ASSUME LRUInv, NEW p \in Pages, LRU!Hit(p)
    PROVE  LRUInv' /\ LRUPool!Hit(p) /\ LRU!Recent!Access(p)
<1> USE SizesAssumption
<1>1. PICK f \in LRU!Frames :
          LRU!Found(p, f) /\ lru_list' = LRU!PushFront(LRU!Unlink(lru_list, f), f)
  BY DEF LRU!Hit
<1> DEFINE rest == LRU!Unlink(lru_list, f)
<1>2. /\ p \in LRUPool!Resident /\ page_id[f] = p /\ f = lookup_tbl[p] /\ requested' = p
      /\ UNCHANGED <<lookup_tbl, page_id, free_list>>
  BY <1>1, LRUSamePool DEF LRU!Hit, LRUPool!Found
<1>3. f \in LRU!Members(lru_list)
  BY <1>2 DEF LRUInv, LRUPool!IInv, LRUPool!UsedIsMapped, LRU!FramesOnOneList
<1>4. /\ rest \in LRU!ListOf(LRU!Frames) /\ LRU!IsInjective(rest.nodes)
      /\ LRU!Members(rest) = LRU!Members(lru_list) \ {f}
      /\ rest.size = lru_list.size
      /\ Len(lru_list.nodes) > 0 /\ Len(rest.nodes) = Len(lru_list.nodes) - 1
  BY <1>3, LRU!UnlinkEffect DEF LRUInv, LRU!FramesOnOneList
<1>5. PICK k \in 1..Len(lru_list.nodes) :
          LRUPages[k] = p /\ LRU!Labels(rest, page_id) = LRU!RemoveAt(LRUPages, k)
  BY <1>2, <1>3, LRU!LabelsUnlink DEF LRUPages, LRUInv, LRU!FramesOnOneList
<1> HIDE DEF rest
<1>6. /\ lru_list' \in LRU!ListOf(LRU!Frames) /\ LRU!IsInjective(lru_list'.nodes)
      /\ LRU!Members(lru_list') = LRU!Members(rest) \cup {f}
      /\ lru_list'.size = rest.size + 1 /\ Len(lru_list'.nodes) = Len(rest.nodes) + 1
  <2>1. f \in LRU!Frames \ LRU!Members(rest)
    BY <1>4
  <2> QED
    BY <2>1, <1>1, <1>4, LRU!PushFrontEffect DEF rest
<1>7. LRU!FramesOnOneList'
  <2>1. LRU!Members(lru_list') = LRU!Members(lru_list)
    BY <1>3, <1>4, <1>6
  <2>2. lru_list.size \in Nat /\ Len(lru_list.nodes) \in Nat
    BY LRU!MembersOfList DEF LRUInv, LRU!ListOf
  <2>3. lru_list'.size >= Len(lru_list'.nodes)
    BY <2>2, <1>4, <1>6 DEF LRUInv, LRU!FramesOnOneList
  <2> QED
    BY <2>1, <2>3, <1>2, <1>6 DEF LRUInv, LRU!FramesOnOneList, LRU!Frames
<1>8. LRUPool!Hit(p)
  BY <1>1, <1>2, LRUSamePool DEF LRUPool!Hit
<1>9. LRUPool!IInv'
  BY <1>8, LRUPool!HitIInv DEF LRUInv
<1>10. LRUInv'
  BY <1>2, <1>6, <1>7, <1>9 DEF LRUInv, LRU!Frames
<1>11. LRUPages' = <<p>> \o LRU!RemoveAt(LRUPages, k)
  <2>1. f \in LRU!Frames \ LRU!Members(rest)
    BY <1>4
  <2>2. LRU!Labels(LRU!PushFront(rest, f), page_id)
          = <<page_id[f]>> \o LRU!Labels(rest, page_id)
    BY <2>1, <1>4, LRU!LabelsPushFront, ZenonT(60)
  <2> QED
    BY <2>2, <1>1, <1>2, <1>5 DEF LRUPages, rest
<1>12. LRU!Recent!Access(p)
  <2>1. /\ LRUPages \in Seq(Pages \cup {INVALID_ID}) /\ Len(LRUPages) <= Few
        /\ \A i, j \in 1..Len(LRUPages) : LRUPages[i] = LRUPages[j] => i = j
    BY LRUPagesAre
  <2>2. k \in 1..Len(LRUPages)
    BY LRUPagesAre
  <2>3. LRU!Recent!Raised(LRUPages, p) = <<p>> \o LRU!RemoveAt(LRUPages, k)
    BY <2>1, <2>2, <1>5, RaisedOld
  <2> QED
    BY <2>3, <1>2, <1>11 DEF LRU!Recent!Access, LRUPages
<1> QED
  BY <1>8, <1>10, <1>12

(* Every action of LRUPolicy keeps its invariant, and is a step of the     *)
(* stack.                                                                  *)
LEMMA LRUNext ==
    ASSUME LRUInv, LRU!Next
    PROVE  LRUInv' /\ LRUPool!Next /\ LRU!Recent!Next
<1>1. PICK p \in Pages : LRU!MissFree(p) \/ LRU!MissEvict(p) \/ LRU!Hit(p)
  BY DEF LRU!Next, LRU!GetPage
<1>2. /\ LRUInv' /\ LRU!Recent!Access(p)
      /\ LRUPool!MissFree(p) \/ LRUPool!MissEvict(p) \/ LRUPool!Hit(p)
  BY <1>1, LRUMissFree, LRUMissEvict, LRUHit
<1> QED
  BY <1>2 DEF LRUPool!Next, LRUPool!GetPage, LRU!Recent!Next

-----------------------------------------------------------------------------
RandomPool == INSTANCE PoolContractProofs
                WITH Capacity <- Few, used <- Random!Frames \ Random!Members(free_list)

(* BufPool below the policy and BufPool below the contract are one.        *)
LEMMA RandomSamePool ==
    /\ Random!Frames = RandomPool!Frames
    /\ Random!PoolTypeOK <=> RandomPool!PoolTypeOK
    /\ Random!PoolInit <=> RandomPool!PoolInit
    /\ \A p, f, V : Random!Admit(p, f, V) <=> RandomPool!Admit(p, f, V)
    /\ \A p, f : Random!Found(p, f) <=> RandomPool!Found(p, f)
<1> USE DEF Random!Frames, RandomPool!Frames, Random!Resident, RandomPool!Resident
<1>1. Random!PoolTypeOK <=> RandomPool!PoolTypeOK
  BY DEF Random!PoolTypeOK, RandomPool!PoolTypeOK
<1>2. Random!PoolInit <=> RandomPool!PoolInit
  BY DEF Random!PoolInit, RandomPool!PoolInit
<1>3. ASSUME NEW p, NEW f, NEW V PROVE Random!Admit(p, f, V) <=> RandomPool!Admit(p, f, V)
  BY DEF Random!Admit, RandomPool!Admit, Random!IdsAfterEvict, RandomPool!IdsAfterEvict,
         Random!PagesAfterEvict, RandomPool!PagesAfterEvict
<1>4. ASSUME NEW p, NEW f PROVE Random!Found(p, f) <=> RandomPool!Found(p, f)
  BY DEF Random!Found, RandomPool!Found
<1> QED
  BY <1>1, <1>2, <1>3, <1>4

(* The contract the policy declares and the one proved about are one.      *)
LEMMA RandomSameContract ==
    /\ RandomPool!Init <=> Random!Contract!Init
    /\ RandomPool!Next <=> Random!Contract!Next
<1> USE DEF RandomPool!Frames, Random!Contract!Frames, RandomPool!Resident, Random!Contract!Resident
<1>1. RandomPool!Init <=> Random!Contract!Init
  BY DEF RandomPool!Init, Random!Contract!Init, RandomPool!PoolInit, Random!Contract!PoolInit
<1>2. ASSUME NEW p, NEW f, NEW V PROVE RandomPool!Admit(p, f, V) <=> Random!Contract!Admit(p, f, V)
  BY DEF RandomPool!Admit, Random!Contract!Admit, RandomPool!IdsAfterEvict,
         Random!Contract!IdsAfterEvict, RandomPool!PagesAfterEvict, Random!Contract!PagesAfterEvict
<1>3. ASSUME NEW p, NEW f PROVE RandomPool!Found(p, f) <=> Random!Contract!Found(p, f)
  BY DEF RandomPool!Found, Random!Contract!Found
<1>4. ASSUME NEW p
      PROVE  /\ RandomPool!MissFree(p) <=> Random!Contract!MissFree(p)
             /\ RandomPool!MissEvict(p) <=> Random!Contract!MissEvict(p)
             /\ RandomPool!Hit(p) <=> Random!Contract!Hit(p)
  BY <1>2, <1>3 DEF RandomPool!MissFree, Random!Contract!MissFree, RandomPool!MissEvict,
         Random!Contract!MissEvict, RandomPool!Hit, Random!Contract!Hit
<1> QED
  BY <1>1, <1>4 DEF RandomPool!Next, RandomPool!GetPage, Random!Contract!Next, Random!Contract!GetPage

RandomInv ==
    /\ free_list \in Random!ListOf(Random!Frames) /\ residents \in Seq(Random!Frames)
    /\ Random!FramesOnOneSide
    /\ RandomPool!IInv

(* The invariant gives what the run checks.                                *)
LEMMA RandomConsistent == RandomInv => Random!Consistent
BY RandomSamePool
DEF RandomInv, Random!Consistent, Random!TypeOK, Random!ListOf, RandomPool!IInv, RandomPool!TypeOK

(* The invariant holds of the empty pool.                                  *)
LEMMA RandomInit ==
    ASSUME Random!Init
    PROVE  RandomInv /\ RandomPool!Init
<1>1. free_list = Random!Stacked(Few) /\ residents = <<>> /\ Random!PoolInit
  BY DEF Random!Init
<1>2. /\ free_list \in Random!ListOf(1..Few) /\ Random!Exact(free_list)
      /\ Random!Members(free_list) = 1..Few
  BY <1>1, Random!StackedEffect, SizesAssumption
<1>3. /\ residents \in Seq(1..Few) /\ Random!IsInjective(residents)
      /\ Random!ToSet(residents) = {}
  BY <1>1 DEF Random!IsInjective, Random!ToSet
<1>4. RandomPool!Init
  BY <1>1, <1>2, RandomSamePool DEF RandomPool!Init, Random!Frames
<1>5. RandomPool!IInv
  BY <1>4, RandomPool!InitIInv, SizesAssumption
<1> QED
  BY <1>2, <1>3, <1>4, <1>5 DEF RandomInv, Random!FramesOnOneSide, Random!Frames

(* The vector as a set: what push_back adds to it, and what moving the     *)
(* last element into the place of another takes out of it.                 *)
LEMMA VectorElements ==
    ASSUME NEW S, NEW s \in Seq(S)
    PROVE  /\ DOMAIN s = 1..Len(s) /\ Len(s) \in Nat
           /\ \A i \in 1..Len(s) : s[i] \in S /\ s[i] \in Random!ToSet(s)
           /\ \A x \in Random!ToSet(s) : \E i \in 1..Len(s) : x = s[i]
BY DEF Random!ToSet

(* A frame that was not in the vector is appended to it.                   *)
LEMMA VectorAppend ==
    ASSUME NEW S, NEW s \in Seq(S), NEW x \in S, Random!IsInjective(s), x \notin Random!ToSet(s)
    PROVE  /\ Append(s, x) \in Seq(S) /\ Random!IsInjective(Append(s, x))
           /\ Random!ToSet(Append(s, x)) = Random!ToSet(s) \cup {x}
<1> DEFINE t == Append(s, x)
<1>1. /\ t \in Seq(S) /\ Len(t) = Len(s) + 1 /\ t[Len(s) + 1] = x
      /\ \A i \in 1..Len(s) : t[i] = s[i]
  OBVIOUS
<1> HIDE DEF t
<1>2. \A i \in 1..Len(t) : i = Len(s) + 1 \/ i \in 1..Len(s)
  BY <1>1
<1>3. Random!ToSet(t) = Random!ToSet(s) \cup {x}
  <2>1. \A y \in Random!ToSet(t) : y = x \/ y \in Random!ToSet(s)
    BY <1>1, <1>2, VectorElements
  <2>2. Len(s) + 1 \in 1..Len(t) /\ \A i \in 1..Len(s) : i \in 1..Len(t)
    BY <1>1
  <2>3. x \in Random!ToSet(t) /\ \A i \in 1..Len(s) : s[i] \in Random!ToSet(t)
    BY <2>2, <1>1, VectorElements
  <2> QED
    BY <2>1, <2>3, VectorElements
<1>4. Random!IsInjective(t)
  <2>1. SUFFICES ASSUME NEW i \in 1..Len(t), NEW j \in 1..Len(t), t[i] = t[j] PROVE i = j
    BY <1>1, VectorElements DEF Random!IsInjective
  <2>2. \A k \in 1..Len(s) : s[k] # x
    BY VectorElements
  <2>3. CASE i \in 1..Len(s) /\ j \in 1..Len(s)
    BY <2>1, <2>3, <1>1, VectorElements DEF Random!IsInjective
  <2> QED
    BY <2>1, <2>2, <2>3, <1>1, <1>2
<1> QED
  BY <1>1, <1>3, <1>4 DEF t

(* The last frame takes the place of the victim, which is appended: the    *)
(* vector holds the same frames.                                           *)
LEMMA VectorSwapOut ==
    ASSUME NEW S, NEW s \in Seq(S), NEW k \in 1..Len(s), Random!IsInjective(s)
    PROVE  /\ Random!SwapOut(s, k) \in Seq(S) /\ Random!IsInjective(Random!SwapOut(s, k))
           /\ Random!ToSet(Random!SwapOut(s, k)) = Random!ToSet(s) \ {s[k]}
<1> DEFINE t == Random!SwapOut(s, k)
           n == Len(s)
<1>1. n \in Nat /\ n > 0 /\ n \in 1..n /\ k \in 1..n /\ k > 0
  OBVIOUS
<1>2. /\ t \in Seq(S) /\ Len(t) = n - 1
      /\ \A i \in 1..n - 1 : t[i] = IF i = k THEN s[n] ELSE s[i]
  <2> DEFINE u == [s EXCEPT ![k] = s[n]]
  <2>1. u \in Seq(S) /\ Len(u) = n /\ \A i \in 1..n : u[i] = IF i = k THEN s[n] ELSE s[i]
    OBVIOUS
  <2>2. t = SubSeq(u, 1, Len(u) - 1)
    BY DEF Random!SwapOut, Random!Front, Random!Last
  <2> HIDE DEF u, t
  <2> QED
    BY <2>1, <2>2, <1>1
<1>3. \A i, j \in 1..n : s[i] = s[j] => i = j
  BY DEF Random!IsInjective
<1> HIDE DEF t, n
<1>4. \A i \in 1..n - 1 : \E j \in 1..n : j # k /\ t[i] = s[j] /\ j = IF i = k THEN n ELSE i
  BY <1>1, <1>2
<1>5. Random!IsInjective(t)
  <2>1. SUFFICES ASSUME NEW i \in 1..n - 1, NEW j \in 1..n - 1, t[i] = t[j] PROVE i = j
    BY <1>2, VectorElements DEF Random!IsInjective
  <2>2. PICK a \in 1..n : t[i] = s[a] /\ a = IF i = k THEN n ELSE i
    BY <1>4
  <2>3. PICK b \in 1..n : t[j] = s[b] /\ b = IF j = k THEN n ELSE j
    BY <1>4
  <2>4. a = b
    BY <2>1, <2>2, <2>3, <1>3
  <2> QED
    BY <2>2, <2>3, <2>4, <1>1
<1>6. \A x \in Random!ToSet(t) : x \in Random!ToSet(s) /\ x # s[k]
  <2>1. ASSUME NEW i \in 1..n - 1 PROVE t[i] \in Random!ToSet(s) /\ t[i] # s[k]
    <3>1. PICK j \in 1..n : j # k /\ t[i] = s[j]
      BY <1>4
    <3> QED
      BY <3>1, <1>1, <1>3, VectorElements DEF n
  <2> QED
    BY <2>1, <1>2, VectorElements
<1>7. \A x \in Random!ToSet(s) : x = s[k] \/ x \in Random!ToSet(t)
  <2>1. ASSUME NEW j \in 1..n, j # k PROVE s[j] \in Random!ToSet(t)
    <3>1. \E i \in 1..n - 1 : t[i] = s[j]
      <4>1. CASE j = n
        <5>1. k \in 1..n - 1
          BY <4>1, <2>1, <1>1
        <5> QED
          BY <5>1, <4>1, <1>2
      <4>2. CASE j # n
        <5>1. j \in 1..n - 1
          BY <4>2, <1>1
        <5> QED
          BY <5>1, <2>1, <1>2
      <4> QED
        BY <4>1, <4>2
    <3> QED
      BY <3>1, <1>2, VectorElements
  <2> QED
    BY <2>1, VectorElements DEF n
<1> QED
  BY <1>2, <1>5, <1>6, <1>7 DEF t

(* get with a frame to spare. *)
LEMMA RandomMissFree ==
    ASSUME RandomInv, NEW p \in Pages, Random!MissFree(p)
    PROVE  RandomInv' /\ RandomPool!MissFree(p)
<1> USE SizesAssumption
<1> DEFINE f == Random!Back(free_list)
<1>1. /\ Random!CanPop(free_list) /\ Random!Admit(p, f, {})
      /\ free_list' = Random!PopBack(free_list)
      /\ residents' = Append(residents, f)
  BY DEF Random!MissFree
<1>2. /\ free_list' \in Random!ListOf(Random!Frames) /\ Random!Exact(free_list')
      /\ f \in Random!Frames /\ f \in Random!Members(free_list)
      /\ Random!Members(free_list') = Random!Members(free_list) \ {f}
  BY <1>1, Random!PopBackExact DEF RandomInv, Random!FramesOnOneSide
<1>3. f \notin Random!ToSet(residents)
  BY <1>2 DEF RandomInv, Random!FramesOnOneSide
<1> HIDE DEF f
<1>4. /\ residents' \in Seq(Random!Frames) /\ Random!IsInjective(residents')
      /\ Random!ToSet(residents') = Random!ToSet(residents) \cup {f}
  BY <1>1, <1>2, <1>3, VectorAppend DEF RandomInv, Random!FramesOnOneSide
<1>5. Random!FramesOnOneSide'
  BY <1>2, <1>3, <1>4 DEF RandomInv, Random!FramesOnOneSide, Random!Frames
<1>6. RandomPool!MissFree(p)
  BY <1>1, <1>2, RandomSamePool DEF RandomPool!MissFree, Random!Frames
<1>7. RandomPool!IInv'
  BY <1>6, RandomPool!MissFreeIInv DEF RandomInv
<1> QED
  BY <1>2, <1>4, <1>5, <1>6, <1>7 DEF RandomInv, Random!Frames

(* get without: the frame drawn goes through the free list to the end of   *)
(* the vector.                                                             *)
LEMMA RandomMissEvict ==
    ASSUME RandomInv, NEW p \in Pages, Random!MissEvict(p)
    PROVE  RandomInv' /\ RandomPool!MissEvict(p)
<1> USE SizesAssumption
<1>1. PICK i \in 1..Len(residents) :
          LET filled == Random!PushFront(free_list, residents[i])
          IN  /\ Random!IsEmpty(free_list)
              /\ Random!Admit(p, Random!Back(filled), {residents[i]})
              /\ free_list' = Random!PopBack(filled)
              /\ residents' = Append(Random!SwapOut(residents, i), Random!Back(filled))
  <2>1. DOMAIN residents = 1..Len(residents)
    BY VectorElements DEF RandomInv
  <2> QED
    BY <2>1, Zenon DEF Random!MissEvict
<1> DEFINE f == residents[i]
           rest == Random!SwapOut(residents, i)
<1>2. f \in Random!Frames /\ f \in Random!ToSet(residents)
  BY VectorElements DEF RandomInv
<1>3. free_list.nodes = <<>> /\ free_list.size = 0 /\ Random!Members(free_list) = {}
  <2>1. Random!Members(free_list) = {}
    BY <1>1, Random!EmptyExact DEF RandomInv, Random!FramesOnOneSide
  <2> QED
    BY <2>1, <1>1, Random!MembersOfList DEF RandomInv, Random!IsEmpty
<1>4. /\ Random!Back(Random!PushFront(free_list, f)) = f
      /\ Random!PopBack(Random!PushFront(free_list, f)) = Random!EmptyList
  BY <1>2, <1>3, Random!PushThenPop DEF RandomInv
<1>5. free_list' = Random!EmptyList /\ residents' = Append(rest, f) /\ Random!Admit(p, f, {f})
  BY <1>1, <1>4
<1>6. /\ free_list' \in Random!ListOf(Random!Frames) /\ Random!Exact(free_list')
      /\ Random!Members(free_list') = {}
  BY <1>5, Random!EmptyListEffect
<1>7. /\ rest \in Seq(Random!Frames) /\ Random!IsInjective(rest)
      /\ Random!ToSet(rest) = Random!ToSet(residents) \ {f}
  BY VectorSwapOut DEF RandomInv, Random!FramesOnOneSide
<1> HIDE DEF f, rest
<1>8. /\ residents' \in Seq(Random!Frames) /\ Random!IsInjective(residents')
      /\ Random!ToSet(residents') = Random!ToSet(residents)
  <2>1. f \notin Random!ToSet(rest)
    BY <1>7
  <2>2. /\ Append(rest, f) \in Seq(Random!Frames) /\ Random!IsInjective(Append(rest, f))
        /\ Random!ToSet(Append(rest, f)) = Random!ToSet(rest) \cup {f}
    BY <2>1, <1>2, <1>7, VectorAppend
  <2> QED
    BY <2>2, <1>2, <1>5, <1>7
<1>9. Random!FramesOnOneSide'
  BY <1>3, <1>6, <1>8 DEF RandomInv, Random!FramesOnOneSide, Random!Frames
<1>10. RandomPool!MissEvict(p)
  BY <1>2, <1>3, <1>5, <1>6, RandomSamePool DEF RandomPool!MissEvict, Random!Frames
<1>11. RandomPool!IInv'
  BY <1>10, RandomPool!MissEvictIInv DEF RandomInv
<1> QED
  BY <1>6, <1>8, <1>9, <1>10, <1>11 DEF RandomInv, Random!Frames

(* A hit changes nothing.                                                  *)
LEMMA RandomHit ==
    ASSUME RandomInv, NEW p \in Pages, Random!Hit(p)
    PROVE  RandomInv' /\ RandomPool!Hit(p)
<1>1. PICK f \in Random!Frames : Random!Found(p, f)
  BY DEF Random!Hit
<1>2. UNCHANGED <<lookup_tbl, page_id, free_list, residents>>
  BY <1>1, RandomSamePool DEF Random!Hit, RandomPool!Found
<1>3. RandomPool!Hit(p)
  BY <1>1, <1>2, RandomSamePool DEF RandomPool!Hit
<1>4. RandomPool!IInv'
  BY <1>3, RandomPool!HitIInv, SizesAssumption DEF RandomInv
<1> QED
  BY <1>2, <1>3, <1>4 DEF RandomInv, Random!FramesOnOneSide, Random!Frames

(* Every action of RandomPolicy keeps its invariant.                       *)
LEMMA RandomNext ==
    ASSUME RandomInv, Random!Next
    PROVE  RandomInv' /\ RandomPool!Next
<1>1. PICK p \in Pages : Random!MissFree(p) \/ Random!MissEvict(p) \/ Random!Hit(p)
  BY DEF Random!Next, Random!GetPage
<1>2. /\ RandomInv'
      /\ RandomPool!MissFree(p) \/ RandomPool!MissEvict(p) \/ RandomPool!Hit(p)
  BY <1>1, RandomMissFree, RandomMissEvict, RandomHit
<1> QED
  BY <1>2 DEF RandomPool!Next, RandomPool!GetPage

-----------------------------------------------------------------------------
(* 2Q on page numbers.  The queues of the refinement are the pages of the  *)
(* two lists, its ghosts the keys of the recency pool.                     *)
ColdPages == TwoQ!Labels(cold_list, page_id)
HotPages == TwoQ!Labels(hot_list, page_id)

(* The pages of a list of frames in use, each once.                        *)
LEMMA QueuePages ==
    ASSUME TwoQFrames, NEW l \in TwoQ!ListOf(TwoQ!Frames), TwoQ!Exact(l),
           \A f \in TwoQ!Members(l) : state[f] # "FREE"
    PROVE  LET q == TwoQ!Labels(l, page_id)
           IN  /\ q \in Seq(Pages \cup {INVALID_ID}) /\ Len(q) = l.size /\ Len(q) \in Nat
               /\ Len(q) = Len(l.nodes)
               /\ \A i, j \in 1..Len(q) : q[i] = q[j] => i = j
               /\ TwoQ!Queues!Range(q) = {page_id[f] : f \in TwoQ!Members(l)}
<1> USE SizesAssumption
<1> DEFINE q == TwoQ!Labels(l, page_id)
<1>1. page_id \in [TwoQ!Frames -> Pages \cup {INVALID_ID}]
  BY TwoQSamePool DEF TwoQFrames, TwoQPool!IInv, TwoQPool!TypeOK, TwoQPool!PoolTypeOK
<1>2. q \in Seq(Pages \cup {INVALID_ID}) /\ Len(q) = Len(l.nodes)
      /\ \A i \in 1..Len(l.nodes) : q[i] = page_id[l.nodes[i]]
  BY <1>1, TwoQ!LabelsTyped
<1>3. /\ DOMAIN l.nodes = 1..Len(l.nodes) /\ Len(l.nodes) \in Nat
      /\ \A i \in 1..Len(l.nodes) : l.nodes[i] \in TwoQ!Members(l)
      /\ TwoQ!Members(l) \subseteq TwoQ!Frames
  BY TwoQ!MembersOfList
<1>4. \A f \in TwoQ!Members(l) : lookup_tbl[page_id[f]] = f
  <2> TAKE f \in TwoQ!Members(l)
  <2>1. f \in TwoQ!Frames \ TwoQ!Members(free_list)
    BY <1>3, TwoQListsHold
  <2> QED
    BY <2>1 DEF TwoQFrames, TwoQPool!IInv, TwoQPool!UsedIsMapped
<1>5. TwoQ!Queues!Range(q) = {page_id[f] : f \in TwoQ!Members(l)}
  <2>1. TwoQ!Queues!Range(q) = TwoQ!ToSet(q)
    BY DEF TwoQ!Queues!Range, TwoQ!ToSet
  <2>2. TwoQ!ToSet(q) = {page_id[f] : f \in TwoQ!Members(l)}
    BY TwoQ!LabelsElements
  <2> QED
    BY <2>1, <2>2
<1> HIDE DEF q
<1>6. ASSUME NEW i \in 1..Len(q), NEW j \in 1..Len(q), q[i] = q[j] PROVE i = j
  <2>1. l.nodes[i] = l.nodes[j]
    BY <1>2, <1>3, <1>4, <1>6
  <2> QED
    BY <2>1, <1>2, <1>3 DEF TwoQ!Exact, TwoQ!IsInjective
<1> QED
  BY <1>2, <1>3, <1>5, <1>6 DEF q, TwoQ!Exact

(* Between them the two queues hold the resident pages, and they are full  *)
(* when no frame is free.                                                  *)
LEMMA QueuesArePool ==
    ASSUME TwoQFrames
    PROVE  /\ \A p \in Pages : TwoQ!Queues!Present(p) <=> p \in TwoQPool!Resident
           /\ TwoQ!Queues!Full <=> TwoQ!IsEmpty(free_list)
<1> USE SizesAssumption
<1> DEFINE C == TwoQ!Members(cold_list)
           H == TwoQ!Members(hot_list)
<1>1. /\ \A f \in TwoQ!Frames : /\ f \in TwoQ!Members(free_list) <=> f \notin C \cup H
                                /\ f \in C => state[f] # "FREE"
                                /\ f \in H => state[f] # "FREE"
      /\ C \cap H = {} /\ C \cup H \subseteq TwoQ!Frames
      /\ TwoQ!Members(free_list) \subseteq TwoQ!Frames
  <2>1. \A f \in TwoQ!Frames : state[f] \in {"FREE", "COLD", "HOT"}
    BY DEF TwoQFrames
  <2> QED
    BY <2>1, TwoQListsHold
<1>2. /\ TwoQ!Queues!Range(ColdPages) = {page_id[f] : f \in C}
      /\ TwoQ!Queues!Range(HotPages) = {page_id[f] : f \in H}
      /\ Len(ColdPages) = Len(cold_list.nodes) /\ Len(HotPages) = Len(hot_list.nodes)
  BY <1>1, TwoQListsHold, QueuePages DEF ColdPages, HotPages
<1>3. ASSUME NEW p \in Pages PROVE TwoQ!Queues!Present(p) <=> p \in TwoQPool!Resident
  <2>1. TwoQ!Queues!Present(p) <=> \E f \in C \cup H : p = page_id[f]
    BY <1>2 DEF TwoQ!Queues!Present, ColdPages, HotPages
  <2>2. /\ \A q \in TwoQPool!Resident : /\ lookup_tbl[q] \in TwoQ!Frames \ TwoQ!Members(free_list)
                                        /\ page_id[lookup_tbl[q]] = q
        /\ \A f \in TwoQ!Frames \ TwoQ!Members(free_list) : page_id[f] \in TwoQPool!Resident
    BY TwoQSamePool
    DEF TwoQFrames, TwoQPool!IInv, TwoQPool!UsedIsMapped, TwoQPool!LookupInverse
  <2> QED
    BY <2>1, <2>2, <1>1
<1>4. TwoQ!Queues!Full <=> TwoQ!IsEmpty(free_list)
  <2>1. /\ IsFiniteSet(C) /\ Cardinality(C) = Len(cold_list.nodes)
        /\ IsFiniteSet(H) /\ Cardinality(H) = Len(hot_list.nodes)
    BY TwoQListsHold, TwoQ!LengthIsCount
    DEF TwoQ!Exact, TwoQ!Cardinality, Cardinality, TwoQ!IsFiniteSet, IsFiniteSet
  <2>2. TwoQ!Frames = 1..Many /\ IsFiniteSet(1..Many) /\ Cardinality(1..Many) = Many
    BY FS_Interval DEF TwoQ!Frames
  <2> HIDE DEF C, H
  <2>3. /\ IsFiniteSet(C \cup H) /\ Cardinality(C \cup H) = Len(cold_list.nodes) + Len(hot_list.nodes)
    <3>1. Cardinality(C \cap H) = 0
      BY <1>1, FS_EmptySet
    <3>2. /\ IsFiniteSet(C \cup H)
          /\ Cardinality(C \cup H) = Cardinality(C) + Cardinality(H) - Cardinality(C \cap H)
      BY <2>1, FS_Union
    <3>3. Cardinality(C) \in Nat /\ Cardinality(H) \in Nat
      BY <2>1, FS_CardinalityType
    <3> QED
      BY <2>1, <3>1, <3>2, <3>3
  <2>4. Cardinality(C \cup H) = Many <=> C \cup H = 1..Many
    <3>1. C \cup H \subseteq 1..Many
      BY <1>1, <2>2
    <3> QED
      BY <2>2, <3>1, FS_Subset
  <2>5. TwoQ!IsEmpty(free_list) <=> TwoQ!Members(free_list) = {}
    BY TwoQListsHold, TwoQ!EmptyExact
  <2>6. TwoQ!Members(free_list) = {} <=> C \cup H = 1..Many
    BY <1>1, <2>2
  <2>7. TwoQ!Queues!Full <=> Len(ColdPages) + Len(HotPages) = Many
    BY DEF TwoQ!Queues!Full, ColdPages, HotPages
  <2> QED
    BY <1>2, <2>3, <2>4, <2>5, <2>6, <2>7
<1> QED
  BY <1>3, <1>4

(* A page that arrives enters the queue that its ghost, or the lack of     *)
(* one, names.  The lists are those of TwoQPlace.                          *)
LEMMA QueuesArrive ==
    ASSUME SENTINEL \notin Pages, TwoQFrames, NEW p \in Pages, NEW res \in TwoQ!Frames,
           NEW cold, NEW hot, TwoQHolds(cold, "COLD", res), TwoQHolds(hot, "HOT", res),
           GhostsKept(recent_pool'),
           TwoQ!Place(p, res, cold, hot, recent_pool'),
           page_id'[res] = p,
           \A g \in TwoQ!Frames : g # res => page_id'[g] = page_id[g]
    PROVE  TwoQ!Queues!Arrive(p, TwoQ!Labels(cold, page_id), TwoQ!Labels(hot, page_id),
                              TwoQ!Keys(recent_pool'))
<1> USE SizesAssumption
<1> DEFINE k == TwoQ!Keys(recent_pool')
           c == TwoQ!Labels(cold, page_id)
           h == TwoQ!Labels(hot, page_id)
<1>1. p \in TwoQ!Queues!Range(k) <=> p \in DOMAIN recent_pool'.map
  <2> DEFINE n == Cardinality(DOMAIN recent_pool'.map)
             s == Slots(recent_pool')
  <2>1. /\ n \in Nat /\ k \in Seq(Pages \cup {SENTINEL}) /\ Len(k) = n
        /\ \A i \in 1..n : k[i] = s[i]
        /\ \A y : y \in DOMAIN recent_pool'.map <=> \E i \in 1..n : s[i] = y
    BY KeysAre DEF GhostsKept
  <2> HIDE DEF n, s, k
  <2>2. DOMAIN k = 1..n
    BY <2>1
  <2>3. p \in TwoQ!Queues!Range(k) <=> \E i \in 1..n : k[i] = p
    BY <2>2 DEF TwoQ!Queues!Range
  <2> QED
    BY <2>1, <2>3
<1>2. p \in TwoQ!Queues!Range(k) <=> TwoQ!WithRecency /\ TwoQ!Remembers(recent_pool', p)
  BY <1>1 DEF GhostsKept, TwoQ!Remembers
<1>3. store' = store /\ (TwoQ!WithRecency' <=> TwoQ!WithRecency)
  BY DEF TwoQ!Place, TwoQ!WithRecency
<1>4. /\ cold \in TwoQ!ListOf(TwoQ!Frames) /\ TwoQ!IsInjective(cold.nodes)
      /\ hot \in TwoQ!ListOf(TwoQ!Frames) /\ TwoQ!IsInjective(hot.nodes)
      /\ res \in TwoQ!Frames \ TwoQ!Members(cold)
      /\ res \in TwoQ!Frames \ TwoQ!Members(hot)
      /\ \A g \in TwoQ!Members(cold) : page_id'[g] = page_id[g]
      /\ \A g \in TwoQ!Members(hot) : page_id'[g] = page_id[g]
  BY TwoQ!MembersOfList DEF TwoQHolds, TwoQ!Exact
<1>5. TwoQ!Labels(cold, page_id') = c /\ TwoQ!Labels(hot, page_id') = h
  <2>1. /\ \A i \in DOMAIN cold.nodes : cold.nodes[i] \in TwoQ!Members(cold)
        /\ \A i \in DOMAIN hot.nodes : hot.nodes[i] \in TwoQ!Members(hot)
    BY <1>4, TwoQ!MembersOfList
  <2> QED
    BY <2>1, <1>4 DEF TwoQ!Labels
<1>6. TwoQ!Labels(TwoQ!PushFront(cold, res), page_id') = <<p>> \o c
  <2>1. TwoQ!Labels(TwoQ!PushFront(cold, res), page_id') = <<page_id'[res]>> \o c
    BY <1>4, TwoQ!LabelsPushFront, ZenonT(60)
  <2> QED
    BY <2>1
<1>7. TwoQ!Labels(TwoQ!PushFront(hot, res), page_id') = <<p>> \o h
  <2>1. TwoQ!Labels(TwoQ!PushFront(hot, res), page_id') = <<page_id'[res]>> \o h
    BY <1>4, TwoQ!LabelsPushFront, ZenonT(60)
  <2> QED
    BY <2>1
<1>8. CASE TwoQ!WithRecency /\ TwoQ!Remembers(recent_pool', p)
  <2>1. hot_list' = TwoQ!PushFront(hot, res) /\ cold_list' = cold
    BY <1>8 DEF TwoQ!Place
  <2> HIDE DEF c, h, k
  <2>2. TwoQ!Labels(hot_list', page_id') = <<p>> \o h /\ TwoQ!Labels(cold_list', page_id') = c
    BY <2>1, <1>5, <1>7
  <2>3. TwoQ!Queues!Arrive(p, c, h, k)
    BY <2>2, <1>2, <1>3, <1>8 DEF TwoQ!Queues!Arrive, k
  <2> QED
    BY <2>3 DEF c, h, k
<1>9. CASE ~(TwoQ!WithRecency /\ TwoQ!Remembers(recent_pool', p))
  <2>1. cold_list' = TwoQ!PushFront(cold, res) /\ hot_list' = hot
    BY <1>9 DEF TwoQ!Place
  <2> HIDE DEF c, h, k
  <2>2. TwoQ!Labels(cold_list', page_id') = <<p>> \o c /\ TwoQ!Labels(hot_list', page_id') = h
    BY <2>1, <1>5, <1>6
  <2>3. TwoQ!Queues!Arrive(p, c, h, k)
    BY <2>2, <1>2, <1>3, <1>9 DEF TwoQ!Queues!Arrive, k
  <2> QED
    BY <2>3 DEF c, h, k
<1> QED
  BY <1>8, <1>9

(* A miss with a free frame pushes no page out.                            *)
LEMMA QueuesMissFree ==
    ASSUME SENTINEL \notin Pages, TwoQFrames, GhostsKept(recent_pool), NEW p \in Pages, TwoQ!MissFree(p)
    PROVE  GhostsKept(recent_pool') /\ TwoQ!Queues!Miss(p) /\ requested' = p
<1> USE SizesAssumption
<1> DEFINE f == TwoQ!Back(free_list)
<1>1. /\ TwoQ!CanPop(free_list) /\ ~TwoQ!IsEmpty(free_list) /\ TwoQ!Admit(p, f, {})
      /\ TwoQ!Place(p, f, cold_list, hot_list, recent_pool)
      /\ recent_pool' = recent_pool
  BY DEF TwoQ!MissFree, TwoQ!Place
<1>2. f \in TwoQ!Frames /\ f \in TwoQ!Members(free_list)
  BY <1>1, TwoQListsHold, TwoQ!PopBackExact
<1> HIDE DEF f
<1>3. TwoQHolds(cold_list, "COLD", f) /\ TwoQHolds(hot_list, "HOT", f)
  BY <1>2, TwoQListsHold DEF TwoQHolds
<1>4. /\ p \notin TwoQPool!Resident /\ requested' = p /\ page_id'[f] = p
      /\ \A g \in TwoQ!Frames : g # f => page_id'[g] = page_id[g]
  BY <1>1, <1>2, TwoQSamePool, TwoQPool!AdmitEffect DEF TwoQFrames
<1>5. GhostsKept(recent_pool')
  BY <1>1
<1>6. TwoQ!Queues!Arrive(p, ColdPages, HotPages, TwoQ!Keys(recent_pool))
  BY <1>1, <1>2, <1>3, <1>4, <1>5, QueuesArrive DEF ColdPages, HotPages
<1>7. ~TwoQ!Queues!Present(p) /\ ~TwoQ!Queues!Full
  BY <1>1, <1>4, QueuesArePool
<1> QED
  BY <1>4, <1>5, <1>6, <1>7 DEF TwoQ!Queues!Miss, ColdPages, HotPages, TwoQ!Front, TwoQ!Last

(* A miss without one makes a ghost of the victim, before the page looks   *)
(* for its own ghost.                                                      *)
LEMMA QueuesEvict ==
    ASSUME SENTINEL \notin Pages, TwoQFrames, GhostsKept(recent_pool),
           NEW p \in Pages, NEW victim \in TwoQ!Frames, NEW cold, NEW hot,
           TwoQ!IsEmpty(free_list), state[victim] # "FREE",
           TwoQHolds(cold, "COLD", victim), TwoQHolds(hot, "HOT", victim),
           TwoQ!EvictAndPlace(p, victim, cold, hot)
    PROVE  /\ GhostsKept(recent_pool') /\ requested' = p
           /\ ~TwoQ!Queues!Present(p) /\ TwoQ!Queues!Full
           /\ TwoQ!Queues!Arrive(p, TwoQ!Labels(cold, page_id), TwoQ!Labels(hot, page_id),
                                 TwoQ!Queues!AfterEvicting(page_id[victim]))
<1> USE SizesAssumption
<1> DEFINE filled == TwoQ!PushFront(free_list, victim)
<1>1. /\ TwoQ!Admit(p, TwoQ!Back(filled), {victim})
      /\ TwoQ!Place(p, TwoQ!Back(filled), cold, hot, TwoQ!Remember(meta_page_id[victim]))
  BY DEF TwoQ!EvictAndPlace
<1>2. TwoQ!Back(filled) = victim
  <2>1. free_list.nodes = <<>> /\ free_list.size = 0
    BY TwoQListsHold, TwoQ!EmptyExact, TwoQ!MembersOfList DEF TwoQ!IsEmpty
  <2> QED
    BY <2>1, TwoQListsHold, TwoQ!PushThenPop
<1> HIDE DEF filled
<1>3. /\ GhostsKept(recent_pool')
      /\ recent_pool' = TwoQ!Remember(meta_page_id[victim])
      /\ TwoQ!Keys(recent_pool') = TwoQ!Queues!AfterEvicting(page_id[victim])
  BY VictimBecomesGhost
<1>4. /\ p \notin TwoQPool!Resident /\ requested' = p /\ page_id'[victim] = p
      /\ \A g \in TwoQ!Frames : g # victim => page_id'[g] = page_id[g]
  <2>1. TwoQPool!Admit(p, victim, {victim}) /\ victim \in TwoQPool!Frames
    BY <1>1, <1>2, TwoQSamePool
  <2> QED
    BY <2>1, TwoQSamePool, TwoQPool!AdmitEffect DEF TwoQFrames
<1>5. TwoQ!Place(p, victim, cold, hot, recent_pool')
  BY <1>1, <1>2, <1>3
<1>6. TwoQ!Queues!Arrive(p, TwoQ!Labels(cold, page_id), TwoQ!Labels(hot, page_id),
                         TwoQ!Keys(recent_pool'))
  BY <1>3, <1>4, <1>5, QueuesArrive
<1>7. ~TwoQ!Queues!Present(p) /\ TwoQ!Queues!Full
  BY <1>4, QueuesArePool
<1> QED
  BY <1>3, <1>4, <1>6, <1>7

(* pick_victim takes the page that came to the cold queue first ...        *)
LEMMA QueuesEvictCold ==
    ASSUME SENTINEL \notin Pages, TwoQFrames, GhostsKept(recent_pool),
           NEW p \in Pages, TwoQ!MissEvictCold(p)
    PROVE  GhostsKept(recent_pool') /\ TwoQ!Queues!Miss(p) /\ requested' = p
<1> USE SizesAssumption
<1> DEFINE victim == TwoQ!Back(cold_list)
           cold == TwoQ!PopBack(cold_list)
<1>1. /\ TwoQ!IsEmpty(free_list) /\ TwoQ!CanPop(cold_list) /\ cold_list.size > TwoQ!ColdThres
      /\ TwoQ!EvictAndPlace(p, victim, cold, hot_list)
  BY DEF TwoQ!MissEvictCold, TwoQ!PicksCold
<1>2. /\ cold \in TwoQ!ListOf(TwoQ!Frames) /\ TwoQ!Exact(cold)
      /\ victim \in TwoQ!Frames /\ victim \in TwoQ!Members(cold_list)
      /\ TwoQ!Members(cold) = TwoQ!Members(cold_list) \ {victim}
  BY <1>1, TwoQListsHold, TwoQ!PopBackExact
<1>3. /\ TwoQ!Labels(cold, page_id) = TwoQ!Front(ColdPages)
      /\ page_id[victim] = TwoQ!Last(ColdPages)
  BY <1>1, TwoQListsHold, TwoQ!LabelsPopBack DEF ColdPages, TwoQ!Exact, TwoQ!CanPop
<1> HIDE DEF victim, cold
<1>4. TwoQHolds(cold, "COLD", victim) /\ TwoQHolds(hot_list, "HOT", victim) /\ state[victim] = "COLD"
  BY <1>2, TwoQListsHold DEF TwoQHolds
<1>5. /\ GhostsKept(recent_pool') /\ requested' = p
      /\ ~TwoQ!Queues!Present(p) /\ TwoQ!Queues!Full
      /\ TwoQ!Queues!Arrive(p, TwoQ!Labels(cold, page_id), HotPages,
                            TwoQ!Queues!AfterEvicting(page_id[victim]))
  BY <1>1, <1>2, <1>4, QueuesEvict DEF HotPages
<1>6. Len(ColdPages) = cold_list.size
  BY TwoQListsHold, QueuePages DEF ColdPages
<1>7. TwoQ!Queues!Arrive(p, TwoQ!Front(ColdPages), HotPages,
                         TwoQ!Queues!AfterEvicting(TwoQ!Last(ColdPages)))
  BY <1>3, <1>5
<1> QED
  BY <1>1, <1>5, <1>6, <1>7 DEF TwoQ!Queues!Miss, ColdPages, HotPages, TwoQ!Front, TwoQ!Last

(* ... or the hot page that was used the longest ago.                      *)
LEMMA QueuesEvictHot ==
    ASSUME SENTINEL \notin Pages, TwoQFrames, GhostsKept(recent_pool),
           NEW p \in Pages, TwoQ!MissEvictHot(p)
    PROVE  GhostsKept(recent_pool') /\ TwoQ!Queues!Miss(p) /\ requested' = p
<1> USE SizesAssumption
<1> DEFINE victim == TwoQ!Back(hot_list)
           hot == TwoQ!PopBack(hot_list)
<1>1. /\ TwoQ!IsEmpty(free_list) /\ TwoQ!CanPop(hot_list) /\ ~(cold_list.size > TwoQ!ColdThres)
      /\ TwoQ!EvictAndPlace(p, victim, cold_list, hot)
  BY DEF TwoQ!MissEvictHot, TwoQ!PicksCold
<1>2. /\ hot \in TwoQ!ListOf(TwoQ!Frames) /\ TwoQ!Exact(hot)
      /\ victim \in TwoQ!Frames /\ victim \in TwoQ!Members(hot_list)
      /\ TwoQ!Members(hot) = TwoQ!Members(hot_list) \ {victim}
  BY <1>1, TwoQListsHold, TwoQ!PopBackExact
<1>3. /\ TwoQ!Labels(hot, page_id) = TwoQ!Front(HotPages)
      /\ page_id[victim] = TwoQ!Last(HotPages)
  BY <1>1, TwoQListsHold, TwoQ!LabelsPopBack DEF HotPages, TwoQ!Exact, TwoQ!CanPop
<1> HIDE DEF victim, hot
<1>4. TwoQHolds(cold_list, "COLD", victim) /\ TwoQHolds(hot, "HOT", victim) /\ state[victim] = "HOT"
  BY <1>2, TwoQListsHold DEF TwoQHolds
<1>5. /\ GhostsKept(recent_pool') /\ requested' = p
      /\ ~TwoQ!Queues!Present(p) /\ TwoQ!Queues!Full
      /\ TwoQ!Queues!Arrive(p, ColdPages, TwoQ!Labels(hot, page_id),
                            TwoQ!Queues!AfterEvicting(page_id[victim]))
  BY <1>1, <1>2, <1>4, QueuesEvict DEF ColdPages
<1>6. Len(ColdPages) = cold_list.size /\ cold_list.size \in Nat /\ TwoQ!ColdThres \in Nat
  BY TwoQListsHold, QueuePages DEF ColdPages, TwoQ!ListOf, TwoQ!ColdThres
<1>7. TwoQ!Queues!Arrive(p, ColdPages, TwoQ!Front(HotPages),
                         TwoQ!Queues!AfterEvicting(TwoQ!Last(HotPages)))
  BY <1>3, <1>5
<1>8. Len(ColdPages) <= TwoQ!ColdThres
  BY <1>1, <1>6
<1> QED
  BY <1>5, <1>7, <1>8 DEF TwoQ!Queues!Miss, ColdPages, HotPages, TwoQ!Front, TwoQ!Last

(* A frame taken out of a list takes its page out of the queue.            *)
LEMMA QueueWithout ==
    ASSUME TwoQFrames, NEW l \in TwoQ!ListOf(TwoQ!Frames), TwoQ!Exact(l),
           \A f \in TwoQ!Members(l) : state[f] # "FREE", NEW f \in TwoQ!Members(l)
    PROVE  LET rest == TwoQ!ReleaseCallback(TwoQ!Unlink(l, f))
               q == TwoQ!Labels(l, page_id)
           IN  /\ TwoQ!Labels(rest, page_id) = TwoQ!Queues!Stack!Without(q, page_id[f])
               /\ page_id[f] \in TwoQ!Queues!Range(q)
<1> USE SizesAssumption
<1> DEFINE q == TwoQ!Labels(l, page_id)
           u == TwoQ!Unlink(l, f)
<1>1. PICK k \in 1..Len(l.nodes) : q[k] = page_id[f] /\ TwoQ!Labels(u, page_id) = TwoQ!RemoveAt(q, k)
  BY TwoQ!LabelsUnlink DEF TwoQ!Exact
<1>2. TwoQ!Labels(TwoQ!ReleaseCallback(u), page_id) = TwoQ!Labels(u, page_id)
  <2>1. TwoQ!ReleaseCallback(u).nodes = u.nodes
    <3>1. u \in TwoQ!ListOf(TwoQ!Frames)
      BY TwoQ!UnlinkEffect DEF TwoQ!Exact
    <3> HIDE DEF u
    <3> QED
      BY <3>1 DEF TwoQ!ReleaseCallback, TwoQ!ListOf
  <2> HIDE DEF u
  <2> QED
    BY <2>1 DEF TwoQ!Labels
<1>3. /\ q \in Seq(Pages \cup {INVALID_ID}) /\ Len(q) = Len(l.nodes)
      /\ \A i, j \in 1..Len(q) : q[i] = q[j] => i = j
      /\ TwoQ!Queues!Range(q) = {page_id[g] : g \in TwoQ!Members(l)}
  BY QueuePages
<1> HIDE DEF q, u
<1>4. TwoQ!Queues!Stack!Without(q, q[k]) = TwoQ!RemoveAt(q, k)
  BY <1>3, WithoutIs
<1> QED
  BY <1>1, <1>2, <1>3, <1>4 DEF q, u

(* touch of a hot page raises it in its queue.                             *)
LEMMA QueuesHitHot ==
    ASSUME TwoQFrames, NEW p \in Pages, TwoQ!HitHot(p)
    PROVE  TwoQ!Queues!HitHot(p) /\ requested' = p
<1> USE SizesAssumption
<1>1. PICK f \in TwoQ!Frames :
          /\ TwoQ!Found(p, f) /\ state[f] = "HOT"
          /\ hot_list' = TwoQ!PushFront(TwoQ!ReleaseCallback(TwoQ!Unlink(hot_list, f)), f)
  BY DEF TwoQ!HitHot
<1>2. UNCHANGED <<cold_list, recent_pool, store>>
  BY DEF TwoQ!HitHot
<1>3. p \in TwoQ!Resident /\ f = lookup_tbl[p] /\ page_id' = page_id /\ requested' = p
  BY <1>1 DEF TwoQ!Found
<1>4. page_id[f] = p
  BY <1>3, TwoQSamePool
  DEF TwoQFrames, TwoQPool!IInv, TwoQPool!LookupInverse, TwoQ!Resident, TwoQPool!Resident
<1> DEFINE rest == TwoQ!ReleaseCallback(TwoQ!Unlink(hot_list, f))
<1>5. f \in TwoQ!Members(hot_list) /\ \A g \in TwoQ!Members(hot_list) : state[g] # "FREE"
  BY <1>1, TwoQListsHold
<1>6. /\ rest \in TwoQ!ListOf(TwoQ!Frames) /\ TwoQ!Exact(rest)
      /\ TwoQ!Members(rest) = TwoQ!Members(hot_list) \ {f}
  BY <1>5, TwoQListsHold, TwoQ!UnlinkExact
<1>7. /\ TwoQ!Labels(rest, page_id) = TwoQ!Queues!Stack!Without(HotPages, p)
      /\ p \in TwoQ!Queues!Range(HotPages)
  BY <1>4, <1>5, TwoQListsHold, QueueWithout DEF HotPages
<1> HIDE DEF rest
<1>8. TwoQ!Labels(TwoQ!PushFront(rest, f), page_id) = <<page_id[f]>> \o TwoQ!Labels(rest, page_id)
  <2>1. f \in TwoQ!Frames \ TwoQ!Members(rest) /\ TwoQ!IsInjective(rest.nodes)
    BY <1>6 DEF TwoQ!Exact
  <2> QED
    BY <1>6, <2>1, TwoQ!LabelsPushFront, ZenonT(60)
<1>9. HotPages' = <<p>> \o TwoQ!Queues!Stack!Without(HotPages, p)
  BY <1>1, <1>3, <1>4, <1>7, <1>8 DEF HotPages, rest
<1> QED
  BY <1>2, <1>3, <1>7, <1>9 DEF TwoQ!Queues!HitHot, HotPages, TwoQ!WithRecency

(* touch of a cold page makes it hot, where nothing is remembered.         *)
LEMMA QueuesHitCold ==
    ASSUME TwoQFrames, NEW p \in Pages, TwoQ!HitCold(p)
    PROVE  TwoQ!Queues!HitCold(p) /\ requested' = p
<1> USE SizesAssumption
<1>1. PICK f \in TwoQ!Frames :
          /\ TwoQ!Found(p, f) /\ state[f] = "COLD"
          /\ IF TwoQ!WithRecency
             THEN UNCHANGED <<cold_list, hot_list, state>>
             ELSE /\ cold_list' = TwoQ!ReleaseCallback(TwoQ!Unlink(cold_list, f))
                  /\ hot_list' = TwoQ!PushFront(hot_list, f)
                  /\ state' = [state EXCEPT ![f] = "HOT"]
  BY DEF TwoQ!HitCold
<1>2. UNCHANGED <<recent_pool, store>>
  BY DEF TwoQ!HitCold
<1>3. p \in TwoQ!Resident /\ f = lookup_tbl[p] /\ page_id' = page_id /\ requested' = p
  BY <1>1 DEF TwoQ!Found
<1>4. page_id[f] = p
  BY <1>3, TwoQSamePool
  DEF TwoQFrames, TwoQPool!IInv, TwoQPool!LookupInverse, TwoQ!Resident, TwoQPool!Resident
<1>5. f \in TwoQ!Members(cold_list) /\ \A g \in TwoQ!Members(cold_list) : state[g] # "FREE"
  BY <1>1, TwoQListsHold
<1>6. /\ TwoQ!Labels(TwoQ!ReleaseCallback(TwoQ!Unlink(cold_list, f)), page_id)
            = TwoQ!Queues!Stack!Without(ColdPages, p)
      /\ p \in TwoQ!Queues!Range(ColdPages)
  BY <1>4, <1>5, TwoQListsHold, QueueWithout DEF ColdPages
<1>7. CASE TwoQ!WithRecency
  BY <1>1, <1>2, <1>3, <1>6, <1>7
  DEF TwoQ!Queues!HitCold, ColdPages, TwoQ!WithRecency, TwoQ!Labels
<1>8. CASE ~TwoQ!WithRecency
  <2>1. /\ cold_list' = TwoQ!ReleaseCallback(TwoQ!Unlink(cold_list, f))
        /\ hot_list' = TwoQ!PushFront(hot_list, f)
    BY <1>1, <1>8
  <2>2. TwoQ!Labels(TwoQ!PushFront(hot_list, f), page_id) = <<page_id[f]>> \o TwoQ!Labels(hot_list, page_id)
    <3>1. f \in TwoQ!Frames \ TwoQ!Members(hot_list) /\ TwoQ!IsInjective(hot_list.nodes)
          /\ hot_list \in TwoQ!ListOf(TwoQ!Frames)
      BY <1>1, TwoQListsHold DEF TwoQ!Exact
    <3> QED
      BY <3>1, TwoQ!LabelsPushFront, ZenonT(60)
  <2>3. /\ ColdPages' = TwoQ!Queues!Stack!Without(ColdPages, p)
        /\ HotPages' = <<p>> \o HotPages
    BY <2>1, <2>2, <1>3, <1>4, <1>6 DEF ColdPages, HotPages
  <2> QED
    BY <2>3, <1>2, <1>3, <1>6, <1>8
    DEF TwoQ!Queues!HitCold, ColdPages, HotPages, TwoQ!WithRecency
<1> QED
  BY <1>7, <1>8

(* Every request of 2Q keeps the ghosts and is a step of the two queues.   *)
LEMMA QueuesNext ==
    ASSUME SENTINEL \notin Pages, TwoQFrames, GhostsKept(recent_pool), TwoQ!Next
    PROVE  GhostsKept(recent_pool)' /\ TwoQ!Queues!Next
<1>1. PICK p \in Pages : TwoQ!GetPage(p)
  BY DEF TwoQ!Next
<1>2. GhostsKept(recent_pool') /\ requested' = p
      /\ (TwoQ!Queues!Miss(p) \/ TwoQ!Queues!HitHot(p) \/ TwoQ!Queues!HitCold(p))
  <2>1. CASE TwoQ!MissFree(p)
    BY <2>1, QueuesMissFree
  <2>2. CASE TwoQ!MissEvictCold(p)
    BY <2>2, QueuesEvictCold
  <2>3. CASE TwoQ!MissEvictHot(p)
    BY <2>3, QueuesEvictHot
  <2>4. CASE TwoQ!HitHot(p)
    <3>1. recent_pool' = recent_pool
      BY <2>4 DEF TwoQ!HitHot
    <3> QED
      BY <2>4, <3>1, QueuesHitHot
  <2>5. CASE TwoQ!HitCold(p)
    <3>1. recent_pool' = recent_pool
      BY <2>5 DEF TwoQ!HitCold
    <3> QED
      BY <2>5, <3>1, QueuesHitCold
  <2> QED
    BY <1>1, <2>1, <2>2, <2>3, <2>4, <2>5 DEF TwoQ!GetPage
<1>3. store' = store
  BY <1>1 DEF TwoQ!GetPage, TwoQ!MissFree, TwoQ!MissEvictCold, TwoQ!MissEvictHot, TwoQ!EvictAndPlace,
              TwoQ!Place, TwoQ!HitHot, TwoQ!HitCold
<1>4. GhostsKept(recent_pool)'
  BY <1>2, <1>3 DEF GhostsKept, TwoQ!WithRecency, PoolKept, InUseFirst
<1>5. TwoQ!Queues!Next
  BY <1>2 DEF TwoQ!Queues!Next
<1> QED
  BY <1>4, <1>5

(* No page is remembered at first.                                         *)
LEMMA QueuesInit == TwoQ!Init => GhostsKept(recent_pool) /\ TwoQ!Queues!Init
<1> USE SizesAssumption
<1> SUFFICES ASSUME TwoQ!Init PROVE GhostsKept(recent_pool) /\ TwoQ!Queues!Init
  OBVIOUS
<1>1. /\ recent_pool = TwoQ!EmptyPool(TwoQ!RecentCapacity)
      /\ cold_list.nodes = <<>> /\ hot_list.nodes = <<>>
  BY DEF TwoQ!Init, TwoQ!EmptyList
<1>2. DOMAIN recent_pool.map = {} /\ recent_pool.key = [n \in Nodes |-> SENTINEL]
  BY <1>1 DEF TwoQ!EmptyPool, Nodes
<1>3. PoolKept(recent_pool)
  BY <1>1, EmptyPoolKept
<1>4. IsFiniteSet(DOMAIN recent_pool.map) /\ Cardinality(DOMAIN recent_pool.map) = 0
  BY <1>2, FS_EmptySet
<1>5. InUseFirst(recent_pool)
  <2>1. ASSUME NEW i \in 1..Len(recent_pool.list.nodes)
        PROVE  recent_pool.key[recent_pool.list.nodes[i]] = SENTINEL /\ ~(i <= 0)
    <3>1. recent_pool.list.nodes[i] \in Nodes
      BY <1>3, TwoQ!MembersOfList DEF PoolKept
    <3> QED
      BY <1>2, <3>1
  <2> QED
    BY <1>4, <2>1 DEF InUseFirst
<1>6. ColdPages = <<>> /\ HotPages = <<>>
  BY <1>1 DEF ColdPages, HotPages, TwoQ!Labels
<1>7. TwoQ!Keys(recent_pool) = <<>>
  <2>1. TwoQ!Cardinality(DOMAIN recent_pool.map) = 0
    BY <1>4 DEF TwoQ!Cardinality, Cardinality
  <2> QED
    BY <2>1 DEF TwoQ!Keys
<1> QED
  BY <1>2, <1>3, <1>5, <1>6, <1>7
  DEF GhostsKept, TwoQ!Queues!Init, TwoQ!WithRecency, ColdPages, HotPages

-----------------------------------------------------------------------------
(* The table: each policy keeps its invariant, the others have no state.   *)
TwoQInv ==
    /\ TwoQFrames
    /\ ColdShare
    /\ SENTINEL \notin Pages => PoolKept(recent_pool)

SuiteInv ==
    /\ policy \in {"FIFO", "LRU", "Random", "2Q", "ARC"}
    /\ policy = "FIFO" => FifoInv
    /\ policy = "LRU" => LRUInv
    /\ policy = "Random" => RandomInv
    /\ policy = "2Q" => TwoQInv
    /\ policy = "ARC" => ARCInv

(* All policies start with empty pools.                                    *)
LEMMA SuiteInit == Init => SuiteInv
<1> SUFFICES ASSUME Init PROVE SuiteInv
  OBVIOUS
<1>1. CASE InitFifo
  BY <1>1, FifoInit DEF InitFifo, SuiteInv
<1>2. CASE InitLRU
  BY <1>2, LRUInit DEF InitLRU, SuiteInv
<1>3. CASE InitRandom
  BY <1>3, RandomInit DEF InitRandom, SuiteInv
<1>4. CASE InitTwoQ
  <2>1. TwoQFrames /\ ColdShare
    BY <1>4, TwoQFramesInit, ColdShareInit DEF InitTwoQ
  <2>2. PoolKept(recent_pool)
    BY <1>4, EmptyPoolKept DEF InitTwoQ, TwoQ!Init
  <2> QED
    BY <1>4, <2>1, <2>2 DEF InitTwoQ, SuiteInv, TwoQInv
<1>5. CASE InitARC
  BY <1>5, ARCInit DEF InitARC, SuiteInv
<1> QED
  BY <1>1, <1>2, <1>3, <1>4, <1>5 DEF Init

(* A step of another kind leaves every policy as it is.                    *)
LEMMA FifoStutters == FifoInv /\ UNCHANGED vars => FifoInv'
<1> SUFFICES ASSUME FifoInv, UNCHANGED vars PROVE FifoInv'
  OBVIOUS
<1>1. FifoPool!IInv => FifoPool!IInv'
  BY DEF vars, FifoPool!IInv, FifoPool!TypeOK, FifoPool!PoolTypeOK, FifoPool!LookupInverse,
         FifoPool!UsedIsMapped, FifoPool!Resident, FifoPool!Frames
<1> QED
  BY <1>1 DEF vars, FifoInv, Fifo!FramesOnOneList, Fifo!Frames

(* ... and so for LRUPolicy,                                               *)
LEMMA LRUStutters == LRUInv /\ UNCHANGED vars => LRUInv'
<1> SUFFICES ASSUME LRUInv, UNCHANGED vars PROVE LRUInv'
  OBVIOUS
<1>1. LRUPool!IInv => LRUPool!IInv'
  BY DEF vars, LRUPool!IInv, LRUPool!TypeOK, LRUPool!PoolTypeOK, LRUPool!LookupInverse,
         LRUPool!UsedIsMapped, LRUPool!Resident, LRUPool!Frames
<1> QED
  BY <1>1 DEF vars, LRUInv, LRU!FramesOnOneList, LRU!Frames

(* RandomPolicy,                                                           *)
LEMMA RandomStutters == RandomInv /\ UNCHANGED vars => RandomInv'
<1> SUFFICES ASSUME RandomInv, UNCHANGED vars PROVE RandomInv'
  OBVIOUS
<1>1. RandomPool!IInv => RandomPool!IInv'
  BY DEF vars, RandomPool!IInv, RandomPool!TypeOK, RandomPool!PoolTypeOK, RandomPool!LookupInverse,
         RandomPool!UsedIsMapped, RandomPool!Resident, RandomPool!Frames
<1> QED
  BY <1>1 DEF vars, RandomInv, Random!FramesOnOneSide, Random!Frames

(* TwoQPolicy                                                              *)
LEMMA TwoQStutters == TwoQInv /\ UNCHANGED vars => TwoQInv'
<1> SUFFICES ASSUME TwoQInv, UNCHANGED vars PROVE TwoQInv'
  OBVIOUS
<1>1. TwoQPool!IInv => TwoQPool!IInv'
  BY DEF vars, TwoQPool!IInv, TwoQPool!TypeOK, TwoQPool!PoolTypeOK, TwoQPool!LookupInverse,
         TwoQPool!UsedIsMapped, TwoQPool!Resident, TwoQPool!Frames
<1> QED
  BY <1>1 DEF vars, TwoQInv, TwoQFrames, ColdShare, TwoQ!WithRecency, TwoQ!ListsMatchStates, TwoQ!PageIdsAgree, TwoQ!Resident, TwoQ!Frames, queues

(* and ARCPolicy.                                                          *)
LEMMA ARCStutters == ARCInv /\ UNCHANGED vars => ARCInv'
<1> SUFFICES ASSUME ARCInv, UNCHANGED vars PROVE ARCInv'
  OBVIOUS
<1>1. ARCPool!IInv => ARCPool!IInv'
  BY DEF vars, ARCPool!IInv, ARCPool!TypeOK, ARCPool!PoolTypeOK, ARCPool!LookupInverse,
         ARCPool!UsedIsMapped, ARCPool!Resident, ARCPool!Frames
<1> QED
  BY <1>1 DEF vars, ARCInv, ARCFrames, ARC!ListsMatchStates, ARC!PageIdsAgree, ARC!Resident, ARC!Frames, ARC!DirectoryBounds, queues

(* A step of one policy leaves the invariants of the others alone.         *)
LEMMA SuiteNext == SuiteInv /\ [Next]_vars => SuiteInv'
<1> SUFFICES ASSUME SuiteInv, [Next]_vars PROVE SuiteInv'
  OBVIOUS
<1>1. CASE RunFifo
  BY <1>1, FifoNext DEF RunFifo, SuiteInv
<1>2. CASE RunLRU
  BY <1>2, LRUNext DEF RunLRU, SuiteInv
<1>3. CASE RunRandom
  BY <1>3, RandomNext DEF RunRandom, SuiteInv
<1>4. CASE RunTwoQ
  <2>1. policy = "2Q" /\ policy' = policy /\ TwoQ!Next /\ TwoQInv
    BY <1>4 DEF RunTwoQ, SuiteInv
  <2>2. TwoQFrames' /\ ColdShare'
    BY <2>1, TwoQFramesNext, ColdShareNext DEF TwoQInv
  <2>3. SENTINEL \notin Pages => PoolKept(recent_pool')
    BY <2>1, TwoQPoolNext DEF TwoQInv
  <2> QED
    BY <2>1, <2>2, <2>3 DEF SuiteInv, TwoQInv
<1>5. CASE RunARC
  BY <1>5, ARCNext DEF RunARC, SuiteInv
<1>6. CASE UNCHANGED vars
  <2>1. policy' = policy
    BY <1>6 DEF vars
  <2> QED
    BY <1>6, <2>1, FifoStutters, LRUStutters, RandomStutters, TwoQStutters, ARCStutters DEF SuiteInv
<1> QED
  BY <1>1, <1>2, <1>3, <1>4, <1>5, <1>6 DEF Next

(* The invariants of all policies hold in every state.                     *)
THEOREM SuiteInvariance == Spec => []SuiteInv
BY SuiteInit, SuiteNext, PTL DEF Spec

(* Whatever the trace, every policy's frames are linked where their states *)
(* say and its counters are right; for 2Q as long as the number that marks *)
(* an unused node is not requested.                                        *)
THEOREM PoliciesConsistent ==
    ASSUME SENTINEL \notin Pages
    PROVE  Spec => []Consistent
<1>1. SuiteInv => Consistent
  BY FifoConsistent, LRUConsistent, RandomConsistent, TwoQConsistent, ARCConsistent
  DEF SuiteInv, TwoQInv, Consistent
<1> QED
  BY <1>1, SuiteInvariance, PTL

(* Hot pages never take the share of the cold ones in 2Q. *)
THEOREM ColdShareHolds == Spec => []ColdShareKept
<1>1. SuiteInv => ColdShareKept
  BY ColdShareIsKept DEF SuiteInv, TwoQInv, ColdShareKept
<1> QED
  BY <1>1, SuiteInvariance, PTL

(* The directory of ARC stays within its bounds. *)
THEOREM DirectoryIsBounded == Spec => []DirectoryBounds
<1>1. SuiteInv => DirectoryBounds
  BY DEF SuiteInv, ARCInv, DirectoryBounds
<1> QED
  BY <1>1, SuiteInvariance, PTL

(* Each of the five policies implements the pool of PoolContract: every    *)
(* call of get_page is one of its steps.                                   *)
THEOREM PoliciesKeepContract == Spec => KeepsContract
<1>1. Init => /\ policy = "FIFO"   => Fifo!Contract!Init
              /\ policy = "LRU"    => LRU!Contract!Init
              /\ policy = "Random" => Random!Contract!Init
              /\ policy = "2Q"     => TwoQ!Contract!Init
              /\ policy = "ARC"    => ARC!Contract!Init
  <2> SUFFICES ASSUME Init
               PROVE  /\ policy = "FIFO"   => Fifo!Contract!Init
                      /\ policy = "LRU"    => LRU!Contract!Init
                      /\ policy = "Random" => Random!Contract!Init
                      /\ policy = "2Q"     => TwoQ!Contract!Init
                      /\ policy = "ARC"    => ARC!Contract!Init
    OBVIOUS
  <2>1. CASE InitFifo
    BY <2>1, FifoInit, FifoSameContract DEF InitFifo
  <2>2. CASE InitLRU
    BY <2>2, LRUInit, LRUSameContract DEF InitLRU
  <2>3. CASE InitRandom
    BY <2>3, RandomInit, RandomSameContract DEF InitRandom
  <2>4. CASE InitTwoQ
    BY <2>4, TwoQFramesInit, TwoQSameContract DEF InitTwoQ
  <2>5. CASE InitARC
    BY <2>5, ARCInit, ARCSameContract DEF InitARC
  <2> QED
    BY <2>1, <2>2, <2>3, <2>4, <2>5 DEF Init
<1>2. SuiteInv /\ [Next]_vars =>
          [CASE policy = "FIFO"   -> Fifo!Contract!Next
             [] policy = "LRU"    -> LRU!Contract!Next
             [] policy = "Random" -> Random!Contract!Next
             [] policy = "2Q"     -> TwoQ!Contract!Next
             [] policy = "ARC"    -> ARC!Contract!Next]_vars
  <2> SUFFICES ASSUME SuiteInv, Next
               PROVE  CASE policy = "FIFO"   -> Fifo!Contract!Next
                        [] policy = "LRU"    -> LRU!Contract!Next
                        [] policy = "Random" -> Random!Contract!Next
                        [] policy = "2Q"     -> TwoQ!Contract!Next
                        [] policy = "ARC"    -> ARC!Contract!Next
    OBVIOUS
  <2>1. CASE RunFifo
    BY <2>1, FifoNext, FifoSameContract DEF RunFifo, SuiteInv
  <2>2. CASE RunLRU
    BY <2>2, LRUNext, LRUSameContract DEF RunLRU, SuiteInv
  <2>3. CASE RunRandom
    BY <2>3, RandomNext, RandomSameContract DEF RunRandom, SuiteInv
  <2>4. CASE RunTwoQ
    BY <2>4, TwoQFramesNext, TwoQSameContract DEF RunTwoQ, SuiteInv, TwoQInv
  <2>5. CASE RunARC
    BY <2>5, ARCNext, ARCSameContract DEF RunARC, SuiteInv
  <2> QED
    BY <2>1, <2>2, <2>3, <2>4, <2>5 DEF Next
<1> QED
  BY <1>1, <1>2, SuiteInvariance, PTL DEF Spec, KeepsContract

(* FIFO evicts the page that arrived first, whatever was requested since.  *)
THEOREM FifoIsFifo == Spec => IsFifo
<1>1. Init => (policy = "FIFO" => Fifo!Fifo!Init)
  <2> SUFFICES ASSUME Init, policy = "FIFO" PROVE Fifo!Fifo!Init
    OBVIOUS
  <2>1. Fifo!Init
    BY DEF Init, InitFifo, InitLRU, InitRandom, InitTwoQ, InitARC
  <2>2. used_list.nodes = <<>>
    BY <2>1 DEF Fifo!Init, Fifo!EmptyList
  <2>3. Fifo!Labels(used_list, page_id) = <<>>
    BY <2>2 DEF Fifo!Labels
  <2> QED
    BY <2>3 DEF Fifo!Fifo!Init
<1>2. SuiteInv /\ [Next]_vars => [policy = "FIFO" => Fifo!Fifo!Next]_vars
  <2> SUFFICES ASSUME SuiteInv, Next, policy = "FIFO" PROVE Fifo!Fifo!Next
    OBVIOUS
  <2>1. Fifo!Next /\ FifoInv
    BY DEF Next, RunFifo, RunLRU, RunRandom, RunTwoQ, RunARC, SuiteInv
  <2> QED
    BY <2>1, FifoNext
<1> QED
  BY <1>1, <1>2, SuiteInvariance, PTL DEF Spec, IsFifo

(* LRU evicts the page whose last request is the longest ago. *)
THEOREM LRUIsLRU == Spec => IsLRU
<1>1. Init => (policy = "LRU" => LRU!Recent!Init)
  <2> SUFFICES ASSUME Init, policy = "LRU" PROVE LRU!Recent!Init
    OBVIOUS
  <2>1. LRU!Init
    BY DEF Init, InitFifo, InitLRU, InitRandom, InitTwoQ, InitARC
  <2>2. lru_list.nodes = <<>>
    BY <2>1 DEF LRU!Init, LRU!EmptyList
  <2>3. LRU!Labels(lru_list, page_id) = <<>>
    BY <2>2 DEF LRU!Labels
  <2> QED
    BY <2>3 DEF LRU!Recent!Init
<1>2. SuiteInv /\ [Next]_vars => [policy = "LRU" => LRU!Recent!Next]_vars
  <2> SUFFICES ASSUME SuiteInv, Next, policy = "LRU" PROVE LRU!Recent!Next
    OBVIOUS
  <2>1. LRU!Next /\ LRUInv
    BY DEF Next, RunFifo, RunLRU, RunRandom, RunTwoQ, RunARC, SuiteInv
  <2> QED
    BY <2>1, LRUNext
<1> QED
  BY <1>1, <1>2, SuiteInvariance, PTL DEF Spec, IsLRU

(* 2Q is the two-queue policy on pages: it evicts the page that came to    *)
(* the cold queue first while that queue is above its share, otherwise the *)
(* hot page used the longest ago; a page comes back hot exactly when it is *)
(* among the last evicted ones.                                            *)
THEOREM TwoQIsTwoQueues ==
    ASSUME SENTINEL \notin Pages
    PROVE  Spec => IsTwoQueues
<1> DEFINE Ghosts == policy = "2Q" => GhostsKept(recent_pool)
<1>1. Init => Ghosts /\ (policy = "2Q" => TwoQ!Queues!Init)
  <2> SUFFICES ASSUME Init, policy = "2Q"
               PROVE  GhostsKept(recent_pool) /\ TwoQ!Queues!Init
    OBVIOUS
  <2>1. TwoQ!Init
    BY DEF Init, InitFifo, InitLRU, InitRandom, InitTwoQ, InitARC
  <2> QED
    BY <2>1, QueuesInit
<1>2. SuiteInv /\ Ghosts /\ [Next]_vars => Ghosts'
  <2> SUFFICES ASSUME SuiteInv, Ghosts, [Next]_vars, policy' = "2Q"
               PROVE  GhostsKept(recent_pool)'
    OBVIOUS
  <2>1. CASE UNCHANGED vars
    <3>1. policy' = policy /\ recent_pool' = recent_pool /\ store' = store
      BY <2>1 DEF vars
    <3> QED
      BY <3>1 DEF GhostsKept, TwoQ!WithRecency, PoolKept, InUseFirst
  <2>2. CASE Next
    <3>1. TwoQ!Next /\ TwoQFrames /\ policy = "2Q"
      BY <2>2 DEF Next, RunFifo, RunLRU, RunRandom, RunTwoQ, RunARC, SuiteInv, TwoQInv
    <3> QED
      BY <3>1, QueuesNext
  <2> QED
    BY <2>1, <2>2
<1>3. SuiteInv /\ Ghosts /\ [Next]_vars => [policy = "2Q" => TwoQ!Queues!Next]_vars
  <2> SUFFICES ASSUME SuiteInv, Ghosts, Next, policy = "2Q" PROVE TwoQ!Queues!Next
    OBVIOUS
  <2>1. TwoQ!Next /\ TwoQFrames
    BY DEF Next, RunFifo, RunLRU, RunRandom, RunTwoQ, RunARC, SuiteInv, TwoQInv
  <2> QED
    BY <2>1, QueuesNext
<1> QED
  BY <1>1, <1>2, <1>3, SuiteInvariance, PTL DEF Spec, IsTwoQueues
=============================================================================
