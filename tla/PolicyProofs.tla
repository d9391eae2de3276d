---------------------------- MODULE PolicyProofs ----------------------------
(***************************************************************************)
(* What TwoQPolicy and ARCPolicy keep true of their lists, counters and    *)
(* histories, action by action, for every number of frames and of pages:   *)
(* the lists share the frames of the pool, size_ is the number of elements *)
(* of every list, and the histories hold what the members that account for *)
(* them say.                                                               *)
(***************************************************************************)
EXTENDS Suite, Sequences, FiniteSetTheorems, SequenceTheorems, TLAPS

-----------------------------------------------------------------------------
(* TwoQPolicy.                                                             *)
TwoQPool == INSTANCE PoolContractProofs
                WITH Capacity <- Many, used <- TwoQ!Frames \ TwoQ!Members(free_list)

(* BufPool below the policy and BufPool below the contract are one.        *)
LEMMA TwoQSamePool ==
    /\ TwoQ!Frames = TwoQPool!Frames
    /\ TwoQ!PoolTypeOK <=> TwoQPool!PoolTypeOK
    /\ TwoQ!PoolInit <=> TwoQPool!PoolInit
    /\ \A p, f, V : TwoQ!Admit(p, f, V) <=> TwoQPool!Admit(p, f, V)
    /\ \A p, f : TwoQ!Found(p, f) <=> TwoQPool!Found(p, f)
<1> USE DEF TwoQ!Frames, TwoQPool!Frames, TwoQ!Resident, TwoQPool!Resident
<1>1. TwoQ!PoolTypeOK <=> TwoQPool!PoolTypeOK
  BY DEF TwoQ!PoolTypeOK, TwoQPool!PoolTypeOK
<1>2. TwoQ!PoolInit <=> TwoQPool!PoolInit
  BY DEF TwoQ!PoolInit, TwoQPool!PoolInit
<1>3. ASSUME NEW p, NEW f, NEW V PROVE TwoQ!Admit(p, f, V) <=> TwoQPool!Admit(p, f, V)
  BY DEF TwoQ!Admit, TwoQPool!Admit, TwoQ!IdsAfterEvict, TwoQPool!IdsAfterEvict,
         TwoQ!PagesAfterEvict, TwoQPool!PagesAfterEvict
<1>4. ASSUME NEW p, NEW f PROVE TwoQ!Found(p, f) <=> TwoQPool!Found(p, f)
  BY DEF TwoQ!Found, TwoQPool!Found
<1> QED
  BY <1>1, <1>2, <1>3, <1>4

(* The contract the policy declares and the one proved about are one.      *)
LEMMA TwoQSameContract ==
    /\ TwoQPool!Init <=> TwoQ!Contract!Init
    /\ TwoQPool!Next <=> TwoQ!Contract!Next
<1> USE DEF TwoQPool!Frames, TwoQ!Contract!Frames, TwoQPool!Resident, TwoQ!Contract!Resident
<1>1. TwoQPool!Init <=> TwoQ!Contract!Init
  BY DEF TwoQPool!Init, TwoQ!Contract!Init, TwoQPool!PoolInit, TwoQ!Contract!PoolInit
<1>2. ASSUME NEW p, NEW f, NEW V PROVE TwoQPool!Admit(p, f, V) <=> TwoQ!Contract!Admit(p, f, V)
  BY DEF TwoQPool!Admit, TwoQ!Contract!Admit, TwoQPool!IdsAfterEvict,
         TwoQ!Contract!IdsAfterEvict, TwoQPool!PagesAfterEvict, TwoQ!Contract!PagesAfterEvict
<1>3. ASSUME NEW p, NEW f PROVE TwoQPool!Found(p, f) <=> TwoQ!Contract!Found(p, f)
  BY DEF TwoQPool!Found, TwoQ!Contract!Found
<1>4. ASSUME NEW p
      PROVE  /\ TwoQPool!MissFree(p) <=> TwoQ!Contract!MissFree(p)
             /\ TwoQPool!MissEvict(p) <=> TwoQ!Contract!MissEvict(p)
             /\ TwoQPool!Hit(p) <=> TwoQ!Contract!Hit(p)
  BY <1>2, <1>3 DEF TwoQPool!MissFree, TwoQ!Contract!MissFree, TwoQPool!MissEvict,
         TwoQ!Contract!MissEvict, TwoQPool!Hit, TwoQ!Contract!Hit
<1> QED
  BY <1>1, <1>4 DEF TwoQPool!Next, TwoQPool!GetPage, TwoQ!Contract!Next, TwoQ!Contract!GetPage

(* The frames: each on the list its state names, under its own page.       *)
TwoQFrames ==
    /\ free_list \in TwoQ!ListOf(TwoQ!Frames)
    /\ cold_list \in TwoQ!ListOf(TwoQ!Frames)
    /\ hot_list \in TwoQ!ListOf(TwoQ!Frames)
    /\ state \in [TwoQ!Frames -> {"FREE", "COLD", "HOT"}]
    /\ meta_page_id \in [TwoQ!Frames -> Pages \cup {0}]
    /\ store \in Stores
    /\ TwoQ!ListsMatchStates
    /\ TwoQ!PageIdsAgree
    /\ TwoQPool!IInv

(* A list with the frames in state s other than res. *)
TwoQHolds(list, s, res) ==
    /\ list \in TwoQ!ListOf(TwoQ!Frames) /\ TwoQ!Exact(list)
    /\ \A f \in TwoQ!Frames : f \in TwoQ!Members(list) <=> f # res /\ state[f] = s

(* Place links the frame in the list of its new state. *)
LEMMA TwoQPlace ==
    ASSUME NEW p \in Pages, NEW res \in TwoQ!Frames, NEW cold, NEW hot, NEW pool,
           state \in [TwoQ!Frames -> {"FREE", "COLD", "HOT"}],
           meta_page_id \in [TwoQ!Frames -> Pages \cup {0}],
           TwoQHolds(cold, "COLD", res), TwoQHolds(hot, "HOT", res), TwoQHolds(free_list', "FREE", res),
           TwoQ!Place(p, res, cold, hot, pool)
    PROVE  /\ cold_list' \in TwoQ!ListOf(TwoQ!Frames)
           /\ hot_list' \in TwoQ!ListOf(TwoQ!Frames)
           /\ free_list' \in TwoQ!ListOf(TwoQ!Frames)
           /\ state' \in [TwoQ!Frames -> {"FREE", "COLD", "HOT"}]
           /\ TwoQ!ListsMatchStates'
           /\ meta_page_id' \in [TwoQ!Frames -> Pages \cup {0}]
           /\ meta_page_id'[res] = p
           /\ \A f \in TwoQ!Frames : f # res => meta_page_id'[f] = meta_page_id[f]
           /\ store' = store
<1> USE SizesAssumption
<1>1. /\ meta_page_id' \in [TwoQ!Frames -> Pages \cup {0}]
      /\ meta_page_id'[res] = p
      /\ \A f \in TwoQ!Frames : f # res => meta_page_id'[f] = meta_page_id[f]
      /\ store' = store
  BY DEF TwoQ!Place
<1>2. /\ cold \in TwoQ!ListOf(TwoQ!Frames) /\ TwoQ!Exact(cold)
      /\ hot \in TwoQ!ListOf(TwoQ!Frames) /\ TwoQ!Exact(hot)
      /\ free_list' \in TwoQ!ListOf(TwoQ!Frames) /\ TwoQ!Exact(free_list')
      /\ res \notin TwoQ!Members(cold) /\ res \notin TwoQ!Members(hot)
      /\ TwoQ!Members(free_list') \subseteq TwoQ!Frames
      /\ TwoQ!Members(cold) \subseteq TwoQ!Frames
      /\ TwoQ!Members(hot) \subseteq TwoQ!Frames
  BY TwoQ!MembersOfList DEF TwoQHolds
<1>3. CASE TwoQ!WithRecency /\ TwoQ!Remembers(pool, p)
  <2>1. /\ state' = [state EXCEPT ![res] = "HOT"]
        /\ hot_list' = TwoQ!PushFront(hot, res) /\ cold_list' = cold
    BY <1>3 DEF TwoQ!Place
  <2>2. /\ hot_list' \in TwoQ!ListOf(TwoQ!Frames) /\ TwoQ!Exact(hot_list')
        /\ TwoQ!Members(hot_list') = TwoQ!Members(hot) \cup {res}
    BY <2>1, <1>2, TwoQ!PushFrontExact
  <2>3. TwoQ!ListsMatchStates'
    BY <2>1, <2>2, <1>2 DEF TwoQHolds, TwoQ!ListsMatchStates, TwoQ!Frames
  <2> QED
    BY <2>1, <2>2, <2>3, <1>1, <1>2
<1>4. CASE ~(TwoQ!WithRecency /\ TwoQ!Remembers(pool, p))
  <2>1. /\ state' = [state EXCEPT ![res] = "COLD"]
        /\ cold_list' = TwoQ!PushFront(cold, res) /\ hot_list' = hot
    BY <1>4 DEF TwoQ!Place
  <2>2. /\ cold_list' \in TwoQ!ListOf(TwoQ!Frames) /\ TwoQ!Exact(cold_list')
        /\ TwoQ!Members(cold_list') = TwoQ!Members(cold) \cup {res}
    BY <2>1, <1>2, TwoQ!PushFrontExact
  <2>3. TwoQ!ListsMatchStates'
    BY <2>1, <2>2, <1>2 DEF TwoQHolds, TwoQ!ListsMatchStates, TwoQ!Frames
  <2> QED
    BY <2>1, <2>2, <2>3, <1>1, <1>2
<1> QED
  BY <1>3, <1>4

(* Where a list is, as TwoQHolds says it. *)
LEMMA TwoQListsHold ==
    ASSUME TwoQFrames
    PROVE  /\ free_list \in TwoQ!ListOf(TwoQ!Frames) /\ TwoQ!Exact(free_list)
           /\ cold_list \in TwoQ!ListOf(TwoQ!Frames) /\ TwoQ!Exact(cold_list)
           /\ hot_list \in TwoQ!ListOf(TwoQ!Frames) /\ TwoQ!Exact(hot_list)
           /\ \A f \in TwoQ!Frames :
                 /\ f \in TwoQ!Members(free_list) <=> state[f] = "FREE"
                 /\ f \in TwoQ!Members(cold_list) <=> state[f] = "COLD"
                 /\ f \in TwoQ!Members(hot_list) <=> state[f] = "HOT"
           /\ TwoQ!Members(free_list) \subseteq TwoQ!Frames
           /\ TwoQ!Members(cold_list) \subseteq TwoQ!Frames
           /\ TwoQ!Members(hot_list) \subseteq TwoQ!Frames
BY DEF TwoQFrames, TwoQ!ListsMatchStates

(* A used frame knows its page under the number the pool gave it.          *)
LEMMA TwoQUsed ==
    ASSUME TwoQFrames, NEW f \in TwoQ!Frames, state[f] # "FREE"
    PROVE  /\ page_id[f] \in Pages /\ meta_page_id[f] = page_id[f]
           /\ page_id[f] \in TwoQPool!Resident
<1>1. f \notin TwoQ!Members(free_list)
  BY TwoQListsHold
<1>2. page_id[f] \in TwoQPool!Resident /\ lookup_tbl[page_id[f]] = f
  BY <1>1 DEF TwoQFrames, TwoQPool!IInv, TwoQPool!UsedIsMapped
<1> QED
  BY <1>2 DEF TwoQFrames, TwoQ!PageIdsAgree, TwoQ!Resident, TwoQPool!Resident,
              TwoQPool!IInv, TwoQPool!TypeOK, TwoQPool!PoolTypeOK

(* The numbers agree after a miss: the frame filled carries the new page   *)
(* under both, the others keep theirs.                                     *)
LEMMA TwoQIdsAgree ==
    ASSUME TwoQFrames, NEW p \in Pages, NEW res \in TwoQ!Frames, NEW V \in SUBSET {res},
           TwoQPool!Admit(p, res, V), TwoQPool!IInv',
           meta_page_id'[res] = p,
           \A f \in TwoQ!Frames : f # res => meta_page_id'[f] = meta_page_id[f]
    PROVE  TwoQ!PageIdsAgree'
<1> USE SizesAssumption
<1>1. /\ TwoQPool!Resident' = (TwoQPool!Resident \ {page_id[g] : g \in V}) \cup {p}
      /\ lookup_tbl'[p] = res
      /\ \A q \in TwoQPool!Resident' : q # p => lookup_tbl'[q] = lookup_tbl[q]
  <2>1. res \in TwoQPool!Frames /\ V \in SUBSET TwoQPool!Frames
    BY TwoQSamePool
  <2> QED
    BY <2>1, TwoQPool!AdmitEffect DEF TwoQFrames
<1>2. \A q \in TwoQPool!Resident' : q = p \/ (q \in TwoQPool!Resident /\ lookup_tbl'[q] = lookup_tbl[q])
  BY <1>1
<1>3. ASSUME NEW q \in TwoQPool!Resident', q # p
      PROVE  meta_page_id'[lookup_tbl'[q]] = q
  <2>1. /\ lookup_tbl'[q] \in TwoQ!Frames
        /\ page_id'[lookup_tbl'[q]] = q /\ page_id'[lookup_tbl'[p]] = p
    BY <1>1, TwoQSamePool
    DEF TwoQPool!IInv, TwoQPool!LookupInverse, TwoQPool!TypeOK, TwoQPool!PoolTypeOK,
        TwoQPool!Resident, TwoQPool!Frames, TwoQ!Frames
  <2>2. lookup_tbl'[q] # res
    BY <2>1, <1>1, <1>3
  <2>3. meta_page_id[lookup_tbl[q]] = q
    BY <1>2, <1>3 DEF TwoQFrames, TwoQ!PageIdsAgree, TwoQ!Resident, TwoQPool!Resident
  <2> QED
    BY <2>1, <2>2, <2>3, <1>2, <1>3
<1> QED
  BY <1>1, <1>3 DEF TwoQ!PageIdsAgree, TwoQ!Resident, TwoQPool!Resident

(* A miss with a free frame: the frame goes from the free list to the list *)
(* that the history of the page picks.                                     *)
LEMMA TwoQMissFree ==
    ASSUME TwoQFrames, NEW p \in Pages, TwoQ!MissFree(p)
    PROVE  TwoQFrames' /\ TwoQPool!MissFree(p)
<1> USE SizesAssumption
<1> DEFINE f == TwoQ!Back(free_list)
<1>1. /\ TwoQ!CanPop(free_list) /\ TwoQ!Admit(p, f, {})
      /\ free_list' = TwoQ!PopBack(free_list)
      /\ TwoQ!Place(p, f, cold_list, hot_list, recent_pool)
  BY DEF TwoQ!MissFree
<1>2. /\ free_list' \in TwoQ!ListOf(TwoQ!Frames) /\ TwoQ!Exact(free_list')
      /\ f \in TwoQ!Frames /\ f \in TwoQ!Members(free_list)
      /\ TwoQ!Members(free_list') = TwoQ!Members(free_list) \ {f}
  BY <1>1, TwoQListsHold, TwoQ!PopBackExact
<1> HIDE DEF f
<1>3. TwoQHolds(cold_list, "COLD", f) /\ TwoQHolds(hot_list, "HOT", f) /\ TwoQHolds(free_list', "FREE", f)
  BY <1>2, TwoQListsHold DEF TwoQHolds
<1>4. /\ cold_list' \in TwoQ!ListOf(TwoQ!Frames)
      /\ hot_list' \in TwoQ!ListOf(TwoQ!Frames)
      /\ state' \in [TwoQ!Frames -> {"FREE", "COLD", "HOT"}]
      /\ TwoQ!ListsMatchStates'
      /\ meta_page_id' \in [TwoQ!Frames -> Pages \cup {0}]
      /\ meta_page_id'[f] = p
      /\ \A g \in TwoQ!Frames : g # f => meta_page_id'[g] = meta_page_id[g]
      /\ store' = store
  BY <1>1, <1>2, <1>3, TwoQPlace DEF TwoQFrames
<1>5. TwoQPool!MissFree(p) /\ TwoQPool!Admit(p, f, {})
  BY <1>1, <1>2, TwoQSamePool DEF TwoQPool!MissFree, TwoQ!Frames
<1>6. TwoQPool!IInv'
  BY <1>5, TwoQPool!MissFreeIInv DEF TwoQFrames
<1>7. TwoQ!PageIdsAgree'
  BY <1>2, <1>4, <1>5, <1>6, TwoQIdsAgree
<1> QED
  BY <1>2, <1>4, <1>5, <1>6, <1>7 DEF TwoQFrames, TwoQ!Frames

(* get without a frame to spare, once pick_victim chose: cold and hot are  *)
(* the lists without the victim.                                           *)
LEMMA TwoQEvict ==
    ASSUME TwoQFrames, NEW p \in Pages, NEW victim \in TwoQ!Frames, NEW cold, NEW hot,
           TwoQ!IsEmpty(free_list),
           TwoQHolds(cold, "COLD", victim), TwoQHolds(hot, "HOT", victim),
           TwoQ!EvictAndPlace(p, victim, cold, hot)
    PROVE  TwoQFrames' /\ TwoQPool!MissEvict(p)
<1> USE SizesAssumption
<1> DEFINE filled == TwoQ!PushFront(free_list, victim)
           pool == TwoQ!Remember(meta_page_id[victim])
<1>1. /\ TwoQ!Admit(p, TwoQ!Back(filled), {victim})
      /\ free_list' = TwoQ!PopBack(filled)
      /\ TwoQ!Place(p, TwoQ!Back(filled), cold, hot, pool)
  BY DEF TwoQ!EvictAndPlace
<1>2. free_list.nodes = <<>> /\ free_list.size = 0 /\ TwoQ!Members(free_list) = {}
  <2>1. TwoQ!Members(free_list) = {}
    BY TwoQListsHold, TwoQ!EmptyExact
  <2> QED
    BY <2>1, TwoQListsHold, TwoQ!MembersOfList DEF TwoQ!IsEmpty
<1>3. TwoQ!Back(filled) = victim /\ free_list' = TwoQ!EmptyList
  BY <1>1, <1>2, TwoQListsHold, TwoQ!PushThenPop
<1> HIDE DEF filled, pool
<1>4. /\ free_list' \in TwoQ!ListOf(TwoQ!Frames) /\ TwoQ!Exact(free_list')
      /\ TwoQ!Members(free_list') = {}
  BY <1>3, TwoQ!EmptyListEffect
<1>5. TwoQHolds(free_list', "FREE", victim)
  BY <1>2, <1>4, TwoQListsHold DEF TwoQHolds
<1>6. /\ cold_list' \in TwoQ!ListOf(TwoQ!Frames)
      /\ hot_list' \in TwoQ!ListOf(TwoQ!Frames)
      /\ state' \in [TwoQ!Frames -> {"FREE", "COLD", "HOT"}]
      /\ TwoQ!ListsMatchStates'
      /\ meta_page_id' \in [TwoQ!Frames -> Pages \cup {0}]
      /\ meta_page_id'[victim] = p
      /\ \A g \in TwoQ!Frames : g # victim => meta_page_id'[g] = meta_page_id[g]
      /\ store' = store
  BY <1>1, <1>3, <1>5, TwoQPlace DEF TwoQFrames
<1>7. TwoQPool!MissEvict(p) /\ TwoQPool!Admit(p, victim, {victim})
  BY <1>1, <1>2, <1>3, <1>4, TwoQSamePool DEF TwoQPool!MissEvict, TwoQ!Frames
<1>8. TwoQPool!IInv'
  BY <1>7, TwoQPool!MissEvictIInv DEF TwoQFrames
<1>9. TwoQ!PageIdsAgree'
  BY <1>6, <1>7, <1>8, TwoQIdsAgree
<1> QED
  BY <1>4, <1>6, <1>7, <1>8, <1>9 DEF TwoQFrames, TwoQ!Frames

(* pick_victim takes the frame at the back of the cold queue ...           *)
LEMMA TwoQMissEvictCold ==
    ASSUME TwoQFrames, NEW p \in Pages, TwoQ!MissEvictCold(p)
    PROVE  TwoQFrames' /\ TwoQPool!MissEvict(p)
<1> USE SizesAssumption
<1> DEFINE victim == TwoQ!Back(cold_list)
           cold == TwoQ!PopBack(cold_list)
<1>1. /\ TwoQ!IsEmpty(free_list) /\ TwoQ!CanPop(cold_list)
      /\ TwoQ!EvictAndPlace(p, victim, cold, hot_list)
  BY DEF TwoQ!MissEvictCold
<1>2. /\ cold \in TwoQ!ListOf(TwoQ!Frames) /\ TwoQ!Exact(cold)
      /\ victim \in TwoQ!Frames /\ victim \in TwoQ!Members(cold_list)
      /\ TwoQ!Members(cold) = TwoQ!Members(cold_list) \ {victim}
  BY <1>1, TwoQListsHold, TwoQ!PopBackExact
<1> HIDE DEF victim, cold
<1>3. TwoQHolds(cold, "COLD", victim) /\ TwoQHolds(hot_list, "HOT", victim)
  BY <1>2, TwoQListsHold DEF TwoQHolds
<1> QED
  BY <1>1, <1>2, <1>3, TwoQEvict

(* ... or of the hot one.                                                  *)
LEMMA TwoQMissEvictHot ==
    ASSUME TwoQFrames, NEW p \in Pages, TwoQ!MissEvictHot(p)
    PROVE  TwoQFrames' /\ TwoQPool!MissEvict(p)
<1> USE SizesAssumption
<1> DEFINE victim == TwoQ!Back(hot_list)
           hot == TwoQ!PopBack(hot_list)
<1>1. /\ TwoQ!IsEmpty(free_list) /\ TwoQ!CanPop(hot_list)
      /\ TwoQ!EvictAndPlace(p, victim, cold_list, hot)
  BY DEF TwoQ!MissEvictHot
<1>2. /\ hot \in TwoQ!ListOf(TwoQ!Frames) /\ TwoQ!Exact(hot)
      /\ victim \in TwoQ!Frames /\ victim \in TwoQ!Members(hot_list)
      /\ TwoQ!Members(hot) = TwoQ!Members(hot_list) \ {victim}
  BY <1>1, TwoQListsHold, TwoQ!PopBackExact
<1> HIDE DEF victim, hot
<1>3. TwoQHolds(cold_list, "COLD", victim) /\ TwoQHolds(hot, "HOT", victim)
  BY <1>2, TwoQListsHold DEF TwoQHolds
<1> QED
  BY <1>1, <1>2, <1>3, TwoQEvict

(* A hit leaves the pool as it is. *)
LEMMA TwoQHitPool ==
    ASSUME TwoQFrames, NEW p \in Pages, NEW f \in TwoQ!Frames,
           TwoQ!Found(p, f), TwoQ!Members(free_list') = TwoQ!Members(free_list),
           meta_page_id' = meta_page_id
    PROVE  TwoQPool!Hit(p) /\ TwoQPool!IInv' /\ TwoQ!PageIdsAgree'
<1> USE SizesAssumption
<1>1. TwoQPool!Found(p, f) /\ f \in TwoQPool!Frames
  BY TwoQSamePool
<1>2. TwoQPool!Hit(p)
  BY <1>1 DEF TwoQPool!Hit, TwoQ!Frames
<1>3. TwoQPool!IInv'
  BY <1>2, TwoQPool!HitIInv DEF TwoQFrames
<1>4. lookup_tbl' = lookup_tbl
  BY DEF TwoQ!Found
<1>5. TwoQ!PageIdsAgree'
  BY <1>4 DEF TwoQFrames, TwoQ!PageIdsAgree, TwoQ!Resident
<1> QED
  BY <1>2, <1>3, <1>5

(* A hit in the hot list moves the frame to the front of that list.        *)
LEMMA TwoQHitHot ==
    ASSUME TwoQFrames, NEW p \in Pages, TwoQ!HitHot(p)
    PROVE  TwoQFrames' /\ TwoQPool!Hit(p)
<1> USE SizesAssumption
<1>1. PICK f \in TwoQ!Frames :
          /\ TwoQ!Found(p, f) /\ state[f] = "HOT"
          /\ hot_list' = TwoQ!PushFront(TwoQ!ReleaseCallback(TwoQ!Unlink(hot_list, f)), f)
  BY DEF TwoQ!HitHot
<1>2. UNCHANGED <<free_list, cold_list, state, meta_page_id, recent_pool, store>>
  BY DEF TwoQ!HitHot
<1> DEFINE rest == TwoQ!ReleaseCallback(TwoQ!Unlink(hot_list, f))
<1>3. f \in TwoQ!Members(hot_list)
  BY <1>1, TwoQListsHold
<1>4. /\ rest \in TwoQ!ListOf(TwoQ!Frames) /\ TwoQ!Exact(rest)
      /\ TwoQ!Members(rest) = TwoQ!Members(hot_list) \ {f}
  BY <1>3, TwoQListsHold, TwoQ!UnlinkExact
<1> HIDE DEF rest
<1>5. /\ hot_list' \in TwoQ!ListOf(TwoQ!Frames) /\ TwoQ!Exact(hot_list')
      /\ TwoQ!Members(hot_list') = TwoQ!Members(rest) \cup {f}
  <2>1. f \in TwoQ!Frames \ TwoQ!Members(rest)
    BY <1>4
  <2> QED
    BY <1>1, <1>4, <2>1, TwoQ!PushFrontExact DEF rest
<1>6. TwoQ!Members(hot_list') = TwoQ!Members(hot_list)
  BY <1>3, <1>4, <1>5
<1>7. TwoQ!ListsMatchStates'
  BY <1>2, <1>5, <1>6 DEF TwoQFrames, TwoQ!ListsMatchStates, TwoQ!Frames
<1>8. TwoQPool!Hit(p) /\ TwoQPool!IInv' /\ TwoQ!PageIdsAgree'
  BY <1>1, <1>2, TwoQHitPool
<1> QED
  BY <1>2, <1>5, <1>7, <1>8 DEF TwoQFrames, TwoQ!Frames

(* A hit in the cold list moves the frame to the front of the hot list.    *)
LEMMA TwoQHitCold ==
    ASSUME TwoQFrames, NEW p \in Pages, TwoQ!HitCold(p)
    PROVE  TwoQFrames' /\ TwoQPool!Hit(p)
<1> USE SizesAssumption
<1>1. PICK f \in TwoQ!Frames :
          /\ TwoQ!Found(p, f) /\ state[f] = "COLD"
          /\ IF TwoQ!WithRecency
             THEN UNCHANGED <<cold_list, hot_list, state>>
             ELSE /\ cold_list' = TwoQ!ReleaseCallback(TwoQ!Unlink(cold_list, f))
                  /\ hot_list' = TwoQ!PushFront(hot_list, f)
                  /\ state' = [state EXCEPT ![f] = "HOT"]
  BY DEF TwoQ!HitCold
<1>2. UNCHANGED <<free_list, meta_page_id, recent_pool, store>>
  BY DEF TwoQ!HitCold
<1>3. TwoQPool!Hit(p) /\ TwoQPool!IInv' /\ TwoQ!PageIdsAgree'
  BY <1>1, <1>2, TwoQHitPool
<1>4. CASE TwoQ!WithRecency
  <2>1. UNCHANGED <<cold_list, hot_list, state>>
    BY <1>1, <1>4
  <2>2. TwoQ!ListsMatchStates'
    BY <1>2, <2>1 DEF TwoQFrames, TwoQ!ListsMatchStates, TwoQ!Frames
  <2> QED
    BY <1>2, <1>3, <2>1, <2>2 DEF TwoQFrames, TwoQ!Frames
<1>5. CASE ~TwoQ!WithRecency
  <2>1. /\ cold_list' = TwoQ!ReleaseCallback(TwoQ!Unlink(cold_list, f))
        /\ hot_list' = TwoQ!PushFront(hot_list, f)
        /\ state' = [state EXCEPT ![f] = "HOT"]
    BY <1>1, <1>5
  <2>2. f \in TwoQ!Members(cold_list) /\ f \in TwoQ!Frames \ TwoQ!Members(hot_list)
    BY <1>1, TwoQListsHold
  <2>3. /\ cold_list' \in TwoQ!ListOf(TwoQ!Frames) /\ TwoQ!Exact(cold_list')
        /\ TwoQ!Members(cold_list') = TwoQ!Members(cold_list) \ {f}
    BY <2>1, <2>2, TwoQListsHold, TwoQ!UnlinkExact
  <2>4. /\ hot_list' \in TwoQ!ListOf(TwoQ!Frames) /\ TwoQ!Exact(hot_list')
        /\ TwoQ!Members(hot_list') = TwoQ!Members(hot_list) \cup {f}
    BY <2>1, <2>2, TwoQListsHold, TwoQ!PushFrontExact
  <2>5. state' \in [TwoQ!Frames -> {"FREE", "COLD", "HOT"}]
    BY <2>1, <1>1 DEF TwoQFrames
  <2>6. \A g \in TwoQ!Frames : state'[g] = IF g = f THEN "HOT" ELSE state[g]
    BY <2>1 DEF TwoQFrames
  <2>7. TwoQ!ListsMatchStates'
    BY <1>1, <1>2, <2>2, <2>3, <2>4, <2>6, TwoQListsHold DEF TwoQ!ListsMatchStates, TwoQ!Frames
  <2> QED
    BY <1>2, <1>3, <2>3, <2>4, <2>5, <2>7 DEF TwoQFrames, TwoQ!Frames
<1> QED
  BY <1>4, <1>5

(* Every action of the policy keeps the lists and the pool together.       *)
LEMMA TwoQFramesNext ==
    ASSUME TwoQFrames, TwoQ!Next
    PROVE  TwoQFrames' /\ TwoQPool!Next
<1>1. PICK p \in Pages : TwoQ!GetPage(p)
  BY DEF TwoQ!Next
<1>2. TwoQFrames' /\ (TwoQPool!MissFree(p) \/ TwoQPool!MissEvict(p) \/ TwoQPool!Hit(p))
  BY <1>1, TwoQMissFree, TwoQMissEvictCold, TwoQMissEvictHot, TwoQHitHot, TwoQHitCold
  DEF TwoQ!GetPage
<1> QED
  BY <1>2 DEF TwoQPool!Next, TwoQPool!GetPage

(* At the start every frame is in the free list.                           *)
LEMMA TwoQFramesInit ==
    ASSUME TwoQ!Init
    PROVE  TwoQFrames /\ TwoQPool!Init
<1> USE SizesAssumption
<1>1. /\ TwoQ!Exact(free_list) /\ free_list \in TwoQ!ListOf(TwoQ!Frames)
      /\ TwoQ!Members(free_list) = TwoQ!Frames
  BY TwoQ!StackedEffect DEF TwoQ!Init, TwoQ!Frames
<1>2. /\ TwoQ!EmptyList \in TwoQ!ListOf(TwoQ!Frames) /\ TwoQ!Exact(TwoQ!EmptyList)
      /\ TwoQ!Members(TwoQ!EmptyList) = {}
  BY TwoQ!EmptyListEffect
<1>3. TwoQPool!Init
  BY <1>1, TwoQSamePool DEF TwoQ!Init, TwoQPool!Init
<1>4. TwoQPool!IInv
  BY <1>3, TwoQPool!InitIInv
<1>5. TwoQ!ListsMatchStates
  BY <1>1, <1>2 DEF TwoQ!ListsMatchStates, TwoQ!Init
<1>6. TwoQ!PageIdsAgree
  BY DEF TwoQ!Init, TwoQ!PageIdsAgree, TwoQ!PoolInit, TwoQ!Resident
<1> QED
  BY <1>1, <1>2, <1>3, <1>4, <1>5, <1>6 DEF TwoQFrames, TwoQ!Init

-----------------------------------------------------------------------------
(* The recency pool, in the form its steps keep: PoolConsistent with the   *)
(* types it needs.                                                         *)
Nodes == 1..TwoQ!RecentCapacity

PoolKept(pool) ==
    /\ pool.map \in [DOMAIN pool.map -> [value : {TwoQ!Void}, node : Nodes]]
    /\ DOMAIN pool.map \subseteq Pages
    /\ pool.key \in [Nodes -> Pages \cup {SENTINEL}]
    /\ pool.list \in TwoQ!ListOf(Nodes)
    /\ pool = [map |-> pool.map, key |-> pool.key, list |-> pool.list]
    /\ TwoQ!PoolConsistent(pool)

(* What PoolKept says of one node and of one key.                          *)
LEMMA PoolUnfolded ==
    ASSUME NEW pool, PoolKept(pool)
    PROVE  /\ \A k \in DOMAIN pool.map : pool.map[k].node \in Nodes /\ pool.key[pool.map[k].node] = k
           /\ \A n \in Nodes : pool.key[n] # SENTINEL =>
                  pool.key[n] \in DOMAIN pool.map /\ pool.map[pool.key[n]].node = n
           /\ TwoQ!IsInjective(pool.list.nodes) /\ TwoQ!Members(pool.list) = Nodes
           /\ pool.list.size >= Len(pool.list.nodes)
           /\ DOMAIN pool.key = Nodes
<1>1. DOMAIN pool.key = Nodes
  BY DEF PoolKept
<1>2. \A k \in DOMAIN pool.map : pool.map[k] \in [value : {TwoQ!Void}, node : Nodes]
  BY DEF PoolKept
<1> QED
  BY <1>1, <1>2 DEF PoolKept, TwoQ!PoolConsistent

(* A node moved to the front leaves all nodes linked. *)
LEMMA PoolMoved ==
    ASSUME NEW l \in TwoQ!ListOf(Nodes), TwoQ!IsInjective(l.nodes), TwoQ!Members(l) = Nodes,
           l.size >= Len(l.nodes), NEW n \in Nodes
    PROVE  LET m == TwoQ!PushFront(TwoQ!Unlink(l, n), n)
           IN  /\ m \in TwoQ!ListOf(Nodes) /\ TwoQ!IsInjective(m.nodes)
               /\ TwoQ!Members(m) = Nodes /\ m.size >= Len(m.nodes)
<1> USE SizesAssumption
<1> DEFINE u == TwoQ!Unlink(l, n)
           m == TwoQ!PushFront(u, n)
<1>1. /\ u \in TwoQ!ListOf(Nodes) /\ TwoQ!IsInjective(u.nodes)
      /\ TwoQ!Members(u) = Nodes \ {n} /\ u.size = l.size
      /\ Len(u.nodes) = Len(l.nodes) - 1
  BY TwoQ!UnlinkEffect
<1> HIDE DEF u
<1>2. /\ m \in TwoQ!ListOf(Nodes) /\ TwoQ!IsInjective(m.nodes)
      /\ TwoQ!Members(m) = TwoQ!Members(u) \cup {n} /\ m.size = u.size + 1
      /\ Len(m.nodes) = Len(u.nodes) + 1
  <2>1. n \notin TwoQ!Members(u)
    BY <1>1
  <2> QED
    BY <1>1, <2>1, TwoQ!PushFrontEffect
<1> HIDE DEF m
<1>3. Len(l.nodes) \in Nat /\ l.size \in Nat
  BY TwoQ!MembersOfList DEF TwoQ!ListOf
<1>4. m.size >= Len(m.nodes)
  BY <1>1, <1>2, <1>3
<1> QED
  BY <1>1, <1>2, <1>4 DEF u, m

(* The node that left the back of the list comes back at the front.        *)
LEMMA PoolRotated ==
    ASSUME NEW l \in TwoQ!ListOf(Nodes), TwoQ!IsInjective(l.nodes), TwoQ!Members(l) = Nodes,
           l.size >= Len(l.nodes), TwoQ!CanPop(l)
    PROVE  LET m == TwoQ!PushFront(TwoQ!PopBack(l), TwoQ!Back(l))
           IN  /\ m \in TwoQ!ListOf(Nodes) /\ TwoQ!IsInjective(m.nodes)
               /\ TwoQ!Members(m) = Nodes /\ m.size >= Len(m.nodes)
               /\ TwoQ!Back(l) \in Nodes
<1> USE SizesAssumption
<1> DEFINE u == TwoQ!PopBack(l)
           n == TwoQ!Back(l)
           m == TwoQ!PushFront(u, n)
<1>1. /\ u \in TwoQ!ListOf(Nodes) /\ TwoQ!IsInjective(u.nodes)
      /\ TwoQ!Members(u) = Nodes \ {n} /\ u.size = l.size - 1
      /\ Len(u.nodes) = Len(l.nodes) - 1 /\ n \in Nodes
  BY TwoQ!PopBackEffect DEF TwoQ!CanPop
<1> HIDE DEF u, n
<1>2. /\ m \in TwoQ!ListOf(Nodes) /\ TwoQ!IsInjective(m.nodes)
      /\ TwoQ!Members(m) = TwoQ!Members(u) \cup {n} /\ m.size = u.size + 1
      /\ Len(m.nodes) = Len(u.nodes) + 1
  <2>1. n \notin TwoQ!Members(u)
    BY <1>1
  <2> QED
    BY <1>1, <2>1, TwoQ!PushFrontEffect
<1> HIDE DEF m
<1>3. Len(l.nodes) \in Nat /\ l.size \in Nat
  BY TwoQ!MembersOfList DEF TwoQ!ListOf
<1>4. m.size >= Len(m.nodes)
  BY <1>1, <1>2, <1>3
<1> QED
  BY <1>1, <1>2, <1>4 DEF u, m, n

(* insert of a key that is remembered. *)
LEMMA RefreshedKept ==
    ASSUME NEW pool, PoolKept(pool), NEW k \in DOMAIN pool.map
    PROVE  LET r == TwoQ!Refreshed(pool, k, TwoQ!Void)
               n == pool.map[k].node
           IN  /\ PoolKept(r) /\ n \in Nodes
               /\ r.map = pool.map /\ r.key = pool.key
               /\ r.list = TwoQ!PushFront(TwoQ!Unlink(pool.list, n), n)
<1> DEFINE r == TwoQ!Refreshed(pool, k, TwoQ!Void)
           n == pool.map[k].node
<1>1. /\ n \in Nodes
      /\ TwoQ!IsInjective(pool.list.nodes) /\ TwoQ!Members(pool.list) = Nodes
      /\ pool.list.size >= Len(pool.list.nodes)
      /\ pool.list \in TwoQ!ListOf(Nodes)
  BY PoolUnfolded DEF PoolKept
<1>2. /\ r.list = TwoQ!PushFront(TwoQ!Unlink(pool.list, n), n)
      /\ r.key = pool.key
      /\ r.map = [pool.map EXCEPT ![k].value = TwoQ!Void]
      /\ r = [map |-> r.map, key |-> r.key, list |-> r.list]
  <2>1. pool = [map |-> pool.map, key |-> pool.key, list |-> pool.list]
    BY DEF PoolKept
  <2>2. r = [pool EXCEPT !.list = TwoQ!PushFront(TwoQ!Unlink(@, n), n), !.map[k].value = TwoQ!Void]
    BY DEF TwoQ!Refreshed
  <2>3. r = [map |-> [pool.map EXCEPT ![k].value = TwoQ!Void], key |-> pool.key,
             list |-> TwoQ!PushFront(TwoQ!Unlink(pool.list, n), n)]
    <3> DEFINE m == pool.map  ky == pool.key  ls == pool.list
    <3>1. pool = [map |-> m, key |-> ky, list |-> ls]
      BY <2>1
    <3> HIDE DEF m, ky, ls, r, n
    <3>2. r = [map |-> [m EXCEPT ![k].value = TwoQ!Void], key |-> ky,
               list |-> TwoQ!PushFront(TwoQ!Unlink(ls, n), n)]
      BY <2>2, <3>1
    <3> QED
      BY <3>2 DEF m, ky, ls
  <2> HIDE DEF r, n
  <2> QED
    BY <2>3
<1> HIDE DEF r, n
<1>3. /\ r.list \in TwoQ!ListOf(Nodes) /\ TwoQ!IsInjective(r.list.nodes)
      /\ TwoQ!Members(r.list) = Nodes /\ r.list.size >= Len(r.list.nodes)
  BY <1>1, <1>2, PoolMoved
<1>4. r.map = pool.map
  BY <1>2 DEF PoolKept
<1>5. TwoQ!PoolConsistent(r)
  BY <1>2, <1>3, <1>4 DEF PoolKept, TwoQ!PoolConsistent
<1> QED
  BY <1>1, <1>2, <1>3, <1>4, <1>5 DEF PoolKept, r, n

(* insert of a new key: the node at the back loses the key it held.        *)
LEMMA ReplacedKept ==
    ASSUME SENTINEL \notin Pages,
           NEW pool, PoolKept(pool), NEW k \in Pages \ DOMAIN pool.map,
           TwoQ!CanPop(pool.list)
    PROVE  LET r == TwoQ!Replaced(pool, k, TwoQ!Void)
               n == TwoQ!Back(pool.list)
           IN  /\ PoolKept(r) /\ n \in Nodes
               /\ DOMAIN r.map = (DOMAIN pool.map \ {pool.key[n]}) \cup {k}
               /\ r.key = [pool.key EXCEPT ![n] = k]
               /\ r.list = TwoQ!PushFront(TwoQ!PopBack(pool.list), n)
<1> DEFINE r == TwoQ!Replaced(pool, k, TwoQ!Void)
           n == TwoQ!Back(pool.list)
           kept == IF pool.key[n] # SENTINEL
                   THEN TwoQ!Forgotten(pool.map, pool.key[n]) ELSE pool.map
<1>1. /\ TwoQ!IsInjective(pool.list.nodes) /\ TwoQ!Members(pool.list) = Nodes
      /\ pool.list.size >= Len(pool.list.nodes)
      /\ pool.list \in TwoQ!ListOf(Nodes)
  BY PoolUnfolded DEF PoolKept
<1>2. /\ r.list = TwoQ!PushFront(TwoQ!PopBack(pool.list), n)
      /\ r.key = [pool.key EXCEPT ![n] = k]
      /\ r.map = TwoQ!Recorded(kept, k, TwoQ!Void, n)
      /\ r = [map |-> r.map, key |-> r.key, list |-> r.list]
  BY DEF TwoQ!Replaced
<1> HIDE DEF r
<1>3. /\ r.list \in TwoQ!ListOf(Nodes) /\ TwoQ!IsInjective(r.list.nodes)
      /\ TwoQ!Members(r.list) = Nodes /\ r.list.size >= Len(r.list.nodes)
      /\ n \in Nodes
  BY <1>1, <1>2, PoolRotated
<1>4. /\ DOMAIN kept = DOMAIN pool.map \ {pool.key[n]}
      /\ \A j \in DOMAIN kept : kept[j] = pool.map[j]
  <2>1. CASE pool.key[n] # SENTINEL
    BY <2>1 DEF TwoQ!Forgotten
  <2>2. CASE pool.key[n] = SENTINEL
    BY <2>2 DEF PoolKept
  <2> QED
    BY <2>1, <2>2
<1> HIDE DEF kept, n
<1>5. /\ DOMAIN r.map = DOMAIN kept \cup {k}
      /\ r.map[k] = [value |-> TwoQ!Void, node |-> n]
      /\ \A j \in DOMAIN kept : j # k => r.map[j] = kept[j]
      /\ r.map \in [DOMAIN r.map -> [value : {TwoQ!Void}, node : Nodes]]
  BY <1>2, <1>3, <1>4 DEF PoolKept, TwoQ!Recorded
<1>6. /\ r.key \in [Nodes -> Pages \cup {SENTINEL}]
      /\ r.key[n] = k /\ \A m \in Nodes : m # n => r.key[m] = pool.key[m]
  BY <1>2, <1>3 DEF PoolKept
<1>7. ASSUME NEW j \in DOMAIN r.map PROVE r.key[r.map[j].node] = j
  <2>1. CASE j = k
    BY <2>1, <1>5, <1>6
  <2>2. CASE j # k
    <3>1. j \in DOMAIN pool.map /\ j # pool.key[n] /\ r.map[j] = pool.map[j]
      BY <2>2, <1>4, <1>5, <1>7
    <3>2. pool.map[j].node \in Nodes /\ pool.key[pool.map[j].node] = j
      BY <3>1, PoolUnfolded
    <3> QED
      BY <3>1, <3>2, <1>6
  <2> QED
    BY <2>1, <2>2
<1>8. ASSUME NEW m \in Nodes, r.key[m] # SENTINEL
      PROVE  r.key[m] \in DOMAIN r.map /\ r.map[r.key[m]].node = m
  <2>1. CASE m = n
    BY <2>1, <1>5, <1>6
  <2>2. CASE m # n
    <3>1. r.key[m] = pool.key[m] /\ pool.key[m] # SENTINEL
      BY <2>2, <1>6, <1>8
    <3>2. pool.key[m] \in DOMAIN pool.map /\ pool.map[pool.key[m]].node = m
      BY <3>1, PoolUnfolded
    <3>3. pool.key[m] # pool.key[n]
      <4>1. ASSUME pool.key[m] = pool.key[n] PROVE FALSE
        <5>1. pool.key[n] # SENTINEL
          BY <4>1, <3>1
        <5>2. pool.map[pool.key[n]].node = n
          BY <5>1, <1>3, PoolUnfolded
        <5> QED
          BY <5>2, <4>1, <3>2, <2>2
      <4> QED
        BY <4>1
    <3>4. pool.key[m] \in DOMAIN kept /\ pool.key[m] # k
      BY <3>2, <3>3, <1>4
    <3> QED
      BY <3>1, <3>2, <3>4, <1>4, <1>5
  <2> QED
    BY <2>1, <2>2
<1>9. DOMAIN r.key = Nodes
  BY <1>6
<1>10. TwoQ!PoolConsistent(r)
  BY <1>3, <1>7, <1>8, <1>9 DEF TwoQ!PoolConsistent
<1>11. DOMAIN r.map \subseteq Pages
  BY <1>4, <1>5 DEF PoolKept
<1> QED
  BY <1>2, <1>3, <1>4, <1>5, <1>6, <1>10, <1>11 DEF PoolKept, r, n

(* A RecencyPool without keys.                                             *)
LEMMA EmptyPoolKept == PoolKept(TwoQ!EmptyPool(TwoQ!RecentCapacity))
<1> USE SizesAssumption
<1> DEFINE e == TwoQ!EmptyPool(TwoQ!RecentCapacity)
<1>1. TwoQ!RecentCapacity \in Nat
  BY DEF TwoQ!RecentCapacity
<1>2. /\ TwoQ!Stacked(TwoQ!RecentCapacity) \in TwoQ!ListOf(Nodes)
      /\ TwoQ!Exact(TwoQ!Stacked(TwoQ!RecentCapacity))
      /\ TwoQ!Members(TwoQ!Stacked(TwoQ!RecentCapacity)) = Nodes
  BY <1>1, TwoQ!StackedEffect DEF Nodes
<1>3. /\ e.map = [k \in {} |-> [value |-> TwoQ!Void, node |-> 0]]
      /\ e.key = [n \in Nodes |-> SENTINEL]
      /\ e.list = TwoQ!Stacked(TwoQ!RecentCapacity)
      /\ e = [map |-> e.map, key |-> e.key, list |-> e.list]
  BY DEF TwoQ!EmptyPool, Nodes
<1> HIDE DEF e
<1>4. DOMAIN e.map = {} /\ e.map \in [DOMAIN e.map -> [value : {TwoQ!Void}, node : Nodes]]
  BY <1>3
<1>5. e.list.size >= Len(e.list.nodes)
  BY <1>2, <1>3, TwoQ!MembersOfList DEF TwoQ!Exact
<1>6. TwoQ!PoolConsistent(e)
  BY <1>2, <1>3, <1>4, <1>5 DEF TwoQ!PoolConsistent, TwoQ!Exact
<1> QED
  BY <1>2, <1>3, <1>4, <1>6 DEF PoolKept, e

(* An eviction remembers a page, under the number the frame keeps of it;   *)
(* no other step changes the pool.                                         *)
LEMMA TwoQRemembered ==
    ASSUME SENTINEL \notin Pages, TwoQFrames, PoolKept(recent_pool),
           NEW p \in Pages, NEW victim \in TwoQ!Frames, NEW cold, NEW hot, state[victim] # "FREE",
           TwoQ!EvictAndPlace(p, victim, cold, hot)
    PROVE  PoolKept(recent_pool')
<1> DEFINE k == meta_page_id[victim]
<1>1. /\ TwoQ!WithRecency => TwoQ!InsertAsserts(recent_pool, k)
      /\ recent_pool' = TwoQ!Remember(k)
  BY DEF TwoQ!EvictAndPlace, TwoQ!Place
<1>2. k \in Pages
  BY TwoQUsed
<1> HIDE DEF k
<1>3. CASE ~TwoQ!WithRecency
  BY <1>1, <1>3 DEF TwoQ!Remember
<1>4. CASE TwoQ!WithRecency /\ TwoQ!Remembers(recent_pool, k)
  BY <1>1, <1>4, RefreshedKept DEF TwoQ!Remember, TwoQ!Insert, TwoQ!Remembers
<1>5. CASE TwoQ!WithRecency /\ ~TwoQ!Remembers(recent_pool, k)
  BY <1>1, <1>2, <1>5, ReplacedKept DEF TwoQ!Remember, TwoQ!Insert, TwoQ!Remembers, TwoQ!InsertAsserts
<1> QED
  BY <1>3, <1>4, <1>5

(* Every action of the policy keeps its RecencyPool.                       *)
LEMMA TwoQPoolNext ==
    ASSUME SENTINEL \notin Pages, TwoQFrames, PoolKept(recent_pool), TwoQ!Next
    PROVE  PoolKept(recent_pool')
<1> USE SizesAssumption
<1>1. PICK p \in Pages : TwoQ!GetPage(p)
  BY DEF TwoQ!Next
<1>2. CASE TwoQ!MissFree(p)
  BY <1>2 DEF TwoQ!MissFree, TwoQ!Place
<1>3. CASE TwoQ!MissEvictCold(p)
  <2>1. /\ TwoQ!CanPop(cold_list)
        /\ TwoQ!EvictAndPlace(p, TwoQ!Back(cold_list), TwoQ!PopBack(cold_list), hot_list)
    BY <1>3 DEF TwoQ!MissEvictCold
  <2>2. TwoQ!Back(cold_list) \in TwoQ!Frames /\ state[TwoQ!Back(cold_list)] = "COLD"
    BY <2>1, TwoQListsHold, TwoQ!PopBackExact
  <2> QED
    BY <2>1, <2>2, TwoQRemembered
<1>4. CASE TwoQ!MissEvictHot(p)
  <2>1. /\ TwoQ!CanPop(hot_list)
        /\ TwoQ!EvictAndPlace(p, TwoQ!Back(hot_list), cold_list, TwoQ!PopBack(hot_list))
    BY <1>4 DEF TwoQ!MissEvictHot
  <2>2. TwoQ!Back(hot_list) \in TwoQ!Frames /\ state[TwoQ!Back(hot_list)] = "HOT"
    BY <2>1, TwoQListsHold, TwoQ!PopBackExact
  <2> QED
    BY <2>1, <2>2, TwoQRemembered
<1>5. CASE TwoQ!HitHot(p) \/ TwoQ!HitCold(p)
  BY <1>5 DEF TwoQ!HitHot, TwoQ!HitCold
<1> QED
  BY <1>1, <1>2, <1>3, <1>4, <1>5 DEF TwoQ!GetPage

(* What the actions keep is what the run checks.                           *)
LEMMA TwoQConsistent ==
    TwoQFrames /\ PoolKept(recent_pool) => TwoQ!Consistent
BY TwoQSamePool
DEF TwoQFrames, PoolKept, TwoQ!Consistent, TwoQ!TypeOK, TwoQ!ListOf, TwoQPool!IInv, TwoQPool!TypeOK

-----------------------------------------------------------------------------
(* The share of the cold queue.  Until the first eviction nothing is       *)
(* remembered, so that every page is cold; from then on pick_victim takes  *)
(* a cold page only while there are more than the share.  The condition    *)
(* on the counter is the code's, that on the elements is ColdShareKept.    *)
ColdShare ==
    TwoQ!WithRecency =>
        IF TwoQ!IsEmpty(free_list)
        THEN cold_list.size >= TwoQ!ColdThres
        ELSE DOMAIN recent_pool.map = {} /\ TwoQ!Members(hot_list) = {}

(* The share holds while no frame is in use.                               *)
LEMMA ColdShareInit == TwoQ!Init => ColdShare
<1> SUFFICES ASSUME TwoQ!Init PROVE ColdShare
  OBVIOUS
<1>1. DOMAIN recent_pool.map = {}
  BY DEF TwoQ!Init, TwoQ!EmptyPool
<1>2. TwoQ!Members(hot_list) = {}
  BY SizesAssumption, TwoQ!EmptyListEffect DEF TwoQ!Init
<1>3. ~TwoQ!IsEmpty(free_list)
  BY SizesAssumption DEF TwoQ!Init, TwoQ!IsEmpty, TwoQ!Stacked
<1> QED
  BY <1>1, <1>2, <1>3 DEF ColdShare

(* With all frames used and none hot, all frames are cold. *)
LEMMA AllCold ==
    TwoQFrames /\ TwoQ!IsEmpty(free_list) /\ TwoQ!Members(hot_list) = {} => cold_list.size = Many
<1> SUFFICES ASSUME TwoQFrames, TwoQ!IsEmpty(free_list), TwoQ!Members(hot_list) = {}
             PROVE  cold_list.size = Many
  OBVIOUS
<1> USE SizesAssumption
<1>1. TwoQ!Members(free_list) = {}
  BY TwoQListsHold, TwoQ!EmptyExact
<1>2. TwoQ!Members(cold_list) = TwoQ!Frames
  <2>1. \A f \in TwoQ!Frames : state[f] \in {"FREE", "COLD", "HOT"}
    BY DEF TwoQFrames
  <2> QED
    BY <2>1, <1>1, TwoQListsHold
<1>3. TwoQ!Cardinality(TwoQ!Members(cold_list)) = Len(cold_list.nodes)
  BY TwoQListsHold, TwoQ!LengthIsCount DEF TwoQ!Exact
<1>4. Cardinality(1..Many) = Many
  BY FS_Interval
<1>5. TwoQ!Cardinality(TwoQ!Members(cold_list)) = Cardinality(1..Many)
  BY <1>2 DEF TwoQ!Frames, TwoQ!Cardinality, Cardinality
<1> QED
  BY <1>3, <1>4, <1>5, TwoQListsHold DEF TwoQ!Exact

(* While there are free frames nothing was evicted: the hot list is filled *)
(* by pages that were seen before only.                                    *)
LEMMA ColdShareMissFree ==
    ASSUME TwoQFrames, ColdShare, NEW p \in Pages, TwoQ!MissFree(p)
    PROVE  ColdShare'
<1> USE SizesAssumption
<1>1. /\ ~TwoQ!IsEmpty(free_list) /\ TwoQFrames'
      /\ TwoQ!Place(p, TwoQ!Back(free_list), cold_list, hot_list, recent_pool)
  BY TwoQMissFree DEF TwoQ!MissFree
<1>2. SUFFICES ASSUME TwoQ!WithRecency PROVE ColdShare'
  BY <1>1 DEF ColdShare, TwoQ!WithRecency, TwoQ!Place
<1>3. DOMAIN recent_pool.map = {} /\ TwoQ!Members(hot_list) = {}
  BY <1>1, <1>2 DEF ColdShare
<1>4. recent_pool' = recent_pool /\ hot_list' = hot_list
  BY <1>1, <1>3 DEF TwoQ!Place, TwoQ!Remembers
<1>5. (TwoQ!Members(hot_list) = {})'
  BY <1>3, <1>4
<1>6. CASE TwoQ!IsEmpty(free_list)'
  <2>1. (cold_list.size = Many)'
    BY <1>1, <1>5, <1>6, AllCold, PTL
  <2>2. Many >= TwoQ!ColdThres
    BY DEF TwoQ!ColdThres
  <2> QED
    BY <2>1, <2>2, <1>6 DEF ColdShare
<1>7. CASE ~TwoQ!IsEmpty(free_list)'
  BY <1>3, <1>4, <1>5, <1>7 DEF ColdShare
<1> QED
  BY <1>6, <1>7

(* After an eviction no frame is free again, and the lists are those       *)
(* pick_victim left, one of them with the frame in front.                  *)
LEMMA EvictedLists ==
    ASSUME TwoQFrames, NEW p \in Pages, NEW victim \in TwoQ!Frames, NEW cold, NEW hot,
           TwoQ!IsEmpty(free_list), TwoQ!EvictAndPlace(p, victim, cold, hot), cold.size \in Nat
    PROVE  TwoQ!IsEmpty(free_list)' /\ cold_list'.size >= cold.size /\ store' = store
<1> USE SizesAssumption
<1> DEFINE filled == TwoQ!PushFront(free_list, victim)
           pool == TwoQ!Remember(meta_page_id[victim])
<1>1. /\ free_list' = TwoQ!PopBack(filled)
      /\ TwoQ!Place(p, TwoQ!Back(filled), cold, hot, pool)
  BY DEF TwoQ!EvictAndPlace
<1>2. free_list.size = 0
  BY DEF TwoQ!IsEmpty
<1>3. TwoQ!IsEmpty(free_list)'
  BY <1>1, <1>2 DEF TwoQ!IsEmpty, TwoQ!PopBack, TwoQ!PushFront
<1> HIDE DEF filled, pool
<1>4. cold_list' = cold \/ cold_list' = TwoQ!PushFront(cold, TwoQ!Back(filled))
  BY <1>1 DEF TwoQ!Place
<1> QED
  BY <1>1, <1>3, <1>4 DEF TwoQ!PushFront, TwoQ!Place

(* Every action keeps the share of the cold list.                          *)
LEMMA ColdShareNext ==
    ASSUME TwoQFrames, ColdShare, TwoQ!Next
    PROVE  ColdShare'
<1> USE SizesAssumption
<1>1. PICK p \in Pages : TwoQ!GetPage(p)
  BY DEF TwoQ!Next
<1>2. TwoQ!ColdThres \in Nat /\ cold_list.size \in Nat
  BY DEF TwoQ!ColdThres, TwoQFrames, TwoQ!ListOf
<1>3. CASE TwoQ!MissFree(p)
  BY <1>3, ColdShareMissFree
<1>4. CASE TwoQ!MissEvictCold(p)
  <2>1. /\ TwoQ!IsEmpty(free_list) /\ TwoQ!CanPop(cold_list)
        /\ cold_list.size > TwoQ!ColdThres
        /\ TwoQ!EvictAndPlace(p, TwoQ!Back(cold_list), TwoQ!PopBack(cold_list), hot_list)
    BY <1>4 DEF TwoQ!MissEvictCold, TwoQ!PicksCold
  <2>2. TwoQ!Back(cold_list) \in TwoQ!Frames
    BY <2>1, TwoQListsHold, TwoQ!PopBackExact
  <2>3. TwoQ!PopBack(cold_list).size = cold_list.size - 1
    BY DEF TwoQ!PopBack
  <2>4. TwoQ!PopBack(cold_list).size \in Nat /\ TwoQ!PopBack(cold_list).size >= TwoQ!ColdThres
    BY <2>1, <2>3, <1>2
  <2>5. TwoQ!IsEmpty(free_list)' /\ cold_list'.size >= TwoQ!PopBack(cold_list).size /\ store' = store
    BY <2>1, <2>2, <2>4, EvictedLists
  <2>6. TwoQFrames'
    BY <1>4, TwoQMissEvictCold
  <2>7. cold_list'.size \in Nat
    BY <2>6 DEF TwoQFrames, TwoQ!ListOf
  <2> QED
    BY <2>4, <2>5, <2>7, <1>2 DEF ColdShare
<1>5. CASE TwoQ!MissEvictHot(p)
  <2>1. /\ TwoQ!IsEmpty(free_list) /\ TwoQ!CanPop(hot_list)
        /\ TwoQ!EvictAndPlace(p, TwoQ!Back(hot_list), cold_list, TwoQ!PopBack(hot_list))
    BY <1>5 DEF TwoQ!MissEvictHot
  <2>2. TwoQ!Back(hot_list) \in TwoQ!Frames
    BY <2>1, TwoQListsHold, TwoQ!PopBackExact
  <2>3. TwoQ!IsEmpty(free_list)' /\ cold_list'.size >= cold_list.size /\ store' = store
    BY <2>1, <2>2, <1>2, EvictedLists
  <2>4. TwoQFrames'
    BY <1>5, TwoQMissEvictHot
  <2>5. cold_list'.size \in Nat
    BY <2>4 DEF TwoQFrames, TwoQ!ListOf
  <2> QED
    BY <2>1, <2>3, <2>5, <1>2 DEF ColdShare, TwoQ!WithRecency
<1>6. CASE TwoQ!HitHot(p)
  <2>1. UNCHANGED <<free_list, cold_list, state, recent_pool, store>>
    BY <1>6 DEF TwoQ!HitHot
  <2>2. TwoQFrames'
    BY <1>6, TwoQHitHot
  <2>3. TwoQ!Members(hot_list)' = TwoQ!Members(hot_list)
    BY <2>1, <2>2 DEF TwoQFrames, TwoQ!ListsMatchStates, TwoQ!Frames
  <2> QED
    BY <2>1, <2>3 DEF ColdShare, TwoQ!WithRecency, TwoQ!IsEmpty
<1>7. CASE TwoQ!HitCold(p)
  BY <1>7 DEF TwoQ!HitCold, ColdShare, TwoQ!WithRecency, TwoQ!IsEmpty, TwoQ!Members
<1> QED
  BY <1>1, <1>3, <1>4, <1>5, <1>6, <1>7 DEF TwoQ!GetPage

(* The share that the actions keep gives the one the run checks.           *)
LEMMA ColdShareIsKept ==
    ASSUME TwoQFrames, ColdShare PROVE TwoQ!ColdShareKept
BY TwoQListsHold DEF ColdShare, TwoQ!ColdShareKept, TwoQ!Exact

-----------------------------------------------------------------------------
(* The ghosts of 2Q, the keys of the recency pool in their order.          *)

(* The nodes in use come first in the list, as many as there are keys.     *)
InUseFirst(pool) ==
    /\ IsFiniteSet(DOMAIN pool.map)
    /\ \A i \in 1..Len(pool.list.nodes) :
          pool.key[pool.list.nodes[i]] # SENTINEL <=> i <= Cardinality(DOMAIN pool.map)

(* The pool of the policy: without a recency store it stays empty.         *)
GhostsKept(pool) ==
    /\ PoolKept(pool) /\ InUseFirst(pool)
    /\ ~TwoQ!WithRecency => DOMAIN pool.map = {}

Slots(pool) == TwoQ!Labels(pool.list, pool.key)

(* The keys in the nodes, in the order of the list. *)
LEMMA SlotsTyped ==
    ASSUME NEW pool, pool.list \in TwoQ!ListOf(Nodes),
           \A x \in Nodes : pool.key[x] \in Pages \cup {SENTINEL}
    PROVE  /\ Slots(pool) \in Seq(Pages \cup {SENTINEL})
           /\ Len(Slots(pool)) = Len(pool.list.nodes)
           /\ \A i \in 1..Len(pool.list.nodes) : Slots(pool)[i] = pool.key[pool.list.nodes[i]]
<1> DEFINE l == pool.list
           f == pool.key
           T == Pages \cup {SENTINEL}
<1>1. l \in TwoQ!ListOf(Nodes) /\ \A x \in Nodes : f[x] \in T
  OBVIOUS
<1> HIDE DEF l, f, T
<1>2. /\ TwoQ!Labels(l, f) \in Seq(T)
      /\ Len(TwoQ!Labels(l, f)) = Len(l.nodes)
      /\ \A i \in 1..Len(l.nodes) : TwoQ!Labels(l, f)[i] = f[l.nodes[i]]
  BY <1>1, SizesAssumption, TwoQ!LabelsTyped
<1> QED
  BY <1>2 DEF Slots, l, f, T

(* The keys of a pool: each key of the map once, and never more than fit.  *)
LEMMA KeysAre ==
    ASSUME SENTINEL \notin Pages, NEW pool, PoolKept(pool), InUseFirst(pool)
    PROVE  LET n == Cardinality(DOMAIN pool.map)
               s == Slots(pool)
               depth == TwoQ!RecentCapacity
           IN  /\ n \in 0..depth /\ depth \in Nat \ {0}
               /\ s \in Seq(Pages \cup {SENTINEL}) /\ Len(s) = depth
               /\ \A i \in 1..depth : /\ s[i] # SENTINEL <=> i <= n
                                      /\ s[i] = pool.key[pool.list.nodes[i]]
                                      /\ pool.list.nodes[i] \in Nodes
               /\ TwoQ!Keys(pool) \in Seq(Pages \cup {SENTINEL}) /\ Len(TwoQ!Keys(pool)) = n
               /\ \A i \in 1..n : TwoQ!Keys(pool)[i] = s[i]
               /\ \A i, j \in 1..n : TwoQ!Keys(pool)[i] = TwoQ!Keys(pool)[j] => i = j
               /\ \A k : k \in DOMAIN pool.map <=> \E i \in 1..n : s[i] = k
<1> USE SizesAssumption
<1> DEFINE n == Cardinality(DOMAIN pool.map)
           s == Slots(pool)
           depth == TwoQ!RecentCapacity
           nodes == pool.list.nodes
<1>1. depth \in Nat \ {0} /\ Nodes = 1..depth
  BY DEF TwoQ!RecentCapacity, Nodes
<1>2. /\ \A k \in DOMAIN pool.map : pool.map[k].node \in Nodes /\ pool.key[pool.map[k].node] = k
      /\ \A x \in Nodes : pool.key[x] # SENTINEL =>
            pool.key[x] \in DOMAIN pool.map /\ pool.map[pool.key[x]].node = x
      /\ TwoQ!IsInjective(nodes) /\ TwoQ!Members(pool.list) = Nodes
      /\ pool.list \in TwoQ!ListOf(Nodes)
      /\ \A x \in Nodes : pool.key[x] \in Pages \cup {SENTINEL}
      /\ DOMAIN pool.map \subseteq Pages
  BY PoolUnfolded DEF PoolKept
<1> HIDE DEF depth
<1>3. Len(nodes) = depth /\ DOMAIN nodes = 1..depth
  <2>1. TwoQ!Cardinality(Nodes) = Len(nodes)
    BY <1>2, TwoQ!LengthIsCount
  <2>2. Cardinality(1..depth) = depth
    BY <1>1, FS_Interval
  <2>3. Len(nodes) = depth
    BY <2>1, <2>2, <1>1 DEF TwoQ!Cardinality, Cardinality
  <2> QED
    BY <2>3, <1>2, TwoQ!MembersOfList
<1>4. s \in Seq(Pages \cup {SENTINEL}) /\ Len(s) = depth /\ \A i \in 1..depth : s[i] = pool.key[nodes[i]]
  <2>1. /\ Slots(pool) \in Seq(Pages \cup {SENTINEL}) /\ Len(Slots(pool)) = Len(pool.list.nodes)
        /\ \A i \in 1..Len(pool.list.nodes) : Slots(pool)[i] = pool.key[pool.list.nodes[i]]
    BY <1>2, SlotsTyped
  <2> QED
    BY <1>3, <2>1
<1>5. /\ \A i \in 1..depth : nodes[i] \in Nodes
      /\ \A x \in Nodes : \E i \in 1..depth : nodes[i] = x
  BY <1>2, <1>3, TwoQ!MembersOfList
<1>6. \A i \in 1..depth : s[i] # SENTINEL <=> i <= n
  BY <1>3, <1>4 DEF InUseFirst
<1>7. n \in Nat
  BY FS_CardinalityType DEF InUseFirst
<1> HIDE DEF n, s, nodes
<1>8. ASSUME NEW k \in DOMAIN pool.map PROVE \E i \in 1..depth : i <= n /\ s[i] = k
  <2>1. PICK i \in 1..depth : nodes[i] = pool.map[k].node
    BY <1>2, <1>5
  <2>2. s[i] = k /\ k \in Pages
    BY <2>1, <1>2, <1>4
  <2> QED
    BY <2>2, <1>6
<1>9. \A i \in 1..depth : i <= n => s[i] \in DOMAIN pool.map /\ pool.map[s[i]].node = nodes[i]
  BY <1>2, <1>4, <1>5, <1>6
<1>10. n <= depth
  <2> DEFINE f == [i \in {j \in 1..depth : j <= n} |-> s[i]]
  <2> SUFFICES ASSUME depth < n PROVE FALSE
    BY <1>1, <1>7
  <2>1. {j \in 1..depth : j <= n} = 1..depth
    BY <1>1, <1>7
  <2>2. DOMAIN pool.map = {s[i] : i \in 1..depth}
    BY <1>8, <1>9, <2>1
  <2>3. IsFiniteSet(1..depth) /\ Cardinality(1..depth) = depth
    BY <1>1, FS_Interval
  <2>4. Cardinality({s[i] : i \in 1..depth}) <= depth
    <3> DEFINE g == [i \in 1..depth |-> s[i]]
    <3>1. g \in Surjection(1..depth, {s[i] : i \in 1..depth})
      BY DEF Surjection
    <3> QED
      BY <2>3, <3>1, FS_Surjection
  <2> QED
    BY <2>2, <2>4, <1>1, <1>7 DEF n
<1>11. /\ TwoQ!Keys(pool) \in Seq(Pages \cup {SENTINEL}) /\ Len(TwoQ!Keys(pool)) = n
       /\ \A i \in 1..n : TwoQ!Keys(pool)[i] = s[i]
  <2>1. TwoQ!Keys(pool) = SubSeq(s, 1, n)
    BY DEF TwoQ!Keys, TwoQ!Cardinality, Cardinality, n, s, Slots
  <2> QED
    BY <2>1, <1>4, <1>7, <1>10, <1>1
<1>12. 1..n \subseteq 1..depth /\ \A i \in 1..n : i <= n
  BY <1>1, <1>7, <1>10
<1>13. ASSUME NEW i \in 1..n, NEW j \in 1..n, s[i] = s[j] PROVE i = j
  <2>1. nodes[i] = nodes[j]
    BY <1>9, <1>12, <1>13
  <2> QED
    BY <2>1, <1>2, <1>3, <1>12 DEF TwoQ!IsInjective
<1>14. \A k : k \in DOMAIN pool.map <=> \E i \in 1..n : s[i] = k
  BY <1>1, <1>7, <1>8, <1>9, <1>12
<1>15. n \in 0..depth
  BY <1>1, <1>7, <1>10
<1> QED
  BY <1>1, <1>4, <1>5, <1>6, <1>11, <1>13, <1>14, <1>15 DEF n, s, depth, nodes

(* Taking the element at k out of a sequence that holds it once.           *)
LEMMA WithoutIs ==
    ASSUME NEW T, NEW s \in Seq(T), NEW k \in 1..Len(s),
           \A i, j \in 1..Len(s) : s[i] = s[j] => i = j
    PROVE  TwoQ!Queues!Stack!Without(s, s[k]) = TwoQ!RemoveAt(s, k)
<1>1. s[k] \in TwoQ!Queues!Stack!Range(s) /\ DOMAIN s = 1..Len(s)
  BY DEF TwoQ!Queues!Stack!Range
<1>2. (CHOOSE i \in DOMAIN s : s[i] = s[k]) = k
  BY <1>1
<1> QED
  BY <1>1, <1>2 DEF TwoQ!Queues!Stack!Without, TwoQ!RemoveAt

(* The ghosts after an item that is none of them was added in front: the   *)
(* last one leaves when they are as many as fit.                           *)
LEMMA GhostAdded ==
    ASSUME NEW T, NEW s \in Seq(T), NEW x \in T, \A i \in 1..Len(s) : s[i] # x,
           NEW d \in Nat \ {0}, d = TwoQ!RecentCapacity, Len(s) <= d
    PROVE  LET r == TwoQ!Queues!Stack!Raised(s, x)
               n == IF Len(s) = d THEN d ELSE Len(s) + 1
           IN  r \in Seq(T) /\ Len(r) = n /\ \A i \in 1..n : r[i] = IF i = 1 THEN x ELSE s[i - 1]
<1> DEFINE t == <<x>> \o s
           r == TwoQ!Queues!Stack!Raised(s, x)
<1>1. x \notin TwoQ!Queues!Stack!Range(s)
  BY DEF TwoQ!Queues!Stack!Range
<1>2. t \in Seq(T) /\ Len(t) = Len(s) + 1 /\ Len(s) \in Nat
      /\ \A i \in 1..Len(t) : t[i] = IF i = 1 THEN x ELSE s[i - 1]
  OBVIOUS
<1>3. r = SubSeq(t, 1, IF Len(t) > d THEN d ELSE Len(t))
  BY <1>1 DEF TwoQ!Queues!Stack!Raised, TwoQ!Queues!Stack!Without
<1> HIDE DEF t, r
<1>4. r = SubSeq(t, 1, IF Len(s) = d THEN d ELSE Len(s) + 1)
  BY <1>2, <1>3
<1>5. CASE Len(s) = d
  <2>1. r = SubSeq(t, 1, d)
    BY <1>4, <1>5
  <2>2. r \in Seq(T) /\ Len(r) = d /\ \A i \in 1..d : r[i] = t[i]
    BY <2>1, <1>2, <1>5
  <2> QED
    BY <2>2, <1>2, <1>5 DEF r
<1>6. CASE Len(s) < d
  <2>1. r = SubSeq(t, 1, Len(t))
    BY <1>2, <1>4, <1>6
  <2>2. r = t
    BY <2>1, <1>2, SubSeqFull
  <2> QED
    BY <2>2, <1>2, <1>6 DEF r
<1> QED
  BY <1>2, <1>5, <1>6

(* The ghosts after one of them was raised to the front.                   *)
LEMMA GhostRaised ==
    ASSUME NEW T, NEW s \in Seq(T), NEW k \in 1..Len(s), Len(s) <= TwoQ!RecentCapacity,
           \A i, j \in 1..Len(s) : s[i] = s[j] => i = j
    PROVE  LET r == TwoQ!Queues!Stack!Raised(s, s[k])
           IN  /\ r \in Seq(T) /\ Len(r) = Len(s)
               /\ \A i \in 1..Len(s) :
                     r[i] = IF i = 1 THEN s[k] ELSE IF i <= k THEN s[i - 1] ELSE s[i]
<1> DEFINE u == TwoQ!RemoveAt(s, k)
           t == <<s[k]>> \o u
           r == TwoQ!Queues!Stack!Raised(s, s[k])
<1>1. /\ u \in Seq(T) /\ Len(u) = Len(s) - 1 /\ Len(s) \in Nat
      /\ \A i \in 1..Len(s) - 1 : u[i] = IF i < k THEN s[i] ELSE s[i + 1]
  <2>1. /\ TwoQ!RemoveAt(s, k) \in Seq(T) /\ Len(TwoQ!RemoveAt(s, k)) = Len(s) - 1
        /\ \A i \in 1..Len(s) - 1 :
              TwoQ!RemoveAt(s, k)[i] = IF i < k THEN s[i] ELSE s[i + 1]
    BY ONLY SizesAssumption, s \in Seq(T), k \in 1..Len(s), TwoQ!RemoveAtEffect
  <2>2. Len(s) \in Nat
    OBVIOUS
  <2> QED
    BY <2>1, <2>2
<1>2. TwoQ!Queues!Stack!Without(s, s[k]) = u
  BY WithoutIs
<1> HIDE DEF u
<1>3. /\ t \in Seq(T) /\ Len(t) = Len(s)
      /\ \A i \in 1..Len(s) : t[i] = IF i = 1 THEN s[k] ELSE u[i - 1]
  BY <1>1
<1>4. r = SubSeq(t, 1, IF Len(t) > TwoQ!RecentCapacity THEN TwoQ!RecentCapacity ELSE Len(t))
  BY <1>2 DEF TwoQ!Queues!Stack!Raised
<1> HIDE DEF t, r
<1>5. r = SubSeq(t, 1, Len(t))
  <2>1. TwoQ!RecentCapacity \in Nat
    BY SizesAssumption DEF TwoQ!RecentCapacity
  <2> QED
    BY <2>1, <1>1, <1>3, <1>4
<1>6. r = t
  BY <1>3, <1>5, SubSeqFull
<1>7. \A i \in 1..Len(s) : r[i] = IF i = 1 THEN s[k] ELSE IF i <= k THEN s[i - 1] ELSE s[i]
  <2> TAKE i \in 1..Len(s)
  <2>1. CASE i = 1
    BY <2>1, <1>3, <1>6
  <2>2. CASE i # 1
    <3>1. i - 1 \in 1..Len(s) - 1 /\ (i - 1 < k <=> i <= k) /\ (i - 1) + 1 = i
      BY <2>2, <1>1
    <3>2. u[i - 1] = IF i <= k THEN s[i - 1] ELSE s[i]
      BY <3>1, <1>1
    <3> QED
      BY <3>2, <2>2, <1>3, <1>6
  <2> QED
    BY <2>1, <2>2
<1> QED
  BY <1>3, <1>6, <1>7 DEF r

(* insert of a key that is remembered raises it among the ghosts.          *)
LEMMA RefreshedGhosts ==
    ASSUME SENTINEL \notin Pages,
           NEW pool, PoolKept(pool), InUseFirst(pool), NEW k \in DOMAIN pool.map
    PROVE  LET r == TwoQ!Refreshed(pool, k, TwoQ!Void)
           IN  /\ PoolKept(r) /\ InUseFirst(r)
               /\ TwoQ!Keys(r) = TwoQ!Queues!Stack!Raised(TwoQ!Keys(pool), k)
<1> USE SizesAssumption
<1> DEFINE r == TwoQ!Refreshed(pool, k, TwoQ!Void)
           x == pool.map[k].node
           n == Cardinality(DOMAIN pool.map)
           s == Slots(pool)
           t == Slots(r)
           depth == TwoQ!RecentCapacity
           K == Pages \cup {SENTINEL}
<1>1. /\ PoolKept(r) /\ x \in Nodes /\ r.map = pool.map /\ r.key = pool.key
      /\ r.list = TwoQ!PushFront(TwoQ!Unlink(pool.list, x), x)
  BY RefreshedKept
<1>2. /\ n \in 0..depth /\ depth \in Nat \ {0}
      /\ s \in Seq(K) /\ Len(s) = depth
      /\ \A i \in 1..depth : s[i] # SENTINEL <=> i <= n
      /\ TwoQ!Keys(pool) \in Seq(K) /\ Len(TwoQ!Keys(pool)) = n
      /\ \A i \in 1..n : TwoQ!Keys(pool)[i] = s[i]
      /\ \A i, j \in 1..n : TwoQ!Keys(pool)[i] = TwoQ!Keys(pool)[j] => i = j
  BY KeysAre
<1>3. pool.key[x] = k /\ k \in Pages /\ TwoQ!Members(pool.list) = Nodes
      /\ pool.list \in TwoQ!ListOf(Nodes) /\ TwoQ!IsInjective(pool.list.nodes)
      /\ Len(pool.list.nodes) = depth
  <2>1. Len(pool.list.nodes) = depth
    BY <1>2, KeysAre, SlotsTyped, PoolUnfolded DEF PoolKept
  <2> QED
    BY <2>1, PoolUnfolded DEF PoolKept
<1> HIDE DEF r, x, n, depth, K
<1>4. PICK j \in 1..depth : /\ s[j] = k
                            /\ TwoQ!Labels(TwoQ!Unlink(pool.list, x), pool.key) = TwoQ!RemoveAt(s, j)
  <2>1. x \in TwoQ!Members(pool.list)
    BY <1>1, <1>3
  <2>2. \E j \in 1..Len(pool.list.nodes) :
            /\ TwoQ!Labels(pool.list, pool.key)[j] = pool.key[x]
            /\ TwoQ!Labels(TwoQ!Unlink(pool.list, x), pool.key)
                 = TwoQ!RemoveAt(TwoQ!Labels(pool.list, pool.key), j)
    BY <2>1, <1>3, TwoQ!LabelsUnlink
  <2> QED
    BY <2>2, <1>3 DEF Slots
<1> HIDE DEF s, t
<1>5. t = <<k>> \o TwoQ!RemoveAt(s, j)
  <2> DEFINE u == TwoQ!Unlink(pool.list, x)
  <2>1. u \in TwoQ!ListOf(Nodes) /\ TwoQ!IsInjective(u.nodes) /\ TwoQ!Members(u) = Nodes \ {x}
    BY <1>1, <1>3, TwoQ!UnlinkEffect
  <2> HIDE DEF u
  <2>2. x \in Nodes \ TwoQ!Members(u)
    BY <2>1, <1>1
  <2>3. TwoQ!Labels(TwoQ!PushFront(u, x), pool.key) = <<pool.key[x]>> \o TwoQ!Labels(u, pool.key)
    BY <2>1, <2>2, TwoQ!LabelsPushFront, ZenonT(60)
  <2> QED
    BY <2>3, <1>1, <1>3, <1>4 DEF t, u, Slots
<1>6. /\ TwoQ!RemoveAt(s, j) \in Seq(K) /\ Len(TwoQ!RemoveAt(s, j)) = depth - 1
      /\ \A i \in 1..depth - 1 : TwoQ!RemoveAt(s, j)[i] = IF i < j THEN s[i] ELSE s[i + 1]
  <2>1. s \in Seq(K) /\ j \in 1..Len(s) /\ Len(s) = depth
    BY <1>2
  <2>2. /\ TwoQ!RemoveAt(s, j) \in Seq(K) /\ Len(TwoQ!RemoveAt(s, j)) = Len(s) - 1
        /\ \A i \in 1..Len(s) - 1 : TwoQ!RemoveAt(s, j)[i] = IF i < j THEN s[i] ELSE s[i + 1]
    BY ONLY SizesAssumption, <2>1, TwoQ!RemoveAtEffect
  <2> QED
    BY <2>1, <2>2
<1>7. /\ t \in Seq(K) /\ Len(t) = depth /\ k \in K
      /\ \A i \in 1..depth : t[i] = IF i = 1 THEN k ELSE IF i <= j THEN s[i - 1] ELSE s[i]
  <2> DEFINE u == TwoQ!RemoveAt(s, j)
  <2> HIDE DEF u
  <2>1. k \in K /\ u \in Seq(K) /\ Len(u) = depth - 1 /\ t = <<k>> \o u
    BY <1>3, <1>5, <1>6 DEF u, K
  <2>2. t \in Seq(K) /\ Len(t) = depth /\ \A i \in 1..depth : t[i] = IF i = 1 THEN k ELSE u[i - 1]
    BY <2>1, <1>2
  <2>3. ASSUME NEW i \in 1..depth, i # 1 PROVE t[i] = IF i <= j THEN s[i - 1] ELSE s[i]
    <3>1. i - 1 \in 1..depth - 1 /\ (i - 1 < j <=> i <= j) /\ (i - 1) + 1 = i
      BY <2>3, <1>2
    <3>2. u[i - 1] = IF i <= j THEN s[i - 1] ELSE s[i]
      BY <3>1, <1>6 DEF u
    <3> QED
      BY <3>2, <2>2, <2>3
  <2> QED
    BY <2>1, <2>2, <2>3
<1>8. j <= n /\ n \in Nat /\ 1..n \subseteq 1..depth
  <2>1. s[j] # SENTINEL
    BY <1>3, <1>4
  <2> QED
    BY <2>1, <1>2
<1>9. \A i \in 1..depth : t[i] # SENTINEL <=> i <= n
  <2> TAKE i \in 1..depth
  <2>1. CASE i = 1
    BY <2>1, <1>2, <1>3, <1>7, <1>8
  <2>2. CASE i # 1 /\ i <= j
    <3>1. i - 1 \in 1..depth /\ i - 1 <= n /\ i <= n
      BY <2>2, <1>2, <1>8
    <3> QED
      BY <3>1, <2>2, <1>2, <1>7
  <2>3. CASE i # 1 /\ ~(i <= j)
    BY <2>3, <1>2, <1>7
  <2> QED
    BY <2>1, <2>2, <2>3
<1>10. InUseFirst(r)
  <2>1. /\ \A y \in Nodes : r.key[y] \in K
        /\ r.list \in TwoQ!ListOf(Nodes)
    BY <1>1 DEF PoolKept, K
  <2>2. /\ Len(r.list.nodes) = depth
        /\ \A i \in 1..depth : t[i] = r.key[r.list.nodes[i]]
    BY <2>1, <1>7, SlotsTyped DEF t, K
  <2> QED
    BY <2>2, <1>1, <1>9 DEF InUseFirst, n
<1>11. TwoQ!Keys(r) = TwoQ!Queues!Stack!Raised(TwoQ!Keys(pool), k)
  <2> DEFINE a == TwoQ!Keys(r)
             g == TwoQ!Keys(pool)
             b == TwoQ!Queues!Stack!Raised(g, k)
  <2>1. a \in Seq(K) /\ Len(a) = n /\ \A i \in 1..n : a[i] = t[i]
    BY <1>1, <1>10, KeysAre DEF t, n, K
  <2>2. j \in 1..n /\ g[j] = k
    BY <1>2, <1>4, <1>8
  <2>3. g \in Seq(K) /\ Len(g) = n /\ n <= TwoQ!RecentCapacity
        /\ \A i, m \in 1..Len(g) : g[i] = g[m] => i = m
    BY <1>2 DEF depth
  <2> HIDE DEF a, g
  <2>4. b \in Seq(K) /\ Len(b) = n
        /\ \A i \in 1..n : b[i] = IF i = 1 THEN k ELSE IF i <= j THEN g[i - 1] ELSE g[i]
    <3> DEFINE c == TwoQ!Queues!Stack!Raised(g, g[j])
    <3>1. /\ g \in Seq(K) /\ j \in 1..Len(g) /\ Len(g) <= TwoQ!RecentCapacity
          /\ \A i, m \in 1..Len(g) : g[i] = g[m] => i = m
      BY <2>2, <2>3
    <3>2. /\ c \in Seq(K) /\ Len(c) = Len(g)
          /\ \A i \in 1..Len(g) :
                c[i] = IF i = 1 THEN g[j] ELSE IF i <= j THEN g[i - 1] ELSE g[i]
      BY ONLY SizesAssumption, <3>1, GhostRaised, ZenonT(40)
    <3>3. c = b /\ Len(g) = n /\ g[j] = k
      BY <2>2, <2>3
    <3> QED
      BY <3>2, <3>3
  <2> HIDE DEF b
  <2>5. ASSUME NEW i \in 1..n PROVE a[i] = b[i]
    <3>1. g[i] = s[i] /\ (i # 1 => g[i - 1] = s[i - 1])
      BY <1>2, <1>8 DEF g
    <3> QED
      BY <3>1, <2>1, <2>4, <1>7, <1>8
  <2>6. a = b
    BY <2>1, <2>4, <2>5, SeqEqual
  <2> QED
    BY <2>6 DEF a, b, g
<1> QED
  BY <1>1, <1>10, <1>11 DEF r

(* insert of a new key puts it in front of the ghosts; when all nodes are  *)
(* in use the last ghost leaves.                                           *)
LEMMA ReplacedGhosts ==
    ASSUME SENTINEL \notin Pages,
           NEW pool, PoolKept(pool), InUseFirst(pool), NEW k \in Pages \ DOMAIN pool.map,
           TwoQ!CanPop(pool.list)
    PROVE  LET r == TwoQ!Replaced(pool, k, TwoQ!Void)
           IN  /\ PoolKept(r) /\ InUseFirst(r)
               /\ TwoQ!Keys(r) = TwoQ!Queues!Stack!Raised(TwoQ!Keys(pool), k)
<1> USE SizesAssumption
<1> DEFINE r == TwoQ!Replaced(pool, k, TwoQ!Void)
           x == TwoQ!Back(pool.list)
           rest == TwoQ!PopBack(pool.list)
           n == Cardinality(DOMAIN pool.map)
           new == Cardinality(DOMAIN r.map)
           s == Slots(pool)
           t == Slots(r)
           depth == TwoQ!RecentCapacity
           K == Pages \cup {SENTINEL}
<1>1. /\ PoolKept(r) /\ x \in Nodes
      /\ DOMAIN r.map = (DOMAIN pool.map \ {pool.key[x]}) \cup {k}
      /\ r.key = [pool.key EXCEPT ![x] = k]
      /\ r.list = TwoQ!PushFront(rest, x)
  BY ReplacedKept
<1>2. /\ n \in 0..depth /\ depth \in Nat \ {0}
      /\ s \in Seq(K) /\ Len(s) = depth
      /\ \A i \in 1..depth : /\ s[i] # SENTINEL <=> i <= n
                             /\ s[i] = pool.key[pool.list.nodes[i]]
                             /\ pool.list.nodes[i] \in Nodes
      /\ TwoQ!Keys(pool) \in Seq(K) /\ Len(TwoQ!Keys(pool)) = n
      /\ \A i \in 1..n : TwoQ!Keys(pool)[i] = s[i]
      /\ \A y : y \in DOMAIN pool.map <=> \E i \in 1..n : s[i] = y
  BY KeysAre
<1>3. /\ pool.list \in TwoQ!ListOf(Nodes) /\ TwoQ!IsInjective(pool.list.nodes)
      /\ Len(pool.list.nodes) = depth
      /\ pool.key \in [Nodes -> K]
      /\ IsFiniteSet(DOMAIN pool.map)
  <2>1. Len(pool.list.nodes) = depth
    BY <1>2, KeysAre, SlotsTyped, PoolUnfolded DEF PoolKept
  <2> QED
    BY <2>1, PoolUnfolded DEF PoolKept, InUseFirst
<1>4. /\ rest \in TwoQ!ListOf(Nodes) /\ TwoQ!IsInjective(rest.nodes)
      /\ x = pool.list.nodes[depth] /\ x \notin TwoQ!Members(rest)
      /\ Len(rest.nodes) = depth - 1
      /\ \A i \in 1..depth - 1 : rest.nodes[i] = pool.list.nodes[i]
  BY <1>3, TwoQ!PopBackEffect DEF TwoQ!CanPop
<1>5. /\ Len(r.list.nodes) = depth /\ r.list.nodes[1] = x
      /\ \A i \in 1..depth - 1 : r.list.nodes[i + 1] = rest.nodes[i]
  <2> HIDE DEF r, x, rest, depth
  <2>1. /\ Len(TwoQ!PushFront(rest, x).nodes) = Len(rest.nodes) + 1
        /\ TwoQ!PushFront(rest, x).nodes[1] = x
        /\ \A i \in 1..Len(rest.nodes) : TwoQ!PushFront(rest, x).nodes[i + 1] = rest.nodes[i]
    BY <1>1, <1>4, TwoQ!PushFrontEffect
  <2> QED
    BY <1>1, <1>2, <1>4, <2>1
<1> HIDE DEF r, x, rest, n, new, depth, K, s, t
<1>6. /\ t \in Seq(K) /\ Len(t) = depth
      /\ \A i \in 1..depth : t[i] = r.key[r.list.nodes[i]]
  <2>1. /\ \A y \in Nodes : r.key[y] \in K
        /\ r.list \in TwoQ!ListOf(Nodes)
    BY <1>1 DEF PoolKept, K
  <2> QED
    BY <2>1, <1>5, SlotsTyped DEF t, K
<1>7. \A i \in 1..depth : t[i] = IF i = 1 THEN k ELSE s[i - 1]
  <2> TAKE i \in 1..depth
  <2>1. CASE i = 1
    BY <2>1, <1>1, <1>3, <1>5, <1>6
  <2>2. CASE i # 1
    <3>1. i - 1 \in 1..depth - 1 /\ (i - 1) + 1 = i /\ i - 1 \in 1..depth
          /\ depth \in 1..depth /\ i - 1 # depth
      BY <2>2, <1>2
    <3>2. r.list.nodes[i] = pool.list.nodes[i - 1]
      BY <3>1, <1>4, <1>5
    <3>3. pool.list.nodes[i - 1] # x
      <4>1. DOMAIN pool.list.nodes = 1..depth
        BY <1>3, TwoQ!MembersOfList
      <4> QED
        BY <3>1, <4>1, <1>3, <1>4 DEF TwoQ!IsInjective
    <3>4. pool.list.nodes[i - 1] \in Nodes /\ s[i - 1] = pool.key[pool.list.nodes[i - 1]]
      BY <3>1, <1>2
    <3>5. r.key[pool.list.nodes[i - 1]] = pool.key[pool.list.nodes[i - 1]]
      BY <3>3, <3>4, <1>1, <1>3
    <3> QED
      BY <2>2, <3>2, <3>4, <3>5, <1>6
  <2> QED
    BY <2>1, <2>2
<1>8. /\ IsFiniteSet(DOMAIN r.map)
      /\ new = IF n = depth THEN depth ELSE n + 1
  <2>1. depth \in 1..depth /\ pool.key[x] = s[depth]
    BY <1>2, <1>4
  <2>2. CASE n = depth
    <3>1. pool.key[x] \in DOMAIN pool.map
      BY <2>1, <2>2, <1>2
    <3>2. /\ IsFiniteSet(DOMAIN pool.map \ {pool.key[x]})
          /\ Cardinality(DOMAIN pool.map \ {pool.key[x]}) = n - 1
      BY <3>1, <1>3, FS_RemoveElement DEF n
    <3>3. k \notin DOMAIN pool.map \ {pool.key[x]}
      OBVIOUS
    <3>4. IsFiniteSet(DOMAIN r.map) /\ new = (n - 1) + 1
      BY <3>2, <3>3, <1>1, FS_AddElement DEF new
    <3> QED
      BY <3>4, <2>2, <1>2
  <2>3. CASE n # depth
    <3>1. s[depth] = SENTINEL
      BY <2>1, <2>3, <1>2
    <3>2. DOMAIN pool.map \ {pool.key[x]} = DOMAIN pool.map
      <4>1. SENTINEL \notin DOMAIN pool.map
        BY DEF PoolKept
      <4> QED
        BY <4>1, <2>1, <3>1
    <3>3. IsFiniteSet(DOMAIN r.map) /\ new = n + 1
      BY <3>2, <1>1, <1>3, FS_AddElement DEF n, new
    <3> QED
      BY <3>3, <2>3
  <2> QED
    BY <2>2, <2>3
<1>9. \A i \in 1..depth : t[i] # SENTINEL <=> i <= new
  <2> TAKE i \in 1..depth
  <2>1. CASE i = 1
    <3>1. t[i] # SENTINEL
      BY <2>1, <1>7
    <3> QED
      BY <3>1, <2>1, <1>2, <1>8
  <2>2. CASE i # 1
    <3>1. i - 1 \in 1..depth /\ t[i] = s[i - 1]
      BY <2>2, <1>2, <1>7
    <3>2. t[i] # SENTINEL <=> i - 1 <= n
      BY <3>1, <1>2
    <3> QED
      BY <3>2, <1>2, <1>8
  <2> QED
    BY <2>1, <2>2
<1>10. InUseFirst(r)
  BY <1>5, <1>6, <1>8, <1>9 DEF InUseFirst, new
<1>11. TwoQ!Keys(r) = TwoQ!Queues!Stack!Raised(TwoQ!Keys(pool), k)
  <2> DEFINE a == TwoQ!Keys(r)
             g == TwoQ!Keys(pool)
             b == TwoQ!Queues!Stack!Raised(g, k)
  <2>1. a \in Seq(K) /\ Len(a) = new /\ \A i \in 1..new : a[i] = t[i]
    BY <1>1, <1>10, KeysAre DEF t, new, K
  <2>2. g \in Seq(K) /\ Len(g) = n /\ n <= depth /\ k \in K
        /\ \A i \in 1..Len(g) : g[i] # k
    BY <1>2 DEF K
  <2>3. depth = TwoQ!RecentCapacity
    BY DEF depth
  <2> HIDE DEF a, g
  <2>4. b \in Seq(K) /\ Len(b) = new
        /\ \A i \in 1..new : b[i] = IF i = 1 THEN k ELSE g[i - 1]
    <3>1. /\ b \in Seq(K) /\ Len(b) = (IF Len(g) = depth THEN depth ELSE Len(g) + 1)
          /\ \A i \in 1..(IF Len(g) = depth THEN depth ELSE Len(g) + 1) :
                b[i] = IF i = 1 THEN k ELSE g[i - 1]
      BY <2>2, <2>3, <1>2, GhostAdded
    <3> QED
      BY <3>1, <2>2, <1>8
  <2> HIDE DEF b
  <2>5. ASSUME NEW i \in 1..new PROVE a[i] = b[i]
    <3>1. i \in 1..depth /\ (i # 1 => i - 1 \in 1..n)
      BY <1>2, <1>8
    <3>2. i # 1 => g[i - 1] = s[i - 1]
      BY <3>1, <1>2 DEF g
    <3> QED
      BY <3>1, <3>2, <2>1, <2>4, <1>7
  <2>6. a = b
    BY <2>1, <2>4, <2>5, SeqEqual
  <2> QED
    BY <2>6 DEF a, b, g
<1> QED
  BY <1>1, <1>10, <1>11 DEF r

(* The policy remembers the victim's page as a ghost, where it remembers   *)
(* any.                                                                    *)
LEMMA VictimBecomesGhost ==
    ASSUME SENTINEL \notin Pages, TwoQFrames, GhostsKept(recent_pool),
           NEW p \in Pages, NEW victim \in TwoQ!Frames, NEW cold, NEW hot, state[victim] # "FREE",
           TwoQ!EvictAndPlace(p, victim, cold, hot)
    PROVE  /\ GhostsKept(recent_pool')
           /\ recent_pool' = TwoQ!Remember(meta_page_id[victim])
           /\ TwoQ!Keys(recent_pool') = TwoQ!Queues!AfterEvicting(page_id[victim])
<1> DEFINE k == meta_page_id[victim]
<1>1. /\ TwoQ!WithRecency => TwoQ!InsertAsserts(recent_pool, k)
      /\ recent_pool' = TwoQ!Remember(k)
  BY DEF TwoQ!EvictAndPlace, TwoQ!Place
<1>2. k \in Pages /\ page_id[victim] = k
  BY TwoQUsed
<1> HIDE DEF k
<1>3. CASE ~TwoQ!WithRecency
  BY <1>1, <1>3 DEF TwoQ!Remember, TwoQ!Queues!AfterEvicting, k
<1>4. CASE TwoQ!WithRecency /\ k \in DOMAIN recent_pool.map
  <2>1. recent_pool' = TwoQ!Refreshed(recent_pool, k, TwoQ!Void)
    BY <1>1, <1>4 DEF TwoQ!Remember, TwoQ!Insert, TwoQ!Remembers
  <2>2. /\ PoolKept(recent_pool') /\ InUseFirst(recent_pool')
        /\ TwoQ!Keys(recent_pool') = TwoQ!Queues!Stack!Raised(TwoQ!Keys(recent_pool), k)
    BY <2>1, <1>4, RefreshedGhosts DEF GhostsKept
  <2> QED
    BY <2>2, <1>1, <1>2, <1>4 DEF GhostsKept, TwoQ!Queues!AfterEvicting, k
<1>5. CASE TwoQ!WithRecency /\ k \notin DOMAIN recent_pool.map
  <2>1. recent_pool' = TwoQ!Replaced(recent_pool, k, TwoQ!Void) /\ TwoQ!CanPop(recent_pool.list)
    BY <1>1, <1>5 DEF TwoQ!Remember, TwoQ!Insert, TwoQ!Remembers, TwoQ!InsertAsserts
  <2>2. /\ PoolKept(recent_pool') /\ InUseFirst(recent_pool')
        /\ TwoQ!Keys(recent_pool') = TwoQ!Queues!Stack!Raised(TwoQ!Keys(recent_pool), k)
    BY <2>1, <1>2, <1>5, ReplacedGhosts DEF GhostsKept
  <2> QED
    BY <2>2, <1>1, <1>2, <1>5 DEF GhostsKept, TwoQ!Queues!AfterEvicting, k
<1> QED
  BY <1>3, <1>4, <1>5

-----------------------------------------------------------------------------
(* ARCPolicy.                                                              *)
ARCPool == INSTANCE PoolContractProofs
                WITH Capacity <- Few, used <- ARC!Frames \ ARC!Members(free_list)

(* BufPool below the policy and BufPool below the contract are one.        *)
LEMMA ARCSamePool ==
    /\ ARC!Frames = ARCPool!Frames
    /\ ARC!PoolTypeOK <=> ARCPool!PoolTypeOK
    /\ ARC!PoolInit <=> ARCPool!PoolInit
    /\ \A p, f, V : ARC!Admit(p, f, V) <=> ARCPool!Admit(p, f, V)
    /\ \A p, f : ARC!Found(p, f) <=> ARCPool!Found(p, f)
<1> USE DEF ARC!Frames, ARCPool!Frames, ARC!Resident, ARCPool!Resident
<1>1. ARC!PoolTypeOK <=> ARCPool!PoolTypeOK
  BY DEF ARC!PoolTypeOK, ARCPool!PoolTypeOK
<1>2. ARC!PoolInit <=> ARCPool!PoolInit
  BY DEF ARC!PoolInit, ARCPool!PoolInit
<1>3. ASSUME NEW p, NEW f, NEW V PROVE ARC!Admit(p, f, V) <=> ARCPool!Admit(p, f, V)
  BY DEF ARC!Admit, ARCPool!Admit, ARC!IdsAfterEvict, ARCPool!IdsAfterEvict,
         ARC!PagesAfterEvict, ARCPool!PagesAfterEvict
<1>4. ASSUME NEW p, NEW f PROVE ARC!Found(p, f) <=> ARCPool!Found(p, f)
  BY DEF ARC!Found, ARCPool!Found
<1> QED
  BY <1>1, <1>2, <1>3, <1>4

(* The contract the policy declares and the one proved about are one.      *)
LEMMA ARCSameContract ==
    /\ ARCPool!Init <=> ARC!Contract!Init
    /\ ARCPool!Next <=> ARC!Contract!Next
<1> USE DEF ARCPool!Frames, ARC!Contract!Frames, ARCPool!Resident, ARC!Contract!Resident
<1>1. ARCPool!Init <=> ARC!Contract!Init
  BY DEF ARCPool!Init, ARC!Contract!Init, ARCPool!PoolInit, ARC!Contract!PoolInit
<1>2. ASSUME NEW p, NEW f, NEW V PROVE ARCPool!Admit(p, f, V) <=> ARC!Contract!Admit(p, f, V)
  BY DEF ARCPool!Admit, ARC!Contract!Admit, ARCPool!IdsAfterEvict,
         ARC!Contract!IdsAfterEvict, ARCPool!PagesAfterEvict, ARC!Contract!PagesAfterEvict
<1>3. ASSUME NEW p, NEW f PROVE ARCPool!Found(p, f) <=> ARC!Contract!Found(p, f)
  BY DEF ARCPool!Found, ARC!Contract!Found
<1>4. ASSUME NEW p
      PROVE  /\ ARCPool!MissFree(p) <=> ARC!Contract!MissFree(p)
             /\ ARCPool!MissEvict(p) <=> ARC!Contract!MissEvict(p)
             /\ ARCPool!Hit(p) <=> ARC!Contract!Hit(p)
  BY <1>2, <1>3 DEF ARCPool!MissFree, ARC!Contract!MissFree, ARCPool!MissEvict,
         ARC!Contract!MissEvict, ARCPool!Hit, ARC!Contract!Hit
<1> QED
  BY <1>1, <1>4 DEF ARCPool!Next, ARCPool!GetPage, ARC!Contract!Next, ARC!Contract!GetPage

(* The frames: each on the list its state names, under its own page.       *)
ARCFrames ==
    /\ free_list \in ARC!ListOf(ARC!Frames)
    /\ cold_list \in ARC!ListOf(ARC!Frames)
    /\ hot_list \in ARC!ListOf(ARC!Frames)
    /\ state \in [ARC!Frames -> {"FREE", "COLD", "HOT"}]
    /\ meta_page_id \in [ARC!Frames -> Pages \cup {0}]
    /\ thres \in 0..Few
    /\ ARC!ListsMatchStates
    /\ ARC!PageIdsAgree
    /\ ARCPool!IInv

(* A list with the frames in state s other than res. *)
ARCHolds(list, s, res) ==
    /\ list \in ARC!ListOf(ARC!Frames) /\ ARC!Exact(list)
    /\ \A f \in ARC!Frames : f \in ARC!Members(list) <=> f # res /\ state[f] = s

(* push_cold or push_hot links the frame in the list of its new state.     *)
LEMMA ARCPush ==
    ASSUME NEW p \in Pages, NEW f \in ARC!Frames, NEW to \in {"COLD", "HOT"}, NEW cold, NEW hot,
           state \in [ARC!Frames -> {"FREE", "COLD", "HOT"}],
           meta_page_id \in [ARC!Frames -> Pages \cup {0}],
           ARCHolds(cold, "COLD", f), ARCHolds(hot, "HOT", f), ARCHolds(free_list', "FREE", f),
           ARC!Push(to, p, f, cold, hot)
    PROVE  /\ cold_list' \in ARC!ListOf(ARC!Frames)
           /\ hot_list' \in ARC!ListOf(ARC!Frames)
           /\ free_list' \in ARC!ListOf(ARC!Frames)
           /\ state' \in [ARC!Frames -> {"FREE", "COLD", "HOT"}]
           /\ ARC!ListsMatchStates'
           /\ meta_page_id' \in [ARC!Frames -> Pages \cup {0}]
           /\ meta_page_id'[f] = p
           /\ \A g \in ARC!Frames : g # f => meta_page_id'[g] = meta_page_id[g]
           /\ cold_list'.size = IF to = "COLD" THEN cold.size + 1 ELSE cold.size
           /\ hot_list'.size = IF to = "HOT" THEN hot.size + 1 ELSE hot.size
<1> USE SizesAssumption
<1>1. /\ meta_page_id' = [meta_page_id EXCEPT ![f] = p]
      /\ state' = [state EXCEPT ![f] = to]
      /\ cold_list' = IF to = "COLD" THEN ARC!PushFront(cold, f) ELSE cold
      /\ hot_list' = IF to = "HOT" THEN ARC!PushFront(hot, f) ELSE hot
  BY DEF ARC!Push
<1>2. /\ cold \in ARC!ListOf(ARC!Frames) /\ ARC!Exact(cold)
      /\ hot \in ARC!ListOf(ARC!Frames) /\ ARC!Exact(hot)
      /\ free_list' \in ARC!ListOf(ARC!Frames) /\ ARC!Exact(free_list')
      /\ f \notin ARC!Members(cold) /\ f \notin ARC!Members(hot)
      /\ ARC!Members(free_list') \subseteq ARC!Frames
      /\ ARC!Members(cold) \subseteq ARC!Frames
      /\ ARC!Members(hot) \subseteq ARC!Frames
  BY ARC!MembersOfList DEF ARCHolds
<1>3. /\ meta_page_id' \in [ARC!Frames -> Pages \cup {0}]
      /\ meta_page_id'[f] = p
      /\ \A g \in ARC!Frames : g # f => meta_page_id'[g] = meta_page_id[g]
  BY <1>1
<1>4. /\ state' \in [ARC!Frames -> {"FREE", "COLD", "HOT"}]
      /\ \A g \in ARC!Frames : state'[g] = IF g = f THEN to ELSE state[g]
  BY <1>1
<1>5. CASE to = "COLD"
  <2>1. cold_list' = ARC!PushFront(cold, f) /\ hot_list' = hot
    BY <1>1, <1>5
  <2>2. /\ cold_list' \in ARC!ListOf(ARC!Frames) /\ ARC!Exact(cold_list')
        /\ ARC!Members(cold_list') = ARC!Members(cold) \cup {f}
    BY <2>1, <1>2, ARC!PushFrontExact
  <2>3. ARC!ListsMatchStates'
    BY <2>1, <2>2, <1>2, <1>4, <1>5 DEF ARCHolds, ARC!ListsMatchStates, ARC!Frames
  <2>4. cold_list'.size = cold.size + 1
    BY <2>1 DEF ARC!PushFront
  <2> QED
    BY <2>1, <2>2, <2>3, <2>4, <1>2, <1>3, <1>4, <1>5
<1>6. CASE to = "HOT"
  <2>1. hot_list' = ARC!PushFront(hot, f) /\ cold_list' = cold
    BY <1>1, <1>6
  <2>2. /\ hot_list' \in ARC!ListOf(ARC!Frames) /\ ARC!Exact(hot_list')
        /\ ARC!Members(hot_list') = ARC!Members(hot) \cup {f}
    BY <2>1, <1>2, ARC!PushFrontExact
  <2>3. ARC!ListsMatchStates'
    BY <2>1, <2>2, <1>2, <1>4, <1>6 DEF ARCHolds, ARC!ListsMatchStates, ARC!Frames
  <2>4. hot_list'.size = hot.size + 1
    BY <2>1 DEF ARC!PushFront
  <2> QED
    BY <2>1, <2>2, <2>3, <2>4, <1>2, <1>3, <1>4, <1>6
<1> QED
  BY <1>5, <1>6

(* Where a list is, as ARCHolds says it. *)
LEMMA ARCListsHold ==
    ASSUME ARCFrames
    PROVE  /\ free_list \in ARC!ListOf(ARC!Frames) /\ ARC!Exact(free_list)
           /\ cold_list \in ARC!ListOf(ARC!Frames) /\ ARC!Exact(cold_list)
           /\ hot_list \in ARC!ListOf(ARC!Frames) /\ ARC!Exact(hot_list)
           /\ \A f \in ARC!Frames :
                 /\ f \in ARC!Members(free_list) <=> state[f] = "FREE"
                 /\ f \in ARC!Members(cold_list) <=> state[f] = "COLD"
                 /\ f \in ARC!Members(hot_list) <=> state[f] = "HOT"
           /\ ARC!Members(free_list) \subseteq ARC!Frames
           /\ ARC!Members(cold_list) \subseteq ARC!Frames
           /\ ARC!Members(hot_list) \subseteq ARC!Frames
BY DEF ARCFrames, ARC!ListsMatchStates

(* A used frame knows its page under the number the pool gave it.          *)
LEMMA ARCUsed ==
    ASSUME ARCFrames, NEW f \in ARC!Frames, state[f] # "FREE"
    PROVE  /\ page_id[f] \in Pages /\ meta_page_id[f] = page_id[f]
           /\ page_id[f] \in ARCPool!Resident
<1>1. f \notin ARC!Members(free_list)
  BY ARCListsHold
<1>2. page_id[f] \in ARCPool!Resident /\ lookup_tbl[page_id[f]] = f
  BY <1>1 DEF ARCFrames, ARCPool!IInv, ARCPool!UsedIsMapped
<1> QED
  BY <1>2 DEF ARCFrames, ARC!PageIdsAgree, ARC!Resident, ARCPool!Resident,
              ARCPool!IInv, ARCPool!TypeOK, ARCPool!PoolTypeOK

(* The numbers agree after a miss: the frame filled carries the new page   *)
(* under both, the others keep theirs.                                     *)
LEMMA ARCIdsAgree ==
    ASSUME ARCFrames, NEW p \in Pages, NEW res \in ARC!Frames, NEW V \in SUBSET {res},
           ARCPool!Admit(p, res, V), ARCPool!IInv',
           meta_page_id'[res] = p,
           \A f \in ARC!Frames : f # res => meta_page_id'[f] = meta_page_id[f]
    PROVE  ARC!PageIdsAgree'
<1> USE SizesAssumption
<1>1. /\ ARCPool!Resident' = (ARCPool!Resident \ {page_id[g] : g \in V}) \cup {p}
      /\ lookup_tbl'[p] = res
      /\ \A q \in ARCPool!Resident' : q # p => lookup_tbl'[q] = lookup_tbl[q]
  <2>1. res \in ARCPool!Frames /\ V \in SUBSET ARCPool!Frames
    BY ARCSamePool
  <2> QED
    BY <2>1, ARCPool!AdmitEffect DEF ARCFrames
<1>2. \A q \in ARCPool!Resident' : q = p \/ (q \in ARCPool!Resident /\ lookup_tbl'[q] = lookup_tbl[q])
  BY <1>1
<1>3. ASSUME NEW q \in ARCPool!Resident', q # p
      PROVE  meta_page_id'[lookup_tbl'[q]] = q
  <2>1. /\ lookup_tbl'[q] \in ARC!Frames
        /\ page_id'[lookup_tbl'[q]] = q /\ page_id'[lookup_tbl'[p]] = p
    BY <1>1, ARCSamePool
    DEF ARCPool!IInv, ARCPool!LookupInverse, ARCPool!TypeOK, ARCPool!PoolTypeOK,
        ARCPool!Resident, ARCPool!Frames, ARC!Frames
  <2>2. lookup_tbl'[q] # res
    BY <2>1, <1>1, <1>3
  <2>3. meta_page_id[lookup_tbl[q]] = q
    BY <1>2, <1>3 DEF ARCFrames, ARC!PageIdsAgree, ARC!Resident, ARCPool!Resident
  <2> QED
    BY <2>1, <2>2, <2>3, <1>2, <1>3
<1> QED
  BY <1>1, <1>3 DEF ARC!PageIdsAgree, ARC!Resident, ARCPool!Resident

(* A miss with a free frame: the frame goes from the free list to the cold *)
(* or the hot list.                                                        *)
LEMMA ARCMissFree ==
    ASSUME ARCFrames, NEW p \in Pages, ARC!MissFree(p)
    PROVE  /\ ARCFrames' /\ ARCPool!MissFree(p)
           /\ cold_list'.size = cold_list.size + 1 /\ hot_list'.size = hot_list.size
           /\ free_list'.size = free_list.size - 1
           /\ ARC!Resident' = ARC!Resident \cup {p}
<1> USE SizesAssumption
<1> DEFINE f == ARC!Back(free_list)
<1>1. /\ ARC!CanPop(free_list) /\ ARC!Admit(p, f, {})
      /\ free_list' = ARC!PopBack(free_list)
      /\ ARC!Push("COLD", p, f, cold_list, hot_list)
      /\ thres' = thres
  BY DEF ARC!MissFree
<1>2. /\ free_list' \in ARC!ListOf(ARC!Frames) /\ ARC!Exact(free_list')
      /\ f \in ARC!Frames /\ f \in ARC!Members(free_list)
      /\ ARC!Members(free_list') = ARC!Members(free_list) \ {f}
      /\ free_list'.size = free_list.size - 1
  <2>1. free_list'.size = free_list.size - 1
    BY <1>1 DEF ARC!PopBack
  <2> QED
    BY <2>1, <1>1, ARCListsHold, ARC!PopBackExact
<1> HIDE DEF f
<1>3. ARCHolds(cold_list, "COLD", f) /\ ARCHolds(hot_list, "HOT", f) /\ ARCHolds(free_list', "FREE", f)
  BY <1>2, ARCListsHold DEF ARCHolds
<1>4. /\ cold_list' \in ARC!ListOf(ARC!Frames)
      /\ hot_list' \in ARC!ListOf(ARC!Frames)
      /\ state' \in [ARC!Frames -> {"FREE", "COLD", "HOT"}]
      /\ ARC!ListsMatchStates'
      /\ meta_page_id' \in [ARC!Frames -> Pages \cup {0}]
      /\ meta_page_id'[f] = p
      /\ \A g \in ARC!Frames : g # f => meta_page_id'[g] = meta_page_id[g]
      /\ cold_list'.size = cold_list.size + 1 /\ hot_list'.size = hot_list.size
  BY <1>1, <1>2, <1>3, ARCPush DEF ARCFrames
<1>5. ARCPool!MissFree(p) /\ ARCPool!Admit(p, f, {})
  BY <1>1, <1>2, ARCSamePool DEF ARCPool!MissFree, ARC!Frames
<1>6. ARCPool!IInv'
  BY <1>5, ARCPool!MissFreeIInv DEF ARCFrames
<1>7. ARC!PageIdsAgree'
  BY <1>2, <1>4, <1>5, <1>6, ARCIdsAgree
<1>8. ARC!Resident' = ARC!Resident \cup {p}
  BY <1>1 DEF ARC!Admit, ARC!Resident, ARC!PagesAfterEvict
<1> QED
  BY <1>1, <1>2, <1>4, <1>5, <1>6, <1>7, <1>8 DEF ARCFrames, ARC!Frames

(* A page gives way to the one requested: cold and hot are the lists       *)
(* without the frame freed, which goes to the list of state "to".          *)
LEMMA ARCEvict ==
    ASSUME ARCFrames, NEW p \in Pages, NEW freed \in ARC!Frames, NEW to \in {"COLD", "HOT"},
           NEW cold, NEW hot, ARC!Members(free_list) = {}, free_list' = free_list,
           ARCHolds(cold, "COLD", freed), ARCHolds(hot, "HOT", freed), state[freed] # "FREE",
           ARC!Admit(p, freed, {freed}), ARC!Push(to, p, freed, cold, hot), thres' \in 0..Few
    PROVE  /\ ARCFrames' /\ ARCPool!MissEvict(p)
           /\ cold_list'.size = IF to = "COLD" THEN cold.size + 1 ELSE cold.size
           /\ hot_list'.size = IF to = "HOT" THEN hot.size + 1 ELSE hot.size
           /\ ARC!Resident' = (ARC!Resident \ {page_id[freed]}) \cup {p}
<1> USE SizesAssumption
<1>1. ARCHolds(free_list', "FREE", freed)
  BY ARCListsHold DEF ARCHolds
<1>2. /\ cold_list' \in ARC!ListOf(ARC!Frames)
      /\ hot_list' \in ARC!ListOf(ARC!Frames)
      /\ free_list' \in ARC!ListOf(ARC!Frames)
      /\ state' \in [ARC!Frames -> {"FREE", "COLD", "HOT"}]
      /\ ARC!ListsMatchStates'
      /\ meta_page_id' \in [ARC!Frames -> Pages \cup {0}]
      /\ meta_page_id'[freed] = p
      /\ \A g \in ARC!Frames : g # freed => meta_page_id'[g] = meta_page_id[g]
      /\ cold_list'.size = IF to = "COLD" THEN cold.size + 1 ELSE cold.size
      /\ hot_list'.size = IF to = "HOT" THEN hot.size + 1 ELSE hot.size
  BY <1>1, ARCPush DEF ARCFrames
<1>3. ARCPool!MissEvict(p) /\ ARCPool!Admit(p, freed, {freed})
  BY ARCSamePool DEF ARCPool!MissEvict, ARC!Frames
<1>4. ARCPool!IInv'
  BY <1>3, ARCPool!MissEvictIInv DEF ARCFrames
<1>5. ARC!PageIdsAgree'
  BY <1>2, <1>3, <1>4, ARCIdsAgree
<1>6. ARC!Resident' = (ARC!Resident \ {page_id[freed]}) \cup {p}
  BY DEF ARC!Admit, ARC!Resident, ARC!PagesAfterEvict
<1> QED
  BY <1>2, <1>3, <1>4, <1>5, <1>6 DEF ARCFrames, ARC!Frames

(* A hit moves a frame to the front of the hot list. *)
LEMMA ARCHit ==
    ASSUME ARCFrames, NEW p \in Pages, ARC!Hit(p)
    PROVE  /\ ARCFrames' /\ ARCPool!Hit(p)
           /\ ARC!Resident' = ARC!Resident
           /\ cold_list'.size + hot_list'.size = cold_list.size + hot_list.size
           /\ cold_list'.size <= cold_list.size
           /\ UNCHANGED <<free_list, hist>>
<1> USE SizesAssumption
<1>1. PICK f \in ARC!Frames :
          /\ ARC!Found(p, f) /\ state[f] # "FREE"
          /\ IF state[f] = "COLD"
             THEN /\ cold_list' = ARC!ReleaseCallback(ARC!Unlink(cold_list, f))
                  /\ hot_list' = ARC!PushFront(hot_list, f)
             ELSE /\ hot_list' = ARC!PushFront(ARC!ReleaseCallback(ARC!Unlink(hot_list, f)), f)
                  /\ UNCHANGED cold_list
          /\ state' = [state EXCEPT ![f] = "HOT"]
  BY DEF ARC!Hit
<1>2. UNCHANGED <<free_list, meta_page_id, hist, thres>>
  BY DEF ARC!Hit
<1>3. ARCPool!Hit(p) /\ ARCPool!IInv' /\ lookup_tbl' = lookup_tbl
  <2>1. ARCPool!Found(p, f) /\ f \in ARCPool!Frames
    BY <1>1, ARCSamePool
  <2>2. ARCPool!Hit(p)
    BY <2>1, <1>2 DEF ARCPool!Hit, ARC!Frames, ARC!Members
  <2> QED
    BY <2>2, <1>1, ARCPool!HitIInv DEF ARCFrames, ARC!Found
<1>4. ARC!PageIdsAgree' /\ ARC!Resident' = ARC!Resident
  BY <1>2, <1>3 DEF ARCFrames, ARC!PageIdsAgree, ARC!Resident
<1>5. /\ state' \in [ARC!Frames -> {"FREE", "COLD", "HOT"}]
      /\ \A g \in ARC!Frames : state'[g] = IF g = f THEN "HOT" ELSE state[g]
  BY <1>1 DEF ARCFrames
<1>6. cold_list.size \in Nat /\ hot_list.size \in Nat
  BY DEF ARCFrames, ARC!ListOf
<1>7. CASE state[f] = "COLD"
  <2>1. /\ cold_list' = ARC!ReleaseCallback(ARC!Unlink(cold_list, f))
        /\ hot_list' = ARC!PushFront(hot_list, f)
    BY <1>1, <1>7
  <2>2. f \in ARC!Members(cold_list) /\ f \in ARC!Frames \ ARC!Members(hot_list)
    BY <1>7, ARCListsHold
  <2>3. /\ cold_list' \in ARC!ListOf(ARC!Frames) /\ ARC!Exact(cold_list')
        /\ ARC!Members(cold_list') = ARC!Members(cold_list) \ {f}
    BY <2>1, <2>2, ARCListsHold, ARC!UnlinkExact
  <2>4. /\ hot_list' \in ARC!ListOf(ARC!Frames) /\ ARC!Exact(hot_list')
        /\ ARC!Members(hot_list') = ARC!Members(hot_list) \cup {f}
    BY <2>1, <2>2, ARCListsHold, ARC!PushFrontExact
  <2>5. ARC!ListsMatchStates'
    BY <1>2, <1>5, <1>7, <2>2, <2>3, <2>4, ARCListsHold DEF ARC!ListsMatchStates, ARC!Frames
  <2>6. cold_list'.size = cold_list.size - 1 /\ hot_list'.size = hot_list.size + 1
    BY <2>1 DEF ARC!ReleaseCallback, ARC!Unlink, ARC!PushFront, ARCFrames, ARC!ListOf
  <2>7. /\ cold_list'.size + hot_list'.size = cold_list.size + hot_list.size
        /\ cold_list'.size <= cold_list.size
    BY <2>6, <1>6
  <2>8. ARCFrames'
    BY <1>2, <1>3, <1>4, <1>5, <2>3, <2>4, <2>5 DEF ARCFrames, ARC!Frames
  <2> QED
    BY <1>2, <1>3, <1>4, <2>7, <2>8
<1>8. CASE state[f] # "COLD"
  <2> DEFINE rest == ARC!ReleaseCallback(ARC!Unlink(hot_list, f))
  <2>1. hot_list' = ARC!PushFront(rest, f) /\ cold_list' = cold_list
    BY <1>1, <1>8
  <2>2. state[f] = "HOT" /\ f \in ARC!Members(hot_list)
    BY <1>1, <1>8, ARCListsHold DEF ARCFrames
  <2>3. /\ rest \in ARC!ListOf(ARC!Frames) /\ ARC!Exact(rest)
        /\ ARC!Members(rest) = ARC!Members(hot_list) \ {f}
    BY <2>2, ARCListsHold, ARC!UnlinkExact
  <2>4. rest.size = hot_list.size - 1
    BY DEF ARC!ReleaseCallback, ARC!Unlink, ARCFrames, ARC!ListOf
  <2> HIDE DEF rest
  <2>5. /\ hot_list' \in ARC!ListOf(ARC!Frames) /\ ARC!Exact(hot_list')
        /\ ARC!Members(hot_list') = ARC!Members(rest) \cup {f}
    <3>1. f \in ARC!Frames \ ARC!Members(rest)
      BY <2>3
    <3> QED
      BY <3>1, <2>1, <2>3, ARC!PushFrontExact
  <2>6. ARC!ListsMatchStates'
    BY <1>2, <1>5, <2>1, <2>2, <2>3, <2>5, ARCListsHold DEF ARC!ListsMatchStates, ARC!Frames
  <2>7. hot_list'.size = hot_list.size
    BY <2>1, <2>4, <1>6 DEF ARC!PushFront
  <2> QED
    BY <1>2, <1>3, <1>4, <1>5, <1>6, <2>1, <2>5, <2>6, <2>7, ARCListsHold DEF ARCFrames, ARC!Frames
<1> QED
  BY <1>7, <1>8

(* Every frame is on one of the three lists. *)
LEMMA ARCSizes ==
    ASSUME ARCFrames
    PROVE  /\ free_list.size + cold_list.size + hot_list.size = Few
           /\ free_list.size \in Nat /\ cold_list.size \in Nat /\ hot_list.size \in Nat
           /\ ARC!Members(free_list) = {} <=> free_list.size = 0
<1> USE SizesAssumption
<1> DEFINE F == ARC!Members(free_list)  C == ARC!Members(cold_list)  H == ARC!Members(hot_list)
<1>1. /\ IsFiniteSet(F) /\ Cardinality(F) = free_list.size
      /\ IsFiniteSet(C) /\ Cardinality(C) = cold_list.size
      /\ IsFiniteSet(H) /\ Cardinality(H) = hot_list.size
  BY ARCListsHold, ARC!LengthIsCount
  DEF ARC!Exact, ARC!Cardinality, Cardinality, ARC!IsFiniteSet, IsFiniteSet
<1>2. free_list.size \in Nat /\ cold_list.size \in Nat /\ hot_list.size \in Nat
  BY DEF ARCFrames, ARC!ListOf
<1>3. F \cap C = {} /\ (F \cup C) \cap H = {}
  BY ARCListsHold
<1>4. (F \cup C) \cup H = 1..Few
  <2>1. \A f \in ARC!Frames : state[f] \in {"FREE", "COLD", "HOT"}
    BY DEF ARCFrames
  <2>2. \A f \in ARC!Frames : f \in F \/ f \in C \/ f \in H
    BY <2>1, ARCListsHold
  <2>3. F \subseteq ARC!Frames /\ C \subseteq ARC!Frames /\ H \subseteq ARC!Frames
    BY ARCListsHold
  <2> QED
    BY <2>2, <2>3 DEF ARC!Frames
<1> HIDE DEF F, C, H
<1>5. Cardinality({}) = 0 /\ Cardinality(1..Few) = Few
  BY FS_EmptySet, FS_Interval
<1>6. IsFiniteSet(F \cup C) /\ Cardinality(F \cup C) = Cardinality(F) + Cardinality(C) - Cardinality(F \cap C)
  BY <1>1, FS_Union
<1>7. Cardinality((F \cup C) \cup H)
      = Cardinality(F \cup C) + Cardinality(H) - Cardinality((F \cup C) \cap H)
  BY <1>1, <1>6, FS_Union
<1>8. F = {} <=> free_list.size = 0
  BY <1>1, FS_EmptySet
<1>9. Cardinality(F \cap C) = 0 /\ Cardinality((F \cup C) \cap H) = 0
  BY <1>3, <1>5
<1>10. Cardinality((F \cup C) \cup H) = Few
  BY <1>4, <1>5
<1> QED
  BY <1>1, <1>2, <1>6, <1>7, <1>8, <1>9, <1>10 DEF F

-----------------------------------------------------------------------------
(* The history.  Every node is on one of its lists and the map finds the   *)
(* nodes of the two lists of ghosts, each under its page.                  *)
HistNodes == 1..Few

HistTyped(h) ==
    /\ h = [free |-> h.free, cold |-> h.cold, hot |-> h.hot,
            page |-> h.page, state |-> h.state, map |-> h.map]
    /\ h.free \in ARC!ListOf(HistNodes) /\ ARC!Exact(h.free)
    /\ h.cold \in ARC!ListOf(HistNodes) /\ ARC!Exact(h.cold)
    /\ h.hot \in ARC!ListOf(HistNodes) /\ ARC!Exact(h.hot)
    /\ h.page \in [HistNodes -> Pages \cup {0}]
    /\ h.state \in [HistNodes -> {"FREE", "COLD", "HOT"}]
    /\ h.map \in [DOMAIN h.map -> HistNodes]

HistKept(h) ==
    /\ HistTyped(h)
    /\ \A n \in HistNodes :
          /\ n \in ARC!Members(h.free) <=> n \notin ARC!Members(h.cold) \cup ARC!Members(h.hot)
          /\ n \in ARC!Members(h.cold) => n \notin ARC!Members(h.hot)
          /\ n \in ARC!Members(h.cold) \cup ARC!Members(h.hot) =>
                h.page[n] \in DOMAIN h.map /\ h.map[h.page[n]] = n
          /\ n \in ARC!Members(h.cold) => h.state[n] = "COLD"
          /\ n \in ARC!Members(h.hot) => h.state[n] = "HOT"
    /\ \A p \in DOMAIN h.map :
          /\ h.map[p] \in ARC!Members(h.cold) \cup ARC!Members(h.hot)
          /\ h.page[h.map[p]] = p

(* A ghost is forgotten: its node n joins the free ones, with or without   *)
(* its state reset, and the map loses its page.                            *)
LEMMA HistForgets ==
    ASSUME NEW h, HistKept(h), NEW n \in ARC!Members(h.cold) \cup ARC!Members(h.hot), NEW g, HistTyped(g),
           ARC!Members(g.cold) = ARC!Members(h.cold) \ {n},
           ARC!Members(g.hot) = ARC!Members(h.hot) \ {n},
           ARC!Members(g.free) = ARC!Members(h.free) \cup {n},
           g.page = h.page, \A m \in HistNodes : m # n => g.state[m] = h.state[m],
           g.map = ARC!Erased(h.map, h.page[n])
    PROVE  HistKept(g) /\ DOMAIN g.map = DOMAIN h.map \ {h.page[n]}
<1> USE SizesAssumption
<1>1. /\ DOMAIN g.map = DOMAIN h.map \ {h.page[n]}
      /\ \A p \in DOMAIN g.map : g.map[p] = h.map[p]
  BY DEF ARC!Erased
<1>2. n \in HistNodes /\ h.map[h.page[n]] = n
  <2>1. ARC!Members(h.cold) \subseteq HistNodes /\ ARC!Members(h.hot) \subseteq HistNodes
    BY ARC!MembersOfList DEF HistKept, HistTyped
  <2> QED
    BY <2>1 DEF HistKept
<1>3. ASSUME NEW m \in HistNodes
      PROVE  /\ m \in ARC!Members(g.free) <=> m \notin ARC!Members(g.cold) \cup ARC!Members(g.hot)
             /\ m \in ARC!Members(g.cold) => m \notin ARC!Members(g.hot)
             /\ m \in ARC!Members(g.cold) => g.state[m] = "COLD"
             /\ m \in ARC!Members(g.hot) => g.state[m] = "HOT"
  BY <1>2 DEF HistKept
<1>4. ASSUME NEW m \in HistNodes, m \in ARC!Members(g.cold) \cup ARC!Members(g.hot)
      PROVE  g.page[m] \in DOMAIN g.map /\ g.map[g.page[m]] = m
  <2>1. m # n /\ h.page[m] \in DOMAIN h.map /\ h.map[h.page[m]] = m
    BY <1>4 DEF HistKept
  <2>2. h.page[m] # h.page[n]
    BY <2>1, <1>2
  <2> QED
    BY <2>1, <2>2, <1>1
<1>5. ASSUME NEW p \in DOMAIN g.map
      PROVE  g.map[p] \in ARC!Members(g.cold) \cup ARC!Members(g.hot) /\ g.page[g.map[p]] = p
  <2>1. /\ h.map[p] \in ARC!Members(h.cold) \cup ARC!Members(h.hot)
        /\ h.page[h.map[p]] = p
    BY <1>1 DEF HistKept
  <2>2. h.map[p] # n
    BY <2>1, <1>1
  <2> QED
    BY <2>1, <2>2, <1>1
<1>6. HistKept(g)
  BY <1>3, <1>4, <1>5 DEF HistKept
<1> QED
  BY <1>1, <1>6

(* A page becomes a ghost: a free node n takes its number and joins a      *)
(* list.                                                                   *)
LEMMA HistRecords ==
    ASSUME NEW h, HistKept(h), NEW n \in ARC!Members(h.free), NEW g, HistTyped(g),
           NEW q, q \notin DOMAIN h.map,
           ARC!Members(g.free) = ARC!Members(h.free) \ {n},
           \/ /\ ARC!Members(g.cold) = ARC!Members(h.cold) \cup {n} /\ g.hot = h.hot
              /\ g.state[n] = "COLD"
           \/ /\ ARC!Members(g.hot) = ARC!Members(h.hot) \cup {n} /\ g.cold = h.cold
              /\ g.state[n] = "HOT",
           g.page[n] = q, \A m \in HistNodes : m # n => g.page[m] = h.page[m] /\ g.state[m] = h.state[m],
           g.map = ARC!Emplaced(h.map, q, n)
    PROVE  HistKept(g) /\ DOMAIN g.map = DOMAIN h.map \cup {q}
<1> USE SizesAssumption
<1>1. /\ DOMAIN g.map = DOMAIN h.map \cup {q} /\ g.map[q] = n
      /\ \A p \in DOMAIN h.map : g.map[p] = h.map[p]
  BY DEF ARC!Emplaced
<1>2. n \in HistNodes
  BY ARC!MembersOfList DEF HistKept, HistTyped
<1>3. n \notin ARC!Members(h.cold) \cup ARC!Members(h.hot)
  BY <1>2 DEF HistKept
<1>4. ARC!Members(g.cold) \cup ARC!Members(g.hot) = ARC!Members(h.cold) \cup ARC!Members(h.hot) \cup {n}
  OBVIOUS
<1>5. ASSUME NEW m \in HistNodes
      PROVE  /\ m \in ARC!Members(g.free) <=> m \notin ARC!Members(g.cold) \cup ARC!Members(g.hot)
             /\ m \in ARC!Members(g.cold) => m \notin ARC!Members(g.hot)
             /\ m \in ARC!Members(g.cold) => g.state[m] = "COLD"
             /\ m \in ARC!Members(g.hot) => g.state[m] = "HOT"
  <2>1. /\ m \in ARC!Members(h.free) <=> m \notin ARC!Members(h.cold) \cup ARC!Members(h.hot)
        /\ m \in ARC!Members(h.cold) => m \notin ARC!Members(h.hot) /\ h.state[m] = "COLD"
        /\ m \in ARC!Members(h.hot) => h.state[m] = "HOT"
    BY DEF HistKept
  <2>2. CASE m = n
    BY <2>1, <2>2, <1>3, <1>4
  <2>3. CASE m # n
    BY <2>1, <2>3, <1>3, <1>4
  <2> QED
    BY <2>2, <2>3
<1>6. ASSUME NEW m \in HistNodes, m \in ARC!Members(g.cold) \cup ARC!Members(g.hot)
      PROVE  g.page[m] \in DOMAIN g.map /\ g.map[g.page[m]] = m
  <2>1. CASE m = n
    BY <2>1, <1>1
  <2>2. CASE m # n
    <3>1. m \in ARC!Members(h.cold) \cup ARC!Members(h.hot)
      BY <2>2, <1>4, <1>6
    <3>2. h.page[m] \in DOMAIN h.map /\ h.map[h.page[m]] = m
      BY <3>1 DEF HistKept
    <3> QED
      BY <3>2, <2>2, <1>1
  <2> QED
    BY <2>1, <2>2
<1>7. ASSUME NEW p \in DOMAIN g.map
      PROVE  g.map[p] \in ARC!Members(g.cold) \cup ARC!Members(g.hot) /\ g.page[g.map[p]] = p
  <2>1. CASE p = q
    BY <2>1, <1>1, <1>4
  <2>2. CASE p # q
    <3>1. p \in DOMAIN h.map /\ g.map[p] = h.map[p]
      BY <2>2, <1>1
    <3>2. /\ h.map[p] \in ARC!Members(h.cold) \cup ARC!Members(h.hot)
          /\ h.page[h.map[p]] = p /\ h.map[p] \in HistNodes
      BY <3>1 DEF HistKept, HistTyped
    <3>3. h.map[p] # n
      BY <3>2, <1>3
    <3> QED
      BY <3>1, <3>2, <3>3, <1>4
  <2> QED
    BY <2>1, <2>2
<1>8. HistKept(g)
  BY <1>5, <1>6, <1>7 DEF HistKept
<1> QED
  BY <1>1, <1>8

(* A page seen again leaves the cold history.                              *)
LEMMA ReviveColdKept ==
    ASSUME NEW h, HistKept(h), NEW p, ARC!IsColdGhost(h, p)
    PROVE  LET g == ARC!ReviveCold(h, p)
           IN  /\ HistKept(g) /\ DOMAIN g.map = DOMAIN h.map \ {p}
               /\ g.cold.size = h.cold.size - 1 /\ g.hot.size = h.hot.size
<1> USE SizesAssumption
<1> DEFINE g == ARC!ReviveCold(h, p)
           n == h.map[p]
           l == ARC!ReleaseCallback(ARC!Unlink(h.cold, n))
           f == ARC!PushFront(h.free, n)
<1>1. p \in DOMAIN h.map /\ h.state[n] = "COLD"
  BY DEF ARC!IsColdGhost, ARC!IsGhost
<1>2. h.page[n] = p /\ n \in HistNodes /\ n \in ARC!Members(h.cold) \cup ARC!Members(h.hot)
  BY <1>1 DEF HistKept, HistTyped
<1>3. /\ n \in ARC!Members(h.cold) /\ n \notin ARC!Members(h.hot) /\ n \notin ARC!Members(h.free)
  BY <1>1, <1>2 DEF HistKept
<1>4. g = [free |-> f, cold |-> l, hot |-> h.hot,
           page |-> h.page, state |-> h.state, map |-> ARC!Erased(h.map, p)]
  <2>1. h = [free |-> h.free, cold |-> h.cold, hot |-> h.hot,
             page |-> h.page, state |-> h.state, map |-> h.map]
    BY DEF HistKept, HistTyped
  <2> HIDE DEF l, f
  <2>2. g = [h EXCEPT !.map = ARC!Erased(h.map, p), !.cold = l, !.free = f]
    BY DEF ARC!ReviveCold, l, f
  <2> HIDE DEF g, n
  <2> QED
    BY <2>1, <2>2
<1>5. /\ l \in ARC!ListOf(HistNodes) /\ ARC!Exact(l) /\ ARC!Members(l) = ARC!Members(h.cold) \ {n}
  BY <1>3, ARC!UnlinkExact DEF HistKept, HistTyped
<1>6. l.size = h.cold.size - 1
  BY DEF ARC!ReleaseCallback, ARC!Unlink, HistKept, HistTyped, ARC!ListOf
<1>7. /\ f \in ARC!ListOf(HistNodes) /\ ARC!Exact(f) /\ ARC!Members(f) = ARC!Members(h.free) \cup {n}
  <2>1. n \in HistNodes \ ARC!Members(h.free)
    BY <1>2, <1>3
  <2> QED
    BY <2>1, ARC!PushFrontExact DEF HistKept, HistTyped
<1> HIDE DEF l, f, n, g
<1>8. /\ g.free = f /\ g.cold = l /\ g.hot = h.hot /\ g.page = h.page
      /\ g.state = h.state /\ g.map = ARC!Erased(h.map, p)
      /\ g = [free |-> g.free, cold |-> g.cold, hot |-> g.hot,
              page |-> g.page, state |-> g.state, map |-> g.map]
  BY <1>4
<1>9. g.map \in [DOMAIN g.map -> HistNodes]
  BY <1>8 DEF ARC!Erased, HistKept, HistTyped
<1>10. g.state \in [HistNodes -> {"FREE", "COLD", "HOT"}] /\ \A m \in HistNodes : m # n => g.state[m] = h.state[m]
  BY <1>8, <1>2 DEF HistKept, HistTyped
<1>11. HistTyped(g)
  BY <1>5, <1>7, <1>8, <1>9, <1>10 DEF HistKept, HistTyped
<1>12. ARC!Members(g.hot) = ARC!Members(h.hot) \ {n}
  BY <1>3, <1>8
<1>13. HistKept(g) /\ DOMAIN g.map = DOMAIN h.map \ {p}
  <2>1. g.map = ARC!Erased(h.map, h.page[n])
    BY <1>2, <1>8
  <2>2. /\ ARC!Members(g.cold) = ARC!Members(h.cold) \ {n}
        /\ ARC!Members(g.hot) = ARC!Members(h.hot) \ {n}
        /\ ARC!Members(g.free) = ARC!Members(h.free) \cup {n}
        /\ g.page = h.page /\ \A m \in HistNodes : m # n => g.state[m] = h.state[m]
        /\ n \in ARC!Members(h.cold) \cup ARC!Members(h.hot)
    BY <1>2, <1>5, <1>7, <1>8, <1>10, <1>12
  <2>3. HistKept(g) /\ DOMAIN g.map = DOMAIN h.map \ {h.page[n]}
    BY ONLY HistKept(h), <1>11, <2>1, <2>2, HistForgets
  <2> QED
    BY <2>3, <1>2
<1> QED
  BY <1>6, <1>8, <1>13 DEF g

(* A page seen again leaves the hot history.                               *)
LEMMA ReviveHotKept ==
    ASSUME NEW h, HistKept(h), NEW p, ARC!IsHotGhost(h, p)
    PROVE  LET g == ARC!ReviveHot(h, p)
           IN  /\ HistKept(g) /\ DOMAIN g.map = DOMAIN h.map \ {p}
               /\ g.hot.size = h.hot.size - 1 /\ g.cold.size = h.cold.size
<1> USE SizesAssumption
<1> DEFINE g == ARC!ReviveHot(h, p)
           n == h.map[p]
           l == ARC!ReleaseCallback(ARC!Unlink(h.hot, n))
           f == ARC!PushFront(h.free, n)
<1>1. p \in DOMAIN h.map /\ h.state[n] = "HOT"
  BY DEF ARC!IsHotGhost, ARC!IsGhost
<1>2. h.page[n] = p /\ n \in HistNodes /\ n \in ARC!Members(h.cold) \cup ARC!Members(h.hot)
  BY <1>1 DEF HistKept, HistTyped
<1>3. /\ n \in ARC!Members(h.hot) /\ n \notin ARC!Members(h.cold) /\ n \notin ARC!Members(h.free)
  BY <1>1, <1>2 DEF HistKept
<1>4. g = [free |-> f, cold |-> h.cold, hot |-> l,
           page |-> h.page, state |-> [h.state EXCEPT ![n] = "FREE"], map |-> ARC!Erased(h.map, p)]
  <2>1. h = [free |-> h.free, cold |-> h.cold, hot |-> h.hot,
             page |-> h.page, state |-> h.state, map |-> h.map]
    BY DEF HistKept, HistTyped
  <2> HIDE DEF l, f
  <2>2. g = [h EXCEPT !.map = ARC!Erased(h.map, p), !.hot = l, !.state = [h.state EXCEPT ![n] = "FREE"], !.free = f]
    BY DEF ARC!ReviveHot, l, f
  <2> HIDE DEF g, n
  <2> QED
    BY <2>1, <2>2
<1>5. /\ l \in ARC!ListOf(HistNodes) /\ ARC!Exact(l) /\ ARC!Members(l) = ARC!Members(h.hot) \ {n}
  BY <1>3, ARC!UnlinkExact DEF HistKept, HistTyped
<1>6. l.size = h.hot.size - 1
  BY DEF ARC!ReleaseCallback, ARC!Unlink, HistKept, HistTyped, ARC!ListOf
<1>7. /\ f \in ARC!ListOf(HistNodes) /\ ARC!Exact(f) /\ ARC!Members(f) = ARC!Members(h.free) \cup {n}
  <2>1. n \in HistNodes \ ARC!Members(h.free)
    BY <1>2, <1>3
  <2> QED
    BY <2>1, ARC!PushFrontExact DEF HistKept, HistTyped
<1> HIDE DEF l, f, n, g
<1>8. /\ g.free = f /\ g.hot = l /\ g.cold = h.cold /\ g.page = h.page
      /\ g.state = [h.state EXCEPT ![n] = "FREE"] /\ g.map = ARC!Erased(h.map, p)
      /\ g = [free |-> g.free, cold |-> g.cold, hot |-> g.hot,
              page |-> g.page, state |-> g.state, map |-> g.map]
  BY <1>4
<1>9. g.map \in [DOMAIN g.map -> HistNodes]
  BY <1>8 DEF ARC!Erased, HistKept, HistTyped
<1>10. g.state \in [HistNodes -> {"FREE", "COLD", "HOT"}] /\ \A m \in HistNodes : m # n => g.state[m] = h.state[m]
  BY <1>8, <1>2 DEF HistKept, HistTyped
<1>11. HistTyped(g)
  BY <1>5, <1>7, <1>8, <1>9, <1>10 DEF HistKept, HistTyped
<1>12. ARC!Members(g.cold) = ARC!Members(h.cold) \ {n}
  BY <1>3, <1>8
<1>13. HistKept(g) /\ DOMAIN g.map = DOMAIN h.map \ {p}
  <2>1. g.map = ARC!Erased(h.map, h.page[n])
    BY <1>2, <1>8
  <2>2. /\ ARC!Members(g.hot) = ARC!Members(h.hot) \ {n}
        /\ ARC!Members(g.cold) = ARC!Members(h.cold) \ {n}
        /\ ARC!Members(g.free) = ARC!Members(h.free) \cup {n}
        /\ g.page = h.page /\ \A m \in HistNodes : m # n => g.state[m] = h.state[m]
        /\ n \in ARC!Members(h.cold) \cup ARC!Members(h.hot)
    BY <1>2, <1>5, <1>7, <1>8, <1>10, <1>12
  <2>3. HistKept(g) /\ DOMAIN g.map = DOMAIN h.map \ {h.page[n]}
    BY ONLY HistKept(h), <1>11, <2>1, <2>2, HistForgets
  <2> QED
    BY <2>3, <1>2
<1> QED
  BY <1>6, <1>8, <1>13 DEF g

(* The oldest page of the cold history is forgotten.                       *)
LEMMA DropColdKept ==
    ASSUME NEW h, HistKept(h), ARC!CanPop(h.cold)
    PROVE  LET g == ARC!DropCold(h)
           IN  /\ HistKept(g) /\ DOMAIN g.map \subseteq DOMAIN h.map
               /\ g.cold.size = h.cold.size - 1 /\ g.hot.size = h.hot.size
<1> USE SizesAssumption
<1> DEFINE g == ARC!DropCold(h)
           n == ARC!Back(h.cold)
           p == h.page[n]
           l == ARC!PopBack(h.cold)
           f == ARC!PushFront(h.free, n)
<1>1. /\ l \in ARC!ListOf(HistNodes) /\ ARC!Exact(l) /\ ARC!Members(l) = ARC!Members(h.cold) \ {n}
      /\ n \in HistNodes /\ n \in ARC!Members(h.cold)
  BY ARC!PopBackExact DEF HistKept, HistTyped
<1>2. l.size = h.cold.size - 1
  BY DEF ARC!PopBack
<1>3. n \notin ARC!Members(h.hot) /\ n \notin ARC!Members(h.free)
  BY <1>1 DEF HistKept
<1>4. g = [free |-> f, cold |-> l, hot |-> h.hot,
           page |-> h.page, state |-> h.state, map |-> ARC!Erased(h.map, p)]
  <2>1. h = [free |-> h.free, cold |-> h.cold, hot |-> h.hot,
             page |-> h.page, state |-> h.state, map |-> h.map]
    BY DEF HistKept, HistTyped
  <2> HIDE DEF l, f
  <2>2. g = [h EXCEPT !.map = ARC!Erased(h.map, p), !.cold = l, !.free = f]
    BY DEF ARC!DropCold, l, f
  <2> HIDE DEF g, n, p
  <2> QED
    BY <2>1, <2>2
<1>7. /\ f \in ARC!ListOf(HistNodes) /\ ARC!Exact(f) /\ ARC!Members(f) = ARC!Members(h.free) \cup {n}
  <2>1. n \in HistNodes \ ARC!Members(h.free)
    BY <1>1, <1>3
  <2> QED
    BY <2>1, ARC!PushFrontExact DEF HistKept, HistTyped
<1> HIDE DEF l, f, n, g
<1>8. /\ g.free = f /\ g.cold = l /\ g.hot = h.hot /\ g.page = h.page
      /\ g.state = h.state /\ g.map = ARC!Erased(h.map, p)
      /\ g = [free |-> g.free, cold |-> g.cold, hot |-> g.hot,
              page |-> g.page, state |-> g.state, map |-> g.map]
  BY <1>4
<1>9. g.map \in [DOMAIN g.map -> HistNodes]
  BY <1>8 DEF ARC!Erased, HistKept, HistTyped
<1>10. HistTyped(g)
  BY <1>1, <1>7, <1>8, <1>9 DEF HistKept, HistTyped
<1>11. ARC!Members(g.hot) = ARC!Members(h.hot) \ {n}
  BY <1>3, <1>8
<1>12. HistKept(g) /\ DOMAIN g.map = DOMAIN h.map \ {p}
  BY <1>1, <1>7, <1>8, <1>10, <1>11, HistForgets
<1> QED
  BY <1>2, <1>8, <1>12 DEF g

(* The oldest page of the hot history is forgotten.                        *)
LEMMA DropHotKept ==
    ASSUME NEW h, HistKept(h), ARC!CanPop(h.hot)
    PROVE  LET g == ARC!DropHot(h)
           IN  /\ HistKept(g) /\ DOMAIN g.map \subseteq DOMAIN h.map
               /\ g.hot.size = h.hot.size - 1 /\ g.cold.size = h.cold.size
<1> USE SizesAssumption
<1> DEFINE g == ARC!DropHot(h)
           n == ARC!Back(h.hot)
           p == h.page[n]
           l == ARC!PopBack(h.hot)
           f == ARC!PushFront(h.free, n)
<1>1. /\ l \in ARC!ListOf(HistNodes) /\ ARC!Exact(l) /\ ARC!Members(l) = ARC!Members(h.hot) \ {n}
      /\ n \in HistNodes /\ n \in ARC!Members(h.hot)
  BY ARC!PopBackExact DEF HistKept, HistTyped
<1>2. l.size = h.hot.size - 1
  BY DEF ARC!PopBack
<1>3. n \notin ARC!Members(h.cold) /\ n \notin ARC!Members(h.free)
  BY <1>1 DEF HistKept
<1>4. g = [free |-> f, cold |-> h.cold, hot |-> l,
           page |-> h.page, state |-> h.state, map |-> ARC!Erased(h.map, p)]
  <2>1. h = [free |-> h.free, cold |-> h.cold, hot |-> h.hot,
             page |-> h.page, state |-> h.state, map |-> h.map]
    BY DEF HistKept, HistTyped
  <2> HIDE DEF l, f
  <2>2. g = [h EXCEPT !.map = ARC!Erased(h.map, p), !.hot = l, !.free = f]
    BY DEF ARC!DropHot, l, f
  <2> HIDE DEF g, n, p
  <2> QED
    BY <2>1, <2>2
<1>7. /\ f \in ARC!ListOf(HistNodes) /\ ARC!Exact(f) /\ ARC!Members(f) = ARC!Members(h.free) \cup {n}
  <2>1. n \in HistNodes \ ARC!Members(h.free)
    BY <1>1, <1>3
  <2> QED
    BY <2>1, ARC!PushFrontExact DEF HistKept, HistTyped
<1> HIDE DEF l, f, n, g
<1>8. /\ g.free = f /\ g.hot = l /\ g.cold = h.cold /\ g.page = h.page
      /\ g.state = h.state /\ g.map = ARC!Erased(h.map, p)
      /\ g = [free |-> g.free, cold |-> g.cold, hot |-> g.hot,
              page |-> g.page, state |-> g.state, map |-> g.map]
  BY <1>4
<1>9. g.map \in [DOMAIN g.map -> HistNodes]
  BY <1>8 DEF ARC!Erased, HistKept, HistTyped
<1>10. HistTyped(g)
  BY <1>1, <1>7, <1>8, <1>9 DEF HistKept, HistTyped
<1>11. ARC!Members(g.cold) = ARC!Members(h.cold) \ {n}
  BY <1>3, <1>8
<1>12. HistKept(g) /\ DOMAIN g.map = DOMAIN h.map \ {p}
  BY <1>1, <1>7, <1>8, <1>10, <1>11, HistForgets
<1> QED
  BY <1>2, <1>8, <1>12 DEF g

(* A page evicted from the cold list enters the cold history.              *)
LEMMA RecordColdKept ==
    ASSUME NEW h, HistKept(h), ARC!CanPop(h.free), NEW q \in Pages, q \notin DOMAIN h.map
    PROVE  LET g == ARC!RecordCold(h, q)
           IN  /\ HistKept(g) /\ DOMAIN g.map = DOMAIN h.map \cup {q}
               /\ g.cold.size = h.cold.size + 1 /\ g.hot.size = h.hot.size
<1> USE SizesAssumption
<1> DEFINE g == ARC!RecordCold(h, q)
           n == ARC!Back(h.free)
           f == ARC!PopBack(h.free)
           l == ARC!PushFront(h.cold, n)
<1>1. /\ f \in ARC!ListOf(HistNodes) /\ ARC!Exact(f) /\ ARC!Members(f) = ARC!Members(h.free) \ {n}
      /\ n \in HistNodes /\ n \in ARC!Members(h.free)
  BY ARC!PopBackExact DEF HistKept, HistTyped
<1>2. /\ l \in ARC!ListOf(HistNodes) /\ ARC!Exact(l) /\ ARC!Members(l) = ARC!Members(h.cold) \cup {n}
  <2>1. n \in HistNodes \ ARC!Members(h.cold)
    BY <1>1 DEF HistKept
  <2> QED
    BY <2>1, ARC!PushFrontExact DEF HistKept, HistTyped
<1>3. l.size = h.cold.size + 1
  BY DEF ARC!PushFront
<1>4. g = [free |-> f, cold |-> l, hot |-> h.hot,
           page |-> [h.page EXCEPT ![n] = q], state |-> [h.state EXCEPT ![n] = "COLD"],
           map |-> ARC!Emplaced(h.map, q, n)]
  <2>1. h = [free |-> h.free, cold |-> h.cold, hot |-> h.hot,
             page |-> h.page, state |-> h.state, map |-> h.map]
    BY DEF HistKept, HistTyped
  <2> HIDE DEF l, f
  <2>2. ARC!Labelled(h, q, "COLD") =
            [h EXCEPT !.free = f, !.page = [h.page EXCEPT ![n] = q],
                      !.state = [h.state EXCEPT ![n] = "COLD"], !.map = ARC!Emplaced(h.map, q, n)]
    BY DEF ARC!Labelled, f
  <2>3. ARC!Labelled(h, q, "COLD").cold = h.cold
    BY <2>1, <2>2
  <2>4. g = [ARC!Labelled(h, q, "COLD") EXCEPT !.cold = l]
    BY <2>3 DEF ARC!RecordCold, l
  <2> HIDE DEF g, n
  <2> QED
    BY <2>1, <2>2, <2>4
<1> HIDE DEF l, f, n, g
<1>5. /\ g.free = f /\ g.cold = l /\ g.hot = h.hot /\ g.page = [h.page EXCEPT ![n] = q]
      /\ g.state = [h.state EXCEPT ![n] = "COLD"] /\ g.map = ARC!Emplaced(h.map, q, n)
      /\ g = [free |-> g.free, cold |-> g.cold, hot |-> g.hot,
              page |-> g.page, state |-> g.state, map |-> g.map]
  BY <1>4
<1>6. g.map \in [DOMAIN g.map -> HistNodes]
  BY <1>1, <1>5 DEF ARC!Emplaced, HistKept, HistTyped
<1>7. /\ g.page \in [HistNodes -> Pages \cup {0}] /\ g.page[n] = q
      /\ g.state \in [HistNodes -> {"FREE", "COLD", "HOT"}] /\ g.state[n] = "COLD"
      /\ \A m \in HistNodes : m # n => g.page[m] = h.page[m] /\ g.state[m] = h.state[m]
  BY <1>1, <1>5 DEF HistKept, HistTyped
<1>8. HistTyped(g)
  BY <1>1, <1>2, <1>5, <1>6, <1>7 DEF HistKept, HistTyped
<1>9. HistKept(g) /\ DOMAIN g.map = DOMAIN h.map \cup {q}
  BY <1>1, <1>2, <1>5, <1>7, <1>8, HistRecords, SMTT(40)
<1> QED
  BY <1>3, <1>5, <1>9 DEF g

(* A page evicted from the hot list enters the hot history.                *)
LEMMA RecordHotKept ==
    ASSUME NEW h, HistKept(h), ARC!CanPop(h.free), NEW q \in Pages, q \notin DOMAIN h.map
    PROVE  LET g == ARC!RecordHot(h, q)
           IN  /\ HistKept(g) /\ DOMAIN g.map = DOMAIN h.map \cup {q}
               /\ g.hot.size = h.hot.size + 1 /\ g.cold.size = h.cold.size
<1> USE SizesAssumption
<1> DEFINE g == ARC!RecordHot(h, q)
           n == ARC!Back(h.free)
           f == ARC!PopBack(h.free)
           l == ARC!PushFront(h.hot, n)
<1>1. /\ f \in ARC!ListOf(HistNodes) /\ ARC!Exact(f) /\ ARC!Members(f) = ARC!Members(h.free) \ {n}
      /\ n \in HistNodes /\ n \in ARC!Members(h.free)
  BY ARC!PopBackExact DEF HistKept, HistTyped
<1>2. /\ l \in ARC!ListOf(HistNodes) /\ ARC!Exact(l) /\ ARC!Members(l) = ARC!Members(h.hot) \cup {n}
  <2>1. n \in HistNodes \ ARC!Members(h.hot)
    BY <1>1 DEF HistKept
  <2> QED
    BY <2>1, ARC!PushFrontExact DEF HistKept, HistTyped
<1>3. l.size = h.hot.size + 1
  BY DEF ARC!PushFront
<1>4. g = [free |-> f, cold |-> h.cold, hot |-> l,
           page |-> [h.page EXCEPT ![n] = q], state |-> [h.state EXCEPT ![n] = "HOT"],
           map |-> ARC!Emplaced(h.map, q, n)]
  <2>1. h = [free |-> h.free, cold |-> h.cold, hot |-> h.hot,
             page |-> h.page, state |-> h.state, map |-> h.map]
    BY DEF HistKept, HistTyped
  <2> HIDE DEF l, f
  <2>2. ARC!Labelled(h, q, "HOT") =
            [h EXCEPT !.free = f, !.page = [h.page EXCEPT ![n] = q],
                      !.state = [h.state EXCEPT ![n] = "HOT"], !.map = ARC!Emplaced(h.map, q, n)]
    BY DEF ARC!Labelled, f
  <2>3. ARC!Labelled(h, q, "HOT").hot = h.hot
    BY <2>1, <2>2
  <2>4. g = [ARC!Labelled(h, q, "HOT") EXCEPT !.hot = l]
    BY <2>3 DEF ARC!RecordHot, l
  <2> HIDE DEF g, n
  <2> QED
    BY <2>1, <2>2, <2>4
<1> HIDE DEF l, f, n, g
<1>5. /\ g.free = f /\ g.hot = l /\ g.cold = h.cold /\ g.page = [h.page EXCEPT ![n] = q]
      /\ g.state = [h.state EXCEPT ![n] = "HOT"] /\ g.map = ARC!Emplaced(h.map, q, n)
      /\ g = [free |-> g.free, cold |-> g.cold, hot |-> g.hot,
              page |-> g.page, state |-> g.state, map |-> g.map]
  BY <1>4
<1>6. g.map \in [DOMAIN g.map -> HistNodes]
  BY <1>1, <1>5 DEF ARC!Emplaced, HistKept, HistTyped
<1>7. /\ g.page \in [HistNodes -> Pages \cup {0}] /\ g.page[n] = q
      /\ g.state \in [HistNodes -> {"FREE", "COLD", "HOT"}] /\ g.state[n] = "HOT"
      /\ \A m \in HistNodes : m # n => g.page[m] = h.page[m] /\ g.state[m] = h.state[m]
  BY <1>1, <1>5 DEF HistKept, HistTyped
<1>8. HistTyped(g)
  BY <1>1, <1>2, <1>5, <1>6, <1>7 DEF HistKept, HistTyped
<1>9. HistKept(g) /\ DOMAIN g.map = DOMAIN h.map \cup {q}
  BY <1>1, <1>2, <1>5, <1>7, <1>8, HistRecords, SMTT(40)
<1> QED
  BY <1>3, <1>5, <1>9 DEF g

(* The counters of the history, and its map. *)
LEMMA HistCounts ==
    ASSUME NEW h, HistKept(h)
    PROVE  /\ h.cold.size \in Nat /\ h.hot.size \in Nat
           /\ DOMAIN h.map = {} <=> h.cold.size = 0 /\ h.hot.size = 0
<1>1. h.cold.size \in Nat /\ h.hot.size \in Nat
  BY DEF HistKept, HistTyped, ARC!ListOf
<1>2. /\ h.cold.size = 0 <=> ARC!Members(h.cold) = {}
      /\ h.hot.size = 0 <=> ARC!Members(h.hot) = {}
  BY SizesAssumption, ARC!EmptyExact DEF HistKept, HistTyped, ARC!IsEmpty
<1>3. ARC!Members(h.cold) \subseteq HistNodes /\ ARC!Members(h.hot) \subseteq HistNodes
  BY SizesAssumption, ARC!MembersOfList DEF HistKept, HistTyped
<1>4. DOMAIN h.map = {} <=> ARC!Members(h.cold) \cup ARC!Members(h.hot) = {}
  <2>1. ASSUME NEW n \in ARC!Members(h.cold) \cup ARC!Members(h.hot) PROVE h.page[n] \in DOMAIN h.map
    BY <1>3 DEF HistKept
  <2>2. ASSUME NEW p \in DOMAIN h.map PROVE h.map[p] \in ARC!Members(h.cold) \cup ARC!Members(h.hot)
    BY DEF HistKept
  <2> QED
    BY <2>1, <2>2
<1> QED
  BY <1>1, <1>2, <1>4

(* What the invariant of ARC joins: the frames, the history, that a ghost  *)
(* is not resident, and the sizes.  The sizes are needed for the rest: the *)
(* code replaces a page without looking at the free list, and only         *)
(* DirectoryBounds tells that the list is empty then, so that the pool is  *)
(* at its capacity.                                                        *)
ARCInv ==
    /\ ARCFrames
    /\ HistKept(hist)
    /\ DOMAIN hist.map \cap ARC!Resident = {}
    /\ ARC!DirectoryBounds

(* Pages that enter the cold or the hot list, one or none.                 *)
One(to, s) == IF to = s THEN 1 ELSE 0

(* replace with the push that follows it: the page evicted becomes a ghost *)
(* of the list it left.                                                    *)
LEMMA ReplaceEffect ==
    ASSUME ARCFrames, NEW p \in Pages, NEW t \in 0..Few, NEW to \in {"COLD", "HOT"},
           NEW h, HistKept(h), p \notin DOMAIN h.map, DOMAIN h.map \cap ARC!Resident = {},
           free_list.size = 0, ARC!Replace(p, t, h, to)
    PROVE  /\ ARCFrames' /\ ARCPool!MissEvict(p)
           /\ HistKept(hist') /\ DOMAIN hist'.map \cap ARC!Resident' = {}
           /\ free_list' = free_list
           /\ \/ /\ cold_list'.size = cold_list.size - 1 + One(to, "COLD")
                 /\ hot_list'.size = hot_list.size + One(to, "HOT")
                 /\ hist'.cold.size = h.cold.size + 1 /\ hist'.hot.size = h.hot.size
              \/ /\ cold_list'.size = cold_list.size + One(to, "COLD")
                 /\ hot_list'.size = hot_list.size - 1 + One(to, "HOT")
                 /\ hist'.cold.size = h.cold.size /\ hist'.hot.size = h.hot.size + 1
<1> USE SizesAssumption DEF One
<1>1. /\ free_list' = free_list /\ thres' \in 0..Few
      /\ cold_list.size \in Nat /\ hot_list.size \in Nat
      /\ ARC!Members(free_list) = {}
  BY ARCSizes DEF ARC!Replace
<1>2. CASE ARC!EvictsCold(p, t, h)
  <2> DEFINE freed == ARC!Back(cold_list)
             rest == ARC!PopBack(cold_list)
  <2>1. /\ ARC!CanPop(cold_list) /\ ARC!CanPop(h.free)
        /\ ARC!Admit(p, freed, {freed})
        /\ hist' = ARC!RecordCold(h, meta_page_id[freed])
        /\ ARC!Push(to, p, freed, rest, hot_list)
    BY <1>2 DEF ARC!Replace
  <2>2. /\ rest \in ARC!ListOf(ARC!Frames) /\ ARC!Exact(rest)
        /\ freed \in ARC!Frames /\ freed \in ARC!Members(cold_list)
        /\ ARC!Members(rest) = ARC!Members(cold_list) \ {freed}
    BY <2>1, ARCListsHold, ARC!PopBackExact
  <2>3. rest.size = cold_list.size - 1
    BY DEF ARC!PopBack
  <2> HIDE DEF freed, rest
  <2>4. ARCHolds(rest, "COLD", freed) /\ ARCHolds(hot_list, "HOT", freed) /\ state[freed] # "FREE"
    BY <2>2, ARCListsHold DEF ARCHolds
  <2>5. /\ ARCFrames' /\ ARCPool!MissEvict(p)
        /\ cold_list'.size = IF to = "COLD" THEN rest.size + 1 ELSE rest.size
        /\ hot_list'.size = IF to = "HOT" THEN hot_list.size + 1 ELSE hot_list.size
        /\ ARC!Resident' = (ARC!Resident \ {page_id[freed]}) \cup {p}
    BY <2>1, <2>2, <2>4, <1>1, ARCEvict
  <2>6. /\ meta_page_id[freed] \in Pages /\ meta_page_id[freed] = page_id[freed]
        /\ meta_page_id[freed] \in ARC!Resident
    BY <2>2, <2>4, ARCUsed DEF ARC!Resident, ARCPool!Resident
  <2>7. /\ HistKept(hist') /\ DOMAIN hist'.map = DOMAIN h.map \cup {meta_page_id[freed]}
        /\ hist'.cold.size = h.cold.size + 1 /\ hist'.hot.size = h.hot.size
    BY <2>1, <2>6, RecordColdKept
  <2>8. p # meta_page_id[freed]
    BY <2>1, <2>6 DEF ARC!Admit
  <2>9. DOMAIN hist'.map \cap ARC!Resident' = {}
    BY <2>5, <2>6, <2>7, <2>8
  <2> QED
    BY <2>3, <2>5, <2>7, <2>9, <1>1
<1>3. CASE ~ARC!EvictsCold(p, t, h)
  <2> DEFINE freed == ARC!Back(hot_list)
             rest == ARC!PopBack(hot_list)
  <2>1. /\ ARC!CanPop(hot_list) /\ ARC!CanPop(h.free)
        /\ ARC!Admit(p, freed, {freed})
        /\ hist' = ARC!RecordHot(h, meta_page_id[freed])
        /\ ARC!Push(to, p, freed, cold_list, rest)
    BY <1>3 DEF ARC!Replace
  <2>2. /\ rest \in ARC!ListOf(ARC!Frames) /\ ARC!Exact(rest)
        /\ freed \in ARC!Frames /\ freed \in ARC!Members(hot_list)
        /\ ARC!Members(rest) = ARC!Members(hot_list) \ {freed}
    BY <2>1, ARCListsHold, ARC!PopBackExact
  <2>3. rest.size = hot_list.size - 1
    BY DEF ARC!PopBack
  <2> HIDE DEF freed, rest
  <2>4. ARCHolds(rest, "HOT", freed) /\ ARCHolds(cold_list, "COLD", freed) /\ state[freed] # "FREE"
    BY <2>2, ARCListsHold DEF ARCHolds
  <2>5. /\ ARCFrames' /\ ARCPool!MissEvict(p)
        /\ cold_list'.size = IF to = "COLD" THEN cold_list.size + 1 ELSE cold_list.size
        /\ hot_list'.size = IF to = "HOT" THEN rest.size + 1 ELSE rest.size
        /\ ARC!Resident' = (ARC!Resident \ {page_id[freed]}) \cup {p}
    BY <2>1, <2>2, <2>4, <1>1, ARCEvict
  <2>6. /\ meta_page_id[freed] \in Pages /\ meta_page_id[freed] = page_id[freed]
        /\ meta_page_id[freed] \in ARC!Resident
    BY <2>2, <2>4, ARCUsed DEF ARC!Resident, ARCPool!Resident
  <2>7. /\ HistKept(hist') /\ DOMAIN hist'.map = DOMAIN h.map \cup {meta_page_id[freed]}
        /\ hist'.hot.size = h.hot.size + 1 /\ hist'.cold.size = h.cold.size
    BY <2>1, <2>6, RecordHotKept
  <2>8. p # meta_page_id[freed]
    BY <2>1, <2>6 DEF ARC!Admit
  <2>9. DOMAIN hist'.map \cap ARC!Resident' = {}
    BY <2>5, <2>6, <2>7, <2>8
  <2> QED
    BY <2>3, <2>5, <2>7, <2>9, <1>1
<1> QED
  BY <1>2, <1>3

(* A miss on a page of the cold history: p grows, a frame is replaced, the *)
(* page becomes hot.                                                       *)
LEMMA ARCMissColdGhost ==
    ASSUME ARCInv, NEW p \in Pages, ARC!MissColdGhost(p)
    PROVE  ARCInv' /\ ARCPool!MissEvict(p)
<1> USE SizesAssumption
<1> DEFINE h == ARC!ReviveCold(hist, p)
<1>1. ARC!IsColdGhost(hist, p) /\ hist.cold.size # 0
  BY DEF ARC!MissColdGhost
<1>2. p \in DOMAIN hist.map /\ free_list.size = 0
  BY <1>1 DEF ARCInv, ARC!DirectoryBounds, ARC!IsEmpty, ARC!IsColdGhost, ARC!IsGhost
<1>3. /\ HistKept(h) /\ DOMAIN h.map = DOMAIN hist.map \ {p}
      /\ h.cold.size = hist.cold.size - 1 /\ h.hot.size = hist.hot.size
  BY <1>1, ReviveColdKept DEF ARCInv
<1>4. PICK t \in 0..Few : ARC!Replace(p, t, h, "HOT")
  <2> DEFINE delta == IF hist.hot.size >= hist.cold.size
                      THEN hist.hot.size \div hist.cold.size ELSE 1
  <2>1. hist.cold.size \in Nat \ {0} /\ hist.hot.size \in Nat
    BY <1>1, HistCounts DEF ARCInv
  <2>2. delta \in Nat
    BY <2>1
  <2>3. thres \in 0..Few
    BY DEF ARCInv, ARCFrames
  <2> DEFINE t == IF thres + delta < Few THEN thres + delta ELSE Few
  <2>4. ARC!Replace(p, t, h, "HOT")
    BY DEF ARC!MissColdGhost
  <2> HIDE DEF delta, h
  <2>5. t \in 0..Few
    BY <2>2, <2>3
  <2> HIDE DEF t
  <2> QED
    BY <2>4, <2>5
<1> HIDE DEF h
<1>5. p \notin DOMAIN h.map /\ DOMAIN h.map \cap ARC!Resident = {}
  BY <1>3 DEF ARCInv
<1>6. /\ ARCFrames' /\ ARCPool!MissEvict(p)
      /\ HistKept(hist') /\ DOMAIN hist'.map \cap ARC!Resident' = {}
      /\ free_list' = free_list
      /\ \/ /\ cold_list'.size = cold_list.size - 1
            /\ hot_list'.size = hot_list.size + 1
            /\ hist'.cold.size = h.cold.size + 1 /\ hist'.hot.size = h.hot.size
         \/ /\ cold_list'.size = cold_list.size
            /\ hot_list'.size = hot_list.size - 1 + 1
            /\ hist'.cold.size = h.cold.size /\ hist'.hot.size = h.hot.size + 1
  <2>1. ARCFrames
    BY DEF ARCInv
  <2>2. "HOT" \in {"COLD", "HOT"} /\ One("HOT", "COLD") = 0 /\ One("HOT", "HOT") = 1
    BY DEF One
  <2>3. /\ ARCFrames' /\ ARCPool!MissEvict(p)
        /\ HistKept(hist') /\ DOMAIN hist'.map \cap ARC!Resident' = {}
        /\ free_list' = free_list
        /\ \/ /\ cold_list'.size = cold_list.size - 1 + One("HOT", "COLD")
              /\ hot_list'.size = hot_list.size + One("HOT", "HOT")
              /\ hist'.cold.size = h.cold.size + 1 /\ hist'.hot.size = h.hot.size
           \/ /\ cold_list'.size = cold_list.size + One("HOT", "COLD")
              /\ hot_list'.size = hot_list.size - 1 + One("HOT", "HOT")
              /\ hist'.cold.size = h.cold.size /\ hist'.hot.size = h.hot.size + 1
    BY <1>2, <1>3, <1>4, <1>5, <2>1, <2>2, ReplaceEffect
  <2>4. cold_list.size \in Nat
    BY <2>1, ARCSizes
  <2> QED
    BY <2>2, <2>3, <2>4
<1>7. ARC!DirectoryBounds'
  BY <1>2, <1>3, <1>6, <1>1, ARCSizes, HistCounts DEF ARCInv, ARC!DirectoryBounds, ARC!IsEmpty
<1> QED
  BY <1>6, <1>7 DEF ARCInv

(* A miss on a page of the hot history: p shrinks, a frame is replaced,    *)
(* the page becomes hot.                                                   *)
LEMMA ARCMissHotGhost ==
    ASSUME ARCInv, NEW p \in Pages, ARC!MissHotGhost(p)
    PROVE  ARCInv' /\ ARCPool!MissEvict(p)
<1> USE SizesAssumption
<1> DEFINE h == ARC!ReviveHot(hist, p)
<1>1. ARC!IsHotGhost(hist, p) /\ hist.hot.size # 0
  BY DEF ARC!MissHotGhost
<1>2. p \in DOMAIN hist.map /\ free_list.size = 0
  BY <1>1 DEF ARCInv, ARC!DirectoryBounds, ARC!IsEmpty, ARC!IsHotGhost, ARC!IsGhost
<1>3. /\ HistKept(h) /\ DOMAIN h.map = DOMAIN hist.map \ {p}
      /\ h.hot.size = hist.hot.size - 1 /\ h.cold.size = hist.cold.size
  BY <1>1, ReviveHotKept DEF ARCInv
<1>4. PICK t \in 0..Few : ARC!Replace(p, t, h, "HOT")
  <2> DEFINE delta == IF hist.cold.size >= hist.hot.size
                      THEN hist.cold.size \div hist.hot.size ELSE 1
  <2>1. hist.hot.size \in Nat \ {0} /\ hist.cold.size \in Nat
    BY <1>1, HistCounts DEF ARCInv
  <2>2. delta \in Nat
    BY <2>1
  <2>3. thres \in 0..Few
    BY DEF ARCInv, ARCFrames
  <2> DEFINE t == IF thres >= delta THEN thres - delta ELSE 0
  <2>4. ARC!Replace(p, t, h, "HOT")
    BY DEF ARC!MissHotGhost
  <2> HIDE DEF delta, h
  <2>5. t \in 0..Few
    BY <2>2, <2>3
  <2> HIDE DEF t
  <2> QED
    BY <2>4, <2>5
<1> HIDE DEF h
<1>5. p \notin DOMAIN h.map /\ DOMAIN h.map \cap ARC!Resident = {}
  BY <1>3 DEF ARCInv
<1>6. /\ ARCFrames' /\ ARCPool!MissEvict(p)
      /\ HistKept(hist') /\ DOMAIN hist'.map \cap ARC!Resident' = {}
      /\ free_list' = free_list
      /\ \/ /\ cold_list'.size = cold_list.size - 1
            /\ hot_list'.size = hot_list.size + 1
            /\ hist'.cold.size = h.cold.size + 1 /\ hist'.hot.size = h.hot.size
         \/ /\ cold_list'.size = cold_list.size
            /\ hot_list'.size = hot_list.size - 1 + 1
            /\ hist'.cold.size = h.cold.size /\ hist'.hot.size = h.hot.size + 1
  <2>1. ARCFrames
    BY DEF ARCInv
  <2>2. "HOT" \in {"COLD", "HOT"} /\ One("HOT", "COLD") = 0 /\ One("HOT", "HOT") = 1
    BY DEF One
  <2>3. /\ ARCFrames' /\ ARCPool!MissEvict(p)
        /\ HistKept(hist') /\ DOMAIN hist'.map \cap ARC!Resident' = {}
        /\ free_list' = free_list
        /\ \/ /\ cold_list'.size = cold_list.size - 1 + One("HOT", "COLD")
              /\ hot_list'.size = hot_list.size + One("HOT", "HOT")
              /\ hist'.cold.size = h.cold.size + 1 /\ hist'.hot.size = h.hot.size
           \/ /\ cold_list'.size = cold_list.size + One("HOT", "COLD")
              /\ hot_list'.size = hot_list.size - 1 + One("HOT", "HOT")
              /\ hist'.cold.size = h.cold.size /\ hist'.hot.size = h.hot.size + 1
    BY <1>2, <1>3, <1>4, <1>5, <2>1, <2>2, ReplaceEffect
  <2>4. cold_list.size \in Nat
    BY <2>1, ARCSizes
  <2> QED
    BY <2>2, <2>3, <2>4
<1>7. ARC!DirectoryBounds'
  BY <1>2, <1>3, <1>6, <1>1, ARCSizes, HistCounts DEF ARCInv, ARC!DirectoryBounds, ARC!IsEmpty
<1> QED
  BY <1>6, <1>7 DEF ARCInv

(* A miss with the cold side of the directory full: its oldest ghost is    *)
(* dropped and a frame replaced.                                           *)
LEMMA ARCMissDropsGhost ==
    ASSUME ARCInv, NEW p \in Pages, ARC!MissDropsGhost(p)
    PROVE  ARCInv' /\ ARCPool!MissEvict(p)
<1> USE SizesAssumption
<1> DEFINE h == ARC!DropCold(hist)
<1>1. /\ p \notin DOMAIN hist.map /\ cold_list.size + hist.cold.size = Few
      /\ ARC!CanPop(hist.cold) /\ ARC!Replace(p, thres, h, "COLD")
  BY DEF ARC!MissDropsGhost, ARC!IsGhost, ARC!ColdSide
<1>2. /\ HistKept(h) /\ DOMAIN h.map \subseteq DOMAIN hist.map
      /\ h.cold.size = hist.cold.size - 1 /\ h.hot.size = hist.hot.size
  BY <1>1, DropColdKept DEF ARCInv
<1>3. free_list.size = 0
  BY <1>1, HistCounts DEF ARCInv, ARC!DirectoryBounds, ARC!IsEmpty, ARC!CanPop
<1> HIDE DEF h
<1>4. /\ ARCFrames /\ thres \in 0..Few
      /\ p \notin DOMAIN h.map /\ DOMAIN h.map \cap ARC!Resident = {}
  BY <1>1, <1>2 DEF ARCInv, ARCFrames
<1>5. /\ ARCFrames' /\ ARCPool!MissEvict(p)
      /\ HistKept(hist') /\ DOMAIN hist'.map \cap ARC!Resident' = {}
      /\ free_list' = free_list
      /\ \/ /\ cold_list'.size = cold_list.size - 1 + 1
            /\ hot_list'.size = hot_list.size + 0
            /\ hist'.cold.size = h.cold.size + 1 /\ hist'.hot.size = h.hot.size
         \/ /\ cold_list'.size = cold_list.size + 1
            /\ hot_list'.size = hot_list.size - 1 + 0
            /\ hist'.cold.size = h.cold.size /\ hist'.hot.size = h.hot.size + 1
  BY <1>1, <1>2, <1>3, <1>4, ReplaceEffect DEF One
<1>6. ARC!DirectoryBounds'
  BY <1>1, <1>2, <1>3, <1>5, ARCSizes, HistCounts DEF ARCInv, ARC!DirectoryBounds, ARC!IsEmpty
<1> QED
  BY <1>5, <1>6 DEF ARCInv

(* A miss with the pool full and the cold side not: a frame is replaced,   *)
(* and with a full directory the oldest hot ghost is dropped.              *)
LEMMA ARCMissReplaces ==
    ASSUME ARCInv, NEW p \in Pages, ARC!MissReplaces(p)
    PROVE  ARCInv' /\ ARCPool!MissEvict(p)
<1> USE SizesAssumption
<1> DEFINE full == ARC!Total = 2 * Few
           h == IF full THEN ARC!DropHot(hist) ELSE hist
<1>1. /\ p \notin DOMAIN hist.map /\ cold_list.size + hist.cold.size # Few
      /\ cold_list.size + hist.cold.size + hot_list.size + hist.hot.size >= Few
      /\ full => ARC!CanPop(hist.hot)
      /\ ARC!Replace(p, thres, h, "COLD")
  BY DEF ARC!MissReplaces, ARC!IsGhost, ARC!ColdSide, ARC!Total
<1>2. full <=> cold_list.size + hist.cold.size + hot_list.size + hist.hot.size = 2 * Few
  BY DEF ARC!Total, ARC!ColdSide
<1> HIDE DEF full
<1>3. /\ HistKept(h) /\ DOMAIN h.map \subseteq DOMAIN hist.map
      /\ h.cold.size = hist.cold.size
      /\ h.hot.size = IF full THEN hist.hot.size - 1 ELSE hist.hot.size
  <2>1. CASE full
    BY <1>1, <2>1, DropHotKept DEF ARCInv
  <2>2. CASE ~full
    BY <2>2 DEF ARCInv
  <2> QED
    BY <2>1, <2>2
<1>4. free_list.size = 0
  <2>1. CASE DOMAIN hist.map = {}
    <3>1. hist.cold.size = 0 /\ hist.hot.size = 0
      BY <2>1, HistCounts DEF ARCInv
    <3> QED
      BY <3>1, <1>1, ARCSizes DEF ARCInv
  <2>2. CASE DOMAIN hist.map # {}
    BY <2>2 DEF ARCInv, ARC!DirectoryBounds, ARC!IsEmpty
  <2> QED
    BY <2>1, <2>2
<1> HIDE DEF h
<1>5. /\ ARCFrames /\ thres \in 0..Few
      /\ p \notin DOMAIN h.map /\ DOMAIN h.map \cap ARC!Resident = {}
  BY <1>1, <1>3 DEF ARCInv, ARCFrames
<1>6. /\ ARCFrames' /\ ARCPool!MissEvict(p)
      /\ HistKept(hist') /\ DOMAIN hist'.map \cap ARC!Resident' = {}
      /\ free_list' = free_list
      /\ \/ /\ cold_list'.size = cold_list.size - 1 + 1
            /\ hot_list'.size = hot_list.size + 0
            /\ hist'.cold.size = h.cold.size + 1 /\ hist'.hot.size = h.hot.size
         \/ /\ cold_list'.size = cold_list.size + 1
            /\ hot_list'.size = hot_list.size - 1 + 0
            /\ hist'.cold.size = h.cold.size /\ hist'.hot.size = h.hot.size + 1
  BY <1>1, <1>3, <1>4, <1>5, ReplaceEffect DEF One
<1>7. /\ cold_list.size \in Nat /\ hot_list.size \in Nat
      /\ hist.cold.size \in Nat /\ hist.hot.size \in Nat
      /\ cold_list.size + hist.cold.size <= Few
      /\ cold_list.size + hist.cold.size + hot_list.size + hist.hot.size <= 2 * Few
  BY ARCSizes, HistCounts DEF ARCInv, ARC!DirectoryBounds
<1>8. ARC!DirectoryBounds'
  <2>1. h.cold.size = hist.cold.size /\ free_list'.size = 0
    BY <1>3, <1>4, <1>6
  <2>2. CASE full
    <3>1. h.hot.size = hist.hot.size - 1
      BY <2>2, <1>3
    <3>2. cold_list.size + hist.cold.size + hot_list.size + hist.hot.size = 2 * Few
      BY <2>2, <1>2
    <3> QED
      BY <2>1, <3>1, <3>2, <1>1, <1>6, <1>7 DEF ARC!DirectoryBounds, ARC!IsEmpty
  <2>3. CASE ~full
    <3>1. h.hot.size = hist.hot.size
      BY <2>3, <1>3
    <3>2. cold_list.size + hist.cold.size + hot_list.size + hist.hot.size # 2 * Few
      BY <2>3, <1>2
    <3> QED
      BY <2>1, <3>1, <3>2, <1>1, <1>6, <1>7 DEF ARC!DirectoryBounds, ARC!IsEmpty
  <2> QED
    BY <2>2, <2>3
<1> QED
  BY <1>6, <1>8 DEF ARCInv

(* All cold pages and no ghost of theirs: the oldest leaves none. *)
LEMMA ARCMissDropsCold ==
    ASSUME ARCInv, NEW p \in Pages, ARC!MissDropsCold(p)
    PROVE  ARCInv' /\ ARCPool!MissEvict(p)
<1> USE SizesAssumption
<1> DEFINE freed == ARC!Back(cold_list)
           rest == ARC!PopBack(cold_list)
<1>1. /\ p \notin DOMAIN hist.map /\ cold_list.size >= Few
      /\ ARC!CanPop(cold_list) /\ ARC!Admit(p, freed, {freed})
      /\ ARC!Push("COLD", p, freed, rest, hot_list)
      /\ UNCHANGED <<free_list, hist, thres>>
  BY DEF ARC!MissDropsCold, ARC!IsGhost
<1>2. /\ rest \in ARC!ListOf(ARC!Frames) /\ ARC!Exact(rest)
      /\ freed \in ARC!Frames /\ freed \in ARC!Members(cold_list)
      /\ ARC!Members(rest) = ARC!Members(cold_list) \ {freed}
  BY <1>1, ARCListsHold, ARC!PopBackExact DEF ARCInv
<1>3. rest.size = cold_list.size - 1
  BY DEF ARC!PopBack
<1> HIDE DEF freed, rest
<1>4. /\ ARCHolds(rest, "COLD", freed) /\ ARCHolds(hot_list, "HOT", freed) /\ state[freed] # "FREE"
  BY <1>2, ARCListsHold DEF ARCHolds, ARCInv
<1>5. /\ ARCFrames /\ thres' \in 0..Few
      /\ free_list.size = 0 /\ ARC!Members(free_list) = {} /\ cold_list.size \in Nat
  BY <1>1, ARCSizes DEF ARCInv, ARCFrames
<1>6. /\ ARCFrames' /\ ARCPool!MissEvict(p)
      /\ cold_list'.size = rest.size + 1 /\ hot_list'.size = hot_list.size
      /\ ARC!Resident' = (ARC!Resident \ {page_id[freed]}) \cup {p}
  BY <1>1, <1>2, <1>4, <1>5, ARCEvict
<1>7. DOMAIN hist'.map \cap ARC!Resident' = {}
  BY <1>1, <1>6 DEF ARCInv
<1>8. ARC!DirectoryBounds'
  BY <1>1, <1>3, <1>5, <1>6 DEF ARCInv, ARC!DirectoryBounds, ARC!IsEmpty
<1> QED
  BY <1>1, <1>6, <1>7, <1>8 DEF ARCInv

(* A frame is taken from the free list only while there are no ghosts.     *)
LEMMA ARCMissFreeInv ==
    ASSUME ARCInv, NEW p \in Pages, ARC!MissFree(p)
    PROVE  ARCInv' /\ ARCPool!MissFree(p)
<1> USE SizesAssumption
<1>1. /\ p \notin DOMAIN hist.map /\ cold_list.size + hist.cold.size # Few
      /\ cold_list.size + hist.cold.size + hot_list.size + hist.hot.size < Few
      /\ hist' = hist
  BY DEF ARC!MissFree, ARC!IsGhost, ARC!ColdSide, ARC!Total
<1>2. /\ ARCFrames' /\ ARCPool!MissFree(p)
      /\ cold_list'.size = cold_list.size + 1 /\ hot_list'.size = hot_list.size
      /\ ARC!Resident' = ARC!Resident \cup {p}
  BY ARCMissFree DEF ARCInv
<1>3. /\ free_list.size + cold_list.size + hot_list.size = Few
      /\ free_list.size \in Nat /\ cold_list.size \in Nat /\ hot_list.size \in Nat
      /\ hist.cold.size \in Nat /\ hist.hot.size \in Nat
      /\ cold_list.size + hist.cold.size <= Few
  BY ARCSizes, HistCounts DEF ARCInv, ARC!DirectoryBounds
<1>4. DOMAIN hist.map = {}
  BY <1>1, <1>3 DEF ARCInv, ARC!DirectoryBounds, ARC!IsEmpty
<1>5. ARC!DirectoryBounds'
  BY <1>1, <1>2, <1>3, <1>4 DEF ARC!DirectoryBounds
<1> QED
  BY <1>1, <1>2, <1>4, <1>5 DEF ARCInv

(* A hit moves a frame between the lists and leaves the histories alone.   *)
LEMMA ARCHitInv ==
    ASSUME ARCInv, NEW p \in Pages, ARC!Hit(p)
    PROVE  ARCInv' /\ ARCPool!Hit(p)
<1> USE SizesAssumption
<1>1. /\ ARCFrames' /\ ARCPool!Hit(p)
      /\ ARC!Resident' = ARC!Resident
      /\ cold_list'.size + hot_list'.size = cold_list.size + hot_list.size
      /\ cold_list'.size <= cold_list.size
      /\ free_list' = free_list /\ hist' = hist
  BY ARCHit DEF ARCInv
<1>2. /\ cold_list.size \in Nat /\ hot_list.size \in Nat
      /\ hist.cold.size \in Nat /\ hist.hot.size \in Nat
      /\ cold_list.size + hist.cold.size <= Few
      /\ cold_list.size + hist.cold.size + hot_list.size + hist.hot.size <= 2 * Few
  BY ARCSizes, HistCounts DEF ARCInv, ARC!DirectoryBounds
<1>3. cold_list'.size \in Nat /\ hot_list'.size \in Nat
  BY <1>1 DEF ARCFrames, ARC!ListOf
<1>4. ARC!DirectoryBounds'
  BY <1>1, <1>2, <1>3 DEF ARCInv, ARC!DirectoryBounds, ARC!IsEmpty
<1> QED
  BY <1>1, <1>4 DEF ARCInv

(* Every action of the policy keeps its invariant.                         *)
LEMMA ARCNext ==
    ASSUME ARCInv, ARC!Next
    PROVE  ARCInv' /\ ARCPool!Next
<1>1. PICK p \in Pages : ARC!GetPage(p)
  BY DEF ARC!Next
<1>2. ARCInv' /\ (ARCPool!MissFree(p) \/ ARCPool!MissEvict(p) \/ ARCPool!Hit(p))
  BY <1>1, ARCMissColdGhost, ARCMissHotGhost, ARCMissDropsGhost, ARCMissDropsCold,
     ARCMissReplaces, ARCMissFreeInv, ARCHitInv
  DEF ARC!GetPage
<1> QED
  BY <1>2 DEF ARCPool!Next, ARCPool!GetPage

(* The invariant holds of the empty pool.                                  *)
LEMMA ARCInit ==
    ASSUME ARC!Init
    PROVE  ARCInv /\ ARCPool!Init
<1> USE SizesAssumption
<1>1. /\ ARC!Stacked(Few) \in ARC!ListOf(1..Few) /\ ARC!Exact(ARC!Stacked(Few))
      /\ ARC!Members(ARC!Stacked(Few)) = 1..Few
  BY ARC!StackedEffect
<1>2. /\ ARC!EmptyList \in ARC!ListOf(1..Few) /\ ARC!Exact(ARC!EmptyList)
      /\ ARC!Members(ARC!EmptyList) = {} /\ ARC!EmptyList.size = 0
  BY ARC!EmptyListEffect DEF ARC!EmptyList
<1>3. ARCPool!Init
  BY <1>1, ARCSamePool DEF ARC!Init, ARCPool!Init, ARC!Frames
<1>4. ARCPool!IInv
  BY <1>3, ARCPool!InitIInv
<1>5. ARC!ListsMatchStates
  BY <1>1, <1>2 DEF ARC!ListsMatchStates, ARC!Init, ARC!Frames
<1>6. ARC!PageIdsAgree /\ ARC!Resident = {}
  BY DEF ARC!Init, ARC!PageIdsAgree, ARC!PoolInit, ARC!Resident
<1>7. ARC!ThresInit \in 0..Few
  BY DEF ARC!ThresInit
<1>8. ARCFrames
  BY <1>1, <1>2, <1>3, <1>4, <1>5, <1>6, <1>7 DEF ARCFrames, ARC!Init, ARC!Frames
<1>9. /\ hist.free = ARC!Stacked(Few) /\ hist.cold = ARC!EmptyList /\ hist.hot = ARC!EmptyList
      /\ hist.page = [n \in 1..Few |-> 0] /\ hist.state = [n \in 1..Few |-> "FREE"]
      /\ hist.map = [p \in {} |-> 0]
      /\ hist = [free |-> hist.free, cold |-> hist.cold, hot |-> hist.hot,
                 page |-> hist.page, state |-> hist.state, map |-> hist.map]
  BY DEF ARC!Init, ARC!EmptyHistory
<1>10. HistTyped(hist)
  BY <1>1, <1>2, <1>9 DEF HistTyped, HistNodes
<1>11. HistKept(hist)
  BY <1>1, <1>2, <1>9, <1>10 DEF HistKept, HistNodes
<1>12. ARC!DirectoryBounds
  BY <1>2, <1>9 DEF ARC!DirectoryBounds, ARC!Init
<1> QED
  BY <1>3, <1>6, <1>8, <1>11, <1>12 DEF ARCInv

-----------------------------------------------------------------------------
(* The invariant in the form the runs check. *)
LEMMA HistIsConsistent ==
    ASSUME NEW h, HistKept(h) PROVE ARC!HistoryConsistent(h)
<1> USE SizesAssumption
<1> DEFINE F == ARC!Members(h.free)  C == ARC!Members(h.cold)  H == ARC!Members(h.hot)
<1>1. /\ IsFiniteSet(F) /\ Cardinality(F) = h.free.size
      /\ IsFiniteSet(C) /\ Cardinality(C) = h.cold.size
      /\ IsFiniteSet(H) /\ Cardinality(H) = h.hot.size
  <2>1. ASSUME NEW l \in ARC!ListOf(HistNodes), ARC!Exact(l)
        PROVE  IsFiniteSet(ARC!Members(l)) /\ Cardinality(ARC!Members(l)) = l.size
    BY <2>1, ARC!LengthIsCount
    DEF ARC!Exact, ARC!Cardinality, Cardinality, ARC!IsFiniteSet, IsFiniteSet
  <2>2. /\ h.free \in ARC!ListOf(HistNodes) /\ ARC!Exact(h.free)
        /\ h.cold \in ARC!ListOf(HistNodes) /\ ARC!Exact(h.cold)
        /\ h.hot \in ARC!ListOf(HistNodes) /\ ARC!Exact(h.hot)
    BY DEF HistKept, HistTyped
  <2> QED
    BY ONLY <2>1, <2>2
<1>2. h.free.size \in Nat /\ h.cold.size \in Nat /\ h.hot.size \in Nat
  BY DEF HistKept, HistTyped, ARC!ListOf
<1>3. F \subseteq HistNodes /\ C \subseteq HistNodes /\ H \subseteq HistNodes
  BY ARC!MembersOfList DEF HistKept, HistTyped
<1>4. F \cap C = {} /\ (F \cup C) \cap H = {} /\ (F \cup C) \cup H = HistNodes
  BY <1>3 DEF HistKept
<1> HIDE DEF F, C, H
<1>5. Cardinality({}) = 0 /\ Cardinality(HistNodes) = Few
  BY FS_EmptySet, FS_Interval DEF HistNodes
<1>6. IsFiniteSet(F \cup C) /\ Cardinality(F \cup C) = Cardinality(F) + Cardinality(C) - Cardinality(F \cap C)
  BY <1>1, FS_Union
<1>7. Cardinality((F \cup C) \cup H)
      = Cardinality(F \cup C) + Cardinality(H) - Cardinality((F \cup C) \cap H)
  BY <1>1, <1>6, FS_Union
<1>8. Cardinality(F \cap C) = 0 /\ Cardinality((F \cup C) \cap H) = 0
      /\ Cardinality((F \cup C) \cup H) = Few
  BY <1>4, <1>5
<1>9. h.free.size + h.cold.size + h.hot.size = Few
  BY <1>1, <1>2, <1>6, <1>7, <1>8
<1>10. DOMAIN h.page = HistNodes /\ Len(h.page) = Few
  <2>1. h.page \in [1..Few -> Pages \cup {0}]
    BY DEF HistKept, HistTyped, HistNodes
  <2>2. h.page \in Seq(Pages \cup {0}) /\ Len(h.page) = Few
    BY <2>1
  <2> QED
    BY <2>1, <2>2 DEF HistNodes
<1>11. DOMAIN h.map = {h.page[n] : n \in C \cup H}
  <2>1. ASSUME NEW n \in C \cup H PROVE h.page[n] \in DOMAIN h.map
    BY <1>3 DEF HistKept, C, H
  <2>2. ASSUME NEW p \in DOMAIN h.map PROVE h.map[p] \in C \cup H /\ p = h.page[h.map[p]]
    BY DEF HistKept, C, H
  <2> QED
    BY <2>1, <2>2
<1>12. /\ \A n \in C : h.map[h.page[n]] = n /\ h.state[n] = "COLD"
       /\ \A n \in H : h.map[h.page[n]] = n /\ h.state[n] = "HOT"
  BY <1>3 DEF HistKept, C, H
<1>13. F \cup C \cup H = DOMAIN h.page /\ h.free.size + h.cold.size + h.hot.size = Len(h.page)
  BY <1>4, <1>9, <1>10
<1>14. ARC!Exact(h.free) /\ ARC!Exact(h.cold) /\ ARC!Exact(h.hot)
  BY DEF HistKept, HistTyped
<1> QED
  BY <1>11, <1>12, <1>13, <1>14 DEF ARC!HistoryConsistent, F, C, H

(* The invariant gives what the run checks.                                *)
LEMMA ARCConsistent == ARCInv => ARC!Consistent
<1> SUFFICES ASSUME ARCInv PROVE ARC!Consistent
  OBVIOUS
<1>1. ARC!GhostsAreGone
  BY HistIsConsistent DEF ARCInv, ARC!GhostsAreGone
<1>2. ARC!TypeOK
  BY ARCSamePool DEF ARCInv, ARCFrames, ARC!TypeOK, ARC!ListOf, ARCPool!IInv, ARCPool!TypeOK
<1> QED
  BY <1>1, <1>2 DEF ARCInv, ARCFrames, ARC!Consistent
=============================================================================
