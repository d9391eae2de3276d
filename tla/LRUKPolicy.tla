----------------------------- MODULE LRUKPolicy -----------------------------
(***************************************************************************)
(* BufPool<LRUKPolicy<K, Store>>: include/lru2_policy.hh with the heap of  *)
(* include/heap.hh and a RecencyPool<V> or the NullValuedRecencyStore,     *)
(* under include/bufpool.hh; one action per call of get_page.  Time is     *)
(* seqnum_, which advances when a reference is counted.                    *)
(***************************************************************************)
EXTENDS BufPool, RecencyPool, UpdatableHeap

CONSTANTS
    K,            \* the references kept; last_access.back() needs an array
    Stores,       \* the classes Store stands for, a subset of
                  \* {"RecencyPool", "NullValuedRecencyStore"}
    Graces,       \* the values of seq_grace
    RecentSizes,  \* the values of ceil(capacity * recency_pct)
    SeqRange,     \* seqnum_ counts modulo SeqRange, which is 2^64
    MaxSize       \* bound on the counter of the recency pool's list

ASSUME KAssumption == K \in Nat \ {0, 1}
ASSUME SeqRangeAssumption == SeqRange \in Nat \ {0, 1}

VARIABLES
    free_list,
    heap,
    last_access,   \* LRUKMetadata::last_access of every frame
    meta_page_id,  \* LRUKMetadata::page_id, which BufferHandle::page_id hides
    seqnum,
    recent_pool,
    seq_grace, store  \* of the constructor and the template, never changed

vars == <<poolVars, free_list, heap, last_access, meta_page_id, seqnum,
          recent_pool, seq_grace, store>>

PageSymmetry == Permutations(Pages)  \* page numbers are interchangeable

(* Metadata::SENTINEL, in every place. *)
Cleared == [i \in 1..K |-> 0]

Init ==
    /\ PoolInit
    /\ free_list = Stacked(Capacity)
    /\ heap = EmptyHeap(Frames)
    /\ last_access = [f \in Frames |-> Cleared]
    /\ meta_page_id = [f \in Frames |-> 0]
    /\ seqnum = 1
    /\ recent_pool \in {EmptyPool(n) : n \in RecentSizes}
    /\ seq_grace \in Graces
    /\ store \in Stores

WithRecency == store = "RecencyPool"

\* Mutated InGrace: a grace period one shorter.
InGraceShorter(times) == times[K] # 0 /\ seqnum - times[K] < seq_grace

(* The early return of touch. *)
InGrace(times) == times[K] # 0 /\ seqnum - times[K] <= seq_grace

(* touch on frame f, when the heap and the times are h and access.  The    *)
(* reference that makes seqnum_ wrap around to SENTINEL is the last one:   *)
(* touch aborts the program.                                               *)
Touch(f, h, access) ==
    IF InGrace(access[f])
    THEN last_access' = access /\ heap' = h /\ UNCHANGED seqnum
    ELSE LET updated == [access EXCEPT ![f] = Append(Tail(@), seqnum)]
         IN  /\ last_access' = updated
             /\ heap' = Update(h, updated, h.id[f], f)
             /\ seqnum' = (seqnum + 1) % SeqRange

Running == seqnum # 0

(* The second half of get: frame res, popped from the free list, takes the *)
(* history the store has of p, enters the heap and is touched.             *)
Enter(p, res, h, access, pool) ==
    LET known == WithRecency /\ Remembers(pool, p)
        times == [access EXCEPT ![res] = IF known THEN Taken(pool, p) ELSE @]
    IN  /\ known => pool.list.size < MaxSize
        /\ meta_page_id' = [meta_page_id EXCEPT ![res] = p]
        /\ recent_pool' = IF known THEN Take(pool, p) ELSE pool
        /\ \E pushed \in {Push(h, times, res)} : Touch(res, pushed, times)
        /\ UNCHANGED <<seq_grace, store>>

MissFree(p) ==
    /\ Running
    /\ EmptyAgrees(free_list) /\ ~IsEmpty(free_list) /\ CanPop(free_list)
    /\ Admit(p, Back(free_list), {})
    /\ free_list' = PopBack(free_list)
    /\ Enter(p, Back(free_list), heap, last_access, recent_pool)

\* Mutated MissEvict: the test of the free list is gone.
MissEvictEarly(p) ==
    /\ Running /\ heap.slots # <<>>
    /\ LET victim == Top(heap)
           filled == PushFront(free_list, victim)
       IN  /\ Admit(p, Back(filled), {victim})
           /\ free_list' = PopBack(filled)
           /\ \E rest \in {Pop(heap, last_access)} :
                 Enter(p, Back(filled), rest,
                       [last_access EXCEPT ![victim] = Cleared], recent_pool)

(* insert of the store; NullValuedRecencyStore drops the history. *)
Remember(victim) ==
    IF WithRecency
    THEN Insert(recent_pool, meta_page_id[victim], last_access[victim])
    ELSE recent_pool

(* get without a frame to spare: evict_one pops the heap, gives the times  *)
(* of the victim to the store, clears them, and only then tells the pool.  *)
MissEvict(p) ==
    /\ Running
    /\ EmptyAgrees(free_list) /\ IsEmpty(free_list) /\ heap.slots # <<>>
    /\ LET victim == Top(heap)
           filled == PushFront(free_list, victim)
       IN  /\ WithRecency =>
                 Remembers(recent_pool, meta_page_id[victim]) \/ CanPop(recent_pool.list)
           /\ Admit(p, Back(filled), {victim})
           /\ free_list' = PopBack(filled)
           /\ \E rest \in {Pop(heap, last_access)} :
                 Enter(p, Back(filled), rest,
                       [last_access EXCEPT ![victim] = Cleared], Remember(victim))

Hit(p) ==
    /\ Running
    /\ \E f \in Frames : Found(p, f) /\ Touch(f, heap, last_access)
    /\ UNCHANGED <<free_list, meta_page_id, recent_pool, seq_grace, store>>

GetPage(p) == MissFree(p) \/ MissEvict(p) \/ Hit(p)

Next == \E p \in Pages : GetPage(p)

Spec == Init /\ [][Next]_vars

-----------------------------------------------------------------------------
Remembered == DOMAIN recent_pool.map

TypeOK ==
    /\ PoolTypeOK
    /\ free_list \in [nodes : Seq(Frames), size : Nat]
    /\ heap \in [slots : Seq(Frames), id : [Frames -> Frames]]
    /\ last_access \in [Frames -> [1..K -> 0..(SeqRange - 1)]]
    /\ meta_page_id \in [Frames -> Pages \cup {0}]
    /\ Remembered \subseteq Pages
    /\ seqnum \in 0..(SeqRange - 1) /\ seq_grace \in Graces /\ store \in Stores

(* The free list and the heap share out the frames; the heap is ordered    *)
(* although elements change under it, and each element knows its slot.     *)
HeapConsistent ==
    /\ Exact(free_list) /\ IsInjective(heap.slots)
    /\ Members(free_list) \cap ToSet(heap.slots) = {}
    /\ Members(free_list) \cup ToSet(heap.slots) = Frames
    /\ HeapOrdered(heap, last_access) /\ IdsAgree(heap)

(* What outlives a page: no history is both in a frame and in the store,   *)
(* a free frame has none, and the handle's two page numbers agree.         *)
HistoriesApart ==
    /\ Remembered \cap Resident = {}
    /\ \A f \in Members(free_list) : last_access[f] = Cleared
    /\ \A p \in Resident : meta_page_id[lookup_tbl[p]] = p

Consistent == TypeOK /\ HeapConsistent /\ HistoriesApart /\ PoolConsistent(recent_pool)

(* No request stops at an assertion of bufpool.hh, list.hh, heap.hh or     *)
(* lru2_policy.hh before seqnum_ is exhausted; returning pages are         *)
(* explored up to the bound on the counter of the recency pool.            *)
EveryRequestServed ==
    Running /\ recent_pool.list.size < MaxSize =>
        \A p \in Pages : ENABLED GetPage(p)

(* The policy keeps the pool's contract. *)
Contract == INSTANCE PoolContract WITH used <- Frames \ Members(free_list)
KeepsContract == Contract!Spec

(* The victim is always the page whose K-th last counted reference is the  *)
(* oldest, and a page that returns in time returns with its references.    *)
Reference ==
    INSTANCE KthReference
        WITH Items <- Pages, Room <- Capacity,
             resident <- Resident,
             history <- [p \in Resident \cup Remembered |->
                            IF p \in Resident THEN last_access[lookup_tbl[p]]
                            ELSE Taken(recent_pool, p)],
             remembered <- Keys(recent_pool),
             now <- seqnum, Horizon <- SeqRange, grace <- seq_grace,
             depth <- IF WithRecency THEN Len(recent_pool.list.nodes) ELSE 0
EvictsKthReference == Reference!Spec
=============================================================================
