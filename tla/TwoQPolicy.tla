----------------------------- MODULE TwoQPolicy -----------------------------
(***************************************************************************)
(* BufPool<S2QPolicy_<RecencyStore>>: include/2q_policy.hh, with the       *)
(* RecencyPool<void> or the NullRecencyStore of include/recency.hh, under  *)
(* include/bufpool.hh; one action per call of get_page.  New pages enter   *)
(* the cold list; a page that is still among the recently evicted ones     *)
(* enters the hot list.  Without a recency store a hit on a cold page      *)
(* makes it hot instead.                                                   *)
(***************************************************************************)
EXTENDS BufPool, RecencyPool

CONSTANTS
    Stores,  \* the classes RecencyStore is instantiated with, a subset of
             \* {"RecencyPool", "NullRecencyStore"}
    MaxSize  \* bound on the counter of the recency pool's list

ColdThres == (Capacity + 3) \div 4              \* ceil(0.25 * capacity)

RecentCapacity == (3 * Capacity + 9) \div 10    \* ceil(capacity * 0.3)

VARIABLES
    free_list, cold_list, hot_list,
    state,         \* Metadata::state of every frame
    meta_page_id,  \* Metadata::page_id, which BufferHandle::page_id hides
    recent_pool,
    store          \* the template argument RecencyStore, which never changes

policyVars == <<free_list, cold_list, hot_list, state, meta_page_id, recent_pool, store>>
vars == <<poolVars, policyVars>>

(* The handles are zeroed when the array is made. *)
Init ==
    /\ PoolInit
    /\ free_list = Stacked(Capacity)
    /\ cold_list = EmptyList /\ hot_list = EmptyList
    /\ state = [f \in Frames |-> "FREE"]
    /\ meta_page_id = [f \in Frames |-> 0]
    /\ recent_pool = EmptyPool(RecentCapacity)
    /\ store \in Stores

WithRecency == store = "RecencyPool"

(* The second half of get: frame res, popped from the free list, enters    *)
(* the list its page belongs to, hot when pool (as evict left it) knows    *)
(* the page.  cold and hot are the lists as evict left them.               *)
Place(p, res, cold, hot, pool) ==
    /\ meta_page_id' = [meta_page_id EXCEPT ![res] = p]
    /\ recent_pool' = pool
    /\ UNCHANGED store
    /\ IF WithRecency /\ Remembers(pool, p)
       THEN /\ state' = [state EXCEPT ![res] = "HOT"]
            /\ hot_list' = PushFront(hot, res)
            /\ cold_list' = cold
       ELSE /\ state' = [state EXCEPT ![res] = "COLD"]
            /\ cold_list' = PushFront(cold, res)
            /\ hot_list' = hot

MissFree(p) ==
    /\ EmptyAgrees(free_list) /\ ~IsEmpty(free_list) /\ CanPop(free_list)
    /\ Admit(p, Back(free_list), {})
    /\ free_list' = PopBack(free_list)
    /\ Place(p, Back(free_list), cold_list, hot_list, recent_pool)

\* Mutated Remember: a page evicted again while it is remembered keeps its
\* old place.
RememberOnce(victim_id) ==
    IF WithRecency /\ ~Remembers(recent_pool, victim_id)
    THEN Insert(recent_pool, victim_id, Void) ELSE recent_pool

(* insert of the recency store; NullRecencyStore drops the key. *)
Remember(victim_id) ==
    IF WithRecency THEN Insert(recent_pool, victim_id, Void) ELSE recent_pool

(* evict_one once pick_victim chose: the victim goes to the free list, its *)
(* page into the recency store, and only then is the pool told.  get takes *)
(* the victim's frame from the free list at once; its state is overwritten *)
(* with the new one.                                                       *)
EvictAndPlace(p, victim, cold, hot) ==
    LET filled == PushFront(free_list, victim)
        victim_id == meta_page_id[victim]
    IN  /\ WithRecency =>
              /\ InsertAsserts(recent_pool, victim_id)
              /\ Remembers(recent_pool, victim_id) => recent_pool.list.size < MaxSize
        /\ Admit(p, Back(filled), {victim})
        /\ free_list' = PopBack(filled)
        /\ Place(p, Back(filled), cold, hot, Remember(victim_id))

\* Mutated PicksCold: the cold queue may be one short of its share.
PicksColdEarly == cold_list.size >= ColdThres

(* The condition of pick_victim. *)
PicksCold == cold_list.size > ColdThres

(* pick_victim: the oldest cold page while there are more than the         *)
(* threshold, otherwise the least recent hot page, asserted to exist.      *)
MissEvictCold(p) ==
    /\ EmptyAgrees(free_list) /\ IsEmpty(free_list)
    /\ PicksCold /\ CanPop(cold_list)
    /\ EvictAndPlace(p, Back(cold_list), PopBack(cold_list), hot_list)

MissEvictHot(p) ==
    /\ EmptyAgrees(free_list) /\ IsEmpty(free_list)
    /\ ~PicksCold
    /\ EmptyAgrees(hot_list) /\ ~IsEmpty(hot_list) /\ CanPop(hot_list)
    /\ EvictAndPlace(p, Back(hot_list), cold_list, PopBack(hot_list))

(* touch on a hot page: release, _release_callback, push_front. *)
HitHot(p) ==
    /\ \E f \in Frames :
          /\ Found(p, f) /\ state[f] = "HOT"
          /\ hot_list' = PushFront(ReleaseCallback(Unlink(hot_list, f)), f)
    /\ UNCHANGED <<free_list, cold_list, state, meta_page_id, recent_pool, store>>

(* touch on a cold page: promotes it only without a recency store. *)
HitCold(p) ==
    /\ \E f \in Frames :
          /\ Found(p, f) /\ state[f] = "COLD"
          /\ IF WithRecency
             THEN UNCHANGED <<cold_list, hot_list, state>>
             ELSE /\ cold_list' = ReleaseCallback(Unlink(cold_list, f))
                  /\ hot_list' = PushFront(hot_list, f)
                  /\ state' = [state EXCEPT ![f] = "HOT"]
    /\ UNCHANGED <<free_list, meta_page_id, recent_pool, store>>

GetPage(p) ==
    \/ MissFree(p) \/ MissEvictCold(p) \/ MissEvictHot(p)
    \/ HitHot(p) \/ HitCold(p)

Next == \E p \in Pages : GetPage(p)

Spec == Init /\ [][Next]_vars

-----------------------------------------------------------------------------
TypeOK ==
    /\ PoolTypeOK
    /\ {free_list, cold_list, hot_list} \subseteq [nodes : Seq(Frames), size : Nat]
    /\ state \in [Frames -> {"FREE", "COLD", "HOT"}]
    /\ meta_page_id \in [Frames -> Pages \cup {0}]
    /\ DOMAIN recent_pool.map \subseteq Pages
    /\ store \in Stores

(* Every frame is linked in exactly the list its state names, and all      *)
(* three counters are right: pick_victim, empty and touch rely on both.    *)
ListsMatchStates ==
    /\ Exact(free_list) /\ Exact(cold_list) /\ Exact(hot_list)
    /\ Members(cold_list) = {f \in Frames : state[f] = "COLD"}
    /\ Members(hot_list) = {f \in Frames : state[f] = "HOT"}
    /\ Members(free_list) = {f \in Frames : state[f] = "FREE"}

(* The two page_id fields of a handle agree while its page is resident: an *)
(* eviction remembers the number under which the pool knew the page.       *)
PageIdsAgree == \A p \in Resident : meta_page_id[lookup_tbl[p]] = p

Consistent == TypeOK /\ ListsMatchStates /\ PageIdsAgree /\ PoolConsistent(recent_pool)

(* No request stops at an assertion of bufpool.hh, list.hh, 2q_policy.hh   *)
(* or recency_pool.hh; evictions are explored up to the bound on the       *)
(* counter of the recency pool.                                            *)
EveryRequestServed ==
    recent_pool.list.size < MaxSize => \A p \in Pages : ENABLED GetPage(p)

(* With a recency store hot pages never take the share of the cold ones:   *)
(* once all frames are used, cold_thres_ of them hold cold pages.          *)
ColdShareKept ==
    WithRecency /\ IsEmpty(free_list) => Len(cold_list.nodes) >= ColdThres

(* The policy keeps the pool's contract. *)
Contract == INSTANCE PoolContract WITH used <- Frames \ Members(free_list)
KeepsContract == Contract!Spec

(* On pages alone the policy is the one TwoQueues describes. *)
Queues == INSTANCE TwoQueues
              WITH Ghosts <- RecentCapacity, Thres <- ColdThres,
                   cold <- Labels(cold_list, page_id), hot <- Labels(hot_list, page_id),
                   ghosts <- Keys(recent_pool), remember <- WithRecency
IsTwoQueues == Queues!Spec
=============================================================================
