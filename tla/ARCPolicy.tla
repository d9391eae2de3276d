------------------------------ MODULE ARCPolicy ------------------------------
(***************************************************************************)
(* BufPool<ARCPolicy>: include/arc_policy.hh under include/bufpool.hh, one *)
(* action per call of get_page.  Cold pages were requested once, hot ones  *)
(* more often; the ghosts of both steer thres, the share of the frames     *)
(* that cold pages may keep.                                               *)
(***************************************************************************)
EXTENDS BufPool, List

-----------------------------------------------------------------------------
(* The history as a value: capacity nodes, each on one of three lists, and *)
(* the map that finds the node of a ghost, a page evicted not long ago.    *)
(*   free, cold, hot   free_hist_list_, cold_hist_list_, hot_hist_list_    *)
(*   page, state       the fields of every node                            *)
(*   map               hist_map_                                           *)
EmptyHistory(capacity) ==
    [free  |-> Stacked(capacity),
     cold  |-> EmptyList,
     hot   |-> EmptyList,
     page  |-> [n \in 1..capacity |-> 0],
     state |-> [n \in 1..capacity |-> "FREE"],
     map   |-> [p \in {} |-> 0]]

IsGhost(h, p) == p \in DOMAIN h.map
IsColdGhost(h, p) == IsGhost(h, p) /\ h.state[h.map[p]] = "COLD"
IsHotGhost(h, p) == IsGhost(h, p) /\ h.state[h.map[p]] = "HOT"

Erased(map, p) == [q \in DOMAIN map \ {p} |-> map[q]]

(* emplace keeps the entry of a key that is there. *)
Emplaced(map, p, n) ==
    [q \in DOMAIN map \cup {p} |-> IF q \in DOMAIN map THEN map[q] ELSE n]

(* A request finds the cold ghost p: its node leaves the map and its list  *)
(* and is free, though its state still says COLD.                          *)
ReviveCold(h, p) ==
    LET n == h.map[p]
    IN  [h EXCEPT !.map  = Erased(@, p),
                  !.cold = ReleaseCallback(Unlink(@, n)),
                  !.free = PushFront(@, n)]

ReviveHot(h, p) ==
    LET n == h.map[p]
    IN  [h EXCEPT !.map   = Erased(@, p),
                  !.hot   = ReleaseCallback(Unlink(@, n)),
                  !.state = [@ EXCEPT ![n] = "FREE"],
                  !.free  = PushFront(@, n)]

(* The oldest ghost of a list is forgotten to make room. *)
DropCold(h) ==
    LET n == Back(h.cold)
    IN  [h EXCEPT !.map  = Erased(@, h.page[n]),
                  !.cold = PopBack(@),
                  !.free = PushFront(@, n)]

DropHot(h) ==
    LET n == Back(h.hot)
    IN  [h EXCEPT !.map  = Erased(@, h.page[n]),
                  !.hot  = PopBack(@),
                  !.free = PushFront(@, n)]

(* replace takes a free node for the page that it evicted. *)
Labelled(h, p, s) ==
    LET n == Back(h.free)
    IN  [h EXCEPT !.free  = PopBack(@),
                  !.page  = [@ EXCEPT ![n] = p],
                  !.state = [@ EXCEPT ![n] = s],
                  !.map   = Emplaced(@, p, n)]

RecordCold(h, p) == [Labelled(h, p, "COLD") EXCEPT !.cold = PushFront(@, Back(h.free))]

RecordHot(h, p) == [Labelled(h, p, "HOT") EXCEPT !.hot = PushFront(@, Back(h.free))]

(* Every node is linked in one list, the counters are right, and the map   *)
(* finds each node of the two ghost lists under its page and its state.    *)
HistoryConsistent(h) ==
    /\ Exact(h.free) /\ Exact(h.cold) /\ Exact(h.hot)
    /\ Members(h.free) \cup Members(h.cold) \cup Members(h.hot) = DOMAIN h.page
    /\ h.free.size + h.cold.size + h.hot.size = Len(h.page)
    /\ DOMAIN h.map = {h.page[n] : n \in Members(h.cold) \cup Members(h.hot)}
    /\ \A n \in Members(h.cold) : h.map[h.page[n]] = n /\ h.state[n] = "COLD"
    /\ \A n \in Members(h.hot) : h.map[h.page[n]] = n /\ h.state[n] = "HOT"

-----------------------------------------------------------------------------
ThresInit == (Capacity + 3) \div 4  \* ceil(THRES_INIT_PCT * capacity)

VARIABLES
    free_list, cold_list, hot_list,
    state,         \* Metadata::state of every frame
    meta_page_id,  \* Metadata::page_id, which BufferHandle::page_id hides
    hist,          \* the history, as the operators below have it
    thres

vars == <<poolVars, free_list, cold_list, hot_list, state, meta_page_id,
          hist, thres>>

Init ==
    /\ PoolInit
    /\ free_list = Stacked(Capacity)
    /\ cold_list = EmptyList /\ hot_list = EmptyList
    /\ state = [f \in Frames |-> "FREE"]
    /\ meta_page_id = [f \in Frames |-> 0]
    /\ hist = EmptyHistory(Capacity)
    /\ thres = ThresInit

(* push_cold and push_hot, which state "to" tells apart, of frame f for    *)
(* page p, onto the lists cold and hot as the eviction left them.          *)
Push(to, p, f, cold, hot) ==
    /\ meta_page_id' = [meta_page_id EXCEPT ![f] = p]
    /\ state' = [state EXCEPT ![f] = to]
    /\ cold_list' = IF to = "COLD" THEN PushFront(cold, f) ELSE cold
    /\ hot_list' = IF to = "HOT" THEN PushFront(hot, f) ELSE hot

(* check_condition of replace; h is the history when replace is called.    *)
EvictsCold(p, t, h) ==
    /\ ~IsEmpty(cold_list)
    /\ cold_list.size > t \/ (cold_list.size = t /\ IsHotGhost(h, p))

(* replace: the least recent page of one list becomes a ghost; get then    *)
(* pushes the frame to the list of state to.                               *)
Replace(p, t, h, to) ==
    /\ EmptyAgrees(cold_list) /\ CanPop(h.free)
    /\ \/ /\ EvictsCold(p, t, h) /\ CanPop(cold_list)
          /\ LET freed == Back(cold_list)
             IN  /\ Admit(p, freed, {freed})
                 /\ hist' = RecordCold(h, meta_page_id[freed])
                 /\ Push(to, p, freed, PopBack(cold_list), hot_list)
       \/ /\ ~EvictsCold(p, t, h) /\ CanPop(hot_list)
          /\ LET freed == Back(hot_list)
             IN  /\ Admit(p, freed, {freed})
                 /\ hist' = RecordHot(h, meta_page_id[freed])
                 /\ Push(to, p, freed, cold_list, PopBack(hot_list))
    /\ thres' = t
    /\ UNCHANGED free_list

\* Mutated MissColdGhost: the target does not move.
MissColdGhostUnmoved(p) ==
    /\ IsColdGhost(hist, p) /\ hist.cold.size # 0
    /\ Replace(p, thres, ReviveCold(hist, p), "HOT")

(* get on a cold ghost: cold pages deserve more room.  Both divisions of   *)
(* get have the size of the ghost's own list as divisor.                   *)
MissColdGhost(p) ==
    /\ IsColdGhost(hist, p) /\ hist.cold.size # 0
    /\ LET delta  == IF hist.hot.size >= hist.cold.size
                     THEN hist.hot.size \div hist.cold.size ELSE 1
           raised == IF thres + delta < Capacity THEN thres + delta ELSE Capacity
       IN  Replace(p, raised, ReviveCold(hist, p), "HOT")

(* get on a hot ghost: cold pages deserve less. *)
MissHotGhost(p) ==
    /\ IsHotGhost(hist, p) /\ hist.hot.size # 0
    /\ LET delta   == IF hist.cold.size >= hist.hot.size
                      THEN hist.cold.size \div hist.hot.size ELSE 1
           lowered == IF thres >= delta THEN thres - delta ELSE 0
       IN  Replace(p, lowered, ReviveHot(hist, p), "HOT")

\* Mutated ColdSide: the ghosts are not counted.
ColdSideResident == cold_list.size

ColdSide == cold_list.size + hist.cold.size
Total == ColdSide + hot_list.size + hist.hot.size

(* get on any other page, the cold pages and ghosts being capacity_: the   *)
(* oldest cold ghost goes, or, without any, the oldest cold page, which    *)
(* leaves no ghost.                                                        *)
MissDropsGhost(p) ==
    /\ ~IsGhost(hist, p) /\ ColdSide = Capacity
    /\ cold_list.size < Capacity /\ CanPop(hist.cold)
    /\ Replace(p, thres, DropCold(hist), "COLD")

MissDropsCold(p) ==
    /\ ~IsGhost(hist, p) /\ ColdSide = Capacity
    /\ cold_list.size >= Capacity /\ CanPop(cold_list)
    /\ LET freed == Back(cold_list)
       IN  /\ Admit(p, freed, {freed})
           /\ Push("COLD", p, freed, PopBack(cold_list), hot_list)
    /\ UNCHANGED <<free_list, hist, thres>>

\* Mutated MissReplaces: no ghost makes room for the new one.
MissReplacesKeeping(p) ==
    /\ ~IsGhost(hist, p) /\ ColdSide # Capacity /\ Total >= Capacity
    /\ Replace(p, thres, hist, "COLD")

(* get on any other page, all frames used: with 2 * capacity_ pages and    *)
(* ghosts the oldest hot ghost goes first.                                 *)
MissReplaces(p) ==
    /\ ~IsGhost(hist, p) /\ ColdSide # Capacity /\ Total >= Capacity
    /\ Total = 2 * Capacity => CanPop(hist.hot)
    /\ Replace(p, thres, IF Total = 2 * Capacity THEN DropHot(hist) ELSE hist, "COLD")

MissFree(p) ==
    /\ ~IsGhost(hist, p) /\ ColdSide # Capacity /\ Total < Capacity
    /\ CanPop(free_list)
    /\ Admit(p, Back(free_list), {})
    /\ free_list' = PopBack(free_list)
    /\ Push("COLD", p, Back(free_list), cold_list, hot_list)
    /\ UNCHANGED <<hist, thres>>

(* touch: the frame moves to the front of the hot list; the list it leaves *)
(* is the one its state names.                                             *)
Hit(p) ==
    /\ \E f \in Frames :
          /\ Found(p, f) /\ state[f] # "FREE"
          /\ IF state[f] = "COLD"
             THEN /\ cold_list' = ReleaseCallback(Unlink(cold_list, f))
                  /\ hot_list' = PushFront(hot_list, f)
             ELSE /\ hot_list' = PushFront(ReleaseCallback(Unlink(hot_list, f)), f)
                  /\ UNCHANGED cold_list
          /\ state' = [state EXCEPT ![f] = "HOT"]
    /\ UNCHANGED <<free_list, meta_page_id, hist, thres>>

GetPage(p) ==
    \/ MissColdGhost(p) \/ MissHotGhost(p) \/ MissDropsGhost(p) \/ MissDropsCold(p)
    \/ MissReplaces(p) \/ MissFree(p) \/ Hit(p)

Next == \E p \in Pages : GetPage(p)

Spec == Init /\ [][Next]_vars

-----------------------------------------------------------------------------
TypeOK ==
    /\ PoolTypeOK
    /\ {free_list, cold_list, hot_list} \subseteq [nodes : Seq(Frames), size : Nat]
    /\ state \in [Frames -> {"FREE", "COLD", "HOT"}]
    /\ meta_page_id \in [Frames -> Pages \cup {0}]
    /\ thres \in 0..Capacity

(* Every frame is linked in exactly the list its state names, and the      *)
(* counters, from which get computes everything it decides, are right.     *)
ListsMatchStates ==
    /\ Exact(free_list) /\ Exact(cold_list) /\ Exact(hot_list)
    /\ Members(cold_list) = {f \in Frames : state[f] = "COLD"}
    /\ Members(hot_list) = {f \in Frames : state[f] = "HOT"}
    /\ Members(free_list) = {f \in Frames : state[f] = "FREE"}

(* The two page_id fields of a handle agree while its page is resident: a  *)
(* ghost gets the number under which the pool knew the page.               *)
PageIdsAgree == \A p \in Resident : meta_page_id[lookup_tbl[p]] = p

(* The map of the history finds exactly the linked history nodes, and no   *)
(* page is resident and a ghost at once.                                   *)
GhostsAreGone == HistoryConsistent(hist) /\ DOMAIN hist.map \cap Resident = {}

Consistent == TypeOK /\ ListsMatchStates /\ PageIdsAgree /\ GhostsAreGone

(* The sizes that keep ARC adaptive: cold pages with their ghosts stay     *)
(* within capacity_, everything within twice that, and there are ghosts    *)
(* only while all frames are used.                                         *)
DirectoryBounds ==
    /\ cold_list.size + hist.cold.size <= Capacity
    /\ cold_list.size + hist.cold.size + hot_list.size + hist.hot.size <= 2 * Capacity
    /\ DOMAIN hist.map # {} => IsEmpty(free_list)

(* No request stops: no assertion of bufpool.hh, list.hh or arc_policy.hh  *)
(* fails, no history node is missing when replace needs one, and neither   *)
(* division has a zero divisor.                                            *)
EveryRequestServed == \A p \in Pages : ENABLED GetPage(p)

(* The policy keeps the pool's contract. *)
Contract == INSTANCE PoolContract WITH used <- Frames \ Members(free_list)
KeepsContract == Contract!Spec

(* On pages alone the policy is the one AdaptiveCache describes. *)
PagesOf(list) == [i \in DOMAIN list.nodes |-> page_id[list.nodes[i]]]
GhostsOf(list) == [i \in DOMAIN list.nodes |-> hist.page[list.nodes[i]]]

Adaptive == INSTANCE AdaptiveCache
                WITH t1 <- PagesOf(cold_list), t2 <- PagesOf(hot_list),
                     b1 <- GhostsOf(hist.cold), b2 <- GhostsOf(hist.hot),
                     target <- thres
IsAdaptiveCache == Adaptive!Spec
=============================================================================
