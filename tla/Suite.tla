-------------------------------- MODULE Suite --------------------------------
(***************************************************************************)
(* The table of src/main.cc: run_suite replays one trace through the       *)
(* policies one after the other, run_policy giving each a pool of its own, *)
(* so that a row depends on nothing but its policy and the trace.  Here    *)
(* the policy is chosen at the start and the trace is any sequence of      *)
(* requests.  The variables are those of the policy modules; one that the  *)
(* policy does not have keeps the value Unused.  LRU-K is in LRUKPolicy.   *)
(***************************************************************************)
EXTENDS Naturals, TLC

CONSTANTS
    Few, Many, \* the frames of a pool: Many for FIFO and 2Q
    Pages, INVALID_ID, SENTINEL,
    Stores,    \* of the two-queue policy
    MaxCount, MaxMoves  \* bounds on the counters of the LRU list and the recency pool

ASSUME SizesAssumption == Few \in Nat \ {0} /\ Many \in Nat \ {0}

VARIABLES
    policy,
    lookup_tbl, page_id, requested,               \* BufPool
    free_list,                                    \* all policies
    used_list, lru_list, residents,               \* FIFO, LRU, Random
    cold_list, hot_list, state, meta_page_id,     \* 2Q and ARC
    recent_pool, store,                           \* 2Q
    hist, thres                                   \* ARC

queues == <<cold_list, hot_list, state, meta_page_id>>
vars == <<policy, lookup_tbl, page_id, requested, free_list, used_list, lru_list,
          residents, queues, recent_pool, store, hist, thres>>

Fifo   == INSTANCE FifoPolicy WITH Capacity <- Many
LRU    == INSTANCE LRUPolicy WITH Capacity <- Few, MaxSize <- MaxCount
Random == INSTANCE RandomPolicy WITH Capacity <- Few
TwoQ   == INSTANCE TwoQPolicy WITH Capacity <- Many, MaxSize <- MaxMoves
ARC    == INSTANCE ARCPolicy WITH Capacity <- Few

PageSymmetry == Permutations(Pages)  \* page numbers are interchangeable

Unused == <<>>

(* run_policy: each row of the table starts with a new pool. *)
InitFifo ==
    /\ policy = "FIFO" /\ Fifo!Init
    /\ lru_list = Unused /\ residents = Unused

InitLRU ==
    /\ policy = "LRU" /\ LRU!Init
    /\ used_list = Unused /\ residents = Unused

InitRandom ==
    /\ policy = "Random" /\ Random!Init
    /\ used_list = Unused /\ lru_list = Unused

NoQueues ==
    /\ cold_list = Unused /\ hot_list = Unused /\ state = Unused /\ meta_page_id = Unused
    /\ recent_pool = Unused /\ store = Unused /\ hist = Unused /\ thres = Unused

NoList == used_list = Unused /\ lru_list = Unused /\ residents = Unused

InitTwoQ ==
    /\ policy = "2Q" /\ TwoQ!Init
    /\ hist = Unused /\ thres = Unused

InitARC ==
    /\ policy = "ARC" /\ ARC!Init
    /\ recent_pool = Unused /\ store = Unused

Init ==
    \/ NoQueues /\ (InitFifo \/ InitLRU \/ InitRandom)
    \/ NoList /\ (InitTwoQ \/ InitARC)

(* run_loader requests the pages of the trace. *)
RunFifo ==
    /\ policy = "FIFO" /\ Fifo!Next
    /\ UNCHANGED <<policy, lru_list, residents, queues, recent_pool, store, hist, thres>>

RunLRU ==
    /\ policy = "LRU" /\ LRU!Next
    /\ UNCHANGED <<policy, used_list, residents, queues, recent_pool, store, hist, thres>>

RunRandom ==
    /\ policy = "Random" /\ Random!Next
    /\ UNCHANGED <<policy, used_list, lru_list, queues, recent_pool, store, hist, thres>>

RunTwoQ ==
    /\ policy = "2Q" /\ TwoQ!Next
    /\ UNCHANGED <<policy, used_list, lru_list, residents, hist, thres>>

RunARC ==
    /\ policy = "ARC" /\ ARC!Next
    /\ UNCHANGED <<policy, used_list, lru_list, residents, recent_pool, store>>

Next == RunFifo \/ RunLRU \/ RunRandom \/ RunTwoQ \/ RunARC

Spec == Init /\ [][Next]_vars

-----------------------------------------------------------------------------
(* Every policy's frames are linked once, where its state says, and the    *)
(* counters it decides by are right.                                       *)
Consistent ==
    CASE policy = "FIFO"   -> Fifo!Consistent
      [] policy = "LRU"    -> LRU!Consistent
      [] policy = "Random" -> Random!Consistent
      [] policy = "2Q"     -> TwoQ!Consistent
      [] policy = "ARC"    -> ARC!Consistent

(* No request stops at an assertion, a missing history node or a zero      *)
(* divisor, up to the bounds on the two counters that only grow.           *)
EveryRequestServed ==
    CASE policy = "FIFO"   -> Fifo!EveryRequestServed
      [] policy = "LRU"    -> LRU!EveryRequestServed
      [] policy = "Random" -> Random!EveryRequestServed
      [] policy = "2Q"     -> TwoQ!EveryRequestServed
      [] policy = "ARC"    -> ARC!EveryRequestServed

(* Hot pages never take the share of the cold ones in 2Q. *)
ColdShareKept == policy = "2Q" => TwoQ!ColdShareKept

(* ARC's directory stays within its bounds. *)
DirectoryBounds == policy = "ARC" => ARC!DirectoryBounds

(* Every policy keeps the pool's contract. *)
KeepsContract ==
    /\ policy = "FIFO"   => Fifo!Contract!Init
    /\ policy = "LRU"    => LRU!Contract!Init
    /\ policy = "Random" => Random!Contract!Init
    /\ policy = "2Q"     => TwoQ!Contract!Init
    /\ policy = "ARC"    => ARC!Contract!Init
    /\ [][CASE policy = "FIFO"   -> Fifo!Contract!Next
            [] policy = "LRU"    -> LRU!Contract!Next
            [] policy = "Random" -> Random!Contract!Next
            [] policy = "2Q"     -> TwoQ!Contract!Next
            [] policy = "ARC"    -> ARC!Contract!Next]_vars

(* FIFO evicts in the order of arrival, LRU the least recent page, 2Q and  *)
(* ARC what their page-level descriptions say.                             *)
IsFifo ==
    /\ policy = "FIFO" => Fifo!Fifo!Init
    /\ [][policy = "FIFO" => Fifo!Fifo!Next]_vars

IsLRU ==
    /\ policy = "LRU" => LRU!Recent!Init
    /\ [][policy = "LRU" => LRU!Recent!Next]_vars

IsTwoQueues ==
    /\ policy = "2Q" => TwoQ!Queues!Init
    /\ [][policy = "2Q" => TwoQ!Queues!Next]_vars

IsAdaptiveCache ==
    /\ policy = "ARC" => ARC!Adaptive!Init
    /\ [][policy = "ARC" => ARC!Adaptive!Next]_vars
=============================================================================
