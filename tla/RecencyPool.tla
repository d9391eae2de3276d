---------------------------- MODULE RecencyPool -----------------------------
(***************************************************************************)
(* The RecencyPool of include/recency_pool.hh as a value, for the policies *)
(* that keep one.  A pool has a fixed set of nodes 1, ..., capacity_:      *)
(*   map   recently_evicted_, from the remembered keys to their values     *)
(*         and nodes,                                                      *)
(*   key   the key in every node, SENTINEL in a node that is not in use,   *)
(*   list  all nodes, the most recently inserted first.                    *)
(* insert and take unlink a node without _release_callback, so the counter *)
(* of list grows with every key inserted again and every key taken.        *)
(***************************************************************************)
EXTENDS Naturals, Sequences, FiniteSets, List

CONSTANT SENTINEL  \* RecentNode::SENTINEL, which is 2^64-1

(* The value of RecencyPool<void>, whose map holds nodes only. *)
Void == <<>>

EmptyPool(capacity) ==
    [map  |-> [k \in {} |-> [value |-> Void, node |-> 0]],
     key  |-> [n \in 1..capacity |-> SENTINEL],
     list |-> Stacked(capacity)]

Remembers(pool, k) == k \in DOMAIN pool.map

Forgotten(map, k) == [j \in DOMAIN map \ {k} |-> map[j]]

Recorded(map, k, v, n) ==
    [j \in DOMAIN map \cup {k} |-> IF j = k THEN [value |-> v, node |-> n] ELSE map[j]]

(* A key that is there moves to the front, with the new value. *)
Refreshed(pool, k, v) ==
    LET node == pool.map[k].node
    IN  [pool EXCEPT !.list = PushFront(Unlink(@, node), node), !.map[k].value = v]

(* A new key takes the node at the back from the key it holds. *)
Replaced(pool, k, v) ==
    LET node == Back(pool.list)
        kept == IF pool.key[node] # SENTINEL
                THEN Forgotten(pool.map, pool.key[node]) ELSE pool.map
    IN  [map  |-> Recorded(kept, k, v, node),
         key  |-> [pool.key EXCEPT ![node] = k],
         list |-> PushFront(PopBack(pool.list), node)]

Insert(pool, k, v) ==
    IF Remembers(pool, k) THEN Refreshed(pool, k, v) ELSE Replaced(pool, k, v)

(* What insert asserts: pop_back finds a node, and, in RecencyPool<void>,  *)
(* the pool is full when the node at the back holds a key.                 *)
InsertAsserts(pool, k) ==
    ~Remembers(pool, k) =>
        /\ CanPop(pool.list)
        /\ pool.key[Back(pool.list)] # SENTINEL =>
               Cardinality(DOMAIN pool.map) = Cardinality(DOMAIN pool.key)

(* take, of RecencyPool<V> only, which returns the value: the node goes to *)
(* the back, unused.                                                       *)
Taken(pool, k) == pool.map[k].value
Take(pool, k) ==
    LET node == pool.map[k].node
    IN  [map  |-> Forgotten(pool.map, k),
         key  |-> [pool.key EXCEPT ![node] = SENTINEL],
         list |-> PushBack(Unlink(pool.list, node), node)]

-----------------------------------------------------------------------------
(* The keys of the nodes in use, which come first in the list. *)
Keys(pool) == SubSeq(Labels(pool.list, pool.key), 1, Cardinality(DOMAIN pool.map))

(* The map leads from each remembered key to the node that holds it, every *)
(* node with a key is found that way, and all nodes stay linked.           *)
PoolConsistent(pool) ==
    /\ \A k \in DOMAIN pool.map : pool.key[pool.map[k].node] = k
    /\ \A n \in DOMAIN pool.key : pool.key[n] # SENTINEL =>
           pool.key[n] \in DOMAIN pool.map /\ pool.map[pool.key[n]].node = n
    /\ IsInjective(pool.list.nodes) /\ Members(pool.list) = DOMAIN pool.key
    /\ pool.list.size >= Len(pool.list.nodes)
=============================================================================
