------------------------------- MODULE BufPool -------------------------------
(***************************************************************************)
(* The buffer pool of include/bufpool.hh without its eviction policy: the  *)
(* lookup table, the page number every frame carries, and what _get_page   *)
(* does to them around the call of the policy.  The policy modules extend  *)
(* this one; each supplies the frame that policy.get returns and the       *)
(* frames it passed to on_evict on the way.                                *)
(***************************************************************************)
EXTENDS Naturals, FiniteSets

CONSTANTS
    Capacity,   \* num_pages: the number of frames
    Pages,      \* the page numbers that a trace may request
    INVALID_ID  \* the number a frame without a page carries

(* Nothing keeps INVALID_ID out of Pages: 2^64-1 is a number like another. *)
ASSUME CapacityAssumption == Capacity \in Nat \ {0}

Frames == 1..Capacity

VARIABLES
    lookup_tbl, \* partial function from the resident pages to their frames
    page_id,    \* BufferHandle::page_id of every frame
    requested   \* the argument of the last call of get_page, INVALID_ID
                \* before the first: part of what a caller observes

poolVars == <<lookup_tbl, page_id, requested>>

PoolTypeOK ==
    /\ DOMAIN lookup_tbl \subseteq Pages
    /\ lookup_tbl \in [DOMAIN lookup_tbl -> Frames]
    /\ page_id \in [Frames -> Pages \cup {INVALID_ID}]
    /\ requested \in Pages \cup {INVALID_ID}

Resident == DOMAIN lookup_tbl

PoolInit ==
    /\ lookup_tbl = [p \in {} |-> 0]
    /\ page_id = [f \in Frames |-> INVALID_ID] /\ requested = INVALID_ID

-----------------------------------------------------------------------------
\* Mutated IdsAfterEvict: evict_callback does not reset page_id.
IdsAfterEvictKept(V) == page_id

\* Mutated PagesAfterEvict: evict_callback does not erase the page.
PagesAfterEvictKept(V) == Resident

(* evict_callback on each frame of V: the page it carries leaves the table *)
(* and the frame carries no page.                                          *)
IdsAfterEvict(V) == [f \in Frames |-> IF f \in V THEN INVALID_ID ELSE page_id[f]]
PagesAfterEvict(V) == Resident \ {page_id[f] : f \in V}

(* The miss branch of _get_page: the policy evicted the frames V and       *)
(* returned f.  The second conjunct is the assertion on the handle.        *)
Admit(p, f, V) ==
    /\ p \notin Resident
    /\ IdsAfterEvict(V)[f] = INVALID_ID
    /\ page_id' = [IdsAfterEvict(V) EXCEPT ![f] = p]
    /\ lookup_tbl' = [q \in PagesAfterEvict(V) \cup {p} |->
                         IF q = p THEN f ELSE lookup_tbl[q]]
    /\ requested' = p

(* The hit branch: the table and the handle agree, the policy is told. *)
Found(p, f) ==
    /\ p \in Resident
    /\ f = lookup_tbl[p]
    /\ page_id[f] = p
    /\ requested' = p
    /\ UNCHANGED <<lookup_tbl, page_id>>

-----------------------------------------------------------------------------
(* The table and the frames describe the same assignment: a resident page  *)
(* is in the frame that carries its number, and a frame carries a number   *)
(* only for a page the table finds in it.                                  *)
LookupInverse ==
    /\ \A p \in Resident : page_id[lookup_tbl[p]] = p
    /\ \A f \in Frames : page_id[f] # INVALID_ID =>
           page_id[f] \in Resident /\ lookup_tbl[page_id[f]] = f
=============================================================================
