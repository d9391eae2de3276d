---------------------------- MODULE PoolContract ----------------------------
(***************************************************************************)
(* What BufPool may expect of any eviction policy (the IsEvictionPolicy    *)
(* concept, read with the way BufPool uses get): a request for a page that *)
(* is not resident takes a frame that was not handed out, or, only when    *)
(* every frame is, evicts exactly one page and reuses its frame; a request *)
(* for a resident page changes nothing.  used is the set of frames handed  *)
(* out and not yet evicted.  Every policy module refines this one.         *)
(***************************************************************************)
EXTENDS BufPool

VARIABLE used

vars == <<poolVars, used>>

Init == PoolInit /\ used = {}

MissFree(p) ==
    \E f \in Frames \ used :
        /\ Admit(p, f, {})
        /\ used' = used \cup {f}

\* Mutated MissEvict: a policy that evicts with frames to spare.
MissEvictEarly(p) ==
    /\ \E f \in Frames : Admit(p, f, {f}) /\ used' = used \cup {f}

MissEvict(p) ==
    /\ used = Frames
    /\ \E f \in Frames : Admit(p, f, {f})
    /\ UNCHANGED used

Hit(p) ==
    /\ \E f \in Frames : Found(p, f)
    /\ UNCHANGED used

GetPage(p) == MissFree(p) \/ MissEvict(p) \/ Hit(p)

Next == \E p \in Pages : GetPage(p)

Spec == Init /\ [][Next]_vars

-----------------------------------------------------------------------------
TypeOK == PoolTypeOK /\ used \subseteq Frames

(* The frames handed out are the frames in the table, each under the page  *)
(* whose number it carries; the others carry no page.                      *)
UsedIsMapped ==
    /\ \A p \in Resident : lookup_tbl[p] \in used
    /\ \A f \in used : page_id[f] \in Resident /\ lookup_tbl[page_id[f]] = f
    /\ \A f \in Frames \ used : page_id[f] = INVALID_ID

LookupCorrect == LookupInverse /\ UsedIsMapped

(* The pool never holds more pages than frames, and holds exactly as many  *)
(* as it handed frames out.                                                *)
CapacityRespected ==
    Cardinality(Resident) = Cardinality(used) /\ Cardinality(Resident) <= Capacity

(* A step that loses a page loses one, at capacity, for the sake of a page *)
(* that was missing: the eviction that BufPoolRunner::access predicts from *)
(* contains and resident_pages before it calls get_page is the eviction    *)
(* that happens.  A page that stays resident stays in its frame, so that   *)
(* data() of a page does not change while the page is in the pool.         *)
EvictsOneWhenFull ==
    Resident \ Resident' # {} =>
        /\ Cardinality(Resident) = Capacity
        /\ Cardinality(Resident \ Resident') = 1
        /\ Cardinality(Resident' \ Resident) = 1

PagesDoNotMove ==
    \A p \in Resident \cap Resident' : lookup_tbl'[p] = lookup_tbl[p]

PagesKept == [][EvictsOneWhenFull /\ PagesDoNotMove]_vars
=============================================================================
