------------------------- MODULE PoolContractProofs -------------------------
(***************************************************************************)
(* Proofs of the safety properties of PoolContract for every capacity,     *)
(* every set of page numbers and every INVALID_ID, one of the page numbers *)
(* or not.                                                                 *)
(***************************************************************************)
EXTENDS PoolContract, FiniteSetTheorems, TLAPS

(* The table, the numbers in the frames and the frames handed out describe *)
(* one assignment.  No part is inductive without the others: Admit needs   *)
(* UsedIsMapped to know that the frame it fills appears nowhere else in    *)
(* the table, and LookupInverse to know that evicting a frame removes only *)
(* the page of that frame.                                                 *)
IInv == TypeOK /\ LookupInverse /\ UsedIsMapped

(* The initial pool is empty on all three sides. *)
LEMMA InitIInv == Init => IInv
<1> SUFFICES ASSUME Init PROVE IInv
  OBVIOUS
<1> USE DEF Init, PoolInit
<1>1. TypeOK
  BY DEF TypeOK, PoolTypeOK
<1>2. LookupInverse
  BY DEF LookupInverse, Resident
<1>3. UsedIsMapped
  BY DEF UsedIsMapped, Resident
<1> QED
  BY <1>1, <1>2, <1>3 DEF IInv

(* What Admit does, told without the auxiliary functions. *)
LEMMA AdmitEffect ==
    ASSUME NEW p \in Pages, NEW f \in Frames, NEW V \in SUBSET Frames,
           IInv, Admit(p, f, V)
    PROVE  /\ p \notin Resident
           /\ Resident' = (Resident \ {page_id[g] : g \in V}) \cup {p}
           /\ lookup_tbl' \in [Resident' -> Frames]
           /\ lookup_tbl'[p] = f
           /\ \A q \in Resident' : q # p => lookup_tbl'[q] = lookup_tbl[q]
           /\ page_id' \in [Frames -> Pages \cup {INVALID_ID}]
           /\ requested' = p
           /\ page_id'[f] = p
           /\ \A g \in Frames : g # f =>
                 page_id'[g] = IF g \in V THEN INVALID_ID ELSE page_id[g]
<1> USE DEF IInv, TypeOK, PoolTypeOK, Admit, IdsAfterEvict, PagesAfterEvict, Resident
<1>1. IdsAfterEvict(V) \in [Frames -> Pages \cup {INVALID_ID}]
  OBVIOUS
<1>2. /\ page_id' = [IdsAfterEvict(V) EXCEPT ![f] = p]
      /\ lookup_tbl' = [q \in PagesAfterEvict(V) \cup {p} |->
                           IF q = p THEN f ELSE lookup_tbl[q]]
  OBVIOUS
<1>3. /\ page_id' \in [Frames -> Pages \cup {INVALID_ID}]
      /\ page_id'[f] = p
      /\ \A g \in Frames : g # f =>
            page_id'[g] = IF g \in V THEN INVALID_ID ELSE page_id[g]
  BY <1>1, <1>2
<1>4. DOMAIN lookup_tbl' = (DOMAIN lookup_tbl \ {page_id[g] : g \in V}) \cup {p}
  BY <1>2
<1>5. \A q \in DOMAIN lookup_tbl' : lookup_tbl'[q] = IF q = p THEN f ELSE lookup_tbl[q]
  BY <1>2, <1>4
<1>6. lookup_tbl' \in [DOMAIN lookup_tbl' -> Frames]
  BY <1>2, <1>4, <1>5
<1> QED
  BY <1>3, <1>4, <1>5, <1>6

(* A miss that finds a frame to spare keeps the invariant. *)
LEMMA MissFreeIInv ==
    ASSUME NEW p \in Pages, IInv, MissFree(p)
    PROVE  IInv'
<1> USE DEF IInv
<1>1. PICK f \in Frames \ used : Admit(p, f, {}) /\ used' = used \cup {f}
  BY DEF MissFree
<1>2. /\ p \notin Resident
      /\ Resident' = Resident \cup {p}
      /\ lookup_tbl' \in [Resident' -> Frames]
      /\ lookup_tbl'[p] = f
      /\ \A q \in Resident : lookup_tbl'[q] = lookup_tbl[q]
      /\ page_id' \in [Frames -> Pages \cup {INVALID_ID}]
      /\ page_id'[f] = p
      /\ \A g \in Frames : g # f => page_id'[g] = page_id[g]
      /\ requested' = p
  BY <1>1, AdmitEffect
<1>3. TypeOK'
  BY <1>1, <1>2 DEF TypeOK, PoolTypeOK, Resident
<1>4. \A q \in Resident : lookup_tbl[q] \in used
  BY DEF UsedIsMapped
<1>5. LookupInverse'
  BY <1>1, <1>2, <1>4 DEF LookupInverse, TypeOK, PoolTypeOK, Resident
<1>6. UsedIsMapped'
  BY <1>1, <1>2, <1>4 DEF UsedIsMapped, TypeOK
<1> QED
  BY <1>3, <1>5, <1>6

(* So does a miss that evicts: the evicted page is the only one that the   *)
(* table had in the frame.                                                 *)
LEMMA MissEvictIInv ==
    ASSUME NEW p \in Pages, IInv, MissEvict(p)
    PROVE  IInv'
<1> USE DEF IInv
<1>1. PICK f \in Frames : Admit(p, f, {f}) /\ used' = used /\ used = Frames
  BY DEF MissEvict
<1>2. /\ p \notin Resident
      /\ Resident' = (Resident \ {page_id[f]}) \cup {p}
      /\ lookup_tbl' \in [Resident' -> Frames]
      /\ lookup_tbl'[p] = f
      /\ \A q \in Resident' : q # p => lookup_tbl'[q] = lookup_tbl[q]
      /\ page_id' \in [Frames -> Pages \cup {INVALID_ID}]
      /\ page_id'[f] = p
      /\ \A g \in Frames : g # f => page_id'[g] = page_id[g]
      /\ requested' = p
  BY <1>1, AdmitEffect
<1>3. TypeOK'
  BY <1>1, <1>2 DEF TypeOK, PoolTypeOK, Resident
<1>4. \A g \in Frames : page_id[g] \in Resident /\ lookup_tbl[page_id[g]] = g
  BY <1>1 DEF UsedIsMapped
<1>5. \A g \in Frames : g # f => page_id[g] \in Resident' /\ page_id[g] # p
  BY <1>2, <1>4
<1>6. \A q \in Resident' : q # p => lookup_tbl[q] \in Frames /\ lookup_tbl[q] # f
  BY <1>2 DEF LookupInverse, TypeOK, PoolTypeOK, Resident
<1>7. LookupInverse'
  BY <1>2, <1>4, <1>5, <1>6 DEF LookupInverse
<1>8. UsedIsMapped'
  BY <1>1, <1>2, <1>4, <1>5, <1>6 DEF UsedIsMapped, TypeOK
<1> QED
  BY <1>3, <1>7, <1>8

(* A hit changes nothing. *)
LEMMA HitIInv ==
    ASSUME NEW p \in Pages, IInv, Hit(p)
    PROVE  IInv'
BY DEF Hit, Found, poolVars, IInv, TypeOK, PoolTypeOK, LookupInverse, UsedIsMapped, Resident

(* Every request keeps the assignment.                                     *)
LEMMA NextIInv == IInv /\ [Next]_vars => IInv'
<1> SUFFICES ASSUME IInv, [Next]_vars PROVE IInv'
  OBVIOUS
<1>1. ASSUME NEW p \in Pages, MissFree(p) PROVE IInv'
  BY <1>1, MissFreeIInv
<1>2. ASSUME NEW p \in Pages, MissEvict(p) PROVE IInv'
  BY <1>2, MissEvictIInv
<1>3. ASSUME NEW p \in Pages, Hit(p) PROVE IInv'
  BY <1>3, HitIInv
<1>4. CASE UNCHANGED vars
  BY <1>4 DEF vars, poolVars, IInv, TypeOK, PoolTypeOK, LookupInverse, UsedIsMapped, Resident
<1> QED
  BY <1>1, <1>2, <1>3, <1>4 DEF Next, GetPage

(* The table and the frames describe one assignment in every state.        *)
THEOREM Invariance == Spec => []IInv
<1>1. Init => IInv
  BY InitIInv
<1>2. IInv /\ [Next]_vars => IInv'
  BY NextIInv
<1> QED
  BY <1>1, <1>2, PTL DEF Spec

(* The variables of the pool keep their types. *)
THEOREM TypeCorrect == Spec => []TypeOK
<1>1. IInv => TypeOK
  BY DEF IInv
<1> QED
  BY <1>1, Invariance, PTL

(* _get_page finds a resident page in the frame that carries its number,   *)
(* and evict_callback removes the page that the frame holds.               *)
THEOREM LookupIsCorrect == Spec => []LookupCorrect
<1>1. IInv => LookupCorrect
  BY DEF IInv, LookupCorrect
<1> QED
  BY <1>1, Invariance, PTL

-----------------------------------------------------------------------------
(* The table is a bijection from the resident pages to the used frames. *)
LEMMA SameCardinality ==
    ASSUME IInv
    PROVE  /\ IsFiniteSet(Resident)
           /\ Cardinality(Resident) = Cardinality(used)
           /\ Cardinality(Resident) <= Capacity
           /\ used = Frames => Cardinality(Resident) = Capacity
<1>1. IsFiniteSet(Frames) /\ Cardinality(Frames) = Capacity
  BY FS_Interval, CapacityAssumption DEF Frames
<1>2. IsFiniteSet(used) /\ Cardinality(used) <= Capacity
  BY <1>1, FS_Subset DEF IInv, TypeOK
<1>3. lookup_tbl \in [Resident -> used]
  BY DEF IInv, TypeOK, PoolTypeOK, UsedIsMapped, Resident
<1>4. \A p, q \in Resident : lookup_tbl[p] = lookup_tbl[q] => p = q
  BY DEF IInv, LookupInverse
<1>5. \A f \in used : \E p \in Resident : lookup_tbl[p] = f
  BY DEF IInv, UsedIsMapped
<1>6. lookup_tbl \in Injection(Resident, used) /\ lookup_tbl \in Surjection(Resident, used)
  BY <1>3, <1>4, <1>5 DEF Injection, Surjection, IsInjective
<1> QED
  BY <1>1, <1>2, <1>6, FS_Injection

(* resident_pages() never exceeds capacity(), and counts the used frames. *)
THEOREM CapacityHolds == Spec => []CapacityRespected
<1>1. IInv => CapacityRespected
  BY SameCardinality DEF CapacityRespected
<1> QED
  BY <1>1, Invariance, PTL

(* What each kind of step does to the set of resident pages. *)
LEMMA ResidentSteps ==
    ASSUME IInv, [Next]_vars
    PROVE  \/ Resident' = Resident /\ UNCHANGED lookup_tbl
           \/ /\ \E p \in Pages : Resident' \ Resident = {p} /\ Resident \ Resident' = {}
              /\ \A q \in Resident : lookup_tbl'[q] = lookup_tbl[q]
           \/ /\ used = Frames
              /\ \E p \in Pages : Resident' \ Resident = {p}
              /\ \E v \in Resident : Resident \ Resident' = {v}
              /\ \A q \in Resident \cap Resident' : lookup_tbl'[q] = lookup_tbl[q]
<1>1. ASSUME NEW p \in Pages, MissFree(p)
      PROVE  /\ Resident' \ Resident = {p} /\ Resident \ Resident' = {}
             /\ \A q \in Resident : lookup_tbl'[q] = lookup_tbl[q]
  <2>1. PICK f \in Frames \ used : Admit(p, f, {})
    BY <1>1 DEF MissFree
  <2>2. /\ p \notin Resident /\ Resident' = Resident \cup {p}
        /\ \A q \in Resident' : q # p => lookup_tbl'[q] = lookup_tbl[q]
    BY <2>1, AdmitEffect
  <2> QED
    BY <2>2
<1>2. ASSUME NEW p \in Pages, MissEvict(p)
      PROVE  /\ used = Frames
             /\ Resident' \ Resident = {p}
             /\ \E v \in Resident : Resident \ Resident' = {v}
             /\ \A q \in Resident \cap Resident' : lookup_tbl'[q] = lookup_tbl[q]
  <2>1. PICK f \in Frames : Admit(p, f, {f}) /\ used = Frames
    BY <1>2 DEF MissEvict
  <2>2. page_id[f] \in Resident
    BY <2>1 DEF IInv, UsedIsMapped
  <2>3. /\ p \notin Resident /\ Resident' = (Resident \ {page_id[f]}) \cup {p}
        /\ \A q \in Resident' : q # p => lookup_tbl'[q] = lookup_tbl[q]
    BY <2>1, AdmitEffect
  <2>4. Resident \ Resident' = {page_id[f]} /\ Resident' \ Resident = {p}
    BY <2>2, <2>3
  <2> QED
    BY <2>1, <2>2, <2>3, <2>4
<1>3. ASSUME NEW p \in Pages, Hit(p)
      PROVE  Resident' = Resident /\ UNCHANGED lookup_tbl
  BY <1>3 DEF Hit, Found, poolVars, Resident
<1>4. ASSUME UNCHANGED vars
      PROVE  Resident' = Resident /\ UNCHANGED lookup_tbl
  BY <1>4 DEF vars, poolVars, Resident
<1> QED
  BY <1>1, <1>2, <1>3, <1>4 DEF Next, GetPage

(* A step that loses a page loses exactly one, and only when the pool is   *)
(* full: what BufPoolRunner::access predicts.                              *)
LEMMA OneEviction ==
    ASSUME IInv, [Next]_vars
    PROVE  EvictsOneWhenFull
<1> SUFFICES ASSUME Resident \ Resident' # {}
             PROVE  /\ Cardinality(Resident) = Capacity
                    /\ Cardinality(Resident \ Resident') = 1
                    /\ Cardinality(Resident' \ Resident) = 1
  BY DEF EvictsOneWhenFull
<1> QED
  BY ResidentSteps, SameCardinality, FS_Singleton

(* No step moves a page from one frame to another, and evictions are the   *)
(* ones that were predicted.                                               *)
THEOREM PagesAreKept == Spec => PagesKept
<1>1. ASSUME IInv, [Next]_vars
      PROVE  [EvictsOneWhenFull /\ PagesDoNotMove]_vars
  BY <1>1, OneEviction, ResidentSteps DEF PagesDoNotMove
<1> QED
  BY <1>1, Invariance, PTL DEF Spec, PagesKept
=============================================================================
