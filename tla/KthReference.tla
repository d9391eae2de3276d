---------------------------- MODULE KthReference ----------------------------
(***************************************************************************)
(* Replacement by the K-th last reference, on pages alone.  history[p] has *)
(* the times of the last K references of page p, the oldest first, 0 for   *)
(* those that did not happen.  A reference that follows the last counted   *)
(* one within the grace period does not count.  A victim's history is      *)
(* remembered until Depth later victims displaced it or the page is back.  *)
(***************************************************************************)
EXTENDS Naturals, Sequences, FiniteSets, SequencesExt

CONSTANTS
    Items, Room, K,
    Horizon  \* the clock has the values 1, ..., Horizon - 1, and stops at 0

VARIABLES
    resident,   \* the pages in the cache, at most Room
    history,    \* of the resident and the remembered pages
    remembered, \* the latest victims that are not resident, latest first
    requested,  \* the page of the last request
    now,        \* the number of the next counted reference
    grace, depth

vars == <<resident, history, remembered, requested, now, grace, depth>>

Unreferenced == [i \in 1..K |-> 0]

Init ==
    /\ resident = {} /\ history = [p \in {} |-> Unreferenced] /\ remembered = <<>>
    /\ now = 1
    /\ grace \in Nat /\ depth \in Nat

Correlated(h) == h[K] # 0 /\ now - h[K] <= grace

(* The K-th last reference decides; among pages with equal ones, those     *)
(* with fewer than K references included, the later references do.         *)
Earlier(g, h) == \E i \in 1..K : g[i] < h[i] /\ \A j \in 1..(i - 1) : g[j] = h[j]

(* While the clock runs p is referenced with history h; the pages R   *)
(* and the victims V stay.                                                 *)
Reference(p, h, R, V) ==
    /\ now # 0
    /\ requested' = p
    /\ resident' = R \cup {p}
    /\ remembered' = V
    /\ history' = [q \in R \cup {p} \cup ToSet(V) |->
                      IF q # p THEN history[q]
                      ELSE IF Correlated(h) THEN h ELSE Append(Tail(h), now)]
    /\ now' = IF Correlated(h) THEN now ELSE (now + 1) % Horizon
    /\ UNCHANGED <<grace, depth>>

(* p is fetched; the pages R and the victims V are there. *)
Fetch(p, R, V) ==
    Reference(p, IF Contains(V, p) THEN history[p] ELSE Unreferenced, R, Remove(V, p))

Hit(p) == p \in resident /\ Reference(p, history[p], resident, remembered)

FetchFree(p) ==
    /\ p \notin resident /\ Cardinality(resident) < Room
    /\ Fetch(p, resident, remembered)

FetchEvict(p) ==
    /\ p \notin resident /\ Cardinality(resident) = Room
    /\ \E victim \in resident :
          /\ \A q \in resident \ {victim} : Earlier(history[victim], history[q])
          /\ LET V == <<victim>> \o remembered
             IN  Fetch(p, resident \ {victim},
                       SubSeq(V, 1, IF Len(V) > depth THEN depth ELSE Len(V)))

Next == \E p \in Items : Hit(p) \/ FetchFree(p) \/ FetchEvict(p)

Spec == Init /\ [][Next]_vars
=============================================================================
