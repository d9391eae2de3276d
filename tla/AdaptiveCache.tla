---------------------------- MODULE AdaptiveCache ----------------------------
(***************************************************************************)
(* What ARCPolicy promises about pages: t1 holds the pages requested once, *)
(* t2 those requested again, b1 and b2 the ghosts of both, all with the    *)
(* most recent first; target is the size t1 is steered to.                 *)
(*                                                                         *)
(* It is the policy published as ARC but for one rule.  There a request    *)
(* for a ghost of b2 takes its victim from t1 also when t1 has exactly its *)
(* target size.  The source has that rule in replace, but asks for it with *)
(* a lookup of the ghost in a map from which get has just erased it, so    *)
(* that it never applies.                                                  *)
(***************************************************************************)
EXTENDS Naturals, Sequences, SequencesExt

CONSTANTS Capacity, Pages

VARIABLES t1, t2, b1, b2, target,
          requested  \* the page of the last request

vars == <<t1, t2, b1, b2, target, requested>>

Init ==
    /\ t1 = <<>> /\ t2 = <<>> /\ b1 = <<>> /\ b2 = <<>>
    /\ target = (Capacity + 3) \div 4

In(p, s) == p \in ToSet(s)

Ghost(p) == In(p, b1) \/ In(p, b2)

Known(p) == In(p, t1) \/ In(p, t2) \/ Ghost(p)

Lesser(m, n) == IF m < n THEN m ELSE n

(* How far one ghost moves the target: by the ratio of the other ghosts to *)
(* its own kind, and at least by one.                                      *)
Step(own, other) == IF Len(other) >= Len(own) THEN Len(other) \div Len(own) ELSE 1

(* A page leaves t1 or t2 for its ghost list, g1 and g2 being the ghosts   *)
(* that remain otherwise; Enter adds the requested page to what is left.   *)
Demote(t, g1, g2, Enter(_, _)) ==
    \/ /\ Len(t1) > t
       /\ b1' = <<Last(t1)>> \o g1 /\ b2' = g2
       /\ Enter(Front(t1), t2)
    \/ /\ Len(t1) <= t
       /\ b2' = <<Last(t2)>> \o g2 /\ b1' = g1
       /\ Enter(t1, Front(t2))

RequestGhost1(p) ==
    /\ In(p, b1)
    /\ target' = Lesser(target + Step(b1, b2), Capacity)
    /\ Demote(target', Remove(b1, p), b2, LAMBDA s1, s2 : t1' = s1 /\ t2' = <<p>> \o s2)

RequestGhost2(p) ==
    /\ In(p, b2)
    /\ target' = target - Lesser(target, Step(b2, b1))
    /\ Demote(target', b1, Remove(b2, p), LAMBDA s1, s2 : t1' = s1 /\ t2' = <<p>> \o s2)

Size == Len(t1) + Len(t2) + Len(b1) + Len(b2)

RequestUnknown(p) ==
    /\ ~Known(p)
    /\ UNCHANGED target
    /\ LET Enter(s1, s2) == t1' = <<p>> \o s1 /\ t2' = s2
       IN  \/ /\ Len(t1) = Capacity
              /\ Enter(Front(t1), t2)
              /\ UNCHANGED <<b1, b2>>
           \/ /\ Len(t1) < Capacity /\ Len(t1) + Len(b1) = Capacity
              /\ Demote(target, Front(b1), b2, Enter)
           \/ /\ Len(t1) + Len(b1) < Capacity /\ Size >= Capacity
              /\ Demote(target, b1, IF Size = 2 * Capacity THEN Front(b2) ELSE b2, Enter)
           \/ /\ Size < Capacity
              /\ Enter(t1, t2)
              /\ UNCHANGED <<b1, b2>>

RequestPresent(p) ==
    /\ In(p, t1) \/ In(p, t2)
    /\ t1' = Remove(t1, p)
    /\ t2' = <<p>> \o Remove(t2, p)
    /\ UNCHANGED <<b1, b2, target>>

Next ==
    \E p \in Pages :
        /\ requested' = p
        /\ RequestGhost1(p) \/ RequestGhost2(p) \/ RequestUnknown(p) \/ RequestPresent(p)

Spec == Init /\ [][Next]_vars
=============================================================================
