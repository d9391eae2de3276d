---------------------------- MODULE RecencyStack ----------------------------
(***************************************************************************)
(* The Depth most recently accessed items, most recent first, each once.   *)
(* It is what LRU replacement promises about the resident pages.           *)
(***************************************************************************)
EXTENDS Naturals, Sequences, Functions

CONSTANTS Depth, Items

VARIABLES stack,
          requested  \* the item of the last call

vars == <<stack, requested>>

Init == stack = <<>>

(* s, in which no item is twice, without x. *)
Without(s, x) ==
    LET k == CHOOSE i \in DOMAIN s : s[i] = x
    IN  IF x \in Range(s) THEN SubSeq(s, 1, k - 1) \o SubSeq(s, k + 1, Len(s)) ELSE s

(* The first Depth items of s with x moved or added to its front. *)
Raised(s, x) ==
    LET t == <<x>> \o Without(s, x)
    IN  SubSeq(t, 1, IF Len(t) > Depth THEN Depth ELSE Len(t))

Access(x) == requested' = x /\ stack' = Raised(stack, x)

Next == \E x \in Items : Access(x)

Spec == Init /\ [][Next]_vars
=============================================================================
