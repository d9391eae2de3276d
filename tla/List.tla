-------------------------------- MODULE List --------------------------------
(***************************************************************************)
(* The intrusive doubly linked list of include/list.hh as a value:         *)
(* nodes is the sequence of linked elements from dummy_.next (the front)   *)
(* to dummy_.prev (the back), and size is the counter size_.  The two are  *)
(* separate because ListNode::release unlinks an element without telling   *)
(* its list: a caller has to follow it with _release_callback, and         *)
(* LRUPolicy and RecencyPool do not.                                       *)
(***************************************************************************)
EXTENDS Naturals, Sequences, SequencesExt, SequenceTheorems, FiniteSetTheorems, TLAPS

EmptyList == [nodes |-> <<>>, size |-> 0]

PushFront(l, x) == [nodes |-> <<x>> \o l.nodes, size |-> l.size + 1]

PushBack(l, x) == [nodes |-> Append(l.nodes, x), size |-> l.size + 1]

(* The element pop_back returns, and the list it leaves. *)
Back(l) == Last(l.nodes)

\* Mutated PopBack: size_ is not decremented.
PopBackUncounted(l) == [l EXCEPT !.nodes = Front(@)]

PopBack(l) == [nodes |-> Front(l.nodes), size |-> l.size - 1]

(* The two assertions pop_back makes, in List and in ListNode. *)
CanPop(l) == l.size > 0 /\ l.nodes # <<>>

(* ListNode::release: the neighbours are joined, no counter changes. *)
Unlink(l, x) ==
    [l EXCEPT !.nodes = RemoveAt(@, CHOOSE i \in DOMAIN @ : @[i] = x)]

(* _release_callback: the counter changes, no element does. *)
ReleaseCallback(l) == [l EXCEPT !.size = @ - 1]

(* empty() trusts the counter; its assertion looks at the links as well. *)
IsEmpty(l) == l.size = 0
EmptyAgrees(l) == l.size # 0 \/ l.nodes = <<>>

Members(l) == ToSet(l.nodes)

(* The counter is right, and no element is linked twice. *)
Exact(l) == l.size = Len(l.nodes) /\ IsInjective(l.nodes)

(* A list built by pushing 1, ..., n to the front, as the constructors do. *)
Stacked(n) == [nodes |-> [i \in 1..n |-> n + 1 - i], size |-> n]
ListOf(S) == [nodes : Seq(S), size : Nat]

(* What label says of the elements, in their order: the pages in a list of *)
(* frames, the keys in a list of nodes.                                    *)
Labels(l, label) == [i \in DOMAIN l.nodes |-> label[l.nodes[i]]]

-----------------------------------------------------------------------------
(* What the operations do to the elements and their order, for the proofs  *)
(* about the policies.  None of the facts needs the counter to be right.   *)

(* The elements of a list are those its nodes lead to. *)
LEMMA MembersOfList ==
    ASSUME NEW S, NEW l \in ListOf(S)
    PROVE  /\ DOMAIN l.nodes = 1..Len(l.nodes) /\ Len(l.nodes) \in Nat
           /\ \A i \in 1..Len(l.nodes) : l.nodes[i] \in S /\ l.nodes[i] \in Members(l)
           /\ \A x \in Members(l) : \E i \in 1..Len(l.nodes) : l.nodes[i] = x
           /\ Members(l) \subseteq S
           /\ l.nodes = <<>> <=> Len(l.nodes) = 0
           /\ l.nodes = <<>> <=> Members(l) = {}
<1>1. l.nodes \in Seq(S)
  BY DEF ListOf
<1>2. DOMAIN l.nodes = 1..Len(l.nodes) /\ Len(l.nodes) \in Nat
  BY <1>1, LenProperties
<1>3. \A i \in 1..Len(l.nodes) : l.nodes[i] \in S
  BY <1>1, ElementOfSeq
<1>4. l.nodes = <<>> <=> Len(l.nodes) = 0
  BY <1>1
<1>5. Members(l) = {l.nodes[i] : i \in 1..Len(l.nodes)}
  BY <1>2 DEF Members, ToSet
<1>6. Len(l.nodes) # 0 => 1 \in 1..Len(l.nodes)
  BY <1>2
<1>7. Len(l.nodes) = 0 <=> Members(l) = {}
  <2>1. CASE Len(l.nodes) = 0
    <3>1. 1..Len(l.nodes) = {}
      BY <2>1
    <3> QED
      BY <3>1, <2>1, <1>5
  <2>2. CASE Len(l.nodes) # 0
    <3>1. l.nodes[1] \in Members(l)
      BY <2>2, <1>5, <1>6
    <3> QED
      BY <3>1, <2>2
  <2> QED
    BY <2>1, <2>2
<1> QED
  BY <1>2, <1>3, <1>4, <1>5, <1>7

(* push_front puts the element before all others. *)
LEMMA PushFrontEffect ==
    ASSUME NEW S, NEW l \in ListOf(S), NEW x \in S, x \notin Members(l),
           IsInjective(l.nodes)
    PROVE  /\ PushFront(l, x) \in ListOf(S)
           /\ IsInjective(PushFront(l, x).nodes)
           /\ Members(PushFront(l, x)) = Members(l) \cup {x}
           /\ PushFront(l, x).size = l.size + 1
           /\ Len(PushFront(l, x).nodes) = Len(l.nodes) + 1
           /\ PushFront(l, x).nodes[1] = x
           /\ \A i \in 1..Len(l.nodes) : PushFront(l, x).nodes[i + 1] = l.nodes[i]
<1> DEFINE m == PushFront(l, x)
<1>1. /\ DOMAIN l.nodes = 1..Len(l.nodes) /\ Len(l.nodes) \in Nat
      /\ \A i \in 1..Len(l.nodes) : l.nodes[i] \in S /\ l.nodes[i] \in Members(l)
      /\ \A y \in Members(l) : \E i \in 1..Len(l.nodes) : l.nodes[i] = y
  BY MembersOfList
<1>2. /\ m \in ListOf(S) /\ m.size = l.size + 1
      /\ Len(m.nodes) = Len(l.nodes) + 1
      /\ m.nodes[1] = x
      /\ \A i \in 1..Len(l.nodes) : m.nodes[i + 1] = l.nodes[i]
  BY <1>1 DEF PushFront, ListOf
<1> HIDE DEF m
<1>3. /\ DOMAIN m.nodes = 1..Len(m.nodes)
      /\ \A i \in 1..Len(m.nodes) : m.nodes[i] \in Members(m)
      /\ \A y \in Members(m) : \E i \in 1..Len(m.nodes) : m.nodes[i] = y
  BY ONLY <1>2, MembersOfList
<1>4. \A i \in 1..Len(m.nodes) : i = 1 \/ (i - 1 \in 1..Len(l.nodes) /\ m.nodes[i] = l.nodes[i - 1])
  BY <1>1, <1>2
<1>5. IsInjective(m.nodes)
  <2>1. SUFFICES ASSUME NEW i \in 1..Len(m.nodes), NEW j \in 1..Len(m.nodes),
                        m.nodes[i] = m.nodes[j]
                 PROVE  i = j
    BY <1>3 DEF IsInjective
  <2>2. CASE i = 1 \/ j = 1
    <3>1. ASSUME NEW k \in 1..Len(m.nodes), k # 1 PROVE m.nodes[k] # x
      <4>1. m.nodes[k] \in Members(l)
        BY <3>1, <1>1, <1>4
      <4> QED
        BY <4>1
    <3> QED
      BY <3>1, <2>1, <2>2, <1>2
  <2>3. CASE i # 1 /\ j # 1
    <3>1. i - 1 \in 1..Len(l.nodes) /\ j - 1 \in 1..Len(l.nodes)
          /\ l.nodes[i - 1] = l.nodes[j - 1]
      BY <2>1, <2>3, <1>4
    <3>2. i - 1 = j - 1
      BY <3>1, <1>1 DEF IsInjective
    <3> QED
      BY <3>2
  <2> QED
    BY <2>2, <2>3
<1>6. Members(m) \subseteq Members(l) \cup {x}
  <2>1. \A i \in 1..Len(m.nodes) : m.nodes[i] \in Members(l) \cup {x}
    BY <1>1, <1>2, <1>4
  <2> QED
    BY <2>1, <1>3
<1>7. x \in Members(m) /\ \A y \in Members(l) : y \in Members(m)
  <2>1. 1 \in 1..Len(m.nodes) /\ \A i \in 1..Len(l.nodes) : i + 1 \in 1..Len(m.nodes)
    BY <1>1, <1>2
  <2>2. x \in Members(m) /\ \A i \in 1..Len(l.nodes) : l.nodes[i] \in Members(m)
    BY <2>1, <1>2, <1>3
  <2> QED
    BY <2>2, <1>1
<1> QED
  BY <1>2, <1>5, <1>6, <1>7 DEF m

(* pop_back takes the last element and leaves the others in their order. *)
LEMMA PopBackEffect ==
    ASSUME NEW S, NEW l \in ListOf(S), l.nodes # <<>>, l.size > 0, IsInjective(l.nodes)
    PROVE  /\ PopBack(l) \in ListOf(S)
           /\ IsInjective(PopBack(l).nodes)
           /\ Back(l) \in Members(l) /\ Back(l) \in S
           /\ Back(l) = l.nodes[Len(l.nodes)]
           /\ Members(PopBack(l)) = Members(l) \ {Back(l)}
           /\ PopBack(l).size = l.size - 1
           /\ Len(l.nodes) > 0 /\ Len(PopBack(l).nodes) = Len(l.nodes) - 1
           /\ \A i \in 1..Len(l.nodes) - 1 : PopBack(l).nodes[i] = l.nodes[i]
<1> DEFINE m == PopBack(l)
<1>1. /\ DOMAIN l.nodes = 1..Len(l.nodes) /\ Len(l.nodes) \in Nat /\ Len(l.nodes) > 0
      /\ \A i \in 1..Len(l.nodes) : l.nodes[i] \in S /\ l.nodes[i] \in Members(l)
      /\ \A y \in Members(l) : \E i \in 1..Len(l.nodes) : l.nodes[i] = y
  BY MembersOfList
<1>2. Back(l) = l.nodes[Len(l.nodes)]
  BY DEF Back, Last
<1>3. /\ Front(l.nodes) \in Seq(S) /\ Len(Front(l.nodes)) = Len(l.nodes) - 1
      /\ \A i \in 1..Len(l.nodes) - 1 : Front(l.nodes)[i] = l.nodes[i]
  BY <1>1 DEF Front
<1>4. /\ m \in ListOf(S) /\ m.size = l.size - 1
      /\ Len(m.nodes) = Len(l.nodes) - 1
      /\ \A i \in 1..Len(l.nodes) - 1 : m.nodes[i] = l.nodes[i]
  BY <1>1, <1>3 DEF PopBack, ListOf
<1>5. /\ DOMAIN m.nodes = 1..Len(m.nodes)
      /\ \A i \in 1..Len(m.nodes) : m.nodes[i] \in Members(m)
      /\ \A y \in Members(m) : \E i \in 1..Len(m.nodes) : m.nodes[i] = y
  BY <1>4, MembersOfList
<1> HIDE DEF m
<1>6. \A i \in 1..Len(m.nodes) : i \in 1..Len(l.nodes) /\ i # Len(l.nodes) /\ m.nodes[i] = l.nodes[i]
  BY <1>1, <1>4
<1>7. IsInjective(m.nodes)
  BY <1>1, <1>5, <1>6 DEF IsInjective
<1>8. \A i \in 1..Len(l.nodes) : i = Len(l.nodes) \/ i \in 1..Len(m.nodes)
  BY <1>1, <1>4
<1>9. \A y \in Members(m) : y \in Members(l) /\ y # Back(l)
  <2>1. SUFFICES ASSUME NEW i \in 1..Len(m.nodes)
                 PROVE  m.nodes[i] \in Members(l) /\ m.nodes[i] # Back(l)
    BY <1>5
  <2>2. Len(l.nodes) \in 1..Len(l.nodes)
    BY <1>1
  <2> QED
    BY <2>2, <1>1, <1>2, <1>6 DEF IsInjective
<1>10. \A y \in Members(l) : y = Back(l) \/ y \in Members(m)
  BY <1>1, <1>2, <1>5, <1>6, <1>8
<1>11. Members(m) = Members(l) \ {Back(l)}
  BY <1>9, <1>10
<1>12. Back(l) \in Members(l) /\ Back(l) \in S
  BY <1>1, <1>2
<1> QED
  BY <1>1, <1>2, <1>4, <1>7, <1>11, <1>12 DEF m

(* What is behind the position moves up by one. *)
LEMMA RemoveAtEffect ==
    ASSUME NEW S, NEW s \in Seq(S), NEW k \in 1..Len(s)
    PROVE  /\ RemoveAt(s, k) \in Seq(S) /\ Len(RemoveAt(s, k)) = Len(s) - 1
           /\ \A i \in 1..Len(s) - 1 : RemoveAt(s, k)[i] = IF i < k THEN s[i] ELSE s[i + 1]
<1> DEFINE a == SubSeq(s, 1, k - 1)
           b == SubSeq(s, k + 1, Len(s))
<1>1. /\ a \in Seq(S) /\ Len(a) = k - 1
      /\ \A i \in 1..k - 1 : a[i] = s[i]
  OBVIOUS
<1>2. /\ b \in Seq(S) /\ Len(b) = Len(s) - k
      /\ \A i \in 1..Len(s) - k : b[i] = s[k + i]
  OBVIOUS
<1>3. RemoveAt(s, k) = a \o b
  BY DEF RemoveAt
<1> HIDE DEF a, b
<1>4. /\ a \o b \in Seq(S) /\ Len(a \o b) = Len(s) - 1
      /\ \A i \in 1..Len(s) - 1 : (a \o b)[i] = IF i <= k - 1 THEN a[i] ELSE b[i - (k - 1)]
  <2>1. Len(a) + Len(b) = Len(s) - 1 /\ Len(a) = k - 1
    BY <1>1, <1>2
  <2>2. /\ a \o b \in Seq(S) /\ Len(a \o b) = Len(a) + Len(b)
        /\ \A i \in 1..Len(a) + Len(b) :
              (a \o b)[i] = IF i <= Len(a) THEN a[i] ELSE b[i - Len(a)]
    BY <1>1, <1>2, ConcatProperties
  <2> QED
    BY <2>1, <2>2
<1>5. ASSUME NEW i \in 1..Len(s) - 1
      PROVE  (a \o b)[i] = IF i < k THEN s[i] ELSE s[i + 1]
  <2>1. CASE i < k
    BY <2>1, <1>1, <1>4
  <2>2. CASE ~(i < k)
    <3>1. i - (k - 1) \in 1..Len(s) - k /\ k + (i - (k - 1)) = i + 1
      BY <2>2
    <3> QED
      BY <3>1, <2>2, <1>2, <1>4
  <2> QED
    BY <2>1, <2>2
<1> QED
  BY <1>3, <1>4, <1>5

(* release takes one element out and leaves the others in their order; the *)
(* counter stays as it was.                                                *)
LEMMA UnlinkEffect ==
    ASSUME NEW S, NEW l \in ListOf(S), NEW x \in Members(l), IsInjective(l.nodes)
    PROVE  /\ Unlink(l, x) \in ListOf(S)
           /\ IsInjective(Unlink(l, x).nodes)
           /\ Members(Unlink(l, x)) = Members(l) \ {x}
           /\ Unlink(l, x).size = l.size
           /\ Len(l.nodes) > 0 /\ Len(Unlink(l, x).nodes) = Len(l.nodes) - 1
           /\ \E k \in 1..Len(l.nodes) :
                 /\ l.nodes[k] = x
                 /\ \A i \in 1..Len(l.nodes) - 1 :
                       Unlink(l, x).nodes[i] = IF i < k THEN l.nodes[i] ELSE l.nodes[i + 1]
<1> DEFINE m == Unlink(l, x)
           k == CHOOSE i \in DOMAIN l.nodes : l.nodes[i] = x
<1>1. /\ DOMAIN l.nodes = 1..Len(l.nodes) /\ Len(l.nodes) \in Nat
      /\ \A i \in 1..Len(l.nodes) : l.nodes[i] \in S /\ l.nodes[i] \in Members(l)
      /\ \A y \in Members(l) : \E i \in 1..Len(l.nodes) : l.nodes[i] = y
  BY MembersOfList
<1>2. k \in 1..Len(l.nodes) /\ l.nodes[k] = x
  BY <1>1
<1>3. m = [l EXCEPT !.nodes = RemoveAt(l.nodes, k)]
  BY DEF Unlink
<1> HIDE DEF m, k
<1>4. /\ RemoveAt(l.nodes, k) \in Seq(S) /\ Len(RemoveAt(l.nodes, k)) = Len(l.nodes) - 1
      /\ \A i \in 1..Len(l.nodes) - 1 :
            RemoveAt(l.nodes, k)[i] = IF i < k THEN l.nodes[i] ELSE l.nodes[i + 1]
  BY <1>1, <1>2, RemoveAtEffect DEF ListOf
<1>5. /\ m \in ListOf(S) /\ m.size = l.size
      /\ Len(m.nodes) = Len(l.nodes) - 1
      /\ \A i \in 1..Len(l.nodes) - 1 :
            m.nodes[i] = IF i < k THEN l.nodes[i] ELSE l.nodes[i + 1]
  BY <1>3, <1>4 DEF ListOf
<1>6. /\ DOMAIN m.nodes = 1..Len(m.nodes)
      /\ \A i \in 1..Len(m.nodes) : m.nodes[i] \in Members(m)
      /\ \A y \in Members(m) : \E i \in 1..Len(m.nodes) : m.nodes[i] = y
  BY <1>5, MembersOfList
<1>7. \A i \in 1..Len(m.nodes) :
          \E j \in 1..Len(l.nodes) : j # k /\ m.nodes[i] = l.nodes[j] /\ j = IF i < k THEN i ELSE i + 1
  BY <1>1, <1>2, <1>5
<1>8. IsInjective(m.nodes)
  <2>1. SUFFICES ASSUME NEW i \in 1..Len(m.nodes), NEW j \in 1..Len(m.nodes),
                        m.nodes[i] = m.nodes[j]
                 PROVE  i = j
    BY <1>6 DEF IsInjective
  <2>2. PICK a \in 1..Len(l.nodes) :
            m.nodes[i] = l.nodes[a] /\ a = IF i < k THEN i ELSE i + 1
    BY <1>7
  <2>3. PICK b \in 1..Len(l.nodes) :
            m.nodes[j] = l.nodes[b] /\ b = IF j < k THEN j ELSE j + 1
    BY <1>7
  <2>4. a = b
    BY <2>1, <2>2, <2>3, <1>1 DEF IsInjective
  <2> QED
    <3>1. i \in Int /\ j \in Int /\ k \in Int
      BY <1>2, <1>5
    <3> QED
      BY ONLY <2>2, <2>3, <2>4, <3>1
<1>9. \A y \in Members(m) : y \in Members(l) /\ y # x
  <2>1. \A i \in 1..Len(m.nodes) : m.nodes[i] \in Members(l) /\ m.nodes[i] # x
    <3>1. \A j \in 1..Len(l.nodes) : j # k => l.nodes[j] # x
      BY <1>1, <1>2 DEF IsInjective
    <3> QED
      BY ONLY <1>1, <1>7, <3>1
  <2> QED
    BY <2>1, <1>6
<1>10. \A y \in Members(l) : y = x \/ y \in Members(m)
  <2>1. ASSUME NEW j \in 1..Len(l.nodes), j # k PROVE l.nodes[j] \in Members(m)
    <3>1. CASE j < k
      <4>1. j \in 1..Len(m.nodes) /\ m.nodes[j] = l.nodes[j]
        BY <3>1, <2>1, <1>1, <1>2, <1>5
      <4> QED
        BY <4>1, <1>6
    <3>2. CASE j > k
      <4>1. j - 1 \in 1..Len(m.nodes) /\ ~(j - 1 < k) /\ (j - 1) + 1 = j
        BY <3>2, <1>1, <1>2, <1>5
      <4>2. m.nodes[j - 1] = l.nodes[j]
        BY <4>1, <1>1, <1>2, <1>5
      <4> QED
        BY <4>1, <4>2, <1>6
    <3> QED
      BY <3>1, <3>2, <2>1, <1>1, <1>2
  <2> QED
    BY <2>1, <1>1, <1>2
<1>11. Members(m) = Members(l) \ {x}
  BY <1>9, <1>10
<1>12. \E i \in 1..Len(l.nodes) :
          /\ l.nodes[i] = x
          /\ \A j \in 1..Len(l.nodes) - 1 :
                m.nodes[j] = IF j < i THEN l.nodes[j] ELSE l.nodes[j + 1]
  BY <1>2, <1>5
<1>13. Len(l.nodes) > 0
  BY <1>1, <1>2
<1> QED
  BY <1>5, <1>8, <1>11, <1>12, <1>13 DEF m

(* An element pushed to an empty list comes back from it, which is then    *)
(* empty again.                                                            *)
LEMMA PushThenPop ==
    ASSUME NEW S, NEW l \in ListOf(S), NEW x \in S, l.nodes = <<>>, l.size = 0
    PROVE  /\ Back(PushFront(l, x)) = x
           /\ PopBack(PushFront(l, x)) = EmptyList
<1>1. PushFront(l, x) = [nodes |-> <<x>>, size |-> 1]
  BY DEF PushFront
<1>2. Last(<<x>>) = x /\ Front(<<x>>) = <<>>
  BY DEF Last, Front
<1> QED
  BY <1>1, <1>2 DEF Back, PopBack, EmptyList

(* A list without elements.                                                *)
LEMMA EmptyListEffect ==
    ASSUME NEW S
    PROVE  EmptyList \in ListOf(S) /\ Exact(EmptyList) /\ Members(EmptyList) = {}
<1>1. EmptyList \in ListOf(S) /\ EmptyList.nodes = <<>> /\ EmptyList.size = 0
  BY DEF EmptyList, ListOf
<1>2. IsInjective(<<>>)
  BY DEF IsInjective
<1> QED
  BY <1>1, <1>2, MembersOfList DEF Exact

(* The constructors link every element once. *)
LEMMA StackedEffect ==
    ASSUME NEW n \in Nat
    PROVE  Stacked(n) \in ListOf(1..n) /\ Exact(Stacked(n)) /\ Members(Stacked(n)) = 1..n
<1> DEFINE s == [i \in 1..n |-> n + 1 - i]
<1>1. s \in Seq(1..n) /\ Len(s) = n /\ DOMAIN s = 1..n
  BY DEF s
<1>2. IsInjective(s)
  BY DEF IsInjective
<1>3. ToSet(s) = 1..n
  <2>1. \A i \in 1..n : s[i] \in 1..n
    OBVIOUS
  <2>2. \A x \in 1..n : n + 1 - x \in 1..n /\ s[n + 1 - x] = x
    OBVIOUS
  <2>3. ToSet(s) = {s[i] : i \in 1..n}
    BY DEF ToSet
  <2> HIDE DEF s
  <2> QED
    BY <2>1, <2>2, <2>3
<1> QED
  BY <1>1, <1>2, <1>3 DEF Stacked, ListOf, Exact, Members

(* A list on which no element is linked twice is as long as it has         *)
(* elements.                                                               *)
LEMMA LengthIsCount ==
    ASSUME NEW S, NEW l \in ListOf(S), IsInjective(l.nodes)
    PROVE  IsFiniteSet(Members(l)) /\ Cardinality(Members(l)) = Len(l.nodes)
<1>1. /\ DOMAIN l.nodes = 1..Len(l.nodes) /\ Len(l.nodes) \in Nat
      /\ \A i \in 1..Len(l.nodes) : l.nodes[i] \in Members(l)
      /\ \A x \in Members(l) : \E i \in 1..Len(l.nodes) : l.nodes[i] = x
  BY MembersOfList
<1>2. l.nodes \in [1..Len(l.nodes) -> Members(l)]
  BY <1>1, LenProperties DEF ListOf
<1>3. l.nodes \in Bijection(1..Len(l.nodes), Members(l))
  BY <1>1, <1>2 DEF Bijection, Injection, Surjection, IsInjective
<1>4. IsFiniteSet(1..Len(l.nodes)) /\ Cardinality(1..Len(l.nodes)) = Len(l.nodes)
  BY <1>1, FS_Interval
<1>5. ExistsBijection(1..Len(l.nodes), Members(l))
  BY <1>3 DEF ExistsBijection
<1> QED
  BY <1>4, <1>5, FS_Bijection

(* The same for the lists whose counter is right. *)
LEMMA PushFrontExact ==
    ASSUME NEW S, NEW l \in ListOf(S), NEW x \in S \ Members(l), Exact(l)
    PROVE  /\ PushFront(l, x) \in ListOf(S) /\ Exact(PushFront(l, x))
           /\ Members(PushFront(l, x)) = Members(l) \cup {x}
<1> QED
  BY PushFrontEffect DEF Exact

(* An empty list is exact.                                                 *)
LEMMA EmptyExact ==
    ASSUME NEW S, NEW l \in ListOf(S), Exact(l)
    PROVE  IsEmpty(l) <=> Members(l) = {}
BY MembersOfList DEF Exact, IsEmpty

(* pop_back keeps a list exact.                                            *)
LEMMA PopBackExact ==
    ASSUME NEW S, NEW l \in ListOf(S), CanPop(l), Exact(l)
    PROVE  /\ PopBack(l) \in ListOf(S) /\ Exact(PopBack(l))
           /\ Back(l) \in S /\ Back(l) \in Members(l)
           /\ Members(PopBack(l)) = Members(l) \ {Back(l)}
<1> QED
  BY PopBackEffect DEF Exact, CanPop

(* release followed by _release_callback keeps a list exact.               *)
LEMMA UnlinkExact ==
    ASSUME NEW S, NEW l \in ListOf(S), NEW x \in Members(l), Exact(l)
    PROVE  /\ ReleaseCallback(Unlink(l, x)) \in ListOf(S)
           /\ Exact(ReleaseCallback(Unlink(l, x)))
           /\ Members(ReleaseCallback(Unlink(l, x))) = Members(l) \ {x}
<1> DEFINE m == Unlink(l, x)
<1>1. /\ m \in ListOf(S) /\ IsInjective(m.nodes)
      /\ Members(m) = Members(l) \ {x}
      /\ m.size = l.size /\ Len(l.nodes) > 0 /\ Len(m.nodes) = Len(l.nodes) - 1
  BY UnlinkEffect DEF Exact
<1> HIDE DEF m
<1>2. ReleaseCallback(m) \in ListOf(S) /\ ReleaseCallback(m).nodes = m.nodes
      /\ ReleaseCallback(m).size = m.size - 1
  BY <1>1 DEF ReleaseCallback, ListOf, Exact
<1> QED
  BY <1>1, <1>2 DEF m, Exact, Members

-----------------------------------------------------------------------------
(* The labels follow the elements. *)
LEMMA LabelsTyped ==
    ASSUME NEW S, NEW T, NEW l \in ListOf(S), NEW f, \A x \in S : f[x] \in T
    PROVE  /\ Labels(l, f) \in Seq(T)
           /\ Len(Labels(l, f)) = Len(l.nodes)
           /\ \A i \in 1..Len(l.nodes) : Labels(l, f)[i] = f[l.nodes[i]]
<1>1. /\ DOMAIN l.nodes = 1..Len(l.nodes) /\ Len(l.nodes) \in Nat
      /\ \A i \in 1..Len(l.nodes) : l.nodes[i] \in S
  BY MembersOfList
<1>2. Labels(l, f) = [i \in 1..Len(l.nodes) |-> f[l.nodes[i]]]
  BY <1>1 DEF Labels
<1> QED
  BY <1>1, <1>2

(* The labels of a list are those of its members.                          *)
LEMMA LabelsElements ==
    ASSUME NEW S, NEW l \in ListOf(S), NEW f
    PROVE  ToSet(Labels(l, f)) = {f[x] : x \in Members(l)}
<1>1. ToSet(Labels(l, f)) = {f[l.nodes[i]] : i \in DOMAIN l.nodes}
  BY DEF ToSet, Labels
<1>2. Members(l) = {l.nodes[i] : i \in DOMAIN l.nodes}
  BY DEF Members, ToSet
<1> QED
  BY <1>1, <1>2

(* push_front puts the label of the element before the others.             *)
LEMMA LabelsPushFront ==
    ASSUME NEW S, NEW l \in ListOf(S), NEW x \in S \ Members(l), IsInjective(l.nodes),
           NEW f, NEW g, \A y \in Members(l) : g[y] = f[y]
    PROVE  Labels(PushFront(l, x), g) = <<g[x]>> \o Labels(l, f)
<1> DEFINE T == {f[y] : y \in S} \cup {g[y] : y \in S}
           m == PushFront(l, x)
           s == <<g[x]>> \o Labels(l, f)
<1>0. (\A y \in S : f[y] \in T) /\ (\A y \in S : g[y] \in T)
  OBVIOUS
<1> HIDE DEF T
<1>1. /\ Len(l.nodes) \in Nat
      /\ \A i \in 1..Len(l.nodes) : l.nodes[i] \in S /\ l.nodes[i] \in Members(l)
  BY MembersOfList
<1>2. /\ m \in ListOf(S) /\ Len(m.nodes) = Len(l.nodes) + 1 /\ m.nodes[1] = x
      /\ \A i \in 1..Len(l.nodes) : m.nodes[i + 1] = l.nodes[i]
  BY PushFrontEffect
<1> HIDE DEF m
<1>3. /\ Labels(l, f) \in Seq(T) /\ Len(Labels(l, f)) = Len(l.nodes)
      /\ \A i \in 1..Len(l.nodes) : Labels(l, f)[i] = f[l.nodes[i]]
  BY <1>0, LabelsTyped
<1>4. /\ Labels(m, g) \in Seq(T) /\ Len(Labels(m, g)) = Len(m.nodes)
      /\ \A i \in 1..Len(m.nodes) : Labels(m, g)[i] = g[m.nodes[i]]
  <2>1. m \in ListOf(S)
    BY <1>2
  <2>2. \A y \in S : g[y] \in T
    BY <1>0
  <2> HIDE DEF s
  <2> QED
    BY <2>1, <2>2, LabelsTyped
<1>5. /\ s \in Seq(T) /\ Len(s) = Len(l.nodes) + 1 /\ s[1] = g[x]
      /\ \A i \in 1..Len(l.nodes) : s[i + 1] = f[l.nodes[i]]
  BY <1>0, <1>1, <1>3
<1> HIDE DEF s
<1>6. ASSUME NEW i \in 1..Len(l.nodes) + 1 PROVE Labels(m, g)[i] = s[i]
  <2>1. CASE i = 1
    BY <2>1, <1>1, <1>2, <1>4, <1>5
  <2>2. CASE i # 1
    <3>1. i - 1 \in 1..Len(l.nodes) /\ (i - 1) + 1 = i
      BY <2>2, <1>1
    <3>2. m.nodes[i] = l.nodes[i - 1] /\ s[i] = f[l.nodes[i - 1]]
      BY <3>1, <1>2, <1>5
    <3>3. Labels(m, g)[i] = g[l.nodes[i - 1]] /\ l.nodes[i - 1] \in Members(l)
      BY <3>1, <3>2, <1>1, <1>2, <1>4
    <3> QED
      BY <3>2, <3>3
  <2> QED
    BY <2>1, <2>2
<1>7. Labels(m, g) = s
  BY <1>2, <1>4, <1>5, <1>6, SeqEqual
<1> QED
  BY <1>7 DEF m, s

(* pop_back takes the last label off.                                      *)
LEMMA LabelsPopBack ==
    ASSUME NEW S, NEW l \in ListOf(S), l.nodes # <<>>, l.size > 0, IsInjective(l.nodes), NEW f
    PROVE  /\ Labels(PopBack(l), f) = Front(Labels(l, f))
           /\ f[Back(l)] = Last(Labels(l, f))
<1> DEFINE T == {f[y] : y \in S}
           m == PopBack(l)
           s == Labels(l, f)
<1>0. \A y \in S : f[y] \in T
  OBVIOUS
<1> HIDE DEF T
<1>1. /\ m \in ListOf(S) /\ Len(m.nodes) = Len(l.nodes) - 1 /\ Len(l.nodes) > 0
      /\ Back(l) = l.nodes[Len(l.nodes)]
      /\ \A i \in 1..Len(l.nodes) - 1 : m.nodes[i] = l.nodes[i]
  BY PopBackEffect
<1>2. Len(l.nodes) \in Nat
  BY MembersOfList
<1>3. /\ s \in Seq(T) /\ Len(s) = Len(l.nodes)
      /\ \A i \in 1..Len(l.nodes) : s[i] = f[l.nodes[i]]
  BY <1>0, LabelsTyped
<1> HIDE DEF m, s
<1>4. /\ Labels(m, f) \in Seq(T) /\ Len(Labels(m, f)) = Len(m.nodes)
      /\ \A i \in 1..Len(m.nodes) : Labels(m, f)[i] = f[m.nodes[i]]
  <2>1. m \in ListOf(S)
    BY <1>1
  <2> QED
    BY <2>1, <1>0, LabelsTyped
<1>5. /\ Front(s) \in Seq(T) /\ Len(Front(s)) = Len(l.nodes) - 1
      /\ \A i \in 1..Len(l.nodes) - 1 : Front(s)[i] = s[i]
  BY <1>1, <1>2, <1>3 DEF Front
<1>6. ASSUME NEW i \in 1..Len(l.nodes) - 1 PROVE Labels(m, f)[i] = Front(s)[i]
  <2>1. i \in 1..Len(m.nodes) /\ i \in 1..Len(l.nodes) /\ m.nodes[i] = l.nodes[i]
    BY <1>1, <1>2
  <2>2. Labels(m, f)[i] = f[l.nodes[i]] /\ Front(s)[i] = f[l.nodes[i]]
    BY <2>1, <1>3, <1>4, <1>5
  <2> QED
    BY <2>2
<1>7. Labels(m, f) = Front(s)
  BY <1>1, <1>4, <1>5, <1>6, SeqEqual
<1>8. f[Back(l)] = Last(s)
  BY <1>1, <1>2, <1>3 DEF Last
<1> QED
  BY <1>7, <1>8 DEF m, s

(* Unlinking an element takes its label out, where no other element has    *)
(* it.                                                                     *)
LEMMA LabelsUnlink ==
    ASSUME NEW S, NEW l \in ListOf(S), NEW x \in Members(l), IsInjective(l.nodes), NEW f
    PROVE  \E k \in 1..Len(l.nodes) :
              /\ Labels(l, f)[k] = f[x]
              /\ Labels(Unlink(l, x), f) = RemoveAt(Labels(l, f), k)
<1> DEFINE T == {f[y] : y \in S}
           m == Unlink(l, x)
           s == Labels(l, f)
<1>1. \A y \in S : f[y] \in T
  OBVIOUS
<1> HIDE DEF T
<1>2. /\ m \in ListOf(S) /\ Len(m.nodes) = Len(l.nodes) - 1 /\ Len(l.nodes) > 0
      /\ \E k \in 1..Len(l.nodes) :
            /\ l.nodes[k] = x
            /\ \A i \in 1..Len(l.nodes) - 1 :
                  m.nodes[i] = IF i < k THEN l.nodes[i] ELSE l.nodes[i + 1]
  BY UnlinkEffect
<1>3. PICK k \in 1..Len(l.nodes) :
          /\ l.nodes[k] = x
          /\ \A i \in 1..Len(l.nodes) - 1 :
                m.nodes[i] = IF i < k THEN l.nodes[i] ELSE l.nodes[i + 1]
  BY <1>2
<1>4. Len(l.nodes) \in Nat
  BY MembersOfList
<1>5. /\ s \in Seq(T) /\ Len(s) = Len(l.nodes)
      /\ \A i \in 1..Len(l.nodes) : s[i] = f[l.nodes[i]]
  BY <1>1, LabelsTyped
<1> HIDE DEF m, s
<1>6. /\ Labels(m, f) \in Seq(T) /\ Len(Labels(m, f)) = Len(m.nodes)
      /\ \A i \in 1..Len(m.nodes) : Labels(m, f)[i] = f[m.nodes[i]]
  <2>1. m \in ListOf(S)
    BY <1>2
  <2>2. /\ Labels(m, f) \in Seq(T)
        /\ Len(Labels(m, f)) = Len(m.nodes)
    BY <2>1, <1>1, LabelsTyped
  <2>3. \A i \in 1..Len(m.nodes) : Labels(m, f)[i] = f[m.nodes[i]]
    BY <2>1, MembersOfList DEF Labels
  <2> QED
    BY <2>2, <2>3
<1>7. /\ RemoveAt(s, k) \in Seq(T) /\ Len(RemoveAt(s, k)) = Len(s) - 1
      /\ \A i \in 1..Len(s) - 1 : RemoveAt(s, k)[i] = IF i < k THEN s[i] ELSE s[i + 1]
  BY <1>4, <1>5, RemoveAtEffect
<1>8. ASSUME NEW i \in 1..Len(l.nodes) - 1 PROVE Labels(m, f)[i] = RemoveAt(s, k)[i]
  <2>1. i \in 1..Len(m.nodes) /\ i \in 1..Len(l.nodes) /\ i + 1 \in 1..Len(l.nodes)
    BY <1>2, <1>4
  <2>2. m.nodes[i] = IF i < k THEN l.nodes[i] ELSE l.nodes[i + 1]
    BY <1>3
  <2>3. RemoveAt(s, k)[i] = IF i < k THEN s[i] ELSE s[i + 1]
    BY <1>5, <1>7
  <2>4. Labels(m, f)[i] = f[m.nodes[i]] /\ s[i] = f[l.nodes[i]] /\ s[i + 1] = f[l.nodes[i + 1]]
    BY <2>1, <1>5, <1>6
  <2> QED
    BY <2>2, <2>3, <2>4
<1>9. Labels(m, f) = RemoveAt(s, k)
  BY <1>2, <1>5, <1>6, <1>7, <1>8, SeqEqual
<1> QED
  BY <1>3, <1>5, <1>9 DEF m, s
=============================================================================
