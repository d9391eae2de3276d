----------------------------- MODULE Selections -----------------------------
(***************************************************************************)
(* The elements of a sequence that are in a set, in their order, which a   *)
(* loop with a test picks, and induction over the natural numbers, by      *)
(* which what such a loop computes is proved for every sequence.           *)
(***************************************************************************)
EXTENDS Naturals, Sequences, SequencesExt, SequenceTheorems, WellFoundedInduction, TLAPS

Selected(s, S) ==
    LET picked[n \in 0..Len(s)] ==
            IF n = 0 THEN <<>>
            ELSE IF s[n] \in S THEN Append(picked[n - 1], s[n])
            ELSE picked[n - 1]
    IN  picked[Len(s)]

(* f[n] is what is picked from the first n elements of s, for n up to m. *)
IsPicked(f, s, S, m) ==
    f = [n \in 0..m |-> IF n = 0 THEN <<>>
                        ELSE IF s[n] \in S THEN Append(f[n - 1], s[n])
                        ELSE f[n - 1]]

-----------------------------------------------------------------------------
(* The natural numbers are well-founded under <. *)
LEMMA LessOnNat == IsWellFoundedOn({ss \in Nat \X Nat : ss[1] < ss[2]}, Nat)
  BY NatLessThanWellFounded DEF OpToRel

(* A set of natural numbers that is not empty has a least element. *)
LEMMA LeastNumber ==
    ASSUME NEW T \in SUBSET Nat, T # {}
    PROVE  \E n \in T : \A m \in T : n <= m
<1> DEFINE R == {ss \in Nat \X Nat : ss[1] < ss[2]}
<1>1. PICK n \in T : \A m \in T : <<m, n>> \notin R
  <2> HIDE DEF R
  <2>1. IsWellFoundedOn(R, Nat)
    BY LessOnNat DEF R
  <2> QED
    BY <2>1, WFMin
<1>2. ASSUME NEW m \in T PROVE n <= m
  <2>1. <<m, n>> \in Nat \X Nat /\ <<m, n>>[1] = m /\ <<m, n>>[2] = n
    OBVIOUS
  <2>2. ~(m < n)
    BY <2>1, <1>1
  <2> QED
    BY <2>2
<1> QED
  BY <1>2

(* Induction: a set that contains 0 and, with every natural number, the    *)
(* next one, contains them all.                                            *)
LEMMA Induction ==
    ASSUME NEW T, 0 \in T, \A n \in Nat : n \in T => n + 1 \in T
    PROVE  \A n \in Nat : n \in T
<1> DEFINE Out == {n \in Nat : n \notin T}
<1>1. SUFFICES ASSUME Out # {} PROVE FALSE
  OBVIOUS
<1>2. PICK n \in Out : \A m \in Out : n <= m
  <2> HIDE DEF Out
  <2>1. Out \in SUBSET Nat
    BY DEF Out
  <2> QED
    BY <1>1, <2>1, LeastNumber
<1>3. n # 0 /\ n - 1 \in Nat /\ n - 1 \notin Out
  BY <1>2
<1> QED
  BY <1>3, <1>2

(* The recursive definition of picked has a solution. *)
LEMMA PickedExists ==
    ASSUME NEW s, NEW S, NEW k \in Nat
    PROVE  \E f : IsPicked(f, s, S, k)
<1> DEFINE T == {n \in Nat : \E f : IsPicked(f, s, S, n)}
<1>1. 0 \in T
  <2> DEFINE f == [n \in 0..0 |-> <<>>]
  <2>1. IsPicked(f, s, S, 0)
    BY DEF IsPicked
  <2> HIDE DEF f
  <2> QED
    BY <2>1
<1>2. ASSUME NEW m \in Nat, m \in T PROVE m + 1 \in T
  <2>1. PICK f : IsPicked(f, s, S, m)
    BY <1>2
  <2> DEFINE last == IF s[m + 1] \in S THEN Append(f[m], s[m + 1]) ELSE f[m]
             g == [n \in 0..(m + 1) |-> IF n \in 0..m THEN f[n] ELSE last]
  <2>2. \A n \in 0..m : f[n] = IF n = 0 THEN <<>>
                             ELSE IF s[n] \in S THEN Append(f[n - 1], s[n])
                             ELSE f[n - 1]
    BY <2>1 DEF IsPicked
  <2>3. \A n \in 0..m : g[n] = f[n]
    OBVIOUS
  <2>4. g[m + 1] = last
    OBVIOUS
  <2>5. \A n \in 0..(m + 1) : g[n] = IF n = 0 THEN <<>>
                             ELSE IF s[n] \in S THEN Append(g[n - 1], s[n])
                             ELSE g[n - 1]
    <3> HIDE DEF g, last
    <3> TAKE n \in 0..(m + 1)
    <3>1. CASE n = 0
      BY <3>1, <2>2, <2>3
    <3>2. CASE n \in 1..m
      <4>1. n \in 0..m /\ n - 1 \in 0..m /\ n # 0
        BY <3>2
      <4> QED
        BY <4>1, <2>2, <2>3
    <3>3. CASE n = m + 1
      BY <3>3, <2>3, <2>4 DEF last
    <3> QED
      BY <3>1, <3>2, <3>3
  <2>6. IsPicked(g, s, S, m + 1)
    <3>1. g = [n \in 0..(m + 1) |-> g[n]]
      OBVIOUS
    <3> HIDE DEF g, last
    <3> QED
      BY <3>1, <2>5 DEF IsPicked
  <2> HIDE DEF g, last
  <2> QED
    BY <2>6
<1> HIDE DEF T
<1>3. k \in T
  BY <1>1, <1>2, Induction
<1> QED
  BY <1>3 DEF T

(* Selected is that solution at the last element. *)
LEMMA SelectedIs ==
    ASSUME NEW s, NEW S, Len(s) \in Nat
    PROVE  \E f : IsPicked(f, s, S, Len(s)) /\ Selected(s, S) = f[Len(s)]
<1> DEFINE f == CHOOSE f : IsPicked(f, s, S, Len(s))
<1>1. IsPicked(f, s, S, Len(s))
  <2>1. \E g : IsPicked(g, s, S, Len(s))
    BY PickedExists
  <2> QED
    BY <2>1
<1>2. Selected(s, S) = f[Len(s)]
  BY Zenon DEF Selected, IsPicked
<1> HIDE DEF f
<1> QED
  BY <1>1, <1>2

(* Nothing is selected from the empty sequence. *)
LEMMA SelectedFromEmpty == \A S : Selected(<<>>, S) = <<>>
<1> TAKE S
<1>1. Len(<<>>) = 0
  OBVIOUS
<1>2. PICK f : IsPicked(f, <<>>, S, Len(<<>>)) /\ Selected(<<>>, S) = f[Len(<<>>)]
  BY <1>1, SelectedIs
<1> QED
  BY <1>1, <1>2 DEF IsPicked

(* Two solutions for sequences that begin alike agree there. *)
LEMMA PickedUnique ==
    ASSUME NEW s, NEW t, NEW S, NEW f, NEW g, NEW m \in Nat, NEW k \in Nat, k <= m,
           IsPicked(f, s, S, m), IsPicked(g, t, S, k), \A i \in 1..k : s[i] = t[i]
    PROVE  \A n \in 0..k : f[n] = g[n]
<1> DEFINE T == {n \in Nat : n <= k => f[n] = g[n]}
<1>1. \A n \in 0..m : f[n] = IF n = 0 THEN <<>>
                            ELSE IF s[n] \in S THEN Append(f[n - 1], s[n]) ELSE f[n - 1]
  BY DEF IsPicked
<1>2. \A n \in 0..k : g[n] = IF n = 0 THEN <<>>
                            ELSE IF t[n] \in S THEN Append(g[n - 1], t[n]) ELSE g[n - 1]
  BY DEF IsPicked
<1>3. 0 \in T
  BY <1>1, <1>2
<1>4. ASSUME NEW n \in Nat, n \in T PROVE n + 1 \in T
  <2>1. SUFFICES ASSUME n + 1 <= k PROVE f[n + 1] = g[n + 1]
    OBVIOUS
  <2>2. n + 1 \in 0..m /\ n + 1 \in 0..k /\ n + 1 \in 1..k /\ n + 1 # 0 /\ (n + 1) - 1 = n
    BY <2>1
  <2>3. f[n] = g[n]
    BY <1>4, <2>1
  <2> QED
    BY <2>2, <2>3, <1>1, <1>2
<1> HIDE DEF T
<1>5. \A n \in Nat : n \in T
  BY <1>3, <1>4, Induction
<1> QED
  BY <1>5 DEF T

(* One more element is selected or not. *)
LEMMA SelectedAppend ==
    ASSUME NEW T, NEW s \in Seq(T), NEW x \in T, NEW S
    PROVE  Selected(Append(s, x), S) =
               IF x \in S THEN Append(Selected(s, S), x) ELSE Selected(s, S)
<1> DEFINE t == Append(s, x)
           k == Len(s)
<1>1. k \in Nat /\ Len(t) = k + 1 /\ t[k + 1] = x /\ \A i \in 1..k : t[i] = s[i]
  BY AppendProperties, LenProperties
<1> HIDE DEF t, k
<1>2. PICK f : IsPicked(f, t, S, k + 1) /\ Selected(t, S) = f[k + 1]
  <2>1. Len(t) \in Nat
    BY <1>1
  <2>2. \E f : IsPicked(f, t, S, Len(t)) /\ Selected(t, S) = f[Len(t)]
    BY <2>1, SelectedIs
  <2> QED
    BY <2>2, <1>1
<1>3. PICK g : IsPicked(g, s, S, k) /\ Selected(s, S) = g[k]
  BY <1>1, SelectedIs DEF k
<1>4. f[k] = g[k]
  <2>1. k + 1 \in Nat /\ k <= k + 1 /\ k \in 0..k /\ IsPicked(f, t, S, k + 1)
    BY <1>1, <1>2
  <2> QED
    BY <2>1, <1>1, <1>3, PickedUnique
<1>5. f[k + 1] = IF t[k + 1] \in S THEN Append(f[k], t[k + 1]) ELSE f[k]
  <2>1. \A n \in 0..(k + 1) : f[n] = IF n = 0 THEN <<>>
                            ELSE IF t[n] \in S THEN Append(f[n - 1], t[n]) ELSE f[n - 1]
    BY <1>2 DEF IsPicked
  <2>2. k + 1 \in 0..(k + 1) /\ k + 1 # 0 /\ (k + 1) - 1 = k
    BY <1>1
  <2> QED
    BY <2>1, <2>2
<1>6. Selected(t, S) = IF x \in S THEN Append(Selected(s, S), x) ELSE Selected(s, S)
  BY <1>1, <1>2, <1>3, <1>4, <1>5
<1> QED
  BY <1>6 DEF t

(* A sequence that is not empty is one with an element appended. *)
LEMMA LastAppended ==
    ASSUME NEW T, NEW n \in Nat, NEW s \in Seq(T), Len(s) = n + 1
    PROVE  /\ s[n + 1] \in T /\ SubSeq(s, 1, n) \in Seq(T) /\ Len(SubSeq(s, 1, n)) = n
           /\ s = Append(SubSeq(s, 1, n), s[n + 1])
<1>1. s[n + 1] \in T
  BY ElementOfSeq
<1> QED
  BY <1>1

(* The elements selected are those of the sequence in the set. *)
LEMMA SelectedElements ==
    ASSUME NEW T, NEW S, NEW s \in Seq(T)
    PROVE  /\ Selected(s, S) \in Seq(T) /\ Len(Selected(s, S)) <= Len(s)
           /\ ToSet(Selected(s, S)) = ToSet(s) \cap S
<1> DEFINE P(t) == /\ Selected(t, S) \in Seq(T) /\ Len(Selected(t, S)) <= Len(t)
                   /\ ToSet(Selected(t, S)) = ToSet(t) \cap S
           N == {n \in Nat : \A t \in Seq(T) : Len(t) = n => P(t)}
<1>1. 0 \in N
  <2> SUFFICES ASSUME NEW t \in Seq(T), Len(t) = 0 PROVE P(t)
    OBVIOUS
  <2>1. t = <<>> /\ Selected(t, S) = <<>>
    BY SelectedFromEmpty
  <2>2. ToSet(t) = {} /\ <<>> \in Seq(T) /\ Len(<<>>) = 0
    BY <2>1 DEF ToSet
  <2>3. Len(Selected(t, S)) <= Len(t)
    BY <2>1, <2>2
  <2>4. ToSet(Selected(t, S)) = {}
    BY <2>1, <2>2
  <2> QED
    BY <2>1, <2>2, <2>3, <2>4
<1>2. ASSUME NEW n \in Nat, n \in N PROVE n + 1 \in N
  <2> SUFFICES ASSUME NEW t \in Seq(T), Len(t) = n + 1 PROVE P(t)
    OBVIOUS
  <2>1. PICK u \in Seq(T), x \in T : Len(u) = n /\ t = Append(u, x)
    <3> DEFINE w == SubSeq(t, 1, n)
    <3>1. t[n + 1] \in T /\ w \in Seq(T) /\ Len(w) = n /\ t = Append(w, t[n + 1])
      BY LastAppended
    <3> HIDE DEF w
    <3> QED
      BY <3>1
  <2>2. P(u)
    BY <1>2, <2>1
  <2>3. Selected(t, S) = IF x \in S THEN Append(Selected(u, S), x) ELSE Selected(u, S)
    BY <2>1, SelectedAppend
  <2>4. ASSUME NEW v \in Seq(T) PROVE ToSet(Append(v, x)) = ToSet(v) \cup {x}
    <3>1. /\ DOMAIN Append(v, x) = 1..(Len(v) + 1) /\ DOMAIN v = 1..Len(v) /\ Len(v) \in Nat
          /\ Append(v, x)[Len(v) + 1] = x /\ \A i \in 1..Len(v) : Append(v, x)[i] = v[i]
      BY AppendProperties, LenProperties
    <3>2. 1..(Len(v) + 1) = 1..Len(v) \cup {Len(v) + 1}
      BY <3>1
    <3> QED
      BY <3>1, <3>2 DEF ToSet
  <2>5. CASE x \in S
    BY <2>1, <2>2, <2>3, <2>4, <2>5
  <2>6. CASE x \notin S
    BY <2>1, <2>2, <2>3, <2>4, <2>6
  <2> QED
    BY <2>5, <2>6
<1> HIDE DEF N
<1>3. Len(s) \in N
  BY <1>1, <1>2, Induction
<1> QED
  BY <1>3 DEF N

(* Of two sequences in a row what is selected of each is selected. *)
LEMMA SelectedConcat ==
    ASSUME NEW T, NEW S, NEW s \in Seq(T), NEW t \in Seq(T)
    PROVE  Selected(s \o t, S) = Selected(s, S) \o Selected(t, S)
<1> DEFINE N == {n \in Nat : \A u \in Seq(T) : Len(u) = n =>
                    Selected(s \o u, S) = Selected(s, S) \o Selected(u, S)}
<1>1. 0 \in N
  <2> SUFFICES ASSUME NEW u \in Seq(T), Len(u) = 0
               PROVE  Selected(s \o u, S) = Selected(s, S) \o Selected(u, S)
    OBVIOUS
  <2>1. u = <<>> /\ Selected(u, S) = <<>>
    BY SelectedFromEmpty
  <2>2. Selected(s, S) \in Seq(T)
    BY SelectedElements
  <2> QED
    BY <2>1, <2>2
<1>2. ASSUME NEW n \in Nat, n \in N PROVE n + 1 \in N
  <2> SUFFICES ASSUME NEW u \in Seq(T), Len(u) = n + 1
               PROVE  Selected(s \o u, S) = Selected(s, S) \o Selected(u, S)
    OBVIOUS
  <2>1. PICK v \in Seq(T), x \in T : Len(v) = n /\ u = Append(v, x)
    <3> DEFINE w == SubSeq(u, 1, n)
    <3>1. u[n + 1] \in T /\ w \in Seq(T) /\ Len(w) = n /\ u = Append(w, u[n + 1])
      BY LastAppended
    <3> HIDE DEF w
    <3> QED
      BY <3>1
  <2>2. Selected(s \o v, S) = Selected(s, S) \o Selected(v, S)
    BY <1>2, <2>1
  <2>3. s \o u = Append(s \o v, x) /\ s \o v \in Seq(T)
    BY <2>1
  <2>4. Selected(u, S) = IF x \in S THEN Append(Selected(v, S), x) ELSE Selected(v, S)
    BY <2>1, SelectedAppend
  <2>7. Selected(s \o u, S) = IF x \in S THEN Append(Selected(s \o v, S), x)
                            ELSE Selected(s \o v, S)
    <3> DEFINE w == s \o v
    <3>1. Selected(Append(w, x), S) = IF x \in S THEN Append(Selected(w, S), x)
                                      ELSE Selected(w, S)
      <4> HIDE DEF w
      <4>1. w \in Seq(T)
        BY <2>3 DEF w
      <4> QED
        BY <4>1, SelectedAppend
    <3> QED
      BY <3>1, <2>3
  <2>5. Selected(s, S) \in Seq(T) /\ Selected(v, S) \in Seq(T)
    BY SelectedElements
  <2>6. Selected(s, S) \o Append(Selected(v, S), x) = Append(Selected(s, S) \o Selected(v, S), x)
    BY <2>5
  <2> QED
    BY <2>2, <2>4, <2>6, <2>7
<1> HIDE DEF N
<1>3. Len(t) \in N
  BY <1>1, <1>2, Induction
<1> QED
  BY <1>3 DEF N

(* Sets that agree on the elements of a sequence select the same of it. *)
LEMMA SelectedAgree ==
    ASSUME NEW T, NEW R, NEW S, NEW s \in Seq(T), ToSet(s) \cap R = ToSet(s) \cap S
    PROVE  Selected(s, R) = Selected(s, S)
<1> DEFINE k == Len(s)
<1>1. k \in Nat /\ DOMAIN s = 1..k
  BY LenProperties
<1>2. \A i \in 1..k : s[i] \in R <=> s[i] \in S
  <2>1. \A i \in 1..k : s[i] \in ToSet(s)
    BY <1>1 DEF ToSet
  <2> QED
    BY <2>1
<1> HIDE DEF k
<1>3. PICK f : IsPicked(f, s, R, k) /\ Selected(s, R) = f[k]
  BY <1>1, SelectedIs DEF k
<1>4. PICK g : IsPicked(g, s, S, k) /\ Selected(s, S) = g[k]
  BY <1>1, SelectedIs DEF k
<1>5. /\ \A n \in 0..k : f[n] = IF n = 0 THEN <<>>
                             ELSE IF s[n] \in R THEN Append(f[n - 1], s[n]) ELSE f[n - 1]
      /\ \A n \in 0..k : g[n] = IF n = 0 THEN <<>>
                             ELSE IF s[n] \in S THEN Append(g[n - 1], s[n]) ELSE g[n - 1]
  BY <1>3, <1>4 DEF IsPicked
<1> DEFINE N == {n \in Nat : n <= k => f[n] = g[n]}
<1>6. 0 \in N
  BY <1>1, <1>5
<1>7. ASSUME NEW n \in Nat, n \in N PROVE n + 1 \in N
  <2>1. SUFFICES ASSUME n + 1 <= k PROVE f[n + 1] = g[n + 1]
    OBVIOUS
  <2>2. n + 1 \in 0..k /\ n + 1 \in 1..k /\ n + 1 # 0 /\ (n + 1) - 1 = n /\ f[n] = g[n]
    BY <2>1, <1>1, <1>7
  <2> QED
    BY <2>2, <1>2, <1>5
<1> HIDE DEF N
<1>8. k \in N
  BY <1>1, <1>6, <1>7, Induction
<1> QED
  BY <1>1, <1>3, <1>4, <1>8 DEF N

(* Nothing is selected where no element is in the set. *)
LEMMA SelectedNone ==
    ASSUME NEW T, NEW S, NEW s \in Seq(T), ToSet(s) \cap S = {}
    PROVE  Selected(s, S) = <<>>
<1>1. Selected(s, S) \in Seq(T) /\ ToSet(Selected(s, S)) = {}
  BY SelectedElements
<1> DEFINE u == Selected(s, S)
<1> HIDE DEF u
<1>2. u \in Seq(T) /\ ToSet(u) = {}
  BY <1>1 DEF u
<1>3. DOMAIN u = 1..Len(u) /\ Len(u) \in Nat
  BY <1>2, LenProperties
<1>4. 1 \notin 1..Len(u)
  BY <1>2, <1>3 DEF ToSet
<1>5. u = <<>>
  BY <1>2, <1>3, <1>4
<1> QED
  BY <1>5 DEF u

(* All is selected where all elements are in the set. *)
LEMMA SelectedAll ==
    ASSUME NEW T, NEW S, NEW s \in Seq(T), ToSet(s) \subseteq S
    PROVE  Selected(s, S) = s
<1> DEFINE N == {n \in Nat : \A t \in Seq(T \cap S) : Len(t) = n => Selected(t, S) = t}
<1>1. 0 \in N
  <2> SUFFICES ASSUME NEW t \in Seq(T \cap S), Len(t) = 0 PROVE Selected(t, S) = t
    OBVIOUS
  <2>1. t = <<>> /\ Selected(t, S) = <<>>
    BY SelectedFromEmpty
  <2> QED
    BY <2>1
<1>2. ASSUME NEW n \in Nat, n \in N PROVE n + 1 \in N
  <2> SUFFICES ASSUME NEW t \in Seq(T \cap S), Len(t) = n + 1 PROVE Selected(t, S) = t
    OBVIOUS
  <2>1. PICK u \in Seq(T \cap S), x \in T \cap S : Len(u) = n /\ t = Append(u, x)
    <3> DEFINE w == SubSeq(t, 1, n)
    <3>1. t[n + 1] \in T \cap S /\ w \in Seq(T \cap S) /\ Len(w) = n
          /\ t = Append(w, t[n + 1])
      BY LastAppended
    <3> HIDE DEF w
    <3> QED
      BY <3>1
  <2>2. Selected(u, S) = u
    BY <1>2, <2>1
  <2>3. Selected(Append(u, x), S)
          = IF x \in S THEN Append(Selected(u, S), x) ELSE Selected(u, S)
    <3> DEFINE W == T \cap S
    <3>1. u \in Seq(W) /\ x \in W
      BY <2>1
    <3> HIDE DEF W
    <3> QED
      BY <3>1, SelectedAppend
  <2> QED
    BY <2>1, <2>2, <2>3
<1> HIDE DEF N
<1>3. s \in Seq(T \cap S) /\ Len(s) \in Nat
  <2>1. Len(s) \in Nat /\ \A i \in 1..Len(s) : s[i] \in T \cap S
    <3>1. DOMAIN s = 1..Len(s) /\ Len(s) \in Nat /\ \A i \in 1..Len(s) : s[i] \in T
      BY LenProperties, ElementOfSeq
    <3> QED
      BY <3>1 DEF ToSet
  <2>2. s = [i \in 1..Len(s) |-> s[i]]
    BY LenProperties
  <2> DEFINE k == Len(s)
  <2> HIDE DEF k
  <2>3. [i \in 1..k |-> s[i]] \in Seq(T \cap S)
    BY <2>1 DEF k
  <2> QED
    BY <2>1, <2>2, <2>3 DEF k
<1>4. Len(s) \in N
  BY <1>1, <1>2, <1>3, Induction
<1> QED
  BY <1>3, <1>4 DEF N

-----------------------------------------------------------------------------
(* Cutting sequences. *)

(* What SubSeq leaves of s without its first n elements. *)
LEMMA Suffix ==
    ASSUME NEW S, NEW s \in Seq(S), NEW n \in Nat
    PROVE  /\ SubSeq(s, n + 1, Len(s)) \in Seq(S)
           /\ Len(SubSeq(s, n + 1, Len(s))) = (IF n < Len(s) THEN Len(s) - n ELSE 0)
           /\ \A i \in 1..Len(SubSeq(s, n + 1, Len(s))) :
                  i + n \in 1..Len(s) /\ SubSeq(s, n + 1, Len(s))[i] = s[i + n]
<1>1. Len(s) \in Nat /\ DOMAIN s = 1..Len(s) /\ \A i \in 1..Len(s) : s[i] \in S
  BY LenProperties, ElementOfSeq
<1>2. CASE n < Len(s)
  <2>1. n + 1 \in 1..(Len(s) + 1) /\ Len(s) \in (n + 1) - 1..Len(s) /\ n + 1 <= Len(s)
    BY <1>1, <1>2
  <2>2. /\ SubSeq(s, n + 1, Len(s)) \in Seq(S)
        /\ Len(SubSeq(s, n + 1, Len(s))) = Len(s) - (n + 1) + 1
        /\ \A i \in 1..(Len(s) - (n + 1) + 1) :
              SubSeq(s, n + 1, Len(s))[i] = s[(n + 1) + i - 1]
    BY <2>1, <1>1, SubSeqProperties
  <2>3. Len(s) - (n + 1) + 1 = Len(s) - n
    BY <1>1
  <2>4. ASSUME NEW i \in 1..(Len(s) - n)
        PROVE  i + n \in 1..Len(s) /\ (n + 1) + i - 1 = i + n
    BY <1>1
  <2> QED
    BY <2>2, <2>3, <2>4, <1>2
<1>3. CASE n >= Len(s)
  <2>1. SubSeq(s, n + 1, Len(s)) = <<>>
    BY <1>1, <1>3
  <2> QED
    BY <2>1, <1>1, <1>3
<1> QED
  BY <1>1, <1>2, <1>3

(* A sequence is what SubSeq cuts it into. *)
LEMMA CutInTwo ==
    ASSUME NEW S, NEW s \in Seq(S), NEW k \in 0..Len(s)
    PROVE  s = SubSeq(s, 1, k) \o SubSeq(s, k + 1, Len(s))
<1> DEFINE a == SubSeq(s, 1, k)
           b == SubSeq(s, k + 1, Len(s))
<1>1. Len(s) \in Nat /\ k \in Nat /\ \A i \in 1..Len(s) : s[i] \in S
  BY LenProperties, ElementOfSeq
<1>2. a \in Seq(S) /\ Len(a) = k /\ \A i \in 1..k : a[i] = s[i]
  <2>1. \A i \in 1..k : s[i] \in S
    BY <1>1
  <2>2. /\ a \in Seq(S) /\ Len(a) = (IF 1 <= k THEN k - 1 + 1 ELSE 0)
        /\ \A i \in 1..(k - 1 + 1) : a[i] = s[1 + i - 1]
    BY <2>1, <1>1, SubSeqProperties
  <2> QED
    BY <2>2, <1>1
<1>3. /\ b \in Seq(S) /\ Len(b) = (IF k < Len(s) THEN Len(s) - k ELSE 0)
      /\ \A i \in 1..Len(b) : b[i] = s[i + k]
  BY <1>1, Suffix
<1>4. Len(b) = Len(s) - k
  BY <1>1, <1>3
<1> HIDE DEF a, b
<1>5. a \o b \in Seq(S) /\ Len(a \o b) = Len(s)
  <2>1. a \o b \in Seq(S) /\ Len(a \o b) = Len(a) + Len(b)
    BY <1>2, <1>3, ConcatProperties
  <2> QED
    BY <2>1, <1>1, <1>2, <1>4
<1>6. ASSUME NEW i \in 1..Len(s) PROVE (a \o b)[i] = s[i]
  <2>1. CASE i <= k
    BY <2>1, <1>1, <1>2, <1>3, <1>4
  <2>2. CASE i > k
    <3>1. i - k \in 1..Len(b) /\ (i - k) + k = i
      BY <2>2, <1>1, <1>4
    <3>2. (a \o b)[i] = b[i - k]
      BY <2>2, <1>1, <1>2, <1>3, <1>4
    <3> QED
      BY <3>1, <3>2, <1>3
  <2> QED
    <3>1. i <= k \/ i > k
      BY <1>1
    <3> QED
      BY <2>1, <2>2, <3>1
<1> QED
  BY <1>5, <1>6, SeqEqual DEF a, b

(* A concatenation is taken apart where it was put together. *)
LEMMA TakenApart ==
    ASSUME NEW S, NEW s \in Seq(S), NEW t \in Seq(S)
    PROVE  /\ s \o t \in Seq(S) /\ Len(s \o t) = Len(s) + Len(t)
           /\ SubSeq(s \o t, 1, Len(s)) = s
           /\ SubSeq(s \o t, Len(s) + 1, Len(s \o t)) = t
<1> DEFINE u == s \o t
<1>1. Len(s) \in Nat /\ Len(t) \in Nat
  BY LenProperties
<1>2. /\ u \in Seq(S) /\ Len(u) = Len(s) + Len(t)
      /\ \A i \in 1..Len(s) : u[i] = s[i]
      /\ \A i \in 1..Len(t) : u[Len(s) + i] = t[i]
  <2>1. /\ u \in Seq(S) /\ Len(u) = Len(s) + Len(t)
        /\ \A i \in 1..(Len(s) + Len(t)) : u[i] = IF i <= Len(s) THEN s[i] ELSE t[i - Len(s)]
    BY ConcatProperties
  <2>2. \A i \in 1..Len(s) : i \in 1..(Len(s) + Len(t)) /\ i <= Len(s)
    BY <1>1
  <2>3. \A i \in 1..Len(t) : /\ Len(s) + i \in 1..(Len(s) + Len(t)) /\ ~(Len(s) + i <= Len(s))
                            /\ (Len(s) + i) - Len(s) = i
    BY <1>1
  <2> QED
    BY <2>1, <2>2, <2>3
<1> HIDE DEF u
<1>3. SubSeq(u, 1, Len(s)) = s
  <2> DEFINE a == SubSeq(u, 1, Len(s))
  <2>1. Len(s) \in 0..Len(u) /\ \A i \in 1..Len(s) : u[i] \in S
    BY <1>1, <1>2, ElementOfSeq
  <2>2. /\ a \in Seq(S) /\ Len(a) = (IF 1 <= Len(s) THEN Len(s) - 1 + 1 ELSE 0)
        /\ \A i \in 1..(Len(s) - 1 + 1) : a[i] = u[1 + i - 1]
    BY <2>1, <1>1, SubSeqProperties
  <2>3. Len(a) = Len(s) /\ \A i \in 1..Len(s) : a[i] = s[i]
    BY <2>2, <1>1, <1>2
  <2> HIDE DEF a
  <2>4. a = s
    BY <2>2, <2>3, SeqEqual
  <2> QED
    BY <2>4 DEF a
<1>4. SubSeq(u, Len(s) + 1, Len(u)) = t
  <2> DEFINE b == SubSeq(u, Len(s) + 1, Len(u))
  <2>1. /\ b \in Seq(S) /\ Len(b) = (IF Len(s) < Len(u) THEN Len(u) - Len(s) ELSE 0)
        /\ \A i \in 1..Len(b) : b[i] = u[i + Len(s)]
    <3> DEFINE k == Len(s)
    <3>1. k \in Nat /\ u \in Seq(S)
      BY <1>1, <1>2
    <3> HIDE DEF k
    <3>2. /\ SubSeq(u, k + 1, Len(u)) \in Seq(S)
          /\ Len(SubSeq(u, k + 1, Len(u))) = (IF k < Len(u) THEN Len(u) - k ELSE 0)
          /\ \A i \in 1..Len(SubSeq(u, k + 1, Len(u))) :
                 SubSeq(u, k + 1, Len(u))[i] = u[i + k]
      BY <3>1, Suffix
    <3> QED
      BY <3>2 DEF k
  <2> HIDE DEF b
  <2>2. Len(b) = Len(t)
    BY <2>1, <1>1, <1>2
  <2>3. \A i \in 1..Len(t) : i + Len(s) = Len(s) + i
    BY <1>1
  <2>4. \A i \in 1..Len(b) : b[i] = t[i]
    BY <2>1, <2>2, <2>3, <1>2
  <2>5. b = t
    BY <2>1, <2>2, <2>4, SeqEqual
  <2> QED
    BY <2>5 DEF b
<1> QED
  BY <1>2, <1>3, <1>4 DEF u
=============================================================================
