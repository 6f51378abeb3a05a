---------------------------- MODULE ListTheorems ----------------------------
(***************************************************************************)
(* Facts about Lists, and induction over the natural numbers stated with   *)
(* sets, so that a use of it instantiates a set and not an operator.  The  *)
(* induction rests on the library's theorem that < is well-founded on Nat. *)
(***************************************************************************)
EXTENDS Lists, WellFoundedInduction, SequenceTheorems, TLAPS

NatLess == OpToRel(<, Nat)

\* The order of the natural numbers, as a relation, is well-founded.
LEMMA NatLessWellFounded == IsWellFoundedOn(NatLess, Nat)
  BY NatLessThanWellFounded, Zenon DEF NatLess

\* Membership in the relation is the order.
LEMMA NatLessIsLess == \A m, n \in Nat : <<m, n>> \in NatLess <=> m < n
  BY DEF NatLess, OpToRel

\* A set of natural numbers that is not empty has a least element.
LEMMA LeastElement ==
  ASSUME NEW T, T \subseteq Nat, T # {}
  PROVE  \E m \in T : \A n \in T : m <= n
<1>1. PICK m \in T : \A n \in T : ~(<<n, m>> \in NatLess)
  BY NatLessWellFounded, WFMin
<1>2. ASSUME NEW n \in T PROVE m <= n
  <2>1. m \in Nat /\ n \in Nat
    OBVIOUS
  <2>2. ~(n < m)
    BY <1>1, <2>1, NatLessIsLess
  <2>3. QED
    BY <2>1, <2>2
<1>3. QED
  BY <1>2

\* A set with 0 that has the successor of each of its numbers has them all.
LEMMA SetInduction ==
  ASSUME NEW T, 0 \in T, \A n \in Nat : n \in T => n + 1 \in T
  PROVE  Nat \subseteq T
<1>1. SUFFICES ASSUME ~(Nat \subseteq T) PROVE FALSE
  OBVIOUS
<1>2. PICK m \in Nat \ T : \A n \in Nat \ T : m <= n
  <2>1. Nat \ T # {}
    BY <1>1
  <2>2. QED
    BY <2>1, LeastElement
<1>3. m - 1 \in Nat
  BY <1>2
<1>4. m - 1 \in T
  BY <1>2, <1>3
<1>5. m \in T
  BY <1>3, <1>4
<1>6. QED
  BY <1>2, <1>5

\* The least position in a set of positions is one of its elements.
LEMMA FirstIsElement ==
  ASSUME NEW S, S \subseteq Nat, S # {}
  PROVE  First(S) \in S
<1>1. \E i \in S : \A j \in S : i <= j
  BY LeastElement
<1>2. QED
  BY <1>1 DEF First

\* The elements of a list from which position i was erased.
LEMMA EraseElements ==
  ASSUME NEW S, NEW s \in Seq(S), NEW i \in DOMAIN s, NEW q, q = Erase(s, i)
  PROVE  /\ q \in Seq(S)
         /\ DOMAIN q = 1 .. (Len(s) - 1)
         /\ \A j \in DOMAIN q : q[j] = IF j < i THEN s[j] ELSE s[j + 1]
<1> DEFINE n == Len(s)
           l == SubSeq(s, 1, i - 1)
           r == SubSeq(s, i + 1, n)
<1>1. n \in Nat /\ i \in 1 .. n /\ s \in Seq(S)
  OBVIOUS
<1>2. l \in Seq(S) /\ Len(l) = i - 1 /\ \A j \in 1 .. (i - 1) : l[j] = s[j]
  BY <1>1
<1>3. r \in Seq(S) /\ Len(r) = n - i /\ \A j \in 1 .. (n - i) : r[j] = s[i + j]
  BY <1>1
<1>4. q = l \o r
  BY DEF Erase
<1> HIDE DEF l, r
<1>5. /\ q \in Seq(S) /\ Len(q) = n - 1
      /\ \A j \in 1 .. (n - 1) : q[j] = IF j <= i - 1 THEN l[j] ELSE r[j - (i - 1)]
  <2>1. q \in Seq(S) /\ Len(q) = Len(l) + Len(r)
        /\ \A j \in 1 .. (Len(l) + Len(r)) :
              q[j] = IF j <= Len(l) THEN l[j] ELSE r[j - Len(l)]
    <3>1. l \in Seq(S) /\ r \in Seq(S)
      BY <1>2, <1>3
    <3>2. /\ l \o r \in Seq(S)
          /\ Len(l \o r) = Len(l) + Len(r)
          /\ \A j \in 1 .. (Len(l) + Len(r)) :
                (l \o r)[j] = IF j <= Len(l) THEN l[j] ELSE r[j - Len(l)]
      BY <3>1, ConcatProperties, Zenon
    <3>3. QED
      BY <1>4, <3>2, Zenon
  <2>2. Len(l) + Len(r) = n - 1
    BY <1>1, <1>2, <1>3
  <2> HIDE DEF n
  <2>3. QED
    BY <1>2, <2>1, <2>2
<1>6. ASSUME NEW j \in 1 .. (n - 1)
      PROVE  q[j] = IF j < i THEN s[j] ELSE s[j + 1]
  <2>1. CASE j < i
    BY <1>1, <1>2, <1>5, <2>1
  <2>2. CASE ~(j < i)
    <3>1. q[j] = r[j - (i - 1)]
      BY <1>1, <1>5, <2>2
    <3>2. j - (i - 1) \in 1 .. (n - i) /\ i + (j - (i - 1)) = j + 1
      BY <1>1, <2>2
    <3>3. QED
      BY <1>3, <2>2, <3>1, <3>2
  <2>3. QED
    BY <2>1, <2>2
<1>7. DOMAIN q = 1 .. (n - 1)
  BY <1>5
<1>8. QED
  BY <1>5, <1>6, <1>7
=============================================================================
