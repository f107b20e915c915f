--------------------------- MODULE SequenceFacts ----------------------------
(***************************************************************************)
(* Facts about natural numbers and sequences that the proofs of several    *)
(* components need: least elements, which take the place of induction,     *)
(* initial segments, and prefixes.                                         *)
(***************************************************************************)
EXTENDS Naturals, Sequences, FiniteSets, SequencesExt, FiniteSetTheorems,
        WellFoundedInduction, TLAPS

(* Every set of naturals that is not empty has a least element: what holds *)
(* for every number is proved by refuting a least counterexample.          *)
LEMMA LeastNumber ==
  ASSUME NEW T \in SUBSET Nat, T # {}
  PROVE  \E n \in T : \A m \in T : n <= m
<1>1. \E R : IsWellFoundedOn(R, Nat) /\ \A x, y \in Nat : y < x => << y, x >> \in R
  <2>1. IsWellFoundedOn(OpToRel(<, Nat), Nat)
    BY NatLessThanWellFounded
  <2>2. \A x, y \in Nat : << y, x >> \in OpToRel(<, Nat) <=> y < x
    BY DEF OpToRel
  <2>3. QED
    BY <2>1, <2>2, Zenon
<1>2. PICK R : IsWellFoundedOn(R, Nat) /\ \A x, y \in Nat : y < x => << y, x >> \in R
  BY <1>1
<1>3. PICK x \in T : \A y \in T : ~(<< y, x >> \in R)
  BY <1>2, WFMin
<1>4. \A y \in T : ~(y < x)
  BY <1>2, <1>3
<1>5. \A y \in T : x <= y
  BY <1>4
<1>6. QED
  BY <1>5

(* A set of positive numbers that has every smaller number with each of    *)
(* its own is an interval, and its cardinality is its length.              *)
LEMMA InitialSegment ==
  ASSUME NEW N \in Nat, NEW D \in SUBSET (1..N), \A n \in D : 1..n \subseteq D
  PROVE  Cardinality(D) \in Nat /\ D = 1..Cardinality(D)
<1>1. IsFiniteSet(1..N)
  BY FS_Interval
<1>2. IsFiniteSet(D) /\ Cardinality(D) \in Nat
  BY <1>1, FS_Subset, FS_CardinalityType
<1>3. ASSUME NEW n \in D PROVE n <= Cardinality(D)
  <2>1. n \in Nat /\ n >= 1 /\ 1..n \in SUBSET D
    OBVIOUS
  <2>2. Cardinality(1..n) = n
    BY <2>1, FS_Interval
  <2>3. QED
    BY <1>2, <2>1, <2>2, FS_Subset
<1>4. D \in SUBSET (1..Cardinality(D))
  BY <1>2, <1>3
<1>5. IsFiniteSet(1..Cardinality(D)) /\ Cardinality(1..Cardinality(D)) = Cardinality(D)
  BY <1>2, FS_Interval
<1>6. QED
  BY <1>2, <1>4, <1>5, FS_Subset

-----------------------------------------------------------------------------
(* IsPrefix, element by element.                                           *)
LEMMA PrefixElements ==
  ASSUME NEW S, NEW s \in Seq(S), NEW t \in Seq(S)
  PROVE  IsPrefix(s, t) <=> Len(s) <= Len(t) /\ \A i \in 1..Len(s) : s[i] = t[i]
<1>1. ASSUME Len(s) <= Len(t)
      PROVE  /\ SubSeq(s, 1, Len(s)) = s
             /\ SubSeq(t, 1, Len(s)) \in Seq(S) /\ Len(SubSeq(t, 1, Len(s))) = Len(s)
             /\ \A i \in 1..Len(s) : SubSeq(t, 1, Len(s))[i] = t[i]
  BY <1>1
<1>2. ASSUME Len(s) <= Len(t), \A i \in 1..Len(s) : s[i] = t[i]
      PROVE  SubSeq(s, 1, Len(s)) = SubSeq(t, 1, Len(s))
  BY <1>1, <1>2
<1>3. QED
  BY <1>1, <1>2 DEF IsPrefix

LEMMA PrefixReflexive ==
  ASSUME NEW S, NEW s \in Seq(S) PROVE IsPrefix(s, s)
BY PrefixElements

(* What is a prefix now is one after the history has gone on.              *)
LEMMA PrefixAppend ==
  ASSUME NEW S, NEW s \in Seq(S), NEW t \in Seq(S), NEW x \in S, IsPrefix(s, t)
  PROVE  Append(t, x) \in Seq(S) /\ Len(Append(t, x)) = Len(t) + 1 /\ IsPrefix(s, Append(t, x))
<1>1. Append(t, x) \in Seq(S) /\ Len(Append(t, x)) = Len(t) + 1
  OBVIOUS
<1>2. \A i \in 1..Len(t) : Append(t, x)[i] = t[i]
  OBVIOUS
<1>3. Len(s) <= Len(t) /\ \A i \in 1..Len(s) : s[i] = t[i]
  BY PrefixElements
<1>4. Len(s) <= Len(Append(t, x)) /\ \A i \in 1..Len(s) : s[i] = Append(t, x)[i]
  BY <1>1, <1>2, <1>3
<1>5. QED
  BY <1>1, <1>4, PrefixElements

(* Prefixes of one history: the shorter is a prefix of the longer.         *)
LEMMA PrefixesCompare ==
  ASSUME NEW S, NEW s \in Seq(S), NEW t \in Seq(S), NEW h \in Seq(S),
         IsPrefix(s, h), IsPrefix(t, h), Len(s) <= Len(t)
  PROVE  IsPrefix(s, t)
<1>1. \A i \in 1..Len(s) : s[i] = h[i]
  BY PrefixElements
<1>2. \A i \in 1..Len(t) : t[i] = h[i]
  BY PrefixElements
<1>3. \A i \in 1..Len(s) : s[i] = t[i]
  BY <1>1, <1>2
<1>4. QED
  BY <1>3, PrefixElements

LEMMA PrefixTransitive ==
  ASSUME NEW S, NEW s \in Seq(S), NEW t \in Seq(S), NEW h \in Seq(S),
         IsPrefix(s, t), IsPrefix(t, h)
  PROVE  IsPrefix(s, h)
<1>1. Len(s) <= Len(t) /\ \A i \in 1..Len(s) : s[i] = t[i]
  BY PrefixElements
<1>2. Len(t) <= Len(h) /\ \A i \in 1..Len(t) : t[i] = h[i]
  BY PrefixElements
<1>3. Len(s) <= Len(h) /\ \A i \in 1..Len(s) : s[i] = h[i]
  BY <1>1, <1>2
<1>4. QED
  BY <1>3, PrefixElements
=============================================================================
