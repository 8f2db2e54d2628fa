---------------------------- MODULE KeyspaceProofs ----------------------------
(***************************************************************************)
(* Facts about the keys of the store: where the keys of a table stand, and *)
(* how a set of keys is read in ascending order, as the iterator of        *)
(* hashtree_update reads the rows of a leaf.                               *)
(***************************************************************************)
EXTENDS Keyspace, FiniteSetTheorems, TLAPS

(* Every nonempty set of natural numbers has a least element.              *)
LEMMA LeastElement ==
  ASSUME NEW S, S \subseteq Nat, S # {}
  PROVE  \E m \in S : \A n \in S : m <= n
<1>1. PICK R : R = OpToRel(<, Nat)
  OBVIOUS
<1>2. IsWellFoundedOn(R, Nat)
  BY <1>1, NatLessThanWellFounded
<1>3. PICK x \in S : \A y \in S : <<y, x>> \notin R
  BY <1>2, WFMin
<1>4. \A y \in Nat : <<y, x>> \in R <=> y < x
  BY <1>1 DEF OpToRel
<1>5. \A n \in S : x <= n
  <2> SUFFICES ASSUME NEW n \in S PROVE x <= n
    OBVIOUS
  <2>1. x \in Nat /\ n \in Nat
    OBVIOUS
  <2>2. ~ (n < x)
    BY <1>3, <1>4, <2>1
  <2> QED
    BY <2>1, <2>2
<1> QED
  BY <1>5

(* A key at or after a segment's start and not behind a key of the table   *)
(* is a key of the table.                                                  *)
LEMMA BetweenInTable ==
  ASSUME NEW t \in Tables, NEW s \in Leaves, NEW p \in Pos, NEW q \in Pos,
         Tab[p] = t, q <= p, AtOrAfter(q, t, s)
  PROVE  Tab[q] = t /\ s <= Seg[q] /\ Seg[q] <= Seg[p]
<1>1. Tab[p] \in Nat /\ Tab[q] \in Nat /\ t \in Nat
  BY KeyAssumption
<1>2. Leaves \subseteq Int
  BY DEF Leaves
<1>3. Seg[p] \in Int /\ Seg[q] \in Int /\ s \in Int
  BY <1>2, KeyAssumption
<1>4. p \in Int /\ q \in Int
  BY SizeAssumption DEF Pos
<1>5. CASE q = p
  BY <1>1, <1>3, <1>5 DEF AtOrAfter
<1>6. CASE q < p
  <2>1. KeyBefore(q, p)
    BY <1>6, KeyAssumption
  <2> QED
    BY <2>1, <1>1, <1>3 DEF KeyBefore, AtOrAfter
<1> QED
  BY <1>4, <1>5, <1>6

-----------------------------------------------------------------------------
(* How many keys of P stand before key p.                                  *)
Rank(P, p) == Cardinality({q \in P : q < p})

(* A set of keys is finite.                                                *)
LEMMA KeysFinite ==
  ASSUME NEW P, P \subseteq Pos
  PROVE  IsFiniteSet(P) /\ Cardinality(P) \in Nat /\ P \subseteq Nat
<1>1. NPos \in Nat
  BY SizeAssumption
<1>2. IsFiniteSet(Pos)
  BY <1>1, FS_Interval DEF Pos
<1>3. IsFiniteSet(P)
  BY <1>2, FS_Subset
<1> QED
  BY <1>1, <1>3, FS_CardinalityType DEF Pos

(* A key has fewer keys before it than there are, and than a later key.    *)
LEMMA RankRange ==
  ASSUME NEW P, P \subseteq Pos, NEW p \in P
  PROVE  Rank(P, p) \in 0..(Cardinality(P) - 1)
<1>1. PICK B : B = {q \in P : q < p}
  OBVIOUS
<1>2. B \in SUBSET P /\ B # P
  <2>1. p \in Nat
    BY KeysFinite
  <2>2. p \notin B
    BY <1>1, <2>1
  <2> QED
    BY <1>1, <2>2
<1>3. Cardinality(P) \in Nat /\ IsFiniteSet(P) /\ Cardinality(B) \in Nat
  BY <1>2, KeysFinite
<1>4. Cardinality(B) <= Cardinality(P) /\ Cardinality(B) # Cardinality(P)
  BY <1>2, <1>3, FS_Subset
<1> QED
  BY <1>1, <1>3, <1>4 DEF Rank

LEMMA RankOrder ==
  ASSUME NEW P, P \subseteq Pos, NEW p \in P, NEW q \in P, p < q
  PROVE  Rank(P, p) < Rank(P, q)
<1>1. PICK B : B = {k \in P : k < p}
  OBVIOUS
<1>2. PICK C : C = {k \in P : k < q}
  OBVIOUS
<1>3. P \subseteq Nat /\ C \subseteq Pos
  BY <1>2, KeysFinite
<1>4. B \in SUBSET C /\ B # C
  <2>1. p \in C /\ p \notin B
    BY <1>1, <1>2, <1>3
  <2>2. B \subseteq C
    <3> SUFFICES ASSUME NEW k \in P, k < p PROVE k < q
      BY <1>1, <1>2
    <3>1. k \in Int /\ p \in Int /\ q \in Int
      BY <1>3
    <3> QED
      BY <3>1
  <2> QED
    BY <2>1, <2>2
<1>5. Cardinality(C) \in Nat /\ IsFiniteSet(C) /\ Cardinality(B) \in Nat
  BY <1>3, <1>4, KeysFinite
<1>6. Cardinality(B) <= Cardinality(C) /\ Cardinality(B) # Cardinality(C)
  BY <1>4, <1>5, FS_Subset
<1> QED
  BY <1>1, <1>2, <1>5, <1>6 DEF Rank

(* Two keys with as many keys before them are one key.                     *)
LEMMA RankInjective ==
  ASSUME NEW P, P \subseteq Pos, NEW p \in P, NEW q \in P, Rank(P, p) = Rank(P, q)
  PROVE  p = q
<1>1. p \in Int /\ q \in Int
  BY KeysFinite
<1>2. Rank(P, p) \in Int
  BY RankRange
<1>3. ~ (p < q) /\ ~ (q < p)
  BY <1>2, RankOrder
<1> QED
  BY <1>1, <1>3

(* Every place below the number of keys is taken.                          *)
LEMMA RankOnto ==
  ASSUME NEW P, P \subseteq Pos, NEW k \in 0..(Cardinality(P) - 1)
  PROVE  \E p \in P : Rank(P, p) = k
<1>1. PICK n \in Nat : n = Cardinality(P)
  BY KeysFinite
<1>2. PICK g : g = [p \in P |-> Rank(P, p)]
  OBVIOUS
<1>3. g \in Injection(P, 0..(n - 1))
  <2>1. g \in [P -> 0..(n - 1)]
    BY <1>1, <1>2, RankRange
  <2>2. \A p, q \in P : g[p] = g[q] => p = q
    BY <1>2, RankInjective
  <2> QED
    BY <2>1, <2>2 DEF Injection, IsInjective
<1>4. IsFiniteSet(0..(n - 1)) /\ Cardinality(0..(n - 1)) = n
  <2>1. 0 \in Int /\ n - 1 \in Int
    BY <1>1
  <2>2. /\ IsFiniteSet(0..(n - 1))
        /\ Cardinality(0..(n - 1)) = IF 0 > n - 1 THEN 0 ELSE (n - 1) - 0 + 1
    BY <2>1, FS_Interval
  <2> QED
    BY <1>1, <2>2
<1>5. g \in Surjection(P, 0..(n - 1))
  BY <1>1, <1>3, <1>4, FS_Injection
<1>6. k \in 0..(n - 1)
  BY <1>1
<1> QED
  BY <1>2, <1>5, <1>6 DEF Surjection

(* The j-th key of a set.                                                  *)
KeyAt(P, j) == CHOOSE p \in P : Cardinality({q \in P : q < p}) = j - 1

LEMMA RankedKey ==
  ASSUME NEW P, P \subseteq Pos, NEW j \in 1..Cardinality(P)
  PROVE  KeyAt(P, j) \in P /\ Rank(P, KeyAt(P, j)) = j - 1
<1>1. j - 1 \in 0..(Cardinality(P) - 1)
  BY KeysFinite
<1>2. \E p \in P : Cardinality({q \in P : q < p}) = j - 1
  BY <1>1, RankOnto DEF Rank
<1> QED
  BY <1>2 DEF Rank, KeyAt

(* What Lists the values of f at the keys P has at place j the value of    *)
(* the key with j - 1 keys before it.                                      *)
LEMMA ListsRanked ==
  ASSUME NEW f, NEW P, P \subseteq Pos, NEW s, Len(s) \in Nat, Lists(s, f, P)
  PROVE  /\ Len(s) = Cardinality(P)
         /\ \A j \in 1..Len(s), p \in P : Rank(P, p) = j - 1 => s[j] = f[p]
<1>1. PICK n \in Nat : n = Len(s)
  OBVIOUS
<1>2. PICK e \in [1..n -> P] :
        /\ \A i, j \in 1..n : i < j => e[i] < e[j]
        /\ \A p \in P : \E i \in 1..n : e[i] = p
        /\ \A i \in 1..n : s[i] = f[e[i]]
  BY <1>1 DEF Lists
<1>3. P \subseteq Int
  BY KeysFinite
<1>4. \A i, j \in 1..n : e[i] = e[j] => i = j
  <2> SUFFICES ASSUME NEW i \in 1..n, NEW j \in 1..n, e[i] = e[j], i # j PROVE FALSE
    OBVIOUS
  <2>1. e[i] \in Int /\ e[j] \in Int
    BY <1>3
  <2>2. i < j \/ j < i
    OBVIOUS
  <2> QED
    BY <1>2, <2>1, <2>2
<1>5. Cardinality(P) = n
  <2>1. e \in Bijection(1..n, P)
    BY <1>2, <1>4 DEF Bijection, Injection, IsInjective, Surjection
  <2>2. ExistsBijection(1..n, P)
    BY <2>1 DEF ExistsBijection
  <2> QED
    BY <2>2, FS_CountingElements
<1>6. ASSUME NEW j \in 1..n PROVE Rank(P, e[j]) = j - 1
  <2>1. PICK B : B = {q \in P : q < e[j]}
    OBVIOUS
  <2>2. PICK g : g = [k \in 1..(j - 1) |-> e[k]]
    OBVIOUS
  <2>3. g \in [1..(j - 1) -> B]
    <3> SUFFICES ASSUME NEW k \in 1..(j - 1) PROVE e[k] \in B
      BY <2>2
    <3>1. k \in 1..n /\ k < j
      OBVIOUS
    <3> QED
      BY <1>2, <2>1, <3>1
  <2>4. ASSUME NEW b \in B PROVE \E k \in 1..(j - 1) : g[k] = b
    <3>1. b \in P /\ b < e[j] /\ b \in Int /\ e[j] \in Int
      BY <1>3, <2>1
    <3>2. PICK k \in 1..n : e[k] = b
      BY <1>2, <3>1
    <3>3. k # j /\ ~ (j < k)
      BY <1>2, <3>1, <3>2
    <3>4. k \in 1..(j - 1)
      BY <3>3
    <3> QED
      BY <2>2, <3>2, <3>4
  <2>5. \A a, c \in 1..(j - 1) : g[a] = g[c] => a = c
    <3> SUFFICES ASSUME NEW a \in 1..(j - 1), NEW c \in 1..(j - 1), g[a] = g[c] PROVE a = c
      OBVIOUS
    <3>1. a \in 1..n /\ c \in 1..n
      OBVIOUS
    <3> QED
      BY <1>4, <2>2, <3>1
  <2>6. g \in Bijection(1..(j - 1), B)
    BY <2>3, <2>4, <2>5 DEF Bijection, Injection, IsInjective, Surjection
  <2>7. ExistsBijection(1..(j - 1), B) /\ j - 1 \in Nat
    BY <2>6 DEF ExistsBijection
  <2>8. Cardinality(B) = j - 1
    BY <2>7, FS_CountingElements
  <2> QED
    BY <2>1, <2>8 DEF Rank
<1>7. ASSUME NEW j \in 1..n, NEW p \in P, Rank(P, p) = j - 1 PROVE s[j] = f[p]
  <2>1. e[j] \in P
    OBVIOUS
  <2>2. e[j] = p
    BY <1>6, <1>7, <2>1, RankInjective
  <2> QED
    BY <1>2, <2>2
<1> QED
  BY <1>1, <1>5, <1>7

-----------------------------------------------------------------------------
(* A read of segment s of table t from a store content f, as               *)
(* hashtree_get_segment has it: every row of the segment is read, and only *)
(* rows of that segment number are.                                        *)
LEMMA ReadComplete ==
  ASSUME NEW f, NEW t \in Tables, NEW s \in Leaves, NEW p \in RowsOf(f, t, s)
  PROVE  /\ p \in Pos /\ f[p] # None /\ AtOrAfter(p, t, s)
         /\ \A q \in Pos : f[q] # None /\ AtOrAfter(q, t, s) /\ q <= p => Seg[q] = s
<1>1. p \in Pos /\ f[p] # None /\ Tab[p] = t /\ Seg[p] = s
  BY DEF RowsOf
<1>2. s \in Int
  BY DEF Leaves
<1>3. AtOrAfter(p, t, s)
  BY <1>1, <1>2 DEF AtOrAfter
<1>4. ASSUME NEW q \in Pos, AtOrAfter(q, t, s), q <= p
      PROVE  Seg[q] = s
  <2>1. s <= Seg[q] /\ Seg[q] <= s
    BY <1>1, <1>4, BetweenInTable
  <2>2. Seg[q] \in Int
    BY KeyAssumption DEF Leaves
  <2> QED
    BY <2>1, <2>2, <1>2
<1> QED
  BY <1>1, <1>3, <1>4

LEMMA ReadInSegment ==
  ASSUME NEW f, NEW t, NEW s, NEW p \in Pos, f[p] # None, AtOrAfter(p, t, s),
         \A q \in Pos : f[q] # None /\ AtOrAfter(q, t, s) /\ q <= p => Seg[q] = s
  PROVE  Seg[p] = s
<1>1. p <= p
  BY SizeAssumption DEF Pos
<1> QED
  BY <1>1

-----------------------------------------------------------------------------
(* A leaf is a child of one node of level 1.                               *)
LEMMA LeafJoin ==
  ASSUME NEW a \in 0..(Fan - 1), NEW b \in 0..(Fan - 1)
  PROVE  Fan * a + b \in Leaves /\ a * Fan + b = Fan * a + b
<1>1. Fan \in Nat /\ Fan > 0
  BY SizeAssumption
<1>2. a * Fan <= (Fan - 1) * Fan /\ a * Fan >= 0
  BY <1>1
<1>3. (Fan - 1) * Fan = Fan * Fan - Fan /\ a * Fan = Fan * a
  BY <1>1
<1>4. a * Fan \in Int /\ Fan * Fan \in Int
  BY <1>1
<1> QED
  BY <1>1, <1>2, <1>3, <1>4 DEF Leaves, NLeaf

LEMMA LeafSplit ==
  ASSUME NEW s \in Leaves
  PROVE  s \div Fan \in 0..(Fan - 1) /\ s % Fan \in 0..(Fan - 1) /\ s = Fan * (s \div Fan) + (s % Fan)
<1>1. Fan \in Nat /\ Fan > 0 /\ s \in Nat /\ s < Fan * Fan
  BY SizeAssumption DEF Leaves, NLeaf
<1>2. s \div Fan \in Int /\ s % Fan \in 0..(Fan - 1) /\ s = Fan * (s \div Fan) + (s % Fan)
  <2>1. s \div Fan \in Int
    BY <1>1
  <2>2. s % Fan \in 0..(Fan - 1)
    BY <1>1
  <2>3. s = Fan * (s \div Fan) + (s % Fan)
    BY <1>1
  <2> QED
    BY <2>1, <2>2, <2>3
<1>3. PICK q \in Int : q = s \div Fan
  BY <1>2
<1>4. Fan * q <= s /\ s < Fan * q + Fan
  BY <1>1, <1>2, <1>3
<1>5. q >= 0
  <2> SUFFICES ASSUME q <= -1 PROVE FALSE
    OBVIOUS
  <2>1. Fan * q <= Fan * (-1)
    BY <1>1
  <2> QED
    BY <1>1, <1>4, <2>1
<1>6. q <= Fan - 1
  <2> SUFFICES ASSUME q >= Fan PROVE FALSE
    BY <1>1
  <2>1. Fan * q >= Fan * Fan
    BY <1>1
  <2> QED
    BY <1>1, <1>4, <2>1
<1> QED
  BY <1>2, <1>3, <1>5, <1>6

LEMMA LeafUnique ==
  ASSUME NEW a \in 0..(Fan - 1), NEW b \in 0..(Fan - 1),
         NEW c \in 0..(Fan - 1), NEW d \in 0..(Fan - 1), Fan * a + b = Fan * c + d
  PROVE  a = c /\ b = d
<1>1. Fan \in Nat /\ Fan > 0
  BY SizeAssumption
<1>2. ASSUME NEW x \in Nat, NEW y \in Nat, x < y PROVE Fan * x + Fan <= Fan * y
  <2>1. Fan * (x + 1) <= Fan * y
    BY <1>1, <1>2
  <2>2. Fan * (x + 1) = Fan * x + Fan
    BY <1>1
  <2> QED
    BY <2>1, <2>2
<1>3. ~ (a < c)
  BY <1>1, <1>2
<1>4. ~ (c < a)
  BY <1>1, <1>2
<1>5. a = c
  BY <1>3, <1>4
<1> QED
  BY <1>1, <1>5
================================================================================
