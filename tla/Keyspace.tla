------------------------------- MODULE Keyspace -------------------------------
(***************************************************************************)
(* The keys of the LevelDB store kept by hashtree.cpp.                     *)
(*                                                                         *)
(* Row keys.  A run fixes the finite set of store keys that can occur and  *)
(* numbers them 1..NPos in the order in which SegmentComparator sorts      *)
(* them: by table name, then by segment number, then by row key.  Tab and  *)
(* Seg give the first two fields of each key.  The row-key text itself     *)
(* matters only through the comparator, which compares two row keys over   *)
(* the length of the shorter one: a row key and an extension of it in the  *)
(* same segment compare equal.  Twins is that relation on the keys of the  *)
(* run.                                                                    *)
(*                                                                         *)
(* Node keys.  The digests of the tree are stored under the name           *)
(* "<table>_<level>_<index>" with the index in decimal, in a table of      *)
(* their own and always in segment 0, so the same comparator makes the     *)
(* nodes 1 and 10 of a level equal.                                        *)
(***************************************************************************)
EXTENDS Integers, Sequences, FiniteSets

CONSTANTS
  NPos,     \* the number of store keys of the run
  Tables,   \* table names, as numbers in strncmp order
  Tab,      \* Tab[p]: the table of key p
  Seg,      \* Seg[p]: the segment number of key p
  Twins,    \* pairs of distinct keys that SegmentComparator finds equal
  Fan,      \* children of a tree node: 1024 in the code
  Base,     \* the base in which a node's index is printed: 10 in the code
  Heads,    \* the first 8 bytes of a row digest
  Tails,    \* the other 12 bytes of a row digest
  None,     \* no value is stored
  Zero      \* the all-zero digest

Pos == 1..NPos
NLeaf == Fan * Fan
Leaves == 0..(NLeaf - 1)

KeyBefore(p, q) ==
  \/ Tab[p] < Tab[q]
  \/ Tab[p] = Tab[q] /\ Seg[p] < Seg[q]
  \/ Tab[p] = Tab[q] /\ Seg[p] = Seg[q] /\ p < q

ASSUME SizeAssumption == NPos \in Nat /\ Fan \in Nat \ {0} /\ Base \in Nat \ {0, 1}

(* The numbering of the keys is the comparator's order.                    *)
ASSUME KeyAssumption ==
  /\ Tables \subseteq Nat
  /\ Tab \in [Pos -> Tables]
  /\ Seg \in [Pos -> Leaves]
  /\ \A p, q \in Pos : p < q => KeyBefore(p, q)

ASSUME TwinAssumption ==
  \A t \in Twins :
    /\ t \in Pos \X Pos
    /\ t[1] # t[2]
    /\ Tab[t[1]] = Tab[t[2]] /\ Seg[t[1]] = Seg[t[2]]
    /\ <<t[2], t[1]>> \in Twins

ASSUME ValueAssumption == None \notin Heads

(* A row's digest; hashtree_insert receives all of it.                     *)
Digest == [head : Heads, tail : Tails]

(* Seek: the keys at or after the given table and segment (with an empty   *)
(* row key, which sorts before every other).                               *)
AtOrAfter(p, t, s) == Tab[p] > t \/ (Tab[p] = t /\ Seg[p] >= s)

-----------------------------------------------------------------------------
(* The tree's nodes: <<level, index>>.                                     *)
Nodes == {<<0, 0>>} \cup ({1} \X (0..(Fan - 1))) \cup ({2} \X Leaves)

(* The decimal text of index j is the text of index i and some more digits *)
(* (and so j is the greater number).                                       *)
Extends(j, i) == 0 < i /\ i < j /\ \E n \in 1..NLeaf : j \div (Base ^ n) = i

(* Two node keys that SegmentComparator finds equal.                       *)
NodeTwin(m, n) ==
  /\ m # n /\ m[1] = n[1]
  /\ Extends(m[2], n[2]) \/ Extends(n[2], m[2])

(* SHA-1 as a free constructor: different messages have different digests, *)
(* none of them Zero.                                                      *)
Sha1(message) == [sha1 |-> message]

(* The rows of table t in segment i of a store content f, in key order.    *)
RowsOf(f, t, i) == {p \in Pos : f[p] # None /\ Tab[p] = t /\ Seg[p] = i}

(* s lists the values of f at the positions P in ascending order.          *)
Lists(s, f, P) ==
  \E e \in [1..Len(s) -> P] :
    /\ \A i, j \in 1..Len(s) : i < j => e[i] < e[j]
    /\ \A p \in P : \E i \in 1..Len(s) : e[i] = p
    /\ \A i \in 1..Len(s) : s[i] = f[e[i]]
=============================================================================
