------------------------------- MODULE TreeView -------------------------------
(***************************************************************************)
(* What hashtree_update promises: "update() operates on a snapshot of      *)
(* leveldb database, it does not block insert()" (hashtree.cpp:247).  The  *)
(* tree a reader finds between updates is the tree of all rows of T as     *)
(* they were at one moment after the last update was called and before it  *)
(* returned; or, when that update was cut short, no particular tree.       *)
(***************************************************************************)
EXTENDS Keyspace

CONSTANTS T, NoTree, NoCand

VARIABLES
  db,        \* the rows of the store
  tree,      \* the stored nodes, or NoTree when they do not form one tree
  cand       \* the rows an update under way will summarise, or NoCand

(* The values of the rows in leaf i of content f, in key order.            *)
LeafSeq(f, i) ==
  LET rows == RowsOf(f, T, i)
  IN  [j \in 1..Cardinality(rows) |->
        f[CHOOSE p \in rows : Cardinality({q \in rows : q < p}) = j - 1]]

Leaf(f, i) == Sha1(LeafSeq(f, i))
Inner(f, i) == Sha1([j \in 1..Fan |-> Leaf(f, i * Fan + j - 1)])
Root(f) == Sha1([i \in 1..Fan |-> Inner(f, i - 1)])

(* The tree of f as the store can hold it: of the nodes whose names        *)
(* compare equal only the last written of a level, the one no longer name  *)
(* extends, is there.                                                      *)
Tree(f) ==
  [n \in Nodes |->
    IF \E m \in Nodes : m[1] = n[1] /\ Extends(m[2], n[2]) THEN None
    ELSE IF n[1] = 2 THEN Leaf(f, n[2])
    ELSE IF n[1] = 1 THEN Inner(f, n[2])
    ELSE Root(f)]

Init ==
  /\ db = [p \in Pos |-> None]
  /\ tree = [n \in Nodes |-> None]
  /\ cand = NoCand

Begin == cand = NoCand /\ cand' = db /\ UNCHANGED <<db, tree>>
Publish == cand # NoCand /\ tree' = Tree(cand) /\ cand' = NoCand /\ UNCHANGED db
Tear == cand # NoCand /\ tree' = NoTree /\ UNCHANGED <<db, cand>>
Abandon == cand # NoCand /\ cand' = NoCand /\ tree' \in {tree, NoTree} /\ UNCHANGED db
Write == db' # db /\ UNCHANGED <<tree, cand>>

Next == Begin \/ Publish \/ Tear \/ Abandon \/ Write

vars == <<db, tree, cand>>
Spec == Init /\ [][Next]_vars
===============================================================================
