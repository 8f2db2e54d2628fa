-------------------------------- MODULE NodeCmp --------------------------------
(***************************************************************************)
(* The comparison of a table on two nodes: HashtreeComparator.diff of      *)
(* nodecmp.  It updates both trees, then walks down from the root into     *)
(* what differs and prints the rows that differ.  Each command is answered *)
(* by one node's console while messages go on changing the rows of both;   *)
(* other clients may update the trees in between.  hashtree_update appears *)
(* here by what it implements (TreeView): it publishes the tree of one     *)
(* moment.                                                                 *)
(***************************************************************************)
EXTENDS Keyspace

CONSTANTS
  T,            \* the table that is compared
  Owner,        \* the row a digest is of
  Start,        \* Start[p]: the text of p's row key up to its first space
  MaxMessages   \* bound: row changes on the two nodes together

(* A row's digest sums its columns (inputmsg.cpp:40-60), those of its key  *)
(* among them, so digests of different rows differ.  It has to be assumed: *)
(* a leaf sums digests and no keys (hashtree.cpp:296), and two rows of one *)
(* digest, one on each node, would give equal leaves.                      *)
ASSUME OwnerAssumption == Owner \in [Heads -> Pos]

(* Keys of one segment have different texts: a row key names its table     *)
(* (treebuilder.py:32).  Texts with a line end, which is how the console   *)
(* ends a line, are left out: NodeClient reads lines.                      *)
ASSUME StartAssumption == DOMAIN Start = Pos
ASSUME CompareAssumption == T \in Tables /\ MaxMessages \in Nat

VARIABLES
  rows,      \* rows[n]: the rows of node n
  snap,      \* snap[n]: the rows its tree was last computed from
  messages,  \* how many messages have changed a row
  pc,        \* diff: "idle", "update", "lv0", "lv1", "lv2", "seg", "done"
  side,      \* the node that gets the next command: 1, then 2
  answer,    \* r1: what node 1 has answered (empty: nothing yet)
  lv1, lv2,  \* the keys of r and t0 that the loops have still to visit
  i, j,      \* the loops' current keys
  printed,   \* the items printed: <<segment, key of the dictionary>>
  calm       \* history: the rows that have not changed since diff began

nodes == <<rows, snap, messages>>
locals == <<answer, lv1, lv2, i, j, printed>>
vars == <<nodes, pc, side, locals, calm>>

Sides == {1, 2}
Values(p) == {h \in Heads : Owner[h] = p} \cup {None}
Content == {f \in [Pos -> Heads \cup {None}] : \A p \in Pos : f[p] \in Values(p)}
Child == 0..(Fan - 1)

Store(n) == INSTANCE HashStore WITH db <- rows[n]
View ==
  INSTANCE TreeView WITH
    db <- Zero, tree <- Zero, cand <- Zero, NoTree <- Zero, NoCand <- Zero

(* None stands for no stored value; no node's digest is None.              *)
ASSUME DigestAssumption ==
  \A f \in Content, s \in Leaves, c \in Child :
    None \notin {View!Leaf(f, s), View!Inner(f, c), View!Root(f)}

Init ==
  /\ rows \in [Sides -> Content]
  /\ snap = [n \in Sides |-> [p \in Pos |-> None]]
  /\ messages = 0
  /\ pc = "idle" /\ side = 1
  /\ answer = <<>> /\ lv1 = {} /\ lv2 = {} /\ i = 0 /\ j = 0
  /\ printed = {} /\ calm = Pos

-----------------------------------------------------------------------------
(* onMapMsgHandle on node n.                                               *)
Message(n, p, v) ==
  /\ messages < MaxMessages /\ v # rows[n][p]
  /\ rows' = [rows EXCEPT ![n] =
                IF v = None THEN Store(n)!DbDelete(p) ELSE Store(n)!DbPut(p, v)]
  /\ messages' = messages + 1
  /\ calm' = calm \ {q \in Pos : rows'[n][q] # rows[n][q]}
  /\ UNCHANGED <<snap, pc, side, locals>>

(* Somebody else's update command on node n.                               *)
OtherUpdate(n) ==
  /\ snap' = [snap EXCEPT ![n] = rows[n]]
  /\ UNCHANGED <<rows, messages, pc, side, locals, calm>>

(* cmd_get_lv_hash for one node of n's tree: the entries whose names       *)
(* compare equal to the wanted one.                                        *)
DigestReads(n, node) ==
  LET tree == View!Tree(snap[n])
      hits == {m \in Nodes : tree[m] # None /\ (m = node \/ NodeTwin(m, node))}
  IN  IF hits = {} THEN {Zero} ELSE {tree[m] : m \in hits}

(* NodeClient.get_digest: a level's nodes first, first + 1, ...            *)
GetDigest(n, level, first, indexes) ==
  {r \in [indexes -> UNION {DigestReads(n, <<level, first + k>>) : k \in indexes}] :
    \A k \in indexes : r[k] \in DigestReads(n, <<level, first + k>>)}

(* NodeClient.get_segment.  cmd_get_seg writes a line for each row: its    *)
(* key, a space and the digest.  The client splits each line at the first  *)
(* space into a dictionary, so of the rows whose keys start alike one item *)
(* is left, that of the row whose line comes last: any of them.  What      *)
(* follows the start tells which, so an item is <<row, digest>>.           *)
GetSegment(n, s) ==
  LET keys == Store(n)!SegmentKeys(T, s)
      items == UNION {{p} \X Store(n)!EntryDigests(p) : p \in keys}
  IN  {r \in [{Start[p] : p \in keys} -> items] : \A k \in DOMAIN r : Start[r[k][1]] = k}

-----------------------------------------------------------------------------
Begin ==
  /\ pc = "idle"
  /\ pc' = "update" /\ calm' = Pos
  /\ UNCHANGED <<nodes, side, locals>>

(* self._n1.update(tname); self._n2.update(tname)                          *)
Update ==
  /\ pc = "update"
  /\ snap' = [snap EXCEPT ![side] = rows[side]]
  /\ side' = 3 - side
  /\ pc' = IF side = 1 THEN "update" ELSE "lv0"
  /\ UNCHANGED <<rows, messages, locals, calm>>

(* r1 of a level's comparison; the loops of diff pick the index first.     *)
Ask ==
  /\ side = 1 /\ side' = 2
  /\ \/ pc = "lv0" /\ answer' \in GetDigest(1, 0, 0, {0}) /\ UNCHANGED <<i, j>>
     \/ pc = "lv1" /\ answer' \in GetDigest(1, 1, 0, Child) /\ UNCHANGED <<i, j>>
     \/ /\ pc = "lv2" /\ i' \in lv1
        /\ answer' \in GetDigest(1, 2, Fan * i', Child)
        /\ UNCHANGED j
     \/ /\ pc = "seg" /\ j' \in lv2
        /\ answer' \in GetSegment(1, Fan * i + j')
        /\ UNCHANGED i
  /\ UNCHANGED <<nodes, pc, lv1, lv2, printed, calm>>

(* A mutant of Differ: every index is reported.                            *)
EveryIndex(r2) == DOMAIN answer

Differ(r2) == {k \in DOMAIN answer : answer[k] # r2[k]}

(* _lv0_diff: equal roots end the comparison.                              *)
Lv0Diff ==
  /\ pc = "lv0" /\ side = 2
  /\ \E r2 \in GetDigest(2, 0, 0, {0}) :
       pc' = IF answer = r2 THEN "done" ELSE "lv1"
  /\ side' = 1 /\ answer' = <<>>
  /\ UNCHANGED <<nodes, lv1, lv2, i, j, printed, calm>>

(* _lv1_diff                                                               *)
Lv1Diff ==
  /\ pc = "lv1" /\ side = 2
  /\ \E r2 \in GetDigest(2, 1, 0, Child) : lv1' = Differ(r2)
  /\ pc' = "lv2" /\ side' = 1 /\ answer' = <<>>
  /\ UNCHANGED <<nodes, lv2, i, j, printed, calm>>

(* A mutant of Lv2Diff: node 2 is asked from index i on, not Fan * i.      *)
Lv2DiffUnscaled ==
  /\ pc = "lv2" /\ side = 2
  /\ \E r2 \in GetDigest(2, 2, i, Child) : lv2' = Differ(r2)
  /\ lv1' = lv1 \ {i}
  /\ pc' = "seg" /\ side' = 1 /\ answer' = <<>>
  /\ UNCHANGED <<nodes, i, j, printed, calm>>

(* A mutant of Lv2Diff: the keys are indexes of the level.                 *)
Lv2DiffAbsolute ==
  /\ pc = "lv2" /\ side = 2
  /\ \E r2 \in GetDigest(2, 2, Fan * i, Child) : lv2' = {Fan * i + k : k \in Differ(r2)}
  /\ lv1' = lv1 \ {i}
  /\ pc' = "seg" /\ side' = 1 /\ answer' = <<>>
  /\ UNCHANGED <<nodes, i, j, printed, calm>>

(* _lv2_diff, for the children of node i of level 1.                       *)
Lv2Diff ==
  /\ pc = "lv2" /\ side = 2
  /\ \E r2 \in GetDigest(2, 2, Fan * i, Child) : lv2' = Differ(r2)
  /\ lv1' = lv1 \ {i}
  /\ pc' = "seg" /\ side' = 1 /\ answer' = <<>>
  /\ UNCHANGED <<nodes, i, j, printed, calm>>

(* _seg_diff: keys of both with different items, and keys of one.          *)
SegDiff ==
  /\ pc = "seg" /\ side = 2
  /\ \E r2 \in GetSegment(2, Fan * i + j) :
       LET comm == DOMAIN answer \cap DOMAIN r2
       IN  printed' = printed
             \cup {<<Fan * i + j, k>> : k \in {c \in comm : answer[c] # r2[c]}
                  \cup (DOMAIN answer \ comm) \cup (DOMAIN r2 \ comm)}
  /\ lv2' = lv2 \ {j}
  /\ side' = 1 /\ answer' = <<>>
  /\ UNCHANGED <<nodes, pc, lv1, i, j, calm>>

(* A loop of diff is at its end: back to the outer one, or out.            *)
Ascend ==
  /\ side = 1
  /\ \/ pc = "seg" /\ lv2 = {} /\ pc' = "lv2"
     \/ pc = "lv2" /\ lv1 = {} /\ pc' = "done"
  /\ UNCHANGED <<nodes, side, locals, calm>>

Next ==
  \/ \E n \in Sides, p \in Pos : \E v \in Values(p) : Message(n, p, v)
  \/ \E n \in Sides : OtherUpdate(n)
  \/ Begin \/ Update \/ Ask \/ Lv0Diff \/ Lv1Diff \/ Lv2Diff \/ SegDiff \/ Ascend

Spec == Init /\ [][Next]_vars

-----------------------------------------------------------------------------
(* What is printed of row p: m : s0[m].                                    *)
Item(p) == <<Seg[p], Start[p]>>

TypeOK ==
  /\ rows \in [Sides -> Content] /\ snap \in [Sides -> Content]
  /\ messages \in 0..MaxMessages
  /\ pc \in {"idle", "update", "lv0", "lv1", "lv2", "seg", "done"}
  /\ side \in Sides
  /\ (answer # <<>> => side = 2)
  /\ lv1 \subseteq Child /\ lv2 \subseteq Child
  /\ i \in Child /\ j \in Child
  /\ printed \subseteq {Item(p) : p \in Pos} /\ calm \subseteq Pos

(* A digest stored under the node's name cannot be found again: the name   *)
(* of a later one extends it (hashtree.cpp:210).                           *)
Superseded(node) == \E m \in Nodes : m[1] = node[1] /\ Extends(m[2], node[2])
Found(s) == ~Superseded(<<2, s>>) /\ ~Superseded(<<1, s \div Fan>>)

Differs(p) == rows[1][p] # rows[2][p]

(* Another row, of any table, has had the same item.                       *)
Merged(p) ==
  \E q \in Pos \ {p} :
    Item(q) = Item(p) /\ (q \in calm => \E n \in Sides : rows[n][q] # None)

(* diff prints every row that differed all the time it ran, whatever else  *)
(* changed on either node and whoever else updated a tree between its      *)
(* commands (nodecmp:121-132), unless a node on the way is superseded, or  *)
(* another row of the segment, on either node, has a key that is the same  *)
(* up to the first space (nodecmp:56-57).                                  *)
DiffComplete ==
  pc = "done" =>
    \A p \in calm :
      Tab[p] = T /\ Differs(p) /\ Found(Seg[p]) /\ ~Merged(p) => Item(p) \in printed

(* A segment in which the table's rows were equal all the time is never    *)
(* opened, so nothing of it is printed, although reading it would show     *)
(* equal rows as different (hashtree.cpp:125, 381) and rows of the next    *)
(* table.                                                                  *)
EqualSegmentsSilent ==
  \A s \in Leaves :
    /\ ~Superseded(<<2, s>>)
    /\ \A p \in Pos : Tab[p] = T /\ Seg[p] = s => p \in calm /\ ~Differs(p)
    => \A x \in printed : x[1] # s
================================================================================
