------------------------------- MODULE Hashtree -------------------------------
(***************************************************************************)
(* hashtree_update and hashtree_get_digest of hashtree.cpp: the hash tree  *)
(* of one table T, computed from a snapshot of the store and written back  *)
(* node by node, while the message receiver inserts and removes rows on    *)
(* another thread.                                                         *)
(*                                                                         *)
(* Console commands, and so hashtree_update and hashtree_get_digest, run   *)
(* one at a time on the reactor's thread: nothing reads the tree while an  *)
(* update is under way.  The store survives the process: the main program  *)
(* no longer deletes its directory at start, so the tree found after a     *)
(* crash is what the interrupted update left.                              *)
(***************************************************************************)
EXTENDS HashStore

CONSTANTS
  T,         \* the table whose tree is updated
  Faults     \* what may go wrong: "put" (a put of the update fails), "crash"

ASSUME TableAssumption == T \in Tables /\ Faults \subseteq {"put", "crash"}

(* Zero, a digest, is no content of the store: below it stands for the     *)
(* absence of one.                                                         *)
ASSUME ZeroAssumption == Zero \notin [Pos -> Heads \cup {None}]

VARIABLES
  nodes,     \* nodes[n]: the digest stored for node n, or None
  image,     \* "whole": the stored nodes are those of one finished update
  pc,        \* the update: "idle", "scan" (reading rows), "put" (writing nodes)
  snap,      \* the LevelDB snapshot the iterator reads
  at,        \* the iterator: keys before this one have been visited
  seg,       \* curr_seg_idx
  ctx,       \* what has been fed to the SHA-1 context
  lv2,       \* the array of leaf digests
  put,       \* the number of nodes written so far
  lost       \* a put of this update has failed

locals == <<snap, at, seg, ctx, lv2, put, lost>>
vars == <<db, nodes, image, pc, locals>>

NoRows == [p \in Pos |-> None]
NoDigests == [i \in Leaves |-> Zero]

(* The locals of an update that is not running.                            *)
FreeLocals ==
  /\ snap' = NoRows /\ at' = 1 /\ seg' = 0 /\ ctx' = <<>>
  /\ lv2' = NoDigests /\ put' = 0 /\ lost' = FALSE

Init ==
  /\ StoreInit
  /\ nodes = [n \in Nodes |-> None]
  /\ image = "whole"
  /\ pc = "idle"
  /\ snap = NoRows /\ at = 1 /\ seg = 0 /\ ctx = <<>>
  /\ lv2 = NoDigests /\ put = 0 /\ lost = FALSE

-----------------------------------------------------------------------------
(* What the iterator reads under key p: the snapshot's value.              *)
Seen(p) == snap[p]

(* The iterator stands at the first key of the snapshot at or after the    *)
(* target of the seek that it has not visited yet.                         *)
Pending == {p \in Pos : p >= at /\ Seen(p) # None /\ AtOrAfter(p, T, 0)}
Current(p) == p \in Pending /\ \A q \in Pending : p <= q

(* A mutant of Closed: the current leaf is sealed as an empty one.         *)
ForgetfulClosed(end) ==
  [i \in Leaves |-> IF seg <= i /\ i < end THEN Sha1(<<>>) ELSE lv2[i]]

(* The leaf digests once segment seg is finished and the segments between  *)
(* it and end have been found empty.                                       *)
Closed(end) ==
  [i \in Leaves |->
    IF i = seg THEN Sha1(ctx)
    ELSE IF seg < i /\ i < end THEN Sha1(<<>>)
    ELSE lv2[i]]

(* A mutant of UpdateBegin: it starts with an empty snapshot.              *)
EmptyBegin ==
  /\ pc = "idle"
  /\ pc' = "scan"
  /\ snap' = NoRows
  /\ UNCHANGED <<db, nodes, image, at, seg, ctx, lv2, put, lost>>

(* hashtree_update starts: the snapshot is taken, the iterator sought.     *)
UpdateBegin ==
  /\ pc = "idle"
  /\ pc' = "scan"
  /\ snap' = db
  /\ UNCHANGED <<db, nodes, image, at, seg, ctx, lv2, put, lost>>

(* One iteration of the loop over the rows of the table.                   *)
ScanRow(p) ==
  /\ pc = "scan"
  /\ Current(p) /\ Tab[p] = T
  /\ IF seg < Seg[p]
       THEN lv2' = Closed(Seg[p]) /\ seg' = Seg[p] /\ ctx' = <<Seen(p)>>
       ELSE ctx' = Append(ctx, Seen(p)) /\ UNCHANGED <<lv2, seg>>
  /\ at' = p + 1
  /\ UNCHANGED <<db, nodes, image, pc, snap, put, lost>>

(* The iterator is exhausted or has reached another table: the last leaf   *)
(* and the empty ones after it are sealed and the snapshot is released     *)
(* (snap only remembers which it was).                                     *)
ScanEnd ==
  /\ pc = "scan"
  /\ \A p \in Pos : Current(p) => Tab[p] # T
  /\ lv2' = Closed(NLeaf)
  /\ pc' = "put"
  /\ UNCHANGED <<db, nodes, image, snap, at, seg, ctx, put, lost>>

-----------------------------------------------------------------------------
(* The nodes in the order they are written: the leaves, level 1, the root. *)
LastPut == NLeaf + Fan
NodeNo(c) ==
  IF c < NLeaf THEN <<2, c>> ELSE IF c < LastPut THEN <<1, c - NLeaf>> ELSE <<0, 0>>

(* A mutant of Lv1: the children are taken one place too far left.         *)
ShiftedLv1(i) == Sha1([j \in 1..Fan |-> lv2[IF i = 0 THEN j - 1 ELSE i * Fan + j - 2]])

Lv1(i) == Sha1([j \in 1..Fan |-> lv2[i * Fan + j - 1]])
Lv0 == Sha1([i \in 1..Fan |-> Lv1(i - 1)])

NodeDigest(n) ==
  IF n[1] = 2 THEN lv2[n[2]] ELSE IF n[1] = 1 THEN Lv1(n[2]) ELSE Lv0

(* Storing a node supersedes the nodes whose names compare equal to its    *)
(* own.                                                                    *)
NodePut(n) ==
  [m \in Nodes |->
    IF m = n THEN NodeDigest(n) ELSE IF NodeTwin(m, n) THEN None ELSE nodes[m]]

(* A mutant of WriteNode: the root is written and no end is found.         *)
EndlessWriteNode ==
  /\ pc = "put"
  /\ \/ nodes' = NodePut(NodeNo(put)) /\ lost' = lost
     \/ "put" \in Faults /\ nodes' = nodes /\ lost' = TRUE
  /\ put' = put + 1
  /\ image' = "torn"
  /\ UNCHANGED <<db, pc, snap, at, seg, ctx, lv2>>

(* One put of _hashtree_put_lvx.  Its status is dropped: when it fails the *)
(* update goes on.  After the root the update returns.                     *)
WriteNode ==
  /\ pc = "put"
  /\ \/ nodes' = NodePut(NodeNo(put)) /\ lost' = lost
     \/ "put" \in Faults /\ nodes' = nodes /\ lost' = TRUE
  /\ put' = put + 1
  /\ put < LastPut
  /\ image' = "torn"
  /\ UNCHANGED <<db, pc, snap, at, seg, ctx, lv2>>

(* A mutant of WriteRoot: the loop over the nodes starts over.             *)
RestlessRoot ==
  /\ pc = "put" /\ put = LastPut
  /\ nodes' = NodePut(NodeNo(put)) /\ image' = "torn" /\ put' = 0
  /\ UNCHANGED <<db, pc, snap, at, seg, ctx, lv2, lost>>

WriteRoot ==
  /\ pc = "put" /\ put = LastPut
  /\ \/ nodes' = NodePut(NodeNo(put)) /\ image' = IF lost THEN "torn" ELSE "whole"
     \/ "put" \in Faults /\ nodes' = nodes /\ image' = "torn"
  /\ pc' = "idle"
  /\ FreeLocals
  /\ UNCHANGED db

UpdateStep == (\E p \in Pos : ScanRow(p)) \/ ScanEnd \/ WriteNode \/ WriteRoot

(* The process dies during an update and is started again; the store is as *)
(* the last put left it (the machine stays up: the puts are not synced).   *)
Crash ==
  /\ "crash" \in Faults
  /\ pc # "idle"
  /\ pc' = "idle"
  /\ FreeLocals
  /\ UNCHANGED <<db, nodes, image>>

(* A message is handled on the receiver's thread.                          *)
Receive == \E p \in Pos : Message(p) /\ UNCHANGED <<nodes, image, pc, locals>>

Next == Receive \/ UpdateBegin \/ UpdateStep \/ Crash

(* A call of hashtree_update runs to its end: its loops wait for nothing.  *)
Spec == Init /\ [][Next]_vars /\ WF_vars(UpdateStep)

-----------------------------------------------------------------------------
(* hashtree_get_digest of one node: a get returns an entry whose name      *)
(* compares equal to the wanted one, and the buffer was zeroed for the     *)
(* case that there is none.                                                *)
DigestReads(n) ==
  LET hits == {m \in Nodes : nodes[m] # None /\ (m = n \/ NodeTwin(m, n))}
  IN  IF hits = {} THEN {Zero} ELSE {nodes[m] : m \in hits}

-----------------------------------------------------------------------------
(* The digests of leaves (Zero until sealed) and of the inner nodes.       *)
SealedDigest == [sha1 : Seq(Heads)]
LeafDigest == {Zero} \cup SealedDigest
Lv1Digest == [sha1 : [1..Fan -> LeafDigest]]
Lv0Digest == [sha1 : [1..Fan -> Lv1Digest]]

TypeOK ==
  /\ StoreTypeOK
  /\ nodes \in [Nodes -> {None} \cup LeafDigest \cup Lv1Digest \cup Lv0Digest]
  /\ image \in {"whole", "torn"}
  /\ pc \in {"idle", "scan", "put"}
  /\ snap \in [Pos -> Heads \cup {None}]
  /\ at \in 1..(NPos + 1)
  /\ seg \in Leaves
  /\ ctx \in Seq(Heads)
  /\ lv2 \in [Leaves -> LeafDigest]
  /\ put \in 0..LastPut
  /\ lost \in BOOLEAN

(* Leaf i holds the digest of the rows of segment i, each of them once and *)
(* in key order.                                                           *)
Sealed(i) ==
  /\ lv2[i] \in SealedDigest
  /\ Lists(lv2[i].sha1, snap, RowsOf(snap, T, i))

(* The loop over the snapshot never closes a leaf early, skips one, or     *)
(* feeds a row into the wrong leaf: while it runs, the leaves below        *)
(* curr_seg_idx are final and the context holds the visited rows of the    *)
(* current one; when the nodes are written, every leaf is final.           *)
ScanExact ==
  /\ pc = "scan" =>
       /\ \A p \in Pos : p < at /\ snap[p] # None /\ Tab[p] = T => Seg[p] <= seg
       /\ \A i \in Leaves : i < seg => Sealed(i)
       /\ Lists(ctx, snap, {p \in RowsOf(snap, T, seg) : p < at})
  /\ pc = "put" => \A i \in Leaves : Sealed(i)

(* A whole tree is a hash tree: a stored node is the digest of its         *)
(* children wherever all of those are stored too.                          *)
Children(n) == [j \in 1..Fan |-> <<n[1] + 1, n[2] * Fan + j - 1>>]
ParentsHashChildren ==
  image = "whole" =>
    \A n \in Nodes :
      (n[1] < 2 /\ nodes[n] # None /\ \A j \in 1..Fan : nodes[Children(n)[j]] # None)
        => nodes[n] = Sha1([j \in 1..Fan |-> nodes[Children(n)[j]]])

(* Between two updates the tree is the tree of one moment's rows.          *)
View ==
  INSTANCE TreeView WITH
    tree <- IF image = "whole" THEN nodes ELSE Zero,
    cand <- IF pc = "idle" THEN Zero ELSE snap,
    NoTree <- Zero,
    NoCand <- Zero
ImplementsTreeView == View!Spec

(* An update returns, however many messages arrive while it runs.          *)
UpdateReturns == pc # "idle" ~> pc = "idle"

(* "lv1 has 1024 nodes, each node is sha1sum of relative lv2 nodes"        *)
(* (hashtree.cpp:250), of the nodes as hashtree_get_digest returns them    *)
(* after a finished update.                                                *)
ReadParentsHashChildren ==
  pc = "idle" /\ image = "whole" =>
    \A n \in Nodes :
      n[1] = 1 /\ nodes[n] # None =>
        DigestReads(n) =
          {Sha1(c) : c \in {f \in [1..Fan -> UNION {DigestReads(m) : m \in Nodes}] :
                             \A j \in 1..Fan : f[j] \in DigestReads(Children(n)[j])}}
===============================================================================
