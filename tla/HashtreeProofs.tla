---------------------------- MODULE HashtreeProofs ----------------------------
(***************************************************************************)
(* Theorems about the store, and about hashtree_update, for every number   *)
(* of keys, tables, values and children, every set of messages and every   *)
(* fault:                                                                  *)
(*   StoreTypeCorrect       StoreSpec => []StoreTypeOK                     *)
(*   SegmentIsComplete      StoreSpec => []SegmentComplete                 *)
(*   SegmentIsExactBeforeLast  StoreSpec => []SegmentExactBeforeLast       *)
(*   TypeCorrect            Spec => []TypeOK                               *)
(*   ScanIsExact            Spec => []ScanExact                            *)
(*   ParentsAreDigests      Spec => []ParentsHashChildren                  *)
(*   UpdateImplementsView   Spec => ImplementsTreeView                     *)
(*                                                                         *)
(* ScanExact is not inductive: it needs that an update starts from fresh   *)
(* locals (IdleLocals), and that curr_seg_idx is the segment of a row the  *)
(* iterator has visited (SegReached), without which a row that the code    *)
(* appends to the current leaf might belong to an earlier one.  The two    *)
(* theorems about whole trees follow the puts (Written): each node written *)
(* is there unless a later one has taken its name; after the last put that *)
(* makes the stored nodes the tree of the snapshot.                        *)
(***************************************************************************)
EXTENDS Hashtree, KeyspaceProofs

-----------------------------------------------------------------------------
(* The store alone.                                                        *)

(* Every row of a segment is returned.                                     *)
LEMMA RowsReturned == SegmentComplete
<1> SUFFICES ASSUME NEW t \in Tables, NEW s \in Leaves,
                    NEW p \in RowsOf(db, t, s)
             PROVE  p \in SegmentKeys(t, s)
  BY DEF SegmentComplete
<1> QED
  BY ReadComplete DEF SegmentKeys

(* The loop stops at the latest at the later row, which is in the table;   *)
(* so what it has returned before is in the table too.                     *)
LEMMA ExactBeforeLast == SegmentExactBeforeLast
<1> SUFFICES ASSUME NEW t \in Tables, NEW s \in Leaves, NEW r \in Leaves, r > s,
                    NEW w \in RowsOf(db, t, r)
             PROVE  SegmentKeys(t, s) = RowsOf(db, t, s)
  BY DEF SegmentExactBeforeLast
<1>1. w \in Pos /\ db[w] # None /\ Tab[w] = t /\ Seg[w] = r
  BY DEF RowsOf
<1>2. r \in Int /\ s \in Int
  BY DEF Leaves
<1>3. AtOrAfter(w, t, s)
  BY <1>1, <1>2 DEF AtOrAfter
<1>4. ASSUME NEW p \in SegmentKeys(t, s)
      PROVE  p \in RowsOf(db, t, s)
  <2>1. /\ p \in Pos /\ db[p] # None /\ AtOrAfter(p, t, s)
        /\ \A q \in Pos : db[q] # None /\ AtOrAfter(q, t, s) /\ q <= p => Seg[q] = s
    BY <1>4 DEF SegmentKeys
  <2>2. p \in Int /\ w \in Int
    BY <1>1, <2>1, SizeAssumption DEF Pos
  <2>3. Seg[p] = s
    BY <2>1, <2>2
  <2>4. ~ (w <= p)
    BY <1>1, <1>2, <1>3, <2>1
  <2>5. Tab[p] = t
    BY <1>1, <2>1, <2>2, <2>4, BetweenInTable
  <2> QED
    BY <2>1, <2>3, <2>5 DEF RowsOf
<1> QED
  BY <1>4, RowsReturned DEF SegmentComplete

(* The store keeps its type: what is put is a head of a digest.            *)
LEMMA StoreStep ==
  ASSUME StoreTypeOK, NEW p \in Pos, Message(p)
  PROVE  StoreTypeOK'
<1>1. ASSUME NEW v \in Heads \cup {None}
      PROVE  DbPut(p, v) \in [Pos -> Heads \cup {None}]
  BY <1>1 DEF DbPut, StoreTypeOK
<1>2. CASE Remove(p)
  BY <1>1, <1>2 DEF Remove, DbDelete, StoreTypeOK
<1>3. ASSUME NEW d \in Digest, Insert(p, d)
      PROVE  StoreTypeOK'
  <2>1. d.head \in Heads
    BY DEF Digest
  <2> QED
    BY <2>1, <1>1, <1>3 DEF Insert, HvalSlice, StoreTypeOK
<1> QED
  BY <1>2, <1>3 DEF Message

(* Every value of the store is the first 8 bytes of a digest               *)
(* (hashtree.cpp:125).                                                     *)
THEOREM StoreTypeCorrect == StoreSpec => []StoreTypeOK
<1>1. StoreInit => StoreTypeOK
  BY DEF StoreInit, StoreTypeOK
<1>2. StoreTypeOK /\ [StoreNext]_db => StoreTypeOK'
  <2> SUFFICES ASSUME StoreTypeOK, [StoreNext]_db PROVE StoreTypeOK'
    OBVIOUS
  <2>1. CASE StoreNext
    BY <2>1, StoreStep DEF StoreNext
  <2>2. CASE UNCHANGED db
    BY <2>2 DEF StoreTypeOK
  <2> QED
    BY <2>1, <2>2
<1> QED
  BY <1>1, <1>2, PTL DEF StoreSpec

(* hashtree_get_segment (hashtree.cpp:343-403) returns every row of the    *)
(* segment, however many tables share the store and wherever they sort.    *)
THEOREM SegmentIsComplete == StoreSpec => []SegmentComplete
<1>1. SegmentComplete
  BY RowsReturned
<1> QED
  BY <1>1, PTL

(* The loop of hashtree_get_segment, which never looks at the table name   *)
(* (hashtree.cpp:365), can return another table's rows only for the last   *)
(* occupied segment of a table or one behind it.                           *)
THEOREM SegmentIsExactBeforeLast == StoreSpec => []SegmentExactBeforeLast
<1>1. SegmentExactBeforeLast
  BY ExactBeforeLast
<1> QED
  BY <1>1, PTL

-----------------------------------------------------------------------------
(* Lists: the empty sequence lists the empty set.                          *)
LEMMA ListsNone ==
  ASSUME NEW f
  PROVE  Lists(<<>>, f, {})
<1>1. [i \in 1..0 |-> 0] \in [1..Len(<<>>) -> {}]
  OBVIOUS
<1> QED
  BY <1>1 DEF Lists

(* Lists: a value listed after all smaller keys extends the list.          *)
LEMMA ListsMore ==
  ASSUME NEW V, NEW s \in Seq(V), NEW f, NEW P, P \subseteq Nat,
         NEW p \in Nat, \A q \in P : q < p,
         f[p] \in V, Lists(s, f, P)
  PROVE  Lists(Append(s, f[p]), f, P \cup {p})
<1> DEFINE n == Len(s)
           t == Append(s, f[p])
<1>1. PICK e \in [1..n -> P] :
        /\ \A i, j \in 1..n : i < j => e[i] < e[j]
        /\ \A q \in P : \E i \in 1..n : e[i] = q
        /\ \A i \in 1..n : s[i] = f[e[i]]
  BY DEF Lists
<1> DEFINE g == [j \in 1..(n + 1) |-> IF j <= n THEN e[j] ELSE p]
<1>2. /\ n \in Nat
      /\ Len(t) = n + 1
      /\ \A i \in 1..n : t[i] = s[i]
      /\ t[n + 1] = f[p]
  OBVIOUS
<1>3. g \in [1..Len(t) -> P \cup {p}]
  BY <1>2
<1>4. \A i \in 1..(n + 1) : i <= n => i \in 1..n /\ g[i] = e[i]
  BY <1>2
<1>5. \A i \in 1..(n + 1) : ~ (i <= n) => i = n + 1 /\ g[i] = p
  BY <1>2
<1> HIDE DEF g, t, n
<1>6. \A i, j \in 1..(n + 1) : i < j => g[i] < g[j]
  <2> SUFFICES ASSUME NEW i \in 1..(n + 1), NEW j \in 1..(n + 1), i < j
               PROVE  g[i] < g[j]
    OBVIOUS
  <2>1. i <= n
    BY <1>2
  <2>2. CASE j <= n
    BY <1>1, <1>4, <2>1, <2>2
  <2>3. CASE ~ (j <= n)
    <3>1. g[i] = e[i] /\ e[i] \in P
      BY <1>1, <1>4, <2>1
    <3>2. g[j] = p
      BY <1>5, <2>3
    <3> QED
      BY <3>1, <3>2
  <2> QED
    BY <2>2, <2>3
<1>7. \A q \in P \cup {p} : \E i \in 1..(n + 1) : g[i] = q
  <2> SUFFICES ASSUME NEW q \in P \cup {p}
               PROVE  \E i \in 1..(n + 1) : g[i] = q
    OBVIOUS
  <2>1. CASE q \in P
    <3>1. PICK i \in 1..n : e[i] = q
      BY <1>1, <2>1
    <3>2. i \in 1..(n + 1) /\ i <= n
      BY <1>2
    <3> QED
      BY <1>4, <3>1, <3>2
  <2>2. CASE q = p
    <3>1. n + 1 \in 1..(n + 1) /\ ~ (n + 1 <= n)
      BY <1>2
    <3> QED
      BY <1>5, <2>2, <3>1
  <2> QED
    BY <2>1, <2>2
<1>8. \A i \in 1..(n + 1) : t[i] = f[g[i]]
  BY <1>1, <1>2, <1>4, <1>5
<1> QED
  <2>1. /\ \A i, j \in 1..Len(t) : i < j => g[i] < g[j]
        /\ \A q \in P \cup {p} : \E i \in 1..Len(t) : g[i] = q
        /\ \A i \in 1..Len(t) : t[i] = f[g[i]]
    BY <1>2, <1>6, <1>7, <1>8
  <2>2. Lists(t, f, P \cup {p})
    BY <1>3, <2>1 DEF Lists
  <2> QED
    BY <2>2 DEF t

-----------------------------------------------------------------------------
(* Sizes: there is a leaf, and the children of an inner node exist.        *)
LEMMA Sizes ==
  /\ Fan \in Nat /\ Fan >= 1
  /\ NLeaf \in Nat /\ NLeaf >= 1 /\ LastPut \in Nat /\ LastPut > NLeaf
  /\ 0 \in Leaves
  /\ \A i \in 0..(Fan - 1), j \in 1..Fan : i * Fan + j - 1 \in Leaves
<1>1. Fan \in Nat /\ Fan >= 1
  BY SizeAssumption
<1>2. NLeaf \in Nat /\ NLeaf >= 1
  BY <1>1 DEF NLeaf
<1>3. ASSUME NEW i \in 0..(Fan - 1), NEW j \in 1..Fan
      PROVE  i * Fan + j - 1 \in Leaves
  <2>1. i * Fan \in Nat /\ i * Fan <= (Fan - 1) * Fan
    BY <1>1
  <2>2. (Fan - 1) * Fan = Fan * Fan - Fan
    BY <1>1
  <2> QED
    BY <1>1, <1>2, <2>1, <2>2 DEF NLeaf, Leaves
<1> QED
  BY <1>1, <1>2, <1>3 DEF Leaves, LastPut

(* Sealing the finished leaves leaves an array of leaf digests.            *)
LEMMA ClosedType ==
  ASSUME TypeOK, NEW end \in Nat
  PROVE  Closed(end) \in [Leaves -> LeafDigest]
<1>1. Sha1(ctx) \in SealedDigest
  BY DEF TypeOK, Sha1, SealedDigest
<1>2. Sha1(<<>>) \in SealedDigest
  BY DEF Sha1, SealedDigest
<1> QED
  BY <1>1, <1>2 DEF TypeOK, Closed, LeafDigest

(* The digest written for a node is one of its level.                      *)
LEMMA NodeDigestType ==
  ASSUME TypeOK, NEW c \in 0..LastPut
  PROVE  NodeDigest(NodeNo(c)) \in LeafDigest \cup Lv1Digest \cup Lv0Digest
<1>1. ASSUME NEW i \in 0..(Fan - 1)
      PROVE  Lv1(i) \in Lv1Digest
  <2>1. [j \in 1..Fan |-> lv2[i * Fan + j - 1]] \in [1..Fan -> LeafDigest]
    BY Sizes DEF TypeOK
  <2> QED
    BY <2>1 DEF Lv1, Sha1, Lv1Digest
<1>2. Lv0 \in Lv0Digest
  <2>1. \A i \in 1..Fan : i - 1 \in 0..(Fan - 1)
    BY Sizes
  <2>2. [i \in 1..Fan |-> Lv1(i - 1)] \in [1..Fan -> Lv1Digest]
    BY <1>1, <2>1
  <2> QED
    BY <2>2 DEF Lv0, Sha1, Lv0Digest
<1>3. CASE c < NLeaf
  <2>1. NodeNo(c) = <<2, c>> /\ c \in Leaves
    BY <1>3, Sizes DEF NodeNo, Leaves
  <2>2. NodeDigest(NodeNo(c)) = lv2[c]
    BY <2>1 DEF NodeDigest
  <2> QED
    BY <2>1, <2>2 DEF TypeOK
<1>4. CASE ~ (c < NLeaf) /\ c < LastPut
  <2>1. NodeNo(c) = <<1, c - NLeaf>>
    BY <1>4 DEF NodeNo
  <2>2. c - NLeaf \in 0..(Fan - 1)
    BY <1>4, Sizes DEF LastPut
  <2>3. NodeDigest(NodeNo(c)) = Lv1(c - NLeaf)
    BY <2>1 DEF NodeDigest
  <2> QED
    BY <1>1, <2>2, <2>3
<1>5. CASE ~ (c < NLeaf) /\ ~ (c < LastPut)
  <2>1. NodeNo(c) = <<0, 0>>
    BY <1>5 DEF NodeNo
  <2> QED
    BY <1>2, <2>1 DEF NodeDigest
<1> QED
  BY <1>3, <1>4, <1>5

(* Storing a node keeps the type of the stored nodes.                      *)
LEMMA NodePutType ==
  ASSUME TypeOK, NEW c \in 0..LastPut
  PROVE  NodePut(NodeNo(c)) \in [Nodes -> {None} \cup LeafDigest \cup Lv1Digest \cup Lv0Digest]
<1> DEFINE D == LeafDigest \cup Lv1Digest \cup Lv0Digest
<1>1. NodeDigest(NodeNo(c)) \in D
  BY NodeDigestType
<1>2. nodes \in [Nodes -> {None} \cup D]
  BY DEF TypeOK
<1> HIDE DEF D
<1>3. NodePut(NodeNo(c)) \in [Nodes -> {None} \cup D]
  BY <1>1, <1>2 DEF NodePut
<1> QED
  BY <1>3 DEF D

(* The locals of a fresh update have their types.                          *)
LEMMA FreeLocalsType ==
  ASSUME FreeLocals
  PROVE  /\ snap' \in [Pos -> Heads \cup {None}]
         /\ at' \in 1..(NPos + 1) /\ seg' \in Leaves
         /\ ctx' \in Seq(Heads) /\ lv2' \in [Leaves -> LeafDigest]
         /\ put' \in 0..LastPut /\ lost' \in BOOLEAN
<1>1. snap' \in [Pos -> Heads \cup {None}] /\ lv2' \in [Leaves -> LeafDigest]
  BY DEF FreeLocals, NoRows, NoDigests, LeafDigest
<1>2. at' = 1 /\ seg' = 0 /\ ctx' = <<>> /\ put' = 0 /\ lost' = FALSE
  BY DEF FreeLocals
<1>3. 1 \in 1..(NPos + 1) /\ 0 \in 0..LastPut
  BY Sizes, SizeAssumption
<1>4. <<>> \in Seq(Heads)
  OBVIOUS
<1> QED
  BY <1>1, <1>2, <1>3, <1>4, Sizes

-----------------------------------------------------------------------------
LEMMA InitType == Init => TypeOK
<1> SUFFICES ASSUME Init PROVE TypeOK
  OBVIOUS
<1>1. StoreTypeOK
  BY DEF Init, StoreInit, StoreTypeOK
<1>2. nodes \in [Nodes -> {None} \cup LeafDigest \cup Lv1Digest \cup Lv0Digest]
  BY DEF Init
<1>3. /\ snap \in [Pos -> Heads \cup {None}]
      /\ at \in 1..(NPos + 1) /\ seg \in Leaves
      /\ ctx \in Seq(Heads) /\ lv2 \in [Leaves -> LeafDigest]
      /\ put \in 0..LastPut /\ lost \in BOOLEAN
  BY Sizes, SizeAssumption DEF Init, NoRows, NoDigests, LeafDigest
<1> QED
  BY <1>1, <1>2, <1>3 DEF Init, TypeOK

(* The row under the iterator is a row of the snapshot.                    *)
LEMMA CurrentRow ==
  ASSUME NEW p \in Pos, Current(p)
  PROVE  /\ p >= at /\ snap[p] # None
         /\ \A q \in Pos : q >= at /\ snap[q] # None /\ AtOrAfter(q, T, 0) => p <= q
BY DEF Current, Pending, Seen

LEMMA NextType == TypeOK /\ [Next]_vars => TypeOK'
<1> SUFFICES ASSUME TypeOK, [Next]_vars PROVE TypeOK'
  OBVIOUS
<1>1. ASSUME NEW p \in Pos, Message(p), UNCHANGED <<nodes, image, pc, locals>>
      PROVE  TypeOK'
  <2>1. StoreTypeOK'
    BY <1>1, StoreStep DEF TypeOK
  <2> QED
    BY <1>1, <2>1 DEF TypeOK, locals
<1>2. CASE UpdateBegin
  BY <1>2 DEF UpdateBegin, TypeOK, StoreTypeOK
<1>3. ASSUME NEW p \in Pos, ScanRow(p)
      PROVE  TypeOK'
  <2>1. Seg[p] \in Leaves /\ Seg[p] \in Nat
    BY KeyAssumption DEF Leaves
  <2>2. Seen(p) \in Heads
    BY <1>3, CurrentRow DEF ScanRow, TypeOK, Seen
  <2>3. /\ ctx' \in Seq(Heads) /\ seg' \in Leaves
        /\ lv2' \in [Leaves -> LeafDigest]
    <3>0. ctx \in Seq(Heads) /\ seg \in Leaves /\ lv2 \in [Leaves -> LeafDigest]
      BY DEF TypeOK
    <3>1. CASE seg < Seg[p]
      <4>1. lv2' = Closed(Seg[p]) /\ seg' = Seg[p] /\ ctx' = <<Seen(p)>>
        BY <1>3, <3>1 DEF ScanRow
      <4>2. <<Seen(p)>> \in Seq(Heads)
        BY <2>2
      <4> QED
        BY <2>1, <4>1, <4>2, ClosedType
    <3>2. CASE ~ (seg < Seg[p])
      <4>1. ctx' = Append(ctx, Seen(p)) /\ lv2' = lv2 /\ seg' = seg
        BY <1>3, <3>2 DEF ScanRow
      <4>2. Append(ctx, Seen(p)) \in Seq(Heads)
        BY <2>2, <3>0
      <4> QED
        BY <3>0, <4>1, <4>2
    <3> QED
      BY <3>1, <3>2
  <2>4. at' \in 1..(NPos + 1)
    BY <1>3, SizeAssumption DEF ScanRow, Pos
  <2> QED
    BY <1>3, <2>3, <2>4 DEF ScanRow, TypeOK, StoreTypeOK
<1>4. CASE ScanEnd
  <2>1. lv2' \in [Leaves -> LeafDigest]
    BY <1>4, ClosedType, Sizes DEF ScanEnd
  <2> QED
    BY <1>4, <2>1 DEF ScanEnd, TypeOK, StoreTypeOK
<1>5. CASE WriteNode
  <2>1. put + 1 \in 0..LastPut
    BY <1>5, Sizes DEF WriteNode, TypeOK
  <2>2. nodes' \in [Nodes -> {None} \cup LeafDigest \cup Lv1Digest \cup Lv0Digest]
    BY <1>5, NodePutType DEF WriteNode, TypeOK
  <2>3. lost' \in BOOLEAN
    BY <1>5 DEF WriteNode, TypeOK
  <2> QED
    BY <1>5, <2>1, <2>2, <2>3 DEF WriteNode, TypeOK, StoreTypeOK
<1>6. CASE WriteRoot
  <2>1. nodes' \in [Nodes -> {None} \cup LeafDigest \cup Lv1Digest \cup Lv0Digest]
    BY <1>6, NodePutType DEF WriteRoot, TypeOK
  <2>2. image' \in {"whole", "torn"}
    BY <1>6 DEF WriteRoot
  <2>3. StoreTypeOK' /\ pc' = "idle" /\ FreeLocals
    BY <1>6 DEF WriteRoot, TypeOK, StoreTypeOK
  <2> QED
    BY <2>1, <2>2, <2>3, FreeLocalsType DEF TypeOK
<1>7. CASE Crash
  <2>1. /\ StoreTypeOK' /\ pc' = "idle" /\ FreeLocals
        /\ nodes' = nodes /\ image' = image
    BY <1>7 DEF Crash, TypeOK, StoreTypeOK
  <2> QED
    BY <2>1, FreeLocalsType DEF TypeOK
<1>8. CASE UNCHANGED vars
  BY <1>8 DEF vars, locals, TypeOK, StoreTypeOK
<1> QED
  BY <1>1, <1>2, <1>3, <1>4, <1>5, <1>6, <1>7, <1>8 DEF Next, Receive, UpdateStep

(* Every variable keeps its type: in particular the row count of the scan, *)
(* curr_seg_idx and the node counter stay within the arrays they index.    *)
THEOREM TypeCorrect == Spec => []TypeOK
<1>1. Init => TypeOK
  BY InitType
<1>2. TypeOK /\ [Next]_vars => TypeOK'
  BY NextType
<1> QED
  BY <1>1, <1>2, PTL DEF Spec

-----------------------------------------------------------------------------
(* An update starts from fresh locals.                                     *)
IdleLocals == pc = "idle" => at = 1 /\ seg = 0 /\ ctx = <<>>

(* curr_seg_idx is the first segment or that of a visited row of the table. *)
SegReached ==
  pc = "scan" => seg = 0 \/ \E q \in Pos : q < at /\ Tab[q] = T /\ Seg[q] = seg

IInv == TypeOK /\ IdleLocals /\ SegReached /\ ScanExact

(* The keys of one table are sorted by segment.                            *)
LEMMA SegmentOrder ==
  ASSUME NEW p \in Pos, NEW q \in Pos, p <= q, Tab[p] = Tab[q]
  PROVE  Seg[p] <= Seg[q]
<1>1. Seg[p] \in Nat /\ Seg[q] \in Nat /\ Tab[p] \in Nat
  <2>1. Seg[p] \in Leaves /\ Seg[q] \in Leaves
    BY KeyAssumption
  <2>2. Tab[p] \in Tables /\ Tables \subseteq Nat
    BY KeyAssumption
  <2>3. Seg[p] \in Nat /\ Seg[q] \in Nat
    BY <2>1 DEF Leaves
  <2> QED
    BY <2>2, <2>3
<1>2. p \in Int /\ q \in Int
  BY DEF Pos
<1>3. CASE p = q
  BY <1>1, <1>3
<1>4. CASE p < q
  <2>1. KeyBefore(p, q)
    BY <1>4, KeyAssumption
  <2> QED
    BY <1>1, <2>1 DEF KeyBefore
<1> QED
  BY <1>2, <1>3, <1>4

(* A row of T that is not behind the iterator is at or after its position. *)
LEMMA RowsAhead ==
  ASSUME NEW p \in Pos, Current(p),
         NEW q \in Pos, snap[q] # None, Tab[q] = T, ~ (q < at),
         at \in Nat
  PROVE  p <= q
<1>1. q >= at
  BY DEF Pos
<1>2. AtOrAfter(q, T, 0)
  BY KeyAssumption DEF AtOrAfter, Leaves
<1> QED
  BY <1>1, <1>2, CurrentRow

(* When the scan ends every row of T is behind the iterator.               *)
LEMMA NoRowAhead ==
  ASSUME TypeOK, ScanEnd, NEW q \in Pos, snap[q] # None, Tab[q] = T
  PROVE  q < at
<1> SUFFICES ASSUME ~ (q < at) PROVE FALSE
  OBVIOUS
<1>1. q >= at /\ AtOrAfter(q, T, 0)
  <2>1. at \in Int /\ q \in Int
    BY SizeAssumption DEF Pos, TypeOK
  <2>2. Seg[q] \in Nat
    BY KeyAssumption DEF Leaves
  <2> QED
    BY <2>1, <2>2 DEF AtOrAfter
<1>2. q \in Pending
  BY <1>1 DEF Pending, Seen
<1>3. Pending \subseteq Nat
  BY SizeAssumption DEF Pending, Pos
<1>4. PICK p \in Pending : \A r \in Pending : p <= r
  BY <1>2, <1>3, LeastElement
<1>5. p \in Pos /\ Current(p) /\ AtOrAfter(p, T, 0) /\ p <= q
  BY <1>2, <1>4 DEF Current, Pending
<1>6. Tab[p] # T
  BY <1>5 DEF ScanEnd
<1>7. Tab[p] \in Nat /\ T \in Nat
  BY <1>5, KeyAssumption, TableAssumption
<1>8. Tab[p] > T
  BY <1>5, <1>6 DEF AtOrAfter
<1>9. CASE p = q
  BY <1>6, <1>9
<1>10. CASE p < q
  <2>1. KeyBefore(p, q)
    BY <1>5, <1>10, KeyAssumption
  <2> QED
    BY <1>7, <1>8, <2>1 DEF KeyBefore
<1> QED
  BY <1>5, <1>9, <1>10 DEF Pos

(* Closed seals the current leaf and the empty leaves before end, when the *)
(* rows of T ahead of the iterator are in segments from end on.            *)
LEMMA ClosedSeals ==
  ASSUME IInv, pc = "scan", NEW end \in Nat, seg < end,
         \A q \in Pos : snap[q] # None /\ Tab[q] = T /\ ~ (q < at) => Seg[q] >= end,
         NEW i \in Leaves, i < end,
         lv2' = Closed(end), snap' = snap
  PROVE  Sealed(i)'
<1>1. /\ seg \in Nat /\ i \in Nat /\ at \in Nat
      /\ \A q \in Pos : Seg[q] \in Nat
  BY KeyAssumption, SizeAssumption DEF IInv, TypeOK, Leaves
<1>2. ScanExact
  BY DEF IInv
<1>3. CASE i < seg
  <2>1. lv2'[i] = lv2[i]
    BY <1>1, <1>3 DEF Closed
  <2>2. Sealed(i)
    BY <1>2, <1>3 DEF ScanExact
  <2> QED
    BY <2>1, <2>2 DEF Sealed
<1>4. CASE i = seg
  <2>1. lv2'[i] = Sha1(ctx)
    BY <1>4 DEF Closed
  <2>2. {q \in RowsOf(snap, T, seg) : q < at} = RowsOf(snap, T, i)
    BY <1>1, <1>4 DEF RowsOf
  <2>3. Lists(ctx, snap, RowsOf(snap, T, i))
    BY <1>2, <2>2 DEF ScanExact
  <2>4. ctx \in Seq(Heads)
    BY DEF IInv, TypeOK
  <2> QED
    BY <2>1, <2>3, <2>4 DEF Sealed, Sha1, SealedDigest
<1>5. CASE seg < i
  <2>1. lv2'[i] = Sha1(<<>>)
    BY <1>1, <1>5 DEF Closed
  <2>2. RowsOf(snap, T, i) = {}
    BY <1>1, <1>2, <1>5 DEF RowsOf, ScanExact
  <2>3. Lists(<<>>, snap, RowsOf(snap, T, i))
    BY <2>2, ListsNone
  <2>4. <<>> \in Seq(Heads)
    OBVIOUS
  <2> QED
    BY <2>1, <2>3, <2>4 DEF Sealed, Sha1, SealedDigest
<1> QED
  BY <1>1, <1>3, <1>4, <1>5

-----------------------------------------------------------------------------
LEMMA InitIInv == Init => IInv
<1> SUFFICES ASSUME Init PROVE IInv
  OBVIOUS
<1>1. TypeOK
  BY InitType
<1> QED
  BY <1>1 DEF Init, IInv, IdleLocals, SegReached, ScanExact

(* One row: it goes into the leaf of its segment, behind the earlier ones. *)
LEMMA ScanRowExact ==
  ASSUME IInv, NEW p \in Pos, ScanRow(p)
  PROVE  IdleLocals' /\ SegReached' /\ ScanExact'
<1>1. /\ pc = "scan" /\ pc' = "scan" /\ snap' = snap /\ at' = p + 1
      /\ Current(p) /\ Tab[p] = T
  BY DEF ScanRow
<1>2. /\ at \in Nat /\ p \in Nat /\ seg \in Nat /\ ctx \in Seq(Heads)
      /\ \A q \in Pos : Seg[q] \in Nat
      /\ Pos \subseteq Nat
  BY KeyAssumption, SizeAssumption DEF IInv, TypeOK, Leaves, Pos
<1>3. /\ \A q \in Pos : q < at /\ snap[q] # None /\ Tab[q] = T => Seg[q] <= seg
      /\ \A i \in Leaves : i < seg => Sealed(i)
      /\ Lists(ctx, snap, {q \in RowsOf(snap, T, seg) : q < at})
  BY <1>1 DEF IInv, ScanExact
<1>4. snap[p] \in Heads /\ p >= at
  BY <1>1, CurrentRow DEF IInv, TypeOK
<1>5. \A q \in Pos : snap[q] # None /\ Tab[q] = T /\ ~ (q < at) => p <= q /\ Seg[q] >= Seg[p]
  BY <1>1, <1>2, RowsAhead, SegmentOrder
<1>6. \A q \in Pos : snap[q] # None /\ Tab[q] = T /\ q < p + 1 => q < at \/ q = p
  BY <1>2, <1>5
<1>7. SegReached' /\ (\A q \in Pos : q < p + 1 /\ snap[q] # None /\ Tab[q] = T => Seg[q] <= seg')
      /\ (\A i \in Leaves : i < seg' => Sealed(i)')
      /\ Lists(ctx', snap, {q \in RowsOf(snap, T, seg') : q < p + 1})
  <2>1. CASE seg < Seg[p]
    <3>1. lv2' = Closed(Seg[p]) /\ seg' = Seg[p] /\ ctx' = <<snap[p]>>
      BY <2>1 DEF ScanRow, Seen
    <3>2. SegReached'
      BY <1>1, <1>2, <3>1 DEF SegReached
    <3>3. \A q \in Pos : q < p + 1 /\ snap[q] # None /\ Tab[q] = T => Seg[q] <= seg'
      BY <1>2, <1>3, <1>6, <2>1, <3>1
    <3>4. \A i \in Leaves : i < seg' => Sealed(i)'
      <4> SUFFICES ASSUME NEW i \in Leaves, i < Seg[p] PROVE Sealed(i)'
        BY <3>1
      <4>1. Seg[p] \in Nat
        BY <1>2
      <4>2. \A q \in Pos : snap[q] # None /\ Tab[q] = T /\ ~ (q < at) => Seg[q] >= Seg[p]
        BY <1>5
      <4> QED
        BY <1>1, <2>1, <3>1, <4>1, <4>2, ClosedSeals
    <3>5. {q \in RowsOf(snap, T, Seg[p]) : q < p + 1} = {} \cup {p}
      <4>1. p \in RowsOf(snap, T, Seg[p]) /\ p < p + 1
        BY <1>1, <1>2, <1>4, ValueAssumption DEF RowsOf
      <4>2. ASSUME NEW q \in RowsOf(snap, T, Seg[p]), q < p + 1
            PROVE  q = p
        <5>1. q \in Pos /\ snap[q] # None /\ Tab[q] = T /\ Seg[q] = Seg[p]
          BY DEF RowsOf
        <5>2. ~ (q < at)
          BY <1>2, <1>3, <2>1, <5>1
        <5> QED
          BY <1>6, <4>2, <5>1, <5>2
      <4> DEFINE R == {q \in RowsOf(snap, T, Seg[p]) : q < p + 1}
      <4>3. p \in R
        BY <4>1
      <4>4. \A q \in R : q = p
        BY <4>2
      <4> HIDE DEF R
      <4>5. R = {} \cup {p}
        BY <4>3, <4>4
      <4> QED
        BY <4>5 DEF R
    <3>6. Lists(<<snap[p]>>, snap, {} \cup {p})
      <4>1. Lists(Append(<<>>, snap[p]), snap, {} \cup {p})
        <5>1. Lists(<<>>, snap, {})
          BY ListsNone
        <5>2. <<>> \in Seq(Heads) /\ {} \subseteq Nat /\ \A q \in {} : q < p
          OBVIOUS
        <5> QED
          BY <1>2, <1>4, <5>1, <5>2, ListsMore
      <4>2. Append(<<>>, snap[p]) = <<snap[p]>>
        BY <1>4
      <4> QED
        BY <4>1, <4>2
    <3> QED
      BY <3>1, <3>2, <3>3, <3>4, <3>5, <3>6
  <2>2. CASE ~ (seg < Seg[p])
    <3>1. lv2' = lv2 /\ seg' = seg /\ ctx' = Append(ctx, snap[p])
      BY <2>2 DEF ScanRow, Seen
    <3>2. Seg[p] = seg
      <4>1. CASE seg = 0
        BY <1>2, <2>2, <4>1
      <4>2. CASE \E q \in Pos : q < at /\ Tab[q] = T /\ Seg[q] = seg
        <5>1. PICK q \in Pos : q < at /\ Tab[q] = T /\ Seg[q] = seg
          BY <4>2
        <5>2. q <= p
          BY <1>2, <1>4, <5>1
        <5> QED
          BY <1>1, <1>2, <2>2, <5>1, <5>2, SegmentOrder
      <4> QED
        BY <1>1, <4>1, <4>2 DEF IInv, SegReached
    <3>3. SegReached'
      BY <1>1, <1>2, <3>1, <3>2 DEF SegReached
    <3>4. \A q \in Pos : q < p + 1 /\ snap[q] # None /\ Tab[q] = T => Seg[q] <= seg'
      BY <1>2, <1>3, <1>6, <3>1, <3>2
    <3>5. \A i \in Leaves : i < seg' => Sealed(i)'
      BY <1>1, <1>3, <3>1 DEF Sealed
    <3>6. {q \in RowsOf(snap, T, seg) : q < p + 1} = {q \in RowsOf(snap, T, seg) : q < at} \cup {p}
      <4>1. p \in RowsOf(snap, T, seg) /\ p < p + 1
        BY <1>1, <1>2, <1>4, <3>2, ValueAssumption DEF RowsOf
      <4>2. \A q \in RowsOf(snap, T, seg) : q < p + 1 <=> q < at \/ q = p
        <5> SUFFICES ASSUME NEW q \in RowsOf(snap, T, seg)
                     PROVE  q < p + 1 <=> q < at \/ q = p
          OBVIOUS
        <5>1. q \in Pos /\ q \in Nat /\ snap[q] # None /\ Tab[q] = T
          BY <1>2 DEF RowsOf
        <5>2. q < p + 1 => q < at \/ q = p
          BY <1>6, <5>1
        <5>3. q < at => q < p + 1
          BY <1>2, <1>4, <5>1
        <5> QED
          BY <4>1, <5>2, <5>3
      <4> QED
        BY <4>1, <4>2
    <3>7. Lists(Append(ctx, snap[p]), snap, {q \in RowsOf(snap, T, seg) : q < at} \cup {p})
      <4>1. {q \in RowsOf(snap, T, seg) : q < at} \subseteq Nat
        BY <1>2 DEF RowsOf
      <4>2. \A q \in {r \in RowsOf(snap, T, seg) : r < at} : q < p
        BY <1>2, <1>4 DEF RowsOf
      <4> QED
        BY <1>2, <1>3, <1>4, <4>1, <4>2, ListsMore
    <3> QED
      BY <3>1, <3>3, <3>4, <3>5, <3>6, <3>7
  <2> QED
    BY <2>1, <2>2
<1>8. ScanExact'
  BY <1>1, <1>7 DEF ScanExact
<1> QED
  BY <1>1, <1>7, <1>8 DEF IdleLocals

LEMMA NextIInv == IInv /\ [Next]_vars => IInv'
<1> SUFFICES ASSUME IInv, [Next]_vars PROVE IInv'
  OBVIOUS
<1>1. TypeOK'
  BY NextType DEF IInv
<1> SUFFICES IdleLocals' /\ SegReached' /\ ScanExact'
  BY <1>1 DEF IInv
<1>2. CASE UNCHANGED <<pc, locals>>
  BY <1>2 DEF IInv, locals, IdleLocals, SegReached, ScanExact, Sealed
<1>3. CASE UpdateBegin
  <2>1. /\ pc = "idle" /\ pc' = "scan" /\ at' = 1 /\ seg' = 0 /\ ctx' = <<>>
    BY <1>3 DEF UpdateBegin, IInv, IdleLocals
  <2>2. \A p \in Pos : ~ (p < 1)
    BY SizeAssumption DEF Pos
  <2>3. {p \in RowsOf(snap', T, 0) : p < 1} = {}
    BY <2>2 DEF RowsOf
  <2>4. Lists(<<>>, snap', {})
    BY ListsNone
  <2>5. \A i \in Leaves : ~ (i < 0)
    BY DEF Leaves
  <2> QED
    BY <2>1, <2>2, <2>3, <2>4, <2>5 DEF IdleLocals, SegReached, ScanExact
<1>4. ASSUME NEW p \in Pos, ScanRow(p)
      PROVE  IdleLocals' /\ SegReached' /\ ScanExact'
  BY <1>4, ScanRowExact
<1>5. CASE ScanEnd
  <2>1. pc = "scan" /\ pc' = "put" /\ lv2' = Closed(NLeaf) /\ snap' = snap
    BY <1>5 DEF ScanEnd
  <2>2. \A q \in Pos : snap[q] # None /\ Tab[q] = T /\ ~ (q < at) => Seg[q] >= NLeaf
    BY <1>5, NoRowAhead DEF IInv
  <2>3. NLeaf \in Nat /\ seg < NLeaf /\ \A i \in Leaves : i < NLeaf
    BY Sizes DEF IInv, TypeOK, Leaves
  <2>4. \A i \in Leaves : Sealed(i)'
    BY <2>1, <2>2, <2>3, ClosedSeals
  <2> QED
    BY <2>1, <2>4 DEF IdleLocals, SegReached, ScanExact
<1>6. CASE WriteNode
  BY <1>6 DEF WriteNode, IInv, IdleLocals, SegReached, ScanExact, Sealed
<1>7. CASE pc' = "idle" /\ FreeLocals
  BY <1>7 DEF FreeLocals, IdleLocals, SegReached, ScanExact
<1> QED
  BY <1>2, <1>3, <1>4, <1>5, <1>6, <1>7
  DEF Next, Receive, UpdateStep, WriteRoot, Crash, vars

(* For every store and every interleaving with the messages: while the     *)
(* loop of hashtree_update runs, the leaves it has passed are the digests  *)
(* of exactly the snapshot's rows of their segments, and when it starts to *)
(* write the nodes every leaf is.                                          *)
THEOREM ScanIsExact == Spec => []ScanExact
<1>1. Init => IInv
  BY InitIInv
<1>2. IInv /\ [Next]_vars => IInv'
  BY NextIInv
<1>3. IInv => ScanExact
  BY DEF IInv
<1> QED
  BY <1>1, <1>2, <1>3, PTL DEF Spec

-----------------------------------------------------------------------------
(* The nodes that an update has written: those before number put.          *)
NodeIx(n) == IF n[1] = 2 THEN n[2] ELSE IF n[1] = 1 THEN NLeaf + n[2] ELSE LastPut

(* The name of a node before number k extends that of n, and so stands in  *)
(* its place.                                                              *)
Late(n, k) == \E m \in Nodes : NodeIx(m) < k /\ m[1] = n[1] /\ Extends(m[2], n[2])

(* While no put has failed, the nodes written are those of the digests.    *)
Written ==
  /\ pc # "put" => put = 0
  /\ pc = "put" /\ ~lost =>
       \A n \in Nodes : NodeIx(n) < put =>
         nodes[n] = IF Late(n, put) THEN None ELSE NodeDigest(n)

(* A whole tree is the tree of some rows.                                  *)
WholeTree ==
  image = "whole" =>
    \/ \A n \in Nodes : nodes[n] = None
    \/ \E f \in [Pos -> Heads \cup {None}] : nodes = View!Tree(f)

TreeInv == IInv /\ Written /\ WholeTree

(* NodeNo numbers the nodes: level 2 by index, then level 1, then the root. *)
LEMMA Numbering ==
  /\ \A n \in Nodes : NodeIx(n) \in 0..LastPut
  /\ \A c \in 0..LastPut : NodeNo(c) \in Nodes /\ NodeIx(NodeNo(c)) = c
  /\ \A m, n \in Nodes : NodeIx(m) = NodeIx(n) => m = n
  /\ \A m, n \in Nodes : m[1] = n[1] /\ m[2] < n[2] => NodeIx(m) < NodeIx(n)
<1>1. Fan \in Nat /\ Fan >= 1 /\ NLeaf \in Nat /\ NLeaf >= 1 /\ LastPut = NLeaf + Fan
  BY Sizes DEF LastPut
<1>2. ASSUME NEW n \in Nodes
      PROVE  \/ n[1] = 2 /\ n[2] \in 0..(NLeaf - 1) /\ n = <<2, n[2]>> /\ NodeIx(n) = n[2]
             \/ n[1] = 1 /\ n[2] \in 0..(Fan - 1) /\ n = <<1, n[2]>> /\ NodeIx(n) = NLeaf + n[2]
             \/ n[1] = 0 /\ n[2] = 0 /\ n = <<0, 0>> /\ NodeIx(n) = LastPut
  <2>1. \/ n = <<0, 0>>
        \/ n \in {1} \X (0..(Fan - 1))
        \/ n \in {2} \X (0..(NLeaf - 1))
    BY DEF Nodes, Leaves
  <2> QED
    BY <2>1 DEF NodeIx
<1>3. ASSUME NEW n \in Nodes PROVE NodeIx(n) \in 0..LastPut
  BY <1>1, <1>2
<1>4. ASSUME NEW c \in 0..LastPut PROVE NodeNo(c) \in Nodes /\ NodeIx(NodeNo(c)) = c
  <2>1. CASE c < NLeaf
    BY <1>1, <2>1 DEF NodeNo, Nodes, Leaves, NodeIx
  <2>2. CASE ~ (c < NLeaf) /\ c < LastPut
    <3>1. c - NLeaf \in 0..(Fan - 1) /\ NLeaf + (c - NLeaf) = c
      BY <1>1, <2>2
    <3>2. NodeNo(c) = <<1, c - NLeaf>>
      BY <2>2 DEF NodeNo
    <3> QED
      BY <3>1, <3>2 DEF Nodes, NodeIx
  <2>3. CASE ~ (c < NLeaf) /\ ~ (c < LastPut)
    BY <1>1, <2>3 DEF NodeNo, Nodes, NodeIx
  <2> QED
    BY <2>1, <2>2, <2>3
<1>5. ASSUME NEW m \in Nodes, NEW n \in Nodes, NodeIx(m) = NodeIx(n) PROVE m = n
  <2>1. m[1] = n[1] /\ m[2] = n[2]
    BY <1>1, <1>2, <1>5
  <2> QED
    BY <1>2, <2>1
<1>6. ASSUME NEW m \in Nodes, NEW n \in Nodes, m[1] = n[1], m[2] < n[2]
      PROVE  NodeIx(m) < NodeIx(n)
  BY <1>1, <1>2, <1>6
<1> QED
  BY <1>3, <1>4, <1>5, <1>6

(* The node whose name extends another's is written later.                 *)
LEMMA LongerIsLater ==
  ASSUME NEW m \in Nodes, NEW n \in Nodes, m[1] = n[1], Extends(m[2], n[2])
  PROVE  m # n /\ NodeIx(n) < NodeIx(m)
<1>1. n[2] < m[2]
  BY DEF Extends
<1>2. NodeIx(n) < NodeIx(m)
  BY <1>1, Numbering
<1>3. NodeIx(n) \in Int
  BY Numbering
<1> QED
  BY <1>2, <1>3

(* One more put extends what is Written.                                   *)
LEMMA PutWritten ==
  ASSUME put \in 0..LastPut, pc = "put", ~lost, Written, NEW n \in Nodes, NodeIx(n) <= put
  PROVE  NodePut(NodeNo(put))[n] = IF Late(n, put + 1) THEN None ELSE NodeDigest(n)
<1>1. PICK w \in Nodes : w = NodeNo(put) /\ NodeIx(w) = put
  BY Numbering
<1>2. NodePut(w)[n] = IF n = w THEN NodeDigest(w) ELSE IF NodeTwin(n, w) THEN None ELSE nodes[n]
  BY DEF NodePut
<1>3. put \in Int /\ \A m \in Nodes : NodeIx(m) \in Int
  BY Numbering
<1>4. CASE n = w
  <2>1. ~ Late(n, put + 1)
    <3> SUFFICES ASSUME NEW m \in Nodes, NodeIx(m) < put + 1, m[1] = n[1], Extends(m[2], n[2])
                 PROVE  FALSE
      BY DEF Late
    <3>1. NodeIx(n) < NodeIx(m)
      BY LongerIsLater
    <3> QED
      BY <1>1, <1>3, <1>4, <3>1
  <2> QED
    BY <1>1, <1>2, <1>4, <2>1
<1>5. CASE n # w
  <2>1. NodeIx(n) < put
    BY <1>1, <1>3, <1>5, Numbering
  <2>2. nodes[n] = IF Late(n, put) THEN None ELSE NodeDigest(n)
    BY <2>1 DEF Written
  <2>3. NodeTwin(n, w) <=> w[1] = n[1] /\ Extends(w[2], n[2])
    <3>1. ~ (n[1] = w[1] /\ Extends(n[2], w[2]))
      <4> SUFFICES ASSUME n[1] = w[1], Extends(n[2], w[2]) PROVE FALSE
        OBVIOUS
      <4>1. NodeIx(w) < NodeIx(n)
        BY LongerIsLater
      <4> QED
        BY <1>1, <1>3, <2>1, <4>1
    <3> QED
      BY <1>5, <3>1 DEF NodeTwin
  <2>4. Late(n, put + 1) <=> Late(n, put) \/ (w[1] = n[1] /\ Extends(w[2], n[2]))
    <3>1. \A m \in Nodes : NodeIx(m) < put + 1 <=> NodeIx(m) < put \/ m = w
      <4> SUFFICES ASSUME NEW m \in Nodes
                   PROVE  NodeIx(m) < put + 1 <=> NodeIx(m) < put \/ m = w
        OBVIOUS
      <4>1. NodeIx(m) = put => m = w
        BY <1>1, Numbering
      <4> QED
        BY <1>1, <1>3, <4>1
    <3> QED
      BY <3>1 DEF Late
  <2> QED
    BY <1>1, <1>2, <1>5, <2>2, <2>3, <2>4
<1> QED
  BY <1>4, <1>5

-----------------------------------------------------------------------------
(* The operators of the abstract tree, in terms of the keys.               *)
LEMMA ViewIs ==
  /\ \A f, s : View!LeafSeq(f, s) =
       [k \in 1..Cardinality(RowsOf(f, T, s)) |-> f[KeyAt(RowsOf(f, T, s), k)]]
  /\ \A f, s : View!Leaf(f, s) = Sha1(View!LeafSeq(f, s))
  /\ \A f, c : View!Inner(f, c) = Sha1([k \in 1..Fan |-> View!Leaf(f, c * Fan + k - 1)])
  /\ \A f : View!Root(f) = Sha1([c \in 1..Fan |-> View!Inner(f, c - 1)])
  /\ \A f : View!Tree(f) =
       [n \in Nodes |->
         IF \E m \in Nodes : m[1] = n[1] /\ Extends(m[2], n[2]) THEN None
         ELSE IF n[1] = 2 THEN View!Leaf(f, n[2])
         ELSE IF n[1] = 1 THEN View!Inner(f, n[2])
         ELSE View!Root(f)]
<1>1. View!Pos = Pos /\ View!Leaves = Leaves /\ View!NLeaf = NLeaf
  BY DEF View!Pos, Pos, View!Leaves, Leaves, View!NLeaf, NLeaf
<1>2. View!Nodes = Nodes
  BY <1>1 DEF View!Nodes, Nodes
<1>3. \A m : View!Sha1(m) = Sha1(m)
  BY DEF View!Sha1, Sha1
<1>4. \A f, t, s : View!RowsOf(f, t, s) = RowsOf(f, t, s)
  BY <1>1 DEF View!RowsOf, RowsOf
<1>5. \A a, b : View!Extends(a, b) <=> Extends(a, b)
  BY <1>1 DEF View!Extends, Extends
<1>6. \A f, s : View!LeafSeq(f, s) =
       [k \in 1..Cardinality(RowsOf(f, T, s)) |-> f[KeyAt(RowsOf(f, T, s), k)]]
  <2> SUFFICES ASSUME NEW f, NEW s
               PROVE  View!LeafSeq(f, s) =
                        [k \in 1..Cardinality(RowsOf(f, T, s)) |-> f[KeyAt(RowsOf(f, T, s), k)]]
    OBVIOUS
  <2>1. PICK R : R = RowsOf(f, T, s)
    OBVIOUS
  <2>2. \A S : View!Cardinality(S) = Cardinality(S)
    BY DEF View!Cardinality, Cardinality
  <2> DEFINE K(k) == CHOOSE p \in R : View!Cardinality({q \in R : q < p}) = k - 1
  <2>3. View!LeafSeq(f, s) = [k \in 1..View!Cardinality(R) |-> f[K(k)]]
    <3>1. View!RowsOf(f, T, s) = R
      BY <1>4, <2>1
    <3> QED
      BY <3>1, SMT DEF View!LeafSeq
  <2>4. ASSUME NEW k PROVE K(k) = KeyAt(R, k)
    BY <2>2 DEF KeyAt
  <2> HIDE DEF K
  <2>5. [k \in 1..View!Cardinality(R) |-> f[K(k)]]
          = [k \in 1..View!Cardinality(R) |-> f[KeyAt(R, k)]]
    BY <2>4
  <2> QED
    BY <2>1, <2>2, <2>3, <2>5
<1>7. \A f, s : View!Leaf(f, s) = Sha1(View!LeafSeq(f, s))
  BY <1>3 DEF View!Leaf
<1>8. \A f, c : View!Inner(f, c) = Sha1([k \in 1..Fan |-> View!Leaf(f, c * Fan + k - 1)])
  BY <1>3 DEF View!Inner
<1>9. \A f : View!Root(f) = Sha1([c \in 1..Fan |-> View!Inner(f, c - 1)])
  BY <1>3 DEF View!Root
<1>10. \A f : View!Tree(f) =
       [n \in Nodes |->
         IF \E m \in Nodes : m[1] = n[1] /\ Extends(m[2], n[2]) THEN None
         ELSE IF n[1] = 2 THEN View!Leaf(f, n[2])
         ELSE IF n[1] = 1 THEN View!Inner(f, n[2])
         ELSE View!Root(f)]
  BY <1>2, <1>5 DEF View!Tree
<1> QED
  BY <1>6, <1>7, <1>8, <1>9, <1>10

(* The digests computed when the nodes are written are those of the tree   *)
(* of the snapshot.                                                        *)
LEMMA SealedLeaf ==
  ASSUME NEW s \in Leaves, Sealed(s)
  PROVE  lv2[s] = View!Leaf(snap, s)
<1>1. PICK x \in Seq(Heads) : lv2[s] = Sha1(x) /\ lv2[s].sha1 = x
  BY DEF Sealed, SealedDigest, Sha1
<1>2. PICK R : R = RowsOf(snap, T, s)
  OBVIOUS
<1>3. R \subseteq Pos /\ Lists(x, snap, R)
  BY <1>1, <1>2 DEF RowsOf, Sealed
<1>4. Len(x) \in Nat
  OBVIOUS
<1>5. /\ Len(x) = Cardinality(R)
      /\ \A j \in 1..Len(x), p \in R : Rank(R, p) = j - 1 => x[j] = snap[p]
  BY <1>3, <1>4, ListsRanked
<1>6. ASSUME NEW k \in 1..Len(x) PROVE x[k] = snap[KeyAt(R, k)]
  <2>1. PICK y : y = KeyAt(R, k)
    OBVIOUS
  <2>2. y \in R /\ Rank(R, y) = k - 1
    BY <1>3, <1>5, <2>1, RankedKey
  <2> QED
    BY <1>5, <2>1, <2>2
<1>7. x = [k \in 1..Len(x) |-> snap[KeyAt(R, k)]]
  <2>1. x = [k \in 1..Len(x) |-> x[k]]
    OBVIOUS
  <2> QED
    BY <1>6, <2>1
<1>8. x = View!LeafSeq(snap, s)
  BY <1>2, <1>5, <1>7, ViewIs
<1> QED
  BY <1>1, <1>8, ViewIs

LEMMA DigestsOfView ==
  ASSUME \A s \in Leaves : Sealed(s), NEW n \in Nodes
  PROVE  NodeDigest(n) = IF n[1] = 2 THEN View!Leaf(snap, n[2])
                         ELSE IF n[1] = 1 THEN View!Inner(snap, n[2])
                         ELSE View!Root(snap)
<1>1. \A s \in Leaves : lv2[s] = View!Leaf(snap, s)
  BY SealedLeaf
<1>2. ASSUME NEW c \in 0..(Fan - 1) PROVE Lv1(c) = View!Inner(snap, c)
  <2>1. \A k \in 1..Fan : lv2[c * Fan + k - 1] = View!Leaf(snap, c * Fan + k - 1)
    BY <1>1, Sizes
  <2>2. [k \in 1..Fan |-> lv2[c * Fan + k - 1]]
          = [k \in 1..Fan |-> View!Leaf(snap, c * Fan + k - 1)]
    BY <2>1
  <2> QED
    BY <2>2, ViewIs DEF Lv1
<1>3. Lv0 = View!Root(snap)
  <2>1. \A c \in 1..Fan : c - 1 \in 0..(Fan - 1)
    BY Sizes
  <2>2. [c \in 1..Fan |-> Lv1(c - 1)] = [c \in 1..Fan |-> View!Inner(snap, c - 1)]
    BY <1>2, <2>1
  <2> QED
    BY <2>2, ViewIs DEF Lv0
<1>4. \/ n[1] = 0
      \/ n[1] = 1 /\ n[2] \in 0..(Fan - 1)
      \/ n[1] = 2 /\ n[2] \in Leaves
  BY DEF Nodes
<1> QED
  BY <1>1, <1>2, <1>3, <1>4 DEF NodeDigest

(* The last put completes the tree of the snapshot.                        *)
LEMMA RootCompletes ==
  ASSUME TreeInv, pc = "put", put = LastPut, ~lost
  PROVE  NodePut(NodeNo(put)) = View!Tree(snap)
<1>1. PICK tree : tree = NodePut(NodeNo(put))
  OBVIOUS
<1>2. put \in 0..LastPut /\ Written /\ \A s \in Leaves : Sealed(s)
  BY DEF TreeInv, IInv, TypeOK, ScanExact
<1>3. ASSUME NEW n \in Nodes
      PROVE  tree[n] = IF \E m \in Nodes : m[1] = n[1] /\ Extends(m[2], n[2]) THEN None
                       ELSE IF n[1] = 2 THEN View!Leaf(snap, n[2])
                       ELSE IF n[1] = 1 THEN View!Inner(snap, n[2])
                       ELSE View!Root(snap)
  <2>1. \A m \in Nodes : NodeIx(m) <= put /\ NodeIx(m) < put + 1
    <3> SUFFICES ASSUME NEW m \in Nodes PROVE NodeIx(m) <= put /\ NodeIx(m) < put + 1
      OBVIOUS
    <3>1. NodeIx(m) \in 0..LastPut /\ LastPut \in Int
      BY Numbering, Sizes
    <3> QED
      BY <3>1
  <2>2. Late(n, put + 1) <=> \E m \in Nodes : m[1] = n[1] /\ Extends(m[2], n[2])
    BY <2>1 DEF Late
  <2>3. tree[n] = IF Late(n, put + 1) THEN None ELSE NodeDigest(n)
    BY <1>1, <1>2, <2>1, PutWritten
  <2>4. NodeDigest(n) = IF n[1] = 2 THEN View!Leaf(snap, n[2])
                        ELSE IF n[1] = 1 THEN View!Inner(snap, n[2])
                        ELSE View!Root(snap)
    BY <1>2, DigestsOfView
  <2> QED
    BY <2>2, <2>3, <2>4
<1>4. tree = [n \in Nodes |-> tree[n]]
  BY <1>1 DEF NodePut
<1>5. tree = [n \in Nodes |->
         IF \E m \in Nodes : m[1] = n[1] /\ Extends(m[2], n[2]) THEN None
         ELSE IF n[1] = 2 THEN View!Leaf(snap, n[2])
         ELSE IF n[1] = 1 THEN View!Inner(snap, n[2])
         ELSE View!Root(snap)]
  BY <1>3, <1>4
<1> QED
  BY <1>1, <1>5, ViewIs

-----------------------------------------------------------------------------
LEMMA InitTreeInv == Init => TreeInv
BY InitIInv DEF Init, TreeInv, Written, WholeTree

LEMMA NextTreeInv == TreeInv /\ [Next]_vars => TreeInv'
<1> SUFFICES ASSUME TreeInv, [Next]_vars PROVE TreeInv'
  OBVIOUS
<1> TypeOK /\ Written /\ WholeTree
  BY DEF TreeInv, IInv
<1>1. IInv'
  BY NextIInv DEF TreeInv
<1> SUFFICES Written' /\ WholeTree'
  BY <1>1 DEF TreeInv
<1>2. CASE UNCHANGED <<nodes, image, pc, locals>>
  BY <1>2 DEF locals, Written, Late, NodeDigest, Lv0, Lv1, WholeTree
<1>3. CASE pc' # "put" /\ put' = 0 /\ UNCHANGED <<nodes, image>>
  BY <1>3 DEF Written, WholeTree
<1>4. CASE ScanEnd
  <2>1. put' = 0 /\ pc' = "put" /\ UNCHANGED <<nodes, image>>
    BY <1>4 DEF ScanEnd, Written
  <2>2. \A n \in Nodes : ~ (NodeIx(n) < 0)
    <3>1. \A n \in Nodes : NodeIx(n) \in Nat
      BY Numbering
    <3> QED
      BY <3>1
  <2> QED
    BY <2>1, <2>2 DEF Written, WholeTree
<1>5. CASE WriteNode
  <2>1. WholeTree'
    BY <1>5 DEF WriteNode, WholeTree
  <2>2. ASSUME pc' = "put", ~ lost', NEW n \in Nodes, NodeIx(n) < put'
        PROVE  nodes'[n] = IF Late(n, put') THEN None ELSE NodeDigest(n)'
    <3>1. /\ pc = "put" /\ ~ lost /\ put' = put + 1
          /\ nodes' = NodePut(NodeNo(put)) /\ lv2' = lv2
      BY <1>5, <2>2 DEF WriteNode
    <3>2. put \in 0..LastPut /\ NodeIx(n) \in Int
      BY Numbering DEF TypeOK
    <3>3. NodeIx(n) <= put
      BY <2>2, <3>1, <3>2
    <3>4. NodePut(NodeNo(put))[n] = IF Late(n, put + 1) THEN None ELSE NodeDigest(n)
      BY <3>1, <3>2, <3>3, PutWritten
    <3>5. NodeDigest(n)' = NodeDigest(n)
      BY <3>1 DEF NodeDigest, Lv0, Lv1
    <3> QED
      BY <3>1, <3>4, <3>5
  <2>3. pc' = "put"
    BY <1>5 DEF WriteNode
  <2> QED
    BY <2>1, <2>2, <2>3 DEF Written
<1>6. CASE WriteRoot
  <2>1. Written'
    BY <1>6 DEF WriteRoot, FreeLocals, Written
  <2>2. ASSUME image' = "whole" PROVE nodes' = View!Tree(snap)
    <3>1. nodes' = NodePut(NodeNo(put)) /\ ~ lost /\ pc = "put" /\ put = LastPut
      BY <1>6, <2>2 DEF WriteRoot
    <3> QED
      BY <3>1, RootCompletes
  <2>3. snap \in [Pos -> Heads \cup {None}]
    BY DEF TypeOK
  <2> QED
    BY <2>1, <2>2, <2>3 DEF WholeTree
<1>7. CASE UpdateBegin
  BY <1>3, <1>7 DEF UpdateBegin, Written
<1>8. ASSUME NEW p \in Pos, ScanRow(p) PROVE Written' /\ WholeTree'
  BY <1>3, <1>8 DEF ScanRow, Written
<1>9. CASE Crash
  BY <1>3, <1>9 DEF Crash, FreeLocals
<1>10. CASE Receive \/ UNCHANGED vars
  BY <1>2, <1>10 DEF Receive, vars
<1> QED
  BY <1>4, <1>5, <1>6, <1>7, <1>8, <1>9, <1>10 DEF Next, UpdateStep

LEMMA TreeInvariant == Spec => []TreeInv
<1> QED
  BY InitTreeInv, NextTreeInv, PTL DEF Spec

(* In the tree of one content, a node is the digest of its children.       *)
LEMMA WholeParents == TreeInv => ParentsHashChildren
<1> SUFFICES ASSUME TreeInv, image = "whole", NEW n \in Nodes, n[1] < 2, nodes[n] # None,
                    \A k \in 1..Fan : nodes[Children(n)[k]] # None
             PROVE  nodes[n] = Sha1([k \in 1..Fan |-> nodes[Children(n)[k]]])
  BY DEF ParentsHashChildren
<1>1. PICK f : nodes = View!Tree(f)
  BY DEF TreeInv, WholeTree
<1>2. ASSUME NEW m \in Nodes, nodes[m] # None
      PROVE  nodes[m] = IF m[1] = 2 THEN View!Leaf(f, m[2])
                        ELSE IF m[1] = 1 THEN View!Inner(f, m[2])
                        ELSE View!Root(f)
  BY <1>1, <1>2, ViewIs
<1>3. PICK F \in Nat : F = Fan
  BY Sizes
<1>4. CASE n[1] = 1
  <2>1. n[2] \in 0..(Fan - 1)
    BY <1>4 DEF Nodes
  <2>2. ASSUME NEW k \in 1..Fan
        PROVE  nodes[Children(n)[k]] = View!Leaf(f, n[2] * Fan + k - 1)
    <3>1. Children(n)[k] = <<2, n[2] * Fan + k - 1>>
      BY <1>4 DEF Children
    <3>2. <<2, n[2] * Fan + k - 1>> \in Nodes
      BY <2>1, Sizes DEF Nodes
    <3> QED
      BY <1>2, <3>1, <3>2
  <2>3. nodes[n] = View!Inner(f, n[2])
    BY <1>2, <1>4
  <2>4. [k \in 1..Fan |-> nodes[Children(n)[k]]]
          = [k \in 1..Fan |-> View!Leaf(f, n[2] * Fan + k - 1)]
    BY <2>2
  <2> QED
    BY <2>3, <2>4, ViewIs
<1>5. CASE n[1] = 0
  <2>1. n[2] = 0
    BY <1>5 DEF Nodes
  <2>2. ASSUME NEW k \in 1..Fan
        PROVE  nodes[Children(n)[k]] = View!Inner(f, k - 1)
    <3>1. Children(n)[k] = <<0 + 1, 0 * Fan + k - 1>>
      BY <1>5, <2>1 DEF Children
    <3>2. 0 * Fan + k - 1 = k - 1 /\ k - 1 \in 0..(Fan - 1)
      BY <1>3
    <3>3. <<1, k - 1>> \in Nodes
      BY <3>2 DEF Nodes
    <3> QED
      BY <1>2, <3>1, <3>2, <3>3
  <2>3. nodes[n] = View!Root(f)
    BY <1>2, <1>5
  <2>4. [k \in 1..Fan |-> nodes[Children(n)[k]]] = [k \in 1..Fan |-> View!Inner(f, k - 1)]
    BY <2>2
  <2> QED
    BY <2>3, <2>4, ViewIs
<1> QED
  BY <1>4, <1>5 DEF Nodes

(* After a finished update a node of the tree is the digest of its         *)
(* children wherever the store holds all of them (hashtree.cpp:250),       *)
(* whatever messages came in while it ran and whichever updates were cut   *)
(* short before.                                                           *)
THEOREM ParentsAreDigests == Spec => []ParentsHashChildren
<1> QED
  BY TreeInvariant, WholeParents, PTL

-----------------------------------------------------------------------------
(* A step of hashtree_update is one of the abstract tree's, or none.       *)
LEMMA InitView == Init => View!Init
<1> SUFFICES ASSUME Init PROVE View!Init
  OBVIOUS
<1>1. View!Pos = Pos /\ View!Nodes = Nodes
  BY DEF View!Pos, Pos, View!Nodes, Nodes, View!Leaves, Leaves, View!NLeaf, NLeaf
<1> QED
  BY <1>1 DEF Init, StoreInit, View!Init

LEMMA StepView == TreeInv /\ [Next]_vars => [View!Next]_(View!vars)
<1> SUFFICES ASSUME TreeInv, [Next]_vars PROVE [View!Next]_(View!vars)
  OBVIOUS
<1>1. snap # Zero
  BY ZeroAssumption DEF TreeInv, IInv, TypeOK
<1>2. CASE Receive
  <2>1. UNCHANGED <<nodes, image, pc, snap>>
    BY <1>2 DEF Receive, locals
  <2> QED
    BY <2>1 DEF View!Next, View!Write, View!vars
<1>3. CASE UpdateBegin
  <2>1. View!Begin
    BY <1>3 DEF UpdateBegin, View!Begin
  <2> QED
    BY <2>1 DEF View!Next
<1>4. ASSUME NEW p \in Pos, ScanRow(p) PROVE UNCHANGED View!vars
  BY <1>4 DEF ScanRow, View!vars
<1>5. CASE ScanEnd
  BY <1>5 DEF ScanEnd, View!vars
<1>6. CASE WriteNode
  <2>1. View!Tear
    BY <1>1, <1>6 DEF WriteNode, View!Tear
  <2> QED
    BY <2>1 DEF View!Next
<1>7. CASE WriteRoot
  <2>1. pc = "put" /\ put = LastPut /\ pc' = "idle" /\ db' = db /\ image' \in {"whole", "torn"}
    BY <1>7 DEF WriteRoot
  <2>2. CASE image' = "whole"
    <3>1. nodes' = NodePut(NodeNo(put)) /\ ~ lost
      BY <1>7, <2>2 DEF WriteRoot
    <3>2. nodes' = View!Tree(snap)
      BY <2>1, <3>1, RootCompletes
    <3>3. View!Publish
      BY <1>1, <2>1, <2>2, <3>2 DEF View!Publish
    <3> QED
      BY <3>3 DEF View!Next
  <2>3. CASE image' # "whole"
    <3>1. View!Abandon
      BY <1>1, <2>1, <2>3 DEF View!Abandon
    <3> QED
      BY <3>1 DEF View!Next
  <2> QED
    BY <2>2, <2>3
<1>8. CASE Crash
  <2>1. View!Abandon
    BY <1>1, <1>8 DEF Crash, View!Abandon
  <2> QED
    BY <2>1 DEF View!Next
<1>9. CASE UNCHANGED vars
  BY <1>9 DEF vars, locals, View!vars
<1> QED
  BY <1>2, <1>3, <1>4, <1>5, <1>6, <1>7, <1>8, <1>9 DEF Next, UpdateStep

(* hashtree_update implements TreeView: what readers find between two      *)
(* updates is the tree of the rows of one moment within the last update    *)
(* (hashtree.cpp:247), unless a crash or a failed put cut that one short.  *)
THEOREM UpdateImplementsView == Spec => ImplementsTreeView
<1>1. TreeInv /\ [Next]_vars => [View!Next]_(View!vars)
  BY StepView
<1> QED
  BY <1>1, InitView, TreeInvariant, PTL DEF Spec, View!Spec, ImplementsTreeView
===============================================================================
