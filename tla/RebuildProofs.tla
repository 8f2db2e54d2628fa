----------------------------- MODULE RebuildProofs -----------------------------
(***************************************************************************)
(* What a rebuild does to the store while messages go on arriving, for any *)
(* tables, any number of rows and segments and any faults.                 *)
(*                                                                         *)
(* The argument follows one row, whose key shares its place in the store   *)
(* with no other and is left as it is by hashing (Alone), from the dump to *)
(* the end of the copy: its own key, passed back, names it, and no other   *)
(* row's does.  While the row waits, the value the dump selected for it is *)
(* the one MySQL had when the dump was taken: the last of the messages     *)
(* sent before the dump, when there is one, carries that value, and when   *)
(* no message was sent after it the value is still MySQL's (Fresh).  The   *)
(* copy of its segment therefore ends with that value in the store, or     *)
(* with an older message for the row under way that will put it there      *)
(* (InSegment); from then on the row is right as soon as no message for it *)
(* is under way (Copied).                                                  *)
(***************************************************************************)
EXTENDS Rebuild, KeyspaceProofs

(* The keys that LevelDB mistakes for no other key; those of them that,    *)
(* when they are of the rebuilt table, hashing leaves as they are.         *)
Single == {q \in Pos : \A p \in Pos : <<p, q>> \notin Twins}
Alone == {q \in Single : Tab[q] = T => ~Changed(q)}

(* The messages m to n of the queue; the last of the first n on a row.     *)
NoneIn(p, m, n) == \A k \in m..n : queue[k].row # p
LastIn(p, k, n) == k \in 1..n /\ queue[k].row = p /\ NoneIn(p, k + 1, n)

(* What the dump selected for a row and no fault has lost.                 *)
Selected(p) == IF dump[p] # None THEN dump[p] ELSE tmp[p]

Settled(p) == NoneIn(p, 1, Len(queue)) => db[p] = truth[p]

SentLast ==
  \A p \in Pos, n \in 1..Len(queue) : LastIn(p, n, Len(queue)) => queue[n].val = truth[p]

Others == \A p \in Alone : Tab[p] # T /\ p \notin missed => Settled(p)

Copied == \A p \in Alone : Tab[p] = T /\ Seg[p] < i /\ p \notin missed => Settled(p)

Fresh ==
  \A p \in Alone : Pending(p) /\ p \notin missed =>
    /\ NoneIn(p, old + 1, Len(queue)) => Selected(p) = truth[p]
    /\ \A n \in 1..old : LastIn(p, n, old) => queue[n].val = Selected(p)

InSegment ==
  \A p \in Alone :
    Tab[p] = T /\ Seg[p] = i /\ p \notin todo \cup missed /\ NoneIn(p, 1, old) =>
      /\ rpc = "remove" => db[p] \in {None, tmp[p]}
      /\ rpc = "insert" => db[p] = tmp[p]

TmpRows ==
  /\ rpc # "idle" => \A p \in Pos : Tab[p] # T => tmp[p] = None /\ dump[p] = None
  /\ rpc \notin {"idle", "parse"} => dump = Empty

Todo ==
  \A p \in todo : Seg[p] = i /\ (rpc = "insert" => Tab[p] = T /\ tmp[p] # None)

RowsInv == SentLast /\ Others /\ Copied /\ Fresh /\ InSegment /\ TmpRows /\ Todo

IInv == TypeOK /\ RowsInv

-----------------------------------------------------------------------------
(* The numbers of the segments.                                            *)
LEMMA LeafCount ==
  /\ NLeaf \in Nat /\ NLeaf > 0
  /\ \A p \in Pos : Seg[p] \in Nat /\ Seg[p] < NLeaf
<1>1. Fan \in Nat /\ Fan > 0
  BY SizeAssumption
<1>2. NLeaf \in Nat /\ NLeaf > 0
  BY <1>1 DEF NLeaf
<1>3. ASSUME NEW p \in Pos PROVE Seg[p] \in 0..(NLeaf - 1)
  BY KeyAssumption DEF Leaves
<1> QED
  BY <1>2, <1>3

(* The operators of the temporary tree, in terms of its rows.              *)
LEMMA TmpStoreIs ==
  /\ TmpStore!StoreTypeOK <=> tmp \in [Pos -> Value]
  /\ \A p \in Pos, v \in Value :
       TmpStore!DbPut(p, v) =
         [q \in Pos |-> IF q = p THEN v ELSE IF <<p, q>> \in Twins THEN None ELSE tmp[q]]
  /\ \A t \in Tables, s \in Leaves : TmpStore!SegmentKeys(t, s) =
       {p \in Pos :
         /\ tmp[p] # None /\ AtOrAfter(p, t, s)
         /\ \A q \in Pos : tmp[q] # None /\ AtOrAfter(q, t, s) /\ q <= p => Seg[q] = s}
  /\ \A p \in Pos : TmpStore!EntryDigests(p) = {d \in Digest : d.head = tmp[p]}
<1>1. TmpStore!Pos = Pos
  BY DEF TmpStore!Pos, Pos
<1>2. \A p, t, s : TmpStore!AtOrAfter(p, t, s) <=> AtOrAfter(p, t, s)
  BY DEF TmpStore!AtOrAfter, AtOrAfter
<1>3. TmpStore!Digest = Digest
  BY DEF TmpStore!Digest, Digest
<1>4. TmpStore!StoreTypeOK <=> tmp \in [Pos -> Value]
  BY <1>1 DEF TmpStore!StoreTypeOK, Value
<1>5. \A p \in Pos, v \in Value :
        TmpStore!DbPut(p, v) =
          [q \in Pos |-> IF q = p THEN v ELSE IF <<p, q>> \in Twins THEN None ELSE tmp[q]]
  BY <1>1 DEF TmpStore!DbPut
<1>6. \A t \in Tables, s \in Leaves : TmpStore!SegmentKeys(t, s) =
        {p \in Pos :
          /\ tmp[p] # None /\ AtOrAfter(p, t, s)
          /\ \A q \in Pos : tmp[q] # None /\ AtOrAfter(q, t, s) /\ q <= p => Seg[q] = s}
  BY <1>1, <1>2 DEF TmpStore!SegmentKeys
<1>7. \A p \in Pos : TmpStore!EntryDigests(p) = {d \in Digest : d.head = tmp[p]}
  BY <1>3 DEF TmpStore!EntryDigests
<1> QED
  BY <1>4, <1>5, <1>6, <1>7

(* A put changes its own row and the twins of it.                          *)
LEMMA PutOne ==
  ASSUME StoreTypeOK, NEW p \in Pos, NEW v \in Value
  PROVE  /\ DbPut(p, v) \in [Pos -> Value]
         /\ DbPut(p, v)[p] = v
         /\ \A q \in Single : q # p => DbPut(p, v)[q] = db[q]
BY DEF DbPut, StoreTypeOK, Value, Single

(* The same of the temporary tree.                                         *)
LEMMA PutOneTmp ==
  ASSUME TmpStore!StoreTypeOK, NEW p \in Pos, NEW v \in Value
  PROVE  /\ TmpStore!DbPut(p, v) \in [Pos -> Value]
         /\ TmpStore!DbPut(p, v)[p] = v
         /\ \A q \in Alone : q # p => TmpStore!DbPut(p, v)[q] = tmp[q]
         /\ \A q \in Pos : q # p => TmpStore!DbPut(p, v)[q] \in {None, tmp[q]}
<1>1. TmpStore!DbPut(p, v) =
        [q \in Pos |-> IF q = p THEN v ELSE IF <<p, q>> \in Twins THEN None ELSE tmp[q]]
  BY TmpStoreIs
<1>2. tmp \in [Pos -> Value] /\ None \in Value
  BY TmpStoreIs DEF Value
<1> QED
  BY <1>1, <1>2 DEF Alone, Single

(* What removing a row and inserting one of its digests do to the store.   *)
LEMMA RemoveOne ==
  ASSUME StoreTypeOK, NEW p \in Pos, Remove(p)
  PROVE  /\ db' \in [Pos -> Value]
         /\ db'[p] = None
         /\ \A q \in Single : q # p => db'[q] = db[q]
<1>1. None \in Value
  BY DEF Value
<1> QED
  BY <1>1, PutOne DEF Remove, DbDelete

LEMMA InsertOne ==
  ASSUME StoreTypeOK, NEW p \in Pos, NEW d \in Digest, Insert(p, d)
  PROVE  /\ db' \in [Pos -> Value]
         /\ db'[p] = d.head
         /\ \A q \in Single : q # p => db'[q] = db[q]
<1>1. d.head \in Value
  BY DEF Value, Digest
<1> QED
  BY <1>1, PutOne DEF Insert, HvalSlice

(* The temporary tree's read returns every row of the segment, too.        *)
LEMMA TmpRowsReturned ==
  ASSUME NEW t \in Tables, NEW s \in Leaves, NEW p \in RowsOf(tmp, t, s)
  PROVE  p \in TmpStore!SegmentKeys(t, s)
BY ReadComplete, TmpStoreIs

(* Every entry of a read is at or after the start of the segment and its   *)
(* segment number is the wanted one.                                       *)
LEMMA TmpReadInSegment ==
  ASSUME NEW t \in Tables, NEW s \in Leaves, NEW p \in TmpStore!SegmentKeys(t, s)
  PROVE  p \in Pos /\ tmp[p] # None /\ Seg[p] = s
<1>1. /\ p \in Pos /\ tmp[p] # None /\ AtOrAfter(p, t, s)
      /\ \A q \in Pos : tmp[q] # None /\ AtOrAfter(q, t, s) /\ q <= p => Seg[q] = s
  BY TmpStoreIs
<1> QED
  BY <1>1, ReadInSegment

(* The rows that the argument follows are rows with a place of their own.  *)
LEMMA AloneIs == Alone \subseteq Single /\ Single \subseteq Pos
BY DEF Alone, Single

(* A key passed back names a row of T: the row it was read for, or a copy. *)
LEMMA NamedIs ==
  ASSUME NEW p \in Pos, NEW q \in Named(p)
  PROVE  q \in OfT /\ Tab[p] = T /\ (q \in Copies \/ (q = p /\ ~Changed(q)))
<1>1. p \in OfT /\ q = Again[p] /\ q # None /\ Tab[p] = T
  BY DEF Named, OfT
<1>2. q \in OfT
  BY <1>1, AgainAssumption
<1> QED
  BY <1>1, <1>2 DEF Copies, Changed

(* So it names a row that the argument follows only when it is that row's  *)
(* own key, and that row's own key does name it.                           *)
LEMMA AloneNamed ==
  ASSUME NEW q \in Alone
  PROVE  /\ \A p \in Pos : q \in Named(p) => q = p
         /\ Tab[q] = T => Named(q) = {q}
<1>1. q \in Pos /\ (Tab[q] = T => Again[q] = q /\ q \notin Copies)
  <2>1. q \in Pos /\ (Tab[q] = T => ~Changed(q))
    BY AloneIs DEF Alone
  <2> QED
    BY <2>1, AgainAssumption DEF Changed
<1>2. ASSUME NEW p \in Pos, q \in Named(p) PROVE q = p
  BY <1>1, <1>2, NamedIs DEF OfT
<1>3. ASSUME Tab[q] = T PROVE Named(q) = {q}
  <2>1. Again[q] = q /\ q \in OfT
    BY <1>1, <1>3 DEF OfT
  <2>2. q # None
    BY <2>1, AgainAssumption
  <2> QED
    BY <1>3, <2>1, <2>2 DEF Named
<1> QED
  BY <1>2, <1>3

-----------------------------------------------------------------------------
(* The receiver takes the head off the queue.                              *)
LEMMA HeadAndTail ==
  ASSUME NEW M, NEW q \in Seq(M), q # <<>>
  PROVE  /\ Len(q) \in Nat /\ Len(q) >= 1 /\ Len(Tail(q)) = Len(q) - 1
         /\ Head(q) = q[1] /\ q[1] \in M
         /\ \A k \in 1..(Len(q) - 1) : Tail(q)[k] = q[k + 1]
         /\ Tail(q) \in Seq(M)
<1>1. Len(q) \in Nat /\ Len(q) >= 1 /\ Head(q) = q[1]
  OBVIOUS
<1>2. q[1] \in M
  BY <1>1
<1>3. Len(Tail(q)) = Len(q) - 1 /\ Tail(q) \in Seq(M)
  OBVIOUS
<1>4. \A k \in 1..(Len(q) - 1) : Tail(q)[k] = q[k + 1]
  OBVIOUS
<1> QED
  BY <1>1, <1>2, <1>3, <1>4

(* The publisher appends a message.                                        *)
LEMMA QueueAppend ==
  ASSUME queue \in Seq([row : Pos, val : Value]), NEW m \in [row : Pos, val : Value],
         queue' = Append(queue, m)
  PROVE  /\ Len(queue) \in Nat /\ Len(queue') = Len(queue) + 1
         /\ \A k \in 1..Len(queue) : queue'[k] = queue[k]
         /\ queue'[Len(queue) + 1] = m
         /\ queue' \in Seq([row : Pos, val : Value])
OBVIOUS

-----------------------------------------------------------------------------
(* The values a digest's head can have, and None.                          *)
LEMMA ValueIs == None \in Value /\ \A d \in Digest : d.head \in Value
BY DEF Value, Digest

LEMMA StoreIs == StoreTypeOK <=> db \in [Pos -> Value]
BY DEF StoreTypeOK, Value

(* No step leaves the types.                                               *)
LEMMA TypeStep ==
  ASSUME TypeOK, [Next]_vars
  PROVE  TypeOK'
<1> USE DEF TypeOK
<1>1. /\ db \in [Pos -> Value] /\ tmp \in [Pos -> Value]
      /\ NLeaf \in Nat /\ NLeaf > 0 /\ T \in Tables /\ None \in Value
  BY StoreIs, TmpStoreIs, LeafCount, ValueIs, RebuildAssumption
<1>2. ASSUME db' \in [Pos -> Value] PROVE StoreTypeOK'
  BY <1>2 DEF StoreTypeOK, Value
<1>3. ASSUME tmp' \in [Pos -> Value] PROVE TmpStore!StoreTypeOK'
  <2>1. TmpStore!Pos = Pos
    BY DEF TmpStore!Pos, Pos
  <2> QED
    BY <1>3, <2>1 DEF TmpStore!StoreTypeOK, Value
<1>4. Empty \in [Pos -> Value]
  BY <1>1 DEF Empty
<1>5. Len(queue) \in Nat
  OBVIOUS
<1>6. rpc # "idle" => i \in Leaves
  BY <1>1 DEF Leaves
<1>7. \A p \in Pos : Remove(p) => db' \in [Pos -> Value]
  BY RemoveOne
<1>8. \A p \in Pos, d \in Digest : Insert(p, d) => db' \in [Pos -> Value]
  BY InsertOne
<1>9. ASSUME NEW p \in Pos, NEW v \in Value, Change(p, v)
       PROVE  TypeOK'
  <2>1. [row |-> p, val |-> v] \in [row : Pos, val : Value]
    OBVIOUS
  <2>2. Len(queue') = Len(queue) + 1 /\ queue' \in Seq([row : Pos, val : Value])
    BY <1>9, <2>1, QueueAppend DEF Change
  <2>3. truth' \in [Pos -> Value]
    BY <1>9 DEF Change
  <2>4. old' \in 0..Len(queue')
    BY <1>9, <1>5, <2>2 DEF Change
  <2> QED
    BY <1>1, <1>2, <1>3, <1>9, <2>2, <2>3, <2>4 DEF Change, rebuild
<1>10. CASE Receive
  <2>1. /\ Len(queue) >= 1 /\ Len(queue') = Len(queue) - 1
        /\ queue' \in Seq([row : Pos, val : Value])
        /\ Head(queue) \in [row : Pos, val : Value]
    <3>1. queue # <<>> /\ queue' = Tail(queue)
      BY <1>10 DEF Receive
    <3>2. queue \in Seq([row : Pos, val : Value])
      OBVIOUS
    <3> QED
      BY <3>1, <3>2, HeadAndTail
  <2>2. old' \in 0..Len(queue')
    BY <1>10, <1>5, <2>1 DEF Receive
  <2>3. Head(queue).row \in Pos
    BY <2>1
  <2>4. db' \in [Pos -> Value]
    BY <1>1, <1>7, <1>8, <1>10, <2>3 DEF Receive
  <2>5. missed' \subseteq Pos
    BY <1>10, <2>3 DEF Receive
  <2> QED
    BY <1>1, <1>2, <1>3, <1>10, <2>1, <2>2, <2>4, <2>5 DEF Receive, rebuild
<1>11. CASE Dump
  <2>1. dump' \in [Pos -> Value]
    BY <1>1, <1>11 DEF Dump
  <2>2. i' = 0 /\ 0 \in 0..NLeaf /\ i' < NLeaf
    BY <1>1, <1>11 DEF Dump
  <2>3. old' \in 0..Len(queue') /\ queue' = queue /\ truth' = truth
    BY <1>5, <1>11 DEF Dump, mysql
  <2> QED
    BY <1>1, <1>2, <1>3, <1>4, <1>11, <2>1, <2>2, <2>3 DEF Dump
<1>12. ASSUME NEW p \in Pos, ParseRecord(p)
       PROVE  TypeOK'
  <2>1. dump' \in [Pos -> Value]
    BY <1>1, <1>12 DEF ParseRecord
  <2>2. dump[p] \in Value
    OBVIOUS
  <2>3. tmp' \in [Pos -> Value]
    BY <1>1, <1>12, <2>2, PutOneTmp DEF ParseRecord
  <2> QED
    BY <1>1, <1>2, <1>3, <1>12, <2>1, <2>3 DEF ParseRecord, mysql
<1>13. CASE SyntaxError
  <2>1. dump' \in [Pos -> Value] /\ missed' \subseteq Pos
    BY <1>1, <1>13 DEF SyntaxError
  <2> QED
    BY <1>1, <1>2, <1>3, <1>13, <2>1 DEF SyntaxError, mysql
<1>14. CASE ParseEnd
  BY <1>1, <1>2, <1>3, <1>14 DEF ParseEnd, mysql
<1>15. CASE CopyOpen
  <2>1. todo' \subseteq Pos
    BY <1>15 DEF CopyOpen, SegmentKeys
  <2> QED
    BY <1>1, <1>2, <1>3, <1>15, <2>1 DEF CopyOpen, mysql
<1>16. ASSUME NEW p \in Pos, CopyRemove(p)
       PROVE  TypeOK'
  <2>1. \A q \in Named(p) : q \in Pos
    BY NamedIs DEF OfT
  <2>2. db' \in [Pos -> Value]
    BY <1>1, <1>7, <1>16, <2>1 DEF CopyRemove
  <2> QED
    BY <1>1, <1>2, <1>3, <1>16, <2>2 DEF CopyRemove, mysql
<1>17. CASE CopyLoad
  <2>1. TmpStore!SegmentKeys(T, i) \subseteq Pos
    BY <1>1, <1>6, <1>17, TmpReadInSegment DEF CopyLoad
  <2> QED
    BY <1>1, <1>2, <1>3, <1>17, <2>1 DEF CopyLoad, mysql
<1>18. ASSUME NEW p \in Pos, CopyInsert(p)
       PROVE  TypeOK'
  <2>1. \A q \in Named(p) : q \in Pos
    BY NamedIs DEF OfT
  <2>2. \A d \in TmpStore!EntryDigests(p) : d \in Digest
    BY TmpStoreIs
  <2>3. db' \in [Pos -> Value]
    BY <1>1, <1>8, <1>18, <2>1, <2>2 DEF CopyInsert
  <2> QED
    BY <1>1, <1>2, <1>3, <1>18, <2>3 DEF CopyInsert, mysql
<1>19. CASE CopyNext
  <2>1. i' \in 0..NLeaf /\ (rpc' # "idle" => i' < NLeaf)
    BY <1>1, <1>19 DEF CopyNext
  <2> QED
    BY <1>1, <1>2, <1>3, <1>19, <2>1 DEF CopyNext, mysql
<1>20. CASE Abort
  BY <1>1, <1>2, <1>3, <1>4, <1>20 DEF Abort, mysql
<1>21. CASE CopyRaises
  BY <1>1, <1>2, <1>3, <1>21 DEF CopyRaises, mysql
<1>22. CASE UNCHANGED vars
  BY <1>1, <1>2, <1>3, <1>22 DEF vars, mysql, rebuild
<1> QED
  BY <1>9, <1>10, <1>11, <1>12, <1>13, <1>14, <1>15, <1>16, <1>17, <1>18, <1>19,
     <1>20, <1>21, <1>22 DEF Next, RebuildStep

-----------------------------------------------------------------------------
(* A message that MySQL's publisher sends is newer than the dump and       *)
(* carries the new value.                                                  *)
LEMMA ChangeStep ==
  ASSUME IInv, NEW p \in Pos, NEW v \in Value, Change(p, v)
  PROVE  RowsInv'
<1>1. /\ truth' = [truth EXCEPT ![p] = v]
      /\ queue' = Append(queue, [row |-> p, val |-> v])
      /\ UNCHANGED <<db, rpc, dump, tmp, i, todo, old, missed>>
  BY DEF Change, rebuild
<1>2. /\ queue \in Seq([row : Pos, val : Value])
      /\ old \in 0..Len(queue) /\ truth \in [Pos -> Value]
  BY DEF IInv, TypeOK
<1>3. [row |-> p, val |-> v] \in [row : Pos, val : Value]
  OBVIOUS
<1>4. PICK L \in Nat : L = Len(queue)
  BY <1>2
<1>5. PICK o \in 0..L : o = old
  BY <1>2, <1>4
<1>6. /\ Len(queue') = L + 1
      /\ \A k \in 1..L : queue'[k] = queue[k]
      /\ queue'[L + 1] = [row |-> p, val |-> v]
  BY <1>1, <1>2, <1>3, <1>4, QueueAppend
<1>7. o = old' /\ o \in Nat /\ o <= L
  BY <1>1, <1>5
<1>8. truth'[p] = v /\ \A q \in Pos : q # p => truth'[q] = truth[q]
  BY <1>1, <1>2
<1>9. ASSUME NEW q, NEW m \in 1..(L + 1), NoneIn(q, m, L + 1)'
      PROVE  q # p /\ NoneIn(q, m, L)
  <2>1. q # p
    BY <1>6, <1>9 DEF NoneIn
  <2> QED
    BY <1>6, <1>9, <2>1 DEF NoneIn
<1>10. ASSUME NEW q, NEW m \in Nat, NEW n \in 0..L, m > 0
      PROVE  NoneIn(q, m, n)' <=> NoneIn(q, m, n)
  BY <1>6, <1>10 DEF NoneIn
<1>11. SentLast'
  <2> SUFFICES ASSUME NEW q \in Pos, NEW n \in 1..(L + 1), LastIn(q, n, L + 1)'
               PROVE  queue'[n].val = truth'[q]
    BY <1>6 DEF SentLast
  <2>1. queue'[n].row = q /\ NoneIn(q, n + 1, L + 1)'
    BY DEF LastIn
  <2>2. CASE n = L + 1
    BY <1>6, <1>8, <2>1, <2>2
  <2>3. CASE n \in 1..L
    <3>1. q # p /\ NoneIn(q, n + 1, L)
      BY <1>6, <1>9, <2>1, <2>3
    <3>2. LastIn(q, n, L)
      BY <1>6, <2>1, <2>3, <3>1 DEF LastIn
    <3>3. queue[n].val = truth[q]
      BY <2>3, <3>2, <1>4 DEF IInv, RowsInv, SentLast
    <3> QED
      BY <1>6, <1>8, <2>3, <3>1, <3>3
  <2> QED
    BY <1>6, <2>2, <2>3
<1>12. ASSUME NEW q \in Pos, Settled(q)
       PROVE  Settled(q)'
  <2> SUFFICES ASSUME NoneIn(q, 1, L + 1)' PROVE db'[q] = truth'[q]
    BY <1>6 DEF Settled
  <2>1. q # p /\ NoneIn(q, 1, L)
    BY <1>6, <1>9
  <2> QED
    BY <1>1, <1>8, <1>12, <1>4, <2>1 DEF Settled
<1>13. Alone \subseteq Pos
  BY AloneIs
<1>14. Others'
  BY <1>1, <1>12, <1>13 DEF IInv, RowsInv, Others
<1>15. Copied'
  BY <1>1, <1>12, <1>13 DEF IInv, RowsInv, Copied
<1>16. Fresh'
  <2> SUFFICES ASSUME NEW q \in Alone, Pending(q)', q \notin missed'
               PROVE  /\ NoneIn(q, o + 1, L + 1)' => Selected(q)' = truth'[q]
                      /\ \A n \in 1..o : LastIn(q, n, o)' => queue'[n].val = Selected(q)'
    BY <1>1, <1>6, <1>7 DEF Fresh
  <2>1. Pending(q) /\ q \notin missed /\ Selected(q)' = Selected(q)
    BY <1>1 DEF Pending, Selected
  <2>2. /\ NoneIn(q, o + 1, L) => Selected(q) = truth[q]
        /\ \A n \in 1..o : LastIn(q, n, o) => queue[n].val = Selected(q)
    BY <1>4, <1>5, <2>1 DEF IInv, RowsInv, Fresh
  <2>3. NoneIn(q, o + 1, L + 1)' => Selected(q)' = truth'[q]
    BY <1>1, <1>6, <1>7, <1>8, <1>9, <1>13, <2>1, <2>2
  <2>4. ASSUME NEW n \in 1..o, LastIn(q, n, o)'
        PROVE  queue'[n].val = Selected(q)'
    <3>1. n \in 1..L /\ n + 1 \in Nat /\ n + 1 > 0 /\ o \in 0..L
      BY <1>6, <1>7
    <3>2. LastIn(q, n, o)
      BY <1>1, <1>6, <1>10, <2>4, <3>1 DEF LastIn
    <3> QED
      BY <1>6, <2>1, <2>2, <3>1, <3>2
  <2> QED
    BY <1>1, <2>3, <2>4
<1>17. InSegment'
  <2>1. o \in 0..L
    BY <1>6, <1>7
  <2>2. \A q \in Alone : NoneIn(q, 1, o)' <=> NoneIn(q, 1, o)
    BY <1>1, <1>10, <2>1
  <2> QED
    BY <1>1, <1>7, <1>5, <2>2 DEF IInv, RowsInv, InSegment
<1>18. TmpRows'
  BY <1>1 DEF IInv, RowsInv, TmpRows
<1>19. Todo'
  BY <1>1 DEF IInv, RowsInv, Todo
<1> QED
  BY <1>11, <1>14, <1>15, <1>16, <1>17, <1>18, <1>19 DEF RowsInv

(* A handled message puts MySQL's value into a row that is copied already, *)
(* or the dump's when it is older than the dump; a row that is still to be *)
(* copied and whose message is newer counts as missed.                     *)
LEMMA ReceiveStep ==
  ASSUME IInv, Receive
  PROVE  RowsInv'
<1>1. /\ queue \in Seq([row : Pos, val : Value]) /\ queue # <<>> /\ queue' = Tail(queue)
      /\ UNCHANGED <<truth, rpc, dump, tmp, i, todo>>
  BY DEF IInv, TypeOK, Receive, rebuild
<1>2. PICK L \in Nat : L = Len(queue)
  BY <1>1
<1>3. PICK o \in 0..L : o = old
  BY <1>2 DEF IInv, TypeOK
<1>4. PICK m \in [row : Pos, val : Value] : m = queue[1] /\ m = Head(queue)
  BY <1>1, HeadAndTail
<1>5. /\ L >= 1 /\ Len(queue') = L - 1
      /\ \A k \in 1..(L - 1) : queue'[k] = queue[k + 1]
  BY <1>1, <1>2, HeadAndTail
<1>6. PICK u \in 0..L : u = old' /\ u = (IF o = 0 THEN 0 ELSE o - 1)
  BY <1>3 DEF Receive
<1>7. StoreTypeOK /\ m.row \in Pos /\ m.val \in Value
  BY <1>4 DEF IInv, TypeOK
<1>8. /\ m.row \notin missed' => db'[m.row] = m.val
      /\ \A q \in Alone : q # m.row => db'[q] = db[q]
  <2>1. \/ Remove(m.row) /\ m.val = None
        \/ \E d \in Digest : d.head = m.val /\ Insert(m.row, d)
        \/ m.row \in missed' /\ UNCHANGED db
    BY <1>4 DEF Receive
  <2> QED
    BY <1>7, <2>1, RemoveOne, InsertOne, AloneIs
<1>9. /\ \A q \in Pos : q # m.row => (q \in missed' <=> q \in missed)
      /\ m.row \notin missed' /\ Pending(m.row) => o # 0 /\ m.row \notin missed
  BY <1>3, <1>4 DEF Receive
<1>10. Alone \subseteq Pos
  BY AloneIs
<1>11. ASSUME NEW q, NEW a \in Nat, NEW b \in 0..(L - 1), a > 0
       PROVE  NoneIn(q, a, b)' <=> NoneIn(q, a + 1, b + 1)
  <2>1. ASSUME NoneIn(q, a, b)', NEW k \in (a + 1)..(b + 1)
        PROVE  queue[k].row # q
    <3>1. k - 1 \in a..b /\ k - 1 \in 1..(L - 1)
      BY <1>11
    <3>2. queue'[k - 1].row # q /\ queue'[k - 1] = queue[(k - 1) + 1]
      BY <1>5, <2>1, <3>1 DEF NoneIn
    <3>3. (k - 1) + 1 = k
      BY <1>11
    <3> QED
      BY <3>2, <3>3
  <2>2. ASSUME NoneIn(q, a + 1, b + 1), NEW k \in a..b
        PROVE  queue'[k].row # q
    <3>1. k + 1 \in (a + 1)..(b + 1) /\ k \in 1..(L - 1)
      BY <1>11
    <3> QED
      BY <1>5, <2>2, <3>1 DEF NoneIn
  <2> QED
    BY <2>1, <2>2 DEF NoneIn
<1>12. ASSUME NEW q \in Pos, q # m.row, NEW b \in 0..L, NoneIn(q, 2, b)
       PROVE  NoneIn(q, 1, b)
  BY <1>4, <1>12 DEF NoneIn
<1>13. ASSUME NEW b \in 1..L, NoneIn(m.row, 2, b)
       PROVE  LastIn(m.row, 1, b)
  BY <1>4, <1>13 DEF LastIn
<1>14. SentLast'
  <2> SUFFICES ASSUME NEW q \in Pos, NEW n \in 1..(L - 1), LastIn(q, n, L - 1)'
               PROVE  queue'[n].val = truth'[q]
    BY <1>5 DEF SentLast
  <2>1. n + 1 \in 1..L /\ queue'[n] = queue[n + 1] /\ n + 1 \in Nat /\ n + 1 > 0
    BY <1>5
  <2>2. queue'[n].row = q /\ NoneIn(q, n + 1, L - 1)'
    BY DEF LastIn
  <2>3. L - 1 \in 0..(L - 1) /\ (L - 1) + 1 = L
    BY <1>5
  <2>4. NoneIn(q, (n + 1) + 1, L)
    BY <1>11, <2>1, <2>2, <2>3
  <2>5. LastIn(q, n + 1, L)
    BY <2>1, <2>2, <2>4 DEF LastIn
  <2>6. queue[n + 1].val = truth[q]
    BY <1>2, <2>1, <2>5 DEF IInv, RowsInv, SentLast
  <2> QED
    BY <1>1, <2>1, <2>6
<1>15. ASSUME NEW q \in Alone, q \notin missed', q \notin missed /\ q # m.row => Settled(q)
       PROVE  Settled(q)'
  <2> SUFFICES ASSUME NoneIn(q, 1, L - 1)' PROVE db'[q] = truth'[q]
    BY <1>5 DEF Settled
  <2>1. L - 1 \in 0..(L - 1) /\ (L - 1) + 1 = L /\ 1 + 1 = 2
    BY <1>5
  <2>2. NoneIn(q, 2, L)
    BY <1>11, <2>1
  <2>3. CASE q = m.row
    <3>1. LastIn(q, 1, L)
      BY <1>5, <1>13, <2>2, <2>3
    <3>2. m.val = truth[q]
      BY <1>2, <1>4, <1>5, <1>7, <2>3, <3>1 DEF IInv, RowsInv, SentLast
    <3> QED
      BY <1>1, <1>8, <1>15, <2>3, <3>2
  <2>4. CASE q # m.row
    <3>1. NoneIn(q, 1, L) /\ q \notin missed
      BY <1>5, <1>9, <1>10, <1>12, <1>15, <2>2, <2>4
    <3> QED
      BY <1>1, <1>2, <1>8, <1>15, <2>4, <3>1 DEF Settled
  <2> QED
    BY <2>3, <2>4
<1>16. Others'
  BY <1>15 DEF IInv, RowsInv, Others
<1>17. Copied'
  BY <1>1, <1>15 DEF IInv, RowsInv, Copied
<1>18. ASSUME NEW q \in Alone, Pending(q), q \notin missed'
       PROVE  /\ q \notin missed /\ (q = m.row => o # 0)
              /\ NoneIn(q, o + 1, L) => Selected(q) = truth[q]
              /\ \A n \in 1..o : LastIn(q, n, o) => queue[n].val = Selected(q)
  <2>1. q \notin missed /\ (q = m.row => o # 0)
    BY <1>9, <1>10, <1>18
  <2> QED
    BY <1>2, <1>3, <1>18, <2>1 DEF IInv, RowsInv, Fresh
<1>19. Fresh'
  <2> SUFFICES ASSUME NEW q \in Alone, Pending(q)', q \notin missed'
               PROVE  /\ NoneIn(q, u + 1, L - 1)' => Selected(q)' = truth'[q]
                      /\ \A n \in 1..u : LastIn(q, n, u)' => queue'[n].val = Selected(q)'
    BY <1>5, <1>6 DEF Fresh
  <2>1. Pending(q) /\ Selected(q)' = Selected(q) /\ truth' = truth
    BY <1>1 DEF Pending, Selected
  <2>2. L - 1 \in 0..(L - 1) /\ (L - 1) + 1 = L /\ u + 1 \in Nat /\ u + 1 > 0
    BY <1>5
  <2>3. ASSUME NoneIn(q, u + 1, L - 1)'
        PROVE  Selected(q)' = truth'[q]
    <3>1. NoneIn(q, (u + 1) + 1, L)
      BY <1>11, <2>2, <2>3
    <3>2. NoneIn(q, o + 1, L)
      <4>1. CASE o = 0
        <5>1. q # m.row /\ u = 0 /\ (u + 1) + 1 = 2 /\ o + 1 = 1 /\ L \in 0..L
          BY <1>6, <1>18, <2>1, <4>1
        <5> QED
          BY <1>10, <1>12, <3>1, <5>1
      <4>2. CASE o # 0
        <5>1. (u + 1) + 1 = o + 1
          BY <1>6, <4>2
        <5> QED
          BY <3>1, <5>1
      <4> QED
        BY <4>1, <4>2
    <3> QED
      BY <1>18, <2>1, <3>2
  <2>4. ASSUME NEW n \in 1..u, LastIn(q, n, u)'
        PROVE  queue'[n].val = Selected(q)'
    <3>1. /\ n + 1 \in 1..o /\ u + 1 = o /\ n \in 1..(L - 1) /\ u \in 0..(L - 1)
          /\ n + 1 \in Nat /\ n + 1 > 0
      BY <1>6
    <3>2. queue'[n] = queue[n + 1]
      BY <1>5, <3>1
    <3>3. queue'[n].row = q /\ NoneIn(q, n + 1, u)'
      BY <2>4 DEF LastIn
    <3>4. NoneIn(q, (n + 1) + 1, o)
      BY <1>11, <3>1, <3>3
    <3>5. LastIn(q, n + 1, o)
      BY <3>1, <3>2, <3>3, <3>4 DEF LastIn
    <3> QED
      BY <1>18, <2>1, <3>1, <3>2, <3>5
  <2> QED
    BY <2>3, <2>4
<1>20. InSegment'
  <2> SUFFICES ASSUME NEW q \in Alone, Tab[q] = T, Seg[q] = i, q \notin todo \cup missed',
                      NoneIn(q, 1, u)'
               PROVE  /\ rpc = "remove" => db'[q] \in {None, tmp[q]}
                      /\ rpc = "insert" => db'[q] = tmp[q]
    BY <1>1, <1>6 DEF InSegment
  <2> SUFFICES ASSUME rpc \in {"remove", "insert"}
               PROVE  /\ rpc = "remove" => db'[q] \in {None, tmp[q]}
                      /\ rpc = "insert" => db'[q] = tmp[q]
    OBVIOUS
  <2>1. Pending(q)
    BY <1>10, LeafCount DEF Pending
  <2>2. Selected(q) = tmp[q]
    BY <1>10 DEF IInv, RowsInv, TmpRows, Selected, Empty
  <2>3. ASSUME o # 0 PROVE NoneIn(q, 2, o)
    <3>1. u + 1 = o /\ u \in 0..(L - 1) /\ 1 + 1 = 2
      BY <1>6, <2>3
    <3> QED
      BY <1>11, <3>1
  <2>4. CASE q = m.row
    <3>1. o # 0 /\ o \in 1..L
      BY <1>18, <2>1, <2>4
    <3>2. LastIn(q, 1, o) /\ 1 \in 1..o
      BY <1>13, <2>3, <2>4, <3>1
    <3>3. m.val = tmp[q]
      BY <1>4, <1>18, <2>1, <2>2, <3>2
    <3> QED
      BY <1>8, <2>4, <3>3
  <2>5. CASE q # m.row
    <3>1. NoneIn(q, 1, o)
      <4>1. CASE o = 0
        BY <4>1 DEF NoneIn
      <4>2. CASE o # 0
        BY <1>10, <1>12, <2>3, <2>5, <4>2
      <4> QED
        BY <4>1, <4>2
    <3>2. q \notin missed /\ db'[q] = db[q]
      BY <1>8, <1>18, <2>1, <2>5
    <3> QED
      BY <1>3, <3>1, <3>2 DEF IInv, RowsInv, InSegment
  <2> QED
    BY <2>4, <2>5
<1>21. TmpRows'
  BY <1>1 DEF IInv, RowsInv, TmpRows
<1>22. Todo'
  BY <1>1 DEF IInv, RowsInv, Todo
<1> QED
  BY <1>14, <1>16, <1>17, <1>19, <1>20, <1>21, <1>22 DEF RowsInv

-----------------------------------------------------------------------------
(* Every other step leaves MySQL and the messages alone.                   *)
LEMMA QueueKept ==
  ASSUME IInv, UNCHANGED mysql
  PROVE  /\ SentLast'
         /\ \A q \in Pos : Settled(q) /\ db'[q] = db[q] => Settled(q)'
         /\ \A q, m, n : NoneIn(q, m, n)' <=> NoneIn(q, m, n)
         /\ \A q, m, n : LastIn(q, m, n)' <=> LastIn(q, m, n)
<1>1. truth' = truth /\ queue' = queue
  BY DEF mysql
<1>2. /\ \A q, m, n : NoneIn(q, m, n)' <=> NoneIn(q, m, n)
      /\ \A q, m, n : LastIn(q, m, n)' <=> LastIn(q, m, n)
  BY <1>1 DEF NoneIn, LastIn
<1>3. SentLast'
  BY <1>1 DEF IInv, RowsInv, SentLast, LastIn, NoneIn
<1>4. \A q \in Pos : Settled(q) /\ db'[q] = db[q] => Settled(q)'
  BY <1>1 DEF Settled, NoneIn
<1> QED
  BY <1>2, <1>3, <1>4

(* A step of the rebuild that neither moves on nor touches the store keeps *)
(* what is known of the rows it does not count as missed.                  *)
LEMMA RowsKept ==
  ASSUME IInv, UNCHANGED <<mysql, db, i, old>>, missed \subseteq missed',
         rpc' # "idle" => rpc # "idle",
         \A q \in Alone : q \notin missed' => Selected(q)' = Selected(q)
  PROVE  SentLast' /\ Others' /\ Copied' /\ Fresh'
<1>1. Alone \subseteq Pos
  BY AloneIs
<1>2. /\ \A q \in Pos : Settled(q) => Settled(q)'
      /\ SentLast'
  BY QueueKept
<1>3. Others' /\ Copied'
  BY <1>1, <1>2 DEF IInv, RowsInv, Others, Copied
<1>4. Fresh'
  <2>1. truth' = truth /\ queue' = queue /\ old' = old
    BY DEF mysql
  <2>2. \A q : Pending(q)' => Pending(q)
    BY DEF Pending
  <2> SUFFICES ASSUME NEW q \in Alone, Pending(q), q \notin missed, Selected(q)' = Selected(q)
               PROVE  /\ NoneIn(q, old + 1, Len(queue)) => Selected(q) = truth[q]
                      /\ \A n \in 1..old : LastIn(q, n, old) => queue[n].val = Selected(q)
    BY <2>1, <2>2 DEF Fresh, NoneIn, LastIn
  <2> QED
    BY DEF IInv, RowsInv, Fresh
<1> QED
  BY <1>2, <1>3, <1>4

(* The dump selects what MySQL has at that moment.                         *)
LEMMA DumpStep ==
  ASSUME IInv, Dump
  PROVE  RowsInv'
<1>1. /\ UNCHANGED <<mysql, db>> /\ tmp' = Empty /\ rpc' = "parse" /\ i' = 0
      /\ old' = Len(queue) /\ todo' = {}
      /\ dump' = [p \in Pos |-> IF Tab[p] = T THEN truth[p] ELSE None]
      /\ missed' = {p \in missed : Tab[p] # T}
  BY DEF Dump
<1>2. truth' = truth /\ queue' = queue
  BY <1>1 DEF mysql
<1>3. Alone \subseteq Pos
  BY AloneIs
<1>4. SentLast' /\ \A q \in Pos : Settled(q) => Settled(q)'
  BY <1>1, QueueKept
<1>5. Others'
  BY <1>1, <1>3, <1>4 DEF IInv, RowsInv, Others
<1>6. Copied'
  BY <1>1, <1>3, LeafCount DEF Copied
<1>7. ASSUME NEW q \in Pos, Tab[q] = T
      PROVE  Selected(q)' = truth[q]
  BY <1>1, <1>7 DEF Selected, Empty
<1>8. Fresh'
  <2> SUFFICES ASSUME NEW q \in Alone, Tab[q] = T
               PROVE  /\ Selected(q)' = truth'[q]
                      /\ \A n \in 1..old' : LastIn(q, n, old)' => queue'[n].val = Selected(q)'
    BY DEF Fresh, Pending
  <2>1. Selected(q)' = truth[q]
    BY <1>3, <1>7
  <2>2. \A n \in 1..old' : LastIn(q, n, old)' => queue[n].val = truth[q]
    BY <1>1, <1>2, <1>3 DEF IInv, RowsInv, SentLast, LastIn, NoneIn
  <2> QED
    BY <1>2, <2>1, <2>2
<1>9. InSegment' /\ Todo'
  BY <1>1 DEF InSegment, Todo
<1>10. TmpRows'
  BY <1>1 DEF TmpRows, Empty
<1> QED
  BY <1>4, <1>5, <1>6, <1>8, <1>9, <1>10 DEF RowsInv

(* A parsed record moves from the dump to the temporary tree, or is lost.  *)
LEMMA ParseRecordStep ==
  ASSUME IInv, NEW p \in Pos, ParseRecord(p)
  PROVE  RowsInv'
<1>1. /\ UNCHANGED <<mysql, db, i, old, rpc, todo>> /\ missed \subseteq missed'
      /\ rpc = "parse" /\ dump[p] # None /\ dump' = [dump EXCEPT ![p] = None]
      /\ \/ tmp' = TmpStore!DbPut(p, dump[p])
         \/ tmp' = tmp /\ p \in missed'
  BY DEF ParseRecord
<1>2. /\ dump \in [Pos -> Value] /\ TmpStore!StoreTypeOK /\ dump[p] \in Value
      /\ tmp \in [Pos -> Value]
  BY TmpStoreIs DEF IInv, TypeOK
<1>3. /\ tmp'[p] = dump[p] \/ p \in missed'
      /\ \A q \in Alone : q # p => tmp'[q] = tmp[q]
      /\ \A q \in Pos : q # p => tmp'[q] \in {None, tmp[q]}
  <2>1. CASE tmp' = TmpStore!DbPut(p, dump[p])
    BY <1>2, <2>1, PutOneTmp
  <2>2. CASE tmp' = tmp /\ p \in missed'
    BY <2>2
  <2> QED
    BY <1>1, <2>1, <2>2
<1>4. ASSUME NEW q \in Alone, q \notin missed'
      PROVE  Selected(q)' = Selected(q)
  <2>1. q \in Pos
    BY AloneIs
  <2> QED
    BY <1>1, <1>2, <1>3, <1>4, <2>1 DEF Selected
<1>5. SentLast' /\ Others' /\ Copied' /\ Fresh'
  BY <1>1, <1>4, RowsKept
<1>6. InSegment'
  BY <1>1 DEF InSegment
<1>7. TmpRows'
  <2>1. Tab[p] = T
    BY <1>1 DEF IInv, RowsInv, TmpRows
  <2>2. \A q \in Pos : Tab[q] # T => tmp'[q] = None /\ dump'[q] = None
    BY <1>1, <1>2, <1>3, <2>1 DEF IInv, RowsInv, TmpRows
  <2> QED
    BY <1>1, <2>2 DEF TmpRows
<1>8. Todo'
  BY <1>1 DEF IInv, TypeOK, Todo
<1> QED
  BY <1>5, <1>6, <1>7, <1>8 DEF RowsInv

(* The rows of the lines that a file lost count as missed.                 *)
LEMMA SyntaxErrorStep ==
  ASSUME IInv, SyntaxError
  PROVE  RowsInv'
<1>1. PICK lost \in SUBSET Pos :
        /\ dump' = [p \in Pos |-> IF p \in lost THEN None ELSE dump[p]]
        /\ missed' = missed \cup lost
        /\ rpc = "parse" /\ UNCHANGED <<mysql, db, i, old, rpc, todo, tmp>>
  BY DEF SyntaxError
<1>2. Alone \subseteq Pos
  BY AloneIs
<1>3. SentLast' /\ Others' /\ Copied' /\ Fresh'
  <2>1. \A q \in Alone : q \notin missed' => Selected(q)' = Selected(q)
    BY <1>1, <1>2 DEF Selected
  <2> QED
    BY <1>1, <2>1, RowsKept
<1>4. InSegment'
  BY <1>1 DEF InSegment
<1>5. TmpRows' /\ Todo'
  BY <1>1 DEF IInv, RowsInv, TypeOK, TmpRows, Todo
<1> QED
  BY <1>3, <1>4, <1>5 DEF RowsInv

LEMMA ParseEndStep ==
  ASSUME IInv, ParseEnd
  PROVE  RowsInv'
<1>1. /\ UNCHANGED <<mysql, db, i, old, missed, tmp, dump, todo>>
      /\ rpc = "parse" /\ rpc' = "open" /\ dump = Empty
  BY DEF ParseEnd
<1>2. SentLast' /\ Others' /\ Copied' /\ Fresh'
  BY <1>1, RowsKept DEF Selected
<1>3. InSegment' /\ TmpRows' /\ Todo'
  BY <1>1 DEF IInv, RowsInv, TypeOK, InSegment, TmpRows, Todo
<1> QED
  BY <1>2, <1>3 DEF RowsInv

(* The read of the live segment returns every row there is to remove.      *)
LEMMA CopyOpenStep ==
  ASSUME IInv, CopyOpen
  PROVE  RowsInv'
<1>1. /\ UNCHANGED <<mysql, db, i, old, missed, tmp, dump>>
      /\ rpc = "open" /\ rpc' = "remove" /\ todo' = SegmentKeys(T, i)
  BY DEF CopyOpen
<1>2. SentLast' /\ Others' /\ Copied' /\ Fresh'
  BY <1>1, RowsKept DEF Selected
<1>3. i \in Leaves /\ T \in Tables
  BY <1>1, RebuildAssumption, LeafCount DEF IInv, TypeOK, Leaves
<1>4. \A q \in Pos : Tab[q] = T /\ Seg[q] = i /\ q \notin todo' => db[q] = None
  <2>1. RowsOf(db, T, i) \subseteq todo'
    BY <1>1, <1>3, ReadComplete DEF SegmentKeys
  <2> QED BY <2>1 DEF RowsOf
<1>5. InSegment'
  BY <1>1, <1>4, AloneIs DEF InSegment
<1>6. \A q \in todo' : Seg[q] = i
  BY <1>1, ReadInSegment DEF SegmentKeys
<1>7. TmpRows' /\ Todo'
  BY <1>1, <1>6 DEF IInv, RowsInv, TmpRows, Todo
<1> QED
  BY <1>2, <1>5, <1>7 DEF RowsInv

(* A removed row is in the segment and of the table, or is left alone; a   *)
(* key that names another row names none that the argument follows.        *)
LEMMA CopyRemoveStep ==
  ASSUME IInv, NEW p \in Pos, CopyRemove(p)
  PROVE  RowsInv'
<1>1. /\ UNCHANGED <<mysql, i, old, tmp, dump, rpc>> /\ missed \subseteq missed'
      /\ rpc = "remove" /\ p \in todo /\ todo' = todo \ {p}
      /\ \/ \E q \in Named(p) : Remove(q)
         \/ UNCHANGED db /\ (Named(p) = {} \/ p \in missed')
  BY DEF CopyRemove
<1>2. Alone \subseteq Pos /\ StoreTypeOK
  BY AloneIs DEF IInv, TypeOK
<1>3. /\ \A q \in Alone : q # p \/ Tab[q] # T => db'[q] = db[q]
      /\ p \in Alone /\ Tab[p] = T /\ p \notin missed' => db'[p] = None
  <2>1. CASE UNCHANGED db /\ (Named(p) = {} \/ p \in missed')
    BY <2>1, AloneNamed
  <2>2. ASSUME NEW r \in Named(p), Remove(r)
        PROVE  /\ \A q \in Alone : q # p \/ Tab[q] # T => db'[q] = db[q]
               /\ p \in Alone /\ Tab[p] = T /\ p \notin missed' => db'[p] = None
    <3>1. r \in Pos /\ Tab[r] = T
      BY NamedIs DEF OfT
    <3>2. db'[r] = None /\ \A q \in Alone : q # r => db'[q] = db[q]
      BY <1>2, <2>2, <3>1, RemoveOne, AloneIs
    <3>3. \A q \in Alone : q = r => q = p
      BY <2>2, AloneNamed
    <3>4. p \in Alone /\ Tab[p] = T => r = p
      BY <2>2, AloneNamed
    <3> QED
      BY <3>1, <3>2, <3>3, <3>4
  <2> QED
    BY <1>1, <2>1, <2>2
<1>4. Seg[p] = i
  BY <1>1 DEF IInv, RowsInv, Todo
<1>5. SentLast' /\ \A q \in Pos : Settled(q) /\ db'[q] = db[q] => Settled(q)'
  BY <1>1, QueueKept
<1>6. Others'
  BY <1>1, <1>2, <1>3, <1>5 DEF IInv, RowsInv, Others
<1>7. Copied'
  <2> SUFFICES ASSUME NEW q \in Alone, Tab[q] = T, Seg[q] < i, q \notin missed'
               PROVE  Settled(q)'
    BY <1>1 DEF Copied
  <2>1. Seg[q] # i
    BY <1>2, LeafCount
  <2>2. db'[q] = db[q] /\ q \notin missed
    BY <1>1, <1>3, <1>4, <2>1
  <2> QED
    BY <1>2, <1>5, <2>2 DEF IInv, RowsInv, Copied
<1>8. Fresh'
  <2> SUFFICES ASSUME NEW q \in Alone, Pending(q), q \notin missed
               PROVE  /\ NoneIn(q, old + 1, Len(queue)) => Selected(q) = truth[q]
                      /\ \A n \in 1..old : LastIn(q, n, old) => queue[n].val = Selected(q)
    BY <1>1 DEF Fresh, Pending, Selected, NoneIn, LastIn, mysql
  <2> QED
    BY DEF IInv, RowsInv, Fresh
<1>9. InSegment'
  <2> SUFFICES ASSUME NEW q \in Alone, Tab[q] = T, Seg[q] = i, q \notin todo' \cup missed',
                      NoneIn(q, 1, old)
               PROVE  db'[q] \in {None, tmp[q]}
    BY <1>1 DEF InSegment, NoneIn, mysql
  <2>1. CASE q = p
    BY <1>3, <2>1
  <2>2. CASE q # p
    BY <1>1, <1>3, <2>2 DEF IInv, RowsInv, InSegment
  <2> QED
    BY <2>1, <2>2
<1>10. TmpRows' /\ Todo'
  BY <1>1 DEF IInv, RowsInv, TmpRows, Todo
<1> QED
  BY <1>5, <1>6, <1>7, <1>8, <1>9, <1>10 DEF RowsInv

(* When the removal has ended, a row that is not in the temporary segment  *)
(* is not in the store.                                                    *)
LEMMA CopyLoadStep ==
  ASSUME IInv, CopyLoad
  PROVE  RowsInv'
<1>1. /\ UNCHANGED <<mysql, db, i, old, missed, tmp, dump>>
      /\ rpc = "remove" /\ rpc' = "insert" /\ todo = {}
      /\ todo' = TmpStore!SegmentKeys(T, i)
  BY DEF CopyLoad
<1>2. SentLast' /\ Others' /\ Copied' /\ Fresh'
  BY <1>1, RowsKept DEF Selected
<1>3. i \in Leaves /\ T \in Tables
  BY <1>1, RebuildAssumption, LeafCount DEF IInv, TypeOK, Leaves
<1>4. \A q \in Pos : Tab[q] = T /\ Seg[q] = i /\ q \notin todo' => tmp[q] = None
  BY <1>1, <1>3, TmpRowsReturned DEF RowsOf
<1>5. InSegment'
  <2> SUFFICES ASSUME NEW q \in Alone, Tab[q] = T, Seg[q] = i, q \notin todo' \cup missed,
                      NoneIn(q, 1, old)
               PROVE  db[q] = tmp[q]
    BY <1>1 DEF InSegment, NoneIn, mysql
  <2>1. db[q] \in {None, tmp[q]}
    BY <1>1 DEF IInv, RowsInv, InSegment
  <2>2. tmp[q] = None
    BY <1>4, AloneIs
  <2> QED
    BY <2>1, <2>2
<1>6. \A q \in todo' : q \in Pos /\ Seg[q] = i /\ tmp[q] # None
  BY <1>1, <1>3, TmpReadInSegment
<1>7. TmpRows' /\ Todo'
  BY <1>1, <1>6 DEF IInv, RowsInv, TmpRows, Todo
<1> QED
  BY <1>2, <1>5, <1>7 DEF RowsInv

(* An inserted row gets the first 8 bytes of the digest that the temporary *)
(* tree has for it; a key that names another row names none that the       *)
(* argument follows.                                                       *)
LEMMA CopyInsertStep ==
  ASSUME IInv, NEW p \in Pos, CopyInsert(p)
  PROVE  RowsInv'
<1>1. /\ UNCHANGED <<mysql, i, old, tmp, dump, rpc>> /\ missed \subseteq missed'
      /\ rpc = "insert" /\ p \in todo /\ todo' = todo \ {p}
      /\ \/ \E q \in Named(p), d \in Digest : d.head = tmp[p] /\ Insert(q, d)
         \/ UNCHANGED db /\ p \in missed'
  BY TmpStoreIs DEF CopyInsert
<1>2. Alone \subseteq Pos /\ StoreTypeOK
  BY AloneIs DEF IInv, TypeOK
<1>3. Seg[p] = i /\ Tab[p] = T
  BY <1>1 DEF IInv, RowsInv, Todo
<1>4. /\ \A q \in Alone : q # p => db'[q] = db[q]
      /\ p \in Alone /\ p \notin missed' => db'[p] = tmp[p]
  <2>1. CASE UNCHANGED db /\ p \in missed'
    BY <2>1
  <2>2. ASSUME NEW r \in Named(p), NEW d \in Digest, d.head = tmp[p], Insert(r, d)
        PROVE  /\ \A q \in Alone : q # p => db'[q] = db[q]
               /\ p \in Alone => db'[p] = tmp[p]
    <3>1. r \in Pos
      BY NamedIs DEF OfT
    <3>2. db'[r] = tmp[p] /\ \A q \in Alone : q # r => db'[q] = db[q]
      BY <1>2, <2>2, <3>1, InsertOne, AloneIs
    <3>3. \A q \in Alone : q = r => q = p
      BY <2>2, AloneNamed
    <3>4. p \in Alone => r = p
      BY <1>3, <2>2, AloneNamed
    <3> QED
      BY <3>2, <3>3, <3>4
  <2> QED
    BY <1>1, <2>1, <2>2
<1>5. SentLast' /\ \A q \in Pos : Settled(q) /\ db'[q] = db[q] => Settled(q)'
  BY <1>1, QueueKept
<1>6. Others'
  BY <1>1, <1>2, <1>3, <1>4, <1>5 DEF IInv, RowsInv, Others
<1>7. Copied'
  <2> SUFFICES ASSUME NEW q \in Alone, Tab[q] = T, Seg[q] < i, q \notin missed'
               PROVE  Settled(q)'
    BY <1>1 DEF Copied
  <2>1. Seg[q] # i
    BY <1>2, LeafCount
  <2>2. db'[q] = db[q] /\ q \notin missed
    BY <1>1, <1>3, <1>4, <2>1
  <2> QED
    BY <1>2, <1>5, <2>2 DEF IInv, RowsInv, Copied
<1>8. Fresh'
  <2> SUFFICES ASSUME NEW q \in Alone, Pending(q), q \notin missed
               PROVE  /\ NoneIn(q, old + 1, Len(queue)) => Selected(q) = truth[q]
                      /\ \A n \in 1..old : LastIn(q, n, old) => queue[n].val = Selected(q)
    BY <1>1 DEF Fresh, Pending, Selected, NoneIn, LastIn, mysql
  <2> QED
    BY DEF IInv, RowsInv, Fresh
<1>9. InSegment'
  <2> SUFFICES ASSUME NEW q \in Alone, Tab[q] = T, Seg[q] = i, q \notin todo' \cup missed',
                      NoneIn(q, 1, old)
               PROVE  db'[q] = tmp[q]
    BY <1>1 DEF InSegment, NoneIn, mysql
  <2>1. CASE q = p
    BY <1>4, <2>1
  <2>2. CASE q # p
    BY <1>1, <1>4, <2>2 DEF IInv, RowsInv, InSegment
  <2> QED
    BY <2>1, <2>2
<1>10. TmpRows' /\ Todo'
  BY <1>1 DEF IInv, RowsInv, TmpRows, Todo
<1> QED
  BY <1>5, <1>6, <1>7, <1>8, <1>9, <1>10 DEF RowsInv

(* The rows of the segment are as the dump has them, or an older message   *)
(* is under way; with no message under way the dump is MySQL's state.      *)
LEMMA CopyNextStep ==
  ASSUME IInv, CopyNext
  PROVE  RowsInv'
<1>1. /\ UNCHANGED <<mysql, db, old, missed, tmp, dump, todo>>
      /\ rpc = "insert" /\ todo = {} /\ i' = i + 1 /\ rpc' \in {"idle", "open"}
  BY DEF CopyNext
<1>2. Alone \subseteq Pos /\ i \in Nat
  BY LeafCount, AloneIs DEF IInv, TypeOK
<1>3. truth' = truth /\ queue' = queue
  BY <1>1 DEF mysql
<1>4. SentLast' /\ \A q \in Pos : Settled(q) => Settled(q)'
  BY <1>1, QueueKept
<1>5. Others'
  BY <1>1, <1>2, <1>4 DEF IInv, RowsInv, Others
<1>6. ASSUME NEW q \in Alone, Tab[q] = T, Seg[q] = i, q \notin missed
      PROVE  Settled(q)
  <2> SUFFICES ASSUME NoneIn(q, 1, Len(queue)) PROVE db[q] = truth[q]
    BY DEF Settled
  <2>1. old \in 0..Len(queue) /\ Len(queue) \in Nat
    BY DEF IInv, TypeOK
  <2>2. NoneIn(q, 1, old) /\ NoneIn(q, old + 1, Len(queue))
    BY <2>1 DEF NoneIn
  <2>3. db[q] = tmp[q]
    BY <1>1, <1>6, <2>2 DEF IInv, RowsInv, InSegment
  <2>4. Pending(q)
    BY <1>1, <1>2, <1>6 DEF Pending
  <2>5. Selected(q) = tmp[q]
    BY <1>1, <1>2 DEF IInv, RowsInv, TmpRows, Selected, Empty
  <2>6. Selected(q) = truth[q]
    BY <1>6, <2>2, <2>4 DEF IInv, RowsInv, Fresh
  <2> QED
    BY <2>3, <2>5, <2>6
<1>7. Copied'
  <2> SUFFICES ASSUME NEW q \in Alone, Tab[q] = T, Seg[q] < i + 1, q \notin missed
               PROVE  Settled(q)'
    BY <1>1 DEF Copied
  <2>1. Seg[q] = i \/ Seg[q] < i
    BY <1>2, LeafCount
  <2>2. Settled(q)
    BY <1>6, <2>1 DEF IInv, RowsInv, Copied
  <2> QED
    BY <1>2, <1>4, <2>2
<1>8. Fresh'
  <2>1. ASSUME NEW q \in Alone, Pending(q)' PROVE Pending(q)
    BY <1>1, <1>2, <2>1, LeafCount DEF Pending
  <2>2. \A q : Selected(q)' = Selected(q)
    BY <1>1 DEF Selected
  <2> SUFFICES ASSUME NEW q \in Alone, Pending(q), q \notin missed
               PROVE  /\ NoneIn(q, old + 1, Len(queue)) => Selected(q) = truth[q]
                      /\ \A n \in 1..old : LastIn(q, n, old) => queue[n].val = Selected(q)
    BY <1>1, <1>3, <2>1, <2>2 DEF Fresh, NoneIn, LastIn
  <2> QED
    BY DEF IInv, RowsInv, Fresh
<1>9. InSegment' /\ TmpRows' /\ Todo'
  BY <1>1 DEF IInv, RowsInv, InSegment, TmpRows, Todo
<1> QED
  BY <1>4, <1>5, <1>7, <1>8, <1>9 DEF RowsInv

(* Both ways in which an exception ends the command leave the rows alone.  *)
LEMMA StopStep ==
  ASSUME IInv, Abort \/ CopyRaises
  PROVE  RowsInv'
<1>1. /\ UNCHANGED <<mysql, db, i, old, missed, tmp>> /\ rpc' = "idle" /\ todo' = {}
  BY DEF Abort, CopyRaises
<1>2. Alone \subseteq Pos
  BY AloneIs
<1>3. SentLast' /\ \A q \in Pos : Settled(q) => Settled(q)'
  BY <1>1, QueueKept
<1>4. Others' /\ Copied'
  BY <1>1, <1>2, <1>3 DEF IInv, RowsInv, Others, Copied
<1>5. Fresh' /\ InSegment' /\ TmpRows' /\ Todo'
  BY <1>1 DEF Fresh, Pending, InSegment, TmpRows, Todo
<1> QED
  BY <1>3, <1>4, <1>5 DEF RowsInv

-----------------------------------------------------------------------------
LEMMA IInvInit == Init => IInv
<1> SUFFICES ASSUME Init PROVE IInv
  OBVIOUS
<1>1. /\ truth \in [Pos -> Value] /\ db \in [Pos -> Value]
      /\ \A p \in Pos : Tab[p] # T => db[p] = truth[p]
      /\ queue = <<>> /\ rpc = "idle" /\ dump = Empty /\ tmp = Empty /\ i = 0
      /\ todo = {} /\ old = 0 /\ missed = {}
  BY DEF Init, Rows
<1>2. Empty \in [Pos -> Value] /\ NLeaf \in Nat /\ Len(queue) = 0
  BY <1>1, ValueIs, LeafCount DEF Empty
<1>3. TypeOK
  BY <1>1, <1>2, StoreIs, TmpStoreIs DEF TypeOK
<1>4. Alone \subseteq Pos
  BY AloneIs
<1>5. SentLast /\ Others
  BY <1>1, <1>2, <1>4 DEF SentLast, Others, Settled
<1>6. Copied
  BY <1>1, <1>4, LeafCount DEF Copied
<1>7. Fresh /\ InSegment /\ TmpRows /\ Todo
  BY <1>1 DEF Fresh, Pending, InSegment, TmpRows, Todo
<1> QED
  BY <1>3, <1>5, <1>6, <1>7 DEF IInv, RowsInv

LEMMA IInvStep == IInv /\ [Next]_vars => IInv'
<1> SUFFICES ASSUME IInv, [Next]_vars PROVE IInv'
  OBVIOUS
<1>1. TypeOK'
  BY TypeStep DEF IInv
<1>2. CASE UNCHANGED vars
  BY <1>1, <1>2 DEF vars, mysql, rebuild, IInv, RowsInv, SentLast, Others, Copied, Fresh,
     InSegment, TmpRows, Todo, Settled, Selected, Pending, NoneIn, LastIn
<1>3. CASE Next
  <2>1. RowsInv'
    BY <1>3, ChangeStep, ReceiveStep, DumpStep, ParseRecordStep, SyntaxErrorStep,
       ParseEndStep, CopyOpenStep, CopyRemoveStep, CopyLoadStep, CopyInsertStep,
       CopyNextStep, StopStep DEF Next, RebuildStep
  <2> QED
    BY <1>1, <2>1 DEF IInv
<1> QED
  BY <1>2, <1>3

(* The inductive invariant of a rebuild and the messages around it.        *)
THEOREM RowsInvariant == Spec => []IInv
<1> QED
  BY IInvInit, IInvStep, PTL DEF Spec

(* The last message under way on a row decides it, else the store does.    *)
LEMMA DeliveredIs ==
  ASSUME IInv, NEW p \in Pos, Settled(p)
  PROVE  Delivered(p) = truth[p]
<1>1. PICK L \in Nat : L = Len(queue)
  BY DEF IInv, TypeOK
<1>2. PICK sent : sent = {n \in DOMAIN queue : queue[n].row = p}
  OBVIOUS
<1>3. DOMAIN queue = 1..L
  BY <1>1 DEF IInv, TypeOK
<1>4. CASE sent = {}
  <2>1. NoneIn(p, 1, L)
    BY <1>2, <1>3, <1>4 DEF NoneIn
  <2> QED
    BY <1>1, <1>2, <1>4, <2>1 DEF Settled, Delivered
<1>5. CASE sent # {}
  <2>1. PICK back : back = {L - n : n \in sent}
    OBVIOUS
  <2>2. back \subseteq Nat /\ back # {}
    BY <1>2, <1>3, <1>5, <2>1
  <2>3. PICK b \in back : \A c \in back : b <= c
    BY <2>2, LeastElement
  <2>4. PICK g \in sent : b = L - g
    BY <2>1, <2>3
  <2>5. ASSUME NEW k \in sent PROVE k <= g
    <3>1. b <= L - k
      BY <2>1, <2>3
    <3> QED
      BY <1>2, <1>3, <2>4, <3>1
  <2>6. PICK n : n = CHOOSE x \in sent : \A k \in sent : k <= x
    OBVIOUS
  <2>7. n \in sent /\ \A k \in sent : k <= n
    BY <2>4, <2>5, <2>6
  <2>8. n \in 1..L /\ queue[n].row = p
    BY <1>2, <1>3, <2>7
  <2>9. ASSUME NEW k \in (n + 1)..L PROVE queue[k].row # p
    <3>1. k \in 1..L /\ ~ (k <= n)
      BY <2>8
    <3> QED
      BY <1>2, <1>3, <2>7, <3>1
  <2>10. queue[n].val = truth[p]
    BY <1>1, <2>8, <2>9 DEF IInv, RowsInv, SentLast, LastIn, NoneIn
  <2> QED
    BY <1>2, <1>5, <2>6, <2>10 DEF Delivered
<1> QED
  BY <1>4, <1>5

(* No step of the rebuild, of the receiver or of the publisher leaves the  *)
(* types (console.py:59-81, treebuilder.py:16-23).                         *)
THEOREM TypeCorrect == Spec => []TypeOK
<1>1. IInv => TypeOK
  BY DEF IInv
<1> QED
  BY <1>1, RowsInvariant, PTL

(* A rebuild leaves the rows of every other table as they are, although    *)
(* the segment reads it removes by run into them (treebuilder.py:18-20),   *)
(* when no two keys of another table compare equal.                        *)
THEOREM OthersKept ==
  ASSUME \A t \in Twins : Tab[t[1]] = T
  PROVE  Spec => []OtherTablesKept
<1>1. ASSUME NEW p \in Pos, Tab[p] # T PROVE p \in Alone
  <2> SUFFICES ASSUME NEW q \in Pos, <<q, p>> \in Twins PROVE FALSE
    BY <1>1 DEF Alone, Single
  <2>1. Tab[q] = T /\ Tab[q] = Tab[p]
    BY TwinAssumption
  <2> QED
    BY <1>1, <2>1
<1>2. IInv => OtherTablesKept
  <2> SUFFICES ASSUME IInv, NEW p \in Pos, Tab[p] # T, p \notin missed
               PROVE  Delivered(p) = truth[p]
    BY DEF OtherTablesKept
  <2>1. Settled(p)
    BY <1>1 DEF IInv, RowsInv, Others
  <2> QED
    BY <2>1, DeliveredIs
<1> QED
  BY <1>2, RowsInvariant, PTL

(* Rows of a table no two of whose keys compare equal have places of their *)
(* own.                                                                    *)
LEMMA NoTwins ==
  ASSUME \A t \in Twins : Tab[t[1]] # T, NEW p \in OfT
  PROVE  p \in Single
<1>1. p \in Pos /\ Tab[p] = T
  BY DEF OfT
<1> SUFFICES ASSUME NEW q \in Pos, <<q, p>> \in Twins PROVE FALSE
  BY <1>1 DEF Single
<1>2. Tab[q] # T /\ Tab[q] = Tab[p]
  BY TwinAssumption
<1> QED
  BY <1>1, <1>2

(* A rebuild, finished or cut short, brings the rows of the segments it    *)
(* has copied back to MySQL's (console.py:59-81, treebuilder.py:16-23),    *)
(* whatever messages arrive before, during and after the copy, when no two *)
(* keys of the table compare equal; all of them but those that are missed  *)
(* and those whose key hashing changes.                                    *)
THEOREM CopiedRight ==
  ASSUME \A t \in Twins : Tab[t[1]] # T
  PROVE  Spec => []CopiedRowsRight
<1>1. IInv => CopiedRowsRight
  <2> SUFFICES ASSUME IInv, NEW p \in OfT, Seg[p] < i, p \notin missed, ~Changed(p)
               PROVE  Delivered(p) = truth[p]
    BY DEF CopiedRowsRight
  <2>1. p \in Alone /\ p \in Pos /\ Tab[p] = T
    BY NoTwins DEF Alone, OfT
  <2>2. Settled(p)
    BY <2>1 DEF IInv, RowsInv, Copied
  <2> QED
    BY <2>1, <2>2, DeliveredIs
<1> QED
  BY <1>1, RowsInvariant, PTL

(* A rebuild does nothing to a row whose key hashing changes (hashtree.cpp *)
(* :133, 172, treebuilder.py:20, 23): what the store has of it changes by  *)
(* the message for it alone, when no two keys of the table compare equal.  *)
THEOREM ChangedLeft ==
  ASSUME \A t \in Twins : Tab[t[1]] # T
  PROVE  Spec => ChangedRowsLeft
<1>1. ASSUME IInv, [Next]_vars, NEW p \in OfT \ Copies, Changed(p), db'[p] # db[p]
      PROVE  queue # <<>> /\ Head(queue).row = p
  <2>1. p \in Single /\ StoreTypeOK
    BY <1>1, NoTwins DEF IInv, TypeOK
  <2>2. ASSUME NEW q \in Pos, Remove(q) \/ \E d \in Digest : Insert(q, d)
        PROVE  p = q
    BY <1>1, <2>1, <2>2, RemoveOne, InsertOne
  <2>3. ASSUME NEW q \in Pos, NEW r \in Named(q), Remove(r) \/ \E d \in Digest : Insert(r, d)
        PROVE  FALSE
    <3>1. r \in Pos /\ (r \in Copies \/ ~Changed(r))
      BY NamedIs DEF OfT
    <3>2. p = r
      BY <2>2, <2>3, <3>1
    <3> QED
      BY <1>1, <3>1, <3>2
  <2>4. \A q \in Pos : ~CopyRemove(q)
    BY <1>1, <2>3 DEF CopyRemove
  <2>5. ASSUME NEW q \in Pos PROVE ~CopyInsert(q)
    <3>1. \A d \in TmpStore!EntryDigests(q) : d \in Digest
      BY TmpStoreIs
    <3> QED
      BY <1>1, <2>3, <3>1 DEF CopyInsert
  <2>6. Receive
    BY <1>1, <2>4, <2>5 DEF Next, RebuildStep, vars, Change, Dump, ParseRecord, SyntaxError,
       ParseEnd, CopyOpen, CopyLoad, CopyRaises, CopyNext, Abort
  <2>7. PICK m : m = Head(queue)
    OBVIOUS
  <2>8. queue # <<>> /\ (UNCHANGED db \/ Remove(m.row) \/ \E d \in Digest : Insert(m.row, d))
    BY <2>6, <2>7 DEF Receive
  <2>9. m \in [row : Pos, val : Value]
    BY <1>1, <2>7, <2>8, HeadAndTail DEF IInv, TypeOK
  <2>10. m.row \in Pos
    BY <2>9
  <2>11. p = m.row
    BY <1>1, <2>2, <2>8, <2>10
  <2> QED
    BY <2>7, <2>8, <2>11
<1>2. IInv /\ [Next]_vars =>
        [\A p \in OfT \ Copies :
           Changed(p) /\ db'[p] # db[p] => queue # <<>> /\ Head(queue).row = p]_vars
  BY <1>1
<1> QED
  BY <1>2, RowsInvariant, PTL DEF Spec, ChangedRowsLeft
================================================================================
