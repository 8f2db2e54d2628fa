--------------------------- MODULE SegmentReadProofs ---------------------------
(***************************************************************************)
(* Reading a segment and passing its keys back, for every store, every     *)
(* order of messages and every length of row keys.                         *)
(***************************************************************************)
EXTENDS SegmentRead, KeyspaceProofs

(* What hashing leaves of a text has the length of the text.               *)
LEMMA LeftLength ==
  ASSUME NEW ctx, NEW data, Len(data) \in Nat
  PROVE  Len(Left(ctx, data)) = Len(data)
BY DEF Left

LEMMA SizeIs ==
  ASSUME NEW p \in Pos
  PROVE  Size(p) \in Nat
<1>1. Len(RowKey[p]) \in Nat
  BY RowKeyAssumption
<1>2. Len(Text(p)) = Len(RowKey[p])
  BY <1>1, LeftLength DEF Text
<1> QED
  BY <1>1, <1>2, EntryAssumption DEF Size

(* A text that was read is the row key of no row whose key hashing         *)
(* changes.                                                                *)
LEMMA NotChanged ==
  ASSUME NEW p \in Pos, NEW r \in Pos, RowKey[p] = Text(r)
  PROVE  ~Changed(p)
<1>1. Text(r) \in Seq(Bytes)
  BY RowKeyAssumption
<1>2. Text(r) = RowKey[r]
  BY <1>1, TextAssumption DEF Changed
<1>3. RowKey[p] = RowKey[r]
  BY <1>2
<1>4. Text(p) = Text(r)
  BY <1>3 DEF Text
<1> QED
  BY <1>2, <1>3, <1>4 DEF Changed

-----------------------------------------------------------------------------
Texts == {Text(p) : p \in Pos}

(* The reader's locals.  alloc never gets below the first block.           *)
Locals ==
  /\ rpc \in {"idle", "walk", "back", "undefined"}
  /\ todo \subseteq Pos
  /\ alloc \in Nat /\ offset \in Nat /\ FirstAlloc <= alloc
  /\ block \in Seq(Texts) /\ dict \subseteq Texts

(* A doomed row is a row of the table; if hashing changes its key, nothing *)
(* removes it.  It is still ahead of the iterator, or its text is in the   *)
(* block, or, when the keys are passed back, in the dictionary.            *)
Doomed ==
  /\ \A p \in doomed : p \in Pos /\ Tab[p] = table
  /\ \A p \in doomed : Changed(p) => db[p] # None \/ \E q \in Pos : <<q, p>> \in Twins
  /\ rpc = "walk" =>
       \A p \in doomed : p \in todo \/ \E n \in DOMAIN block : block[n] = Text(p)
  /\ rpc = "idle" => doomed = {}

IInv == Locals /\ BlockFits /\ Doomed /\ PassedBackGone

LEMMA InitIInv == Init => IInv
<1> SUFFICES ASSUME Init PROVE IInv
  OBVIOUS
<1>1. alloc = FirstAlloc /\ offset = 0 /\ FirstAlloc \in Nat
  BY EntryAssumption DEF Init
<1>2. Locals
  BY <1>1 DEF Init, Locals
<1>3. BlockFits
  BY <1>1 DEF Init, BlockFits
<1>4. Doomed /\ PassedBackGone
  BY DEF Init, Doomed, PassedBackGone
<1> QED
  BY <1>2, <1>3, <1>4 DEF IInv

(* A message leaves the rows that stay in doomed as they are.              *)
LEMMA ReceiveIInv ==
  ASSUME IInv, Receive
  PROVE  IInv'
<1>1. PICK q \in Pos :
        /\ doomed' = doomed \ ({q} \cup {p \in Pos : <<q, p>> \in Twins})
        /\ \E v : db' = DbPut(q, v)
  BY DEF Receive, Message, Remove, DbDelete, Insert
<1>2. UNCHANGED <<rpc, table, todo, alloc, offset, block, dict>>
  BY DEF Receive
<1>3. doomed' \subseteq doomed
  BY <1>1
<1>4. Locals' /\ BlockFits'
  BY <1>2 DEF IInv, Locals, BlockFits, Size, Text
<1>5. ASSUME NEW p \in doomed'
      PROVE  db'[p] = db[p]
  <2>1. p \in Pos /\ p # q /\ <<q, p>> \notin Twins
    BY <1>1, <1>3 DEF IInv, Doomed
  <2> QED
    BY <1>1, <2>1 DEF DbPut
<1>6. Doomed'
  BY <1>2, <1>3, <1>5 DEF IInv, Doomed, Changed, Text
<1>7. PassedBackGone'
  BY <1>2, <1>3, <1>5 DEF IInv, PassedBackGone, Changed, Text
<1> QED
  BY <1>4, <1>6, <1>7 DEF IInv

(* The seek and the loop visit every row of the segment.                   *)
LEMMA ReadBeginIInv ==
  ASSUME IInv, NEW t \in Tables, NEW s \in Leaves, ReadBegin(t, s)
  PROVE  IInv'
<1>1. /\ rpc' = "walk" /\ table' = t /\ todo' = SegmentKeys(t, s)
      /\ alloc' = FirstAlloc /\ offset' = 0 /\ block' = <<>>
      /\ doomed' = RowsOf(db, t, s) /\ UNCHANGED <<db, dict>>
  BY DEF ReadBegin
<1>2. FirstAlloc \in Nat
  BY EntryAssumption
<1>3. Locals'
  BY <1>1, <1>2 DEF IInv, Locals, SegmentKeys
<1>4. BlockFits'
  BY <1>1, <1>2 DEF BlockFits
<1>5. \A p \in doomed' : p \in Pos /\ Tab[p] = t /\ db'[p] # None /\ p \in todo'
  <2>1. RowsOf(db, t, s) \subseteq todo'
    BY <1>1, ReadComplete DEF SegmentKeys
  <2> QED BY <1>1, <2>1 DEF RowsOf
<1>6. Doomed'
  BY <1>1, <1>5 DEF Doomed, Text
<1>7. PassedBackGone'
  BY <1>1 DEF PassedBackGone
<1> QED
  BY <1>3, <1>4, <1>6, <1>7 DEF IInv

(* The block is doubled when the entry would reach its end; an entry that  *)
(* does not fit then is not ReadEntry's.                                   *)
LEMMA ReadEntryIInv ==
  ASSUME IInv, ReadEntry
  PROVE  IInv'
<1>1. PICK p \in todo :
        /\ alloc' = Room(alloc, Size(p))
        /\ offset' = offset + Size(p)
        /\ block' = Append(block, Text(p))
        /\ todo' = todo \ {p}
        /\ offset + Size(p) <= Room(alloc, Size(p))
  BY DEF ReadEntry
<1>2. rpc = "walk" /\ UNCHANGED <<db, rpc, table, dict, doomed>>
  BY DEF ReadEntry
<1>3. p \in Pos
  BY DEF IInv, Locals
<1>4. Size(p) \in Nat /\ FirstAlloc \in Nat
  BY <1>3, SizeIs, EntryAssumption
<1>5. alloc \in Nat /\ offset \in Nat /\ FirstAlloc <= alloc /\ offset <= alloc
  BY DEF IInv, Locals, BlockFits
<1>6. alloc' \in Nat /\ FirstAlloc <= alloc' /\ offset' \in Nat /\ offset' <= alloc'
  BY <1>1, <1>4, <1>5 DEF Room
<1>7. block \in Seq(Texts) /\ Text(p) \in Texts
  BY <1>3 DEF IInv, Locals, Texts
<1>8. Locals'
  BY <1>1, <1>2, <1>6, <1>7 DEF IInv, Locals
<1>9. BlockFits'
  BY <1>2, <1>6 DEF BlockFits
<1>10. Doomed'
  <2>1. ASSUME NEW q \in doomed
        PROVE  q \in todo' \/ \E n \in DOMAIN block' : block'[n] = Text(q)
    <3>1. CASE q = p
      <4>1. Len(block) + 1 \in DOMAIN block' /\ block'[Len(block) + 1] = Text(p)
        BY <1>1, <1>7
      <4> QED
        BY <4>1, <3>1
    <3>2. CASE q \in todo /\ q # p
      BY <3>2, <1>1
    <3>3. ASSUME NEW n \in DOMAIN block, block[n] = Text(q)
          PROVE  n \in DOMAIN block' /\ block'[n] = Text(q)
      BY <3>3, <1>1, <1>7
    <3> QED
      BY <3>1, <3>2, <3>3, <1>2 DEF IInv, Doomed
  <2> QED
    BY <2>1, <1>2 DEF IInv, Doomed, Changed, Text
<1>11. PassedBackGone'
  BY <1>2 DEF PassedBackGone
<1> QED
  BY <1>8, <1>9, <1>10, <1>11 DEF IInv

(* What fits into less than twice the block fits after doubling it: only   *)
(* an entry longer than the block does not.                                *)
LEMMA ReadBeyondIInv ==
  ASSUME IInv, ReadBeyond
  PROVE  IInv'
<1>1. PICK p \in todo :
        /\ \A q \in todo : p <= q
        /\ offset + Size(p) > Room(alloc, Size(p))
  BY DEF ReadBeyond
<1>2. /\ rpc' = "undefined"
      /\ UNCHANGED <<db, table, todo, alloc, offset, block, dict, doomed>>
  BY DEF ReadBeyond
<1>3. p \in Pos
  BY DEF IInv, Locals
<1>4. Size(p) \in Nat /\ FirstAlloc \in Nat
  BY <1>3, SizeIs, EntryAssumption
<1>5. alloc \in Nat /\ offset \in Nat /\ FirstAlloc <= alloc /\ offset <= alloc
  BY DEF IInv, Locals, BlockFits
<1>6. Size(p) > alloc
  BY <1>1, <1>4, <1>5 DEF Room
<1>7. Locals' /\ Doomed' /\ PassedBackGone'
  BY <1>2 DEF IInv, Locals, Doomed, PassedBackGone, Changed, Text
<1>8. BlockFits'
  BY <1>1, <1>2, <1>4, <1>5, <1>6 DEF BlockFits, Size, Text
<1> QED
  BY <1>7, <1>8 DEF IInv

(* The tag needs no more than the block grows by.                          *)
LEMMA ReadReturnIInv ==
  ASSUME IInv, ReadReturn
  PROVE  IInv'
<1>1. /\ rpc = "walk" /\ todo = {} /\ rpc' = "back"
      /\ alloc' = IF offset + EntrySize >= alloc THEN alloc + EntrySize ELSE alloc
      /\ dict' = {block[n] : n \in DOMAIN block}
      /\ UNCHANGED <<db, table, todo, offset, block, doomed>>
  BY DEF ReadReturn
<1>2. /\ alloc \in Nat /\ offset \in Nat /\ FirstAlloc <= alloc /\ offset <= alloc
      /\ EntrySize \in Nat /\ FirstAlloc \in Nat
  BY EntryAssumption DEF IInv, Locals, BlockFits
<1>3. alloc' \in Nat /\ FirstAlloc <= alloc' /\ offset <= alloc' /\ offset + EntrySize <= alloc'
  BY <1>1, <1>2
<1>4. \A n \in DOMAIN block : block[n] \in Texts
  BY DEF IInv, Locals
<1>5. Locals' /\ BlockFits'
  BY <1>1, <1>2, <1>3, <1>4 DEF IInv, Locals, BlockFits
<1>6. Doomed'
  BY <1>1 DEF IInv, Doomed, Changed, Text
<1>7. \A p \in doomed : Text(p) \in dict'
  BY <1>1 DEF IInv, Doomed
<1>8. PassedBackGone'
  BY <1>1, <1>6, <1>7 DEF Doomed, PassedBackGone, Changed, Text
<1> QED
  BY <1>5, <1>6, <1>8 DEF IInv

(* A text that is a row key names the one row of the table that it was     *)
(* read from: the remove finds exactly it.  It never finds a row whose key *)
(* hashing changes.                                                        *)
LEMMA PassBackIInv ==
  ASSUME IInv, NEW k \in dict, PassBack(k)
  PROVE  IInv'
<1>1. /\ rpc = "back" /\ dict' = dict \ {k}
      /\ UNCHANGED <<rpc, table, todo, alloc, offset, block, doomed>>
  BY DEF PassBack
<1>2. Locals' /\ BlockFits'
  BY <1>1 DEF IInv, Locals, BlockFits, Size, Text
<1>3. PICK r \in Pos : k = Text(r)
  BY DEF IInv, Locals, Texts
<1>4. ASSUME NEW p \in doomed, ~Changed(p), db'[p] # None
      PROVE  Text(p) \in dict'
  <2>1. p \in Pos /\ Tab[p] = table /\ Text(p) = RowKey[p]
    BY <1>4 DEF IInv, Doomed, Changed
  <2>2. CASE StoreKeys(table, k) = {} /\ UNCHANGED db
    <3>1. RowKey[p] # k
      BY <2>1, <2>2 DEF StoreKeys
    <3>2. db[p] # None
      BY <2>2, <1>4
    <3> QED
      BY <1>1, <1>4, <2>1, <3>1, <3>2 DEF IInv, PassedBackGone
  <2>3. CASE \E q \in StoreKeys(table, k) : Remove(q)
    <3>1. PICK q \in StoreKeys(table, k) : db' = DbPut(q, None)
      BY <2>3 DEF Remove, DbDelete
    <3>2. q \in Pos /\ Tab[q] = table /\ RowKey[q] = k
      BY DEF StoreKeys
    <3>3. p # q /\ db[p] # None
      BY <1>4, <2>1, <3>1, <3>2 DEF DbPut
    <3>4. RowKey[p] # k
      BY <2>1, <3>2, <3>3, RowKeyAssumption
    <3> QED
      BY <1>1, <1>4, <2>1, <3>3, <3>4 DEF IInv, PassedBackGone
  <2> QED
    BY <2>2, <2>3 DEF PassBack
<1>5. ASSUME NEW p \in doomed, Changed(p), \A q \in Pos : <<q, p>> \notin Twins
      PROVE  db'[p] # None
  <2>1. p \in Pos /\ db[p] # None
    BY <1>5 DEF IInv, Doomed
  <2>2. CASE UNCHANGED db
    BY <2>1, <2>2
  <2>3. CASE \E q \in StoreKeys(table, k) : Remove(q)
    <3>1. PICK q \in StoreKeys(table, k) : db' = DbPut(q, None)
      BY <2>3 DEF Remove, DbDelete
    <3>2. q \in Pos /\ RowKey[q] = k
      BY DEF StoreKeys
    <3>3. p # q
      BY <1>3, <1>5, <3>2, NotChanged
    <3> QED
      BY <1>5, <2>1, <3>1, <3>2, <3>3 DEF DbPut
  <2> QED
    BY <2>2, <2>3 DEF PassBack
<1>6. Doomed'
  BY <1>1, <1>5 DEF IInv, Doomed, Changed, Text
<1>7. PassedBackGone'
  BY <1>1, <1>4, <1>5 DEF PassedBackGone, Changed, Text
<1> QED
  BY <1>2, <1>6, <1>7 DEF IInv

LEMMA EndIInv ==
  ASSUME IInv, Done \/ \E k \in dict : PassBackRaises(k)
  PROVE  IInv'
<1>1. /\ rpc' = "idle" /\ doomed' = {}
      /\ UNCHANGED <<db, table, todo, alloc, offset, block>>
  BY DEF Done, PassBackRaises
<1>2. dict' \subseteq dict
  BY DEF Done, PassBackRaises
<1>3. Locals' /\ BlockFits'
  BY <1>1, <1>2 DEF IInv, Locals, BlockFits
<1>4. Doomed' /\ PassedBackGone'
  BY <1>1 DEF Doomed, PassedBackGone
<1> QED
  BY <1>3, <1>4 DEF IInv

LEMMA NextIInv == IInv /\ [Next]_vars => IInv'
<1> SUFFICES ASSUME IInv, [Next]_vars PROVE IInv'
  OBVIOUS
<1>1. CASE Receive
  BY <1>1, ReceiveIInv
<1>2. CASE \E t \in Tables, s \in Leaves : ReadBegin(t, s)
  BY <1>2, ReadBeginIInv
<1>3. CASE ReadEntry
  BY <1>3, ReadEntryIInv
<1>8. CASE ReadBeyond
  BY <1>8, ReadBeyondIInv
<1>4. CASE ReadReturn
  BY <1>4, ReadReturnIInv
<1>5. CASE \E k \in dict : PassBack(k) \/ PassBackRaises(k)
  BY <1>5, PassBackIInv, EndIInv
<1>6. CASE Done
  BY <1>6, EndIInv
<1>7. CASE UNCHANGED vars
  <2>1. UNCHANGED <<db, rpc, table, todo, alloc, offset, block, dict, doomed>>
    BY <1>7 DEF vars, reading
  <2>2. Locals' /\ BlockFits'
    BY <2>1 DEF IInv, Locals, BlockFits, Size, Text
  <2>3. Doomed' /\ PassedBackGone'
    BY <2>1 DEF IInv, Doomed, PassedBackGone, Changed, Text
  <2> QED
    BY <2>2, <2>3 DEF IInv
<1> QED
  BY <1>1, <1>2, <1>3, <1>4, <1>5, <1>6, <1>7, <1>8 DEF Next

-----------------------------------------------------------------------------
THEOREM Invariant == Spec => []IInv
BY InitIInv, NextIInv, PTL DEF Spec

(* hashtree_get_segment (hashtree.cpp:370, 389) writes every entry and the *)
(* tag inside its block, for row keys of any length, until the first entry *)
(* that alone is longer than the whole block; that one may get out.        *)
THEOREM BlockAlwaysFits == Spec => []BlockFits
<1>1. IInv => BlockFits
  BY DEF IInv
<1> QED
  BY <1>1, Invariant, PTL

(* Of the rows read out of a segment, passing their keys back to           *)
(* hashtree_remove (treebuilder.py:18-20) removes those whose key hashing  *)
(* leaves alone and none of the others.                                    *)
THEOREM PassingBackRemoves == Spec => []PassedBackGone
<1>1. IInv => PassedBackGone
  BY DEF IInv
<1> QED
  BY <1>1, Invariant, PTL

(* All the reader does to the store is what messages do: with it, the      *)
(* store is still HashStore's, and what is proved there holds.             *)
THEOREM StoreKept == Spec => StoreSpec
<1>1. Init => StoreInit
  BY DEF Init
<1>2. ASSUME [Next]_vars
      PROVE  [StoreNext]_db
  <2>1. CASE Receive
    BY <2>1 DEF Receive, StoreNext
  <2>2. CASE \E k \in dict : PassBack(k)
    BY <2>2 DEF PassBack, StoreKeys, StoreNext, Message
  <2>3. CASE UNCHANGED db
    BY <2>3
  <2> QED
    BY <1>2, <2>1, <2>2, <2>3
    DEF Next, ReadBegin, ReadEntry, ReadBeyond, ReadReturn, PassBackRaises, Done, vars
<1> QED
  BY <1>1, <1>2, PTL DEF Spec, StoreSpec
================================================================================
