------------------------------ MODULE SegmentRead ------------------------------
(***************************************************************************)
(* Reading a segment from Python and passing its row keys back, as         *)
(* TreeBuilder.copy_tree does: hashtree_get_segment copies the entries     *)
(* into one growing block of memory, py_hashtree_get_segment makes a       *)
(* dictionary of it, and hashtree_remove is called with its keys, while    *)
(* messages change the rows on the receiver's thread.                      *)
(*                                                                         *)
(* Here a row key has a text.  hashtree_insert and hashtree_remove hash it *)
(* before they copy it into the store key (hashtree.cpp:133 and 146), so   *)
(* what is stored is the text as hashing leaves it.                        *)
(***************************************************************************)
EXTENDS HashStore, Sha1Stream

CONSTANTS
  Bytes,        \* the bytes of row keys
  RowKey,       \* RowKey[p]: the row key whose insertion stores key p
  Prefix,       \* ENTRY_PREFIX_LEN: bytes of an entry before its row key, 24
  EntrySize,    \* sizeof(hashtree_segment_entry_t): 32
  FirstAlloc    \* the first size of the block: 1024

ASSUME RowKeyAssumption ==
  /\ RowKey \in [Pos -> Seq(Bytes) \ {<<>>}]
  /\ \A p, q \in Pos : p # q /\ Tab[p] = Tab[q] => RowKey[p] # RowKey[q]

ASSUME EntryAssumption == Prefix \in Nat /\ EntrySize \in Nat /\ FirstAlloc \in Nat

VARIABLES
  rpc,       \* the reader: "idle", "walk" (the iterator), "back" (keys passed
             \* back), "undefined" (it has written outside its block)
  table,     \* the table being read
  todo,      \* keys of the snapshot the iterator has yet to visit
  alloc,     \* alloc_size
  offset,    \* offset
  block,     \* the entries of the block
  dict,      \* row keys of the dictionary that have not been passed back
  doomed     \* history: the rows of the segment when it was read, except those
             \* that a message has touched since

reading == <<rpc, table, todo, alloc, offset, block, dict, doomed>>
vars == <<db, reading>>

(* The text stored with p, and the store keys of a row key.                *)
Text(p) == Left(Fresh, RowKey[p])
Changed(p) == Text(p) # RowKey[p]
StoreKeys(t, k) == {p \in Pos : Tab[p] = t /\ RowKey[p] = k}

(* What hashing leaves of a row key is no other row key.                   *)
ASSUME TextAssumption == \A p \in Pos : Text(p) \in Seq(Bytes) => ~Changed(p)

Size(p) == Prefix + Len(Text(p))

Init ==
  /\ StoreInit
  /\ rpc = "idle" /\ table \in Tables
  /\ todo = {} /\ alloc = FirstAlloc /\ offset = 0 /\ block = <<>>
  /\ dict = {} /\ doomed = {}

-----------------------------------------------------------------------------
(* A message on the receiver's thread.                                     *)
Receive ==
  \E p \in Pos :
    /\ Message(p)
    /\ doomed' = doomed \ ({p} \cup {q \in Pos : <<p, q>> \in Twins})
    /\ UNCHANGED <<rpc, table, todo, alloc, offset, block, dict>>

(* hashtree_get_segment: snapshot, seek, allocation.  The snapshot is      *)
(* remembered as the keys the loop will visit.                             *)
ReadBegin(t, s) ==
  /\ rpc = "idle"
  /\ rpc' = "walk" /\ table' = t
  /\ todo' = SegmentKeys(t, s)
  /\ alloc' = FirstAlloc /\ offset' = 0 /\ block' = <<>>
  /\ doomed' = RowsOf(db, t, s)
  /\ UNCHANGED <<db, dict>>

(* A mutant of Room: the block grows when it is already overrun.           *)
LateRoom(size, need) == IF offset >= size THEN 2 * size ELSE size

(* The size of the block once there is room for need more bytes.           *)
Room(size, need) == IF offset + need >= size THEN 2 * size ELSE size

(* One iteration of the loop: an entry is written.                         *)
ReadEntry ==
  /\ rpc = "walk"
  /\ \E p \in todo :
       /\ \A q \in todo : p <= q
       /\ offset + Size(p) <= Room(alloc, Size(p))
       /\ alloc' = Room(alloc, Size(p))
       /\ offset' = offset + Size(p)
       /\ block' = Append(block, Text(p))
       /\ todo' = todo \ {p}
  /\ UNCHANGED <<db, rpc, table, dict, doomed>>

(* The length of a key is not checked: when doubling the block once does   *)
(* not make room for the entry, it is written over what lies behind the    *)
(* block.  What the process does from then on is not defined.              *)
ReadBeyond ==
  /\ rpc = "walk"
  /\ \E p \in todo :
       /\ \A q \in todo : p <= q
       /\ offset + Size(p) > Room(alloc, Size(p))
  /\ rpc' = "undefined"
  /\ UNCHANGED <<db, table, todo, alloc, offset, block, dict, doomed>>

(* The tag behind the entries, in a block that grows by one entry if need  *)
(* be; py_hashtree_get_segment reads the entries up to the first with an   *)
(* empty key, which is the tag, and frees the block.                       *)
ReadReturn ==
  /\ rpc = "walk" /\ todo = {}
  /\ alloc' = IF offset + EntrySize >= alloc THEN alloc + EntrySize ELSE alloc
  /\ dict' = {block[n] : n \in DOMAIN block}
  /\ rpc' = "back"
  /\ UNCHANGED <<db, table, todo, offset, block, doomed>>

-----------------------------------------------------------------------------
(* A mutant of PassBack: the removed row is looked up by its stored text   *)
(* in whatever table comes first.                                          *)
AnyPassBack(k) ==
  /\ rpc = "back" /\ k \in dict
  /\ \E p \in Pos : Text(p) = k /\ (\A q \in Pos : Text(q) = k => p <= q) /\ Remove(p)
  /\ dict' = dict \ {k}
  /\ UNCHANGED <<rpc, table, todo, alloc, offset, block, doomed>>

(* dst.remove(self._name, k): a key that is not a row key of the table is  *)
(* not found.                                                              *)
PassBack(k) ==
  /\ rpc = "back" /\ k \in dict
  /\ \/ \E p \in StoreKeys(table, k) : Remove(p)
     \/ StoreKeys(table, k) = {} /\ UNCHANGED db
  /\ dict' = dict \ {k}
  /\ UNCHANGED <<rpc, table, todo, alloc, offset, block, doomed>>

(* An argument of PyArg_ParseTuple's "s" must not contain a zero byte;     *)
(* what hashing leaves of a long key may, and the exception ends the loop. *)
PassBackRaises(k) ==
  /\ rpc = "back" /\ k \in dict
  /\ \E n \in DOMAIN k : k[n] \notin Bytes
  /\ rpc' = "idle" /\ dict' = {} /\ doomed' = {}
  /\ UNCHANGED <<db, table, todo, alloc, offset, block>>

Done ==
  /\ rpc = "back" /\ dict = {}
  /\ rpc' = "idle" /\ doomed' = {}
  /\ UNCHANGED <<db, table, todo, alloc, offset, block, dict>>

Next ==
  \/ Receive
  \/ \E t \in Tables, s \in Leaves : ReadBegin(t, s)
  \/ ReadEntry \/ ReadBeyond \/ ReadReturn
  \/ \E k \in dict : PassBack(k) \/ PassBackRaises(k)
  \/ Done

Spec == Init /\ [][Next]_vars

-----------------------------------------------------------------------------
(* hashtree.cpp:370 and 389: every entry, and the tag behind the last one, *)
(* is written inside the block, however many there are and wherever they   *)
(* end, until the first entry that alone is longer than the whole block    *)
(* as it is then, and so than a first block: nothing shorter gets out.     *)
BlockFits ==
  /\ offset <= alloc
  /\ rpc = "back" => offset + EntrySize <= alloc
  /\ rpc = "undefined" =>
       /\ alloc >= FirstAlloc
       /\ \E p \in todo : Size(p) > alloc /\ \A q \in todo : p <= q

(* What becomes of each row of a segment when the row keys that Python has *)
(* read out of it are passed back to hashtree_remove, unless a message     *)
(* touches the row: once its key has been passed back it is gone if        *)
(* hashing leaves its key alone, and it stays, whatever is passed back, if *)
(* hashing changes its key (pywrapper.cpp:166, hashtree.cpp:172-185), or   *)
(* else a row that the comparator finds equal to it was removed.           *)
PassedBackGone ==
  rpc = "back" => \A p \in doomed :
    IF Changed(p) THEN db[p] # None \/ \E q \in Pos : <<q, p>> \in Twins
    ELSE db[p] # None => Text(p) \in dict
===============================================================================
