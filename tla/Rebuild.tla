-------------------------------- MODULE Rebuild --------------------------------
(***************************************************************************)
(* The console command rebuild (console.py:59): dump a table of the MySQL  *)
(* shard to a folder, parse the dump into a temporary hash tree, and copy  *)
(* that tree segment by segment over the rows of the store.  It runs on    *)
(* the reactor's thread; meanwhile the receiver's thread goes on applying  *)
(* the change messages, each of which MySQL's publisher sent some time     *)
(* before.  The copy is not atomic and knows nothing of the messages.      *)
(*                                                                         *)
(* The copy passes the row keys that it reads out of the trees to remove   *)
(* and insert, which hash them once more (SegmentRead): a key of two       *)
(* blocks or more is stored as hashing has left it, and passed back it     *)
(* names another key of the store, in another segment.  Keys that are      *)
(* longer than the block of a segment read, which they overrun             *)
(* (SegmentRead), are left out.                                            *)
(***************************************************************************)
EXTENDS HashStore

CONSTANTS
  T,         \* the table that is rebuilt
  Again,     \* Again[p]: the key that the row key stored with p, a key of T,
             \* names when it is passed back (None: one under which T never
             \* stores anything)
  Nuls,      \* the keys whose row key, as stored, has a zero byte in it
  Faults,    \* what may go wrong: "syntax", "put", "exception"
  MaxQueue   \* bound: messages under way

ASSUME RebuildAssumption ==
  T \in Tables /\ Faults \subseteq {"syntax", "put", "exception"} /\ MaxQueue \in Nat

OfT == {p \in Pos : Tab[p] = T}

(* Hashing changes the row key of p; the keys under which what it leaves   *)
(* of another row's key is stored.                                         *)
Changed(p) == Again[p] # p
Copies == {q \in OfT : \E p \in OfT \ {q} : Again[p] = q}

(* Only hashing brings zero bytes into a row key; it keeps the length, so  *)
(* what it leaves of a row key changes when it is hashed again.            *)
ASSUME AgainAssumption ==
  /\ Again \in [OfT -> OfT \cup {None}] /\ None \notin OfT /\ Nuls \subseteq Pos
  /\ \A p \in OfT \cap Nuls : Changed(p)
  /\ \A q \in Copies : Changed(q)
  /\ \A p \in OfT \ (Copies \cup Nuls) : Again[p] # None

VARIABLES
  truth,    \* the rows in MySQL: a digest's head, or None
  queue,    \* the messages sent and not yet handled, the oldest first
  rpc,      \* the rebuild: "idle", "parse", "open", "remove", "insert"
  dump,     \* the records of the dump that are not parsed yet
  tmp,      \* the rows of the temporary tree
  i,        \* the segment copy_tree is at
  todo,     \* the rows its inner loop has still to remove or insert
  old,      \* history: how many messages of the queue are older than the dump
  missed    \* history: rows of which the store may have lost the last change

mysql == <<truth, queue>>
rebuild == <<rpc, dump, tmp, i, todo>>
vars == <<db, mysql, rebuild, old, missed>>

Value == Heads \cup {None}
Empty == [p \in Pos |-> None]

(* The temporary tree is a second store.                                   *)
TmpStore == INSTANCE HashStore WITH db <- tmp

(* The rows there can be in MySQL: none has a key that hashing has left.   *)
Rows == {f \in [Pos -> Value] : \A p \in Copies : f[p] = None}

(* A rebuild is asked for when the rows of the table may be anything.      *)
Init ==
  /\ truth \in Rows
  /\ db \in {f \in [Pos -> Value] : \A p \in Pos : Tab[p] # T => f[p] = truth[p]}
  /\ queue = <<>>
  /\ rpc = "idle" /\ dump = Empty /\ tmp = Empty /\ i = 0 /\ todo = {}
  /\ old = 0 /\ missed = {}

-----------------------------------------------------------------------------
(* MySQL changes a row and its publisher sends the row.                    *)
Change(p, v) ==
  /\ Len(queue) < MaxQueue /\ v # truth[p] /\ p \notin Copies
  /\ truth' = [truth EXCEPT ![p] = v]
  /\ queue' = Append(queue, [row |-> p, val |-> v])
  /\ UNCHANGED <<db, rebuild, old, missed>>

(* A row of T that copy_tree has still to visit: its last change is undone *)
(* when it is newer than the dump.                                         *)
Pending(p) == rpc # "idle" /\ Tab[p] = T /\ Seg[p] >= i

(* onMapMsgHandle: a delete or an insert; the status is dropped.           *)
Receive ==
  /\ queue # <<>>
  /\ LET m == Head(queue) IN
       \/ /\ IF m.val = None THEN Remove(m.row)
             ELSE \E d \in Digest : d.head = m.val /\ Insert(m.row, d)
          /\ missed' = CASE ~Pending(m.row) -> missed \ {m.row}
                         [] Pending(m.row) /\ old = 0 -> missed \cup {m.row}
                         [] OTHER -> missed
       \/ /\ "put" \in Faults
          /\ missed' = missed \cup {m.row}
          /\ UNCHANGED db
  /\ queue' = Tail(queue)
  /\ old' = IF old = 0 THEN 0 ELSE old - 1
  /\ UNCHANGED <<truth, rebuild>>

-----------------------------------------------------------------------------
(* A dump into the folder and the tree that the last rebuild left.         *)
StaleDump ==
  /\ rpc = "idle"
  /\ rpc' = "parse" /\ i' = 0 /\ todo' = {}
  /\ dump' = [p \in Pos |-> IF Tab[p] = T THEN truth[p] ELSE None]
  /\ old' = Len(queue) /\ missed' = {p \in missed : Tab[p] # T}
  /\ UNCHANGED <<db, mysql, tmp>>

(* cmd_rebuild_tree up to the dump: both folders are emptied and the rows  *)
(* of the table are selected at one moment.                                *)
Dump ==
  /\ rpc = "idle"
  /\ rpc' = "parse" /\ i' = 0 /\ todo' = {}
  /\ dump' = [p \in Pos |-> IF Tab[p] = T THEN truth[p] ELSE None]
  /\ tmp' = Empty
  /\ old' = Len(queue) /\ missed' = {p \in missed : Tab[p] # T}
  /\ UNCHANGED <<db, mysql>>

(* One line of the dump: the grammar's action calls _handle_record, which  *)
(* digests the row and inserts it into the temporary tree.                 *)
ParseRecord(p) ==
  /\ rpc = "parse" /\ dump[p] # None
  /\ dump' = [dump EXCEPT ![p] = None]
  /\ \/ tmp' = TmpStore!DbPut(p, dump[p]) /\ UNCHANGED missed
     \/ "put" \in Faults /\ missed' = missed \cup {p} /\ UNCHANGED tmp
  /\ UNCHANGED <<db, mysql, rpc, i, todo, old>>

(* A line that is not of the grammar ends the parse of its file; yyerror   *)
(* prints, nobody looks at yyparse's result, the other files are parsed.   *)
SyntaxError ==
  /\ "syntax" \in Faults
  /\ rpc = "parse"
  /\ \E lost \in SUBSET {p \in Pos : dump[p] # None} :
       /\ lost # {}
       /\ dump' = [p \in Pos |-> IF p \in lost THEN None ELSE dump[p]]
       /\ missed' = missed \cup lost
  /\ UNCHANGED <<db, mysql, rpc, tmp, i, todo, old>>

ParseEnd ==
  /\ rpc = "parse" /\ dump = Empty
  /\ rpc' = "open"
  /\ UNCHANGED <<db, mysql, dump, tmp, i, todo, old, missed>>

-----------------------------------------------------------------------------
(* t = dst.get_segment(self._name, i)                                      *)
CopyOpen ==
  /\ rpc = "open"
  /\ todo' = SegmentKeys(T, i)
  /\ rpc' = "remove"
  /\ UNCHANGED <<db, mysql, dump, tmp, i, old, missed>>

(* The row that the key read from p names when it is passed back under T.  *)
(* A row key names its table (treebuilder.py:32): a key that the segment   *)
(* read has returned of another table names nothing.                       *)
Named(p) == IF Tab[p] = T THEN {Again[p]} \ {None} ELSE {}

(* A mutant of CopyRemove: whatever the segment read returned is removed   *)
(* where it was found.                                                     *)
CopyRemoveFound(p) ==
  /\ rpc = "remove" /\ p \in todo \ Nuls
  /\ Remove(p)
  /\ todo' = todo \ {p}
  /\ UNCHANGED <<mysql, rpc, dump, tmp, i, old, missed>>

(* A mutant of CopyRemove: the loop goes over the live segment.            *)
CopyRemoveLive(p) ==
  /\ rpc = "remove" /\ p \in todo \ Nuls
  /\ IF Named(p) # {} THEN \E q \in Named(p) : Remove(q) ELSE UNCHANGED db
  /\ UNCHANGED <<mysql, rpc, dump, tmp, i, old, missed>>
  /\ todo' = SegmentKeys(T, i)'

(* dst.remove(self._name, k)                                               *)
CopyRemove(p) ==
  /\ rpc = "remove" /\ p \in todo \ Nuls
  /\ \/ /\ IF Named(p) # {} THEN \E q \in Named(p) : Remove(q) ELSE UNCHANGED db
        /\ UNCHANGED missed
     \/ "put" \in Faults /\ Tab[p] = T /\ missed' = missed \cup {p} /\ UNCHANGED db
  /\ todo' = todo \ {p}
  /\ UNCHANGED <<mysql, rpc, dump, tmp, i, old>>

(* t = self._tree.get_segment(self._name, i)                               *)
CopyLoad ==
  /\ rpc = "remove" /\ todo = {}
  /\ todo' = TmpStore!SegmentKeys(T, i)
  /\ rpc' = "insert"
  /\ UNCHANGED <<db, mysql, dump, tmp, i, old, missed>>

(* dst.insert(self._name, k, t[k])                                         *)
CopyInsert(p) ==
  /\ rpc = "insert" /\ p \in todo \ Nuls
  /\ \/ /\ \E q \in Named(p), d \in TmpStore!EntryDigests(p) : Insert(q, d)
        /\ UNCHANGED missed
     \/ "put" \in Faults /\ missed' = missed \cup {p} /\ UNCHANGED db
  /\ todo' = todo \ {p}
  /\ UNCHANGED <<mysql, rpc, dump, tmp, i, old>>

(* An argument of remove or insert must not contain a zero byte: the       *)
(* exception ends the command.                                             *)
CopyRaises ==
  /\ rpc \in {"remove", "insert"} /\ todo \cap Nuls # {}
  /\ rpc' = "idle" /\ todo' = {}
  /\ UNCHANGED <<db, mysql, dump, tmp, i, old, missed>>

(* A mutant of CopyNext: the loop runs one segment too far.                *)
CopyPastEnd ==
  /\ rpc = "insert" /\ todo = {}
  /\ i' = i + 1
  /\ rpc' = IF i = NLeaf THEN "idle" ELSE "open"
  /\ UNCHANGED <<db, mysql, dump, tmp, todo, old, missed>>

(* for i in xrange(0, 1024 * 1024); after the last one the command acks.   *)
CopyNext ==
  /\ rpc = "insert" /\ todo = {}
  /\ i' = i + 1
  /\ rpc' = IF i + 1 = NLeaf THEN "idle" ELSE "open"
  /\ UNCHANGED <<db, mysql, dump, tmp, todo, old, missed>>

(* An exception (a file that does not open, a database that does not       *)
(* answer) ends the command where it is; so does the end of the process,   *)
(* which is started again.                                                 *)
Abort ==
  /\ "exception" \in Faults
  /\ rpc # "idle"
  /\ rpc' = "idle" /\ dump' = Empty /\ todo' = {}
  /\ UNCHANGED <<db, mysql, tmp, i, old, missed>>

-----------------------------------------------------------------------------
RebuildStep ==
  \/ \E p \in Pos : ParseRecord(p) \/ CopyRemove(p) \/ CopyInsert(p)
  \/ ParseEnd \/ CopyOpen \/ CopyLoad \/ CopyRaises \/ CopyNext

Next ==
  \/ \E p \in Pos, v \in Value : Change(p, v)
  \/ Receive
  \/ Dump
  \/ SyntaxError \/ RebuildStep \/ Abort

(* A running command waits for nobody: its steps go on.                    *)
Spec == Init /\ [][Next]_vars /\ WF_vars(RebuildStep)

-----------------------------------------------------------------------------
TypeOK ==
  /\ StoreTypeOK /\ TmpStore!StoreTypeOK
  /\ truth \in [Pos -> Value] /\ dump \in [Pos -> Value]
  /\ queue \in Seq([row : Pos, val : Value])
  /\ rpc \in {"idle", "parse", "open", "remove", "insert"}
  /\ i \in 0..NLeaf /\ (rpc # "idle" => i < NLeaf)
  /\ todo \subseteq Pos /\ (todo # {} => rpc \in {"remove", "insert"})
  /\ old \in 0..Len(queue)
  /\ missed \subseteq Pos

(* What the store will hold under p when the queue has been handled.       *)
Delivered(p) ==
  LET sent == {n \in DOMAIN queue : queue[n].row = p}
  IN  IF sent = {} THEN db[p]
      ELSE queue[CHOOSE n \in sent : \A k \in sent : k <= n].val

(* A rebuild, finished or cut short by an exception, brings every row of   *)
(* the segments it has copied back to MySQL's, messages that were under    *)
(* way before, during and after the copy included; the only rows it gets   *)
(* wrong are those whose change after the dump was handled before their    *)
(* segment was copied, whose dump line was lost, or whose put failed, and  *)
(* those whose key hashing changes (console.py:59-81, treebuilder.py:      *)
(* 16-23); ChangedRowsLeft says what becomes of these.                     *)
CopiedRowsRight ==
  \A p \in OfT :
    Seg[p] < i /\ p \notin missed /\ ~Changed(p) => Delivered(p) = truth[p]

(* A row whose key hashing changes stays in the store, or out of it, as    *)
(* the messages have left it: the rebuild neither removes it (hashtree.cpp *)
(* :172, treebuilder.py:20) nor inserts it where it belongs (hashtree.cpp: *)
(* 133, treebuilder.py:23).  What it inserts for the row is one of Copies. *)
ChangedRowsLeft ==
  [][\A p \in OfT \ Copies :
       Changed(p) /\ db'[p] # db[p] => queue # <<>> /\ Head(queue).row = p]_vars

(* A rebuild leaves the other tables alone, although the segment reads it  *)
(* removes by (treebuilder.py:18-20) run into their rows.                  *)
OtherTablesKept ==
  \A p \in Pos : Tab[p] # T /\ p \notin missed => Delivered(p) = truth[p]

(* A rebuild ends however many messages arrive: both inner loops go over a *)
(* copy of the segment (treebuilder.py:19, 22).                            *)
RebuildEnds == rpc # "idle" ~> rpc = "idle"
================================================================================
