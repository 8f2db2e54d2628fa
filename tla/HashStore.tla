------------------------------- MODULE HashStore -------------------------------
(***************************************************************************)
(* The rows of the store: hashtree_insert, hashtree_remove and             *)
(* hashtree_get_segment of hashtree.cpp over one LevelDB database that     *)
(* holds the rows of every table (and, under the table name                *)
(* "_sys_internal_", the nodes of every tree).                             *)
(***************************************************************************)
EXTENDS Keyspace

VARIABLE db     \* db[p]: the value stored under key p, or None

StoreTypeOK == db \in [Pos -> Heads \cup {None}]

StoreInit == db = [p \in Pos |-> None]

(* LevelDB identifies a key by what its comparator finds equal: a put or a *)
(* delete supersedes whatever was stored under the twins of its key.       *)
DbPut(p, v) ==
  [q \in Pos |-> IF q = p THEN v ELSE IF <<p, q>> \in Twins THEN None ELSE db[q]]
DbDelete(p) == DbPut(p, None)

(* The value is Slice(hval, sizeof(hval)) where hval is a parameter, that  *)
(* is a pointer: the first 8 bytes of the digest are stored.  The mutant   *)
(* stores the digest itself.                                               *)
WholeHval(d) == d
HvalSlice(d) == d.head

Insert(p, d) == db' = DbPut(p, HvalSlice(d))
Remove(p) == db' = DbDelete(p)

(* What the message receiver calls, at any time, on its own thread.  It    *)
(* drops the status: a put that fails is a step that changes nothing.      *)
Message(p) == Remove(p) \/ \E d \in Digest : Insert(p, d)

-----------------------------------------------------------------------------
(* A loop that never tests the segment number: a mutant of SegmentKeys.    *)
EndlessSegmentKeys(t, s) == {p \in Pos : db[p] # None /\ AtOrAfter(p, t, s)}

(* A loop that seeks the segment after the wanted one: a mutant.           *)
LateSegmentKeys(t, s) ==
  {p \in Pos :
    /\ db[p] # None /\ AtOrAfter(p, t, s + 1)
    /\ \A q \in Pos : db[q] # None /\ AtOrAfter(q, t, s + 1) /\ q <= p => Seg[q] = s}

(* hashtree_get_segment: the entries from the first one at or after        *)
(* (t, s) on, up to the first whose segment number is not s.               *)
SegmentKeys(t, s) ==
  {p \in Pos :
    /\ db[p] # None /\ AtOrAfter(p, t, s)
    /\ \A q \in Pos : db[q] # None /\ AtOrAfter(q, t, s) /\ q <= p => Seg[q] = s}

(* The digests an entry of the result may carry: 20 bytes are copied from  *)
(* the 8-byte value, the last 12 are whatever follows it in memory.        *)
EntryDigests(p) == {d \in Digest : d.head = db[p]}

StoreNext == \E p \in Pos : Message(p)

StoreSpec == StoreInit /\ [][StoreNext]_db

-----------------------------------------------------------------------------
(* Every stored row of a segment is in what hashtree_get_segment returns   *)
(* for it, whatever else is in the store: the seek never starts beyond the *)
(* segment and the loop never stops inside it.                             *)
SegmentComplete ==
  \A t \in Tables, s \in Leaves : RowsOf(db, t, s) \subseteq SegmentKeys(t, s)

(* The loop tests the segment number and not the table name, so it can run *)
(* into the next table.  It does not while the table still has a row in a  *)
(* later segment: then the result is exactly the segment.                  *)
SegmentExactBeforeLast ==
  \A t \in Tables, s \in Leaves :
    (\E r \in Leaves : r > s /\ RowsOf(db, t, r) # {})
      => SegmentKeys(t, s) = RowsOf(db, t, s)

(* "each nodes is sha1sum of a segment" (hashtree.cpp:251): the rows that  *)
(* are summed into a node of level 2 are the rows of the table, so what    *)
(* hashtree_get_segment calls the segment should be those rows.            *)
SegmentExact ==
  \A t \in Tables, s \in Leaves : SegmentKeys(t, s) = RowsOf(db, t, s)
===============================================================================
