-------------------------------- MODULE Receiver --------------------------------
(***************************************************************************)
(* onMapMsgHandle of inputmsg.cpp, on the receiver's thread: a message is  *)
(* a map from names to values; it deletes a row, or its values are looked  *)
(* up in the filter list one by one, normalised and fed to the row's       *)
(* digest, while the reactor's thread changes the list.                    *)
(*                                                                         *)
(* A rebuild computes the digest of the same row from its line of the dump *)
(* (treebuilder.py:29), with the same list but on the reactor's thread,    *)
(* where nothing changes the list at the same time.                        *)
(*                                                                         *)
(* What the call at the end does to the store is HashStore's Message: here *)
(* the handler's call is all there is of it.                               *)
(***************************************************************************)
EXTENDS FilterList, Sha1Stream

CONSTANTS
  SysKeys,               \* names of a message that start with "1_", in order with Keys
  Datetime, Number,      \* filter_func_datetime, filter_func_number
  Values,                \* the values of columns
  SysValue,              \* the value under a system key
  Epoch,                 \* "1970-01-01 08:00:00"
  ZeroDate,              \* "0000-00-00 00:00:00"
  ZeroNumber             \* "0"

Names == Keys \cup SysKeys

ASSUME ReceiverAssumption ==
  /\ SysKeys \subseteq Nat /\ SysKeys \cap Keys = {}
  /\ Funcs = {Datetime, Number} /\ Datetime # Number /\ Wild \notin FuncOrNull
  /\ \E n \in Keys \cup {0} : \A k \in Keys : k <= n

(* A value is a sequence of bytes, short enough for the carry between the  *)
(* words of the bit count to come out right (sha1/sha1.c:206).             *)
ASSUME TextAssumption ==
  \A v \in Values \cup {ZeroDate, ZeroNumber} : v \in Seq(Range(v)) /\ 8 * Len(v) < Word

VARIABLES
  hpc,       \* the handler: "idle", "columns", "dead" (the process is gone)
  call,      \* its last call: "none" yet, "remove", or insert's digest
  msg,       \* the values of its columns
  todo,      \* the names the loop has still to visit
  sha,       \* the hash context
  had,       \* history: had[k], the functions k has had since the message came
  raced      \* history: an add ran between a lookup's search and its read

handler == <<hpc, call, msg, todo, sha, had, raced>>
vars == <<listVars, handler>>

NoValues == [k \in Keys |-> <<>>]

(* What filter_list_get of column k may return now: what norm_data of the  *)
(* reactor's thread applies.                                               *)
Lookups(k) == IF Slots(k) = {} THEN {NULL} ELSE {array[i].func : i \in Slots(k)}

HandlerInit ==
  /\ hpc = "idle" /\ call = <<"none">> /\ msg = NoValues /\ todo = {}
  /\ sha = Wiped /\ had = [k \in Keys |-> {}] /\ raced = FALSE

Init == ListInit /\ HandlerInit

(* The functions, and what filter_list_normalize_data makes of a value.    *)
Normal(f, v) ==
  CASE f = Datetime /\ v \in {<<>>, Epoch} -> ZeroDate
    [] f = Number /\ v = <<>> -> ZeroNumber
    [] OTHER -> v

-----------------------------------------------------------------------------
(* A message with operation 1: its row is removed.                         *)
Delete ==
  /\ hpc = "idle"
  /\ call' = <<"remove">>
  /\ UNCHANGED <<listVars, hpc, msg, todo, sha, had, raced>>

(* Any other message: the context is initialised, the loop begins.         *)
Take(m) ==
  /\ hpc = "idle"
  /\ hpc' = "columns" /\ call' = <<"none">> /\ msg' = m
  /\ todo' = Names /\ sha' = Fresh
  /\ had' = [k \in Keys |-> Lookups(k)]
  /\ UNCHANGED <<listVars, raced>>

(* The map is visited in the order of its names.                           *)
At(n) == hpc = "columns" /\ n \in todo /\ \A o \in todo : n <= o

(* A mutant of SkipSystem: system keys are summed like columns.            *)
SumSystem(n) ==
  /\ n \in SysKeys /\ At(n)
  /\ todo' = todo \ {n} /\ sha' = Update(sha, SysValue)
  /\ UNCHANGED <<listVars, hpc, call, msg, had, raced>>

(* A mutant of SkipSystem: the iterator stays where it is.                 *)
StaySystem(n) ==
  /\ n \in SysKeys /\ At(n)
  /\ UNCHANGED vars

SkipSystem(n) ==
  /\ n \in SysKeys /\ At(n)
  /\ todo' = todo \ {n}
  /\ UNCHANGED <<listVars, hpc, call, msg, sha, had, raced>>

(* A column is looked up (GetLock, GetSearch, GetRead), its value is       *)
(* normalised and summed.                                                  *)
LookUp(k) == At(k) /\ GetLock(k) /\ UNCHANGED handler

Search == (GetSearch \/ GetRead) /\ UNCHANGED handler

Sum(k) ==
  /\ k \in Keys /\ At(k) /\ got # Wild /\ rpc = "got"
  /\ sha' = Update(sha, Normal(got, msg[k]))
  /\ todo' = todo \ {k}
  /\ Normalize
  /\ UNCHANGED <<hpc, call, msg, had, raced>>

(* Calling what freed memory held ends the process.                        *)
Crash ==
  /\ rpc = "got" /\ got = Wild
  /\ hpc # "dead" /\ hpc' = "dead"
  /\ UNCHANGED <<listVars, call, msg, todo, sha, had, raced>>

Dead == hpc = "dead" /\ UNCHANGED vars

(* The digest is final and the row inserted; the status is dropped.        *)
Finish ==
  /\ hpc = "columns" /\ todo = {}
  /\ hpc' = "idle" /\ call' = Final(sha)
  /\ msg' = NoValues /\ sha' = Wiped
  /\ had' = [k \in Keys |-> {}] /\ raced' = FALSE
  /\ UNCHANGED <<listVars, todo>>

-----------------------------------------------------------------------------
(* The reactor's thread: FilterList.update adds and removes filters.       *)
Noted == had' = [k \in Keys |-> IF hpc = "idle" THEN {} ELSE had[k] \cup Lookups(k)']

ChangeList ==
  /\ hpc # "dead"
  /\ \/ /\ AddEnlarge \/ AddAppend
        /\ raced' = (raced \/ rpc = "read")
     \/ /\ AddSort \/ RmClear
        /\ UNCHANGED raced
  /\ Noted
  /\ UNCHANGED <<hpc, call, msg, todo, sha>>

LockList ==
  /\ hpc # "dead"
  /\ \E k \in Keys : RmLock(k) \/ \E f \in Funcs : AddLock(k, f)
  /\ UNCHANGED handler

UnlockList == hpc # "dead" /\ Unlock /\ UNCHANGED handler

ReceiverStep ==
  \/ \E n \in SysKeys : SkipSystem(n)
  \/ Search \/ (\E k \in Keys : Sum(k)) \/ Crash \/ Finish

Next ==
  \/ Delete \/ \E m \in [Keys -> Values] : Take(m)
  \/ \E k \in Keys : LookUp(k)
  \/ ReceiverStep
  \/ LockList \/ ChangeList \/ UnlockList
  \/ Dead

(* Neither thread waits for anything but the mutex, and the reactor, which *)
(* takes it for moments every ten seconds, does not keep the receiver from *)
(* it for ever.                                                            *)
Spec ==
  /\ Init /\ [][Next]_vars
  /\ WF_vars(ReceiverStep) /\ WF_vars(ChangeList) /\ WF_vars(UnlockList)
  /\ SF_vars(\E k \in Keys : LookUp(k))

-----------------------------------------------------------------------------
(* _handle_record: the values of a line of the dump, in the order of their *)
(* columns, each normalised by the function f gives its column.            *)
LastColumn == CHOOSE n \in Keys \cup {0} : \A k \in Keys : k <= n

RecordDigest(m, f) ==
  LET joined[n \in 0..LastColumn] ==
        IF n = 0 THEN <<>>
        ELSE IF n \in Keys THEN joined[n - 1] \o Normal(f[n], m[n])
        ELSE joined[n - 1]
  IN  Sha1Of(joined[LastColumn])

(* The digest of a message is the digest a dump of the same row gives,     *)
(* with for every column a function the column had while the message was   *)
(* handled: a list that does not change gives the same digest on both      *)
(* paths (inputmsg.cpp:43-60, treebuilder.py:33-38), a list that changes   *)
(* between two columns mixes the old and the new and nothing else, unless  *)
(* an add moved the array under a lookup (filtermsg.cpp:109).              *)
DigestAsDumped ==
  hpc = "columns" /\ todo = {} /\ ~raced =>
    \E f \in [Keys -> FuncOrNull] :
      (\A k \in Keys : f[k] \in had[k]) /\ Final(sha) = RecordDigest(msg, f)

(* A message is handled to its end, however often the list changes: no     *)
(* path through an add, a remove or a lookup keeps the mutex.              *)
MessageHandled == hpc = "columns" ~> hpc # "columns"
=================================================================================
