------------------------------ MODULE FilterList ------------------------------
(***************************************************************************)
(* The filter list as filtermsg.cpp keeps it: a sorted array that doubles  *)
(* when it is full, under a mutex.  The reactor's thread adds and removes  *)
(* entries; the message receiver's thread looks one up for every column of *)
(* every message.  filter_list_get searches under the mutex and reads the  *)
(* function through the pointer it found after the mutex is released       *)
(* (filtermsg.cpp:108-109), when an add may have sorted or freed the array.*)
(***************************************************************************)
EXTENDS Naturals, Sequences, FiniteSets, Functions

CONSTANTS
  Keys, Funcs, NULL,
  Wild,          \* what freed memory may hold in place of a function
  FirstCap,      \* the first capacity: 64 in the code
  MaxEntries     \* bound: entries a run adds

ASSUME ListAssumption ==
  /\ Keys \subseteq Nat \ {0} /\ NULL \notin Funcs
  /\ FirstCap \in Nat \ {0} /\ MaxEntries \in Nat

VARIABLES
  array,     \* the entries of l->list, l->size of them
  capacity,  \* l->capacity
  gen,       \* how many arrays have been freed: which allocation l->list is
  owner,     \* who holds the mutex: "none", "reactor", "receiver"
  mpc,       \* the reactor: "idle", "add", "sort", "rm", "unlock"
  arg,       \* the entry the reactor adds or removes
  added,     \* history: the <<key, function>> pairs ever added
  rpc,       \* the receiver: "idle", "search", "read", "got"
  key,       \* the column it looks up
  rst,       \* the pointer bsearch returned: allocation and slot (0: NULL)
  got        \* the function filter_list_get returned

list == <<array, capacity, gen>>
reactor == <<mpc, arg, added>>
receiver == <<rpc, key, rst, got>>
listVars == <<list, owner, reactor, receiver>>

FuncOrNull == Funcs \cup {NULL}
NoArg == [key |-> 0, func |-> NULL]
NoRst == [gen |-> 0, slot |-> 0]

ListInit ==
  /\ array = <<>> /\ capacity = FirstCap /\ gen = 0
  /\ owner = "none"
  /\ mpc = "idle" /\ arg = NoArg /\ added = {}
  /\ rpc = "idle" /\ key = 0 /\ rst = NoRst /\ got = NULL

-----------------------------------------------------------------------------
Sorted(a) == \A i, j \in DOMAIN a : i < j => a[i].key <= a[j].key

Slots(k) == {i \in DOMAIN array : array[i].key = k}

(* bsearch: any matching slot of a sorted array; of an unsorted one it may *)
(* miss.                                                                   *)
Bsearch(k) ==
  IF Slots(k) = {} THEN {0} ELSE Slots(k) \cup (IF Sorted(array) THEN {} ELSE {0})

-----------------------------------------------------------------------------
(* filter_list_add, on the reactor's thread.                               *)
AddLock(k, f) ==
  /\ mpc = "idle" /\ owner = "none"
  /\ Len(array) < MaxEntries
  /\ owner' = "reactor" /\ mpc' = "add"
  /\ arg' = [key |-> k, func |-> f]
  /\ added' = added \cup {<<k, f>>}
  /\ UNCHANGED <<list, receiver>>

(* A mutant of AddEnlarge: the copy forgets the last entry.                *)
ShortEnlarge ==
  /\ mpc = "add" /\ Len(array) >= capacity
  /\ array' = SubSeq(array, 1, Len(array) - 1)
  /\ capacity' = 2 * capacity /\ gen' = gen + 1
  /\ UNCHANGED <<owner, reactor, receiver>>

(* _filter_list_enlarge: the entries move to a new array, the old is freed.*)
AddEnlarge ==
  /\ mpc = "add" /\ Len(array) >= capacity
  /\ capacity' = 2 * capacity /\ gen' = gen + 1
  /\ UNCHANGED <<array, owner, reactor, receiver>>

AddAppend ==
  /\ mpc = "add" /\ Len(array) < capacity
  /\ array' = Append(array, arg)
  /\ mpc' = "sort"
  /\ UNCHANGED <<capacity, gen, owner, arg, added, receiver>>

(* A mutant of AddSort: the new entry stays at the end.                    *)
SkipSort ==
  /\ mpc = "sort"
  /\ mpc' = "unlock"
  /\ UNCHANGED <<list, owner, arg, added, receiver>>

(* qsort: entries of one column may come out in any order.                 *)
AddSort ==
  /\ mpc = "sort"
  /\ \E perm \in Bijection(DOMAIN array, DOMAIN array) :
       array' = [i \in DOMAIN array |-> array[perm[i]]]
  /\ Sorted(array')
  /\ mpc' = "unlock"
  /\ UNCHANGED <<capacity, gen, owner, arg, added, receiver>>

(* filter_list_rm.                                                         *)
RmLock(k) ==
  /\ mpc = "idle" /\ owner = "none"
  /\ owner' = "reactor" /\ mpc' = "rm"
  /\ arg' = [key |-> k, func |-> NULL]
  /\ UNCHANGED <<list, added, receiver>>

RmClear ==
  /\ mpc = "rm"
  /\ \E i \in Bsearch(arg.key) :
       array' = IF i = 0 THEN array ELSE [array EXCEPT ![i].func = NULL]
  /\ mpc' = "unlock"
  /\ UNCHANGED <<capacity, gen, owner, arg, added, receiver>>

Unlock ==
  /\ mpc = "unlock"
  /\ owner' = "none" /\ mpc' = "idle" /\ arg' = NoArg
  /\ UNCHANGED <<list, added, receiver>>

-----------------------------------------------------------------------------
(* filter_list_get, on the receiver's thread.                              *)
GetLock(k) ==
  /\ rpc = "idle" /\ owner = "none"
  /\ owner' = "receiver" /\ rpc' = "search" /\ key' = k
  /\ UNCHANGED <<list, reactor, rst, got>>

(* A mutant of GetSearch: the pointer is one slot behind the match.        *)
PastSearch ==
  /\ rpc = "search"
  /\ \E i \in Bsearch(key) :
       rst' = [gen |-> gen, slot |-> IF i = 0 THEN 0 ELSE i + 1]
  /\ owner' = "none" /\ rpc' = "read"
  /\ UNCHANGED <<list, reactor, key, got>>

GetSearch ==
  /\ rpc = "search"
  /\ \E i \in Bsearch(key) : rst' = [gen |-> gen, slot |-> i]
  /\ owner' = "none" /\ rpc' = "read"
  /\ UNCHANGED <<list, reactor, key, got>>

(* What rst->func may read: anything once the array is freed; the function *)
(* of whatever entry is being moved through the slot while qsort runs.     *)
Read ==
  IF rst.slot = 0 THEN {NULL}
  ELSE IF rst.gen # gen THEN FuncOrNull \cup {Wild}
  ELSE IF mpc = "sort" THEN {array[i].func : i \in DOMAIN array}
  ELSE {array[rst.slot].func}

GetRead ==
  /\ rpc = "read"
  /\ got' \in Read
  /\ rpc' = "got"
  /\ UNCHANGED <<list, owner, reactor, key, rst>>

(* filter_list_normalize_data applies the function and returns.            *)
Normalize ==
  /\ rpc = "got"
  /\ rpc' = "idle" /\ key' = 0 /\ rst' = NoRst /\ got' = NULL
  /\ UNCHANGED <<list, owner, reactor>>

ListNext ==
  \/ \E k \in Keys : RmLock(k) \/ GetLock(k) \/ \E f \in Funcs : AddLock(k, f)
  \/ AddEnlarge \/ AddAppend \/ AddSort \/ RmClear \/ Unlock
  \/ GetSearch \/ GetRead \/ Normalize

ListSpec == ListInit /\ [][ListNext]_listVars

-----------------------------------------------------------------------------
Entry == [key : Keys, func : FuncOrNull]

ListTypeOK ==
  /\ array \in Seq(Entry)
  /\ capacity \in Nat /\ gen \in Nat
  /\ owner \in {"none", "reactor", "receiver"}
  /\ mpc \in {"idle", "add", "sort", "rm", "unlock"}
  /\ arg \in Entry \cup {NoArg}
  /\ added \subseteq Keys \X Funcs
  /\ rpc \in {"idle", "search", "read", "got"}
  /\ key \in Keys \cup {0}
  /\ rst.gen \in 0..gen /\ rst.slot \in 0..Len(array)
  /\ got \in FuncOrNull \cup {Wild}

(* Whoever takes the mutex finds a list that bsearch can search and that   *)
(* ends within its allocation.                                             *)
ListSound ==
  mpc # "sort" => Sorted(array) /\ Len(array) <= capacity

(* Doubling, sorting and clearing in place never lose, duplicate or change *)
(* an entry: the array is a bag of entries that adds and removes update    *)
(* atomically.                                                             *)
Entries ==
  INSTANCE FilterEntries WITH
    entries <- [k \in Keys |-> [f \in FuncOrNull |->
                  Cardinality({i \in Slots(k) : array[i].func = f})]]
ImplementsEntries == Entries!EntriesSpec

(* "filter_list_get does not return exptect result." (filtermsg_test.cpp:  *)
(* 49): a lookup returns a function added for that column, or none.        *)
GetReturnsAdded ==
  rpc = "got" => got = NULL \/ <<key, got>> \in added
===============================================================================
