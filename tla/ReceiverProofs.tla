---------------------------- MODULE ReceiverProofs ----------------------------
(***************************************************************************)
(* The filter list, the hash context and the message receiver, for every   *)
(* number of columns and functions, every size of values, blocks and       *)
(* words, and every interleaving of the reactor's adds and removes with    *)
(* the receiver's lookups.                                                 *)
(*                                                                         *)
(* First the array of filtermsg.cpp: it stays searchable, and it is the    *)
(* bag of entries that FilterEntries describes.                            *)
(*                                                                         *)
(* Then sha1.c: a context says what has been fed to it (Fed), however the  *)
(* bytes were cut into pieces (UpdateFed), and what it ends as is SHA-1    *)
(* (FinalFed).                                                             *)
(*                                                                         *)
(* Last onMapMsgHandle: its context has been fed with the values of the    *)
(* columns visited so far, each normalised by a function its column had    *)
(* (Summed), so it ends as the digest of a record of the dump.             *)
(***************************************************************************)
EXTENDS Receiver, FiniteSetTheorems, SequenceTheorems, WellFoundedInduction, TLAPS

-----------------------------------------------------------------------------
(* What an add or a remove under way relies on.                            *)
Room ==
  /\ capacity > 0
  /\ Len(array) <= capacity
  /\ mpc = "add" => arg \in [key : Keys, func : Funcs]
  /\ mpc = "rm" => arg.key \in Keys

ListInv == ListTypeOK /\ ListSound /\ Room

LEMMA InitListInv == ListInit => ListInv
<1> SUFFICES ASSUME ListInit PROVE ListInv
  OBVIOUS
<1> USE DEF ListInit
<1>1. array = <<>> /\ array \in Seq(Entry) /\ Len(array) = 0
  OBVIOUS
<1>2. ListTypeOK
  BY <1>1, ListAssumption DEF ListTypeOK, NoArg, NoRst, FuncOrNull
<1>3. ListSound /\ Room
  BY <1>1, ListAssumption DEF ListSound, Room, Sorted
<1> QED
  BY <1>2, <1>3 DEF ListInv

LEMMA AddLockListInv ==
  ASSUME ListInv, NEW k \in Keys, NEW f \in Funcs, AddLock(k, f)
  PROVE  ListInv'
<1>1. [key |-> k, func |-> f] \in [key : Keys, func : Funcs] /\ Funcs \subseteq FuncOrNull
  BY DEF FuncOrNull
<1> USE DEF AddLock, list, receiver, ListInv
<1>2. ListTypeOK'
  BY <1>1 DEF ListTypeOK, Entry
<1>3. ListSound' /\ Room'
  BY <1>1 DEF ListSound, Room, Sorted
<1> QED
  BY <1>2, <1>3

LEMMA AddEnlargeListInv ==
  ASSUME ListInv, AddEnlarge
  PROVE  ListInv'
<1> USE DEF AddEnlarge, reactor, receiver, ListInv
<1>1. capacity \in Nat /\ gen \in Nat /\ Len(array) \in Nat
  BY DEF ListTypeOK
<1>2. 2 * capacity \in Nat /\ gen + 1 \in Nat /\ 2 * capacity > 0 /\ Len(array) <= 2 * capacity
  BY <1>1 DEF Room
<1>3. rst.gen \in 0..(gen + 1)
  BY <1>1 DEF ListTypeOK
<1>4. ListTypeOK'
  BY <1>2, <1>3 DEF ListTypeOK
<1>5. ListSound' /\ Room'
  BY <1>2 DEF ListSound, Room, Sorted
<1> QED
  BY <1>4, <1>5

LEMMA AddAppendListInv ==
  ASSUME ListInv, AddAppend
  PROVE  ListInv'
<1> USE DEF AddAppend, receiver, ListInv
<1>1. arg \in Entry
  BY DEF Room, Entry, FuncOrNull
<1>2. /\ array' \in Seq(Entry) /\ Len(array') = Len(array) + 1
      /\ Len(array) \in Nat /\ capacity \in Nat
  BY <1>1 DEF ListTypeOK
<1>3. rst.slot \in 0..Len(array')
  BY <1>2 DEF ListTypeOK
<1>4. ListTypeOK'
  BY <1>2, <1>3 DEF ListTypeOK
<1>5. Len(array') <= capacity
  BY <1>2
<1>6. ListSound' /\ Room'
  BY <1>5 DEF ListSound, Room
<1> QED
  BY <1>4, <1>6

(* Sorting moves the entries about.                                        *)
LEMMA Permuted ==
  ASSUME NEW a \in Seq(Entry), NEW perm \in Bijection(DOMAIN a, DOMAIN a)
  PROVE  [i \in DOMAIN a |-> a[perm[i]]] \in Seq(Entry)
         /\ Len([i \in DOMAIN a |-> a[perm[i]]]) = Len(a)
<1>1. DOMAIN a = 1..Len(a) /\ Len(a) \in Nat
  OBVIOUS
<1>2. \A i \in DOMAIN a : perm[i] \in DOMAIN a
  BY DEF Bijection, Injection
<1>3. \A i \in DOMAIN a : a[perm[i]] \in Entry
  BY <1>1, <1>2
<1> DEFINE b == [i \in DOMAIN a |-> a[perm[i]]]
<1>4. b = [i \in 1..Len(a) |-> a[perm[i]]]
  BY <1>1
<1> QED
  BY <1>1, <1>3, <1>4

LEMMA AddSortListInv ==
  ASSUME ListInv, AddSort
  PROVE  ListInv'
<1> USE DEF AddSort, receiver, ListInv
<1>1. array' \in Seq(Entry) /\ Len(array') = Len(array)
  BY Permuted DEF ListTypeOK
<1>2. ListTypeOK'
  BY <1>1 DEF ListTypeOK
<1>3. ListSound' /\ Room'
  BY <1>1 DEF ListSound, Room
<1> QED
  BY <1>2, <1>3

LEMMA RmLockListInv ==
  ASSUME ListInv, NEW k \in Keys, RmLock(k)
  PROVE  ListInv'
<1> USE DEF RmLock, list, receiver, ListInv
<1>1. [key |-> k, func |-> NULL] \in Entry
  BY DEF Entry, FuncOrNull
<1>2. ListTypeOK'
  BY <1>1 DEF ListTypeOK
<1>3. ListSound' /\ Room'
  BY DEF ListSound, Room, Sorted
<1> QED
  BY <1>2, <1>3

(* Clearing the function of an entry moves none.                           *)
LEMMA Cleared ==
  ASSUME NEW a \in Seq(Entry), NEW n \in DOMAIN a
  PROVE  LET b == [a EXCEPT ![n].func = NULL]
         IN  /\ b \in Seq(Entry) /\ Len(b) = Len(a)
             /\ \A j \in DOMAIN a : b[j].key = a[j].key
             /\ \A j \in DOMAIN a : b[j].func = IF j = n THEN NULL ELSE a[j].func
<1>1. a[n] \in Entry /\ \A j \in DOMAIN a : a[j] \in Entry
  OBVIOUS
<1> DEFINE e == [a[n] EXCEPT !.func = NULL]
           b == [a EXCEPT ![n] = e]
<1>2. e \in Entry /\ e.key = a[n].key /\ e.func = NULL
  BY <1>1 DEF Entry, FuncOrNull
<1>3. b = [a EXCEPT ![n].func = NULL]
  OBVIOUS
<1> HIDE DEF e
<1>4. b \in Seq(Entry) /\ Len(b) = Len(a)
  BY <1>2
<1>5. \A j \in DOMAIN a : b[j] = IF j = n THEN e ELSE a[j]
  OBVIOUS
<1> HIDE DEF b
<1> QED
  BY <1>2, <1>3, <1>4, <1>5

LEMMA RmClearListInv ==
  ASSUME ListInv, RmClear
  PROVE  ListInv'
<1> USE DEF RmClear, receiver, ListInv
<1>1. PICK n \in Bsearch(arg.key) :
        array' = IF n = 0 THEN array ELSE [array EXCEPT ![n].func = NULL]
  OBVIOUS
<1>2. n = 0 \/ n \in DOMAIN array
  BY DEF Bsearch, Slots
<1>3. array \in Seq(Entry)
  BY DEF ListTypeOK
<1>4. /\ array' \in Seq(Entry) /\ Len(array') = Len(array)
      /\ \A j \in DOMAIN array : array'[j].key = array[j].key
  BY <1>1, <1>2, <1>3, Cleared
<1>5. DOMAIN array' = DOMAIN array
  BY <1>3, <1>4
<1>6. ListTypeOK'
  BY <1>4 DEF ListTypeOK
<1>7. ListSound' /\ Room'
  BY <1>4, <1>5 DEF ListSound, Room, Sorted
<1> QED
  BY <1>6, <1>7

LEMMA UnlockListInv ==
  ASSUME ListInv, Unlock
  PROVE  ListInv'
<1> USE DEF Unlock, list, receiver, ListInv
<1>1. ListTypeOK'
  BY DEF ListTypeOK
<1>2. ListSound' /\ Room'
  BY DEF ListSound, Room, Sorted
<1> QED
  BY <1>1, <1>2

(* The receiver's steps move nothing of the list.                          *)
LEMMA ReceiverListInv ==
  ASSUME ListInv, (\E k \in Keys : GetLock(k)) \/ GetSearch \/ GetRead \/ Normalize
  PROVE  ListInv'
<1>1. UNCHANGED <<array, capacity, gen, mpc, arg, added>>
  BY DEF GetLock, GetSearch, GetRead, Normalize, list, reactor
<1>2. ListSound' /\ Room'
  BY <1>1 DEF ListInv, ListSound, Room, Sorted
<1>3. ListTypeOK /\ array \in Seq(Entry) /\ gen \in Nat
  BY DEF ListInv, ListTypeOK
<1>4. ASSUME \E k \in Keys : GetLock(k) PROVE ListTypeOK'
  BY <1>1, <1>3, <1>4 DEF GetLock, reactor, list, ListTypeOK
<1>5. ASSUME GetSearch PROVE ListTypeOK'
  <2>1. PICK n \in Bsearch(key) : rst' = [gen |-> gen, slot |-> n]
    BY <1>5 DEF GetSearch
  <2>2. n \in 0..Len(array)
    BY <1>3, <2>1 DEF Bsearch, Slots
  <2>3. rst'.gen \in 0..gen /\ rst'.slot \in 0..Len(array)
    BY <1>3, <2>1, <2>2
  <2> QED
    BY <1>1, <1>3, <1>5, <2>3 DEF GetSearch, ListTypeOK
<1>6. ASSUME GetRead PROVE ListTypeOK'
  <2>1. \A i \in DOMAIN array : array[i].func \in FuncOrNull
    <3>1. \A i \in DOMAIN array : array[i] \in Entry
      BY <1>3
    <3> QED
      BY <3>1 DEF Entry
  <2>2. rst.slot \in 0..Len(array)
    BY <1>3 DEF ListTypeOK
  <2>3. rst.slot # 0 => rst.slot \in DOMAIN array
    BY <1>3, <2>2
  <2>4. Read \subseteq FuncOrNull \cup {Wild}
    BY <2>1, <2>3 DEF Read, FuncOrNull
  <2> QED
    BY <1>1, <1>3, <1>6, <2>4 DEF GetRead, ListTypeOK
<1>7. ASSUME Normalize PROVE ListTypeOK'
  <2>1. NoRst.gen \in 0..gen /\ NoRst.slot \in 0..Len(array) /\ NULL \in FuncOrNull
    BY <1>3 DEF NoRst, FuncOrNull
  <2> QED
    BY <1>1, <1>3, <1>7, <2>1 DEF Normalize, ListTypeOK
<1> QED
  BY <1>2, <1>4, <1>5, <1>6, <1>7 DEF ListInv

LEMMA StutterListInv ==
  ASSUME ListInv, UNCHANGED listVars
  PROVE  ListInv'
<1> USE DEF ListInv, listVars, list, reactor, receiver
<1>1. ListTypeOK'
  BY DEF ListTypeOK
<1>2. ListSound' /\ Room'
  BY DEF ListSound, Room, Sorted
<1> QED
  BY <1>1, <1>2

THEOREM ListInvariant == ListSpec => []ListInv
<1>1. ListInv /\ [ListNext]_listVars => ListInv'
  BY AddLockListInv, AddEnlargeListInv, AddAppendListInv, AddSortListInv, RmLockListInv, RmClearListInv,
     UnlockListInv, ReceiverListInv, StutterListInv DEF ListNext
<1> QED
  BY <1>1, InitListInv, PTL DEF ListSpec

-----------------------------------------------------------------------------
(* The array, the mutex and both threads keep their types; in particular   *)
(* the pointer a lookup holds never points beyond the entries there are    *)
(* (filtermsg.cpp:97-110).                                                 *)
THEOREM ListTypeCorrect == ListSpec => []ListTypeOK
<1>1. ListInv => ListTypeOK
  BY DEF ListInv
<1> QED
  BY <1>1, ListInvariant, PTL

(* The array is sorted and within its allocation except while an add is    *)
(* sorting it (filtermsg.cpp:75-95): a search under the mutex may be a     *)
(* binary one.                                                             *)
THEOREM ListStaysSound == ListSpec => []ListSound
<1>1. ListInv => ListSound
  BY DEF ListInv
<1> QED
  BY <1>1, ListInvariant, PTL

-----------------------------------------------------------------------------
(* The entries of a column and function, and the bag they make.            *)
Places(k, f) == {i \in Slots(k) : array[i].func = f}
Bag == [k \in Keys |-> [f \in FuncOrNull |-> Cardinality(Places(k, f))]]

LEMMA PlacesFinite ==
  ASSUME array \in Seq(Entry), NEW k \in Keys, NEW f \in FuncOrNull
  PROVE  /\ IsFiniteSet(Places(k, f)) /\ Cardinality(Places(k, f)) \in Nat
         /\ Bag[k][f] = Cardinality(Places(k, f))
<1>1. DOMAIN array = 1..Len(array) /\ Len(array) \in Nat
  OBVIOUS
<1>2. IsFiniteSet(DOMAIN array)
  BY <1>1, FS_Interval
<1>3. Places(k, f) \subseteq DOMAIN array
  BY DEF Places, Slots
<1>4. IsFiniteSet(Places(k, f))
  BY <1>2, <1>3, FS_Subset
<1> QED
  BY <1>4, FS_CardinalityType DEF Bag

(* An append makes one place more for its entry.                           *)
LEMMA AppendBag ==
  ASSUME ListInv, AddAppend
  PROVE  Bag' = [Bag EXCEPT ![arg.key][arg.func] = @ + 1]
<1>1. /\ array \in Seq(Entry) /\ arg \in [key : Keys, func : Funcs]
      /\ array' = Append(array, arg)
  BY DEF ListInv, ListTypeOK, Room, AddAppend
<1> DEFINE n == Len(array) + 1
<1>2. /\ DOMAIN array = 1..Len(array) /\ DOMAIN array' = (DOMAIN array) \cup {n}
      /\ n \notin DOMAIN array /\ array'[n] = arg
      /\ \A i \in DOMAIN array : array'[i] = array[i]
  BY <1>1
<1> HIDE DEF n
<1>3. arg.key \in Keys /\ arg.func \in FuncOrNull
  BY <1>1 DEF FuncOrNull
<1>4. ASSUME NEW k \in Keys, NEW f \in FuncOrNull
      PROVE  Places(k, f)' = IF k = arg.key /\ f = arg.func THEN Places(k, f) \cup {n}
                             ELSE Places(k, f)
  BY <1>2 DEF Places, Slots
<1>5. ASSUME NEW k \in Keys, NEW f \in FuncOrNull
      PROVE  Cardinality(Places(k, f)') =
               IF k = arg.key /\ f = arg.func THEN Cardinality(Places(k, f)) + 1
               ELSE Cardinality(Places(k, f))
  <2>1. n \notin Places(k, f) /\ IsFiniteSet(Places(k, f))
    BY <1>1, <1>2, PlacesFinite DEF Places, Slots
  <2> QED
    BY <1>4, <2>1, FS_AddElement
<1> HIDE DEF Places
<1> QED
  BY <1>3, <1>5 DEF Bag

(* Sorting permutes the places.                                            *)
LEMMA SortBag ==
  ASSUME ListInv, AddSort
  PROVE  Bag' = Bag
<1>1. PICK perm \in Bijection(DOMAIN array, DOMAIN array) :
        array' = [i \in DOMAIN array |-> array[perm[i]]]
  BY DEF AddSort
<1>2. array \in Seq(Entry) /\ DOMAIN array' = DOMAIN array
  BY <1>1 DEF ListInv, ListTypeOK
<1>3. /\ \A i \in DOMAIN array : perm[i] \in DOMAIN array
      /\ \A i, j \in DOMAIN array : perm[i] = perm[j] => i = j
      /\ \A j \in DOMAIN array : \E i \in DOMAIN array : perm[i] = j
  BY DEF Bijection, Injection, Surjection, IsInjective
<1>4. ASSUME NEW k \in Keys, NEW f \in FuncOrNull
      PROVE  Cardinality(Places(k, f)') = Cardinality(Places(k, f))
  <2> DEFINE P == Places(k, f)
             Q == {i \in DOMAIN array : perm[i] \in P}
             g == [i \in Q |-> perm[i]]
  <2>1. Places(k, f)' = Q
    BY <1>1, <1>2, <1>3 DEF Places, Slots
  <2>2. P \subseteq DOMAIN array /\ IsFiniteSet(P)
    BY <1>2, PlacesFinite DEF Places, Slots
  <2> HIDE DEF P
  <2>3. g \in [Q -> P] /\ (\A i, j \in Q : g[i] = g[j] => i = j)
    BY <1>3
  <2>4. \A j \in P : \E i \in Q : g[i] = j
    BY <1>3, <2>2
  <2>5. g \in Surjection(Q, P) /\ g \in Injection(Q, P)
    BY <2>3, <2>4 DEF Surjection, Injection, IsInjective
  <2> HIDE DEF Q, g
  <2>6. IsFiniteSet(Q) /\ Cardinality(P) = Cardinality(Q)
    BY <2>2, <2>5, FS_Injection
  <2> QED
    BY <2>1, <2>6 DEF P
<1> HIDE DEF Places
<1> QED
  BY <1>4 DEF Bag

(* A remove moves one place from its function to NULL.                     *)
LEMMA ClearBag ==
  ASSUME ListInv, RmClear
  PROVE  \/ Bag' = Bag
         \/ \E f \in FuncOrNull :
              /\ arg.key \in Keys /\ Bag[arg.key][f] > 0
              /\ Bag' = [Bag EXCEPT ![arg.key][f] = @ - 1, ![arg.key][NULL] = @ + 1]
<1>1. PICK n \in Bsearch(arg.key) :
        array' = IF n = 0 THEN array ELSE [array EXCEPT ![n].func = NULL]
  BY DEF RmClear
<1>2. array \in Seq(Entry) /\ arg.key \in Keys
  BY DEF ListInv, ListTypeOK, Room, RmClear
<1>3. CASE n = 0
  BY <1>1, <1>3 DEF Bag, Places, Slots
<1>4. CASE n # 0
  <2>0. n \in DOMAIN array /\ array[n].key = arg.key /\ array[n] \in Entry
    BY <1>1, <1>2, <1>4 DEF Bsearch, Slots
  <2>1. PICK k \in Keys, f \in FuncOrNull : k = arg.key /\ f = array[n].func
    BY <1>2, <2>0 DEF Entry
  <2>2. array' = [array EXCEPT ![n].func = NULL] /\ NULL \in FuncOrNull
    BY <1>1, <1>4 DEF FuncOrNull
  <2>3. /\ DOMAIN array' = DOMAIN array
        /\ \A j \in DOMAIN array : array'[j].key = array[j].key
        /\ \A j \in DOMAIN array : array'[j].func = IF j = n THEN NULL ELSE array[j].func
    BY <1>2, <2>0, <2>2, Cleared
  <2>4. CASE f = NULL
    <3>1. \A j \in DOMAIN array : array'[j].func = array[j].func
      BY <2>1, <2>3, <2>4
    <3>2. \A c \in Keys, g \in FuncOrNull : Places(c, g)' = Places(c, g)
      BY <2>3, <3>1 DEF Places, Slots
    <3> QED
      BY <3>2 DEF Bag
  <2>5. CASE f # NULL
    <3>1. ASSUME NEW c \in Keys, NEW g \in FuncOrNull
          PROVE  Places(c, g)' = IF c = k /\ g = f THEN Places(c, g) \ {n}
                                 ELSE IF c = k /\ g = NULL THEN Places(c, g) \cup {n}
                                 ELSE Places(c, g)
      BY <2>0, <2>1, <2>3, <2>5 DEF Places, Slots
    <3>2. n \in Places(k, f) /\ n \notin Places(k, NULL)
      BY <2>0, <2>1, <2>5 DEF Places, Slots
    <3>4. \A c \in Keys, g \in FuncOrNull :
            /\ IsFiniteSet(Places(c, g)) /\ Cardinality(Places(c, g)) \in Nat
            /\ Bag[c][g] = Cardinality(Places(c, g))
      BY <1>2, PlacesFinite
    <3>5. Cardinality(Places(k, f)) > 0
      BY <3>2, <3>4, FS_EmptySet
    <3>6. Cardinality(Places(k, f)') = Cardinality(Places(k, f)) - 1
      <4>1. Places(k, f)' = Places(k, f) \ {n}
        BY <3>1
      <4>2. IsFiniteSet(Places(k, f)) /\ n \in Places(k, f)
        BY <3>2, <3>4
      <4>3. Cardinality(Places(k, f) \ {n}) = Cardinality(Places(k, f)) - 1
        BY <4>2, FS_RemoveElement
      <4> QED
        BY <4>1, <4>3
    <3>7. Cardinality(Places(k, NULL)') = Cardinality(Places(k, NULL)) + 1
      <4>1. Places(k, NULL)' = Places(k, NULL) \cup {n}
        BY <2>2, <2>5, <3>1
      <4>2. IsFiniteSet(Places(k, NULL)) /\ n \notin Places(k, NULL)
        BY <2>2, <3>2, <3>4
      <4>3. Cardinality(Places(k, NULL) \cup {n}) = Cardinality(Places(k, NULL)) + 1
        BY <4>2, FS_AddElement
      <4> QED
        BY <4>1, <4>3
    <3>8. \A c \in Keys, g \in FuncOrNull :
            c # k \/ (g # f /\ g # NULL) => Places(c, g)' = Places(c, g)
      BY <3>1
    <3> HIDE DEF Places
    <3>9. Bag' = [Bag EXCEPT ![k][f] = @ - 1, ![k][NULL] = @ + 1]
      BY <2>2, <2>5, <3>6, <3>7, <3>8 DEF Bag
    <3> QED
      BY <2>1, <3>4, <3>5, <3>9
  <2> QED
    BY <2>4, <2>5
<1> QED
  BY <1>3, <1>4

(* A step of the array is a step of the bag, or none.                      *)
LEMMA StepBag ==
  ASSUME ListInv, [ListNext]_listVars
  PROVE  \/ Bag' = Bag
         \/ \E k \in Keys, f \in Funcs : Bag' = [Bag EXCEPT ![k][f] = @ + 1]
         \/ \E k \in Keys, f \in FuncOrNull :
              /\ Bag[k][f] > 0
              /\ Bag' = [Bag EXCEPT ![k][f] = @ - 1, ![k][NULL] = @ + 1]
<1>1. CASE AddAppend
  <2>1. arg.key \in Keys /\ arg.func \in Funcs
    BY <1>1 DEF ListInv, Room, AddAppend
  <2>2. PICK k \in Keys, f \in Funcs : k = arg.key /\ f = arg.func
    BY <2>1
  <2> QED
    BY <1>1, <2>2, AppendBag
<1>2. CASE AddSort
  BY <1>2, SortBag
<1>3. CASE RmClear
  <2>1. ASSUME Bag' # Bag
        PROVE  \E k \in Keys, f \in FuncOrNull :
                 /\ Bag[k][f] > 0
                 /\ Bag' = [Bag EXCEPT ![k][f] = @ - 1, ![k][NULL] = @ + 1]
    <3>1. PICK f \in FuncOrNull :
            /\ arg.key \in Keys /\ Bag[arg.key][f] > 0
            /\ Bag' = [Bag EXCEPT ![arg.key][f] = @ - 1, ![arg.key][NULL] = @ + 1]
      BY <1>3, <2>1, ClearBag
    <3>2. PICK k \in Keys : k = arg.key
      BY <3>1
    <3> QED
      BY <3>1, <3>2
  <2> QED
    BY <2>1
<1>4. CASE UNCHANGED array
  BY <1>4 DEF Bag, Places, Slots
<1>5. AddEnlarge => UNCHANGED array
  BY DEF AddEnlarge
<1>6. (\E k \in Keys : RmLock(k) \/ GetLock(k) \/ \E f \in Funcs : AddLock(k, f)) => UNCHANGED array
  BY DEF RmLock, GetLock, AddLock, list
<1>7. Unlock \/ GetSearch \/ GetRead \/ Normalize \/ UNCHANGED listVars => UNCHANGED array
  BY DEF Unlock, GetSearch, GetRead, Normalize, list, listVars
<1> QED
  BY <1>1, <1>2, <1>3, <1>4, <1>5, <1>6, <1>7 DEF ListNext

(* The array implements the bag of entries: neither doubling nor sorting   *)
(* nor clearing in place loses, doubles or changes an entry of another     *)
(* column, whatever the capacity and however many entries there are        *)
(* (filtermsg.cpp:48-132).                                                 *)
THEOREM ArrayIsBag == ListSpec => ImplementsEntries
<1>1. ListInit => Entries!EntriesInit
  <2> SUFFICES ASSUME ListInit PROVE Entries!EntriesInit
    OBVIOUS
  <2>1. \A k \in Keys, f \in FuncOrNull : {i \in Slots(k) : array[i].func = f} = {}
    BY DEF ListInit, Slots
  <2> QED
    BY <2>1, FS_EmptySet DEF Entries!EntriesInit, Entries!FuncOrNull, FuncOrNull
<1>2. ListInv /\ [ListNext]_listVars => [Entries!EntriesNext]_(Bag)
  <2> SUFFICES ASSUME ListInv, [ListNext]_listVars, Bag' # Bag
               PROVE  Entries!EntriesNext
    OBVIOUS
  <2>1. CASE \E k \in Keys, f \in Funcs : Bag' = [Bag EXCEPT ![k][f] = @ + 1]
    BY <2>1 DEF Entries!EntriesNext, Entries!Add, Bag, Places
  <2>2. CASE \E k \in Keys, f \in FuncOrNull :
               /\ Bag[k][f] > 0
               /\ Bag' = [Bag EXCEPT ![k][f] = @ - 1, ![k][NULL] = @ + 1]
    BY <2>2 DEF Entries!EntriesNext, Entries!Rm, Entries!Held, Entries!FuncOrNull, FuncOrNull, Bag, Places
  <2> QED
    BY <2>1, <2>2, StepBag
<1> QED
  BY <1>1, <1>2, ListInvariant, PTL DEF ListSpec, ImplementsEntries, Entries!EntriesSpec, Bag, Places
-----------------------------------------------------------------------------
(* A nonempty set of numbers has a least one.                              *)
LEMMA LeastElement ==
  ASSUME NEW S, S \subseteq Nat, S # {}
  PROVE  \E m \in S : \A n \in S : m <= n
<1>1. PICK R : R = OpToRel(<, Nat)
  OBVIOUS
<1>2. IsWellFoundedOn(R, Nat)
  BY <1>1, NatLessThanWellFounded
<1>3. PICK x \in S : \A y \in S : <<y, x>> \notin R
  BY <1>2, WFMin
<1>4. \A y \in Nat : <<y, x>> \in R <=> y < x
  BY <1>1 DEF OpToRel
<1>5. \A n \in S : x <= n
  <2> SUFFICES ASSUME NEW n \in S PROVE x <= n
    OBVIOUS
  <2>1. x \in Nat /\ n \in Nat
    OBVIOUS
  <2>2. ~ (n < x)
    BY <1>3, <1>4, <2>1
  <2> QED
    BY <2>1, <2>2
<1> QED
  BY <1>5
-----------------------------------------------------------------------------
(* Sizes: blocks and words.                                                *)
LEMMA BlockSizes ==
  /\ Block \in Nat /\ Block > 0 /\ LenBytes \in 1..(Block - 1)
  /\ Word \in Nat /\ Word > 0
  /\ \E w \in Nat : w > 0 /\ Word = Block * w * 8
<1>1. /\ Block \in Nat /\ Block > 0 /\ LenBytes \in 1..(Block - 1)
      /\ Word \in Nat /\ Word > 0
  BY BlockAssumption
<1>2. PICK m \in Nat : m = 8 * Block
  BY <1>1
<1>3. m > 0 /\ Word % m = 0
  BY <1>1, <1>2, BlockAssumption
<1>4. PICK w \in Int : w = Word \div m
  BY <1>1, <1>3
<1>5. Word = m * w + (Word % m)
  BY <1>1, <1>3, <1>4
<1>6. Word = m * w
  BY <1>1, <1>3, <1>4, <1>5
<1>7. w > 0
  <2> SUFFICES ASSUME w <= 0 PROVE FALSE
    BY <1>4
  <2>1. m * w <= 0
    BY <1>2, <1>3, <1>4
  <2> QED
    BY <1>1, <1>6, <2>1
<1>8. m * w = Block * w * 8
  BY <1>1, <1>2, <1>4
<1> QED
  BY <1>1, <1>4, <1>6, <1>7, <1>8

(* Quotient and remainder are what they have to be.                        *)
LEMMA DivMod ==
  ASSUME NEW m \in Nat, m > 0, NEW q \in Int, NEW r \in 0..(m - 1)
  PROVE  (m * q + r) \div m = q /\ (m * q + r) % m = r
<1>1. PICK x \in Int : x = m * q + r
  OBVIOUS
<1>2. PICK a \in Int : a = x \div m
  OBVIOUS
<1>3. PICK b \in 0..(m - 1) : b = x % m
  BY <1>1
<1>4. x = m * a + b
  BY <1>2, <1>3
<1>5. m * (q - a) = b - r
  <2>1. m * (q - a) = m * q - m * a
    OBVIOUS
  <2>2. m * q \in Int /\ m * a \in Int
    OBVIOUS
  <2> QED
    BY <1>1, <1>4, <2>1, <2>2
<1>6. b - r < m /\ b - r > 0 - m
  OBVIOUS
<1>7. q = a
  <2>1. PICK d \in Int : d = q - a
    OBVIOUS
  <2>2. ~ (d >= 1)
    <3> SUFFICES ASSUME d >= 1 PROVE FALSE
      OBVIOUS
    <3>1. m * d >= m
      OBVIOUS
    <3> QED
      BY <1>5, <1>6, <2>1, <3>1
  <2>3. ~ (d <= 0 - 1)
    <3> SUFFICES ASSUME d <= 0 - 1 PROVE FALSE
      OBVIOUS
    <3>1. m * d <= 0 - m
      OBVIOUS
    <3> QED
      BY <1>5, <1>6, <2>1, <3>1
  <2> QED
    BY <2>1, <2>2, <2>3
<1>8. b = r
  <2>1. m * a \in Int
    OBVIOUS
  <2> QED
    BY <1>1, <1>4, <1>7, <2>1
<1> QED
  BY <1>1, <1>2, <1>3, <1>7, <1>8

LEMMA Divided ==
  ASSUME NEW m \in Nat, m > 0, NEW x \in Nat
  PROVE  /\ x \div m \in Nat /\ x % m \in 0..(m - 1)
         /\ x = m * (x \div m) + (x % m)
<1>1. PICK a \in Int : a = x \div m
  OBVIOUS
<1>2. PICK b \in 0..(m - 1) : b = x % m
  OBVIOUS
<1>3. x = m * a + b
  BY <1>1, <1>2
<1>4. a >= 0
  <2> SUFFICES ASSUME a <= 0 - 1 PROVE FALSE
    OBVIOUS
  <2>1. m * a <= 0 - m
    OBVIOUS
  <2>2. m * a \in Int
    OBVIOUS
  <2> QED
    BY <1>3, <2>1, <2>2
<1> QED
  BY <1>1, <1>2, <1>3, <1>4

(* Blocks are laid one behind the other.                                   *)
LEMMA Blocks ==
  ASSUME NEW a \in Int, NEW b \in Int
  PROVE  /\ Block * a \in Int /\ a * Block = Block * a
         /\ Block * (a + 1) = Block * a + Block
         /\ Block * (a - 1) = Block * a - Block
         /\ a <= b => Block * a <= Block * b
         /\ a >= 0 => Block * a >= 0
         /\ Block * (a + b) = Block * a + Block * b
<1>1. Block \in Nat /\ Block > 0
  BY BlockSizes
<1>2. Block * a \in Int /\ a * Block = Block * a
  BY <1>1
<1>3. Block * (a + 1) = Block * a + Block /\ Block * (a - 1) = Block * a - Block
  BY <1>1
<1>4. a <= b => Block * a <= Block * b
  BY <1>1
<1>5. a >= 0 => Block * a >= 0
  BY <1>1
<1>6. Block * (a + b) = Block * a + Block * b
  BY <1>1
<1> QED
  BY <1>2, <1>3, <1>4, <1>5, <1>6
-----------------------------------------------------------------------------
(* The bit count of L bytes, in two words.                                 *)
CountOf(L) == <<(8 * L) % Word, ((8 * L) \div Word) % Word>>

(* The high word wraps as the whole number does.                           *)
LEMMA NextCount ==
  ASSUME NEW q \in Nat
  PROVE  ((q % Word) + 1) % Word = (q + 1) % Word
<1>1. Word \in Nat /\ Word > 0
  BY BlockSizes
<1>2. PICK a, b : a = q \div Word /\ b = q % Word
  OBVIOUS
<1>3. a \in Nat /\ b \in 0..(Word - 1) /\ q = Word * a + b
  BY <1>1, <1>2, Divided
<1>4. CASE b + 1 < Word
  <2>1. b + 1 \in 0..(Word - 1)
    BY <1>1, <1>3, <1>4
  <2>2. (Word * a + (b + 1)) % Word = b + 1 /\ (Word * 0 + (b + 1)) % Word = b + 1
    BY <1>1, <1>3, <2>1, DivMod
  <2>3. q + 1 = Word * a + (b + 1) /\ b + 1 = Word * 0 + (b + 1)
    <3>1. Word * a \in Int
      BY <1>1, <1>3
    <3> QED BY <1>1, <1>3, <3>1
  <2> QED BY <1>2, <2>2, <2>3
<1>5. CASE ~(b + 1 < Word)
  <2>1. b + 1 = Word /\ 0 \in 0..(Word - 1) /\ a + 1 \in Int
    BY <1>1, <1>3, <1>5
  <2>2. (Word * (a + 1) + 0) % Word = 0 /\ (Word * 1 + 0) % Word = 0
    BY <1>1, <2>1, DivMod
  <2>3. q + 1 = Word * (a + 1) + 0 /\ b + 1 = Word * 1 + 0
    <3>1. Word * a \in Int /\ Word * (a + 1) = Word * a + Word
      BY <1>1, <1>3
    <3> QED BY <1>1, <1>3, <2>1, <3>1
  <2> QED BY <1>2, <2>2, <2>3
<1> QED
  BY <1>4, <1>5

(* The carry between the words is right for data of less than 2^29 bytes.  *)
LEMMA CountIs ==
  ASSUME NEW L \in Nat, NEW n \in Nat, 8 * n < Word
  PROVE  Counted(CountOf(L), n) = CountOf(L + n)
<1>1. Word \in Nat /\ Word > 0
  BY BlockSizes
<1>2. PICK q, r : q = (8 * L) \div Word /\ r = (8 * L) % Word
  OBVIOUS
<1>3. q \in Nat /\ r \in 0..(Word - 1) /\ 8 * L = Word * q + r
  BY <1>1, <1>2, Divided
<1>4. PICK c : c = CountOf(L)
  OBVIOUS
<1>5. c[1] = r /\ c[2] = q % Word
  BY <1>2, <1>4 DEF CountOf
<1>6. PICK e : e = 8 * n
  OBVIOUS
<1>7. e \in 0..(Word - 1)
  BY <1>1, <1>6
<1>8. e \div Word = 0
  <2>1. (Word * 0 + e) \div Word = 0
    BY <1>1, <1>7, DivMod
  <2>2. Word * 0 + e = e
    BY <1>1, <1>7
  <2> QED BY <2>1, <2>2
<1>9. Counted(c, n) = <<(r + e) % Word, (c[2] + (IF (r + e) % Word < e THEN 1 ELSE 0) + 0) % Word>>
  BY <1>5, <1>6, <1>8 DEF Counted
<1>10. 8 * (L + n) = Word * q + (r + e)
  <2>1. Word * q \in Int
    BY <1>1, <1>3
  <2> QED BY <1>3, <1>6, <1>7, <2>1
<1>11. CASE r + e < Word
  <2>1. r + e \in 0..(Word - 1)
    BY <1>1, <1>3, <1>7, <1>11
  <2>2. (Word * q + (r + e)) \div Word = q /\ (Word * q + (r + e)) % Word = r + e
    BY <1>1, <1>3, <2>1, DivMod
  <2>3. (Word * 0 + (r + e)) % Word = r + e /\ Word * 0 + (r + e) = r + e
    BY <1>1, <2>1, DivMod
  <2>4. ~((r + e) % Word < e)
    BY <1>3, <1>7, <2>3
  <2>5. PICK z : z = q % Word
    OBVIOUS
  <2>6. z \in 0..(Word - 1)
    BY <1>1, <1>3, <2>5, Divided
  <2>7. (z + 0 + 0) % Word = z
    <3>1. (Word * 0 + z) % Word = z /\ Word * 0 + z = z
      BY <1>1, <2>6, DivMod
    <3> QED BY <2>6, <3>1
  <2>8. Counted(c, n) = <<r + e, z>>
    BY <1>5, <1>9, <2>3, <2>4, <2>5, <2>7
  <2> QED BY <1>4, <1>10, <2>2, <2>5, <2>8 DEF CountOf
<1>12. CASE ~(r + e < Word)
  <2>1. PICK s : s = r + e - Word
    OBVIOUS
  <2>2. s \in 0..(Word - 1) /\ s < e /\ r + e = Word + s
    BY <1>1, <1>3, <1>7, <1>12, <2>1
  <2>3. Word * q + (r + e) = Word * (q + 1) + s /\ r + e = Word * 1 + s /\ q + 1 \in Int
    <3>1. Word * q \in Int /\ Word * (q + 1) = Word * q + Word
      BY <1>1, <1>3
    <3> QED BY <1>1, <1>3, <2>2, <3>1
  <2>4. (Word * q + (r + e)) \div Word = q + 1 /\ (Word * q + (r + e)) % Word = s
    BY <1>1, <2>2, <2>3, DivMod
  <2>5. (r + e) % Word = s
    BY <1>1, <2>2, <2>3, DivMod
  <2>6. (c[2] + 1 + 0) % Word = (q + 1) % Word
    <3>1. q % Word \in 0..(Word - 1)
      BY <1>1, <1>3, Divided
    <3>2. (q % Word) + 1 + 0 = (q % Word) + 1
      BY <3>1
    <3> QED BY <1>3, <1>5, <3>2, NextCount
  <2>7. Counted(c, n) = <<s, (q + 1) % Word>>
    BY <1>9, <2>2, <2>5, <2>6
  <2> QED BY <1>4, <1>10, <2>4, <2>7 DEF CountOf
<1> QED
  BY <1>11, <1>12

(* The bytes that wait are those behind the last whole block.              *)
LEMMA WaitingIs ==
  ASSUME NEW L \in Nat
  PROVE  (CountOf(L)[1] \div 8) % Block = L % Block
<1>1. PICK w \in Nat : w > 0 /\ Word = Block * w * 8
  BY BlockSizes
<1>2. Block \in Nat /\ Block > 0 /\ Word \in Nat /\ Word > 0
  BY BlockSizes
<1>3. PICK v \in Nat : v = Block * w
  BY <1>2
<1>4. v > 0 /\ Word = v * 8
  BY <1>1, <1>2, <1>3
<1>5. PICK q, r : q = L \div v /\ r = L % v
  OBVIOUS
<1>6. q \in Nat /\ r \in 0..(v - 1) /\ L = v * q + r
  BY <1>3, <1>4, <1>5, Divided
<1>7. (8 * L) % Word = 8 * r
  <2>1. 8 * r \in 0..(Word - 1)
    BY <1>3, <1>4, <1>6
  <2>2. 8 * L = Word * q + 8 * r
    <3>1. PICK x \in Int : x = v * q
      BY <1>3, <1>6
    <3>2. (v * 8) * q = 8 * x
      BY <1>3, <1>6, <3>1
    <3> QED BY <1>4, <1>6, <3>1, <3>2
  <2>3. PICK e : e = 8 * r
    OBVIOUS
  <2>4. (Word * q + e) % Word = e
    BY <1>2, <1>6, <2>1, <2>3, DivMod
  <2> QED BY <2>2, <2>3, <2>4
<1>8. (8 * r) \div 8 = r
  <2>1. (8 * r + 0) \div 8 = r
    BY <1>3, <1>6, DivMod
  <2> QED BY <1>3, <1>6, <2>1
<1>9. PICK a, b : a = r \div Block /\ b = r % Block
  OBVIOUS
<1>10. a \in Nat /\ b \in 0..(Block - 1) /\ r = Block * a + b
  BY <1>2, <1>3, <1>6, <1>9, Divided
<1>11. L = Block * (w * q + a) + b /\ w * q + a \in Int
  <2>1. PICK x \in Int : x = w * q
    BY <1>1, <1>6
  <2>2. v * q = Block * x
    BY <1>1, <1>2, <1>3, <1>6, <2>1
  <2>3. Block * (x + a) = Block * x + Block * a
    BY <1>2, <1>10, <2>1
  <2>4. Block * x \in Int /\ Block * a \in Int
    BY <1>2, <1>10, <2>1
  <2> QED BY <1>6, <1>10, <2>1, <2>2, <2>3, <2>4
<1>12. L % Block = b
  BY <1>2, <1>10, <1>11, DivMod
<1> QED
  BY <1>7, <1>8, <1>9, <1>12 DEF CountOf
-----------------------------------------------------------------------------
(* The bytes there are: those of values, of the padding and of the length. *)
Bytes ==
  (UNION {Range(v) : v \in Values \cup {ZeroDate, ZeroNumber}}) \cup {One, Nul}
    \cup {<<"length", c, k>> : c \in Nat \X Nat, k \in Nat}

-----------------------------------------------------------------------------
(* Texts of bytes.                                                         *)
Texts == Seq(Bytes)
Join(s, t) == s \o t
Part(s, a, c) == SubSeq(s, a + 1, a + c)

(* The bytes of a joined text, and of a part of one.                       *)
LEMMA JoinIs ==
  ASSUME NEW s \in Texts, NEW t \in Texts
  PROVE  /\ Join(s, t) \in Texts /\ Len(Join(s, t)) = Len(s) + Len(t)
         /\ Len(s) \in Nat /\ Len(t) \in Nat
         /\ \A k \in 1..Len(s) : Join(s, t)[k] = s[k]
         /\ \A k \in 1..Len(t) : Join(s, t)[Len(s) + k] = t[k]
<1>1. PICK e : e = s \o t
  OBVIOUS
<1>2. e \in Seq(Bytes) /\ Len(e) = Len(s) + Len(t) /\ Len(s) \in Nat /\ Len(t) \in Nat
  BY <1>1 DEF Texts
<1>3. \A k \in 1..Len(s) : e[k] = s[k]
  BY <1>1 DEF Texts
<1>4. \A k \in 1..Len(t) : e[Len(s) + k] = t[k]
  BY <1>1 DEF Texts
<1> QED BY <1>1, <1>2, <1>3, <1>4 DEF Texts, Join

LEMMA PartIs ==
  ASSUME NEW s \in Texts, NEW a \in Nat, NEW c \in Nat, a + c <= Len(s)
  PROVE  /\ Part(s, a, c) \in Texts /\ Len(Part(s, a, c)) = c
         /\ \A k \in 1..c : Part(s, a, c)[k] = s[a + k]
<1>1. PICK e : e = SubSeq(s, a + 1, a + c)
  OBVIOUS
<1>2. e \in Seq(Bytes)
  BY <1>1 DEF Texts
<1>3. Len(e) = c
  BY <1>1 DEF Texts
<1>4. \A k \in 1..c : e[k] = s[a + k]
  BY <1>1 DEF Texts
<1> QED BY <1>1, <1>2, <1>3, <1>4 DEF Texts, Part

(* Texts with the same bytes are the same.                                 *)
LEMMA TextEqual ==
  ASSUME NEW s \in Texts, NEW t \in Texts, Len(s) = Len(t), \A k \in 1..Len(s) : s[k] = t[k]
  PROVE  s = t
BY SeqEqual DEF Texts

(* A part of a joined text: in front, at the seam, behind.                 *)
LEMMA PartFront ==
  ASSUME NEW s \in Texts, NEW t \in Texts, NEW a \in Nat, NEW c \in Nat, a + c <= Len(s)
  PROVE  Part(Join(s, t), a, c) = Part(s, a, c)
<1>1. PICK u : u = Join(s, t)
  OBVIOUS
<1>2. /\ u \in Texts /\ Len(u) = Len(s) + Len(t) /\ Len(s) \in Nat /\ Len(t) \in Nat
      /\ \A k \in 1..Len(s) : u[k] = s[k]
  BY <1>1, JoinIs
<1>3. a + c <= Len(u)
  BY <1>2
<1>4. PICK v, w : v = Part(u, a, c) /\ w = Part(s, a, c)
  OBVIOUS
<1>5. /\ v \in Texts /\ Len(v) = c /\ \A k \in 1..c : v[k] = u[a + k]
      /\ w \in Texts /\ Len(w) = c /\ \A k \in 1..c : w[k] = s[a + k]
  BY <1>2, <1>3, <1>4, PartIs
<1>6. ASSUME NEW k \in 1..c PROVE v[k] = w[k]
  <2>1. a + k \in 1..Len(s)
    BY <1>2
  <2> QED BY <1>2, <1>5, <2>1
<1> QED BY <1>1, <1>4, <1>5, <1>6, TextEqual

LEMMA PartBack ==
  ASSUME NEW s \in Texts, NEW t \in Texts, NEW a \in Nat, NEW c \in Nat, a + c <= Len(t)
  PROVE  Part(Join(s, t), Len(s) + a, c) = Part(t, a, c)
<1>1. PICK u : u = Join(s, t)
  OBVIOUS
<1>2. /\ u \in Texts /\ Len(u) = Len(s) + Len(t) /\ Len(s) \in Nat /\ Len(t) \in Nat
      /\ \A k \in 1..Len(t) : u[Len(s) + k] = t[k]
  BY <1>1, JoinIs
<1>3. PICK b \in Nat : b = Len(s) + a
  BY <1>2
<1>4. b + c <= Len(u)
  BY <1>2, <1>3
<1>5. PICK v, w : v = Part(u, b, c) /\ w = Part(t, a, c)
  OBVIOUS
<1>6. /\ v \in Texts /\ Len(v) = c /\ \A k \in 1..c : v[k] = u[b + k]
      /\ w \in Texts /\ Len(w) = c /\ \A k \in 1..c : w[k] = t[a + k]
  BY <1>2, <1>4, <1>5, PartIs
<1>7. ASSUME NEW k \in 1..c PROVE v[k] = w[k]
  <2>1. PICK m : m = a + k
    OBVIOUS
  <2>2. m \in 1..Len(t) /\ Len(s) + m = b + k
    BY <1>2, <1>3, <2>1
  <2> QED BY <1>2, <1>6, <2>1, <2>2
<1> QED BY <1>1, <1>3, <1>5, <1>6, <1>7, TextEqual

LEMMA PartSeam ==
  ASSUME NEW s \in Texts, NEW t \in Texts, NEW a \in Nat, NEW j \in Nat, Len(s) = a + j,
         NEW i \in Nat, i <= Len(t)
  PROVE  Part(Join(s, t), a, j + i) = Join(Part(s, a, j), Part(t, 0, i))
<1>1. PICK u : u = Join(s, t)
  OBVIOUS
<1>2. /\ u \in Texts /\ Len(u) = Len(s) + Len(t) /\ Len(s) \in Nat /\ Len(t) \in Nat
      /\ \A k \in 1..Len(s) : u[k] = s[k]
      /\ \A k \in 1..Len(t) : u[Len(s) + k] = t[k]
  BY <1>1, JoinIs
<1>3. PICK n \in Nat : n = j + i
  OBVIOUS
<1>4. a + n <= Len(u) /\ a + j <= Len(s) /\ 0 + i <= Len(t)
  BY <1>2, <1>3
<1>5. PICK v, h, d : v = Part(u, a, n) /\ h = Part(s, a, j) /\ d = Part(t, 0, i)
  OBVIOUS
<1>6. /\ v \in Texts /\ Len(v) = n /\ \A k \in 1..n : v[k] = u[a + k]
      /\ h \in Texts /\ Len(h) = j /\ \A k \in 1..j : h[k] = s[a + k]
      /\ d \in Texts /\ Len(d) = i /\ \A k \in 1..i : d[k] = t[0 + k]
  BY <1>2, <1>4, <1>5, PartIs
<1>7. PICK w : w = Join(h, d)
  OBVIOUS
<1>8. /\ w \in Texts /\ Len(w) = j + i
      /\ \A k \in 1..j : w[k] = h[k]
      /\ \A k \in 1..i : w[j + k] = d[k]
  <2>1. h \in Texts /\ d \in Texts /\ Len(h) = j /\ Len(d) = i
    BY <1>6
  <2> QED BY <1>7, <2>1, JoinIs
<1>9. ASSUME NEW k \in 1..n PROVE v[k] = w[k]
  <2>1. CASE k <= j
    <3>1. k \in 1..j /\ a + k \in 1..Len(s)
      BY <1>2, <2>1
    <3> QED BY <1>2, <1>6, <1>8, <3>1
  <2>2. CASE ~(k <= j)
    <3>1. PICK m \in 1..i : k = j + m
      <4>1. k - j \in 1..i /\ k = j + (k - j)
        BY <1>3, <2>2
      <4> QED BY <4>1
    <3>2. m \in 1..Len(t) /\ a + k = Len(s) + m /\ 0 + m = m
      BY <1>2, <3>1
    <3> QED BY <1>2, <1>6, <1>8, <3>1, <3>2
  <2> QED BY <2>1, <2>2
<1> QED BY <1>1, <1>3, <1>5, <1>6, <1>7, <1>8, <1>9, TextEqual

(* A text is a part of itself.                                             *)
LEMMA PartAll ==
  ASSUME NEW t \in Texts
  PROVE  Part(t, 0, Len(t)) = t
<1>1. Len(t) \in Nat /\ 0 + Len(t) <= Len(t)
  BY DEF Texts
<1>2. PICK d : d = Part(t, 0, Len(t))
  OBVIOUS
<1>3. d \in Texts /\ Len(d) = Len(t) /\ \A k \in 1..Len(t) : d[k] = t[0 + k]
  BY <1>1, <1>2, PartIs
<1>4. \A k \in 1..Len(t) : d[k] = t[k]
  BY <1>1, <1>3
<1> QED BY <1>2, <1>3, <1>4, TextEqual

LEMMA JoinAssociates ==
  ASSUME NEW r \in Texts, NEW s \in Texts, NEW t \in Texts
  PROVE  Join(Join(r, s), t) = Join(r, Join(s, t))
BY ConcatAssociative DEF Texts, Join
-----------------------------------------------------------------------------
(* Block b of a text, the blocks mixed into a state, and the context after *)
(* a text has been fed to it.                                              *)
BlockOf(T, b) == SubSeq(T, (b - 1) * Block + 1, b * Block)
Mixed(T, n) == <<"constants">> \o [b \in 1..n |-> BlockOf(T, b)]
Fed(T) ==
  [ state |-> Mixed(T, Len(T) \div Block), count |-> CountOf(Len(T)),
    buffer |-> SubSeq(T, (Len(T) \div Block) * Block + 1, Len(T)) ]

(* Block b lies behind b - 1 blocks.                                       *)
LEMMA BlockIsPart ==
  ASSUME NEW T, NEW b \in Nat, b >= 1
  PROVE  /\ BlockOf(T, b) = Part(T, Block * (b - 1), Block)
         /\ Block * (b - 1) \in Nat /\ Block * (b - 1) + Block = Block * b
<1>1. PICK x, y : x = Block * (b - 1) /\ y = Block * b
  OBVIOUS
<1>2. Block \in Nat
  BY BlockSizes
<1>3. x \in Nat /\ x + Block = y /\ (b - 1) * Block = x /\ b * Block = y
  <2>1. b - 1 \in Int /\ b - 1 >= 0 /\ b \in Int
    OBVIOUS
  <2>2. /\ Block * (b - 1) \in Int /\ Block * (b - 1) >= 0 /\ (b - 1) * Block = Block * (b - 1)
        /\ b * Block = Block * b /\ Block * (b - 1) = Block * b - Block /\ Block * b \in Int
    BY <2>1, Blocks
  <2> QED BY <1>1, <1>2, <2>2
<1> QED BY <1>1, <1>3 DEF BlockOf, Part

(* How many blocks of a text are mixed in, and how many bytes wait.        *)
LEMMA FedIs ==
  ASSUME NEW T \in Texts, NEW q \in Nat, NEW j \in 0..(Block - 1), Len(T) = Block * q + j
  PROVE  Fed(T) = [state |-> Mixed(T, q), count |-> CountOf(Len(T)), buffer |-> Part(T, Block * q, j)]
<1>1. Block \in Nat /\ Block > 0
  BY BlockSizes
<1>2. (Block * q + j) \div Block = q
  BY <1>1, DivMod
<1>3. q * Block = Block * q
  BY Blocks
<1> QED BY <1>2, <1>3 DEF Fed, Part

(* What follows a text leaves its whole blocks as they are.                *)
LEMMA MixedSame ==
  ASSUME NEW T \in Texts, NEW d \in Texts, NEW q \in Nat, Block * q <= Len(T)
  PROVE  Mixed(Join(T, d), q) = Mixed(T, q)
<1>1. ASSUME NEW b \in 1..q PROVE BlockOf(Join(T, d), b) = BlockOf(T, b)
  <2>1. b \in Nat /\ b >= 1 /\ b \in Int /\ q \in Int /\ b <= q
    OBVIOUS
  <2>2. Block * b <= Block * q /\ Block * b \in Int /\ Block * q \in Int
    BY <2>1, Blocks
  <2>3. PICK x : x = Block * (b - 1)
    OBVIOUS
  <2>4. /\ BlockOf(T, b) = Part(T, x, Block) /\ BlockOf(Join(T, d), b) = Part(Join(T, d), x, Block)
        /\ x \in Nat /\ x + Block = Block * b
    BY <2>1, <2>3, BlockIsPart
  <2>5. Block \in Nat /\ Len(T) \in Nat
    BY BlockSizes DEF Texts
  <2>6. x + Block <= Len(T)
    BY <2>2, <2>4, <2>5
  <2> QED BY <2>4, <2>5, <2>6, PartFront
<1> QED BY <1>1 DEF Mixed

(* A block, and then n more, are mixed into a state.                       *)
LEMMA MixedMore ==
  ASSUME NEW T, NEW q \in Nat, NEW n \in Nat
  PROVE  Append(Mixed(T, q), BlockOf(T, q + 1)) \o [b \in 1..n |-> BlockOf(T, q + 1 + b)]
           = Mixed(T, q + 1 + n)
<1> DEFINE S == {"constants"} \cup {BlockOf(T, b) : b \in Nat}
<1>1. \A b \in Nat : BlockOf(T, b) \in S
  OBVIOUS
<1>2. "constants" \in S
  OBVIOUS
<1> HIDE DEF S
<1>3. PICK B : \A b \in Nat : B[b] = BlockOf(T, b)
  <2>1. \A b \in Nat : [c \in Nat |-> BlockOf(T, c)][b] = BlockOf(T, b)
    OBVIOUS
  <2> QED BY <2>1
<1>4. ASSUME NEW m \in Nat
      PROVE  /\ Mixed(T, m) \in Seq(S) /\ Len(Mixed(T, m)) = m + 1
             /\ Mixed(T, m)[1] = "constants" /\ \A b \in 1..m : Mixed(T, m)[b + 1] = B[b]
  <2>1. PICK s : s = [b \in 1..m |-> BlockOf(T, b)]
    OBVIOUS
  <2>2. s \in [1..m -> S] /\ \A b \in 1..m : s[b] = B[b]
    BY <1>1, <1>3, <2>1
  <2>3. s \in Seq(S) /\ Len(s) = m
    BY <2>2
  <2>4. PICK e : e = <<"constants">> \o s
    OBVIOUS
  <2>5. e \in Seq(S) /\ Len(e) = m + 1 /\ e[1] = "constants" /\ \A b \in 1..m : e[b + 1] = s[b]
    BY <1>2, <2>3, <2>4
  <2> QED BY <2>1, <2>2, <2>4, <2>5 DEF Mixed
<1>5. PICK p, m : p = q + 1 + n /\ m = Mixed(T, p)
  OBVIOUS
<1>6. PICK f, a, d : /\ f = Mixed(T, q) /\ a = Append(f, BlockOf(T, q + 1))
                     /\ d = [b \in 1..n |-> BlockOf(T, q + 1 + b)]
  OBVIOUS
<1>7. p \in Nat /\ q + 1 \in Nat /\ \A b \in 1..n : q + 1 + b \in Nat
  BY <1>5
<1>8. /\ m \in Seq(S) /\ Len(m) = p + 1 /\ m[1] = "constants" /\ \A b \in 1..p : m[b + 1] = B[b]
  BY <1>4, <1>5, <1>7
<1>9. /\ f \in Seq(S) /\ Len(f) = q + 1 /\ f[1] = "constants" /\ \A b \in 1..q : f[b + 1] = B[b]
  BY <1>4, <1>6
<1>10. PICK e \in S : e = BlockOf(T, q + 1) /\ e = B[q + 1]
  BY <1>1, <1>3, <1>7
<1>11. a \in Seq(S) /\ Len(a) = q + 2 /\ a[q + 2] = e /\ \A k \in 1..(q + 1) : a[k] = f[k]
  BY <1>6, <1>9, <1>10
<1>12. d \in Seq(S) /\ Len(d) = n /\ \A b \in 1..n : d[b] = B[q + 1 + b]
  <2>1. d \in [1..n -> S]
    BY <1>1, <1>6, <1>7
  <2>2. d \in Seq(S) /\ Len(d) = n
    BY <2>1
  <2>3. \A b \in 1..n : d[b] = B[q + 1 + b]
    BY <1>3, <1>6, <1>7
  <2> QED BY <2>2, <2>3
<1>13. PICK s : s = a \o d
  OBVIOUS
<1>14. /\ s \in Seq(S) /\ Len(s) = (q + 2) + n
       /\ \A k \in 1..(q + 2) : s[k] = a[k] /\ \A b \in 1..n : s[(q + 2) + b] = d[b]
  <2>1. s \in Seq(S) /\ Len(s) = (q + 2) + n
    <3>1. a \in Seq(S) /\ d \in Seq(S) /\ Len(a) = q + 2 /\ Len(d) = n
      BY <1>11, <1>12
    <3>2. a \o d \in Seq(S)
      BY <3>1, ConcatProperties
    <3>3. Len(a \o d) = Len(a) + Len(d)
      BY <3>1, ConcatProperties
    <3> QED BY <1>13, <3>1, <3>2, <3>3
  <2>2. \A k \in 1..(q + 2) : s[k] = a[k]
    BY <1>11, <1>12, <1>13
  <2>3. \A b \in 1..n : s[(q + 2) + b] = d[b]
    BY <1>11, <1>12, <1>13
  <2> QED BY <2>1, <2>2, <2>3
<1>15. ASSUME NEW k \in 1..(p + 1) PROVE s[k] = m[k]
  <2>1. CASE k = 1
    <3>1. 1 \in 1..(q + 2) /\ 1 \in 1..(q + 1)
      OBVIOUS
    <3> QED BY <1>8, <1>9, <1>11, <1>14, <2>1, <3>1
  <2>2. CASE k \in 2..(q + 1)
    <3>1. PICK b \in 1..q : k = b + 1
      <4>1. k - 1 \in 1..q /\ k = (k - 1) + 1
        BY <2>2
      <4> QED BY <4>1
    <3>2. b \in 1..p /\ k \in 1..(q + 2) /\ k \in 1..(q + 1)
      BY <1>5, <2>2, <3>1
    <3> QED BY <1>8, <1>9, <1>11, <1>14, <3>1, <3>2
  <2>3. CASE k = q + 2
    <3>1. q + 1 \in 1..p /\ k = (q + 1) + 1 /\ k \in 1..(q + 2)
      BY <1>5, <2>3
    <3> QED BY <1>8, <1>10, <1>11, <1>14, <2>3, <3>1
  <2>4. CASE k > q + 2
    <3>1. PICK b \in 1..n : k = (q + 2) + b
      <4>1. k - (q + 2) \in 1..n /\ k = (q + 2) + (k - (q + 2))
        BY <1>5, <2>4
      <4> QED BY <4>1
    <3>2. PICK c \in 1..p : c = q + 1 + b /\ k = c + 1
      <4>1. q + 1 + b \in 1..p /\ k = (q + 1 + b) + 1
        BY <1>5, <3>1
      <4> QED BY <4>1
    <3>3. m[k] = B[c] /\ s[k] = d[b] /\ d[b] = B[c]
      BY <1>8, <1>12, <1>14, <3>1, <3>2
    <3> QED BY <3>3
  <2> QED BY <2>1, <2>2, <2>3, <2>4
<1>16. Len(s) = p + 1
  BY <1>5, <1>14
<1>17. s = m
  BY <1>8, <1>14, <1>15, <1>16, SeqEqual
<1> QED BY <1>5, <1>6, <1>13, <1>17

(* The context of Init is one to which nothing has been fed.               *)
LEMMA Starting == Fresh = Fed(<<>>)
<1>1. Block \in Nat /\ Block > 0 /\ Word \in Nat /\ Word > 0 /\ Len(<<>>) = 0
  BY BlockSizes
<1>2. ASSUME NEW m \in Nat, m > 0 PROVE 0 \div m = 0 /\ 0 % m = 0
  <2>1. (m * 0 + 0) \div m = 0 /\ (m * 0 + 0) % m = 0
    BY <1>2, DivMod
  <2>2. m * 0 + 0 = 0
    OBVIOUS
  <2> QED BY <2>1, <2>2
<1>3. CountOf(0) = <<0, 0>>
  BY <1>1, <1>2 DEF CountOf
<1>4. 0 \div Block = 0 /\ 0 * Block + 1 = 1
  BY <1>1, <1>2
<1>5. Mixed(<<>>, 0) = <<"constants">>
  <2>1. [b \in 1..0 |-> BlockOf(<<>>, b)] = <<>>
    OBVIOUS
  <2>2. <<"constants">> \in Seq({"constants"})
    OBVIOUS
  <2>3. <<"constants">> \o <<>> = <<"constants">>
    BY <2>2, ConcatEmptySeq
  <2> QED BY <2>1, <2>3 DEF Mixed
<1>6. SubSeq(<<>>, 1, 0) = <<>>
  OBVIOUS
<1> QED
  BY <1>1, <1>3, <1>4, <1>5, <1>6 DEF Fed, Fresh
-----------------------------------------------------------------------------
(* Feeding data to a context to which T has been fed is feeding it T and   *)
(* data at once: the bytes may be cut anywhere (sha1/sha1.c:198-222),      *)
(* whether data fits behind the waiting bytes, or completes their block    *)
(* and is taken block by block from there.                                 *)
THEOREM UpdateFed ==
  ASSUME NEW T \in Texts, NEW data \in Texts, 8 * Len(data) < Word
  PROVE  Update(Fed(T), data) = Fed(Join(T, data))
<1>1. Block \in Nat /\ Block > 0 /\ Len(T) \in Nat /\ Len(data) \in Nat
  BY BlockSizes DEF Texts
<1>2. PICK L, len, q, j : L = Len(T) /\ len = Len(data) /\ q = L \div Block /\ j = L % Block
  OBVIOUS
<1>3. q \in Nat /\ j \in 0..(Block - 1) /\ L = Block * q + j
  BY <1>1, <1>2, Divided
<1>4. PICK x \in Nat : x = Block * q
  BY <1>1, <1>3
<1>lin. /\ L = Len(T) /\ len = Len(data) /\ L \in Nat /\ len \in Nat
        /\ Block \in Nat /\ q \in Nat /\ x \in Nat /\ j \in Nat /\ j < Block /\ L = x + j
  BY <1>1, <1>2, <1>3, <1>4
<1>5. PICK ctx, held : ctx = Fed(T) /\ held = Part(T, x, j)
  OBVIOUS
<1>6. ctx.state = Mixed(T, q) /\ ctx.count = CountOf(L) /\ ctx.buffer = held
  <2>1. L = Block * q + j /\ L = Len(T) /\ q \in Nat /\ j \in 0..(Block - 1)
    BY <1>2, <1>3
  <2>2. Fed(T) = [state |-> Mixed(T, q), count |-> CountOf(L), buffer |-> Part(T, Block * q, j)]
    BY <2>1, FedIs
  <2> QED BY <1>4, <1>5, <2>2
<1>7. held \in Texts /\ Len(held) = j
  <2>1. x \in Nat /\ j \in Nat /\ x + j <= Len(T)
    BY <1>lin
  <2> QED BY <1>5, <2>1, PartIs
<1>8. SubSeq(held, 1, j) = held
  BY <1>7, SubSeqFull DEF Texts
<1>9. Waiting(ctx) = j
  BY <1>2, <1>6, <1>lin, WaitingIs DEF Waiting
<1>10. PICK U : U = Join(T, data)
  OBVIOUS
<1>11. U \in Texts /\ Len(U) = L + len
  BY <1>2, <1>10, JoinIs
<1>12. Counted(ctx.count, len) = CountOf(Len(U))
  BY <1>2, <1>6, <1>11, <1>lin, CountIs
<1>13. Mixed(U, q) = Mixed(T, q)
  <2>1. Block * q <= Len(T)
    BY <1>4, <1>lin
  <2> QED BY <1>3, <1>10, <2>1, MixedSame
<1>14. CASE j + len < Block
  <2>1. Completing(ctx, data) = 0
    <3>1. ~(Waiting(ctx) + Len(data) >= Block)
      BY <1>lin, <1>9, <1>14
    <3> QED BY <3>1 DEF Completing
  <2>2. Update(ctx, data) = [state |-> ctx.state, count |-> Counted(ctx.count, len), buffer |-> Join(held, data)]
    BY <1>2, <1>6, <1>8, <1>9, <2>1 DEF Update, Join
  <2>3. PICK r \in 0..(Block - 1) : r = j + len
    BY <1>lin, <1>14
  <2>4. Len(U) = Block * q + r
    <3>1. Len(U) = x + r
      BY <1>lin, <1>11, <2>3
    <3> QED BY <1>4, <3>1
  <2>5. Fed(U) = [state |-> Mixed(U, q), count |-> CountOf(Len(U)), buffer |-> Part(U, x, r)]
    BY <1>3, <1>4, <1>11, <2>4, FedIs
  <2>6. Part(U, x, r) = Join(held, data)
    <3>1. Part(U, x, j + len) = Join(held, Part(data, 0, len))
      <4>1. x \in Nat /\ j \in Nat /\ len \in Nat /\ len <= Len(data) /\ Len(T) = x + j
        BY <1>lin
      <4> QED BY <1>5, <1>10, <4>1, PartSeam
    <3>2. Part(data, 0, len) = data
      BY <1>2, PartAll
    <3> QED BY <2>3, <3>1, <3>2
  <2> QED BY <1>5, <1>6, <1>10, <1>12, <1>13, <2>2, <2>5, <2>6
<1>15. CASE ~(j + len < Block)
  <2>1. PICK i, n, r : i = Block - j /\ n = (len - i) \div Block /\ r = (len - i) % Block
    OBVIOUS
  <2>2. i \in 1..Block /\ i <= len /\ len - i \in Nat /\ j + i = Block
    BY <1>lin, <1>15, <2>1
  <2>3. n \in Nat /\ r \in 0..(Block - 1) /\ len - i = Block * n + r
    BY <1>1, <2>1, <2>2, Divided
  <2>4. PICK y \in Nat : y = Block * n
    BY <1>1, <2>3
  <2>5. n * Block = y
    BY <2>3, <2>4, Blocks
  <2>lin. /\ i \in Nat /\ i > 0 /\ i <= len /\ j + i = Block
          /\ n \in Nat /\ r \in Nat /\ y \in Nat /\ r < Block
          /\ len = i + y + r
    BY <1>lin, <2>2, <2>3, <2>4
  <2>6. Completing(ctx, data) = i /\ Direct(ctx, data) = n /\ i # 0
    <3>1. Waiting(ctx) = j /\ Len(data) = len /\ j + len >= Block
      BY <1>9, <1>lin, <1>15
    <3>2. Completing(ctx, data) = i
      BY <2>1, <3>1 DEF Completing
    <3>3. i # 0
      BY <2>lin
    <3> QED BY <2>1, <3>1, <3>2, <3>3 DEF Direct
  <2>7. PICK p : p = q + 1 + n
    OBVIOUS
  <2>8. p \in Nat /\ Block * p = x + Block + y
    <3>1. Block * (q + 1) = x + Block /\ q + 1 \in Int /\ n \in Int
      BY <1>3, <1>4, <2>3, Blocks
    <3>2. Block * ((q + 1) + n) = Block * (q + 1) + Block * n
      BY <3>1, Blocks
    <3>3. p \in Nat
      BY <1>3, <2>3, <2>7
    <3> QED BY <2>4, <2>7, <3>1, <3>2, <3>3
  <2>9. Fed(U) = [state |-> Mixed(U, p), count |-> CountOf(Len(U)), buffer |-> Part(U, x + Block + y, r)]
    <3>1. Len(U) = (x + Block + y) + r
      BY <1>lin, <1>11, <2>lin
    <3>2. Len(U) = Block * p + r
      BY <2>8, <3>1
    <3>3. Fed(U) = [state |-> Mixed(U, p), count |-> CountOf(Len(U)), buffer |-> Part(U, Block * p, r)]
      BY <1>11, <2>3, <2>8, <3>2, FedIs
    <3> QED BY <2>8, <3>3
  <2>10. PICK e, d : e = Join(held, Part(data, 0, i)) /\ d = [b \in 1..n |-> DirectBlock(ctx, data, b)]
    OBVIOUS
  <2>11. Update(ctx, data) =
           [state |-> Append(ctx.state, e) \o d, count |-> Counted(ctx.count, len),
            buffer |-> Part(data, i + y, r)]
    <3>1. SubSeq(data, 1, i) = Part(data, 0, i)
      BY <2>lin DEF Part
    <3>2. SubSeq(data, i + y + 1, len) = Part(data, i + y, r)
      BY <2>lin DEF Part
    <3>3. e = held \o SubSeq(data, 1, i)
      BY <2>10, <3>1 DEF Join
    <3>4. Update(ctx, data) =
           [state |-> Append(ctx.state, held \o SubSeq(data, 1, i)) \o d, count |-> Counted(ctx.count, len),
            buffer |-> SubSeq(data, i + y + 1, len)]
      BY <1>2, <1>6, <1>8, <1>9, <2>5, <2>6, <2>10 DEF Update
    <3> QED BY <3>2, <3>3, <3>4
  <2>12. e = BlockOf(U, q + 1)
    <3>1. Part(U, x, j + i) = e
      <4>1. x \in Nat /\ j \in Nat /\ i \in Nat /\ i <= Len(data) /\ Len(T) = x + j
        BY <1>lin, <2>lin
      <4> QED BY <1>5, <1>10, <2>10, <4>1, PartSeam
    <3>2. PICK b \in Nat : b = q + 1
      BY <1>3
    <3>3. b >= 1 /\ b - 1 = q
      BY <1>3, <3>2
    <3>4. BlockOf(U, b) = Part(U, x, Block)
      BY <1>4, <3>3, BlockIsPart
    <3> QED BY <2>2, <3>1, <3>2, <3>4
  <2>13. ASSUME NEW b \in 1..n
         PROVE  d[b] = BlockOf(U, q + 1 + b)
    <3>1. PICK z : z = Block * (b - 1)
      OBVIOUS
    <3>2. z \in Nat /\ z + Block <= y /\ (b - 1) * Block = z
      <4>1. b - 1 \in Int /\ b - 1 >= 0 /\ b \in Int /\ n \in Int /\ b <= n
        BY <2>3
      <4>2. Block * (b - 1) \in Int /\ Block * (b - 1) >= 0 /\ (b - 1) * Block = Block * (b - 1)
        BY <4>1, Blocks
      <4>3. Block * (b - 1) = Block * b - Block /\ Block * b <= Block * n /\ Block * b \in Int
        BY <4>1, Blocks
      <4> QED BY <1>1, <2>4, <3>1, <4>2, <4>3
    <3>3. PICK s, v : s = DirectBlock(ctx, data, b) /\ v = Part(data, i + z, Block)
      OBVIOUS
    <3>4. s = [k \in 1..Block |-> data[(i + z) + k]]
      BY <2>6, <3>2, <3>3 DEF DirectBlock
    <3>5. i + z \in Nat /\ (i + z) + Block <= Len(data)
      BY <1>lin, <2>lin, <3>2
    <3>6. v \in Texts /\ Len(v) = Block /\ \A k \in 1..Block : v[k] = data[(i + z) + k]
      BY <1>1, <3>3, <3>5, PartIs
    <3>7. v = [k \in 1..Block |-> v[k]]
      <4>1. v \in Seq(Bytes)
        BY <3>6 DEF Texts
      <4> QED BY <3>6, <4>1
    <3>8. s = v
      BY <3>4, <3>6, <3>7
    <3>9. Part(U, L + (i + z), Block) = v
      BY <1>1, <1>2, <1>10, <3>3, <3>5, PartBack
    <3>10. PICK c \in Nat : c = q + 1 + b
      BY <1>3
    <3>11. c >= 1 /\ Block * (c - 1) = x + Block + z
      <4>1. c - 1 = (q + 1) + (b - 1) /\ q + 1 \in Int /\ b - 1 \in Int /\ c >= 1
        BY <1>3, <3>10
      <4>2. Block * ((q + 1) + (b - 1)) = Block * (q + 1) + Block * (b - 1)
        BY <4>1, Blocks
      <4>3. Block * (q + 1) = x + Block
        BY <1>3, <1>4, Blocks
      <4> QED BY <3>1, <4>1, <4>2, <4>3
    <3>12. BlockOf(U, c) = Part(U, x + Block + z, Block)
      BY <3>11, BlockIsPart
    <3>13. L + (i + z) = x + Block + z
      BY <1>lin, <2>lin, <3>2
    <3> QED BY <2>10, <3>3, <3>8, <3>9, <3>10, <3>12, <3>13
  <2>14. Append(ctx.state, e) \o d = Mixed(U, p)
    <3>1. d = [b \in 1..n |-> BlockOf(U, q + 1 + b)]
      BY <2>10, <2>13
    <3>2. Append(Mixed(U, q), BlockOf(U, q + 1)) \o [b \in 1..n |-> BlockOf(U, q + 1 + b)]
            = Mixed(U, q + 1 + n)
      BY <1>3, <2>3, MixedMore
    <3>3. ctx.state = Mixed(U, q)
      BY <1>6, <1>13
    <3> QED BY <2>7, <2>12, <3>1, <3>2, <3>3
  <2>15. Part(U, x + Block + y, r) = Part(data, i + y, r)
    <3>1. i + y \in Nat /\ r \in Nat /\ (i + y) + r <= Len(data)
      BY <1>lin, <2>lin
    <3>2. Part(U, L + (i + y), r) = Part(data, i + y, r)
      BY <1>2, <1>10, <3>1, PartBack
    <3>3. L + (i + y) = x + Block + y
      BY <1>lin, <2>lin
    <3> QED BY <3>2, <3>3
  <2> QED BY <1>5, <1>10, <1>12, <2>9, <2>11, <2>14, <2>15
<1> QED
  BY <1>14, <1>15
-----------------------------------------------------------------------------
(* The padding: a one and n zeros behind a message.                        *)
Zeros(n) == [k \in 1..n |-> Nul]
Behind(M, n) == Join(Join(M, <<One>>), Zeros(n))

(* The padding and the length field are texts, and short.                  *)
LEMMA ByteTexts ==
  /\ <<One>> \in Texts /\ Len(<<One>>) = 1 /\ <<Nul>> \in Texts /\ Len(<<Nul>>) = 1
  /\ 8 * 1 < Word /\ 8 * LenBytes < Word
  /\ \A n \in Nat : Zeros(n) \in Texts /\ Len(Zeros(n)) = n
  /\ \A count \in Nat \X Nat : LengthField(count) \in Texts /\ Len(LengthField(count)) = LenBytes
<1>1. One \in Bytes /\ Nul \in Bytes
  BY DEF Bytes
<1>2. \A b \in Bytes : <<b>> \in Texts /\ Len(<<b>>) = 1
  BY DEF Texts
<1>3. ASSUME NEW n \in Nat PROVE Zeros(n) \in Texts /\ Len(Zeros(n)) = n
  <2>1. Zeros(n) \in [1..n -> Bytes]
    BY <1>1 DEF Zeros
  <2> QED BY <2>1 DEF Texts
<1>4. ASSUME NEW count \in Nat \X Nat
      PROVE  LengthField(count) \in Texts /\ Len(LengthField(count)) = LenBytes
  <2>1. LenBytes \in Nat
    BY BlockSizes
  <2>2. \A k \in 1..LenBytes : <<"length", count, k>> \in Bytes
    BY <2>1 DEF Bytes
  <2>3. LengthField(count) \in [1..LenBytes -> Bytes]
    BY <2>2 DEF LengthField
  <2> QED BY <2>1, <2>3 DEF Texts
<1>5. 8 * 1 < Word /\ 8 * LenBytes < Word
  <2>1. PICK w \in Nat : w > 0 /\ Word = Block * w * 8
    BY BlockSizes
  <2>2. Block \in Nat /\ LenBytes \in 1..(Block - 1)
    BY BlockSizes
  <2>3. PICK v : v = Block * w
    OBVIOUS
  <2>4. v \in Nat /\ v >= Block
    BY <2>1, <2>2, <2>3
  <2>5. Word = v * 8
    BY <2>1, <2>3
  <2> QED BY <2>2, <2>4, <2>5
<1> QED BY <1>1, <1>2, <1>3, <1>4, <1>5

(* One zero more makes the next padding.                                   *)
LEMMA BehindIs ==
  ASSUME NEW M \in Texts, NEW n \in Nat
  PROVE  /\ Behind(M, n) \in Texts /\ Len(Behind(M, n)) = Len(M) + 1 + n /\ Len(M) \in Nat
         /\ Behind(M, 0) = Join(M, <<One>>)
         /\ Join(Behind(M, n), <<Nul>>) = Behind(M, n + 1)
<1>1. PICK t : t = Join(M, <<One>>)
  OBVIOUS
<1>2. t \in Texts /\ Len(t) = Len(M) + 1 /\ Len(M) \in Nat
  BY <1>1, ByteTexts, JoinIs
<1>3. /\ Zeros(n) \in Texts /\ Len(Zeros(n)) = n
      /\ Zeros(n + 1) \in Texts /\ Len(Zeros(n + 1)) = n + 1
      /\ <<Nul>> \in Texts /\ Len(<<Nul>>) = 1
  BY ByteTexts
<1>4. Behind(M, n) \in Texts /\ Len(Behind(M, n)) = Len(M) + 1 + n
  <2>1. PICK u : u = Zeros(n)
    OBVIOUS
  <2>2. u \in Texts /\ Len(u) = n
    BY <1>3, <2>1
  <2>3. Join(t, u) \in Texts /\ Len(Join(t, u)) = Len(t) + Len(u)
    BY <1>2, <2>2, JoinIs
  <2> QED BY <1>1, <1>2, <2>1, <2>2, <2>3 DEF Behind
<1>5. Zeros(0) = <<>>
  BY DEF Zeros
<1>6. Behind(M, 0) = t
  BY <1>1, <1>2, <1>5, ConcatEmptySeq DEF Behind, Join, Texts
<1>7. Join(Zeros(n), <<Nul>>) = Zeros(n + 1)
  <2>1. PICK u, v, s, o : u = Join(s, o) /\ v = Zeros(n + 1) /\ s = Zeros(n) /\ o = <<Nul>>
    OBVIOUS
  <2>0. s \in Texts /\ o \in Texts /\ Len(s) = n /\ Len(o) = 1
    BY <1>3, <2>1
  <2>2. /\ u \in Texts /\ Len(u) = n + 1
        /\ \A k \in 1..n : u[k] = s[k]
        /\ \A k \in 1..1 : u[n + k] = o[k]
    BY <2>0, <2>1, JoinIs
  <2>3. o[1] = Nul /\ 1 \in 1..1 /\ \A k \in 1..n : s[k] = Nul
    BY <2>1 DEF Zeros
  <2>5. u[n + 1] = Nul /\ \A k \in 1..n : u[k] = Nul
    BY <2>2, <2>3
  <2>6. \A k \in 1..(n + 1) : v[k] = Nul
    BY <2>1 DEF Zeros
  <2>4. \A k \in 1..(n + 1) : u[k] = v[k]
    BY <2>5, <2>6
  <2> QED BY <1>3, <2>1, <2>2, <2>4, TextEqual
<1>8. Join(Behind(M, n), <<Nul>>) = Behind(M, n + 1)
  BY <1>1, <1>2, <1>3, <1>7, JoinAssociates DEF Behind
<1> QED BY <1>1, <1>2, <1>4, <1>6, <1>8

(* Final reads of the context how many bytes wait.                         *)
LEMMA FedWaits ==
  ASSUME NEW T \in Texts
  PROVE  Waiting(Fed(T)) = Len(T) % Block /\ Fed(T).count = CountOf(Len(T))
<1>1. Len(T) \in Nat
  BY DEF Texts
<1> QED BY <1>1, WaitingIs DEF Waiting, Fed

(* The zeros that Complete adds are those that reach the length field.     *)
LEMMA NulsAre ==
  ASSUME NEW L \in Nat
  PROVE  \E z \in 0..(Block - 1) :
           /\ z = CHOOSE n \in 0..(Block - 1) : (L + 1 + n + LenBytes) % Block = 0
           /\ (L + 1 + z + LenBytes) % Block = 0
           /\ (L + 1 + z) % Block = Block - LenBytes
           /\ \A n \in 0..(Block - 1) : n < z => (L + 1 + n) % Block # Block - LenBytes
<1>1. Block \in Nat /\ Block > 0 /\ LenBytes \in 1..(Block - 1)
  BY BlockSizes
<1>2. PICK q, r : q = (L + 1 + LenBytes) \div Block /\ r = (L + 1 + LenBytes) % Block
  OBVIOUS
<1>3. q \in Nat /\ r \in 0..(Block - 1) /\ L + 1 + LenBytes = Block * q + r
  BY <1>1, <1>2, Divided
<1>4. PICK x \in Nat : x = Block * q
  BY <1>1, <1>3
<1>5. Block * (q + 1) = x + Block /\ q + 1 \in Int /\ Block * (q - 1) = x - Block /\ q - 1 \in Int
  BY <1>3, <1>4, Blocks
<1>6. L + 1 + LenBytes = x + r
  BY <1>3, <1>4
<1>lin. Block \in Nat /\ LenBytes \in Nat /\ LenBytes < Block /\ LenBytes >= 1 /\ x \in Nat /\ r \in 0..(Block - 1) /\ L + 1 + LenBytes = x + r
  BY <1>1, <1>3, <1>4, <1>6
<1>7. ASSUME NEW n \in 0..(Block - 1), (L + 1 + n + LenBytes) % Block = 0
      PROVE  r + n = 0 \/ r + n = Block
  <2>1. CASE r + n < Block
    <3>1. PICK s \in 0..(Block - 1) : s = r + n
      BY <1>lin, <2>1
    <3>2. (Block * q + s) % Block = s
      BY <1>1, <1>3, DivMod
    <3>3. L + 1 + n + LenBytes = x + s
      BY <1>lin, <3>1
    <3> QED BY <1>4, <1>7, <3>1, <3>2, <3>3
  <2>2. CASE ~(r + n < Block)
    <3>1. PICK s \in 0..(Block - 1) : s = r + n - Block
      BY <1>lin, <2>2
    <3>2. (Block * (q + 1) + s) % Block = s
      BY <1>1, <1>5, DivMod
    <3>3. L + 1 + n + LenBytes = (x + Block) + s
      BY <1>lin, <3>1
    <3>4. s = 0
      BY <1>5, <1>7, <3>2, <3>3
    <3> QED BY <1>lin, <3>1, <3>4
  <2> QED BY <2>1, <2>2
<1>8. \E n \in 0..(Block - 1) : (L + 1 + n + LenBytes) % Block = 0
  <2>1. CASE r = 0
    <3>1. (Block * q + 0) % Block = 0
      BY <1>1, <1>3, DivMod
    <3>2. L + 1 + 0 + LenBytes = x + 0
      BY <1>lin, <2>1
    <3>3. 0 \in 0..(Block - 1)
      BY <1>lin
    <3> QED BY <1>4, <3>1, <3>2, <3>3
  <2>2. CASE r # 0
    <3>1. (Block * (q + 1) + 0) % Block = 0
      <4>1. 0 \in 0..(Block - 1)
        BY <1>lin
      <4> QED BY <1>1, <1>5, <4>1, DivMod
    <3>2. PICK n \in 0..(Block - 1) : n = Block - r
      BY <1>lin, <2>2
    <3>3. L + 1 + n + LenBytes = (x + Block) + 0
      BY <1>lin, <3>2
    <3> QED BY <1>5, <3>1, <3>3
  <2> QED BY <2>1, <2>2
<1>9. PICK z : z = CHOOSE n \in 0..(Block - 1) : (L + 1 + n + LenBytes) % Block = 0
  OBVIOUS
<1>10. z \in 0..(Block - 1) /\ (L + 1 + z + LenBytes) % Block = 0
  BY <1>8, <1>9
<1>z. z \in 0..(Block - 1)
  BY <1>10
<1>11. r + z = 0 \/ r + z = Block
  BY <1>7, <1>10
<1>12. (L + 1 + z) % Block = Block - LenBytes
  <2>1. PICK s \in 0..(Block - 1) : s = Block - LenBytes
    BY <1>lin
  <2>2. CASE r + z = Block
    <3>1. (Block * q + s) % Block = s
      <4>1. q \in Int /\ s \in 0..(Block - 1)
        BY <1>3, <2>1
      <4> QED BY <1>1, <4>1, DivMod
    <3>2. L + 1 + z = x + s
      BY <1>lin, <1>10, <2>1, <2>2
    <3> QED BY <1>4, <2>1, <3>1, <3>2
  <2>3. CASE r + z = 0
    <3>1. (Block * (q - 1) + s) % Block = s
      BY <1>1, <1>5, DivMod
    <3>2. L + 1 + z = (x - Block) + s
      BY <1>lin, <1>10, <2>1, <2>3
    <3> QED BY <1>5, <2>1, <3>1, <3>2
  <2> QED BY <1>11, <2>2, <2>3
<1>13. ASSUME NEW n \in 0..(Block - 1), n < z PROVE (L + 1 + n) % Block # Block - LenBytes
  <2>1. r + z = Block
    BY <1>lin, <1>10, <1>11, <1>13
  <2>2. CASE r + n >= LenBytes
    <3>1. PICK s \in 0..(Block - 1) : s = r + n - LenBytes
      BY <1>lin, <1>10, <1>13, <2>1, <2>2
    <3>2. (Block * q + s) % Block = s
      BY <1>1, <1>3, DivMod
    <3>3. L + 1 + n = x + s
      BY <1>lin, <3>1
    <3>4. s # Block - LenBytes
      BY <1>lin, <1>10, <1>13, <2>1, <3>1
    <3> QED BY <1>4, <3>2, <3>3, <3>4
  <2>3. CASE ~(r + n >= LenBytes)
    <3>1. PICK s \in 0..(Block - 1) : s = r + n - LenBytes + Block
      BY <1>lin, <2>3
    <3>2. (Block * (q - 1) + s) % Block = s
      BY <1>1, <1>5, DivMod
    <3>3. L + 1 + n = (x - Block) + s
      BY <1>lin, <3>1
    <3>4. CASE r + n # 0
      <4>1. s # Block - LenBytes
        BY <1>lin, <3>1, <3>4
      <4> QED BY <1>5, <3>2, <3>3, <4>1
    <3>5. CASE r + n = 0
      <4>1. r = 0 /\ z = Block
        BY <1>lin, <1>z, <2>1, <3>5
      <4> QED BY <1>lin, <1>z, <4>1
    <3> QED BY <3>4, <3>5
  <2> QED BY <2>2, <2>3
<1> QED
  BY <1>9, <1>10, <1>12, <1>13
-----------------------------------------------------------------------------
(* Final pads a context as Complete pads a text: one zero after the other  *)
(* until the length field fits.                                            *)
LEMMA PaddedFed ==
  ASSUME NEW M \in Texts, NEW z \in 0..(Block - 1),
         (Len(M) + 1 + z) % Block = Block - LenBytes,
         \A n \in 0..(Block - 1) : n < z => (Len(M) + 1 + n) % Block # Block - LenBytes
  PROVE  Padded(Fed(M)) = Fed(Behind(M, z))
<1> DEFINE Step(pad) ==
      [k \in 0..Block |->
         IF k = 0 THEN Update(Fed(M), <<One>>)
         ELSE IF Waiting(pad[k - 1]) = Block - LenBytes THEN pad[k - 1]
         ELSE Update(pad[k - 1], <<Nul>>)]
<1> DEFINE least(k) == IF k < z THEN k ELSE z
           P == [k \in 0..Block |-> Fed(Behind(M, least(k)))]
<1>1. Block \in Nat /\ Block > 0 /\ z \in Nat /\ z < Block
  BY BlockSizes
<1>2. ASSUME NEW n \in Nat
      PROVE  /\ Waiting(Fed(Behind(M, n))) = (Len(M) + 1 + n) % Block
             /\ Update(Fed(Behind(M, n)), <<Nul>>) = Fed(Behind(M, n + 1))
  <2>1. PICK T : T = Behind(M, n)
    OBVIOUS
  <2>2. T \in Texts /\ Len(T) = Len(M) + 1 + n /\ Join(T, <<Nul>>) = Behind(M, n + 1)
    BY <2>1, BehindIs
  <2>3. Waiting(Fed(T)) = (Len(M) + 1 + n) % Block
    BY <2>2, FedWaits
  <2>4. Update(Fed(T), <<Nul>>) = Fed(Join(T, <<Nul>>))
    BY <2>2, ByteTexts, UpdateFed
  <2> QED BY <2>1, <2>2, <2>3, <2>4
<1>3. Update(Fed(M), <<One>>) = Fed(Behind(M, 0))
  <2>1. Update(Fed(M), <<One>>) = Fed(Join(M, <<One>>))
    BY ByteTexts, UpdateFed
  <2>2. Behind(M, 0) = Join(M, <<One>>)
    BY BehindIs
  <2> QED BY <2>1, <2>2
<1>4. ASSUME NEW k \in 1..Block
      PROVE  P[k] = IF Waiting(P[k - 1]) = Block - LenBytes THEN P[k - 1] ELSE Update(P[k - 1], <<Nul>>)
  <2>1. k - 1 \in 0..Block /\ k \in 0..Block /\ k - 1 \in Nat /\ (k - 1) + 1 = k
    BY <1>1
  <2>2. P[k] = Fed(Behind(M, least(k))) /\ P[k - 1] = Fed(Behind(M, least(k - 1)))
    BY <2>1
  <2> HIDE DEF P
  <2>3. CASE k - 1 < z
    <3>1. least(k) = k /\ least(k - 1) = k - 1
      BY <1>1, <2>1, <2>3
    <3>2. Waiting(P[k - 1]) = (Len(M) + 1 + (k - 1)) % Block
      BY <1>2, <2>1, <2>2, <3>1
    <3>3. (Len(M) + 1 + (k - 1)) % Block # Block - LenBytes
      <4>1. k - 1 \in 0..(Block - 1)
        BY <1>1
      <4> QED BY <2>3, <4>1
    <3>4. Update(P[k - 1], <<Nul>>) = Fed(Behind(M, k))
      BY <1>2, <2>1, <2>2, <3>1
    <3> QED BY <2>2, <3>1, <3>2, <3>3, <3>4
  <2>4. CASE ~(k - 1 < z)
    <3>1. least(k) = z /\ least(k - 1) = z
      BY <1>1, <2>1, <2>4
    <3>2. Waiting(P[k - 1]) = (Len(M) + 1 + z) % Block
      BY <1>1, <1>2, <2>2, <3>1
    <3> QED BY <2>2, <3>1, <3>2
  <2> QED BY <2>3, <2>4
<1>5. P = Step(P)
  <2>1. 0 \in 0..Block /\ P[0] = Fed(Behind(M, 0))
    BY <1>1
  <2>2. ASSUME NEW k \in 0..Block
        PROVE  P[k] = IF k = 0 THEN Update(Fed(M), <<One>>)
                      ELSE IF Waiting(P[k - 1]) = Block - LenBytes THEN P[k - 1]
                      ELSE Update(P[k - 1], <<Nul>>)
    <3>1. k # 0 => k \in 1..Block
      BY <1>1
    <3> HIDE DEF P
    <3> QED BY <1>3, <1>4, <2>1, <3>1
  <2>3. P = [k \in 0..Block |-> P[k]]
    OBVIOUS
  <2> HIDE DEF P
  <2> QED BY <2>2, <2>3
<1>6. PICK pad : pad = CHOOSE p : p = Step(p)
  OBVIOUS
<1>7. pad = Step(pad)
  <2> HIDE DEF P, Step
  <2> QED BY <1>5, <1>6
<1>8. /\ pad[0] = Update(Fed(M), <<One>>)
      /\ \A k \in 1..Block : pad[k] = IF Waiting(pad[k - 1]) = Block - LenBytes THEN pad[k - 1]
                                      ELSE Update(pad[k - 1], <<Nul>>)
  <2>1. \A k \in 0..Block : pad[k] = Step(pad)[k]
    <3> HIDE DEF Step
    <3> QED BY <1>7
  <2>2. 0 \in 0..Block /\ \A k \in 1..Block : k \in 0..Block /\ k # 0
    BY <1>1
  <2> HIDE DEF P
  <2> QED BY <2>1, <2>2
<1>9. P[0] = Update(Fed(M), <<One>>)
  BY <1>1, <1>3
<1>10. pad[Block] = P[Block]
  <2> DEFINE D == {k \in 0..Block : pad[k] # P[k]}
  <2> HIDE DEF P, Step
  <2> SUFFICES ASSUME D # {} PROVE FALSE
    BY <1>1
  <2>1. D \subseteq Nat
    BY <1>1
  <2>2. PICK d \in D : \A e \in D : d <= e
    <3> HIDE DEF D
    <3> QED BY <2>1, LeastElement
  <2>3. d # 0 /\ d \in 0..Block
    BY <1>8, <1>9
  <2>4. d \in 1..Block /\ d - 1 \in 0..Block /\ d - 1 < d
    BY <1>1, <2>3
  <2>5. pad[d - 1] = P[d - 1]
    BY <2>2, <2>4
  <2>6. pad[d] = P[d]
    BY <1>4, <1>8, <2>4, <2>5
  <2> QED BY <2>6
<1>11. P[Block] = Fed(Behind(M, z))
  BY <1>1
<1>12. Padded(Fed(M)) = pad[Block]
  <2> HIDE DEF P
  <2> QED BY <1>6 DEF Padded
<1> QED BY <1>10, <1>11, <1>12
-----------------------------------------------------------------------------
(* What aae_SHA1_Final makes of a context to which M has been fed, by      *)
(* padding it byte by byte and adding the bit count, is SHA-1 of M.        *)
THEOREM FinalFed ==
  ASSUME NEW M \in Texts
  PROVE  Final(Fed(M)) = Sha1Of(M)
<1>1. PICK L \in Nat : L = Len(M)
  BY DEF Texts
<1>2. PICK z \in 0..(Block - 1) :
        /\ z = CHOOSE n \in 0..(Block - 1) : (L + 1 + n + LenBytes) % Block = 0
        /\ (L + 1 + z + LenBytes) % Block = 0
        /\ (L + 1 + z) % Block = Block - LenBytes
        /\ \A n \in 0..(Block - 1) : n < z => (L + 1 + n) % Block # Block - LenBytes
  BY NulsAre
<1>3. Padded(Fed(M)) = Fed(Behind(M, z))
  BY <1>1, <1>2, PaddedFed
<1>4. Block \in Nat /\ Block > 0 /\ LenBytes \in Nat /\ z \in Nat /\ Word \in Nat /\ Word > 0
  BY BlockSizes
<1>5. PICK count : count = CountOf(L)
  OBVIOUS
<1>6. count \in Nat \X Nat
  <2>1. 8 * L \in Nat
    OBVIOUS
  <2>2. (8 * L) % Word \in Nat /\ (8 * L) \div Word \in Nat
    <3>1. (8 * L) % Word \in 0..(Word - 1) /\ (8 * L) \div Word \in Nat
      BY <1>4, <2>1, Divided
    <3> QED BY <1>4, <3>1
  <2>3. ((8 * L) \div Word) % Word \in Nat
    <3>1. ((8 * L) \div Word) % Word \in 0..(Word - 1)
      BY <1>4, <2>2, Divided
    <3> QED BY <1>4, <3>1
  <2> QED BY <1>5, <2>2, <2>3 DEF CountOf
<1>7. PICK B, F : B = Behind(M, z) /\ F = LengthField(count)
  OBVIOUS
<1>8. B \in Texts /\ Len(B) = L + 1 + z
  BY <1>1, <1>4, <1>7, BehindIs
<1>9. F \in Texts /\ Len(F) = LenBytes /\ 8 * Len(F) < Word
  BY <1>6, <1>7, ByteTexts
<1>10. PICK C : C = Join(B, F)
  OBVIOUS
<1>11. Update(Fed(B), F) = Fed(C)
  BY <1>8, <1>9, <1>10, UpdateFed
<1>12. C \in Texts /\ Len(C) = (L + 1 + z) + LenBytes
  BY <1>8, <1>9, <1>10, JoinIs
<1>13. Final(Fed(M)) = Mixed(C, Len(C) \div Block)
  <2>1. Fed(M).count = count
    BY <1>1, <1>5, FedWaits
  <2>2. Final(Fed(M)) = Fed(C).state
    BY <1>3, <1>7, <1>11, <2>1 DEF Final
  <2> QED BY <2>2 DEF Fed
<1>14. C = Complete(M)
  <2>1. <<(8 * L) % Word, ((8 * L) \div Word) % Word>> = count
    BY <1>5 DEF CountOf
  <2>2. C = M \o <<One>> \o [k \in 1..z |-> Nul] \o LengthField(count)
    BY <1>7, <1>10 DEF Behind, Join, Zeros
  <2> QED BY <1>1, <1>2, <2>1, <2>2 DEF Complete
<1> QED
  BY <1>13, <1>14 DEF Sha1Of, Mixed, BlockOf
-----------------------------------------------------------------------------
(* The list under the receiver: its steps are steps of the list.           *)
LEMMA StepList ==
  ASSUME [Next]_vars
  PROVE  [ListNext]_listVars
<1>1. CASE UNCHANGED vars
  BY <1>1 DEF vars
<1>2. ASSUME Delete \/ (\E m \in [Keys -> Values] : Take(m)) PROVE UNCHANGED listVars
  BY <1>2 DEF Delete, Take
<1>3. ASSUME NEW k \in Keys, LookUp(k) PROVE ListNext
  BY <1>3 DEF LookUp, ListNext
<1>4. ASSUME ReceiverStep PROVE [ListNext]_listVars
  BY <1>4 DEF ReceiverStep, SkipSystem, Search, Sum, Crash, Finish, ListNext
<1>5. ASSUME LockList PROVE ListNext
  BY <1>5 DEF LockList, ListNext
<1>6. ASSUME ChangeList PROVE ListNext
  BY <1>6 DEF ChangeList, ListNext
<1>7. ASSUME UnlockList PROVE ListNext
  BY <1>7 DEF UnlockList, ListNext
<1>8. ASSUME Dead PROVE UNCHANGED listVars
  BY <1>8 DEF Dead, vars
<1> QED
  BY <1>1, <1>2, <1>3, <1>4, <1>5, <1>6, <1>7, <1>8 DEF Next

(* All the receiver does to the filter list is what FilterList says: what  *)
(* is proved of the list holds under it (inputmsg.cpp:43-60).              *)
THEOREM ListKept == Spec => ListSpec
<1>1. Init => ListInit
  BY DEF Init
<1> QED
  BY <1>1, StepList, PTL DEF Spec, ListSpec

-----------------------------------------------------------------------------
(* The values of the columns up to i, normalised and joined, each with a   *)
(* function that its column had.                                           *)
Follows(g, i, m, hd) ==
  /\ g \in [0..i -> Texts] /\ g[0] = <<>>
  /\ \A n \in 1..i :
       IF n \in Keys THEN \E h \in hd[n] : g[n] = Join(g[n - 1], Normal(h, m[n]))
       ELSE g[n] = g[n - 1]

Mutex == (owner = "receiver" <=> rpc = "search") /\ (owner = "reactor" <=> mpc # "idle")

(* Where the handler is, and which column it looks up.                     *)
HandlerOK ==
  /\ hpc \in {"idle", "columns", "dead"}
  /\ hpc = "idle" => rpc = "idle"
  /\ hpc = "columns" => msg \in [Keys -> Values] /\ todo \subseteq Names
  /\ hpc = "columns" /\ rpc # "idle" => key \in Keys /\ At(key)

HadNow == hpc = "columns" => \A k \in Keys : Lookups(k) \subseteq had[k] /\ had[k] \subseteq FuncOrNull

(* What a lookup has found, unless an add came between.                    *)
Found ==
  hpc = "columns" /\ ~raced =>
    /\ rpc = "read" =>
         /\ rst.gen = gen /\ mpc # "sort"
         /\ IF rst.slot = 0 THEN NULL \in had[key]
            ELSE rst.slot \in DOMAIN array /\ array[rst.slot].key = key
    /\ rpc = "got" => got \in had[key]

(* The context is that of the columns visited so far.                      *)
Summed ==
  hpc = "columns" /\ ~raced =>
    \E i \in 0..LastColumn : \E g :
      /\ Follows(g, i, msg, had) /\ sha = Fed(g[i])
      /\ \A k \in Keys : k \in todo <=> k > i

DigestInv == Mutex /\ HandlerOK /\ HadNow /\ Found /\ Summed

-----------------------------------------------------------------------------
(* The columns are numbers up to a last one.                               *)
LEMMA ColumnsBounded ==
  /\ LastColumn \in Nat /\ LastColumn \in Keys \cup {0}
  /\ \A k \in Keys : k \in 1..LastColumn /\ k \in Nat /\ k > 0
  /\ Names \subseteq Nat
<1>1. LastColumn \in Keys \cup {0} /\ \A k \in Keys : k <= LastColumn
  BY ReceiverAssumption DEF LastColumn
<1>2. Keys \subseteq Nat \ {0} /\ SysKeys \subseteq Nat
  BY ReceiverAssumption, ListAssumption
<1> QED
  BY <1>1, <1>2 DEF Names

(* Normalised values are texts that Update counts right.                   *)
LEMMA NormalIs ==
  ASSUME NEW f, NEW v \in Values
  PROVE  Normal(f, v) \in Texts /\ 8 * Len(Normal(f, v)) < Word
<1>1. Normal(f, v) \in Values \cup {ZeroDate, ZeroNumber}
  BY DEF Normal
<1>2. ASSUME NEW u \in Values \cup {ZeroDate, ZeroNumber} PROVE u \in Texts /\ 8 * Len(u) < Word
  <2>1. u \in Seq(Range(u)) /\ 8 * Len(u) < Word
    BY TextAssumption
  <2>2. Range(u) \subseteq Bytes
    BY DEF Bytes
  <2>3. \A i \in 1..Len(u) : u[i] \in Range(u)
    BY <2>1
  <2>4. u \in [1..Len(u) -> Bytes] /\ Len(u) \in Nat
    BY <2>1, <2>2, <2>3
  <2> QED BY <2>1, <2>4 DEF Texts
<1> QED
  BY <1>1, <1>2

(* The next column joins the others.                                       *)
LEMMA FollowsNext ==
  ASSUME NEW i \in Nat, NEW g, NEW m \in [Keys -> Values], NEW hd, Follows(g, i, m, hd),
         NEW k \in Keys, k > i, \A n \in Keys : n > i => n >= k, NEW h \in hd[k]
  PROVE  \E e : Follows(e, k, m, hd) /\ e[k] = Join(g[i], Normal(h, m[k])) /\ g[i] \in Texts
<1>1. /\ g \in [0..i -> Texts] /\ g[0] = <<>>
      /\ \A n \in 1..i :
           IF n \in Keys THEN \E f \in hd[n] : g[n] = Join(g[n - 1], Normal(f, m[n]))
           ELSE g[n] = g[n - 1]
  BY DEF Follows
<1>2. k \in Nat /\ \A n \in Keys : n \in Nat
  BY ColumnsBounded
<1>3. g[i] \in Texts
  BY <1>1
<1>4. PICK t : t = Join(g[i], Normal(h, m[k]))
  OBVIOUS
<1>5. t \in Texts
  BY <1>3, <1>4, NormalIs, JoinIs
<1> DEFINE e == [n \in 0..k |-> IF n <= i THEN g[n] ELSE IF n < k THEN g[i] ELSE t]
<1>6. e \in [0..k -> Texts] /\ e[0] = <<>>
  BY <1>1, <1>2, <1>3, <1>5
<1>7. /\ \A n \in 0..i : e[n] = g[n]
      /\ \A n \in 0..k : n >= i /\ n < k => e[n] = g[i]
      /\ e[k] = t
  BY <1>2
<1> HIDE DEF e
<1>8. ASSUME NEW n \in 1..k
      PROVE  IF n \in Keys THEN \E f \in hd[n] : e[n] = Join(e[n - 1], Normal(f, m[n]))
             ELSE e[n] = e[n - 1]
  <2>1. CASE n <= i
    <3>1. n \in 1..i /\ n \in 0..i /\ n - 1 \in 0..i
      BY <1>2, <2>1
    <3> QED BY <1>1, <1>7, <3>1
  <2>2. CASE n > i /\ n < k
    <3>1. n \in 0..k /\ n - 1 \in 0..k /\ n - 1 >= i /\ n - 1 < k /\ n >= i
      BY <1>2, <2>2
    <3>2. n \notin Keys
      BY <1>2, <2>2
    <3> QED BY <1>7, <2>2, <3>1, <3>2
  <2>3. CASE n = k
    <3>1. k - 1 \in 0..k /\ k - 1 >= i /\ k - 1 < k
      BY <1>2
    <3> QED BY <1>4, <1>7, <2>3, <3>1
  <2> QED BY <1>2, <2>1, <2>2, <2>3
<1> QED
  BY <1>3, <1>4, <1>6, <1>7, <1>8 DEF Follows

(* With more functions remembered, what follows still does.                *)
LEMMA FollowsMore ==
  ASSUME NEW i \in Nat, NEW g, NEW m, NEW hd, NEW hd2, Follows(g, i, m, hd),
         \A k \in Keys : hd[k] \subseteq hd2[k]
  PROVE  Follows(g, i, m, hd2)
BY DEF Follows
-----------------------------------------------------------------------------
(* A context fed with all columns ends as the digest of a record.          *)
LEMMA DigestOfColumns ==
  ASSUME NEW g, NEW m \in [Keys -> Values], NEW hd, Follows(g, LastColumn, m, hd),
         \A k \in Keys : hd[k] \subseteq FuncOrNull
  PROVE  \E f \in [Keys -> FuncOrNull] :
           (\A k \in Keys : f[k] \in hd[k]) /\ Final(Fed(g[LastColumn])) = RecordDigest(m, f)
<1>1. PICK last \in Nat : last = LastColumn
  BY ColumnsBounded
<1>2. /\ g \in [0..last -> Texts] /\ g[0] = <<>>
      /\ \A n \in 1..last :
           IF n \in Keys THEN \E h \in hd[n] : g[n] = Join(g[n - 1], Normal(h, m[n]))
           ELSE g[n] = g[n - 1]
  BY <1>1 DEF Follows
<1> DEFINE f == [k \in Keys |-> CHOOSE h \in hd[k] : g[k] = Join(g[k - 1], Normal(h, m[k]))]
<1>3. ASSUME NEW k \in Keys PROVE f[k] \in hd[k] /\ g[k] = Join(g[k - 1], Normal(f[k], m[k]))
  <2>1. k \in 1..last
    BY <1>1, ColumnsBounded
  <2>2. \E h \in hd[k] : g[k] = Join(g[k - 1], Normal(h, m[k]))
    BY <1>2, <2>1
  <2> QED BY <2>2
<1>4. f \in [Keys -> FuncOrNull]
  BY <1>3
<1> HIDE DEF f
<1> DEFINE Step(p) ==
      [n \in 0..last |->
         IF n = 0 THEN <<>>
         ELSE IF n \in Keys THEN p[n - 1] \o Normal(f[n], m[n])
         ELSE p[n - 1]]
<1>5. \A n \in 1..last : g[n] = IF n \in Keys THEN g[n - 1] \o Normal(f[n], m[n]) ELSE g[n - 1]
  BY <1>2, <1>3 DEF Join
<1>6. g = Step(g)
  <2>1. ASSUME NEW n \in 0..last PROVE n # 0 => n \in 1..last
    OBVIOUS
  <2> QED BY <1>2, <1>5, <2>1
<1>7. PICK joined : joined = CHOOSE p : p = Step(p)
  OBVIOUS
<1>8. joined = Step(joined)
  <2> HIDE DEF Step
  <2> QED BY <1>6, <1>7
<1>9. /\ joined[0] = <<>>
      /\ \A n \in 1..last : joined[n] = IF n \in Keys THEN joined[n - 1] \o Normal(f[n], m[n]) ELSE joined[n - 1]
  <2>1. \A n \in 0..last : joined[n] = Step(joined)[n]
    <3> HIDE DEF Step
    <3> QED BY <1>8
  <2>2. 0 \in 0..last /\ \A n \in 1..last : n \in 0..last /\ n # 0
    OBVIOUS
  <2> QED BY <2>1, <2>2
<1>10. joined[last] = g[last]
  <2> DEFINE D == {n \in 0..last : joined[n] # g[n]}
  <2> HIDE DEF Step
  <2> SUFFICES ASSUME D # {} PROVE FALSE
    OBVIOUS
  <2>1. D \subseteq Nat
    OBVIOUS
  <2>2. PICK d \in D : \A e \in D : d <= e
    <3> HIDE DEF D
    <3> QED BY <2>1, LeastElement
  <2>3. d # 0 /\ d \in 0..last
    BY <1>2, <1>9
  <2>4. d \in 1..last /\ d - 1 \in 0..last /\ ~(d <= d - 1)
    BY <2>3
  <2>5. joined[d - 1] = g[d - 1]
    BY <2>2, <2>4
  <2>6. joined[d] = g[d]
    BY <1>5, <1>9, <2>4, <2>5
  <2> QED BY <2>6
<1>11. RecordDigest(m, f) = Sha1Of(joined[last])
  BY <1>1, <1>7 DEF RecordDigest
<1>12. g[last] \in Texts
  BY <1>2
<1>13. Final(Fed(g[last])) = RecordDigest(m, f)
  BY <1>10, <1>11, <1>12, FinalFed
<1> QED
  BY <1>1, <1>3, <1>4, <1>13
-----------------------------------------------------------------------------
(* The invariant holds at the start and through every step.                *)
LEMMA InitDigestInv ==
  ASSUME Init
  PROVE  DigestInv
BY DEF Init, ListInit, HandlerInit, DigestInv, Mutex, HandlerOK, HadNow, Found, Summed

(* What functions a column has is a matter of the array alone.             *)
LEMMA LookupsOfArray ==
  ASSUME ListInv, NEW k \in Keys
  PROVE  Lookups(k) \subseteq FuncOrNull
<1>1. array \in Seq(Entry)
  BY DEF ListInv, ListTypeOK
<1>2. ASSUME NEW i \in DOMAIN array PROVE array[i].func \in FuncOrNull
  <2>1. array[i] \in Entry
    BY <1>1
  <2> QED BY <2>1 DEF Entry
<1>3. Slots(k) \subseteq DOMAIN array
  BY DEF Slots
<1> QED
  BY <1>2, <1>3 DEF Lookups, FuncOrNull

(* A message is taken: nothing is summed yet.                              *)
LEMMA TakeDigestInv ==
  ASSUME ListInv, DigestInv, NEW m \in [Keys -> Values], Take(m)
  PROVE  DigestInv'
<1> USE DEF Take, listVars, list, reactor, receiver, DigestInv
<1>1. Mutex'
  BY DEF Mutex
<1>2. HandlerOK'
  BY DEF HandlerOK
<1>3. HadNow'
  <2>1. \A k \in Keys : Lookups(k)' = Lookups(k) /\ had'[k] = Lookups(k)
    BY DEF Lookups, Slots
  <2> QED BY <2>1, LookupsOfArray DEF HadNow
<1>4. Found'
  BY DEF Found, HandlerOK
<1>5. Summed'
  <2>1. Fresh = Fed(<<>>) /\ <<>> \in Texts
    BY Starting DEF Texts
  <2> DEFINE g == [n \in 0..0 |-> <<>>]
  <2>2. Follows(g, 0, msg', had') /\ g[0] = <<>>
    BY <2>1 DEF Follows
  <2> HIDE DEF g
  <2>3. \A k \in Keys : k \in todo' <=> k > 0
    BY ColumnsBounded DEF Names
  <2>4. 0 \in 0..LastColumn
    BY ColumnsBounded
  <2> QED BY <2>1, <2>2, <2>3, <2>4 DEF Summed
<1> QED
  BY <1>1, <1>2, <1>3, <1>4, <1>5

(* Steps that leave the handler, its lookup and the array as they are.     *)
LEMMA QuietDigestInv ==
  ASSUME DigestInv, UNCHANGED <<array, gen, rpc, key, rst, got, hpc, msg, todo, sha, had, raced>>,
         Mutex', mpc' = "sort" => mpc = "sort"
  PROVE  DigestInv'
<1> USE DEF DigestInv
<1>1. HandlerOK'
  BY DEF HandlerOK, At
<1>2. HadNow'
  BY DEF HadNow, Lookups, Slots
<1>3. Found'
  BY DEF Found
<1>4. Summed'
  BY DEF Summed
<1> QED
  BY <1>1, <1>2, <1>3, <1>4

(* A system key is passed over between two columns.                        *)
LEMMA SkipDigestInv ==
  ASSUME DigestInv, NEW n \in SysKeys, SkipSystem(n)
  PROVE  DigestInv'
<1> USE DEF SkipSystem, listVars, list, reactor, receiver, DigestInv
<1>1. Mutex'
  BY DEF Mutex
<1>2. n \notin Keys /\ hpc = "columns"
  BY ReceiverAssumption DEF At
<1>3. rpc = "idle"
  <2> SUFFICES ASSUME rpc # "idle" PROVE FALSE
    OBVIOUS
  <2>1. key \in Keys /\ At(key) /\ todo \subseteq Names
    BY <1>2 DEF HandlerOK
  <2>2. key \in Nat /\ n \in Nat /\ key <= n /\ n <= key
    BY <2>1, ColumnsBounded DEF At, Names
  <2> QED BY <1>2, <2>1, <2>2
<1>4. HandlerOK'
  BY <1>3 DEF HandlerOK
<1>5. HadNow'
  BY DEF HadNow, Lookups, Slots
<1>6. Found'
  BY DEF Found
<1>7. Summed'
  BY <1>2 DEF Summed
<1> QED
  BY <1>1, <1>4, <1>5, <1>6, <1>7

(* A column's lookup takes the mutex.                                      *)
LEMMA LookUpDigestInv ==
  ASSUME DigestInv, NEW k \in Keys, LookUp(k)
  PROVE  DigestInv'
<1> USE DEF LookUp, GetLock, handler, list, reactor, DigestInv
<1>1. Mutex'
  BY DEF Mutex
<1>2. HandlerOK'
  BY DEF HandlerOK, At
<1>3. HadNow'
  BY DEF HadNow, Lookups, Slots
<1>4. Found'
  BY DEF Found
<1>5. Summed'
  BY DEF Summed
<1> QED
  BY <1>1, <1>2, <1>3, <1>4, <1>5

(* Under the mutex the array is sorted: a search that finds nothing means  *)
(* that there is nothing.                                                  *)
LEMMA SearchDigestInv ==
  ASSUME ListInv, DigestInv, GetSearch, UNCHANGED handler
  PROVE  DigestInv'
<1> USE DEF GetSearch, handler, list, reactor, DigestInv
<1>1. rpc = "search" /\ mpc = "idle" /\ owner = "receiver" /\ Sorted(array)
  BY DEF Mutex, ListInv, ListSound
<1>7. DOMAIN array = 1..Len(array) /\ Len(array) \in Nat
  BY DEF ListInv, ListTypeOK
<1>2. Mutex'
  BY <1>1 DEF Mutex
<1>3. HandlerOK'
  BY DEF HandlerOK, At
<1>4. HadNow'
  BY DEF HadNow, Lookups, Slots
<1>5. Found'
  <2> SUFFICES ASSUME hpc = "columns"
               PROVE  /\ rst'.gen = gen' /\ mpc' # "sort"
                      /\ IF rst'.slot = 0 THEN NULL \in had'[key']
                         ELSE rst'.slot \in DOMAIN array' /\ array'[rst'.slot].key = key'
    BY DEF Found
  <2>1. key \in Keys
    BY <1>1 DEF HandlerOK
  <2>2. PICK i \in Bsearch(key) : rst' = [gen |-> gen, slot |-> i]
    OBVIOUS
  <2>3. CASE Slots(key) = {}
    <3>1. i = 0 /\ NULL \in Lookups(key)
      BY <2>2, <2>3 DEF Bsearch, Lookups
    <3>2. NULL \in had[key]
      BY <2>1, <3>1 DEF HadNow
    <3> QED BY <1>1, <2>2, <3>1, <3>2
  <2>4. CASE Slots(key) # {}
    <3>1. i \in DOMAIN array /\ array[i].key = key
      BY <1>1, <2>2, <2>4 DEF Bsearch, Slots
    <3>2. i # 0
      BY <3>1, <1>7
    <3> QED BY <1>1, <2>2, <3>1, <3>2
  <2> QED BY <2>3, <2>4
<1>6. Summed'
  BY DEF Summed
<1> QED
  BY <1>2, <1>3, <1>4, <1>5, <1>6

(* What a lookup reads through its pointer is a function of its column.    *)
LEMMA ReadDigestInv ==
  ASSUME ListInv, DigestInv, GetRead, UNCHANGED handler
  PROVE  DigestInv'
<1> USE DEF GetRead, handler, list, reactor, DigestInv
<1>1. Mutex'
  BY DEF Mutex
<1>2. HandlerOK'
  BY DEF HandlerOK, At
<1>3. HadNow'
  BY DEF HadNow, Lookups, Slots
<1>4. Found'
  <2> SUFFICES ASSUME hpc = "columns", ~raced PROVE got' \in had[key]
    BY DEF Found
  <2>1. key \in Keys
    BY DEF HandlerOK
  <2>2. CASE rst.slot = 0
    BY <2>2 DEF Read, Found
  <2>3. CASE rst.slot # 0
    <3>1. /\ rst.gen = gen /\ mpc # "sort"
          /\ rst.slot \in DOMAIN array /\ array[rst.slot].key = key
      BY <2>3 DEF Found
    <3>2. got' = array[rst.slot].func
      BY <2>3, <3>1 DEF Read
    <3>3. rst.slot \in Slots(key)
      BY <3>1 DEF Slots
    <3>4. got' \in Lookups(key)
      BY <3>2, <3>3 DEF Lookups
    <3> QED BY <2>1, <3>4 DEF HadNow
  <2> QED BY <2>2, <2>3
<1>5. Summed'
  BY DEF Summed
<1> QED
  BY <1>1, <1>2, <1>3, <1>4, <1>5

(* A column is summed: the context is fed with what the digest of a record *)
(* joins next.                                                             *)
LEMMA SumDigestInv ==
  ASSUME DigestInv, NEW k \in Keys, Sum(k)
  PROVE  DigestInv'
<1> USE DEF Sum, Normalize, list, reactor, DigestInv
<1>1. Mutex'
  BY DEF Mutex
<1>2. hpc = "columns" /\ rpc = "got" /\ key \in Keys /\ At(key) /\ At(k) /\ todo \subseteq Names
  BY DEF HandlerOK, At
<1>3. key = k /\ k \in todo /\ \A n \in todo : n \in Nat /\ k <= n
  <2>1. \A n \in Names : n \in Nat
    BY ColumnsBounded
  <2>2. key \in Nat /\ k \in Nat /\ key <= k /\ k <= key
    BY <1>2, ColumnsBounded DEF At
  <2>3. k \in todo /\ \A n \in todo : n \in Nat /\ k <= n
    BY <1>2, <2>1 DEF At
  <2> QED BY <2>2, <2>3
<1>4. HandlerOK'
  BY <1>2 DEF HandlerOK
<1>5. HadNow'
  BY DEF HadNow, Lookups, Slots
<1>6. Found'
  BY DEF Found
<1>7. Summed'
  <2> SUFFICES ASSUME ~raced
               PROVE  \E i \in 0..LastColumn : \E g :
                        /\ Follows(g, i, msg, had) /\ sha' = Fed(g[i])
                        /\ \A c \in Keys : c \in todo' <=> c > i
    BY DEF Summed
  <2>0. PICK i \in 0..LastColumn : \E g :
          /\ Follows(g, i, msg, had) /\ sha = Fed(g[i])
          /\ \A c \in Keys : c \in todo <=> c > i
    BY <1>2 DEF Summed
  <2>1. PICK g :
          /\ Follows(g, i, msg, had) /\ sha = Fed(g[i])
          /\ \A c \in Keys : c \in todo <=> c > i
    BY <2>0
  <2>2. i \in Nat /\ k \in 0..LastColumn /\ LastColumn \in Nat /\ \A c \in Keys : c \in Nat
    BY <2>1, ColumnsBounded
  <2>3. got \in had[k] /\ msg \in [Keys -> Values]
    BY <1>2, <1>3 DEF Found, HandlerOK
  <2>4. k > i /\ \A n \in Keys : n > i => n >= k
    BY <1>3, <2>1, <2>2
  <2>5. PICK e : /\ Follows(e, k, msg, had) /\ e[k] = Join(g[i], Normal(got, msg[k]))
                 /\ g[i] \in Texts
    BY <2>1, <2>2, <2>3, <2>4, FollowsNext
  <2>6. Normal(got, msg[k]) \in Texts /\ 8 * Len(Normal(got, msg[k])) < Word
    BY <2>3, NormalIs
  <2>7. sha' = Fed(e[k])
    BY <2>1, <2>5, <2>6, UpdateFed
  <2>8. ASSUME NEW c \in Keys PROVE c \in todo' <=> c > k
    <3>1. c \in Nat /\ k \in Nat /\ i \in Nat
      BY <2>2
    <3>2. c \in todo' <=> c \in todo /\ c # k
      OBVIOUS
    <3>3. c \in todo <=> c > i
      BY <2>1
    <3>4. c > i => c >= k
      BY <2>4
    <3> QED BY <2>4, <3>1, <3>2, <3>3, <3>4
  <2> QED BY <2>2, <2>5, <2>7, <2>8
<1> QED
  BY <1>1, <1>4, <1>5, <1>6, <1>7

(* The reactor changes the list: what a column had is remembered, and an   *)
(* add that meets a lookup is noted.                                       *)
LEMMA ChangeDigestInv ==
  ASSUME ListInv, ListInv', DigestInv, ChangeList
  PROVE  DigestInv'
<1> USE DEF DigestInv
<1>1. /\ UNCHANGED <<owner, rpc, key, rst, got, hpc, call, msg, todo, sha>>
      /\ raced => raced'
  <2>1. UNCHANGED <<owner, rpc, key, rst, got, hpc, call, msg, todo, sha>>
    BY DEF ChangeList, AddEnlarge, AddAppend, AddSort, RmClear, receiver, reactor
  <2>2. raced => raced'
    BY Zenon DEF ChangeList
  <2> QED BY <2>1, <2>2
<1>2. mpc # "idle" /\ mpc' # "idle"
  BY DEF ChangeList, AddEnlarge, AddAppend, AddSort, RmClear, reactor
<1>3. Mutex'
  BY <1>1, <1>2 DEF Mutex
<1>4. HandlerOK'
  BY <1>1 DEF HandlerOK, At
<1>5. hpc = "columns" => \A k \in Keys : had'[k] = had[k] \cup Lookups(k)'
  BY DEF ChangeList, Noted
<1>6. HadNow'
  <2>1. \A k \in Keys : Lookups(k)' \subseteq FuncOrNull
    <3> SUFFICES ASSUME NEW k \in Keys PROVE Lookups(k)' \subseteq FuncOrNull
      OBVIOUS
    <3>1. array' \in Seq(Entry)
      BY DEF ListInv, ListTypeOK
    <3>2. ASSUME NEW i \in DOMAIN array' PROVE array'[i].func \in FuncOrNull
      <4>1. array'[i] \in Entry
        BY <3>1
      <4> QED BY <4>1 DEF Entry
    <3>3. Slots(k)' \subseteq DOMAIN array'
      BY DEF Slots
    <3> QED BY <3>2, <3>3 DEF Lookups, FuncOrNull
  <2> QED BY <1>1, <1>5, <2>1 DEF HadNow
<1>7. Found'
  <2> SUFFICES ASSUME hpc = "columns", ~raced'
               PROVE  /\ rpc = "read" =>
                           /\ rst.gen = gen' /\ mpc' # "sort"
                           /\ IF rst.slot = 0 THEN NULL \in had'[key]
                              ELSE rst.slot \in DOMAIN array' /\ array'[rst.slot].key = key
                      /\ rpc = "got" => got \in had'[key]
    BY <1>1 DEF Found
  <2>1. ~raced
    BY <1>1
  <2>2. rpc # "idle" => key \in Keys /\ had[key] \subseteq had'[key]
    BY <1>5 DEF HandlerOK
  <2>3. rpc = "got" => got \in had'[key]
    BY <2>1, <2>2 DEF Found
  <2>4. ASSUME rpc = "read"
        PROVE  /\ rst.gen = gen' /\ mpc' # "sort"
               /\ IF rst.slot = 0 THEN NULL \in had'[key]
                  ELSE rst.slot \in DOMAIN array' /\ array'[rst.slot].key = key
    <3>1. /\ rst.gen = gen /\ mpc # "sort"
          /\ IF rst.slot = 0 THEN NULL \in had[key]
             ELSE rst.slot \in DOMAIN array /\ array[rst.slot].key = key
      BY <2>1, <2>4 DEF Found
    <3>2. RmClear
      BY <2>4, <3>1 DEF ChangeList, AddSort
    <3>3. PICK n \in Bsearch(arg.key) :
            array' = IF n = 0 THEN array ELSE [array EXCEPT ![n].func = NULL]
      BY <3>2 DEF RmClear
    <3>4. n = 0 \/ n \in DOMAIN array
      BY DEF Bsearch, Slots
    <3>5. array \in Seq(Entry)
      BY DEF ListInv, ListTypeOK
    <3>6. /\ array' \in Seq(Entry) /\ Len(array') = Len(array)
          /\ \A j \in DOMAIN array : array'[j].key = array[j].key
      BY <3>3, <3>4, <3>5, Cleared
    <3>7. DOMAIN array' = DOMAIN array
      BY <3>5, <3>6
    <3>8. gen' = gen /\ mpc' = "unlock"
      BY <3>2 DEF RmClear
    <3> QED BY <2>2, <2>4, <3>1, <3>6, <3>7, <3>8
  <2> QED BY <2>3, <2>4
<1>8. Summed'
  <2> SUFFICES ASSUME hpc = "columns", ~raced'
               PROVE  \E i \in 0..LastColumn : \E g :
                        /\ Follows(g, i, msg, had') /\ sha = Fed(g[i])
                        /\ \A k \in Keys : k \in todo <=> k > i
    BY <1>1 DEF Summed
  <2>0. PICK i \in 0..LastColumn : \E g :
          /\ Follows(g, i, msg, had) /\ sha = Fed(g[i])
          /\ \A k \in Keys : k \in todo <=> k > i
    BY <1>1 DEF Summed
  <2>1. PICK g :
          /\ Follows(g, i, msg, had) /\ sha = Fed(g[i])
          /\ \A k \in Keys : k \in todo <=> k > i
    BY <2>0
  <2>2. i \in Nat
    BY ColumnsBounded
  <2>3. Follows(g, i, msg, had')
    BY <1>5, <2>1, <2>2, FollowsMore
  <2> QED BY <2>1, <2>3
<1> QED
  BY <1>3, <1>4, <1>6, <1>7, <1>8

(* The digest is taken, or the process dies.                               *)
LEMMA EndDigestInv ==
  ASSUME DigestInv, Finish \/ Crash
  PROVE  DigestInv'
<1> USE DEF DigestInv, listVars, list, reactor, receiver
<1>1. hpc' # "columns" /\ hpc' \in {"idle", "dead"}
  BY DEF Finish, Crash
<1>2. Mutex'
  BY DEF Mutex, Finish, Crash
<1>3. ASSUME Finish PROVE rpc' = "idle"
  <2>1. hpc = "columns" /\ todo = {} /\ rpc' = rpc
    BY <1>3 DEF Finish
  <2> QED BY <2>1 DEF HandlerOK, At
<1>4. HandlerOK'
  BY <1>1, <1>3 DEF HandlerOK, Crash
<1> QED
  BY <1>1, <1>2, <1>4 DEF HadNow, Found, Summed

(* The reactor takes and gives back the mutex.                             *)
LEMMA LockDigestInv ==
  ASSUME DigestInv, LockList \/ UnlockList
  PROVE  DigestInv'
<1>1. UNCHANGED <<array, gen, rpc, key, rst, got, hpc, msg, todo, sha, had, raced>>
  BY DEF LockList, UnlockList, RmLock, AddLock, Unlock, handler, list, receiver
<1>2. mpc' = "sort" => mpc = "sort"
  BY DEF LockList, UnlockList, RmLock, AddLock, Unlock
<1>3. Mutex'
  BY DEF DigestInv, Mutex, LockList, UnlockList, RmLock, AddLock, Unlock, receiver
<1> QED
  BY <1>1, <1>2, <1>3, QuietDigestInv

(* Every step keeps the invariant, given the list's own.                   *)
LEMMA StepDigestInv ==
  ASSUME ListInv, ListInv', DigestInv, [Next]_vars
  PROVE  DigestInv'
<1>1. ASSUME UNCHANGED vars \/ Delete \/ Dead PROVE DigestInv'
  <2>1. UNCHANGED <<listVars, hpc, msg, todo, sha, had, raced>>
    BY <1>1 DEF vars, handler, Delete, Dead
  <2>2. Mutex'
    BY <2>1 DEF DigestInv, Mutex, listVars, reactor, receiver
  <2> QED
    BY <2>1, <2>2, QuietDigestInv DEF listVars, list, reactor, receiver
<1>2. ASSUME ReceiverStep PROVE DigestInv'
  BY <1>2, SkipDigestInv, SearchDigestInv, ReadDigestInv, SumDigestInv, EndDigestInv
  DEF ReceiverStep, Search
<1> QED
  BY <1>1, <1>2, TakeDigestInv, LookUpDigestInv, LockDigestInv, ChangeDigestInv DEF Next

(* The digest of a message is the digest a dump of the same row gives,     *)
(* whatever the columns, the values and their lengths, the size of a block *)
(* and of a word, and however the reactor changes the list meanwhile       *)
(* (inputmsg.cpp:43-60, treebuilder.py:29-38), unless an add meets a       *)
(* lookup (filtermsg.cpp:109).                                             *)
THEOREM DigestIsThatOfDump == Spec => []DigestAsDumped
<1>1. DigestInv => DigestAsDumped
  <2> SUFFICES ASSUME DigestInv, hpc = "columns", todo = {}, ~raced
               PROVE  \E f \in [Keys -> FuncOrNull] :
                        (\A k \in Keys : f[k] \in had[k]) /\ Final(sha) = RecordDigest(msg, f)
    BY DEF DigestAsDumped
  <2>0. PICK i \in 0..LastColumn : \E g :
          /\ Follows(g, i, msg, had) /\ sha = Fed(g[i])
          /\ \A k \in Keys : k \in todo <=> k > i
    BY DEF DigestInv, Summed
  <2>1. PICK g :
          /\ Follows(g, i, msg, had) /\ sha = Fed(g[i])
          /\ \A k \in Keys : k \in todo <=> k > i
    BY <2>0
  <2>2. i = LastColumn
    BY <2>1, ColumnsBounded
  <2>3. msg \in [Keys -> Values] /\ \A k \in Keys : had[k] \subseteq FuncOrNull
    BY DEF DigestInv, HandlerOK, HadNow
  <2> QED
    BY <2>1, <2>2, <2>3, DigestOfColumns
<1>2. Init => DigestInv
  BY InitDigestInv
<1>3. ListInv /\ ListInv' /\ DigestInv /\ [Next]_vars => DigestInv'
  BY StepDigestInv
<1>4. Spec => []ListInv
  BY ListKept, ListInvariant, PTL
<1>5. Spec => []DigestInv
  BY <1>2, <1>3, <1>4, PTL DEF Spec
<1> QED
  BY <1>1, <1>5, PTL
===============================================================================
