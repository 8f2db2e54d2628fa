--------------------------- MODULE FilterSyncProofs ---------------------------
(***************************************************************************)
(* FilterList.update of aae/filterlist.py, for every number of columns and *)
(* functions, every order of the rows and of the dropped columns, and      *)
(* every exception: what happens to columns that are dropped or change     *)
(* their type does not reach the filters of those that do not.             *)
(***************************************************************************)
EXTENDS FilterSync, FiniteSetTheorems, TLAPS

Counts == [Keys -> [FuncOrNull -> Nat]]

(* The types of a steady column: none yet, or one for ever.                *)
SteadyTypes == \A k \in Steady : columns[k] = {} \/ \E t \in Types : columns[k] = {t}

(* What an update has fetched and has still to do.                         *)
Progress ==
  /\ upc = "idle" => all_keys = {}
  /\ upc # "rows" => rows = {}
  /\ upc # "drop" => gone = {}
  /\ \A r \in rows : r[1] \in all_keys
  /\ \A r \in rows : r[1] \in Steady => columns[r[1]] = {r[2]}
  /\ \A k \in Steady \cap all_keys : columns[k] # {}

(* A column that _data knows has an entry; so has one to be removed, which *)
(* no steady column is.                                                    *)
Recorded ==
  /\ \A k \in Keys : data[k] # NULL \/ k \in gone => Held(k) # {}
  /\ gone \cap Steady = {}
  /\ \A k \in Steady : data[k] # NULL => entries[k][data[k]] > 0
  /\ upc \in {"rows", "drop"} => \A k \in Steady : data[k] # NULL => k \in all_keys

(* The entries of a steady column hold its function.                       *)
Unmixed ==
  \A k \in Steady, f \in FuncOrNull : entries[k][f] > 0 => f # NULL /\ columns[k] = {f}

(* A steady column whose row has been processed has an entry.              *)
Filtered ==
  \A k \in Steady \cap all_keys, t \in Funcs :
    (/\ columns[k] = {t}
     /\ \/ upc \in {"drop", "stopped"}
        \/ upc = "rows" /\ <<k, t>> \notin rows)
    => entries[k][t] > 0

(* Until the first remove, _data records every filter of a steady column.  *)
Once ==
  (\A k \in Keys : entries[k][NULL] = 0)
    => \A k \in Steady, f \in Funcs :
         entries[k][f] <= 1 /\ (entries[k][f] > 0 => data[k] = f)

Typed == TypeOK /\ entries \in Counts

IInv ==
  /\ Typed /\ SteadyTypes /\ Progress
  /\ Recorded /\ Unmixed /\ Filtered /\ Once

-----------------------------------------------------------------------------
(* An add makes one entry more of one column.                              *)
LEMMA AddCounts ==
  ASSUME entries \in Counts, NEW k \in Keys, NEW f \in FuncOrNull, Add(k, f)
  PROVE  /\ entries' \in Counts
         /\ \A j \in Keys, g \in FuncOrNull :
              entries'[j][g] = IF j = k /\ g = f THEN entries[j][g] + 1 ELSE entries[j][g]
<1>1. entries[k] \in [FuncOrNull -> Nat]
  BY DEF Counts
<1>2. entries' = [entries EXCEPT ![k] = [entries[k] EXCEPT ![f] = entries[k][f] + 1]]
  BY DEF Add
<1>3. [entries[k] EXCEPT ![f] = entries[k][f] + 1] \in [FuncOrNull -> Nat]
  BY <1>1
<1>4. entries' \in Counts
  BY <1>2, <1>3 DEF Counts
<1>5. ASSUME NEW j \in Keys, NEW g \in FuncOrNull
      PROVE  entries'[j][g] = IF j = k /\ g = f THEN entries[j][g] + 1 ELSE entries[j][g]
  BY <1>1, <1>2 DEF Counts
<1> QED
  BY <1>4, <1>5

(* A remove of a column that has entries leaves it one without function,   *)
(* and the other columns theirs.                                           *)
LEMMA RmCounts ==
  ASSUME entries \in Counts, NEW k \in Keys, Held(k) # {}, Rm(k)
  PROVE  /\ entries' \in Counts
         /\ \A j \in Keys \ {k} : entries'[j] = entries[j]
         /\ entries'[k][NULL] > 0
<1>1. PICK f \in Held(k) :
        entries' = [entries EXCEPT ![k][f] = @ - 1, ![k][NULL] = @ + 1]
  BY DEF Rm
<1>2. f \in FuncOrNull /\ entries[k][f] > 0 /\ NULL \in FuncOrNull
  BY DEF Held, FuncOrNull
<1>3. entries[k] \in [FuncOrNull -> Nat] /\ entries[k][f] \in Nat
  BY <1>2 DEF Counts
<1> DEFINE less == [entries[k] EXCEPT ![f] = entries[k][f] - 1]
           more == [less EXCEPT ![NULL] = less[NULL] + 1]
<1>4. entries[k][f] - 1 \in Nat
  BY <1>2, <1>3
<1>5. less \in [FuncOrNull -> Nat]
  BY <1>3, <1>4
<1>6. more \in [FuncOrNull -> Nat] /\ more[NULL] > 0
  <2>1. less[NULL] \in Nat
    BY <1>2, <1>5
  <2>2. less[NULL] + 1 \in Nat /\ less[NULL] + 1 > 0
    BY <2>1
  <2> HIDE DEF less
  <2> QED
    BY <1>2, <1>5, <2>2
<1>7. entries' = [entries EXCEPT ![k] = more]
  BY <1>1, <1>2, <1>3 DEF Counts
<1> HIDE DEF more
<1> QED
  BY <1>6, <1>7 DEF Counts

(* A set of types with one element is the set of that element.             *)
LEMMA OneType ==
  ASSUME NEW types \in SUBSET Types, Cardinality(types) = 1
  PROVE  \E t \in Types : types = {t}
<1>1. IsFiniteSet(Types)
  BY SyncAssumption, FS_AddElement DEF Types, FuncOrNull
<1>2. IsFiniteSet(types)
  BY <1>1, FS_Subset
<1> QED
  BY <1>2, FS_Singleton

-----------------------------------------------------------------------------
LEMMA InitIInv == Init => IInv
<1> SUFFICES ASSUME Init PROVE IInv
  OBVIOUS
<1> USE DEF Init
<1>1. NULL \in FuncOrNull /\ \A k \in Keys, f \in FuncOrNull : entries[k][f] = 0
  BY DEF EntriesInit, FuncOrNull
<1>2. entries \in Counts
  BY DEF EntriesInit, Counts
<1>3. TypeOK
  <2>1. \A k \in Keys, f \in FuncOrNull : entries[k][f] \in Nat
    BY <1>1
  <2>2. columns \in [Keys -> SUBSET Types] /\ data \in [Keys -> FuncOrNull]
    BY <1>1
  <2> QED
    BY <2>1, <2>2 DEF TypeOK
<1>4. SteadyTypes /\ Progress
  BY SyncAssumption DEF SteadyTypes, Progress
<1>5. Recorded
  BY SyncAssumption DEF Recorded
<1>6. Unmixed /\ Filtered /\ Once
  BY <1>1, SyncAssumption DEF Unmixed, Filtered, Once, FuncOrNull
<1> QED
  BY <1>2, <1>3, <1>4, <1>5, <1>6 DEF IInv, Typed

(* A steady column keeps its type once it has one.                         *)
LEMMA ChangeIInv ==
  ASSUME IInv, NEW k \in Keys, Change(k)
  PROVE  IInv'
<1>1. PICK types \in SUBSET Types :
        /\ types # columns[k]
        /\ IF columns[k] = {} THEN TRUE
           ELSE /\ k \notin Steady
                /\ IF types = {} THEN "drop" \in Changes ELSE "retype" \in Changes
        /\ k \in Steady => Cardinality(types) = 1
        /\ columns' = [columns EXCEPT ![k] = types]
  BY DEF Change
<1>2. UNCHANGED <<entries, upc, data, tmp_key, rows, all_keys, gone>> /\ fresh' = FALSE
  BY DEF Change, locals
<1>3. Typed'
  BY <1>1, <1>2 DEF IInv, Typed, TypeOK, Counts
<1>4. \A j \in Steady : \/ columns'[j] = columns[j]
                        \/ columns[j] = {} /\ \E t \in Types : columns'[j] = {t}
  <2>1. columns'[k] = types /\ \A j \in Keys \ {k} : columns'[j] = columns[j]
    BY <1>1 DEF IInv, Typed, TypeOK
  <2>2. k \in Steady => columns[k] = {} /\ \E t \in Types : types = {t}
    BY <1>1, OneType
  <2>3. Steady \subseteq Keys
    BY SyncAssumption
  <2> SUFFICES ASSUME NEW j \in Steady
               PROVE  \/ columns'[j] = columns[j]
                      \/ columns[j] = {} /\ \E t \in Types : columns'[j] = {t}
    OBVIOUS
  <2>4. CASE j = k
    BY <2>1, <2>2, <2>4
  <2>5. CASE j # k
    BY <2>1, <2>3, <2>5
  <2> QED
    BY <2>4, <2>5
<1>5. SteadyTypes'
  BY <1>4 DEF IInv, SteadyTypes
<1>6. Progress'
  <2>1. \A r \in rows : r[1] \in Steady => columns'[r[1]] = {r[2]}
    BY <1>4 DEF IInv, Progress
  <2>2. \A j \in Steady \cap all_keys : columns'[j] # {}
    BY <1>4 DEF IInv, Progress
  <2> QED
    BY <1>2, <2>1, <2>2 DEF IInv, Progress
<1>7. Recorded'
  BY <1>2 DEF IInv, Recorded, Held
<1>8. Unmixed'
  <2> SUFFICES ASSUME NEW j \in Steady, NEW f \in FuncOrNull, entries[j][f] > 0
               PROVE  f # NULL /\ columns'[j] = {f}
    BY <1>2 DEF Unmixed
  <2>1. f # NULL /\ columns[j] = {f}
    BY DEF IInv, Unmixed
  <2> QED
    BY <2>1, <1>4
<1>9. Filtered'
  <2>1. \A j \in Steady \cap all_keys : columns'[j] = columns[j]
    BY <1>4 DEF IInv, Progress
  <2> QED
    BY <1>2, <2>1 DEF IInv, Filtered
<1>10. Once'
  BY <1>2 DEF IInv, Once
<1> QED
  BY <1>3, <1>5, <1>6, <1>7, <1>8, <1>9, <1>10 DEF IInv

(* The query returns a row of every column that _data knows as steady.     *)
LEMMA UpdateQueryIInv ==
  ASSUME IInv, UpdateQuery
  PROVE  IInv'
<1>1. /\ upc = "idle" /\ upc' = "rows"
      /\ rows' = UNION {{k} \X columns[k] : k \in Keys}
      /\ all_keys' = {k \in Keys : columns[k] # {}}
      /\ fresh' = TRUE
      /\ UNCHANGED <<entries, columns, data, tmp_key, gone>>
  BY DEF UpdateQuery
<1>2. columns \in [Keys -> SUBSET Types] /\ Steady \subseteq Keys
  BY SyncAssumption DEF IInv, Typed, TypeOK
<1>3. \A r \in rows' : r \in Keys \X Types /\ r[2] \in columns[r[1]]
  BY <1>1, <1>2
<1>4. \A k \in Keys : \A t \in columns[k] : <<k, t>> \in rows'
  BY <1>1
<1>5. Typed'
  BY <1>1, <1>3 DEF IInv, Typed, TypeOK, Counts
<1>6. SteadyTypes'
  BY <1>1 DEF IInv, SteadyTypes
<1>7. Progress'
  <2>1. \A r \in rows' : r[1] \in all_keys'
    BY <1>1, <1>3
  <2>2. ASSUME NEW r \in rows', r[1] \in Steady
        PROVE  columns[r[1]] = {r[2]}
    BY <1>3, <2>2 DEF IInv, SteadyTypes
  <2> QED
    BY <1>1, <2>1, <2>2 DEF IInv, Progress
<1>8. Recorded'
  <2>1. ASSUME NEW k \in Steady, data[k] # NULL
        PROVE  k \in all_keys'
    <3>1. data[k] \in FuncOrNull /\ entries[k][data[k]] > 0
      BY <1>2, <2>1 DEF IInv, Recorded, Typed, TypeOK
    <3>2. columns[k] = {data[k]}
      BY <3>1 DEF IInv, Unmixed
    <3> QED
      BY <1>1, <1>2, <3>2
  <2> QED
    BY <1>1, <2>1 DEF IInv, Recorded, Held
<1>9. Unmixed' /\ Once'
  BY <1>1 DEF IInv, Unmixed, Once
<1>10. Filtered'
  BY <1>1, <1>2, <1>4 DEF IInv, Filtered
<1> QED
  BY <1>5, <1>6, <1>7, <1>8, <1>9, <1>10 DEF IInv

LEMMA QueryFailsIInv ==
  ASSUME IInv, QueryFails
  PROVE  IInv'
<1>1. /\ upc = "idle" /\ upc' = "stopped"
      /\ UNCHANGED <<entries, columns, data, tmp_key, rows, all_keys, gone, fresh>>
  BY DEF QueryFails, locals
<1>2. Typed' /\ SteadyTypes' /\ Progress'
  BY <1>1 DEF IInv, Typed, TypeOK, Counts, SteadyTypes, Progress
<1>3. Recorded'
  BY <1>1 DEF IInv, Recorded, Held
<1>4. Filtered'
  BY <1>1 DEF IInv, Progress, Filtered
<1>5. Unmixed' /\ Once'
  BY <1>1 DEF IInv, Unmixed, Once
<1> QED
  BY <1>2, <1>3, <1>4, <1>5 DEF IInv

(* One row of the query: its column's filter is added unless _data has it. *)
LEMMA UpdateRowIInv ==
  ASSUME IInv, NEW r \in Keys \X Types, UpdateRow(r)
  PROVE  IInv'
<1> DEFINE k == r[1]
           type == r[2]
<1>1. /\ upc = "rows" /\ r \in rows /\ upc' = upc
      /\ rows' = rows \ {r}
      /\ UNCHANGED <<columns, all_keys, gone, fresh>>
      /\ IF type = NULL THEN UNCHANGED <<entries, data, tmp_key>>
         ELSE /\ tmp_key' = k
              /\ IF data[k] = type THEN UNCHANGED <<entries, data>>
                 ELSE /\ Add(k, type)
                      /\ data' = [data EXCEPT ![k] = type]
  BY DEF UpdateRow
<1>2. k \in Keys /\ type \in FuncOrNull /\ r = <<k, type>>
  BY DEF Types
<1>3. k \in all_keys /\ (k \in Steady => columns[k] = {type})
  BY <1>1 DEF IInv, Progress
<1> HIDE DEF k, type
<1>4. /\ entries \in Counts /\ data \in [Keys -> FuncOrNull]
      /\ Steady \subseteq Keys /\ gone = {}
  BY <1>1, SyncAssumption DEF IInv, Typed, TypeOK, Progress
<1>5. \/ (type = NULL \/ data[k] = type) /\ UNCHANGED <<entries, data>>
      \/ /\ type # NULL /\ data[k] # type
         /\ data' = [data EXCEPT ![k] = type]
         /\ Add(k, type)
  BY <1>1
<1>6. SteadyTypes'
  BY <1>1 DEF IInv, SteadyTypes
<1>7. Progress'
  BY <1>1 DEF IInv, Progress
<1>8. \A t \in FuncOrNull : t # type => <<k, t>> # r
  BY <1>2
<1>9. tmp_key' \in Keys \cup {NoKey} /\ rows' \subseteq Keys \X Types
  BY <1>1, <1>2 DEF IInv, Typed, TypeOK
<1>10. CASE (type = NULL \/ data[k] = type) /\ UNCHANGED <<entries, data>>
  <2>1. Typed'
    BY <1>1, <1>9, <1>10 DEF IInv, Typed, TypeOK, Counts
  <2>2. Recorded' /\ Unmixed' /\ Once'
    BY <1>1, <1>10 DEF IInv, Recorded, Held, Unmixed, Once
  <2>3. Filtered'
    <3> SUFFICES ASSUME NEW j \in Steady \cap all_keys, NEW t \in Funcs,
                        columns[j] = {t}, <<j, t>> \notin rows'
                 PROVE  entries[j][t] > 0
      BY <1>1, <1>10 DEF Filtered
    <3>1. CASE <<j, t>> \notin rows
      BY <1>1, <3>1 DEF IInv, Filtered
    <3>2. CASE <<j, t>> = r
      <4>1. j = k /\ t = type /\ t # NULL
        BY <1>2, <3>2, EntryAssumption
      <4> QED
        BY <4>1, <1>10 DEF IInv, Recorded
    <3> QED
      BY <1>1, <3>1, <3>2
  <2> QED
    BY <1>6, <1>7, <2>1, <2>2, <2>3 DEF IInv
<1>11. CASE /\ type # NULL /\ data[k] # type
            /\ data' = [data EXCEPT ![k] = type]
            /\ Add(k, type)
  <2>1. /\ entries' \in Counts
        /\ \A j \in Keys, g \in FuncOrNull :
             entries'[j][g] = IF j = k /\ g = type THEN entries[j][g] + 1 ELSE entries[j][g]
    BY <1>2, <1>4, <1>11, AddCounts
  <2>2. \A j \in Keys, g \in FuncOrNull : entries[j][g] \in Nat /\ entries'[j][g] \in Nat
    BY <1>4, <2>1 DEF Counts
  <2>3. \A j \in Keys, g \in FuncOrNull :
          /\ entries'[j][g] >= entries[j][g]
          /\ j # k \/ g # type => entries'[j][g] = entries[j][g]
    BY <2>1, <2>2
  <2>4. entries'[k][type] = entries[k][type] + 1 /\ entries'[k][type] > 0
    BY <1>2, <2>1, <2>2
  <2>5. data'[k] = type /\ \A j \in Keys \ {k} : data'[j] = data[j]
    BY <1>2, <1>4, <1>11
  <2>6. NULL \in FuncOrNull /\ Funcs \subseteq FuncOrNull
    BY DEF FuncOrNull
  <2>7. Typed'
    BY <1>1, <1>2, <1>4, <1>9, <1>11, <2>1, <2>2 DEF IInv, Typed, TypeOK
  <2>8. Recorded'
    <3>1. \A j \in Keys : Held(j) \subseteq Held(j)'
      BY <2>2, <2>3 DEF Held
    <3>2. type \in Held(k)'
      BY <1>2, <2>4 DEF Held
    <3>3. \A j \in Keys : data'[j] # NULL \/ j \in gone' => Held(j)' # {}
      BY <1>1, <1>4, <2>5, <3>1, <3>2 DEF IInv, Recorded
    <3>4. ASSUME NEW j \in Steady, data'[j] # NULL
          PROVE  entries'[j][data'[j]] > 0
      <4>1. CASE j = k
        BY <4>1, <2>4, <2>5
      <4>2. CASE j # k
        <5>1. j \in Keys /\ data'[j] = data[j] /\ data[j] \in FuncOrNull
          BY <1>4, <2>5, <4>2
        <5>2. entries[j][data[j]] > 0
          BY <3>4, <5>1 DEF IInv, Recorded
        <5> QED
          BY <5>1, <5>2, <2>2, <2>3
      <4> QED
        BY <4>1, <4>2
    <3>5. \A j \in Steady : data'[j] # NULL => j \in all_keys'
      BY <1>1, <1>3, <1>4, <2>5 DEF IInv, Recorded
    <3>6. gone' \cap Steady = {}
      BY <1>1, <1>4
    <3> QED
      BY <3>3, <3>4, <3>5, <3>6 DEF Recorded
  <2>9. Unmixed'
    <3> SUFFICES ASSUME NEW j \in Steady, NEW f \in FuncOrNull, entries'[j][f] > 0
                 PROVE  f # NULL /\ columns[j] = {f}
      BY <1>1 DEF Unmixed
    <3>1. CASE j = k /\ f = type
      BY <1>3, <1>11, <3>1
    <3>2. CASE ~(j = k /\ f = type)
      BY <1>4, <2>3, <3>2 DEF IInv, Unmixed
    <3> QED
      BY <3>1, <3>2
  <2>10. Filtered'
    <3> SUFFICES ASSUME NEW j \in Steady \cap all_keys, NEW t \in Funcs,
                        columns[j] = {t}, <<j, t>> \notin rows'
                 PROVE  entries'[j][t] > 0
      BY <1>1 DEF Filtered
    <3>1. CASE <<j, t>> \notin rows
      <4>1. entries[j][t] > 0
        BY <1>1, <3>1 DEF IInv, Filtered
      <4> QED
        BY <4>1, <1>4, <2>2, <2>3, <2>6
    <3>2. CASE <<j, t>> = r
      BY <1>2, <2>4, <3>2
    <3> QED
      BY <1>1, <3>1, <3>2
  <2>11. Once'
    <3> SUFFICES ASSUME \A j \in Keys : entries'[j][NULL] = 0,
                        NEW j \in Steady, NEW f \in Funcs
                 PROVE  entries'[j][f] <= 1 /\ (entries'[j][f] > 0 => data'[j] = f)
      BY DEF Once
    <3>1. \A i \in Keys : entries[i][NULL] = 0
      BY <1>11, <2>3, <2>6
    <3>2. entries[j][f] <= 1 /\ (entries[j][f] > 0 => data[j] = f)
      BY <3>1 DEF IInv, Once
    <3>3. CASE j # k
      BY <3>2, <3>3, <1>4, <2>3, <2>5, <2>6
    <3>4. CASE j = k /\ f = type
      <4>1. entries[k][type] = 0
        BY <1>2, <1>11, <2>2, <3>2, <3>4
      <4> QED
        BY <4>1, <2>4, <2>5, <3>4
    <3>5. CASE j = k /\ f # type
      <4>1. ~(entries[j][f] > 0)
        BY <1>3, <2>6, <3>5 DEF IInv, Unmixed
      <4> QED
        BY <4>1, <3>2, <3>5, <1>2, <2>2, <2>3, <2>6
    <3> QED
      BY <3>3, <3>4, <3>5
  <2> QED
    BY <1>6, <1>7, <2>7, <2>8, <2>9, <2>10, <2>11 DEF IInv
<1> QED
  BY <1>5, <1>10, <1>11

(* No steady column is to be removed: the query has returned it.           *)
LEMMA RowsDoneIInv ==
  ASSUME IInv, RowsDone
  PROVE  IInv'
<1>1. /\ upc = "rows" /\ rows = {} /\ upc' = "drop"
      /\ gone' = {k \in Keys : data[k] # NULL} \ all_keys
      /\ UNCHANGED <<entries, columns, data, tmp_key, rows, all_keys, fresh>>
  BY DEF RowsDone
<1>2. Typed' /\ SteadyTypes' /\ Progress'
  BY <1>1 DEF IInv, Typed, TypeOK, Counts, SteadyTypes, Progress
<1>3. Recorded'
  <2>1. gone' \cap Steady = {}
    BY <1>1 DEF IInv, Recorded
  <2> QED
    BY <1>1, <2>1 DEF IInv, Recorded, Held
<1>4. Filtered'
  BY <1>1 DEF IInv, Filtered
<1>5. Unmixed' /\ Once'
  BY <1>1 DEF IInv, Unmixed, Once
<1> QED
  BY <1>2, <1>3, <1>4, <1>5 DEF IInv

(* A removed column had an entry, and has one without function now; it is  *)
(* not a steady one, even when tmp_key is.                                 *)
LEMMA UpdateDropIInv ==
  ASSUME IInv, NEW k \in Keys, UpdateDrop(k)
  PROVE  IInv'
<1>1. /\ upc = "drop" /\ k \in gone /\ Rm(k)
      /\ UNCHANGED <<columns, tmp_key, rows, all_keys, fresh>>
      /\ \/ /\ tmp_key # NoKey /\ data[tmp_key] # NULL
            /\ data' = [data EXCEPT ![tmp_key] = NULL]
            /\ gone' = gone \ {k} /\ upc' = upc
         \/ data' = data /\ gone' = {} /\ upc' = "stopped"
  BY DEF UpdateDrop
<1>2. /\ entries \in Counts /\ data \in [Keys -> FuncOrNull]
      /\ Steady \subseteq Keys /\ tmp_key \in Keys \cup {NoKey}
  BY SyncAssumption DEF IInv, Typed, TypeOK
<1>3. Held(k) # {} /\ k \notin Steady
  BY <1>1 DEF IInv, Recorded
<1>4. /\ entries' \in Counts
      /\ \A j \in Keys \ {k} : entries'[j] = entries[j]
      /\ entries'[k][NULL] > 0
  BY <1>1, <1>2, <1>3, RmCounts
<1>5. \A j \in Keys : Held(j) # {} => Held(j)' # {}
  BY <1>4 DEF Held, FuncOrNull
<1>6. \A j \in Steady : j \in Keys /\ entries'[j] = entries[j]
  BY <1>2, <1>3, <1>4
<1>7. /\ data' \in [Keys -> FuncOrNull]
      /\ \A j \in Keys : data'[j] = data[j] \/ data'[j] = NULL
      /\ gone' \subseteq gone /\ upc' \in {"drop", "stopped"}
      /\ upc' # "drop" => gone' = {}
  <2>1. NULL \in FuncOrNull
    BY DEF FuncOrNull
  <2> QED
    BY <1>1, <1>2, <2>1
<1>8. Typed'
  <2>1. \A j \in Keys, f \in FuncOrNull : entries'[j][f] \in Nat
    BY <1>4 DEF Counts
  <2> QED
    BY <1>1, <1>4, <1>7, <2>1 DEF IInv, Typed, TypeOK
<1>9. SteadyTypes' /\ Progress'
  BY <1>1, <1>7 DEF IInv, SteadyTypes, Progress
<1>10. Recorded'
  <2>1. \A j \in Steady : data'[j] # NULL => entries'[j][data'[j]] > 0
    BY <1>6, <1>7 DEF IInv, Recorded
  <2>2. \A j \in Keys : data'[j] # NULL \/ j \in gone' => Held(j)' # {}
    BY <1>5, <1>7 DEF IInv, Recorded
  <2>3. \A j \in Steady : data'[j] # NULL => j \in all_keys'
    BY <1>1, <1>6, <1>7 DEF IInv, Recorded
  <2> QED
    BY <1>7, <2>1, <2>2, <2>3 DEF IInv, Recorded
<1>11. Unmixed'
  BY <1>1, <1>6 DEF IInv, Unmixed
<1>12. Filtered'
  BY <1>1, <1>6, <1>7 DEF IInv, Filtered
<1>13. Once'
  <2>1. ~(entries'[k][NULL] = 0)
    BY <1>4
  <2> QED
    BY <2>1 DEF Once
<1> QED
  BY <1>8, <1>9, <1>10, <1>11, <1>12, <1>13 DEF IInv

LEMMA UpdateDoneIInv ==
  ASSUME IInv, UpdateDone
  PROVE  IInv'
<1>1. /\ upc = "drop" /\ gone = {} /\ upc' = "idle"
      /\ tmp_key' = NoKey /\ all_keys' = {}
      /\ UNCHANGED <<entries, columns, data, rows, gone, fresh>>
  BY DEF UpdateDone
<1>2. Typed' /\ SteadyTypes' /\ Progress'
  BY <1>1 DEF IInv, Typed, TypeOK, Counts, SteadyTypes, Progress
<1>3. Recorded' /\ Filtered'
  BY <1>1 DEF IInv, Recorded, Held, Filtered
<1>4. Unmixed' /\ Once'
  BY <1>1 DEF IInv, Unmixed, Once
<1> QED
  BY <1>2, <1>3, <1>4 DEF IInv

LEMMA StutterIInv ==
  ASSUME IInv, UNCHANGED vars
  PROVE  IInv'
<1> USE DEF IInv, vars, locals
<1>1. Typed' /\ SteadyTypes' /\ Progress'
  BY DEF Typed, TypeOK, Counts, SteadyTypes, Progress
<1>2. Recorded' /\ Filtered'
  BY DEF Recorded, Held, Filtered
<1>3. Unmixed' /\ Once'
  BY DEF Unmixed, Once
<1> QED
  BY <1>1, <1>2, <1>3

THEOREM Invariant == Spec => []IInv
<1>1. IInv /\ [Next]_vars => IInv'
  BY ChangeIInv, UpdateQueryIInv, QueryFailsIInv, UpdateRowIInv, RowsDoneIInv,
     UpdateDropIInv, UpdateDoneIInv, StutterIInv DEF Next
<1> QED
  BY <1>1, InitIInv, PTL DEF Spec

-----------------------------------------------------------------------------
(* The list, _data and the locals of FilterList.update (filterlist.py:13-  *)
(* 55) keep their types; no count of entries goes below zero.              *)
THEOREM TypeCorrect == Spec => []TypeOK
<1>1. IInv => TypeOK
  BY DEF IInv, Typed
<1> QED
  BY <1>1, Invariant, PTL

(* Whatever happens to other columns, and whatever exception ends the      *)
(* updates, a column of constant type is looked up as the function of that *)
(* type once an update has gone through the rows (filterlist.py:26-55).    *)
THEOREM SteadyFiltered == Spec => []SteadyColumnsFiltered
<1>1. IInv => SteadyColumnsFiltered
  <2> SUFFICES ASSUME IInv, NEW k \in Steady \cap all_keys, upc \in {"drop", "stopped"}
               PROVE  Lookups(k) = columns[k]
    BY DEF SteadyColumnsFiltered
  <2>1. PICK t \in Types : columns[k] = {t}
    BY DEF IInv, SteadyTypes, Progress
  <2>2. \A f \in Held(k) : f # NULL /\ f = t
    BY <2>1 DEF IInv, Unmixed, Held
  <2>3. CASE t = NULL
    BY <2>1, <2>2, <2>3 DEF Lookups
  <2>4. CASE t \in Funcs
    <3>1. entries[k][t] > 0
      BY <2>1, <2>4 DEF IInv, Filtered
    <3>2. t \in Held(k)
      BY <2>4, <3>1 DEF Held, FuncOrNull
    <3> QED
      BY <2>1, <2>2, <3>2 DEF Lookups
  <2> QED
    BY <2>3, <2>4 DEF Types, FuncOrNull
<1> QED
  BY <1>1, Invariant, PTL

(* Until a column is dropped, the native list holds one entry of a steady  *)
(* column, however often update runs (filterlist.py:40-46).                *)
THEOREM SteadyOnce == Spec => []SteadyAddedOnce
<1>1. IInv => SteadyAddedOnce
  BY DEF IInv, Once, SteadyAddedOnce
<1> QED
  BY <1>1, Invariant, PTL
===============================================================================
