------------------------------ MODULE FilterSync ------------------------------
(***************************************************************************)
(* FilterList.update of aae/filterlist.py, which the main program calls    *)
(* every ten seconds on the reactor's thread: it reads the columns and     *)
(* their types from the metadata database, and adds to and removes from    *)
(* the filter list the receiver uses.  The receiver looks columns up at    *)
(* any moment, between any two of the steps below.                         *)
(*                                                                         *)
(* An exception leaves update where it is raised, and the LoopingCall that *)
(* called it does not call it again.                                       *)
(***************************************************************************)
EXTENDS FilterEntries, FiniteSets

CONSTANTS
  Changes,       \* what the columns undergo: "drop", "retype", "conflict"
  Steady,        \* columns that are neither dropped nor retyped once there
  Faults,        \* "query": the metadata database may be unreachable
  MaxEntries     \* bound: entries of one column

(* The types: the function of a column that is normalised, or NULL.        *)
Types == FuncOrNull

ASSUME SyncAssumption ==
  /\ Changes \subseteq {"drop", "retype", "conflict"}
  /\ Steady \subseteq Keys
  /\ Faults \subseteq {"query"}
  /\ IsFiniteSet(Funcs) /\ MaxEntries \in Nat

VARIABLES
  columns,   \* columns[k]: the types of k's rows in myshard_table_columns
  upc,       \* update: "idle", "rows", "drop"; "stopped" when the loop ended
  data,      \* self._data[k]: the function id, or NULL when k is no key of it
  tmp_key,   \* the last filterable column, or NoKey when the local is unbound
  rows,      \* the rows of the query not processed yet
  all_keys,  \* the columns of all_row_keys
  gone,      \* the rest of c: the columns to remove
  fresh      \* history: the schema has not changed since the last query

NoKey == 0
locals == <<tmp_key, rows, all_keys, gone>>
vars == <<entries, columns, upc, data, locals, fresh>>

Init ==
  /\ EntriesInit
  /\ columns = [k \in Keys |-> {}]
  /\ upc = "idle"
  /\ data = [k \in Keys |-> NULL]
  /\ tmp_key = NoKey /\ rows = {} /\ all_keys = {} /\ gone = {}
  /\ fresh = FALSE

-----------------------------------------------------------------------------
(* Somebody changes the schema; one column can have rows of several        *)
(* businesses and machine rooms, which the query does not tell apart.      *)
Change(k) ==
  /\ \E types \in SUBSET Types :
       /\ types # columns[k]
       /\ Cardinality(types) > 1 => "conflict" \in Changes
       /\ IF columns[k] = {} THEN TRUE
          ELSE /\ k \notin Steady
               /\ IF types = {} THEN "drop" \in Changes ELSE "retype" \in Changes
       /\ k \in Steady => Cardinality(types) = 1
       /\ columns' = [columns EXCEPT ![k] = types]
  /\ fresh' = FALSE
  /\ UNCHANGED <<entries, upc, data, locals>>

(* update starts: the result of the query is fetched as a whole.           *)
UpdateQuery ==
  /\ upc = "idle"
  /\ upc' = "rows"
  /\ rows' = UNION {{k} \X columns[k] : k \in Keys}
  /\ all_keys' = {k \in Keys : columns[k] # {}}
  /\ fresh' = TRUE
  /\ UNCHANGED <<entries, columns, data, tmp_key, gone>>

QueryFails ==
  /\ "query" \in Faults
  /\ upc = "idle"
  /\ upc' = "stopped"
  /\ UNCHANGED <<entries, columns, data, locals, fresh>>

(* A mutant of UpdateRow: an added filter is not recorded in _data.        *)
ForgetfulRow(r) ==
  LET k == r[1] type == r[2] IN
  /\ upc = "rows" /\ r \in rows
  /\ rows' = rows \ {r}
  /\ IF type = NULL THEN UNCHANGED <<entries, tmp_key>>
     ELSE /\ tmp_key' = k
          /\ entries[k][type] + entries[k][NULL] < MaxEntries
          /\ Add(k, type)
  /\ UNCHANGED <<columns, upc, data, all_keys, gone, fresh>>

(* One row of the query, in any order.                                     *)
UpdateRow(r) ==
  LET k == r[1] type == r[2] IN
  /\ upc = "rows" /\ r \in rows
  /\ rows' = rows \ {r}
  /\ IF type = NULL THEN UNCHANGED <<entries, data, tmp_key>>
     ELSE /\ tmp_key' = k
          /\ IF data[k] = type THEN UNCHANGED <<entries, data>>
             ELSE /\ entries[k][type] + entries[k][NULL] < MaxEntries
                  /\ Add(k, type)
                  /\ data' = [data EXCEPT ![k] = type]
  /\ UNCHANGED <<columns, upc, all_keys, gone, fresh>>

(* The columns of _data that the query has not returned are to be removed. *)
RowsDone ==
  /\ upc = "rows" /\ rows = {}
  /\ upc' = "drop"
  /\ gone' = {k \in Keys : data[k] # NULL} \ all_keys
  /\ UNCHANGED <<entries, columns, data, tmp_key, rows, all_keys, fresh>>

(* A mutant of UpdateDrop: the filter removed is that of tmp_key.          *)
CrossedDrop(k) ==
  /\ upc = "drop" /\ k \in gone
  /\ Rm(IF tmp_key = NoKey THEN k ELSE tmp_key)
  /\ IF tmp_key # NoKey /\ data[tmp_key] # NULL
       THEN /\ data' = [data EXCEPT ![tmp_key] = NULL]
            /\ gone' = gone \ {k} /\ upc' = upc
       ELSE /\ data' = data /\ gone' = {} /\ upc' = "stopped"
  /\ UNCHANGED <<columns, tmp_key, rows, all_keys, fresh>>

(* One column k of c, in any order: its filter is removed, and then the    *)
(* entry of tmp_key is deleted from _data.  If there is no such entry or   *)
(* no tmp_key that raises an exception.                                    *)
UpdateDrop(k) ==
  /\ upc = "drop" /\ k \in gone
  /\ Rm(k)
  /\ IF tmp_key # NoKey /\ data[tmp_key] # NULL
       THEN /\ data' = [data EXCEPT ![tmp_key] = NULL]
            /\ gone' = gone \ {k} /\ upc' = upc
       ELSE /\ data' = data /\ gone' = {} /\ upc' = "stopped"
  /\ UNCHANGED <<columns, tmp_key, rows, all_keys, fresh>>

UpdateDone ==
  /\ upc = "drop" /\ gone = {}
  /\ upc' = "idle"
  /\ tmp_key' = NoKey /\ all_keys' = {}
  /\ UNCHANGED <<entries, columns, data, rows, gone, fresh>>

Next ==
  \/ \E k \in Keys : Change(k) \/ UpdateDrop(k)
  \/ \E r \in Keys \X Types : UpdateRow(r)
  \/ UpdateQuery \/ QueryFails \/ RowsDone \/ UpdateDone

Spec == Init /\ [][Next]_vars

-----------------------------------------------------------------------------
TypeOK ==
  /\ \A k \in Keys, f \in FuncOrNull : entries[k][f] \in Nat
  /\ columns \in [Keys -> SUBSET Types]
  /\ upc \in {"idle", "rows", "drop", "stopped"}
  /\ data \in [Keys -> FuncOrNull]
  /\ tmp_key \in Keys \cup {NoKey}
  /\ rows \subseteq Keys \X Types
  /\ all_keys \subseteq Keys /\ gone \subseteq Keys
  /\ fresh \in BOOLEAN

(* Once an update has gone through the rows, the filter of a column whose  *)
(* type never changes is the function of that type and no other, however   *)
(* other columns are dropped and retyped, and whatever update forgets of   *)
(* it: the adds it repeats add the same function, the removes and the      *)
(* exceptions do not reach it.                                             *)
SteadyColumnsFiltered ==
  \A k \in Steady \cap all_keys :
    upc \in {"drop", "stopped"} => Lookups(k) = columns[k]

(* The native list never shrinks, so it must not grow without a change: a  *)
(* steady column's filter is added once, whatever other columns undergo,   *)
(* until the first filter is removed.  From then on every update deletes a *)
(* live column from _data (filterlist.py:55) and adds its filter again.    *)
SteadyAddedOnce ==
  (\A k \in Keys : entries[k][NULL] = 0)
    => \A k \in Steady : \A f \in Funcs : entries[k][f] <= 1

(* "filter is a map which maps the column to it's data convert func"       *)
(* (filterlist.py:5): once an update has gone through the rows, and unless *)
(* the schema has changed in the meantime, a lookup of a column that has   *)
(* one, filterable, type finds the function of that type.                  *)
MapsColumns ==
  upc = "drop" /\ fresh =>
    \A k \in Keys :
      Cardinality(columns[k]) = 1 /\ columns[k] # {NULL} => Lookups(k) = columns[k]

(* "#update filter list periodically." (nodemon:26): while the metadata    *)
(* database answers, the looping call goes on.                             *)
UpdatesContinue == Faults = {} => upc # "stopped"
===============================================================================
