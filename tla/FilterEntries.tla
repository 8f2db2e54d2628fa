---------------------------- MODULE FilterEntries ----------------------------
(***************************************************************************)
(* What the filter list of filtermsg.cpp holds, whatever the array it is   *)
(* kept in: entries that give a column the function that normalises its    *)
(* values.  An add never replaces an entry, so a column can have several;  *)
(* a remove clears the function of one entry and leaves the entry there;   *)
(* a lookup finds any entry of the column.                                 *)
(***************************************************************************)
EXTENDS Integers

CONSTANTS
  Keys,      \* <table, column> pairs, as numbers in strcmp order
  Funcs,     \* the normalising functions
  NULL       \* the function of a removed entry

ASSUME EntryAssumption == Keys \subseteq Nat \ {0} /\ NULL \notin Funcs

VARIABLE entries   \* entries[k][f]: how many entries of column k hold f

FuncOrNull == Funcs \cup {NULL}

EntriesInit == entries = [k \in Keys |-> [f \in FuncOrNull |-> 0]]

Add(k, f) == entries' = [entries EXCEPT ![k][f] = @ + 1]

Held(k) == {f \in FuncOrNull : entries[k][f] > 0}

(* A mutant of Rm: an entry is cleared whether one is found or not.        *)
BlindRm(k) == \E f \in Funcs : entries' = [entries EXCEPT ![k][f] = @ - 1, ![k][NULL] = @ + 1]

Rm(k) ==
  \/ Held(k) = {} /\ UNCHANGED entries
  \/ \E f \in Held(k) : entries' = [entries EXCEPT ![k][f] = @ - 1, ![k][NULL] = @ + 1]

Lookups(k) == IF Held(k) = {} THEN {NULL} ELSE Held(k)

EntriesNext == \E k \in Keys : Rm(k) \/ \E f \in Funcs : Add(k, f)

EntriesSpec == EntriesInit /\ [][EntriesNext]_entries
==============================================================================
