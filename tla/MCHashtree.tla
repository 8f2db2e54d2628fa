------------------------------ MODULE MCHashtree ------------------------------
(* Four leaves, node indexes printed in base 2, so that node 1 and the     *)
(* nodes 2 ("10") and 3 ("11") of level 2 have equal names.  Table 1 has   *)
(* two rows, table 2 follows it in the store with one.                     *)
EXTENDS Hashtree

MCTab == <<1, 1, 2>>
MCSeg == <<0, 2, 3>>
===============================================================================
