------------------------------- MODULE MCNodeCmp -------------------------------
(* The compared table 1 has a row in segment 0 and two in segment 2, whose *)
(* keys agree up to the first space; one of them has two values.  Table 2  *)
(* has a row in segment 2, behind them.  With indexes in base 2 the leaves *)
(* 2 and 3 supersede leaf 1 ("1" is extended by "10" and "11").            *)
EXTENDS NodeCmp

MCTab == <<1, 1, 1, 2>>
MCSeg == <<0, 2, 2, 2>>
MCStart == <<"a", "b", "b", "c">>
MCHeads == (Pos \X {1}) \cup {<<2, 2>>}
MCOwner == [h \in MCHeads |-> h[1]]
================================================================================
