------------------------------- MODULE MCRebuild -------------------------------
(* The rebuilt table 1 has rows in segments 0 and 2 of 4; table 2 has one  *)
(* in segment 2, which reads of the segments 1 and 2 of table 1 may reach. *)
(* The key of the row in segment 2 is long: passed back, it is stored in   *)
(* segment 1 as key 2, with a zero byte.                                   *)
EXTENDS Rebuild

MCTab == <<1, 1, 1, 2>>
MCSeg == <<0, 1, 2, 2>>
MCAgain == <<1, None, 2>>
================================================================================
