---------------------------- MODULE MCSegmentRead ----------------------------
(* Three tables: 1 has an upper-case name, 2 is "_sys_internal_" (segment  *)
(* 0 only), 3 has a lower-case name.  The keys 7 and 8 are a row key and an *)
(* extension of it; the row keys of 3 and 6 are two blocks long and longer, *)
(* so that hashing changes them, and an entry for 6 is more than twice as  *)
(* long as the first block; the rows 1 and 5 have the same row key.        *)
EXTENDS SegmentRead

a == <<"a">>
b == <<"b">>
c == <<"c">>
MCBytes == {a, b, c}
MCTab == <<1, 1, 1, 2, 3, 3, 3, 3>>
MCSeg == <<0, 0, 1, 0, 0, 1, 3, 3>>
MCTwins == {<<7, 8>>, <<8, 7>>}
MCRowKey == << <<a>>, <<b, c, b>>, <<a, b, a, b>>, <<c>>, <<a>>, <<b, c, b, a, a, c, b, b, a, c>>,
               <<b>>, <<b, a>> >>
==============================================================================
