----------------------------- MODULE MCNodeClient -----------------------------
(* Two digests of one byte; a row key without a space and one that is it   *)
(* and more behind a space.                                                *)
EXTENDS NodeClient

MCDigests == {<<"d">>, <<"e">>}
MCKeys == {<<"k">>, <<"k", SP, "m">>}
===============================================================================
