---------------------------- MODULE MCTuiSearch ----------------------------
(***************************************************************************)
(* TuiSearch for queries of at most two characters, one of them a space.   *)
(***************************************************************************)
EXTENDS TuiSearch, TLC

CONSTANTS a, space

MCChars == {a, space}
=============================================================================
