---------------------------- MODULE MCPatternWrite ----------------------------
(***************************************************************************)
(* Bases below zero, at zero, in range and where the last LBAs do not fit; *)
(* ranges that begin before the output, at its start and after it.         *)
(***************************************************************************)
EXTENDS PatternWrite

MCBases  == {-1, 0, 2, 3}
MCStarts == {-1, 0, 1}
===============================================================================
