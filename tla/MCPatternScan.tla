---------------------------- MODULE MCPatternScan ----------------------------
(***************************************************************************)
(* Every input of up to four sectors that each carry one of three LBAs or  *)
(* nothing, and ranges of it from before its start to past its end; a      *)
(* sector is two bytes.                                                    *)
(***************************************************************************)
EXTENDS PatternScan

MCImages == UNION {[1..n -> {0, 1, 2, None}] : n \in 0..4}

MCOffsets == {-2, 0, 1, 2}
MCLengths == {-2, 0, 3, 4, 6, 8}
===============================================================================
