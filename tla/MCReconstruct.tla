---------------------------- MODULE MCReconstruct ----------------------------
(***************************************************************************)
(* Small arrays for TLC: every level, complete and degraded, whole member  *)
(* captures and captures that stop inside a chunk.  A sector is two bytes, *)
(* so that a length can miss the sector boundary.                          *)
(***************************************************************************)
EXTENDS Reconstruct

Whole(level, count, members, chunk, logical) ==
  [level |-> level, count |-> count, chunk |-> chunk, logical |-> logical,
   base |-> 2, size |-> [i \in members |-> 2 + 2 * chunk]]

(* Member i lost its last sector, all others are whole. *)
Cut(a, i) == [a EXCEPT !.size[i] = @ - SECTOR_SIZE]

(* Every member was captured for one chunk and a half. *)
Partial ==
  [Whole("raid10", 4, {0, 3}, 4, 12) EXCEPT !.size = [i \in {0, 3} |-> 8]]

MCArrays ==
  { Whole("raid0", 4, 0..3, 2, 10),
    Whole("raid1", 2, {1}, 4, 6),
    Whole("raid10", 4, {1, 2, 3}, 2, 10),
    Whole("raid3", 3, {0, 2}, 4, 14),
    Whole("raid3", 4, 0..2, 2, 8),
    Whole("raid5", 4, {0, 1, 3}, 4, 14),
    Cut(Whole("raid5", 4, {1, 2, 3}, 4, 24), 2),
    [Whole("raid0", 4, 0..3, 2, 12) EXCEPT !.size[3] = 1],
    Partial }

(* Members of different lengths, for two exchanged device names. *)
MCSwapArrays ==
  { Whole("raid0", 4, 0..3, 2, 4),
    Whole("raid10", 4, {0, 1, 2}, 2, 4),
    Cut(Whole("raid3", 3, {0, 1}, 4, 10), 0) }

MCLengths == {None, 0, 3, 10}
MCSwapLengths == {None, 4}
===============================================================================
