----------------------------- MODULE MCDeviceMap -----------------------------
(***************************************************************************)
(* Small arrays of every level for TLC: complete, degraded and captured    *)
(* short, with volumes that end on a row and volumes that end inside one.  *)
(***************************************************************************)
EXTENDS DeviceMap

Array(level, count, members, chunk, logical, share) ==
  [level |-> level, count |-> count, chunk |-> chunk, logical |-> logical,
   base |-> 4, size |-> [i \in members |-> 4 + share]]

MCArrays ==
  { Array("raid0", 4, 0..3, 4, 16, 4),
    Array("raid0", 4, 0..3, 2, 14, 4),
    Array("raid0", 4, 0..3, 2, 16, 2),
    Array("raid1", 2, {0, 1}, 4, 6, 8),
    Array("raid1", 2, {1}, 2, 6, 6),
    Array("raid10", 4, {1, 2, 3}, 2, 12, 6),
    Array("raid10", 4, {0, 3}, 4, 16, 8),
    [Array("raid10", 4, 0..3, 2, 8, 8) EXCEPT !.size[2] = 7],
    Array("raid3", 3, {0, 2}, 2, 8, 4),
    Array("raid5", 4, 0..3, 2, 12, 4) }

(* Five chunks on four members that hold one chunk and a half. *)
MCPartialRow == {Array("raid0", 4, 0..3, 4, 20, 6)}
===============================================================================
