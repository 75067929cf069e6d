--------------------------- MODULE ControllerLayout ---------------------------
(***************************************************************************)
(* What the ARC-5020 put on each member: the reference the reconstruction  *)
(* is judged by.  The controller is not part of the repository; parity     *)
(* levels are taken from the independent verifiers of raid_pattern.py,     *)
(* which compute the block each member must hold, and mirrored and striped *)
(* levels from the members the tests build.                                *)
(***************************************************************************)
EXTENDS Integers

(* raid_pattern.raid5_row_layout, which does not share code with array.py. *)
PatternParity(row, count) == (count - 1) - (row % count)
PatternOrder(row, count) ==
  [step \in 1..(count - 1) |-> (PatternParity(row, count) + step) % count]

(* verify_raid3_parity: ordered data members, parity on the last one. *)
Raid3Stored(count, index, row) ==
  LET first == row * (count - 1)
  IN  IF index = count - 1 THEN first..(first + count - 2) ELSE {first + index}

(* verify_raid5_member: the row's data blocks, or all of them XORed. *)
Raid5Stored(count, index, row) ==
  LET first == row * (count - 1)
      order == PatternOrder(row, count)
  IN  IF index = PatternParity(row, count)
      THEN first..(first + count - 2)
      ELSE {first + step - 1 : step \in {s \in DOMAIN order : order[s] = index}}

(* The logical chunks XORed into chunk row of member index. *)
StoredChunks(level, count, index, row) ==
  CASE level = "raid1"  -> {row}
    [] level = "raid0"  -> {row * count + index}
    [] level = "raid10" -> {2 * row + (index \div 2)}
    [] level = "raid3"  -> Raid3Stored(count, index, row)
    [] OTHER            -> Raid5Stored(count, index, row)

(* The logical bytes XORed into one byte of a member.  Logical byte b is   *)
(* the symbol b; a byte in front of the volume holds no logical byte of it,*)
(* which negative symbols stand for.                                       *)
StoredByte(array, index, offset) ==
  LET row == (offset - array.base) \div array.chunk
      at  == (offset - array.base) % array.chunk
  IN  {c * array.chunk + at :
         c \in StoredChunks(array.level, array.count, index, row)}
===============================================================================
