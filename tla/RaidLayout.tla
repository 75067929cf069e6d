------------------------------ MODULE RaidLayout ------------------------------
(***************************************************************************)
(* The geometry areca/array.py decodes and reads by: which RAID level the  *)
(* metadata means, which members a level can do without, and from which    *)
(* members a logical chunk is taken.  Chunks, rows and member indices are  *)
(* numbered from 0, as in the code.                                        *)
(***************************************************************************)
EXTENDS Integers, FiniteSets, FiniteSetsExt

RaidLevel == {"raid0", "raid1", "raid10", "raid3", "raid5"}
ParityLevel == {"raid3", "raid5"}

Unsupported == "unsupported"

(* _decode_level: only the combinations that were tested on hardware. *)
DecodeLevel(code, count) ==
  CASE code = 0 /\ count = 4        -> "raid0"
    [] code = 1 /\ count = 2        -> "raid1"
    [] code = 1 /\ count = 4        -> "raid10"
    [] code = 2 /\ count \in {3, 4} -> "raid3"
    [] code = 3 /\ count = 4        -> "raid5"
    [] OTHER                        -> Unsupported

(* The (level, member count) pairs DecodeLevel can produce. *)
Supported(level, count) ==
  \/ level = "raid1" /\ count = 2
  \/ level \in {"raid0", "raid10", "raid5"} /\ count = 4
  \/ level = "raid3" /\ count \in {3, 4}

(* Mutated: any two members of a RAID 1+0 set will do. *)
CompleteAnyTwo(level, count, members) ==
  CASE level = "raid0"  -> Cardinality(members) = count
    [] level = "raid1"  -> Cardinality(members) >= 1
    [] level = "raid10" -> Cardinality(members) >= 2
    [] OTHER            -> Cardinality(members) \in {count - 1, count}

(* _validate_completeness: the supplied members suffice for the level. *)
Complete(level, count, members) ==
  CASE level = "raid0"  -> Cardinality(members) = count
    [] level = "raid1"  -> Cardinality(members) >= 1
    [] level = "raid10" -> /\ members \cap {0, 1} # {}
                           /\ members \cap {2, 3} # {}
    [] OTHER            -> Cardinality(members) \in {count - 1, count}

(* Logical chunks in one row across the members. *)
DataWidth(level, count) ==
  CASE level = "raid1"  -> 1
    [] level = "raid10" -> 2
    [] level = "raid0"  -> count
    [] OTHER            -> count - 1

Row(level, count, chunk) == chunk \div DataWidth(level, count)

(* Mutated: parity turns around the data members. *)
Raid5ParityShort(row, count) == (count - 1) - (row % (count - 1))

(* raid5_row_layout: parity moves down from the last member, and the data  *)
(* of the row follows it, wrapping around.                                 *)
Raid5Parity(row, count) == (count - 1) - (row % count)
Raid5Data(row, count) ==
  [step \in 1..(count - 1) |-> (Raid5Parity(row, count) + step) % count]

(* The members _logical_chunk looks for a plain copy of the chunk on. *)
Holders(level, count, chunk) ==
  CASE level = "raid1"  -> 0..(count - 1)
    [] level = "raid0"  -> {chunk % count}
    [] level = "raid10" -> IF chunk % 2 = 0 THEN {0, 1} ELSE {2, 3}
    [] level = "raid3"  -> {chunk % (count - 1)}
    [] OTHER            -> {Raid5Data(chunk \div (count - 1), count)
                               [(chunk % (count - 1)) + 1]}

(* The members _logical_chunk reads and XORs: the first holder supplied,   *)
(* or, when the holder is missing from a parity set, every member there is.*)
Sources(level, count, members, chunk) ==
  LET direct == Holders(level, count, chunk) \cap members
  IN  IF direct # {} THEN {Min(direct)} ELSE members

(* xor_blocks, on symbolic content.  A value is the set of the symbols     *)
(* XORed into it, so a symbol survives iff an odd number of the blocks     *)
(* hold it, whatever bytes the symbols stand for.                          *)
XorBlocks(blocks) ==
  {s \in UNION {blocks[i] : i \in DOMAIN blocks} :
     Cardinality({i \in DOMAIN blocks : s \in blocks[i]}) % 2 = 1}
===============================================================================
