----------------------------- MODULE PatternMembers -----------------------------
(***************************************************************************)
(* raid_pattern.py verify-raid3-parity and verify-raid5-member: the        *)
(* capture of one member of a Raid Set whose volume was filled with the    *)
(* pattern is compared, row by row, with what the member should hold.  The *)
(* captures are those of the Raid Sets areca/array.py reads: its layout    *)
(* decides which member holds what, and the verifiers, which share no code *)
(* with it, are judged by that.                                            *)
(*                                                                         *)
(* A pattern sector holds its LBA three times, once plain, once            *)
(* complemented and once XORed with a constant, after a signature.  In a   *)
(* XOR of such sectors an even number of them cancels the signature and    *)
(* both masks, an odd number keeps them: the XOR is known by whether their *)
(* number is odd and by the XOR of the LBAs.                               *)
(***************************************************************************)
EXTENDS RaidLayout, Sequences

CONSTANTS
  Captures,   \* the captures there may be
  Questions,  \* the commands, with their arguments
  None,
  MaxLba,     \* the largest LBA struct.pack takes, 2^64 - 1
  LbaXor(_, _)  \* the XOR of two LBAs

ASSUME MembersAssumption ==
  /\ Captures \subseteq
       [level : ParityLevel, count : Nat, index : Nat, chunk : Nat \ {0},
        rows : Nat, base : Nat, damaged : Nat \cup {None}]
  /\ \A c \in Captures : Supported(c.level, c.count) /\ c.index < c.count
  /\ Questions \subseteq
       [command : ParityLevel, offset : Int, length : Int, base : Int,
        width : Int, index : Int, chunk : Int]
  /\ MaxLba \in Nat /\ None \notin BOOLEAN

VARIABLES
  capture,   \* level, count, index of the member, chunk in sectors, rows
             \* captured, base of the pattern, a damaged sector or None
  question,  \* command, offset and length in sectors, base, width (data
             \* members), index, chunk
  pc,        \* "start", "verify", "verified", "mismatch", "refused", or, by
             \* an exception in the middle, "failed" or "crashed"
  row        \* the row compared next

membersVars == <<capture, question, pc, row>>

-----------------------------------------------------------------------------
(* Sectors. *)

(* What no pattern sector and no XOR of them is. *)
Junk == [odd |-> None, lba |-> None]

MakeSector(lba) == [odd |-> TRUE, lba |-> lba]

(* xor_blocks, one sector of each block. *)
XorSectors(lbas) ==
  [odd |-> Len(lbas) % 2 = 1, lba |-> FoldFunction(LbaXor, 0, lbas)]

(* What array.py takes sector s of the capture for: a sector of a logical  *)
(* chunk, or else parity over its row.                                     *)
Captured(s) ==
  LET c     == capture
      r     == s \div c.chunk
      at    == s % c.chunk
      width == DataWidth(c.level, c.count)
      mine  == {n \in (r * width)..(r * width + width - 1) :
                  c.index \in Holders(c.level, c.count, n)}
      Lba(n) == c.base + n * c.chunk + at
  IN  CASE s = c.damaged -> Junk
        [] s # c.damaged /\ mine # {} ->
             MakeSector(Lba(CHOOSE n \in mine : TRUE))
        [] OTHER ->
             XorSectors([k \in 1..width |-> Lba(r * width + k - 1)])

CapturedSectors == capture.rows * capture.chunk

-----------------------------------------------------------------------------
(* The verifiers. *)

(* The LBAs of the row's data blocks, at one sector of the chunk. *)
RowLbas(r, at) ==
  [k \in 1..question.width |->
     question.base + (r * question.width + k - 1) * question.chunk + at]

(* Mutated: the parity comes back to the first member, not the last. *)
RowLayoutUp(r, count) ==
  [parity |-> r % count,
   data   |-> [step \in 1..(count - 1) |-> ((r % count) + step) % count]]

(* raid5_row_layout *)
RowLayout(r, count) ==
  LET parity == (count - 1) - (r % count)
  IN  [parity |-> parity,
       data   |-> [step \in 1..(count - 1) |-> (parity + step) % count]]

(* Mutated: the parity sectors are not compared. *)
ExpectedData(r, at) ==
  LET layout == RowLayout(r, question.width + 1)
  IN  IF question.command = "raid3" \/ question.index = layout.parity
      THEN Captured(question.offset + r * question.chunk + at)
      ELSE MakeSector(RowLbas(r, at)[CHOOSE k \in 1..question.width :
                                       layout.data[k] = question.index])

(* The sector the member should hold there. *)
ExpectedSector(r, at) ==
  LET layout == RowLayout(r, question.width + 1)
  IN  IF question.command = "raid3" \/ question.index = layout.parity
      THEN XorSectors(RowLbas(r, at))
      ELSE MakeSector(RowLbas(r, at)[CHOOSE k \in 1..question.width :
                                       layout.data[k] = question.index])

MembersInit ==
  /\ capture \in Captures /\ question \in Questions
  /\ pc = "start" /\ row = 0

(* The checks on the arguments, and on the range in the input.  No check   *)
(* looks at the base.                                                      *)
Askable ==
  /\ question.offset >= 0 /\ question.width >= 2 /\ question.chunk > 0
  /\ question.command = "raid5" => question.index \in 0..question.width
  /\ question.length > 0 /\ question.length % question.chunk = 0
  /\ question.offset + question.length <= CapturedSectors

(* The checks; open and the size may fail too. *)
Start ==
  /\ pc = "start"
  /\ pc' = "refused" \/ (Askable /\ pc' = "verify")
  /\ UNCHANGED <<capture, question, row>>

RowsLeft == row < question.length \div question.chunk

(* make_sector takes every LBA of the row: all its blocks are built, those *)
(* that are not compared too.                                              *)
RowFits ==
  \A at \in 0..(question.chunk - 1), k \in 1..question.width :
    RowLbas(row, at)[k] \in 0..MaxLba

(* Mutated: one sector of each block is compared. *)
VerifyRowFirst ==
  /\ pc = "verify" /\ RowsLeft /\ RowFits
  /\ IF Captured(question.offset + row * question.chunk) = ExpectedSector(row, 0)
     THEN row' = row + 1 /\ UNCHANGED pc
     ELSE pc' = "mismatch" /\ UNCHANGED row
  /\ UNCHANGED <<capture, question>>

(* The blocks of the row are XORed or picked, and compared. *)
VerifyRow ==
  /\ pc = "verify" /\ RowsLeft /\ RowFits
  /\ IF \A at \in 0..(question.chunk - 1) :
          Captured(question.offset + row * question.chunk + at)
            = ExpectedSector(row, at)
     THEN row' = row + 1 /\ UNCHANGED pc
     ELSE pc' = "mismatch" /\ UNCHANGED row
  /\ UNCHANGED <<capture, question>>

(* An LBA that does not fit raises a struct.error, which main does not     *)
(* catch; os.pread may fail, which it does.                                *)
VerifyRowRaises ==
  /\ pc = "verify" /\ RowsLeft
  /\ pc' = IF RowFits THEN "failed" ELSE "crashed"
  /\ UNCHANGED <<capture, question, row>>

Finish ==
  /\ pc = "verify" /\ ~RowsLeft
  /\ pc' = "verified"
  /\ UNCHANGED <<capture, question, row>>

MembersNext == Start \/ VerifyRow \/ VerifyRowRaises \/ Finish

MembersSpec == MembersInit /\ [][MembersNext]_membersVars

-----------------------------------------------------------------------------
Same(field) == capture[field] = question[field]

(* The question is about the member that was captured.  It may begin at    *)
(* any row of it: the pattern is then asked for with the base of that row, *)
(* and as parity has moved on, the index asked for has moved along.        *)
StartRow == question.offset \div question.chunk
RightQuestion ==
  /\ question.command = capture.level
  /\ question.width = DataWidth(capture.level, capture.count)
  /\ Same("chunk") /\ question.offset % question.chunk = 0
  /\ question.base = capture.base + StartRow * question.width * question.chunk
  /\ IF capture.level = "raid3"
     THEN capture.index = capture.count - 1
     ELSE question.index = (capture.index + StartRow) % capture.count

InRange(s) == s \in question.offset..(question.offset + question.length - 1)

(* The two descriptions of the layout in the repository agree: what        *)
(* array.py would read back as the volume is what the verifiers accept of  *)
(* every member they are asked about rightly: raid_pattern.py 263-318      *)
(* against array.py 83-86, 299-331.                                        *)
ReadersAgree ==
  pc = "mismatch" /\ RightQuestion => InRange(capture.damaged)

(* Whatever is asked about whichever member, no damaged sector is in a     *)
(* range that verifies: the rows compared leave none of it out:            *)
(* raid_pattern.py 219-321.                                                *)
DamageIsFound == pc = "verified" => ~InRange(capture.damaged)

(* A member that verifies over one full turn of the parity is the member   *)
(* asked about, with the right chunk size, from a row that has the base    *)
(* given: no other sectors are or XOR to the same.  That needs an odd      *)
(* number of data members.  With an even one the parity of an aligned      *)
(* pattern is the same in every row, whatever its base is:                 *)
(* raid_pattern.py 219-321.                                                *)
FullTurn == question.length >= (question.width + 1) * question.chunk
Decides ==
  pc = "verified" /\ FullTurn /\ question.width % 2 = 1 => RightQuestion
===============================================================================
