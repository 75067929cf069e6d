------------------------------ MODULE PatternWrite ------------------------------
(***************************************************************************)
(* raid_pattern.py write and verify, one command after another on the same *)
(* output.  A written sector is in the page cache until fsync; the process *)
(* can be killed inside a write, and the machine can lose what it has not  *)
(* flushed.  A sector is Old (what was there), Torn (half written: it      *)
(* decodes to no LBA), or the pattern LBA it carries.                      *)
(***************************************************************************)
EXTENDS PatternTool, Integers, Sequences, FiniteSetsExt

CONSTANTS
  DeviceSectors,  \* size of the output
  ChunkSectors,   \* CHUNK_SIZE // SECTOR_SIZE
  MaxLba,         \* the largest LBA struct.pack takes, 2^64 - 1
  ByteCounts,     \* the --bytes, --pattern-lba-base and --start-lba a
  Bases,          \*   command may be given, None when left out
  Starts,
  Old, Torn,
  MaxCommands     \* bound: commands run

ASSUME PatternWriteAssumption ==
  /\ DeviceSectors \in Nat /\ SectorBytes \in Nat \ {0}
  /\ ChunkSectors \in Nat \ {0} /\ MaxLba \in Nat
  /\ ByteCounts \subseteq Int /\ Bases \subseteq Int /\ Starts \subseteq Int
  /\ {None, Old, Torn} \cap Int = {} /\ Old # Torn
  /\ MaxCommands \in Nat \ {0}

VARIABLES
  disk,      \* what a read of each sector of the output gives
  flushed,   \* what it would give after a power cut
  writable,  \* the output passes the checks on what it is and who asks
  command,   \* the command and its arguments
  digest,    \* the sectors hashed so far
  intact,    \* history: the write that ended "done" last, until the next one
  asked,     \* history: <<sectors, base>> of every write that got to writing
  commands   \* commands run so far

writeVars ==
  <<disk, flushed, writable, command, pc, sector, digest, intact, asked, commands>>

Final == {"done", "verified", "mismatch", "refused", "failed", "crashed", "killed"}

Command ==
  [name : {"write"}, bytes : ByteCounts, base : Bases, ack : BOOLEAN]
    \cup [name : {"verify"}, bytes : ByteCounts, base : Bases \cup {None},
          start : Starts]

WriteInit ==
  /\ disk = [k \in 1..DeviceSectors |-> Old] /\ flushed = disk
  /\ writable \in BOOLEAN
  /\ command \in Command
  /\ pc = "check" /\ sector = 0 /\ digest = <<>>
  /\ intact = None /\ asked = {} /\ commands = 1

Wanted == command.bytes \div SectorBytes
WholeLength == command.bytes > 0 /\ command.bytes % SectorBytes = 0

-----------------------------------------------------------------------------
(* write_pattern *)

(* The checks, up to the size of the open output.  Writable stands for: no *)
(* mounted source by that name, a block device or a regular file, root     *)
(* when it is a device.  Reading mountinfo, stat, open and the size may    *)
(* also fail, whatever the arguments.                                      *)
CheckWrite ==
  /\ pc = "check" /\ command.name = "write"
  /\ \/ /\ command.ack /\ WholeLength /\ command.base >= 0 /\ writable
        /\ command.bytes <= DeviceSectors * SectorBytes
        /\ pc' = "write" /\ intact' = None
        /\ asked' = asked \cup {<<Wanted, command.base>>}
     \/ pc' = "refused" /\ UNCHANGED <<intact, asked>>
  /\ UNCHANGED <<disk, flushed, writable, command, sector, digest, commands>>

Count == Min({ChunkSectors, Wanted - sector})

(* Mutated: every chunk starts at the base again. *)
ChunkRestarting == [k \in 1..Count |-> command.base + k - 1]

(* The LBAs of the next chunk. *)
Chunk == [k \in 1..Count |-> command.base + sector + k - 1]

(* Mutated: only the first LBA of the chunk is looked at. *)
PacksFirst == Chunk[1] <= MaxLba

(* struct.pack takes every LBA of the chunk. *)
Packs == Chunk[Count] <= MaxLba

(* The output when the first n sectors of the chunk have been taken. *)
Taken(n) ==
  [k \in DOMAIN disk |->
     IF k - sector \in 1..n THEN Chunk[k - sector] ELSE disk[k]]

(* One chunk is built, written and hashed; an LBA that does not fit raises *)
(* a struct.error, which main does not catch, before any of it is written. *)
WriteChunk ==
  /\ pc = "write" /\ sector < Wanted
  /\ IF Packs
     THEN /\ disk' = Taken(Count)
          /\ digest' = digest \o Chunk
          /\ sector' = sector + Count
          /\ UNCHANGED pc
     ELSE pc' = "crashed" /\ UNCHANGED <<disk, sector, digest>>
  /\ UNCHANGED <<flushed, writable, command, intact, asked, commands>>

(* os.write takes less of it, or fails, or the process is killed in it. *)
WriteShort ==
  /\ pc = "write" /\ sector < Wanted /\ Packs
  /\ \E n \in 0..(Count - 1) :
       \/ disk' = Taken(n)
       \/ disk' = [Taken(n) EXCEPT ![sector + n + 1] = Torn]
  /\ pc' \in {"failed", "killed"}
  /\ UNCHANGED <<flushed, writable, command, sector, digest, intact, asked, commands>>

(* Mutated: the data are left in the page cache. *)
FsyncNot ==
  /\ pc = "write" /\ sector = Wanted
  /\ pc' = "done" /\ intact' = [sectors |-> Wanted, base |-> command.base]
  /\ UNCHANGED <<disk, flushed, writable, command, sector, digest, asked, commands>>

(* os.fsync, which may fail; the digest is printed.  An os.close or a      *)
(* print that fails after it ends the command as a failed fsync does, and  *)
(* that the data are safe all the same is a PowerCut that loses nothing.   *)
Fsync ==
  /\ pc = "write" /\ sector = Wanted
  /\ \/ /\ pc' = "done" /\ flushed' = disk
        /\ intact' = [sectors |-> Wanted, base |-> command.base]
     \/ pc' = "failed" /\ UNCHANGED <<flushed, intact>>
  /\ UNCHANGED <<disk, writable, command, sector, digest, asked, commands>>

-----------------------------------------------------------------------------
(* verify_pattern *)

(* The range is only held against the size: one that begins before the     *)
(* output gets through.  open and the size may fail too.                   *)
CheckVerify ==
  /\ pc = "check" /\ command.name = "verify"
  /\ \/ /\ WholeLength
        /\ command.start * SectorBytes + command.bytes
             <= DeviceSectors * SectorBytes
        /\ pc' = "verify"
     \/ pc' = "refused"
  /\ UNCHANGED <<disk, flushed, writable, command, sector, digest, intact, asked,
                 commands>>

Expected(index) ==
  (IF command.base = None THEN command.start ELSE command.base) + index

(* Where on the output the next sector is. *)
Here == command.start + sector + 1

(* Mutated: a sector that carries no LBA is passed over. *)
VerifyLenient ==
  /\ pc = "verify"
  /\ \/ sector = Wanted /\ pc' = "verified" /\ UNCHANGED sector
     \/ /\ sector < Wanted /\ Here \in DOMAIN disk
        /\ IF disk[Here] \in {Expected(sector), Torn, Old}
           THEN sector' = sector + 1 /\ UNCHANGED pc
           ELSE pc' = "mismatch" /\ UNCHANGED sector
  /\ UNCHANGED <<disk, flushed, writable, command, digest, intact, asked, commands>>

(* Mutated: the expected LBAs always count from the start of the output. *)
VerifyFromStart ==
  /\ pc = "verify"
  /\ \/ sector = Wanted /\ pc' = "verified" /\ UNCHANGED sector
     \/ /\ sector < Wanted /\ Here \in DOMAIN disk
        /\ IF disk[Here] = Here - 1
           THEN sector' = sector + 1 /\ UNCHANGED pc
           ELSE pc' = "mismatch" /\ UNCHANGED sector
  /\ UNCHANGED <<disk, flushed, writable, command, digest, intact, asked, commands>>

(* One sector is read, decoded and compared; the loop ends after the last. *)
Verify ==
  /\ pc = "verify"
  /\ \/ sector = Wanted /\ pc' = "verified" /\ UNCHANGED sector
     \/ /\ sector < Wanted /\ Here \in DOMAIN disk
        /\ IF disk[Here] = Expected(sector)
           THEN sector' = sector + 1 /\ UNCHANGED pc
           ELSE pc' = "mismatch" /\ UNCHANGED sector
  /\ UNCHANGED <<disk, flushed, writable, command, digest, intact, asked, commands>>

(* os.pread fails, as it always does before the start of the output; there *)
(* an offset below a C long's raises an OverflowError, which main does not *)
(* catch.                                                                  *)
VerifyFails ==
  /\ pc = "verify" /\ sector < Wanted
  /\ pc' = "failed" \/ (Here < 1 /\ pc' = "crashed")
  /\ UNCHANGED <<disk, flushed, writable, command, sector, digest, intact, asked,
                 commands>>

-----------------------------------------------------------------------------
(* The user and the machine. *)

NextCommand ==
  /\ pc \in Final /\ commands < MaxCommands /\ commands' = commands + 1
  /\ command' \in Command
  /\ pc' = "check" /\ sector' = 0 /\ digest' = <<>>
  /\ UNCHANGED <<disk, flushed, writable, intact, asked>>

(* The power fails: of what was not flushed, any part may be lost. *)
PowerCut ==
  /\ \E lost \in SUBSET {k \in DOMAIN disk : disk[k] # flushed[k]} :
       disk' = [k \in DOMAIN disk |-> IF k \in lost THEN flushed[k] ELSE disk[k]]
  /\ flushed' = disk'
  /\ pc' = IF pc \in Final THEN pc ELSE "killed"
  /\ UNCHANGED <<writable, command, sector, digest, intact, asked, commands>>

WriteNext ==
  \/ CheckWrite \/ WriteChunk \/ WriteShort \/ Fsync
  \/ CheckVerify \/ Verify \/ VerifyFails \/ NextCommand \/ PowerCut

WriteSpec == WriteInit /\ [][WriteNext]_writeVars

-----------------------------------------------------------------------------
Content == {Old, Torn} \cup (0..MaxLba)

WriteTypeOK ==
  /\ disk \in [1..DeviceSectors -> Content]
  /\ flushed \in [1..DeviceSectors -> Content]
  /\ writable \in BOOLEAN
  /\ command \in Command
  /\ pc \in {"check", "write", "verify"} \cup Final
  /\ sector \in 0..DeviceSectors
  /\ digest \in Seq(0..MaxLba)
  /\ commands \in 1..MaxCommands

(* Whatever is on a medium was put there by a write asked for: a sector    *)
(* that carries a pattern carries the LBA of its place in one of them.     *)
Placed(medium) ==
  \A k \in DOMAIN medium : medium[k] # Old =>
    \E w \in asked : k <= w[1] /\ medium[k] \in {Torn, w[2] + k - 1}

(* What the proofs need besides the types and the properties.  A command   *)
(* begins at its first sector.  A write stays within the output, and what  *)
(* it has hashed is what it has written so far; once it is done nothing is *)
(* left that a power cut could take.                                       *)
Fresh == pc = "check" => sector = 0 /\ digest = <<>>

WriteInRange ==
  pc \in {"write", "done"} =>
    /\ command.name = "write" /\ WholeLength /\ command.base >= 0
    /\ Wanted <= DeviceSectors /\ sector <= Wanted
    /\ <<Wanted, command.base>> \in asked

Hashed ==
  pc \in {"write", "done"} =>
    /\ Len(digest) = sector
    /\ \A k \in 1..sector : digest[k] = command.base + k - 1 /\ disk[k] = digest[k]

Settled ==
  /\ pc = "write" => intact = None
  /\ pc = "done" => sector = Wanted
  /\ pc = "done" \/ intact # None => disk = flushed
  /\ intact # None =>
       /\ intact \in [sectors : 0..DeviceSectors, base : Int]
       /\ \A k \in 1..intact.sectors : disk[k] = intact.base + k - 1

(* The part of the range verify has been through is on the output and was  *)
(* written.                                                                *)
Verified ==
  /\ asked \subseteq Nat \X Int
  /\ pc \in {"verify", "verified", "mismatch"} =>
       /\ command.name = "verify" /\ WholeLength
       /\ command.start + Wanted <= DeviceSectors /\ sector <= Wanted
       /\ sector > 0 \/ pc = "mismatch" => command.start >= 0
       /\ \A k \in 0..(sector - 1) : \E w \in asked :
            /\ command.start + k < w[1]
            /\ w[2] + command.start + k = Expected(k)
  /\ pc = "verified" => sector = Wanted

(* Wherever a write is cut off and whatever a power cut loses, a sector    *)
(* that carries a pattern carries the LBA that belongs to its place in one *)
(* of the writes asked for, and no sector past their ends is touched:      *)
(* raid_pattern.py 111-128.                                                *)
PlacedRight == Placed(disk)

(* The digest a write prints is that of the bytes on the output, and they  *)
(* stay there until the next write, power cuts included:                   *)
(* raid_pattern.py 121-137.                                                *)
DoneIsDurable ==
  /\ pc = "done" => digest = SubSeq(disk, 1, Wanted)
  /\ intact # None =>
       \A k \in 1..intact.sectors : disk[k] = intact.base + k - 1

(* A verified range holds the pattern, from the first sector to the last.  *)
(* A write that failed or was killed is therefore found out, unless an     *)
(* earlier write left the same pattern: raid_pattern.py 148-166.           *)
VerifiedIsWritten ==
  pc = "verified" =>
    \A k \in 0..(Wanted - 1) : \E w \in asked :
      /\ command.start + k < w[1]
      /\ w[2] + command.start + k = Expected(k)

(* A write that is done verifies, at any offset into it, when verify is    *)
(* told the base the same offset into the write had.                       *)
WrittenVerifies ==
  pc = "mismatch" /\ intact # None
    /\ command.start + Wanted <= intact.sectors
      => Expected(0) # intact.base + command.start

(* The inductive invariant. *)
WriteInv ==
  /\ WriteTypeOK /\ Fresh /\ WriteInRange /\ Hashed /\ Settled /\ Verified
  /\ PlacedRight /\ Placed(flushed) /\ WrittenVerifies

(* Needed for the refinement alone: a verify under way has seen the range  *)
(* up to its sector as it still is.                                        *)
Compared ==
  pc = "verify" =>
    \A k \in 0..(sector - 1) : disk[command.start + k + 1] = Expected(k)

(* The output as its user sees it: see AbstractOutput.  A verify takes     *)
(* effect when its loop ends, and until then has only been asked for.      *)
Output == INSTANCE AbstractOutput WITH
  safe    <- flushed,
  request <- IF command.name = "write"
             THEN [name |-> "write", start |-> 0, sectors |-> Wanted,
                   base |-> command.base]
             ELSE [name |-> "verify", start |-> command.start,
                   sectors |-> Wanted, base |-> Expected(0)],
  verdict <- IF pc \in {"check", "verify"} THEN "asked"
             ELSE IF pc = "write" THEN "writing" ELSE pc

(* Chunks, the page cache and the sector by sector loop of verify do not   *)
(* show: a write is done only when whole and safe, wherever it breaks off  *)
(* only its range is touched, and what verify says is so of its whole      *)
(* range at once: raid_pattern.py 111-137, 148-166.                        *)
OutputSpec == Output!Spec
===============================================================================
