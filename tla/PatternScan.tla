------------------------------ MODULE PatternScan ------------------------------
(***************************************************************************)
(* raid_pattern.py scan: one pass over the sectors of a member or image    *)
(* that reports the runs of consecutive pattern LBAs as triples            *)
(* <<input sector, first LBA, sector count>>.  A sector is what            *)
(* decode_sector makes of it: the LBA it carries, or None.  The input may  *)
(* be cut shorter while it is scanned.  parse_size takes negative numbers: *)
(* an offset below zero is found out by the read, a length not above zero  *)
(* gives an empty loop.                                                    *)
(***************************************************************************)
EXTENDS PatternTool, Integers, Sequences

CONSTANTS
  Images,       \* what the input may hold: sequences of decoded sectors
  Offsets,      \* the --offset and --bytes a scan may be given
  Lengths

ASSUME PatternScanAssumption ==
  /\ None \notin Nat /\ None \notin Nat \X Nat \X Nat
  /\ Images \subseteq Seq(Nat \cup {None})
  /\ SectorBytes \in Nat \ {0}
  /\ Offsets \subseteq Int /\ Lengths \subseteq Int

VARIABLES
  image,          \* the input when the scan starts
  size,           \* its size in bytes by now
  offset, bytes,  \* the arguments
  current,        \* the run being extended, or None
  runs            \* the runs that have ended

vars == <<image, size, offset, bytes, pc, sector, current, runs>>

Init ==
  /\ image \in Images /\ size = Len(image) * SectorBytes
  /\ offset \in Offsets /\ bytes \in Lengths
  /\ pc = "start" /\ sector = 0 /\ current = None /\ runs = <<>>

Sectors == bytes \div SectorBytes
First   == offset \div SectorBytes

(* The sectors the scan is asked about, counted from 0. *)
Asked(k) == image[First + k + 1]

(* os.pread and decode_sector: a sector that is cut off carries nothing. *)
Decoded(k) ==
  IF offset + (k + 1) * SectorBytes <= size THEN Asked(k) ELSE None

(* The checks; open and the size may fail too. *)
Start ==
  /\ pc = "start"
  /\ \/ /\ offset % SectorBytes = 0 /\ bytes % SectorBytes = 0
        /\ offset + bytes <= size
        /\ pc' = "scan"
     \/ pc' = "refused"
  /\ UNCHANGED <<image, size, offset, bytes, sector, current, runs>>

(* The runs when the current one has ended. *)
Ended == IF current = None THEN runs ELSE Append(runs, current)

(* Mutated: the LBA is compared with the one the run began with. *)
ContinuesFromStart(lba) ==
  current # None /\ sector = current[1] + current[3] /\ lba = current[2] + 1

(* Mutated: the next sector expected is one too early. *)
ContinuesOneEarly(lba) ==
  /\ current # None
  /\ sector = current[1] + current[3] - 1 /\ lba = current[2] + current[3]

(* The sector read carries on the current run. *)
Continues(lba) ==
  /\ current # None
  /\ sector = current[1] + current[3] /\ lba = current[2] + current[3]

Begin(lba) == <<sector, lba, 1>>

(* Where in the input the next sector is. *)
Position == offset + sector * SectorBytes

Scan ==
  /\ pc = "scan" /\ sector < Sectors /\ Position >= 0
  /\ LET lba == Decoded(sector)
     IN  CASE lba = None -> runs' = Ended /\ current' = None
           [] lba # None /\ Continues(lba) ->
                /\ current' = [current EXCEPT ![3] = @ + 1]
                /\ UNCHANGED runs
           [] OTHER -> runs' = Ended /\ current' = Begin(lba)
  /\ sector' = sector + 1
  /\ UNCHANGED <<image, size, offset, bytes, pc>>

(* os.pread fails, as it always does before the start of the input; there  *)
(* an offset below a C long's raises an OverflowError, which main does not *)
(* catch.  The runs found so far are lost with the call.                   *)
ScanFails ==
  /\ pc = "scan" /\ sector < Sectors
  /\ pc' = "failed" \/ (Position < 0 /\ pc' = "crashed")
  /\ runs' = <<>> /\ current' = None
  /\ UNCHANGED <<image, size, offset, bytes, sector>>

(* Mutated: the run that reaches the end of the range is dropped. *)
FinishEarly ==
  /\ pc = "scan" /\ sector >= Sectors
  /\ pc' = "done" /\ current' = None
  /\ UNCHANGED <<image, size, offset, bytes, sector, runs>>

(* The last run ends with the range. *)
Finish ==
  /\ pc = "scan" /\ sector >= Sectors
  /\ runs' = Ended /\ current' = None
  /\ pc' = "done"
  /\ UNCHANGED <<image, size, offset, bytes, sector>>

(* Another program truncates the input. *)
Shrink ==
  /\ pc \in {"start", "scan"} /\ size > 0 /\ size' = size - 1
  /\ UNCHANGED <<image, offset, bytes, pc, sector, current, runs>>

Next == Start \/ Scan \/ ScanFails \/ Finish \/ Shrink

Spec == Init /\ [][Next]_vars

-----------------------------------------------------------------------------
Run == Nat \X Nat \X Nat

TypeOK ==
  /\ image \in Images /\ size \in Nat
  /\ offset \in Offsets /\ bytes \in Lengths
  /\ pc \in {"start", "scan", "done", "refused", "failed", "crashed"}
  /\ sector \in Nat
  /\ current \in Run \cup {None} /\ runs \in Seq(Run)

(* The runs found so far, the one still growing last. *)
Reported == Ended

Covers(r, k) == r[1] <= k /\ k < r[1] + r[3]

(* A reported run is real: it is not empty, and each of its sectors carries *)
(* the LBA its place in the run says, even when the input is cut short     *)
(* under the scan: raid_pattern.py 182-201.                                *)
RunsAreReal ==
  \A n \in DOMAIN Reported :
    LET r == Reported[n]
    IN  /\ r[3] > 0 /\ r[1] + r[3] <= sector
        /\ \A k \in 0..(r[3] - 1) : Asked(r[1] + k) = r[2] + k

(* Reported runs do not overlap, come in the order of the input, and are   *)
(* as long as they can be: two that meet do not continue each other, so    *)
(* that a break between them is a break in the data layout.                *)
RunsAreMaximal ==
  \A n \in DOMAIN Reported : n + 1 \in DOMAIN Reported =>
    LET r == Reported[n]
        s == Reported[n + 1]
    IN  /\ r[1] + r[3] <= s[1]
        /\ r[1] + r[3] = s[1] => s[2] # r[2] + r[3]

(* No sector that carries a pattern is left out, the last one of the range *)
(* included, but those that have been cut off since the scan began:        *)
(* raid_pattern.py 182-202.                                                *)
NothingMissed ==
  pc \in {"scan", "done"} =>
    \A k \in 0..(sector - 1) :
      Decoded(k) # None => \E n \in DOMAIN Reported : Covers(Reported[n], k)
===============================================================================
