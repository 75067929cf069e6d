---------------------------- MODULE MemberMetadata ----------------------------
(***************************************************************************)
(* What areca/metadata.py and load_member read from one member: inspect    *)
(* and the metadata fingerprint, as functions of the disk that answers.    *)
(*                                                                         *)
(* A disk is a record:                                                     *)
(*   size          its length in bytes                                     *)
(*   signed        LBA 1 holds the $RaidSD$ signature                      *)
(*   label         everything in LBA 1 to 7 not named here (Raid Set name, *)
(*                 capacity, reserved bytes)                               *)
(*   count, index  member count and the member's own index                 *)
(*   records       the $VolumE$ records of LBA 2 to 7, in slot order       *)
(*   gpt           member LBAs where a volume would start if the GPT       *)
(*                 headers found in the scanned part are LBA 1 of it       *)
(* and a Volume record holds name, sectors, units, stripe and code, the    *)
(* second copy the controller keeps of the last four, and volumeIndex.     *)
(***************************************************************************)
EXTENDS LogicalRead

CONSTANTS
  DataStart,       \* OBSERVED_DATA_START_SECTORS, 520 in the code
  AllocationUnit   \* VOLUME_ALLOCATION_UNIT_SECTORS, 512 in the code

ASSUME MetadataAssumption == DataStart \in Nat /\ AllocationUnit \in Nat

MetadataSectors == 8   \* LBA 0 to 7

Text == STRING

VolumeRecord ==
  [name : Text, sectors : Nat, sectorsCopy : Nat, units : Nat, unitsCopy : Nat,
   stripe : Nat, stripeCopy : Nat, code : Nat, codeCopy : Nat,
   volumeIndex : Nat]

Disk ==
  [size : Nat, signed : BOOLEAN, label : Text, count : Nat, index : Nat,
   records : Seq(VolumeRecord), gpt : SUBSET Nat]

-----------------------------------------------------------------------------
(* inspect *)

CandidateOffset(r) == DataStart + r.units * AllocationUnit

Resolved(r) == r.units = r.unitsCopy

(* The data width inspect divides the volume by. *)
InspectedWidth(disk, r) ==
  CASE r.code = 0                   -> disk.count
    [] r.code = 1 /\ disk.count = 4 -> 2
    [] r.code \in {2, 3}            -> disk.count - 1
    [] OTHER                        -> 1

(* One Volume record stops inspect: by an ArecaError (no length, or the    *)
(* start of the volume is past the end of the disk when a GPT sends it     *)
(* there), or by the ZeroDivisionError nothing catches.                    *)
DividesByZero(disk, r) == Resolved(r) /\ InspectedWidth(disk, r) = 0
StartUnreadable(disk, r) ==
  /\ Resolved(r) /\ r.units = 0 /\ disk.gpt # {}
  /\ disk.size < (CandidateOffset(r) + 1) * SECTOR_SIZE
Stops(disk, r) ==
  r.sectors = 0 \/ DividesByZero(disk, r) \/ StartUnreadable(disk, r)

(* "ok", "refused" by an ArecaError, or "crashed": the records are taken   *)
(* in order and the first that stops inspect decides.                      *)
NoMetadata(disk) ==
  \/ disk.size < MetadataSectors * SECTOR_SIZE
  \/ ~disk.signed
  \/ disk.records = <<>>
  \/ Cardinality(disk.gpt) > 1

InspectOutcome(disk) ==
  LET stops == {k \in DOMAIN disk.records : Stops(disk, disk.records[k])}
      first == disk.records[Min(stops)]
  IN  IF NoMetadata(disk) THEN "refused"
      ELSE IF stops = {} THEN "ok"
      ELSE IF first.sectors # 0 /\ DividesByZero(disk, first) THEN "crashed"
      ELSE "refused"

(* Mutated: rounded down. *)
MemberSectorsDown(disk, r) ==
  LET width == InspectedWidth(disk, r)
  IN  IF width = -1 THEN 2 - r.sectors ELSE r.sectors \div width

(* A member's share of the sectors, rounded up.  A parity level with the   *)
(* member count 0 makes the divisor -1.                                    *)
MemberSectors(disk, r) ==
  LET width == InspectedWidth(disk, r)
  IN  IF width = -1 THEN 2 - r.sectors
      ELSE (r.sectors + width - 1) \div width

(* The input ends before the member's share of the volume does. *)
EndsEarly(disk, r) ==
  /\ Resolved(r)
  /\ disk.size < (CandidateOffset(r) + MemberSectors(disk, r)) * SECTOR_SIZE

WarningKind == {"sectors", "units", "gpt", "stripe", "code", "short"}

(* The warnings about one record, by what they are about. *)
Warnings(disk, r) ==
  {w \in WarningKind :
     CASE w = "sectors" -> r.sectors # r.sectorsCopy
       [] w = "units"   -> ~Resolved(r)
       [] w = "gpt"     -> /\ Resolved(r) /\ r.units = 0
                           /\ disk.gpt \notin {{}, {CandidateOffset(r)}}
       [] w = "stripe"  -> r.stripe = 0 \/ r.stripe # r.stripeCopy
       [] w = "code"    -> r.code # r.codeCopy
       [] w = "short"   -> EndsEarly(disk, r)}

InspectionRecord ==
  [device_bytes : Nat, member_count : Nat, member_index : Nat,
   volumes : Seq(VolumeRecord), warnings : Seq(SUBSET WarningKind)]

(* The Inspection of a disk inspect does not stop at. *)
Inspect(disk) ==
  [device_bytes |-> disk.size, member_count |-> disk.count,
   member_index |-> disk.index, volumes |-> disk.records,
   warnings |-> [k \in DOMAIN disk.records |->
                   Warnings(disk, disk.records[k])]]

FingerprintRecord ==
  [signed : BOOLEAN, label : Text, count : Nat, records : Seq(VolumeRecord)]

(* _normalized_fingerprint: what SHA-256 sees of LBA 1 to 7, the member    *)
(* index blanked.                                                          *)
Fingerprint(disk) ==
  [signed |-> disk.signed, label |-> disk.label, count |-> disk.count,
   records |-> disk.records]
===============================================================================
