-------------------------------- MODULE LoopMap --------------------------------
(***************************************************************************)
(* `areca_member.py --create-loop`: one member is inspected, and a loop    *)
(* device is put over what create_loop takes for the volume on it, under   *)
(* the name the member had when it was inspected.                          *)
(***************************************************************************)
EXTENDS DeviceNames

VARIABLES
  name,            \* the device given
  writable, root,  \* --writable-loop, and whether root asks
  inspected,       \* the disk inspect has read
  loop             \* the loop device: disk, offset and limit in bytes, mode

loopVars == <<name, writable, root, behind, pc, inspected, loop, swaps>>

LoopEnded == {"mapped", "refused", "crashed"}

LoopInit ==
  /\ name \in Names /\ writable \in BOOLEAN /\ root \in BOOLEAN
  /\ behind \in Benches
  /\ pc = "inspect" /\ inspected = None /\ loop = None /\ swaps = 0

Volume1 == inspected.records[1]

Start == CandidateOffset(Volume1) * SECTOR_SIZE
Length == Volume1.sectors * SECTOR_SIZE

(* inspect(args.device) *)
InspectDevice ==
  /\ pc = "inspect"
  /\ \/ /\ InspectOutcome(behind[name]) = "ok"
        /\ pc' = "checks" /\ inspected' = behind[name]
     \/ InspectOutcome(behind[name]) = "crashed" /\ pc' = "crashed"
          /\ UNCHANGED inspected
     \/ pc' = "refused" /\ UNCHANGED inspected
  /\ UNCHANGED <<name, writable, root, behind, loop, swaps>>

(* Mutated: the capture is measured without what precedes the volume. *)
MappableShort ==
  /\ root
  /\ Len(inspected.records) = 1
  /\ Resolved(Volume1)
  /\ inspected.size >= Length

(* The checks of create_loop before the one of the level. *)
Mappable ==
  /\ root
  /\ Len(inspected.records) = 1
  /\ Resolved(Volume1)
  /\ inspected.size >= Start + Length

(* The level is the two-member mirror. *)
Mirrored == inspected.count = 2 /\ Volume1.code = 1

(* inferred_raid_level is None, which has no startswith. *)
NoLevel == inspected.count = 2 /\ Volume1.code > 3

CheckLoop ==
  /\ pc = "checks"
  /\ pc' = IF ~Mappable THEN "refused"
           ELSE IF NoLevel THEN "crashed"
           ELSE IF Mirrored THEN "losetup" ELSE "refused"
  /\ UNCHANGED <<name, writable, root, behind, inspected, loop, swaps>>

(* losetup --offset --sizelimit opens the name once more. *)
Losetup ==
  /\ pc = "losetup"
  /\ loop' = [disk |-> behind[name], offset |-> Start, limit |-> Length,
              readonly |-> ~writable]
  /\ pc' = "mapped"
  /\ UNCHANGED <<name, writable, root, behind, inspected, swaps>>

LosetupFails ==
  /\ pc = "losetup" /\ pc' = "refused"
  /\ UNCHANGED <<name, writable, root, behind, inspected, loop, swaps>>

SwapLoopNames ==
  /\ pc \notin LoopEnded /\ Exchange
  /\ UNCHANGED <<name, writable, root, pc, inspected, loop>>

LoopNext == InspectDevice \/ CheckLoop \/ Losetup \/ LosetupFails \/ SwapLoopNames

LoopSpec == LoopInit /\ [][LoopNext]_loopVars

-----------------------------------------------------------------------------
(* The array __init__ would make of the inspected disk alone. *)
Alone ==
  <<[inspection |-> Inspect(inspected), fingerprint |-> Fingerprint(inspected),
     path |-> name]>>
AnyVolume == [kind |-> "none"]

(* The two ways to a RAID1 volume lead to the same bytes.  When the member *)
(* alone makes an array, the loop device shows every byte that reconstruct *)
(* would write, at its place and no others, and all of them are on the     *)
(* disk: metadata.py 409-440 against array.py 209-231, 277-281.            *)
SameDisk == loop # None /\ loop.disk = inspected
LoopAgreesWithArray ==
  SameDisk /\ Accepts(Alone, AnyVolume) =>
    LET array == Build(Alone, AnyVolume)
    IN  /\ loop.limit = Maximum(array)
        /\ loop.offset + loop.limit <= loop.disk.size
        /\ \A b \in 0..(loop.limit - 1) :
             StoredByte(array, inspected.index, loop.offset + b) = {b}

(* "The tool derives the offset from an embedded primary GPT when          *)
(* possible", docs/recovery.md; metadata.py 204 never does.                *)
LoopFollowsGpt ==
  loop # None =>
    \A start \in inspected.gpt : loop.offset = start * SECTOR_SIZE

(* "It deliberately refuses ambiguous layouts instead of guessing",        *)
(* metadata.py 5: a level code the parser does not know is refused.        *)
UnknownLevelRefused ==
  inspected # None => pc # "crashed"
===============================================================================
