------------------------------- MODULE Assembly -------------------------------
(***************************************************************************)
(* ArecaArray.assemble of areca/array.py: the members are loaded one path  *)
(* after the other, and every member is opened twice, once to inspect it   *)
(* and once to fingerprint it.  The paths are device names, and what       *)
(* answers to a name may change between two opens.  When all are loaded,   *)
(* __init__ turns the list into an array or refuses it.                    *)
(***************************************************************************)
EXTENDS DeviceNames

CONSTANTS
  Paths,     \* the paths arguments a call may be given
  Selectors  \* the volume arguments a call may be given

Selector ==
  [kind : {"none"}] \cup [kind : {"index"}, index : Int]
                    \cup [kind : {"name"}, name : Text]

ASSUME AssemblyAssumption ==
  /\ Paths \subseteq Seq(Names)
  /\ Selectors \subseteq Selector

VARIABLES
  paths, selector,  \* the arguments of the call
  current,          \* the disk inspect has read, until it is fingerprinted
  members,          \* the list of Member objects
  disks,            \* history: the disk each of them was inspected on
  torn,             \* history: a member's two opens met different disks
  array             \* self, once pc is "assembled"

Member ==
  [path : Names, inspection : InspectionRecord,
   fingerprint : FingerprintRecord]

vars ==
  <<paths, selector, behind, pc, current, members, disks, torn, array, swaps>>

Ended == {"assembled", "refused", "crashed"}

-----------------------------------------------------------------------------
(* assemble and load_member. *)

Init ==
  /\ paths \in Paths /\ selector \in Selectors
  /\ behind \in Benches
  /\ pc = "inspect" /\ current = None
  /\ members = <<>> /\ disks = <<>> /\ torn = FALSE
  /\ array = None /\ swaps = 0

Name == paths[Len(members) + 1]

(* Mutated: the outcome is ignored. *)
InspectMemberUnchecked ==
  /\ pc = "inspect" /\ Len(members) < Len(paths)
  /\ pc' = "fingerprint" /\ current' = behind[Name]
  /\ UNCHANGED <<paths, selector, behind, members, disks, torn, array, swaps>>

(* inspect(resolved); any OSError ends the call as an ArecaError does. *)
InspectMember ==
  /\ pc = "inspect" /\ Len(members) < Len(paths)
  /\ \/ /\ InspectOutcome(behind[Name]) = "ok"
        /\ pc' = "fingerprint" /\ current' = behind[Name]
     \/ /\ InspectOutcome(behind[Name]) = "crashed"
        /\ pc' = "crashed" /\ UNCHANGED current
     \/ pc' = "refused" /\ UNCHANGED current
  /\ UNCHANGED <<paths, selector, behind, members, disks, torn, array, swaps>>

(* _normalized_fingerprint(resolved): the path is opened once more. *)
FingerprintMember ==
  /\ pc = "fingerprint"
  /\ \/ /\ behind[Name].size >= MetadataSectors * SECTOR_SIZE
        /\ pc' = "inspect"
        /\ members' = Append(members,
             [path |-> Name, inspection |-> Inspect(current),
              fingerprint |-> Fingerprint(behind[Name])])
        /\ disks' = Append(disks, current)
        /\ torn' = (torn \/ behind[Name] # current)
     \/ pc' = "refused" /\ UNCHANGED <<members, disks, torn>>
  /\ current' = None
  /\ UNCHANGED <<paths, selector, behind, array, swaps>>

(* cls(members, volume) *)
Construct ==
  /\ pc = "inspect" /\ Len(members) = Len(paths)
  /\ IF Accepts(members, selector)
     THEN pc' = "assembled" /\ array' = Build(members, selector)
     ELSE pc' = "refused" /\ UNCHANGED array
  /\ UNCHANGED <<paths, selector, behind, current, members, disks, torn, swaps>>

SwapNames ==
  /\ pc \notin Ended /\ Exchange
  /\ UNCHANGED <<paths, selector, pc, current, members, disks, torn, array>>

Next == InspectMember \/ FingerprintMember \/ Construct \/ SwapNames

Spec == Init /\ [][Next]_vars

-----------------------------------------------------------------------------
(* Properties. *)

Constructed == pc \in {"assembled", "refused"} /\ Len(members) = Len(paths)

SelectedOf(list) == Selected(list[1].inspection.volumes, selector)

TypeOK ==
  /\ paths \in Paths /\ selector \in Selectors
  /\ behind \in [Names -> Disk]
  /\ pc \in {"inspect", "fingerprint"} \cup Ended
  /\ current \in Disk \cup {None}
  /\ pc = "fingerprint" <=> current # None
  /\ disks \in Seq(Disk) /\ Len(disks) = Len(members)
  /\ Len(members) <= Len(paths)
  /\ pc = "fingerprint" => Len(members) < Len(paths)
  /\ members \in Seq(Member)
  /\ torn \in BOOLEAN
  /\ pc = "assembled" => array.level \in RaidLevel
  /\ swaps \in 0..MaxSwaps

(* What the proofs need besides the types.  A member was inspected on a    *)
(* disk inspect does not stop at, and unless torn its fingerprint is of    *)
(* the same disk; an array is what __init__ made of the members loaded.    *)
Loaded ==
  /\ pc = "fingerprint" => InspectOutcome(current) = "ok"
  /\ \A k \in DOMAIN members :
       /\ InspectOutcome(disks[k]) = "ok"
       /\ members[k].inspection = Inspect(disks[k])
       /\ ~torn => members[k].fingerprint = Fingerprint(disks[k])

Judged ==
  /\ pc = "assembled" => /\ Len(members) = Len(paths)
                         /\ Accepts(members, selector)
                         /\ array = Build(members, selector)
  /\ pc = "refused" /\ Len(members) = Len(paths) => ~Accepts(members, selector)

Inv == TypeOK /\ Loaded /\ Judged

(* Whatever the disks hold and however the names move, an array __init__   *)
(* returns is one the reading code can work with: a level with its own     *)
(* decoding, a chunk to advance by, a volume of some length, and members   *)
(* enough, at indices of the Raid Set: array.py 87-203 with the checks     *)
(* inspect has made of each member.                                        *)
AssembledIsArray == pc = "assembled" => IsArray(array)

(* The fingerprint keeps different arrays apart, and no two members claim  *)
(* one place, provided each member's two opens met the same disk:          *)
(* array.py 101-117.                                                       *)
OneRaidSet ==
  \A j, k \in DOMAIN disks :
    /\ Fingerprint(disks[j]) = Fingerprint(disks[k])
    /\ disks[j].index = disks[k].index => j = k
MixedArraysRefused == pc = "assembled" /\ ~torn => OneRaidSet

(* Without that proviso: a disk can take the place of another between      *)
(* inspect and _normalized_fingerprint, array.py 64-66.                    *)
TornMembersRefused == pc = "assembled" => OneRaidSet

(* The order of the paths decides nothing, though the first member names   *)
(* the volume and the others are compared with it: array.py 96-117.        *)
Reordered(p) == [k \in DOMAIN members |-> members[p[k]]]
OrderIrrelevant ==
  Constructed /\ ~torn =>
    \A p \in Bijection(DOMAIN members, DOMAIN members) :
      /\ Accepts(Reordered(p), selector) <=> pc = "assembled"
      /\ pc = "assembled" => Build(Reordered(p), selector) = array

(* When the members cannot cover the volume, inspect has warned of it on   *)
(* at least one of them, or has left the volume's start unresolved:        *)
(* metadata.py 281-296 against array.py 217-231, which compute the share   *)
(* of a member independently.                                              *)
TruncationIsReported ==
  pc = "assembled" /\ ~torn /\ Maximum(array) < array.logical =>
    \E k \in DOMAIN members :
      members[k].inspection.warnings[SelectedOf(members)]
        \cap {"short", "units"} # {}

(* Metadata whose copies disagree about where the volume starts or how     *)
(* long it is are refused; array.py 119-125 looks at two other pairs only. *)
InconsistentMetadataRefused ==
  pc = "assembled" =>
    \A k \in DOMAIN members :
      members[k].inspection.warnings[SelectedOf(members)]
        \cap {"sectors", "units"} = {}

(* "Unknown Areca models, firmware versions, RAID member counts, and        *)
(* untested layouts are intentionally rejected where possible", README:    *)
(* what is not assembled is refused; inspect does not survive a data width *)
(* of zero, metadata.py 286-289.                                           *)
UnknownCountsRejected == pc # "crashed"

(* An integer selects the Volume Set whose metadata carry that index;      *)
(* array.py 159-162 takes it as a position among the records found.        *)
SelectByMetadataIndex ==
  pc = "assembled" /\ selector.kind = "index" =>
    members[1].inspection.volumes[SelectedOf(members)].volumeIndex
      = selector.index
===============================================================================
