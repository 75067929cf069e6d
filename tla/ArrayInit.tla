------------------------------- MODULE ArrayInit -------------------------------
(***************************************************************************)
(* ArecaArray.__init__ of areca/array.py, on a list of Member records:     *)
(* whether it returns, and the array it then leaves behind.                *)
(***************************************************************************)
EXTENDS MemberMetadata

(* _select_volume: the positions the selector fits, and no choice unless   *)
(* there is exactly one.                                                   *)
Candidates(volumes, choice) ==
  {k \in DOMAIN volumes :
     \/ choice.kind = "none"
     \/ choice.kind = "index" /\ k = choice.index + 1
     \/ choice.kind = "name" /\ volumes[k].name = choice.name}

Selected(volumes, choice) == CHOOSE k \in Candidates(volumes, choice) : TRUE

(* Mutated: only the counts are compared, not the fingerprints. *)
SameShape(list) ==
  \A k \in DOMAIN list :
    /\ Len(list[k].inspection.volumes) = Len(list[1].inspection.volumes)
    /\ list[k].inspection.member_count = list[1].inspection.member_count
    /\ list[k].inspection.member_index < list[k].inspection.member_count

(* The loop over the members: all of one Raid Set, at different places.    *)
SameRaidSet(list) ==
  \A k \in DOMAIN list :
    /\ list[k].fingerprint = list[1].fingerprint
    /\ Len(list[k].inspection.volumes) = Len(list[1].inspection.volumes)
    /\ list[k].inspection.member_count = list[1].inspection.member_count
    /\ list[k].inspection.member_index < list[k].inspection.member_count

NoDuplicate(list) ==
  \A j, k \in DOMAIN list :
    list[j].inspection.member_index = list[k].inspection.member_index => j = k

(* Mutated: two copies of zero agree. *)
SoundVolumeZero(volume) ==
  /\ volume.stripe = volume.stripeCopy
  /\ volume.code = volume.codeCopy

(* The fields of the selected volume that are checked against each other.  *)
SoundVolume(volume) ==
  /\ volume.stripe > 0
  /\ volume.stripe = volume.stripeCopy
  /\ volume.code = volume.codeCopy

Indices(list) == {list[k].inspection.member_index : k \in DOMAIN list}

(* Mutated: the member given at the index's place, whatever index it has. *)
FoundByPosition(list, i) == list[1 + (i % Len(list))]

(* The member `found` holds for an index. *)
Found(list, i) ==
  list[CHOOSE k \in DOMAIN list : list[k].inspection.member_index = i]

(* What self is made of: the record LogicalRead describes, with the path   *)
(* each member will be read from.                                          *)
Build(list, choice) ==
  LET first  == list[1].inspection
      volume == first.volumes[Selected(first.volumes, choice)]
  IN  [level   |-> DecodeLevel(volume.code, first.member_count),
       count   |-> first.member_count,
       chunk   |-> volume.stripe * SECTOR_SIZE,
       logical |-> volume.sectors * SECTOR_SIZE,
       base    |-> CandidateOffset(volume) * SECTOR_SIZE,
       size    |-> [i \in Indices(list) |->
                      Found(list, i).inspection.device_bytes],
       path    |-> [i \in Indices(list) |-> Found(list, i).path]]

Accepts(list, choice) ==
  /\ list # <<>>
  /\ LET volumes == list[1].inspection.volumes
         built   == Build(list, choice)
     IN  /\ Cardinality(Candidates(volumes, choice)) = 1
         /\ SameRaidSet(list)
         /\ NoDuplicate(list)
         /\ SoundVolume(volumes[Selected(volumes, choice)])
         /\ built.level # Unsupported
         /\ Complete(built.level, built.count, Indices(list))
================================================================================
