---------------------------- MODULE AssemblyProofs ----------------------------
(***************************************************************************)
(* The safety of Assembly and of LoopMap for every set of disks, every     *)
(* list of paths, every selector and any number of exchanged device names. *)
(***************************************************************************)
EXTENDS Assembly, LoopMap, LogicalReadProofs

(* A level that was decoded is one of the combinations Supported names. *)
LEMMA DecodedLevel ==
  ASSUME NEW code \in Nat, NEW count \in Nat,
         DecodeLevel(code, count) # Unsupported
  PROVE  /\ DecodeLevel(code, count) \in RaidLevel
         /\ Supported(DecodeLevel(code, count), count)
<1> DEFINE A == code = 0 /\ count = 4
           B == code = 1 /\ count = 2
           C == code = 1 /\ count = 4
           D == code = 2 /\ count \in {3, 4}
           E == code = 3 /\ count = 4
<1>1. CASE A
  <2>1. ~B /\ ~C /\ ~D /\ ~E
    BY <1>1
  <2>2. DecodeLevel(code, count) = "raid0"
    BY <1>1, <2>1, Zenon DEF DecodeLevel
  <2> QED BY <1>1, <2>2 DEF RaidLevel, Supported
<1>2. CASE B
  <2>1. ~A /\ ~C /\ ~D /\ ~E
    BY <1>2
  <2>2. DecodeLevel(code, count) = "raid1"
    BY <1>2, <2>1, Zenon DEF DecodeLevel
  <2> QED BY <1>2, <2>2 DEF RaidLevel, Supported
<1>3. CASE C
  <2>1. ~A /\ ~B /\ ~D /\ ~E
    BY <1>3
  <2>2. DecodeLevel(code, count) = "raid10"
    BY <1>3, <2>1, Zenon DEF DecodeLevel
  <2> QED BY <1>3, <2>2 DEF RaidLevel, Supported
<1>4. CASE D
  <2>1. ~A /\ ~B /\ ~C /\ ~E
    BY <1>4
  <2>2. DecodeLevel(code, count) = "raid3"
    BY <1>4, <2>1, Zenon DEF DecodeLevel
  <2> QED BY <1>4, <2>2 DEF RaidLevel, Supported
<1>5. CASE E
  <2>1. ~A /\ ~B /\ ~C /\ ~D
    BY <1>5
  <2>2. DecodeLevel(code, count) = "raid5"
    BY <1>5, <2>1, Zenon DEF DecodeLevel
  <2> QED BY <1>5, <2>2 DEF RaidLevel, Supported
<1>6. CASE ~A /\ ~B /\ ~C /\ ~D /\ ~E
  <2>1. DecodeLevel(code, count) = Unsupported
    BY <1>6, Zenon DEF DecodeLevel
  <2> QED BY <2>1
<1> HIDE DEF A, B, C, D, E
<1> QED BY <1>1, <1>2, <1>3, <1>4, <1>5, <1>6

(* What inspect and the fingerprint return has the shape of the records.   *)
LEMMA InspectType ==
  ASSUME NEW disk \in Disk
  PROVE  /\ Inspect(disk) \in InspectionRecord
         /\ Fingerprint(disk) \in FingerprintRecord
<1>1. \A r : Warnings(disk, r) \in SUBSET WarningKind
  BY Zenon DEF Warnings
<1>2. disk.records \in Seq(VolumeRecord)
  BY DEF Disk
<1>3. [k \in DOMAIN disk.records |-> Warnings(disk, disk.records[k])]
        \in Seq(SUBSET WarningKind)
  BY <1>1, <1>2
<1> QED BY <1>2, <1>3 DEF Disk, Inspect, Fingerprint, InspectionRecord,
           FingerprintRecord

(* A disk inspect does not stop at has records, all of some length. *)
LEMMA InspectedDisk ==
  ASSUME NEW disk \in Disk, InspectOutcome(disk) = "ok"
  PROVE  /\ disk.records # <<>>
         /\ \A k \in DOMAIN disk.records : disk.records[k].sectors # 0
<1>1. ~NoMetadata(disk)
  BY DEF InspectOutcome
<1>2. {k \in DOMAIN disk.records : Stops(disk, disk.records[k])} = {}
  BY <1>1 DEF InspectOutcome
<1> QED BY <1>1, <1>2 DEF NoMetadata, Stops

(* The volume __init__ selects is a record of the first member. *)
LEMMA SelectedIsRecord ==
  ASSUME NEW volumes, NEW choice,
         Cardinality(Candidates(volumes, choice)) = 1
  PROVE  Selected(volumes, choice) \in DOMAIN volumes
<1> DEFINE S == Candidates(volumes, choice)
<1>1. S # {}
  BY FS_EmptySet
<1>2. Selected(volumes, choice) \in S
  BY <1>1 DEF Selected
<1>3. S \subseteq DOMAIN volumes
  BY DEF Candidates
<1> QED BY <1>2, <1>3

(* A list of members as load_member leaves it: each was inspected on the   *)
(* disk `from` names, which inspect did not stop at.                       *)
InspectedList(list, from) ==
  /\ list \in Seq(Member) /\ from \in Seq(Disk) /\ Len(from) = Len(list)
  /\ \A k \in DOMAIN list :
       /\ InspectOutcome(from[k]) = "ok"
       /\ list[k].inspection = Inspect(from[k])

(* What Accepts says of the parts of the array __init__ builds. *)
LEMMA AcceptedParts ==
  ASSUME NEW list, NEW from, NEW choice, InspectedList(list, from),
         Accepts(list, choice)
  PROVE  LET first  == list[1].inspection
             volume == first.volumes[Selected(first.volumes, choice)]
         IN  /\ 1 \in DOMAIN list
             /\ first \in InspectionRecord
             /\ volume \in VolumeRecord
             /\ volume.sectors # 0 /\ volume.stripe # 0
             /\ DecodeLevel(volume.code, first.member_count) # Unsupported
             /\ Complete(DecodeLevel(volume.code, first.member_count),
                         first.member_count, Indices(list))
             /\ Indices(list) \subseteq 0..(first.member_count - 1)
<1> DEFINE first  == list[1].inspection
           n      == Selected(first.volumes, choice)
           volume == first.volumes[n]
<1>1. /\ 1 \in DOMAIN list /\ list[1] \in Member
      /\ DOMAIN list = 1..Len(list) /\ DOMAIN from = DOMAIN list
  BY DEF InspectedList, Accepts
<1>2. first \in InspectionRecord /\ first.volumes \in Seq(VolumeRecord)
  BY <1>1 DEF Member, InspectionRecord
<1>3. n \in DOMAIN first.volumes
  BY SelectedIsRecord DEF Accepts
<1>4. volume \in VolumeRecord
  BY <1>2, <1>3
<1>5. first.volumes = from[1].records
      /\ from[1] \in Disk /\ InspectOutcome(from[1]) = "ok"
  <2>1. from[1] \in Disk
    BY <1>1 DEF InspectedList
  <2>2. /\ InspectOutcome(from[1]) = "ok"
        /\ first = Inspect(from[1])
    BY <1>1 DEF InspectedList
  <2>3. Inspect(from[1]).volumes = from[1].records
    BY DEF Inspect
  <2> QED BY <2>1, <2>2, <2>3
<1>6. volume.sectors # 0
  BY <1>3, <1>5, InspectedDisk
<1>7. volume.stripe # 0
  BY <1>4 DEF Accepts, SoundVolume, VolumeRecord
<1>8. /\ DecodeLevel(volume.code, first.member_count) # Unsupported
      /\ Complete(DecodeLevel(volume.code, first.member_count),
                  first.member_count, Indices(list))
  BY DEF Accepts, Build
<1>9. Indices(list) \subseteq 0..(first.member_count - 1)
  <2> SUFFICES ASSUME NEW k \in DOMAIN list
               PROVE  list[k].inspection.member_index
                        \in 0..(first.member_count - 1)
    BY DEF Indices
  <2>1. SameRaidSet(list)
    BY DEF Accepts
  <2>2. list[k].inspection \in InspectionRecord
    <3>1. list[k] \in Member
      BY DEF InspectedList
    <3> QED BY <3>1 DEF Member
  <2>3. /\ list[k].inspection.member_index \in Nat
        /\ first.member_count \in Nat
    BY <2>2, <1>2 DEF InspectionRecord
  <2>4. list[k].inspection.member_index < first.member_count
    BY <2>1 DEF SameRaidSet
  <2> QED BY <2>3, <2>4
<1> QED BY <1>1, <1>2, <1>4, <1>6, <1>7, <1>8, <1>9

(* The array built from accepted list is one LogicalRead can work with. *)
LEMMA BuiltIsArray ==
  ASSUME NEW list, NEW from, NEW choice, InspectedList(list, from),
         Accepts(list, choice)
  PROVE  /\ Build(list, choice).level \in RaidLevel
         /\ IsArray(Build(list, choice))
<1> DEFINE first  == list[1].inspection
           volume == first.volumes[Selected(first.volumes, choice)]
           built  == Build(list, choice)
<1>1. /\ first \in InspectionRecord
      /\ volume \in VolumeRecord
      /\ volume.sectors # 0 /\ volume.stripe # 0
      /\ DecodeLevel(volume.code, first.member_count) # Unsupported
      /\ Complete(DecodeLevel(volume.code, first.member_count),
                  first.member_count, Indices(list))
      /\ Indices(list) \subseteq 0..(first.member_count - 1)
  BY AcceptedParts
<1>2. /\ volume.sectors \in Nat \ {0} /\ volume.stripe \in Nat \ {0}
      /\ volume.units \in Nat /\ volume.code \in Nat
      /\ first.member_count \in Nat
  BY <1>1 DEF VolumeRecord, InspectionRecord
<1>3. /\ built.level = DecodeLevel(volume.code, first.member_count)
      /\ built.count = first.member_count
      /\ built.chunk = volume.stripe * SECTOR_SIZE
      /\ built.logical = volume.sectors * SECTOR_SIZE
      /\ built.base = CandidateOffset(volume) * SECTOR_SIZE
      /\ built.size = [i \in Indices(list) |->
                        Found(list, i).inspection.device_bytes]
  BY DEF Build
<1>4. /\ built.level \in RaidLevel
      /\ Supported(built.level, built.count)
  BY <1>1, <1>2, <1>3, DecodedLevel
<1>5. /\ built.chunk \in Nat \ {0} /\ built.chunk % SECTOR_SIZE = 0
      /\ built.logical \in Nat \ {0} /\ built.logical % SECTOR_SIZE = 0
  <2>1. ASSUME NEW m \in Nat \ {0}
        PROVE  /\ m * SECTOR_SIZE \in Nat \ {0}
               /\ (m * SECTOR_SIZE) % SECTOR_SIZE = 0
    <3>1. SECTOR_SIZE \in Nat \ {0}
      BY SectorAssumption
    <3>2. (m * SECTOR_SIZE + 0) % SECTOR_SIZE = 0
      BY <3>1, DivModUnique, SMT
    <3>3. m * SECTOR_SIZE + 0 = m * SECTOR_SIZE
          /\ m * SECTOR_SIZE \in Nat \ {0}
      BY <3>1, SMT
    <3> QED BY <3>2, <3>3
  <2> HIDE DEF built, volume, first
  <2> QED BY <2>1, <1>2, <1>3
<1>6. built.base \in Nat
  <2> HIDE DEF built, volume, first
  <2>1. CandidateOffset(volume) \in Nat
    BY <1>2, MetadataAssumption, SMT DEF CandidateOffset
  <2> QED BY <2>1, <1>3, SectorAssumption
<1>7. ASSUME NEW i \in Indices(list)
      PROVE  Found(list, i).inspection.device_bytes \in Nat
  <2>1. PICK k \in DOMAIN list :
          list[k].inspection.member_index = i
    BY DEF Indices
  <2>2. Found(list, i) \in Member
    BY <2>1 DEF Found, InspectedList
  <2> QED BY <2>2 DEF Member, InspectionRecord
<1>8. /\ Members(built) = Indices(list)
      /\ \A i \in Members(built) : built.size[i] \in Nat
  <2> HIDE DEF built
  <2> QED BY <1>3, <1>7 DEF Members
<1>9. /\ Complete(built.level, built.count, Members(built))
      /\ Members(built) \subseteq 0..(built.count - 1)
  <2> HIDE DEF built
  <2> QED BY <1>1, <1>3, <1>8
<1>10. IsArray(built)
  <2> HIDE DEF built
  <2> QED BY <1>4, <1>5, <1>6, <1>8, <1>9 DEF IsArray
<1> QED BY <1>4, <1>10

-----------------------------------------------------------------------------
(* The order of the members. *)

(* A permutation of the places of a list reaches each of them once. *)
LEMMA PermutationFacts ==
  ASSUME NEW n \in Nat, NEW p \in Bijection(1..n, 1..n)
  PROVE  /\ p \in [1..n -> 1..n]
         /\ \A w \in 1..n : \E v \in 1..n : p[v] = w
         /\ \A u, v \in 1..n : p[u] = p[v] => u = v
<1>1. p \in Injection(1..n, 1..n) /\ p \in Surjection(1..n, 1..n)
  BY DEF Bijection
<1>2. \A w \in 1..n : \E v \in 1..n : p[v] = w
  BY <1>1 DEF Surjection
<1>3. p \in [1..n -> 1..n] /\ IsInjective(p)
  BY <1>1 DEF Injection
<1> QED BY <1>2, <1>3 DEF IsInjective

(* The way back. *)
LEMMA PermutationInverse ==
  ASSUME NEW n \in Nat, NEW p \in Bijection(1..n, 1..n)
  PROVE  \E q \in Bijection(1..n, 1..n) : \A k \in 1..n : p[q[k]] = k
<1> DEFINE q == [w \in 1..n |-> CHOOSE v \in 1..n : p[v] = w]
<1>1. /\ p \in [1..n -> 1..n]
      /\ \A w \in 1..n : \E v \in 1..n : p[v] = w
      /\ \A u, v \in 1..n : p[u] = p[v] => u = v
  BY PermutationFacts
<1>2. \A w \in 1..n : q[w] \in 1..n /\ p[q[w]] = w
  BY <1>1
<1>3. q \in [1..n -> 1..n]
  BY <1>2
<1>4. ASSUME NEW w \in 1..n PROVE \E v \in 1..n : q[v] = w
  <2>1. p[w] \in 1..n /\ q[p[w]] \in 1..n /\ p[q[p[w]]] = p[w]
    BY <1>1, <1>2
  <2>2. q[p[w]] = w
    BY <1>1, <2>1
  <2> QED BY <2>1, <2>2
<1>5. q \in Bijection(1..n, 1..n)
  <2>1. ASSUME NEW u \in 1..n, NEW v \in 1..n, q[u] = q[v]
        PROVE  u = v
    BY <1>2, <2>1
  <2>2. q \in Injection(1..n, 1..n)
    <3> HIDE DEF q
    <3> QED BY <1>3, <2>1 DEF Injection, IsInjective
  <2>3. q \in Surjection(1..n, 1..n)
    <3> HIDE DEF q
    <3> QED BY <1>3, <1>4 DEF Surjection
  <2> QED BY <2>2, <2>3 DEF Bijection
<1> HIDE DEF q
<1> QED BY <1>2, <1>5

(* A list of members each fingerprinted on the disk it was inspected on. *)
LoadedList(list, from) ==
  /\ InspectedList(list, from)
  /\ \A k \in DOMAIN list : list[k].fingerprint = Fingerprint(from[k])

Permuted(list, p) == [k \in DOMAIN list |-> list[p[k]]]

LEMMA PermutedIsLoaded ==
  ASSUME NEW list, NEW from, LoadedList(list, from),
         NEW p \in Bijection(DOMAIN list, DOMAIN list)
  PROVE  /\ LoadedList(Permuted(list, p), Permuted(from, p))
         /\ DOMAIN Permuted(list, p) = DOMAIN list
         /\ \A k \in DOMAIN list : Permuted(list, p)[k] = list[p[k]]
<1> DEFINE n == Len(list)
<1>1. /\ n \in Nat /\ DOMAIN list = 1..n /\ DOMAIN from = 1..n
      /\ list \in [1..n -> Member] /\ from \in [1..n -> Disk]
  BY DEF LoadedList, InspectedList
<1>2. p \in [1..n -> 1..n]
  BY <1>1, PermutationFacts
<1>3. /\ Permuted(list, p) = [k \in 1..n |-> list[p[k]]]
      /\ Permuted(from, p) = [k \in 1..n |-> from[p[k]]]
  BY <1>1 DEF Permuted
<1>4. /\ Permuted(list, p) \in Seq(Member) /\ Len(Permuted(list, p)) = n
      /\ Permuted(from, p) \in Seq(Disk) /\ Len(Permuted(from, p)) = n
  <2> HIDE DEF n
  <2>1. \A k \in 1..n : list[p[k]] \in Member /\ from[p[k]] \in Disk
    BY <1>1, <1>2
  <2>2. /\ Permuted(list, p) \in [1..n -> Member]
        /\ Permuted(from, p) \in [1..n -> Disk]
    BY <1>3, <2>1
  <2> QED BY <1>1, <2>2
<1>5. ASSUME NEW k \in 1..n
      PROVE  /\ InspectOutcome(from[p[k]]) = "ok"
             /\ list[p[k]].inspection = Inspect(from[p[k]])
             /\ list[p[k]].fingerprint = Fingerprint(from[p[k]])
  BY <1>1, <1>2, Zenon DEF LoadedList, InspectedList
<1>6. /\ DOMAIN Permuted(list, p) = DOMAIN list
      /\ \A k \in DOMAIN list : Permuted(list, p)[k] = list[p[k]]
      /\ \A k \in DOMAIN list : Permuted(from, p)[k] = from[p[k]]
  BY <1>1, <1>3
<1>7. InspectedList(Permuted(list, p), Permuted(from, p))
  <2> HIDE DEF n
  <2> QED BY <1>1, <1>4, <1>5, <1>6 DEF InspectedList
<1>8. LoadedList(Permuted(list, p), Permuted(from, p))
  <2>1. ASSUME NEW k \in DOMAIN Permuted(list, p)
        PROVE  Permuted(list, p)[k].fingerprint
                 = Fingerprint(Permuted(from, p)[k])
    <3>1. k \in 1..n /\ Permuted(list, p)[k] = list[p[k]]
          /\ Permuted(from, p)[k] = from[p[k]]
      BY <1>1, <1>6
    <3> QED BY <1>5, <3>1
  <2> QED BY <1>7, <2>1 DEF LoadedList
<1> QED BY <1>6, <1>8

(* Members that pass for one Raid Set carry the same Volume records. *)
LEMMA SameVolumes ==
  ASSUME NEW list, NEW from, LoadedList(list, from), list # <<>>,
         SameRaidSet(list), NEW k \in DOMAIN list
  PROVE  /\ 1 \in DOMAIN list
         /\ list[k].inspection.volumes = list[1].inspection.volumes
         /\ list[k].inspection.member_count = list[1].inspection.member_count
         /\ list[k].fingerprint = list[1].fingerprint
<1>1. 1 \in DOMAIN list
  BY DEF LoadedList, InspectedList
<1>2. \A i \in DOMAIN list : list[i].inspection.volumes = from[i].records
                          /\ list[i].fingerprint.records = from[i].records
  <2> TAKE i \in DOMAIN list
  <2>1. Inspect(from[i]).volumes = from[i].records
    BY DEF Inspect
  <2>2. Fingerprint(from[i]).records = from[i].records
    BY DEF Fingerprint
  <2> QED BY <2>1, <2>2 DEF LoadedList, InspectedList
<1>3. /\ list[k].fingerprint = list[1].fingerprint
      /\ list[k].inspection.member_count = list[1].inspection.member_count
  BY DEF SameRaidSet
<1> QED BY <1>1, <1>2, <1>3

(* __init__ takes the members in any order, and makes the same of them. *)
LEMMA AcceptsPermuted ==
  ASSUME NEW list, NEW from, LoadedList(list, from),
         NEW p \in Bijection(DOMAIN list, DOMAIN list),
         NEW choice, Accepts(list, choice)
  PROVE  /\ Accepts(Permuted(list, p), choice)
         /\ Build(Permuted(list, p), choice) = Build(list, choice)
<1> DEFINE other  == Permuted(list, p)
           n      == Len(list)
           volumes == list[1].inspection.volumes
           volume == volumes[Selected(volumes, choice)]
           number(k) == list[k].inspection.member_index
<1>1. /\ n \in Nat /\ DOMAIN list = 1..n /\ 1 \in 1..n
  BY DEF LoadedList, InspectedList, Accepts
<1>2. /\ p \in [1..n -> 1..n]
      /\ \A w \in 1..n : \E v \in 1..n : p[v] = w
      /\ \A u, v \in 1..n : p[u] = p[v] => u = v
  BY <1>1, PermutationFacts
<1>3. /\ DOMAIN other = 1..n
      /\ \A k \in 1..n : other[k] = list[p[k]]
  BY <1>1, PermutedIsLoaded
<1>4. other # <<>>
  BY <1>1, <1>3
<1>5. \A k \in 1..n :
        /\ list[k].inspection.volumes = volumes
        /\ list[k].inspection.member_count = list[1].inspection.member_count
        /\ list[k].fingerprint = list[1].fingerprint
  BY <1>1, SameVolumes DEF Accepts
<1>6. \A k \in 1..n :
        /\ other[k].inspection.volumes = volumes
        /\ other[k].inspection.member_count = list[1].inspection.member_count
        /\ other[k].fingerprint = list[1].fingerprint
        /\ other[k].inspection.member_index = number(p[k])
  <2> TAKE k \in 1..n
  <2>1. p[k] \in 1..n /\ other[k] = list[p[k]]
    BY <1>2, <1>3
  <2> HIDE DEF other, n
  <2> QED BY <1>5, <2>1
<1>7. SameRaidSet(other)
  <2>1. \A k \in 1..n : number(k) < list[1].inspection.member_count
    BY <1>1, <1>5 DEF Accepts, SameRaidSet
  <2>2. ASSUME NEW k \in 1..n
        PROVE  /\ other[k].fingerprint = other[1].fingerprint
               /\ Len(other[k].inspection.volumes)
                    = Len(other[1].inspection.volumes)
               /\ other[k].inspection.member_count
                    = other[1].inspection.member_count
               /\ other[k].inspection.member_index
                    < other[k].inspection.member_count
    <3>1. p[k] \in 1..n
      BY <1>2
    <3> HIDE DEF other, number, volumes, n
    <3> QED BY <1>1, <1>6, <2>1, <3>1
  <2> HIDE DEF other
  <2> QED BY <1>3, <2>2 DEF SameRaidSet
<1>8. \A j, k \in 1..n : number(j) = number(k) => j = k
  BY <1>1 DEF Accepts, NoDuplicate
<1>9. NoDuplicate(other)
  <2> HIDE DEF other, number, volumes, n
  <2> QED BY <1>2, <1>3, <1>6, <1>8 DEF NoDuplicate
<1>10. Indices(other) = Indices(list)
  <2>1. Indices(list) = {number(k) : k \in 1..n}
    BY <1>1 DEF Indices
  <2>2. Indices(other) = {number(p[k]) : k \in 1..n}
    <3> HIDE DEF other, number, n
    <3> QED BY <1>3, <1>6 DEF Indices
  <2> HIDE DEF other, number, n
  <2> QED BY <1>2, <2>1, <2>2
<1>11. ASSUME NEW i \in Indices(list) PROVE Found(other, i) = Found(list, i)
  <2> DEFINE here  == CHOOSE k \in DOMAIN list :
                        list[k].inspection.member_index = i
             there == CHOOSE k \in DOMAIN other :
                        other[k].inspection.member_index = i
  <2>1. here \in 1..n /\ number(here) = i
    BY <1>1 DEF Indices
  <2>2. there \in 1..n /\ other[there].inspection.member_index = i
    <3>1. i \in Indices(other)
      BY <1>10
    <3> HIDE DEF other, number, n
    <3> QED BY <1>3, <3>1 DEF Indices
  <2>3. Found(list, i) = list[here] /\ Found(other, i) = other[there]
    BY DEF Found
  <2> HIDE DEF here, there, other, number, n
  <2>4. p[there] \in 1..n /\ number(p[there]) = i
    BY <1>2, <1>6, <2>2
  <2>5. p[there] = here
    BY <1>8, <2>1, <2>4
  <2> QED BY <1>3, <2>2, <2>3, <2>5
<1>12. Build(other, choice) = Build(list, choice)
  <2>1. /\ other[1].inspection.volumes = volumes
        /\ other[1].inspection.member_count = list[1].inspection.member_count
    BY <1>1, <1>6
  <2>2. [i \in Indices(other) |-> Found(other, i).inspection.device_bytes]
          = [i \in Indices(list) |-> Found(list, i).inspection.device_bytes]
    <3> HIDE DEF other
    <3> QED BY <1>10, <1>11
  <2>3. [i \in Indices(other) |-> Found(other, i).path]
          = [i \in Indices(list) |-> Found(list, i).path]
    <3> HIDE DEF other
    <3> QED BY <1>10, <1>11
  <2> HIDE DEF other
  <2> QED BY <2>1, <2>2, <2>3, Zenon DEF Build
<1>13. Accepts(other, choice)
  <2>1. other[1].inspection.volumes = volumes
    BY <1>1, <1>6
  <2> HIDE DEF other
  <2> QED BY <1>4, <1>7, <1>9, <1>10, <1>12, <2>1, Zenon DEF Accepts
<1> QED BY <1>12, <1>13

(* What is refused in one order is refused in every other. *)
LEMMA AcceptsEitherWay ==
  ASSUME NEW list, NEW from, LoadedList(list, from),
         NEW p \in Bijection(DOMAIN list, DOMAIN list),
         NEW choice, Accepts(Permuted(list, p), choice)
  PROVE  Accepts(list, choice)
<1> DEFINE other == Permuted(list, p)
           n     == Len(list)
<1>1. /\ n \in Nat /\ DOMAIN list = 1..n
      /\ list \in [1..n -> Member]
  BY DEF LoadedList, InspectedList
<1>2. PICK q \in Bijection(1..n, 1..n) : \A k \in 1..n : p[q[k]] = k
  BY <1>1, PermutationInverse
<1>3. q \in [1..n -> 1..n]
  BY <1>1, PermutationFacts
<1>4. /\ LoadedList(other, Permuted(from, p))
      /\ DOMAIN other = 1..n
      /\ \A k \in 1..n : other[k] = list[p[k]]
  BY <1>1, PermutedIsLoaded
<1>5. Permuted(other, q) = list
  <2> HIDE DEF n, other
  <2>1. \A k \in 1..n : other[q[k]] = list[k]
    BY <1>2, <1>3, <1>4
  <2> QED BY <1>1, <1>4, <2>1 DEF Permuted
<1> HIDE DEF n, other
<1> QED BY <1>2, <1>4, <1>5, AcceptsPermuted DEF other

-----------------------------------------------------------------------------
(* The shares of the members. *)

(* inspect divides by the width the array is read with: the two are        *)
(* computed by different code, and agree at every level that is decoded.   *)
LEMMA WidthsAgree ==
  ASSUME NEW disk, NEW r,
         disk.count \in Nat, r.code \in Nat,
         DecodeLevel(r.code, disk.count) # Unsupported
  PROVE  InspectedWidth(disk, r)
           = DataWidth(DecodeLevel(r.code, disk.count), disk.count)
<1> DEFINE level == DecodeLevel(r.code, disk.count)
<1>1. CASE r.code = 0 /\ disk.count = 4
  <2>1. r.code # 1 /\ r.code # 2 /\ r.code # 3 /\ r.code \notin {2, 3}
    BY <1>1
  <2>2. level = "raid0"
    BY <1>1, <2>1, Zenon DEF DecodeLevel
  <2>3. InspectedWidth(disk, r) = disk.count
    BY <1>1, <2>1, Zenon DEF InspectedWidth
  <2> QED BY <2>2, <2>3 DEF DataWidth
<1>2. CASE r.code = 1 /\ disk.count = 2
  <2>1. r.code # 0 /\ r.code \notin {2, 3} /\ disk.count # 4
    BY <1>2
  <2>2. level = "raid1"
    BY <1>2, <2>1, Zenon DEF DecodeLevel
  <2>3. InspectedWidth(disk, r) = 1
    BY <2>1, Zenon DEF InspectedWidth
  <2> QED BY <2>2, <2>3 DEF DataWidth
<1>3. CASE r.code = 1 /\ disk.count = 4
  <2>1. r.code # 0 /\ r.code \notin {2, 3} /\ disk.count # 2
    BY <1>3
  <2>2. level = "raid10"
    BY <1>3, <2>1, Zenon DEF DecodeLevel
  <2>3. InspectedWidth(disk, r) = 2
    BY <1>3, <2>1, Zenon DEF InspectedWidth
  <2> QED BY <2>2, <2>3 DEF DataWidth
<1>4. CASE r.code \in {2, 3}
  <2>1. r.code # 0 /\ r.code # 1
    BY <1>4
  <2>2. InspectedWidth(disk, r) = disk.count - 1
    BY <1>4, <2>1, Zenon DEF InspectedWidth
  <2>3. level \in {"raid3", "raid5", Unsupported}
    BY <2>1, Zenon DEF DecodeLevel
  <2>4. level # "raid0" /\ level # "raid1" /\ level # "raid10"
    BY <2>3 DEF Unsupported
  <2>5. DataWidth(level, disk.count) = disk.count - 1
    BY <2>4, Zenon DEF DataWidth
  <2> QED BY <2>2, <2>5
<1>5. r.code \in {2, 3} \/ (r.code = 0 /\ disk.count = 4)
        \/ (r.code = 1 /\ disk.count \in {2, 4})
  <2>1. Supported(level, disk.count) /\ level \in RaidLevel
    BY DecodedLevel
  <2>2. CASE ~(\/ r.code \in {2, 3}
               \/ r.code = 0 /\ disk.count = 4
               \/ r.code = 1 /\ disk.count \in {2, 4})
    <3>1. /\ ~(r.code = 0 /\ disk.count = 4) /\ ~(r.code = 1 /\ disk.count = 2)
          /\ ~(r.code = 1 /\ disk.count = 4)
          /\ ~(r.code = 2 /\ disk.count \in {3, 4})
          /\ ~(r.code = 3 /\ disk.count = 4)
      BY <2>2
    <3>2. level = Unsupported
      BY <3>1, Zenon DEF DecodeLevel
    <3> QED BY <3>2
  <2> QED BY <2>2
<1> QED BY <1>1, <1>2, <1>3, <1>4, <1>5

(* The share rounded up is not zero, and enough of them are the whole. *)
LEMMA RoundedUp ==
  ASSUME NEW sectors \in Nat \ {0}, NEW width \in Nat \ {0}
  PROVE  /\ (sectors + width - 1) \div width \in Nat \ {0}
         /\ sectors <= ((sectors + width - 1) \div width) * width
<1> DEFINE n == sectors + width - 1
           m == n \div width
<1>1. n \in Nat /\ n >= width
  OBVIOUS
<1>2. /\ m \in Int /\ n % width \in 0..(width - 1)
      /\ n = m * width + (n % width)
  <2>1. n \in Int
    BY <1>1
  <2> HIDE DEF n
  <2> QED BY <2>1, DivMod
<1>3. m * width \in Int
  BY <1>2
<1> HIDE DEF m
<1>4. sectors <= m * width
  BY <1>2, <1>3
<1>5. m > 0
  <2> SUFFICES ASSUME m <= 0 PROVE FALSE
    BY <1>2
  <2>1. m * width <= 0 * width
    BY <1>2, MulMonotonic
  <2> QED BY <1>3, <1>4, <2>1
<1> QED BY <1>2, <1>4, <1>5 DEF m

(* Members that hold as much as the volume leave nothing out. *)
LEMMA MaximumIsAll ==
  ASSUME NEW a, IsArray(a), Available(a) > 0,
         a.logical <= Available(a) * DataWidth(a.level, a.count)
  PROVE  Maximum(a) = a.logical
<1> DEFINE cover == Available(a) * DataWidth(a.level, a.count)
<1>1. Available(a) \in Int /\ a.logical \in Int
  BY AvailableIsLeast DEF IsArray
<1>2. cover \in Int
  <2>1. DataWidth(a.level, a.count) \in Nat \ {0}
    BY SupportedShape DEF IsArray
  <2> QED BY <1>1, <2>1, SMT
<1>3. ~(Available(a) <= 0)
  BY <1>1
<1>4. Maximum(a) = Min({a.logical, cover})
  BY <1>3 DEF Maximum
<1> HIDE DEF cover
<1>5. /\ Min({a.logical, cover}) \in {a.logical, cover}
      /\ Min({a.logical, cover}) <= a.logical
      /\ Min({a.logical, cover}) <= cover
  BY <1>1, <1>2, MinOfTwo
<1>6. a.logical <= cover
  BY DEF cover
<1> QED BY <1>1, <1>2, <1>4, <1>5, <1>6

(* An array of members of which none ends early covers its volume. *)
LEMMA LongMembersCover ==
  ASSUME NEW list, NEW from, LoadedList(list, from),
         NEW choice, Accepts(list, choice),
         NEW volume,
         volume = list[1].inspection.volumes
                    [Selected(list[1].inspection.volumes, choice)],
         \A k \in DOMAIN list :
           Resolved(volume) /\ ~EndsEarly(from[k], volume)
  PROVE  Maximum(Build(list, choice)) = Build(list, choice).logical
<1> DEFINE first == list[1].inspection
           built == Build(list, choice)
           width == DataWidth(built.level, built.count)
           share == (volume.sectors + width - 1) \div width
<1>1. /\ first \in InspectionRecord /\ 1 \in DOMAIN list
      /\ volume \in VolumeRecord
      /\ volume.sectors # 0
      /\ DecodeLevel(volume.code, first.member_count) # Unsupported
  BY AcceptedParts DEF LoadedList
<1>2. /\ volume.sectors \in Nat \ {0} /\ volume.units \in Nat
      /\ volume.code \in Nat /\ first.member_count \in Nat
  BY <1>1 DEF VolumeRecord, InspectionRecord
<1>3. /\ built.level = DecodeLevel(volume.code, first.member_count)
      /\ built.count = first.member_count
      /\ built.logical = volume.sectors * SECTOR_SIZE
      /\ built.base = CandidateOffset(volume) * SECTOR_SIZE
      /\ built.size = [i \in Indices(list) |->
                        Found(list, i).inspection.device_bytes]
  BY DEF Build
<1>4. IsArray(built)
  BY BuiltIsArray DEF LoadedList
<1> HIDE DEF built
<1>5. width \in Nat \ {0}
  BY <1>4, SupportedShape DEF IsArray
<1>6. share \in Nat \ {0} /\ volume.sectors <= share * width
  BY <1>2, <1>5, RoundedUp
<1> HIDE DEF share
<1>7. CandidateOffset(volume) \in Nat
  BY <1>2, MetadataAssumption, SMT DEF CandidateOffset
<1>8. ASSUME NEW k \in DOMAIN list
      PROVE  (CandidateOffset(volume) + share) * SECTOR_SIZE
               <= list[k].inspection.device_bytes
  <2>1. /\ from[k] \in Disk /\ list[k].inspection = Inspect(from[k])
        /\ list # <<>> /\ SameRaidSet(list)
    BY DEF LoadedList, InspectedList, Accepts
  <2>2. from[k].count = first.member_count
    <3>1. Inspect(from[k]).member_count = from[k].count
      BY DEF Inspect
    <3> QED BY <2>1, <3>1, SameVolumes
  <2>3. InspectedWidth(from[k], volume) = width
    BY <1>1, <1>2, <1>3, <2>2, WidthsAgree
  <2>4. width # -1
    BY <1>5
  <2>5. MemberSectors(from[k], volume) = share
    BY <2>3, <2>4 DEF MemberSectors, share
  <2>6. ~(from[k].size < (CandidateOffset(volume) + share) * SECTOR_SIZE)
    BY <2>5 DEF EndsEarly
  <2>7. /\ list[k].inspection.device_bytes = from[k].size
        /\ from[k].size \in Nat
    BY <2>1 DEF Inspect, Disk
  <2>8. (CandidateOffset(volume) + share) * SECTOR_SIZE \in Int
    BY <1>6, <1>7, SectorAssumption
  <2> QED BY <2>6, <2>7, <2>8
<1>9. Available(built) >= share * SECTOR_SIZE
  <2>1. PICK i \in Members(built) :
          Available(built) = built.size[i] - built.base
    BY <1>4, AvailableIsLeast
  <2>2. i \in Indices(list)
    BY <1>3, <2>1 DEF Members
  <2>3. PICK k \in DOMAIN list : Found(list, i) = list[k]
    BY <2>2 DEF Found, Indices
  <2>4. /\ built.size[i] = list[k].inspection.device_bytes
        /\ built.size[i] \in Nat
    BY <1>3, <1>4, <2>1, <2>2, <2>3 DEF IsArray
  <2>5. (CandidateOffset(volume) + share) * SECTOR_SIZE
          = CandidateOffset(volume) * SECTOR_SIZE + share * SECTOR_SIZE
    BY <1>6, <1>7, SectorAssumption
  <2>6. /\ CandidateOffset(volume) * SECTOR_SIZE \in Int
        /\ share * SECTOR_SIZE \in Int
    BY <1>6, <1>7, SectorAssumption
  <2> QED BY <1>3, <1>8, <2>1, <2>4, <2>5, <2>6
<1>10. /\ Available(built) \in Int /\ share * SECTOR_SIZE \in Nat \ {0}
  BY <1>4, <1>6, AvailableIsLeast, SectorAssumption
<1>11. Available(built) > 0
  BY <1>9, <1>10
<1>12. built.logical <= Available(built) * width
  <2>1. share * SECTOR_SIZE * width <= Available(built) * width
    BY <1>5, <1>9, <1>10, MulMonotonic
  <2>2. volume.sectors * SECTOR_SIZE <= (share * width) * SECTOR_SIZE
    BY <1>2, <1>5, <1>6, MulMonotonic, SectorAssumption
  <2>3. (share * width) * SECTOR_SIZE = share * SECTOR_SIZE * width
    BY <1>5, <1>6, SectorAssumption
  <2>4. /\ share * SECTOR_SIZE * width \in Int
        /\ Available(built) * width \in Int
        /\ volume.sectors * SECTOR_SIZE \in Int
    BY <1>2, <1>5, <1>6, <1>10, SectorAssumption
  <2> QED BY <1>3, <2>1, <2>2, <2>3, <2>4
<1> QED BY <1>4, <1>11, <1>12, MaximumIsAll DEF built

-----------------------------------------------------------------------------
(* The invariant. *)

LEMMA LoadedIsInspected == TypeOK /\ Loaded => InspectedList(members, disks)
BY DEF TypeOK, Loaded, InspectedList

LEMMA InvInit == Init => Inv
<1> SUFFICES ASSUME Init PROVE Inv
  OBVIOUS
<1>1. TypeOK
  <2>1. /\ paths \in Paths /\ paths \in Seq(Names) /\ selector \in Selectors
        /\ behind \in [Names -> Disk]
    BY AssemblyAssumption, DeviceNamesAssumption DEF Init
  <2>2. /\ pc = "inspect" /\ current = None
        /\ members = <<>> /\ disks = <<>> /\ torn = FALSE /\ swaps = 0
    BY DEF Init
  <2>3. /\ members \in Seq(Member) /\ disks \in Seq(Disk)
        /\ Len(disks) = Len(members) /\ Len(members) <= Len(paths)
    BY <2>1, <2>2
  <2>4. swaps \in 0..MaxSwaps
    BY <2>2, DeviceNamesAssumption
  <2>5. torn \in BOOLEAN
    BY <2>2
  <2> QED BY <2>1, <2>2, <2>3, <2>4, <2>5, Zenon DEF TypeOK, Ended
<1>2. Loaded /\ Judged
  BY DEF Init, Loaded, Judged
<1> QED BY <1>1, <1>2 DEF Inv

(* The path a call is at is one of its arguments. *)
LEMMA NameType ==
  ASSUME TypeOK, Len(members) < Len(paths)
  PROVE  Name \in Names /\ behind[Name] \in Disk
<1>1. paths \in Seq(Names) /\ Len(members) \in Nat
  BY AssemblyAssumption DEF TypeOK
<1>2. Len(members) + 1 \in 1..Len(paths)
  BY <1>1
<1>3. Name \in Names
  BY <1>1, <1>2 DEF Name
<1> QED BY <1>3 DEF TypeOK

LEMMA InvInspect == Inv /\ InspectMember => Inv'
<1> SUFFICES ASSUME Inv, InspectMember PROVE Inv'
  OBVIOUS
<1>1. behind[Name] \in Disk /\ Len(members) < Len(paths)
  BY NameType DEF Inv, InspectMember
<1>2. TypeOK'
  BY <1>1, DeviceNamesAssumption DEF Inv, TypeOK, InspectMember, Ended
<1>3. Loaded'
  BY DEF Inv, Loaded, InspectMember, TypeOK
<1>4. Judged'
  <2>1. /\ pc' # "assembled" /\ members' = members /\ paths' = paths
        /\ Len(members') < Len(paths')
    BY <1>1 DEF InspectMember
  <2>2. Len(members') # Len(paths')
    BY <1>1 DEF Inv, TypeOK, InspectMember
  <2> QED BY <2>1, <2>2, Zenon DEF Judged
<1> QED BY <1>2, <1>3, <1>4 DEF Inv

LEMMA InvFingerprint == Inv /\ FingerprintMember => Inv'
<1> SUFFICES ASSUME Inv, FingerprintMember PROVE Inv'
  OBVIOUS
<1> USE DEF Inv
<1>1. /\ pc = "fingerprint" /\ Len(members) < Len(paths)
      /\ current \in Disk /\ InspectOutcome(current) = "ok"
      /\ members \in Seq(Member) /\ disks \in Seq(Disk)
      /\ Len(disks) = Len(members)
      /\ paths \in Seq(Names)
  BY AssemblyAssumption, DeviceNamesAssumption
     DEF FingerprintMember, TypeOK, Loaded
<1>2. Name \in Names /\ behind[Name] \in Disk
  BY <1>1, NameType
<1> DEFINE new == [path |-> Name, inspection |-> Inspect(current),
                   fingerprint |-> Fingerprint(behind[Name])]
<1>3. new \in Member
  BY <1>1, <1>2, InspectType DEF Member
<1>4. CASE /\ members' = Append(members, new)
           /\ disks' = Append(disks, current)
           /\ torn' = (torn \/ behind[Name] # current)
           /\ pc' = "inspect"
  <2>1. /\ members' \in Seq(Member) /\ disks' \in Seq(Disk)
        /\ Len(members') = Len(members) + 1
        /\ Len(disks') = Len(disks) + 1
        /\ DOMAIN members' = 1..(Len(members) + 1)
    <3> HIDE DEF new
    <3> QED BY <1>1, <1>3, <1>4
  <2>2. TypeOK'
    <3> HIDE DEF new
    <3> QED BY <1>1, <1>4, <2>1 DEF TypeOK, FingerprintMember, Ended
  <2>3. ASSUME NEW k \in DOMAIN members'
        PROVE  /\ InspectOutcome(disks'[k]) = "ok"
               /\ members'[k].inspection = Inspect(disks'[k])
               /\ ~torn' => members'[k].fingerprint = Fingerprint(disks'[k])
    <3>1. CASE k \in DOMAIN members
      <4>1. members'[k] = members[k] /\ disks'[k] = disks[k]
        <5> HIDE DEF new
        <5> QED BY <1>1, <1>3, <1>4, <3>1
      <4>2. ~torn' => ~torn
        BY <1>4
      <4> QED BY <3>1, <4>1, <4>2 DEF Loaded
    <3>2. CASE k = Len(members) + 1
      <4>1. members'[k] = new /\ disks'[k] = current
        <5> HIDE DEF new
        <5> QED BY <1>1, <1>3, <1>4, <3>2
      <4>2. ~torn' => behind[Name] = current
        BY <1>4
      <4> QED BY <1>1, <4>1, <4>2
    <3> QED BY <1>1, <2>1, <3>1, <3>2
  <2>4. Loaded'
    BY <1>4, <2>3 DEF Loaded
  <2>5. Judged'
    BY <1>4 DEF Judged
  <2> QED BY <2>2, <2>4, <2>5
<1>5. CASE pc' = "refused" /\ UNCHANGED <<members, disks, torn>>
  <2>1. TypeOK'
    BY <1>1, <1>5 DEF TypeOK, FingerprintMember, Ended
  <2>2. Loaded'
    BY <1>5 DEF Loaded, FingerprintMember
  <2>3. pc' # "assembled" /\ Len(members') # Len(paths')
    BY <1>1, <1>5 DEF FingerprintMember
  <2>4. Judged'
    BY <2>3, Zenon DEF Judged
  <2> QED BY <2>1, <2>2, <2>4
<1> QED BY <1>4, <1>5 DEF FingerprintMember

LEMMA InvConstruct == Inv /\ Construct => Inv'
<1> SUFFICES ASSUME Inv, Construct PROVE Inv'
  OBVIOUS
<1> USE DEF Inv
<1>1. CASE Accepts(members, selector)
  <2>1. /\ pc' = "assembled" /\ array' = Build(members, selector)
        /\ Len(members) = Len(paths)
    BY <1>1 DEF Construct
  <2>2. Build(members, selector).level \in RaidLevel
    BY <1>1, LoadedIsInspected, BuiltIsArray
  <2>3. TypeOK'
    BY <2>1, <2>2 DEF TypeOK, Construct, Ended
  <2>4. Loaded'
    BY <2>1 DEF Loaded, Construct
  <2>5. Judged'
    BY <1>1, <2>1, Zenon DEF Judged, Construct
  <2> QED BY <2>3, <2>4, <2>5
<1>2. CASE ~Accepts(members, selector)
  <2>1. pc' = "refused"
    BY <1>2 DEF Construct
  <2>2. TypeOK'
    BY <2>1 DEF TypeOK, Construct, Ended
  <2>3. Loaded'
    BY <2>1 DEF Loaded, Construct
  <2>4. Judged'
    BY <1>2, <2>1, Zenon DEF Judged, Construct
  <2> QED BY <2>2, <2>3, <2>4
<1> QED BY <1>1, <1>2

LEMMA InvSwap == Inv /\ SwapNames => Inv'
<1> SUFFICES ASSUME Inv, SwapNames PROVE Inv'
  OBVIOUS
<1> USE DEF Inv
<1>1. behind' \in [Names -> Disk]
  BY DEF TypeOK, SwapNames, Exchange
<1>2. TypeOK'
  BY <1>1, DeviceNamesAssumption DEF TypeOK, SwapNames, Exchange, Ended
<1>3. Loaded' /\ Judged'
  BY DEF Loaded, Judged, SwapNames, Ended
<1> QED BY <1>2, <1>3

(* The types, and what the list of members is known to be at every step of *)
(* assemble, array.py 64-66 and 142-148.                                   *)
THEOREM Invariance == Spec => []Inv
<1>1. Inv /\ [Next]_vars => Inv'
  <2> SUFFICES ASSUME Inv, [Next]_vars PROVE Inv'
    OBVIOUS
  <2>1. CASE UNCHANGED vars
    BY <2>1, Zenon DEF Inv, TypeOK, Loaded, Judged, vars, Accepts, Build, Name
  <2> QED BY <2>1, InvInspect, InvFingerprint, InvConstruct, InvSwap DEF Next
<1> QED BY <1>1, InvInit, PTL DEF Spec

(* An array __init__ returns is one the reading code can work with, for    *)
(* every content of the disks: array.py 87-203.                            *)
THEOREM AssembledCorrect == Spec => []AssembledIsArray
<1>1. Inv => AssembledIsArray
  <2> SUFFICES ASSUME Inv, pc = "assembled" PROVE IsArray(array)
    BY DEF AssembledIsArray
  <2>1. Accepts(members, selector) /\ array = Build(members, selector)
    BY DEF Inv, Judged
  <2>2. IsArray(Build(members, selector))
    BY <2>1, LoadedIsInspected, BuiltIsArray DEF Inv
  <2> QED BY <2>1, <2>2
<1> QED BY <1>1, Invariance, PTL

(* Members of different Raid Sets are never put together while each is     *)
(* inspected and fingerprinted on the same disk: array.py 101-117.         *)
THEOREM MixedRefused == Spec => []MixedArraysRefused
<1>1. Inv => MixedArraysRefused
  <2> SUFFICES ASSUME Inv, pc = "assembled", ~torn,
                      NEW j \in DOMAIN disks, NEW k \in DOMAIN disks
               PROVE  /\ Fingerprint(disks[j]) = Fingerprint(disks[k])
                      /\ disks[j].index = disks[k].index => j = k
    BY DEF MixedArraysRefused, OneRaidSet
  <2>1. DOMAIN disks = DOMAIN members
    BY DEF Inv, TypeOK
  <2>2. SameRaidSet(members) /\ NoDuplicate(members)
    BY DEF Inv, Judged, Accepts
  <2>3. ASSUME NEW i \in DOMAIN members
        PROVE  /\ members[i].fingerprint = Fingerprint(disks[i])
               /\ members[i].inspection.member_index = disks[i].index
    <3>1. /\ members[i].fingerprint = Fingerprint(disks[i])
          /\ members[i].inspection = Inspect(disks[i])
      BY DEF Inv, Loaded
    <3>2. Inspect(disks[i]).member_index = disks[i].index
      BY DEF Inspect
    <3> QED BY <3>1, <3>2
  <2>4. Fingerprint(disks[j]) = Fingerprint(disks[k])
    <3>1. members[j].fingerprint = members[k].fingerprint
      BY <2>1, <2>2, Zenon DEF SameRaidSet
    <3> QED BY <2>1, <2>3, <3>1
  <2>5. disks[j].index = disks[k].index => j = k
    BY <2>1, <2>2, <2>3, Zenon DEF NoDuplicate
  <2> QED BY <2>4, <2>5
<1> QED BY <1>1, Invariance, PTL

(* Whether __init__ returns, and what, does not depend on the order of the *)
(* paths, whatever the disks hold: array.py 96-117.                        *)
THEOREM AnyOrder == Spec => []OrderIrrelevant
<1>1. Inv => OrderIrrelevant
  <2> SUFFICES ASSUME Inv, Constructed, ~torn,
                      NEW p \in Bijection(DOMAIN members, DOMAIN members)
               PROVE  /\ Accepts(Reordered(p), selector) <=> pc = "assembled"
                      /\ pc = "assembled"
                           => Build(Reordered(p), selector) = array
    BY DEF OrderIrrelevant
  <2>1. LoadedList(members, disks)
    <3>1. InspectedList(members, disks)
      BY LoadedIsInspected DEF Inv
    <3> QED BY <3>1 DEF Inv, Loaded, LoadedList
  <2>2. Reordered(p) = Permuted(members, p)
    BY DEF Reordered, Permuted
  <2>3. CASE pc = "assembled"
    <3>1. Accepts(members, selector) /\ array = Build(members, selector)
      BY <2>3 DEF Inv, Judged
    <3> QED BY <2>1, <2>2, <2>3, <3>1, AcceptsPermuted
  <2>4. CASE pc = "refused"
    <3>1. ~Accepts(members, selector)
      BY <2>4 DEF Inv, Judged, Constructed
    <3> QED BY <2>1, <2>2, <2>4, <3>1, AcceptsEitherWay
  <2> QED BY <2>3, <2>4 DEF Constructed
<1> QED BY <1>1, Invariance, PTL

(* An array that cannot return its whole volume was built from members one *)
(* of which inspect warned about: metadata.py 281-296 and array.py 217-231 *)
(* compute a member's share apart from each other, and agree.              *)
THEOREM TruncationReported == Spec => []TruncationIsReported
<1>1. Inv => TruncationIsReported
  <2> DEFINE chosen == SelectedOf(members)
             told(k) == members[k].inspection.warnings[chosen]
  <2> SUFFICES ASSUME Inv, pc = "assembled", ~torn,
                      \A k \in DOMAIN members :
                        told(k) \cap {"short", "units"} = {}
               PROVE  ~(Maximum(array) < array.logical)
    BY DEF TruncationIsReported
  <2>1. Accepts(members, selector) /\ array = Build(members, selector)
    BY DEF Inv, Judged
  <2>2. LoadedList(members, disks)
    <3>1. InspectedList(members, disks)
      BY LoadedIsInspected DEF Inv
    <3> QED BY <3>1 DEF Inv, Loaded, LoadedList
  <2> DEFINE volumes == members[1].inspection.volumes
             volume  == volumes[chosen]
  <2>3. chosen \in DOMAIN volumes
    BY <2>1, SelectedIsRecord DEF Accepts, SelectedOf
  <2>4. ASSUME NEW k \in DOMAIN members
        PROVE  Resolved(volume) /\ ~EndsEarly(disks[k], volume)
    <3>1. members[k].inspection.volumes = volumes
      BY <2>1, <2>2, SameVolumes DEF Accepts
    <3>2. members[k].inspection = Inspect(disks[k])
      BY DEF Inv, Loaded
    <3>3. /\ Inspect(disks[k]).volumes = disks[k].records
          /\ Inspect(disks[k]).warnings
               = [i \in DOMAIN disks[k].records |->
                    Warnings(disks[k], disks[k].records[i])]
      BY DEF Inspect
    <3>4. told(k) = Warnings(disks[k], volume)
      BY <2>3, <3>1, <3>2, <3>3
    <3>5. "units" \notin told(k) /\ "short" \notin told(k)
      OBVIOUS
    <3> HIDE DEF told, volume
    <3>6. "units" \in WarningKind /\ "short" \in WarningKind
      BY DEF WarningKind
    <3>7. Resolved(volume)
      BY <3>4, <3>5, <3>6 DEF Warnings
    <3>8. ~EndsEarly(disks[k], volume)
      BY <3>4, <3>5, <3>6 DEF Warnings
    <3> QED BY <3>7, <3>8
  <2>5. Maximum(array) = array.logical
    BY <2>1, <2>2, <2>4, LongMembersCover DEF SelectedOf
  <2>6. array.logical \in Nat
    BY <2>1, <2>2, BuiltIsArray DEF IsArray, LoadedList
  <2> QED BY <2>5, <2>6
<1> QED BY <1>1, Invariance, PTL
-----------------------------------------------------------------------------
(* The loop device over a mirror member. *)

(* What a call of create_loop knows of the disk it has inspected, and what *)
(* losetup was given.                                                      *)
LoopInv ==
  /\ name \in Names
  /\ behind \in [Names -> Disk]
  /\ inspected # None => inspected \in Disk /\ InspectOutcome(inspected) = "ok"
  /\ pc \in {"checks", "losetup", "mapped"} => inspected # None
  /\ pc \in {"losetup", "mapped"} => Mappable /\ Mirrored
  /\ loop # None => pc = "mapped" /\ loop.offset = Start /\ loop.limit = Length

LEMMA LoopInvInit == LoopInit => LoopInv
<1> SUFFICES ASSUME LoopInit PROVE LoopInv
  OBVIOUS
<1>1. name \in Names /\ behind \in [Names -> Disk]
  BY DeviceNamesAssumption DEF LoopInit
<1> QED BY <1>1 DEF LoopInit, LoopInv

LEMMA LoopInvNext == LoopInv /\ [LoopNext]_loopVars => LoopInv'
<1> SUFFICES ASSUME LoopInv, [LoopNext]_loopVars PROVE LoopInv'
  OBVIOUS
<1>1. CASE InspectDevice
  <2>1. /\ name' = name /\ behind' = behind /\ loop' = loop
        /\ behind[name] \in Disk
    BY <1>1 DEF InspectDevice, LoopInv
  <2>0. loop' = None
    BY <1>1, Zenon DEF InspectDevice, LoopInv
  <2>2. CASE /\ InspectOutcome(behind[name]) = "ok"
             /\ pc' = "checks" /\ inspected' = behind[name]
    <3>1. /\ name' \in Names /\ behind' \in [Names -> Disk]
          /\ inspected' \in Disk /\ InspectOutcome(inspected') = "ok"
          /\ inspected' # None /\ pc' \notin {"losetup", "mapped"}
      BY <2>1, <2>2, DeviceNamesAssumption DEF LoopInv
    <3> QED BY <2>0, <3>1, Zenon DEF LoopInv
  <2>3. CASE pc' \in {"refused", "crashed"} /\ inspected' = inspected
    <3>1. /\ name' \in Names /\ behind' \in [Names -> Disk]
          /\ pc' \notin {"checks", "losetup", "mapped"}
      BY <2>1, <2>3 DEF LoopInv
    <3> QED BY <2>0, <2>3, <3>1, Zenon DEF LoopInv
  <2> QED BY <1>1, <2>2, <2>3 DEF InspectDevice
<1>2. CASE CheckLoop
  <2>1. /\ name' = name /\ behind' = behind /\ loop' = loop
        /\ inspected' = inspected /\ pc = "checks"
    BY <1>2 DEF CheckLoop
  <2>2. pc' \in {"losetup", "refused", "crashed"}
    BY <1>2 DEF CheckLoop
  <2>3. pc' = "losetup" => Mappable' /\ Mirrored'
    <3>1. Volume1' = Volume1
      BY <2>1 DEF Volume1
    <3>2. root' = root
      BY <1>2 DEF CheckLoop
    <3>3. pc' = "losetup" => Mappable /\ Mirrored
      BY <1>2 DEF CheckLoop
    <3> QED BY <2>1, <3>1, <3>2, <3>3 DEF Mappable, Mirrored, Start, Length
  <2>4. loop' = None
    BY <2>1 DEF LoopInv
  <2> QED BY <2>1, <2>2, <2>3, <2>4, Zenon DEF LoopInv
<1>3. CASE Losetup
  <2>1. /\ name' = name /\ behind' = behind /\ root' = root
        /\ inspected' = inspected /\ pc = "losetup" /\ pc' = "mapped"
        /\ loop'.offset = Start /\ loop'.limit = Length
    BY <1>3 DEF Losetup
  <2>2. /\ Mappable' = Mappable /\ Mirrored' = Mirrored
        /\ Start' = Start /\ Length' = Length
    BY <2>1 DEF Mappable, Mirrored, Start, Length, Volume1
  <2> QED BY <2>1, <2>2, Zenon DEF LoopInv
<1>4. CASE LosetupFails
  BY <1>4 DEF LosetupFails, LoopInv
<1>5. CASE SwapLoopNames
  <2>1. behind' \in [Names -> Disk]
    BY <1>5 DEF SwapLoopNames, Exchange, LoopInv
  <2>2. /\ name' = name /\ root' = root /\ pc' = pc
        /\ inspected' = inspected /\ loop' = loop
    BY <1>5 DEF SwapLoopNames
  <2>3. /\ Mappable' = Mappable /\ Mirrored' = Mirrored
        /\ Start' = Start /\ Length' = Length
    BY <2>2 DEF Mappable, Mirrored, Start, Length, Volume1
  <2> QED BY <2>1, <2>2, <2>3, Zenon DEF LoopInv
<1>6. CASE UNCHANGED loopVars
  <2>1. /\ name' = name /\ root' = root /\ pc' = pc /\ behind' = behind
        /\ inspected' = inspected /\ loop' = loop
    BY <1>6 DEF loopVars
  <2>2. /\ Mappable' = Mappable /\ Mirrored' = Mirrored
        /\ Start' = Start /\ Length' = Length
    BY <2>1 DEF Mappable, Mirrored, Start, Length, Volume1
  <2> QED BY <2>1, <2>2, Zenon DEF LoopInv
<1> QED BY <1>1, <1>2, <1>3, <1>4, <1>5, <1>6 DEF LoopNext

(* The array of the mirror member alone, when there is one. *)
LEMMA AloneArray ==
  ASSUME LoopInv, inspected # None, Mappable, Mirrored,
         Accepts(Alone, AnyVolume)
  PROVE  LET array1 == Build(Alone, AnyVolume)
         IN  /\ IsArray(array1)
             /\ array1.level = "raid1" /\ array1.count = 2
             /\ array1.base = Start /\ array1.logical = Length
             /\ Maximum(array1) = Length
<1> DEFINE built == Build(Alone, AnyVolume)
<1>1. /\ inspected \in Disk /\ InspectOutcome(inspected) = "ok"
      /\ name \in Names
  BY DEF LoopInv
<1>2. /\ Len(Alone) = 1 /\ DOMAIN Alone = {1}
      /\ Alone[1].inspection = Inspect(inspected)
      /\ Alone[1] \in Member
  <2>1. Alone[1] \in Member
    BY <1>1, InspectType DEF Alone, Member
  <2> QED BY <2>1 DEF Alone
<1>3. InspectedList(Alone, <<inspected>>)
  <2>1. Alone \in Seq(Member)
    BY <1>2 DEF Alone
  <2>2. <<inspected>> \in Seq(Disk) /\ Len(<<inspected>>) = 1
    BY <1>1
  <2> QED BY <1>1, <1>2, <2>1, <2>2 DEF InspectedList
<1>4. IsArray(built)
  BY <1>3, BuiltIsArray
<1>5. /\ Alone[1].inspection.volumes = inspected.records
      /\ Alone[1].inspection.member_count = inspected.count
      /\ Alone[1].inspection.member_index = inspected.index
      /\ Alone[1].inspection.device_bytes = inspected.size
  BY <1>2 DEF Inspect
<1>6. Selected(inspected.records, AnyVolume) = 1
  <2>1. DOMAIN inspected.records = {1}
    BY <1>1 DEF Mappable, Disk
  <2>2. AnyVolume.kind = "none"
    BY DEF AnyVolume
  <2>3. Candidates(inspected.records, AnyVolume) = {1}
    BY <2>1, <2>2 DEF Candidates
  <2> QED BY <2>3 DEF Selected
<1>7. /\ built.level = DecodeLevel(Volume1.code, inspected.count)
      /\ built.count = inspected.count
      /\ built.base = Start /\ built.logical = Length
      /\ built.size = [i \in Indices(Alone) |->
                         Found(Alone, i).inspection.device_bytes]
  BY <1>5, <1>6 DEF Build, Volume1, Start, Length
<1>8. built.level = "raid1" /\ built.count = 2
  <2>1. Volume1.code = 1 /\ inspected.count = 2
    BY DEF Mirrored
  <2>2. DecodeLevel(1, 2) = "raid1"
    <3>1. 1 # 0 /\ 1 # 2 /\ 1 # 3 /\ 2 # 4
      OBVIOUS
    <3> QED BY <3>1, Zenon DEF DecodeLevel
  <2> HIDE DEF built
  <2> QED BY <1>7, <2>1, <2>2
<1> HIDE DEF built
<1>9. Available(built) = inspected.size - Start
  <2>1. PICK i \in Members(built) :
          Available(built) = built.size[i] - built.base
    BY <1>4, AvailableIsLeast
  <2>2. i \in Indices(Alone)
    BY <1>7, <2>1 DEF Members
  <2>3. Found(Alone, i) = Alone[1]
    BY <1>2, <2>2 DEF Found, Indices
  <2> QED BY <1>5, <1>7, <2>1, <2>2, <2>3
<1>10. /\ Length \in Nat \ {0} /\ Start \in Nat /\ inspected.size \in Nat
       /\ inspected.size >= Start + Length
  BY <1>1, <1>4, <1>7 DEF IsArray, Mappable, Disk
<1>11. Maximum(built) = Length
  <2>1. DataWidth(built.level, built.count) = 1
    BY <1>8 DEF DataWidth
  <2>2. /\ Available(built) > 0
        /\ built.logical
             <= Available(built) * DataWidth(built.level, built.count)
    BY <1>7, <1>9, <1>10, <2>1
  <2> QED BY <1>4, <1>7, <2>2, MaximumIsAll
<1> QED BY <1>4, <1>7, <1>8, <1>11 DEF built

(* The loop device over a mirror member shows what the array of that       *)
(* member would be read as, byte for byte, whenever losetup met the disk   *)
(* inspect had: metadata.py 409-440 against array.py 209-231 and 277-281.  *)
THEOREM LoopAgrees == LoopSpec => []LoopAgreesWithArray
<1>1. LoopInv => LoopAgreesWithArray
  <2> DEFINE built == Build(Alone, AnyVolume)
  <2> SUFFICES ASSUME LoopInv, loop # None, loop.disk = inspected,
                      Accepts(Alone, AnyVolume)
               PROVE  /\ loop.limit = Maximum(built)
                      /\ loop.offset + loop.limit <= loop.disk.size
                      /\ \A b \in 0..(loop.limit - 1) :
                           StoredByte(built, inspected.index, loop.offset + b)
                             = {b}
    BY DEF LoopAgreesWithArray, SameDisk
  <2>1. /\ inspected # None /\ inspected \in Disk /\ Mappable /\ Mirrored
        /\ loop.offset = Start /\ loop.limit = Length
    BY DEF LoopInv
  <2>2. /\ IsArray(built)
        /\ built.level = "raid1" /\ built.count = 2
        /\ built.base = Start /\ built.logical = Length
        /\ Maximum(built) = Length
    BY <2>1, AloneArray
  <2> HIDE DEF built
  <2>3. /\ built.chunk \in Nat \ {0} /\ Start \in Nat /\ Length \in Nat
    BY <2>2 DEF IsArray
  <2>4. loop.offset + loop.limit <= loop.disk.size
    BY <2>1, <2>3 DEF Mappable, Disk
  <2>5. ASSUME NEW b \in 0..(loop.limit - 1)
        PROVE  StoredByte(built, inspected.index, loop.offset + b) = {b}
    <3> DEFINE row == b \div built.chunk
               at  == b % built.chunk
    <3>1. b \in Nat /\ loop.offset = built.base /\ built.base \in Nat
      BY <2>1, <2>2, <2>3
    <3>2. /\ row \in Nat /\ at \in 0..(built.chunk - 1)
          /\ b = row * built.chunk + at
      <4>1. row \in Nat
        BY <2>3, <3>1, DivNat
      <4>2. b \in Int
        BY <3>1
      <4>3. at \in 0..(built.chunk - 1) /\ b = row * built.chunk + at
        BY <2>3, <4>2, DivMod
      <4> QED BY <4>1, <4>3
    <3> HIDE DEF row, at
    <3>3. row * built.chunk \in Nat /\ at \in Nat
      BY <2>3, <3>2
    <3>4. loop.offset + b = built.base + row * built.chunk + at
      BY <3>1, <3>2, <3>3
    <3>5. StoredByte(built, inspected.index, loop.offset + b)
            = BytesAt(StoredChunks(built.level, built.count,
                                   inspected.index, row), built.chunk, at)
      BY <2>2, <3>2, <3>4, StoredByteInRow
    <3>6. StoredChunks(built.level, built.count, inspected.index, row) = {row}
      BY <2>2, AtRaid1
    <3> QED BY <3>2, <3>5, <3>6 DEF BytesAt
  <2> QED BY <2>1, <2>2, <2>4, <2>5
<1> QED BY <1>1, LoopInvInit, LoopInvNext, PTL DEF LoopSpec
===============================================================================
