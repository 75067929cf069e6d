---------------------------- MODULE DeviceMapProofs ----------------------------
(***************************************************************************)
(* For every array, every sector size and any number of renames: a map     *)
(* that device-mapper makes of a table dm_table returned reads the volume, *)
(* a write through a writable one reaches all there is of a byte, and a    *)
(* table of whole rows lies within the members it was made from.           *)
(***************************************************************************)
EXTENDS DeviceMap, LogicalReadProofs

-----------------------------------------------------------------------------
(* Where the targets look, in bytes of the volume.                         *)

(* A multiple of the sector survives the conversion to sectors and back. *)
LEMMA WholeSectors ==
  ASSUME NEW n \in Nat, NEW s \in Nat \ {0}, n % s = 0
  PROVE  (n \div s) * s = n /\ n \div s \in Nat
<1>1. n = (n \div s) * s + (n % s) /\ n \div s \in Nat
  <2>1. n \in Int
    BY SMT
  <2> QED BY <2>1, DivMod, DivNat
<1>2. (n \div s) * s \in Int
  BY <1>1, SMT
<1> QED BY <1>1, <1>2, SMT

(* Chunks of rows: dividing by the row is dividing by chunk, then width. *)
LEMMA DivOfDiv ==
  ASSUME NEW n \in Nat, NEW k \in Nat \ {0}, NEW w \in Nat \ {0}
  PROVE  n \div (k * w) = (n \div k) \div w
<1> DEFINE c == n \div k
           r == n % k
           q == c \div w
           p == c % w
<1>1. c \in Nat /\ r \in 0..(k - 1) /\ n = c * k + r
  <2>1. n \in Int
    BY SMT
  <2> QED BY <2>1, DivMod, DivNat
<1>2. q \in Nat /\ p \in 0..(w - 1) /\ c = q * w + p
  <2> HIDE DEF c
  <2>1. c \in Int
    BY <1>1, SMT
  <2> QED BY <1>1, <2>1, DivMod, DivNat
<1> DEFINE rest == p * k + r
<1> HIDE DEF c, r, q, p
<1>3. n = q * (k * w) + rest
  BY <1>1, <1>2, SMT DEF rest
<1>4. rest \in 0..(k * w - 1)
  <2>1. p * k <= (w - 1) * k /\ 0 <= p * k
    BY <1>2, MulMonotonic, SMT
  <2>2. (w - 1) * k = k * w - k /\ k * w \in Int /\ p * k \in Int
    BY <1>2, SMT
  <2> QED BY <1>1, <2>1, <2>2, SMT DEF rest
<1>5. k * w \in Nat \ {0}
  BY SMT
<1> HIDE DEF rest
<1>6. n \div (k * w) = q
  <2> DEFINE kw == k * w
  <2>1. kw \in Nat \ {0} /\ n = q * kw + rest /\ rest \in 0..(kw - 1)
    BY <1>3, <1>4, <1>5
  <2> HIDE DEF kw
  <2>2. n \div kw = q
    BY <1>2, <2>1, DivModUnique
  <2> QED BY <2>2 DEF kw
<1> QED BY <1>6 DEF q, c

(* The arrays of this module are arrays, and start at a sector. *)
LEMMA ArrayShape ==
  ASSUME NEW a \in Arrays
  PROVE  /\ IsArray(a) /\ Supported(a.level, a.count)
         /\ a.chunk \in Nat \ {0} /\ a.base \in Nat /\ a.logical \in Nat \ {0}
         /\ (a.base \div SECTOR_SIZE) * SECTOR_SIZE = a.base
         /\ (a.chunk \div SECTOR_SIZE) * SECTOR_SIZE = a.chunk
         /\ (a.logical \div SECTOR_SIZE) * SECTOR_SIZE = a.logical
<1>1. IsArray(a) /\ a.base % SECTOR_SIZE = 0
  BY DeviceMapAssumption
<1>2. SECTOR_SIZE \in Nat \ {0}
  BY SectorAssumption
<1>3. /\ a.chunk \in Nat \ {0} /\ a.base \in Nat /\ a.logical \in Nat \ {0}
      /\ a.chunk % SECTOR_SIZE = 0 /\ a.logical % SECTOR_SIZE = 0
      /\ Supported(a.level, a.count)
  BY <1>1 DEF IsArray
<1>4. a.chunk \in Nat /\ a.logical \in Nat
  BY <1>3
<1> QED BY <1>1, <1>2, <1>3, <1>4, WholeSectors

(* A byte is the byte at its remainder of the chunk of its quotient. *)
LEMMA ByteOfChunk ==
  ASSUME NEW byte \in Nat, NEW k \in Nat \ {0}
  PROVE  /\ byte % k \in 0..(k - 1)
         /\ BytesAt({byte \div k}, k, byte % k) = {byte}
<1> DEFINE c == byte \div k
           r == byte % k
<1>1. r \in 0..(k - 1) /\ byte = c * k + r
  <2>1. byte \in Int
    BY SMT
  <2> QED BY <2>1, DivMod
<1> HIDE DEF c, r
<1>2. BytesAt({c}, k, r) = {byte}
  BY <1>1, Zenon DEF BytesAt
<1> QED BY <1>1, <1>2 DEF c, r

-----------------------------------------------------------------------------
(* The legs of a table.                                                    *)

Plain(a) == a.level \notin ParityLevel

(* The member a leg is on is there and, by the level, the right one. *)
LEMMA LegShape ==
  ASSUME NEW a \in Arrays, Plain(a)
  PROVE  /\ a.level = "raid1" => /\ Len(Legs(a)) = 1 /\ DOMAIN Legs(a) = {1}
                                 /\ Legs(a)[1].member \in Members(a)
         /\ a.level = "raid10" => /\ Len(Legs(a)) = 2 /\ DOMAIN Legs(a) = {1, 2}
                                  /\ Legs(a)[1].member \in Members(a) \cap {0, 1}
                                  /\ Legs(a)[2].member \in Members(a) \cap {2, 3}
         /\ a.level = "raid0" => /\ Len(Legs(a)) = 4 /\ DOMAIN Legs(a) = 1..4
                                 /\ \A k \in 1..4 : Legs(a)[k].member = k - 1
         /\ a.level \in {"raid0", "raid1", "raid10"}
         /\ \A k \in DOMAIN Legs(a) : /\ Legs(a)[k].member \in Members(a)
                                      /\ Legs(a)[k].start = a.base \div SECTOR_SIZE
<1>1. IsArray(a)
  BY ArrayShape
<1>2. /\ Supported(a.level, a.count) /\ Members(a) \subseteq 0..(a.count - 1)
      /\ Complete(a.level, a.count, Members(a))
  BY <1>1 DEF IsArray
<1>3. a.level \in {"raid0", "raid1", "raid10"} /\ a.count \in Nat
  BY <1>2, SMT DEF Supported, Plain, ParityLevel
<1>4. \A S \in SUBSET Members(a) : S # {} => Min(S) \in S
  <2>1. SUFFICES ASSUME NEW S \in SUBSET Members(a), S # {} PROVE Min(S) \in S
    OBVIOUS
  <2>2. \A x \in 0..(a.count - 1) : x \in Int /\ 0 <= x
    BY <1>3, SMT
  <2>3. S \in SUBSET Int /\ \A x \in S : 0 <= x
    BY <1>2, <2>2
  <2> QED BY <2>1, <2>3, MinIsLeast
<1>5. \A i : Leg(a, i).member = i /\ Leg(a, i).start = a.base \div SECTOR_SIZE
  BY DEF Leg
<1>6. CASE a.level = "raid1"
  <2>1. Members(a) # {}
    BY <1>2, CompleteIsNotEmpty
  <2>2. Min(Members(a)) \in Members(a)
    BY <1>4, <2>1
  <2>3. Legs(a) = <<Leg(a, Min(Members(a)))>>
    BY <1>6, Zenon DEF Legs
  <2>4. Len(Legs(a)) = 1 /\ DOMAIN Legs(a) = {1} /\ Legs(a)[1] = Leg(a, Min(Members(a)))
    BY <2>3, SMT
  <2> QED BY <1>5, <1>6, <2>2, <2>4
<1>7. CASE a.level = "raid10"
  <2>1. Members(a) \cap {0, 1} # {} /\ Members(a) \cap {2, 3} # {}
    BY <1>2, <1>7, Zenon DEF Complete
  <2>2. /\ Min(Members(a) \cap {0, 1}) \in Members(a) \cap {0, 1}
        /\ Min(Members(a) \cap {2, 3}) \in Members(a) \cap {2, 3}
    BY <1>4, <2>1
  <2>3. Legs(a) = <<Leg(a, Min(Members(a) \cap {0, 1})), Leg(a, Min(Members(a) \cap {2, 3}))>>
    BY <1>7, Zenon DEF Legs
  <2>4. /\ Len(Legs(a)) = 2 /\ DOMAIN Legs(a) = {1, 2}
        /\ Legs(a)[1] = Leg(a, Min(Members(a) \cap {0, 1}))
        /\ Legs(a)[2] = Leg(a, Min(Members(a) \cap {2, 3}))
    BY <2>3, SMT
  <2> QED BY <1>5, <1>7, <2>2, <2>4
<1>8. CASE a.level = "raid0"
  <2>1. a.count = 4
    BY <1>2, <1>8 DEF Supported
  <2>2. Legs(a) = [k \in 1..4 |-> Leg(a, k - 1)]
    BY <1>8, <2>1, Zenon DEF Legs
  <2>3. Len(Legs(a)) = 4 /\ DOMAIN Legs(a) = 1..4
    BY <2>2, SMT
  <2>4. \A k \in 1..4 : Legs(a)[k] = Leg(a, k - 1)
    BY <2>2
  <2>5. Members(a) = 0..3
    <3>1. Cardinality(Members(a)) = a.count
      BY <1>2, <1>8, Zenon DEF Complete
    <3>2. Members(a) \subseteq 0..3
      <4>1. a.count - 1 = 3
        BY <2>1, SMT
      <4> QED BY <1>2, <4>1, Zenon
    <3>3. IsFiniteSet(0..3) /\ Cardinality(0..3) = IF 0 > 3 THEN 0 ELSE 3 - 0 + 1
      BY FS_Interval, 0 \in Int, 3 \in Int
    <3>4. Cardinality(0..3) = 4
      BY <3>3, SMT
    <3> QED BY <2>1, <3>1, <3>2, <3>3, <3>4, FS_Subset
  <2>6. \A k \in 1..4 : k - 1 \in 0..3
    BY SMT
  <2> QED BY <1>5, <1>8, <2>3, <2>4, <2>5, <2>6
<1> QED BY <1>3, <1>6, <1>7, <1>8

(* Where a byte of the volume lies by the level of the array. *)
LEMMA Placement ==
  ASSUME NEW a \in Arrays, Plain(a), NEW byte \in Nat
  PROVE  LET leg == LegOf(Table(a), byte)
             c   == byte \div a.chunk
         IN  /\ leg \in DOMAIN Legs(a)
             /\ OffsetOf(Table(a), byte)
                  = a.base + (c \div DataWidth(a.level, a.count)) * a.chunk
                           + (byte % a.chunk)
             /\ a.level = "raid0" => leg = (c % 4) + 1
             /\ a.level = "raid10" => leg = (c % 2) + 1
<1> DEFINE t == Table(a)
           k == a.chunk
           w == DataWidth(a.level, a.count)
           c == byte \div k
<1>1. /\ t.legs = Legs(a)
      /\ t.chunk * SECTOR_SIZE = k
      /\ t.target = IF a.level = "raid1" THEN "linear" ELSE "striped"
  BY ArrayShape DEF Table
<1>2. \A n \in DOMAIN Legs(a) : t.legs[n].start * SECTOR_SIZE = a.base
  BY <1>1, ArrayShape, LegShape, Zenon
<1>3. /\ k \in Nat \ {0} /\ byte \in Int /\ a.base \in Nat
      /\ Supported(a.level, a.count)
  BY ArrayShape, SMT
<1>4. c \in Nat /\ byte = c * k + (byte % k) /\ byte % k \in 0..(k - 1)
  <2> HIDE DEF k
  <2> QED BY <1>3, DivMod, DivNat
<1> HIDE DEF t, c, k
<1>5. CASE a.level = "raid1"
  <2>1. DOMAIN Legs(a) = {1} /\ w = 1
    BY <1>5, LegShape DEF DataWidth
  <2>2. LegOf(t, byte) = 1 /\ OffsetOf(t, byte) = a.base + byte
    BY <1>1, <1>2, <1>5, <2>1 DEF LegOf, OffsetOf
  <2>3. c \div 1 = c /\ c * k \in Int
    BY <1>3, <1>4, SMT
  <2>4. a.base + byte = a.base + (c \div 1) * k + (byte % k)
    BY <1>3, <1>4, <2>3, SMT
  <2> QED BY <1>5, <2>1, <2>2, <2>4 DEF t, c, k
<1>6. CASE a.level \in {"raid0", "raid10"}
  <2>1. w = Len(Legs(a)) /\ w \in Nat \ {0} /\ DOMAIN Legs(a) = 1..w
        /\ (a.level = "raid0" => w = 4) /\ (a.level = "raid10" => w = 2)
    <3>1. CASE a.level = "raid0"
      <4>1. a.count = 4
        BY <1>3, <3>1 DEF Supported
      <4>2. w = 4
        BY <3>1, <4>1 DEF DataWidth
      <4> HIDE DEF w
      <4>3. Len(Legs(a)) = 4 /\ DOMAIN Legs(a) = 1..4
        BY <3>1, LegShape
      <4> QED BY <3>1, <4>2, <4>3, SMT
    <3>2. CASE a.level = "raid10"
      <4>1. w = 2
        BY <3>2 DEF DataWidth
      <4> HIDE DEF w
      <4>2. Len(Legs(a)) = 2 /\ DOMAIN Legs(a) = {1, 2} /\ {1, 2} = 1..2
        BY <3>2, LegShape, SMT
      <4> QED BY <3>2, <4>1, <4>2, SMT
    <3> QED BY <1>6, <3>1, <3>2
  <2> HIDE DEF w
  <2>2. LegOf(t, byte) = (c % w) + 1
    BY <1>1, <1>6, <2>1 DEF LegOf, c
  <2>3. LegOf(t, byte) \in DOMAIN Legs(a)
    BY <1>4, <2>1, <2>2, SMT
  <2>4. OffsetOf(t, byte) = a.base + (byte \div (k * w)) * k + (byte % k)
    BY <1>1, <1>2, <1>6, <2>1, <2>3 DEF OffsetOf
  <2>5. byte \div (k * w) = c \div w
    BY <1>3, <2>1, DivOfDiv DEF c
  <2> QED BY <1>6, <2>1, <2>2, <2>3, <2>4, <2>5 DEF t, c, k, w
<1> QED BY <1>5, <1>6, LegShape

(* Where the target looks for a byte, the controller stored that byte, and *)
(* nothing else: array.py 407-427.                                         *)
THEOREM TargetReadsByte ==
  ASSUME NEW a \in Arrays, Plain(a), NEW byte \in Nat
  PROVE  StoredByte(a, Legs(a)[LegOf(Table(a), byte)].member,
                    OffsetOf(Table(a), byte)) = {byte}
<1> DEFINE c == byte \div a.chunk
           w == DataWidth(a.level, a.count)
           leg == LegOf(Table(a), byte)
           i == Legs(a)[leg].member
<1>1. /\ IsArray(a) /\ a.chunk \in Nat \ {0} /\ Supported(a.level, a.count)
  BY ArrayShape
<1>2. c \in Nat /\ w \in Nat \ {0}
  BY <1>1, DivNat, SupportedShape
<1>3. c \div w \in Nat
  <2> HIDE DEF c, w
  <2> QED BY <1>2, DivNat
<1>4. StoredChunks(a.level, a.count, i, c \div w) = {c}
  <2> HIDE DEF c
  <2>1. /\ leg \in DOMAIN Legs(a)
        /\ a.level = "raid0" => leg = (c % 4) + 1
        /\ a.level = "raid10" => leg = (c % 2) + 1
    BY Placement DEF c
  <2> HIDE DEF leg
  <2>2. CASE a.level = "raid1"
    <3>1. w = 1
      BY <2>2 DEF DataWidth
    <3> HIDE DEF w
    <3>2. c \div w = c
      BY <1>2, <3>1, SMT
    <3> QED BY <2>2, <3>2, AtRaid1
  <2>3. CASE a.level = "raid0"
    <3>1. a.count = 4
      BY <1>1, <2>3 DEF Supported
    <3>2. w = 4
      BY <2>3, <3>1 DEF DataWidth
    <3>3. i = leg - 1
      BY <2>1, <2>3, LegShape
    <3> HIDE DEF w, i
    <3>4. (c \div w) * 4 + i = c
      BY <1>2, <2>1, <2>3, <3>2, <3>3, SMT
    <3> QED BY <2>3, <3>1, <3>4, AtRaid0
  <2>4. CASE a.level = "raid10"
    <3>1. w = 2
      BY <2>4 DEF DataWidth
    <3>2. leg = 1 => i \in {0, 1}
      BY <2>4, LegShape
    <3>3. leg = 2 => i \in {2, 3}
      BY <2>4, LegShape
    <3> HIDE DEF w, i
    <3>4. 2 * (c \div w) + (i \div 2) = c
      BY <1>2, <2>1, <2>4, <3>1, <3>2, <3>3, SMT
    <3> QED BY <2>4, <3>4, AtRaid10
  <2> QED BY <2>2, <2>3, <2>4, LegShape
<1>5. OffsetOf(Table(a), byte) = a.base + (c \div w) * a.chunk + (byte % a.chunk)
  BY Placement
<1> DEFINE r == byte % a.chunk
<1>6. r \in 0..(a.chunk - 1) /\ BytesAt({c}, a.chunk, r) = {byte}
  BY <1>1, ByteOfChunk
<1> HIDE DEF i, w, leg, c, r
<1> DEFINE row == c \div w
<1> HIDE DEF row
<1>7. StoredByte(a, i, a.base + row * a.chunk + r)
        = BytesAt(StoredChunks(a.level, a.count, i, row), a.chunk, r)
  <2>1. row \in Nat /\ IsArray(a) /\ r \in 0..(a.chunk - 1)
    BY <1>1, <1>3, <1>6 DEF row
  <2> QED BY <2>1, StoredByteInRow, Zenon
<1> QED BY <1>4, <1>5, <1>6, <1>7 DEF i, leg, r, row

-----------------------------------------------------------------------------
(* The commands.                                                           *)

(* What is known of a table that was returned, and of a map made of one:   *)
(* dm_table refused parity levels and members that do not cover the        *)
(* volume, main refused to write to anything but RAID 0.                   *)
Returned ==
  /\ pc \in {"members", "options", "dmsetup", "printed", "active"} =>
       Maximum(array) >= array.logical
  /\ TableReturned => table = Table(array) /\ Plain(array)
  /\ pc = "dmsetup" /\ writable => array.level = "raid0"
  /\ mode = "writable" => array.level = "raid0"

IInv == TypeOK /\ Returned

(* The members a table names are members of the array. *)
LEMMA OnLegsType ==
  ASSUME NEW a \in Arrays, Plain(a), array = a, table = Table(a),
         behind \in [Members(a) -> Members(a)]
  PROVE  OnLegs \in [DOMAIN table.legs -> Members(a)]
<1>1. table.legs = Legs(a)
  BY DEF Table
<1>2. \A k \in DOMAIN table.legs : table.legs[k].member \in Members(a)
  BY <1>1, LegShape
<1>3. \A k \in DOMAIN table.legs : behind[table.legs[k].member] \in Members(a)
  BY <1>2
<1> QED BY <1>3 DEF OnLegs

LEMMA InitInvariant == Init => IInv
<1>1. SUFFICES ASSUME Init PROVE IInv
  OBVIOUS
<1>2. 0 \in 0..MaxChanges
  BY DeviceMapAssumption, SMT
<1>3. TypeOK
  BY <1>1, <1>2 DEF Init, TypeOK, Final
<1>4. Returned
  BY <1>1 DEF Init, Returned, TableReturned
<1> QED BY <1>3, <1>4 DEF IInv

(* Every step keeps the types and what is known of the table. *)
LEMMA NextInvariant == IInv /\ [Next]_vars => IInv'
<1>1. SUFFICES ASSUME IInv, [Next]_vars PROVE IInv'
  OBVIOUS
<1>2. TypeOK /\ Returned /\ array \in Arrays
  BY <1>1 DEF IInv, TypeOK
<1>3. CASE Capacity
  <2>1. Maximum(array) \in Int /\ array.logical \in Int
    BY <1>2, ArrayShape, MaximumBounds
  <2>2. pc' \in {"failed", "members"} /\ (pc' = "members" => Maximum(array) >= array.logical)
    BY <1>3, <2>1, SMT DEF Capacity, Fail
  <2>3. TypeOK'
    BY <1>2, <1>3, <2>2 DEF Capacity, TypeOK, Final, args, env
  <2>4. Returned'
    BY <1>2, <1>3, <2>2 DEF Capacity, Returned, TypeOK, TableReturned, args, env, Plain
  <2> QED BY <2>3, <2>4 DEF IInv
<1>4. CASE CheckMember
  <2>1. pc' \in {"failed", "members"} /\ pc = "members" /\ unchecked' \subseteq unchecked
    BY <1>4 DEF CheckMember, Fail
  <2>2. TypeOK'
    BY <1>2, <1>4, <2>1 DEF CheckMember, TypeOK, Final, args, env
  <2>3. Returned'
    BY <1>2, <1>4, <2>1 DEF CheckMember, Returned, TypeOK, TableReturned, args, env, Plain
  <2> QED BY <2>2, <2>3 DEF IInv
<1>5. CASE MakeTable
  <2>1. CASE array.level \in ParityLevel
    <3>1. TypeOK'
      BY <1>2, <1>5, <2>1 DEF MakeTable, Fail, TypeOK, Final, args, env
    <3>2. Returned'
      BY <1>2, <1>5, <2>1 DEF MakeTable, Fail, Returned, TypeOK, TableReturned, args, env
    <3> QED BY <3>1, <3>2 DEF IInv
  <2>2. CASE array.level \notin ParityLevel
    <3>1. table' = Table(array) /\ pc' \in {"printed", "options"} /\ pc = "members"
      BY <1>5, <2>2 DEF MakeTable
    <3>2. TypeOK'
      BY <1>2, <1>5, <3>1 DEF MakeTable, TypeOK, Final, args, env
    <3>3. Returned'
      BY <1>2, <1>5, <2>2, <3>1
      DEF MakeTable, Returned, TypeOK, TableReturned, args, env, Plain
    <3> QED BY <3>2, <3>3 DEF IInv
  <2> QED BY <2>1, <2>2
<1>6. CASE CheckWritable
  <2>1. /\ pc = "options" /\ pc' \in {"failed", "dmsetup"}
        /\ pc' = "dmsetup" /\ writable => array.level = "raid0"
    BY <1>6 DEF CheckWritable, Fail
  <2>2. TypeOK'
    BY <1>2, <1>6, <2>1 DEF CheckWritable, TypeOK, Final, args, env
  <2>3. Returned'
    BY <1>2, <1>6, <2>1 DEF CheckWritable, Returned, TypeOK, TableReturned, args, env, Plain
  <2> QED BY <2>2, <2>3 DEF IInv
<1>7. CASE Dmsetup
  <2>1. pc = "dmsetup" /\ pc' = "active" /\ mode' \in {"writable", "readonly"}
    BY <1>7 DEF Dmsetup
  <2>2. table = Table(array) /\ Plain(array)
    BY <1>2, <2>1 DEF Returned, TableReturned
  <2>3. mapped' \in [DOMAIN table.legs -> Members(array)]
    BY <1>2, <1>7, <2>2, OnLegsType DEF Dmsetup, TypeOK
  <2>4. TypeOK'
    BY <1>2, <1>7, <2>1, <2>3 DEF Dmsetup, TypeOK, Final, args, env
  <2>5. Returned'
    BY <1>2, <1>7, <2>1 DEF Dmsetup, Returned, TypeOK, TableReturned, args, env, Plain
  <2> QED BY <2>4, <2>5 DEF IInv
<1>8. CASE DmsetupFails
  <2>1. TypeOK'
    BY <1>2, <1>8 DEF DmsetupFails, Fail, TypeOK, Final, args, env
  <2>2. Returned'
    BY <1>2, <1>8 DEF DmsetupFails, Fail, Returned, TypeOK, TableReturned, args, env
  <2> QED BY <2>1, <2>2 DEF IInv
<1>9. CASE Unplug
  <2>1. changes' \in 0..MaxChanges
    BY <1>2, <1>9, DeviceMapAssumption, SMT DEF Unplug, TypeOK
  <2>2. path' \in [Members(array) -> {"block", "file", "relative", "missing"}]
    BY <1>2, <1>9 DEF Unplug, TypeOK
  <2>3. TypeOK'
    BY <1>2, <1>9, <2>1, <2>2 DEF Unplug, TypeOK, Final, args
  <2>4. Returned'
    BY <1>2, <1>9 DEF Unplug, Returned, TableReturned, args, Plain
  <2> QED BY <2>3, <2>4 DEF IInv
<1>10. CASE SwapNames
  <2>1. changes' \in 0..MaxChanges
    BY <1>2, <1>10, DeviceMapAssumption, SMT DEF SwapNames, TypeOK
  <2>2. behind' \in [Members(array) -> Members(array)]
    BY <1>2, <1>10 DEF SwapNames, TypeOK
  <2>3. TypeOK'
    BY <1>2, <1>10, <2>1, <2>2 DEF SwapNames, TypeOK, Final, args
  <2>4. Returned'
    BY <1>2, <1>10 DEF SwapNames, Returned, TableReturned, args, Plain
  <2> QED BY <2>3, <2>4 DEF IInv
<1>11. CASE UNCHANGED vars
  <2>1. TypeOK'
    BY <1>2, <1>11 DEF vars, args, env, TypeOK, Final
  <2>2. Returned'
    BY <1>2, <1>11 DEF vars, args, env, Returned, TableReturned, Plain
  <2> QED BY <2>1, <2>2 DEF IInv
<1> QED BY <1>1, <1>3, <1>4, <1>5, <1>6, <1>7, <1>8, <1>9, <1>10, <1>11
        DEF Next, Command

(* Every reachable state is well typed, and a table that exists is the     *)
(* array's: dm_table and the two commands.                                 *)
THEOREM Invariance == Spec => []IInv
<1>1. Init => IInv
  BY InitInvariant
<1>2. IInv /\ [Next]_vars => IInv'
  BY NextInvariant
<1> QED BY <1>1, <1>2, PTL DEF Spec

-----------------------------------------------------------------------------
(* What the maps promise.                                                  *)

(* The map is as long as the volume. *)
LEMMA MapLength ==
  ASSUME NEW a \in Arrays
  PROVE  MappedBytes(Table(a)) = 0..(a.logical - 1)
<1>1. Table(a).sectors * SECTOR_SIZE = a.logical
  BY ArrayShape DEF Table
<1> QED BY <1>1 DEF MappedBytes

(* A map opened on the members it names reads the volume from end to end,  *)
(* degraded or not: dm_table.                                              *)
THEOREM MappingCorrect == Spec => []MappingReadsVolume
<1>1. ASSUME IInv PROVE MappingReadsVolume
  <2>1. SUFFICES ASSUME mode # "none", Genuine
                 PROVE  /\ MappedBytes(table) = 0..(array.logical - 1)
                        /\ \A byte \in MappedBytes(table) :
                             StoredByte(array, mapped[LegOf(table, byte)],
                                        OffsetOf(table, byte)) = {byte}
    BY DEF MappingReadsVolume
  <2>2. array \in Arrays /\ pc = "active" /\ DOMAIN mapped = DOMAIN table.legs
    BY <1>1, <2>1 DEF IInv, TypeOK
  <2>3. table = Table(array) /\ Plain(array) /\ table.legs = Legs(array)
    BY <1>1, <2>2 DEF IInv, Returned, TableReturned, Table
  <2>4. MappedBytes(table) = 0..(array.logical - 1)
    BY <2>2, <2>3, MapLength
  <2>5. ASSUME NEW byte \in MappedBytes(table)
        PROVE  StoredByte(array, mapped[LegOf(table, byte)], OffsetOf(table, byte)) = {byte}
    <3>1. byte \in Nat
      <4>1. array.logical \in Nat
        BY <2>2, ArrayShape
      <4> QED BY <2>4, <2>5, <4>1, SMT
    <3>2. LegOf(table, byte) \in DOMAIN Legs(array)
      BY <2>2, <2>3, <3>1, Placement
    <3>3. mapped[LegOf(table, byte)] = Legs(array)[LegOf(table, byte)].member
      BY <2>1, <2>2, <2>3, <3>2 DEF Genuine
    <3>4. StoredByte(array, Legs(array)[LegOf(Table(array), byte)].member,
                     OffsetOf(Table(array), byte)) = {byte}
      BY <2>2, <2>3, <3>1, TargetReadsByte
    <3> QED BY <2>3, <3>3, <3>4
  <2> QED BY <2>4, <2>5
<1>2. Spec => []IInv
  BY Invariance
<1> QED BY <1>1, <1>2, PTL

(* On a RAID 0 set a byte of the volume is stored once, where the target   *)
(* looks for it.                                                           *)
LEMMA OneCopy ==
  ASSUME array \in Arrays, array.level = "raid0",
         NEW byte \in 0..(array.logical - 1)
  PROVE  Copies(byte) = {<<Legs(array)[LegOf(Table(array), byte)].member,
                           OffsetOf(Table(array), byte)>>}
<1> DEFINE k == array.chunk
           b == array.base
           c == byte \div k
           r == byte % k
           place == <<c % 4, b + (c \div 4) * k + r>>
<1>1. /\ k \in Nat \ {0} /\ b \in Nat /\ array.logical \in Nat \ {0}
      /\ array.count = 4 /\ IsArray(array) /\ Plain(array)
  BY ArrayShape DEF Supported, Plain, ParityLevel
<1>2. byte \in Nat /\ byte <= array.logical - 1
  BY <1>1, SMT
<1>3. c \in Nat /\ r \in 0..(k - 1) /\ byte = c * k + r
  <2> HIDE DEF k
  <2>1. byte \in Int
    BY <1>2, SMT
  <2> QED BY <1>1, <1>2, <2>1, DivMod, DivNat
<1>4. DataWidth(array.level, array.count) = 4
  BY <1>1 DEF DataWidth
<1>5. /\ Legs(array)[LegOf(Table(array), byte)].member = c % 4
      /\ OffsetOf(Table(array), byte) = b + (c \div 4) * k + r
  <2>1. /\ LegOf(Table(array), byte) = (c % 4) + 1
        /\ OffsetOf(Table(array), byte) = b + (c \div 4) * k + r
    BY <1>1, <1>2, <1>4, Placement
  <2> HIDE DEF c
  <2>2. c % 4 \in 0..3 /\ (c % 4) + 1 \in 1..4 /\ ((c % 4) + 1) - 1 = c % 4
    BY <1>3, SMT
  <2>3. \A n \in 1..4 : Legs(array)[n].member = n - 1
    BY <1>1, LegShape
  <2> QED BY <2>1, <2>2, <2>3
<1>6. byte \in StoredByte(array, place[1], place[2])
  BY <1>1, <1>2, <1>5, TargetReadsByte
<1>7. place \in (0..(array.count - 1)) \X (b..(b + array.logical - 1))
  <2> HIDE DEF c, r, k, b
  <2>1. c % 4 \in 0..3 /\ c \div 4 \in Nat /\ c \div 4 <= c
    BY <1>3, SMT
  <2>2. (c \div 4) * k <= c * k /\ (c \div 4) * k \in Nat
    BY <1>1, <1>3, <2>1, MulMonotonic, SMT
  <2>3. c * k \in Int
    BY <1>1, <1>3, SMT
  <2>4. b + (c \div 4) * k + r \in b..(b + array.logical - 1)
    BY <1>1, <1>2, <1>3, <2>2, <2>3, SMT
  <2> QED BY <1>1, <2>1, <2>4, SMT
<1>8. ASSUME NEW i \in 0..(array.count - 1), NEW offset \in b..(b + array.logical - 1),
             byte \in StoredByte(array, i, offset)
      PROVE  <<i, offset>> = place
  <2> DEFINE d == offset - b
             row == d \div k
             x == d % k
  <2>1. d \in Nat /\ offset = b + d
    BY <1>1, SMT
  <2>2. row \in Nat /\ x \in 0..(k - 1) /\ d = row * k + x
    <3> HIDE DEF d, k
    <3>1. d \in Int
      BY <2>1, SMT
    <3> QED BY <1>1, <2>1, <3>1, DivMod, DivNat
  <2>3. byte \in {s * k + x : s \in StoredChunks("raid0", 4, i, row)}
    BY <1>1, <1>8, Zenon DEF StoredByte
  <2>4. StoredChunks("raid0", 4, i, row) = {row * 4 + i}
    BY AtRaid0
  <2> HIDE DEF c, r, k, b, d, row, x
  <2>5. byte = (row * 4 + i) * k + x
    BY <2>3, <2>4
  <2>6. i \in 0..3 /\ row * 4 + i \in Int
    BY <1>1, <1>8, <2>2, SMT
  <2>7. c = row * 4 + i /\ r = x
    BY <1>1, <2>2, <2>5, <2>6, DivModUnique DEF c, r
  <2>8. c % 4 = i /\ c \div 4 = row
    BY <2>2, <2>6, <2>7, SMT
  <2>9. row * k \in Int
    BY <1>1, <2>2, SMT
  <2>10. offset = b + row * k + x
    BY <1>1, <2>1, <2>2, <2>9, SMT
  <2> QED BY <2>7, <2>8, <2>10
<1>9. \A at \in (0..(array.count - 1)) \X (b..(b + array.logical - 1)) :
        byte \in StoredByte(array, at[1], at[2]) => at = place
  <2> HIDE DEF place
  <2> QED BY <1>8
<1>10. Copies(byte) = {place}
  <2> HIDE DEF place
  <2> QED BY <1>6, <1>7, <1>9 DEF Copies
<1> QED BY <1>5, <1>10

(* A write through a writable map leaves no old copy of a byte: the        *)
(* condition of areca_raid.py 245-255 is enough.                           *)
THEOREM WritesReach == Spec => []WritesReachEveryCopy
<1>1. ASSUME IInv PROVE WritesReachEveryCopy
  <2>1. SUFFICES ASSUME mode = "writable", NEW byte \in MappedBytes(table)
                 PROVE  Copies(byte) = {<<table.legs[LegOf(table, byte)].member,
                                          OffsetOf(table, byte)>>}
    BY DEF WritesReachEveryCopy
  <2>2. array \in Arrays /\ pc = "active"
    BY <1>1, <2>1 DEF IInv, TypeOK
  <2>3. table = Table(array) /\ table.legs = Legs(array) /\ array.level = "raid0"
    BY <1>1, <2>1, <2>2 DEF IInv, Returned, TableReturned, Table
  <2>4. byte \in 0..(array.logical - 1)
    BY <2>1, <2>2, <2>3, MapLength
  <2>5. Copies(byte) = {<<Legs(array)[LegOf(Table(array), byte)].member,
                           OffsetOf(Table(array), byte)>>}
    BY <2>2, <2>3, <2>4, OneCopy
  <2> QED BY <2>3, <2>5
<1>2. Spec => []IInv
  BY Invariance
<1> QED BY <1>1, <1>2, PTL

(* The rows of a volume that fills its rows lie within members that cover  *)
(* the volume.                                                             *)
LEMMA FilledRows ==
  ASSUME NEW k \in Nat \ {0}, NEW w \in Nat \ {0}, NEW n \in Nat,
         n % (k * w) = 0, NEW extent \in Int, n <= extent * w,
         NEW byte \in 0..(n - 1)
  PROVE  ((byte \div k) \div w) * k + (byte % k) < extent
<1> DEFINE c == byte \div k
           r == byte % k
           q == c \div w
           m == n \div (k * w)
<1>1. byte \in Int /\ byte \in Nat /\ byte <= n - 1
  BY SMT
<1>2. c \in Nat /\ r \in 0..(k - 1) /\ byte = c * k + r
  BY <1>1, DivMod, DivNat
<1>3. q \in Nat /\ c % w \in 0..(w - 1) /\ c = q * w + (c % w)
  <2> HIDE DEF c
  <2>1. c \in Int
    BY <1>2, SMT
  <2> QED BY <1>2, <2>1, DivMod, DivNat
<1>4. m \in Nat /\ n = m * (k * w)
  <2> DEFINE kw == k * w
  <2>1. kw \in Nat \ {0} /\ n \in Int
    BY SMT
  <2> HIDE DEF kw
  <2>2. n % kw = 0
    BY DEF kw
  <2>3. n = (n \div kw) * kw + (n % kw) /\ n \div kw \in Nat
    BY <2>1, DivMod, DivNat
  <2>4. (n \div kw) * kw \in Int
    BY <2>1, <2>3, SMT
  <2>5. n = (n \div kw) * kw
    BY <2>2, <2>3, <2>4, SMT
  <2> QED BY <2>3, <2>5 DEF kw
<1> HIDE DEF m, q, c, r
<1>5. m * k <= extent
  <2>1. SUFFICES ASSUME extent < m * k PROVE FALSE
    BY <1>4, SMT
  <2>2. m * k \in Int /\ extent + 1 <= m * k
    BY <1>4, <2>1, SMT
  <2>3. (extent + 1) * w <= (m * k) * w
    BY <2>2, MulMonotonic, SMT
  <2>4. (m * k) * w = m * (k * w) /\ (extent + 1) * w = extent * w + w
    BY <1>4, SMT
  <2>5. extent * w \in Int
    BY SMT
  <2> QED BY <1>4, <2>3, <2>4, <2>5, SMT
<1>6. q < m
  <2>1. SUFFICES ASSUME m <= q PROVE FALSE
    BY <1>3, <1>4, SMT
  <2>2. m * w <= q * w /\ q * w <= c /\ m * w \in Int /\ q * w \in Int
    BY <1>3, <1>4, <2>1, MulMonotonic, SMT
  <2>3. (m * w) * k <= c * k
    BY <1>2, <2>2, MulMonotonic, SMT
  <2>4. (m * w) * k = m * (k * w)
    BY <1>4, SMT
  <2>5. c * k \in Int
    BY <1>2, SMT
  <2> QED BY <1>1, <1>2, <1>4, <2>3, <2>4, <2>5, SMT
<1>7. q * k <= (m - 1) * k
  BY <1>3, <1>4, <1>6, MulMonotonic, SMT
<1>8. (m - 1) * k = m * k - k /\ m * k \in Int /\ q * k \in Int
  BY <1>3, <1>4, SMT
<1>9. q * k + r < extent
  BY <1>2, <1>5, <1>7, <1>8, SMT
<1> QED BY <1>9 DEF q, c, r

(* Members that cover a volume of whole rows hold all that a table of      *)
(* theirs maps: the check of array.py 398 is enough there.                 *)
LEMMA TableFits ==
  ASSUME array \in Arrays, Plain(array), table = Table(array),
         Maximum(array) >= array.logical, RowsFilled
  PROVE  Fits(table, Own)
<1> DEFINE k == array.chunk
           w == DataWidth(array.level, array.count)
           A == Available(array)
<1>1. /\ IsArray(array) /\ k \in Nat \ {0} /\ array.base \in Nat
      /\ array.logical \in Nat \ {0} /\ w \in Nat \ {0}
      /\ table.legs = Legs(array)
  BY ArrayShape, SupportedShape DEF Table
<1>2. A \in Int /\ \A i \in Members(array) : A <= array.size[i] - array.base
  BY <1>1, AvailableIsLeast
<1>3. array.logical <= A * w
  <2>1. Maximum(array) > 0
    BY <1>1, MaximumBounds, SMT
  <2>2. Maximum(array) \in Int /\ Maximum(array) <= A * w
    BY <1>1, <2>1, MaximumBounds
  <2>3. A * w \in Int
    BY <1>1, <1>2, SMT
  <2> HIDE DEF A, w
  <2> QED BY <1>1, <2>2, <2>3, SMT
<1>4. SUFFICES ASSUME NEW byte \in 0..(array.logical - 1)
               PROVE  OffsetOf(table, byte) < array.size[Own[LegOf(table, byte)]]
  BY MapLength DEF Fits
<1>5. byte \in Nat /\ byte \in Int /\ byte <= array.logical - 1
  BY <1>1, SMT
<1>6. /\ LegOf(table, byte) \in DOMAIN Legs(array)
      /\ OffsetOf(table, byte) = array.base + ((byte \div k) \div w) * k + (byte % k)
  BY <1>5, Placement
<1>7. ((byte \div k) \div w) * k + (byte % k) < A
  <2>1. CASE array.level = "raid1"
    <3>1. w = 1
      BY <2>1 DEF DataWidth
    <3> HIDE DEF A, w, k
    <3>2. byte \div k \in Nat /\ byte = (byte \div k) * k + (byte % k)
      BY <1>1, <1>5, DivMod, DivNat
    <3>3. (byte \div k) \div w = byte \div k
      BY <3>1, <3>2, SMT
    <3>4. array.logical <= A
      BY <1>1, <1>2, <1>3, <3>1, SMT
    <3>5. ((byte \div k) \div w) * k + (byte % k) = byte
      BY <3>2, <3>3, Zenon
    <3>6. byte < A
      BY <1>1, <1>2, <1>5, <3>4, SMT
    <3> QED BY <3>5, <3>6, Zenon
  <2>2. CASE array.level # "raid1"
    <3>1. array.logical % (k * w) = 0
      BY <2>2 DEF RowsFilled
    <3>2. array.logical \in Nat
      BY <1>1
    <3> HIDE DEF A, w, k
    <3> QED BY <1>1, <1>2, <1>3, <3>1, <3>2, FilledRows
  <2> QED BY <2>1, <2>2
<1>8. Own[LegOf(table, byte)] \in Members(array)
  <2>1. Own[LegOf(table, byte)] = Legs(array)[LegOf(table, byte)].member
    BY <1>1, <1>6 DEF Own
  <2> QED BY <1>6, <2>1, LegShape
<1>9. array.size[Own[LegOf(table, byte)]] \in Nat
  BY <1>1, <1>8 DEF IsArray
<1>10. ((byte \div k) \div w) * k \in Int /\ byte % k \in Int
  <2> HIDE DEF w, k
  <2>1. byte \div k \in Nat /\ byte % k \in 0..(k - 1)
    BY <1>1, <1>5, DivMod, DivNat
  <2>2. (byte \div k) \div w \in Nat
    BY <1>1, <2>1, DivNat
  <2> QED BY <1>1, <2>1, <2>2, SMT
<1>11. A <= array.size[Own[LegOf(table, byte)]] - array.base
  BY <1>2, <1>8
<1> HIDE DEF A, w, k
<1> QED BY <1>1, <1>2, <1>6, <1>7, <1>9, <1>10, <1>11, SMT

(* A table that is returned for a volume of whole rows lies within the     *)
(* members: dm_table.                                                      *)
THEOREM TablesFit == Spec => []WholeRowsFit
<1>1. ASSUME IInv PROVE WholeRowsFit
  <2>1. SUFFICES ASSUME TableReturned, RowsFilled PROVE Fits(table, Own)
    BY DEF WholeRowsFit
  <2>2. array \in Arrays /\ table = Table(array) /\ Plain(array)
        /\ Maximum(array) >= array.logical
    BY <1>1, <2>1 DEF IInv, TypeOK, Returned, TableReturned
  <2> QED BY <2>1, <2>2, TableFits
<1>2. Spec => []IInv
  BY Invariance
<1> QED BY <1>1, <1>2, PTL
===============================================================================
