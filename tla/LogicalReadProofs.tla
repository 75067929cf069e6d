--------------------------- MODULE LogicalReadProofs ---------------------------
(***************************************************************************)
(* For every array the constructor accepts, every length of its members    *)
(* and every chunk: what _logical_chunk reads XORs to the chunk it was     *)
(* asked for, byte by byte, and whole chunks are never read short.         *)
(***************************************************************************)
EXTENDS LogicalRead, FiniteSetTheorems, WellFoundedInduction, TLAPS

-----------------------------------------------------------------------------
(* Arithmetic of rows and offsets.                                         *)

(* A quotient and a remainder name their number. *)
LEMMA DivMod ==
  ASSUME NEW n \in Int, NEW c \in Nat \ {0}
  PROVE  /\ n \div c \in Int /\ n % c \in 0..(c - 1)
         /\ n = (n \div c) * c + (n % c)
BY SMT

(* A number composed of a quotient and a remainder divides into them. *)
LEMMA DivModUnique ==
  ASSUME NEW q \in Int, NEW c \in Nat \ {0}, NEW r \in 0..(c - 1)
  PROVE  (q * c + r) \div c = q /\ (q * c + r) % c = r
BY SMT

LEMMA DivNat ==
  ASSUME NEW n \in Nat, NEW c \in Nat \ {0}
  PROVE  n \div c \in Nat
BY SMT

(* One turn around the members. *)
LEMMA WrapAround ==
  ASSUME NEW x \in Nat, NEW c \in Nat \ {0}, x < 2 * c
  PROVE  x % c = IF x < c THEN x ELSE x - c
BY SMT

(* Multiplication by the chunk size, with an offset inside the chunk, tells *)
(* chunks apart.                                                            *)
LEMMA BytesOfChunksDiffer ==
  ASSUME NEW a \in Int, NEW b \in Int, NEW c \in Nat \ {0}, NEW r \in 0..(c - 1),
         a * c + r = b * c + r
  PROVE  a = b
BY DivModUnique

(* The least of a set of numbers, from the well-foundedness of <. *)
LEMMA LeastNatural ==
  ASSUME NEW S \in SUBSET Nat, S # {}
  PROVE  \E x \in S : \A y \in S : x <= y
<1> DEFINE R == OpToRel(<, Nat)
<1>1. IsWellFoundedOn(R, Nat)
  BY NatLessThanWellFounded
<1>2. \A a, b \in Nat : a < b => <<a, b>> \in R
  <2>1. \A ss \in Nat \X Nat : ss[1] < ss[2] => ss \in R
    BY Zenon DEF OpToRel
  <2> HIDE DEF R
  <2> QED BY <2>1, SMT
<1> HIDE DEF R
<1>3. PICK x \in S : \A y \in S : <<y, x>> \notin R
  BY <1>1, WFMin
<1>4. \A y \in S : ~(y < x)
  BY <1>2, <1>3
<1>5. x \in Nat /\ \A y \in S : y \in Nat
  BY <1>3
<1> QED BY <1>3, <1>4, <1>5, SMT

(* Min is the least element of a set of integers that has a lower bound. *)
LEMMA MinIsLeast ==
  ASSUME NEW S \in SUBSET Int, S # {}, NEW low \in Int, \A x \in S : low <= x
  PROVE  Min(S) \in S /\ \A y \in S : Min(S) <= y
<1> DEFINE T == {x - low : x \in S}
<1>1. T \in SUBSET Nat /\ T # {}
  <2>1. \A x \in S : x - low \in Nat
    BY SMT
  <2> QED BY <2>1
<1>2. PICK t \in T : \A y \in T : t <= y
  BY <1>1, LeastNatural
<1>3. PICK x \in S : t = x - low
  BY <1>2
<1>4. \A y \in S : x <= y
  <2>1. SUFFICES ASSUME NEW y \in S PROVE x <= y
    OBVIOUS
  <2>2. t <= y - low
    BY <1>2
  <2> QED BY <1>3, <2>2, SMT
<1> QED BY <1>4 DEF Min

-----------------------------------------------------------------------------
(* XOR of symbolic blocks.                                                 *)

LEMMA PairCardinality ==
  ASSUME NEW a, NEW b, a # b
  PROVE  Cardinality({a, b}) = 2
<1>1. IsFiniteSet({a}) /\ Cardinality({a}) = 1
  BY FS_Singleton
<1>2. {a, b} = {a} \cup {b} /\ b \notin {a}
  OBVIOUS
<1>3. Cardinality({a} \cup {b}) = Cardinality({a}) + 1
  BY <1>1, <1>2, FS_AddElement
<1> QED BY <1>1, <1>2, <1>3

(* A single block is its own XOR. *)
LEMMA XorSingle ==
  ASSUME NEW h, NEW blocks, DOMAIN blocks = {h}
  PROVE  XorBlocks(blocks) = blocks[h]
<1> SUFFICES ASSUME NEW s
             PROVE  s \in XorBlocks(blocks) <=> s \in blocks[h]
  OBVIOUS
<1>1. CASE s \in blocks[h]
  <2>1. {i \in DOMAIN blocks : s \in blocks[i]} = {h}
    BY <1>1
  <2>2. Cardinality({h}) % 2 = 1
    <3>1. Cardinality({h}) = 1 BY FS_Singleton
    <3> QED BY <3>1, SMT
  <2>3. s \in UNION {blocks[i] : i \in DOMAIN blocks}
    BY <1>1
  <2> QED BY <1>1, <2>1, <2>2, <2>3 DEF XorBlocks
<1>2. CASE s \notin blocks[h]
  BY <1>2 DEF XorBlocks
<1> QED BY <1>1, <1>2

(* Block p is the parity of c and of the blocks g of all the others. *)
ParityOf(blocks, p, g, c) ==
  LET others == DOMAIN blocks \ {p}
  IN  /\ p \in DOMAIN blocks
      /\ \A i \in others : blocks[i] = {g[i]}
      /\ \A i, j \in others : g[i] = g[j] => i = j
      /\ blocks[p] = {c} \cup {g[i] : i \in others}
      /\ \A i \in others : g[i] # c

(* A parity block XORed with all but one of the blocks it covers leaves    *)
(* the one that is not there.                                              *)
LEMMA XorParity ==
  ASSUME NEW blocks, NEW p, NEW g, NEW c, ParityOf(blocks, p, g, c)
  PROVE  XorBlocks(blocks) = {c}
<1> USE DEF ParityOf
<1> DEFINE Having(s) == {i \in DOMAIN blocks : s \in blocks[i]}
<1>1. UNION {blocks[i] : i \in DOMAIN blocks} = blocks[p]
  OBVIOUS
<1>2. Having(c) = {p}
  OBVIOUS
<1>3. Cardinality(Having(c)) % 2 = 1
  <2>1. Cardinality({p}) = 1 BY FS_Singleton
  <2> QED BY <1>2, <2>1, SMT
<1>4. ASSUME NEW s \in blocks[p], s # c
      PROVE  Cardinality(Having(s)) % 2 # 1
  <2>1. PICK i \in DOMAIN blocks \ {p} : s = g[i]
    BY <1>4
  <2>2. Having(s) = {p, i}
    BY <1>4, <2>1
  <2>3. Cardinality({p, i}) = 2
    BY <2>1, PairCardinality
  <2>4. 2 % 2 # 1
    BY SMT
  <2> QED BY <2>2, <2>3, <2>4, Zenon
<1>5. c \in blocks[p]
  OBVIOUS
<1>6. XorBlocks(blocks) = {s \in blocks[p] : Cardinality(Having(s)) % 2 = 1}
  BY <1>1, Zenon DEF XorBlocks
<1> HIDE DEF Having
<1> QED BY <1>3, <1>4, <1>5, <1>6
-----------------------------------------------------------------------------
(* Where the blocks of a row are.                                          *)

LEMMA CountMembers ==
  ASSUME NEW count \in Nat \ {0}
  PROVE  IsFiniteSet(0..(count - 1)) /\ Cardinality(0..(count - 1)) = count
BY FS_Interval, SMT

(* A member missing from a complete parity set is the only one missing. *)
LEMMA OnlyOneMissing ==
  ASSUME NEW count \in Nat \ {0}, NEW members \in SUBSET (0..(count - 1)),
         Cardinality(members) \in {count - 1, count},
         NEW h \in 0..(count - 1), h \notin members
  PROVE  members = (0..(count - 1)) \ {h}
<1> DEFINE All == 0..(count - 1)
<1>1. IsFiniteSet(All) /\ Cardinality(All) = count
  BY CountMembers
<1>2. IsFiniteSet(All \ {h}) /\ Cardinality(All \ {h}) = count - 1
  <2>1. h \in All
    OBVIOUS
  <2> HIDE DEF All
  <2>2. /\ IsFiniteSet(All \ {h})
        /\ Cardinality(All \ {h}) =
             IF h \in All THEN Cardinality(All) - 1 ELSE Cardinality(All)
    BY <1>1, FS_RemoveElement, Zenon
  <2> QED BY <1>1, <2>1, <2>2
<1>3. members \in SUBSET (All \ {h})
  OBVIOUS
<1>4. Cardinality(members) <= count - 1
  BY <1>2, <1>3, FS_Subset
<1>5. Cardinality(members) = Cardinality(All \ {h})
  BY <1>2, <1>4, SMT
<1> QED BY <1>2, <1>3, <1>5, FS_Subset

LEMMA Raid5Step ==
  ASSUME NEW count \in Nat, count >= 2, NEW row \in Nat,
         NEW step \in 1..(count - 1)
  PROVE  /\ Raid5Parity(row, count) \in 0..(count - 1)
         /\ Raid5Data(row, count)[step] =
              IF Raid5Parity(row, count) + step < count
              THEN Raid5Parity(row, count) + step
              ELSE Raid5Parity(row, count) + step - count
<1>1. row % count \in 0..(count - 1)
  BY DivMod, SMT
<1>2. Raid5Parity(row, count) \in 0..(count - 1)
  BY <1>1, SMT DEF Raid5Parity
<1>3. Raid5Data(row, count)[step] = (Raid5Parity(row, count) + step) % count
  BY DEF Raid5Data
<1> DEFINE p == Raid5Parity(row, count)
<1> HIDE DEF p
<1>4. /\ p \in Int /\ step \in Int /\ count \in Nat \ {0}
      /\ p + step \in Nat /\ p + step < 2 * count
  BY <1>2, SMT DEF p
<1>5. (p + step) % count = IF p + step < count THEN p + step ELSE p + step - count
  <2>1. \A x \in Nat : x < 2 * count =>
          x % count = IF x < count THEN x ELSE x - count
    BY <1>4, WrapAround
  <2> QED BY <1>4, <2>1
<1> QED BY <1>2, <1>3, <1>5 DEF p

(* Every row of a RAID 5 set, however many members it has, puts parity on  *)
(* one of them and one data block on each other: array.py 83-86.           *)
THEOREM Raid5RowLayout ==
  ASSUME NEW count \in Nat, count >= 2, NEW row \in Nat
  PROVE  /\ Raid5Parity(row, count) \in 0..(count - 1)
         /\ \A step \in 1..(count - 1) :
              /\ Raid5Data(row, count)[step] \in 0..(count - 1)
              /\ Raid5Data(row, count)[step] # Raid5Parity(row, count)
         /\ \A s, t \in 1..(count - 1) :
              Raid5Data(row, count)[s] = Raid5Data(row, count)[t] => s = t
         /\ \A i \in (0..(count - 1)) \ {Raid5Parity(row, count)} :
              \E step \in 1..(count - 1) : Raid5Data(row, count)[step] = i
<1> DEFINE p == Raid5Parity(row, count)
           d(s) == Raid5Data(row, count)[s]
<1>1. p \in 0..(count - 1)
  BY Raid5Step, SMT
<1>2. \A s \in 1..(count - 1) : d(s) = IF p + s < count THEN p + s ELSE p + s - count
  BY Raid5Step
<1> HIDE DEF p, d
<1>3. \A s \in 1..(count - 1) : d(s) \in 0..(count - 1) /\ d(s) # p
  BY <1>1, <1>2, SMT
<1>4. \A s, t \in 1..(count - 1) : d(s) = d(t) => s = t
  BY <1>1, <1>2, SMT
<1>5. ASSUME NEW i \in (0..(count - 1)) \ {p}
      PROVE  \E s \in 1..(count - 1) : d(s) = i
  <2>1. CASE i > p
    <3>1. i - p \in 1..(count - 1) /\ p + (i - p) < count
      BY <1>1, <2>1, SMT
    <3>2. d(i - p) = i
      BY <1>1, <1>2, <3>1, SMT
    <3> QED BY <3>1, <3>2
  <2>2. CASE i < p
    <3>1. i - p + count \in 1..(count - 1) /\ p + (i - p + count) >= count
      BY <1>1, <2>2, SMT
    <3>2. d(i - p + count) = i
      BY <1>1, <1>2, <3>1, SMT
    <3> QED BY <3>1, <3>2
  <2> QED BY <1>1, <2>1, <2>2, SMT
<1> QED BY <1>1, <1>3, <1>4, <1>5 DEF p, d

(* Both descriptions of the row, array.py's and raid_pattern.py's, agree. *)
LEMMA PatternAgrees ==
  ASSUME NEW count, NEW row
  PROVE  /\ PatternParity(row, count) = Raid5Parity(row, count)
         /\ PatternOrder(row, count) = Raid5Data(row, count)
BY DEF PatternParity, PatternOrder, Raid5Parity, Raid5Data
-----------------------------------------------------------------------------
(* The members _logical_chunk reads give the chunk it was asked for.       *)

(* The blocks the chosen members hold in the row of the chunk. *)
RowBlocks(level, count, members, chunk) ==
  [i \in Sources(level, count, members, chunk) |->
     StoredChunks(level, count, i, Row(level, count, chunk))]

Decodes(level, count, members, chunk) ==
  XorBlocks(RowBlocks(level, count, members, chunk)) = {chunk}

(* One block that holds just the chunk is enough. *)
LEMMA DecodesDirectly ==
  ASSUME NEW level, NEW count, NEW members, NEW chunk, NEW h,
         Sources(level, count, members, chunk) = {h},
         StoredChunks(level, count, h, Row(level, count, chunk)) = {chunk}
  PROVE  Decodes(level, count, members, chunk)
<1> DEFINE blocks == RowBlocks(level, count, members, chunk)
<1>1. DOMAIN blocks = {h} /\ blocks[h] = {chunk}
  BY DEF RowBlocks
<1> HIDE DEF blocks
<1>2. XorBlocks(blocks) = blocks[h]
  BY <1>1, XorSingle
<1> QED BY <1>1, <1>2 DEF Decodes, blocks

(* StoredChunks, Row and Holders, level by level. *)
LEMMA AtRaid1 ==
  ASSUME NEW count, NEW chunk
  PROVE  /\ \A i, row : StoredChunks("raid1", count, i, row) = {row}
         /\ Row("raid1", count, chunk) = chunk \div 1
         /\ Holders("raid1", count, chunk) =
              0..(count - 1)
BY Zenon DEF StoredChunks, Row, DataWidth, Holders

LEMMA AtRaid0 ==
  ASSUME NEW count, NEW chunk
  PROVE  /\ \A i, row : StoredChunks("raid0", count, i, row) = {row * count + i}
         /\ Row("raid0", count, chunk) = chunk \div count
         /\ Holders("raid0", count, chunk) =
              {chunk % count}
BY Zenon DEF StoredChunks, Row, DataWidth, Holders

LEMMA AtRaid10 ==
  ASSUME NEW count, NEW chunk
  PROVE  /\ \A i, row : StoredChunks("raid10", count, i, row) = {2 * row + (i \div 2)}
         /\ Row("raid10", count, chunk) = chunk \div 2
         /\ Holders("raid10", count, chunk) =
              IF chunk % 2 = 0 THEN {0, 1} ELSE {2, 3}
BY Zenon DEF StoredChunks, Row, DataWidth, Holders

LEMMA AtRaid3 ==
  ASSUME NEW count, NEW chunk
  PROVE  /\ \A i, row : StoredChunks("raid3", count, i, row) = Raid3Stored(count, i, row)
         /\ Row("raid3", count, chunk) = chunk \div (count - 1)
         /\ Holders("raid3", count, chunk) =
              {chunk % (count - 1)}
BY Zenon DEF StoredChunks, Row, DataWidth, Holders

LEMMA AtRaid5 ==
  ASSUME NEW count, NEW chunk
  PROVE  /\ \A i, row : StoredChunks("raid5", count, i, row) = Raid5Stored(count, i, row)
         /\ Row("raid5", count, chunk) = chunk \div (count - 1)
         /\ Holders("raid5", count, chunk) =
              {Raid5Data(chunk \div (count - 1), count)
             [(chunk % (count - 1)) + 1]}
BY Zenon DEF StoredChunks, Row, DataWidth, Holders

(* A data member of a RAID 5 row holds the one chunk its step stands for. *)
LEMMA Raid5DataBlock ==
  ASSUME NEW count \in Nat, count >= 2, NEW row \in Nat, NEW step \in 1..(count - 1)
  PROVE  Raid5Stored(count, Raid5Data(row, count)[step], row) =
           {row * (count - 1) + step - 1}
<1> DEFINE d == Raid5Data(row, count)
<1>1. d[step] # Raid5Parity(row, count)
  BY Raid5RowLayout
<1>2. DOMAIN d = 1..(count - 1)
  BY DEF Raid5Data
<1>3. \A s \in DOMAIN d : d[s] = d[step] => s = step
  <2>1. \A s, t \in 1..(count - 1) :
          Raid5Data(row, count)[s] = Raid5Data(row, count)[t] => s = t
    BY Raid5RowLayout
  <2> QED BY <1>2, <2>1
<1> HIDE DEF d
<1>4. {s \in DOMAIN d : d[s] = d[step]} = {step}
  BY <1>2, <1>3
<1>5. Raid5Stored(count, d[step], row) =
        {row * (count - 1) + s - 1 : s \in {s \in DOMAIN d : d[s] = d[step]}}
  BY <1>1, PatternAgrees, Zenon DEF Raid5Stored, d
<1> QED BY <1>4, <1>5 DEF d

(* A chunk's holders hold nothing but the chunk in its row. *)
LEMMA HoldersStore ==
  ASSUME NEW level, NEW count, Supported(level, count), NEW chunk \in Nat,
         NEW h \in Holders(level, count, chunk)
  PROVE  /\ h \in 0..(count - 1)
         /\ StoredChunks(level, count, h, Row(level, count, chunk)) = {chunk}
<1> DEFINE row == Row(level, count, chunk)
<1>0. count \in 2..4
  BY SMT DEF Supported
<1>1. CASE level = "raid1"
  <2>1. h \in 0..(count - 1)
    BY <1>1, AtRaid1
  <2>2. chunk \div 1 = chunk
    BY SMT
  <2> QED BY <1>1, <2>1, <2>2, AtRaid1
<1>2. CASE level = "raid0"
  <2>1. count = 4 /\ h = chunk % count /\ row = chunk \div count
    BY <1>2, AtRaid0 DEF Supported
  <2> HIDE DEF row
  <2>2. h \in 0..(count - 1) /\ row * count + h = chunk
    BY <2>1, SMT
  <2> QED BY <1>2, <2>2, AtRaid0 DEF row
<1>3. CASE level = "raid10"
  <2>1. /\ count = 4
        /\ h \in IF chunk % 2 = 0 THEN {0, 1} ELSE {2, 3}
        /\ row = chunk \div 2
    BY <1>3, AtRaid10 DEF Supported
  <2> HIDE DEF row
  <2>2. h \in 0..(count - 1) /\ 2 * row + (h \div 2) = chunk
    BY <2>1, SMT
  <2> QED BY <1>3, <2>2, AtRaid10 DEF row
<1>4. CASE level = "raid3"
  <2>1. h = chunk % (count - 1) /\ row = chunk \div (count - 1)
    BY <1>4, AtRaid3
  <2> HIDE DEF row
  <2>2. /\ h \in 0..(count - 1) /\ h # count - 1
        /\ row * (count - 1) + h = chunk
    <3>1. count \in {3, 4}
      BY <1>4 DEF Supported
    <3> QED BY <2>1, <3>1, SMT
  <2>3. Raid3Stored(count, h, row) = {chunk}
    BY <2>2, Zenon DEF Raid3Stored
  <2> QED BY <1>4, <2>2, <2>3, AtRaid3 DEF row
<1>5. CASE level = "raid5"
  <2> DEFINE position == chunk % 3
  <2>0. count = 4 /\ count - 1 = 3
    BY <1>5, SMT DEF Supported
  <2>1. h = Raid5Data(row, count)[position + 1] /\ row = chunk \div 3
    BY <1>5, <2>0, AtRaid5
  <2>2. /\ row \in Nat /\ position \in 0..2 /\ position + 1 \in 1..3
        /\ row * 3 + (position + 1) - 1 = chunk
    BY <2>1, SMT
  <2> HIDE DEF row, position
  <2>3. h \in 0..(count - 1)
    <3>1. \A step \in 1..(count - 1) : Raid5Data(row, count)[step] \in 0..(count - 1)
      <4>1. count \in Nat /\ count >= 2
        BY <2>0, SMT
      <4> QED BY <2>2, <4>1, Raid5RowLayout
    <3> QED BY <2>0, <2>1, <2>2, <3>1
  <2>4. Raid5Stored(count, h, row) = {row * (count - 1) + (position + 1) - 1}
    BY <2>0, <2>1, <2>2, Raid5DataBlock, SMT
  <2> QED BY <1>5, <2>0, <2>2, <2>3, <2>4, AtRaid5 DEF row
<1> QED BY <1>1, <1>2, <1>3, <1>4, <1>5 DEF Supported
(* What is left of a row of a parity set that lost member h. *)
Raid3Rest(count, row, h) ==
  [i \in (0..(count - 1)) \ {h} |-> Raid3Stored(count, i, row)]
Raid5Rest(count, row, h) ==
  [i \in (0..(count - 1)) \ {h} |-> Raid5Stored(count, i, row)]

(* RAID 3 without one data member: the others and parity give its block. *)
LEMMA Raid3Degraded ==
  ASSUME NEW count \in Nat, count >= 2, NEW row \in Nat, NEW h \in 0..(count - 2)
  PROVE  XorBlocks(Raid3Rest(count, row, h)) = {row * (count - 1) + h}
<1> DEFINE first == row * (count - 1)
           p == count - 1
           blocks == [i \in (0..(count - 1)) \ {h} |-> Raid3Stored(count, i, row)]
           g == [i \in 0..(count - 2) |-> first + i]
<1>0. first \in Int
  BY SMT
<1>1. \A i \in DOMAIN blocks \ {p} : i \in 0..(count - 2) /\ i # h /\ blocks[i] = {g[i]}
  <2>1. \A i \in DOMAIN blocks \ {p} :
          i \in 0..(count - 2) /\ i # h /\ i # count - 1 /\ i \in DOMAIN blocks
    BY SMT
  <2>2. \A i \in 0..(count - 2) : g[i] = first + i
    OBVIOUS
  <2>3. \A i \in DOMAIN blocks : i # count - 1 => blocks[i] = {first + i}
    BY DEF Raid3Stored
  <2> HIDE DEF blocks, g, first, p
  <2> QED BY <2>1, <2>2, <2>3
<1>2. p \in DOMAIN blocks /\ blocks[p] = first..(first + count - 2)
  <2>1. p \in (0..(count - 1)) \ {h}
    BY SMT
  <2> QED BY <2>1 DEF Raid3Stored
<1>3. \A i \in (0..(count - 2)) \ {h} : i \in DOMAIN blocks \ {p}
  BY SMT
<1>4. \A i \in 0..(count - 2) : g[i] = first + i
  OBVIOUS
<1> HIDE DEF first, p, blocks, g
<1>5. \A i, j \in DOMAIN blocks \ {p} : g[i] = g[j] => i = j
  BY <1>0, <1>1, <1>4, SMT
<1>6. \A i \in DOMAIN blocks \ {p} : g[i] # first + h
  BY <1>0, <1>1, <1>4, SMT
<1>7. blocks[p] = {first + h} \cup {g[i] : i \in DOMAIN blocks \ {p}}
  <2>1. ASSUME NEW s \in first..(first + count - 2)
        PROVE  s \in {first + h} \cup {g[i] : i \in DOMAIN blocks \ {p}}
    <3>1. s - first \in 0..(count - 2) /\ first + (s - first) = s
      BY <1>0, SMT
    <3>2. CASE s - first = h
      BY <3>1, <3>2
    <3>3. CASE s - first # h
      <4>1. s - first \in DOMAIN blocks \ {p} /\ g[s - first] = s
        BY <1>3, <1>4, <3>1, <3>3
      <4> QED BY <4>1
    <3> QED BY <3>2, <3>3
  <2>2. \A i \in 0..(count - 2) : first + i \in first..(first + count - 2)
    BY <1>0, SMT
  <2>3. \A i \in DOMAIN blocks \ {p} : g[i] \in first..(first + count - 2)
    BY <1>1, <1>4, <2>2
  <2>4. first + h \in first..(first + count - 2)
    BY <2>2
  <2> QED BY <1>2, <2>1, <2>3, <2>4
<1>8. XorBlocks(blocks) = {first + h}
  <2>1. \A i \in DOMAIN blocks \ {p} : blocks[i] = {g[i]}
    BY <1>1
  <2>2. p \in DOMAIN blocks
    BY <1>2
  <2>3. ParityOf(blocks, p, g, first + h)
    BY <1>5, <1>6, <1>7, <2>1, <2>2, Zenon DEF ParityOf
  <2> QED BY <2>3, XorParity, Zenon
<1> QED BY <1>8 DEF blocks, first, Raid3Rest

(* RAID 5 without one data member of the row, likewise. *)
LEMMA Raid5Degraded ==
  ASSUME NEW count \in Nat, count >= 2, NEW row \in Nat, NEW lost \in 1..(count - 1)
  PROVE  XorBlocks(Raid5Rest(count, row, Raid5Data(row, count)[lost]))
           = {row * (count - 1) + lost - 1}
<1> DEFINE first == row * (count - 1)
           p == Raid5Parity(row, count)
           d == Raid5Data(row, count)
           h == d[lost]
           Step == 1..(count - 1)
           All == 0..(count - 1)
           blocks == [i \in All \ {h} |-> Raid5Stored(count, i, row)]
           at == [i \in All \ {p} |-> CHOOSE s \in Step : d[s] = i]
           g == [i \in All \ {p} |-> first + at[i] - 1]
           c == first + lost - 1
<1>0. first \in Int
  BY SMT
<1>1. /\ p \in All
      /\ \A s \in Step : d[s] \in All /\ d[s] # p
      /\ \A s, t \in Step : d[s] = d[t] => s = t
      /\ \A i \in All \ {p} : \E s \in Step : d[s] = i
  BY Raid5RowLayout
<1>2. \A s \in Step : Raid5Stored(count, d[s], row) = {first + s - 1}
  BY Raid5DataBlock
<1>3. Raid5Stored(count, p, row) = first..(first + count - 2)
  BY PatternAgrees DEF Raid5Stored
<1>4. \A i \in All \ {p} : g[i] = first + at[i] - 1
  OBVIOUS
<1>5. \A i \in All \ {p} : at[i] = CHOOSE s \in Step : d[s] = i
  OBVIOUS
<1>6. DOMAIN blocks = All \ {h} /\ \A i \in All \ {h} : blocks[i] = Raid5Stored(count, i, row)
  OBVIOUS
<1>7. \A s \in Step : s \in Int /\ first + s - 1 \in first..(first + count - 2)
  BY <1>0, SMT
<1>8. \A x \in first..(first + count - 2) : x - first + 1 \in Step /\ first + (x - first + 1) - 1 = x
  BY <1>0, SMT
<1> HIDE DEF first, p, d, Step, All, blocks, at, g
<1>9. \A i \in All \ {p} : at[i] \in Step /\ d[at[i]] = i
  BY <1>1, <1>5
<1>10. \A s \in Step : d[s] \in All \ {p} /\ at[d[s]] = s
  BY <1>1, <1>9
<1>11. lost \in Step /\ h \in All /\ h # p
  BY <1>1 DEF Step
<1>12. \A i \in DOMAIN blocks \ {p} : i \in All \ {p} /\ i # h /\ blocks[i] = {g[i]}
  BY <1>2, <1>4, <1>6, <1>9
<1>13. \A i, j \in DOMAIN blocks \ {p} : g[i] = g[j] => i = j
  <2>1. SUFFICES ASSUME NEW i \in DOMAIN blocks \ {p}, NEW j \in DOMAIN blocks \ {p},
                        g[i] = g[j]
                 PROVE  i = j
    OBVIOUS
  <2>2. at[i] \in Int /\ at[j] \in Int /\ first + at[i] - 1 = first + at[j] - 1
    BY <1>4, <1>7, <1>9, <1>12, <2>1
  <2>3. at[i] = at[j]
    BY <1>0, <2>2, SMT
  <2> QED BY <1>9, <1>12, <2>3
<1>14. \A i \in DOMAIN blocks \ {p} : g[i] # c
  <2>1. SUFFICES ASSUME NEW i \in DOMAIN blocks \ {p}, g[i] = c
                 PROVE  FALSE
    OBVIOUS
  <2>2. at[i] \in Int /\ lost \in Int /\ first + at[i] - 1 = first + lost - 1
    BY <1>4, <1>7, <1>9, <1>11, <1>12, <2>1
  <2>3. at[i] = lost
    BY <1>0, <2>2, SMT
  <2> QED BY <1>9, <1>12, <2>3
<1>15. p \in DOMAIN blocks /\ blocks[p] = first..(first + count - 2)
  BY <1>1, <1>3, <1>6, <1>11
<1>16. blocks[p] = {c} \cup {g[i] : i \in DOMAIN blocks \ {p}}
  <2>1. ASSUME NEW x \in first..(first + count - 2)
        PROVE  x \in {c} \cup {g[i] : i \in DOMAIN blocks \ {p}}
    <3> DEFINE s == x - first + 1
    <3>1. s \in Step /\ first + s - 1 = x
      BY <1>8
    <3> HIDE DEF s
    <3>2. CASE s = lost
      BY <3>1, <3>2
    <3>3. CASE s # lost
      <4>1. d[s] # h
        BY <1>1, <1>11, <3>1, <3>3
      <4>2. d[s] \in DOMAIN blocks \ {p} /\ g[d[s]] = x
        BY <1>4, <1>6, <1>10, <3>1, <4>1
      <4> QED BY <4>2
    <3> QED BY <3>2, <3>3
  <2>2. \A i \in DOMAIN blocks \ {p} : g[i] \in first..(first + count - 2)
    BY <1>4, <1>7, <1>9, <1>12
  <2>3. c \in first..(first + count - 2)
    BY <1>7, <1>11
  <2> QED BY <1>15, <2>1, <2>2, <2>3
<1>17. XorBlocks(blocks) = {c}
  <2>1. \A i \in DOMAIN blocks \ {p} : blocks[i] = {g[i]}
    BY <1>12
  <2>2. p \in DOMAIN blocks
    BY <1>15
  <2> HIDE DEF c
  <2>3. ParityOf(blocks, p, g, c)
    BY <1>13, <1>14, <1>16, <2>1, <2>2, Zenon DEF ParityOf
  <2> QED BY <2>3, XorParity, Zenon
<1> QED BY <1>17 DEF blocks, first, d, All, Raid5Rest

(* Whatever members are missing from a complete set, the ones that         *)
(* _logical_chunk reads, at the row it computes, XOR to the chunk it was   *)
(* asked for: array.py 271-331.                                            *)
THEOREM CompleteSetDecodes ==
  ASSUME NEW level, NEW count, Supported(level, count),
         NEW members \in SUBSET (0..(count - 1)), Complete(level, count, members),
         NEW chunk \in Nat
  PROVE  Decodes(level, count, members, chunk)
<1> DEFINE holders == Holders(level, count, chunk)
           direct == holders \cap members
           row == Row(level, count, chunk)
<1>0. count \in 2..4 /\ members \subseteq Nat
  BY SMT DEF Supported
<1>1. \A h \in holders : h \in 0..(count - 1) /\ StoredChunks(level, count, h, row) = {chunk}
  BY HoldersStore
<1>2. CASE direct # {}
  <2>1. Sources(level, count, members, chunk) = {Min(direct)}
    BY <1>2 DEF Sources
  <2>2. Min(direct) \in direct
    <3>1. direct \in SUBSET Nat
      BY <1>0
    <3> HIDE DEF direct
    <3>2. direct \in SUBSET Int /\ \A x \in direct : 0 <= x
      BY <3>1, SMT
    <3> QED BY <1>2, <3>2, MinIsLeast
  <2>3. StoredChunks(level, count, Min(direct), row) = {chunk}
    BY <1>1, <2>2
  <2> HIDE DEF direct
  <2> QED BY <2>1, <2>3, DecodesDirectly
<1>3. CASE direct = {}
  <2>1. Sources(level, count, members, chunk) = members
    BY <1>3 DEF Sources
  <2>2. level \in ParityLevel
    <3>1. CASE level = "raid1"
      <4>1. holders = 0..(count - 1)
        BY <3>1, AtRaid1
      <4>2. Cardinality(members) >= 1
        BY <3>1, Zenon DEF Complete
      <4>3. members # {}
        <5>1. Cardinality({}) = 0
          BY FS_EmptySet
        <5> QED BY <4>2, <5>1, SMT
      <4> QED BY <1>3, <4>1, <4>3
    <3>2. CASE level = "raid0"
      <4>1. count = 4 /\ Cardinality(members) = count
        BY <3>2, Zenon DEF Supported, Complete
      <4>2. holders = {chunk % count}
        BY <3>2, AtRaid0
      <4>3. chunk % count \in 0..(count - 1) /\ chunk % count \notin members
        BY <1>1, <1>3, <4>2
      <4>4. members = (0..(count - 1)) \ {chunk % count}
        BY <4>1, <4>3, OnlyOneMissing
      <4>5. FALSE
        <5>1. IsFiniteSet(0..(count - 1)) /\ Cardinality(0..(count - 1)) = 4
          <6>1. count \in Nat \ {0}
            BY <4>1, SMT
          <6> QED BY <4>1, <6>1, CountMembers
        <5>2. Cardinality((0..(count - 1)) \ {chunk % count}) = 4 - 1
          BY <4>3, <5>1, FS_RemoveElement
        <5> QED BY <4>1, <4>4, <5>2, SMT
      <4> QED BY <4>5
    <3>3. CASE level = "raid10"
      <4>1. holders = IF chunk % 2 = 0 THEN {0, 1} ELSE {2, 3}
        BY <3>3, AtRaid10
      <4>2. members \cap {0, 1} # {} /\ members \cap {2, 3} # {}
        BY <3>3, Zenon DEF Complete
      <4> QED BY <1>3, <4>1, <4>2
    <3> QED BY <3>1, <3>2, <3>3 DEF Supported, ParityLevel
  <2>3. Cardinality(members) \in {count - 1, count}
    <3>1. level # "raid0" /\ level # "raid1" /\ level # "raid10"
      BY <2>2 DEF ParityLevel
    <3> QED BY <3>1, Zenon DEF Complete
  <2>4. CASE level = "raid3"
    <3> DEFINE h == chunk % (count - 1)
    <3>1. holders = {h} /\ row = chunk \div (count - 1)
      BY <2>4, AtRaid3
    <3>2. h \in 0..(count - 2) /\ row \in Nat /\ row * (count - 1) + h = chunk
      <4> HIDE DEF row
      <4>1. CASE count = 3
        BY <3>1, <4>1, SMT
      <4>2. CASE count = 4
        BY <3>1, <4>2, SMT
      <4> QED BY <2>4, <4>1, <4>2 DEF Supported
    <3>3. h \notin members /\ h \in 0..(count - 1)
      BY <1>1, <1>3, <3>1
    <3> HIDE DEF h, row
    <3>4. members = (0..(count - 1)) \ {h}
      BY <1>0, <2>3, <3>3, OnlyOneMissing, SMT
    <3>5. RowBlocks(level, count, members, chunk) = Raid3Rest(count, row, h)
      BY <2>1, <2>4, <3>4, AtRaid3 DEF RowBlocks, Raid3Rest, row
    <3>6. XorBlocks(Raid3Rest(count, row, h)) = {row * (count - 1) + h}
      <4>1. count \in Nat /\ count >= 2
        BY <1>0, SMT
      <4> QED BY <3>2, <4>1, Raid3Degraded
    <3> QED BY <3>2, <3>5, <3>6 DEF Decodes
  <2>5. CASE level = "raid5"
    <3> DEFINE lost == (chunk % (count - 1)) + 1
               h == Raid5Data(row, count)[lost]
    <3>1. holders = {h} /\ row = chunk \div (count - 1)
      BY <2>5, AtRaid5
    <3>2. /\ count = 4 /\ lost \in 1..(count - 1) /\ row \in Nat
          /\ row * (count - 1) + lost - 1 = chunk
      <4>1. count = 4
        BY <2>5 DEF Supported
      <4> HIDE DEF row
      <4> QED BY <3>1, <4>1, SMT
    <3>3. h \notin members /\ h \in 0..(count - 1)
      BY <1>1, <1>3, <3>1
    <3>4. members = (0..(count - 1)) \ {h}
      <4> HIDE DEF h, row
      <4> QED BY <1>0, <2>3, <3>3, OnlyOneMissing, SMT
    <3> HIDE DEF lost, row
    <3>5. RowBlocks(level, count, members, chunk) = Raid5Rest(count, row, h)
      BY <2>1, <2>5, <3>4, AtRaid5 DEF RowBlocks, Raid5Rest, row
    <3>6. XorBlocks(Raid5Rest(count, row, h)) = {row * (count - 1) + lost - 1}
      <4>1. count \in Nat /\ count >= 2
        BY <3>2, SMT
      <4> QED BY <3>2, <4>1, Raid5Degraded
    <3> QED BY <3>2, <3>5, <3>6 DEF Decodes
  <2> QED BY <2>2, <2>4, <2>5 DEF ParityLevel
<1> QED BY <1>2, <1>3
-----------------------------------------------------------------------------
(* From chunks to bytes.                                                   *)

(* The byte at place r of the chunks of size k that a block combines. *)
BytesAt(chunks, k, r) == {c * k + r : c \in chunks}

LEMMA StoredChunksType ==
  ASSUME NEW level, NEW count \in Nat, count >= 2, NEW i \in 0..(count - 1),
         NEW row \in Nat, level \in RaidLevel
  PROVE  StoredChunks(level, count, i, row) \in SUBSET Int
<1>1. CASE level = "raid1"
  <2>1. {row} \in SUBSET Int
    BY SMT
  <2>2. StoredChunks(level, count, i, row) = {row}
    BY <1>1, AtRaid1, Zenon
  <2> QED BY <2>1, <2>2
<1>2. CASE level = "raid0"
  <2>1. row * count + i \in Int
    BY SMT
  <2> QED BY <1>2, <2>1, AtRaid0
<1>3. CASE level = "raid10"
  <2>1. 2 * row + (i \div 2) \in Int
    BY SMT
  <2> QED BY <1>3, <2>1, AtRaid10
<1>4. CASE level = "raid3"
  <2>1. row * (count - 1) \in Int
    BY SMT
  <2>2. Raid3Stored(count, i, row) \in SUBSET Int
    BY <2>1, SMT DEF Raid3Stored
  <2> QED BY <1>4, <2>2, AtRaid3
<1>5. CASE level = "raid5"
  <2>1. row * (count - 1) \in Int
    BY SMT
  <2>2. DOMAIN PatternOrder(row, count) \in SUBSET Int
    BY SMT DEF PatternOrder
  <2>3. \A s \in Int : row * (count - 1) + s - 1 \in Int
    BY <2>1, SMT
  <2>4. row * (count - 1)..(row * (count - 1) + count - 2) \in SUBSET Int
    BY <2>1, SMT
  <2>5. Raid5Stored(count, i, row) \in SUBSET Int
    BY <2>2, <2>3, <2>4, Zenon DEF Raid5Stored
  <2> QED BY <1>5, <2>5, AtRaid5
<1> QED BY <1>1, <1>2, <1>3, <1>4, <1>5 DEF RaidLevel

(* The bytes at one place of several blocks XOR to the byte at that place  *)
(* of the XOR of the blocks.                                               *)
LEMMA XorBytes ==
  ASSUME NEW P, \A i \in DOMAIN P : P[i] \in SUBSET Int,
         NEW k \in Nat \ {0}, NEW r \in 0..(k - 1)
  PROVE  XorBlocks([i \in DOMAIN P |-> BytesAt(P[i], k, r)])
           = BytesAt(XorBlocks(P), k, r)
<1> DEFINE D == DOMAIN P
           Q == [i \in D |-> BytesAt(P[i], k, r)]
           f(c) == c * k + r
<1>1. \A a, b \in Int : f(a) = f(b) => a = b
  BY BytesOfChunksDiffer
<1>2. \A S : BytesAt(S, k, r) = {f(c) : c \in S}
  BY DEF BytesAt
<1>3. DOMAIN P = D /\ DOMAIN Q = D
  OBVIOUS
<1>4. \A i \in D : P[i] \in SUBSET Int /\ Q[i] = BytesAt(P[i], k, r)
  OBVIOUS
<1> HIDE DEF f, D, Q
<1>5. \A c \in Int : {i \in D : f(c) \in Q[i]} = {i \in D : c \in P[i]}
  BY <1>1, <1>2, <1>4
<1>6. \A c \in Int : f(c) \in XorBlocks(Q) <=> c \in XorBlocks(P)
  <2>1. SUFFICES ASSUME NEW c \in Int
                 PROVE  f(c) \in XorBlocks(Q) <=> c \in XorBlocks(P)
    OBVIOUS
  <2>2. (\E i \in D : f(c) \in Q[i]) <=> (\E i \in D : c \in P[i])
    BY <1>5
  <2>3. f(c) \in XorBlocks(Q) <=>
          /\ \E i \in D : f(c) \in Q[i]
          /\ Cardinality({i \in D : f(c) \in Q[i]}) % 2 = 1
    BY <1>3, Zenon DEF XorBlocks
  <2>4. c \in XorBlocks(P) <=>
          /\ \E i \in D : c \in P[i]
          /\ Cardinality({i \in D : c \in P[i]}) % 2 = 1
    BY <1>3, Zenon DEF XorBlocks
  <2> QED BY <1>5, <2>2, <2>3, <2>4
<1>7. \A s \in XorBlocks(Q) : \E c \in Int : s = f(c)
  <2>1. SUFFICES ASSUME NEW s \in XorBlocks(Q) PROVE \E c \in Int : s = f(c)
    OBVIOUS
  <2>2. PICK i \in D : s \in Q[i]
    BY <1>3, Zenon DEF XorBlocks
  <2> QED BY <1>2, <1>4, <2>2
<1>8. XorBlocks(P) \in SUBSET Int
  BY <1>3, <1>4, Zenon DEF XorBlocks
<1>9. XorBlocks(Q) = {f(c) : c \in XorBlocks(P)}
  BY <1>6, <1>7, <1>8
<1> QED BY <1>2, <1>9 DEF D, Q
LEMMA SupportedShape ==
  ASSUME NEW level, NEW count, Supported(level, count)
  PROVE  /\ level \in RaidLevel /\ count \in Nat /\ count >= 2
         /\ DataWidth(level, count) \in Nat \ {0}
<1>1. level \in RaidLevel /\ count \in 2..4
  BY SMT DEF Supported, RaidLevel
<1>2. DataWidth(level, count) \in {1, 2, count, count - 1}
  BY <1>1, Zenon DEF DataWidth, RaidLevel
<1> QED BY <1>1, <1>2, SMT

LEMMA RowIsNat ==
  ASSUME NEW level, NEW count, Supported(level, count), NEW chunk \in Nat
  PROVE  Row(level, count, chunk) \in Nat
BY SupportedShape, DivNat DEF Row

LEMMA SourcesAreMembers ==
  ASSUME NEW level, NEW count, Supported(level, count),
         NEW members \in SUBSET (0..(count - 1)), NEW chunk \in Nat
  PROVE  Sources(level, count, members, chunk) \subseteq members
<1> DEFINE direct == Holders(level, count, chunk) \cap members
<1>1. CASE direct # {}
  <2>1. direct \in SUBSET Int /\ \A x \in direct : 0 <= x
    <3>1. count \in Nat /\ \A x \in members : x \in 0..(count - 1)
      BY SupportedShape
    <3>2. \A x \in members : x \in Int /\ 0 <= x
      BY <3>1, SMT
    <3> QED BY <3>2
  <2>2. Min(direct) \in direct
    BY <1>1, <2>1, MinIsLeast
  <2>3. Sources(level, count, members, chunk) = {Min(direct)}
    BY <1>1 DEF Sources
  <2> QED BY <2>2, <2>3
<1>2. CASE direct = {}
  BY <1>2 DEF Sources
<1> QED BY <1>1, <1>2

(* The bytes read from a member at the row of a chunk. *)
LEMMA StoredByteInRow ==
  ASSUME NEW array, IsArray(array), NEW i, NEW row \in Nat,
         NEW r \in 0..(array.chunk - 1)
  PROVE  StoredByte(array, i, array.base + row * array.chunk + r)
           = BytesAt(StoredChunks(array.level, array.count, i, row), array.chunk, r)
<1> DEFINE k == array.chunk
           b == array.base
<1>1. k \in Nat \ {0} /\ b \in Nat
  BY DEF IsArray
<1> HIDE DEF k, b
<1>2. row * k \in Int /\ r \in 0..(k - 1)
  BY <1>1, SMT DEF k
<1>3. (b + row * k + r) - b = row * k + r
  BY <1>1, <1>2, SMT
<1>4. (row * k + r) \div k = row /\ (row * k + r) % k = r
  BY <1>1, <1>2, DivModUnique
<1> DEFINE offset == b + row * k + r
<1>5. (offset - b) \div k = row /\ (offset - b) % k = r
  BY <1>3, <1>4, Zenon
<1> HIDE DEF offset
<1>6. StoredByte(array, i, offset)
        = {c * array.chunk + r : c \in StoredChunks(array.level, array.count, i, row)}
  BY <1>5, Zenon DEF StoredByte, k, b
<1> QED BY <1>6 DEF BytesAt, offset, k, b

(* Every byte of every block that _logical_chunk returns is the byte of    *)
(* the volume at that place, if the descriptors are those of the members   *)
(* they were opened for: array.py 271-331.                                 *)
THEOREM LogicalChunkIsVolume ==
  ASSUME NEW array, IsArray(array), NEW fds, \A i \in Members(array) : fds[i] = i,
         NEW chunk \in Nat, NEW amount \in 0..array.chunk
  PROVE  LogicalChunk(array, fds, chunk, amount)
           = [x \in 1..amount |-> LogicalByte(chunk * array.chunk + x)]
<1> DEFINE k == array.chunk
           row == Row(array.level, array.count, chunk)
           S == ChunkSources(array, chunk)
           B == [i \in S |-> StoredChunks(array.level, array.count, i, row)]
<1>1. /\ k \in Nat \ {0} /\ array.base \in Nat
      /\ Supported(array.level, array.count)
      /\ Members(array) \in SUBSET (0..(array.count - 1))
      /\ Complete(array.level, array.count, Members(array))
  BY DEF IsArray
<1>2. S \subseteq Members(array)
  BY <1>1, SourcesAreMembers DEF ChunkSources
<1>3. row \in Nat
  BY <1>1, RowIsNat
<1>4. \A i \in S : B[i] \in SUBSET Int
  <2>1. \A i \in S : i \in 0..(array.count - 1)
    BY <1>1, <1>2
  <2>2. array.level \in RaidLevel /\ array.count \in Nat /\ array.count >= 2
    BY <1>1, SupportedShape
  <2> QED BY <1>3, <2>1, <2>2, StoredChunksType
<1>5. DOMAIN B = S /\ XorBlocks(B) = {chunk}
  BY <1>1, CompleteSetDecodes DEF Decodes, RowBlocks, ChunkSources
<1>6. ASSUME NEW x \in 1..amount
      PROVE  XorBlocks([i \in S |->
                StoredByte(array, fds[i], ChunkOffset(array, chunk) + x - 1)])
               = LogicalByte(chunk * k + x)
  <2> DEFINE r == x - 1
  <2>1. r \in 0..(k - 1)
    BY <1>1, SMT
  <2>2. ChunkOffset(array, chunk) + x - 1 = array.base + row * k + r
    <3>1. row * k \in Int /\ x \in Int
      BY <1>1, <1>3, SMT
    <3> HIDE DEF row, k
    <3> QED BY <1>1, <3>1, SMT DEF ChunkOffset, row, k
  <2> HIDE DEF r
  <2>3. \A i \in S : StoredByte(array, fds[i], ChunkOffset(array, chunk) + x - 1)
                        = BytesAt(B[i], k, r)
    <3>1. \A i : StoredByte(array, i, array.base + row * k + r)
                   = BytesAt(StoredChunks(array.level, array.count, i, row), k, r)
      BY <1>3, <2>1, StoredByteInRow
    <3>2. \A i \in S : fds[i] = i /\ B[i] = StoredChunks(array.level, array.count, i, row)
      BY <1>2
    <3> HIDE DEF S, B, row, k
    <3> QED BY <2>2, <3>1, <3>2
  <2>4. XorBlocks([i \in S |-> BytesAt(B[i], k, r)]) = BytesAt({chunk}, k, r)
    <3> HIDE DEF B, k, S
    <3>1. XorBlocks([i \in DOMAIN B |-> BytesAt(B[i], k, r)]) = BytesAt(XorBlocks(B), k, r)
      BY <1>1, <1>4, <1>5, <2>1, XorBytes
    <3> QED BY <1>5, <3>1
  <2>5. BytesAt({chunk}, k, r) = LogicalByte(chunk * k + x)
    <3>1. chunk * k \in Int /\ x \in Int
      BY <1>1, SMT
    <3>2. chunk * k + r = (chunk * k + x) - 1
      BY <3>1, SMT DEF r
    <3>3. BytesAt({chunk}, k, r) = {chunk * k + r}
      BY DEF BytesAt
    <3>4. LogicalByte(chunk * k + x) = {(chunk * k + x) - 1}
      BY DEF LogicalByte
    <3> QED BY <3>2, <3>3, <3>4, Zenon
  <2>6. [i \in S |-> StoredByte(array, fds[i], ChunkOffset(array, chunk) + x - 1)]
          = [i \in S |-> BytesAt(B[i], k, r)]
    BY <2>3
  <2> QED BY <2>4, <2>5, <2>6
<1> QED BY <1>6 DEF LogicalChunk
-----------------------------------------------------------------------------
(* How much of the volume the members cover.                               *)

LEMMA MulMonotonic ==
  ASSUME NEW a \in Int, NEW b \in Int, NEW c \in Nat, a <= b
  PROVE  a * c <= b * c
BY SMT

LEMMA MinOfTwo ==
  ASSUME NEW a \in Int, NEW b \in Int
  PROVE  /\ Min({a, b}) \in Int /\ Min({a, b}) <= a /\ Min({a, b}) <= b
         /\ Min({a, b}) \in {a, b}
<1> DEFINE low == IF a <= b THEN a ELSE b
<1>1. {a, b} \in SUBSET Int /\ {a, b} # {}
  OBVIOUS
<1>2. low \in Int /\ \A x \in {a, b} : low <= x
  BY SMT
<1> HIDE DEF low
<1>3. Min({a, b}) \in {a, b} /\ \A x \in {a, b} : Min({a, b}) <= x
  BY <1>1, <1>2, MinIsLeast
<1> QED BY <1>3

LEMMA CompleteIsNotEmpty ==
  ASSUME NEW level, NEW count, Supported(level, count),
         NEW members, Complete(level, count, members)
  PROVE  members # {}
<1>1. SUFFICES ASSUME members = {} PROVE FALSE
  OBVIOUS
<1>2. Cardinality(members) = 0 /\ count \in 2..4
  BY <1>1, FS_EmptySet, SMT DEF Supported
<1>3. CASE level = "raid1"
  <2>1. Cardinality(members) >= 1
    BY <1>3, Zenon DEF Complete
  <2> QED BY <1>2, <2>1, SMT
<1>4. CASE level = "raid0"
  <2>1. Cardinality(members) = count
    BY <1>4, Zenon DEF Complete
  <2> QED BY <1>2, <2>1, SMT
<1>5. CASE level = "raid10"
  <2>1. members \cap {0, 1} # {}
    BY <1>5, Zenon DEF Complete
  <2> QED BY <1>1, <2>1
<1>6. CASE level \in {"raid3", "raid5"}
  <2>1. level # "raid0" /\ level # "raid1" /\ level # "raid10"
    BY <1>6
  <2>2. Cardinality(members) \in {count - 1, count}
    BY <2>1, Zenon DEF Complete
  <2> QED BY <1>2, <2>2, SMT
<1> QED BY <1>3, <1>4, <1>5, <1>6 DEF Supported

(* Available is the extent of the shortest data region. *)
LEMMA AvailableIsLeast ==
  ASSUME NEW array, IsArray(array)
  PROVE  /\ \E i \in Members(array) : Available(array) = array.size[i] - array.base
         /\ \A i \in Members(array) : Available(array) <= array.size[i] - array.base
         /\ Available(array) \in Int
<1> DEFINE extents == {array.size[i] - array.base : i \in Members(array)}
<1>1. array.base \in Nat /\ \A i \in Members(array) : array.size[i] \in Nat
  BY DEF IsArray
<1>2. \A i \in Members(array) :
        array.size[i] - array.base \in Int /\ -array.base <= array.size[i] - array.base
  BY <1>1, SMT
<1>3. extents \in SUBSET Int /\ \A x \in extents : -array.base <= x
  BY <1>2
<1>4. extents # {}
  BY CompleteIsNotEmpty DEF IsArray
<1>5. -array.base \in Int
  BY <1>1, SMT
<1>6. Min(extents) \in extents /\ \A x \in extents : Min(extents) <= x
  <2> HIDE DEF extents
  <2> QED BY <1>3, <1>4, <1>5, MinIsLeast
<1> QED BY <1>3, <1>6 DEF Available

LEMMA MaximumBounds ==
  ASSUME NEW array, IsArray(array)
  PROVE  /\ Maximum(array) \in Int
         /\ Maximum(array) > 0 =>
              /\ Available(array) > 0
              /\ Maximum(array) <= array.logical
              /\ Maximum(array)
                   <= Available(array) * DataWidth(array.level, array.count)
<1> DEFINE cover == Available(array) * DataWidth(array.level, array.count)
<1>1. Available(array) \in Int /\ array.logical \in Int
  BY AvailableIsLeast DEF IsArray
<1>2. cover \in Int
  <2>1. DataWidth(array.level, array.count) \in Nat \ {0}
    BY SupportedShape DEF IsArray
  <2> QED BY <1>1, <2>1, SMT
<1>3. CASE Available(array) <= 0
  <2>1. Maximum(array) = 0
    BY <1>3 DEF Maximum
  <2> QED BY <2>1, SMT
<1>4. CASE ~(Available(array) <= 0)
  <2>1. Maximum(array) = Min({array.logical, cover})
    BY <1>4 DEF Maximum
  <2> HIDE DEF cover
  <2>2. Maximum(array) \in Int /\ Maximum(array) <= array.logical /\ Maximum(array) <= cover
    BY <1>1, <1>2, <2>1, MinOfTwo
  <2> QED BY <1>1, <1>4, <2>2, SMT DEF cover
<1> QED BY <1>3, <1>4

(* Rows of whole chunks, in numbers: chunk n of the volume lies, with      *)
(* amount bytes, inside m whole chunks of a member if it lies inside the   *)
(* m * w chunks the members cover.                                         *)
LEMMA WholeRows ==
  ASSUME NEW k \in Nat \ {0}, NEW w \in Nat \ {0}, NEW m \in Int, NEW n \in Nat,
         NEW amount \in 1..k, n * k + amount <= (m * k) * w
  PROVE  (n \div w) * k + amount <= m * k
<1> DEFINE q == n \div w
           r == n % w
<1>1. q \in Int /\ r \in 0..(w - 1) /\ n = q * w + r
  BY DivMod, SMT
<1> HIDE DEF q, r
<1>2. q < m
  <2>1. SUFFICES ASSUME m <= q PROVE FALSE
    BY <1>1, SMT
  <2>2. m * w <= q * w /\ q * w <= n /\ m * w \in Int /\ q * w \in Int
    BY <1>1, <2>1, MulMonotonic, SMT
  <2>3. m * w <= n
    BY <2>2, SMT
  <2>4. (m * w) * k <= n * k
    BY <2>2, <2>3, MulMonotonic, SMT
  <2>5. (m * w) * k = (m * k) * w
    BY SMT
  <2>6. (m * k) * w \in Int /\ n * k \in Int /\ (m * k) * w <= n * k
    BY <2>4, <2>5, SMT
  <2> QED BY <2>6, SMT
<1>3. q * k <= (m - 1) * k
  BY <1>1, <1>2, MulMonotonic, SMT
<1>4. (m - 1) * k = m * k - k /\ m * k \in Int /\ q * k \in Int
  BY <1>1, SMT
<1>5. q * k + amount <= m * k
  BY <1>3, <1>4, SMT
<1> QED BY <1>5 DEF q

(* If the data regions of the members hold whole chunks, every block that  *)
(* ends inside the maximum can be read in full: array.py 217-231, 241-245. *)
THEOREM WholeChunksReadable ==
  ASSUME NEW array, IsArray(array),
         \A i \in Members(array) : (array.size[i] - array.base) % array.chunk = 0,
         NEW fds, \A i \in Members(array) : fds[i] = i,
         NEW chunk \in Nat, NEW amount \in 1..array.chunk,
         chunk * array.chunk + amount <= Maximum(array)
  PROVE  ChunkReadable(array, fds, chunk, amount)
<1> DEFINE k == array.chunk
           w == DataWidth(array.level, array.count)
           A == Available(array)
<1>1. /\ k \in Nat \ {0} /\ array.base \in Nat
      /\ \A i \in Members(array) : array.size[i] \in Nat
      /\ Supported(array.level, array.count)
  BY DEF IsArray
<1>2. w \in Nat \ {0}
  BY <1>1, SupportedShape
<1>3. PICK j \in Members(array) : A = array.size[j] - array.base
  BY AvailableIsLeast
<1>4. A \in Int /\ A % k = 0
  BY <1>3, AvailableIsLeast
<1>5. chunk * k + amount <= A * w
  <2>1. chunk * k + amount > 0 /\ chunk * k + amount \in Int
    BY <1>1, SMT
  <2>2. Maximum(array) \in Int /\ Maximum(array) > 0
    BY <2>1, MaximumBounds, SMT
  <2>3. Maximum(array) <= A * w
    BY <2>2, MaximumBounds
  <2>4. A * w \in Int
    BY <1>2, <1>4, SMT
  <2> QED BY <2>1, <2>2, <2>3, <2>4, SMT
<1> DEFINE m == A \div k
<1>6. m \in Int /\ A = m * k
  <2> HIDE DEF A, k
  <2> QED BY <1>1, <1>4, DivMod, SMT
<1>7. (chunk \div w) * k + amount <= A
  <2> HIDE DEF A, k, w, m
  <2>1. amount \in 1..k
    BY DEF k
  <2> QED BY <1>1, <1>2, <1>5, <1>6, <2>1, WholeRows, SMT
<1>8. ASSUME NEW i \in ChunkSources(array, chunk)
      PROVE  ChunkOffset(array, chunk) + amount <= array.size[fds[i]]
  <2>1. i \in Members(array)
    BY SourcesAreMembers DEF ChunkSources, IsArray
  <2>2. fds[i] = i /\ A <= array.size[i] - array.base /\ array.size[i] \in Nat
    BY <1>1, <2>1, AvailableIsLeast
  <2>3. (chunk \div w) * k \in Int
    BY <1>1, <1>2, SMT
  <2>4. ChunkOffset(array, chunk) = array.base + (chunk \div w) * k
    BY DEF ChunkOffset, Row
  <2> HIDE DEF A, k, w
  <2> QED BY <1>1, <1>4, <1>7, <2>2, <2>3, <2>4, SMT
<1> QED BY <1>8 DEF ChunkReadable
===============================================================================
