----------------------------- MODULE LayoutProofs -----------------------------
(***************************************************************************)
(* What LayoutScan checks on a scan of bounded length holds at every chunk *)
(* of a scan of any length; and the member verifiers of PatternMembers     *)
(* agree with the layout the array is read by, whatever pattern, offset    *)
(* and chunk size they are given.                                          *)
(***************************************************************************)
EXTENDS LayoutScan, PatternMembers, LogicalReadProofs

ScanType ==
  /\ Supported(level, count)
  /\ members \in SUBSET (0..(count - 1))
  /\ chunk \in Nat

LEMMA ScanInit == Init => ScanType
BY ChunksAssumption DEF Init, ScanType

LEMMA ScanNext == ScanType /\ [NextChunk]_vars => ScanType'
<1> SUFFICES ASSUME ScanType, [NextChunk]_vars PROVE ScanType'
  OBVIOUS
<1>1. CASE NextChunk
  <2>1. (chunk + 1) % Chunks \in Nat
    BY ChunksAssumption DEF ScanType
  <2> QED BY <1>1, <2>1 DEF ScanType, NextChunk
<1>2. CASE UNCHANGED vars
  BY <1>2 DEF ScanType, vars
<1> QED BY <1>1, <1>2

(* Every complete set of members decodes every chunk of the volume to what *)
(* the controller stored for it, whatever the level: array.py 271-331.     *)
THEOREM EveryChunkDecodes == Spec => []SourcesDecode
<1>1. ScanType => SourcesDecode
  BY CompleteSetDecodes DEF ScanType, SourcesDecode, Decoded,
        Decodes, RowBlocks
<1> QED BY <1>1, ScanInit, ScanNext, PTL DEF Spec

-----------------------------------------------------------------------------
(* What a set of members cannot tell.                                      *)

(* A symbol no block holds does not come out of them. *)
LEMMA XorAbsent ==
  ASSUME NEW blocks, NEW a, \A i \in DOMAIN blocks : a \notin blocks[i]
  PROVE  XorBlocks(blocks) # {a}
BY DEF XorBlocks

(* Two symbols that every block holds both of, or neither, come out        *)
(* together or not at all.                                                 *)
LEMMA XorTwins ==
  ASSUME NEW blocks, NEW a, NEW b, a # b,
         \A i \in DOMAIN blocks : a \in blocks[i] <=> b \in blocks[i]
  PROVE  XorBlocks(blocks) # {a}
<1> SUFFICES ASSUME XorBlocks(blocks) = {a} PROVE FALSE
  OBVIOUS
<1> DEFINE Holding(s) == {i \in DOMAIN blocks : s \in blocks[i]}
           Odd(s)     == Cardinality(Holding(s)) % 2 = 1
           held       == UNION {blocks[i] : i \in DOMAIN blocks}
<1>1. XorBlocks(blocks) = {s \in held : Odd(s)}
  BY DEF XorBlocks
<1>2. Holding(a) = Holding(b) /\ (a \in held <=> b \in held)
  OBVIOUS
<1>3. Odd(a) <=> Odd(b)
  <2> HIDE DEF Holding
  <2> QED BY <1>2
<1> HIDE DEF Odd, held
<1>4. a \in held /\ Odd(a)
  BY <1>1
<1>5. b \in XorBlocks(blocks)
  BY <1>1, <1>2, <1>3, <1>4
<1> QED BY <1>5

(* The first row of a parity set: member i holds chunk i, and the last     *)
(* member all of them.                                                     *)
LEMMA FirstRow ==
  ASSUME NEW lvl \in ParityLevel, NEW cnt, Supported(lvl, cnt),
         NEW i \in 0..(cnt - 1)
  PROVE  StoredChunks(lvl, cnt, i, 0) = IF i = cnt - 1 THEN 0..(cnt - 2) ELSE {i}
<1>1. cnt \in {3, 4} /\ i \in 0..3
  BY DEF Supported, ParityLevel
<1>2. CASE lvl = "raid3"
  <2>1. StoredChunks(lvl, cnt, i, 0) = Raid3Stored(cnt, i, 0)
    BY <1>2, AtRaid3
  <2>2. 0 * (cnt - 1) = 0
    BY <1>1
  <2> QED BY <1>1, <2>1, <2>2 DEF Raid3Stored
<1>3. CASE lvl = "raid5"
  <2>1. StoredChunks(lvl, cnt, i, 0) = Raid5Stored(cnt, i, 0)
    BY <1>3, AtRaid5
  <2>2. cnt = 4
    BY <1>3 DEF Supported
  <2>3. PatternParity(0, 4) = 3
    BY DEF PatternParity
  <2>4. CASE i = 3
    <3>1. Raid5Stored(4, i, 0) = 0..2
      BY <2>3, <2>4 DEF Raid5Stored
    <3> QED BY <2>1, <2>2, <2>4, <3>1
  <2>5. CASE i # 3
    <3>1. PatternOrder(0, 4) = [step \in 1..3 |-> (3 + step) % 4]
      BY <2>3 DEF PatternOrder
    <3>2. i \in {0, 1, 2}
      BY <2>2, <2>5
    <3>3. {s \in 1..3 : PatternOrder(0, 4)[s] = i} = {i + 1}
      BY <3>1, <3>2
    <3>4. Raid5Stored(4, i, 0)
            = {0 * (4 - 1) + step - 1 :
                 step \in {s \in DOMAIN PatternOrder(0, 4) :
                             PatternOrder(0, 4)[s] = i}}
      BY <2>3, <2>5 DEF Raid5Stored
    <3>5. DOMAIN PatternOrder(0, 4) = 1..3
      BY <3>1
    <3>6. Raid5Stored(4, i, 0) = {i}
      BY <3>2, <3>3, <3>4, <3>5
    <3> QED BY <2>1, <2>2, <2>5, <3>6
  <2> QED BY <2>4, <2>5
<1> QED BY <1>2, <1>3 DEF ParityLevel

(* A parity set that is refused lacks two members at least. *)
LEMMA TwoMissing ==
  ASSUME NEW cnt \in Nat \ {0}, NEW set \in SUBSET (0..(cnt - 1)),
         Cardinality(set) \notin {cnt - 1, cnt}
  PROVE  \E a, b \in (0..(cnt - 1)) \ set : a < b
<1> DEFINE All == 0..(cnt - 1)
<1>1. IsFiniteSet(All) /\ Cardinality(All) = cnt
  BY CountMembers
<1>2. set # All
  BY <1>1
<1>3. PICK a \in All : a \notin set
  BY <1>2
<1>4. Cardinality(All \ {a}) = cnt - 1
  <2> HIDE DEF All
  <2>1. Cardinality(All \ {a}) =
          IF a \in All THEN Cardinality(All) - 1 ELSE Cardinality(All)
    BY <1>1, FS_RemoveElement, Zenon
  <2> QED BY <1>1, <2>1
<1>5. set # All \ {a}
  BY <1>4
<1>6. PICK b \in All : b \notin set /\ b # a
  BY <1>3, <1>5
<1>7. a < b \/ b < a
  BY <1>3, <1>6
<1> QED BY <1>3, <1>6, <1>7

-----------------------------------------------------------------------------
(* The two directions of CompletenessExact. *)

(* A chunk of the first row: every supported width has them within reach. *)
LEMMA FirstRowChunks ==
  ASSUME ScanType, NEW c \in Nat, c < DataWidth(level, count)
  PROVE  c \in RowChunks /\ Row(level, count, c) = 0
<1>1. /\ DataWidth(level, count) \in Nat \ {0} /\ count \in 2..4
      /\ DataWidth(level, count) <= 4
  <2>1. count \in 2..4
    BY DEF ScanType, Supported
  <2>2. DataWidth(level, count) \in {1, 2, count, count - 1}
    BY Zenon DEF DataWidth
  <2> QED BY <2>1, <2>2
<1> DEFINE w == DataWidth(level, count)
<1> HIDE DEF w
<1>2. w \in Nat \ {0} /\ c < w
  BY <1>1 DEF w
<1>3. (0 * w + c) \div w = 0
  BY <1>2, DivModUnique
<1>4. 0 * w + c = c
  BY <1>2
<1>5. Row(level, count, c) = 0
  BY <1>3, <1>4 DEF Row, w
<1> QED BY <1>1, <1>5, ChunksAssumption DEF RowChunks

(* No combination of the members gives a chunk none of them holds. *)
LEMMA HeldByNone ==
  ASSUME NEW c,
         \A i \in members :
           c \notin StoredChunks(level, count, i, Row(level, count, c))
  PROVE  ~Recoverable(c)
<1> SUFFICES ASSUME NEW indices \in SUBSET members
             PROVE  XorBlocks([i \in indices |->
                      StoredChunks(level, count, i, Row(level, count, c))]) # {c}
  BY DEF Recoverable
<1> QED BY XorAbsent

LEMMA RefusedHides ==
  ASSUME ScanType, ~Complete(level, count, members)
  PROVE  \E c \in RowChunks : ~Recoverable(c)
<1>1. CASE level = "raid0"
  <2>1. count = 4 /\ DataWidth(level, count) = 4
    BY <1>1 DEF ScanType, Supported, DataWidth
  <2>2. members # 0..3
    <3>1. Cardinality(members) # count
      BY <1>1, Zenon DEF Complete
    <3>2. count \in Nat \ {0} /\ 0..(count - 1) = 0..3
      BY <2>1
    <3>3. Cardinality(0..(count - 1)) = count
      BY <3>2, CountMembers, Zenon
    <3> QED BY <3>1, <3>2, <3>3
  <2>3. members \in SUBSET (0..3)
    <3>1. 0..(count - 1) = 0..3
      BY <2>1
    <3> QED BY <3>1 DEF ScanType
  <2>6. PICK c \in 0..3 : c \notin members
    BY <2>2, <2>3
  <2>4. c \in RowChunks /\ Row(level, count, c) = 0
    BY <2>1, FirstRowChunks
  <2>5. ASSUME NEW i \in members
        PROVE  c \notin StoredChunks(level, count, i, Row(level, count, c))
    <3>1. StoredChunks(level, count, i, 0) = {0 * count + i}
      BY <1>1, AtRaid0
    <3>2. i \in 0..3 /\ i # c
      BY <2>3, <2>6
    <3>3. 0 * count + i = i
      BY <2>1, <3>2
    <3>4. StoredChunks(level, count, i, Row(level, count, c)) = {i}
      BY <2>4, <3>1, <3>3
    <3> QED BY <3>2, <3>4
  <2> QED BY <2>4, <2>5, HeldByNone
<1>2. CASE level = "raid1"
  <2>1. count = 2 /\ DataWidth(level, count) = 1
    BY <1>2 DEF ScanType, Supported, DataWidth
  <2>2. members = {}
    <3>1. ~(Cardinality(members) >= 1)
      BY <1>2, Zenon DEF Complete
    <3>2. IsFiniteSet(members)
      <4>1. IsFiniteSet(0..(count - 1))
        <5>1. count \in Nat \ {0}
          BY <2>1
        <5> QED BY <5>1, CountMembers, Zenon
      <4> QED BY <4>1, FS_Subset DEF ScanType
    <3>3. Cardinality(members) = 0
      BY <3>1, <3>2, FS_CardinalityType
    <3> QED BY <3>2, <3>3, FS_EmptySet
  <2>3. 0 \in RowChunks
    BY <2>1, FirstRowChunks
  <2> QED BY <2>2, <2>3, HeldByNone
<1>3. CASE level = "raid10"
  <2>1. count = 4 /\ DataWidth(level, count) = 2
    BY <1>3 DEF ScanType, Supported, DataWidth
  <2>2. PICK c \in {0, 1} : members \cap {2 * c, 2 * c + 1} = {}
    <3>1. members \cap {0, 1} = {} \/ members \cap {2, 3} = {}
      BY <1>3, Zenon DEF Complete
    <3> QED BY <3>1
  <2>3. c \in RowChunks /\ Row(level, count, c) = 0
    BY <2>1, FirstRowChunks
  <2>4. ASSUME NEW i \in members
        PROVE  c \notin StoredChunks(level, count, i, Row(level, count, c))
    <3>1. StoredChunks(level, count, i, 0) = {2 * 0 + (i \div 2)}
      BY <1>3, AtRaid10
    <3>2. i \in 0..3 /\ i # 2 * c /\ i # 2 * c + 1
      BY <2>1, <2>2 DEF ScanType
    <3>3. 2 * 0 + (i \div 2) # c
      BY <3>2
    <3> QED BY <2>3, <3>1, <3>3
  <2> QED BY <2>3, <2>4, HeldByNone
<1>4. CASE level \in ParityLevel
  <2>1. count \in {3, 4} /\ DataWidth(level, count) = count - 1
    BY <1>4 DEF ScanType, Supported, DataWidth, ParityLevel
  <2>2. PICK a, b \in (0..(count - 1)) \ members : a < b
    <3>1. level # "raid0" /\ level # "raid1" /\ level # "raid10"
      BY <1>4 DEF ParityLevel
    <3>2. Cardinality(members) \notin {count - 1, count}
      BY <3>1, Zenon DEF Complete
    <3> QED BY <2>1, <3>2, TwoMissing DEF ScanType
  <2>3. a \in RowChunks /\ Row(level, count, a) = 0
    BY <2>1, <2>2, FirstRowChunks
  <2>4. \A i \in members :
          /\ i \in 0..(count - 1) /\ i # a /\ i # b
          /\ StoredChunks(level, count, i, 0)
               = IF i = count - 1 THEN 0..(count - 2) ELSE {i}
    BY <1>4, <2>2, FirstRow DEF ScanType
  <2>5. CASE b = count - 1
    <3>1. \A i \in members : a \notin StoredChunks(level, count, i, 0)
      BY <2>4, <2>5
    <3> QED BY <2>3, <3>1, HeldByNone
  <2>6. CASE b # count - 1
    <3>1. \A i \in members : a \in StoredChunks(level, count, i, 0)
                               <=> b \in StoredChunks(level, count, i, 0)
      BY <2>1, <2>2, <2>4, <2>6
    <3>2. ~Recoverable(a)
      <4> SUFFICES ASSUME NEW indices \in SUBSET members
                   PROVE  XorBlocks([i \in indices |->
                            StoredChunks(level, count, i, 0)]) # {a}
        BY <2>3 DEF Recoverable
      <4> DEFINE blocks == [i \in indices |-> StoredChunks(level, count, i, 0)]
      <4>1. \A i \in DOMAIN blocks : a \in blocks[i] <=> b \in blocks[i]
        BY <3>1
      <4>2. a # b
        BY <2>1, <2>2
      <4> HIDE DEF blocks
      <4>3. XorBlocks(blocks) # {a}
        BY <4>1, <4>2, XorTwins
      <4> QED BY <4>3 DEF blocks
    <3> QED BY <2>3, <3>2
  <2> QED BY <2>5, <2>6
<1> QED BY <1>1, <1>2, <1>3, <1>4 DEF ScanType, Supported, ParityLevel

LEMMA AcceptedGives ==
  ASSUME ScanType, Complete(level, count, members), NEW c \in RowChunks
  PROVE  Recoverable(c)
<1> DEFINE sources == Sources(level, count, members, c)
<1>1. c \in Nat
  BY ChunksAssumption DEF RowChunks
<1>2. sources \in SUBSET members
  BY <1>1, SourcesAreMembers DEF ScanType
<1>3. Decodes(level, count, members, c)
  BY <1>1, CompleteSetDecodes DEF ScanType
<1> HIDE DEF sources
<1>4. XorBlocks([i \in sources |->
        StoredChunks(level, count, i, Row(level, count, c))]) = {c}
  BY <1>3 DEF Decodes, RowBlocks, sources
<1> QED BY <1>2, <1>4, Zenon DEF Recoverable

(* _validate_completeness refuses no set of members that could be read and *)
(* takes none that could not: array.py 187-203.                            *)
THEOREM CompletenessIsExact == Spec => []CompletenessExact
<1>1. ScanType => CompletenessExact
  BY RefusedHides, AcceptedGives, Zenon DEF CompletenessExact
<1> QED BY <1>1, ScanInit, ScanNext, PTL DEF Spec

-----------------------------------------------------------------------------
(* The verifiers against the layout the array is read by. *)

(* What a call knows when a row did not compare equal. *)
MembersInv ==
  /\ capture \in Captures /\ question \in Questions
  /\ row \in Nat
  /\ pc \in {"verify", "verified", "mismatch"} => Askable
  /\ pc = "mismatch" =>
       /\ RowsLeft
       /\ \E at \in 0..(question.chunk - 1) :
            Captured(question.offset + row * question.chunk + at)
              # ExpectedSector(row, at)

LEMMA MembersInvNext == MembersInv /\ [MembersNext]_membersVars => MembersInv'
<1> SUFFICES ASSUME MembersInv, [MembersNext]_membersVars PROVE MembersInv'
  OBVIOUS
<1>1. /\ capture' = capture /\ question' = question
  BY DEF MembersNext, Start, VerifyRow, VerifyRowRaises, Finish, membersVars
<1>2. /\ Askable' = Askable
      /\ \A s : Captured(s)' = Captured(s)
      /\ \A r, at : ExpectedSector(r, at)' = ExpectedSector(r, at)
  BY <1>1 DEF Askable, CapturedSectors, Captured, ExpectedSector, RowLbas
<1>3. CASE Start
  BY <1>1, <1>2, <1>3 DEF MembersInv, Start
<1>4. CASE VerifyRow
  <2>1. CASE row' = row + 1 /\ pc' = pc
    BY <1>1, <1>2, <1>4, <2>1 DEF MembersInv, VerifyRow
  <2>2. CASE /\ pc' = "mismatch" /\ row' = row
             /\ ~\A at \in 0..(question.chunk - 1) :
                   Captured(question.offset + row * question.chunk + at)
                     = ExpectedSector(row, at)
    <3>1. RowsLeft /\ Askable
      BY <1>4 DEF VerifyRow, MembersInv
    <3>2. RowsLeft'
      BY <1>1, <2>2, <3>1 DEF RowsLeft
    <3>3. PICK at \in 0..(question.chunk - 1) :
            Captured(question.offset + row * question.chunk + at)
              # ExpectedSector(row, at)
      BY <2>2
    <3>4. (Captured(question.offset + row * question.chunk + at)
             # ExpectedSector(row, at))'
      BY <1>1, <2>2, <3>3 DEF Captured, ExpectedSector, RowLbas
    <3>5. \E x \in 0..(question'.chunk - 1) :
            (Captured(question.offset + row * question.chunk + x)
               # ExpectedSector(row, x))'
      BY <1>1, <3>4
    <3> QED BY <1>1, <1>2, <2>2, <3>1, <3>2, <3>5 DEF MembersInv
  <2> QED BY <1>4, <2>1, <2>2 DEF VerifyRow
<1>5. CASE Finish
  BY <1>1, <1>2, <1>5 DEF MembersInv, Finish
<1>6. CASE UNCHANGED membersVars
  <2>1. row' = row /\ pc' = pc
    BY <1>6 DEF membersVars
  <2>2. MembersInv' = MembersInv
    BY <1>1, <2>1 DEF MembersInv, Askable, CapturedSectors, Captured,
         ExpectedSector, RowLbas, RowsLeft
  <2> QED BY <2>2
<1>7. CASE VerifyRowRaises
  <2>1. pc' \in {"failed", "crashed"} /\ row' = row
    BY <1>7 DEF VerifyRowRaises
  <2> QED BY <1>1, <2>1 DEF MembersInv
<1> QED BY <1>3, <1>4, <1>5, <1>6, <1>7 DEF MembersNext

(* Turning the layout by k rows turns the places of the row by k members.  *)
LEMMA Turned ==
  ASSUME NEW k \in Nat, NEW r \in Nat, NEW i \in 0..3, NEW step \in 0..3
  PROVE  i = ((3 - ((k + r) % 4)) + step) % 4
           <=> (i + k) % 4 = ((3 - (r % 4)) + step) % 4
<1>1. /\ k % 4 \in 0..3 /\ k = 4 * (k \div 4) + (k % 4)
      /\ r % 4 \in 0..3 /\ r = 4 * (r \div 4) + (r % 4)
      /\ k \div 4 \in Nat /\ r \div 4 \in Nat
  OBVIOUS
<1> DEFINE a == k % 4
           b == r % 4
<1>2. (k + r) % 4 = (a + b) % 4 /\ (i + k) % 4 = (i + a) % 4
  BY <1>1
<1> HIDE DEF a, b
<1>3. a \in {0, 1, 2, 3} /\ b \in {0, 1, 2, 3}
  BY <1>1 DEF a, b
<1>4. i = ((3 - ((a + b) % 4)) + step) % 4
        <=> (i + a) % 4 = ((3 - b) + step) % 4
  BY <1>3
<1> QED BY <1>2, <1>4 DEF b

(* The members of a row are all different. *)
LEMMA AroundOnce ==
  ASSUME NEW r \in 0..3, NEW x \in 0..3, NEW y \in 0..3,
         ((3 - r) + x) % 4 = ((3 - r) + y) % 4
  PROVE  x = y
<1>1. r \in {0, 1, 2, 3}
  OBVIOUS
<1> QED BY <1>1

LEMMA Distributed ==
  ASSUME NEW a \in Int, NEW b \in Int, NEW c \in Int
  PROVE  (a + b) * c = a * c + b * c
BY SMT

(* The blocks the verifier makes up for a row of the question are those of *)
(* the row of the member it falls on.                                      *)
LEMMA SameBlocks ==
  ASSUME NEW base \in Nat, NEW size \in Nat, NEW k \in Nat, NEW r \in Nat,
         NEW w \in Nat, NEW at \in Nat, NEW j \in Nat
  PROVE  (base + k * w * size) + (r * w + j - 1) * size + at
           = base + ((k + r) * w + j - 1) * size + at
<1> DEFINE x == k * w
           y == r * w + j - 1
<1>1. x \in Int /\ y \in Int
  OBVIOUS
<1>2. (k + r) * w + j - 1 = x + y
  <2>1. (k + r) * w = x + r * w
    BY Distributed
  <2>2. r * w \in Int
    OBVIOUS
  <2> QED BY <1>1, <2>1, <2>2
<1> HIDE DEF x, y
<1>3. (x + y) * size = x * size + y * size
  BY <1>1, Distributed
<1>4. x * size \in Int /\ y * size \in Int
  BY <1>1
<1>5. (base + x * size) + y * size + at = base + (x + y) * size + at
  BY <1>3, <1>4
<1> QED BY <1>2, <1>5 DEF x, y

(* Where a chunk of row r lies, and as which of the row. *)
LEMMA ChunkInRow ==
  ASSUME NEW r \in Nat, NEW w \in Nat \ {0},
         NEW n \in (r * w)..(r * w + w - 1)
  PROVE  /\ n \in Nat /\ n \div w = r
         /\ n % w \in 0..(w - 1) /\ n = r * w + (n % w)
<1>1. r * w \in Nat
  OBVIOUS
<1> DEFINE j == n - r * w
<1>2. j \in 0..(w - 1) /\ n = r * w + j /\ n \in Nat
  BY <1>1
<1> HIDE DEF j
<1>3. n \div w = r /\ n % w = j
  BY <1>2, DivModUnique
<1> QED BY <1>2, <1>3

(* A sector that is not damaged is what the verifier expects of it. *)
LEMMA ReadsAsExpected ==
  ASSUME MembersInv, RightQuestion, Askable,
         NEW at \in 0..(question.chunk - 1),
         question.offset + row * question.chunk + at # capture.damaged
  PROVE  Captured(question.offset + row * question.chunk + at)
           = ExpectedSector(row, at)
<1> DEFINE c    == question.chunk
           w    == question.width
           k    == StartRow
           turn == k + row
           s    == question.offset + row * c + at
           Lba(n)  == capture.base + n * c + at
           blocks == [j \in 1..w |-> Lba(turn * w + j - 1)]
           mine == {n \in (turn * w)..(turn * w + w - 1) :
                      capture.index \in Holders(capture.level, capture.count, n)}
           layout == RowLayout(row, w + 1)
<1>1. /\ c \in Nat \ {0} /\ w \in Nat \ {0} /\ row \in Nat /\ at \in 0..(c - 1)
      /\ question.offset \in Nat /\ capture.base \in Nat
      /\ capture.index \in 0..(capture.count - 1)
      /\ capture.level \in ParityLevel /\ capture.count \in {3, 4}
      /\ Supported(capture.level, capture.count)
  BY MembersAssumption DEF MembersInv, Askable, Supported, ParityLevel
<1>2. /\ question.command = capture.level /\ capture.chunk = c
      /\ question.offset % c = 0
      /\ question.base = capture.base + k * w * c
  BY DEF RightQuestion, Same
<1>3. DataWidth(capture.level, capture.count) = w /\ capture.count = w + 1
  BY <1>1 DEF RightQuestion, DataWidth, ParityLevel
<1>4. k \in Nat /\ question.offset = k * c
  <2>1. question.offset \in Int
    BY <1>1
  <2>2. k \in Int /\ question.offset = k * c + (question.offset % c)
    BY <1>1, <2>1, DivMod DEF StartRow
  <2>3. k \in Nat
    BY <1>1, DivNat DEF StartRow
  <2>4. k * c \in Int
    BY <1>1, <2>3
  <2> HIDE DEF k, c
  <2> QED BY <1>2, <2>2, <2>3, <2>4
<1> HIDE DEF k, c, w
<1>5. s \div c = turn /\ s % c = at
  <2>1. s = turn * c + at
    <3>1. turn * c = k * c + row * c
      BY <1>1, <1>4, Distributed
    <3>2. k * c \in Int /\ row * c \in Int
      BY <1>1, <1>4
    <3> QED BY <1>1, <1>4, <3>1, <3>2 DEF c
  <2>2. turn \in Int
    BY <1>1, <1>4
  <2> HIDE DEF turn, s
  <2> QED BY <1>1, <2>1, <2>2, DivModUnique
<1>6. RowLbas(row, at) = blocks
  <2>1. RowLbas(row, at) = [j \in 1..w |->
          (capture.base + k * w * c) + (row * w + j - 1) * c + at]
    BY <1>2 DEF RowLbas, c, w
  <2>2. \A j \in 1..w :
          (capture.base + k * w * c) + (row * w + j - 1) * c + at
            = Lba(turn * w + j - 1)
    BY <1>1, <1>4, SameBlocks
  <2> QED BY <2>1, <2>2
<1>7. Captured(s) = IF mine # {}
                    THEN MakeSector(Lba(CHOOSE n \in mine : TRUE))
                    ELSE XorSectors(blocks)
  <2>1. s # capture.damaged
    BY DEF c
  <2> DEFINE held(r, d) == {n \in (r * d)..(r * d + d - 1) :
               capture.index \in Holders(capture.level, capture.count, n)}
             Shown(r, a, d) ==
               IF held(r, d) # {}
               THEN MakeSector(capture.base
                      + (CHOOSE n \in held(r, d) : TRUE) * capture.chunk + a)
               ELSE XorSectors([j \in 1..d |->
                      capture.base + (r * d + j - 1) * capture.chunk + a])
  <2> HIDE DEF s, turn
  <2>2. Captured(s) = Shown(s \div capture.chunk, s % capture.chunk,
                            DataWidth(capture.level, capture.count))
    <3> DEFINE r == s \div capture.chunk
               d == DataWidth(capture.level, capture.count)
    <3>1. CASE held(r, d) # {}
      <4>1. Captured(s) = MakeSector(capture.base
                      + (CHOOSE n \in held(r, d) : TRUE) * capture.chunk
                      + (s % capture.chunk))
        BY <2>1, <3>1, Zenon DEF Captured
      <4> QED BY <3>1, <4>1, Zenon
    <3>2. CASE held(r, d) = {}
      <4>1. Captured(s) = XorSectors([j \in 1..d |->
                capture.base + (r * d + j - 1) * capture.chunk
                  + (s % capture.chunk)])
        BY <2>1, <3>2, Zenon DEF Captured
      <4> QED BY <3>2, <4>1, Zenon
    <3> QED BY <3>1, <3>2
  <2> HIDE DEF Shown
  <2>3. Captured(s) = Shown(turn, at, w)
    BY <1>2, <1>3, <1>5, <2>2
  <2> QED BY <1>2, <2>3 DEF Shown
<1>8. \A n \in (turn * w)..(turn * w + w - 1) :
        /\ n \in Nat /\ n \div w = turn
        /\ n % w \in 0..(w - 1) /\ n = turn * w + (n % w)
  <2>1. turn \in Nat
    BY <1>1, <1>4
  <2> HIDE DEF turn
  <2> QED BY <1>1, <2>1, ChunkInRow
<1>9. CASE capture.level = "raid3"
  <2>1. capture.index = w
    BY <1>1, <1>3, <1>9 DEF RightQuestion
  <2>2. \A n : Holders(capture.level, capture.count, n) = {n % w}
    <3>1. capture.count - 1 = w
      BY <1>1, <1>3
    <3> QED BY <1>9, <3>1, AtRaid3
  <2>3. mine = {}
    <3> HIDE DEF turn
    <3> QED BY <1>1, <1>8, <2>1, <2>2
  <2>4. ExpectedSector(row, at) = XorSectors(RowLbas(row, at))
    BY <1>2, <1>9 DEF ExpectedSector
  <2> QED BY <1>6, <1>7, <2>3, <2>4 DEF c
<1>10. CASE capture.level = "raid5"
  <2>1. capture.count = 4 /\ w = 3
    BY <1>1, <1>3, <1>10 DEF Supported
  <2>2. question.index = (capture.index + k) % 4
    BY <1>10, <2>1 DEF RightQuestion, k
  <2>3. /\ layout.parity = 3 - (row % 4)
        /\ layout.data = [step \in 1..3 |-> ((3 - (row % 4)) + step) % 4]
    BY <2>1 DEF RowLayout
  <2> DEFINE parity == 3 - (row % 4)
             there(step) == ((3 - (turn % 4)) + step) % 4
             here(step)  == ((3 - (row % 4)) + step) % 4
  <2>4. \A step \in 0..3 :
          capture.index = there(step) <=> question.index = here(step)
    <3> TAKE step \in 0..3
    <3>1. capture.index \in 0..3
      BY <1>1, <2>1
    <3>2. capture.index = ((3 - ((k + row) % 4)) + step) % 4
            <=> (capture.index + k) % 4 = ((3 - (row % 4)) + step) % 4
      <4>1. k \in Nat /\ row \in Nat
        BY <1>1, <1>4
      <4> DEFINE i == capture.index
      <4>2. i \in 0..3
        BY <3>1
      <4> HIDE DEF turn, parity, there, here, i
      <4>3. i = ((3 - ((k + row) % 4)) + step) % 4
              <=> (i + k) % 4 = ((3 - (row % 4)) + step) % 4
        BY <4>1, <4>2, Turned
      <4> QED BY <4>3 DEF i
    <3> QED BY <2>2, <3>2
  <2>5. here(0) = parity /\ row % 4 \in 0..3
    BY <1>1
  <2>6. \A n \in (turn * w)..(turn * w + w - 1) :
          Holders(capture.level, capture.count, n) = {there((n % w) + 1)}
    <3> TAKE n \in (turn * w)..(turn * w + w - 1)
    <3>1. n \div w = turn /\ n % w \in 0..2
      BY <1>8, <2>1
    <3>2. Holders(capture.level, capture.count, n)
            = {Raid5Data(n \div (4 - 1), 4)[(n % (4 - 1)) + 1]}
      BY <1>10, <2>1, AtRaid5
    <3>3. Holders(capture.level, capture.count, n)
            = {Raid5Data(turn, 4)[(n % w) + 1]}
      BY <2>1, <3>1, <3>2
    <3>4. (n % w) + 1 \in 1..(4 - 1)
      BY <3>1
    <3> HIDE DEF turn
    <3>5. Raid5Data(turn, 4)[(n % w) + 1] = (Raid5Parity(turn, 4) + ((n % w) + 1)) % 4
      BY <3>4 DEF Raid5Data
    <3> QED BY <3>3, <3>5 DEF Raid5Parity
  <2>9. \A x, y \in 0..3 : here(x) = here(y) => x = y
    BY <2>5, AroundOnce
  <2> HIDE DEF there, here
  <2>7. CASE question.index = parity
    <3>1. mine = {}
      <4> SUFFICES ASSUME NEW n \in (turn * w)..(turn * w + w - 1),
                          capture.index = there((n % w) + 1)
                   PROVE  FALSE
        BY <2>6
      <4>1. (n % w) + 1 \in 1..3
        BY <1>8, <2>1
      <4>2. question.index = here((n % w) + 1)
        BY <2>4, <4>1
      <4>3. here((n % w) + 1) # parity
        BY <2>5, <2>9, <4>1
      <4> QED BY <2>7, <4>2, <4>3
    <3>2. ExpectedSector(row, at) = XorSectors(RowLbas(row, at))
      BY <2>3, <2>7 DEF ExpectedSector, w
    <3> QED BY <1>6, <1>7, <3>1, <3>2 DEF c
  <2>8. CASE question.index # parity
    <3>1. PICK step \in 1..3 : question.index = here(step)
      <4>1. capture.index + k \in Nat
        BY <1>1, <1>4
      <4>2. question.index \in 0..3
        BY <2>2, <4>1
      <4> QED BY <2>5, <2>8, <4>2 DEF here
    <3>2. \A other \in 1..3 : here(other) = here(step) => other = step
      BY <2>9
    <3> DEFINE n0 == turn * w + step - 1
    <3>3. mine = {n0}
      <4>1. n0 \in (turn * w)..(turn * w + w - 1)
        <5>1. turn * w \in Int
          BY <1>1, <1>4
        <5> QED BY <2>1, <3>1, <5>1
      <4>2. \A n \in (turn * w)..(turn * w + w - 1) : 
              (n % w) + 1 \in 1..3 /\ n = turn * w + ((n % w) + 1) - 1
        <5>1. turn * w \in Int
          BY <1>1, <1>4
        <5> HIDE DEF turn
        <5> QED BY <1>8, <2>1, <5>1
      <4>3. (n0 % w) + 1 = step
        <5>1. turn * w \in Int
          BY <1>1, <1>4
        <5>2. (n0 % w) + 1 \in 1..3 /\ n0 = turn * w + ((n0 % w) + 1) - 1
          BY <4>1, <4>2
        <5> HIDE DEF turn
        <5> QED BY <3>1, <5>1, <5>2
      <4>4. ASSUME NEW n \in (turn * w)..(turn * w + w - 1)
            PROVE  n \in mine <=> (n % w) + 1 = step
        <5>1. n \in mine <=> capture.index = there((n % w) + 1)
          BY <2>6
        <5>2. capture.index = there((n % w) + 1) <=> question.index = here((n % w) + 1)
          BY <2>4, <4>2
        <5>3. (n % w) + 1 \in 1..3
          BY <4>2
        <5> QED BY <3>1, <3>2, <5>1, <5>2, <5>3
      <4> HIDE DEF turn
      <4> QED BY <4>1, <4>2, <4>3, <4>4
    <3>4. Captured(s) = MakeSector(blocks[step])
      <4>1. Captured(s) = MakeSector(Lba(n0))
        BY <1>7, <3>3
      <4>2. step \in 1..w
        BY <2>1, <3>1
      <4> QED BY <4>1, <4>2
    <3>5. (CHOOSE j \in 1..3 : layout.data[j] = question.index) = step
      <4>1. \A j \in 1..3 : layout.data[j] = here(j)
        BY <2>3 DEF here
      <4> HIDE DEF layout
      <4> QED BY <3>1, <3>2, <4>1
    <3>6. ExpectedSector(row, at)
            = MakeSector(RowLbas(row, at)
                [CHOOSE j \in 1..question.width :
                   layout.data[j] = question.index])
      <4>1. question.command # "raid3"
        BY <1>2, <1>10
      <4> QED BY <2>3, <2>8, <4>1 DEF ExpectedSector, w
    <3> QED BY <1>6, <2>1, <3>4, <3>5, <3>6 DEF w, c
  <2> QED BY <2>7, <2>8
<1> QED BY <1>1, <1>9, <1>10 DEF ParityLevel

(* What array.py would read back as the volume, the verifiers accept of    *)
(* every member and from every row, for every pattern base and chunk size: *)
(* a mismatch is a damaged sector.                                         *)
THEOREM VerifiersAgree == MembersSpec => []ReadersAgree
<1>1. MembersInit => MembersInv
  BY DEF MembersInit, MembersInv
<1>2. MembersInv => ReadersAgree
  <2> SUFFICES ASSUME MembersInv, pc = "mismatch", RightQuestion
               PROVE  InRange(capture.damaged)
    BY DEF ReadersAgree
  <2>1. Askable /\ RowsLeft
    BY DEF MembersInv
  <2>2. PICK at \in 0..(question.chunk - 1) :
          Captured(question.offset + row * question.chunk + at)
            # ExpectedSector(row, at)
    BY DEF MembersInv
  <2>3. question.offset + row * question.chunk + at = capture.damaged
    BY <2>1, <2>2, ReadsAsExpected
  <2> DEFINE c == question.chunk
  <2>4. /\ c \in Nat \ {0} /\ row \in Nat
        /\ question.offset \in Nat /\ question.length \in Nat
    BY <2>1, MembersAssumption DEF MembersInv, Askable
  <2>5. question.length % c = 0 /\ row < question.length \div c
    BY <2>1 DEF Askable, RowsLeft
  <2> HIDE DEF c
  <2>6. /\ question.length \div c \in Int
        /\ question.length = (question.length \div c) * c
    <3>1. question.length \in Int
      BY <2>4
    <3>2. /\ question.length \div c \in Int
          /\ question.length = (question.length \div c) * c + (question.length % c)
      BY <2>4, <3>1, DivMod
    <3>3. (question.length \div c) * c \in Int
      BY <2>4, <3>2
    <3> QED BY <2>5, <3>2, <3>3
  <2>7. (row + 1) * c <= question.length
    BY <2>4, <2>5, <2>6, MulMonotonic
  <2>8. (row + 1) * c = row * c + c /\ row * c \in Nat
    BY <2>4
  <2>9. row * c + at \in 0..(question.length - 1)
    BY <2>4, <2>7, <2>8 DEF c
  <2>10. capture.damaged = question.offset + (row * c + at)
    BY <2>3, <2>4, <2>8 DEF c
  <2> QED BY <2>4, <2>9, <2>10 DEF InRange
<1> QED BY <1>1, <1>2, MembersInvNext, PTL DEF MembersSpec

-----------------------------------------------------------------------------
(* Damaged sectors, for any question. *)

(* None of the rows gone through holds the damaged sector. *)
Sound(r) ==
  \A at \in 0..(question.chunk - 1) :
    question.offset + r * question.chunk + at # capture.damaged

DamageInv ==
  /\ MembersInv
  /\ pc = "start" => row = 0
  /\ pc \in {"verify", "verified"} => \A r \in 0..(row - 1) : Sound(r)
  /\ pc = "verified" => ~RowsLeft

(* A damaged sector does not compare equal, whatever is expected there. *)
LEMMA DamageDiffers ==
  ASSUME MembersInv, NEW r, NEW at,
         question.offset + r * question.chunk + at = capture.damaged
  PROVE  Captured(question.offset + r * question.chunk + at)
           # ExpectedSector(r, at)
<1>1. Captured(question.offset + r * question.chunk + at) = Junk
  BY DEF Captured
<1>2. ExpectedSector(r, at).odd \in BOOLEAN
  BY DEF ExpectedSector, XorSectors, MakeSector
<1>3. Junk.odd = None
  BY DEF Junk
<1> QED BY <1>1, <1>2, <1>3, MembersAssumption

LEMMA DamageInvNext == DamageInv /\ [MembersNext]_membersVars => DamageInv'
<1> SUFFICES ASSUME DamageInv, [MembersNext]_membersVars PROVE DamageInv'
  OBVIOUS
<1>1. MembersInv /\ MembersInv'
  BY MembersInvNext DEF DamageInv
<1>2. /\ capture' = capture /\ question' = question
      /\ \A r : Sound(r)' <=> Sound(r)
  BY DEF MembersNext, Start, VerifyRow, VerifyRowRaises, Finish, membersVars, Sound
<1>3. row \in Nat
  BY <1>1 DEF MembersInv
<1>4. CASE Start
  <2>1. row' = row /\ pc' \in {"verify", "refused"} /\ row = 0
    BY <1>4 DEF Start, DamageInv
  <2> QED BY <1>1, <2>1 DEF DamageInv
<1>5. CASE VerifyRow
  <2>1. CASE /\ row' = row + 1 /\ pc' = pc /\ pc = "verify"
             /\ \A at \in 0..(question.chunk - 1) :
                  Captured(question.offset + row * question.chunk + at)
                    = ExpectedSector(row, at)
    <3>1. Sound(row)
      BY <1>1, <2>1, DamageDiffers DEF Sound
    <3>2. \A r \in 0..(row - 1) : Sound(r)
      BY <2>1 DEF DamageInv
    <3>3. \A r \in 0..(row' - 1) : r = row \/ r \in 0..(row - 1)
      BY <1>3, <2>1
    <3> QED BY <1>1, <1>2, <2>1, <3>1, <3>2, <3>3 DEF DamageInv
  <2>2. CASE pc' = "mismatch"
    BY <1>1, <2>2 DEF DamageInv
  <2> QED BY <1>5, <2>1, <2>2 DEF VerifyRow
<1>6. CASE Finish
  <2>1. pc = "verify" /\ pc' = "verified" /\ ~RowsLeft /\ row' = row
    BY <1>6 DEF Finish
  <2>2. ~RowsLeft'
    BY <1>2, <2>1 DEF RowsLeft
  <2> QED BY <1>1, <1>2, <2>1, <2>2 DEF DamageInv
<1>7. CASE UNCHANGED membersVars
  <2>1. row' = row /\ pc' = pc /\ RowsLeft' = RowsLeft
    BY <1>2, <1>7 DEF membersVars, RowsLeft
  <2> QED BY <1>1, <1>2, <2>1 DEF DamageInv
<1>8. CASE VerifyRowRaises
  <2>1. pc' \in {"failed", "crashed"} /\ row' = row
    BY <1>8 DEF VerifyRowRaises
  <2> QED BY <1>1, <2>1 DEF DamageInv
<1> QED BY <1>4, <1>5, <1>6, <1>7, <1>8 DEF MembersNext

(* The rows of the question, each sector of them, are its range: a member  *)
(* of whatever kind that verifies, for whatever question, is not damaged   *)
(* there.                                                                  *)
THEOREM DamageFound == MembersSpec => []DamageIsFound
<1>1. MembersInit => DamageInv
  <2>1. MembersInit => MembersInv
    BY DEF MembersInit, MembersInv
  <2> QED BY <2>1 DEF MembersInit, DamageInv
<1>2. DamageInv => DamageIsFound
  <2> SUFFICES ASSUME DamageInv, pc = "verified", InRange(capture.damaged)
               PROVE  FALSE
    BY DEF DamageIsFound
  <2> DEFINE c    == question.chunk
             past == capture.damaged - question.offset
             r    == past \div c
             at   == past % c
  <2>1. MembersInv /\ Askable /\ ~RowsLeft /\ \A n \in 0..(row - 1) : Sound(n)
    BY DEF DamageInv, MembersInv
  <2>2. /\ c \in Nat \ {0} /\ row \in Nat
        /\ question.offset \in Nat /\ question.length \in Nat
    BY <2>1, MembersAssumption DEF MembersInv, Askable
  <2>3. past \in 0..(question.length - 1)
        /\ capture.damaged = question.offset + past
    BY <2>2 DEF InRange
  <2>4. /\ question.length % c = 0 /\ ~(row < question.length \div c)
    BY <2>1 DEF Askable, RowsLeft
  <2> HIDE DEF c, past
  <2>5. /\ r \in Int /\ at \in 0..(c - 1) /\ past = r * c + at
    BY <2>2, <2>3, DivMod
  <2>6. /\ question.length \div c \in Int
        /\ question.length = (question.length \div c) * c
    <3>1. question.length \in Int
      BY <2>2
    <3>2. /\ question.length \div c \in Int
          /\ question.length = (question.length \div c) * c + (question.length % c)
      BY <2>2, <3>1, DivMod
    <3>3. (question.length \div c) * c \in Int
      BY <2>2, <3>2
    <3> QED BY <2>4, <3>2, <3>3
  <2> HIDE DEF r, at
  <2>7. r >= 0
    <3> SUFFICES ASSUME r + 1 <= 0 PROVE FALSE
      BY <2>5
    <3>1. (r + 1) * c <= 0 * c
      BY <2>2, <2>5, MulMonotonic
    <3>2. (r + 1) * c = r * c + c /\ r * c \in Int /\ 0 * c = 0
      BY <2>2, <2>5
    <3> QED BY <2>2, <2>3, <2>5, <3>1, <3>2
  <2>8. r < row
    <3> SUFFICES ASSUME question.length \div c <= r PROVE FALSE
      BY <2>2, <2>4, <2>5, <2>6
    <3>1. (question.length \div c) * c <= r * c
      BY <2>2, <2>5, <2>6, MulMonotonic
    <3>2. r * c \in Int
      BY <2>2, <2>5
    <3> QED BY <2>2, <2>3, <2>5, <2>6, <3>1, <3>2
  <2>9. question.offset + r * c + at # capture.damaged
    BY <2>1, <2>2, <2>5, <2>7, <2>8 DEF Sound, c
  <2>10. r * c \in Int
    BY <2>2, <2>5
  <2> QED BY <2>2, <2>3, <2>5, <2>9, <2>10
<1> QED BY <1>1, <1>2, DamageInvNext, PTL DEF MembersSpec
===============================================================================
