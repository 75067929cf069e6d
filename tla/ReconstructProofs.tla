--------------------------- MODULE ReconstructProofs ---------------------------
(***************************************************************************)
(* The safety of Reconstruct for every set of arrays, every length, every  *)
(* device size and any number of calls and exchanged device names.         *)
(***************************************************************************)
EXTENDS Reconstruct, LogicalReadProofs, SequenceTheorems, FiniteSetTheorems

(* Facts about the array a call is made on. *)
LEMMA ArrayFacts ==
  ASSUME TypeOK
  PROVE  /\ IsArray(array)
         /\ array.chunk \in Nat \ {0}
         /\ Maximum(array) \in Int
BY ReconstructAssumption, MaximumBounds DEF TypeOK, IsArray

LEMMA AskedType ==
  ASSUME TypeOK
  PROVE  Asked \in Int
<1>1. length \in Int \cup {None}
  BY ReconstructAssumption DEF TypeOK
<1> QED BY <1>1, ArrayFacts DEF Asked

(* The amount of the next block. *)
LEMMA AmountBounds ==
  ASSUME TypeOK, remaining > 0
  PROVE  /\ Amount \in 1..array.chunk /\ Amount <= remaining
         /\ Amount < remaining => Amount = array.chunk
<1> DEFINE k == array.chunk
<1>1. k \in Nat \ {0} /\ remaining \in Int
  BY ArrayFacts DEF TypeOK
<1>2. Amount = IF k <= remaining THEN k ELSE remaining
  <2> HIDE DEF k
  <2>1. k \in Int /\ remaining \in Int
    BY <1>1
  <2>2. /\ Min({k, remaining}) \in {k, remaining}
        /\ Min({k, remaining}) <= k /\ Min({k, remaining}) <= remaining
    BY <2>1, MinOfTwo
  <2>3. Amount = Min({k, remaining})
    BY DEF Amount, k
  <2> QED BY <2>1, <2>2, <2>3, SMT
<1> HIDE DEF k
<1> QED BY <1>1, <1>2, SMT DEF k

(* A block is a sequence of symbolic bytes of the length asked for, even   *)
(* if other members answer than the ones the sources were opened for.      *)
LEMMA BlockType ==
  ASSUME NEW a, IsArray(a), NEW src \in [Members(a) -> Members(a)],
         NEW n \in Nat, NEW amount \in 0..a.chunk
  PROVE  /\ LogicalChunk(a, src, n, amount) \in Seq(SUBSET Int)
         /\ Len(LogicalChunk(a, src, n, amount)) = amount
<1> DEFINE k == a.chunk
           row == Row(a.level, a.count, n)
           S == ChunkSources(a, n)
           byte(i, x) == StoredByte(a, src[i], ChunkOffset(a, n) + x - 1)
           B(x) == [i \in S |-> byte(i, x)]
<1>1. /\ k \in Nat \ {0} /\ a.base \in Nat
      /\ Supported(a.level, a.count)
      /\ Members(a) \in SUBSET (0..(a.count - 1))
  BY DEF IsArray
<1>2. row \in Nat /\ amount \in Nat
  BY <1>1, RowIsNat
<1>3. \A i \in S : src[i] \in 0..(a.count - 1)
  BY <1>1, SourcesAreMembers DEF ChunkSources
<1>4. ASSUME NEW x \in 1..amount, NEW i \in S
      PROVE  byte(i, x) \in SUBSET Int
  <2>1. x - 1 \in 0..(k - 1) /\ x \in Int
    BY <1>1, SMT
  <2>2. ChunkOffset(a, n) + x - 1 = a.base + row * k + (x - 1)
    <3>1. row * k \in Int
      BY <1>1, <1>2, SMT
    <3> HIDE DEF row, k
    <3> QED BY <1>1, <2>1, <3>1, SMT DEF ChunkOffset, row, k
  <2>3. byte(i, x) = BytesAt(StoredChunks(a.level, a.count, src[i], row), k, x - 1)
    BY <1>2, <2>1, <2>2, StoredByteInRow
  <2>4. StoredChunks(a.level, a.count, src[i], row) \in SUBSET Int
    BY <1>1, <1>2, <1>3, SupportedShape, StoredChunksType
  <2>5. \A c \in Int : c * k + (x - 1) \in Int
    BY <1>1, <2>1, SMT
  <2> QED BY <2>3, <2>4, <2>5 DEF BytesAt
<1>5. \A x \in 1..amount : XorBlocks(B(x)) \in SUBSET Int
  <2>1. \A x \in 1..amount : DOMAIN B(x) = S /\ \A i \in S : B(x)[i] \in SUBSET Int
    BY <1>4
  <2> HIDE DEF B
  <2> QED BY <2>1, Zenon DEF XorBlocks
<1>6. LogicalChunk(a, src, n, amount) = [x \in 1..amount |-> XorBlocks(B(x))]
  BY DEF LogicalChunk
<1> HIDE DEF B
<1>7. LogicalChunk(a, src, n, amount) \in [1..amount -> SUBSET Int]
  BY <1>5, <1>6
<1> QED BY <1>2, <1>7, SeqDef, LenProperties, SMT
-----------------------------------------------------------------------------
(* The block that is about to be written is the volume's.                  *)

(* What Read yields in a state of the invariant. *)
LEMMA ReadBlock ==
  ASSUME Inv, pc \in {"read", "write"}, remaining # 0
  PROVE  LET b == LogicalChunk(array, source, chunkNo, Amount)
         IN  /\ remaining > 0 /\ Amount \in 1..array.chunk /\ Amount <= remaining
             /\ b \in Seq(SUBSET Int) /\ Len(b) = Amount
             /\ Genuine => \A x \in 1..Amount : b[x] = LogicalByte(Len(out) + x)
<1> DEFINE b == LogicalChunk(array, source, chunkNo, Amount)
<1>1. /\ TypeOK /\ remaining > 0 /\ chunkNo \in Nat
      /\ source \in [Members(array) -> Members(array)]
      /\ Len(out) = chunkNo * array.chunk
  <2>1. TypeOK /\ remaining >= 0 /\ remaining \in Int
    BY DEF Inv, Progress, TypeOK
  <2>2. remaining > 0
    BY <2>1, SMT
  <2> QED BY <2>1, <2>2 DEF Inv, Progress, TypeOK
<1>2. /\ Amount \in 1..array.chunk /\ Amount <= remaining /\ IsArray(array)
      /\ array.chunk \in Nat \ {0}
  BY <1>1, AmountBounds, ArrayFacts
<1>3. Amount \in 0..array.chunk
  <2> DEFINE k == array.chunk
             m == Amount
  <2>1. k \in Nat \ {0} /\ m \in 1..k
    BY <1>2
  <2> HIDE DEF k, m
  <2>2. m \in 0..k
    BY <2>1, SMT
  <2> QED BY <2>2 DEF k, m
<1>4. b \in Seq(SUBSET Int) /\ Len(b) = Amount
  BY <1>1, <1>2, <1>3, BlockType
<1>5. ASSUME Genuine, NEW x \in 1..Amount
      PROVE  b[x] = LogicalByte(Len(out) + x)
  <2>1. b = [y \in 1..Amount |-> LogicalByte(chunkNo * array.chunk + y)]
    BY <1>1, <1>2, <1>3, <1>5, LogicalChunkIsVolume DEF Genuine
  <2> HIDE DEF b
  <2> QED BY <1>1, <2>1
<1> QED BY <1>1, <1>2, <1>4, <1>5

-----------------------------------------------------------------------------
(* Types.                                                                  *)

LEMMA TypeInit == Init => TypeOK
<1> SUFFICES ASSUME Init PROVE TypeOK
  OBVIOUS
<1>1. behind \in [Members(array) -> Members(array)]
  BY DEF Init
<1>2. <<>> \in Seq(SUBSET Int)
  BY EmptySeq
<1> QED BY <1>1, <1>2, SMT DEF Init, TypeOK, Final, Error

LEMMA TypeStep == Inv /\ [Next]_vars => TypeOK'
<1> SUFFICES ASSUME Inv, [Next]_vars PROVE TypeOK'
  OBVIOUS
<1> USE DEF call, loop, env, fds, Final, Error, Refuse, Raise
<1>0. TypeOK
  BY DEF Inv
<1>1. ASSUME Stat PROVE TypeOK'
  <2>1. Asked \in Int
    BY <1>0, AskedType
  <2> QED BY <1>0, <1>1, <2>1 DEF Stat, TypeOK
<1>2. ASSUME OpenOutput PROVE TypeOK'
  <2>1. <<>> \in Seq(SUBSET Int)
    BY EmptySeq
  <2> QED BY <1>0, <1>2, <2>1 DEF OpenOutput, TypeOK
<1>3. ASSUME OpenFails PROVE TypeOK'
  BY <1>0, <1>3 DEF OpenFails, TypeOK
<1>4. ASSUME Iter PROVE TypeOK'
  BY <1>0, <1>4 DEF Iter, TypeOK
<1>5. ASSUME OpenSource PROVE TypeOK'
  BY <1>0, <1>5 DEF OpenSource, TypeOK
<1>6. ASSUME OpenSourceFails PROVE TypeOK'
  BY <1>0, <1>6 DEF OpenSourceFails, TypeOK
<1>7. ASSUME Read PROVE TypeOK'
  <2>1. block' \in Seq(SUBSET Int)
    BY <1>7, ReadBlock DEF Read
  <2> QED BY <1>0, <1>7, <2>1 DEF Read, TypeOK
<1>8. ASSUME ReadFails PROVE TypeOK'
  BY <1>0, <1>8 DEF ReadFails, TypeOK
<1>9. ASSUME Write PROVE TypeOK'
  <2>1. out' \in Seq(SUBSET Int) /\ Len(block) \in Nat
    BY <1>0, <1>9, ConcatProperties, LenProperties DEF Write, TypeOK
  <2>2. remaining' \in Int /\ chunkNo' \in Nat
    BY <1>0, <1>9, <2>1, SMT DEF Write, TypeOK
  <2> QED BY <1>0, <1>9, <2>1, <2>2 DEF Write, TypeOK
<1>10. ASSUME WriteFails PROVE TypeOK'
  <2>1. PICK taken \in 0..(Len(block) - 1) : out' = out \o SubSeq(block, 1, taken)
    BY <1>10 DEF WriteFails
  <2>2. \A i \in 1..taken : block[i] \in SUBSET Int
    BY <1>0, ElementOfSeq, LenProperties, SMT DEF TypeOK
  <2>3. SubSeq(block, 1, taken) \in Seq(SUBSET Int)
    BY <2>2, SubSeqProperties, SMT
  <2>4. out' \in Seq(SUBSET Int)
    BY <1>0, <2>1, <2>3, ConcatProperties DEF TypeOK
  <2> QED BY <1>0, <1>10, <2>4 DEF WriteFails, TypeOK
<1>11. ASSUME Fsync PROVE TypeOK'
  BY <1>0, <1>11 DEF Fsync, TypeOK
<1>12. ASSUME CleanUp PROVE TypeOK'
  <2>1. <<>> \in Seq(SUBSET Int)
    BY EmptySeq
  <2> QED BY <1>0, <1>12, <2>1 DEF CleanUp, TypeOK
<1>13. ASSUME Abandon PROVE TypeOK'
  BY <1>0, <1>13 DEF Abandon, TypeOK
<1>14. ASSUME Rerun PROVE TypeOK'
  BY <1>0, <1>14 DEF Rerun, TypeOK
<1>15. ASSUME OtherCreates PROVE TypeOK'
  BY <1>0, <1>15 DEF OtherCreates, TypeOK
<1>16. ASSUME RemoveImage PROVE TypeOK'
  <2>1. <<>> \in Seq(SUBSET Int)
    BY EmptySeq
  <2> QED BY <1>0, <1>16, <2>1 DEF RemoveImage, TypeOK
<1>17. ASSUME SwapNames PROVE TypeOK'
  BY <1>0, <1>17 DEF SwapNames, TypeOK
<1>18. ASSUME UNCHANGED vars PROVE TypeOK'
  BY <1>0, <1>18 DEF vars, TypeOK
<1>19. ASSUME Close PROVE TypeOK'
  BY <1>0, <1>19 DEF Close, TypeOK
<1> QED BY <1>1, <1>2, <1>3, <1>4, <1>5, <1>6, <1>7, <1>8, <1>9, <1>10, <1>11,
           <1>12, <1>13, <1>14, <1>15, <1>16, <1>17, <1>18, <1>19
        DEF Next, Tool, Environment
-----------------------------------------------------------------------------
(* Control: what is at the output path, what was asked for, errors.        *)

(* What a call has open is its own. *)
LEMMA OutputStep == Inv /\ [Next]_vars => OutputIsOurs'
<1> SUFFICES ASSUME Inv, [Next]_vars PROVE OutputIsOurs'
  OBVIOUS
<1> USE DEF call, loop, env, fds, Final, Opened, Own, Refuse, Raise
<1>0. /\ TypeOK /\ OutputIsOurs
  BY DEF Inv
<1>1. ASSUME Stat PROVE OutputIsOurs'
  <2>1. DeviceSize \in Nat /\ Asked \in Int
    BY <1>0, AskedType, ReconstructAssumption
  <2> HIDE DEF call
  <2> QED BY <1>0, <1>1, <2>1 DEF Stat, OutputIsOurs, call
<1>2. ASSUME OpenOutput PROVE OutputIsOurs'
  BY <1>0, <1>2 DEF OpenOutput, OutputIsOurs
<1>3. ASSUME OpenFails PROVE OutputIsOurs'
  BY <1>0, <1>3 DEF OpenFails, OutputIsOurs
<1>4. ASSUME Iter PROVE OutputIsOurs'
  BY <1>0, <1>4 DEF Iter, OutputIsOurs
<1>5. ASSUME OpenSource PROVE OutputIsOurs'
  BY <1>0, <1>5 DEF OpenSource, OutputIsOurs
<1>6. ASSUME OpenSourceFails PROVE OutputIsOurs'
  BY <1>0, <1>6 DEF OpenSourceFails, OutputIsOurs
<1>7. ASSUME Read PROVE OutputIsOurs'
  BY <1>0, <1>7 DEF Read, OutputIsOurs
<1>8. ASSUME ReadFails PROVE OutputIsOurs'
  BY <1>0, <1>8 DEF ReadFails, OutputIsOurs
<1>9. ASSUME Write PROVE OutputIsOurs'
  BY <1>0, <1>9 DEF Write, OutputIsOurs
<1>10. ASSUME WriteFails PROVE OutputIsOurs'
  BY <1>0, <1>10 DEF WriteFails, OutputIsOurs
<1>11. ASSUME Fsync PROVE OutputIsOurs'
  BY <1>0, <1>11 DEF Fsync, OutputIsOurs
<1>12. ASSUME CleanUp PROVE OutputIsOurs'
  BY <1>0, <1>12 DEF CleanUp, OutputIsOurs
<1>13. ASSUME Abandon PROVE OutputIsOurs'
  BY <1>0, <1>13 DEF Abandon, OutputIsOurs
<1>14. ASSUME Rerun PROVE OutputIsOurs'
  BY <1>0, <1>14 DEF Rerun, OutputIsOurs
<1>15. ASSUME OtherCreates PROVE OutputIsOurs'
  BY <1>0, <1>15 DEF OtherCreates, OutputIsOurs
<1>16. ASSUME RemoveImage PROVE OutputIsOurs'
  BY <1>0, <1>16 DEF RemoveImage, OutputIsOurs
<1>17. ASSUME SwapNames PROVE OutputIsOurs'
  BY <1>0, <1>17 DEF SwapNames, OutputIsOurs
<1>18. ASSUME UNCHANGED vars PROVE OutputIsOurs'
  BY <1>0, <1>18 DEF vars, OutputIsOurs
<1>19. ASSUME Close PROVE OutputIsOurs'
  BY <1>0, <1>19 DEF Close, OutputIsOurs
<1> QED BY <1>1, <1>2, <1>3, <1>4, <1>5, <1>6, <1>7, <1>8, <1>9, <1>10, <1>11,
           <1>12, <1>13, <1>14, <1>15, <1>16, <1>17, <1>18, <1>19
        DEF Next, Tool, Environment

(* requested is what the arguments ask for. *)
LEMMA AskedStep == Inv /\ [Next]_vars => AskedFor'
<1> SUFFICES ASSUME Inv, [Next]_vars PROVE AskedFor'
  OBVIOUS
<1> USE DEF call, loop, env, fds, Final, Opened, Own, Refuse, Raise
<1>0. AskedFor
  BY DEF Inv
<1>1. ASSUME Stat PROVE AskedFor'
  BY <1>0, <1>1 DEF Stat, AskedFor, Asked
<1>2. ASSUME OpenOutput PROVE AskedFor'
  BY <1>0, <1>2 DEF OpenOutput, AskedFor, Asked
<1>3. ASSUME OpenFails PROVE AskedFor'
  BY <1>0, <1>3 DEF OpenFails, AskedFor, Asked
<1>4. ASSUME Iter PROVE AskedFor'
  BY <1>0, <1>4 DEF Iter, AskedFor, Asked
<1>5. ASSUME OpenSource PROVE AskedFor'
  BY <1>0, <1>5 DEF OpenSource, AskedFor, Asked
<1>6. ASSUME OpenSourceFails PROVE AskedFor'
  BY <1>0, <1>6 DEF OpenSourceFails, AskedFor, Asked
<1>7. ASSUME Read PROVE AskedFor'
  BY <1>0, <1>7 DEF Read, AskedFor, Asked
<1>8. ASSUME ReadFails PROVE AskedFor'
  BY <1>0, <1>8 DEF ReadFails, AskedFor, Asked
<1>9. ASSUME Write PROVE AskedFor'
  BY <1>0, <1>9 DEF Write, AskedFor, Asked
<1>10. ASSUME WriteFails PROVE AskedFor'
  BY <1>0, <1>10 DEF WriteFails, AskedFor, Asked
<1>11. ASSUME Fsync PROVE AskedFor'
  BY <1>0, <1>11 DEF Fsync, AskedFor, Asked
<1>12. ASSUME CleanUp PROVE AskedFor'
  BY <1>0, <1>12 DEF CleanUp, AskedFor, Asked
<1>13. ASSUME Abandon PROVE AskedFor'
  BY <1>0, <1>13 DEF Abandon, AskedFor, Asked
<1>14. ASSUME Rerun PROVE AskedFor'
  BY <1>0, <1>14 DEF Rerun, AskedFor, Asked
<1>15. ASSUME OtherCreates PROVE AskedFor'
  BY <1>0, <1>15 DEF OtherCreates, AskedFor, Asked
<1>16. ASSUME RemoveImage PROVE AskedFor'
  BY <1>0, <1>16 DEF RemoveImage, AskedFor, Asked
<1>17. ASSUME SwapNames PROVE AskedFor'
  BY <1>0, <1>17 DEF SwapNames, AskedFor, Asked
<1>18. ASSUME UNCHANGED vars PROVE AskedFor'
  BY <1>0, <1>18 DEF vars, AskedFor, Asked
<1>19. ASSUME Close PROVE AskedFor'
  BY <1>0, <1>19 DEF Close, AskedFor, Asked
<1> QED BY <1>1, <1>2, <1>3, <1>4, <1>5, <1>6, <1>7, <1>8, <1>9, <1>10, <1>11,
           <1>12, <1>13, <1>14, <1>15, <1>16, <1>17, <1>18, <1>19
        DEF Next, Tool, Environment

(* An error is there only once it was raised. *)
LEMMA ErrorStep == Inv /\ [Next]_vars => NoErrorYet'
<1> SUFFICES ASSUME Inv, [Next]_vars PROVE NoErrorYet'
  OBVIOUS
<1> USE DEF call, loop, env, fds, Final, Opened, Own, Refuse, Raise
<1>0. NoErrorYet
  BY DEF Inv
<1>1. ASSUME Stat PROVE NoErrorYet'
  BY <1>0, <1>1 DEF Stat, NoErrorYet
<1>2. ASSUME OpenOutput PROVE NoErrorYet'
  BY <1>0, <1>2 DEF OpenOutput, NoErrorYet
<1>3. ASSUME OpenFails PROVE NoErrorYet'
  BY <1>0, <1>3 DEF OpenFails, NoErrorYet
<1>4. ASSUME Iter PROVE NoErrorYet'
  BY <1>0, <1>4 DEF Iter, NoErrorYet
<1>5. ASSUME OpenSource PROVE NoErrorYet'
  BY <1>0, <1>5 DEF OpenSource, NoErrorYet
<1>6. ASSUME OpenSourceFails PROVE NoErrorYet'
  BY <1>0, <1>6 DEF OpenSourceFails, NoErrorYet
<1>7. ASSUME Read PROVE NoErrorYet'
  BY <1>0, <1>7 DEF Read, NoErrorYet
<1>8. ASSUME ReadFails PROVE NoErrorYet'
  BY <1>0, <1>8 DEF ReadFails, NoErrorYet
<1>9. ASSUME Write PROVE NoErrorYet'
  BY <1>0, <1>9 DEF Write, NoErrorYet
<1>10. ASSUME WriteFails PROVE NoErrorYet'
  BY <1>0, <1>10 DEF WriteFails, NoErrorYet
<1>11. ASSUME Fsync PROVE NoErrorYet'
  BY <1>0, <1>11 DEF Fsync, NoErrorYet
<1>12. ASSUME CleanUp PROVE NoErrorYet'
  BY <1>0, <1>12 DEF CleanUp, NoErrorYet
<1>13. ASSUME Abandon PROVE NoErrorYet'
  BY <1>0, <1>13 DEF Abandon, NoErrorYet
<1>14. ASSUME Rerun PROVE NoErrorYet'
  BY <1>0, <1>14 DEF Rerun, NoErrorYet
<1>15. ASSUME OtherCreates PROVE NoErrorYet'
  BY <1>0, <1>15 DEF OtherCreates, NoErrorYet
<1>16. ASSUME RemoveImage PROVE NoErrorYet'
  BY <1>0, <1>16 DEF RemoveImage, NoErrorYet
<1>17. ASSUME SwapNames PROVE NoErrorYet'
  BY <1>0, <1>17 DEF SwapNames, NoErrorYet
<1>18. ASSUME UNCHANGED vars PROVE NoErrorYet'
  BY <1>0, <1>18 DEF vars, NoErrorYet
<1>19. ASSUME Close PROVE NoErrorYet'
  BY <1>0, <1>19 DEF Close, NoErrorYet
<1> QED BY <1>1, <1>2, <1>3, <1>4, <1>5, <1>6, <1>7, <1>8, <1>9, <1>10, <1>11,
           <1>12, <1>13, <1>14, <1>15, <1>16, <1>17, <1>18, <1>19
        DEF Next, Tool, Environment

(* Every image after a failure is accounted for. *)
LEMMA ImageStep == Inv /\ [Next]_vars => LeftoverExplained'
<1> SUFFICES ASSUME Inv, [Next]_vars PROVE LeftoverExplained'
  OBVIOUS
<1> USE DEF call, loop, env, fds, Final, Opened, Own, Refuse, Raise
<1>0. LeftoverExplained /\ Progress /\ AskedFor /\ OutputIsOurs
  BY DEF Inv
<1>1. ASSUME Stat PROVE LeftoverExplained'
  BY <1>0, <1>1 DEF Stat, LeftoverExplained, OutputIsOurs, Asked
<1>2. ASSUME OpenOutput PROVE LeftoverExplained'
  BY <1>0, <1>2 DEF OpenOutput, LeftoverExplained, OutputIsOurs, Asked
<1>3. ASSUME OpenFails PROVE LeftoverExplained'
  BY <1>0, <1>3 DEF OpenFails, LeftoverExplained, OutputIsOurs, Asked
<1>4. ASSUME Iter PROVE LeftoverExplained'
  BY <1>0, <1>4 DEF Iter, LeftoverExplained, OutputIsOurs, Asked
<1>5. ASSUME OpenSource PROVE LeftoverExplained'
  BY <1>0, <1>5 DEF OpenSource, LeftoverExplained, OutputIsOurs, Asked
<1>6. ASSUME OpenSourceFails PROVE LeftoverExplained'
  BY <1>0, <1>6 DEF OpenSourceFails, LeftoverExplained, OutputIsOurs, Asked
<1>7. ASSUME Read PROVE LeftoverExplained'
  BY <1>0, <1>7 DEF Read, LeftoverExplained, OutputIsOurs, Asked
<1>8. ASSUME ReadFails PROVE LeftoverExplained'
  BY <1>0, <1>8 DEF ReadFails, LeftoverExplained, OutputIsOurs, Asked
<1>9. ASSUME Write PROVE LeftoverExplained'
  BY <1>0, <1>9 DEF Write, LeftoverExplained, OutputIsOurs, Asked
<1>10. ASSUME WriteFails PROVE LeftoverExplained'
  BY <1>0, <1>10 DEF WriteFails, LeftoverExplained, OutputIsOurs, Asked
<1>11. ASSUME Fsync PROVE LeftoverExplained'
  BY <1>0, <1>11 DEF Fsync, LeftoverExplained, OutputIsOurs, Asked
<1>12. ASSUME CleanUp PROVE LeftoverExplained'
  BY <1>0, <1>12 DEF CleanUp, LeftoverExplained, OutputIsOurs, Asked
<1>13. ASSUME Abandon PROVE LeftoverExplained'
  BY <1>0, <1>13 DEF Abandon, LeftoverExplained, OutputIsOurs, Asked
<1>14. ASSUME Rerun PROVE LeftoverExplained'
  BY <1>0, <1>14 DEF Rerun, LeftoverExplained, OutputIsOurs, Asked
<1>15. ASSUME OtherCreates PROVE LeftoverExplained'
  BY <1>0, <1>15 DEF OtherCreates, LeftoverExplained, OutputIsOurs, Asked
<1>16. ASSUME RemoveImage PROVE LeftoverExplained'
  BY <1>0, <1>16 DEF RemoveImage, LeftoverExplained, OutputIsOurs, Asked
<1>17. ASSUME SwapNames PROVE LeftoverExplained'
  BY <1>0, <1>17 DEF SwapNames, LeftoverExplained, OutputIsOurs, Asked
<1>18. ASSUME UNCHANGED vars PROVE LeftoverExplained'
  BY <1>0, <1>18 DEF vars, LeftoverExplained, OutputIsOurs, Asked
<1>19. ASSUME Close PROVE LeftoverExplained'
  <2>1. Len(out) = requested /\ requested = Asked
    BY <1>0, <1>19 DEF Close, Progress, AskedFor
  <2>2. Asked' = Asked
    BY <1>19 DEF Close, Asked
  <2> QED BY <1>19, <2>1, <2>2 DEF Close, LeftoverExplained
<1> QED BY <1>1, <1>2, <1>3, <1>4, <1>5, <1>6, <1>7, <1>8, <1>9, <1>10, <1>11,
           <1>12, <1>13, <1>14, <1>15, <1>16, <1>17, <1>18, <1>19
        DEF Next, Tool, Environment
-----------------------------------------------------------------------------
(* How far the call is, and what it has written.                           *)

(* One whole block further. *)
LEMMA WriteFacts ==
  ASSUME Inv, Write
  PROVE  /\ remaining > 0 /\ Len(block) = Amount /\ Amount \in 1..array.chunk
         /\ Amount <= remaining
         /\ block \in Seq(SUBSET Int) /\ out \in Seq(SUBSET Int)
         /\ Len(out') = Len(out) + Amount
         /\ remaining' = remaining - Amount
<1>1. /\ pc = "write" /\ remaining > 0 /\ remaining \in Int
      /\ block = LogicalChunk(array, source, chunkNo, Amount)
      /\ out \in Seq(SUBSET Int)
  BY DEF Inv, Progress, Write, TypeOK
<1>2. remaining # 0
  BY <1>1, SMT
<1>3. /\ block \in Seq(SUBSET Int) /\ Len(block) = Amount
      /\ Amount \in 1..array.chunk /\ Amount <= remaining
  BY <1>1, <1>2, ReadBlock
<1>4. Len(out') = Len(out) + Len(block)
  BY <1>1, <1>3, ConcatProperties DEF Write
<1> QED BY <1>1, <1>3, <1>4 DEF Write

(* Any part of a block fits between what is written and what was asked for. *)
LEMMA WriteFailsFacts ==
  ASSUME Inv, NEW taken \in 0..(Len(block) - 1), pc = "write"
  PROVE  LET more == SubSeq(block, 1, taken)
         IN  /\ taken \in Nat /\ taken < remaining /\ taken < Len(block)
             /\ more \in Seq(SUBSET Int) /\ Len(more) = taken
             /\ \A x \in 1..taken : more[x] = block[x] /\ x \in 1..Len(block)
             /\ out \o more \in Seq(SUBSET Int)
             /\ Len(out \o more) = Len(out) + taken
<1>1. /\ remaining > 0 /\ remaining \in Int
      /\ block = LogicalChunk(array, source, chunkNo, Amount)
      /\ out \in Seq(SUBSET Int) /\ block \in Seq(SUBSET Int)
  BY DEF Inv, Progress, TypeOK
<1>2. remaining # 0
  BY <1>1, SMT
<1>3. Len(block) = Amount /\ Amount <= remaining /\ Len(block) \in Nat
  BY <1>1, <1>2, ReadBlock, LenProperties
<1>4. taken \in Nat /\ taken < remaining /\ taken < Len(block)
  BY <1>1, <1>3, SMT
<1>5. \A i \in 1..taken : i \in 1..Len(block) /\ block[i] \in SUBSET Int
  BY <1>1, <1>3, <1>4, ElementOfSeq, SMT
<1>6. /\ SubSeq(block, 1, taken) \in Seq(SUBSET Int)
      /\ Len(SubSeq(block, 1, taken)) = taken
      /\ \A x \in 1..taken : SubSeq(block, 1, taken)[x] = block[x]
  BY <1>4, <1>5, SubSeqProperties, SMT
<1> QED BY <1>1, <1>4, <1>5, <1>6, ConcatProperties

(* The position of the loop agrees with what is at the output. *)
LEMMA ProgressStep == Inv /\ [Next]_vars => Progress'
<1> SUFFICES ASSUME Inv, [Next]_vars PROVE Progress'
  OBVIOUS
<1> USE DEF call, loop, env, fds, Final, Opened, Own, Refuse, Raise
<1>0. TypeOK /\ Progress /\ Maximum(array) \in Int
  BY ArrayFacts DEF Inv
<1>1. ASSUME Stat PROVE Progress'
  BY <1>0, <1>1 DEF Stat, Progress
<1>2. ASSUME OpenOutput PROVE Progress'
  BY <1>0, <1>2 DEF OpenOutput, Progress
<1>3. ASSUME OpenFails PROVE Progress'
  BY <1>0, <1>3 DEF OpenFails, Progress
<1>4. ASSUME Iter PROVE Progress'
  <2>1. requested \in Int
    BY <1>0 DEF TypeOK
  <2>2. ~(requested <= 0) => requested > 0
    BY <2>1, SMT
  <2>3. ~(requested > Maximum(array)) => requested <= Maximum(array)
    BY <1>0, <2>1, SMT
  <2> QED BY <1>0, <1>4, <2>2, <2>3 DEF Iter, Progress
<1>5. ASSUME OpenSource PROVE Progress'
  <2>1. requested \in Int /\ requested > 0 /\ out = <<>>
    BY <1>0, <1>5 DEF TypeOK, OpenSource, Progress
  <2>2. Len(out) = 0 /\ array.chunk \in Nat \ {0}
    BY <2>1, <1>0, ArrayFacts, EmptySeq
  <2>3. requested >= 0 /\ Len(out) + requested = requested /\ 0 = 0 * array.chunk
    BY <2>1, <2>2, SMT
  <2> QED BY <1>0, <1>5, <2>2, <2>3 DEF OpenSource, Progress
<1>6. ASSUME OpenSourceFails PROVE Progress'
  BY <1>0, <1>6 DEF OpenSourceFails, Progress
<1>7. ASSUME Read PROVE Progress'
  <2>1. remaining > 0 /\ Amount' = Amount
    BY <1>7, ReadBlock DEF Read, Amount
  <2> QED BY <1>0, <1>7, <2>1 DEF Read, Progress
<1>8. ASSUME ReadFails PROVE Progress'
  BY <1>0, <1>8 DEF ReadFails, Progress
<1>9. ASSUME Write PROVE Progress'
  <2>1. /\ remaining \in Int /\ Len(out) \in Nat /\ chunkNo \in Nat
        /\ requested \in Int /\ array.chunk \in Nat \ {0}
    BY <1>0, ArrayFacts, LenProperties DEF TypeOK
  <2>2. /\ Len(out) + remaining = requested /\ Len(out) = chunkNo * array.chunk
        /\ requested > 0 /\ requested <= Maximum(array)
    BY <1>0, <1>9 DEF Write, Progress
  <2> DEFINE m == Amount
             k == array.chunk
  <2>3. /\ Len(out') = Len(out) + m /\ remaining' = remaining - m
        /\ m \in 1..k /\ m <= remaining /\ (m < remaining => m = k)
    <3>1. remaining > 0
      BY <1>9, WriteFacts
    <3> QED BY <1>0, <1>9, <3>1, WriteFacts, AmountBounds
  <2>4. array' = array /\ pc' = "read" /\ requested' = requested
        /\ chunkNo' = chunkNo + 1
    BY <1>9 DEF Write
  <2> HIDE DEF m, k
  <2>5. remaining' >= 0 /\ Len(out') + remaining' = requested
    BY <2>1, <2>2, <2>3, SMT DEF k
  <2>6. remaining' > 0 => Len(out') = (chunkNo + 1) * k
    <3>1. SUFFICES ASSUME remaining' > 0 PROVE Len(out') = (chunkNo + 1) * k
      OBVIOUS
    <3>2. m = k
      BY <2>1, <2>3, <3>1, SMT DEF k
    <3>3. (chunkNo + 1) * k = chunkNo * k + k
      BY <2>1, SMT DEF k
    <3> QED BY <2>2, <2>3, <3>2, <3>3 DEF k
  <2> QED BY <2>2, <2>4, <2>5, <2>6 DEF Progress, k
<1>10. ASSUME WriteFails PROVE Progress'
  BY <1>0, <1>10 DEF WriteFails, Progress
<1>11. ASSUME Fsync PROVE Progress'
  <2>1. Len(out) = requested
    <3>1. Len(out) \in Nat /\ requested \in Int
      BY <1>0, LenProperties DEF TypeOK
    <3>2. Len(out) + 0 = requested
      BY <1>0, <1>11 DEF Fsync, Progress
    <3> QED BY <3>1, <3>2, SMT
  <2> QED BY <1>0, <1>11, <2>1 DEF Fsync, Progress
<1>12. ASSUME CleanUp PROVE Progress'
  BY <1>0, <1>12 DEF CleanUp, Progress
<1>13. ASSUME Abandon PROVE Progress'
  BY <1>0, <1>13 DEF Abandon, Progress
<1>14. ASSUME Rerun PROVE Progress'
  BY <1>0, <1>14 DEF Rerun, Progress
<1>15. ASSUME OtherCreates PROVE Progress'
  <2>1. Amount' = Amount
    BY <1>15 DEF OtherCreates, Amount
  <2> QED BY <1>0, <1>15, <2>1 DEF OtherCreates, Progress
<1>16. ASSUME RemoveImage PROVE Progress'
  <2>1. /\ Amount' = Amount
        /\ pc' = pc /\ requested' = requested /\ remaining' = remaining
        /\ chunkNo' = chunkNo /\ block' = block /\ array' = array
        /\ source' = source
    BY <1>16 DEF RemoveImage, Amount
  <2>2. CASE pc \in Opened
    <3>1. out' = out
      BY <1>16, <2>2 DEF RemoveImage
    <3> QED BY <1>0, <2>1, <3>1 DEF Progress
  <2>3. CASE pc \notin Opened
    BY <2>1, <2>3 DEF Progress, Opened
  <2> QED BY <2>2, <2>3
<1>17. ASSUME SwapNames PROVE Progress'
  <2>1. Amount' = Amount
    BY <1>17 DEF SwapNames, Amount
  <2> QED BY <1>0, <1>17, <2>1 DEF SwapNames, Progress
<1>18. ASSUME UNCHANGED vars PROVE Progress'
  <2>1. Amount' = Amount
    BY <1>18 DEF vars, Amount
  <2> QED BY <1>0, <1>18, <2>1 DEF vars, Progress
<1>19. ASSUME Close PROVE Progress'
  BY <1>0, <1>19 DEF Close, Progress
<1> QED BY <1>1, <1>2, <1>3, <1>4, <1>5, <1>6, <1>7, <1>8, <1>9, <1>10, <1>11,
           <1>12, <1>13, <1>14, <1>15, <1>16, <1>17, <1>18, <1>19
        DEF Next, Tool, Environment

(* A prefix of the volume followed by the bytes that come next is one. *)
LEMMA PrefixGrows ==
  ASSUME NEW s \in Seq(SUBSET Int), NEW t \in Seq(SUBSET Int),
         \A y \in 1..Len(s) : s[y] = LogicalByte(y),
         \A y \in 1..Len(t) : t[y] = LogicalByte(Len(s) + y),
         NEW x \in 1..(Len(s) + Len(t))
  PROVE  (s \o t)[x] = LogicalByte(x)
<1>1. Len(s) \in Nat /\ Len(t) \in Nat
  BY LenProperties
<1>2. (s \o t)[x] = IF x <= Len(s) THEN s[x] ELSE t[x - Len(s)]
  BY ConcatProperties
<1>3. CASE x <= Len(s)
  <2>1. x \in 1..Len(s)
    BY <1>1, <1>3, SMT
  <2> QED BY <1>2, <1>3, <2>1
<1>4. CASE ~(x <= Len(s))
  <2>1. x - Len(s) \in 1..Len(t) /\ Len(s) + (x - Len(s)) = x
    BY <1>1, <1>4, SMT
  <2> QED BY <1>2, <1>4, <2>1
<1> QED BY <1>3, <1>4

(* What is written is a prefix of the volume. *)
LEMMA PrefixStep == Inv /\ [Next]_vars => OutputIsPrefix'
<1> SUFFICES ASSUME Inv, [Next]_vars PROVE OutputIsPrefix'
  OBVIOUS
<1> USE DEF call, loop, env, fds, Final, Opened, Own, Refuse, Raise
<1>0. OutputIsPrefix /\ \A k : LogicalByte(k) = {k - 1}
  BY DEF Inv, LogicalByte
<1>1. ASSUME Stat PROVE OutputIsPrefix'
  BY <1>0, <1>1 DEF Stat, OutputIsPrefix, Genuine
<1>2. ASSUME OpenOutput PROVE OutputIsPrefix'
  <2>1. out' = out \/ out' = <<>>
    BY <1>2 DEF OpenOutput
  <2>2. out' = <<>> => OutputIsPrefix'
    BY EmptySeq, SMT DEF OutputIsPrefix
  <2>3. out' = out => OutputIsPrefix'
    BY <1>0, <1>2 DEF OpenOutput, OutputIsPrefix, Genuine
  <2> QED BY <2>1, <2>2, <2>3
<1>3. ASSUME OpenFails PROVE OutputIsPrefix'
  BY <1>0, <1>3 DEF OpenFails, OutputIsPrefix, Genuine
<1>4. ASSUME Iter PROVE OutputIsPrefix'
  BY <1>0, <1>4 DEF Iter, OutputIsPrefix, Genuine
<1>5. ASSUME OpenSource PROVE OutputIsPrefix'
  <2>1. out' = <<>>
    BY <1>5 DEF OpenSource, Inv, Progress
  <2> QED BY <2>1, EmptySeq, SMT DEF OutputIsPrefix
<1>6. ASSUME OpenSourceFails PROVE OutputIsPrefix'
  BY <1>0, <1>6 DEF OpenSourceFails, OutputIsPrefix, Genuine
<1>7. ASSUME Read PROVE OutputIsPrefix'
  BY <1>0, <1>7 DEF Read, OutputIsPrefix, Genuine
<1>8. ASSUME ReadFails PROVE OutputIsPrefix'
  BY <1>0, <1>8 DEF ReadFails, OutputIsPrefix, Genuine
<1>9. ASSUME Write PROVE OutputIsPrefix'
  <2>1. SUFFICES ASSUME Genuine', NEW x \in 1..Len(out') PROVE out'[x] = LogicalByte(x)
    BY DEF OutputIsPrefix
  <2>2. Genuine /\ \A y \in 1..Len(out) : out[y] = LogicalByte(y)
    BY <1>0, <1>9, <2>1 DEF Write, Genuine, OutputIsPrefix
  <2>3. /\ block \in Seq(SUBSET Int) /\ out \in Seq(SUBSET Int) /\ Len(block) = Amount
        /\ Len(out') = Len(out) + Len(block) /\ remaining > 0 /\ remaining \in Int
    BY <1>9, WriteFacts DEF Inv, TypeOK
  <2>4. \A y \in 1..Len(block) : block[y] = LogicalByte(Len(out) + y)
    <3>1. pc = "write" /\ block = LogicalChunk(array, source, chunkNo, Amount) /\ remaining # 0
      BY <1>9, <2>3, SMT DEF Write, Inv, Progress
    <3> QED BY <2>2, <2>3, <3>1, ReadBlock
  <2> QED BY <1>9, <2>2, <2>3, <2>4, PrefixGrows DEF Write
<1>10. ASSUME WriteFails PROVE OutputIsPrefix'
  <2>1. SUFFICES ASSUME Genuine', NEW x \in 1..Len(out') PROVE out'[x] = LogicalByte(x)
    BY DEF OutputIsPrefix
  <2>2. Genuine /\ \A y \in 1..Len(out) : out[y] = LogicalByte(y)
    BY <1>0, <1>10, <2>1 DEF WriteFails, Genuine, OutputIsPrefix
  <2>3. PICK taken \in 0..(Len(block) - 1) : out' = out \o SubSeq(block, 1, taken)
    BY <1>10 DEF WriteFails
  <2> DEFINE more == SubSeq(block, 1, taken)
  <2>4. /\ pc = "write" /\ block = LogicalChunk(array, source, chunkNo, Amount)
        /\ remaining # 0 /\ out \in Seq(SUBSET Int)
    <3>1. remaining \in Int /\ remaining > 0
      BY <1>10 DEF WriteFails, Inv, Progress, TypeOK
    <3> QED BY <1>10, <3>1, SMT DEF WriteFails, Inv, Progress, TypeOK
  <2>5. /\ more \in Seq(SUBSET Int) /\ Len(more) = taken
        /\ Len(out') = Len(out) + Len(more)
        /\ \A y \in 1..taken : more[y] = block[y] /\ y \in 1..Len(block)
    BY <2>3, <2>4, WriteFailsFacts
  <2>6. \A y \in 1..Len(block) : block[y] = LogicalByte(Len(out) + y)
    BY <2>2, <2>4, ReadBlock
  <2>7. \A y \in 1..Len(more) : more[y] = LogicalByte(Len(out) + y)
    BY <2>5, <2>6
  <2>8. out' = out \o more
    BY <2>3
  <2> HIDE DEF more
  <2> QED BY <2>2, <2>4, <2>5, <2>7, <2>8, PrefixGrows
<1>11. ASSUME Fsync PROVE OutputIsPrefix'
  BY <1>0, <1>11 DEF Fsync, OutputIsPrefix, Genuine
<1>12. ASSUME CleanUp PROVE OutputIsPrefix'
  <2>1. out' = out \/ out' = <<>>
    BY <1>12 DEF CleanUp
  <2>2. out' = <<>> => OutputIsPrefix'
    BY EmptySeq, SMT DEF OutputIsPrefix
  <2>3. out' = out => OutputIsPrefix'
    BY <1>0, <1>12 DEF CleanUp, OutputIsPrefix, Genuine
  <2> QED BY <2>1, <2>2, <2>3
<1>13. ASSUME Abandon PROVE OutputIsPrefix'
  BY <1>0, <1>13 DEF Abandon, OutputIsPrefix, Genuine
<1>14. ASSUME Rerun PROVE OutputIsPrefix'
  BY <1>0, <1>14 DEF Rerun, OutputIsPrefix, Genuine
<1>15. ASSUME OtherCreates PROVE OutputIsPrefix'
  BY <1>0, <1>15 DEF OtherCreates, OutputIsPrefix, Genuine
<1>16. ASSUME RemoveImage PROVE OutputIsPrefix'
  <2>1. out' = out \/ out' = <<>>
    BY <1>16 DEF RemoveImage
  <2>2. out' = <<>> => OutputIsPrefix'
    BY EmptySeq, SMT DEF OutputIsPrefix
  <2>3. out' = out => OutputIsPrefix'
    BY <1>0, <1>16 DEF RemoveImage, OutputIsPrefix, Genuine
  <2> QED BY <2>1, <2>2, <2>3
<1>17. ASSUME SwapNames PROVE OutputIsPrefix'
  BY <1>0, <1>17 DEF SwapNames, OutputIsPrefix, Genuine
<1>18. ASSUME UNCHANGED vars PROVE OutputIsPrefix'
  BY <1>0, <1>18 DEF vars, OutputIsPrefix, Genuine
<1>19. ASSUME Close PROVE OutputIsPrefix'
  BY <1>0, <1>19 DEF Close, OutputIsPrefix, Genuine
<1> QED BY <1>1, <1>2, <1>3, <1>4, <1>5, <1>6, <1>7, <1>8, <1>9, <1>10, <1>11,
           <1>12, <1>13, <1>14, <1>15, <1>16, <1>17, <1>18, <1>19
        DEF Next, Tool, Environment
(* A call that is done has written what it was asked for. *)
LEMMA DoneStep == Inv /\ [Next]_vars => DoneIsComplete'
<1> SUFFICES ASSUME Inv, [Next]_vars PROVE DoneIsComplete'
  OBVIOUS
<1> USE DEF call, loop, env, fds, Final, Opened, Own, Refuse, Raise
<1>0. DoneIsComplete /\ Progress /\ AskedFor
  BY DEF Inv
<1>1. ASSUME Stat PROVE DoneIsComplete'
  BY <1>0, <1>1 DEF Stat, DoneIsComplete, Asked
<1>2. ASSUME OpenOutput PROVE DoneIsComplete'
  BY <1>0, <1>2 DEF OpenOutput, DoneIsComplete, Asked
<1>3. ASSUME OpenFails PROVE DoneIsComplete'
  BY <1>0, <1>3 DEF OpenFails, DoneIsComplete, Asked
<1>4. ASSUME Iter PROVE DoneIsComplete'
  BY <1>0, <1>4 DEF Iter, DoneIsComplete, Asked
<1>5. ASSUME OpenSource PROVE DoneIsComplete'
  BY <1>0, <1>5 DEF OpenSource, DoneIsComplete, Asked
<1>6. ASSUME OpenSourceFails PROVE DoneIsComplete'
  BY <1>0, <1>6 DEF OpenSourceFails, DoneIsComplete, Asked
<1>7. ASSUME Read PROVE DoneIsComplete'
  BY <1>0, <1>7 DEF Read, DoneIsComplete, Asked
<1>8. ASSUME ReadFails PROVE DoneIsComplete'
  BY <1>0, <1>8 DEF ReadFails, DoneIsComplete, Asked
<1>9. ASSUME Write PROVE DoneIsComplete'
  BY <1>0, <1>9 DEF Write, DoneIsComplete, Asked
<1>10. ASSUME WriteFails PROVE DoneIsComplete'
  BY <1>0, <1>10 DEF WriteFails, DoneIsComplete, Asked
<1>11. ASSUME Fsync PROVE DoneIsComplete'
  BY <1>0, <1>11 DEF Fsync, DoneIsComplete, Asked
<1>12. ASSUME CleanUp PROVE DoneIsComplete'
  BY <1>0, <1>12 DEF CleanUp, DoneIsComplete, Asked
<1>13. ASSUME Abandon PROVE DoneIsComplete'
  BY <1>0, <1>13 DEF Abandon, DoneIsComplete, Asked
<1>14. ASSUME Rerun PROVE DoneIsComplete'
  BY <1>0, <1>14 DEF Rerun, DoneIsComplete, Asked
<1>15. ASSUME OtherCreates PROVE DoneIsComplete'
  BY <1>0, <1>15 DEF OtherCreates, DoneIsComplete, Asked
<1>16. ASSUME RemoveImage PROVE DoneIsComplete'
  BY <1>0, <1>16 DEF RemoveImage, DoneIsComplete, Asked
<1>17. ASSUME SwapNames PROVE DoneIsComplete'
  BY <1>0, <1>17 DEF SwapNames, DoneIsComplete, Asked
<1>18. ASSUME UNCHANGED vars PROVE DoneIsComplete'
  BY <1>0, <1>18 DEF vars, DoneIsComplete, Asked
<1>19. ASSUME Close PROVE DoneIsComplete'
  <2>1. /\ requested > 0 /\ requested <= Maximum(array)
        /\ Len(out) = requested /\ requested = Asked
    BY <1>0, <1>19 DEF Close, Progress, AskedFor
  <2>2. Asked' = Asked
    BY <1>19 DEF Close, Asked
  <2> QED BY <1>19, <2>1, <2>2 DEF Close, DoneIsComplete
<1> QED BY <1>1, <1>2, <1>3, <1>4, <1>5, <1>6, <1>7, <1>8, <1>9, <1>10, <1>11,
           <1>12, <1>13, <1>14, <1>15, <1>16, <1>17, <1>18, <1>19
        DEF Next, Tool, Environment

(* Whole members are not read short. *)
LEMMA ShortStep == Inv /\ [Next]_vars => WholeChunksNeverShort'
<1> SUFFICES ASSUME Inv, [Next]_vars PROVE WholeChunksNeverShort'
  OBVIOUS
<1> USE DEF call, loop, env, fds, Final, Opened, Own, Refuse, Raise
<1>0. WholeChunksNeverShort /\ NoErrorYet
  BY DEF Inv
<1>1. ASSUME Stat PROVE WholeChunksNeverShort'
  BY <1>0, <1>1 DEF Stat, WholeChunksNeverShort, Genuine, WholeChunks, NoErrorYet
<1>2. ASSUME OpenOutput PROVE WholeChunksNeverShort'
  BY <1>0, <1>2 DEF OpenOutput, WholeChunksNeverShort, Genuine, WholeChunks, NoErrorYet
<1>3. ASSUME OpenFails PROVE WholeChunksNeverShort'
  BY <1>0, <1>3 DEF OpenFails, WholeChunksNeverShort, Genuine, WholeChunks, NoErrorYet
<1>4. ASSUME Iter PROVE WholeChunksNeverShort'
  BY <1>0, <1>4 DEF Iter, WholeChunksNeverShort, Genuine, WholeChunks, NoErrorYet
<1>5. ASSUME OpenSource PROVE WholeChunksNeverShort'
  BY <1>0, <1>5 DEF OpenSource, WholeChunksNeverShort, Genuine, WholeChunks, NoErrorYet
<1>6. ASSUME OpenSourceFails PROVE WholeChunksNeverShort'
  BY <1>0, <1>6 DEF OpenSourceFails, WholeChunksNeverShort, Genuine, WholeChunks, NoErrorYet
<1>7. ASSUME Read PROVE WholeChunksNeverShort'
  BY <1>0, <1>7 DEF Read, WholeChunksNeverShort, Genuine, WholeChunks, NoErrorYet
<1>8. ASSUME ReadFails PROVE WholeChunksNeverShort'
  <2>1. SUFFICES ASSUME Genuine, WholeChunks PROVE error' # "short"
    BY <1>8 DEF ReadFails, WholeChunksNeverShort, Genuine, WholeChunks
  <2>2. /\ pc = "read" /\ remaining # 0 /\ TypeOK /\ Progress
        /\ requested \in Int /\ chunkNo \in Nat /\ remaining \in Int
        /\ Maximum(array) \in Int /\ IsArray(array)
    BY <1>8, ArrayFacts DEF ReadFails, Inv, TypeOK
  <2>3. /\ remaining > 0 /\ Amount \in 1..array.chunk /\ Amount <= remaining
    BY <2>2, ReadBlock
  <2>4. /\ Len(out) + remaining = requested /\ Len(out) = chunkNo * array.chunk
        /\ requested <= Maximum(array)
    BY <2>2, <2>3 DEF Progress
  <2>5. chunkNo * array.chunk + Amount <= Maximum(array)
    <3> DEFINE m == Amount
               k == array.chunk
    <3>1. k \in Nat /\ m \in 1..k /\ m <= remaining
      BY <2>2, <2>3 DEF IsArray
    <3>2. chunkNo * k \in Int /\ Len(out) = chunkNo * k
      BY <2>2, <2>4, <3>1, SMT
    <3> HIDE DEF m, k
    <3>3. chunkNo * k + m <= Maximum(array)
      BY <2>2, <2>4, <3>1, <3>2, SMT
    <3> QED BY <3>3 DEF m, k
  <2>6. ChunkReadable(array, source, chunkNo, Amount)
    BY <2>1, <2>2, <2>3, <2>5, WholeChunksReadable DEF Genuine, WholeChunks
  <2> QED BY <1>8, <2>6 DEF ReadFails
<1>9. ASSUME Write PROVE WholeChunksNeverShort'
  BY <1>0, <1>9 DEF Write, WholeChunksNeverShort, Genuine, WholeChunks, NoErrorYet
<1>10. ASSUME WriteFails PROVE WholeChunksNeverShort'
  BY <1>0, <1>10 DEF WriteFails, WholeChunksNeverShort, Genuine, WholeChunks, NoErrorYet
<1>11. ASSUME Fsync PROVE WholeChunksNeverShort'
  BY <1>0, <1>11 DEF Fsync, WholeChunksNeverShort, Genuine, WholeChunks, NoErrorYet
<1>12. ASSUME CleanUp PROVE WholeChunksNeverShort'
  BY <1>0, <1>12 DEF CleanUp, WholeChunksNeverShort, Genuine, WholeChunks, NoErrorYet
<1>13. ASSUME Abandon PROVE WholeChunksNeverShort'
  BY <1>0, <1>13 DEF Abandon, WholeChunksNeverShort, Genuine, WholeChunks, NoErrorYet
<1>14. ASSUME Rerun PROVE WholeChunksNeverShort'
  BY <1>0, <1>14 DEF Rerun, WholeChunksNeverShort, Genuine, WholeChunks, NoErrorYet
<1>15. ASSUME OtherCreates PROVE WholeChunksNeverShort'
  BY <1>0, <1>15 DEF OtherCreates, WholeChunksNeverShort, Genuine, WholeChunks, NoErrorYet
<1>16. ASSUME RemoveImage PROVE WholeChunksNeverShort'
  BY <1>0, <1>16 DEF RemoveImage, WholeChunksNeverShort, Genuine, WholeChunks, NoErrorYet
<1>17. ASSUME SwapNames PROVE WholeChunksNeverShort'
  BY <1>0, <1>17 DEF SwapNames, WholeChunksNeverShort, Genuine, WholeChunks, NoErrorYet
<1>18. ASSUME UNCHANGED vars PROVE WholeChunksNeverShort'
  BY <1>0, <1>18 DEF vars, WholeChunksNeverShort, Genuine, WholeChunks, NoErrorYet
<1>19. ASSUME Close PROVE WholeChunksNeverShort'
  BY <1>0, <1>19 DEF Close, WholeChunksNeverShort, Genuine, WholeChunks, NoErrorYet
<1> QED BY <1>1, <1>2, <1>3, <1>4, <1>5, <1>6, <1>7, <1>8, <1>9, <1>10, <1>11,
           <1>12, <1>13, <1>14, <1>15, <1>16, <1>17, <1>18, <1>19
        DEF Next, Tool, Environment

-----------------------------------------------------------------------------
(* The invariant and what follows from it.                                 *)

LEMMA InvInit == Init => Inv
<1> SUFFICES ASSUME Init PROVE Inv
  OBVIOUS
<1>1. TypeOK
  BY TypeInit
<1>2. Len(out) = 0 /\ out = <<>>
  BY EmptySeq DEF Init
<1>3. OutputIsPrefix
  BY <1>2, SMT DEF OutputIsPrefix
<1>4. /\ OutputIsOurs /\ AskedFor /\ NoErrorYet /\ Progress
      /\ DoneIsComplete /\ LeftoverExplained /\ WholeChunksNeverShort
  BY DEF Init, OutputIsOurs, AskedFor, NoErrorYet, Progress, DoneIsComplete,
         LeftoverExplained, WholeChunksNeverShort, Opened
<1> QED BY <1>1, <1>3, <1>4 DEF Inv

LEMMA InvStep == Inv /\ [Next]_vars => Inv'
BY TypeStep, OutputStep, AskedStep, ErrorStep, ProgressStep, PrefixStep, DoneStep,
   ImageStep, ShortStep DEF Inv

(* The whole invariant holds. *)
THEOREM Invariance == Spec => []Inv
<1>1. Init => Inv
  BY InvInit
<1>2. Inv /\ [Next]_vars => Inv'
  BY InvStep
<1> QED BY <1>1, <1>2, PTL DEF Spec

(* Every variable keeps the type of what it models. *)
THEOREM TypeCorrect == Spec => []TypeOK
<1>1. Inv => TypeOK
  BY DEF Inv
<1> QED BY <1>1, Invariance, PTL

(* Whatever the level, the members supplied, the interruptions and the     *)
(* earlier calls: every byte at the output is the volume's byte there, as  *)
(* long as the sources were opened on the members they are taken for.      *)
THEOREM OutputCorrect == Spec => []OutputIsPrefix
<1>1. Inv => OutputIsPrefix
  BY DEF Inv
<1> QED BY <1>1, Invariance, PTL

(* A call returns only with the number of bytes it was asked for. *)
THEOREM DoneCorrect == Spec => []DoneIsComplete
<1>1. Inv => DoneIsComplete
  BY DEF Inv
<1> QED BY <1>1, Invariance, PTL

(* An image after a call that raised is an earlier one, a whole one, or one *)
(* that the clean-up could not remove and said so.                         *)
THEOREM LeftoverCorrect == Spec => []LeftoverExplained
<1>1. Inv => LeftoverExplained
  BY DEF Inv
<1> QED BY <1>1, Invariance, PTL

(* Members captured in whole chunks are never read past their end. *)
THEOREM ShortReadCorrect == Spec => []WholeChunksNeverShort
<1>1. Inv => WholeChunksNeverShort
  BY DEF Inv
<1> QED BY <1>1, Invariance, PTL

-----------------------------------------------------------------------------
(* What no step does.                                                      *)

(* No call writes or removes what it did not create, unless it took the    *)
(* place of what the call created.                                         *)
THEOREM ExistingKept == Spec => ExistingOutputKept
<1>1. ASSUME Inv, Tool, LeftAlone PROVE UNCHANGED <<path, out>>
  <2>1. OutputIsOurs
    BY <1>1 DEF Inv
  <2>2. pc \notin Opened
    BY <1>1, <2>1 DEF OutputIsOurs, LeftAlone, Displaced, Opened, Final
  <2>3. ~OpenOutput
    BY <1>1, <2>1 DEF OpenOutput, OutputIsOurs, LeftAlone, Final
  <2>4. CASE Stat \/ OpenFails
    BY <2>4 DEF Stat, OpenFails
  <2> QED BY <1>1, <2>2, <2>3, <2>4
       DEF Tool, Opened, Iter, OpenSource, OpenSourceFails, Read, ReadFails, Write,
           WriteFails, Fsync, Close, CleanUp
<1>2. Inv => [LeftAlone /\ Tool => UNCHANGED <<path, out>>]_vars
  BY <1>1
<1> QED BY <1>2, Invariance, PTL DEF ExistingOutputKept

(* No byte goes to a block device without approval, or past its end. *)
THEOREM BlockWritesSafe == Spec => BlockWritesApproved
<1> DEFINE Approved ==
      path = "block" /\ out' # out
        => allow /\ existing = "block" /\ Len(out') <= DeviceSize
<1>1. Inv /\ [Next]_vars => [Approved]_vars
  <2> SUFFICES ASSUME Inv, Next, path = "block", out' # out
               PROVE  allow /\ existing = "block" /\ Len(out') <= DeviceSize
    OBVIOUS
  <2>0. /\ TypeOK /\ OutputIsOurs /\ Progress /\ DeviceSize \in Nat
        /\ requested \in Int /\ remaining \in Int
    BY ReconstructAssumption DEF Inv, TypeOK
  <2>1. CASE OpenOutput
    <3>1. existing = "block" /\ allow /\ out' = <<>>
      BY <2>0, <2>1 DEF OpenOutput, OutputIsOurs
    <3>2. Len(out') = 0
      BY <3>1, EmptySeq
    <3> QED BY <2>0, <3>1, <3>2, SMT
  <2>2. CASE Write
    <3>1. existing = "block" /\ allow /\ requested <= DeviceSize
      BY <2>0, <2>2 DEF Write, OutputIsOurs, Opened
    <3>2. Len(out) + remaining = requested
      BY <2>0, <2>2 DEF Write, Progress
    <3>3. Amount <= remaining /\ Len(out') = Len(out) + Amount /\ Len(out) \in Nat
      BY <2>2, WriteFacts, LenProperties
    <3>4. Amount \in Int
      <4>1. Amount \in 1..array.chunk /\ array.chunk \in Nat
        BY <2>0, <2>2, WriteFacts, ArrayFacts
      <4> HIDE DEF Amount
      <4> QED BY <4>1, SMT
    <3> QED BY <2>0, <3>1, <3>2, <3>3, <3>4, SMT
  <2>3. CASE WriteFails
    <3>1. existing = "block" /\ allow /\ requested <= DeviceSize
      BY <2>0, <2>3 DEF WriteFails, OutputIsOurs, Opened
    <3>2. Len(out) + remaining = requested
      BY <2>0, <2>3 DEF WriteFails, Progress
    <3>3. PICK taken \in 0..(Len(block) - 1) : out' = out \o SubSeq(block, 1, taken)
      BY <2>3 DEF WriteFails
    <3>4. taken \in Nat /\ taken < remaining /\ Len(out') = Len(out) + taken
      BY <2>3, <3>3, WriteFailsFacts DEF WriteFails
    <3>5. Len(out) \in Nat
      BY <2>0, LenProperties DEF TypeOK
    <3> QED BY <2>0, <3>1, <3>2, <3>4, <3>5, SMT
  <2>4. CASE CleanUp
    <3>1. existing = "block"
      BY <2>0, <2>4 DEF CleanUp, OutputIsOurs, Opened
    <3> QED BY <2>4, <3>1 DEF CleanUp
  <2>5. CASE RemoveImage
    BY <2>5 DEF RemoveImage
  <2> QED BY <2>1, <2>2, <2>3, <2>4, <2>5
       DEF Next, Tool, Environment, Stat, OpenFails, Iter, OpenSource, OpenSourceFails,
           Read, ReadFails, Fsync, Close, Abandon, Rerun, OtherCreates, SwapNames
<1> QED BY <1>1, Invariance, PTL DEF Spec, BlockWritesApproved
-----------------------------------------------------------------------------
(* The steps a call has left.                                              *)

LEMMA PiecesType ==
  ASSUME NEW bytes \in Int, NEW chunk \in Nat \ {0}
  PROVE  Pieces(bytes, chunk) \in Nat
<1>1. CASE bytes <= 0
  BY <1>1 DEF Pieces
<1>2. CASE bytes > 0
  <2>1. bytes + chunk - 1 \in Nat
    BY <1>2
  <2>2. (bytes + chunk - 1) \div chunk \in Nat
    BY <2>1, DivNat
  <2> QED BY <1>2, <2>2 DEF Pieces
<1> QED BY <1>1, <1>2

(* A block taken off is a piece taken off: a whole one, or what is left.   *)
LEMMA OnePieceLess ==
  ASSUME NEW bytes \in Nat \ {0}, NEW chunk \in Nat \ {0},
         NEW amount \in 1..chunk, amount <= bytes,
         amount < bytes => amount = chunk
  PROVE  Pieces(bytes, chunk) = Pieces(bytes - amount, chunk) + 1
<1>1. CASE amount = bytes
  <2>1. bytes - 1 \in 0..(chunk - 1) /\ 1 * chunk + (bytes - 1) = bytes + chunk - 1
    BY <1>1
  <2>2. (bytes + chunk - 1) \div chunk = 1
    BY <2>1, DivModUnique
  <2> QED BY <1>1, <2>2 DEF Pieces
<1>2. CASE amount = chunk /\ amount < bytes
  <2> DEFINE q == (bytes - 1) \div chunk
             r == (bytes - 1) % chunk
  <2>1. q \in Int /\ r \in 0..(chunk - 1) /\ bytes - 1 = q * chunk + r
    BY DivMod
  <2> HIDE DEF q, r
  <2>2. (q + 1) * chunk = q * chunk + chunk /\ q * chunk \in Int
    BY <2>1
  <2>3. bytes + chunk - 1 = (q + 1) * chunk + r
    BY <2>1, <2>2
  <2>4. (bytes + chunk - 1) \div chunk = q + 1
    BY <2>1, <2>3, DivModUnique
  <2>5. ((bytes - amount) + chunk - 1) \div chunk = q
    <3>1. (bytes - amount) + chunk - 1 = q * chunk + r
      BY <1>2, <2>1, <2>2
    <3> QED BY <2>1, <3>1, DivModUnique
  <2> QED BY <1>2, <2>4, <2>5 DEF Pieces
<1> QED BY <1>1, <1>2

(* The chunks still to come, at whatever statement the call is. *)
LEMMA PiecesFacts ==
  ASSUME TypeOK
  PROVE  /\ Pieces(Asked, array.chunk) \in Nat
         /\ Pieces(requested, array.chunk) \in Nat
         /\ Pieces(remaining, array.chunk) \in Nat
<1>1. Asked \in Int /\ requested \in Int /\ remaining \in Int
  BY AskedType DEF TypeOK
<1> QED BY <1>1, ArrayFacts, PiecesType

LEMMA WriteTakesPiece ==
  ASSUME Inv, Write
  PROVE  Pieces(remaining, array.chunk) = Pieces(remaining', array.chunk) + 1
<1>1. TypeOK /\ remaining > 0 /\ remaining' = remaining - Amount
  BY WriteFacts DEF Inv
<1>2. /\ Amount \in 1..array.chunk /\ Amount <= remaining
      /\ Amount < remaining => Amount = array.chunk
  BY <1>1, AmountBounds
<1>3. remaining \in Nat \ {0} /\ array.chunk \in Nat \ {0}
  BY <1>1, ArrayFacts DEF TypeOK
<1> HIDE DEF Amount
<1> QED BY <1>1, <1>2, <1>3, OnePieceLess

(* Opening a member leaves one fewer to open. *)
LEMMA ToOpenFacts ==
  ASSUME TypeOK
  PROVE  /\ ToOpen \in Nat
         /\ \A i \in Members(array) \ opened :
              /\ ToOpen >= 1
              /\ Cardinality(Members(array) \ (opened \cup {i})) = ToOpen - 1
<1> DEFINE S == Members(array) \ opened
<1>1. IsFiniteSet(S)
  <2>1. Members(array) \in SUBSET (0..(array.count - 1)) /\ array.count \in Int
    BY ArrayFacts, SupportedShape DEF IsArray
  <2>2. IsFiniteSet(0..(array.count - 1))
    BY <2>1, FS_Interval
  <2>3. S \subseteq 0..(array.count - 1)
    BY <2>1
  <2> HIDE DEF S
  <2> QED BY <2>2, <2>3, FS_Subset
<1>2. ToOpen \in Nat
  BY <1>1, FS_CardinalityType DEF ToOpen
<1>3. ASSUME NEW i \in S
      PROVE  ToOpen >= 1 /\ Cardinality(Members(array) \ (opened \cup {i})) = ToOpen - 1
  <2>1. Members(array) \ (opened \cup {i}) = S \ {i}
    OBVIOUS
  <2> HIDE DEF S
  <2>2. Cardinality(S \ {i}) = Cardinality(S) - 1 /\ IsFiniteSet(S \ {i})
    BY <1>1, <1>3, FS_RemoveElement
  <2>3. Cardinality(S) \in Nat /\ Cardinality(S \ {i}) \in Nat
    BY <1>1, <2>2, FS_CardinalityType
  <2>4. ToOpen = Cardinality(S)
    BY DEF ToOpen, S
  <2> QED BY <2>1, <2>2, <2>3, <2>4
<1> QED BY <1>2, <1>3

LEMMA ToolAdvances ==
  ASSUME Inv, Tool
  PROVE  StepsLeft' \in 0..(StepsLeft - 1)
<1> DEFINE k    == array.chunk
           all  == Pieces(Asked, k)
           some == Pieces(requested, k)
           rest == Pieces(remaining, k)
<1>0. TypeOK /\ Inv'
  BY InvStep DEF Inv, Next
<1>1. array' = array /\ Asked' = Asked
  BY DEF Tool, Stat, OpenOutput, OpenFails, Iter, OpenSource, OpenSourceFails, Read,
         ReadFails, Write, WriteFails, Fsync, Close, CleanUp, call, Asked
<1>2. all \in Nat /\ some \in Nat /\ rest \in Nat
  BY <1>0, PiecesFacts
<1>13. ToOpen \in Nat
  BY <1>0, ToOpenFacts
<1>14. opened' = opened => ToOpen' = ToOpen
  BY <1>1 DEF ToOpen
<1>3. pc' \in {"failed", "done"} => StepsLeft' = 0
  BY DEF StepsLeft
<1>4. pc' \in {"close", "cleanup"} => StepsLeft' = 1
  BY DEF StepsLeft
<1>5. CASE Stat
  <2>1. StepsLeft = 2 * all + ToOpen + 5
    BY <1>5 DEF Stat, StepsLeft
  <2>2. CASE pc' = "failed"
    BY <1>2, <1>3, <1>13, <2>1, <2>2
  <2>3. CASE pc' = "open" /\ requested' = Asked /\ opened' = opened
    <3>1. StepsLeft' = 2 * all + ToOpen + 4
      BY <1>1, <1>14, <2>3 DEF StepsLeft
    <3> HIDE DEF all, ToOpen
    <3> QED BY <1>2, <1>13, <2>1, <3>1
  <2> QED BY <1>5, <2>2, <2>3 DEF Stat, Refuse, fds
<1>6. CASE OpenOutput \/ OpenFails
  <2>1. StepsLeft = 2 * some + ToOpen + 4
    BY <1>6 DEF OpenOutput, OpenFails, StepsLeft
  <2>2. CASE pc' = "failed"
    BY <1>2, <1>3, <1>13, <2>1, <2>2
  <2>3. CASE pc' = "iter" /\ requested' = requested /\ opened' = opened
    <3>1. StepsLeft' = 2 * some + ToOpen + 3
      BY <1>1, <1>14, <2>3 DEF StepsLeft
    <3> HIDE DEF some, ToOpen
    <3> QED BY <1>2, <1>13, <2>1, <3>1
  <2> QED BY <1>6, <2>2, <2>3 DEF OpenOutput, OpenFails, Refuse, loop, fds
<1>7. CASE Iter
  <2>1. StepsLeft = 2 * some + ToOpen + 3
    BY <1>7 DEF Iter, StepsLeft
  <2>2. CASE pc' = "cleanup"
    BY <1>2, <1>4, <1>13, <2>1, <2>2
  <2>3. CASE pc' = "sources" /\ requested' = requested /\ opened' = opened
    <3>1. StepsLeft' = 2 * some + ToOpen + 2
      BY <1>1, <1>14, <2>3 DEF StepsLeft
    <3> HIDE DEF some, ToOpen
    <3> QED BY <1>2, <1>13, <2>1, <3>1
  <2> QED BY <1>7, <2>2, <2>3 DEF Iter, Raise, loop, fds
<1>8. CASE OpenSource \/ OpenSourceFails
  <2>1. StepsLeft = 2 * some + ToOpen + 2
    BY <1>8 DEF OpenSource, OpenSourceFails, StepsLeft
  <2>2. CASE pc' = "cleanup"
    BY <1>2, <1>4, <1>13, <2>1, <2>2
  <2>4. CASE pc' = "sources" /\ requested' = requested /\ OpenSource
    <3>1. PICK i \in Members(array) \ opened : opened' = opened \cup {i}
      BY <2>4, <1>8 DEF OpenSource
    <3>2. /\ ToOpen >= 1
          /\ Cardinality(Members(array) \ (opened \cup {i})) = ToOpen - 1
      BY <1>0, <3>1, ToOpenFacts
    <3>3. ToOpen' = ToOpen - 1
      BY <1>1, <3>1, <3>2 DEF ToOpen
    <3>4. StepsLeft' = 2 * some + (ToOpen - 1) + 2
      BY <1>1, <2>4, <3>3 DEF StepsLeft
    <3> HIDE DEF some, ToOpen
    <3> QED BY <1>2, <1>13, <2>1, <3>2, <3>4
  <2>3. CASE pc' = "read" /\ remaining' = requested /\ OpenSource
    <3>2. ToOpen >= 1
      <4>1. PICK i \in Members(array) \ opened : TRUE
        BY <2>3 DEF OpenSource
      <4> QED BY <1>0, <4>1, ToOpenFacts
    <3>1. StepsLeft' = 2 * some + 2
      BY <1>1, <2>3 DEF StepsLeft
    <3> HIDE DEF some, ToOpen
    <3> QED BY <1>2, <1>13, <2>1, <3>1, <3>2
  <2> QED BY <1>8, <2>2, <2>3, <2>4 DEF OpenSource, OpenSourceFails, Raise
<1>9. CASE Read \/ ReadFails \/ Fsync
  <2>1. StepsLeft = 2 * rest + 2
    BY <1>9 DEF Read, ReadFails, Fsync, StepsLeft
  <2>2. CASE pc' \in {"close", "cleanup"}
    BY <1>2, <1>3, <1>4, <2>1, <2>2
  <2>3. CASE pc' = "write" /\ remaining' = remaining
    <3>1. StepsLeft' = 2 * rest + 1
      BY <1>1, <1>14, <2>3 DEF StepsLeft
    <3> HIDE DEF rest
    <3> QED BY <1>2, <1>13, <2>1, <3>1
  <2> QED BY <1>9, <2>2, <2>3 DEF Read, ReadFails, Fsync, Raise
<1>10. CASE Write
  <2>1. StepsLeft = 2 * rest + 1
    BY <1>10 DEF Write, StepsLeft
  <2>2. StepsLeft' = 2 * Pieces(remaining', k) + 2
    BY <1>1, <1>10 DEF Write, StepsLeft
  <2>3. rest = Pieces(remaining', k) + 1
    BY <1>10, WriteTakesPiece
  <2>4. Pieces(remaining', k) \in Nat
    <3>1. remaining' \in Int
      BY <1>0 DEF Inv, TypeOK
    <3>2. k \in Nat \ {0}
      BY <1>0, ArrayFacts
    <3> QED BY <3>1, <3>2, PiecesType
  <2> QED BY <2>1, <2>2, <2>3, <2>4
<1>11. CASE WriteFails
  <2>1. StepsLeft = 2 * rest + 1
    BY <1>11 DEF WriteFails, StepsLeft
  <2>2. rest >= 1
    <3>1. remaining \in Nat \ {0} /\ k \in Nat \ {0}
      BY <1>0, <1>11, ArrayFacts DEF Inv, Progress, WriteFails, TypeOK
    <3>2. /\ Amount \in 1..k /\ Amount <= remaining
          /\ Amount < remaining => Amount = k
      BY <1>0, <3>1, AmountBounds
    <3> HIDE DEF Amount, k
    <3>3. Pieces(remaining, k) = Pieces(remaining - Amount, k) + 1
      BY <3>1, <3>2, OnePieceLess
    <3>4. Pieces(remaining - Amount, k) \in Nat
      BY <3>1, <3>2, PiecesType
    <3> QED BY <3>3, <3>4
  <2> HIDE DEF rest
  <2> QED BY <1>2, <1>4, <1>11, <2>1, <2>2 DEF WriteFails, Raise
<1>12. CASE Close \/ CleanUp
  <2>1. StepsLeft = 1
    BY <1>12 DEF Close, CleanUp, StepsLeft
  <2> QED BY <1>3, <1>12, <2>1 DEF Close, CleanUp, Refuse
<1> QED BY <1>5, <1>6, <1>7, <1>8, <1>9, <1>10, <1>11, <1>12 DEF Tool

(* Termination without the fairness: every statement of the call, failed   *)
(* or not, brings it nearer to its end, and nobody else keeps it from it.  *)
THEOREM CallsAdvance == Spec => CallAdvances
<1> DEFINE Advance == /\ Tool => StepsLeft' \in 0..(StepsLeft - 1)
                      /\ StepsLeft' > StepsLeft => Rerun
<1>1. Inv /\ [Next]_vars => [Advance]_vars
  <2> SUFFICES ASSUME Inv, Next PROVE Advance
    OBVIOUS
  <2>1. StepsLeft \in Nat
    <3>1. TypeOK
      BY DEF Inv
    <3> QED BY <3>1, PiecesFacts, ToOpenFacts DEF StepsLeft
  <2>2. CASE Tool
    <3>1. StepsLeft' \in 0..(StepsLeft - 1)
      BY <2>2, ToolAdvances
    <3>2. ~(StepsLeft' > StepsLeft)
      BY <2>1, <3>1
    <3> QED BY <3>1, <3>2
  <2>3. CASE ~Tool /\ Abandon
    <3>1. StepsLeft' = 0
      BY <2>3 DEF Abandon, StepsLeft
    <3> QED BY <2>1, <2>3, <3>1
  <2>4. CASE ~Tool /\ Rerun
    BY <2>4
  <2>5. CASE ~Tool /\ (OtherCreates \/ RemoveImage \/ SwapNames)
    <3>1. /\ array' = array /\ length' = length /\ pc' = pc
          /\ requested' = requested /\ remaining' = remaining
          /\ opened' = opened
      BY <2>5 DEF OtherCreates, RemoveImage, SwapNames, call, loop, fds
    <3>2. StepsLeft' = StepsLeft
      BY <3>1 DEF StepsLeft, Asked, ToOpen
    <3> QED BY <2>1, <2>5, <3>2
  <2> QED BY <2>2, <2>3, <2>4, <2>5 DEF Next, Environment
<1> QED BY <1>1, Invariance, PTL DEF Spec, CallAdvances
-----------------------------------------------------------------------------
(* The call implements the recovery its caller sees.                       *)

goalOf == requested
imageOf == out
verdictOf == IF pc \in Final THEN pc
             ELSE IF pc \in {"stat", "open"} THEN "checking" ELSE "running"
stableOf == swaps = 0

(* As long as no names were exchanged, each leads to its own member. *)
Named == swaps = 0 => behind = [i \in Members(array) |-> i] /\ Genuine

LEMMA NamedInit == Init => Named
BY DEF Init, Named, Genuine

LEMMA NamedStep == swaps \in Nat /\ Named /\ [Next]_vars => Named'
<1> SUFFICES ASSUME swaps \in Nat, Named, [Next]_vars PROVE Named'
  OBVIOUS
<1> USE DEF Named, Genuine, call, loop, env, fds
<1>1. CASE OpenSource
  <2>1. /\ array' = array /\ behind' = behind /\ swaps' = swaps
        /\ \E i \in Members(array) : source' = [source EXCEPT ![i] = behind[i]]
    BY <1>1 DEF OpenSource
  <2>2. SUFFICES ASSUME swaps = 0 PROVE Genuine'
    BY <2>1
  <2> QED BY <2>1, <2>2
<1>2. CASE SwapNames
  <2>1. swaps' = swaps + 1
    BY <1>2 DEF SwapNames
  <2>2. swaps' # 0
    BY <2>1, SMT
  <2> QED BY <2>2
<1>3. CASE UNCHANGED vars
  BY <1>3 DEF vars
<1> QED BY <1>1, <1>2, <1>3
     DEF Next, Tool, Environment, Stat, OpenOutput, OpenFails, Iter, OpenSourceFails,
         Read, ReadFails, Write, WriteFails, Fsync, Close, CleanUp, Abandon, Rerun,
         OtherCreates, RemoveImage

(* What Genuine sources have written is a prefix of the volume. *)
LEMMA PrefixIsVolume ==
  ASSUME NEW s \in Seq(SUBSET Int), \A k \in 1..Len(s) : s[k] = LogicalByte(k)
  PROVE  s = Recovery!Volume(Len(s))
<1>1. Len(s) \in Nat /\ s \in [1..Len(s) -> SUBSET Int]
  BY LenProperties
<1>2. s = [k \in 1..Len(s) |-> s[k]]
  BY <1>1
<1>3. \A k \in 1..Len(s) : s[k] = {k - 1}
  BY DEF LogicalByte
<1> QED BY <1>2, <1>3 DEF Recovery!Volume

LEMMA RefinementStep ==
  Inv /\ Named /\ Named' /\ [Next]_vars => [Recovery!Next]_<<goalOf, imageOf, verdictOf, stableOf>>
<1> SUFFICES ASSUME Inv, Inv', Named, Named', [Next]_vars
             PROVE  [Recovery!Next]_<<goalOf, imageOf, verdictOf, stableOf>>
  BY InvStep
<1> USE DEF call, loop, env, fds, Final, Opened, Own, Refuse, Raise, goalOf, imageOf, verdictOf, stableOf
<1>0. /\ OutputIsOurs /\ Progress /\ TypeOK /\ TypeOK'
      /\ requested \in Int /\ requested' \in Int
  BY DEF Inv, TypeOK
<1>1. CASE Stat
  <2>1. imageOf' = imageOf /\ verdictOf = "checking" /\ goalOf' \in Int
        /\ stableOf' = stableOf
    BY <1>0, <1>1 DEF Stat
  <2>2. CASE pc' = "failed"
    BY <2>1, <2>2 DEF Recovery!Next, Recovery!Refuse
  <2>3. CASE pc' = "open"
    BY <2>1, <2>3 DEF Recovery!Next, Recovery!Check
  <2> QED BY <1>1, <2>2, <2>3 DEF Stat
<1>2. CASE OpenOutput
  <2>1. goalOf' = goalOf /\ verdictOf = "checking" /\ verdictOf' = "running" /\ imageOf' = <<>>
        /\ stableOf' = stableOf
    BY <1>0, <1>2 DEF OpenOutput
  <2> QED BY <2>1 DEF Recovery!Next, Recovery!Start
<1>3. CASE OpenFails
  <2>1. /\ goalOf' \in Int /\ verdictOf = "checking" /\ verdictOf' = "failed"
        /\ imageOf' = imageOf /\ stableOf' = stableOf
    BY <1>0, <1>3 DEF OpenFails
  <2> QED BY <2>1 DEF Recovery!Next, Recovery!Refuse
<1>4. CASE Iter
  BY <1>4 DEF Iter
<1>5. CASE OpenSource
  BY <1>5 DEF OpenSource
<1>6. CASE OpenSourceFails
  BY <1>6 DEF OpenSourceFails
<1>7. CASE Read
  BY <1>7 DEF Read
<1>8. CASE ReadFails
  BY <1>8 DEF ReadFails
<1>9. CASE Write \/ WriteFails
  <2>1. pc = "write" /\ pc' \in {"read", "cleanup"} /\ requested' = requested
    BY <1>9 DEF Write, WriteFails
  <2>2. /\ goalOf' = goalOf /\ verdictOf = "running" /\ verdictOf' = "running"
        /\ imageOf = out /\ imageOf' = out' /\ stableOf' = stableOf
    BY <1>9, <2>1 DEF Write, WriteFails
  <2>3. /\ remaining > 0 /\ remaining \in Int /\ Len(out) \in Nat
        /\ Len(out) + remaining = requested
    BY <1>0, <2>1, LenProperties DEF TypeOK, Progress
  <2>4. \E more \in Nat : more <= remaining /\ Len(out') = Len(out) + more
                            /\ (more = 0 => out' = out)
    <3>1. CASE Write
      <4> DEFINE m == Amount
      <4>1. Len(out') = Len(out) + m /\ m \in 1..array.chunk /\ m <= remaining
        BY <3>1, WriteFacts
      <4>2. array.chunk \in Nat
        BY <1>0, ArrayFacts
      <4> HIDE DEF m
      <4>3. m \in Nat /\ m # 0
        BY <4>1, <4>2, SMT
      <4> QED BY <4>1, <4>3
    <3>2. CASE WriteFails
      <4>1. PICK taken \in 0..(Len(block) - 1) : out' = out \o SubSeq(block, 1, taken)
        BY <3>2 DEF WriteFails
      <4>2. /\ taken \in Nat /\ taken < remaining /\ Len(out') = Len(out) + taken
            /\ SubSeq(block, 1, taken) \in Seq(SUBSET Int)
            /\ Len(SubSeq(block, 1, taken)) = taken
        BY <2>1, <4>1, WriteFailsFacts
      <4>3. taken = 0 => out' = out
        <5>1. SUFFICES ASSUME taken = 0 PROVE out' = out
          OBVIOUS
        <5>2. SubSeq(block, 1, taken) = <<>>
          BY <4>2, <5>1, EmptySeq, SMT
        <5> QED BY <1>0, <4>1, <5>2, ConcatEmptySeq DEF TypeOK
      <4>4. taken <= remaining
        BY <2>3, <4>2, SMT
      <4> QED BY <4>2, <4>3, <4>4
    <3> QED BY <1>9, <3>1, <3>2
  <2>5. PICK more \in Nat : more <= remaining /\ Len(out') = Len(out) + more
                            /\ (more = 0 => out' = out)
    BY <2>4
  <2>6. CASE more = 0
    BY <2>2, <2>5, <2>6
  <2>7. CASE more # 0
    <3>1. Len(out') \in (Len(out) + 1)..requested
      BY <1>0, <2>3, <2>5, <2>7, SMT
    <3>2. stableOf => out' = Recovery!Volume(Len(out'))
      <4>1. out' \in Seq(SUBSET Int)
        BY <1>0 DEF TypeOK
      <4>2. stableOf => \A k \in 1..Len(out') : out'[k] = LogicalByte(k)
        BY <2>2 DEF Inv, OutputIsPrefix, Named
      <4> QED BY <4>1, <4>2, PrefixIsVolume
    <3>3. \A k \in 1..Len(out) : out'[k] = out[k]
      <4>1. PICK s \in Seq(SUBSET Int) : out' = out \o s
        BY <2>1, <1>9, WriteFacts, WriteFailsFacts DEF Write, WriteFails
      <4>2. out \in Seq(SUBSET Int)
        BY <1>0 DEF TypeOK
      <4> QED BY <4>1, <4>2, ConcatProperties
    <3> QED BY <2>2, <3>1, <3>2, <3>3 DEF Recovery!Next, Recovery!Extend
  <2> QED BY <2>6, <2>7
<1>10. CASE Fsync
  BY <1>10 DEF Fsync
<1>18. CASE Close
  <2>1. /\ pc = "close" /\ Len(out) = requested /\ requested > 0
        /\ goalOf' = goalOf /\ imageOf' = imageOf /\ stableOf' = stableOf
        /\ verdictOf = "running"
    BY <1>0, <1>18 DEF Close, Progress
  <2>2. CASE pc' = "done"
    BY <2>1, <2>2 DEF Recovery!Next, Recovery!Complete
  <2>3. CASE pc' = "failed"
    BY <2>1, <2>3 DEF Recovery!Next, Recovery!Fail
  <2> QED BY <1>18, <2>2, <2>3 DEF Close
<1>11. CASE CleanUp
  <2>1. /\ verdictOf = "running" /\ verdictOf' = "failed" /\ goalOf' = goalOf
        /\ imageOf' \in {<<>>, imageOf} /\ stableOf' = stableOf
    BY <1>0, <1>11 DEF CleanUp, OutputIsOurs
  <2> QED BY <2>1 DEF Recovery!Next, Recovery!Fail
<1>12. CASE Abandon
  <2>1. /\ verdictOf \notin Recovery!Ended /\ verdictOf' = "abandoned"
        /\ goalOf' = goalOf /\ imageOf' = imageOf /\ stableOf' = stableOf
    BY <1>0, <1>12 DEF Abandon, Recovery!Ended, TypeOK
  <2> QED BY <2>1 DEF Recovery!Next, Recovery!Abandon
<1>13. CASE Rerun
  <2>1. /\ verdictOf \in Recovery!Ended /\ verdictOf' = "checking"
        /\ goalOf' = goalOf /\ imageOf' = imageOf /\ stableOf' = stableOf
    BY <1>13 DEF Rerun, Recovery!Ended
  <2> QED BY <2>1 DEF Recovery!Next, Recovery!Again
<1>14. CASE OtherCreates
  BY <1>14 DEF OtherCreates
<1>15. CASE RemoveImage
  <2>1. verdictOf' = verdictOf /\ goalOf' = goalOf /\ stableOf' = stableOf
    BY <1>15 DEF RemoveImage
  <2>2. CASE pc \in Opened
    BY <1>15, <2>1, <2>2 DEF RemoveImage
  <2>3. CASE pc \notin Opened
    <3>1. verdictOf # "running" /\ imageOf' = <<>>
      BY <1>0, <1>15, <2>3 DEF RemoveImage, TypeOK
    <3> QED BY <2>1, <3>1 DEF Recovery!Next, Recovery!Remove
  <2> QED BY <2>2, <2>3
<1>16. CASE SwapNames
  <2>1. swaps' = swaps + 1 /\ swaps \in Nat
    BY <1>0, <1>16 DEF SwapNames, TypeOK
  <2>2. stableOf' = FALSE
    BY <2>1, SMT
  <2>3. goalOf' = goalOf /\ imageOf' = imageOf /\ verdictOf' = verdictOf
    BY <1>16 DEF SwapNames
  <2> QED BY <2>2, <2>3 DEF Recovery!Next, Recovery!Move
<1>17. CASE UNCHANGED vars
  BY <1>17 DEF vars
<1> QED BY <1>1, <1>2, <1>3, <1>4, <1>5, <1>6, <1>7, <1>8, <1>9, <1>10, <1>11,
           <1>12, <1>13, <1>14, <1>15, <1>16, <1>17, <1>18
        DEF Next, Tool, Environment

(* Refinement: every behaviour of the code is one the abstract recovery    *)
(* allows, however often members exchange their names.                     *)
THEOREM ImplementsRecovery == Spec => RecoverySpec
<1>1. Init => Recovery!Init
  BY DEF Init, Recovery!Init, Final
<1>2. Inv /\ Named /\ [Next]_vars => Named'
  BY NamedStep DEF Inv, TypeOK
<1>3. Inv /\ Named /\ Named' /\ [Next]_vars
        => [Recovery!Next]_<<goalOf, imageOf, verdictOf, stableOf>>
  BY RefinementStep
<1>4. Init => Named
  BY NamedInit
<1> QED BY <1>1, <1>2, <1>3, <1>4, Invariance, PTL
     DEF Spec, RecoverySpec, Recovery!Spec, Recovery!vars, goalOf, imageOf, verdictOf,
         stableOf
===============================================================================
