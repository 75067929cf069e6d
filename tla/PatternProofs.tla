----------------------------- MODULE PatternProofs -----------------------------
(***************************************************************************)
(* What a scan reports and what a write leaves behind is right for inputs, *)
(* outputs, ranges and LBAs of any size.                                   *)
(***************************************************************************)
EXTENDS PatternScan, PatternWrite, SequenceTheorems, TLAPS

(* The range asked for ends in the image, and the scan within the range.   *)
InRange ==
  /\ size <= Len(image) * SectorBytes
  /\ pc \in {"start", "refused"} => sector = 0
  /\ pc \notin {"scan", "done"} => current = None /\ runs = <<>>
  /\ pc \in {"scan", "done"} => /\ offset = First * SectorBytes
                                /\ offset + bytes <= Len(image) * SectorBytes

(* The run that still grows ends where the scan is; one that does not      *)
(* grow any more ends before that.                                         *)
End(r) == r[1] + r[3]
Frontier ==
  pc = "scan" => IF current = None
                 THEN \A n \in DOMAIN runs : End(runs[n]) < sector
                 ELSE End(current) = sector

IInv ==
  /\ TypeOK /\ InRange /\ Frontier
  /\ RunsAreReal /\ RunsAreMaximal /\ NothingMissed

-----------------------------------------------------------------------------
(* Arithmetic of sectors. *)

LEMMA WholeSectors ==
  ASSUME NEW n \in Int, NEW c \in Nat \ {0}, NEW k \in Nat, k < n \div c
  PROVE  (k + 1) * c <= n
BY SMT

LEMMA Cancel ==
  ASSUME NEW a \in Int, NEW b \in Int, NEW c \in Nat \ {0}, a * c <= b * c
  PROVE  a <= b
BY SMT

LEMMA Distribute ==
  ASSUME NEW a \in Int, NEW b \in Int, NEW c \in Nat
  PROVE  a * c + b * c = (a + b) * c
BY SMT

LEMMA Quotient ==
  ASSUME NEW n \in Int, NEW c \in Nat \ {0}
  PROVE  n \div c \in Int /\ (n % c = 0 => n = (n \div c) * c)
BY SMT

LEMMA QuotientNat ==
  ASSUME NEW n \in Nat, NEW c \in Nat \ {0}
  PROVE  n \div c \in Nat /\ (n % c = 0 => n = (n \div c) * c)
BY SMT

-----------------------------------------------------------------------------
(* One sector. *)

(* The arguments are numbers, and the image is a sequence of sectors. *)
LEMMA Types ==
  ASSUME TypeOK
  PROVE  /\ offset \in Int /\ bytes \in Int /\ size \in Nat
         /\ SectorBytes \in Nat \ {0}
         /\ image \in Seq(Nat \cup {None}) /\ Len(image) \in Nat
         /\ First \in Int /\ Sectors \in Int
<1>1. offset \in Int /\ bytes \in Int /\ size \in Nat /\ SectorBytes \in Nat \ {0}
  BY PatternScanAssumption DEF TypeOK
<1>2. image \in Seq(Nat \cup {None}) /\ Len(image) \in Nat
  BY PatternScanAssumption DEF TypeOK
<1> QED BY <1>1, <1>2, Quotient DEF First, Sectors

(* A sector that is read is in the image, and decode_sector is given it    *)
(* whole or cut off.                                                       *)
LEMMA OneSector ==
  ASSUME IInv, Scan
  PROVE  /\ Asked(sector) \in Nat \cup {None}
         /\ Decoded(sector) \in Nat \cup {None}
         /\ Decoded(sector) # None => Decoded(sector) = Asked(sector)
<1>1. sector \in Nat /\ First \in Int /\ Len(image) \in Nat /\ SectorBytes \in Nat \ {0}
      /\ image \in Seq(Nat \cup {None}) /\ offset \in Int /\ bytes \in Int
  BY Types DEF IInv, TypeOK
<1>2. (sector + 1) * SectorBytes <= bytes
  BY <1>1, WholeSectors DEF Sectors, Scan
<1>3. /\ offset = First * SectorBytes /\ offset + bytes <= Len(image) * SectorBytes
      /\ offset + sector * SectorBytes >= 0
  BY DEF IInv, InRange, Scan, Position
<1>4. /\ offset + (sector + 1) * SectorBytes = (First + (sector + 1)) * SectorBytes
      /\ offset + sector * SectorBytes = (First + sector) * SectorBytes
  BY <1>1, <1>3, Distribute, sector + 1 \in Int
<1>5. offset + (sector + 1) * SectorBytes <= Len(image) * SectorBytes
  <2>1. (sector + 1) * SectorBytes \in Nat /\ Len(image) * SectorBytes \in Nat
    BY <1>1, SMT
  <2> QED BY <1>1, <1>2, <1>3, <2>1
<1>6. First + (sector + 1) <= Len(image)
  BY <1>1, <1>4, <1>5, Cancel, First + (sector + 1) \in Int
<1>7. 0 <= First + sector
  <2>1. 0 * SectorBytes = 0
    BY <1>1
  <2>2. 0 * SectorBytes <= (First + sector) * SectorBytes
    BY <1>3, <1>4, <2>1
  <2> QED BY <1>1, <2>2, Cancel, First + sector \in Int
<1>8. Asked(sector) \in Nat \cup {None}
  BY <1>1, <1>6, <1>7 DEF Asked
<1> QED BY <1>8 DEF Decoded

-----------------------------------------------------------------------------
(* The invariant. *)

LEMMA InitInv == Init => IInv
<1> SUFFICES ASSUME Init PROVE IInv
  OBVIOUS
<1>1. TypeOK
  <2>1. Len(image) * SectorBytes \in Nat
    <3>1. Len(image) \in Nat /\ SectorBytes \in Nat
      BY PatternScanAssumption DEF Init
    <3> QED BY <3>1, SMT
  <2> QED BY <2>1 DEF Init, TypeOK, Run
<1>2. Reported = <<>>
  BY DEF Init, Reported, Ended
<1>3. InRange /\ Frontier /\ NothingMissed
  <2>1. size = Len(image) * SectorBytes /\ size \in Nat
    BY <1>1 DEF Init, TypeOK
  <2> QED BY <2>1 DEF Init, InRange, Frontier, NothingMissed
<1>4. RunsAreReal /\ RunsAreMaximal
  BY <1>2 DEF RunsAreReal, RunsAreMaximal
<1> QED BY <1>1, <1>3, <1>4 DEF IInv

(* What is reported is a sequence of runs. *)
LEMMA ReportedType == TypeOK => Reported \in Seq(Run)
BY DEF TypeOK, Reported, Ended

(* A step that changes neither what is reported, nor the sector, nor the   *)
(* image keeps what is said of the reported runs.                          *)
LEMMA SameReport ==
  ASSUME Reported' = Reported, sector' = sector, UNCHANGED <<image, offset>>
  PROVE  /\ RunsAreReal => RunsAreReal'
         /\ RunsAreMaximal => RunsAreMaximal'
<1>1. First' = First /\ \A k : Asked(k)' = Asked(k)
  BY DEF First, Asked
<1> QED BY <1>1 DEF RunsAreReal, RunsAreMaximal, Asked

LEMMA StartInv ==
  ASSUME IInv, Start
  PROVE  IInv'
<1>1. TypeOK'
  BY DEF IInv, TypeOK, Start
<1>2. Reported' = Reported
  BY DEF Start, Reported, Ended
<1>3. RunsAreReal' /\ RunsAreMaximal'
  BY <1>2, SameReport DEF IInv, Start
<1>4. InRange'
  <2>1. offset \in Int /\ bytes \in Int /\ SectorBytes \in Nat \ {0} /\ size \in Nat
        /\ Len(image) * SectorBytes \in Nat
    <3>1. Len(image) \in Nat /\ SectorBytes \in Nat \ {0}
      BY Types DEF IInv
    <3>2. Len(image) * SectorBytes \in Nat
      BY <3>1, SMT
    <3> QED BY <3>2, Types DEF IInv
  <2>2. CASE pc' = "scan"
    <3>1. offset % SectorBytes = 0 /\ offset + bytes <= size
      BY <2>1, <2>2 DEF Start
    <3>2. offset = First * SectorBytes
      BY <2>1, <3>1, Quotient DEF First
    <3>3. offset + bytes <= Len(image) * SectorBytes
      BY <2>1, <3>1 DEF IInv, InRange
    <3> QED BY <2>2, <3>2, <3>3 DEF IInv, InRange, Start, First
  <2>3. CASE pc' = "refused"
    BY <2>3 DEF IInv, InRange, Start
  <2> QED BY <2>2, <2>3 DEF Start
<1>5. Frontier' /\ NothingMissed'
  BY DEF IInv, InRange, Start, Frontier, NothingMissed
<1> QED BY <1>1, <1>3, <1>4, <1>5 DEF IInv

LEMMA ShrinkInv ==
  ASSUME IInv, Shrink
  PROVE  IInv'
<1>1. size \in Nat /\ size' = size - 1 /\ size > 0
      /\ Len(image) * SectorBytes \in Nat
  <2>1. Len(image) \in Nat /\ SectorBytes \in Nat
    BY Types DEF IInv
  <2>2. Len(image) * SectorBytes \in Nat
    BY <2>1, SMT
  <2> QED BY <2>2 DEF IInv, TypeOK, Shrink
<1>2. TypeOK'
  BY <1>1 DEF IInv, TypeOK, Shrink
<1>3. Reported' = Reported
  BY DEF Shrink, Reported, Ended
<1>4. RunsAreReal' /\ RunsAreMaximal'
  BY <1>3, SameReport DEF IInv, Shrink
<1>5. InRange'
  BY <1>1 DEF IInv, InRange, Shrink, First
<1>6. Frontier'
  BY DEF IInv, Frontier, Shrink
<1>7. \A k \in Int : Decoded(k)' # None => Decoded(k) # None
  <2> SUFFICES ASSUME NEW k \in Int, offset + (k + 1) * SectorBytes <= size - 1
               PROVE  offset + (k + 1) * SectorBytes <= size
    BY <1>1 DEF Decoded, Asked, First, Shrink
  <2>1. offset + (k + 1) * SectorBytes \in Int
    <3>1. offset \in Int /\ SectorBytes \in Int /\ k + 1 \in Int
      BY Types DEF IInv
    <3> QED BY <3>1, SMT
  <2> QED BY <1>1, <2>1
<1>8. NothingMissed'
  <2>1. pc' = pc /\ sector' = sector /\ sector \in Nat
    BY DEF IInv, TypeOK, Shrink
  <2> QED BY <1>3, <1>7, <2>1 DEF IInv, NothingMissed
<1> QED BY <1>2, <1>4, <1>5, <1>6, <1>8 DEF IInv

(* With the call the report is lost. *)
LEMMA ScanFailsInv ==
  ASSUME IInv, ScanFails
  PROVE  IInv'
<1>1. Reported' = <<>> /\ pc' \in {"failed", "crashed"}
  BY DEF ScanFails, Reported, Ended
<1>2. TypeOK'
  BY <1>1 DEF IInv, TypeOK, ScanFails
<1>3. RunsAreReal' /\ RunsAreMaximal'
  BY <1>1 DEF RunsAreReal, RunsAreMaximal
<1>4. InRange' /\ Frontier' /\ NothingMissed'
  BY <1>1 DEF IInv, InRange, Frontier, NothingMissed, ScanFails
<1> QED BY <1>2, <1>3, <1>4 DEF IInv

LEMMA FinishInv ==
  ASSUME IInv, Finish
  PROVE  IInv'
<1>1. Reported \in Seq(Run) /\ runs' = Reported /\ Reported' = Reported
  BY ReportedType DEF IInv, Finish, Reported, Ended
<1>2. TypeOK'
  BY <1>1 DEF IInv, TypeOK, Finish
<1>3. RunsAreReal' /\ RunsAreMaximal'
  BY <1>1, SameReport DEF IInv, Finish
<1>4. InRange' /\ Frontier'
  BY DEF IInv, InRange, Frontier, Finish, First
<1>5. NothingMissed'
  BY <1>1 DEF IInv, NothingMissed, Finish, Decoded, Asked, First
<1> QED BY <1>2, <1>3, <1>4, <1>5 DEF IInv

-----------------------------------------------------------------------------
(* One sector is scanned: nothing is reported of it, the last run grows by *)
(* it, or a run of its own begins.                                         *)

LEMMA ScanRest ==
  ASSUME IInv, Scan
  PROVE  /\ InRange' /\ sector \in Nat /\ sector' = sector + 1
         /\ First' = First /\ UNCHANGED <<image, offset, size>>
         /\ pc = "scan" /\ pc' = "scan"
         /\ \A k : Asked(k)' = Asked(k) /\ Decoded(k)' = Decoded(k)
BY DEF IInv, TypeOK, InRange, Scan, First, Asked, Decoded

LEMMA ScanNothing ==
  ASSUME IInv, Scan, Decoded(sector) = None
  PROVE  IInv'
<1>1. Reported \in Seq(Run) /\ runs' = Reported /\ current' = None
      /\ Reported' = Reported
  BY ReportedType DEF IInv, Scan, Reported, Ended
<1>2. TypeOK'
  BY <1>1, ScanRest DEF IInv, TypeOK, Scan
<1>3. \A n \in DOMAIN Reported : /\ Reported[n] \in Run
                                 /\ End(Reported[n]) <= sector
  BY <1>1 DEF IInv, RunsAreReal, End
<1>4. RunsAreReal'
  <2> SUFFICES ASSUME NEW n \in DOMAIN Reported
               PROVE  /\ Reported[n][3] > 0
                      /\ Reported[n][1] + Reported[n][3] <= sector + 1
                      /\ \A k \in 0..(Reported[n][3] - 1) :
                           Asked(Reported[n][1] + k) = Reported[n][2] + k
    BY <1>1, ScanRest DEF RunsAreReal, Asked
  <2>1. Reported[n][3] > 0 /\ Reported[n][1] + Reported[n][3] <= sector
        /\ \A k \in 0..(Reported[n][3] - 1) :
             Asked(Reported[n][1] + k) = Reported[n][2] + k
    BY DEF IInv, RunsAreReal
  <2>2. Reported[n] \in Run /\ sector \in Nat
    BY <1>3, ScanRest
  <2> QED BY <2>1, <2>2 DEF Run
<1>5. RunsAreMaximal'
  BY <1>1 DEF IInv, RunsAreMaximal
<1>6. Frontier'
  <2>1. \A n \in DOMAIN Reported : End(Reported[n]) < sector + 1
    BY <1>3, ScanRest DEF Run, End
  <2> QED BY <1>1, <2>1, ScanRest DEF Frontier
<1>7. NothingMissed'
  <2> SUFFICES ASSUME NEW k \in 0..sector, Decoded(k) # None
               PROVE  \E n \in DOMAIN Reported' : Covers(Reported'[n], k)
    BY ScanRest DEF NothingMissed
  <2>1. k \in 0..(sector - 1)
    BY ScanRest
  <2> QED BY <1>1, <2>1, ScanRest DEF IInv, NothingMissed
<1> QED BY <1>2, <1>4, <1>5, <1>6, <1>7, ScanRest DEF IInv

(* With one run more at the end, a sequence of runs is real and maximal    *)
(* when that run is real and does not continue the one before it; the      *)
(* others are as they were.  Both other cases are of this form.            *)
LEMMA Extended ==
  ASSUME IInv, Scan, Decoded(sector) # None,
         NEW older \in Seq(Run), NEW r \in Run,
         Reported' = Append(older, r), current' = r, runs' = older,
         End(r) = sector + 1, r[3] > 0,
         \A k \in 0..(r[3] - 1) : Asked(r[1] + k) = r[2] + k,
         \A n \in DOMAIN older :
           n \in DOMAIN Reported /\ older[n] = Reported[n],
         older # <<>> =>
           LET last == older[Len(older)]
           IN  End(last) <= r[1] /\ (End(last) = r[1] => r[2] # last[2] + last[3]),
         \A k \in 0..(sector - 1), n \in DOMAIN Reported :
           Covers(Reported[n], k) =>
             Covers(r, k) \/ \E j \in DOMAIN older : Covers(older[j], k)
  PROVE  IInv'
<1> DEFINE new == Append(older, r)
<1>1. /\ Len(older) \in Nat /\ DOMAIN older = 1..Len(older)
      /\ DOMAIN new = 1..(Len(older) + 1)
      /\ new[Len(older) + 1] = r
      /\ \A n \in 1..Len(older) : new[n] = older[n] /\ older[n] \in Run
  OBVIOUS
<1> HIDE DEF new
<1>2. Reported' = new
  BY DEF new
<1>3. r[1] \in Nat /\ r[2] \in Nat /\ r[3] \in Nat
  BY DEF Run
<1>4. TypeOK'
  BY ScanRest DEF IInv, TypeOK, Scan
<1>5. \A k : Asked(k)' = Asked(k)
  BY ScanRest DEF Asked
<1>6. RunsAreReal'
  <2> SUFFICES ASSUME NEW n \in DOMAIN new
               PROVE  /\ new[n][3] > 0
                      /\ new[n][1] + new[n][3] <= sector + 1
                      /\ \A k \in 0..(new[n][3] - 1) :
                           Asked(new[n][1] + k) = new[n][2] + k
    BY <1>2, <1>5, ScanRest DEF RunsAreReal
  <2>1. CASE n = Len(older) + 1
    BY <1>1, <1>3, <2>1, ScanRest DEF End
  <2>2. CASE n \in 1..Len(older)
    <3>1. n \in DOMAIN Reported /\ new[n] = Reported[n] /\ new[n] \in Run
      BY <1>1, <2>2
    <3>2. new[n][3] > 0 /\ new[n][1] + new[n][3] <= sector
          /\ \A k \in 0..(new[n][3] - 1) : Asked(new[n][1] + k) = new[n][2] + k
      BY <3>1 DEF IInv, RunsAreReal
    <3> QED BY <3>1, <3>2, ScanRest DEF Run
  <2> QED BY <1>1, <2>1, <2>2
<1>7. RunsAreMaximal'
  <2> SUFFICES ASSUME NEW n \in DOMAIN new, n + 1 \in DOMAIN new
               PROVE  /\ new[n][1] + new[n][3] <= new[n + 1][1]
                      /\ new[n][1] + new[n][3] = new[n + 1][1] =>
                           new[n + 1][2] # new[n][2] + new[n][3]
    BY <1>2 DEF RunsAreMaximal
  <2>1. CASE n = Len(older)
    <3>1. older # <<>> /\ new[n] = older[Len(older)] /\ new[n + 1] = r
      BY <1>1, <2>1
    <3> QED BY <3>1 DEF End
  <2>2. CASE n + 1 \in 1..Len(older)
    <3>1. /\ n \in DOMAIN Reported /\ n + 1 \in DOMAIN Reported
          /\ new[n] = Reported[n] /\ new[n + 1] = Reported[n + 1]
      BY <1>1, <2>2
    <3> QED BY <3>1 DEF IInv, RunsAreMaximal
  <2> QED BY <1>1, <2>1, <2>2
<1>8. Frontier'
  <2>1. CASE r = None
    BY <2>1, PatternScanAssumption DEF Run
  <2>2. CASE r # None
    BY <2>2, ScanRest DEF Frontier, End
  <2> QED BY <2>1, <2>2
<1>9. NothingMissed'
  <2>0. (sector + 1) - 1 = sector
    BY ScanRest
  <2> SUFFICES ASSUME NEW k \in 0..sector, Decoded(k) # None
               PROVE  \E n \in DOMAIN new : Covers(new[n], k)
    BY <1>2, <2>0, ScanRest DEF NothingMissed
  <2>1. CASE k = sector
    <3>1. Covers(r, k)
      BY <1>3, <2>1, ScanRest DEF Covers, End
    <3> QED BY <1>1, <3>1
  <2>2. CASE k \in 0..(sector - 1)
    <3>1. PICK n \in DOMAIN Reported : Covers(Reported[n], k)
      BY <2>2, ScanRest DEF IInv, NothingMissed
    <3>2. Covers(r, k) \/ \E j \in DOMAIN older : Covers(older[j], k)
      BY <2>2, <3>1
    <3>3. CASE Covers(r, k)
      BY <1>1, <3>3
    <3>4. CASE \E j \in DOMAIN older : Covers(older[j], k)
      BY <1>1, <3>4
    <3> QED BY <3>2, <3>3, <3>4
  <2> QED BY <2>1, <2>2, ScanRest
<1> QED BY <1>4, <1>6, <1>7, <1>8, <1>9, ScanRest DEF IInv

LEMMA ScanContinues ==
  ASSUME IInv, Scan, Decoded(sector) # None, Continues(Decoded(sector))
  PROVE  IInv'
<1> DEFINE r == [current EXCEPT ![3] = @ + 1]
<1>1. current \in Run /\ runs \in Seq(Run) /\ sector \in Nat
  BY DEF IInv, TypeOK, Continues
<1>2. r \in Run /\ r = <<current[1], current[2], current[3] + 1>>
  BY <1>1 DEF Run
<1>3. current' = r /\ runs' = runs
  BY DEF Scan
<1> HIDE DEF r
<1>4. Reported = Append(runs, current)
  BY DEF Reported, Ended, Continues
<1>5. current[3] > 0 /\ current[1] + current[3] = sector
      /\ Decoded(sector) = current[2] + current[3]
      /\ \A k \in 0..(current[3] - 1) : Asked(current[1] + k) = current[2] + k
  <2>1. Len(runs) + 1 \in DOMAIN Reported /\ Reported[Len(runs) + 1] = current
    BY <1>1, <1>4
  <2> QED BY <2>1 DEF IInv, RunsAreReal, Continues
<1>6. Asked(sector) = Decoded(sector)
  BY OneSector DEF Scan
<1>7. \A k \in 0..(r[3] - 1) : Asked(r[1] + k) = r[2] + k
  <2> SUFFICES ASSUME NEW k \in 0..current[3]
               PROVE  Asked(current[1] + k) = current[2] + k
    BY <1>1, <1>2 DEF Run
  <2>1. CASE k = current[3]
    BY <1>5, <1>6, <2>1
  <2>2. CASE k \in 0..(current[3] - 1)
    BY <1>5, <2>2
  <2> QED BY <1>1, <2>1, <2>2 DEF Run
<1>8. \A n \in DOMAIN runs : n \in DOMAIN Reported /\ runs[n] = Reported[n]
  BY <1>1, <1>4
<1>9. ASSUME runs # <<>>
      PROVE  LET last == runs[Len(runs)]
             IN  End(last) <= r[1] /\ (End(last) = r[1] => r[2] # last[2] + last[3])
  <2>1. /\ Len(runs) \in DOMAIN Reported /\ Len(runs) + 1 \in DOMAIN Reported
        /\ Reported[Len(runs)] = runs[Len(runs)]
        /\ Reported[Len(runs) + 1] = current
    BY <1>1, <1>4, <1>9
  <2> QED BY <1>2, <2>1 DEF IInv, RunsAreMaximal, End
<1>10. ASSUME NEW k \in 0..(sector - 1), NEW n \in DOMAIN Reported,
              Covers(Reported[n], k)
       PROVE  Covers(r, k) \/ \E j \in DOMAIN runs : Covers(runs[j], k)
  <2>1. CASE n = Len(runs) + 1
    <3>1. Reported[n] = current
      BY <1>1, <1>4, <2>1
    <3> QED BY <1>1, <1>2, <1>10, <3>1 DEF Covers, Run
  <2>2. CASE n \in DOMAIN runs
    BY <1>8, <1>10, <2>2
  <2> QED BY <1>1, <1>4, <2>1, <2>2
<1>11. r[3] > 0 /\ End(r) = sector + 1
  <2>1. current[1] \in Nat /\ current[3] \in Nat
    BY <1>1 DEF Run
  <2>2. r[1] = current[1] /\ r[3] = current[3] + 1
    BY <1>2
  <2>3. End(r) = r[1] + r[3]
    BY DEF End
  <2>4. sector = current[1] + current[3]
    BY <1>5
  <2> QED BY <2>1, <2>2, <2>3, <2>4
<1>12. r # None
  BY <1>2, PatternScanAssumption DEF Run
<1>13. Reported' = Append(runs, r)
  BY <1>3, <1>12 DEF Reported, Ended
<1> QED BY <1>1, <1>2, <1>3, <1>7, <1>8, <1>9, <1>10, <1>11, <1>13, Extended

LEMMA ScanBegins ==
  ASSUME IInv, Scan, Decoded(sector) # None, ~Continues(Decoded(sector))
  PROVE  IInv'
<1> DEFINE r == Begin(Decoded(sector))
<1>1. Reported \in Seq(Run) /\ sector \in Nat
  BY ReportedType DEF IInv, TypeOK
<1>2. Asked(sector) = Decoded(sector) /\ Decoded(sector) \in Nat
  BY OneSector DEF Scan
<1>3. r \in Run /\ r = <<sector, Decoded(sector), 1>>
  BY <1>1, <1>2 DEF Begin, Run
<1>4. current' = r /\ runs' = Reported
  BY DEF Scan, Reported
<1>5. \A k \in 0..(r[3] - 1) : Asked(r[1] + k) = r[2] + k
  BY <1>1, <1>2, <1>3
<1>6. ASSUME Reported # <<>>
      PROVE  LET last == Reported[Len(Reported)]
             IN  End(last) <= r[1] /\ (End(last) = r[1] => r[2] # last[2] + last[3])
  <2> DEFINE last == Reported[Len(Reported)]
  <2>1. Len(Reported) \in DOMAIN Reported /\ last \in Run
    BY <1>1, <1>6
  <2>2. End(last) <= sector
    BY <2>1 DEF IInv, RunsAreReal, End
  <2>3. CASE current = None
    <3>1. Reported = runs
      BY <2>3 DEF Reported, Ended
    <3>2. End(last) < sector
      BY <2>1, <2>3, <3>1 DEF IInv, Frontier, Scan
    <3> QED BY <1>1, <1>3, <2>1, <3>2 DEF End, Run
  <2>4. CASE current # None
    <3>1. last = current
      BY <2>4 DEF Reported, Ended, IInv, TypeOK
    <3>2. sector = current[1] + current[3]
      BY <2>4 DEF IInv, Frontier, Scan, End
    <3>3. Decoded(sector) # current[2] + current[3]
      BY <2>4, <3>2 DEF Continues
    <3> QED BY <1>3, <2>2, <3>1, <3>3
  <2> QED BY <2>3, <2>4
<1>7. r[3] > 0 /\ End(r) = sector + 1
  BY <1>1, <1>3 DEF End
<1>8. r # None
  BY <1>3, PatternScanAssumption DEF Run
<1> HIDE DEF r
<1>9. Reported' = Append(Reported, r)
  BY <1>4, <1>8 DEF Reported, Ended
<1> QED BY <1>1, <1>3, <1>4, <1>5, <1>6, <1>7, <1>9, Extended

LEMMA NextInv == IInv /\ [Next]_vars => IInv'
<1> SUFFICES ASSUME IInv, [Next]_vars PROVE IInv'
  OBVIOUS
<1>1. CASE Start
  BY <1>1, StartInv
<1>2. CASE Scan
  <2>1. CASE Decoded(sector) = None
    BY <1>2, <2>1, ScanNothing
  <2>2. CASE Decoded(sector) # None /\ Continues(Decoded(sector))
    BY <1>2, <2>2, ScanContinues
  <2>3. CASE Decoded(sector) # None /\ ~Continues(Decoded(sector))
    BY <1>2, <2>3, ScanBegins
  <2> QED BY <2>1, <2>2, <2>3
<1>3. CASE Finish
  BY <1>3, FinishInv
<1>4. CASE Shrink
  BY <1>4, ShrinkInv
<1>5. CASE ScanFails
  BY <1>5, ScanFailsInv
<1>6. CASE UNCHANGED vars
  <2>1. Reported' = Reported /\ First' = First
        /\ \A k : Asked(k)' = Asked(k) /\ Decoded(k)' = Decoded(k)
    BY <1>6 DEF vars, Reported, Ended, First, Asked, Decoded
  <2>2. RunsAreReal' /\ RunsAreMaximal'
    BY <1>6, <2>1, SameReport DEF IInv, vars
  <2>3. TypeOK' /\ InRange' /\ Frontier'
    BY <1>6, <2>1 DEF IInv, TypeOK, InRange, Frontier, vars
  <2>4. NothingMissed'
    BY <1>6, <2>1 DEF IInv, NothingMissed, vars, Covers
  <2> QED BY <2>2, <2>3, <2>4 DEF IInv
<1> QED BY <1>1, <1>2, <1>3, <1>4, <1>5, <1>6 DEF Next

-----------------------------------------------------------------------------
LEMMA ScanInvariant == Spec => []IInv
BY InitInv, NextInv, PTL DEF Spec

(* The run list is a list of triples of numbers in every state. *)
THEOREM ScanTypes == Spec => []TypeOK
<1>1. IInv => TypeOK
  BY DEF IInv
<1> QED BY <1>1, ScanInvariant, PTL

(* Every run a scan reports is in the input as reported, whatever is cut   *)
(* off meanwhile: raid_pattern.py 182-201.                                 *)
THEOREM ReportedRunsAreReal == Spec => []RunsAreReal
<1>1. IInv => RunsAreReal
  BY DEF IInv
<1> QED BY <1>1, ScanInvariant, PTL

(* Two reported runs that meet are a break in the layout. *)
THEOREM ReportedRunsAreMaximal == Spec => []RunsAreMaximal
<1>1. IInv => RunsAreMaximal
  BY DEF IInv
<1> QED BY <1>1, ScanInvariant, PTL

(* No pattern sector that is still in the input escapes the scan, wherever *)
(* the input is cut off meanwhile: raid_pattern.py 182-202.                *)
THEOREM NoPatternMissed == Spec => []NothingMissed
<1>1. IInv => NothingMissed
  BY DEF IInv
<1> QED BY <1>1, ScanInvariant, PTL

-----------------------------------------------------------------------------
(* One chunk of a write. *)

(* A range of whole sectors that ends within d sectors. *)
LEMMA RangeEnds ==
  ASSUME NEW n \in Int, NEW c \in Nat \ {0}, n > 0, n % c = 0,
         NEW start \in Int, NEW d \in Nat, start * c + n <= d * c
  PROVE  n \div c \in Nat /\ start + n \div c <= d
<1> DEFINE q == n \div c
<1>1. n \in Nat
  OBVIOUS
<1>2. q \in Nat /\ n = q * c
  BY <1>1, QuotientNat
<1> HIDE DEF q
<1>3. (start + q) * c <= d * c
  BY <1>2, Distribute
<1>4. start + q <= d
  BY <1>2, <1>3, Cancel, start + q \in Int
<1> QED BY <1>2, <1>4 DEF q

LEMMA LesserOf ==
  ASSUME NEW a \in Int, NEW b \in Int
  PROVE  Min({a, b}) = IF a <= b THEN a ELSE b
<1> DEFINE low == IF a <= b THEN a ELSE b
<1>1. low \in {a, b} /\ \A y \in {a, b} : low <= y
  OBVIOUS
<1>2. \A x \in {a, b} : (\A y \in {a, b} : x <= y) => x = low
  OBVIOUS
<1> QED BY <1>1, <1>2, Zenon DEF Min

(* The types an action relies on. *)
LEMMA WriteTypes ==
  ASSUME WriteTypeOK
  PROVE  /\ SectorBytes \in Nat \ {0} /\ ChunkSectors \in Nat \ {0}
         /\ DeviceSectors \in Nat /\ MaxLba \in Nat
         /\ command.bytes \in Int /\ Wanted \in Int
         /\ command.name \in {"write", "verify"}
         /\ command.name = "write" => command.base \in Int /\ command.ack \in BOOLEAN
         /\ command.name = "verify" => /\ command.start \in Int
                                       /\ command.base \in Int \cup {None}
         /\ disk \in [1..DeviceSectors -> Content]
         /\ flushed \in [1..DeviceSectors -> Content]
         /\ sector \in Nat
         /\ None \notin Int /\ Old \notin Int /\ Torn \notin Int /\ Old # Torn
<1>1. /\ SectorBytes \in Nat \ {0} /\ ChunkSectors \in Nat \ {0}
      /\ DeviceSectors \in Nat /\ MaxLba \in Nat
      /\ None \notin Int /\ Old \notin Int /\ Torn \notin Int /\ Old # Torn
  BY PatternWriteAssumption
<1>2. /\ command.bytes \in Int
      /\ command.name \in {"write", "verify"}
      /\ command.name = "write" => command.base \in Int /\ command.ack \in BOOLEAN
      /\ command.name = "verify" => /\ command.start \in Int
                                    /\ command.base \in Int \cup {None}
  BY PatternWriteAssumption DEF WriteTypeOK, Command
<1>3. Wanted \in Int
  BY <1>1, <1>2, SMT DEF Wanted
<1>4. /\ disk \in [1..DeviceSectors -> Content]
      /\ flushed \in [1..DeviceSectors -> Content]
      /\ sector \in Nat
  BY <1>1 DEF WriteTypeOK
<1> QED BY <1>1, <1>2, <1>3, <1>4

(* A length that passes the checks holds a sector. *)
LEMMA WantedPositive ==
  ASSUME WriteTypeOK, WholeLength
  PROVE  Wanted \in Nat \ {0}
<1>1. /\ command.bytes \in Nat /\ command.bytes # 0 /\ SectorBytes \in Nat \ {0}
      /\ command.bytes % SectorBytes = 0
  BY WriteTypes DEF WholeLength
<1>2. Wanted \in Nat /\ command.bytes = Wanted * SectorBytes
  BY <1>1, QuotientNat DEF Wanted
<1>3. Wanted # 0
  <2>1. 0 * SectorBytes = 0
    BY <1>1
  <2> QED BY <1>1, <1>2, <2>1
<1> QED BY <1>2, <1>3

(* The next chunk lies within what was asked for, and its LBAs are those   *)
(* of its places.                                                          *)
LEMMA ChunkFits ==
  ASSUME WriteInv, pc = "write", sector < Wanted
  PROVE  /\ Count \in Nat \ {0} /\ sector + Count <= Wanted
         /\ Wanted <= DeviceSectors
         /\ command.base \in Nat
         /\ Chunk \in [1..Count -> Int]
         /\ \A k \in 1..Count : Chunk[k] = command.base + sector + k - 1
         /\ Packs => Chunk \in [1..Count -> 0..MaxLba]
<1>1. /\ ChunkSectors \in Nat \ {0} /\ sector \in Nat /\ Wanted \in Int
      /\ command.base \in Nat /\ Wanted <= DeviceSectors
  BY WriteTypes DEF WriteInv, WriteInRange
<1>2. Count \in Nat \ {0} /\ sector + Count <= Wanted
  BY <1>1, LesserOf, Wanted - sector \in Int DEF Count
<1>3. \A k \in 1..Count : Chunk[k] = command.base + sector + k - 1
  BY DEF Chunk
<1>4. Chunk \in [1..Count -> Int]
  BY <1>1, <1>2 DEF Chunk
<1>5. ASSUME Packs PROVE Chunk \in [1..Count -> 0..MaxLba]
  <2>1. command.base + sector + Count - 1 <= MaxLba
    BY <1>2, <1>3, <1>5 DEF Packs
  <2>2. \A k \in 1..Count : command.base + sector + k - 1 \in 0..MaxLba
    BY <1>1, <1>2, <2>1, WriteTypes DEF WriteInv
  <2> QED BY <2>2 DEF Chunk
<1> QED BY <1>1, <1>2, <1>3, <1>4, <1>5

(* What a part of the chunk makes of the output. *)
LEMMA TakenPlaced ==
  ASSUME WriteInv, pc = "write", sector < Wanted, Packs, NEW n \in 0..Count
  PROVE  /\ Taken(n) \in [1..DeviceSectors -> Content]
         /\ \A k \in 1..sector : Taken(n)[k] = disk[k]
         /\ \A k \in (sector + 1)..(sector + n) :
              Taken(n)[k] = command.base + k - 1
         /\ Placed(Taken(n))
<1>1. /\ Count \in Nat \ {0} /\ sector + Count <= Wanted
      /\ Wanted <= DeviceSectors /\ command.base \in Nat
      /\ \A k \in 1..Count : Chunk[k] = command.base + sector + k - 1
      /\ Chunk \in [1..Count -> 0..MaxLba]
  BY ChunkFits
<1>2. /\ sector \in Nat /\ DeviceSectors \in Nat /\ Wanted \in Int
      /\ disk \in [1..DeviceSectors -> Content]
  BY WriteTypes DEF WriteInv
<1>3. /\ DOMAIN Taken(n) = 1..DeviceSectors
      /\ \A k \in 1..DeviceSectors :
           Taken(n)[k] = IF k - sector \in 1..n THEN Chunk[k - sector] ELSE disk[k]
  BY <1>2 DEF Taken
<1>4. \A k \in 1..DeviceSectors : Taken(n)[k] \in Content
  BY <1>1, <1>2, <1>3 DEF Content
<1>5. Taken(n) \in [1..DeviceSectors -> Content]
  BY <1>2, <1>4 DEF Taken
<1>6. \A k \in 1..sector : Taken(n)[k] = disk[k]
  BY <1>1, <1>2, <1>3
<1>7. ASSUME NEW k \in (sector + 1)..(sector + n)
      PROVE  Taken(n)[k] = command.base + k - 1
  <2>1. k \in 1..DeviceSectors /\ k - sector \in 1..n /\ k - sector \in 1..Count
    BY <1>1, <1>2
  <2>2. Taken(n)[k] = command.base + sector + (k - sector) - 1
    BY <1>1, <1>3, <2>1
  <2> QED BY <1>1, <1>2, <2>2
<1>8. ASSUME NEW k \in 1..DeviceSectors, Taken(n)[k] # Old
      PROVE  \E w \in asked : k <= w[1] /\ Taken(n)[k] \in {Torn, w[2] + k - 1}
  <2>1. CASE k - sector \in 1..n
    <3>1. <<Wanted, command.base>> \in asked
      BY DEF WriteInv, WriteInRange
    <3>2. k <= Wanted /\ Taken(n)[k] = command.base + k - 1
      BY <1>1, <1>2, <1>3, <2>1
    <3> QED BY <3>1, <3>2
  <2>2. CASE k - sector \notin 1..n
    BY <1>2, <1>3, <1>8, <2>2 DEF WriteInv, PlacedRight, Placed
  <2> QED BY <2>1, <2>2
<1> QED BY <1>3, <1>5, <1>6, <1>7, <1>8 DEF Placed

-----------------------------------------------------------------------------
(* Every step keeps the invariant. *)

LEMMA WriteInitInv == WriteInit => WriteInv
<1> SUFFICES ASSUME WriteInit PROVE WriteInv
  OBVIOUS
<1>1. WriteTypeOK
  BY PatternWriteAssumption DEF WriteInit, WriteTypeOK, Content
<1>2. Placed(disk) /\ Placed(flushed)
  BY DEF WriteInit, Placed
<1> QED BY <1>1, <1>2 DEF WriteInit, WriteInv, Fresh, WriteInRange, Hashed, Settled,
          Verified, PlacedRight, WrittenVerifies

LEMMA CheckWriteInv == WriteInv /\ CheckWrite => WriteInv'
<1> SUFFICES ASSUME WriteInv, CheckWrite PROVE WriteInv'
  OBVIOUS
<1> USE DEF WriteInv
<1>1. /\ command' = command /\ disk' = disk /\ flushed' = flushed
      /\ sector' = sector /\ digest' = digest /\ commands' = commands
      /\ writable' = writable
  BY DEF CheckWrite
<1>2. pc = "check" /\ command.name = "write" /\ Wanted' = Wanted
  BY <1>1 DEF CheckWrite, Wanted
<1>3. CASE pc' = "refused" /\ intact' = intact /\ asked' = asked
  BY <1>1, <1>2, <1>3 DEF WriteTypeOK, Final, Fresh, WriteInRange, Hashed, Settled,
     Verified, PlacedRight, Placed, WrittenVerifies
<1>4. CASE /\ pc' = "write" /\ intact' = None
           /\ asked' = asked \cup {<<Wanted, command.base>>}
           /\ WholeLength /\ command.base >= 0
           /\ command.bytes <= DeviceSectors * SectorBytes
  <2>1. Wanted \in Nat /\ Wanted <= DeviceSectors
    <3>1. /\ SectorBytes \in Nat \ {0} /\ command.bytes \in Int
          /\ DeviceSectors \in Nat /\ Wanted \in Int
      BY WriteTypes
    <3>2. 0 * SectorBytes + command.bytes <= DeviceSectors * SectorBytes
      BY <1>4, <3>1
    <3>3. Wanted \in Nat /\ 0 + Wanted <= DeviceSectors
      BY <1>4, <3>1, <3>2, RangeEnds, 0 \in Int DEF WholeLength, Wanted
    <3> QED BY <3>1, <3>3
  <2>2. command.base \in Int
    BY <1>2, WriteTypes
  <2>3. sector = 0 /\ digest = <<>>
    BY <1>2 DEF Fresh
  <2>4. WriteTypeOK' /\ Fresh'
    BY <1>1, <1>4 DEF WriteTypeOK, Fresh
  <2>5. WriteInRange' /\ Hashed'
    BY <1>1, <1>2, <1>4, <2>1, <2>2, <2>3 DEF WriteInRange, Hashed, WholeLength
  <2>6. Settled' /\ WrittenVerifies'
    BY <1>4 DEF Settled, WrittenVerifies
  <2>7. Verified'
    BY <1>4, <2>1, <2>2 DEF Verified
  <2>8. PlacedRight' /\ Placed(flushed)'
    BY <1>1, <1>4 DEF PlacedRight, Placed
  <2> QED BY <2>4, <2>5, <2>6, <2>7, <2>8
<1> QED BY <1>3, <1>4 DEF CheckWrite

LEMMA WriteChunkInv == WriteInv /\ WriteChunk => WriteInv'
<1> SUFFICES ASSUME WriteInv, WriteChunk PROVE WriteInv'
  OBVIOUS
<1> USE DEF WriteInv
<1>1. /\ command' = command /\ flushed' = flushed /\ commands' = commands
      /\ writable' = writable /\ intact' = intact /\ asked' = asked
      /\ pc = "write" /\ sector < Wanted /\ Wanted' = Wanted
  BY DEF WriteChunk, Wanted
<1>2. CASE pc' = "crashed" /\ disk' = disk /\ sector' = sector /\ digest' = digest
  BY <1>1, <1>2 DEF WriteTypeOK, Final, Fresh, WriteInRange, Hashed, Settled,
     Verified, PlacedRight, Placed, WrittenVerifies
<1>3. CASE /\ Packs /\ pc' = pc /\ disk' = Taken(Count)
           /\ digest' = digest \o Chunk /\ sector' = sector + Count
  <2>1. /\ Count \in Nat \ {0} /\ sector + Count <= Wanted
        /\ Wanted <= DeviceSectors /\ command.base \in Nat
        /\ Chunk \in [1..Count -> 0..MaxLba]
        /\ \A k \in 1..Count : Chunk[k] = command.base + sector + k - 1
    BY <1>1, <1>3, ChunkFits
  <2>2. /\ disk' \in [1..DeviceSectors -> Content]
        /\ \A k \in 1..sector : disk'[k] = disk[k]
        /\ \A k \in (sector + 1)..(sector + Count) :
             disk'[k] = command.base + k - 1
        /\ Placed(disk')
    BY <1>1, <1>3, <2>1, TakenPlaced
  <2>3. /\ sector \in Nat /\ Len(digest) = sector /\ digest \in Seq(0..MaxLba)
        /\ \A k \in 1..sector : digest[k] = command.base + k - 1 /\ disk[k] = digest[k]
        /\ Wanted \in Int /\ DeviceSectors \in Nat
    BY <1>1, WriteTypes DEF Hashed, WriteTypeOK
  <2>4. Chunk \in Seq(0..MaxLba) /\ Len(Chunk) = Count
    <3>1. Count \in Nat /\ DOMAIN Chunk = 1..Count
      BY <2>1
    <3>2. Chunk \in Seq(0..MaxLba)
      <4>1. Chunk \in UNION {[1..n -> 0..MaxLba] : n \in Nat}
        BY <2>1, <3>1, Zenon
      <4> QED BY <4>1, SeqDef, Zenon
    <3>3. DOMAIN Chunk = 1..Len(Chunk) /\ Len(Chunk) \in Nat
      BY <3>2, LenProperties
    <3> QED BY <3>1, <3>2, <3>3
  <2>5. /\ digest' \in Seq(0..MaxLba) /\ Len(digest') = sector + Count
        /\ \A k \in 1..(sector + Count) :
             digest'[k] = IF k <= sector THEN digest[k] ELSE Chunk[k - sector]
    <3> DEFINE S == 0..MaxLba
    <3>1. digest \in Seq(S) /\ Chunk \in Seq(S)
      BY <2>3, <2>4
    <3> HIDE DEF S
    <3>2. /\ digest \o Chunk \in Seq(S)
          /\ Len(digest \o Chunk) = Len(digest) + Len(Chunk)
          /\ \A k \in 1..(Len(digest) + Len(Chunk)) :
               (digest \o Chunk)[k] = IF k <= Len(digest) THEN digest[k]
                                      ELSE Chunk[k - Len(digest)]
      BY <3>1, ConcatProperties
    <3> QED BY <1>3, <2>3, <2>4, <3>2 DEF S
  <2>6. ASSUME NEW k \in 1..(sector + Count)
        PROVE  digest'[k] = command.base + k - 1 /\ disk'[k] = digest'[k]
    <3>1. CASE k <= sector
      BY <2>2, <2>3, <2>5, <3>1
    <3>2. CASE k > sector
      <4>1. k - sector \in 1..Count /\ k \in (sector + 1)..(sector + Count)
        BY <2>1, <2>3, <3>2
      <4>2. digest'[k] = command.base + sector + (k - sector) - 1
        BY <2>1, <2>3, <2>5, <3>2, <4>1
      <4> QED BY <2>1, <2>2, <2>3, <4>1, <4>2
    <3> QED BY <2>3, <3>1, <3>2
  <2>7. WriteTypeOK' /\ Fresh'
    BY <1>1, <1>3, <2>1, <2>2, <2>3, <2>5 DEF WriteTypeOK, Fresh
  <2>8. WriteInRange' /\ Hashed'
    BY <1>1, <1>3, <2>1, <2>5, <2>6 DEF WriteInRange, Hashed, WholeLength
  <2>9. Settled' /\ Verified' /\ WrittenVerifies'
    BY <1>1, <1>3 DEF Settled, Verified, WrittenVerifies
  <2>10. PlacedRight' /\ Placed(flushed)'
    BY <1>1, <2>2 DEF PlacedRight, Placed
  <2> QED BY <2>7, <2>8, <2>9, <2>10
<1> QED BY <1>2, <1>3 DEF WriteChunk

LEMMA WriteShortInv == WriteInv /\ WriteShort => WriteInv'
<1> SUFFICES ASSUME WriteInv, WriteShort PROVE WriteInv'
  OBVIOUS
<1> USE DEF WriteInv
<1>1. /\ command' = command /\ flushed' = flushed /\ commands' = commands
      /\ writable' = writable /\ intact' = intact /\ asked' = asked
      /\ sector' = sector /\ digest' = digest
      /\ pc = "write" /\ sector < Wanted /\ Packs
      /\ pc' \in {"failed", "killed"}
  BY DEF WriteShort
<1>2. PICK n \in 0..(Count - 1) :
        \/ disk' = Taken(n)
        \/ disk' = [Taken(n) EXCEPT ![sector + n + 1] = Torn]
  BY DEF WriteShort
<1>3. /\ Count \in Nat \ {0} /\ sector + Count <= Wanted /\ Wanted <= DeviceSectors
      /\ sector \in Nat /\ DeviceSectors \in Nat /\ Wanted \in Int
  BY <1>1, ChunkFits, WriteTypes
<1>4. n \in 0..Count /\ sector + n + 1 \in 1..DeviceSectors /\ sector + n + 1 <= Wanted
  BY <1>2, <1>3
<1>5. Taken(n) \in [1..DeviceSectors -> Content] /\ Placed(Taken(n))
  BY <1>1, <1>4, TakenPlaced
<1>6. <<Wanted, command.base>> \in asked
  BY <1>1 DEF WriteInRange
<1>7. disk' \in [1..DeviceSectors -> Content] /\ Placed(disk')
  <2>1. CASE disk' = Taken(n)
    BY <1>5, <2>1
  <2>2. CASE disk' = [Taken(n) EXCEPT ![sector + n + 1] = Torn]
    BY <1>4, <1>5, <1>6, <2>2 DEF Placed, Content
  <2> QED BY <1>2, <2>1, <2>2
<1>8. PlacedRight' /\ Placed(flushed)'
  BY <1>1, <1>7 DEF PlacedRight, Placed
<1>9. intact = None
  BY <1>1 DEF Settled
<1> QED BY <1>1, <1>7, <1>8, <1>9 DEF WriteTypeOK, Final, Fresh, WriteInRange,
      Hashed, Settled, Verified, WrittenVerifies

LEMMA FsyncInv == WriteInv /\ Fsync => WriteInv'
<1> SUFFICES ASSUME WriteInv, Fsync PROVE WriteInv'
  OBVIOUS
<1> USE DEF WriteInv
<1>1. /\ command' = command /\ disk' = disk /\ commands' = commands
      /\ writable' = writable /\ asked' = asked
      /\ sector' = sector /\ digest' = digest
      /\ pc = "write" /\ sector = Wanted /\ Wanted' = Wanted
  BY DEF Fsync, Wanted
<1>2. CASE pc' = "failed" /\ flushed' = flushed /\ intact' = intact
  BY <1>1, <1>2 DEF WriteTypeOK, Final, Fresh, WriteInRange, Hashed, Settled,
     Verified, PlacedRight, Placed, WrittenVerifies
<1>3. CASE /\ pc' = "done" /\ flushed' = disk
           /\ intact' = [sectors |-> Wanted, base |-> command.base]
  <2>1. Wanted \in 0..DeviceSectors /\ command.base \in Int
    BY <1>1, WriteTypes DEF WriteInRange
  <2>2. WriteTypeOK' /\ Fresh' /\ WriteInRange' /\ Hashed'
    BY <1>1, <1>3 DEF WriteTypeOK, Final, Fresh, WriteInRange, Hashed, WholeLength
  <2>3. Settled'
    <3>1. \A k \in 1..Wanted : disk[k] = command.base + k - 1
      BY <1>1 DEF Hashed
    <3> QED BY <1>1, <1>3, <2>1, <3>1 DEF Settled
  <2>4. Verified' /\ WrittenVerifies' /\ PlacedRight' /\ Placed(flushed)'
    BY <1>1, <1>3 DEF Verified, WrittenVerifies, PlacedRight, Placed
  <2> QED BY <2>2, <2>3, <2>4
<1> QED BY <1>2, <1>3 DEF Fsync

LEMMA CheckVerifyInv == WriteInv /\ CheckVerify => WriteInv'
<1> SUFFICES ASSUME WriteInv, CheckVerify PROVE WriteInv'
  OBVIOUS
<1> USE DEF WriteInv
<1>1. /\ command' = command /\ disk' = disk /\ commands' = commands
      /\ writable' = writable /\ asked' = asked /\ flushed' = flushed
      /\ sector' = sector /\ digest' = digest /\ intact' = intact
      /\ pc = "check" /\ command.name = "verify" /\ Wanted' = Wanted
  BY DEF CheckVerify, Wanted
<1>2. CASE pc' = "refused"
  BY <1>1, <1>2 DEF WriteTypeOK, Final, Fresh, WriteInRange, Hashed, Settled,
     Verified, PlacedRight, Placed, WrittenVerifies
<1>3. CASE /\ pc' = "verify" /\ WholeLength
           /\ command.start * SectorBytes + command.bytes
                <= DeviceSectors * SectorBytes
  <2>1. Wanted \in Nat /\ command.start + Wanted <= DeviceSectors
    BY <1>1, <1>3, WriteTypes, RangeEnds DEF WholeLength, Wanted
  <2>2. sector = 0
    BY <1>1 DEF Fresh
  <2>3. Verified'
    BY <1>1, <1>3, <2>1, <2>2 DEF Verified, WholeLength
  <2> QED BY <1>1, <1>3, <2>3 DEF WriteTypeOK, Fresh, WriteInRange, Hashed, Settled,
        PlacedRight, Placed, WrittenVerifies
<1> QED BY <1>2, <1>3 DEF CheckVerify

LEMMA VerifyInv == WriteInv /\ Verify => WriteInv'
<1> SUFFICES ASSUME WriteInv, Verify PROVE WriteInv'
  OBVIOUS
<1> USE DEF WriteInv
<1>1. /\ command' = command /\ disk' = disk /\ commands' = commands
      /\ writable' = writable /\ asked' = asked /\ flushed' = flushed
      /\ digest' = digest /\ intact' = intact
      /\ pc = "verify" /\ Wanted' = Wanted
      /\ \A k : Expected(k)' = Expected(k)
  BY DEF Verify, Wanted, Expected
<1>2. /\ command.name = "verify" /\ WholeLength
      /\ command.start + Wanted <= DeviceSectors /\ sector <= Wanted
  BY <1>1 DEF Verified
<1>3. /\ sector \in Nat /\ DeviceSectors \in Nat /\ Wanted \in Int
      /\ command.start \in Int /\ command.base \in Int \cup {None}
      /\ disk \in [1..DeviceSectors -> Content]
      /\ None \notin Int /\ Old \notin Int /\ Torn \notin Int
  BY <1>2, WriteTypes
<1>4. \A k \in Nat : Expected(k) \in Int /\ Expected(k) = Expected(0) + k
  BY <1>3 DEF Expected
<1>5. UNCHANGED <<disk, flushed>> => PlacedRight' /\ Placed(flushed)'
  BY <1>1 DEF PlacedRight, Placed
<1>6. CASE sector = Wanted /\ pc' = "verified" /\ sector' = sector
  <2>1. Verified'
    BY <1>1, <1>2, <1>3, <1>6 DEF Verified, WholeLength
  <2> QED BY <1>1, <1>5, <1>6, <2>1 DEF WriteTypeOK, Final, Fresh, WriteInRange,
        Hashed, Settled, WrittenVerifies
<1>7. ASSUME Here \in DOMAIN disk PROVE command.start >= 0
  <2>1. Here \in 1..DeviceSectors
    BY <1>3, <1>7
  <2>2. CASE sector = 0
    BY <1>3, <2>1, <2>2 DEF Here
  <2>3. CASE sector > 0
    BY <1>1, <2>3 DEF Verified
  <2> QED BY <1>3, <2>2, <2>3
<1>8. CASE /\ sector < Wanted /\ Here \in DOMAIN disk
           /\ sector' = sector + 1 /\ pc' = pc /\ disk[Here] = Expected(sector)
  <2> DEFINE at == command.start + sector + 1
  <2>1. at \in 1..DeviceSectors /\ sector < Wanted /\ at = Here
    BY <1>3, <1>8 DEF Here
  <2>2. disk[at] # Old /\ disk[at] # Torn
    BY <1>3, <1>4, <1>8, <2>1
  <2>3. PICK w \in asked : at <= w[1] /\ disk[at] = w[2] + at - 1
    BY <1>3, <2>1, <2>2 DEF PlacedRight, Placed
  <2>4. w \in Nat \X Int
    BY <2>3 DEF Verified
  <2>5. command.start + sector < w[1] /\ w[2] + command.start + sector = Expected(sector)
    BY <1>3, <1>8, <2>1, <2>3, <2>4
  <2>6. \A k \in 0..sector : \E v \in asked :
          /\ command.start + k < v[1]
          /\ v[2] + command.start + k = Expected(k)
    <3> SUFFICES ASSUME NEW k \in 0..sector
                 PROVE  \E v \in asked : /\ command.start + k < v[1]
                                         /\ v[2] + command.start + k = Expected(k)
      OBVIOUS
    <3>1. CASE k = sector
      BY <2>5, <3>1
    <3>2. CASE k \in 0..(sector - 1)
      BY <1>1, <3>2 DEF Verified
    <3> QED BY <1>3, <3>1, <3>2
  <2>7. Verified'
    <3>1. asked' \subseteq Nat \X Int /\ sector' <= Wanted /\ sector' - 1 = sector
      BY <1>1, <1>3, <1>8, <2>1 DEF Verified
    <3>2. WholeLength'
      BY <1>1, <1>2 DEF WholeLength
    <3>3. command.start >= 0
      BY <1>7, <1>8
    <3> QED BY <1>1, <1>2, <1>8, <2>6, <3>1, <3>2, <3>3 DEF Verified
  <2>8. sector' \in 0..DeviceSectors
    BY <1>2, <1>3, <1>7, <1>8, <2>1
  <2> QED BY <1>1, <1>5, <1>8, <2>7, <2>8 DEF WriteTypeOK, Fresh, WriteInRange,
        Hashed, Settled, WrittenVerifies
<1>9. CASE /\ sector < Wanted /\ Here \in DOMAIN disk
           /\ sector' = sector /\ pc' = "mismatch" /\ disk[Here] # Expected(sector)
  <2>0. command.start >= 0
    BY <1>7, <1>9
  <2>1. Verified'
    BY <1>1, <1>2, <1>9, <2>0 DEF Verified, WholeLength
  <2>2. WrittenVerifies'
    <3> SUFFICES ASSUME intact # None, command.start + Wanted <= intact.sectors,
                        Expected(0) = intact.base + command.start
                 PROVE  FALSE
      BY <1>1 DEF WrittenVerifies
    <3>1. /\ intact \in [sectors : 0..DeviceSectors, base : Int]
          /\ \A k \in 1..intact.sectors : disk[k] = intact.base + k - 1
      BY DEF Settled
    <3>2. command.start + sector + 1 \in 1..intact.sectors
      BY <1>3, <1>9, <2>0, <3>1
    <3>3. disk[command.start + sector + 1] = intact.base + command.start + sector
      BY <1>3, <3>1, <3>2
    <3>4. Expected(sector) = intact.base + command.start + sector
      BY <1>3, <1>4, <3>1
    <3> QED BY <1>9, <3>3, <3>4 DEF Here
  <2> QED BY <1>1, <1>5, <1>9, <2>1, <2>2 DEF WriteTypeOK, Final, Fresh, WriteInRange,
        Hashed, Settled
<1> QED BY <1>6, <1>8, <1>9 DEF Verify

(* A read that fails says nothing of the output. *)
LEMMA VerifyFailsInv == WriteInv /\ VerifyFails => WriteInv'
<1> SUFFICES ASSUME WriteInv, VerifyFails PROVE WriteInv'
  OBVIOUS
<1>1. /\ UNCHANGED <<disk, flushed, writable, command, sector, digest, intact, asked,
                      commands>>
      /\ pc' \in {"failed", "crashed"}
  BY DEF VerifyFails
<1> QED BY <1>1 DEF WriteInv, WriteTypeOK, Final, Fresh, WriteInRange, Hashed, Settled,
     Verified, PlacedRight, Placed, WrittenVerifies

LEMMA NextCommandInv == WriteInv /\ NextCommand => WriteInv'
<1> SUFFICES ASSUME WriteInv, NextCommand PROVE WriteInv'
  OBVIOUS
<1>1. WriteTypeOK'
  BY PatternWriteAssumption DEF WriteInv, WriteTypeOK, NextCommand
<1> QED BY <1>1 DEF WriteInv, NextCommand, Fresh, WriteInRange, Hashed, Settled,
          Verified, PlacedRight, Placed, WrittenVerifies

(* What was flushed was placed as rightly as what was not, and where the   *)
(* two are the same a power cut changes nothing.                           *)
LEMMA PowerCutInv == WriteInv /\ PowerCut => WriteInv'
<1> SUFFICES ASSUME WriteInv, PowerCut PROVE WriteInv'
  OBVIOUS
<1> USE DEF WriteInv
<1>1. /\ command' = command /\ commands' = commands /\ writable' = writable
      /\ asked' = asked /\ sector' = sector /\ digest' = digest
      /\ intact' = intact /\ flushed' = disk' /\ Wanted' = Wanted
      /\ pc' = IF pc \in Final THEN pc ELSE "killed"
      /\ \A k : Expected(k)' = Expected(k)
  BY DEF PowerCut, Wanted, Expected
<1>2. PICK lost \in SUBSET {k \in DOMAIN disk : disk[k] # flushed[k]} :
        disk' = [k \in DOMAIN disk |-> IF k \in lost THEN flushed[k] ELSE disk[k]]
  BY DEF PowerCut
<1>3. /\ disk \in [1..DeviceSectors -> Content]
      /\ flushed \in [1..DeviceSectors -> Content]
  BY WriteTypes
<1>4. disk' \in [1..DeviceSectors -> Content]
  BY <1>2, <1>3
<1>5. Placed(disk')
  BY <1>2, <1>3 DEF PlacedRight, Placed
<1>6. ASSUME disk = flushed PROVE disk' = disk
  BY <1>2, <1>3, <1>6
<1>7. WriteTypeOK' /\ Fresh'
  BY <1>1, <1>4 DEF WriteTypeOK, Final, Fresh
<1>8. pc' = "done" => pc = "done"
  BY <1>1
<1>9. WriteInRange' /\ Hashed'
  <2>1. pc = "done" => disk' = disk
    BY <1>6 DEF Settled
  <2> QED BY <1>1, <1>8, <2>1 DEF Final, WriteInRange, Hashed, WholeLength
<1>10. Settled'
  BY <1>1, <1>6 DEF Final, Settled
<1>11. Verified' /\ WrittenVerifies'
  BY <1>1 DEF Final, Verified, WrittenVerifies, WholeLength
<1>12. PlacedRight' /\ Placed(flushed)'
  BY <1>1, <1>5 DEF PlacedRight, Placed
<1> QED BY <1>7, <1>9, <1>10, <1>11, <1>12

LEMMA WriteNextInv == WriteInv /\ [WriteNext]_writeVars => WriteInv'
<1> SUFFICES ASSUME WriteInv, [WriteNext]_writeVars PROVE WriteInv'
  OBVIOUS
<1>1. CASE UNCHANGED writeVars
  BY <1>1 DEF WriteInv, writeVars, WriteTypeOK, Fresh, WriteInRange, Hashed,
     Settled, Verified, PlacedRight, Placed, WrittenVerifies, WholeLength, Wanted,
     Expected
<1> QED BY <1>1, CheckWriteInv, WriteChunkInv, WriteShortInv, FsyncInv,
          CheckVerifyInv, VerifyInv, VerifyFailsInv, NextCommandInv, PowerCutInv DEF WriteNext

(* The invariant of write and verify, for outputs, chunks, ranges and LBAs *)
(* of any size and any number of commands.                                 *)
THEOREM WriteInvariance == WriteSpec => []WriteInv
BY WriteInitInv, WriteNextInv, PTL DEF WriteSpec

(* A write cut off anywhere, by a kill or the power, leaves no LBA out of  *)
(* its place: raid_pattern.py 111-128.                                     *)
THEOREM LbasInPlace == WriteSpec => []PlacedRight
<1>1. WriteInv => PlacedRight
  BY DEF WriteInv
<1> QED BY <1>1, WriteInvariance, PTL

(* The digest printed is of the bytes on the output, and these outlast     *)
(* power cuts and verifications: raid_pattern.py 121-137.                  *)
THEOREM DoneWriteLasts == WriteSpec => []DoneIsDurable
<1>1. WriteInv => DoneIsDurable
  <2> SUFFICES ASSUME WriteInv PROVE DoneIsDurable
    OBVIOUS
  <2> USE DEF WriteInv
  <2>1. ASSUME pc = "done" PROVE digest = SubSeq(disk, 1, Wanted)
    <3>1. /\ sector = Wanted /\ Len(digest) = sector /\ Wanted <= DeviceSectors
          /\ \A k \in 1..sector : disk[k] = digest[k]
      BY <2>1 DEF Settled, Hashed, WriteInRange
    <3>2. /\ digest \in Seq(0..MaxLba) /\ sector \in Nat /\ DeviceSectors \in Nat
          /\ disk \in [1..DeviceSectors -> Content]
      BY WriteTypes DEF WriteTypeOK
    <3>3. SubSeq(disk, 1, Wanted) = [k \in 1..Wanted |-> disk[k]]
      BY <3>1, <3>2, SubSeqProperties
    <3>4. digest = [k \in 1..Wanted |-> digest[k]]
      BY <3>1, <3>2
    <3> QED BY <3>1, <3>3, <3>4
  <2> QED BY <2>1 DEF Settled, DoneIsDurable
<1> QED BY <1>1, WriteInvariance, PTL

(* What verify accepts was written, sector by sector, as asked for:        *)
(* raid_pattern.py 148-166.                                                *)
THEOREM VerifiedWasWritten == WriteSpec => []VerifiedIsWritten
<1>1. WriteInv => VerifiedIsWritten
  BY DEF WriteInv, Verified, VerifiedIsWritten
<1> QED BY <1>1, WriteInvariance, PTL

(* A finished write passes every verify that knows its base.               *)
THEOREM WrittenIsVerified == WriteSpec => []WrittenVerifies
<1>1. WriteInv => WrittenVerifies
  BY DEF WriteInv
<1> QED BY <1>1, WriteInvariance, PTL

-----------------------------------------------------------------------------
(* Write and verify implement the output their user sees.                  *)

requestOf ==
  IF command.name = "write"
  THEN [name |-> "write", start |-> 0, sectors |-> Wanted, base |-> command.base]
  ELSE [name |-> "verify", start |-> command.start, sectors |-> Wanted,
        base |-> Expected(0)]
verdictOf == IF pc \in {"check", "verify"} THEN "asked"
             ELSE IF pc = "write" THEN "writing" ELSE pc

LEMMA ComparedNext == WriteInv /\ Compared /\ [WriteNext]_writeVars => Compared'
<1> SUFFICES ASSUME WriteInv, Compared, [WriteNext]_writeVars, pc' = "verify"
             PROVE  \A k \in 0..(sector' - 1) :
                      disk'[command'.start + k + 1] = Expected(k)'
  BY DEF Compared
<1>1. CASE CheckVerify
  <2>1. sector' = 0
    BY <1>1 DEF CheckVerify, WriteInv, Fresh
  <2> QED BY <2>1
<1>2. CASE Verify
  <2>1. /\ command' = command /\ disk' = disk /\ pc = "verify" /\ sector' = sector + 1
        /\ disk[command.start + sector + 1] = Expected(sector)
    BY <1>2 DEF Verify, Here
  <2>2. sector \in Nat
    BY WriteTypes DEF WriteInv
  <2>3. ASSUME NEW k \in 0..(sector' - 1)
        PROVE  disk[command.start + k + 1] = Expected(k)
    <3>1. CASE k = sector
      BY <2>1, <3>1
    <3>2. CASE k \in 0..(sector - 1)
      BY <2>1, <3>2 DEF Compared
    <3> QED BY <2>1, <2>2, <2>3, <3>1, <3>2
  <2> QED BY <2>1, <2>3 DEF Expected
<1>3. CASE UNCHANGED writeVars
  BY <1>3 DEF writeVars, Compared, Expected
<1> QED BY <1>1, <1>2, <1>3
     DEF WriteNext, CheckWrite, WriteChunk, WriteShort, Fsync, VerifyFails,
         NextCommand, PowerCut, Final

(* What a command asks for, in the terms of the abstract output.           *)
LEMMA WriteRequest ==
  ASSUME WriteInv, command.name = "write"
  PROVE  /\ Output!Range = 1..Wanted
         /\ \A k \in Int : Output!Due(k) = command.base + k - 1
<1>1. Wanted \in Int /\ command.base \in Int
  BY WriteTypes DEF WriteInv
<1>2. Output!Range = (0 + 1)..(0 + Wanted)
  BY DEF Output!Range
<1>3. \A k : Output!Due(k) = command.base + (k - 0 - 1)
  BY DEF Output!Due
<1> QED BY <1>1, <1>2, <1>3

LEMMA VerifyRequest ==
  ASSUME WriteInv, command.name = "verify"
  PROVE  /\ Output!Range = (command.start + 1)..(command.start + Wanted)
         /\ \A k \in Int : k > command.start =>
              Output!Due(k) = Expected(k - command.start - 1)
<1>1. /\ Wanted \in Int /\ command.start \in Int
      /\ command.base \in Int \cup {None} /\ None \notin Int
  BY WriteTypes DEF WriteInv
<1>2. Output!Range = (command.start + 1)..(command.start + Wanted)
  BY DEF Output!Range
<1>3. \A k : Output!Due(k) = Expected(0) + (k - command.start - 1)
  BY DEF Output!Due
<1>4. \A k \in Nat : Expected(k) = Expected(0) + k
  BY <1>1 DEF Expected
<1>5. \A k \in Int : k > command.start => k - command.start - 1 \in Nat
  BY <1>1
<1> QED BY <1>2, <1>3, <1>4, <1>5

(* A write that got to writing has a sector to write. *)
LEMMA WriteUnderWay ==
  ASSUME WriteInv, pc = "write"
  PROVE  /\ command.name = "write" /\ Wanted \in Nat \ {0} /\ Wanted <= DeviceSectors
         /\ DOMAIN disk = 1..DeviceSectors /\ DeviceSectors \in Nat
<1>1. /\ command.name = "write" /\ WholeLength /\ Wanted <= DeviceSectors
  BY DEF WriteInv, WriteInRange
<1>2. disk \in [1..DeviceSectors -> Content] /\ DeviceSectors \in Nat
  BY WriteTypes DEF WriteInv
<1> QED BY <1>1, <1>2, WantedPositive DEF WriteInv

(* A part of the next chunk leaves each sector alone or gives it its LBA.  *)
LEMMA TakenPuts ==
  ASSUME WriteInv, pc = "write", sector < Wanted, NEW n \in 0..Count
  PROVE  /\ DOMAIN Taken(n) = DOMAIN disk
         /\ \A k \in DOMAIN disk :
              \/ Taken(n)[k] = disk[k]
              \/ k \in Output!Range /\ Taken(n)[k] = Output!Due(k)
<1>1. /\ Count \in Nat \ {0} /\ sector + Count <= Wanted /\ command.base \in Nat
      /\ \A k \in 1..Count : Chunk[k] = command.base + sector + k - 1
  BY ChunkFits
<1>2. /\ sector \in Nat /\ DOMAIN disk = 1..DeviceSectors /\ DeviceSectors \in Nat
      /\ Wanted \in Nat
  BY WriteTypes, WriteUnderWay DEF WriteInv
<1>3. /\ Output!Range = 1..Wanted
      /\ \A k \in Int : Output!Due(k) = command.base + k - 1
  BY WriteUnderWay, WriteRequest
<1>4. ASSUME NEW k \in DOMAIN disk, k - sector \in 1..n
      PROVE  k \in 1..Wanted /\ Taken(n)[k] = command.base + k - 1
  <2>1. k \in 1..Wanted /\ k - sector \in 1..Count
    BY <1>1, <1>2, <1>4
  <2>2. Taken(n)[k] = command.base + sector + (k - sector) - 1
    BY <1>1, <1>4, <2>1 DEF Taken
  <2> QED BY <1>1, <1>2, <2>1, <2>2
<1>5. \A k \in DOMAIN disk : k - sector \notin 1..n => Taken(n)[k] = disk[k]
  BY DEF Taken
<1>6. DOMAIN Taken(n) = DOMAIN disk
  BY DEF Taken
<1> QED BY <1>2, <1>3, <1>4, <1>5, <1>6

LEMMA Within ==
  ASSUME NEW from \in Int, NEW n \in Nat, NEW m \in Nat, n < m
  PROVE  /\ from + n + 1 \in (from + 1)..(from + m)
         /\ from + n + 1 > from /\ (from + n + 1) - from - 1 = n
OBVIOUS

LEMMA OutputStep ==
  WriteInv /\ Compared /\ [WriteNext]_writeVars
    => [Output!Next]_<<disk, flushed, requestOf, verdictOf>>
<1> SUFFICES ASSUME WriteInv, Compared, [WriteNext]_writeVars
             PROVE  [Output!Next]_<<disk, flushed, requestOf, verdictOf>>
  OBVIOUS
<1>0. command' = command => requestOf' = requestOf
  BY DEF requestOf, Wanted, Expected
<1>1. CASE CheckWrite
  <2>1. /\ pc = "check" /\ command.name = "write"
        /\ UNCHANGED <<disk, flushed, command, sector>>
        /\ pc' \in {"write", "refused"}
    BY <1>1 DEF CheckWrite
  <2>2. CASE pc' = "refused"
    BY <1>0, <2>1, <2>2 DEF Output!Next, Output!Refuse, verdictOf, requestOf
  <2>3. CASE pc' = "write"
    <3>1. Output!Range \subseteq DOMAIN disk
      <4>1. (WriteInv /\ pc = "write")'
        BY <1>1, <2>3, CheckWriteInv
      <4>2. Wanted' <= DeviceSectors /\ Wanted' = Wanted
        BY <2>1, <4>1 DEF WriteInv, WriteInRange, Wanted
      <4>3. /\ Wanted \in Int /\ DeviceSectors \in Nat
            /\ disk \in [1..DeviceSectors -> Content]
        BY WriteTypes DEF WriteInv
      <4> QED BY <2>1, <4>2, <4>3, WriteRequest
    <3> QED BY <1>0, <2>1, <2>3, <3>1 DEF Output!Next, Output!Begin, verdictOf, requestOf
  <2> QED BY <2>1, <2>2, <2>3
<1>2. CASE WriteChunk
  <2>1. /\ pc = "write" /\ sector < Wanted /\ UNCHANGED <<flushed, command>>
    BY <1>2 DEF WriteChunk
  <2>2. CASE pc' = pc /\ disk' = Taken(Count)
    <3>1. Count \in 0..Count
      BY <2>1, ChunkFits
    <3>2. /\ DOMAIN disk' = DOMAIN disk
          /\ \A k \in DOMAIN disk :
               \/ disk'[k] = disk[k]
               \/ k \in Output!Range /\ disk'[k] = Output!Due(k)
      BY <2>1, <2>2, <3>1, TakenPuts
    <3>3. Output!Put
      BY <1>0, <2>1, <2>2, <3>2
         DEF Output!Put, Output!LeftOrPut, verdictOf, requestOf
    <3> QED BY <3>3 DEF Output!Next
  <2>3. CASE pc' = "crashed" /\ disk' = disk
    <3>1. 1 \in Output!Range
      BY <2>1, WriteUnderWay, WriteRequest
    <3>2. Output!BreakOff
      BY <1>0, <2>1, <2>3, <3>1
         DEF Output!BreakOff, Output!LeftOrPut, verdictOf, requestOf
    <3> QED BY <3>2 DEF Output!Next
  <2> QED BY <1>2, <2>2, <2>3 DEF WriteChunk
<1>3. CASE WriteShort
  <2>1. /\ pc = "write" /\ sector < Wanted /\ UNCHANGED <<flushed, command>>
        /\ pc' \in {"failed", "killed"}
    BY <1>3 DEF WriteShort
  <2>2. PICK n \in 0..(Count - 1) :
          \/ disk' = Taken(n)
          \/ disk' = [Taken(n) EXCEPT ![sector + n + 1] = Torn]
    BY <1>3 DEF WriteShort
  <2> DEFINE hit == sector + n + 1
  <2>3. n \in 0..Count /\ hit \in 1..Wanted
    <3>1. /\ Count \in Nat \ {0} /\ sector + Count <= Wanted /\ sector \in Nat
          /\ Wanted \in Int
      BY <2>1, ChunkFits, WriteTypes DEF WriteInv
    <3> QED BY <2>2, <3>1
  <2>4. hit \in Output!Range
    BY <2>1, <2>3, WriteUnderWay, WriteRequest
  <2>5. /\ DOMAIN Taken(n) = DOMAIN disk
        /\ \A k \in DOMAIN disk :
             \/ Taken(n)[k] = disk[k]
             \/ k \in Output!Range /\ Taken(n)[k] = Output!Due(k)
    BY <2>1, <2>3, TakenPuts
  <2> HIDE DEF hit
  <2>6. /\ DOMAIN disk' = DOMAIN disk
        /\ \A k \in DOMAIN disk :
             \/ disk'[k] = disk[k]
             \/ k \in Output!Range /\ disk'[k] = Output!Due(k)
             \/ k = hit /\ disk'[k] = Torn
    <3>1. CASE disk' = Taken(n)
      BY <2>5, <3>1
    <3>2. CASE disk' = [Taken(n) EXCEPT ![hit] = Torn]
      BY <2>5, <3>2
    <3> QED BY <2>2, <3>1, <3>2 DEF hit
  <2>7. Output!BreakOff
    BY <1>0, <2>1, <2>4, <2>6
       DEF Output!BreakOff, Output!LeftOrPut, verdictOf, requestOf
  <2> QED BY <2>7 DEF Output!Next
<1>4. CASE Fsync
  <2>1. pc = "write" /\ sector = Wanted /\ UNCHANGED <<disk, command>>
    BY <1>4 DEF Fsync
  <2>2. CASE pc' = "failed" /\ flushed' = flushed
    <3>1. 1 \in Output!Range
      BY <2>1, WriteUnderWay, WriteRequest
    <3>2. Output!BreakOff
      BY <1>0, <2>1, <2>2, <3>1
         DEF Output!BreakOff, Output!LeftOrPut, verdictOf, requestOf
    <3> QED BY <3>2 DEF Output!Next
  <2>3. CASE pc' = "done" /\ flushed' = disk
    <3>1. Output!Holds
      <4>1. \A k \in 1..Wanted : disk[k] = command.base + k - 1
        BY <2>1 DEF WriteInv, Hashed
      <4>2. /\ Output!Range = 1..Wanted
            /\ \A k \in Int : Output!Due(k) = command.base + k - 1
        BY <2>1, WriteUnderWay, WriteRequest
      <4> QED BY <4>1, <4>2 DEF Output!Holds
    <3>2. Output!Finish
      BY <1>0, <2>1, <2>3, <3>1 DEF Output!Finish, verdictOf, requestOf
    <3> QED BY <3>2 DEF Output!Next
  <2> QED BY <1>4, <2>2, <2>3 DEF Fsync
<1>5. CASE CheckVerify
  <2>1. /\ pc = "check" /\ UNCHANGED <<disk, flushed, command>>
        /\ pc' \in {"verify", "refused"}
    BY <1>5 DEF CheckVerify
  <2>2. CASE pc' = "refused"
    BY <1>0, <2>1, <2>2 DEF Output!Next, Output!Refuse, verdictOf, requestOf
  <2>3. CASE pc' = "verify"
    BY <1>0, <2>1, <2>3 DEF verdictOf
  <2> QED BY <2>1, <2>2, <2>3
<1>6. CASE Verify
  <2>1. pc = "verify" /\ UNCHANGED <<disk, flushed, command>>
    BY <1>6 DEF Verify
  <2>2. /\ command.name = "verify" /\ sector \in Nat /\ sector <= Wanted
        /\ command.start \in Int /\ command.start + Wanted <= DeviceSectors
        /\ disk \in [1..DeviceSectors -> Content] /\ DeviceSectors \in Nat
        /\ Wanted \in Nat \ {0}
        /\ sector > 0 => command.start >= 0
    BY <2>1, WriteTypes, WantedPositive DEF WriteInv, Verified
  <2>3. /\ Output!Range = (command.start + 1)..(command.start + Wanted)
        /\ \A k \in Int : k > command.start =>
             Output!Due(k) = Expected(k - command.start - 1)
    BY <2>2, VerifyRequest
  <2>4. ASSUME command.start >= 0 PROVE Output!Range \subseteq DOMAIN disk
    BY <2>2, <2>3, <2>4
  <2>5. CASE pc' = pc
    BY <1>0, <2>1, <2>5 DEF verdictOf
  <2>6. CASE sector = Wanted /\ pc' = "verified"
    <3>1. Output!Holds
      <4> SUFFICES ASSUME NEW k \in Output!Range PROVE disk[k] = Output!Due(k)
        BY DEF Output!Holds
      <4> DEFINE j == k - command.start - 1
      <4>1. /\ k \in Int /\ k > command.start /\ j \in 0..(sector - 1)
            /\ command.start + j + 1 = k
        <5>1. k \in (command.start + 1)..(command.start + sector)
          BY <2>3, <2>6
        <5> QED BY <2>2, <5>1
      <4>2. disk[command.start + j + 1] = Expected(j)
        BY <2>1, <4>1 DEF Compared
      <4>3. Output!Due(k) = Expected(j)
        BY <2>3, <4>1
      <4> QED BY <4>1, <4>2, <4>3
    <3>2. Output!Compare
      BY <1>0, <2>1, <2>2, <2>4, <2>6, <3>1, sector > 0
         DEF Output!Compare, verdictOf, requestOf
    <3> QED BY <3>2 DEF Output!Next
  <2>7. CASE /\ sector < Wanted /\ Here \in DOMAIN disk /\ pc' = "mismatch"
             /\ disk[Here] # Expected(sector)
    <3>0. command.start >= 0
      BY <2>2, <2>7 DEF Here
    <3>1. ~Output!Holds
      <4> DEFINE k == command.start + sector + 1
      <4>1. k \in (command.start + 1)..(command.start + Wanted)
            /\ k > command.start /\ k - command.start - 1 = sector
        <5>1. sector < Wanted /\ Wanted \in Nat /\ sector \in Nat
          BY <2>2, <2>7
        <5> QED BY <2>2, <5>1, Within
      <4>2. disk[k] # Output!Due(k)
        BY <2>3, <2>7, <4>1 DEF Here
      <4> QED BY <2>3, <4>1, <4>2 DEF Output!Holds
    <3>2. Output!Compare
      BY <1>0, <2>1, <2>2, <2>4, <2>7, <3>0, <3>1
         DEF Output!Compare, verdictOf, requestOf
    <3> QED BY <3>2 DEF Output!Next
  <2> QED BY <1>6, <2>5, <2>6, <2>7 DEF Verify
<1>7. CASE NextCommand
  <2>1. pc \in Final /\ pc' = "check" /\ disk' = disk /\ flushed' = flushed
    BY <1>7 DEF NextCommand
  <2> QED BY <2>1 DEF Output!Next, Output!Ask, Output!Ended, verdictOf, Final
<1>8. CASE PowerCut
  <2>1. PICK lost \in SUBSET {k \in DOMAIN disk : disk[k] # flushed[k]} :
          disk' = [k \in DOMAIN disk |-> IF k \in lost THEN flushed[k] ELSE disk[k]]
    BY <1>8 DEF PowerCut
  <2>2. /\ flushed' = disk' /\ command' = command
        /\ pc' = IF pc \in Final THEN pc ELSE "killed"
    BY <1>8 DEF PowerCut
  <2>3. /\ DOMAIN disk' = DOMAIN disk
        /\ \A k \in DOMAIN disk : disk'[k] \in {disk[k], flushed[k]}
    BY <2>1
  <2>4. verdictOf' = IF verdictOf \in Output!Ended THEN verdictOf ELSE "killed"
    BY <2>2 DEF verdictOf, Output!Ended, Final
  <2> QED BY <1>0, <2>2, <2>3, <2>4
       DEF Output!Next, Output!Cut, Output!Ended, verdictOf, requestOf
<1>9. CASE VerifyFails
  <2>1. /\ pc = "verify" /\ UNCHANGED <<disk, flushed, command>>
        /\ pc' \in {"failed", "crashed"}
    BY <1>9 DEF VerifyFails
  <2> QED BY <1>0, <2>1 DEF Output!Next, Output!Refuse, verdictOf, requestOf
<1>10. CASE UNCHANGED writeVars
  BY <1>0, <1>10 DEF writeVars, verdictOf
<1> QED BY <1>1, <1>2, <1>3, <1>4, <1>5, <1>6, <1>7, <1>8, <1>9, <1>10 DEF WriteNext

(* Refinement: the chunks, the page cache and the loop of verify do not    *)
(* show.  A write is done only when all of it is there to stay, one that   *)
(* breaks off has touched its own range only, and what a verify says is so *)
(* of its whole range at once: raid_pattern.py 111-137, 148-166.           *)
THEOREM ImplementsOutput == WriteSpec => OutputSpec
<1>1. WriteInit => Output!Init
  BY DEF WriteInit, Output!Init
<1>2. WriteInit => Compared
  BY DEF WriteInit, Compared
<1> QED BY <1>1, <1>2, ComparedNext, OutputStep, WriteInvariance, PTL
     DEF WriteSpec, OutputSpec, Output!Spec, Output!vars, requestOf, verdictOf
===============================================================================
