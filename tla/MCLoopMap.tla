------------------------------ MODULE MCLoopMap ------------------------------
(***************************************************************************)
(* Members of two-disk sets of every level code, sound and contradictory,  *)
(* long enough and short, beside disks of other sets.  A sector is two     *)
(* bytes, and member data begin at sector 8.                               *)
(***************************************************************************)
EXTENDS LoopMap, TLC

MCNames == {"sda", "sdb"}

Record(code, units, sectors) ==
  [name |-> "a", sectors |-> sectors, sectorsCopy |-> sectors,
   units |-> units, unitsCopy |-> units, stripe |-> 1, stripeCopy |-> 1,
   code |-> code, codeCopy |-> code, volumeIndex |-> 0]

Drive(count, index, records) ==
  [size |-> 24, signed |-> TRUE, label |-> "set", count |-> count,
   index |-> index, records |-> records, gpt |-> {}]

MCDisks ==
  {Drive(2, i, <<Record(c, u, 3)>>) : i \in {0, 1}, c \in 0..4, u \in {0, 1}}
    \cup
  { Drive(2, 0, <<Record(1, 0, 5)>>),
    Drive(4, 1, <<Record(1, 0, 3)>>),
    Drive(1, 0, <<Record(2, 0, 3)>>),
    Drive(2, 3, <<Record(1, 0, 3)>>),
    Drive(2, 0, <<Record(1, 0, 2), Record(1, 1, 2)>>),
    Drive(2, 0, <<[Record(1, 0, 3) EXCEPT !.unitsCopy = 1]>>),
    Drive(2, 0, <<[Record(1, 0, 3) EXCEPT !.codeCopy = 0]>>),
    [Drive(2, 0, <<Record(1, 0, 3)>>) EXCEPT !.gpt = {9}],
    [Drive(2, 0, <<Record(1, 0, 3)>>) EXCEPT !.gpt = {8, 9}],
    [Drive(2, 0, <<Record(1, 0, 3)>>) EXCEPT !.signed = FALSE] }

MCBenches == [MCNames -> MCDisks]
===============================================================================
