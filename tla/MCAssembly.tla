------------------------------ MODULE MCAssembly ------------------------------
(***************************************************************************)
(* What TLC finds attached: whole and partial Raid Sets of every level,    *)
(* two sets mixed, and metadata that contradict themselves.  A sector is   *)
(* two bytes, and member data begin at sector 8.                           *)
(***************************************************************************)
EXTENDS Assembly, TLC

MCNames == {"sda", "sdb", "sdc", "sdd"}

Volume(name, code, units, sectors, volumeIndex) ==
  [name |-> name, sectors |-> sectors, sectorsCopy |-> sectors,
   units |-> units, unitsCopy |-> units, stripe |-> 1, stripeCopy |-> 1,
   code |-> code, codeCopy |-> code, volumeIndex |-> volumeIndex]

Drive(label, count, index, records) ==
  [size |-> 24, signed |-> TRUE, label |-> label, count |-> count,
   index |-> index, records |-> records, gpt |-> {}]

Attach(a, b, c, d) ==
  "sda" :> a @@ "sdb" :> b @@ "sdc" :> c @@ "sdd" :> d

(* The members of one Raid Set, in an order that is not theirs. *)
Set(count, records) ==
  Attach(Drive("set", count, 2, records), Drive("set", count, 0, records),
         Drive("set", count, 3, records), Drive("set", count, 1, records))

(* Disks of the wrong kind replace those of a set. *)
Mirror(label, i) == Drive(label, 2, i, <<Volume("a", 1, 0, 3, 0)>>)

Contradicting ==
  { [Volume("a", 0, 0, 4, 0) EXCEPT !.sectorsCopy = 9],
    [Volume("a", 0, 0, 4, 0) EXCEPT !.unitsCopy = 1],
    [Volume("a", 0, 0, 4, 0) EXCEPT !.stripe = 0, !.stripeCopy = 0],
    [Volume("a", 0, 0, 4, 0) EXCEPT !.stripeCopy = 2],
    [Volume("a", 0, 0, 4, 0) EXCEPT !.codeCopy = 1],
    Volume("a", 4, 0, 4, 0) }

MCBenches ==
  { Set(4, <<Volume("a", 1, 0, 4, 0), Volume("b", 0, 1, 4, 1)>>),
    Set(4, <<Volume("a", 3, 0, 4, 0), Volume("a", 2, 1, 3, 2)>>),
    [Set(4, <<Volume("a", 3, 0, 4, 0)>>) EXCEPT !["sdb"].size = 18],
    Set(3, <<Volume("a", 2, 0, 4, 0)>>),
    [Set(4, <<Volume("a", 0, 0, 4, 0)>>) EXCEPT !["sda"].signed = FALSE],
    [Set(4, <<Volume("a", 2, 0, 6, 0)>>) EXCEPT !["sda"].gpt = {3},
                                               !["sdc"].gpt = {3, 8}],
    [Set(4, <<Volume("a", 0, 0, 4, 0)>>) EXCEPT !["sdd"].size = 16,
                                               !["sdd"].gpt = {8}],
    Attach(Mirror("left", 0), Mirror("right", 1),
           Mirror("left", 1), Mirror("right", 0)),
    Attach(Mirror("left", 0), [Mirror("left", 0) EXCEPT !.size = 20],
           [Mirror("left", 1) EXCEPT !.size = 14], Mirror("left", 2)),
    Attach(Drive("set", 1, 0, <<Volume("a", 2, 0, 4, 0)>>),
           Drive("set", 0, 0, <<Volume("a", 3, 0, 4, 0)>>),
           Drive("set", 0, 0, <<Volume("a", 0, 0, 0, 0)>>),
           Drive("set", 4, 0, <<>>)) }
  \cup {Set(4, <<v>>) : v \in Contradicting}

(* Up to three paths in any order and with repetitions, or all four. *)
MCPaths ==
  UNION {[1..n -> MCNames] : n \in 0..3}
    \cup {p \in [1..4 -> MCNames] : \A j, k \in 1..4 : p[j] = p[k] => j = k}

MCSelectors ==
  {[kind |-> "none"], [kind |-> "name", name |-> "a"]}
    \cup [kind : {"index"}, index : {-1, 1, 2}]
===============================================================================
