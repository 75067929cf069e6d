---------------------------- MODULE MCOutputGuard ----------------------------
(***************************************************************************)
(* A disk with two partitions, a second disk, and a logical volume that    *)
(* spans the second partition and the second disk; and a disk that is also *)
(* reached through a multipath map with a partition of its own.            *)
(***************************************************************************)
EXTENDS OutputGuard, TLC

MCDevices == {"sda", "sda1", "sda2", "sdb", "dm0"}

Spanning ==
  [type  |-> "sda" :> "disk" @@ "sda1" :> "part" @@ "sda2" :> "part"
               @@ "sdb" :> "disk" @@ "dm0" :> "lvm",
   on    |-> {<<"sda", "sda1">>, <<"sda", "sda2">>, <<"sda2", "dm0">>,
              <<"sdb", "dm0">>},
   cells |-> "sda" :> {1, 2} @@ "sda1" :> {1} @@ "sda2" :> {2}
               @@ "sdb" :> {3} @@ "dm0" :> {2, 3}]

(* Here sda2 is the partition of the map. *)
Multipath ==
  [type  |-> [Spanning.type EXCEPT !["dm0"] = "mpath"],
   on    |-> {<<"sda", "sda1">>, <<"sda", "dm0">>, <<"dm0", "sda2">>},
   cells |-> [Spanning.cells EXCEPT !["dm0"] = {1, 2}, !["sda2"] = {1}]]

MCWorlds == {Spanning, Multipath}
MCOneWorld == {Spanning}
===============================================================================
