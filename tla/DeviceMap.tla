------------------------------- MODULE DeviceMap -------------------------------
(***************************************************************************)
(* `areca_raid.py dm-table` and `create-dm`: ArecaArray.dm_table turns an  *)
(* assembled array into a device-mapper table that names members by path,  *)
(* and dmsetup opens those paths again and maps the volume onto whatever   *)
(* they lead to by then.                                                   *)
(***************************************************************************)
EXTENDS LogicalRead

CONSTANTS
  Arrays,     \* the assembled arrays a command may be run on
  None,
  MaxChanges  \* bound: times a member's path leads elsewhere

ASSUME DeviceMapAssumption ==
  /\ \A a \in Arrays : IsArray(a) /\ a.base % SECTOR_SIZE = 0
  /\ MaxChanges \in Nat

VARIABLES
  array,          \* the assembled array
  command,        \* "dm-table" or "create-dm" ...
  writable, ack,  \*   ... with --writable, --i-understand-writes-...
  pc,             \* the statement the command is at, or how it ended
  unchecked,      \* members the loop of dm_table has not looked at yet
  table,          \* the table dm_table returned
  path,           \* what each member's path leads to ...
  behind,         \*   ... and the member it really is, when it is a device
  mapped,         \* the member each leg was opened on when the map was made
  mode,           \* how the map was made: "none", "readonly" or "writable"
  changes         \* paths changed so far

args == <<array, command, writable, ack>>
env  == <<path, behind, changes>>
vars == <<args, pc, unchecked, table, env, mapped, mode>>

Final == {"printed", "active", "failed"}

Init ==
  /\ array \in Arrays /\ command \in {"dm-table", "create-dm"}
  /\ writable \in BOOLEAN /\ ack \in BOOLEAN
  /\ pc = "capacity" /\ unchecked = Members(array)
  /\ table = None /\ mapped = <<>> /\ mode = "none"
  /\ path \in [Members(array) -> {"block", "file", "relative"}]
  /\ behind = [i \in Members(array) |-> i] /\ changes = 0

-----------------------------------------------------------------------------
(* The table, and what device-mapper makes of one. *)

Leg(a, i) == [member |-> i, start |-> a.base \div SECTOR_SIZE]

(* Mutated: the pairs of a RAID 1+0 set in the other order. *)
LegsSwapped(a) ==
  CASE a.level = "raid1"  -> <<Leg(a, Min(Members(a)))>>
    [] a.level = "raid10" -> <<Leg(a, Min(Members(a) \cap {2, 3})),
                               Leg(a, Min(Members(a) \cap {0, 1}))>>
    [] OTHER              -> [k \in 1..a.count |-> Leg(a, k - 1)]

(* The devices of the table: a copy of every chunk, in stripe order. *)
Legs(a) ==
  CASE a.level = "raid1"  -> <<Leg(a, Min(Members(a)))>>
    [] a.level = "raid10" -> <<Leg(a, Min(Members(a) \cap {0, 1})),
                               Leg(a, Min(Members(a) \cap {2, 3}))>>
    [] OTHER              -> [k \in 1..a.count |-> Leg(a, k - 1)]

Table(a) ==
  [target  |-> IF a.level = "raid1" THEN "linear" ELSE "striped",
   sectors |-> a.logical \div SECTOR_SIZE,
   chunk   |-> a.chunk \div SECTOR_SIZE,
   legs    |-> Legs(a)]

MappedBytes(t) == 0..(t.sectors * SECTOR_SIZE - 1)

(* The linear and striped targets: the leg a byte of the map is on, and at *)
(* which byte of the leg's device.                                         *)
LegOf(t, byte) ==
  IF t.target = "linear" THEN 1
  ELSE ((byte \div (t.chunk * SECTOR_SIZE)) % Len(t.legs)) + 1

OffsetOf(t, byte) ==
  LET chunkBytes == t.chunk * SECTOR_SIZE
      start      == t.legs[LegOf(t, byte)].start * SECTOR_SIZE
  IN  IF t.target = "linear" THEN start + byte
      ELSE start + (byte \div (chunkBytes * Len(t.legs))) * chunkBytes
                 + (byte % chunkBytes)

(* Every byte of the map lies within the device of its leg, on[k]. *)
Fits(t, on) ==
  \A byte \in MappedBytes(t) : OffsetOf(t, byte) < array.size[on[LegOf(t, byte)]]

-----------------------------------------------------------------------------
(* The command. *)

Fail == pc' = "failed"

(* Mutated: any member data will do. *)
CapacityAny ==
  /\ pc = "capacity"
  /\ IF Maximum(array) = 0 THEN Fail ELSE pc' = "members"
  /\ UNCHANGED <<args, unchecked, table, env, mapped, mode>>

(* dm_table: the members must cover the volume. *)
Capacity ==
  /\ pc = "capacity"
  /\ IF Maximum(array) < array.logical THEN Fail ELSE pc' = "members"
  /\ UNCHANGED <<args, unchecked, table, env, mapped, mode>>

(* dm_table: isabs and os.stat of one member; the first that is no block   *)
(* device at an absolute path ends the command.                            *)
CheckMember ==
  /\ pc = "members"
  /\ \E i \in unchecked :
       IF path[i] = "block"
       THEN unchecked' = unchecked \ {i} /\ UNCHANGED pc
       ELSE Fail /\ UNCHANGED unchecked
  /\ UNCHANGED <<args, table, env, mapped, mode>>

(* dm_table returns, and main prints the table or goes on to use it. *)
MakeTable ==
  /\ pc = "members" /\ unchecked = {}
  /\ IF array.level \in ParityLevel
     THEN Fail /\ UNCHANGED table
     ELSE /\ table' = Table(array)
          /\ pc' = IF command = "dm-table" THEN "printed" ELSE "options"
  /\ UNCHANGED <<args, unchecked, env, mapped, mode>>

(* Mutated: acknowledged writes go to any level. *)
CheckAckOnly ==
  /\ pc = "options"
  /\ IF writable /\ ~ack THEN Fail ELSE pc' = "dmsetup"
  /\ UNCHANGED <<args, unchecked, table, env, mapped, mode>>

(* main, when --writable is given. *)
CheckWritable ==
  /\ pc = "options"
  /\ IF writable /\ (~ack \/ array.level # "raid0") THEN Fail ELSE pc' = "dmsetup"
  /\ UNCHANGED <<args, unchecked, table, env, mapped, mode>>

OnLegs == [k \in DOMAIN table.legs |-> behind[table.legs[k].member]]

(* dmsetup create: the kernel opens the paths of the table and refuses a   *)
(* leg that ends past its device.                                          *)
Dmsetup ==
  /\ pc = "dmsetup"
  /\ \A k \in DOMAIN table.legs : path[table.legs[k].member] = "block"
  /\ Fits(table, OnLegs)
  /\ mapped' = OnLegs
  /\ mode' = IF writable THEN "writable" ELSE "readonly"
  /\ pc' = "active"
  /\ UNCHANGED <<args, unchecked, table, env>>

(* It may refuse for reasons of its own: the name is taken, a device is    *)
(* busy, the length is not a whole number of stripes.                      *)
DmsetupFails ==
  /\ pc = "dmsetup" /\ Fail
  /\ UNCHANGED <<args, unchecked, table, env, mapped, mode>>

Command ==
  \/ Capacity \/ CheckMember \/ MakeTable \/ CheckWritable
  \/ Dmsetup \/ DmsetupFails

(* A member is unplugged; two members come back under swapped names. *)
Unplug ==
  /\ changes < MaxChanges /\ changes' = changes + 1
  /\ \E i \in Members(array) :
       path[i] = "block" /\ path' = [path EXCEPT ![i] = "missing"]
  /\ UNCHANGED <<args, pc, unchecked, table, behind, mapped, mode>>

SwapNames ==
  /\ changes < MaxChanges /\ changes' = changes + 1
  /\ \E i, j \in Members(array) :
       /\ i < j /\ path[i] = "block" /\ path[j] = "block"
       /\ behind' = [behind EXCEPT ![i] = behind[j], ![j] = behind[i]]
  /\ UNCHANGED <<args, pc, unchecked, table, path, mapped, mode>>

Next == Command \/ Unplug \/ SwapNames

Spec == Init /\ [][Next]_vars

-----------------------------------------------------------------------------
TypeOK ==
  /\ array \in Arrays /\ command \in {"dm-table", "create-dm"}
  /\ writable \in BOOLEAN /\ ack \in BOOLEAN
  /\ pc \in {"capacity", "members", "options", "dmsetup"} \cup Final
  /\ unchecked \subseteq Members(array)
  /\ pc \in {"options", "dmsetup", "printed", "active"} => table = Table(array)
  /\ path \in [Members(array) -> {"block", "file", "relative", "missing"}]
  /\ behind \in [Members(array) -> Members(array)]
  /\ mode = "none" <=> pc # "active"
  /\ mode # "none" => mapped \in [DOMAIN table.legs -> Members(array)]
  /\ changes \in 0..MaxChanges

(* The legs were opened on the members they are named for. *)
Genuine == \A k \in DOMAIN mapped : mapped[k] = table.legs[k].member

(* A map stands for the volume: from end to end, each of its bytes is      *)
(* taken from a place where the controller stored that byte, and from that *)
(* byte alone, whichever members are missing: array.py 407-427.            *)
MappingReadsVolume ==
  mode # "none" /\ Genuine =>
    /\ MappedBytes(table) = 0..(array.logical - 1)
    /\ \A byte \in MappedBytes(table) :
         StoredByte(array, mapped[LegOf(table, byte)], OffsetOf(table, byte))
           = {byte}

(* Where in the whole Raid Set, missing members included, a byte of the    *)
(* volume is stored, as itself or in a parity block.                       *)
Copies(byte) ==
  {at \in (0..(array.count - 1)) \X
           (array.base..(array.base + array.logical - 1)) :
     byte \in StoredByte(array, at[1], at[2])}

(* A write through a writable map reaches every copy of the byte, so that  *)
(* no mirror or parity block is left with the old one: areca_raid.py       *)
(* 245-255.                                                                *)
WritesReachEveryCopy ==
  mode = "writable" /\ Genuine =>
    \A byte \in MappedBytes(table) :
      Copies(byte) = {<<table.legs[LegOf(table, byte)].member,
                        OffsetOf(table, byte)>>}

TableReturned == pc \in {"printed", "options", "dmsetup", "active"}
Own == [k \in DOMAIN table.legs |-> table.legs[k].member]

(* When the volume fills its last row, a table that is returned lies       *)
(* within the members it was made from: array.py 398 against 407-427.      *)
RowsFilled ==
  \/ array.level = "raid1"
  \/ array.logical % (array.chunk * DataWidth(array.level, array.count)) = 0
WholeRowsFit == TableReturned /\ RowsFilled => Fits(table, Own)

(* The same of every table, which dm_table asks for complete members for.  *)
TableWithinMembers == TableReturned => Fits(table, Own)
===============================================================================
