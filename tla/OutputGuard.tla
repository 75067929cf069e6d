------------------------------ MODULE OutputGuard ------------------------------
(***************************************************************************)
(* `areca_raid.py reconstruct` onto a path that may be a block device: the *)
(* checks main makes with lsblk and os.stat, and then the checks and the   *)
(* open of ArecaArray.reconstruct, which starts again from the path.       *)
(* Meanwhile filesystems are mounted, devices are stacked, and the path    *)
(* comes to lead somewhere else.                                           *)
(*                                                                         *)
(* A world is a record:                                                    *)
(*   type   what lsblk calls each device: "disk", "part", "lvm", ...       *)
(*   on     the pairs <<parent, child>> lsblk knows                        *)
(*   cells  the storage each device reads and writes                       *)
(***************************************************************************)
EXTENDS Integers, FiniteSets

CONSTANTS
  Devices,
  Cells,
  Worlds,
  Inputs,      \* the members of the array
  None,
  MaxChanges   \* bound: changes made to the machine while the tool runs

(* The devices in the tree under d: the smallest set with d in it that is  *)
(* closed under the edges.                                                 *)
Tree(d, edges) ==
  {x \in Devices :
     \A s \in SUBSET Devices :
       d \in s /\ (\A e \in edges : e[1] \in s => e[2] \in s) => x \in s}

Inverted(edges) == {<<e[2], e[1]>> : e \in edges}

(* What a device is stacked on is in its tree upwards: devices that share  *)
(* storage have a device above them in common.                             *)
Overlapping(w, c, d) == w.cells[c] \cap w.cells[d] # {}
Ancestors(w, d) == Tree(d, Inverted(w.on))

ASSUME OutputGuardAssumption ==
  /\ None \notin Devices \cup Inputs
  /\ "file" \notin Devices /\ "absent" \notin Devices
  /\ \A w \in Worlds :
       /\ w.type \in [Devices -> STRING]
       /\ w.on \subseteq Devices \X Devices
       /\ w.cells \in [Devices -> SUBSET Cells]
       /\ \A c, d \in Devices :
            Overlapping(w, c, d) => Ancestors(w, c) \cap Ancestors(w, d) # {}
  /\ MaxChanges \in Nat

Places == Devices \cup {"file", "absent"}

VARIABLES
  world,      \* the block devices there can be
  live,       \* those that exist
  mounted,    \* those with a mounted filesystem
  output,     \* what the output path leads to
  input,      \* what each member's path leads to
  ack,        \* --i-understand-this-overwrites-the-output-device
  pc,         \* the statement the tool is at, or how it ended
  resolved,   \* the device the output path led to when main resolved it
  family,     \* output_family
  unchecked,  \* members not compared with the output yet
  member,     \* the member being compared, None while none is
  found,      \* what block_device_family has found so far, while it runs
  existing,   \* what reconstruct's own os.stat found
  written,    \* the device opened for writing
  before,     \* history: what was mounted when the tool started,
  busy,       \*   and when the output was opened
  moved,      \* history: the output path has led to another device
  changes     \* changes made so far

machine == <<world, live, mounted, output, input, before, moved, changes>>
guard   == <<resolved, family, unchecked, member, found>>
vars    == <<machine, ack, pc, guard, existing, written, busy>>

Final == {"writing", "image", "failed"}

-----------------------------------------------------------------------------
(* lsblk: a tree of devices, downwards or --inverse. *)

Down == {e \in world.on : e[1] \in live /\ e[2] \in live}
Up   == Inverted(Down)

(* Mutated: mount points of the device itself only. *)
UnusedAlone(d) ==
  /\ d \notin mounted
  /\ \A x \in Tree(d, Down) \ {d} : world.type[x] \in {"disk", "part"}

(* What assert_output_device_unused lets pass. *)
Unused(d) ==
  /\ Tree(d, Down) \cap mounted = {}
  /\ \A x \in Tree(d, Down) \ {d} : world.type[x] \in {"disk", "part"}

Init ==
  /\ world \in Worlds
  /\ live \in {l \in SUBSET Devices :
                 \A e \in world.on : e[2] \in l => e[1] \in l}
  /\ mounted \in {m \in SUBSET live : Cardinality(m) <= 1}
  /\ output \in live \cup {"file", "absent"}
  /\ input \in [Inputs -> live \cup {"file", "absent"}]
  /\ ack \in BOOLEAN
  /\ pc = "stat" /\ resolved = None /\ family = {} /\ unchecked = Inputs
  /\ member = None /\ found = {}
  /\ existing = "absent" /\ written = None
  /\ before = mounted /\ busy = {} /\ moved = FALSE /\ changes = 0

-----------------------------------------------------------------------------
(* main *)

Fail == pc' = "failed"

(* os.stat(args.output), and realpath when it is a block device. *)
Stat ==
  /\ pc = "stat"
  /\ IF output \in Devices
     THEN pc' = "below" /\ resolved' = output
     ELSE pc' = "restat" /\ UNCHANGED resolved
  /\ UNCHANGED <<machine, ack, family, unchecked, member, found, existing, written,
                 busy>>

(* The next member: os.stat of its path. *)
StatMember ==
  /\ pc = "members"
  /\ \E i \in unchecked :
       IF input[i] \in Devices
       THEN pc' = "below" /\ member' = i /\ UNCHANGED unchecked
       ELSE unchecked' = unchecked \ {i} /\ UNCHANGED <<pc, member>>
  /\ UNCHANGED <<machine, ack, resolved, family, found, existing, written, busy>>

(* block_device_family, of the output first and then of each member that   *)
(* is a device: one lsblk for what is below, for which the device must be  *)
(* there, ...                                                              *)
Subject == IF member = None THEN resolved ELSE input[member]

ListBelow ==
  /\ pc = "below"
  /\ IF Subject \in live
     THEN pc' = "above" /\ found' = Tree(Subject, Down)
     ELSE Fail /\ UNCHANGED found
  /\ UNCHANGED <<machine, ack, resolved, family, unchecked, member, existing, written,
                 busy>>

(* What is done with a family: the output's is kept, a member's must not   *)
(* have a device in common with it.                                        *)
Take(whole) ==
  IF member = None
  THEN family' = whole /\ pc' = "members" /\ UNCHANGED unchecked
  ELSE /\ UNCHANGED family
       /\ IF family \cap whole # {}
          THEN Fail /\ UNCHANGED unchecked
          ELSE pc' = "members" /\ unchecked' = unchecked \ {member}

(* Mutated: the parents are left out. *)
ListAboveNot ==
  /\ pc = "above"
  /\ Take(found)
  /\ member' = None /\ found' = {}
  /\ UNCHANGED <<machine, ack, resolved, existing, written, busy>>

(* ... and one for what is above. *)
ListAbove ==
  /\ pc = "above"
  /\ Take(found \cup Tree(Subject, Up))
  /\ member' = None /\ found' = {}
  /\ UNCHANGED <<machine, ack, resolved, existing, written, busy>>

(* assert_output_device_unused(resolved), and the acknowledgement. *)
AssertUnused ==
  /\ pc = "members" /\ unchecked = {}
  /\ IF resolved \in live /\ Unused(resolved) /\ ack
     THEN pc' = "restat" ELSE Fail
  /\ UNCHANGED <<machine, ack, guard, existing, written, busy>>

(* Any lsblk or os.stat that fails, other than for a path that is absent. *)
CheckFails ==
  /\ pc \in {"stat", "below", "above", "members"}
  /\ Fail
  /\ UNCHANGED <<machine, ack, guard, existing, written, busy>>

-----------------------------------------------------------------------------
(* ArecaArray.reconstruct, called with the path and the acknowledgement. *)

(* Mutated: main has asked for the acknowledgement already. *)
RestatTrusting ==
  /\ pc = "restat"
  /\ existing' = output
  /\ IF output = "file" THEN Fail ELSE pc' = "open"
  /\ UNCHANGED <<machine, ack, guard, written, busy>>

Restat ==
  /\ pc = "restat"
  /\ existing' = output
  /\ IF output = "file" \/ (output \in Devices /\ ~ack) THEN Fail ELSE pc' = "open"
  /\ UNCHANGED <<machine, ack, guard, written, busy>>

(* os.open: O_CREAT and O_EXCL where nothing was, O_WRONLY on a device. *)
Open ==
  /\ pc = "open"
  /\ \/ /\ existing \in Devices /\ output \in Devices
        /\ pc' = "writing" /\ written' = output /\ busy' = mounted
     \/ /\ existing = "absent" /\ output = "absent"
        /\ pc' = "image" /\ UNCHANGED <<written, busy>>
  /\ UNCHANGED <<machine, ack, guard, existing>>

(* Every OSError, and a device smaller than the volume. *)
OpenFails ==
  /\ pc \in {"restat", "open"}
  /\ Fail
  /\ UNCHANGED <<machine, ack, guard, existing, written, busy>>

Tool ==
  \/ Stat \/ StatMember \/ ListBelow \/ ListAbove \/ AssertUnused \/ CheckFails
  \/ Restat \/ Open \/ OpenFails

-----------------------------------------------------------------------------
(* The rest of the machine. *)

Change == pc \notin Final /\ changes < MaxChanges /\ changes' = changes + 1

Mount ==
  /\ Change
  /\ \E d \in live \ mounted : mounted' = mounted \cup {d}
  /\ UNCHANGED <<world, live, output, input, before, moved, ack, pc, guard, existing,
                 written, busy>>

(* A device appears on top of devices that are there. *)
Stack ==
  /\ Change
  /\ \E d \in Devices \ live :
       /\ \A e \in world.on : e[2] = d => e[1] \in live
       /\ live' = live \cup {d}
  /\ UNCHANGED <<world, mounted, output, input, before, moved, ack, pc, guard,
                 existing, written, busy>>

(* A plug, a login or udev gives the path another meaning. *)
Relink ==
  /\ Change
  /\ output' \in (live \cup {"absent"}) \ {output} /\ moved' = TRUE
  /\ UNCHANGED <<world, live, mounted, input, before, ack, pc, guard, existing,
                 written, busy>>

Next == Tool \/ Mount \/ Stack \/ Relink

Spec == Init /\ [][Next]_vars

-----------------------------------------------------------------------------
TypeOK ==
  /\ world \in Worlds
  /\ live \subseteq Devices /\ mounted \subseteq live
  /\ output \in Places /\ input \in [Inputs -> Places]
  /\ ack \in BOOLEAN
  /\ pc \in {"stat", "below", "above", "members", "restat", "open"} \cup Final
  /\ resolved \in Devices \cup {None}
  /\ family \subseteq Devices /\ unchecked \subseteq Inputs
  /\ member \in Inputs \cup {None} /\ found \subseteq Devices
  /\ existing \in Places
  /\ written \in Devices \cup {None}
  /\ before \subseteq mounted /\ busy \subseteq mounted /\ moved \in BOOLEAN
  /\ pc = "writing" <=> written # None
  /\ changes \in 0..MaxChanges

Overlap(c, d) == Overlapping(world, c, d)

(* No input of the reconstruction is overwritten by it, under whatever     *)
(* name or layer it is reached (as a partition of the output, as the disk  *)
(* the output is a partition of, below a device stacked on both), and      *)
(* whatever is mounted or stacked while the tool looks, as long as the     *)
(* output path stays where it was: areca_raid.py 209-222 with 78-110.      *)
InputsSpared ==
  pc = "writing" /\ ~moved =>
    \A i \in Inputs : input[i] \in Devices => ~Overlap(input[i], written)

(* Nor is a filesystem that was mounted when the tool started, unless it   *)
(* is beside the output in the tree lsblk knows (on a device that shares a *)
(* parent with it, or on the parent itself): areca_raid.py 47-75.          *)
Beside(d, e) == d \notin Tree(e, Down)
MountedSpared ==
  pc = "writing" /\ ~moved =>
    \A d \in before : Overlap(d, written) => Beside(d, written)

(* Whatever happens to the path while the tool looks at it, only an        *)
(* acknowledged call writes to a block device: areca_raid.py 224-228 is    *)
(* passed by a path that leads nowhere yet, array.py 347-351 is not.       *)
DevicesNeedAck == pc = "writing" => ack

(* "The tool rejects mounted output devices", docs/library.md: what is     *)
(* opened for writing has nothing mounted in its tree, the checks of       *)
(* areca_raid.py 202-223 being for that.                                   *)
MountedRejected == pc = "writing" => Tree(written, Down) \cap busy = {}
===============================================================================
