--------------------------- MODULE OutputGuardProofs ---------------------------
(***************************************************************************)
(* The checks before a block device is overwritten hold for any machine,   *)
(* any stack of devices and any number of changes: while the output path   *)
(* stays where it was, no input and no filesystem below the output is hit, *)
(* and whatever the path does, nothing is written unacknowledged.          *)
(***************************************************************************)
EXTENDS OutputGuard, TLAPS

-----------------------------------------------------------------------------
(* Trees. *)

(* The tree with more edges is no smaller. *)
LEMMA TreeMonotone ==
  ASSUME NEW d, NEW few, NEW many, few \subseteq many
  PROVE  Tree(d, few) \subseteq Tree(d, many)
BY DEF Tree

(* What lsblk cannot list yet is not above a device that exists: its tree  *)
(* upwards is that of the whole world.                                     *)
LEMMA AncestorsListed ==
  ASSUME NEW d \in Devices, d \in live,
         world.on \subseteq Devices \X Devices,
         \A e \in world.on : e[2] \in live => e[1] \in live
  PROVE  Ancestors(world, d) \subseteq Tree(d, Up)
<1> SUFFICES ASSUME NEW x \in Ancestors(world, d), NEW s \in SUBSET Devices, d \in s,
                    \A e \in Up : e[1] \in s => e[2] \in s
             PROVE  x \in s
  BY DEF Ancestors, Tree
<1> DEFINE t == s \cap live
<1>1. t \in SUBSET Devices /\ d \in t
  OBVIOUS
<1>2. ASSUME NEW e \in Inverted(world.on), e[1] \in t
      PROVE  e[2] \in t
  <2>1. PICK f \in world.on : e = <<f[2], f[1]>>
    BY DEF Inverted
  <2>2. f[2] \in live /\ f[2] \in s /\ f[1] \in live
    BY <1>2, <2>1
  <2>3. e \in Up
    BY <2>1, <2>2 DEF Up, Down, Inverted
  <2> QED BY <2>1, <2>2, <2>3
<1> HIDE DEF t
<1>3. x \in t
  BY <1>1, <1>2 DEF Ancestors, Tree
<1> QED BY <1>3 DEF t

(* Below a device, what exists is reached through what exists. *)
LEMMA DescendantListed ==
  ASSUME NEW d \in Devices, NEW x \in live, x \in Tree(d, world.on),
         world.on \subseteq Devices \X Devices,
         \A e \in world.on : e[2] \in live => e[1] \in live
  PROVE  x \in Tree(d, Down)
<1> SUFFICES ASSUME NEW s \in SUBSET Devices, d \in s,
                    \A e \in Down : e[1] \in s => e[2] \in s
             PROVE  x \in s
  BY DEF Tree
<1> DEFINE t == {y \in Devices : y \in s \/ y \notin live}
<1>1. ASSUME NEW e \in world.on, e[1] \in t
      PROVE  e[2] \in t
  <2>0. e[2] \in Devices
    OBVIOUS
  <2>1. CASE e[2] \notin live
    BY <2>0, <2>1
  <2>2. CASE e[2] \in live
    <3>1. e[1] \in s /\ e \in Down
      BY <1>1, <2>2 DEF Down
    <3> QED BY <2>0, <3>1
  <2> QED BY <2>1, <2>2
<1>2. t \in SUBSET Devices /\ d \in t
  OBVIOUS
<1> HIDE DEF t
<1>3. x \in t
  BY <1>1, <1>2 DEF Tree
<1> QED BY <1>3 DEF t

-----------------------------------------------------------------------------
(* The invariant. *)

(* Where main is: it lists the family of the output (None) or of a member, *)
(* it compares the members with the output, or it is through.              *)
Listing(m) == pc \in {"below", "above"} /\ member = m
Comparing == pc = "members" \/ \E i \in Inputs : Listing(i)
Checked == pc \in {"restat", "open", "writing"} /\ resolved # None

(* Devices exist with what they are stacked on; the inputs exist, and what *)
(* lsblk has listed once.                                                  *)
Rooted ==
  /\ \A e \in world.on : e[2] \in live => e[1] \in live
  /\ \A i \in Inputs : input[i] \in Devices => input[i] \in live
  /\ pc = "above" => Subject \in live

(* What main has resolved is what the path leads to, until it is moved.    *)
Settled ==
  /\ pc = "stat" => resolved = None
  /\ pc \in {"below", "above", "members"} => resolved # None
  /\ pc \notin {"below", "above", "failed"} => member = None
  /\ member # None => input[member] \in Devices
  /\ ~moved => /\ resolved # None => output = resolved
               /\ resolved = None /\ pc \notin {"stat", "failed"} =>
                    output \notin Devices
               /\ written # None => written = resolved

(* An input that was compared shares no ancestor with the output, and at   *)
(* the end all were; what was mounted from the start is not below it.      *)
Apart(i) ==
  input[i] \in Devices =>
    Ancestors(world, resolved) \cap Ancestors(world, input[i]) = {}
Compared ==
  /\ pc = "stat" \/ Listing(None) => unchecked = Inputs
  /\ Comparing => Ancestors(world, resolved) \subseteq family
  /\ Comparing \/ Checked =>
       \A i \in Inputs \ unchecked : Apart(i)
  /\ Checked => /\ unchecked = {}
                /\ \A d \in before : d \notin Tree(resolved, world.on)

Acknowledged ==
  /\ pc = "open" /\ existing \in Devices => ack
  /\ pc = "writing" => ack

IInv == TypeOK /\ Rooted /\ Settled /\ Compared /\ Acknowledged

LEMMA InitInv == Init => IInv
<1> SUFFICES ASSUME Init PROVE IInv
  OBVIOUS
<1>1. TypeOK
  <2>1. live \subseteq Devices /\ mounted \subseteq live
    BY DEF Init
  <2>2. output \in Places /\ input \in [Inputs -> Places]
    BY <2>1 DEF Init, Places
  <2>3. changes \in 0..MaxChanges
    BY OutputGuardAssumption DEF Init
  <2> QED BY <2>1, <2>2, <2>3 DEF Init, TypeOK, Places, Final
<1>2. Rooted
  BY OutputGuardAssumption DEF Init, Rooted
<1>3. Settled /\ Compared /\ Acknowledged
  BY OutputGuardAssumption
     DEF Init, Settled, Compared, Acknowledged, Listing, Comparing, Checked
<1> QED BY <1>1, <1>2, <1>3 DEF IInv

LEMMA WorldSound ==
  ASSUME TypeOK
  PROVE  /\ world.on \subseteq Devices \X Devices
         /\ \A c, d \in Devices :
              Overlap(c, d) => Ancestors(world, c) \cap Ancestors(world, d) # {}
BY OutputGuardAssumption DEF TypeOK, Overlap

(* The steps of the tool change nothing of the machine. *)
LEMMA ToolTypes == TypeOK /\ Tool => TypeOK'
BY OutputGuardAssumption
   DEF TypeOK, Tool, Stat, StatMember, ListBelow, ListAbove, Take, AssertUnused,
       CheckFails, Restat, Open, OpenFails, Fail, Final, Places, machine, guard, Tree

LEMMA ChangeTypes == TypeOK /\ (Mount \/ Stack \/ Relink) => TypeOK'
<1> SUFFICES ASSUME TypeOK, Mount \/ Stack \/ Relink PROVE TypeOK'
  OBVIOUS
<1>1. changes' \in 0..MaxChanges /\ pc \notin Final
  BY OutputGuardAssumption DEF TypeOK, Mount, Stack, Relink, Change
<1>2. CASE Mount
  BY <1>1, <1>2 DEF TypeOK, Mount, guard, Final, Places
<1>3. CASE Stack
  BY <1>1, <1>3 DEF TypeOK, Stack, guard, Final, Places
<1>4. CASE Relink
  <2>1. output' \in Places
    BY <1>4 DEF TypeOK, Relink, Places
  <2> QED BY <1>1, <1>4, <2>1 DEF TypeOK, Relink, guard, Final
<1> QED BY <1>2, <1>3, <1>4

(* The tree upwards as the tool lists it, against the whole world's.       *)
LEMMA AboveCovers ==
  ASSUME IInv, NEW d \in live
  PROVE  Ancestors(world, d) \subseteq Tree(d, Up)
<1>1. d \in Devices
  BY DEF IInv, TypeOK
<1> QED BY <1>1, AncestorsListed, WorldSound DEF IInv, Rooted

LEMMA UnusedSpares ==
  ASSUME IInv, NEW e \in live, Unused(e), NEW d \in before
  PROVE  d \notin Tree(e, world.on)
<1>1. d \in live /\ d \in mounted /\ e \in Devices
  BY DEF IInv, TypeOK
<1> QED BY <1>1, DescendantListed, WorldSound DEF IInv, Rooted, Unused

LEMMA NextInv == IInv /\ [Next]_vars => IInv'
<1> SUFFICES ASSUME IInv, [Next]_vars PROVE IInv'
  OBVIOUS
<1>1. TypeOK'
  <2>1. CASE UNCHANGED vars
    BY <2>1 DEF IInv, TypeOK, vars, machine, guard
  <2> QED BY <2>1, ToolTypes, ChangeTypes DEF IInv, Next
<1> SUFFICES Rooted' /\ Settled' /\ Compared' /\ Acknowledged'
  BY <1>1 DEF IInv
<1>a. Rooted /\ Settled /\ Compared /\ Acknowledged
  BY DEF IInv
<1>b. /\ live \subseteq Devices /\ mounted \subseteq live /\ before \subseteq mounted
      /\ None \notin Devices \cup Inputs /\ unchecked \subseteq Inputs
      /\ member \in Inputs \cup {None}
  BY OutputGuardAssumption DEF IInv, TypeOK
<1> USE DEF Rooted, Settled, Compared, Acknowledged, Listing, Comparing, Checked, Apart,
            Subject, machine, guard, Final, Fail
<1>2. CASE Stat
  BY <1>a, <1>b, <1>2 DEF Stat
<1>3. CASE StatMember
  <2>1. PICK i \in unchecked :
          IF input[i] \in Devices
          THEN pc' = "below" /\ member' = i /\ UNCHANGED unchecked
          ELSE unchecked' = unchecked \ {i} /\ UNCHANGED <<pc, member>>
    BY <1>3 DEF StatMember
  <2>2. i \in Inputs /\ i # None
    BY <1>b
  <2>3. CASE input[i] \in Devices
    BY <1>a, <1>3, <2>1, <2>2, <2>3 DEF StatMember
  <2>4. CASE input[i] \notin Devices
    BY <1>a, <1>3, <2>1, <2>2, <2>4 DEF StatMember
  <2> QED BY <2>3, <2>4
<1>4. CASE ListBelow
  BY <1>a, <1>b, <1>4 DEF ListBelow, Subject
<1>14. CASE ListAbove
  <2> DEFINE whole == found \cup Tree(Subject, Up)
  <2>0. pc = "above" /\ Take(whole) /\ member' = None
        /\ UNCHANGED <<machine, ack, resolved, existing, written, busy>>
    BY <1>14 DEF ListAbove
  <2> HIDE DEF whole
  <2>1. Ancestors(world, Subject) \subseteq whole
    BY <1>a, <2>0, AboveCovers DEF whole
  <2>2. CASE member = None
    BY <1>a, <1>b, <2>0, <2>1, <2>2 DEF Take, Subject
  <2>3. CASE member # None /\ family \cap whole # {}
    BY <1>a, <2>0, <2>3 DEF Take
  <2>4. CASE member # None /\ family \cap whole = {}
    <3>1. member \in Inputs /\ Comparing
      BY <1>b, <2>0, <2>4
    <3>2. Apart(member)
      BY <1>a, <2>1, <2>4, <3>1 DEF Subject
    <3> QED BY <1>a, <2>0, <2>4, <3>1, <3>2 DEF Take
  <2> QED BY <2>2, <2>3, <2>4
<1>5. CASE AssertUnused
  BY <1>a, <1>5, UnusedSpares DEF AssertUnused
<1>6. CASE CheckFails
  BY <1>a, <1>6 DEF CheckFails
<1>7. CASE Restat
  BY <1>a, <1>7 DEF Restat
<1>8. CASE Open
  BY <1>a, <1>b, <1>8 DEF Open
<1>9. CASE OpenFails
  BY <1>a, <1>9 DEF OpenFails
<1>10. CASE Mount
  BY <1>a, <1>10 DEF Mount, Change
<1>11. CASE Stack
  BY <1>a, <1>11 DEF Stack, Change
<1>12. CASE Relink
  BY <1>a, <1>12 DEF Relink, Change
<1>13. CASE UNCHANGED vars
  BY <1>a, <1>13 DEF vars
<1> QED BY <1>2, <1>3, <1>4, <1>5, <1>6, <1>7, <1>8, <1>9, <1>10, <1>11, <1>12,
           <1>13, <1>14 DEF Next, Tool

-----------------------------------------------------------------------------
LEMMA GuardInvariant == Spec => []IInv
BY InitInv, NextInv, PTL DEF Spec

(* Every state has the type TypeOK gives it. *)
THEOREM GuardTypes == Spec => []TypeOK
<1>1. IInv => TypeOK
  BY DEF IInv
<1> QED BY <1>1, GuardInvariant, PTL

(* No input is overwritten through a path that stays where it was:         *)
(* areca_raid.py 209-222 with 78-110.                                      *)
THEOREM InputsSafe == Spec => []InputsSpared
<1>1. ASSUME IInv
      PROVE  InputsSpared
  <2> SUFFICES ASSUME pc = "writing", ~moved, NEW i \in Inputs, input[i] \in Devices
               PROVE  ~Overlap(input[i], written)
    BY DEF InputsSpared
  <2>1. written \in Devices /\ written = resolved /\ resolved # None
    BY <1>1, OutputGuardAssumption DEF IInv, TypeOK, Settled
  <2>2. Apart(i)
    BY <1>1, <2>1 DEF IInv, Compared, Checked
  <2> QED BY <1>1, <2>1, <2>2, WorldSound DEF IInv, Apart
<1> QED BY <1>1, GuardInvariant, PTL

(* Nor is a filesystem below the output that was mounted from the start:   *)
(* areca_raid.py 47-75.                                                    *)
THEOREM MountsSafe == Spec => []MountedSpared
<1>1. ASSUME IInv
      PROVE  MountedSpared
  <2> SUFFICES ASSUME pc = "writing", ~moved, NEW d \in before
               PROVE  d \notin Tree(written, Down)
    BY DEF MountedSpared, Beside
  <2>1. written = resolved /\ resolved # None
    BY <1>1, OutputGuardAssumption DEF IInv, TypeOK, Settled
  <2>2. d \notin Tree(resolved, world.on)
    BY <1>1, <2>1 DEF IInv, Compared, Checked
  <2>3. Tree(resolved, Down) \subseteq Tree(resolved, world.on)
    BY TreeMonotone DEF Down
  <2> QED BY <2>1, <2>2, <2>3
<1> QED BY <1>1, GuardInvariant, PTL

(* No block device is opened for writing without the acknowledgement,      *)
(* wherever the path leads by then: array.py 347-351.                      *)
THEOREM WritesAcknowledged == Spec => []DevicesNeedAck
<1>1. IInv => DevicesNeedAck
  BY DEF IInv, Acknowledged, DevicesNeedAck
<1> QED BY <1>1, GuardInvariant, PTL
===============================================================================
