------------------------------ MODULE DeviceNames ------------------------------
(***************************************************************************)
(* The block devices a call opens by name.  What answers to a name may     *)
(* change between two opens: two devices come back under each other's      *)
(* name, as after a new login.                                             *)
(***************************************************************************)
EXTENDS ArrayInit

CONSTANTS
  Names,    \* device names
  Benches,  \* what may be attached: functions from Names to disks
  None,
  MaxSwaps  \* bound: times two names exchange the disks behind them

ASSUME DeviceNamesAssumption ==
  /\ Benches \subseteq [Names -> Disk]
  /\ None \notin Disk
  /\ MaxSwaps \in Nat

VARIABLES
  pc,      \* the statement the call is at, or how it ended
  behind,  \* the disk each name leads to now
  swaps    \* disks exchanged so far

Exchange ==
  /\ swaps < MaxSwaps /\ swaps' = swaps + 1
  /\ \E a, b \in Names :
       /\ a # b
       /\ behind' = [behind EXCEPT ![a] = behind[b], ![b] = behind[a]]
===============================================================================
