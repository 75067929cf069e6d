------------------------------ MODULE PatternTool ------------------------------
(***************************************************************************)
(* What the commands of raid_pattern.py that are modelled statement by     *)
(* statement have in common: PatternWrite models write and verify,         *)
(* PatternScan models scan.                                                *)
(***************************************************************************)
CONSTANTS
  SectorBytes,  \* SECTOR_SIZE
  None          \* an argument left out; a sector that carries no LBA

VARIABLES
  pc,      \* the statement the command is at, or how it ended
  sector   \* the sector it comes to next, counted from the first it was given
===============================================================================
