---------------------------- MODULE AbstractOutput ----------------------------
(***************************************************************************)
(* What the user of raid_pattern.py write and verify may rely on, with no  *)
(* chunks, no page cache and no loop over sectors in it.  A write that has *)
(* begun puts sectors of its range in any order; it is done only when the  *)
(* whole range is there and nothing of it can be lost any more, and one    *)
(* that breaks off leaves each sector as it was or as it was to be, one of *)
(* them perhaps torn.  A verify is a single comparison of its whole range  *)
(* with what is there at that moment.                                      *)
(***************************************************************************)
EXTENDS Integers

CONSTANT Torn  \* a sector half written

VARIABLES
  disk,     \* what a read of each sector gives
  safe,     \* what it would give after a power cut
  request,  \* name, start, sectors and base of the command
  verdict   \* "asked", "writing", or how the command ended

vars == <<disk, safe, request, verdict>>

Ended == {"done", "verified", "mismatch", "refused", "failed", "crashed", "killed"}

(* The sectors a command is about, counted from 1, and what each is due.   *)
Range == (request.start + 1)..(request.start + request.sectors)
Due(k) == request.base + (k - request.start - 1)
Holds == \A k \in Range : disk[k] = Due(k)

(* The sector is left alone, or written. *)
LeftOrPut(k) == disk'[k] = disk[k] \/ (k \in Range /\ disk'[k] = Due(k))

Init == safe = disk /\ verdict = "asked"

(* A command is refused, or breaks off before it has done anything. *)
Refuse ==
  /\ verdict = "asked" /\ verdict' \in {"refused", "failed", "crashed"}
  /\ UNCHANGED <<disk, safe, request>>

Begin ==
  /\ verdict = "asked" /\ request.name = "write" /\ Range \subseteq DOMAIN disk
  /\ verdict' = "writing" /\ UNCHANGED <<disk, safe, request>>

Put ==
  /\ verdict = "writing" /\ DOMAIN disk' = DOMAIN disk
  /\ \A k \in DOMAIN disk : LeftOrPut(k)
  /\ UNCHANGED <<safe, request, verdict>>

BreakOff ==
  /\ verdict = "writing" /\ verdict' \in {"failed", "killed", "crashed"}
  /\ DOMAIN disk' = DOMAIN disk
  /\ \E hit \in Range : \A k \in DOMAIN disk :
       LeftOrPut(k) \/ (k = hit /\ disk'[k] = Torn)
  /\ UNCHANGED <<safe, request>>

Finish ==
  /\ verdict = "writing" /\ Holds
  /\ verdict' = "done" /\ safe' = disk /\ UNCHANGED <<disk, request>>

Compare ==
  /\ verdict = "asked" /\ request.name = "verify" /\ Range \subseteq DOMAIN disk
  /\ verdict' = IF Holds THEN "verified" ELSE "mismatch"
  /\ UNCHANGED <<disk, safe, request>>

Ask == verdict \in Ended /\ verdict' = "asked" /\ UNCHANGED <<disk, safe>>

(* The power fails: what is not safe may be lost, in any part. *)
Cut ==
  /\ DOMAIN disk' = DOMAIN disk
  /\ \A k \in DOMAIN disk : disk'[k] \in {disk[k], safe[k]}
  /\ safe' = disk' /\ UNCHANGED request
  /\ verdict' = IF verdict \in Ended THEN verdict ELSE "killed"

Next ==
  Refuse \/ Begin \/ Put \/ BreakOff \/ Finish \/ Compare \/ Ask \/ Cut

Spec == Init /\ [][Next]_vars
===============================================================================
