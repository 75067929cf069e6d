--------------------------- MODULE AbstractRecovery ---------------------------
(***************************************************************************)
(* What a caller of ArecaArray.reconstruct may rely on, with no members,   *)
(* levels, reads or writes in it: the image grows along the volume, a call *)
(* is done only with the whole of what was asked for, and the image of a   *)
(* call that has ended stays as it is until a new one starts, unless its   *)
(* owner removes it.  Once a member has changed its name, what is added is *)
(* of the right length still, but need no more be the volume.              *)
(***************************************************************************)
EXTENDS Integers, Sequences

VARIABLES
  goal,     \* the bytes the call is to reconstruct
  image,    \* the bytes at the output
  verdict,  \* how far the call is, or how it ended
  stable    \* every member has kept its name so far

vars == <<goal, image, verdict, stable>>

Ended == {"done", "failed", "abandoned"}

(* The first n bytes of the volume. *)
Volume(n) == [k \in 1..n |-> {k - 1}]

Init == goal = 0 /\ image = <<>> /\ verdict = "checking" /\ stable = TRUE

(* A call that has not opened its output knows what it is asked for ... *)
Check ==
  verdict = "checking" /\ goal' \in Int /\ UNCHANGED <<image, verdict, stable>>

(* ... or refuses, and in neither case touches what is there. *)
Refuse ==
  /\ verdict = "checking" /\ verdict' = "failed" /\ goal' \in Int
  /\ UNCHANGED <<image, stable>>

Start ==
  /\ verdict = "checking" /\ verdict' = "running" /\ image' = <<>>
  /\ UNCHANGED <<goal, stable>>

(* Bytes are added at the end of the image, those of the volume in order. *)
Extend ==
  /\ verdict = "running" /\ UNCHANGED <<goal, verdict, stable>>
  /\ Len(image') \in (Len(image) + 1)..goal
  /\ \A k \in 1..Len(image) : image'[k] = image[k]
  /\ stable => image' = Volume(Len(image'))

Complete ==
  /\ verdict = "running" /\ Len(image) = goal /\ goal > 0
  /\ verdict' = "done" /\ UNCHANGED <<goal, image, stable>>

(* A failed call takes its image away; or it stays, as on a device, and    *)
(* where it could not be removed.                                          *)
Fail ==
  /\ verdict = "running" /\ verdict' = "failed" /\ image' \in {<<>>, image}
  /\ UNCHANGED <<goal, stable>>

Abandon ==
  /\ verdict \notin Ended /\ verdict' = "abandoned"
  /\ UNCHANGED <<goal, image, stable>>

Again ==
  /\ verdict \in Ended /\ verdict' = "checking"
  /\ UNCHANGED <<goal, image, stable>>

Remove ==
  verdict # "running" /\ image' = <<>> /\ UNCHANGED <<goal, verdict, stable>>

Move == stable' = FALSE /\ UNCHANGED <<goal, image, verdict>>

Next == Check \/ Refuse \/ Start \/ Extend \/ Complete \/ Fail \/ Abandon
        \/ Again \/ Remove \/ Move

Spec == Init /\ [][Next]_vars
===============================================================================
