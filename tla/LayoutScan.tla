----------------------------- MODULE LayoutScan -----------------------------
(***************************************************************************)
(* Every supported Raid Set with every subset of its members supplied,     *)
(* scanned chunk by chunk as iter_logical does, and judged against what    *)
(* the controller stored.                                                  *)
(***************************************************************************)
EXTENDS RaidLayout, ControllerLayout

CONSTANT Chunks  \* bound: the scan wraps around after this many chunks

(* At least the first row of the widest Raid Set. *)
ASSUME ChunksAssumption == Chunks \in Nat /\ Chunks >= 4

VARIABLES
  level, count,  \* the Raid Set
  members,       \* the indices of the members supplied
  chunk          \* the logical chunk read next

vars == <<level, count, members, chunk>>

Init ==
  /\ level \in RaidLevel /\ count \in 2..4 /\ Supported(level, count)
  /\ members \in SUBSET (0..(count - 1))
  /\ chunk = 0

(* logical_chunk += 1 *)
NextChunk ==
  /\ chunk' = (chunk + 1) % Chunks
  /\ UNCHANGED <<level, count, members>>

Spec == Init /\ [][NextChunk]_vars

(* What a set of members gives when their blocks of the row are XORed. *)
Decoded(indices) ==
  XorBlocks([i \in indices |->
               StoredChunks(level, count, i, Row(level, count, chunk))])

(* Whatever is missing from a complete set, the members _logical_chunk     *)
(* reads at the row it computes XOR to the chunk it was asked for:         *)
(* array.py 271-331.                                                       *)
SourcesDecode ==
  Complete(level, count, members)
    => Decoded(Sources(level, count, members, chunk)) = {chunk}

(* Completeness is exact.  What _validate_completeness accepts can be read *)
(* in full, and what it refuses hides at least one chunk of the rows that  *)
(* follow from every combination of the members there are:                 *)
(* array.py 187-203.                                                       *)
RowChunks == {c \in 0..(Chunks - 1) : Row(level, count, c) < count}
Recoverable(c) ==
  \E indices \in SUBSET members :
    XorBlocks([i \in indices |-> StoredChunks(level, count, i, Row(level, count, c))])
      = {c}
CompletenessExact ==
  Complete(level, count, members) <=> \A c \in RowChunks : Recoverable(c)
===============================================================================
