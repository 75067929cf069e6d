------------------------------ MODULE Reconstruct ------------------------------
(***************************************************************************)
(* ArecaArray.reconstruct of areca/array.py, with the generator            *)
(* iter_logical it drives, step by step, against a file system, member     *)
(* devices and other programs that do not wait for it.  `areca_raid.py     *)
(* reconstruct` is one call of it; a call may follow another on the same   *)
(* output path, as after a failure.                                        *)
(***************************************************************************)
EXTENDS LogicalRead

CONSTANTS
  Arrays,      \* the assembled arrays a call may be made on
  Lengths,     \* the values of the length argument, None when left out
  None,
  DeviceSize,  \* bytes of the block device, when the output is one
  MaxRuns,     \* bound: calls made on the output path
  MaxSwaps     \* bound: times two members exchange their device names

ASSUME ReconstructAssumption ==
  /\ \A a \in Arrays : IsArray(a)
  /\ None \notin Int
  /\ Lengths \subseteq Int \cup {None}
  /\ DeviceSize \in Nat
  /\ MaxRuns \in Nat /\ MaxSwaps \in Nat

VARIABLES
  array,      \* self: the assembled array
  length,     \* the arguments of the call: length ...
  allow,      \*   ... and allow_block_device
  pc,         \* the statement the call is at, or how it ended
  existing,   \* what os.stat found at the output path
  requested,  \* requested
  remaining,  \* remaining
  chunkNo,    \* logical_chunk
  block,      \* the block iter_logical yielded last
  error,      \* why the call raised
  path,       \* what is at the output path: the image is what a call created
  out,        \* the bytes the last call to open the output has put there
  behind,     \* the member that each member's device path now names
  source,     \* the member each source that was opened last really is
  opened,     \* the members _open_sources has opened so far, while it runs
  runs,       \* calls made so far
  swaps       \* device names exchanged so far

call  == <<array, length, allow>>
loop  == <<requested, remaining, chunkNo, block>>
fds   == <<source, opened>>
env   == <<behind, swaps>>
vars  == <<call, pc, existing, loop, error, path, out, env, fds, runs>>

Final == {"done", "failed", "abandoned"}
Error == {"none", "refused", "exists", "small", "length", "maximum",
          "source", "short", "read", "write", "output",
          "close", "unlink", "return"}
Own   == {"image", "block"}          \* outputs a call may write to
Opened == {"iter", "sources", "read", "write", "close", "cleanup"}
                                     \* the output is open

Init ==
  /\ array \in Arrays /\ length \in Lengths /\ allow \in BOOLEAN
  /\ pc = "stat" /\ error = "none"
  /\ existing = "absent"
  /\ requested = 0 /\ remaining = 0 /\ chunkNo = 0 /\ block = <<>>
  /\ path \in {"absent", "foreign", "block"} /\ out = <<>>
  /\ behind = [i \in Members(array) |-> i]
  /\ source = behind /\ opened = {}
  /\ runs = 1 /\ swaps = 0

(* An exception before the output is open leaves everything as it is; one  *)
(* inside the try block goes through the except clause first.              *)
Refuse(why) == pc' = "failed"  /\ error' = why
Raise(why)  == pc' = "cleanup" /\ error' = why

-----------------------------------------------------------------------------
(* The call. *)

Asked == IF length = None THEN Maximum(array) ELSE length

(* Mutated: a block device is opened without the approval flag. *)
StatUnapproved ==
  /\ pc = "stat"
  /\ existing' = path
  /\ requested' = Asked
  /\ \/ path \in {"foreign", "image"} /\ Refuse("exists")
     \/ path = "block" /\ DeviceSize < Asked /\ Refuse("small")
     \/ Refuse("output")
     \/ /\ \/ path = "absent"
           \/ path = "block" /\ DeviceSize >= Asked
        /\ pc' = "open" /\ UNCHANGED error
  /\ UNCHANGED <<call, remaining, chunkNo, block, path, out, env, fds, runs>>

(* os.stat, and the checks on what is there; a block device is opened for  *)
(* its size and closed again.  Either may raise an OSError.                *)
Stat ==
  /\ pc = "stat"
  /\ existing' = path
  /\ requested' = Asked
  /\ \/ path = "block" /\ ~allow /\ Refuse("refused")
     \/ path \in {"foreign", "image"} /\ Refuse("exists")
     \/ path = "block" /\ allow /\ DeviceSize < Asked /\ Refuse("small")
     \/ Refuse("output")
     \/ /\ \/ path = "absent"
           \/ path = "block" /\ allow /\ DeviceSize >= Asked
        /\ pc' = "open" /\ UNCHANGED error
  /\ UNCHANGED <<call, remaining, chunkNo, block, path, out, env, fds, runs>>

(* Mutated: without O_EXCL. *)
OpenOutputShared ==
  /\ pc = "open"
  /\ IF existing = "block" THEN path = "block" /\ UNCHANGED path
                           ELSE path' = "image"
  /\ out' = <<>>
  /\ pc' = "iter"
  /\ UNCHANGED <<call, existing, loop, error, env, fds, runs>>

(* O_CREAT | O_EXCL when nothing was there, plain O_WRONLY on a device. *)
OpenOutput ==
  /\ pc = "open"
  /\ IF existing = "block" THEN path = "block" /\ UNCHANGED path
                           ELSE path = "absent" /\ path' = "image"
  /\ out' = <<>>
  /\ pc' = "iter"
  /\ UNCHANGED <<call, existing, loop, error, env, fds, runs>>

(* What O_EXCL refuses, and every other OSError of os.open. *)
OpenFails ==
  /\ pc = "open"
  /\ Refuse("output")
  /\ UNCHANGED <<call, existing, loop, path, out, env, fds, runs>>

(* The first next() of iter_logical: the checks on the requested length. *)
Iter ==
  /\ pc = "iter"
  /\ IF requested <= 0 \/ requested % SECTOR_SIZE # 0 THEN Raise("length")
     ELSE IF requested > Maximum(array) THEN Raise("maximum")
     ELSE pc' = "sources" /\ UNCHANGED error
  /\ UNCHANGED <<call, existing, loop, path, out, env, fds, runs>>

(* _open_sources: the members are opened again one after another, by their *)
(* paths, in the order in which they were given.                           *)
OpenSource ==
  /\ pc = "sources"
  /\ \E i \in Members(array) \ opened :
       /\ source' = [source EXCEPT ![i] = behind[i]]
       /\ IF opened \cup {i} = Members(array)
          THEN /\ pc' = "read" /\ remaining' = requested /\ chunkNo' = 0
               /\ opened' = {}
          ELSE opened' = opened \cup {i} /\ UNCHANGED <<pc, remaining, chunkNo>>
  /\ UNCHANGED <<call, existing, requested, block, error, path, out, env, runs>>

OpenSourceFails ==
  /\ pc = "sources"
  /\ Raise("source") /\ opened' = {}
  /\ UNCHANGED <<call, existing, loop, path, out, env, source, runs>>

Amount == Min({array.chunk, remaining})

(* _logical_chunk, up to the yield. *)
Read ==
  /\ pc = "read" /\ remaining # 0
  /\ ChunkReadable(array, source, chunkNo, Amount)
  /\ block' = LogicalChunk(array, source, chunkNo, Amount)
  /\ pc' = "write"
  /\ UNCHANGED <<call, existing, requested, remaining, chunkNo, error, path, out,
                 env, fds, runs>>

(* _read_exact raises on a short read, os.pread on an unreadable sector. *)
ReadFails ==
  /\ pc = "read" /\ remaining # 0
  /\ \/ ~ChunkReadable(array, source, chunkNo, Amount) /\ Raise("short")
     \/ Raise("read")
  /\ UNCHANGED <<call, existing, loop, path, out, env, fds, runs>>

(* Mutated: logical_chunk is not counted up. *)
WriteSameChunk ==
  /\ pc = "write"
  /\ out' = out \o block
  /\ remaining' = remaining - Len(block)
  /\ pc' = "read"
  /\ UNCHANGED <<call, existing, requested, chunkNo, block, error, path, env, fds,
                 runs>>

(* os.write takes the whole block, and iter_logical is resumed. *)
Write ==
  /\ pc = "write"
  /\ out' = out \o block
  /\ remaining' = remaining - Len(block)
  /\ chunkNo' = chunkNo + 1
  /\ pc' = "read"
  /\ UNCHANGED <<call, existing, requested, block, error, path, env, fds, runs>>

(* Mutated: a short write is taken for a full one. *)
WriteShort ==
  /\ pc = "write"
  /\ \E taken \in 0..(Len(block) - 1) : out' = out \o SubSeq(block, 1, taken)
  /\ remaining' = remaining - Len(block)
  /\ chunkNo' = chunkNo + 1
  /\ pc' = "read"
  /\ UNCHANGED <<call, existing, requested, block, error, path, env, fds, runs>>

(* os.write takes a part of it, or fails. *)
WriteFails ==
  /\ pc = "write"
  /\ Raise("write")
  /\ \E taken \in 0..(Len(block) - 1) : out' = out \o SubSeq(block, 1, taken)
  /\ UNCHANGED <<call, existing, loop, path, env, fds, runs>>

(* Mutated: a last block shorter than a chunk is forgotten. *)
FsyncEarly ==
  /\ pc = "read" /\ remaining < array.chunk
  /\ \/ pc' = "close" /\ UNCHANGED error
     \/ Raise("output")
  /\ UNCHANGED <<call, existing, loop, path, out, env, fds, runs>>

(* The loop ends, the sources are closed, os.fsync, return written ... *)
Fsync ==
  /\ pc = "read" /\ remaining = 0
  /\ \/ pc' = "close" /\ UNCHANGED error
     \/ Raise("output")
  /\ UNCHANGED <<call, existing, loop, path, out, env, fds, runs>>

(* ... and, in the finally clause, os.close.  If that fails, its error     *)
(* takes the place of the result, and no except clause is left to clean up. *)
Close ==
  /\ pc = "close"
  /\ \/ pc' = "done" /\ UNCHANGED error
     \/ Refuse("return")
  /\ UNCHANGED <<call, existing, loop, path, out, env, fds, runs>>

(* Mutated: the partial image stays. *)
CleanUpNothing ==
  /\ pc = "cleanup"
  /\ pc' = "failed"
  /\ UNCHANGED <<call, existing, loop, error, path, out, env, fds, runs>>

(* Mutated: the call starts again instead of raising. *)
CleanUpRetry ==
  /\ pc = "cleanup"
  /\ IF existing = "absent" THEN path' = "absent" /\ out' = <<>>
                            ELSE UNCHANGED <<path, out>>
  /\ pc' = "stat" /\ error' = "none"
  /\ UNCHANGED <<call, existing, loop, env, fds, runs>>

(* except Exception: close, unlink what this call created, raise again.    *)
(* Only a name that is gone already is passed over.  Any other error of    *)
(* the two ends the clean-up, with the image where it is, and is what the  *)
(* call raises instead.                                                    *)
CleanUp ==
  /\ pc = "cleanup"
  /\ \/ Refuse("close") /\ UNCHANGED <<path, out>>
     \/ existing = "absent" /\ Refuse("unlink") /\ UNCHANGED <<path, out>>
     \/ /\ pc' = "failed" /\ UNCHANGED error
        /\ IF existing = "absent" THEN path' = "absent" /\ out' = <<>>
                                  ELSE UNCHANGED <<path, out>>
  /\ UNCHANGED <<call, existing, loop, env, fds, runs>>

Tool ==
  \/ Stat \/ OpenOutput \/ OpenFails \/ Iter \/ OpenSource \/ OpenSourceFails
  \/ Read \/ ReadFails \/ Write \/ WriteFails \/ Fsync \/ Close \/ CleanUp

-----------------------------------------------------------------------------
(* Everything else. *)

(* Ctrl-C, which except Exception does not catch, or a killed process. *)
Abandon ==
  /\ pc \notin Final
  /\ pc' = "abandoned" /\ opened' = {}
  /\ UNCHANGED <<call, existing, loop, error, path, out, env, source, runs>>

(* Mutated: the error of the last call is still there. *)
RerunDirty ==
  /\ pc \in Final /\ runs < MaxRuns
  /\ length' \in Lengths /\ allow' \in BOOLEAN
  /\ pc' = "stat" /\ runs' = runs + 1
  /\ UNCHANGED <<array, existing, loop, error, path, out, env, fds>>

(* The user calls again, perhaps with other arguments. *)
Rerun ==
  /\ pc \in Final /\ runs < MaxRuns
  /\ length' \in Lengths /\ allow' \in BOOLEAN
  /\ pc' = "stat" /\ error' = "none" /\ runs' = runs + 1
  /\ UNCHANGED <<array, existing, loop, path, out, env, fds>>

(* Another program creates a file where there was none. *)
OtherCreates ==
  /\ path = "absent"
  /\ path' = "foreign"
  /\ UNCHANGED <<call, pc, existing, loop, error, out, env, fds, runs>>

(* The image of an earlier call is removed, or the one being written is:   *)
(* its bytes then have no name any more.                                   *)
RemoveImage ==
  /\ path = "image" /\ path' = "absent"
  /\ IF pc \in Opened THEN UNCHANGED out ELSE out' = <<>>
  /\ UNCHANGED <<call, pc, existing, loop, error, env, fds, runs>>

(* Two members come back under each other's device name. *)
SwapNames ==
  /\ swaps < MaxSwaps
  /\ \E i, j \in Members(array) :
       i < j /\ behind' = [behind EXCEPT ![i] = behind[j], ![j] = behind[i]]
  /\ swaps' = swaps + 1
  /\ UNCHANGED <<call, pc, existing, loop, error, path, out, fds, runs>>

Environment == Abandon \/ Rerun \/ OtherCreates \/ RemoveImage \/ SwapNames

Next == Tool \/ Environment

(* The call is one thread of the process: it goes on while it can. *)
Fairness == WF_vars(Tool)

Spec == Init /\ [][Next]_vars /\ Fairness

-----------------------------------------------------------------------------
TypeOK ==
  /\ array \in Arrays /\ length \in Lengths /\ allow \in BOOLEAN
  /\ pc \in {"stat", "open", "iter", "sources", "read", "write", "close",
             "cleanup"} \cup Final
  /\ existing \in {"absent", "foreign", "image", "block"}
  /\ requested \in Int /\ remaining \in Int /\ chunkNo \in Nat
  /\ block \in Seq(SUBSET Int) /\ out \in Seq(SUBSET Int)
  /\ error \in Error
  /\ path \in {"absent", "foreign", "image", "block"}
  /\ behind \in [Members(array) -> Members(array)]
  /\ source \in [Members(array) -> Members(array)]
  /\ opened \subseteq Members(array) /\ (pc # "sources" => opened = {})
  /\ runs \in Nat /\ swaps \in Nat

(* The sources opened last were the members they were taken for. *)
Genuine == \A i \in Members(array) : source[i] = i

(* Every byte at the output is the byte of the volume at that place,       *)
(* whatever member was missing and wherever the call is, was cut short or  *)
(* was refused: array.py 247-331, 376-379.                                 *)
OutputIsPrefix ==
  Genuine => \A k \in 1..Len(out) : out[k] = LogicalByte(k)

(* The same without the proviso on the device names, which the             *)
(* documentation does not make.                                            *)
OutputIsVolume == \A k \in 1..Len(out) : out[k] = LogicalByte(k)

(* A call that returned has put exactly the bytes asked for at the output, *)
(* and no more than its members cover: array.py 363, 376-382.              *)
DoneIsComplete ==
  pc = "done" /\ path \in Own
    => Len(out) = Asked /\ Asked > 0 /\ Asked <= Maximum(array)

(* An image at the path after a call that raised is accounted for: an      *)
(* earlier call left it and this one refused to touch it; or the clean-up  *)
(* of this one could not close or unlink it, and that is what was raised;  *)
(* or only the last close failed, and it is whole: array.py 382-394.       *)
LeftoverExplained ==
  pc = "failed" /\ path = "image" =>
    \/ existing = "image"
    \/ error \in {"close", "unlink"}
    \/ error = "return" /\ Len(out) = Asked

(* What another program created, and an image once it is left behind, is   *)
(* neither written nor removed by any later call: array.py 353-361.  Only  *)
(* a file that took the place of an image still being written is at risk,  *)
(* since 386-388 unlinks by name.                                          *)
Displaced == pc \in Opened /\ existing = "absent" /\ path # "image"
LeftAlone ==
  \/ path = "foreign" /\ ~Displaced
  \/ path = "image" /\ pc \in Final \cup {"stat"}
ExistingOutputKept == [][LeftAlone /\ Tool => UNCHANGED <<path, out>>]_vars

(* A block device is written only with destructive approval, and never past *)
(* its end: array.py 347-352, 364-372.                                      *)
BlockWritesApproved ==
  [][path = "block" /\ out' # out
       => allow /\ existing = "block" /\ Len(out') <= DeviceSize]_vars

(* Members whose data regions hold whole chunks are never read past their  *)
(* end: a short read needs a capture that stops inside a chunk, so that    *)
(* array.py 217-231 promises more than 271-331 can read.                   *)
WholeChunks ==
  \A i \in Members(array) : (array.size[i] - array.base) % array.chunk = 0
WholeChunksNeverShort ==
  Genuine /\ WholeChunks => error # "short"

(* The maximum can be read: a call on healthy devices for no more than the *)
(* maximum never fails for want of member data.                            *)
MaximumIsReadable == Genuine => error # "short"

(* A call ends, however reads and writes turn out: array.py 261-266 always *)
(* makes progress.                                                         *)
Terminates == (pc \notin Final) ~> (pc \in Final)

(* The steps a call has left at most: two for each chunk to come, one for  *)
(* each member to open, and the statements before, between and after them. *)
Pieces(bytes, chunk) ==
  IF bytes <= 0 THEN 0 ELSE (bytes + chunk - 1) \div chunk
ToOpen == Cardinality(Members(array) \ opened)
StepsLeft ==
  CASE pc = "stat"    -> 2 * Pieces(Asked, array.chunk) + ToOpen + 5
    [] pc = "open"    -> 2 * Pieces(requested, array.chunk) + ToOpen + 4
    [] pc = "iter"    -> 2 * Pieces(requested, array.chunk) + ToOpen + 3
    [] pc = "sources" -> 2 * Pieces(requested, array.chunk) + ToOpen + 2
    [] pc = "read"    -> 2 * Pieces(remaining, array.chunk) + 2
    [] pc = "write"   -> 2 * Pieces(remaining, array.chunk) + 1
    [] pc \in {"close", "cleanup"} -> 1
    [] OTHER          -> 0

(* Why it ends: each statement uses up at least one of finitely many       *)
(* steps, on every path through the errors, and nothing others do in the   *)
(* meantime gives the call new ones; only the next call starts afresh:     *)
(* array.py 233-269, 339-394.                                              *)
CallAdvances ==
  [][/\ Tool => StepsLeft' \in 0..(StepsLeft - 1)
     /\ StepsLeft' > StepsLeft => Rerun]_vars

(* The strengthening the proofs of the above need: how far the call is,    *)
(* seen from the statement it is at.                                       *)
OutputIsOurs ==
  /\ pc = "open" =>
       \/ existing = "block" /\ path = "block"
       \/ existing = "absent" /\ path \in {"absent", "foreign"}
  /\ pc \in Opened =>
       \/ existing = "block" /\ path = "block"
       \/ existing = "absent" /\ path # "block"
  /\ pc \in Opened \cup {"open"} /\ existing = "block" =>
       allow /\ requested <= DeviceSize

AskedFor == pc \in Opened \cup {"open", "done"} => requested = Asked

NoErrorYet == pc \notin {"cleanup", "failed", "abandoned"} => error = "none"

Progress ==
  /\ pc \in {"iter", "sources"} => out = <<>>
  /\ pc \in {"sources", "read", "write", "close"} =>
       requested > 0 /\ requested <= Maximum(array)
  /\ pc \in {"read", "write"} =>
       /\ remaining >= 0 /\ Len(out) + remaining = requested
       /\ remaining > 0 => Len(out) = chunkNo * array.chunk
  /\ pc = "close" => Len(out) = requested
  /\ pc = "write" =>
       remaining > 0 /\ block = LogicalChunk(array, source, chunkNo, Amount)

Inv ==
  /\ TypeOK /\ OutputIsOurs /\ AskedFor /\ NoErrorYet /\ Progress
  /\ OutputIsPrefix /\ DoneIsComplete /\ LeftoverExplained
  /\ WholeChunksNeverShort

(* The recovery the caller sees: see AbstractRecovery.  The image is what  *)
(* the call has put into the file it opened, whatever became of its name.  *)
Recovery == INSTANCE AbstractRecovery WITH
  goal    <- requested,
  image   <- out,
  verdict <- IF pc \in Final THEN pc
             ELSE IF pc \in {"stat", "open"} THEN "checking" ELSE "running",
  stable  <- swaps = 0

RecoverySpec == Recovery!Spec
===============================================================================
