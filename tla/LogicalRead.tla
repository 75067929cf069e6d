------------------------------ MODULE LogicalRead ------------------------------
(***************************************************************************)
(* Reading the logical volume through an assembled ArecaArray: how much of *)
(* it the members are said to cover, and the block one logical chunk is    *)
(* reconstructed to.  Lengths and offsets are bytes.                       *)
(*                                                                         *)
(* An array is the record ArecaArray.__init__ leaves behind:               *)
(*   level, count      RAID level and member count of the Raid Set         *)
(*   chunk, logical    chunk_bytes and logical_bytes of the volume         *)
(*   base              data_offset_bytes of the volume on every member     *)
(*   size              device_bytes of each supplied member, by its index  *)
(***************************************************************************)
EXTENDS RaidLayout, ControllerLayout, Sequences

CONSTANT SECTOR_SIZE

ASSUME SectorAssumption == SECTOR_SIZE \in Nat \ {0}

Members(array) == DOMAIN array.size

(* What __init__ has established of an array it returns. *)
IsArray(array) ==
  /\ Supported(array.level, array.count)
  /\ array.chunk \in Nat \ {0} /\ array.chunk % SECTOR_SIZE = 0
  /\ array.logical \in Nat \ {0} /\ array.logical % SECTOR_SIZE = 0
  /\ array.base \in Nat
  /\ Members(array) \subseteq 0..(array.count - 1)
  /\ \A i \in Members(array) : array.size[i] \in Nat
  /\ Complete(array.level, array.count, Members(array))

(* The data region of the shortest member. *)
Available(array) == Min({array.size[i] - array.base : i \in Members(array)})
(* Mutated: the members are taken to cover the volume. *)
MaximumUncapped(array) ==
  IF Available(array) <= 0 THEN 0 ELSE array.logical

(* maximum_reconstructable_bytes *)
Maximum(array) ==
  IF Available(array) <= 0 THEN 0
  ELSE Min({array.logical,
            Available(array) * DataWidth(array.level, array.count)})

(* Where in each of its sources the chunk lies. *)
ChunkOffset(array, chunk) ==
  array.base + Row(array.level, array.count, chunk) * array.chunk

ChunkSources(array, chunk) ==
  Sources(array.level, array.count, Members(array), chunk)

(* _read_exact on every source; fds[i] is the member that really is behind *)
(* the file descriptor opened for index i.                                 *)
ChunkReadable(array, fds, chunk, amount) ==
  \A i \in ChunkSources(array, chunk) :
    ChunkOffset(array, chunk) + amount <= array.size[fds[i]]

(* _logical_chunk, when no read fails. *)
LogicalChunk(array, fds, chunk, amount) ==
  [x \in 1..amount |->
     XorBlocks([i \in ChunkSources(array, chunk) |->
                  StoredByte(array, fds[i], ChunkOffset(array, chunk) + x - 1)])]

(* The volume itself: byte number b, counted from 1 as sequences are. *)
LogicalByte(b) == {b - 1}
===============================================================================
