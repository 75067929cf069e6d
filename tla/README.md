# ARC-5020 recovery in TLA+

The repository recovers the volumes of an Areca ARC-5020 enclosure from its
member disks, without the controller.  This directory holds TLA+ models of its
parts, the TLC runs that check them on small instances, and TLAPS proofs of the
properties that matter most, for every value of the constants.

## The system

| Component | State it keeps | Operations | Correct when |
|---|---|---|---|
| Metadata parser, `areca/metadata.py` 84-331 | none (a member's `Inspection`) | `inspect`, `find_gpt_offset` | it reports what LBA 1 to 7 say, refuses what it cannot interpret, warns of what does not fit |
| Assembly, `areca/array.py` 50-215 | the list of `Member`s, then the `ArecaArray` | `load_member`, `__init__`, `_select_volume`, `_decode_level`, `_validate_completeness` | members of one Raid Set only, each at its own index, enough of them, whatever the order of the paths |
| Geometry and reads, `areca/array.py` 69-86, 217-331 | none | `maximum_reconstructable_bytes`, `_logical_chunk`, `raid5_row_layout`, `xor_blocks` | a logical chunk is what the controller stored for it, whichever redundant member is missing |
| Reconstruction, `areca/array.py` 247-269, 333-394 | output descriptor, bytes written, the generator's position | `reconstruct`, `iter_logical` | the output is the volume or a prefix of it, complete on success, explained by the error when it outlives a failure, and nothing else is touched |
| Device-mapper tables, `areca/array.py` 396-430, `areca_raid.py` 240-262 | the mapping in the kernel | `dm_table`, `dm-table`, `create-dm` | the mapping reads what reconstruction would write, and a writable one leaves nothing stale |
| Loop mapping, `areca/metadata.py` 409-440, `areca_member.py` | the loop device | `create_loop` | the loop device shows what reconstruction would write |
| Output guard, `areca_raid.py` 47-110, 201-233 | none; the devices are the system's | `block_device_family`, `assert_output_device_unused` | no mounted, stacked or input device is written, under whatever name |
| Pattern writer, `raid_pattern.py` 39-168 | the sectors of the output | `write`, `verify` | every sector written tells where it belongs, and verify finds out what does not |
| Pattern scanner, `raid_pattern.py` 171-204 | none | `scan` | the runs it reports are real, maximal and complete |
| Pattern verifiers, `raid_pattern.py` 207-322 | none | `verify-raid3-parity`, `verify-raid5-member` | they accept the member asked about, and only that |
| iSCSI scripts, `areca_iscsi*.sh` | the host's node record, sessions, queue limits | discovery, login, logout | the devices of the one matching session get their limits before use |
| Command lines, `util.py`, `__init__.py` | none | parsing and printing | - |

The command line assembles an array from the paths it is given, and then
inspects it, reconstructs it or maps it.  The components share no memory; what
they share is the outside: **device names**, which the kernel may give to
another disk between any two opens; the **output path**, which other programs
use as well; the **members**, which may be unreadable in places, too short, or
of another Raid Set; **block devices** stacked, mounted and mapped by others;
and the **iSCSI sessions** of the host.  The hard behaviours follow from that:

* interleavings of one call's statements with other programs: at the output
  path, with devices that come back under other names, with mounts, and with
  logins and logouts of other users of `iscsiadm`;
* check and use apart: `main` examines a device, `reconstruct` opens a path;
* partial failure: any read, write, open, sync, close or unlink may fail, a write
  may take a part of a block, and the call must clean up what it created and
  nothing else, in a clean-up that may fail itself;
* interruption: Ctrl-C and a killed process run no `except Exception` handler,
  and a power cut loses what was not flushed;
* repetition: a second call finds what the first left;
* waiting: the login script polls for sessions and devices that may be late,
  another's, or never come;
* numeric edges: the rotation of parity, degraded rows, last chunks, captures
  that stop inside a chunk, LBAs at the end of their range, two independent
  computations of a member's share.

There are no threads, locks or messages in the code.

## Modules

| Module | Models |
|---|---|
| `RaidLayout` | which level the metadata mean, which members suffice, which members a chunk is read from, XOR on symbolic content |
| `ControllerLayout` | what the controller put on each member: the reference for all reads |
| `LogicalRead` | covered length and one logical chunk as bytes; `IsArray`, what an array must be |
| `LayoutScan` | every Raid Set with every subset of its members, chunk by chunk |
| `MemberMetadata` | `inspect` and the fingerprint as functions of a disk |
| `ArrayInit` | the checks of `__init__` and the array it builds, as functions of a list of members |
| `DeviceNames` | the devices a call opens by name, and how they change places: shared by `Assembly` and `LoopMap` |
| `Assembly` | `assemble`: two opens per member, `__init__`, devices that change names |
| `Reconstruct` | `reconstruct` with `iter_logical`, one action per statement that can fail or be seen from outside |
| `AbstractRecovery` | what the caller of `reconstruct` relies on |
| `DeviceMap` | `dm-table` and `create-dm`, and what the kernel makes of a table |
| `LoopMap` | `areca_member.py --create-loop` |
| `OutputGuard` | the checks of `main` and of `reconstruct` on an output device, on a machine that changes |
| `PatternTool` | what the two modules below have in common |
| `PatternWrite` | `write` and `verify` on one output, with kills and power cuts |
| `AbstractOutput` | what the user of `write` and `verify` relies on |
| `PatternScan` | `scan`, sector by sector |
| `PatternMembers` | the two member verifiers on captures of parity sets |
| `IscsiLogin` | the login script command by command, discovery and logout by others |
| `MC...` | small instances for TLC |
| `LogicalReadProofs` | theorems about one read, used by the proofs below |
| `LayoutProofs` | theorems about `LayoutScan` and `PatternMembers`, the two ways to a member's content |
| `AssemblyProofs` | theorems about `Assembly` and `LoopMap`, the two users of `ArrayInit` |
| `PatternProofs` | theorems about `PatternScan` and `PatternWrite` |
| `ReconstructProofs`, `DeviceMapProofs`, `OutputGuardProofs`, `IscsiLoginProofs` | theorems about the module of the name |

How they meet:

* `Assembly` and `LoopMap` share `DeviceNames`, which rests on `ArrayInit`, and
  that on `MemberMetadata`.
* `IsArray` is what `Reconstruct` and `DeviceMap` assume of `Arrays`, and what
  `AssembledIsArray` shows of every array `assemble` returns.
* `Reconstruct`, `DeviceMap`, `LoopMap` are all judged by `StoredByte` of
  `ControllerLayout`; `LoopMap` compares the two ways to a RAID 1 volume with
  each other.
* `ControllerLayout` takes the parity levels from the verifiers of
  `raid_pattern.py`, and `PatternMembers` closes the circle: it takes the
  captures from `array.py`'s layout (`RaidLayout`) and judges the verifiers.
* `OutputGuard` ends with the open that `Reconstruct` begins with.
  `Reconstruct.Stat` has the checks on the mode and the acknowledgement in
  detail, `OutputGuard` has the devices behind the path.

### Data

A byte of the volume is a symbol, its number.  A block is a sequence of sets of
symbols: the symbols XORed into each byte.  `xor_blocks` keeps the symbols that
an odd number of blocks hold, so what XORs to `{b}` is byte `b` whatever the
bytes are.  `StoredByte` gives the set at an offset of a member.  It is
computed from `StoredChunks`, which takes the parity levels from the verifiers
of `raid_pattern.py` (they share no code with `array.py`) and the mirrored and
striped levels from the members the tests build.  Neither `Sources` nor
`Holders` is used in it.

A disk is a record of what `inspect` can tell apart.  Magic numbers are a flag,
the `$VolumE$` records a sequence in slot order, the GPT headers the set of
starts they imply.  The fingerprint is the record of all fields SHA-256 sees,
the member index left out: collisions are not modelled.  Warnings about the MBR
signature and the capacity field are left out; no property is about them.

A pattern sector is the LBA it decodes to, or a value that decodes to none.  For
the XORs of `PatternMembers` that is not enough, since the XOR of pattern
sectors is compared with XORs of others: there it is whether an odd number of
sectors went in (signature and masks survive only then) and the XOR of the LBAs.
That XOR is a constant operator, `LbaXor`: the run gives it the one of
`Bitwise`, and the proof asks nothing of it.

### Correspondence, `Reconstruct`

| Code | Model |
|---|---|
| `os.stat`, the checks on the mode, the size check (340-372) | `Stat` |
| `os.open(output_path, flags)` (374) | `OpenOutput`, `OpenFails` |
| the length checks of `iter_logical` (247-255) | `Iter` |
| `_open_sources` (233-239), one member at a time | `OpenSource`, `OpenSourceFails` |
| `_logical_chunk` up to `yield` (261-264, 271-331) | `Read`, `ReadFails` |
| `os.write` and the resumed generator (378-380, 265-266) | `Write`, `WriteFails` |
| `os.fsync`, `return` (381-382) | `Fsync` |
| `os.close` in `finally` after the return (392-394) | `Close` |
| `except Exception` (383-391): `os.close`, `os.unlink`, `raise` | `CleanUp` |
| an exception that is not an `Exception`, a killed process | `Abandon` |
| the next call (333-341) | `Rerun` |

The clean-up can fail like everything else.  A close that raises (384) skips the
unlink, an unlink may raise anything but that the name is gone (388-390), and the
last close may take the place of a good result (394): the call ends with
`"close"`, `"unlink"` or `"return"` as its error, and the image stays.
`LeftoverExplained` therefore does not promise that a failed call leaves no image.
It says that one which is there was there before, or belongs to one of these three
errors, in the last case whole.

`path` is what is at the output path: `"image"` is a file a call created,
`"foreign"` one of another program.  `out` holds the bytes put into the file the
last call opened.  `behind` maps each member's name to the member that answers,
`source` the members the descriptors really lead to.  The environment creates a
file, removes an image (also the one being written, which 387-390 allows for)
and exchanges two device names.  A block device at the output path stays there.

`AbstractRecovery` has an image that grows along the volume, is complete when a
call succeeds and stays as it is between calls.  Its `stable` says that every
member has kept its name; once one has not (`Move`), it no longer promises what
a growing image holds.  `Reconstruct` implements it with `stable` as
`swaps = 0`, whatever moves.

### Correspondence, `Assembly` and `LoopMap`

`InspectMember` and `FingerprintMember` are the two opens of `load_member`; each
may end the call with an `OSError`.  `Construct` is `__init__`: all its refusals
raise before anything outside has changed, so their order cannot be observed and
they are one condition, `Accepts`.  In `InspectOutcome` the order is kept where
it matters, since a later record that divides by zero is not reached.  `disks`
and `torn` are history variables and guard nothing.

`LoopMap` has one action per open of the device: `InspectDevice`, and `Losetup`
after `CheckLoop`.  The checks of `create_loop` run in the code's order where the
order shows: `inferred_raid_level.startswith` is reached only by what passed the
checks before it, and raises an `AttributeError` when the level is `None`
(`pc = "crashed"`).  So does the `ZeroDivisionError` of `inspect` for a member
count of 0 or 1, in `Assembly` as well; neither is turned into an error message
by `main`.

### Correspondence, `DeviceMap`

| Code | Model |
|---|---|
| `dm_table`, the covered length (398-399) | `Capacity` |
| `dm_table`, `isabs` and `os.stat` of a member (400-406) | `CheckMember` |
| `dm_table`, the table (407-430); `dm-table` prints it (`areca_raid.py` 240-243) | `MakeTable` |
| the conditions on `--writable` (245-255) | `CheckWritable` |
| `dmsetup create` (256-262) | `Dmsetup`, `DmsetupFails` |

A table names members by path, and the kernel opens the paths again: `behind`
and `path` may change in between (`Unplug`, `SwapNames`).  `LegOf` and
`OffsetOf` are the linear and striped targets of the kernel, which also refuses
a leg that ends past its device.

### Correspondence, `OutputGuard`

| Code | Model |
|---|---|
| `os.stat(args.output)`, `realpath` (201-208) | `Stat` |
| `block_device_family` (78-110): `lsblk`, `lsblk --inverse` | `ListBelow`, `ListAbove` |
| whose family is listed: the output's (209), then each member's (217) | `Subject` |
| `output_family`, the comparison with it (209, 215-222) | `Take` |
| each member's `os.stat` (210-214) | `StatMember` |
| `assert_output_device_unused`, the acknowledgement (47-75, 223-228) | `AssertUnused` |
| any `lsblk` or `stat` that fails | `CheckFails` |
| `reconstruct`'s own `os.stat`, and its open (`array.py` 340-374) | `Restat`, `Open`, `OpenFails` |

A *world* gives each device its type, the edges `lsblk` knows and the storage it
reads and writes.  A family is put together from two `lsblk` calls, each with the
tree of its own moment; `Unused` looks below.  `os.stat` with `realpath`, and one
`lsblk` call, are one step each.  Others mount, stack a device and make the path
lead elsewhere (`Mount`, `Stack`, `Relink`).  `before`, `busy` and `moved` are
history: what was mounted at the start, at the open, and whether the path moved.
The properties say what the checks really give, not what one would like: inputs are
spared under whatever layer, *while the path keeps its meaning*; filesystems are
spared that were mounted at the start below the output, not beside it, and not those
mounted after the check.

### Correspondence, the pattern tool

`PatternWrite.CheckWrite`, `WriteChunk`, `WriteShort`, `Fsync` are
`write_pattern`; an LBA past 64 bits raises a `struct.error` in the middle
(`pc = "crashed"`).  `CheckVerify`, `Verify` and `VerifyFails` are
`verify_pattern`, a sector at a time.  Any of the checks may also end in an
`OSError`, which is a refusal to the user; an `os.pread` that fails ends the
command (`"failed"`).  `argparse` takes a negative `--start-lba`, and the only check
on the range (153) lets it through: each read then fails, or raises an
`OverflowError` where the offset is below what a C `long` holds (`"crashed"`).
`disk` is what a read gives, `flushed` what is left after a power cut,
which may lose any part of the difference (`PowerCut`).  `intact` is the last
write that ended well, `asked` every write that began; both are history.

`AbstractOutput` has no chunks, no cache and no loop: a write that has begun puts
sectors of its range in any order (`Put`), is done only when the whole range is
there and safe (`Finish`), and leaves each sector as it was or as it was to be where
it breaks off, one of them perhaps torn (`BreakOff`); a verify is one comparison of
its whole range with what is there at that moment (`Compare`).  Any command may also
come to nothing before it has done anything (`Refuse`), which is what a verify with
a failing read does.  `PatternWrite` implements it with `safe` as `flushed`.  The
verify takes effect when its loop ends: until then `verdict` is still `"asked"`, and
each turn of the loop is a stutter.

`PatternScan.Scan` is one turn of the loop of `scan_runs`, `Begin`, `Continues`
and `Ended` its three branches; `Finish` closes the last run.  `ScanFails` is a read
that raises, and takes the report with it; `--offset` and `--bytes` may be
negative, which `parse_size` accepts: the one ends like a negative `--start-lba`,
the other in a scan of nothing.  `Shrink` is another program that cuts the input.
`NothingMissed` is about what is still there: every sector the scan has been
through and that can still be read whole with a pattern on it is in a run.

`PatternMembers.VerifyRow` is one row of `verify_raid3_parity` or
`verify_raid5_member`, which are the same but for the sector expected.
`VerifyRowRaises` is a row that raises: a `struct.error` when some LBA of it does
not fit (`RowFits` fails: a negative base, or LBAs past 64 bits, here `MaxLba`),
else an `OSError` of its read.  A
question may begin at any row of a member.  It is the right one
(`RightQuestion`) when its base is that of the row and the index it gives has
moved along with the parity: row `k` of member `i` looks like row 0 of member
`i + k`, which is how a capture that starts inside a volume can be asked about.
A damaged sector is `Junk`, which neither a pattern sector nor an XOR of them is.

### Correspondence, `IscsiLogin`

| Script | Model |
|---|---|
| `iscsiadm -o show`, the script's own discovery (40-43) | `ShowNode`, `Discover` |
| `update_node`, four values (45-49) | `UpdateNode` |
| `find_session_id` (51-60) | `FindSessionId`, used by `FindSession` and `PollSession` |
| login or the session that is there (62-71) | `FindSession`, `Login` |
| `udevadm settle` (73-75) | `Settle` |
| waiting for the session (77-95) | `PollSession` |
| waiting for a device of it (97-113) | `ListDevices` |
| the loop over the devices (115-131) | `NextDevice`, `WriteSectors`, `WriteDepth` |
| `set -e` | `CommandFails` |
| `areca_iscsi_discover.sh`, or any other discovery, by another user | `OtherDiscovers` |
| `areca_iscsi_logout.sh`, or any other logout, by another user | `Logout` |

The kernel attaches devices to open sessions and udev makes their nodes
(`Attach`, `MakeNode`), at any time or never.  Others log in and out
(`OtherLogin`, `Logout`).  `ported` says whether `PORTAL` is written the way
`iscsiadm` prints it, with a port: without it the script never finds a session.
A write to `/sys/block/NAME` reaches whatever device has the name by then.
A discovery, whoever makes it, keeps the node record, makes it anew with the
defaults, or removes it (`Rediscovered`).  Between the script's updates and its
login this loses values without any error.  `lost` remembers which, and
`FreshIsNegotiated` is exact: a login of the script's own is under all values but
these.  `fresh`, `logouts` and `lost` are history.

## Runs

| Run | Expect | Shows |
|---|---|---|
| `reconstruct` | pass | the invariants and action properties of `Reconstruct`, that it implements `AbstractRecovery`, and that calls end, one step nearer with every statement |
| `layout_scan` | pass | every complete set decodes every chunk; an incomplete one hides a chunk of its first rows |
| `assembly_safety` | pass | only members of one set are assembled, in any order to the same array, and a short member is reported |
| `device_map` | pass | a map reads the volume, a writable one leaves no stale copy, a table of whole rows fits its members |
| `output_guard` | pass | which inputs and mounts are spared, and that a device needs the acknowledgement |
| `pattern_scan` | pass | runs are real, maximal and complete |
| `pattern_write` | pass | what is on the output after any cut, what lasts, what `verify` concludes, and that both commands implement `AbstractOutput` |
| `pattern_members` | pass | the two layouts of the repository agree; no damaged sector of the range verifies; what verifies over a full turn is the member asked about |
| `loop_map` | pass | the loop device shows what `reconstruct` would write |
| `iscsi_login` | pass | whose queues are limited, under which values the script's login was negotiated, what a successful end means, and that the script ends, one command nearer with every one it runs |
| `swapped_names` | violation | members read under each other's name after assembly |
| `inconsistent_metadata` | violation | a volume assembled though copies of its start or length differ |

The runs that expect a violation show a place where the code does something else
than a document of the repository says; `PROJECT.json` quotes both.  Further
configurations end with a counterexample of the same kind.  They are not among
the runs; `tlc -config X.cfg M` shows each.

| Configuration, module | Property | What the code does | What is said |
|---|---|---|---|
| `MCMaximum`, `MCReconstruct` | `MaximumIsReadable` | `maximum_reconstructable_bytes` counts parts of a row that end inside a chunk of one member and cannot be read whole | array.py:254, docs/library.md:95 |
| `MCTorn`, `MCAssembly` | `TornMembersRefused` | `load_member` opens twice, and a name that moved in between joins one disk's metadata to another's fingerprint | docs/library.md:65 |
| `MCSelect`, `MCAssembly` | `SelectByMetadataIndex` | an integer selector takes a position in the list | docs/library.md:45 |
| `MCCounts`, `MCAssembly` | `UnknownCountsRejected` | a member count of 0 or 1 is a `ZeroDivisionError` | README.md:109 |
| `MCTable`, `MCDeviceMap` | `TableWithinMembers` | a volume that ends inside a row passes the length check on members that lack its last chunks | array.py:397-399 |
| `MCGuardRace`, `MCOutputGuard` | `MountedRejected` | a filesystem mounted after the check is overwritten | docs/library.md:108 |
| `MCLoopGpt`, `MCLoopMap` | `LoopFollowsGpt` | the start is never taken from the GPT | docs/recovery.md:41 |
| `MCLoopLevel`, `MCLoopMap` | `UnknownLevelRefused` | an unknown level code is an `AttributeError` | metadata.py:5 |
| `MCIscsiReuse`, `MCIscsiLogin` | `DoneIsNegotiated` | a session that is there is reused under its old values | README.md:45 |
| `MCIscsiDiscover`, `MCIscsiLogin` | `FreshKeepsLimits` | a discovery between the updates and the login undoes what was set | README.md:45 |

`CHECK_DEADLOCK FALSE` stands in every configuration but `LayoutScan.cfg`:
commands really end.  `LayoutScan` wraps around and is checked for deadlock.

### Bounds, and why they are enough

* A sector is two bytes where lengths are bytes: the smallest size at which a
  length can miss a sector boundary.
* `MCReconstruct.MCArrays`: each level whole and degraded; chunks of one and two
  sectors; volumes that end inside a chunk; RAID5 over two rows with parity and
  with data missing; a capture cut by one sector, one cut in front of its data,
  and one that stops inside every member's chunk, of a RAID 1+0 set with one half
  of each pair.  The proofs hold for all arrays.
* `MCLengths`: none given, zero, off the sector boundary, and ten bytes, which are
  several chunks of most arrays, a part of the second chunk of others, and more
  than the smallest of them cover.
* `MaxRuns = 2`: a second call meets everything a first call can leave, and
  starts from a state that does not depend on earlier ones otherwise.
* `MaxSwaps = 1`: one exchange suffices to break what exchanges break, and
  `SwapNames` is its own inverse.
* `Chunks = 24` in `LayoutScan`: the pattern repeats after `count` rows, at most
  12 chunks.  The module itself asks for at least 4, the data chunks of the
  widest set's first row and more: with fewer a missing member might hold none.
* `MCAssembly.MCBenches`: every level, two sets mixed, a set twice at one index,
  short, unsigned and contradictory members, every refusal and the crash of
  `inspect`.  `MCPaths`: up to three paths with repetition in any order, or all
  four.
* `MCDeviceMap.MCArrays`: every level; RAID 1 and 1+0 degraded either way; a
  member one byte short; volumes that end on a row and inside one.
  `MaxChanges = 2`: one member is unplugged and two exchange names, in any order.
* `MCOutputGuard`: a logical volume that spans a partition and another disk, and
  a multipath map with a partition; any subset of the devices there, at most one
  mounted at first, two members anywhere, one change at any moment.  A check is
  one step, so a change is before or after it: one change shows each pair of
  check and use, and the proofs take any number.
* `MCPatternScan`: all inputs of up to four sectors over three LBAs and none;
  a run that ends, one that follows it at once, and a gap need three.  Offsets from
  one sector before the input and off the sector boundary, lengths from below zero
  to past the end.
* `MCPatternWrite`: an output of four sectors in chunks of two, so that writes
  take one whole chunk, a part of one, or two; LBAs to 3, so that a range can end
  past it in its first or second chunk; verifies that begin one sector before the
  output, at its start and after it; three commands, for a write, a second
  write over it, and a verify.
* `MCPatternMembers`: each member of RAID 3 sets of three and four and of the
  RAID 5 set of four; ten sectors, at least a turn of the parity; every question
  that differs in level, offset, length, base, width, index or chunk size.  The
  bases are those of rows 0, 1 and 2 of the captures, so that right questions
  from a later row are among them, one that belongs to no row, one before the first
  LBA and one from which a range runs past the last (`MaxLba = 35`).
* `MCLoopMap`: two names with every pair of disks of a list with every level code,
  length, count and contradiction `create_loop` looks at.
* `MCIscsiLogin`: two sessions, so that one can be another's; two devices, so
  that a name can pass on; two rounds of each loop, a first and a last; two
  changes by others: a logout and a login for a name to change hands, a discovery
  before and after any command.

### Fairness

`Reconstruct` assumes `WF_vars(Tool)`: the call is one thread that goes on while
its process runs, and each system call returns, with success or an error.
`IscsiLogin.FairSpec` assumes `WF_vars(Script)`: each command of the script
returns and its sleeps end.  This is what the two `Terminates` need, and all:
nothing is assumed of the environment, a call may be abandoned at any time, and
a session or device need never appear.  A device or command that neither answers
nor fails is outside of these assumptions.  The other modules state no fairness
because they claim no liveness.

## Proofs

`tlapm` proves, with no step left open:

* `LogicalReadProofs`: `CompleteSetDecodes`, the chunk a complete set of members
  is read to is the chunk asked for, at every level, for every chunk number;
  `LogicalChunkIsVolume`, the same for bytes and with any member behind the
  descriptors that is the right one; `WholeChunksReadable`, what is read within
  the maximum is there if the members hold whole chunks.  The parity cases count
  the blocks that hold a symbol: a data chunk is in its own block and in the
  parity, so with the data block missing exactly one block of the row holds it,
  and every other chunk of the row is in two or none.
* `LayoutProofs`: `EveryChunkDecodes`, `SourcesDecode` for scans of any length;
  `CompletenessIsExact`, that `_validate_completeness` refuses no set from which
  everything could be read and accepts none that hides a chunk;
  `VerifiersAgree`, that the verifiers of the pattern tool accept every member
  `array.py` would read as the volume, for any chunk size, base, capture and
  row the question begins at; `DamageFound`, that whatever they are asked about
  whichever member, no damaged sector is in a range they accept.
* `ReconstructProofs`: `Inv` is inductive, and with it `TypeOK`,
  `OutputIsPrefix`, `DoneIsComplete`, `LeftoverExplained`,
  `WholeChunksNeverShort`, `ExistingOutputKept`, `BlockWritesApproved`, and
  `ImplementsRecovery`: `Spec => RecoverySpec`, for any number of exchanged names;
  `CallsAdvance`, that every statement uses up one of the steps the call has left.
* `AssemblyProofs`: `Inv` is inductive, and with it `AssembledIsArray`,
  `MixedArraysRefused`, `OrderIrrelevant` for every permutation of the list, and
  `TruncationIsReported`; for the loop device, `LoopAgreesWithArray`.
* `DeviceMapProofs`: `TargetReadsByte`, where the linear or striped target looks
  for a byte the controller stored that byte and nothing else; with the
  invariant, `MappingReadsVolume`, `WritesReachEveryCopy` and `WholeRowsFit`.
* `OutputGuardProofs`: `TypeOK`, `InputsSpared`, `MountedSpared`,
  `DevicesNeedAck`, for every machine and any number of changes to it.
* `PatternProofs`: `TypeOK`, `RunsAreReal`, `RunsAreMaximal`, `NothingMissed`,
  for inputs and ranges of any size, wherever they begin, any truncation and any
  failing read; `WriteInv`,
  `PlacedRight`, `DoneIsDurable`, `VerifiedIsWritten`, `WrittenVerifies` and
  `ImplementsOutput`: `WriteSpec => OutputSpec`, for outputs and chunks of any
  size, and any number of commands and power cuts.
* `IscsiLoginProofs`: `TypeOK`, `OnlyOwnDevices`, `DoneIsLimited`,
  `FreshIsNegotiated`, for any number of sessions, devices, polls and discoveries;
  `ScriptsAdvance`, that every command leaves fewer to run.

**Why the invariants are what they are.**  `OutputIsPrefix` alone is not
inductive: to append the right block the call must be at the chunk that follows
what it has written.  `Progress` says so: `Len(out) + remaining = requested`,
and while bytes remain `Len(out)` is a multiple of the chunk, because only the
last block is shorter.  `OutputIsOurs` ties what the call found at the path to
what it may clean up.  For
`LeftoverExplained` it takes both: a call that raised before its output was open
has no image of its own, and at the last close everything has been written.  In
`Assembly`, `Loaded` keeps that each member was
inspected on a disk `inspect` did not stop at, which is where the non-zero
length of a volume comes from, and that without a torn member the fingerprint
is of the same disk.  `Judged` records that the array was built from accepted
members.  In `DeviceMap`, `Returned` keeps what has been refused on the way to a
table, so that a map made later still has it: the level has a table, the members
cover the volume, a writable map is RAID 0.  In `OutputGuard` the invariant says
what each check passed meant at its moment: the output's family meets no checked
member's family *in the tree of devices that were there*, which lasts because
devices only appear on top of others, and a tree that had a common ancestor has it
for good.  In `PatternScan` the growing run ends where the scan is or was broken
off, and that is what lets the next sector be compared with it alone.  In
`PatternWrite` no property is inductive alone, since each is about what an
earlier command left: `WriteInv` has the properties and what connects them.
`Hashed` ties the digest to what is on the output; `Settled` says that nothing a
power cut could take is left once a write is done, and that the range of the
last intact write still holds what it was given; `Verified` that each sector
verify has been through was written by a write asked for; and `Placed` holds of
`flushed` as well as of `disk`, because a power cut makes the one the other.
The refinement needs one thing more, `Compared`: what a verify under way has seen
is still there, since nothing but a power cut, which ends it, touches the output
meanwhile.  That is why a loop of reads can take effect at one moment, its last.
`LoopInv` is what the checks of `create_loop` leave: a loop device that is there
was put over an inspected mirror with one volume.  `MembersInv` keeps that a
mismatch was seen, in a row inside the range asked for, and `DamageInv` that no
row gone through holds the damaged sector; that the rows of a question are all of
its range is division with remainder.  In `IscsiLogin` the
invariant follows the limits: what has one belongs to the
session found, and what is listed and not yet limited has none of the others'; and
it follows the record: until the login it holds what has been set, but for `lost`.

**Arguments on data.**  *Order*: members with one fingerprint carry the same
Volume records and count, so it does not matter which comes first; with no index
twice, the member at an index is the same in any order (`AcceptsPermuted`).
For a refused list the permutation is undone: were the permuted one accepted,
so would the list be (`AcceptsEitherWay`).
*Truncation*: `inspect` divides the sectors of the volume, rounded up, by a width
of its own, `maximum_reconstructable_bytes` multiplies what the members hold by
another.  The two widths agree at every level that is decoded (`WidthsAgree`),
and enough rounded shares make the whole (`RoundedUp`, `LongMembersCover`).
*Completeness*: a refused RAID 0 or mirrored set lacks every copy of some chunk
of the first row.  A refused parity set lacks two members; if one of them is the
first row's parity, the other's chunk is in no block there is, and if both hold
data, the two chunks are in the parity together and nowhere else, so no XOR
gives one without the other (`TwoMissing`, `XorAbsent`, `XorTwins`).
*Verifiers*: row `k` of a RAID 5 member is row 0 of the member `k` further on
(`Turned`), and in each row both sides name the same chunk or XOR over the same
ones (`SameBlocks`, `ReadsAsExpected`).

*Termination*: `StepsLeft` counts what is left to do at each statement: in
`Reconstruct` two steps for each chunk still to come (`Pieces`, and `OnePieceLess`
for a last one that is shorter) and one for each member to open, in `IscsiLogin` one
for each value and each round of both loops and three for each device listed.
`CallAdvances` and `ScriptAdvances` say that no step of the tool, a failing one
included, leaves that number what it was, and that it never falls below zero; others
cannot raise it, only a new call can.  So a tool that takes its steps comes to an
end, whatever the lengths, chunks, polls and devices; that fairness makes it take
them is all `Terminates` adds.

**Assumptions.**  Those stated in the modules: a sector has some length, a scan
passes over one row of the widest set (`Chunks >= 4`), at least one command of
the pattern tool runs, a capture is of a member of a supported set with chunks
of at least a sector, the largest LBA is a natural number and `None` is no truth value
(`PatternMembers`), the arrays satisfy `IsArray` (and start at a sector, in
`DeviceMap`), `None` is no device or input, disks, names, paths and selectors are
of their types, bounds are natural numbers.
`OutputGuard` assumes of a world that devices which share storage have a device
above them in common in the tree `lsblk` shows: what `lsblk` does not know, the
guard cannot know.

**Only model-checked.**  The two `Terminates`: liveness needs fairness and
`ENABLED`, which the prover does not handle; the counting behind them is proved.
And `Decides`: that no *other* member, chunk size or base verifies depends on
which XORs of consecutive numbers differ, bit by bit, and the XOR of two numbers
is defined by recursion, so that what it computes is an induction the prover
cannot do.  It does not hold of every `LbaXor`, and has no proof that asks
nothing of it.

**Only proved.**  The theorems about operators; `TypeOK` of `PatternScan`,
`OutputGuard` and `IscsiLogin`, and `VerifiedIsWritten`, which is a part of
`WriteInv`.  TLC checks everything else that is proved.

## Not modelled

* Printing, JSON and argument parsing, and `util.py`: pure conversions whose
  results are the inputs of the models.  One of them is worth knowing: a volume
  whose name consists of digits cannot be selected by name (`util.py` 26).
* Descriptors left open when `_open_sources` fails half way: the process ends.
* Whether a source is mounted by exactly the name given to `raid_pattern.py`
  (one set lookup): part of `writable` in `PatternWrite`.
* The content of the members beyond the volume, and SHA-256 collisions.
* Stale members: nothing in the decoded metadata tells a member that was out of
  the set for a while from current ones.
* A second attempt at another copy: the code makes none when a RAID 1 sector is
  unreadable, and no document promises one; the failure itself is `ReadFails`.

## Plan

1. Done: geometry, reads, reconstruction, assembly, tables, loop devices, the
   output guard, the pattern tool, the iSCSI scripts; their runs; the proofs
   above.
2. Done: the proofs about assembly in any order, reported truncation, the loop
   device, exact completeness, the writer and the verifiers.
3. Done: `AbstractOutput` and the proof that the writer implements it; the half of
   `Decides` that needs no arithmetic of XOR, as `DamageIsFound`; the counting
   arguments behind both `Terminates`.
4. Left: `Decides` for a given `LbaXor`, once a prover can do the induction its
   definition needs.
