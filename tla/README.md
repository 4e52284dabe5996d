# TLA+ models and proofs for BAFS

BAFS is a copy-on-write file system: three B-trees hang from a superblock, every
change clones the path it touches into a dirty-block cache, and a flush commits
the cache through a journal record. This directory models it in TLA+,
model-checks the models with TLC and proves the central properties with TLAPS.
`PROJECT.json` maps every definition to the source lines it models and lists the
runs, mutants, findings, hazards and theorems.

## The system

| Part | Source | State | Operations that change it |
|---|---|---|---|
| Commit and recovery | `journal.rs`, `superblock.rs`, `volume.rs` | two superblock copies, journal area, blocks; in memory the superblock, the dirty-block cache, the transaction counter, the bump pointer | `bafs_mount`, `recover_journal_on_mount`, `flush_and_commit`, `commit_transaction`, `bafs_unmount` |
| B-tree | `btree.rs` | nodes by block address | `insert_into_tree`, `delete_from_tree` |
| Free-extent pool | `extent.rs` | free-extent records | `allocate_blocks`, `free_blocks` |
| Block allocation | `volume.rs` | bump pointer, commit boundary, free records, `free_block_count` | every call of the volume |
| Directories, inodes | `volume.rs`, `dir.rs`, `inode.rs` | inode items, entries by name hash, inode counter | create file, create directory, unlink; listing by index reads it |
| File data | `volume.rs`, `extent.rs`, `checksum_tree.rs` | extents, data blocks, checksums, size | `volume_write_file_data`, unlink |
| Format | `volume.rs` | everything on the device | `bafs_format` |
| Kernel interface | `kernel.rs` | handles (inode numbers) | delegates to the volume |
| Tools | `bafs-tools/src/main.rs` | one process and the image it has open | `format`, `info`, `ls`, `write`, `read`, `bench` |
| Checksum | `checksum.rs` | none | `compute_crc32c` |
| Name hash, errors, device trait | `dir.rs`, `error.rs`, `block_device.rs` | none | none |

A call on files or directories is a run of B-tree operations. Each takes blocks
from the bump pointer and puts them in the cache; the superseded nodes of the
last commit go to the free-extent tree, which is itself such a tree. A flush
writes the record, the blocks in place, the backup superblock and the primary
superblock, in this order. A mount reads the primary copy (the backup if the
primary is invalid) and replays the journal record if it is newer.

What is hard about it: a crash or a failed write between any two of these
writes; journal records that are never erased; recovery that crashes itself;
callers that go on after an error; calls that stop half way through their tree
operations; freeing that frees; names, numbers and handles that outlive what
they stand for; formats over older volumes; processes that are killed.
`PROJECT.json` lists each hazard at its line.

## Modules

| Module | Models |
|---|---|
| `AtomicVolume` | what a volume promises about power loss, without a disk |
| `BafsCommit` | mount, recovery, staging and commit, one step per write, with failures |
| `BafsCommitInv` | the inductive invariants `AtomicInv` and `IntactInv` |
| `BafsCommitProofs` | theorems about `BafsCommit` |
| `BafsChecksum` | CRC32C with its table, and polynomial division as its reference |
| `BafsJournal`, `BafsJournalProofs` | the commit record: layout, writing, parsing, checksum; theorems about it and about `BafsChecksum` |
| `BafsTools`, `BafsToolsProofs` | the subcommands of `bafs-tools` and `bafs_format` over `BafsCommit`; theorems |
| `OrderedMap`, `BafsBTree` | a map; the copy-on-write tree that implements it |
| `FreePool`, `BafsFreeSpace`, `BafsFreeSpaceProofs` | a set of free blocks; the free-extent records that implement it; theorems |
| `BafsAllocator` | bump pointer, commit boundary, return of superseded blocks, over the trees of `BafsBTree` |
| `NameMap`, `BafsNamespace`, `BafsNamespaceProofs` | names as a map; inodes, entries and handles; theorems |
| `BafsReaddir`, `BafsReaddirProofs` | a listing by index among creates and unlinks; theorems |
| `BafsFile`, `BafsFileProofs` | data, extents and checksums of one file; theorems |
| `BafsLemmas` | lemmas about least numbers, loops and folds that several proofs use |
| `MCBafsBTree`, `MCBafsCommit`, `MCBafsJournal`, `MCBafsNamespace`, `MCBafsTools` | symmetry sets, sizes, caches and hash functions for TLC |

State and actions keep the source's names. In `BafsCommit`, `superblock`,
`dirty_block_cache`, `next_transaction_id` and `next_free_block` are the fields
of `BafsVolume`; what the three roots reach is the field `tree` of a superblock.
`pc` says which write comes next: `header` and `seal` are the first and the last
chunk of the record (step (b)), `blocks` is step (c) or the replay loop, `backup`
and `primary` are step (d). `StageBlock` is one clone put into the cache. A write
that fails or is interrupted leaves the old content, the new one or a damaged
one. `acked` and `offered` record what callers were told.

`BafsJournal` opens what `BafsCommit` calls a record. The journal area is a
sequence of cells, one per field, holding 32-bit words; a chunk is one block,
a write tears between sectors, and records of different lengths overwrite one
another. The checksum is `compute_crc32c` of the record's bytes, table included
(`BafsChecksum`). Transaction ids and addresses have 64 bits in the code and 32 in
a cell; the model gives out none that a cell cannot hold.

`BafsTools` extends `BafsCommit`: `command` and `step` say which subcommand runs
and how far it has come, its volume steps are the actions of `BafsCommit`, and an
error return drops the volume. `bafs_format` zeroes the journal, writes its
blocks in place and then the backup and the primary superblock, over whatever
the device holds. A file is two staged changes, its creation and its data.

`BafsBTree` keeps a tree up to renaming of its blocks, because no operation
compares addresses; what an operation allocates and frees is stated on its
result. `BafsFreeSpace` has a caller that gives back only what it holds.
`BafsAllocator` runs the volume's calls as sequences of `BafsBTree`'s insertions
and deletions on the inode, the checksum and the free-extent tree, with real
addresses from one bump pointer. `BafsNamespace` and `BafsAllocator` take a
commit as one step, which is what `RefinesAtomicVolume` justifies.
`BafsNamespace` lets a call stop after each of its tree operations. In
`BafsReaddir` an entry is its hash, which is its place in the tree. `BafsFile`
takes a byte to be the number of the write it came from.

## What the runs show

| Run | Shows |
|---|---|
| `Commit_safety` | with up to three faults anywhere, two of them damaging superblock copies, and callers that drop a volume whose flush failed: `MountIntact`, `AtomicDurable`, `TxNeverGoesBack` and refinement of `AtomicVolume` |
| `Commit_resume` | callers that retry a failed flush, and caches too large for the journal: refinement of `AtomicVolume`; and `ComesBackUp`: flushes and recoveries end, the volume comes back |
| `Journal` | torn, overwritten and damaged records: a mount replays exactly one commit or nothing (`ReplaysOneCommit`), a sealed record is replayed as committed (`SealedIsReplayed`), and the table-driven checksum is polynomial division (`TableMatchesDivision`) |
| `Tools` | subcommands cut short anywhere, formats over older volumes included: what a mount finds is whole except while a format overwrites it (`IntactUnlessTorn`), no old record is replayed into a new volume (`NoStaleReplay`), only complete files are found (`WholeFilesOnly`), inspecting changes nothing (`InspectionKeepsTree`) |
| `BTree` | well-formed trees with items of different sizes, exact freeing, old trees untouched, scans equal lookups, refinement of `OrderedMap` |
| `FreeSpace` | records merged and disjoint, no block lost, no premature `OutOfSpace`, refinement of `FreePool` |
| `Allocator` | no block with two uses, nothing committed can be overwritten, no block but a split root is returned twice, the return of freed blocks ends, and `free_block_count` never reports less than the bump pointer still has; flushes may fail and callers go on |
| `Namespace` | entries resolve, one name per inode, extents have owners, a handle never comes to mean another node, and a wrong type is reported only for a directory that cannot be read; refinement of `NameMap` |
| `Readdir` | a listing misses an old entry only after an unlink before it and repeats one only after a create before it, and makes a bounded number of calls |
| `File` | supported writes read back; the size covers every write that returned `Ok`, and more only after one that failed with its inode stored; no foreign or rotten bytes; long reads equal short ones; unlinking frees the data blocks |

Two runs are expected to be violated. Each checks one sentence of the
documentation or a comment against the code, and a finding in `PROJECT.json`
quotes it:

| Run | The sentence says | The code does |
|---|---|---|
| `Commit_past_end` | incomplete transactions are replayed on mount | a record with a node past the end of the device makes every mount fail |
| `Commit_recovery_post` | recovery reaches the post-transaction state | it writes the old roots |

Three more sentences are violated. Their configurations are kept here and are
run by hand. They are not among the listed runs because they hardly show in
use: the inode tree keeps its smallest key and the other trees are not scanned
in part, hashes have 64 bits, and the volume does not allocate from the pool.

| Command | The sentence says | The code does |
|---|---|---|
| `tlc -config BTree_range.cfg MCBafsBTree` | `btree.rs:509`, a scan collects all items in the range | it skips the first leaf for keys below the first separator |
| `tlc -config Namespace_collision.cfg MCBafsNamespace` | `dir.rs:33`, the second insert does not overwrite the first | it does, when two names share a hash |
| `tlc -config Allocator_pool.cfg BafsAllocator` | `extent.rs:386`, blocks are returned to the pool | returning the block at which format's record starts replaces that record |

`BTree` keeps a smallest key in place (`Pinned`), as the root directory's inode
is in the inode tree; the other trees have no such key, which is what
`BTree_range.cfg` is about.

Other sentences the models contradict, without a run of their own:

- `README.md:26`, no block is overwritten in place: a flush repeated after an
  error rewrites blocks the superblock on disk reaches (`volume.rs:458`). Set
  `CallerRetries` in `Commit_safety.cfg` and `MountIntact` is violated.
- `README.md:32`, a corrupt primary falls back to the backup: after a torn replay
  the backup's tree may be damaged. Set `RotAnytime` to see it.
- `extent.rs:266`, first fit: the search starts at the last record
  (`ChosenExtent`).
- `volume.rs:958`, a directory must be empty: it is not checked (`Unlink`).
- `journal.rs:15`, an operation completes or changes nothing: a refused create
  leaves an inode (`CreateRefused`).
- `README.md:31`, full reclamation on delete: blocks of a replaced extent record
  are not freed, hence the condition of `ReclaimsFreshWrites`.
- `volume.rs:534`, blocks freed while freeing are of this transaction and the
  recursion returns immediately: it first frees the nodes the free-extent tree
  had when the boundary last moved, hence the bound in `RecursionEnds`. A flush
  that fails has moved it too (`volume.rs:455`, `FlushFails`), so these need not
  be committed nodes.
- `btree.rs:623`: a root that is split is reported as freed twice, hence the
  exception in `ReturnedOnce`.
- `extent.rs:272`, no record lies in the live zone: the record that format
  inserts contains the node it is stored in (`Formatted` of `BafsAllocator`).
- `README.md:123`, an accurate `free_block_count`: creating an empty file
  raises it, because superseded nodes are added and new nodes are not
  subtracted. It errs only in this direction (`CountNeverTooLow`).
- `kernel.rs:346`: a scan that fails ends a listing as if it were complete,
  hence the condition of `MissesNeedUnlinks`.
- `kernel.rs:286` and `kernel.rs:300`: an inode that cannot be read is reported as
  a regular file. For one that is gone this is the type it had, because only
  files ever go; a directory is misreported after a read or checksum error, which
  is the one case `HandlesStable` leaves out.
- `volume.rs:659`: the inode is stored before its superseded nodes are returned,
  and returning them may fail. The write then returns an error with the new size
  in place, hence the second half of `SizeRight`.

Every property of a passing run has a mutant in `PROJECT.json`: a plausible bug
in one definition that makes TLC report the property violated.

### Bounds

Commit: three or four addresses and two block contents; in `Commit_safety` the
device ends one address before the bump pointer's bound, so writes past the end
happen; the journal holds one or two blocks, fewer than a caller can stage, so a
cache that is too large happens; three transactions allow a record to be older
than, equal to and newer than a superblock. Trees: node sizes are scaled down so
that five keys give four levels and both kinds of split, and a large item is
three times a small one; 24, 25 and the byte-based split are the source's. Free
space: eight blocks give every pattern of neighbours. Journal: blocks of four
cells and an area of four blocks, so records of one and two blocks end in
different chunks and one of three does not fit; three commits and two faults let
a record be written over an unfinished one that used the same id, and `MaxTxid`
is the largest id that three commits can use. Tools: four
transactions, two faults and one file of `bench` let a format run over a volume
with a sealed record and be cut short, and another subcommand follow. Names: two
good names and one refused one, three inodes, three births: enough to create,
unlink, crash and create again under the same number. Files: two bytes per
block, so offsets are aligned and unaligned and extents overlap. Allocator: 36
blocks, two files and a directory give two flushes, failed ones included, with
calls between and after them; nodes hold so few items that the trees reach two levels and split their
roots. Listings: five hashes and four changes, and any directory to begin with.
The file and listing runs turn deadlock checking off: the number of writes is
bounded, an unlinked file has no operations, and a listing ends.

The `TypeOK` of a module holds on the instance of its run; it is left out of the
configurations, and proved where a proof needs it.

### Fairness

`ComesBackUp` is checked with weak fairness of `Mount` and of `Progress`, the steps a
call takes by itself: the code is single-threaded and every loop of a flush or a
mount runs to its end, and a host mounts a volume that is down. Nothing obliges a
caller to write or flush, and faults are bounded, not unfair.

## What is proved

`BafsCommitProofs`, for every layout, journal size, fault budget and caller:
`TypeCorrect`; under `~RotAnytime` (a copy decays only while both copies are
alike) also `AtomicDurability`, `TxMonotone` and `Refinement`. `AtomicDurable`
is not inductive: one must know that a recovery writes back the tree it selected,
that the backup is the new superblock before the primary is written, and that
ids in memory are not older than those on disk. That is `AtomicInv`.

Also there: `MountAlwaysIntact`, for callers that drop a volume whose
flush failed. `IntactInv` adds that trees lie below the bump pointer saved with
them, that a record a mount would replay lies above it, that every block of the
working tree is in the cache or whole on disk, and how old the record may be.
Both assumptions are needed: without either TLC finds a counterexample (above).

`BafsToolsProofs`, for every layout, fault budget and `FILE_COUNT`: `FormatSafe`,
`StaleNeverReplayed`, `FilesWhole` and `InspectionReadOnly`. The invariant
`ToolsInv` keeps `AtomicInv` throughout and `IntactInv` outside a format that is
overwriting the device, and adds what each step of a process has established:
after a format's first step the journal holds no record, after its second the
new tree is on the disk; a tree is complete except between the two changes that
store a file; an inspecting process works on the tree it found. The lemmas of
`BafsCommitProofs` do the steps of the volume; only the steps of the format are
new, and each is a fresh start of `IntactInv` for the new superblock.

`BafsFreeSpaceProofs`: `PoolInvariant` (records disjoint and merged, every block
free or held), `AllocationComplete` (a run of free blocks lies within one
record, so `OutOfSpace` is never premature) and `PoolRefinement` (the records
implement `FreePool`), for every pool and request size.

`BafsNamespaceProofs`, for any names, inodes, stopped calls and crashes:
`EntriesAlwaysResolve`, `AlwaysOneName`, `ExtentsAlwaysOwned`,
`HandlesAlwaysStable` with any hash function, and `NamesRefine` when no two names
share a hash (`NoCollision`, an assumption of the theorem: without it
`Namespace_collision.cfg` is a counterexample). `NamespaceInv` adds that numbers
above the counter are unused and that a directory with a name has its second
link, and states all of it of the committed volume too, because a crash brings
that one back. For handles it adds `HandleHolds`: what a handle names is of the
type the handle was made with, and a handle to what is gone is a file's; with it
`HandlesStable` holds for reads of the inode that succeed and that fail.

`BafsReaddirProofs`, for directories of any size and any number of changes:
`MissesExplained`, `RepeatsExplained`, `ListingBounded`. The invariant relates
the index to ranks: an old entry not listed yet is at or above the index unless
one before it was unlinked, a listed one is below it unless one before it was
created.

`BafsFileProofs`, for every block, device and file size and any sequence of
writes, stopped writes and damage: `FileReadsBack`, `FileReadsOnlyItsBytes`,
`FileReadsCompose`, `FileSizeIsRight`, `UnlinkReclaimsAll`. It is assumed only
that sizes are natural numbers with a block of at least a byte
(`SizeAssumption`), and that the markers for no extent, no block and a failed
read are none of the values they stand beside (`MarkerAssumption`). What a read
returns is derived from its loop, piece by piece; the rest is the invariant
`FileInv`:

- the blocks of recorded extents are behind the bump pointer and have checksums
  (`ExtentsStored`), so a new write never lands on an old block;
- a block and its checksum differ only after damage (`DamageCounted`), and what a
  checksum was taken of was written at its own position or is padding
  (`ChecksumsOwn`), so a read that passes the check returns nothing foreign;
- after supported writes extents start at block boundaries and end with the file
  (`ExtentsAligned`), and the first extent that covers a position, which is the
  one the read picks, holds the newest byte (`FirstIsCurrent`);
- the blocks in use are those of the extents (`BlocksAccounted`);
- the size is the end of the furthest write, or that of a write that failed after
  its inode was stored (`SizeTracked`), and writes are numbered in order, so that
  such a write still ends there after later ones.

`BafsJournalProofs`: `TableIsCrc32c`, for messages of any length: the register of
the code is the reflection of the one of the division, eight rounds are linear in
it, so the table entry of the low byte and the rest of the register can be added
up. `SealedReplays`: for every block and journal size, all caches and any faults,
a mount replays a sealed record exactly as committed. It rests on `RecordParses`
(the parser inverts the builder, field by field, with the address list that
begins inside the header) and on `JournalInv`: the record being written is the one
of the cache under the next id, a later write does not change the cells of a
record that is whole, and a commit that is pending lies in the area and belongs to
no open volume. `RecordsHaveCrc32c` follows from the two. The assumptions
(`JournalAssumption`) are those of the encoding: caches are finite maps from
addresses to blocks of the block size, and counts, addresses and ids fit a cell.

Loops and recursive functions are reasoned about for every length with the lemmas
of `BafsLemmas`: a non-empty set of naturals has a least element
(`LeastNatural`), and a function defined by recursion over `0 .. n` exists and
unfolds (`LoopDefined`, `FoldDefined`). A claim about all its values is then
proved by looking at the least one at which it fails.

Only model-checked:

- `ComesBackUp`, which is liveness;
- `ReplaysOneCommit`: that no mixture of two records passes the check holds only
  as far as CRC32C tells them apart, which is true of the records of the run and
  not of all records;
- `BafsBTree` with its refinement of `OrderedMap`, and `BafsAllocator`, which runs
  on its trees: their operators recurse over the levels of a tree (`RECURSIVE`),
  which the prover does not accept.

## Abstractions and what is not modelled

- xxHash-64 is arithmetic on bytes; a name hash is any function. Outside
  `BafsJournal` a checksum is taken to tell contents apart.
- Node, inode and superblock layouts are reduced to the sizes that decide splits
  and fits; the bytes of the journal record are modelled field by field.
- A write is done when `write_sectors` returns, and writes reach the device in
  order: `BlockDevice` has no barrier. The tools' file device never syncs
  (`main.rs:139`), so for it the results are about processes that are killed, not
  about a host that loses power.
- A mount whose reads fail for a moment is not modelled: a superblock copy
  (`volume.rs:406`) is invalid only when its content is.
- `BafsAllocator` lets flushes fail but runs every other call to its end; calls
  that stop half way are in `BafsNamespace` and `BafsFile`. `BafsFreeSpace` takes
  the records as a map, with no tree below them and no failing step.
- Some properties have a condition because the code fails without it, each given
  above or beside the property: `Pinned` for scans, the split root in
  `ReturnedOnce`, one direction only in `CountNeverTooLow`, fresh writes in
  `ReclaimsFreshWrites`, supported writes in `ReadsBack`.
- One process uses an image at a time; nothing in the tools enforces it.
- The kernel interface delegates to the volume and never commits. Its error
  table and `truncate` (not supported) change no state. That a crash loses what was not committed is `Crash` of `BafsNamespace`.
- What the tools print, timestamps, labels and permissions affect nothing that
  is checked.
