------------------------------ MODULE BafsFile ------------------------------
(***************************************************************************)
(* The data of one regular file: volume_write_file_data and                *)
(* volume_read_file_data over the extent records of extent.rs and the data *)
(* block checksums of checksum_tree.rs, and what unlinking the file frees. *)
(*                                                                         *)
(* A byte is the number of the write it comes from, 0 for the padding of a *)
(* last block, Rotten when the medium changed it.  A CRC32C is taken to    *)
(* tell any two blocks apart.  "reference" is what a reader is owed: the   *)
(* bytes of the writes that returned Ok, the later over the earlier.       *)
(***************************************************************************)
EXTENDS Integers, Sequences, FiniteSets, FiniteSetsExt

CONSTANTS
    BlockSize,       \* BAFS_DEFAULT_BLOCK_SIZE_BYTES
    TotalBlocks,     \* total_block_count
    MetadataBlocks,  \* tree nodes cloned in one write, from the same bump pointer
    MaxFileSize,     \* bound: writes end here
    MaxWrites,       \* bound: number of writes
    MaxFaults,       \* bound: writes that stop with an I/O error
    MaxRot,          \* bound: data blocks the medium damages
    NoExtent, NoBlock, Rotten, Failed

ASSUME SizeAssumption ==
    /\ BlockSize \in Nat \ {0} /\ TotalBlocks \in Nat /\ MetadataBlocks \in Nat
    /\ MaxFileSize \in Nat /\ MaxWrites \in Nat /\ MaxFaults \in Nat /\ MaxRot \in Nat

Address == 0 .. (TotalBlocks - 1)
Position == 0 .. (MaxFileSize - 1)
DataBlock == [0 .. (BlockSize - 1) -> Nat \cup {Rotten}]
ExtentRecord == [first_disk_block : Nat, block_count : Nat \ {0}]

\* The markers are none of the values they stand beside.
ASSUME MarkerAssumption ==
    NoExtent \notin ExtentRecord /\ NoBlock \notin DataBlock /\ Failed \notin Nat \cup {Rotten}

VARIABLES
    status,               \* "live", or "gone" once the file is unlinked
    file_size_in_bytes, allocated_block_count,   \* of the inode
    extents,              \* logical byte offset -> extent record
    blocks,               \* data blocks, in the cache or on the device
    checksums,            \* checksum tree: the content each checksum was taken of
    next_free_block,      \* the bump pointer
    freed,                \* blocks returned to the free-extent tree
    reference,            \* the bytes owed to a reader
    written,              \* position -> the writes that ever wrote there
    supported,            \* were all writes so far ones the code fully supports?
    fresh,                \* did all writes succeed, each at an offset without an extent?
    writes, faults, rot

inodeVars == <<status, file_size_in_bytes, allocated_block_count, extents>>
historyVars == <<reference, written, supported, fresh, writes>>
vars == <<inodeVars, blocks, checksums, next_free_block, freed, historyVars, faults, rot>>
---------------------------------------------------------------------------
CeilDiv(n, m) == (n + m - 1) \div m

\* The chunk of a write of len bytes that goes to its i-th block, zero-padded.
BlockBuffer(i, len, id) ==
    [j \in 0 .. (BlockSize - 1) |-> IF i * BlockSize + j < len THEN id ELSE 0]

\* Mutant of ExtentEnd: an extent ends where its last full block starts.
ExtentEndShort(o) == o + (extents[o].block_count - 1) * BlockSize

ExtentEnd(o) == o + extents[o].block_count * BlockSize

\* The extent records that cover position p.
CoveringExtents(p) ==
    {o \in Position : extents[o] # NoExtent /\ o <= p /\ p < ExtentEnd(o)}

\* Mutant of read_extent_data_for_file_offset: the last record that covers p.
LastExtentForOffset(p) == Max(CoveringExtents(p))

\* The scan returns the first record that covers p.
read_extent_data_for_file_offset(p) == Min(CoveringExtents(p))

\* verify_data_block_checksum: a block without a checksum entry is trusted.
ChecksumHolds(a) == checksums[a] = NoBlock \/ checksums[a] = blocks[a]

\* The loop of volume_read_file_data at offset p of a read that stops at end:
\* the rest of the block, then the bytes behind it.  Failed comes last, at the
\* first position with no extent or a bad checksum.
ReadLoop(end) ==
    LET from[p \in 0 .. end] ==
            IF p = end THEN <<>>
            ELSE IF CoveringExtents(p) = {} THEN <<Failed>>
            ELSE LET start == read_extent_data_for_file_offset(p)
                     address == extents[start].first_disk_block + ((p - start) \div BlockSize)
                     within == (p - start) % BlockSize
                     count == Min({BlockSize - within, end - p})
                 IN  IF ~ChecksumHolds(address) THEN <<Failed>>
                     ELSE [j \in 1 .. count |-> blocks[address][within + j - 1]]
                            \o from[p + count]
    IN  from

volume_read_file_data(o, len) ==
    IF len = 0 \/ o >= file_size_in_bytes THEN <<>>
    ELSE ReadLoop(Min({o + len, file_size_in_bytes}))[o]

IsError(result) == result # <<>> /\ result[Len(result)] = Failed
---------------------------------------------------------------------------
\* An empty file just created.
Init ==
    /\ status = "live"
    /\ file_size_in_bytes = 0 /\ allocated_block_count = 0
    /\ extents = [p \in Position |-> NoExtent]
    /\ blocks = [a \in Address |-> NoBlock]
    /\ checksums = [a \in Address |-> NoBlock]
    /\ next_free_block = 0
    /\ freed = {}
    /\ reference = <<>>
    /\ written = [p \in Position |-> {}]
    /\ supported = TRUE /\ fresh = TRUE
    /\ writes = 0 /\ faults = 0 /\ rot = 0

\* The writes the code fully supports: the whole file from offset 0, or an
\* append to a file that ends at a block boundary.
Supported(o, len) ==
    \/ o = 0 /\ len >= file_size_in_bytes
    \/ o = file_size_in_bytes /\ file_size_in_bytes % BlockSize = 0

\* The guards: a live file, data, and the bump pointer short of the end of the
\* device (OutOfSpace otherwise, with nothing changed).
CanWrite(o, len) ==
    /\ status = "live"
    /\ writes < MaxWrites
    /\ len > 0 /\ o + len <= MaxFileSize
    /\ next_free_block + CeilDiv(len, BlockSize) <= TotalBlocks

\* Mutant of AllocateDataBlocks: the checksum of the last block is not stored.
AllocateLastUnchecked(len) ==
    LET n == CeilDiv(len, BlockSize)
        new == next_free_block .. (next_free_block + n - 1)
        Buffer(a) == BlockBuffer(a - next_free_block, len, writes + 1)
    IN  /\ blocks' = [a \in Address |-> IF a \in new THEN Buffer(a) ELSE blocks[a]]
        /\ checksums' = [a \in Address |-> IF a \in new /\ a + 1 \in new THEN Buffer(a)
                                           ELSE checksums[a]]
        /\ next_free_block' = next_free_block + n + MetadataBlocks

\* allocate_and_write_data_blocks: consecutive blocks from the bump pointer,
\* each with its checksum; the tree nodes cloned on the way follow them.
AllocateDataBlocks(len) ==
    LET n == CeilDiv(len, BlockSize)
        new == next_free_block .. (next_free_block + n - 1)
        Buffer(a) == BlockBuffer(a - next_free_block, len, writes + 1)
    IN  /\ blocks' = [a \in Address |-> IF a \in new THEN Buffer(a) ELSE blocks[a]]
        /\ checksums' = [a \in Address |-> IF a \in new THEN Buffer(a) ELSE checksums[a]]
        /\ next_free_block' = next_free_block + n + MetadataBlocks

\* write_extent_data_to_inode_tree: a record at the same offset is replaced,
\* and the blocks it pointed to are not freed.
RecordExtent(o, len) ==
    extents' = [extents EXCEPT ![o] =
                  [first_disk_block |-> next_free_block, block_count |-> CeilDiv(len, BlockSize)]]

\* Mutant of UpdateInode: the size is the end of the last write.
UpdateInodeShrinks(o, len) ==
    /\ file_size_in_bytes' = o + len
    /\ allocated_block_count' = allocated_block_count + CeilDiv(len, BlockSize)

UpdateInode(o, len) ==
    /\ file_size_in_bytes' = Max({o + len, file_size_in_bytes})
    /\ allocated_block_count' = allocated_block_count + CeilDiv(len, BlockSize)

\* What a write tried to put where, whether or not it succeeds.
RecordAttempt(o, len) ==
    /\ writes' = writes + 1
    /\ written' = [p \in Position |-> IF o <= p /\ p < o + len
                                      THEN written[p] \cup {writes + 1} ELSE written[p]]

\* The reference content after a write: holes read as zeros.
Overlay(o, len) ==
    [i \in 1 .. Max({Len(reference), o + len}) |->
        IF o < i /\ i <= o + len THEN writes + 1
        ELSE IF i <= Len(reference) THEN reference[i] ELSE 0]

WriteFileData(o, len) ==
    /\ CanWrite(o, len)
    /\ AllocateDataBlocks(len)
    /\ RecordExtent(o, len)
    /\ UpdateInode(o, len)
    /\ RecordAttempt(o, len)
    /\ reference' = Overlay(o, len)
    /\ supported' = (supported /\ Supported(o, len))
    /\ fresh' = (fresh /\ extents[o] = NoExtent)
    /\ UNCHANGED <<status, freed, faults, rot>>

\* An I/O error after the data blocks are in the cache: before the extent is
\* recorded, before the inode is stored, or after both, when the last step
\* returns the blocks that storing the inode has freed.
WriteFails(o, len) ==
    /\ CanWrite(o, len)
    /\ faults < MaxFaults /\ faults' = faults + 1
    /\ AllocateDataBlocks(len)
    /\ \/ UNCHANGED <<extents, file_size_in_bytes, allocated_block_count>>
       \/ RecordExtent(o, len) /\ UNCHANGED <<file_size_in_bytes, allocated_block_count>>
       \/ RecordExtent(o, len) /\ UpdateInode(o, len)
    /\ RecordAttempt(o, len)
    /\ supported' = FALSE /\ fresh' = FALSE
    /\ UNCHANGED <<status, freed, reference, rot>>

\* The medium changes a data block.
Rot(a) ==
    /\ rot < MaxRot /\ rot' = rot + 1
    /\ blocks[a] # NoBlock
    /\ blocks' = [blocks EXCEPT ![a][0] = Rotten]
    /\ UNCHANGED <<inodeVars, checksums, next_free_block, freed, historyVars, faults>>

ExtentBlocks(o) ==
    extents[o].first_disk_block .. (extents[o].first_disk_block + extents[o].block_count - 1)

\* Mutant of UnlinkFile: only extents that some read returns are found.
UnlinkCoveredOnly ==
    /\ status = "live"
    /\ status' = "gone"
    /\ freed' = UNION {ExtentBlocks(read_extent_data_for_file_offset(p)) :
                         p \in {q \in Position : CoveringExtents(q) # {}}}
    /\ extents' = [p \in Position |-> NoExtent]
    /\ file_size_in_bytes' = 0 /\ allocated_block_count' = 0
    /\ UNCHANGED <<blocks, checksums, next_free_block, historyVars, faults, rot>>

\* The last link goes: the blocks of the recorded extents are freed.
UnlinkFile ==
    /\ status = "live"
    /\ status' = "gone"
    /\ freed' = UNION {ExtentBlocks(o) : o \in {p \in Position : extents[p] # NoExtent}}
    /\ extents' = [p \in Position |-> NoExtent]
    /\ file_size_in_bytes' = 0 /\ allocated_block_count' = 0
    /\ UNCHANGED <<blocks, checksums, next_free_block, historyVars, faults, rot>>

Next ==
    \/ \E o \in Position, len \in 1 .. MaxFileSize : WriteFileData(o, len) \/ WriteFails(o, len)
    \/ \E a \in Address : Rot(a)
    \/ UnlinkFile

Spec == Init /\ [][Next]_vars
---------------------------------------------------------------------------
\* Every variable has its type, and every extent lies in the device.
TypeOK ==
    /\ status \in {"live", "gone"}
    /\ file_size_in_bytes \in 0 .. MaxFileSize /\ allocated_block_count \in Nat
    /\ extents \in [Position -> ExtentRecord \cup {NoExtent}]
    /\ \A o \in Position : extents[o] # NoExtent => ExtentBlocks(o) \subseteq Address
    /\ blocks \in [Address -> DataBlock \cup {NoBlock}]
    /\ checksums \in [Address -> DataBlock \cup {NoBlock}]
    /\ next_free_block \in Nat /\ freed \subseteq Address
    /\ reference \in Seq(Nat) /\ Len(reference) <= MaxFileSize
    /\ written \in [Position -> SUBSET Nat]
    /\ supported \in BOOLEAN /\ fresh \in BOOLEAN
    /\ writes \in Nat /\ faults \in Nat /\ rot \in Nat

Slice(o, len) == SubSeq(reference, o + 1, Min({o + len, Len(reference)}))

\* After whole-file writes and block-aligned appends in any order, every read,
\* at any offset and of any length, returns the bytes of the last writes; it
\* fails only if a block of the file is rotten.
ReadsBack ==
    status = "live" /\ supported =>
        \A o \in Position, len \in 0 .. MaxFileSize :
            LET result == volume_read_file_data(o, len)
            IN  IF IsError(result) THEN rot > 0 ELSE result = Slice(o, len)

\* Some write, whether it returned Ok or an error, ended at byte n.
SomeWriteEndsAt(n) == \E w \in written[n - 1] : n < MaxFileSize => w \notin written[n]

\* The size covers every write that returned Ok: overwrites, appends, holes.  It
\* is larger only after a write that returned an error when its inode was already
\* stored, and then it is where that write would have ended.
SizeRight ==
    status = "live" =>
        /\ file_size_in_bytes >= Len(reference)
        /\ file_size_in_bytes > Len(reference) => SomeWriteEndsAt(file_size_in_bytes)

\* Whatever was written and whatever stopped half way, a byte that is read was
\* written at that very position of this file by some write, or is padding;
\* a rotten byte is never returned.
OnlyOwnBytes ==
    \A o \in Position, len \in 0 .. MaxFileSize :
        LET result == volume_read_file_data(o, len)
        IN  ~IsError(result) =>
              \A i \in DOMAIN result : result[i] \in {0} \cup written[o + i - 1]

\* One long read returns what short reads do: the loop never runs over the end
\* of an extent into blocks that are not the file's.
ReadsCompose ==
    \A o \in Position, len \in 2 .. MaxFileSize :
        LET whole == volume_read_file_data(o, len)
            first == volume_read_file_data(o, len - 1)
            last == volume_read_file_data(o + len - 1, 1)
        IN  ~IsError(whole) => whole = first \o last

\* Unlinking gives back every data block the file ever took, overlapping
\* extents included, unless a write stopped half way or replaced the extent
\* record of an earlier write at the same offset, whose blocks nothing frees.
ReclaimsFreshWrites ==
    status = "gone" /\ fresh => freed = {a \in Address : blocks[a] # NoBlock}
===========================================================================
