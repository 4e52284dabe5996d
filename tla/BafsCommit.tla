---------------------------- MODULE BafsCommit ----------------------------
(***************************************************************************)
(* The life of a BAFS volume on a fallible device: mount with journal      *)
(* recovery, copy-on-write staging in the dirty-block cache, and the       *)
(* commit protocol (journal record, blocks in place, backup superblock,    *)
(* primary superblock), with a power loss or a failed write at every step. *)
(*                                                                         *)
(* What the three tree roots of a superblock reach is abstracted to the    *)
(* field "tree": the block contents expected at the reachable addresses.   *)
(* Every block write is one step; a write that does not complete leaves    *)
(* the old block, the new block or a damaged one.                          *)
(***************************************************************************)
EXTENDS Integers, FiniteSets

CONSTANTS
    DataStart,     \* first block of the data area
    DeviceEnd,     \* total_block_count: the first address past the device
    LastAddr,      \* bound: the last address the bump pointer may hand out
    Content,       \* contents of a 4 KiB block
    NoBlock,       \* "no block at this address" in an image
    Damaged,       \* content of a block whose write was torn
    Corrupt,       \* a superblock copy that fails magic, version or checksum
    BlockSize,     \* BAFS_DEFAULT_BLOCK_SIZE_BYTES
    JournalBlocks, \* journal_size_in_blocks
    MaxTx,         \* bound: the last transaction id a flush may use
    MaxFaults,     \* bound: failed writes, power losses and media errors
    MaxSbDamage,   \* bound: how many times a superblock copy is damaged
    CallerRetries, \* may a caller keep using a volume after a failed flush?
    RotAnytime     \* may the medium damage a copy while the two copies differ?

ASSUME LayoutAssumption ==
    /\ DataStart \in Nat /\ DeviceEnd \in Nat /\ LastAddr \in Nat
    /\ DataStart < DeviceEnd /\ DataStart <= LastAddr

ASSUME ContentAssumption ==
    /\ Content # {}
    /\ NoBlock \notin Content
    /\ Damaged \notin Content \cup {NoBlock}

ASSUME SizeAssumption ==
    /\ BlockSize \in Nat \ {0} /\ JournalBlocks \in Nat \ {0}

ASSUME BoundAssumption ==
    /\ MaxTx \in Nat /\ MaxFaults \in Nat /\ MaxSbDamage \in Nat
    /\ CallerRetries \in BOOLEAN /\ RotAnytime \in BOOLEAN

Addr == DataStart .. LastAddr
Device == {a \in Addr : a < DeviceEnd}
Image == [Addr -> Content \cup {NoBlock}]
EmptyImage == [a \in Addr |-> NoBlock]
Occupied(img) == {a \in Addr : img[a] # NoBlock}

Superblock == [txid : Nat, next_cow : Nat, tree : Image]
\* crc: does the trailing CRC32C match?  post: the tree the writer was committing.
JournalRecord == [crc : {"match", "mismatch"}, txid : Nat,
                  blocks : [Addr -> Content \cup {NoBlock, Damaged}],
                  post : Image]

ASSUME CorruptAssumption == Corrupt \notin Superblock /\ Corrupt \notin Image

VARIABLES
    disk,                \* block contents on the device
    primary, backup,     \* the two superblock copies (blocks 1 and 2)
    journal,             \* the one record the journal area can hold
    pc,                  \* where the volume's single thread is
    phase,               \* "commit", or "recovery" inside recover_journal_on_mount
    todo,                \* addresses step (c) or the replay has still to write
    superblock,          \* BafsVolume.superblock
    dirty_block_cache,   \* BafsVolume.dirty_block_cache
    next_transaction_id, \* BafsVolume.next_transaction_id
    next_free_block,     \* BafsVolume.next_free_block
    acked,               \* history: tree of the last acknowledged flush or mount
    offered,             \* history: trees of flushes since then
    faults, damage       \* how much of MaxFaults and MaxSbDamage is used

deviceVars == <<disk, primary, backup, journal>>
volumeVars == <<superblock, dirty_block_cache, next_transaction_id, next_free_block>>
historyVars == <<acked, offered>>
faultVars == <<faults, damage>>
vars == <<deviceVars, pc, phase, todo, volumeVars, historyVars, faultVars>>

WritePcs == {"header", "seal", "blocks", "backup", "primary"}

\* bafs_mount reads the primary copy and, if it is not valid, the backup.
Selected == IF primary # Corrupt THEN primary ELSE backup

\* The record fits the journal: header, address list, blocks and checksum.
RecordFits(n) == 24 + 8 * n + BlockSize * n + 4 <= JournalBlocks * BlockSize

Blank == [txid |-> 0, next_cow |-> 0, tree |-> EmptyImage]
---------------------------------------------------------------------------
\* A freshly formatted device: one root block, both copies alike, a zeroed
\* journal, and no volume mounted.
Init ==
    /\ \E c \in Content :
         LET root == [EmptyImage EXCEPT ![DataStart] = c]
             formatted == [txid |-> 1, next_cow |-> DataStart + 1, tree |-> root]
         IN  /\ disk = [a \in Device |-> IF a = DataStart THEN c ELSE Damaged]
             /\ primary = formatted
             /\ acked = root
    /\ backup = primary
    /\ journal = [crc |-> "mismatch", txid |-> 0, blocks |-> EmptyImage, post |-> EmptyImage]
    /\ pc = "down"
    /\ phase = "commit"
    /\ todo = {}
    /\ superblock = Blank
    /\ dirty_block_cache = EmptyImage
    /\ next_transaction_id = 0
    /\ next_free_block = 0
    /\ offered = {}
    /\ faults = 0
    /\ damage = 0

\* The volume handle is gone: nothing of its memory survives.
ForgetVolume ==
    /\ pc' = "down"
    /\ phase' = "commit"
    /\ todo' = {}
    /\ superblock' = Blank
    /\ dirty_block_cache' = EmptyImage
    /\ next_transaction_id' = 0
    /\ next_free_block' = 0

\* Mutant of OpenVolume: the bump pointer restarts below the committed blocks.
OpenVolumeLow(sb) ==
    /\ pc' = "up"
    /\ phase' = "commit"
    /\ todo' = {}
    /\ superblock' = sb
    /\ dirty_block_cache' = EmptyImage
    /\ next_transaction_id' = sb.txid + 1
    /\ next_free_block' = DataStart + 1
    /\ acked' = sb.tree
    /\ offered' = {}

\* The volume is handed to the caller with superblock sb: the bump pointer
\* and the transaction counter resume from it and the cache is empty.
OpenVolume(sb) ==
    /\ pc' = "up"
    /\ phase' = "commit"
    /\ todo' = {}
    /\ superblock' = sb
    /\ dirty_block_cache' = EmptyImage
    /\ next_transaction_id' = sb.txid + 1
    /\ next_free_block' = sb.next_cow
    /\ acked' = sb.tree
    /\ offered' = {}
---------------------------------------------------------------------------
\* Mutant of RecordIsNewer: any complete record is replayed.
RecordIsComplete(sb) == journal.crc = "match"

\* recover_journal_on_mount replays a record that is complete and newer than
\* the superblock, and nothing else.
RecordIsNewer(sb) == journal.crc = "match" /\ journal.txid > sb.txid

MountClean ==
    /\ pc = "down"
    /\ Selected # Corrupt
    /\ ~RecordIsNewer(Selected)
    /\ OpenVolume(Selected)
    /\ UNCHANGED <<deviceVars, faultVars>>

\* Neither copy is valid: bafs_mount returns the error and changes nothing.
MountRefused ==
    /\ pc = "down"
    /\ Selected = Corrupt
    /\ UNCHANGED vars

MountRecover ==
    /\ pc = "down"
    /\ Selected # Corrupt
    /\ RecordIsNewer(Selected)
    /\ pc' = "blocks"
    /\ phase' = "recovery"
    /\ todo' = Occupied(journal.blocks)
    /\ superblock' = Selected
    /\ UNCHANGED <<deviceVars, dirty_block_cache, next_transaction_id,
                   next_free_block, historyVars, faultVars>>

\* One copy-on-write block: it gets the address under the bump pointer, with
\* no check against the end of the device, and replaces any set of blocks of
\* the tree.  An operation on files or directories is a run of these.
StageBlock(c, superseded) ==
    /\ pc = "up"
    /\ next_free_block <= LastAddr
    /\ dirty_block_cache' = [dirty_block_cache EXCEPT ![next_free_block] = c]
    /\ superblock' = [superblock EXCEPT !.tree =
                        [a \in Addr |-> IF a = next_free_block THEN c
                                        ELSE IF a \in superseded THEN NoBlock
                                        ELSE superblock.tree[a]]]
    /\ next_free_block' = next_free_block + 1
    /\ UNCHANGED <<deviceVars, pc, phase, todo, next_transaction_id,
                   historyVars, faultVars>>
---------------------------------------------------------------------------
\* A flush with nothing staged only bumps the transaction id.
FlushEmpty ==
    /\ pc = "up"
    /\ next_transaction_id <= MaxTx
    /\ Occupied(dirty_block_cache) = {}
    /\ superblock' = [superblock EXCEPT !.next_cow = next_free_block,
                                        !.txid = next_transaction_id]
    /\ pc' = "backup"
    /\ offered' = offered \cup {superblock.tree}
    /\ UNCHANGED <<deviceVars, phase, todo, dirty_block_cache,
                   next_transaction_id, next_free_block, acked, faultVars>>

\* A flush whose record fits: the commit record is built and written next.
FlushStart ==
    /\ pc = "up"
    /\ next_transaction_id <= MaxTx
    /\ Occupied(dirty_block_cache) # {}
    /\ RecordFits(Cardinality(Occupied(dirty_block_cache)))
    /\ superblock' = [superblock EXCEPT !.next_cow = next_free_block]
    /\ pc' = "header"
    /\ offered' = offered \cup {superblock.tree}
    /\ UNCHANGED <<deviceVars, phase, todo, dirty_block_cache,
                   next_transaction_id, next_free_block, acked, faultVars>>

\* A flush whose record is larger than the journal returns OutOfSpace.  The
\* cache is kept, so no later flush of this volume can succeed either.
FlushTooLarge ==
    /\ pc = "up"
    /\ next_transaction_id <= MaxTx
    /\ Occupied(dirty_block_cache) # {}
    /\ ~RecordFits(Cardinality(Occupied(dirty_block_cache)))
    /\ \/ /\ CallerRetries
          /\ superblock' = [superblock EXCEPT !.next_cow = next_free_block]
          /\ UNCHANGED <<pc, phase, todo, dirty_block_cache,
                         next_transaction_id, next_free_block>>
       \/ /\ ~CallerRetries
          /\ ForgetVolume
    /\ UNCHANGED <<deviceVars, historyVars, faultVars>>

\* A record whose write has begun and not ended: the new header in front of a
\* mixture of the old and the new address lists and blocks.
HalfWritten ==
    [crc |-> "mismatch", txid |-> next_transaction_id,
     blocks |-> [a \in Addr |-> IF a \in Occupied(journal.blocks)
                                            \cup Occupied(dirty_block_cache)
                                THEN Damaged ELSE NoBlock],
     post |-> superblock.tree]

FullRecord ==
    [crc |-> "match", txid |-> next_transaction_id,
     blocks |-> dirty_block_cache, post |-> superblock.tree]

\* Step (b), first chunk of the record.
WriteJournalHeader ==
    /\ pc = "header"
    /\ journal' = HalfWritten
    /\ pc' = "seal"
    /\ UNCHANGED <<disk, primary, backup, phase, todo, volumeVars,
                   historyVars, faultVars>>

\* Step (b), last chunk of the record.
WriteJournalSeal ==
    /\ pc = "seal"
    /\ journal' = FullRecord
    /\ pc' = "blocks"
    /\ todo' = Occupied(dirty_block_cache)
    /\ UNCHANGED <<disk, primary, backup, phase, volumeVars,
                   historyVars, faultVars>>

\* The block that step (c), or the replay, writes at address a.
BlockToWrite(a) ==
    IF phase = "recovery" THEN journal.blocks[a] ELSE dirty_block_cache[a]

\* Step (c), and the replay loop: blocks go out in ascending address order.
IsNextBlock(a) == a \in todo /\ \A b \in todo : a <= b

\* Mutant of WriteBlock: the address is never crossed off.
WriteBlockAgain ==
    /\ pc = "blocks"
    /\ \E a \in Device :
         /\ IsNextBlock(a)
         /\ disk' = [disk EXCEPT ![a] = BlockToWrite(a)]
    /\ UNCHANGED <<primary, backup, journal, pc, phase, todo, volumeVars,
                   historyVars, faultVars>>

WriteBlock ==
    /\ pc = "blocks"
    /\ \E a \in Device :
         /\ IsNextBlock(a)
         /\ disk' = [disk EXCEPT ![a] = BlockToWrite(a)]
         /\ todo' = todo \ {a}
    /\ UNCHANGED <<primary, backup, journal, pc, phase, volumeVars,
                   historyVars, faultVars>>

\* The in-memory superblock takes the transaction id.  Its roots and bump
\* pointer are the caller's in a commit, and the old ones in a recovery.
StampSuperblock ==
    /\ pc = "blocks"
    /\ todo = {}
    /\ superblock' = [superblock EXCEPT !.txid =
                        IF phase = "recovery" THEN journal.txid ELSE next_transaction_id]
    /\ pc' = "backup"
    /\ UNCHANGED <<deviceVars, phase, todo, dirty_block_cache,
                   next_transaction_id, next_free_block, historyVars, faultVars>>

WriteBackup ==
    /\ pc = "backup"
    /\ backup' = superblock
    /\ pc' = "primary"
    /\ UNCHANGED <<disk, primary, journal, phase, todo, volumeVars,
                   historyVars, faultVars>>

\* Mutant of FinishMount: the caller gets the record's tree, the disk does not.
FinishMountAhead ==
    /\ pc = "primary"
    /\ phase = "recovery"
    /\ primary' = superblock
    /\ OpenVolume([superblock EXCEPT !.tree = journal.post])
    /\ UNCHANGED <<disk, backup, journal, faultVars>>

\* The last write of a recovery: bafs_mount returns the volume.
FinishMount ==
    /\ pc = "primary"
    /\ phase = "recovery"
    /\ primary' = superblock
    /\ OpenVolume(superblock)
    /\ UNCHANGED <<disk, backup, journal, faultVars>>

\* Mutant of FinishFlush: only the backup copy is written.
FinishFlushBackupOnly ==
    /\ pc = "primary"
    /\ phase = "commit"
    /\ pc' = "up"
    /\ dirty_block_cache' = EmptyImage
    /\ next_transaction_id' = next_transaction_id + 1
    /\ acked' = superblock.tree
    /\ offered' = {}
    /\ UNCHANGED <<deviceVars, phase, todo, superblock, next_free_block, faultVars>>

\* The last write of a commit: flush_and_commit clears the cache, moves to the
\* next transaction id and returns Ok.
FinishFlush ==
    /\ pc = "primary"
    /\ phase = "commit"
    /\ primary' = superblock
    /\ pc' = "up"
    /\ dirty_block_cache' = EmptyImage
    /\ next_transaction_id' = next_transaction_id + 1
    /\ acked' = superblock.tree
    /\ offered' = {}
    /\ UNCHANGED <<disk, backup, journal, phase, todo, superblock,
                   next_free_block, faultVars>>
---------------------------------------------------------------------------
\* What the caller does with the error of a failed write: a failed mount gives
\* no volume; after a failed flush the callers in the repository drop theirs,
\* and CallerRetries lets one go on with the cache it still has.
AfterError ==
    \/ ForgetVolume
    \/ /\ CallerRetries /\ phase = "commit"
       /\ pc' = "up"
       /\ todo' = {}
       /\ UNCHANGED <<phase, volumeVars>>

\* The fault budget.
Fault == faults < MaxFaults /\ faults' = faults + 1
DamageSuperblock == damage < MaxSbDamage /\ damage' = damage + 1

\* The write in progress fails, or the power goes while it is in progress.
JournalWriteFails ==
    /\ pc \in {"header", "seal"}
    /\ Fault
    /\ \/ journal' \in {journal, HalfWritten}
       \/ pc = "seal" /\ journal' = FullRecord
    /\ AfterError
    /\ UNCHANGED <<disk, primary, backup, historyVars, damage>>

BlockWriteFails ==
    /\ pc = "blocks"
    /\ Fault
    /\ \E a \in Device :
         /\ IsNextBlock(a)
         /\ \E b \in {disk[a], BlockToWrite(a), Damaged} :
              disk' = [disk EXCEPT ![a] = b]
    /\ AfterError
    /\ UNCHANGED <<primary, backup, journal, historyVars, damage>>

\* A block past the end of the device: write_sectors always fails.
BlockPastEnd ==
    /\ pc = "blocks"
    /\ \E a \in Addr \ Device : IsNextBlock(a)
    /\ AfterError
    /\ UNCHANGED <<deviceVars, historyVars, faultVars>>

BackupWriteFails ==
    /\ pc = "backup"
    /\ Fault
    /\ \/ backup' \in {backup, superblock} /\ UNCHANGED damage
       \/ backup' = Corrupt /\ DamageSuperblock
    /\ AfterError
    /\ UNCHANGED <<disk, primary, journal, historyVars>>

PrimaryWriteFails ==
    /\ pc = "primary"
    /\ Fault
    /\ \/ primary' \in {primary, superblock} /\ UNCHANGED damage
       \/ primary' = Corrupt /\ DamageSuperblock
    /\ AfterError
    /\ UNCHANGED <<disk, backup, journal, historyVars>>

\* Power loss between two writes.
PowerLoss ==
    /\ pc # "down"
    /\ Fault
    /\ ForgetVolume
    /\ UNCHANGED <<deviceVars, historyVars, damage>>

\* The caller drops the volume (after bafs_unmount, or without it).
DropVolume ==
    /\ pc = "up"
    /\ ForgetVolume
    /\ UNCHANGED <<deviceVars, historyVars, faultVars>>

\* The medium loses the primary or the backup copy.
MediaRot ==
    /\ primary # Corrupt /\ backup # Corrupt
    /\ RotAnytime \/ primary = backup
    /\ Fault /\ DamageSuperblock
    /\ \/ primary' = Corrupt /\ UNCHANGED backup
       \/ backup' = Corrupt /\ UNCHANGED primary
    /\ UNCHANGED <<disk, journal, pc, phase, todo, volumeVars, historyVars>>

Stage == \E c \in Content, superseded \in SUBSET Occupied(superblock.tree) :
            StageBlock(c, superseded)

\* The steps the thread takes on its own once a mount or a flush has begun.
Progress ==
    \/ WriteJournalHeader \/ WriteJournalSeal
    \/ WriteBlock \/ BlockPastEnd \/ StampSuperblock
    \/ WriteBackup \/ FinishMount \/ FinishFlush

Mount == MountClean \/ MountRefused \/ MountRecover
Flush == FlushEmpty \/ FlushStart \/ FlushTooLarge

Failure ==
    \/ JournalWriteFails \/ BlockWriteFails
    \/ BackupWriteFails \/ PrimaryWriteFails
    \/ PowerLoss \/ MediaRot

Next == Mount \/ Stage \/ Flush \/ Progress \/ Failure \/ DropVolume

Spec == Init /\ [][Next]_vars

\* One thread runs every call to its end, and the host mounts a volume that is
\* down; nothing obliges a caller to stage or to flush.
FairSpec == Spec /\ WF_vars(Mount) /\ WF_vars(Progress)
---------------------------------------------------------------------------
\* Every variable has its type; the device part is what a reader of the disk
\* relies on.
TypeOK ==
    /\ disk \in [Device -> Content \cup {NoBlock, Damaged}]
    /\ primary \in Superblock \cup {Corrupt}
    /\ backup \in Superblock \cup {Corrupt}
    /\ journal \in JournalRecord
    /\ pc \in {"down", "up"} \cup WritePcs
    /\ phase \in {"commit", "recovery"}
    /\ todo \in SUBSET Addr
    /\ superblock \in Superblock
    /\ dirty_block_cache \in Image
    /\ next_transaction_id \in Nat
    /\ next_free_block \in Nat
    /\ acked \in Image
    /\ offered \in SUBSET Image
    /\ faults \in Nat /\ damage \in Nat

\* Every block the roots of sb reach is on the device with its content.
Intact(sb) ==
    \A a \in Occupied(sb.tree) : a \in Device /\ disk[a] = sb.tree[a]

\* Whenever the power goes, the superblock the next mount selects reaches only
\* blocks that are on the disk and whole: neither step (c), nor a replay, nor a
\* torn write touches a block of the selected tree.
MountIntact == Selected # Corrupt => Intact(Selected)

\* The next mount finds the tree of the last acknowledged flush, or the tree of
\* a flush that was in progress: an acknowledged flush is never lost, a flush
\* that a mount has settled as lost never comes back, and no other tree appears.
AtomicDurable == Selected # Corrupt => Selected.tree \in {acked} \cup offered

\* The transaction id a mount reads never decreases, which is what makes the
\* comparison of recover_journal_on_mount with the record's id meaningful.
TxNeverGoesBack ==
    [][Selected # Corrupt /\ Selected' # Corrupt => Selected'.txid >= Selected.txid]_vars

\* A volume with a valid superblock always comes back up: mounts succeed again
\* once writes stop failing, and every flush and recovery ends.
ComesBackUp == []<>(pc = "up" \/ Selected = Corrupt)

\* journal.rs says of a crash after step (b): recovery replays the record and
\* the filesystem reaches the post-transaction state.
RecoveryReachesPost ==
    phase = "recovery" /\ pc \in {"backup", "primary"} => superblock.tree = journal.post

\* The image a user of the volume sees on disk, for AtomicVolume.
DurableImage == IF Selected = Corrupt THEN Corrupt ELSE Selected.tree

\* The commit protocol implements an atomic, durable volume.
Abstract == INSTANCE AtomicVolume WITH
    Image <- Image, Lost <- Corrupt,
    durable <- DurableImage, acked <- acked, offered <- offered

\* Every step of flush, mount, recovery and failure is a step of AtomicVolume.
RefinesAtomicVolume == Abstract!AbsSpec
===========================================================================
