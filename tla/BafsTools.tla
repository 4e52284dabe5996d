----------------------------- MODULE BafsTools -----------------------------
(***************************************************************************)
(* The bafs-tools program over the volume of BafsCommit: one process at a  *)
(* time opens the image, and either formats it or mounts it, works on it   *)
(* and unmounts it.  A subcommand that fails returns at once: the volume   *)
(* is dropped and nothing is flushed.  bafs_format runs over whatever the  *)
(* device holds, an older volume and its journal record included.          *)
(***************************************************************************)
EXTENDS BafsCommitInv

CONSTANT FileCount   \* FILE_COUNT of subcommand_bench

ASSUME ToolsAssumption ==
    FileCount \in Nat \ {0} /\ ~CallerRetries /\ ~RotAnytime

VARIABLES
    command,  \* the subcommand that is running, or "none"
    step,     \* how far it has come
    files,    \* bench: files written and committed
    fresh,    \* the superblock bafs_format is about to write
    torn,     \* history: a format cut short has overwritten blocks in place
    stale,    \* history: the journal was last written before the last format
    whole     \* history: trees of complete files that a mount may find

processVars == <<command, step, files, fresh>>
toolVars == <<processVars, torn, stale, whole>>
allVars == <<vars, toolVars>>

Inspection == {"info", "ls", "read"}
Subcommand == Inspection \cup {"write", "bench", "format"}

\* The tree and the superblock that bafs_format builds in memory; c stands for
\* the label and the volume id it stores.
FormatTree(c) == [EmptyImage EXCEPT ![DataStart] = c]

\* Mutant of FormatSuperblock: the bump pointer is saved before the last block.
FormatSuperblockLow(c) ==
    [txid |-> 1, next_cow |-> DataStart, tree |-> FormatTree(c)]

FormatSuperblock(c) ==
    [txid |-> 1, next_cow |-> DataStart + 1, tree |-> FormatTree(c)]

ToolsInit ==
    /\ Init
    /\ command = "none" /\ step = "none"
    /\ files = 0
    /\ fresh = Blank
    /\ torn = FALSE
    /\ stale = TRUE
    /\ whole = {acked}

\* The process ends.
Exit ==
    /\ command' = "none" /\ step' = "none"
    /\ files' = 0
    /\ fresh' = Blank

\* The transaction ids a subcommand uses up, for the bound MaxTx.
Flushes(c) == IF c = "bench" THEN FileCount + 2 ELSE 1
TxLeft(c) ==
    Selected # Corrupt =>
        /\ Selected.txid + Flushes(c) <= MaxTx
        /\ RecordIsNewer(Selected) => journal.txid + Flushes(c) <= MaxTx

\* main: one subcommand per process.
Start(c) ==
    /\ command = "none"
    /\ c # "format" => TxLeft(c)
    /\ command' = c
    /\ step' = "open"
    /\ UNCHANGED <<vars, files, fresh, torn, stale, whole>>

\* FileBlockDevice::open refuses the image, or bafs_format finds the device too
\* small: nothing has been written.
OpenFails ==
    /\ step = "open"
    /\ pc = "down"
    /\ Exit
    /\ UNCHANGED <<vars, torn, stale, whole>>
---------------------------------------------------------------------------
\* A step of the volume that leads to s when it hands the volume back, and
\* ends the process when the volume is gone.
LeadsTo(s) ==
    \/ pc' = "down" /\ Exit
    \/ pc' = "up" /\ step' = s /\ UNCHANGED <<command, files, fresh>>
    \/ pc' \in WritePcs /\ UNCHANGED processVars

\* bafs_mount, with the replay it may need.
RunMount ==
    /\ step \in {"open", "reopen"} /\ command # "format"
    /\ MountClean \/ MountRecover \/ (phase = "recovery" /\ Progress)
    /\ LeadsTo(IF step = "open" THEN "work" ELSE "verify")
    /\ whole' = IF pc' = "up" THEN whole \cap {superblock'.tree} ELSE whole
    /\ UNCHANGED <<torn, stale>>

\* No valid superblock: the error of bafs_mount ends the process.
RunMountRefused ==
    /\ step \in {"open", "reopen"} /\ command # "format"
    /\ MountRefused
    /\ Exit
    /\ UNCHANGED <<torn, stale, whole>>

\* A lookup, listing, creation, write or comparison fails and the subcommand
\* returns without unmounting.
BodyFails ==
    /\ step \in {"work", "data", "verify"} /\ command # "info"
    /\ DropVolume
    /\ Exit
    /\ UNCHANGED <<torn, stale, whole>>

\* volume_create_file and volume_write_file_data each stage blocks, which add to
\* the tree or are a new copy of it; the write of an empty host file stages none.
StageFile ==
    \E c \in Content, superseded \in {{}, Occupied(superblock.tree)} :
        StageBlock(c, superseded)

CreateFile ==
    /\ step = "work"
    /\ command = "write" \/ (command = "bench" /\ files < FileCount)
    /\ StageFile
    /\ step' = "data"
    /\ UNCHANGED <<command, files, fresh, torn, stale, whole>>

WriteData ==
    /\ step = "data"
    /\ StageFile \/ (command = "write" /\ UNCHANGED vars)
    /\ step' = "ready"
    /\ whole' = whole \cup {superblock'.tree}
    /\ UNCHANGED <<command, files, fresh, torn, stale>>

\* Mutant of FlushPoint: bench commits before the data of its file is written.
FlushPointEarly ==
    IF command \in Inspection /\ step = "work" THEN "close"
    ELSE IF command = "write" /\ step = "ready" THEN "close"
    ELSE IF command = "bench" /\ step \in {"data", "ready"} THEN "commit"
    ELSE IF command = "bench" /\ step = "work" /\ files = FileCount THEN "unmount"
    ELSE IF command = "bench" /\ step = "verify" THEN "close"
    ELSE "none"

\* Where a subcommand calls flush_and_commit or bafs_unmount, and for what.
FlushPoint ==
    IF command \in Inspection /\ step = "work" THEN "close"
    ELSE IF command = "write" /\ step = "ready" THEN "close"
    ELSE IF command = "bench" /\ step = "ready" THEN "commit"
    ELSE IF command = "bench" /\ step = "work" /\ files = FileCount THEN "unmount"
    ELSE IF command = "bench" /\ step = "verify" THEN "close"
    ELSE "none"

BeginFlush ==
    /\ FlushPoint # "none"
    /\ Flush
    /\ IF pc' = "down" THEN Exit
       ELSE step' = FlushPoint /\ UNCHANGED <<command, files, fresh>>
    /\ UNCHANGED <<torn, stale, whole>>

\* The writes of the flush; the last one acknowledges the tree.
RunFlush ==
    /\ step \in {"commit", "unmount", "close"}
    /\ phase = "commit" /\ pc \in WritePcs
    /\ Progress
    /\ \/ pc' = "down" /\ Exit
       \/ /\ pc' = "up" /\ step = "commit"
          /\ step' = "work" /\ files' = files + 1
          /\ UNCHANGED <<command, fresh>>
       \/ /\ pc' # "down" /\ ~(pc' = "up" /\ step = "commit")
          /\ UNCHANGED processVars
    /\ whole' = IF pc' = "up" THEN {superblock.tree} ELSE whole
    /\ stale' = (stale /\ journal' = journal)
    /\ UNCHANGED torn

\* bafs_unmount has returned: bench mounts the volume again, the others end.
Unmounted ==
    /\ step \in {"unmount", "close"}
    /\ DropVolume
    /\ \/ step = "close" /\ Exit
       \/ step = "unmount" /\ step' = "reopen" /\ UNCHANGED <<command, files, fresh>>
    /\ UNCHANGED <<torn, stale, whole>>
---------------------------------------------------------------------------
\* bafs_format has built its blocks and its superblock in memory.
FormatBegin(c) ==
    /\ command = "format" /\ step = "open"
    /\ fresh' = FormatSuperblock(c)
    /\ step' = "journal"
    /\ UNCHANGED <<vars, command, files, torn, stale, whole>>

ZeroedJournal ==
    [crc |-> "mismatch", txid |-> 0, blocks |-> EmptyImage, post |-> EmptyImage]

\* Mutant of ZeroJournal: the journal area is left as it was.
ZeroJournalNot ==
    /\ step = "journal"
    /\ step' = "blocks"
    /\ UNCHANGED <<vars, command, files, fresh, torn, stale, whole>>

\* The journal area is zeroed before anything else is written.
ZeroJournal ==
    /\ step = "journal"
    /\ journal' = ZeroedJournal
    /\ step' = "blocks"
    /\ UNCHANGED <<disk, primary, backup, pc, phase, todo, volumeVars, historyVars,
                   faultVars, command, files, fresh, torn, stale, whole>>

\* The blocks of the new trees are written in place, over the old volume.
FormatBlocks ==
    /\ step = "blocks"
    /\ disk' = [disk EXCEPT ![DataStart] = fresh.tree[DataStart]]
    /\ torn' = TRUE
    /\ step' = "backup"
    /\ UNCHANGED <<primary, backup, journal, pc, phase, todo, volumeVars, historyVars,
                   faultVars, command, files, fresh, stale, whole>>

\* Once every valid copy is the new superblock, the new volume is the volume.
Reborn ==
    IF Selected' = fresh /\ {primary', backup'} \subseteq {fresh, Corrupt}
    THEN /\ acked' = fresh.tree /\ offered' = {} /\ whole' = {fresh.tree}
         /\ torn' = FALSE /\ stale' = TRUE
    ELSE UNCHANGED <<historyVars, torn, stale, whole>>

FormatBackup ==
    /\ step = "backup"
    /\ backup' = fresh
    /\ UNCHANGED primary
    /\ Reborn
    /\ step' = "primary"
    /\ UNCHANGED <<disk, journal, pc, phase, todo, volumeVars, faultVars,
                   command, files, fresh>>

FormatPrimary ==
    /\ step = "primary"
    /\ primary' = fresh
    /\ UNCHANGED backup
    /\ Reborn
    /\ Exit
    /\ UNCHANGED <<disk, journal, pc, phase, todo, volumeVars, faultVars>>
---------------------------------------------------------------------------
\* A write of the format fails, or the power goes while it is in progress.
FormatJournalFails ==
    /\ step = "journal"
    /\ Fault
    /\ journal' \in {journal, [journal EXCEPT !.crc = "mismatch"], ZeroedJournal}
    /\ Exit
    /\ UNCHANGED <<disk, primary, backup, pc, phase, todo, volumeVars, historyVars,
                   damage, torn, stale, whole>>

FormatBlocksFail ==
    /\ step = "blocks"
    /\ Fault
    /\ \E b \in {disk[DataStart], fresh.tree[DataStart], Damaged} :
         disk' = [disk EXCEPT ![DataStart] = b]
    /\ torn' = (torn \/ disk' # disk)
    /\ Exit
    /\ UNCHANGED <<primary, backup, journal, pc, phase, todo, volumeVars, historyVars,
                   damage, stale, whole>>

FormatBackupFails ==
    /\ step = "backup"
    /\ Fault
    /\ \/ backup' \in {backup, fresh} /\ UNCHANGED damage
       \/ backup' = Corrupt /\ DamageSuperblock
    /\ UNCHANGED primary
    /\ Reborn
    /\ Exit
    /\ UNCHANGED <<disk, journal, pc, phase, todo, volumeVars>>

FormatPrimaryFails ==
    /\ step = "primary"
    /\ Fault
    /\ \/ primary' \in {primary, fresh} /\ UNCHANGED damage
       \/ primary' = Corrupt /\ DamageSuperblock
    /\ UNCHANGED backup
    /\ Reborn
    /\ Exit
    /\ UNCHANGED <<disk, journal, pc, phase, todo, volumeVars>>

\* Power loss while no volume is mounted: between two writes of a format, or
\* before a mount.
KilledUnmounted ==
    /\ command # "none" /\ pc = "down"
    /\ Fault
    /\ Exit
    /\ UNCHANGED <<deviceVars, pc, phase, todo, volumeVars, historyVars, damage,
                   torn, stale, whole>>

\* A write of the mount or of the flush fails, or the power goes.
VolumeFails ==
    /\ \/ JournalWriteFails \/ BlockWriteFails
       \/ BackupWriteFails \/ PrimaryWriteFails \/ PowerLoss
    /\ Exit
    /\ stale' = (stale /\ journal' = journal)
    /\ UNCHANGED <<torn, whole>>

MediumRots == MediaRot /\ UNCHANGED toolVars

Running ==
    \/ RunMount \/ RunMountRefused \/ CreateFile \/ WriteData
    \/ BeginFlush \/ RunFlush \/ Unmounted
    \/ (\E c \in Content : FormatBegin(c))
    \/ ZeroJournal \/ FormatBlocks \/ FormatBackup \/ FormatPrimary
    \/ BodyFails \/ OpenFails

Failing ==
    \/ FormatJournalFails \/ FormatBlocksFail \/ FormatBackupFails
    \/ FormatPrimaryFails \/ KilledUnmounted \/ VolumeFails \/ MediumRots

ToolsNext == (\E c \in Subcommand : Start(c)) \/ Running \/ Failing

ToolsSpec == ToolsInit /\ [][ToolsNext]_allVars
---------------------------------------------------------------------------
\* A mount finds only whole blocks, formats included: from the first block a
\* format overwrites in place until every valid superblock copy is its own the
\* device may hold neither volume (bafs_format writes without a journal), but
\* never before, and never after, whatever the device held and wherever earlier
\* formats, flushes and recoveries were cut short.
IntactUnlessTorn == torn \/ MountIntact

\* A journal record of the volume that was on the device before a format is
\* never replayed into the new volume, whose transaction ids start again at 1.
NoStaleReplay == Selected # Corrupt /\ stale => ~RecordIsNewer(Selected)

\* The tree a mount finds holds complete files only: a write or a bench that
\* fails or is killed leaves the volume without its last file or with all of
\* it, and once bench has unmounted the volume its second mount finds exactly
\* the tree it unmounted.
WholeFilesOnly == Selected # Corrupt /\ ~torn => Selected.tree \in whole

\* info, ls and read mount read-write and commit on unmount; still no step of
\* theirs, a replay or a failed write included, changes the tree on the device.
InspectionKeepsTree ==
    [][(command \in Inspection) => (DurableImage' \in {DurableImage, Corrupt})]_allVars
---------------------------------------------------------------------------
\* What the step of a process says: a format runs with no volume mounted; after
\* its first step the journal holds no record, and after its second the new tree
\* is on the disk.
ProcessInv ==
    /\ command \in {"none", "format"} => pc = "down"
    /\ command = "none" => step = "none"
    /\ step = "data" => command \in {"write", "bench"}
    /\ step \in {"journal", "blocks", "backup", "primary"} =>
         command = "format" /\ \E c \in Content : fresh = FormatSuperblock(c)
    /\ step \in {"blocks", "backup", "primary"} => journal.crc = "mismatch"
    /\ step \in {"backup", "primary"} => disk[DataStart] = fresh.tree[DataStart]
    /\ step = "backup" => torn
    /\ step = "primary" => backup \in {fresh, Corrupt}

\* A tree is complete except between the two operations that store a file.
WholeInv ==
    /\ Selected # Corrupt => Selected.tree \in whole
    /\ pc = "up" /\ step # "data" => superblock.tree \in whole
    /\ pc \in WritePcs /\ phase = "commit" => superblock.tree \in whole

\* What makes the properties of the subcommands inductive.
ToolsInv ==
    /\ AtomicInv
    /\ pc # "down" => Selected # Corrupt
    /\ ProcessInv
    /\ stale => journal.crc = "mismatch"
    /\ command \in Inspection /\ pc # "down" => superblock.tree = Selected.tree
    /\ ~torn => IntactInv /\ WholeInv
===========================================================================
