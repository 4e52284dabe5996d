-------------------------- MODULE BafsToolsProofs --------------------------
(***************************************************************************)
(* The properties of BafsTools for every value of the constants: formats   *)
(* over older volumes, and subcommands cut short anywhere.                 *)
(***************************************************************************)
EXTENDS BafsTools, BafsCommitProofs

\* The steps of a volume that stage nothing.
QuietNext == Mount \/ Flush \/ Progress \/ Failure \/ DropVolume

\* Such a step moves the tree a mount would select, and the tree in memory, only
\* in these ways.
LEMMA TreeStep ==
    ASSUME AtomicInv, pc # "down" => Selected # Corrupt, [QuietNext]_vars
    PROVE  /\ pc' # "down" => Selected' # Corrupt
           /\ Selected' # Corrupt =>
                \/ Selected # Corrupt /\ Selected'.tree = Selected.tree
                \/ pc \in {"backup", "primary"} /\ Selected'.tree = superblock.tree
           /\ pc' # "down" =>
                \/ pc = "down" /\ superblock'.tree = Selected.tree
                \/ pc # "down" /\ superblock'.tree = superblock.tree
           /\ pc # "up" /\ pc' = "up" => Selected'.tree = superblock'.tree
<1> USE ToolsAssumption
<1>0. TypeOK /\ superblock \in Superblock /\ superblock # Corrupt
  BY CorruptAssumption DEF AtomicInv, TypeOK
<1>e. AfterError => pc' = "down"
  BY DEF AfterError, ForgetVolume
<1>u. ASSUME UNCHANGED <<primary, backup>> PROVE Selected' = Selected
  BY <1>u DEF Selected
<1>1. CASE MountClean
  BY <1>1, <1>u DEF MountClean, OpenVolume, deviceVars
<1>2. CASE MountRefused \/ UNCHANGED vars
  BY <1>2, <1>u DEF MountRefused, vars, deviceVars, volumeVars
<1>3. CASE MountRecover
  BY <1>3, <1>u DEF MountRecover, deviceVars
<1>4. CASE FlushEmpty \/ FlushStart
  <2>1. superblock'.tree = superblock.tree /\ pc = "up" /\ pc' \in {"header", "backup"}
    <3>1. CASE FlushEmpty
      BY <3>1, <1>0, UpdatedFields DEF FlushEmpty
    <3>2. CASE FlushStart
      BY <3>2, <1>0, UpdatedFields DEF FlushStart
    <3> QED
      BY <3>1, <3>2, <1>4
  <2> QED
    BY <2>1, <1>4, <1>u DEF FlushEmpty, FlushStart, deviceVars
<1>5. CASE FlushTooLarge \/ PowerLoss \/ DropVolume
  BY <1>5, <1>u DEF FlushTooLarge, PowerLoss, DropVolume, ForgetVolume, deviceVars
<1>6. CASE WriteJournalHeader \/ WriteJournalSeal \/ WriteBlock
  BY <1>6, <1>u DEF WriteJournalHeader, WriteJournalSeal, WriteBlock, volumeVars
<1>7. CASE StampSuperblock
  <2>1. superblock'.tree = superblock.tree
    BY <1>7, <1>0, UpdatedFields DEF StampSuperblock
  <2> QED
    BY <2>1, <1>7, <1>u DEF StampSuperblock, deviceVars
<1>8. CASE JournalWriteFails \/ BlockWriteFails \/ BlockPastEnd
  BY <1>8, <1>u, <1>e DEF JournalWriteFails, BlockWriteFails, BlockPastEnd, deviceVars
<1>9. CASE WriteBackup \/ BackupWriteFails
  <2>1. /\ pc = "backup" /\ UNCHANGED primary /\ backup' \in {backup, superblock, Corrupt}
        /\ pc' = "down" \/ (backup' = superblock /\ pc' = "primary" /\ superblock' = superblock)
    BY <1>9, <1>e DEF WriteBackup, BackupWriteFails, volumeVars
  <2> QED
    BY <2>1, <1>0 DEF Selected
<1>10. CASE PrimaryWriteFails
  <2>1. /\ pc = "primary" /\ UNCHANGED backup /\ primary' \in {primary, superblock, Corrupt}
        /\ pc' = "down"
    BY <1>10, <1>e DEF PrimaryWriteFails
  <2> QED
    BY <2>1, <1>0 DEF Selected, AtomicInv, BackupFirst
<1>11. CASE FinishMount \/ FinishFlush
  <2>1. /\ pc = "primary" /\ pc' = "up" /\ primary' = superblock /\ superblock' = superblock
    BY <1>11 DEF FinishMount, FinishFlush, OpenVolume
  <2> QED
    BY <2>1, <1>0 DEF Selected
<1>12. CASE MediaRot
  <2>1. /\ primary = backup /\ primary # Corrupt /\ UNCHANGED <<pc, superblock>>
        /\ \/ primary' = Corrupt /\ backup' = backup
           \/ backup' = Corrupt /\ primary' = primary
    BY <1>12 DEF MediaRot, volumeVars
  <2> QED
    BY <2>1 DEF Selected
<1> QED
  BY <1>1, <1>2, <1>3, <1>4, <1>5, <1>6, <1>7, <1>8, <1>9, <1>10, <1>11, <1>12
     DEF QuietNext, Mount, Flush, Progress, Failure

\* The superblock that bafs_format builds.
LEMMA FormatFacts ==
    ASSUME NEW c \in Content
    PROVE  /\ FormatSuperblock(c) \in Superblock
           /\ FormatSuperblock(c) # Corrupt
           /\ FormatSuperblock(c).tree = FormatTree(c)
           /\ FormatSuperblock(c).next_cow = DataStart + 1
           /\ FormatTree(c) \in Image
           /\ FormatTree(c)[DataStart] = c
           /\ \A a \in Occupied(FormatTree(c)) : a = DataStart
           /\ DataStart \in Device /\ DataStart \in Addr /\ DataStart \in Nat
<1>1. DataStart \in Device /\ DataStart \in Addr /\ DataStart \in Nat
  BY LayoutAssumption DEF Device, Addr
<1>2. EmptyImage \in Image /\ EmptyImage = [a \in Addr |-> NoBlock]
  BY ImageFacts DEF EmptyImage
<1>3. FormatTree(c) \in Image /\ FormatTree(c)[DataStart] = c
  BY <1>1, <1>2, ImageExcept DEF FormatTree
<1>4. \A a \in Occupied(FormatTree(c)) : a = DataStart
  BY <1>1, <1>2 DEF FormatTree, Occupied
<1>5. FormatSuperblock(c) \in Superblock
  BY <1>1, <1>3 DEF FormatSuperblock, Superblock
<1>6. FormatSuperblock(c).tree = FormatTree(c) /\ FormatSuperblock(c).next_cow = DataStart + 1
  BY DEF FormatSuperblock
<1> QED
  BY <1>1, <1>3, <1>4, <1>5, <1>6, CorruptAssumption

\* A device whose valid copies are all the superblock of a finished format.
NewVolume ==
    /\ pc = "down" /\ phase = "commit" /\ journal.crc = "mismatch"
    /\ \E c \in Content : /\ primary \in {FormatSuperblock(c), Corrupt}
                          /\ backup \in {FormatSuperblock(c), Corrupt}
                          /\ disk[DataStart] = c
                          /\ acked = FormatTree(c)

\* Such a device satisfies the invariants of the commit protocol, whatever was
\* on it before.
LEMMA Newborn == TypeOK /\ NewVolume => AtomicInv /\ IntactInv
<1> SUFFICES ASSUME TypeOK, NewVolume PROVE AtomicInv /\ IntactInv
  OBVIOUS
<1>1. pc = "down" /\ phase = "commit" /\ journal.crc = "mismatch"
  BY DEF NewVolume
<1>2. PICK c \in Content : /\ primary \in {FormatSuperblock(c), Corrupt}
                           /\ backup \in {FormatSuperblock(c), Corrupt}
                           /\ disk[DataStart] = c
                           /\ acked = FormatTree(c)
  BY DEF NewVolume
<1> DEFINE F == FormatSuperblock(c)
<1>3. Selected \in {F, Corrupt}
  BY <1>2 DEF Selected
<1>4. F.tree = acked
  BY <1>2, FormatFacts
<1>5. AtomicInv
  BY <1>1, <1>3, <1>4
     DEF AtomicInv, AtomicDurable, RecoveryKeepsTree, BackupFirst, TxOrder, WritePcs
<1>6. Intact(F)
  BY <1>2, FormatFacts DEF Intact
<1>7. Bounded(F)
  BY FormatFacts DEF Bounded
<1>8. DeviceInv
  BY <1>1, <1>2, <1>3, <1>6, <1>7
     DEF DeviceInv, MountIntact, ReplayMissesTree, RecordIsNewer
<1>9. SessionInv
  BY <1>1 DEF SessionInv, CacheCoversTree, WrittenSoFar, JournalAge, WritePcs
<1> QED
  BY <1>5, <1>8, <1>9, IntactParts

\* What a step of the volume keeps, whatever the subcommand does with it.
LEMMA VolumeKeeps ==
    ASSUME ToolsInv, [Next]_vars, torn' = torn
    PROVE  AtomicInv' /\ (~torn' => IntactInv')
BY ToolsAssumption, NextAtomic, NextIntact DEF ToolsInv

\* The tree a mount would select stays one of the complete ones.
LEMMA SelectedWhole ==
    ASSUME ToolsInv, ~torn, [QuietNext]_vars
    PROVE  Selected' # Corrupt => Selected'.tree \in whole
<1>1. \/ Selected' = Corrupt
      \/ Selected # Corrupt /\ Selected'.tree = Selected.tree
      \/ pc \in {"backup", "primary"} /\ Selected'.tree = superblock.tree
  BY TreeStep DEF ToolsInv
<1>2. phase \in {"commit", "recovery"}
  BY DEF ToolsInv, AtomicInv, TypeOK
<1>3. phase = "recovery" => Selected # Corrupt /\ superblock.tree = Selected.tree
  BY DEF ToolsInv, AtomicInv, RecoveryKeepsTree
<1> QED
  BY <1>1, <1>2, <1>3 DEF ToolsInv, WholeInv, WritePcs

\* A quiet step of a subcommand that keeps running keeps what ToolsInv says of
\* the selected tree.
LEMMA QuietKeeps ==
    ASSUME ToolsInv, [QuietNext]_vars, torn' = torn
    PROVE  /\ AtomicInv'
           /\ ~torn' => IntactInv'
           /\ pc' # "down" => Selected' # Corrupt
           /\ command \in Inspection /\ pc' # "down" => superblock'.tree = Selected'.tree
<1>1. [Next]_vars
  BY DEF QuietNext, Next
<1>2. pc' # "down" => Selected' # Corrupt
  BY TreeStep DEF ToolsInv
<1>3. command \in Inspection /\ pc' # "down" => superblock'.tree = Selected'.tree
  BY <1>2, TreeStep DEF ToolsInv
<1> QED
  BY <1>1, <1>2, <1>3, VolumeKeeps

FormatSteps == {"journal", "blocks", "backup", "primary"}

\* The end of a process, with the volume gone.
LEMMA ExitKeeps ==
    ASSUME ToolsInv, [QuietNext]_vars, Exit, pc' = "down", torn' = torn,
           whole' = whole, stale' => stale /\ journal' = journal
    PROVE  ToolsInv'
<1>1. AtomicInv' /\ (~torn' => IntactInv')
  BY QuietKeeps
<1>2. ProcessInv'
  BY DEF ProcessInv, Exit
<1>3. ~torn' => WholeInv'
  BY SelectedWhole DEF WholeInv, WritePcs
<1>4. stale' => journal'.crc = "mismatch"
  BY DEF ToolsInv
<1>5. command' \notin Inspection
  BY DEF Exit, Inspection
<1> QED
  BY <1>1, <1>2, <1>3, <1>4, <1>5 DEF ToolsInv

\* A subcommand that goes on; what is complete is left to the caller.
LEMMA RunningKeeps ==
    ASSUME ToolsInv, [QuietNext]_vars, command' = command, command \notin {"none", "format"},
           step' \notin FormatSteps \cup {"data"}, torn' = torn, stale' => stale /\ journal' = journal,
           ~torn' => WholeInv'
    PROVE  ToolsInv'
<1>1. /\ AtomicInv' /\ (~torn' => IntactInv')
      /\ pc' # "down" => Selected' # Corrupt
      /\ command \in Inspection /\ pc' # "down" => superblock'.tree = Selected'.tree
  BY QuietKeeps
<1>2. ProcessInv'
  BY DEF ProcessInv, FormatSteps
<1>3. stale' => journal'.crc = "mismatch"
  BY DEF ToolsInv
<1> QED
  BY <1>1, <1>2, <1>3 DEF ToolsInv

\* An open volume belongs to a subcommand other than format.
LEMMA OpenOwned ==
    ASSUME ToolsInv, pc # "down"
    PROVE  command \notin {"none", "format"} /\ step \notin FormatSteps
BY DEF ToolsInv, ProcessInv, FormatSteps

LEMMA MountKeeps == ASSUME ToolsInv, RunMount PROVE ToolsInv'
<1>1. /\ step \in {"open", "reopen"} /\ command # "format" /\ command # "none"
      /\ UNCHANGED <<torn, stale>>
  BY DEF RunMount, ToolsInv, ProcessInv
<1>2. [QuietNext]_vars
  BY DEF RunMount, QuietNext, Mount
<1>3. journal' = journal /\ pc # "up" /\ (pc' \in WritePcs => phase' = "recovery")
  <2>1. CASE MountClean \/ MountRecover
    BY <2>1 DEF MountClean, OpenVolume, MountRecover, deviceVars, WritePcs
  <2>2. CASE phase = "recovery" /\ Progress
    <3>1. pc \in {"blocks", "backup", "primary"}
      BY <2>2 DEF ToolsInv, AtomicInv, RecoveryKeepsTree
    <3>2. AfterError => pc' = "down"
      BY ToolsAssumption DEF AfterError, ForgetVolume
    <3> QED
      BY <2>2, <3>1, <3>2 DEF Progress, WriteJournalHeader, WriteJournalSeal, WriteBlock,
         BlockPastEnd, StampSuperblock, WriteBackup, FinishMount, FinishFlush, OpenVolume,
         deviceVars, WritePcs
  <2> QED
    BY <2>1, <2>2 DEF RunMount
<1>4. CASE pc' = "down"
  <2>1. Exit /\ whole' = whole
    BY <1>4 DEF RunMount, LeadsTo, WritePcs
  <2> QED
    BY <1>1, <1>2, <1>3, <1>4, <2>1, ExitKeeps
<1>5. CASE pc' # "down"
  <2>1. command' = command /\ step' \notin FormatSteps \cup {"data"} /\ pc' \in WritePcs \cup {"up"}
    BY <1>5, <1>1 DEF RunMount, LeadsTo, FormatSteps, processVars
  <2>2. ASSUME ~torn PROVE WholeInv'
    <3>1. Selected' # Corrupt /\ Selected'.tree \in whole
      BY <1>2, <1>5, <2>2, SelectedWhole, QuietKeeps, <1>1
    <3>2. CASE pc' = "up"
      <4>1. Selected'.tree = superblock'.tree
        BY <1>2, <1>3, <3>2, TreeStep DEF ToolsInv
      <4>2. whole' = whole \cap {superblock'.tree}
        BY <3>2 DEF RunMount
      <4> QED
        BY <3>1, <3>2, <4>1, <4>2 DEF WholeInv, WritePcs
    <3>3. CASE pc' \in WritePcs
      <4>1. whole' = whole /\ pc' # "up"
        BY <3>3 DEF RunMount, WritePcs
      <4> QED
        BY <3>1, <3>3, <4>1, <1>3 DEF WholeInv
    <3> QED
      BY <2>1, <3>2, <3>3
  <2> QED
    BY <1>1, <1>2, <1>3, <2>1, <2>2, RunningKeeps
<1> QED
  BY <1>4, <1>5

\* The two operations that store a file.
LEMMA StagingKeeps == ASSUME ToolsInv, CreateFile \/ WriteData PROVE ToolsInv'
<1>1. /\ command' = command /\ command \in {"write", "bench"}
      /\ step' \in {"data", "ready"} /\ UNCHANGED <<torn, stale>>
      /\ CreateFile => step' = "data" /\ whole' = whole
      /\ WriteData => whole' = whole \cup {superblock'.tree}
      /\ StageFile \/ (WriteData /\ UNCHANGED vars)
  BY DEF CreateFile, WriteData, ToolsInv, ProcessInv
<1>2. command \notin Inspection /\ ProcessInv'
  BY <1>1 DEF Inspection, ProcessInv
<1>3. CASE StageFile
  <2>1. Stage
    BY <1>3 DEF StageFile, Stage
  <2>2. /\ pc = "up" /\ pc' = "up" /\ journal' = journal /\ Selected' = Selected
    BY <2>1 DEF Stage, StageBlock, deviceVars, Selected
  <2>3. AtomicInv' /\ (~torn' => IntactInv')
    BY <1>1, <2>1, VolumeKeeps DEF Next
  <2>4. ~torn' => WholeInv'
    BY <1>1, <2>2 DEF ToolsInv, WholeInv, WritePcs
  <2> QED
    BY <1>1, <1>2, <2>2, <2>3, <2>4 DEF ToolsInv
<1>4. CASE WriteData /\ UNCHANGED vars
  <2>1. UNCHANGED <<pc, phase, journal, superblock>> /\ Selected' = Selected
    BY <1>4 DEF vars, deviceVars, volumeVars, Selected
  <2>2. AtomicInv' /\ (~torn' => IntactInv')
    BY <1>1, <1>4, VolumeKeeps
  <2>3. ~torn' => WholeInv'
    BY <1>1, <1>4, <2>1 DEF ToolsInv, WholeInv
  <2> QED
    BY <1>1, <1>2, <2>1, <2>2, <2>3 DEF ToolsInv
<1> QED
  BY <1>1, <1>3, <1>4

\* A flush begins only over complete files.
LEMMA BeginFlushKeeps == ASSUME ToolsInv, BeginFlush PROVE ToolsInv'
<1>1. [QuietNext]_vars /\ Flush /\ UNCHANGED <<torn, stale, whole>>
  BY DEF BeginFlush, QuietNext
<1>2. /\ pc = "up" /\ pc' \in {"down", "header", "backup"} /\ journal' = journal
  BY <1>1, ToolsAssumption
     DEF Flush, FlushEmpty, FlushStart, FlushTooLarge, ForgetVolume, deviceVars
<1>3. CASE pc' = "down"
  BY <1>1, <1>2, <1>3, ExitKeeps DEF BeginFlush
<1>4. CASE pc' # "down"
  <2>1. /\ command' = command /\ step' \in {"commit", "unmount", "close"} /\ step # "data"
    BY <1>4 DEF BeginFlush, FlushPoint
  <2>2. command \notin {"none", "format"}
    BY <1>2, OpenOwned
  <2>3. ASSUME ~torn PROVE WholeInv'
    <3>1. Selected' # Corrupt => Selected'.tree \in whole
      BY <1>1, <2>3, SelectedWhole
    <3>2. superblock'.tree = superblock.tree /\ superblock.tree \in whole
      BY <1>1, <1>2, <1>4, <2>1, <2>3, TreeStep DEF ToolsInv, WholeInv
    <3> QED
      BY <1>1, <3>1, <3>2 DEF WholeInv
  <2> QED
    BY <1>1, <1>2, <2>1, <2>2, <2>3, RunningKeeps DEF FormatSteps
<1> QED
  BY <1>3, <1>4

\* The writes of a flush.
LEMMA RunFlushKeeps == ASSUME ToolsInv, RunFlush PROVE ToolsInv'
<1>1. /\ [QuietNext]_vars /\ torn' = torn /\ stale' = (stale /\ journal' = journal)
      /\ phase = "commit" /\ pc \in WritePcs /\ step \in {"commit", "unmount", "close"}
      /\ whole' = IF pc' = "up" THEN {superblock.tree} ELSE whole
  BY DEF RunFlush, QuietNext
<1>2. pc # "down" /\ pc # "up"
  BY <1>1 DEF WritePcs
<1>3. CASE pc' = "down"
  <2>1. Exit
    BY <1>3 DEF RunFlush
  <2> QED
    BY <1>1, <1>3, <2>1, ExitKeeps
<1>4. CASE pc' # "down"
  <2>1. command' = command /\ step' \in {"work", "commit", "unmount", "close"}
    BY <1>1, <1>4 DEF RunFlush, processVars
  <2>2. command \notin {"none", "format"}
    BY <1>2, OpenOwned
  <2>3. ASSUME ~torn PROVE WholeInv'
    <3>1. Selected' # Corrupt => Selected'.tree \in whole
      BY <1>1, <2>3, SelectedWhole
    <3>2. superblock'.tree = superblock.tree /\ superblock.tree \in whole
      BY <1>1, <1>2, <1>4, <2>3, TreeStep DEF ToolsInv, WholeInv
    <3>3. pc' = "up" => Selected'.tree = superblock'.tree
      BY <1>1, <1>2, TreeStep DEF ToolsInv
    <3> QED
      BY <1>1, <3>1, <3>2, <3>3 DEF WholeInv, WritePcs
  <2> QED
    BY <1>1, <2>1, <2>2, <2>3, RunningKeeps DEF FormatSteps
<1> QED
  BY <1>3, <1>4

\* The ways a process ends without a write of its own.
LEMMA EndKeeps ==
    ASSUME ToolsInv, OpenFails \/ RunMountRefused \/ BodyFails \/ Unmounted \/ VolumeFails
    PROVE  ToolsInv'
<1>1. CASE OpenFails
  <2>1. pc' = "down" /\ journal' = journal
    BY <1>1 DEF OpenFails, vars, deviceVars
  <2> QED
    BY <1>1, <2>1, ExitKeeps DEF OpenFails
<1>2. CASE RunMountRefused
  <2>1. pc' = "down" /\ journal' = journal /\ UNCHANGED vars
    BY <1>2 DEF RunMountRefused, MountRefused, vars, deviceVars
  <2> QED
    BY <1>2, <2>1, ExitKeeps DEF RunMountRefused
<1>3. CASE BodyFails
  <2>1. pc' = "down" /\ journal' = journal /\ QuietNext
    BY <1>3 DEF BodyFails, DropVolume, ForgetVolume, deviceVars, QuietNext
  <2> QED
    BY <1>3, <2>1, ExitKeeps DEF BodyFails
<1>4. CASE Unmounted
  <2>1. pc = "up" /\ pc' = "down" /\ journal' = journal /\ QuietNext
        /\ UNCHANGED <<torn, stale, whole>>
    BY <1>4 DEF Unmounted, DropVolume, ForgetVolume, deviceVars, QuietNext
  <2>2. CASE Exit
    BY <2>1, <2>2, ExitKeeps
  <2>3. CASE step' = "reopen" /\ command' = command
    <3>1. command \notin {"none", "format"}
      BY <2>1, OpenOwned
    <3>2. ~torn' => WholeInv'
      BY <2>1, SelectedWhole DEF WholeInv, WritePcs
    <3> QED
      BY <2>1, <2>3, <3>1, <3>2, RunningKeeps DEF FormatSteps
  <2> QED
    BY <1>4, <2>2, <2>3 DEF Unmounted
<1>5. CASE VolumeFails
  <2>1. AfterError => pc' = "down"
    BY ToolsAssumption DEF AfterError, ForgetVolume
  <2>2. pc' = "down" /\ QuietNext
    BY <1>5, <2>1 DEF VolumeFails, JournalWriteFails, BlockWriteFails, BackupWriteFails,
                      PrimaryWriteFails, PowerLoss, ForgetVolume, QuietNext, Failure
  <2> QED
    BY <1>5, <2>2, ExitKeeps DEF VolumeFails
<1> QED
  BY <1>1, <1>2, <1>3, <1>4, <1>5

\* The medium loses a copy, whatever is running.
LEMMA RotKeeps == ASSUME ToolsInv, MediumRots PROVE ToolsInv'
<1>1. /\ QuietNext /\ UNCHANGED <<command, step, files, fresh, torn, stale, whole>>
      /\ UNCHANGED <<disk, journal, pc, phase, superblock>>
      /\ backup' \in {backup, Corrupt}
  BY DEF MediumRots, MediaRot, QuietNext, Failure, toolVars, processVars, volumeVars
<1>2. /\ AtomicInv' /\ (~torn' => IntactInv')
      /\ pc' # "down" => Selected' # Corrupt
      /\ command \in Inspection /\ pc' # "down" => superblock'.tree = Selected'.tree
  BY <1>1, QuietKeeps
<1>3. ProcessInv'
  BY <1>1 DEF ToolsInv, ProcessInv
<1>4. ~torn' => WholeInv'
  BY <1>1, SelectedWhole DEF ToolsInv, WholeInv
<1> QED
  BY <1>1, <1>2, <1>3, <1>4 DEF ToolsInv

\* A process starts, and bafs_format builds its superblock: no write.
LEMMA StartKeeps ==
    ASSUME ToolsInv, (\E c \in Subcommand : Start(c)) \/ (\E c \in Content : FormatBegin(c))
    PROVE  ToolsInv'
<1>1. /\ UNCHANGED vars /\ UNCHANGED <<torn, stale, whole>> /\ pc = "down"
  BY DEF Start, FormatBegin, ToolsInv, ProcessInv
<1>2. UNCHANGED <<disk, primary, backup, pc, phase, journal, superblock>> /\ Selected' = Selected
  BY <1>1 DEF vars, deviceVars, volumeVars, Selected
<1>3. AtomicInv' /\ (~torn' => IntactInv')
  BY <1>1, VolumeKeeps
<1>4. ProcessInv'
  <2>1. CASE \E c \in Subcommand : Start(c)
    <3>1. command' # "none" /\ step' = "open"
      BY <2>1 DEF Start, Subcommand, Inspection
    <3> QED
      BY <3>1, <1>1, <1>2 DEF ProcessInv
  <2>2. CASE \E c \in Content : FormatBegin(c)
    BY <2>2, <1>1, <1>2 DEF FormatBegin, ProcessInv
  <2> QED
    BY <2>1, <2>2
<1>5. ~torn' => WholeInv'
  BY <1>1, <1>2 DEF ToolsInv, WholeInv, WritePcs
<1> QED
  BY <1>1, <1>2, <1>3, <1>4, <1>5 DEF ToolsInv

\* With no volume open, the journal may lose its record and, once a format is
\* under way, blocks may be overwritten.
LEMMA DownKeeps ==
    ASSUME ToolsInv, pc = "down",
           UNCHANGED <<primary, backup, pc, phase, todo, volumeVars, historyVars, whole>>,
           journal' \in JournalRecord, journal' = journal \/ journal'.crc = "mismatch",
           disk' \in [Device -> Content \cup {NoBlock, Damaged}],
           ~torn' => ~torn /\ disk' = disk,
           faults' \in Nat, damage' \in Nat
    PROVE  AtomicInv' /\ (~torn' => IntactInv' /\ WholeInv')
<1>0. /\ AtomicInv /\ TypeOK /\ phase = "commit" /\ Selected' = Selected
      /\ UNCHANGED <<superblock, dirty_block_cache, next_transaction_id, next_free_block>>
      /\ UNCHANGED <<acked, offered>>
  BY DEF ToolsInv, AtomicInv, TypeOK, RecoveryKeepsTree, Selected, volumeVars, historyVars
<1>1. TypeOK'
  BY <1>0 DEF TypeOK
<1>2. AtomicInv'
  BY <1>0, <1>1 DEF AtomicInv, AtomicDurable, RecoveryKeepsTree, BackupFirst, TxOrder, WritePcs
<1>3. ASSUME ~torn' PROVE DeviceInv'
  <2>1. DeviceInv
    BY <1>3, IntactParts DEF ToolsInv
  <2> QED
    BY <1>0, <1>3, <2>1
       DEF DeviceInv, MountIntact, Intact, Bounded, ReplayMissesTree, RecordIsNewer
<1>4. SessionInv'
  BY <1>0 DEF SessionInv, CacheCoversTree, WrittenSoFar, JournalAge, WritePcs
<1>5. ~torn' => IntactInv'
  BY <1>2, <1>3, <1>4, IntactParts, PTL
<1>6. ~torn' => WholeInv'
  BY <1>0 DEF ToolsInv, WholeInv, WritePcs
<1> QED
  BY <1>2, <1>5, <1>6

\* The steps of a format before its superblock.
LEMMA FormatKeeps ==
    ASSUME ToolsInv, \/ ZeroJournal \/ FormatJournalFails \/ FormatBlocks \/ FormatBlocksFail
                     \/ KilledUnmounted
    PROVE  ToolsInv'
<1>0. TypeOK
  BY DEF ToolsInv, AtomicInv
<1>1. ZeroedJournal \in JournalRecord /\ ZeroedJournal.crc = "mismatch"
  BY ImageFacts DEF ZeroedJournal, JournalRecord, Image
<1>2. /\ [journal EXCEPT !.crc = "mismatch"] \in JournalRecord
      /\ [journal EXCEPT !.crc = "mismatch"].crc = "mismatch"
  BY <1>0 DEF TypeOK, JournalRecord
<1>3. pc = "down" /\ command # "none"
  BY DEF ToolsInv, ProcessInv, ZeroJournal, FormatJournalFails, FormatBlocks,
         FormatBlocksFail, KilledUnmounted
<1>4. /\ UNCHANGED <<primary, backup, pc, phase, todo, volumeVars, historyVars, whole, stale>>
      /\ journal' \in {journal, [journal EXCEPT !.crc = "mismatch"], ZeroedJournal}
      /\ faults' \in {faults, faults + 1} /\ damage' = damage
  BY DEF ZeroJournal, FormatJournalFails, FormatBlocks, FormatBlocksFail, KilledUnmounted,
         deviceVars, faultVars, Fault
<1>5. /\ disk' \in [Device -> Content \cup {NoBlock, Damaged}]
      /\ ~torn' => ~torn /\ disk' = disk
  <2>1. CASE FormatBlocks \/ FormatBlocksFail
    <3>1. PICK c \in Content : fresh = FormatSuperblock(c)
      BY <2>1 DEF ToolsInv, ProcessInv, FormatBlocks, FormatBlocksFail
    <3>2. fresh.tree[DataStart] \in Content /\ DataStart \in Device
      BY <3>1, FormatFacts
    <3>3. \E b \in Content \cup {NoBlock, Damaged} : disk' = [disk EXCEPT ![DataStart] = b]
      BY <2>1, <3>2, <1>0 DEF FormatBlocks, FormatBlocksFail, TypeOK
    <3>4. disk' \in [Device -> Content \cup {NoBlock, Damaged}]
      BY <3>2, <3>3, <1>0 DEF TypeOK
    <3> QED
      BY <2>1, <3>4 DEF FormatBlocks, FormatBlocksFail
  <2>2. CASE ZeroJournal \/ FormatJournalFails \/ KilledUnmounted
    BY <2>2, <1>0 DEF ZeroJournal, FormatJournalFails, KilledUnmounted, TypeOK, deviceVars
  <2> QED
    BY <2>1, <2>2
<1>6. journal' \in JournalRecord /\ (journal' = journal \/ journal'.crc = "mismatch")
  BY <1>0, <1>1, <1>2, <1>4 DEF TypeOK
<1>7. AtomicInv' /\ (~torn' => IntactInv' /\ WholeInv')
  BY <1>0, <1>3, <1>4, <1>5, <1>6, DownKeeps DEF TypeOK
<1>8. ProcessInv'
  <2>1. CASE FormatJournalFails \/ FormatBlocksFail \/ KilledUnmounted
    BY <2>1, <1>3, <1>4 DEF FormatJournalFails, FormatBlocksFail, KilledUnmounted, Exit, ProcessInv
  <2>2. CASE ZeroJournal
    BY <2>2, <1>1, <1>3, <1>4 DEF ZeroJournal, ToolsInv, ProcessInv
  <2>3. CASE FormatBlocks
    <3>1. PICK c \in Content : fresh = FormatSuperblock(c)
      BY <2>3 DEF ToolsInv, ProcessInv, FormatBlocks
    <3>2. disk'[DataStart] = fresh.tree[DataStart]
      BY <2>3, <3>1, <1>0, FormatFacts DEF FormatBlocks, TypeOK
    <3> QED
      BY <2>3, <3>2, <1>3, <1>4 DEF FormatBlocks, ToolsInv, ProcessInv
  <2> QED
    BY <2>1, <2>2, <2>3
<1>9. stale' => journal'.crc = "mismatch"
  BY <1>4, <1>6 DEF ToolsInv
<1> QED
  BY <1>3, <1>4, <1>7, <1>8, <1>9 DEF ToolsInv

\* The two superblock writes of a format.
LEMMA SuperblockKeeps ==
    ASSUME ToolsInv, FormatBackup \/ FormatPrimary \/ FormatBackupFails \/ FormatPrimaryFails
    PROVE  ToolsInv'
<1>0. /\ AtomicInv /\ TypeOK /\ pc = "down" /\ phase = "commit" /\ journal.crc = "mismatch"
      /\ disk[DataStart] = fresh.tree[DataStart] /\ (step = "backup" => torn)
      /\ (step = "primary" => backup \in {fresh, Corrupt})
  BY DEF ToolsInv, ProcessInv, AtomicInv, TypeOK, RecoveryKeepsTree, FormatBackup,
         FormatPrimary, FormatBackupFails, FormatPrimaryFails
<1>1. PICK c \in Content : fresh = FormatSuperblock(c)
  BY DEF ToolsInv, ProcessInv, FormatBackup, FormatPrimary, FormatBackupFails,
         FormatPrimaryFails
<1>2. fresh \in Superblock /\ fresh # Corrupt /\ fresh.tree = FormatTree(c)
      /\ fresh.tree \in Image /\ fresh.tree[DataStart] = c
  BY <1>1, FormatFacts
<1>3. /\ UNCHANGED <<disk, journal, pc, phase, todo, volumeVars>>
      /\ UNCHANGED <<superblock, dirty_block_cache, next_transaction_id, next_free_block>>
      /\ Reborn /\ faults' \in Nat /\ damage' \in Nat
      /\ \/ step = "backup" /\ primary' = primary /\ backup' \in {backup, fresh, Corrupt}
         \/ step = "primary" /\ backup' = backup /\ primary' \in {primary, fresh, Corrupt}
      /\ \/ /\ command' = command /\ step' = "primary"
            /\ fresh' = fresh /\ backup' = fresh
         \/ Exit
  <2>1. CASE FormatBackup
    BY <1>0, <2>1 DEF FormatBackup, volumeVars, faultVars, TypeOK, Fault
  <2>2. CASE FormatPrimary
    BY <1>0, <2>2 DEF FormatPrimary, volumeVars, faultVars, TypeOK, Fault
  <2>3. CASE FormatBackupFails
    BY <1>0, <2>3 DEF FormatBackupFails, volumeVars, faultVars, TypeOK, Fault, DamageSuperblock
  <2>4. CASE FormatPrimaryFails
    BY <1>0, <2>4 DEF FormatPrimaryFails, volumeVars, faultVars, TypeOK, Fault, DamageSuperblock
  <2>5. QED
    BY <1>0, <2>1, <2>2, <2>3, <2>4
<1> DEFINE new == Selected' = fresh /\ {primary', backup'} \subseteq {fresh, Corrupt}
<1>4. TypeOK'
  <2>1. primary' \in Superblock \cup {Corrupt} /\ backup' \in Superblock \cup {Corrupt}
    BY <1>0, <1>2, <1>3 DEF TypeOK
  <2>2. acked' \in Image /\ offered' \in SUBSET Image
    BY <1>0, <1>2, <1>3 DEF Reborn, TypeOK, historyVars
  <2> QED
    BY <1>0, <1>3, <2>1, <2>2 DEF TypeOK
<1>5. pc' = "down" /\ phase' = "commit" /\ journal'.crc = "mismatch"
  BY <1>0, <1>3
<1>6. ProcessInv'
  <2>1. CASE Exit
    BY <2>1, <1>5 DEF Exit, ProcessInv
  <2>2. CASE command' = command /\ step' = "primary" /\ fresh' = fresh /\ backup' = fresh
    BY <2>2, <1>0, <1>3, <1>5 DEF ToolsInv, ProcessInv
  <2> QED
    BY <1>3, <2>1, <2>2
<1>7. CASE new
  <2>1. acked' = fresh.tree /\ whole' = {fresh.tree}
    BY <1>3, <1>7 DEF Reborn
  <2>2. NewVolume'
    BY <1>0, <1>1, <1>2, <1>3, <1>5, <1>7, <2>1 DEF NewVolume
  <2>3. AtomicInv' /\ IntactInv'
    BY <1>4, <2>2, Newborn, PTL
  <2>4. WholeInv'
    BY <1>5, <1>7, <2>1 DEF WholeInv, WritePcs
  <2> QED
    BY <1>5, <1>6, <2>3, <2>4 DEF ToolsInv
<1>8. CASE ~new
  <2>1. UNCHANGED <<acked, offered, torn, stale, whole>>
    BY <1>3, <1>8 DEF Reborn, historyVars
  <2>2. Selected' = Corrupt \/ Selected' = Selected
    BY <1>0, <1>2, <1>3, <1>8 DEF Selected
  <2>3. AtomicInv'
    BY <1>0, <1>4, <1>5, <2>1, <2>2
       DEF AtomicInv, AtomicDurable, RecoveryKeepsTree, BackupFirst, TxOrder, WritePcs
  <2>4. ASSUME ~torn PROVE IntactInv' /\ WholeInv'
    <3>1. /\ step = "primary" /\ backup' = backup /\ primary' \in {primary, Corrupt}
          /\ DeviceInv /\ WholeInv
      BY <1>0, <1>2, <1>3, <1>8, <2>4, IntactParts DEF Selected, ToolsInv
    <3>2. DeviceInv'
      BY <1>3, <1>5, <2>2, <3>1
         DEF DeviceInv, MountIntact, Intact, Bounded, ReplayMissesTree, RecordIsNewer
    <3>3. SessionInv'
      BY <1>5 DEF SessionInv, CacheCoversTree, WrittenSoFar, JournalAge, WritePcs
    <3>4. WholeInv'
      BY <1>5, <2>1, <2>2, <3>1 DEF WholeInv, WritePcs
    <3> QED
      BY <2>3, <3>2, <3>3, <3>4, IntactParts, PTL
  <2> QED
    BY <1>5, <1>6, <2>1, <2>3, <2>4 DEF ToolsInv
<1> QED
  BY <1>7, <1>8

\* The freshly formatted device of ToolsInit satisfies ToolsInv.
LEMMA InitTools == ToolsInit => ToolsInv
<1> SUFFICES ASSUME ToolsInit PROVE ToolsInv
  OBVIOUS
<1>1. AtomicInv /\ IntactInv
  BY InitAtomic, InitIntact DEF ToolsInit
<1>2. pc = "down" /\ command = "none" /\ step = "none" /\ whole = {acked} /\ offered = {}
  BY DEF ToolsInit, Init
<1>3. journal.crc = "mismatch"
  <2>1. journal = [crc |-> "mismatch", txid |-> 0, blocks |-> EmptyImage,
                   post |-> EmptyImage]
    BY DEF ToolsInit, Init
  <2> QED
    BY <2>1
<1>4. WholeInv
  BY <1>1, <1>2 DEF WholeInv, WritePcs, AtomicInv, AtomicDurable
<1> QED
  BY <1>1, <1>2, <1>3, <1>4 DEF ToolsInv, ProcessInv, Inspection

\* Every step keeps ToolsInv.
LEMMA NextTools == ToolsInv /\ [ToolsNext]_allVars => ToolsInv'
<1> SUFFICES ASSUME ToolsInv, [ToolsNext]_allVars PROVE ToolsInv'
  OBVIOUS
<1>1. CASE UNCHANGED allVars
  <2>1. UNCHANGED vars /\ UNCHANGED <<command, step, fresh, torn, stale, whole>>
    BY <1>1 DEF allVars, toolVars, processVars
  <2>2. UNCHANGED <<disk, primary, backup, pc, phase, journal, superblock>>
    BY <2>1 DEF vars, deviceVars, volumeVars
  <2>3. AtomicInv' /\ (~torn' => IntactInv') /\ Selected' = Selected
    BY <2>1, <2>2, VolumeKeeps DEF Selected
  <2>4. ProcessInv' /\ (~torn' => WholeInv')
    BY <2>1, <2>2, <2>3 DEF ToolsInv, ProcessInv, WholeInv
  <2> QED
    BY <2>1, <2>2, <2>3, <2>4 DEF ToolsInv
<1>2. CASE Running
  BY <1>2, MountKeeps, EndKeeps, StagingKeeps, BeginFlushKeeps, RunFlushKeeps, StartKeeps,
     FormatKeeps, SuperblockKeeps DEF Running
<1>3. CASE Failing
  BY <1>3, FormatKeeps, SuperblockKeeps, EndKeeps, RotKeeps DEF Failing
<1> QED
  BY <1>1, <1>2, <1>3, StartKeeps DEF ToolsNext

\* ToolsInv holds in every reachable state.
LEMMA ToolsInvariant == ToolsSpec => []ToolsInv
BY InitTools, NextTools, PTL DEF ToolsSpec

\* Whatever the device held, and wherever formats, flushes and recoveries were
\* cut short, a mount finds only whole blocks, except between the first block a
\* format overwrites and the last superblock copy it replaces.
THEOREM FormatSafe == ToolsSpec => []IntactUnlessTorn
<1>1. ToolsInv => IntactUnlessTorn
  BY DEF ToolsInv, IntactInv, IntactUnlessTorn
<1> QED
  BY <1>1, ToolsInvariant, PTL

\* No record of an older volume is replayed after a format.
THEOREM StaleNeverReplayed == ToolsSpec => []NoStaleReplay
<1>1. ToolsInv => NoStaleReplay
  BY DEF ToolsInv, NoStaleReplay, RecordIsNewer
<1> QED
  BY <1>1, ToolsInvariant, PTL

\* A mount never finds a file that was created and not yet written.
THEOREM FilesWhole == ToolsSpec => []WholeFilesOnly
<1>1. ToolsInv => WholeFilesOnly
  BY DEF ToolsInv, WholeInv, WholeFilesOnly
<1> QED
  BY <1>1, ToolsInvariant, PTL

\* The steps of a process other than format are quiet steps of the volume, or
\* leave both superblock copies alone.
LEMMA InspectionSteps ==
    ASSUME ToolsInv, [ToolsNext]_allVars, command \in Inspection
    PROVE  [QuietNext]_vars \/ UNCHANGED <<primary, backup>>
<1>1. command # "format" /\ command # "none" /\ step \notin FormatSteps
  BY DEF Inspection, ToolsInv, ProcessInv, FormatSteps
<1>2. CASE UNCHANGED allVars
  BY <1>2 DEF allVars
<1>3. CASE RunMount \/ RunMountRefused \/ BeginFlush \/ RunFlush \/ Unmounted \/ BodyFails
  BY <1>3 DEF RunMount, RunMountRefused, BeginFlush, RunFlush, Unmounted, BodyFails,
              QuietNext, Mount
<1>4. CASE VolumeFails \/ MediumRots
  BY <1>4 DEF VolumeFails, MediumRots, QuietNext, Failure
<1>5. CASE CreateFile \/ WriteData
  BY <1>5 DEF CreateFile, WriteData, StageFile, StageBlock, vars, deviceVars
<1>6. CASE OpenFails \/ KilledUnmounted \/ \E c \in Subcommand : Start(c)
  BY <1>6 DEF OpenFails, KilledUnmounted, Start, vars, deviceVars
<1>7. \A c \in Content : ~FormatBegin(c)
  BY <1>1 DEF FormatBegin
<1>8. ~(\/ ZeroJournal \/ FormatBlocks \/ FormatBackup \/ FormatPrimary \/ FormatJournalFails
        \/ FormatBlocksFail \/ FormatBackupFails \/ FormatPrimaryFails)
  BY <1>1 DEF FormatSteps, ZeroJournal, FormatBlocks, FormatBackup, FormatPrimary,
              FormatJournalFails, FormatBlocksFail, FormatBackupFails, FormatPrimaryFails
<1> QED
  BY <1>2, <1>3, <1>4, <1>5, <1>6, <1>7, <1>8 DEF ToolsNext, Running, Failing

\* No step of info, ls or read changes the tree on the device.
THEOREM InspectionReadOnly == ToolsSpec => InspectionKeepsTree
<1>1. ASSUME ToolsInv, [ToolsNext]_allVars
      PROVE  (command \in Inspection) => (DurableImage' \in {DurableImage, Corrupt})
  <2> SUFFICES ASSUME command \in Inspection PROVE DurableImage' \in {DurableImage, Corrupt}
    OBVIOUS
  <2>1. CASE UNCHANGED <<primary, backup>>
    BY <2>1 DEF DurableImage, Selected
  <2>2. CASE [QuietNext]_vars
    <3>1. Selected' # Corrupt => Selected # Corrupt /\ Selected'.tree = Selected.tree
      BY <1>1, <2>2, TreeStep DEF ToolsInv
    <3> QED
      BY <3>1 DEF DurableImage
  <2> QED
    BY <1>1, <2>1, <2>2, InspectionSteps
<1> QED
  BY <1>1, ToolsInvariant, PTL DEF ToolsSpec, InspectionKeepsTree
===========================================================================
