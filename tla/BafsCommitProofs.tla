------------------------- MODULE BafsCommitProofs -------------------------
(***************************************************************************)
(* Machine-checked proofs about BafsCommit, for every value of its         *)
(* constants.                                                              *)
(***************************************************************************)
EXTENDS BafsCommitInv, TLAPS

USE LayoutAssumption, BoundAssumption

\* Facts about the constant sets the model is built from.
LEMMA ImageFacts ==
    /\ EmptyImage \in Image
    /\ Blank \in Superblock
    /\ DataStart \in Addr
    /\ \A img \in Image : Occupied(img) \in SUBSET Addr
BY DEF EmptyImage, Image, Blank, Superblock, Addr, Occupied

\* Replacing one block of an image gives an image.
LEMMA ImageExcept ==
    ASSUME NEW img \in Image, NEW a \in Addr, NEW c \in Content
    PROVE  [img EXCEPT ![a] = c] \in Image
BY DEF Image

\* Records keep their type under the updates the model makes.
LEMMA SuperblockExcept ==
    ASSUME NEW sb \in Superblock, NEW n \in Nat, NEW t \in Nat, NEW img \in Image
    PROVE  /\ [sb EXCEPT !.next_cow = n] \in Superblock
           /\ [sb EXCEPT !.txid = t] \in Superblock
           /\ [sb EXCEPT !.tree = img] \in Superblock
           /\ [sb EXCEPT !.next_cow = n, !.txid = t] \in Superblock
BY DEF Superblock

\* The fields of a superblock.
LEMMA SuperblockFields ==
    ASSUME NEW sb \in Superblock
    PROVE  sb.txid \in Nat /\ sb.next_cow \in Nat /\ sb.tree \in Image
BY DEF Superblock

\* The two forms a written journal record can take have the record's type.
LEMMA RecordTypes ==
    ASSUME TypeOK
    PROVE  HalfWritten \in JournalRecord /\ FullRecord \in JournalRecord
<1>1. superblock.tree \in Image
  BY SuperblockFields DEF TypeOK
<1>2. dirty_block_cache \in [Addr -> Content \cup {NoBlock, Damaged}]
  BY DEF TypeOK, Image
<1>3. HalfWritten.blocks \in [Addr -> Content \cup {NoBlock, Damaged}]
  BY DEF HalfWritten
<1> QED
  BY <1>1, <1>2, <1>3 DEF TypeOK, HalfWritten, FullRecord, JournalRecord

\* A superblock that bafs_mount selects and that is not corrupt is one.
LEMMA SelectedType ==
    ASSUME TypeOK
    PROVE  /\ Selected \in Superblock \cup {Corrupt}
           /\ Selected # Corrupt => Selected \in Superblock
BY DEF TypeOK, Selected

\* The formatted device: two equal superblock copies that reach one block,
\* which is on the disk.
LEMMA InitCopies ==
    ASSUME Init
    PROVE  /\ primary \in Superblock /\ backup = primary
           /\ primary.tree = acked /\ acked \in Image
           /\ disk \in [Device -> Content \cup {NoBlock, Damaged}]
           /\ \A a \in Occupied(primary.tree) :
                a = DataStart /\ a < primary.next_cow /\ disk[a] = primary.tree[a]
<1>1. PICK c \in Content :
        LET root == [EmptyImage EXCEPT ![DataStart] = c]
            formatted == [txid |-> 1, next_cow |-> DataStart + 1, tree |-> root]
        IN  /\ disk = [a \in Device |-> IF a = DataStart THEN c ELSE Damaged]
            /\ primary = formatted
            /\ acked = root
  BY DEF Init
<1> DEFINE root == [EmptyImage EXCEPT ![DataStart] = c]
<1>2. acked = root /\ root \in Image
  BY <1>1, ImageFacts, ImageExcept
<1>3. primary = [txid |-> 1, next_cow |-> DataStart + 1, tree |-> root]
  BY <1>1
<1>4. backup = primary
  BY DEF Init
<1>5. disk \in [Device -> Content \cup {NoBlock, Damaged}]
  BY <1>1
<1>6. /\ \A a \in Addr : a # DataStart => root[a] = NoBlock
      /\ DataStart \in Device /\ disk[DataStart] = c /\ root[DataStart] = c
  BY <1>1 DEF EmptyImage, Device, Addr
<1> HIDE DEF root
<1>7. primary \in Superblock /\ primary.tree = root /\ primary.next_cow = DataStart + 1
  BY <1>2, <1>3 DEF Superblock
<1> QED
  BY <1>2, <1>4, <1>5, <1>6, <1>7 DEF Occupied

\* Every initial state has the declared types.
LEMMA InitTypeOK == Init => TypeOK
<1> SUFFICES ASSUME Init PROVE TypeOK
  OBVIOUS
<1>1. journal \in JournalRecord
  BY ImageFacts DEF Init, JournalRecord, Image
<1>2. /\ pc = "down" /\ phase = "commit" /\ todo = {} /\ superblock = Blank
      /\ dirty_block_cache = EmptyImage /\ next_transaction_id = 0
      /\ next_free_block = 0 /\ offered = {} /\ faults = 0 /\ damage = 0
  BY DEF Init
<1> QED
  BY <1>1, <1>2, InitCopies, ImageFacts DEF TypeOK

\* Every step keeps the types.
LEMMA NextTypeOK == TypeOK /\ [Next]_vars => TypeOK'
<1> SUFFICES ASSUME TypeOK, [Next]_vars PROVE TypeOK'
  OBVIOUS
<1> USE ImageFacts
<1>1. CASE Mount
  <2>1. CASE MountClean
    BY <2>1, SelectedType, SuperblockFields
       DEF MountClean, OpenVolume, TypeOK, deviceVars, faultVars
  <2>2. CASE MountRefused
    BY <2>2 DEF MountRefused, vars, deviceVars, volumeVars, historyVars, faultVars, TypeOK
  <2>3. CASE MountRecover
    BY <2>3, SelectedType
       DEF MountRecover, TypeOK, WritePcs, deviceVars, historyVars, faultVars, Occupied
  <2> QED
    BY <1>1, <2>1, <2>2, <2>3 DEF Mount
<1>2. CASE Stage
  <2>1. PICK c \in Content, S \in SUBSET Occupied(superblock.tree) : StageBlock(c, S)
    BY <1>2 DEF Stage
  <2>2. dirty_block_cache' \in Image
    BY <2>1 DEF StageBlock, TypeOK, Image
  <2> DEFINE staged == [a \in Addr |-> IF a = next_free_block THEN c
                                      ELSE IF a \in S THEN NoBlock
                                      ELSE superblock.tree[a]]
  <2>3. staged \in Image
    BY SuperblockFields DEF TypeOK, Image
  <2>4. superblock' = [superblock EXCEPT !.tree = staged]
    BY <2>1 DEF StageBlock
  <2>5. superblock' \in Superblock
    <3> HIDE DEF staged
    <3> QED
      BY <2>3, <2>4 DEF TypeOK, Superblock
  <2> QED
    BY <2>1, <2>2, <2>5 DEF StageBlock, TypeOK, deviceVars, historyVars, faultVars
<1>3. CASE Flush
  <2>1. superblock.tree \in Image /\ offered \cup {superblock.tree} \in SUBSET Image
    BY SuperblockFields DEF TypeOK
  <2>2. CASE FlushEmpty
    BY <2>1, <2>2, SuperblockExcept
       DEF FlushEmpty, TypeOK, WritePcs, deviceVars, faultVars
  <2>3. CASE FlushStart
    BY <2>1, <2>3, SuperblockExcept
       DEF FlushStart, TypeOK, WritePcs, deviceVars, faultVars
  <2>4. CASE FlushTooLarge
    <3>1. superblock' \in Superblock
      BY <2>4 DEF FlushTooLarge, ForgetVolume, TypeOK, Superblock
    <3> QED
      BY <2>4, <3>1
         DEF FlushTooLarge, ForgetVolume, TypeOK, deviceVars, historyVars, faultVars
  <2> QED
    BY <1>3, <2>2, <2>3, <2>4 DEF Flush
<1>4. CASE Progress
  <2>1. CASE WriteJournalHeader
    BY <2>1, RecordTypes
       DEF WriteJournalHeader, TypeOK, WritePcs, volumeVars, historyVars, faultVars
  <2>2. CASE WriteJournalSeal
    BY <2>2, RecordTypes
       DEF WriteJournalSeal, TypeOK, WritePcs, volumeVars, historyVars, faultVars
  <2>3. CASE WriteBlock
    <3>1. PICK a \in Device : disk' = [disk EXCEPT ![a] = BlockToWrite(a)]
      BY <2>3 DEF WriteBlock
    <3>2. BlockToWrite(a) \in Content \cup {NoBlock, Damaged}
      BY DEF BlockToWrite, TypeOK, JournalRecord, Image, Device
    <3>3. disk' \in [Device -> Content \cup {NoBlock, Damaged}]
      BY <3>1, <3>2 DEF TypeOK
    <3> QED
      BY <2>3, <3>3 DEF WriteBlock, TypeOK, WritePcs, volumeVars, historyVars, faultVars
  <2>4. CASE BlockPastEnd
    BY <2>4 DEF BlockPastEnd, AfterError, ForgetVolume, TypeOK, deviceVars, volumeVars,
                historyVars, faultVars
  <2>5. CASE StampSuperblock
    <3>1. journal.txid \in Nat
      BY DEF TypeOK, JournalRecord
    <3> QED
      BY <2>5, <3>1, SuperblockExcept
         DEF StampSuperblock, TypeOK, WritePcs, deviceVars, historyVars, faultVars
  <2>6. CASE WriteBackup
    BY <2>6 DEF WriteBackup, TypeOK, WritePcs, volumeVars, historyVars, faultVars
  <2>7. CASE FinishMount
    BY <2>7, SuperblockFields DEF FinishMount, OpenVolume, TypeOK, faultVars
  <2>8. CASE FinishFlush
    BY <2>8, SuperblockFields DEF FinishFlush, TypeOK, faultVars
  <2> QED
    BY <1>4, <2>1, <2>2, <2>3, <2>4, <2>5, <2>6, <2>7, <2>8 DEF Progress
<1>5. CASE Failure
  <2>1. AfterError => /\ pc' \in {"down", "up"} \cup WritePcs
                      /\ phase' \in {"commit", "recovery"}
                      /\ todo' \in SUBSET Addr
                      /\ superblock' \in Superblock
                      /\ dirty_block_cache' \in Image
                      /\ next_transaction_id' \in Nat
                      /\ next_free_block' \in Nat
    BY DEF AfterError, ForgetVolume, TypeOK, volumeVars
  <2>2. CASE JournalWriteFails
    BY <2>1, <2>2, RecordTypes DEF JournalWriteFails, Fault, TypeOK, historyVars
  <2>3. CASE BlockWriteFails
    <3>0. PICK a \in Device : \E b \in {disk[a], BlockToWrite(a), Damaged} :
             disk' = [disk EXCEPT ![a] = b]
      BY <2>3 DEF BlockWriteFails
    <3>1. PICK b \in {disk[a], BlockToWrite(a), Damaged} :
             disk' = [disk EXCEPT ![a] = b]
      BY <3>0
    <3>2. b \in Content \cup {NoBlock, Damaged}
      BY <3>1 DEF BlockToWrite, TypeOK, JournalRecord, Image, Device
    <3>3. disk' \in [Device -> Content \cup {NoBlock, Damaged}]
      BY <3>1, <3>2 DEF TypeOK
    <3> QED
      BY <2>1, <2>3, <3>3 DEF BlockWriteFails, Fault, TypeOK, historyVars
  <2>4. CASE BackupWriteFails
    BY <2>1, <2>4 DEF BackupWriteFails, Fault, DamageSuperblock, TypeOK, historyVars
  <2>5. CASE PrimaryWriteFails
    BY <2>1, <2>5 DEF PrimaryWriteFails, Fault, DamageSuperblock, TypeOK, historyVars
  <2>6. CASE PowerLoss
    BY <2>6 DEF PowerLoss, ForgetVolume, Fault, TypeOK, deviceVars, historyVars
  <2>7. CASE MediaRot
    BY <2>7 DEF MediaRot, Fault, DamageSuperblock, TypeOK, volumeVars, historyVars
  <2> QED
    BY <1>5, <2>2, <2>3, <2>4, <2>5, <2>6, <2>7 DEF Failure
<1>6. CASE DropVolume
  BY <1>6 DEF DropVolume, ForgetVolume, TypeOK, deviceVars, historyVars, faultVars
<1>7. CASE UNCHANGED vars
  BY <1>7 DEF vars, deviceVars, volumeVars, historyVars, faultVars, TypeOK
<1> QED
  BY <1>1, <1>2, <1>3, <1>4, <1>5, <1>6, <1>7 DEF Next

\* Type correctness of every reachable state of mount, flush, recovery and
\* failure, whatever the layout, the journal size and the fault budget.
THEOREM TypeCorrect == Spec => []TypeOK
BY InitTypeOK, NextTypeOK, PTL DEF Spec
---------------------------------------------------------------------------
\* The fields of the in-memory superblock after an update of one of them.
LEMMA UpdatedFields ==
    ASSUME NEW sb \in Superblock, NEW n, NEW t, NEW img
    PROVE  /\ [sb EXCEPT !.next_cow = n].txid = sb.txid
           /\ [sb EXCEPT !.next_cow = n].tree = sb.tree
           /\ [sb EXCEPT !.next_cow = n].next_cow = n
           /\ [sb EXCEPT !.txid = t].txid = t
           /\ [sb EXCEPT !.txid = t].tree = sb.tree
           /\ [sb EXCEPT !.txid = t].next_cow = sb.next_cow
           /\ [sb EXCEPT !.tree = img].tree = img
           /\ [sb EXCEPT !.tree = img].txid = sb.txid
           /\ [sb EXCEPT !.tree = img].next_cow = sb.next_cow
           /\ [sb EXCEPT !.next_cow = n, !.txid = t].txid = t
           /\ [sb EXCEPT !.next_cow = n, !.txid = t].next_cow = n
           /\ [sb EXCEPT !.next_cow = n, !.txid = t].tree = sb.tree
BY DEF Superblock

\* A freshly formatted volume satisfies AtomicInv.
LEMMA InitAtomic == Init => AtomicInv
<1> SUFFICES ASSUME Init PROVE AtomicInv
  OBVIOUS
<1>1. TypeOK
  BY InitTypeOK
<1>2. pc = "down" /\ phase = "commit"
  BY DEF Init
<1>3. AtomicDurable
  BY InitCopies DEF AtomicDurable, Selected
<1> QED
  BY <1>1, <1>2, <1>3 DEF AtomicInv, RecoveryKeepsTree, BackupFirst, TxOrder, WritePcs

\* Every step keeps AtomicInv, as long as the medium damages a copy only while
\* the two copies are alike.
LEMMA NextAtomic ==
    ASSUME ~RotAnytime, AtomicInv, [Next]_vars
    PROVE  AtomicInv'
<1>0. TypeOK /\ TypeOK'
  BY NextTypeOK DEF AtomicInv
<1> DEFINE Inv == /\ AtomicDurable
                  /\ phase = "commit" /\ pc \in WritePcs => superblock.tree \in offered
                  /\ RecoveryKeepsTree
                  /\ BackupFirst
                  /\ TxOrder
<1>i. Inv
  BY DEF AtomicInv
<1>s. Selected # Corrupt => Selected \in Superblock
  BY <1>0, SelectedType
<1>p. phase \in {"commit", "recovery"}
  BY <1>0 DEF TypeOK
<1>f. \A sb \in Superblock : sb.txid \in Nat /\ sb.next_cow \in Nat /\ sb.tree \in Image
  BY SuperblockFields
<1> SUFFICES Inv'
  BY <1>0 DEF AtomicInv
<1> USE DEF AtomicDurable, RecoveryKeepsTree, BackupFirst, TxOrder, WritePcs
<1>1. CASE MountClean
  <2>1. Selected' = Selected /\ superblock' = Selected /\ next_transaction_id' = Selected.txid + 1
    BY <1>1 DEF MountClean, OpenVolume, Selected, deviceVars
  <2>2. acked' = Selected.tree /\ offered' = {} /\ pc' = "up" /\ phase' = "commit"
    BY <1>1 DEF MountClean, OpenVolume
  <2>3. Selected # Corrupt
    BY <1>1 DEF MountClean
  <2> QED
    BY <2>1, <2>2, <2>3, <1>s, <1>f
<1>2. CASE MountRefused
  BY <1>2, <1>i DEF MountRefused, vars, deviceVars, volumeVars, historyVars, faultVars, Selected
<1>3. CASE MountRecover
  BY <1>3, <1>i DEF MountRecover, deviceVars, historyVars, faultVars, Selected, RecordIsNewer
<1>4. CASE Stage
  BY <1>4, <1>i DEF Stage, StageBlock, deviceVars, historyVars, faultVars, Selected
<1>5. CASE FlushEmpty
  <2>1. superblock'.tree = superblock.tree /\ superblock'.txid = next_transaction_id
    BY <1>0, <1>5, UpdatedFields DEF FlushEmpty, TypeOK
  <2>2. /\ Selected' = Selected /\ pc = "up" /\ pc' = "backup" /\ phase' = phase
        /\ acked' = acked /\ offered' = offered \cup {superblock.tree}
        /\ next_transaction_id' = next_transaction_id
    BY <1>5 DEF FlushEmpty, deviceVars, Selected
  <2> QED
    BY <2>1, <2>2, <1>i, <1>p
<1>6. CASE FlushStart
  <2>1. superblock'.tree = superblock.tree
    BY <1>0, <1>6, UpdatedFields DEF FlushStart, TypeOK
  <2>2. /\ Selected' = Selected /\ pc = "up" /\ pc' = "header" /\ phase' = phase
        /\ acked' = acked /\ offered' = offered \cup {superblock.tree}
        /\ next_transaction_id' = next_transaction_id
    BY <1>6 DEF FlushStart, deviceVars, Selected
  <2> QED
    BY <2>1, <2>2, <1>i, <1>p
<1>7. CASE FlushTooLarge
  <2>1. /\ Selected' = Selected /\ pc = "up" /\ acked' = acked /\ offered' = offered
    BY <1>7 DEF FlushTooLarge, deviceVars, historyVars, Selected
  <2>2. CASE ForgetVolume
    BY <2>1, <2>2, <1>i, <1>p DEF ForgetVolume
  <2>3. CASE UNCHANGED <<pc, phase, todo, dirty_block_cache, next_transaction_id,
                         next_free_block>>
    BY <2>1, <2>3, <1>i, <1>p
  <2> QED
    BY <1>7, <2>2, <2>3 DEF FlushTooLarge
<1>8. CASE WriteJournalHeader
  BY <1>8, <1>i DEF WriteJournalHeader, volumeVars, historyVars, Selected
<1>9. CASE WriteJournalSeal
  BY <1>9, <1>i DEF WriteJournalSeal, volumeVars, historyVars, Selected
<1>10. CASE WriteBlock
  BY <1>10, <1>i DEF WriteBlock, volumeVars, historyVars, Selected, RecordIsNewer
<1>11. CASE BlockPastEnd
  BY <1>11, <1>i DEF BlockPastEnd, AfterError, ForgetVolume, deviceVars, volumeVars,
                     historyVars, Selected
<1>12. CASE StampSuperblock
  <2>1. /\ superblock'.tree = superblock.tree /\ superblock'.next_cow = superblock.next_cow
        /\ superblock'.txid = IF phase = "recovery" THEN journal.txid ELSE next_transaction_id
    BY <1>0, <1>12, UpdatedFields DEF StampSuperblock, TypeOK
  <2>2. /\ Selected' = Selected /\ pc = "blocks" /\ pc' = "backup" /\ phase' = phase
        /\ acked' = acked /\ offered' = offered
        /\ next_transaction_id' = next_transaction_id
    BY <1>12 DEF StampSuperblock, deviceVars, historyVars, Selected
  <2>3. journal.txid \in Nat
    BY <1>0 DEF TypeOK, JournalRecord
  <2> QED
    BY <2>1, <2>2, <2>3, <1>0, <1>i, <1>s, <1>f DEF RecordIsNewer, TypeOK
<1>13. CASE WriteBackup
  BY <1>0, <1>13, <1>i, <1>f, CorruptAssumption
     DEF WriteBackup, volumeVars, historyVars, Selected, TypeOK
<1>14. CASE FinishMount
  <2>1. /\ primary' = superblock /\ superblock' = superblock /\ pc' = "up" /\ phase' = "commit"
        /\ next_transaction_id' = superblock.txid + 1 /\ acked' = superblock.tree
    BY <1>14 DEF FinishMount, OpenVolume
  <2>2. superblock \in Superblock /\ superblock.txid \in Nat
    BY <1>0, <1>f DEF TypeOK
  <2>3. Selected' = superblock
    BY <2>1, <2>2, CorruptAssumption DEF Selected
  <2> QED
    BY <2>1, <2>2, <2>3
<1>15. CASE FinishFlush
  BY <1>0, <1>15, <1>i, <1>f, CorruptAssumption
     DEF FinishFlush, Selected, TypeOK
<1>e. AfterError => \/ pc' = "down" /\ phase' = "commit"
                    \/ /\ phase = "commit" /\ phase' = "commit" /\ pc' = "up"
                       /\ next_transaction_id' = next_transaction_id
                       /\ superblock' = superblock
  BY DEF AfterError, ForgetVolume, volumeVars
<1>16. CASE JournalWriteFails
  BY <1>16, <1>i DEF JournalWriteFails, AfterError, ForgetVolume, volumeVars,
                     historyVars, Selected
<1>17. CASE BlockWriteFails
  BY <1>17, <1>i DEF BlockWriteFails, AfterError, ForgetVolume, volumeVars,
                     historyVars, Selected
<1>18. CASE BackupWriteFails
  <2>1. /\ pc = "backup" /\ primary' = primary /\ backup' \in {backup, superblock, Corrupt}
        /\ acked' = acked /\ offered' = offered
    BY <1>18 DEF BackupWriteFails, historyVars
  <2>2. Selected' \in {Selected, superblock, Corrupt}
    BY <2>1, <1>i DEF Selected
  <2>3. AfterError
    BY <1>18 DEF BackupWriteFails
  <2>4. Selected' # Corrupt => Selected'.tree \in {acked} \cup offered
    BY <2>1, <2>2, <1>i, <1>p
  <2>5. superblock.txid \in Nat /\ next_transaction_id \in Nat
    BY <1>0, <1>f DEF TypeOK
  <2>6. Selected' # Corrupt /\ pc' # "down" => Selected'.txid <= next_transaction_id'
    BY <2>1, <2>2, <2>3, <2>5, <1>e, <1>i
  <2>7. pc' \in {"down", "up"} /\ phase' = "commit"
    BY <2>3, <1>e
  <2> QED
    BY <2>1, <2>4, <2>6, <2>7
<1>19. CASE PrimaryWriteFails
  <2>1. /\ pc = "primary" /\ backup' = backup /\ primary' \in {primary, superblock, Corrupt}
        /\ acked' = acked /\ offered' = offered
    BY <1>19 DEF PrimaryWriteFails, historyVars
  <2>2. Selected' \in {Selected, superblock, Corrupt}
    BY <2>1, <1>i DEF Selected
  <2>3. AfterError
    BY <1>19 DEF PrimaryWriteFails
  <2>4. Selected' # Corrupt => Selected'.tree \in {acked} \cup offered
    BY <2>1, <2>2, <1>i, <1>p
  <2>5. superblock.txid \in Nat /\ next_transaction_id \in Nat
    BY <1>0, <1>f DEF TypeOK
  <2>6. Selected' # Corrupt /\ pc' # "down" => Selected'.txid <= next_transaction_id'
    BY <2>1, <2>2, <2>3, <2>5, <1>e, <1>i
  <2>7. pc' \in {"down", "up"} /\ phase' = "commit"
    BY <2>3, <1>e
  <2> QED
    BY <2>1, <2>4, <2>6, <2>7
<1>20. CASE PowerLoss
  BY <1>20, <1>i DEF PowerLoss, ForgetVolume, deviceVars, historyVars, Selected
<1>21. CASE MediaRot
  BY <1>21, <1>i DEF MediaRot, volumeVars, historyVars, Selected, RecordIsNewer
<1>22. CASE DropVolume
  BY <1>22, <1>i DEF DropVolume, ForgetVolume, deviceVars, historyVars, Selected
<1>23. CASE UNCHANGED vars
  BY <1>23, <1>i DEF vars, deviceVars, volumeVars, historyVars, faultVars, Selected,
                     RecordIsNewer
<1> QED
  BY <1>1, <1>2, <1>3, <1>4, <1>5, <1>6, <1>7, <1>8, <1>9, <1>10, <1>11, <1>12,
     <1>13, <1>14, <1>15, <1>16, <1>17, <1>18, <1>19, <1>20, <1>21, <1>22, <1>23
     DEF Next, Mount, Flush, Progress, Failure

\* AtomicInv holds in every reachable state.
LEMMA AtomicInvariant == ASSUME ~RotAnytime PROVE Spec => []AtomicInv
<1>1. AtomicInv /\ [Next]_vars => AtomicInv'
  BY NextAtomic
<1> QED
  BY <1>1, InitAtomic, PTL DEF Spec

\* Power loss, failed and torn writes included, a mount finds the tree of the
\* last acknowledged flush or of a flush that was in progress, whole.
THEOREM AtomicDurability == ASSUME ~RotAnytime PROVE Spec => []AtomicDurable
BY AtomicInvariant, PTL DEF AtomicInv

\* One step of the protocol, seen by the user of the volume: the durable image
\* stays, becomes an offered image, or is lost with both superblock copies.
LEMMA StepRefines ==
    ASSUME ~RotAnytime, AtomicInv, [Next]_vars
    PROVE  [Abstract!AbsNext]_(Abstract!absVars)
<1>0. TypeOK /\ TypeOK'
  BY NextTypeOK DEF AtomicInv
<1>f. \A sb \in Superblock : sb.txid \in Nat /\ sb.next_cow \in Nat /\ sb.tree \in Image
  BY SuperblockFields
<1>s. Selected # Corrupt => Selected \in Superblock
  BY <1>0, SelectedType
<1>o. superblock.tree \in Image
  BY <1>0, <1>f DEF TypeOK
<1> USE DEF Abstract!absVars, DurableImage
<1>1. CASE MountClean
  <2>1. /\ DurableImage' = DurableImage /\ DurableImage = Selected.tree
        /\ acked' = Selected.tree /\ offered' = {} /\ DurableImage # Corrupt
    BY <1>1, <1>s, <1>f, CorruptAssumption DEF MountClean, OpenVolume, Selected, deviceVars
  <2>2. Abstract!Resolve
    BY <2>1 DEF Abstract!Resolve
  <2> QED
    BY <2>2 DEF Abstract!AbsNext
<1>2. CASE \/ MountRefused \/ MountRecover \/ Stage \/ FlushTooLarge
           \/ WriteJournalHeader \/ WriteJournalSeal \/ WriteBlock \/ BlockPastEnd
           \/ StampSuperblock \/ JournalWriteFails \/ BlockWriteFails \/ PowerLoss
           \/ DropVolume \/ UNCHANGED vars
  <2>1. UNCHANGED <<primary, backup, acked, offered>>
    BY <1>2 DEF MountRefused, MountRecover, Stage, StageBlock, FlushTooLarge,
                WriteJournalHeader, WriteJournalSeal, WriteBlock, BlockPastEnd,
                StampSuperblock, JournalWriteFails, BlockWriteFails, PowerLoss, DropVolume,
                vars, deviceVars, historyVars
  <2> QED
    BY <2>1 DEF Selected
<1>3. CASE FlushEmpty \/ FlushStart
  <2>1. /\ UNCHANGED <<primary, backup, acked>>
        /\ offered' = offered \cup {superblock.tree}
    BY <1>3 DEF FlushEmpty, FlushStart, deviceVars
  <2>2. Abstract!Offer(superblock.tree)
    BY <2>1 DEF Abstract!Offer, Selected
  <2> QED
    BY <2>2, <1>o DEF Abstract!AbsNext
<1>4. CASE WriteBackup \/ BackupWriteFails
  <2>1. /\ pc = "backup" /\ UNCHANGED <<primary, acked, offered>>
        /\ backup' \in {backup, superblock, Corrupt}
    BY <1>4 DEF WriteBackup, BackupWriteFails, historyVars
  <2>2. CASE primary # Corrupt \/ backup' = backup
    BY <2>1, <2>2 DEF Selected
  <2>3. CASE primary = Corrupt /\ backup' = Corrupt
    BY <2>1, <2>3 DEF Selected, Abstract!AbsNext, Abstract!Lose
  <2>4. CASE primary = Corrupt /\ backup' = superblock
    <3>1. DurableImage' = superblock.tree
      BY <2>1, <2>4, <1>0, CorruptAssumption DEF Selected, TypeOK
    <3>2. CASE phase = "commit"
      <4>1. superblock.tree \in offered
        BY <2>1, <3>2 DEF AtomicInv, WritePcs
      <4> QED
        BY <2>1, <3>1, <4>1 DEF Abstract!AbsNext, Abstract!TakeEffect
    <3>3. CASE phase = "recovery"
      <4>1. DurableImage = superblock.tree
        BY <3>3 DEF AtomicInv, RecoveryKeepsTree
      <4> QED
        BY <2>1, <3>1, <4>1
    <3> QED
      BY <3>2, <3>3, <1>0 DEF TypeOK
  <2> QED
    BY <2>1, <2>2, <2>3, <2>4
<1>5. CASE PrimaryWriteFails
  <2>1. /\ pc = "primary" /\ UNCHANGED <<backup, acked, offered>>
        /\ primary' \in {primary, superblock, Corrupt}
    BY <1>5 DEF PrimaryWriteFails, historyVars
  <2>2. CASE primary' = primary
    BY <2>1, <2>2 DEF Selected
  <2>3. CASE primary' = Corrupt /\ backup = Corrupt
    BY <2>1, <2>3 DEF Selected, Abstract!AbsNext, Abstract!Lose
  <2>4. CASE primary' = superblock \/ (primary' = Corrupt /\ backup = superblock)
    <3>1. DurableImage' = superblock.tree
      BY <2>1, <2>4, <1>0, CorruptAssumption DEF Selected, TypeOK
    <3>2. CASE phase = "commit"
      <4>1. superblock.tree \in offered
        BY <2>1, <3>2 DEF AtomicInv, WritePcs
      <4> QED
        BY <2>1, <3>1, <4>1 DEF Abstract!AbsNext, Abstract!TakeEffect
    <3>3. CASE phase = "recovery"
      <4>1. DurableImage = superblock.tree
        BY <3>3 DEF AtomicInv, RecoveryKeepsTree
      <4> QED
        BY <2>1, <3>1, <4>1
    <3> QED
      BY <3>2, <3>3, <1>0 DEF TypeOK
  <2> QED
    BY <2>1, <2>2, <2>3, <2>4 DEF AtomicInv, BackupFirst
<1>6. CASE FinishMount
  <2>1. /\ pc = "primary" /\ phase = "recovery" /\ primary' = superblock
        /\ acked' = superblock.tree /\ offered' = {}
    BY <1>6 DEF FinishMount, OpenVolume
  <2>2. DurableImage' = superblock.tree /\ DurableImage = superblock.tree
    BY <2>1, <1>0, CorruptAssumption DEF Selected, TypeOK, AtomicInv, RecoveryKeepsTree
  <2>3. superblock.tree # Corrupt
    BY <1>o, CorruptAssumption
  <2> QED
    BY <2>1, <2>2, <2>3 DEF Abstract!AbsNext, Abstract!Resolve
<1>7. CASE FinishFlush
  <2>1. /\ pc = "primary" /\ phase = "commit" /\ primary' = superblock
        /\ acked' = superblock.tree /\ offered' = {}
    BY <1>7 DEF FinishFlush
  <2>2. DurableImage' = superblock.tree /\ superblock.tree \in offered
    BY <2>1, <1>0, CorruptAssumption DEF Selected, TypeOK, AtomicInv, WritePcs
  <2>3. Abstract!Acknowledge(superblock.tree)
    BY <2>1, <2>2 DEF Abstract!Acknowledge
  <2> QED
    BY <2>3, <1>o DEF Abstract!AbsNext
<1>8. CASE MediaRot
  <2>1. /\ primary = backup /\ primary # Corrupt /\ UNCHANGED <<acked, offered>>
        /\ \/ primary' = Corrupt /\ backup' = backup
           \/ backup' = Corrupt /\ primary' = primary
    BY <1>8 DEF MediaRot, historyVars
  <2> QED
    BY <2>1 DEF Selected
<1> QED
  BY <1>1, <1>2, <1>3, <1>4, <1>5, <1>6, <1>7, <1>8
     DEF Next, Mount, Flush, Progress, Failure

\* The commit protocol implements AtomicVolume: for every layout and every
\* pattern of power losses and failed writes, also when callers go on after a
\* failed flush, a flush takes effect at one moment and as a whole.
THEOREM Refinement == ASSUME ~RotAnytime PROVE Spec => RefinesAtomicVolume
<1>1. Init => Abstract!AbsInit
  <2> SUFFICES ASSUME Init PROVE Abstract!AbsInit
    OBVIOUS
  <2>1. DurableImage = primary.tree /\ primary.tree = acked /\ acked \in Image
    BY InitCopies, CorruptAssumption DEF DurableImage, Selected
  <2>2. offered = {}
    BY DEF Init
  <2> QED
    BY <2>1, <2>2 DEF Abstract!AbsInit
<1>2. AtomicInv /\ [Next]_vars => [Abstract!AbsNext]_(Abstract!absVars)
  BY StepRefines
<1> QED
  BY <1>1, <1>2, AtomicInvariant, PTL DEF Spec, RefinesAtomicVolume, Abstract!AbsSpec

\* The transaction id a mount reads never decreases.
THEOREM TxMonotone == ASSUME ~RotAnytime PROVE Spec => TxNeverGoesBack
<1>1. ASSUME AtomicInv, [Next]_vars
      PROVE  Selected # Corrupt /\ Selected' # Corrupt => Selected'.txid >= Selected.txid
  <2>0. TypeOK /\ (Selected # Corrupt => Selected \in Superblock)
    BY <1>1, SelectedType DEF AtomicInv
  <2>f. \A sb \in Superblock : sb.txid \in Nat
    BY SuperblockFields
  <2>1. CASE UNCHANGED <<primary, backup>>
    BY <2>1, <2>0, <2>f DEF Selected
  <2>2. CASE WriteBackup \/ BackupWriteFails
    <3>1. pc = "backup" /\ primary' = primary /\ backup' \in {backup, superblock, Corrupt}
      BY <2>2 DEF WriteBackup, BackupWriteFails
    <3>2. Selected # Corrupt => Selected.txid <= superblock.txid
      BY <3>1, <1>1 DEF AtomicInv, TxOrder
    <3>3. Selected' \in {Selected, superblock, Corrupt}
      BY <3>1 DEF Selected
    <3> QED
      BY <3>2, <3>3, <2>0, <2>f DEF TypeOK
  <2>3. CASE PrimaryWriteFails \/ FinishMount \/ FinishFlush
    <3>1. pc = "primary" /\ backup' = backup /\ primary' \in {primary, superblock, Corrupt}
      BY <2>3 DEF PrimaryWriteFails, FinishMount, FinishFlush
    <3>2. Selected # Corrupt => Selected.txid <= superblock.txid
      BY <3>1, <1>1 DEF AtomicInv, TxOrder
    <3>3. backup \in {superblock, Corrupt}
      BY <3>1, <1>1 DEF AtomicInv, BackupFirst
    <3>4. Selected' \in {Selected, superblock, Corrupt}
      BY <3>1, <3>3 DEF Selected
    <3> QED
      BY <3>2, <3>4, <2>0, <2>f DEF TypeOK
  <2>4. CASE MediaRot
    <3>1. /\ primary = backup /\ primary # Corrupt
          /\ \/ primary' = Corrupt /\ backup' = backup
             \/ backup' = Corrupt /\ primary' = primary
      BY <2>4 DEF MediaRot
    <3> QED
      BY <3>1, <2>0, <2>f DEF Selected
  <2>5. \/ UNCHANGED <<primary, backup>> \/ WriteBackup \/ BackupWriteFails
        \/ PrimaryWriteFails \/ FinishMount \/ FinishFlush \/ MediaRot
    BY <1>1 DEF Next, Mount, Flush, Progress, Failure,
                MountClean, MountRefused, MountRecover, Stage, StageBlock, FlushEmpty,
                FlushStart, FlushTooLarge, WriteJournalHeader, WriteJournalSeal, WriteBlock,
                BlockPastEnd, StampSuperblock, JournalWriteFails, BlockWriteFails,
                PowerLoss, DropVolume, vars, deviceVars
  <2> QED
    BY <2>1, <2>2, <2>3, <2>4, <2>5
<1>2. AtomicInv /\ [Next]_vars =>
        [Selected # Corrupt /\ Selected' # Corrupt => Selected'.txid >= Selected.txid]_vars
  BY <1>1
<1> QED
  BY <1>2, AtomicInvariant, PTL DEF Spec, TxNeverGoesBack
---------------------------------------------------------------------------
\* MountIntact: no write of a commit, of a recovery or of a torn write lands on a
\* block that the superblock a mount would select still reaches.

\* The parts of IntactInv that constrain a device with no volume open.
DeviceInv ==
    /\ MountIntact
    /\ primary # Corrupt => Bounded(primary)
    /\ backup # Corrupt => Bounded(backup)
    /\ ReplayMissesTree

\* The parts of IntactInv that constrain a volume in the middle of a session.
SessionInv ==
    /\ pc # "down" => Selected # Corrupt
    /\ CacheCoversTree
    /\ WrittenSoFar
    /\ JournalAge
    /\ phase = "commit" /\ pc \in WritePcs => superblock.next_cow = next_free_block
    /\ phase = "recovery" /\ pc = "blocks" => todo \subseteq Occupied(journal.blocks)
    /\ phase = "commit" /\ pc = "blocks" => todo \subseteq Occupied(dirty_block_cache)
    /\ pc \in {"backup", "primary"} => Intact(superblock) /\ Bounded(superblock)

\* IntactInv is the conjunction of the three.
LEMMA IntactParts == IntactInv <=> AtomicInv /\ DeviceInv /\ SessionInv
BY DEF IntactInv, DeviceInv, SessionInv

\* A freshly formatted volume satisfies IntactInv.
LEMMA InitIntact == Init => IntactInv
<1> SUFFICES ASSUME Init PROVE IntactInv
  OBVIOUS
<1>1. AtomicInv
  BY InitAtomic
<1>2. pc = "down" /\ phase = "commit" /\ journal.crc = "mismatch"
  <2>1. journal = [crc |-> "mismatch", txid |-> 0, blocks |-> EmptyImage,
                   post |-> EmptyImage]
    BY DEF Init
  <2>2. pc = "down" /\ phase = "commit"
    BY DEF Init
  <2> QED
    BY <2>1, <2>2
<1>3. DataStart \in Device
  BY LayoutAssumption DEF Device, Addr
<1>4. Selected = primary
  BY InitCopies DEF Selected
<1>5. DeviceInv
  BY <1>2, <1>3, <1>4, InitCopies
     DEF DeviceInv, MountIntact, Intact, Bounded, ReplayMissesTree, RecordIsNewer
<1>6. SessionInv
  BY <1>2 DEF SessionInv, CacheCoversTree, WrittenSoFar, JournalAge, WritePcs
<1> QED
  BY <1>1, <1>5, <1>6, IntactParts

\* A device with no volume open need only satisfy DeviceInv.
LEMMA DownSession ==
    ASSUME ForgetVolume
    PROVE  SessionInv'
BY DEF ForgetVolume, SessionInv, CacheCoversTree, WrittenSoFar, JournalAge, WritePcs

\* The selected superblock reaches only blocks below its bump pointer.
LEMMA SelectedBounded ==
    ASSUME DeviceInv, Selected # Corrupt
    PROVE  Bounded(Selected)
BY DEF DeviceInv, Selected

\* Step (c) and the replay write only past the selected tree.
LEMMA TodoMissesTree ==
    ASSUME IntactInv, pc = "blocks", NEW a \in todo
    PROVE  /\ Selected # Corrupt
           /\ Selected.next_cow <= a
           /\ a \notin Occupied(Selected.tree)
<1>0. TypeOK /\ Selected # Corrupt /\ DeviceInv /\ SessionInv
  BY IntactParts DEF AtomicInv, SessionInv
<1>1. Selected.next_cow <= a
  <2>1. CASE phase = "commit"
    BY <1>0, <2>1 DEF SessionInv, CacheCoversTree
  <2>2. CASE phase = "recovery"
    BY <1>0, <2>2, IntactParts DEF SessionInv, DeviceInv, ReplayMissesTree, AtomicInv,
                                   RecoveryKeepsTree
  <2> QED
    BY <1>0, <2>1, <2>2 DEF TypeOK
<1>2. Selected.next_cow \in Nat /\ a \in Int
  BY <1>0, SelectedType, SuperblockFields DEF TypeOK, Addr
<1> QED
  BY <1>0, <1>1, <1>2, SelectedBounded DEF Bounded

\* A write outside the tree of a superblock leaves its blocks whole.
LEMMA WriteOutside ==
    ASSUME TypeOK, NEW sb \in Superblock, NEW a \in Device, NEW b,
           Intact(sb), a \notin Occupied(sb.tree), disk' = [disk EXCEPT ![a] = b]
    PROVE  \A x \in Occupied(sb.tree) : x \in Device /\ disk'[x] = sb.tree[x]
BY DEF TypeOK, Intact

\* Every failure, with no caller that goes on, leaves a sound device.
LEMMA FailureKeepsDevice ==
    ASSUME ~RotAnytime, ~CallerRetries, IntactInv, Failure, ~MediaRot
    PROVE  DeviceInv' /\ ForgetVolume
<1>0. TypeOK /\ AtomicInv /\ DeviceInv /\ SessionInv
  BY IntactParts DEF AtomicInv
<1>s. Selected # Corrupt => Selected \in Superblock
  BY <1>0, SelectedType
<1>f. \A sb \in Superblock : sb.txid \in Nat /\ sb.next_cow \in Nat /\ sb.tree \in Image
  BY SuperblockFields
<1>j. /\ journal.txid \in Nat /\ next_transaction_id \in Nat
      /\ superblock \in Superblock /\ superblock.txid \in Nat /\ superblock # Corrupt
  BY <1>0, <1>f, CorruptAssumption DEF TypeOK, JournalRecord
<1>k. JournalAge
  BY <1>0 DEF SessionInv
<1>e. AfterError => ForgetVolume
  BY DEF AfterError
<1>1. CASE PowerLoss
  BY <1>0, <1>1 DEF PowerLoss, deviceVars, DeviceInv, MountIntact, Intact, Bounded,
                    ReplayMissesTree, RecordIsNewer, Selected
<1>2. CASE JournalWriteFails
  <2>1. /\ pc \in {"header", "seal"} /\ UNCHANGED <<disk, primary, backup>>
        /\ journal' = journal \/ journal' = HalfWritten
           \/ (pc = "seal" /\ journal' = FullRecord)
    BY <1>2 DEF JournalWriteFails
  <2>2. ForgetVolume
    BY <1>2, <1>e DEF JournalWriteFails
  <2>3. MountIntact' /\ (primary' # Corrupt => Bounded(primary)')
                     /\ (backup' # Corrupt => Bounded(backup)')
    BY <1>0, <2>1 DEF DeviceInv, MountIntact, Intact, Bounded, Selected
  <2>4. ReplayMissesTree'
    <3>1. CASE journal' = journal
      BY <1>0, <2>1, <3>1 DEF DeviceInv, ReplayMissesTree, RecordIsNewer, Selected
    <3>2. CASE journal' = HalfWritten
      BY <3>2 DEF ReplayMissesTree, RecordIsNewer, HalfWritten
    <3>3. CASE pc = "seal" /\ journal' = FullRecord
      <4>1. phase = "commit"
        BY <1>0, <3>3 DEF AtomicInv, RecoveryKeepsTree, TypeOK
      <4>2. \A a \in Occupied(dirty_block_cache) : Selected.next_cow <= a
        BY <1>0, <3>3, <4>1 DEF SessionInv, CacheCoversTree
      <4>3. Selected' = Selected /\ journal'.blocks = dirty_block_cache
        BY <2>1, <3>3 DEF Selected, FullRecord
      <4> QED
        BY <4>2, <4>3 DEF ReplayMissesTree, Occupied
    <3> QED
      BY <2>1, <3>1, <3>2, <3>3
  <2> QED
    BY <2>2, <2>3, <2>4 DEF DeviceInv
<1>3. CASE BlockWriteFails
  <2>1. pc = "blocks" /\ UNCHANGED <<primary, backup, journal>> /\ ForgetVolume
    BY <1>3, <1>e DEF BlockWriteFails
  <2>2. PICK a \in Device : IsNextBlock(a) /\ \E b : disk' = [disk EXCEPT ![a] = b]
    BY <1>3 DEF BlockWriteFails
  <2>3. PICK b : disk' = [disk EXCEPT ![a] = b]
    BY <2>2
  <2>4. Selected # Corrupt /\ a \notin Occupied(Selected.tree)
    BY <2>1, <2>2, TodoMissesTree DEF IsNextBlock
  <2>5. \A x \in Occupied(Selected.tree) : x \in Device /\ disk'[x] = Selected.tree[x]
    BY <1>0, <1>s, <2>3, <2>4, WriteOutside DEF DeviceInv, MountIntact
  <2> QED
    BY <1>0, <2>1, <2>5 DEF DeviceInv, MountIntact, Intact, Bounded, ReplayMissesTree,
                            RecordIsNewer, Selected
<1>4. CASE BackupWriteFails
  <2>1. /\ pc = "backup" /\ UNCHANGED <<disk, primary, journal>> /\ ForgetVolume
        /\ backup' \in {backup, superblock, Corrupt}
    BY <1>4, <1>e DEF BackupWriteFails
  <2>2. Intact(superblock) /\ Bounded(superblock)
    BY <1>0, <2>1 DEF SessionInv
  <2>3. superblock # Corrupt /\ ~RecordIsNewer(superblock)
    BY <2>1, <1>j, <1>k DEF JournalAge, RecordIsNewer
  <2>4. (backup' # Corrupt => Bounded(backup)') /\ (primary' # Corrupt => Bounded(primary)')
    BY <1>0, <2>1, <2>2 DEF DeviceInv, Bounded
  <2>5. CASE Selected' = Selected
    BY <1>0, <2>1, <2>4, <2>5 DEF DeviceInv, MountIntact, Intact, ReplayMissesTree,
                                  RecordIsNewer
  <2>6. CASE Selected' = superblock
    BY <2>1, <2>2, <2>3, <2>4, <2>6 DEF DeviceInv, MountIntact, Intact, ReplayMissesTree,
                                        RecordIsNewer
  <2>7. CASE Selected' = Corrupt
    BY <2>1, <2>4, <2>7 DEF DeviceInv, MountIntact, ReplayMissesTree
  <2> QED
    BY <2>1, <2>5, <2>6, <2>7 DEF Selected
<1>5. CASE PrimaryWriteFails
  <2>1. /\ pc = "primary" /\ UNCHANGED <<disk, backup, journal>> /\ ForgetVolume
        /\ primary' \in {primary, superblock, Corrupt}
    BY <1>5, <1>e DEF PrimaryWriteFails
  <2>2. Intact(superblock) /\ Bounded(superblock)
    BY <1>0, <2>1 DEF SessionInv
  <2>3. superblock # Corrupt /\ ~RecordIsNewer(superblock)
    BY <2>1, <1>j, <1>k DEF JournalAge, RecordIsNewer
  <2>4. (backup' # Corrupt => Bounded(backup)') /\ (primary' # Corrupt => Bounded(primary)')
    BY <1>0, <2>1, <2>2 DEF DeviceInv, Bounded
  <2>5. CASE Selected' = Selected
    BY <1>0, <2>1, <2>4, <2>5 DEF DeviceInv, MountIntact, Intact, ReplayMissesTree,
                                  RecordIsNewer
  <2>6. CASE Selected' = superblock
    BY <2>1, <2>2, <2>3, <2>4, <2>6 DEF DeviceInv, MountIntact, Intact, ReplayMissesTree,
                                        RecordIsNewer
  <2>7. CASE Selected' = Corrupt
    BY <2>1, <2>4, <2>7 DEF DeviceInv, MountIntact, ReplayMissesTree
  <2>8. backup \in {superblock, Corrupt}
    BY <1>0, <2>1 DEF AtomicInv, BackupFirst
  <2> QED
    BY <2>1, <2>5, <2>6, <2>7, <2>8 DEF Selected
<1> QED
  BY <1>1, <1>2, <1>3, <1>4, <1>5 DEF Failure, PowerLoss

\* Every step keeps IntactInv.
LEMMA NextIntact ==
    ASSUME ~RotAnytime, ~CallerRetries, IntactInv, [Next]_vars
    PROVE  IntactInv'
<1>0. TypeOK /\ AtomicInv /\ DeviceInv /\ SessionInv
  BY IntactParts DEF AtomicInv
<1>a. AtomicInv' /\ TypeOK'
  BY <1>0, NextAtomic DEF AtomicInv
<1>s. Selected # Corrupt => Selected \in Superblock /\ Bounded(Selected)
  BY <1>0, SelectedType, SelectedBounded
<1>f. \A sb \in Superblock : sb.txid \in Nat /\ sb.next_cow \in Nat /\ sb.tree \in Image
  BY SuperblockFields
<1>j. /\ journal.txid \in Nat /\ next_transaction_id \in Nat
      /\ superblock \in Superblock /\ superblock.txid \in Nat /\ superblock # Corrupt
  BY <1>0, <1>f, CorruptAssumption DEF TypeOK, JournalRecord
<1>k. JournalAge
  BY <1>0 DEF SessionInv
<1>p. phase \in {"commit", "recovery"} /\ (phase = "recovery" => pc \in {"blocks", "backup", "primary"})
  BY <1>0 DEF TypeOK, AtomicInv, RecoveryKeepsTree
<1>e. AfterError => ForgetVolume
  BY DEF AfterError
<1>d. ASSUME UNCHANGED <<disk, primary, backup, journal>> PROVE DeviceInv'
  BY <1>0, <1>d DEF DeviceInv, MountIntact, Intact, Bounded, ReplayMissesTree,
                    RecordIsNewer, Selected
<1>n. \A a \in Addr : EmptyImage[a] = NoBlock
  BY DEF EmptyImage
<1> SUFFICES DeviceInv' /\ SessionInv'
  BY <1>a, IntactParts, PTL
<1>1. CASE MountClean
  <2>1. /\ pc' = "up" /\ phase' = "commit" /\ Selected # Corrupt /\ ~RecordIsNewer(Selected)
        /\ superblock' = Selected /\ dirty_block_cache' = EmptyImage
        /\ next_transaction_id' = Selected.txid + 1 /\ next_free_block' = Selected.next_cow
        /\ UNCHANGED <<disk, primary, backup, journal>>
    BY <1>1 DEF MountClean, OpenVolume, deviceVars
  <2>2. Selected' = Selected
    BY <2>1 DEF Selected
  <2>3. CacheCoversTree'
    <3>1. /\ Selected.next_cow \in Nat
          /\ \A a \in Occupied(Selected.tree) :
               a < Selected.next_cow /\ a \in Device /\ disk[a] = Selected.tree[a]
      BY <2>1, <1>0, <1>s, <1>f DEF DeviceInv, MountIntact, Intact, Bounded
    <3>2. Occupied(dirty_block_cache)' = {}
      BY <2>1, <1>n DEF Occupied
    <3>3. Occupied(superblock.tree)' = Occupied(Selected.tree)
      BY <2>1
    <3>4. \A a \in Occupied(Selected.tree) : dirty_block_cache'[a] = NoBlock
      BY <2>1, <1>n DEF Occupied
    <3>5. Selected'.next_cow <= next_free_block'
      BY <2>1, <2>2, <3>1
    <3>6. \A a \in Occupied(superblock.tree)' :
            a < next_free_block' /\ dirty_block_cache'[a] = NoBlock
            /\ a \in Device /\ disk'[a] = superblock'.tree[a]
      BY <2>1, <3>1, <3>3, <3>4
    <3> QED
      BY <3>2, <3>5, <3>6 DEF CacheCoversTree
  <2>4. JournalAge'
    <3>1. Selected.txid \in Nat
      BY <2>1, <1>s, <1>f
    <3> QED
      BY <2>1, <3>1, <1>j DEF JournalAge, RecordIsNewer
  <2> QED
    BY <2>1, <2>2, <2>3, <2>4, <1>d DEF SessionInv, WrittenSoFar, WritePcs
<1>2. CASE MountRecover
  <2>1. /\ pc' = "blocks" /\ phase' = "recovery" /\ Selected # Corrupt
        /\ todo' = Occupied(journal.blocks) /\ Selected' = Selected
        /\ UNCHANGED <<disk, primary, backup, journal>>
    BY <1>2 DEF MountRecover, deviceVars, Selected
  <2> QED
    BY <2>1, <1>d DEF SessionInv, CacheCoversTree, WrittenSoFar, JournalAge, Occupied
<1>3. CASE Stage
  <2>1. PICK c \in Content, S \in SUBSET Occupied(superblock.tree) : StageBlock(c, S)
    BY <1>3 DEF Stage
  <2>2. /\ pc = "up" /\ pc' = "up" /\ phase' = phase /\ phase = "commit"
        /\ next_free_block <= LastAddr
        /\ dirty_block_cache' = [dirty_block_cache EXCEPT ![next_free_block] = c]
        /\ next_free_block' = next_free_block + 1
        /\ next_transaction_id' = next_transaction_id
        /\ UNCHANGED <<disk, primary, backup, journal>>
    BY <2>1, <1>p DEF StageBlock, deviceVars
  <2> DEFINE staged == [a \in Addr |-> IF a = next_free_block THEN c
                                      ELSE IF a \in S THEN NoBlock
                                      ELSE superblock.tree[a]]
  <2>3. superblock'.tree = staged
    <3>1. superblock' = [superblock EXCEPT !.tree = staged]
      BY <2>1 DEF StageBlock
    <3> HIDE DEF staged
    <3> QED
      BY <3>1, <1>0 DEF TypeOK, Superblock
  <2>4. Selected' = Selected
    BY <2>2 DEF Selected
  <2>5. CacheCoversTree'
    <3>0. Selected.next_cow \in Nat /\ next_free_block \in Nat /\ dirty_block_cache \in Image
      BY <2>2, <1>0, <1>s, <1>f DEF SessionInv, TypeOK
    <3>1. /\ Selected.next_cow <= next_free_block
          /\ \A a \in Occupied(dirty_block_cache) :
               Selected.next_cow <= a /\ a < next_free_block
          /\ \A a \in Occupied(superblock.tree) :
               /\ a < next_free_block
               /\ \/ dirty_block_cache[a] = superblock.tree[a]
                  \/ /\ dirty_block_cache[a] = NoBlock
                     /\ a \in Device /\ disk[a] = superblock.tree[a]
      BY <2>2, <1>0 DEF SessionInv, CacheCoversTree
    <3>5. Selected.next_cow <= next_free_block
      BY <3>1
    <3>6. next_free_block' = next_free_block + 1
      BY <2>2
    <3>2. \A a \in Occupied(dirty_block_cache)' : Selected.next_cow <= a /\ a < next_free_block'
      <4> TAKE a \in Occupied(dirty_block_cache)'
      <4>1. a \in Addr /\ dirty_block_cache'[a] # NoBlock
        BY DEF Occupied
      <4>2. a \in Nat /\ next_free_block' = next_free_block + 1
        BY <4>1, <2>2 DEF Addr
      <4>3. CASE a = next_free_block
        BY <4>2, <4>3, <3>0, <3>5
      <4>4. CASE a # next_free_block
        <5>1. dirty_block_cache'[a] = dirty_block_cache[a]
          BY <4>1, <4>4, <2>2, <3>0 DEF Image
        <5>2. a \in Occupied(dirty_block_cache)
          BY <4>1, <5>1 DEF Occupied
        <5>3. Selected.next_cow <= a /\ a < next_free_block
          BY <3>1, <5>2
        <5> QED
          BY <4>2, <5>3, <3>0
      <4> QED
        BY <4>3, <4>4
    <3>3. \A a \in Occupied(superblock.tree)' :
               /\ a < next_free_block'
               /\ \/ dirty_block_cache'[a] = superblock'.tree[a]
                  \/ /\ dirty_block_cache'[a] = NoBlock
                     /\ a \in Device /\ disk'[a] = superblock'.tree[a]
      <4> TAKE a \in Occupied(superblock.tree)'
      <4>1. a \in Addr /\ staged[a] # NoBlock
        BY <2>3 DEF Occupied
      <4>2. CASE a = next_free_block
        <5>1. a < next_free_block'
          BY <4>2, <3>0, <3>6
        <5>2. superblock'.tree[a] = c
          BY <4>1, <4>2, <2>3
        <5>3. dirty_block_cache'[a] = c
          BY <4>1, <4>2, <2>2, <3>0 DEF Image
        <5> QED
          BY <5>1, <5>2, <5>3
      <4>3. CASE a # next_free_block
        <5>1. superblock'.tree[a] = superblock.tree[a] /\ a \in Occupied(superblock.tree)
          BY <4>1, <4>3, <2>3 DEF Occupied
        <5>2. dirty_block_cache'[a] = dirty_block_cache[a] /\ disk' = disk
          BY <4>1, <4>3, <2>2, <3>0 DEF Image
        <5>3. a < next_free_block'
          <6>1. a \in Nat /\ a < next_free_block
            BY <5>1, <3>1, <4>1 DEF Addr
          <6> QED
            BY <6>1, <3>0, <3>6
        <5> QED
          BY <5>1, <5>2, <5>3, <3>1
      <4> QED
        BY <4>2, <4>3
    <3>4. Selected.next_cow <= next_free_block'
      BY <3>0, <3>5, <3>6
    <3> QED
      BY <3>2, <3>3, <3>4, <2>4 DEF CacheCoversTree
  <2>6. JournalAge'
    BY <2>2, <1>0 DEF SessionInv, JournalAge
  <2> QED
    BY <2>2, <2>4, <2>5, <2>6, <1>d, <1>0 DEF SessionInv, WrittenSoFar, WritePcs
<1>4. CASE FlushEmpty
  <2>1. /\ pc = "up" /\ pc' = "backup" /\ phase' = phase /\ phase = "commit"
        /\ Occupied(dirty_block_cache) = {} /\ Selected' = Selected
        /\ UNCHANGED <<disk, primary, backup, journal, dirty_block_cache,
                       next_transaction_id, next_free_block>>
    BY <1>4, <1>p DEF FlushEmpty, deviceVars, Selected
  <2>2. /\ superblock'.tree = superblock.tree /\ superblock'.next_cow = next_free_block
        /\ superblock'.txid = next_transaction_id
    BY <1>0, <1>4, UpdatedFields DEF FlushEmpty, TypeOK
  <2>3. \A a \in Occupied(superblock.tree) :
           a < next_free_block /\ a \in Device /\ disk[a] = superblock.tree[a]
    BY <2>1, <1>0 DEF SessionInv, CacheCoversTree, Occupied
  <2>4. Intact(superblock)' /\ Bounded(superblock)'
    BY <2>1, <2>2, <2>3 DEF Intact, Bounded, Occupied
  <2>5. CacheCoversTree'
    BY <2>1, <2>2, <1>0 DEF SessionInv, CacheCoversTree, Occupied
  <2>6. JournalAge'
    <3>1. pc' = "backup" /\ journal' = journal
      BY <2>1
    <3>2. journal.crc = "match" => journal.txid < next_transaction_id
      BY <2>1, <1>k DEF JournalAge
    <3>3. journal.crc = "match" => journal.txid <= superblock'.txid
      BY <2>2, <3>2, <1>j
    <3> QED
      BY <3>1, <3>3 DEF JournalAge
  <2> QED
    BY <2>1, <2>2, <2>4, <2>5, <2>6, <1>d, <1>0 DEF SessionInv, WrittenSoFar
<1>5. CASE FlushStart
  <2>1. /\ pc = "up" /\ pc' = "header" /\ phase' = phase /\ phase = "commit"
        /\ Selected' = Selected
        /\ UNCHANGED <<disk, primary, backup, journal, dirty_block_cache,
                       next_transaction_id, next_free_block>>
    BY <1>5, <1>p DEF FlushStart, deviceVars, Selected
  <2>2. superblock'.tree = superblock.tree /\ superblock'.next_cow = next_free_block
    BY <1>0, <1>5, UpdatedFields DEF FlushStart, TypeOK
  <2>3. CacheCoversTree'
    BY <2>1, <2>2, <1>0 DEF SessionInv, CacheCoversTree, Occupied
  <2>4. JournalAge'
    BY <2>1, <1>0 DEF SessionInv, JournalAge
  <2> QED
    BY <2>1, <2>2, <2>3, <2>4, <1>d, <1>0 DEF SessionInv, WrittenSoFar
<1>6. CASE FlushTooLarge \/ BlockPastEnd \/ DropVolume
  <2>1. ForgetVolume /\ UNCHANGED <<disk, primary, backup, journal>>
    BY <1>6, <1>e DEF FlushTooLarge, BlockPastEnd, DropVolume, deviceVars
  <2> QED
    BY <2>1, <1>d, DownSession
<1>7. CASE WriteJournalHeader
  <2>1. /\ pc = "header" /\ pc' = "seal" /\ phase' = phase /\ phase = "commit"
        /\ journal' = HalfWritten /\ Selected' = Selected
        /\ UNCHANGED <<disk, primary, backup, superblock, dirty_block_cache,
                       next_transaction_id, next_free_block>>
    BY <1>7, <1>p DEF WriteJournalHeader, volumeVars, Selected
  <2>2. journal'.crc = "mismatch"
    BY <2>1 DEF HalfWritten
  <2>3. DeviceInv'
    BY <2>1, <2>2, <1>0 DEF DeviceInv, MountIntact, Intact, Bounded, ReplayMissesTree,
                            RecordIsNewer
  <2>4. CacheCoversTree'
    BY <2>1, <1>0 DEF SessionInv, CacheCoversTree
  <2> QED
    BY <2>1, <2>2, <2>3, <2>4, <1>0 DEF SessionInv, WrittenSoFar, JournalAge, WritePcs
<1>8. CASE WriteJournalSeal
  <2>1. /\ pc = "seal" /\ pc' = "blocks" /\ phase' = phase /\ phase = "commit"
        /\ journal' = FullRecord /\ Selected' = Selected
        /\ todo' = Occupied(dirty_block_cache)
        /\ UNCHANGED <<disk, primary, backup, superblock, dirty_block_cache,
                       next_transaction_id, next_free_block>>
    BY <1>8, <1>p DEF WriteJournalSeal, volumeVars, Selected
  <2>2. journal'.txid = next_transaction_id /\ journal'.blocks = dirty_block_cache
    BY <2>1 DEF FullRecord
  <2>3. CacheCoversTree'
    BY <2>1, <1>0 DEF SessionInv, CacheCoversTree
  <2>4. ReplayMissesTree'
    BY <2>1, <2>2, <1>0 DEF SessionInv, CacheCoversTree, ReplayMissesTree
  <2>5. DeviceInv'
    BY <2>1, <2>4, <1>0 DEF DeviceInv, MountIntact, Intact, Bounded
  <2> QED
    BY <2>1, <2>2, <2>3, <2>5, <1>0 DEF SessionInv, WrittenSoFar, JournalAge, WritePcs
<1>9. CASE WriteBlock
  <2>1. /\ pc = "blocks" /\ pc' = pc /\ phase' = phase /\ Selected' = Selected
        /\ UNCHANGED <<primary, backup, journal, superblock, dirty_block_cache,
                       next_transaction_id, next_free_block>>
    BY <1>9 DEF WriteBlock, volumeVars, Selected
  <2>2. PICK a \in Device : /\ IsNextBlock(a) /\ todo' = todo \ {a}
                            /\ disk' = [disk EXCEPT ![a] = BlockToWrite(a)]
    BY <1>9 DEF WriteBlock
  <2>3. a \in todo /\ Selected # Corrupt /\ a \notin Occupied(Selected.tree)
    BY <2>1, <2>2, TodoMissesTree DEF IsNextBlock
  <2>4. \A x \in Occupied(Selected.tree) : x \in Device /\ disk'[x] = Selected.tree[x]
    BY <1>0, <1>s, <2>2, <2>3, WriteOutside DEF DeviceInv, MountIntact
  <2>5. DeviceInv'
    BY <1>0, <2>1, <2>4 DEF DeviceInv, MountIntact, Intact, Bounded, ReplayMissesTree,
                            RecordIsNewer
  <2>6. CASE phase = "recovery"
    BY <2>1, <2>2, <2>5, <2>6, <1>0 DEF SessionInv, CacheCoversTree, WrittenSoFar, JournalAge
  <2>7. CASE phase = "commit"
    <3>1. BlockToWrite(a) = dirty_block_cache[a] /\ a \in Occupied(dirty_block_cache)
      BY <2>1, <2>3, <2>7, <1>0 DEF BlockToWrite, SessionInv
    <3>2. \A x \in Device : disk'[x] = IF x = a THEN dirty_block_cache[a] ELSE disk[x]
      BY <2>2, <3>1, <1>0 DEF TypeOK
    <3>3. CacheCoversTree'
      BY <2>1, <3>1, <3>2, <2>7, <1>0 DEF SessionInv, CacheCoversTree, Occupied
    <3>4. WrittenSoFar'
      BY <2>1, <2>2, <3>2, <2>7, <1>0 DEF SessionInv, WrittenSoFar
    <3>5. JournalAge'
      BY <2>1, <1>0 DEF SessionInv, JournalAge
    <3> QED
      BY <2>1, <2>2, <2>5, <2>7, <3>3, <3>4, <3>5, <1>0 DEF SessionInv
  <2> QED
    BY <2>6, <2>7, <1>p
<1>10. CASE StampSuperblock
  <2>1. /\ pc = "blocks" /\ pc' = "backup" /\ phase' = phase /\ Selected' = Selected
        /\ todo = {} /\ Selected # Corrupt
        /\ UNCHANGED <<disk, primary, backup, journal, dirty_block_cache,
                       next_transaction_id, next_free_block>>
    BY <1>10, <1>0 DEF StampSuperblock, deviceVars, Selected, SessionInv
  <2>2. /\ superblock'.tree = superblock.tree /\ superblock'.next_cow = superblock.next_cow
        /\ superblock'.txid = IF phase = "recovery" THEN journal.txid ELSE next_transaction_id
    BY <1>0, <1>10, UpdatedFields DEF StampSuperblock, TypeOK
  <2>3. Intact(superblock) /\ Bounded(superblock)
    <3>1. CASE phase = "recovery"
      BY <2>1, <3>1, <1>0, <1>s DEF AtomicInv, RecoveryKeepsTree, DeviceInv, MountIntact,
                                    Intact, Bounded
    <3>2. CASE phase = "commit"
      <4>1. superblock.next_cow = next_free_block
        BY <2>1, <3>2, <1>0 DEF SessionInv, WritePcs
      <4>2. \A a \in Occupied(superblock.tree) :
              a < next_free_block /\ a \in Device /\ disk[a] = superblock.tree[a]
        BY <2>1, <3>2, <1>0 DEF SessionInv, CacheCoversTree, WrittenSoFar, Occupied
      <4> QED
        BY <4>1, <4>2 DEF Intact, Bounded
    <3> QED
      BY <3>1, <3>2, <1>p
  <2>4. Intact(superblock)' /\ Bounded(superblock)'
    BY <2>1, <2>2, <2>3 DEF Intact, Bounded
  <2>5. CacheCoversTree'
    BY <2>1, <2>2, <1>0 DEF SessionInv, CacheCoversTree
  <2>6. JournalAge'
    <3>1. pc' = "backup" /\ journal' = journal
      BY <2>1
    <3>2. journal.crc = "match" => journal.txid <= superblock'.txid
      <4>1. CASE phase = "recovery"
        <5>1. superblock'.txid = journal.txid
          BY <2>2, <4>1
        <5> QED
          BY <5>1, <1>j
      <4>2. CASE phase = "commit"
        <5>1. superblock'.txid = next_transaction_id
          BY <2>2, <4>2
        <5>2. journal.crc = "match" => journal.txid = next_transaction_id
          BY <2>1, <4>2, <1>k DEF JournalAge
        <5> QED
          BY <5>1, <5>2, <1>j
      <4> QED
        BY <4>1, <4>2, <1>p
    <3> QED
      BY <3>1, <3>2 DEF JournalAge
  <2> QED
    BY <2>1, <2>2, <2>4, <2>5, <2>6, <1>d, <1>0 DEF SessionInv, WrittenSoFar, WritePcs
<1>11. CASE WriteBackup
  <2>1. /\ pc = "backup" /\ pc' = "primary" /\ phase' = phase /\ backup' = superblock
        /\ UNCHANGED <<disk, primary, journal, superblock, next_transaction_id, next_free_block>>
    BY <1>11 DEF WriteBackup, volumeVars
  <2>2. Intact(superblock) /\ Bounded(superblock)
    BY <2>1, <1>0 DEF SessionInv
  <2>3. superblock # Corrupt /\ ~RecordIsNewer(superblock)
    BY <2>1, <1>j, <1>k DEF JournalAge, RecordIsNewer
  <2>4. (Selected' = Selected /\ Selected # Corrupt) \/ Selected' = superblock
    BY <2>1 DEF Selected
  <2>5. (primary' # Corrupt => Bounded(primary)') /\ (backup' # Corrupt => Bounded(backup)')
    BY <2>1, <2>2, <1>0 DEF DeviceInv, Bounded
  <2>6. MountIntact' /\ ReplayMissesTree'
    BY <2>1, <2>2, <2>3, <2>4, <1>0 DEF DeviceInv, MountIntact, Intact, ReplayMissesTree,
                                        RecordIsNewer
  <2>7. Intact(superblock)' /\ Bounded(superblock)'
    BY <2>1, <2>2 DEF Intact, Bounded
  <2>8. JournalAge'
    BY <2>1, <1>0 DEF SessionInv, JournalAge
  <2> QED
    BY <2>1, <2>3, <2>4, <2>5, <2>6, <2>7, <2>8, <1>0
       DEF DeviceInv, SessionInv, CacheCoversTree, WrittenSoFar, WritePcs
<1>12. CASE FinishMount \/ FinishFlush
  <2>1. /\ pc = "primary" /\ pc' = "up" /\ phase' = "commit" /\ primary' = superblock
        /\ superblock' = superblock /\ dirty_block_cache' = EmptyImage
        /\ UNCHANGED <<disk, backup, journal>>
    BY <1>12 DEF FinishMount, FinishFlush, OpenVolume
  <2>2. Intact(superblock) /\ Bounded(superblock)
    BY <2>1, <1>0 DEF SessionInv
  <2>3. superblock # Corrupt /\ superblock \in Superblock /\ ~RecordIsNewer(superblock)
    BY <2>1, <1>j, <1>k DEF JournalAge, RecordIsNewer
  <2>4. Selected' = superblock
    BY <2>1, <2>3 DEF Selected
  <2>5. (primary' # Corrupt => Bounded(primary)') /\ (backup' # Corrupt => Bounded(backup)')
    BY <2>1, <2>2, <1>0 DEF DeviceInv, Bounded
  <2>6. MountIntact' /\ ReplayMissesTree'
    BY <2>1, <2>2, <2>3, <2>4 DEF MountIntact, Intact, ReplayMissesTree, RecordIsNewer
  <2>7. next_free_block' = superblock.next_cow /\ next_transaction_id' = superblock.txid + 1
    <3>1. CASE FinishMount
      BY <3>1 DEF FinishMount, OpenVolume
    <3>2. CASE FinishFlush
      BY <3>2, <1>0 DEF FinishFlush, SessionInv, WritePcs, AtomicInv, TxOrder
    <3> QED
      BY <1>12, <3>1, <3>2
  <2>8. CacheCoversTree'
    <3>1. /\ superblock.next_cow \in Nat
          /\ \A a \in Occupied(superblock.tree) :
               a < superblock.next_cow /\ a \in Device /\ disk[a] = superblock.tree[a]
      BY <2>2, <2>3, <1>f DEF Intact, Bounded
    <3>2. Occupied(dirty_block_cache)' = {}
      BY <2>1, <1>n DEF Occupied
    <3>3. Occupied(superblock.tree)' = Occupied(superblock.tree)
      BY <2>1
    <3>4. \A a \in Occupied(superblock.tree) : dirty_block_cache'[a] = NoBlock
      BY <2>1, <1>n DEF Occupied
    <3>5. Selected'.next_cow <= next_free_block'
      BY <2>4, <2>7, <3>1
    <3>6. \A a \in Occupied(superblock.tree)' :
            a < next_free_block' /\ dirty_block_cache'[a] = NoBlock
            /\ a \in Device /\ disk'[a] = superblock'.tree[a]
      BY <2>1, <2>7, <3>1, <3>3, <3>4
    <3> QED
      BY <3>2, <3>5, <3>6 DEF CacheCoversTree
  <2>9. JournalAge'
    <3>1. pc' = "up" /\ journal' = journal
      BY <2>1
    <3>2. journal.crc = "match" => journal.txid <= superblock.txid
      BY <2>1, <1>k DEF JournalAge
    <3>3. journal.crc = "match" => journal.txid < next_transaction_id'
      BY <2>7, <3>2, <1>j
    <3> QED
      BY <3>1, <3>3 DEF JournalAge
  <2> QED
    BY <2>1, <2>3, <2>4, <2>5, <2>6, <2>8, <2>9
       DEF DeviceInv, SessionInv, WrittenSoFar, WritePcs
<1>13. CASE Failure /\ ~MediaRot
  BY <1>13, FailureKeepsDevice, DownSession
<1>14. CASE MediaRot
  <2>1. /\ primary = backup /\ primary # Corrupt
        /\ \/ primary' = Corrupt /\ backup' = backup
           \/ backup' = Corrupt /\ primary' = primary
        /\ UNCHANGED <<disk, journal, pc, phase, todo, superblock, dirty_block_cache,
                       next_transaction_id, next_free_block>>
    BY <1>14 DEF MediaRot, volumeVars
  <2>2. Selected' = Selected
    BY <2>1 DEF Selected
  <2>3. DeviceInv'
    BY <2>1, <2>2, <1>0 DEF DeviceInv, MountIntact, Intact, Bounded, ReplayMissesTree,
                            RecordIsNewer
  <2>4. SessionInv'
    BY <2>1, <2>2, <1>0 DEF SessionInv, CacheCoversTree, WrittenSoFar, JournalAge, Intact,
                            Bounded
  <2> QED
    BY <2>3, <2>4
<1>15. CASE MountRefused \/ UNCHANGED vars
  <2>1. UNCHANGED <<disk, primary, backup, journal, pc, phase, todo, superblock,
                    dirty_block_cache, next_transaction_id, next_free_block>>
    BY <1>15 DEF MountRefused, vars, deviceVars, volumeVars
  <2>2. SessionInv'
    BY <2>1, <1>0 DEF SessionInv, CacheCoversTree, WrittenSoFar, JournalAge, Intact,
                      Bounded, Selected
  <2> QED
    BY <2>1, <2>2, <1>d
<1> QED
  BY <1>1, <1>2, <1>3, <1>4, <1>5, <1>6, <1>7, <1>8, <1>9, <1>10, <1>11, <1>12, <1>13,
     <1>14, <1>15 DEF Next, Mount, Flush, Progress

\* Whatever power losses and failed writes occur, the superblock the next mount
\* selects reaches only whole blocks, provided that the caller of a failed flush
\* drops the volume and the medium damages a copy only while both are alike.
THEOREM MountAlwaysIntact ==
    ASSUME ~RotAnytime, ~CallerRetries PROVE Spec => []MountIntact
<1>1. IntactInv /\ [Next]_vars => IntactInv'
  BY NextIntact
<1>2. IntactInv => MountIntact
  BY DEF IntactInv
<1> QED
  BY <1>1, <1>2, InitIntact, PTL DEF Spec
===========================================================================
