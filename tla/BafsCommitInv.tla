--------------------------- MODULE BafsCommitInv ---------------------------
(***************************************************************************)
(* The inductive invariants behind AtomicDurable, TxNeverGoesBack and      *)
(* MountIntact.  They say what the commit protocol keeps true between two  *)
(* writes; the theorems of BafsCommitProofs rest on them.                  *)
(***************************************************************************)
EXTENDS BafsCommit

\* The recovery writes back the tree of the superblock it selected.
RecoveryKeepsTree ==
    phase = "recovery" =>
        /\ pc \in {"blocks", "backup", "primary"}
        /\ Selected # Corrupt
        /\ superblock.tree = Selected.tree
        /\ superblock.next_cow = Selected.next_cow
        /\ pc = "blocks" => RecordIsNewer(Selected)

\* Between the two superblock writes the backup is the new superblock, unless
\* the primary already is and the medium has lost the backup.
BackupFirst ==
    pc = "primary" => \/ backup = superblock
                      \/ backup = Corrupt /\ primary = superblock

\* A transaction id in memory is never older than the one on disk.
TxOrder ==
    /\ Selected # Corrupt =>
         /\ pc # "down" /\ phase = "commit" => Selected.txid <= next_transaction_id
         /\ pc \in {"backup", "primary"} => Selected.txid <= superblock.txid
    /\ pc \in {"backup", "primary"} /\ phase = "commit" =>
         superblock.txid = next_transaction_id

\* What makes every step of the protocol a step of AtomicVolume.
AtomicInv ==
    /\ TypeOK
    /\ AtomicDurable
    /\ phase = "commit" /\ pc \in WritePcs => superblock.tree \in offered
    /\ RecoveryKeepsTree
    /\ BackupFirst
    /\ TxOrder
---------------------------------------------------------------------------
\* The blocks a superblock reaches were allocated before its bump pointer.
Bounded(sb) == \A a \in Occupied(sb.tree) : a < sb.next_cow

\* A record that a mount would replay writes only past the selected tree.
ReplayMissesTree ==
    Selected # Corrupt /\ RecordIsNewer(Selected) =>
        \A a \in Occupied(journal.blocks) : Selected.next_cow <= a

\* While a volume is open or flushing, its cache holds only new addresses, and
\* each block of its tree is in the cache or whole on the disk.
CacheCoversTree ==
    phase = "commit" /\ pc \in {"up", "header", "seal", "blocks", "backup"} =>
        /\ Selected.next_cow <= next_free_block
        /\ \A a \in Occupied(dirty_block_cache) :
             Selected.next_cow <= a /\ a < next_free_block
        /\ \A a \in Occupied(superblock.tree) :
             /\ a < next_free_block
             /\ \/ dirty_block_cache[a] = superblock.tree[a]
                \/ /\ dirty_block_cache[a] = NoBlock
                   /\ a \in Device /\ disk[a] = superblock.tree[a]

\* During step (c), the blocks that are no longer to be written are on disk.
WrittenSoFar ==
    phase = "commit" /\ pc = "blocks" =>
        \A a \in Occupied(dirty_block_cache) \ todo :
            a \in Device /\ disk[a] = dirty_block_cache[a]

\* The journal record is older than the open transaction until step (b) seals
\* it, and never newer than the superblock that step (d) writes.
JournalAge ==
    journal.crc = "match" =>
        /\ pc \in {"up", "header"} => journal.txid < next_transaction_id
        /\ pc = "blocks" /\ phase = "commit" => journal.txid = next_transaction_id
        /\ pc \in {"backup", "primary"} => journal.txid <= superblock.txid

\* What makes MountIntact inductive when no caller goes on after an error.
IntactInv ==
    /\ AtomicInv
    /\ MountIntact
    /\ pc # "down" => Selected # Corrupt
    /\ primary # Corrupt => Bounded(primary)
    /\ backup # Corrupt => Bounded(backup)
    /\ ReplayMissesTree
    /\ CacheCoversTree
    /\ WrittenSoFar
    /\ JournalAge
    /\ phase = "commit" /\ pc \in WritePcs => superblock.next_cow = next_free_block
    /\ phase = "recovery" /\ pc = "blocks" => todo \subseteq Occupied(journal.blocks)
    /\ phase = "commit" /\ pc = "blocks" => todo \subseteq Occupied(dirty_block_cache)
    /\ pc \in {"backup", "primary"} => Intact(superblock) /\ Bounded(superblock)
===========================================================================
