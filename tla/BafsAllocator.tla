--------------------------- MODULE BafsAllocator ---------------------------
(***************************************************************************)
(* Where blocks come from and where they go in a mounted volume: the bump  *)
(* pointer that every tree node and data block is taken from, the boundary *)
(* of the last commit, the free-extent tree and free_block_count, under    *)
(* create, write, unlink, flushes that succeed or fail, and crash.         *)
(*                                                                         *)
(* The three trees are those of BafsBTree, on one set of blocks; they      *)
(* split and grow as items are inserted.  A volume is a record that the    *)
(* operations below thread, as the source threads &mut volume; between two *)
(* calls it keeps the nodes that its roots reach.                          *)
(***************************************************************************)
EXTENDS Integers, Sequences, FiniteSets, SequencesExt, Functions

CONSTANTS
    TotalBlocks,   \* total_block_count, counted from the start of the data area
    File,          \* name hashes of files a caller creates, writes once, unlinks
    Dir,           \* name hashes of directories a caller creates and unlinks
    MaxData,       \* bound: blocks of data in one write
    MaxFlushes,    \* bound: number of flushes, failed ones included
    BlockSize, ItemSize, InternalMax   \* how many items a node holds

ASSUME AllocatorAssumption ==
    /\ TotalBlocks \in Nat /\ MaxData \in Nat \ {0} /\ MaxFlushes \in Nat
    /\ File \cup Dir \subseteq 1 .. 49

VARIABLES
    vol,           \* the mounted volume
    saved,         \* the volume a crash goes back to
    flushes

vars == <<vol, saved, flushes>>

ItemBytes(v) == ItemSize

Tree == INSTANCE BafsBTree WITH
    blocks <- vol.blocks, ValueSize <- ItemBytes,
    Key <- {}, Value <- {}, NoValue <- 0, Pinned <- {}

Extents == INSTANCE BafsFreeSpace WITH items <- {}, held <- {}, MaxRequest <- MaxData

Run(a, n) == a .. (a + n - 1)

\* Op(v), with v computed before the operation begins.
Apply(Op(_), v) == CHOOSE w \in {Op(u) : u \in {v}} : TRUE

\* The keys of the inode tree, in the order (object_id, item_type, offset).
Root == 1
InodeKey(i) == 100 * i
EntryKey(f) == 100 * Root + f
ExtentKey(i) == 100 * i + 50
---------------------------------------------------------------------------
\* The volume after an operation on tree t with the result r.  "split" remembers
\* the committed roots that were split, which the tree reports as freed twice.
WithTree(v, t, r) ==
    LET old == v.roots[t]
        splits == /\ r.alloc.blocks[r.block].level > v.blocks[old].level
                  /\ old < v.next_cow_block_address
    IN  [r.alloc EXCEPT !.roots[t] = r.block,
                        !.split = IF splits THEN @ \cup {old} ELSE @]

\* One insertion into, or deletion from, tree t.
Insert(v, t, key, value) ==
    WithTree(v, t, Tree!insert_into_tree(v, v.roots[t], key, value))

Delete(v, t, key) == WithTree(v, t, Tree!delete_recursive(v, v.roots[t], key))

\* The free-extent records, by a scan of the whole tree.
Records(v) ==
    {Extents!Extent(item.key, item.value) :
        item \in ToSet(Tree!iterate_tree_range(v.blocks, v.roots.free, 0, TotalBlocks))}

DeleteRecord(v, record) ==
    IF record = {} THEN v ELSE Delete(v, "free", Extents!Lowest(record).block_address)

\* "returned" remembers every block given back, "twice" those given back before.
GivenBack(v, range) ==
    [v EXCEPT !.twice = @ \cup (v.returned \cap range), !.returned = @ \cup range]

\* The record after the range goes and the merged one, from start on, comes.
MergeUpward(v, start, end) ==
    LET after == Extents!Successor(Records(v), end)
    IN  Insert(DeleteRecord(v, after), "free", start, Extents!MergedEnd(after, end) - start)

\* free_blocks: first the record before the range goes.
free_blocks(v, a, n) ==
    LET before == Extents!Predecessor(Records(v), a)
    IN  GivenBack(MergeUpward(DeleteRecord(v, before), Extents!MergedStart(before, a), a + n),
                  Run(a, n))

\* Mutant of CrossSession: every superseded node counts as old.
CrossSessionWide(v, b) == b < v.next_cow_block_address + 3

\* A freed block that the last commit may reach; the others are abandoned.
CrossSession(v, b) == b < v.next_cow_block_address

\* return_freed_cow_blocks_to_free_extent_tree: what freeing itself frees is
\* handled by a recursive call.  "depth" is the largest number of nested calls
\* of the session that free something.
RECURSIVE return_freed_cow_blocks(_, _)
return_freed_cow_blocks(v, depth) ==
    LET crossing == SelectSeq(v.freed_blocks, LAMBDA b : CrossSession(v, b))
        One(w, b) == Apply(LAMBDA u : [free_blocks(u, b, 1) EXCEPT !.free_block_count = @ + 1], w)
    IN  IF crossing = <<>> THEN [v EXCEPT !.freed_blocks = <<>>,
                                          !.depth = IF @ < depth THEN depth ELSE @]
        ELSE return_freed_cow_blocks(
               FoldLeft(One, [v EXCEPT !.freed_blocks = <<>>], crossing), depth + 1)

ReturnFreed(v) == return_freed_cow_blocks(v, 0)

\* volume_write_inode, and any other single insertion into the inode tree.
InodeTreeInsert(v, key) == ReturnFreed(Insert(v, "inode", key, 0))

\* volume_create_file and volume_create_directory: the inode, then the entry.
CreateNode(v, f) ==
    LET i == v.allocated_inode_count + 1
        w == [v EXCEPT !.allocated_inode_count = i]
    IN  [InodeTreeInsert(InodeTreeInsert(w, InodeKey(i)), EntryKey(f)) EXCEPT
            !.files = [g \in DOMAIN @ \cup {f} |->
                         IF g = f THEN [inode |-> i, data |-> {}] ELSE @[g]]]

\* The checksums of the data blocks a .. a + n - 1 are stored one by one.
StoreChecksums(v, a, n) ==
    FoldLeft(LAMBDA u, i : Insert(u, "checksum", a + i - 1, 0), v, [i \in 1 .. n |-> i])

\* Mutant of AllocateData: the operands of the saturating subtraction swapped.
AllocateDataSwapped(v, n) ==
    LET w == [v EXCEPT !.next_free_block = @ + n,
                       !.free_block_count = IF n >= @ THEN n - @ ELSE 0]
    IN  ReturnFreed(StoreChecksums(w, v.next_free_block, n))

\* allocate_and_write_data_blocks: n data blocks and n checksum insertions.
AllocateData(v, n) ==
    LET w == [v EXCEPT !.next_free_block = @ + n,
                       !.free_block_count = IF @ >= n THEN @ - n ELSE 0]
    IN  ReturnFreed(StoreChecksums(w, v.next_free_block, n))

\* volume_write_file_data: the data, the extent record, the inode.
WriteFile(v, f, n) ==
    LET i == v.files[f].inode
        w == InodeTreeInsert(InodeTreeInsert(AllocateData(v, n), ExtentKey(i)), InodeKey(i))
    IN  [w EXCEPT !.files[f].data = Run(v.next_free_block, n)]

WithoutFile(v, f) == [v EXCEPT !.files = Restrict(@, DOMAIN @ \ {f})]

First(set) == CHOOSE a \in set : \A b \in set : a <= b

\* Mutant of FreeExtentOf: the freed range is one block too long.
FreeExtentTooLong(v, f) ==
    LET data == v.files[f].data
    IN  IF data = {} THEN v
        ELSE Delete(free_blocks(v, First(data), Cardinality(data) + 1),
                    "inode", ExtentKey(v.files[f].inode))

\* The extent's blocks are freed, then its record is deleted.
FreeExtentOf(v, f) ==
    LET data == v.files[f].data
    IN  IF data = {} THEN v
        ELSE Delete(free_blocks(v, First(data), Cardinality(data)),
                    "inode", ExtentKey(v.files[f].inode))

\* volume_unlink_directory_entry of a file: the entry, the extent, the inode.
UnlinkFile(v, f) ==
    LET w == Delete(FreeExtentOf(Delete(v, "inode", EntryKey(f)), f),
                    "inode", InodeKey(v.files[f].inode))
    IN  ReturnFreed([WithoutFile(w, f) EXCEPT
                        !.free_block_count = @ + Cardinality(v.files[f].data)])

\* The same of a directory: its link count goes from 2 to 1, so its inode is
\* written back, which returns its own freed blocks before those of the entry.
UnlinkDirectory(v, f) ==
    LET u == Delete(v, "inode", EntryKey(f))
        w == InodeTreeInsert([u EXCEPT !.freed_blocks = <<>>], InodeKey(v.files[f].inode))
    IN  ReturnFreed([WithoutFile(w, f) EXCEPT !.freed_blocks = u.freed_blocks])
---------------------------------------------------------------------------
Nodes(v, t) == Tree!Reach(v.blocks, v.roots[t])

EmptyLeaf == [level |-> 0, items |-> <<>>]

\* bafs_format: three empty roots, the root directory's inode, and the free
\* record, which is inserted, deleted and inserted again behind the nodes
\* this took; the last insertion takes the first block it records as free.
Formatted ==
    LET RecordRest(v) ==
            Insert(v, "free", v.next_free_block, TotalBlocks - v.next_free_block)
        empty == [blocks |-> [b \in 0 .. 2 |-> EmptyLeaf], next_free_block |-> 3,
                  freed_blocks |-> <<>>, roots |-> [inode |-> 0, free |-> 1, checksum |-> 2],
                  next_cow_block_address |-> 0, free_block_count |-> 0,
                  allocated_inode_count |-> Root, files |-> [f \in {} |-> {}],
                  returned |-> {}, twice |-> {}, split |-> {}, depth |-> 0,
                  boundary_free_tree |-> {}]
        rooted == Insert(empty, "inode", InodeKey(Root), 0)
        filled == RecordRest(Delete(RecordRest(rooted), "free", rooted.next_free_block))
    IN  [filled EXCEPT
            !.next_cow_block_address = filled.next_free_block,
            !.boundary_free_tree = Nodes(filled, "free"),
            !.free_block_count = TotalBlocks - filled.next_free_block,
            !.freed_blocks = <<>>]

TreeNodes(v) == UNION {Nodes(v, t) : t \in DOMAIN v.roots}

\* Nodes that no root reaches are never read again.
Trimmed(v) == [v EXCEPT !.blocks = Restrict(@, TreeNodes(v))]

Init ==
    /\ vol = Trimmed(Formatted)
    /\ saved = vol
    /\ flushes = 0

\* Bound: no call starts with the bump pointer past the end of the device.
OnDevice == vol.next_free_block <= TotalBlocks

Create(f) ==
    /\ OnDevice
    /\ f \notin DOMAIN vol.files
    /\ vol' = Trimmed(CreateNode(vol, f))
    /\ UNCHANGED <<saved, flushes>>

\* Each file is written once: BafsFile is about the rest.
Write(f, n) ==
    /\ f \in DOMAIN vol.files
    /\ vol.files[f].data = {}
    /\ vol.next_free_block + n <= TotalBlocks
    /\ vol' = Trimmed(WriteFile(vol, f, n))
    /\ UNCHANGED <<saved, flushes>>

Unlink(f) ==
    /\ OnDevice
    /\ f \in DOMAIN vol.files
    /\ vol' = Trimmed(IF f \in Dir THEN UnlinkDirectory(vol, f) ELSE UnlinkFile(vol, f))
    /\ UNCHANGED <<saved, flushes>>

\* Mutant of MoveBoundary: the boundary stays where the session began.
BoundaryStays(v) == [v EXCEPT !.depth = 0]

\* The boundary moves up to the bump pointer.  "boundary_free_tree" remembers the
\* nodes of the free-extent tree at that moment.
MoveBoundary(v) ==
    [v EXCEPT !.next_cow_block_address = v.next_free_block,
              !.boundary_free_tree = Nodes(v, "free"), !.depth = 0]

\* flush_and_commit moves the boundary, then the commit of BafsCommit succeeds.
Commit ==
    /\ flushes < MaxFlushes /\ flushes' = flushes + 1
    /\ vol.next_free_block <= TotalBlocks
    /\ vol' = MoveBoundary(vol)
    /\ saved' = vol'

\* The commit fails, and the caller goes on with the boundary moved.  It does so
\* if a block lies past the end of the device; an I/O error or a full journal may
\* stop it earlier, and one in the last write may leave the new superblock behind.
FlushFails ==
    /\ flushes < MaxFlushes /\ flushes' = flushes + 1
    /\ vol' = MoveBoundary(vol)
    /\ \/ UNCHANGED saved
       \/ vol.next_free_block <= TotalBlocks /\ saved' = vol'

\* bafs_mount: the bump pointer resumes at the boundary.
Remounted(v) == [v EXCEPT !.next_free_block = v.next_cow_block_address]

\* A crash, and the next mount.
Crash ==
    /\ vol' = Remounted(saved)
    /\ UNCHANGED <<saved, flushes>>

Next ==
    \/ \E f \in File \cup Dir : Create(f) \/ Unlink(f)
    \/ \E f \in File, n \in 1 .. MaxData : Write(f, n)
    \/ Commit
    \/ FlushFails
    \/ Crash

Spec == Init /\ [][Next]_vars
---------------------------------------------------------------------------
DataOf(v) == UNION {v.files[f].data : f \in DOMAIN v.files}
Live(v) == TreeNodes(v) \cup DataOf(v)

\* Nothing is used for two purposes: the nodes of the three trees, the data
\* blocks of every file and the blocks given back are different blocks, and all
\* that is in use lies behind the bump pointer.
OneUse ==
    /\ \A t, s \in DOMAIN vol.roots : t # s => Nodes(vol, t) \cap Nodes(vol, s) = {}
    /\ TreeNodes(vol) \cap DataOf(vol) = {}
    /\ \A f, g \in DOMAIN vol.files :
         f # g => vol.files[f].data \cap vol.files[g].data = {}
    /\ vol.returned \cap Live(vol) = {}
    /\ \A b \in Live(vol) : b < vol.next_free_block

\* Every block the committed trees reach is below the boundary, so nothing that
\* is allocated after a commit or a crash can overwrite it.
BoundaryProtects ==
    /\ \A b \in Live(saved) : b < saved.next_cow_block_address
    /\ saved.next_cow_block_address <= vol.next_free_block

\* No block is given back twice, in whatever sessions, unless it is a committed
\* root: insert_into_tree reports a root it splits twice.
ReturnedOnce == vol.twice \subseteq vol.split

\* Freeing the blocks that freeing has freed ends, after flushes that failed too:
\* each nested call but the last frees a node that the free-extent tree had when
\* the boundary last moved.
RecursionEnds == vol.depth <= 1 + Cardinality(vol.boundary_free_tree)

\* free_block_count never under-reports: whatever calls, sessions and crashes
\* came before, it is at least what the bump pointer can still hand out.
CountNeverTooLow == vol.free_block_count >= TotalBlocks - vol.next_free_block

Pool(v) == UNION {Run(r.block_address, r.block_count) : r \in Records(v)}

\* "Return block_count blocks to the free pool": the pool only grows, but for
\* a crash that restores the committed one.
PoolKeepsBlocks == [][Pool(vol) \subseteq Pool(vol') \/ vol' = Remounted(saved)]_vars
===========================================================================
