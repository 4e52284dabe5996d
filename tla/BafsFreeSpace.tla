--------------------------- MODULE BafsFreeSpace ---------------------------
(***************************************************************************)
(* The free-extent records of extent.rs: allocate_blocks takes blocks from *)
(* the high end of the last record that is large enough, free_blocks merges *)
(* the returned range with the records next to it.                         *)
(*                                                                         *)
(* "items" is what a full-range scan of the free-extent tree returns: one  *)
(* record per key, the key being the record's block_address.  The caller   *)
(* of this module is a disciplined one: it gives back only blocks it holds. *)
(***************************************************************************)
EXTENDS Integers, FiniteSets

CONSTANTS
    TotalBlocks,   \* the blocks of the pool are 0 .. TotalBlocks - 1
    MaxRequest     \* bound: the largest run a caller allocates or frees at once

ASSUME PoolAssumption == TotalBlocks \in Nat \ {0} /\ MaxRequest \in Nat

VARIABLES
    items,         \* the records of the free-extent tree
    held           \* the blocks the caller holds

vars == <<items, held>>

Block == 0 .. (TotalBlocks - 1)
Size == 1 .. MaxRequest
FreeExtent == [block_address : Nat, block_count : Nat]

End(e) == e.block_address + e.block_count
Extent(a, n) == [block_address |-> a, block_count |-> n]
Run(a, n) == a .. (a + n - 1)
---------------------------------------------------------------------------
\* insert_free_extent_into_tree: a record with the same key is replaced.
insert_free_extent_into_tree(set, a, n) ==
    {e \in set : e.block_address # a} \cup {Extent(a, n)}

Lowest(set) == CHOOSE e \in set : \A f \in set : e.block_address <= f.block_address
Highest(set) == CHOOSE e \in set : \A f \in set : f.block_address <= e.block_address

\* The first record that ends where the range starts, as a set of at most one.
Predecessor(set, a) ==
    LET touching == {e \in set : End(e) = a}
    IN  IF touching = {} THEN {} ELSE {Lowest(touching)}

\* Mutant of Successor: the record after the range is not looked for.
NoSuccessor(set, end) == {}

\* The record that starts where the range ends, as a set of at most one.
Successor(set, end) == {e \in set : e.block_address = end}

MergedStart(before, a) == IF before = {} THEN a ELSE Lowest(before).block_address
MergedEnd(after, end) == IF after = {} THEN end ELSE End(Lowest(after))

\* Mutant of free_blocks: the merged record starts at the freed range.
FreeDropsPredecessor(set, a, n) ==
    LET before == Predecessor(set, a)
        after == Successor(set \ before, a + n)
    IN  insert_free_extent_into_tree((set \ before) \ after, a,
                                     MergedEnd(after, a + n) - a)

\* Mutant of free_blocks: no record is merged with the freed range.
FreeUnmerged(set, a, n) == insert_free_extent_into_tree(set, a, n)

\* The records after the range of n blocks at a is given back.
free_blocks(set, a, n) ==
    LET before == Predecessor(set, a)
        after == Successor(set \ before, a + n)
        start == MergedStart(before, a)
    IN  insert_free_extent_into_tree((set \ before) \ after, start,
                                     MergedEnd(after, a + n) - start)

\* The records that hold n consecutive blocks; none of them: OutOfSpace.
Fitting(set, n) == {e \in set : e.block_count >= n}

\* allocate_blocks searches the records from the last one down ...
ChosenExtent(set, n) == Highest(Fitting(set, n))

\* ... takes the last n blocks of the record it finds ...
AllocatedAddress(e, n) == End(e) - n

\* ... and puts the rest of the record back, if there is any.
RecordsAfterAllocation(set, e, n) ==
    IF AllocatedAddress(e, n) > e.block_address
    THEN insert_free_extent_into_tree(set \ {e}, e.block_address, e.block_count - n)
    ELSE set \ {e}
---------------------------------------------------------------------------
\* One record covers the pool, as format leaves it.
Init ==
    /\ items = {Extent(0, TotalBlocks)}
    /\ held = {}

AllocateBlocks(n) ==
    /\ Fitting(items, n) # {}
    /\ LET e == ChosenExtent(items, n)
       IN  /\ items' = RecordsAfterAllocation(items, e, n)
           /\ held' = held \cup Run(AllocatedAddress(e, n), n)

FreeBlocks(a, n) ==
    /\ Run(a, n) \subseteq held
    /\ items' = free_blocks(items, a, n)
    /\ held' = held \ Run(a, n)

Next ==
    \/ \E n \in Size : AllocateBlocks(n)
    \/ \E a \in Block, n \in Size : FreeBlocks(a, n)

Spec == Init /\ [][Next]_vars
---------------------------------------------------------------------------
\* The blocks the records say are free.
FreeBlock == {b \in Block : \E e \in items : e.block_address <= b /\ b < End(e)}

\* Records are non-empty and lie in the pool.
TypeOK ==
    /\ items \subseteq FreeExtent
    /\ \A e \in items : 0 < e.block_count /\ End(e) <= TotalBlocks
    /\ held \subseteq Block

\* Two records neither overlap nor touch: allocate_blocks and free_blocks keep
\* the free space in maximal runs, whatever the order of calls.
Apart == \A e, f \in items : e = f \/ End(e) < f.block_address \/ End(f) < e.block_address

\* No block is lost and none is both free and held.
Partition == \A b \in Block : b \in held <=> b \notin FreeBlock

\* allocate_blocks reports OutOfSpace only when no run of that many free blocks
\* is left: fragmentation of the records never hides one.
NoFalseOutOfSpace ==
    \A n \in Size, a \in Block :
        Run(a, n) \subseteq FreeBlock => Fitting(items, n) # {}

Pool == INSTANCE FreePool WITH free <- FreeBlock

\* The records implement a pool of blocks: a call takes or gives back exactly
\* the blocks it says.
RefinesFreePool == Pool!PoolSpec
===========================================================================
