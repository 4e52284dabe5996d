----------------------------- MODULE BafsBTree -----------------------------
(***************************************************************************)
(* The unified copy-on-write B-tree of btree.rs: lookup, range scan,       *)
(* insert with leaf and internal splits, delete without rebalancing.       *)
(*                                                                         *)
(* A key is a number (the source compares (object_id, item_type, offset)   *)
(* lexicographically); of a value only its size in bytes matters here.     *)
(* "blocks" is what read_block sees: the dirty-block cache over the        *)
(* device.  Every tree operation threads a record with the fields blocks,  *)
(* next_free_block and freed_blocks, as the source threads its three &mut  *)
(* parameters.  No operation compares addresses, so between two operations *)
(* the state keeps the tree up to a renaming of its blocks, with the root  *)
(* at address 0; what one operation allocates and frees is stated on its   *)
(* result.                                                                 *)
(***************************************************************************)
EXTENDS Integers, Sequences, FiniteSets, SequencesExt

CONSTANTS
    Key,            \* the keys, numbers
    Value,          \* the values
    ValueSize(_),   \* the size of a value in bytes
    NoValue,        \* result of a lookup that finds nothing
    Pinned,         \* keys present from the start and never deleted
    BlockSize,      \* BAFS_DEFAULT_BLOCK_SIZE_BYTES
    InternalMax     \* INTERNAL_MAX_ITEMS

ASSUME KeyAssumption == Key \subseteq Nat /\ Pinned \subseteq Key
ASSUME ValueAssumption ==
    NoValue \notin Value /\ \A v \in Value : ValueSize(v) \in Nat

VARIABLE blocks     \* block address -> node, with the root at address 0

NodeHeaderSize == 24      \* NODE_HEADER_SIZE_BYTES
LeafItemHeaderSize == 25  \* LEAF_ITEM_HEADER_SIZE_BYTES
---------------------------------------------------------------------------
\* The byte size of a leaf with these items.
leaf_serialised_size(items) ==
    NodeHeaderSize + Len(items) * LeafItemHeaderSize
      + FoldLeft(LAMBDA total, item : total + ValueSize(item.value), 0, items)

leaf_node_would_overflow(items) == leaf_serialised_size(items) > BlockSize

\* Mutant of find_child_index_for_key: a strict comparison.
ChildIndexStrict(items, k) ==
    LET below == {i \in DOMAIN items : items[i].key < k}
    IN  IF below = {} THEN 1 ELSE Cardinality(below)

\* The position of the last separator that is at most k, or the first one.
find_child_index_for_key(items, k) ==
    LET below == {i \in DOMAIN items : items[i].key <= k}
    IN  IF below = {} THEN 1 ELSE Cardinality(below)

\* The leaf that k belongs to, below the node at address n.
RECURSIVE LeafFor(_, _, _)
LeafFor(bs, n, k) ==
    LET node == bs[n]
    IN  IF node.level = 0 THEN n
        ELSE LeafFor(bs, node.items[find_child_index_for_key(node.items, k)].child, k)

lookup_in_tree(bs, n, k) ==
    LET items == bs[LeafFor(bs, n, k)].items
        hits == {i \in DOMAIN items : items[i].key = k}
    IN  IF hits = {} THEN NoValue ELSE items[CHOOSE i \in hits : TRUE].value

\* Mutant of ChildOverlaps: the upper end of the range is taken as exclusive.
ChildOverlapsBelow(items, i, lo, hi) ==
    /\ items[i].key < hi
    /\ i < Len(items) => items[i + 1].key >= lo

\* The scan skips a child whose separators put it outside [lo, hi].
ChildOverlaps(items, i, lo, hi) ==
    /\ items[i].key <= hi
    /\ i < Len(items) => items[i + 1].key >= lo

\* The items of the subtree at n with keys in [lo, hi], in order.
RECURSIVE iterate_tree_range(_, _, _, _)
iterate_tree_range(bs, n, lo, hi) ==
    LET node == bs[n]
        Below(i) == IF ChildOverlaps(node.items, i, lo, hi)
                    THEN iterate_tree_range(bs, node.items[i].child, lo, hi) ELSE <<>>
    IN  IF node.level = 0
        THEN SelectSeq(node.items, LAMBDA item : lo <= item.key /\ item.key <= hi)
        ELSE FlattenSeq([i \in DOMAIN node.items |-> Below(i)])
---------------------------------------------------------------------------
\* Write a node at the bump pointer.
WriteNode(a, level, items) ==
    [a EXCEPT !.next_free_block = @ + 1,
              !.blocks = [b \in DOMAIN @ \cup {a.next_free_block} |->
                            IF b = a.next_free_block
                            THEN [level |-> level, items |-> items] ELSE @[b]]]

Freed(a, address) == [a EXCEPT !.freed_blocks = Append(@, address)]

\* Mutant of CloneNode: the superseded node is not reported as freed.
CloneNodeForgets(a, old, level, items) ==
    [alloc |-> WriteNode(a, level, items), block |-> a.next_free_block, split |-> <<>>]

\* Mutant of CloneNode: the node is rewritten in place.
RewriteNode(a, old, level, items) ==
    [alloc |-> [a EXCEPT !.blocks[old] = [level |-> level, items |-> items]],
     block |-> old, split |-> <<>>]

\* The copy-on-write clone of the node at old.
CloneNode(a, old, level, items) ==
    [alloc |-> WriteNode(Freed(a, old), level, items),
     block |-> a.next_free_block, split |-> <<>>]

\* The two halves of a node that is too large: items before s and from s on.
\* The right half gets the lower address.
SplitNode(a, old, level, items, s) ==
    LET right == WriteNode(Freed(a, old), level, SubSeq(items, s, Len(items)))
        left == WriteNode(right, level, SubSeq(items, 1, s - 1))
    IN  [alloc |-> left, block |-> a.next_free_block + 1,
         split |-> <<[key |-> items[s].key, child |-> a.next_free_block]>>]

\* Mutant of LeafSplitPoint: halves by number of items, whatever their sizes.
LeafSplitMiddle(items) == Len(items) \div 2 + 1

\* split_leaf_node starts in the middle, moves left until the left half fits,
\* then right until the right half fits.  The result is the first item of the
\* right half.
LeafSplitPoint(items) ==
    LET n == Len(items)
        LeftFits(s) == s <= 1 \/ ~leaf_node_would_overflow(SubSeq(items, 1, s))
        RightFits(s) == s >= n - 1 \/ ~leaf_node_would_overflow(SubSeq(items, s + 1, n))
        s1 == CHOOSE s \in 0 .. (n \div 2) :
                LeftFits(s) /\ \A t \in (s + 1) .. (n \div 2) : ~LeftFits(t)
        s2 == CHOOSE s \in s1 .. n : RightFits(s) /\ \A t \in s1 .. (s - 1) : ~RightFits(t)
    IN  s2 + 1

InternalSplitPoint(items) == Len(items) \div 2 + 1

\* A leaf with its new items, cloned or split.
StoreLeaf(a, old, items) ==
    IF leaf_node_would_overflow(items)
    THEN SplitNode(a, old, 0, items, LeafSplitPoint(items))
    ELSE CloneNode(a, old, 0, items)

StoreInternal(a, old, level, items) ==
    IF Len(items) > InternalMax
    THEN SplitNode(a, old, level, items, InternalSplitPoint(items))
    ELSE CloneNode(a, old, level, items)

\* A leaf's items with k bound to v: replaced in place or inserted in order.
ItemsWith(items, k, v) ==
    LET smaller == Cardinality({i \in DOMAIN items : items[i].key < k})
        item == [key |-> k, value |-> v]
    IN  IF \E i \in DOMAIN items : items[i].key = k
        THEN ReplaceAt(items, smaller + 1, item)
        ELSE InsertAt(items, smaller + 1, item)

\* An internal node's items once child i was rewritten as r.block, with the
\* separator of its new right sibling, if it was split, after it.
ItemsAfterChild(items, i, r) ==
    LET updated == [items EXCEPT ![i].child = r.block]
    IN  SubSeq(updated, 1, i) \o r.split \o SubSeq(updated, i + 1, Len(items))

RECURSIVE insert_recursive(_, _, _, _)
insert_recursive(a, n, k, v) ==
    LET node == a.blocks[n]
        i == find_child_index_for_key(node.items, k)
        r == insert_recursive(a, node.items[i].child, k, v)
    IN  IF node.level = 0
        THEN StoreLeaf(a, n, ItemsWith(node.items, k, v))
        ELSE StoreInternal(r.alloc, n, node.level, ItemsAfterChild(node.items, i, r))

\* A root that was split gets a new root above its halves; the old root n is
\* appended to freed_blocks a second time.
WithNewRoot(r, n) ==
    LET halves == r.alloc.blocks[r.block]
    IN  IF r.split = <<>> THEN r
        ELSE [alloc |-> WriteNode(Freed(r.alloc, n), halves.level + 1,
                          <<[key |-> halves.items[1].key, child |-> r.block]>> \o r.split),
              block |-> r.alloc.next_free_block, split |-> <<>>]

insert_into_tree(a, n, k, v) == WithNewRoot(insert_recursive(a, n, k, v), n)

\* Deletion clones the path; nodes are never merged and may become empty.
RECURSIVE delete_recursive(_, _, _)
delete_recursive(a, n, k) ==
    LET node == a.blocks[n]
        i == find_child_index_for_key(node.items, k)
        r == delete_recursive(a, node.items[i].child, k)
    IN  IF node.level = 0
        THEN CloneNode(a, n, 0, SelectSeq(node.items, LAMBDA item : item.key # k))
        ELSE CloneNode(r.alloc, n, node.level, ItemsAfterChild(node.items, i, r))
---------------------------------------------------------------------------
\* The addresses of the nodes below n, in preorder.
RECURSIVE Preorder(_, _)
Preorder(bs, n) ==
    <<n>> \o (IF bs[n].level = 0 THEN <<>>
              ELSE FlattenSeq([i \in DOMAIN bs[n].items |-> Preorder(bs, bs[n].items[i].child)]))

Reach(bs, n) == ToSet(Preorder(bs, n))

\* The tree below n with its blocks renamed to 0, 1, 2, ... in preorder; the
\* blocks it does not reach are never read again.
Renamed(bs, n) ==
    LET order == Preorder(bs, n)
        Name(address) == CHOOSE i \in 0 .. (Len(order) - 1) : order[i + 1] = address
        Item(item, level) == IF level = 0 THEN item ELSE [item EXCEPT !.child = Name(@)]
    IN  [i \in 0 .. (Len(order) - 1) |->
           LET node == bs[order[i + 1]]
           IN  [node EXCEPT !.items = [j \in DOMAIN @ |-> Item(@[j], node.level)]]]

\* What an operation on the tree starts from.
Allocation ==
    [blocks |-> blocks, next_free_block |-> Cardinality(DOMAIN blocks), freed_blocks |-> <<>>]

Present == {k \in Key : lookup_in_tree(blocks, 0, k) # NoValue}

\* A leaf holding the pinned keys, as format leaves it.
Init ==
    \E v \in Value :
        blocks = (0 :> [level |-> 0,
                        items |-> [i \in 1 .. Cardinality(Pinned) |->
                            [key |-> SetToSortSeq(Pinned, <)[i], value |-> v]]])

Insert(k, v) ==
    LET r == insert_into_tree(Allocation, 0, k, v)
    IN  blocks' = Renamed(r.alloc.blocks, r.block)

\* delete_from_tree returns NotFound, before it changes anything, for a key
\* that is not there.
Delete(k) ==
    /\ k \in Present
    /\ LET r == delete_recursive(Allocation, 0, k)
       IN  blocks' = Renamed(r.alloc.blocks, r.block)

Next ==
    \/ \E k \in Key, v \in Value : Insert(k, v)
    \/ \E k \in Key \ Pinned : Delete(k)

Spec == Init /\ [][Next]_blocks
---------------------------------------------------------------------------
\* Every block is a node.
TypeOK ==
    /\ DOMAIN blocks = 0 .. (Cardinality(DOMAIN blocks) - 1)
    /\ \A n \in DOMAIN blocks :
         /\ blocks[n].level \in Nat
         /\ \A i \in DOMAIN blocks[n].items : blocks[n].items[i].key \in Key

\* In every tree that insertions and deletions reach: items in strictly
\* ascending key order, children one level down, no leaf larger than a block,
\* no internal node empty or larger than INTERNAL_MAX_ITEMS.
WellFormed ==
    \A n \in DOMAIN blocks :
        LET node == blocks[n] IN
        /\ \A i, j \in DOMAIN node.items : i < j => node.items[i].key < node.items[j].key
        /\ IF node.level = 0 THEN ~leaf_node_would_overflow(node.items)
           ELSE /\ Len(node.items) \in 1 .. InternalMax
                /\ \A i \in DOMAIN node.items :
                     blocks[node.items[i].child].level = node.level - 1

Results ==
    {insert_into_tree(Allocation, 0, k, v) : k \in Key, v \in Value} \cup
    {delete_recursive(Allocation, 0, k) : k \in Present}

\* An insertion or deletion frees exactly the blocks of the old tree that the
\* new one does not share, and every block it takes from the bump pointer is a
\* node of the new tree: nothing in use is freed and nothing is leaked.
FreesExactlyTheOldPath ==
    \A r \in Results :
        LET old == Reach(blocks, 0)
            new == Reach(r.alloc.blocks, r.block)
        IN  /\ ToSet(r.alloc.freed_blocks) = old \ new
            /\ Allocation.next_free_block .. (r.alloc.next_free_block - 1) = new \ old

Contents(bs, n) == [k \in Key |-> lookup_in_tree(bs, n, k)]

\* Copy-on-write: an operation leaves the tree below the old root, which a
\* committed superblock may still point to, as it was.
OldTreeStable ==
    \A r \in Results : Contents(r.alloc.blocks, 0) = Contents(blocks, 0)

\* A range scan returns the keys of the range, in order, with the values that
\* lookups return.
RangeMatchesLookup ==
    \A lo, hi \in Key :
        LET found == SetToSortSeq({k \in Present : lo <= k /\ k <= hi}, <)
        IN  iterate_tree_range(blocks, 0, lo, hi) =
              [i \in DOMAIN found |->
                 [key |-> found[i], value |-> lookup_in_tree(blocks, 0, found[i])]]

Map == INSTANCE OrderedMap WITH map <- Contents(blocks, 0)

\* Seen through lookups, the tree is a map: an operation changes the value of
\* its key and of no other.
RefinesOrderedMap == Map!MapSpec
===========================================================================
