------------------------ MODULE BafsFreeSpaceProofs ------------------------
(***************************************************************************)
(* Proofs about the free-extent records of BafsFreeSpace, for a pool of    *)
(* any size and requests of any size: the records stay apart, no block is  *)
(* lost or handed out twice, and OutOfSpace is never reported falsely.     *)
(***************************************************************************)
EXTENDS BafsFreeSpace, BafsLemmas

\* The inductive invariant.  Partition needs Apart (a block is in one record)
\* and Apart needs Partition (a freed range touches no record but the two
\* that free_blocks merges).
PoolInv == TypeOK /\ Apart /\ Partition

\* A non-empty set of records of the pool has a last one.
LEMMA HighestExists ==
    ASSUME NEW S, S # {}, S \subseteq FreeExtent, \A e \in S : End(e) <= TotalBlocks
    PROVE  Highest(S) \in S
<1> DEFINE T == {TotalBlocks - e.block_address : e \in S}
<1>1. T \subseteq Nat
  BY PoolAssumption DEF End, FreeExtent
<1>2. PICK x \in T : \A y \in T : x <= y
  <2>1. T # {}
    OBVIOUS
  <2> HIDE DEF T
  <2> QED  BY <1>1, <2>1, LeastNatural
<1>3. PICK e \in S : x = TotalBlocks - e.block_address
  BY <1>2
<1>4. ASSUME NEW f \in S PROVE f.block_address <= e.block_address
  <2>1. x <= TotalBlocks - f.block_address
    BY <1>2
  <2>2. e.block_address \in Nat /\ f.block_address \in Nat
    BY DEF FreeExtent
  <2> QED  BY <1>3, <2>1, <2>2, PoolAssumption
<1> QED  BY <1>4 DEF Highest

\* What Apart says of a single block: no two records hold it, or start or end
\* at the same place.
LEMMA ApartFacts ==
    ASSUME TypeOK, Apart, NEW e \in items, NEW f \in items
    PROVE  /\ e.block_address \in Nat /\ e.block_count \in Nat \ {0}
           /\ End(e) = e.block_address + e.block_count
           /\ e.block_address = f.block_address => e = f
           /\ End(e) = End(f) => e = f
<1>1. /\ e.block_address \in Nat /\ e.block_count \in Nat \ {0}
      /\ f.block_address \in Nat /\ f.block_count \in Nat \ {0}
  BY DEF TypeOK, FreeExtent, End
<1> QED  BY <1>1 DEF Apart, End

---------------------------------------------------------------------------
\* The records after allocate_blocks: the chosen one is cut at its high end.
LEMMA AllocationRecords ==
    ASSUME TypeOK, Apart, NEW e \in items, NEW n \in Size, e.block_count >= n
    PROVE  LET after == RecordsAfterAllocation(items, e, n)
           IN  /\ \A f \in after : \/ (f \in items /\ f # e)
                                   \/ /\ f = Extent(e.block_address, e.block_count - n)
                                      /\ e.block_count > n
               /\ \A f \in items : f # e => f \in after
               /\ e.block_count > n => Extent(e.block_address, e.block_count - n) \in after
<1>1. n \in Nat \ {0}
  BY PoolAssumption DEF Size
<1>2. AllocatedAddress(e, n) > e.block_address <=> e.block_count > n
  BY <1>1, ApartFacts DEF AllocatedAddress
<1>3. \A f \in items : f # e => f.block_address # e.block_address
  BY ApartFacts
<1> QED  BY <1>2, <1>3 DEF RecordsAfterAllocation, insert_free_extent_into_tree

\* The records after free_blocks: one record covers the freed range and the
\* records that touched it, and the other records are as before.
LEMMA FreeRecords ==
    ASSUME TypeOK, Apart, NEW a \in Block, NEW n \in Size
    PROVE  LET after == free_blocks(items, a, n)
           IN  \E s, t \in Nat :
                 /\ s <= a /\ a + n <= t
                 /\ \A f \in after : \/ f = Extent(s, t - s)
                                     \/ /\ f \in items
                                        /\ End(f) # a /\ f.block_address # a + n
                 /\ Extent(s, t - s) \in after
                 /\ \A f \in items : \/ End(f) = a \/ f.block_address = a + n
                                     \/ f.block_address = s
                                     \/ f \in after
                 /\ s = a \/ \E p \in items : End(p) = a /\ p.block_address = s
                 /\ t = a + n \/ \E q \in items : q.block_address = a + n /\ End(q) = t
                 /\ \A p \in items : End(p) = a => p.block_address = s
                 /\ \A q \in items : q.block_address = a + n => End(q) = t
<1> DEFINE before == Predecessor(items, a)
           next == Successor(items \ before, a + n)
           s == MergedStart(before, a)
           t == MergedEnd(next, a + n)
<1>1. a \in Nat /\ n \in Nat \ {0}
  BY PoolAssumption DEF Block, Size
<1>2. before = {p \in items : End(p) = a}
  <2>1. CASE {p \in items : End(p) = a} = {}
    BY <2>1 DEF Predecessor
  <2>2. ASSUME NEW p \in items, End(p) = a
        PROVE  before = {q \in items : End(q) = a}
    <3>1. {q \in items : End(q) = a} = {p}
      BY <2>2, ApartFacts
    <3>2. Lowest({p}) = p
      BY ApartFacts DEF Lowest
    <3> QED  BY <3>1, <3>2 DEF Predecessor
  <2> QED  BY <2>1, <2>2
<1>3. next = {q \in items : q.block_address = a + n}
  <2>1. \A q \in items : q.block_address = a + n => End(q) # a
    BY <1>1, ApartFacts
  <2> QED  BY <1>2, <2>1 DEF Successor
<1>4. /\ s \in Nat /\ s <= a
      /\ s = a \/ \E p \in items : End(p) = a /\ p.block_address = s
      /\ \A p \in items : End(p) = a => p.block_address = s
  <2>1. CASE before = {}
    <3>1. s = a
      BY <2>1 DEF MergedStart
    <3> HIDE DEF s, before
    <3> QED  BY <1>1, <1>2, <2>1, <3>1
  <2>2. ASSUME NEW p \in before PROVE <1>4!:
    <3>1. before = {p} /\ p \in items /\ End(p) = a
      BY <1>2, ApartFacts
    <3>2. Lowest({p}) = p
      BY <3>1, ApartFacts DEF Lowest
    <3>3. s = p.block_address
      BY <3>1, <3>2 DEF MergedStart
    <3>4. p.block_address \in Nat /\ p.block_address <= End(p)
      BY <3>1, ApartFacts
    <3> HIDE DEF s, before
    <3> QED  BY <1>1, <1>2, <3>1, <3>3, <3>4
  <2> QED  BY <2>1, <2>2
<1>5. /\ t \in Nat /\ a + n <= t
      /\ t = a + n \/ \E q \in items : q.block_address = a + n /\ End(q) = t
      /\ \A q \in items : q.block_address = a + n => End(q) = t
  <2>1. CASE next = {}
    <3>1. t = a + n
      BY <2>1 DEF MergedEnd
    <3> HIDE DEF t, next
    <3> QED  BY <1>1, <1>3, <2>1, <3>1
  <2>2. ASSUME NEW q \in next PROVE <1>5!:
    <3>1. next = {q} /\ q \in items /\ q.block_address = a + n
      BY <1>3, ApartFacts
    <3>2. Lowest({q}) = q
      BY <3>1, ApartFacts DEF Lowest
    <3>3. t = End(q)
      BY <3>1, <3>2 DEF MergedEnd
    <3>4. End(q) \in Nat /\ q.block_address <= End(q)
      BY <3>1, ApartFacts
    <3> HIDE DEF t, next
    <3> QED  BY <1>1, <1>3, <3>1, <3>3, <3>4
  <2> QED  BY <2>1, <2>2
<1>6. free_blocks(items, a, n) = {f \in (items \ before) \ next : f.block_address # s}
                                   \cup {Extent(s, t - s)}
  BY DEF free_blocks, insert_free_extent_into_tree
<1> HIDE DEF before, next, s, t
<1> QED  BY <1>2, <1>3, <1>4, <1>5, <1>6

---------------------------------------------------------------------------
\* allocate_blocks keeps the invariant.
LEMMA AllocateKeeps ==
    ASSUME PoolInv, NEW n \in Size, AllocateBlocks(n)
    PROVE  PoolInv'
<1> DEFINE e == ChosenExtent(items, n)
           cut == Extent(e.block_address, e.block_count - n)
<1>1. n \in Nat \ {0} /\ TypeOK /\ Apart /\ Partition
  BY PoolAssumption DEF Size, PoolInv
<1>2. e \in items /\ e.block_count >= n
  <2>1. Fitting(items, n) # {} /\ Fitting(items, n) \subseteq FreeExtent
    BY <1>1 DEF AllocateBlocks, Fitting, TypeOK
  <2>2. \A f \in Fitting(items, n) : End(f) <= TotalBlocks
    BY <1>1 DEF Fitting, TypeOK
  <2>3. e \in Fitting(items, n)
    BY <2>1, <2>2, HighestExists DEF ChosenExtent
  <2> QED  BY <2>3 DEF Fitting
<1>3. /\ items' = RecordsAfterAllocation(items, e, n)
      /\ held' = held \cup Run(AllocatedAddress(e, n), n)
  BY DEF AllocateBlocks
<1>4. /\ e.block_address \in Nat /\ e.block_count \in Nat \ {0}
      /\ End(e) = e.block_address + e.block_count /\ End(e) <= TotalBlocks
  BY <1>1, <1>2, ApartFacts DEF TypeOK
<1> HIDE DEF e
<1>5. /\ \A f \in items' : (f \in items /\ f # e) \/ (f = cut /\ e.block_count > n)
      /\ \A f \in items : f # e => f \in items'
      /\ e.block_count > n => cut \in items'
  BY <1>1, <1>2, <1>3, AllocationRecords
<1>6. /\ cut.block_address = e.block_address /\ cut.block_count = e.block_count - n
      /\ End(cut) = End(e) - n
      /\ e.block_count > n => cut \in FreeExtent
  BY <1>1, <1>4 DEF Extent, End, FreeExtent
<1> HIDE DEF cut
<1>7. \A b : b \in held' <=> b \in held \/ b \in (End(e) - n) .. (End(e) - 1)
  BY <1>1, <1>3, <1>4 DEF AllocatedAddress, Run
<1>8. TypeOK'
  <2>1. items' \subseteq FreeExtent
    BY <1>1, <1>5, <1>6 DEF TypeOK
  <2>2. ASSUME NEW f \in items' PROVE 0 < f.block_count /\ End(f) <= TotalBlocks
    BY <1>1, <1>4, <1>5, <1>6, PoolAssumption DEF TypeOK
  <2>3. ASSUME NEW b \in held' PROVE b \in Block
    <3>1. CASE b \in held
      BY <1>1, <3>1 DEF TypeOK
    <3>2. CASE b \in (End(e) - n) .. (End(e) - 1)
      BY <1>1, <1>2, <1>4, <3>2, PoolAssumption DEF Block
    <3> QED  BY <1>7, <3>1, <3>2
  <2> QED  BY <2>1, <2>2, <2>3 DEF TypeOK
<1>9. Apart'
  <2> SUFFICES ASSUME NEW f \in items', NEW g \in items', f # g
               PROVE  End(f) < g.block_address \/ End(g) < f.block_address
    BY DEF Apart
  <2>1. CASE f \in items /\ g \in items
    BY <1>1, <2>1 DEF Apart
  <2>2. CASE f = cut /\ g \in items /\ g # e
    BY <1>1, <1>2, <1>4, <1>6, <2>2, ApartFacts DEF Apart
  <2>3. CASE g = cut /\ f \in items /\ f # e
    BY <1>1, <1>2, <1>4, <1>6, <2>3, ApartFacts DEF Apart
  <2> QED  BY <1>5, <2>1, <2>2, <2>3
<1>10. Partition'
  <2> SUFFICES ASSUME NEW b \in Block
               PROVE  b \in held' <=>
                        ~ \E f \in items' : f.block_address <= b /\ b < End(f)
    BY DEF Partition, FreeBlock
  <2>1. b \in Nat
    BY PoolAssumption DEF Block
  <2>2. b \in held <=> ~ \E f \in items : f.block_address <= b /\ b < End(f)
    BY <1>1 DEF Partition, FreeBlock
  <2>3. CASE e.block_address <= b /\ b < End(e)
    <3>1. \A f \in items : f # e => ~ (f.block_address <= b /\ b < End(f))
      BY <1>1, <1>2, <1>4, <2>1, <2>3, ApartFacts DEF Apart
    <3>2. b \in held' <=> End(e) - n <= b
      BY <1>1, <1>2, <1>4, <1>7, <2>1, <2>2, <2>3
    <3> QED  BY <1>1, <1>4, <1>5, <1>6, <2>1, <2>3, <3>1, <3>2
  <2>4. CASE ~ (e.block_address <= b /\ b < End(e))
    <3>1. b \in held' <=> b \in held
      BY <1>1, <1>2, <1>4, <1>7, <2>1, <2>4
    <3>2. ~ (cut.block_address <= b /\ b < End(cut)) \/ ~ (e.block_count > n)
      BY <1>1, <1>4, <1>6, <2>1, <2>4
    <3> QED  BY <1>5, <2>2, <2>4, <3>1, <3>2
  <2> QED  BY <2>3, <2>4
<1> QED  BY <1>8, <1>9, <1>10 DEF PoolInv

\* free_blocks keeps the invariant.
LEMMA FreeKeeps ==
    ASSUME PoolInv, NEW a \in Block, NEW n \in Size, FreeBlocks(a, n)
    PROVE  PoolInv'
<1>1. /\ a \in Nat /\ n \in Nat \ {0} /\ TotalBlocks \in Nat
      /\ TypeOK /\ Apart /\ Partition
  BY PoolAssumption DEF Block, Size, PoolInv
<1>2. /\ items' = free_blocks(items, a, n)
      /\ \A b \in Int : a <= b /\ b < a + n => b \in held
      /\ \A b \in Int : b \in held' <=> b \in held /\ ~ (a <= b /\ b < a + n)
  BY <1>1 DEF FreeBlocks, Run
<1>3. a + n <= TotalBlocks
  <2>1. a + n - 1 \in Block
    BY <1>1, <1>2 DEF TypeOK
  <2> QED  BY <1>1, <2>1 DEF Block
<1>4. PICK s \in Nat, t \in Nat :
        /\ s <= a /\ a + n <= t
        /\ \A f \in items' : \/ f = Extent(s, t - s)
                             \/ f \in items /\ End(f) # a /\ f.block_address # a + n
        /\ Extent(s, t - s) \in items'
        /\ \A f \in items : \/ End(f) = a \/ f.block_address = a + n
                            \/ f.block_address = s \/ f \in items'
        /\ s = a \/ \E p \in items : End(p) = a /\ p.block_address = s
        /\ t = a + n \/ \E q \in items : q.block_address = a + n /\ End(q) = t
        /\ \A p \in items : End(p) = a => p.block_address = s
        /\ \A q \in items : q.block_address = a + n => End(q) = t
  <2> HIDE <1>3
  <2> QED  BY <1>1, <1>2, FreeRecords
<1>5. \A f \in items : /\ f.block_address \in Nat /\ f.block_count \in Nat \ {0}
                       /\ End(f) = f.block_address + f.block_count
                       /\ End(f) \in Nat /\ End(f) <= TotalBlocks
  BY <1>1, ApartFacts DEF TypeOK
\* No record reaches into the freed range.
<1>6. ASSUME NEW f \in items PROVE End(f) <= a \/ a + n <= f.block_address
  <2> SUFFICES ASSUME a < End(f), f.block_address < a + n PROVE FALSE
    BY <1>1, <1>5
  <2> DEFINE b == IF a <= f.block_address THEN f.block_address ELSE a
  <2>1. b \in Int /\ a <= b /\ b < a + n /\ f.block_address <= b /\ b < End(f)
    BY <1>1, <1>5
  <2> HIDE DEF b
  <2>2. b \in held /\ b \in Block
    BY <1>1, <1>2, <2>1 DEF TypeOK
  <2> QED  BY <1>1, <2>1, <2>2 DEF Partition, FreeBlock
\* A record that is kept is apart from the merged one.
<1>7. ASSUME NEW f \in items, End(f) # a, f.block_address # a + n
      PROVE  End(f) < s \/ t < f.block_address
  <2>1. CASE End(f) <= a
    <3>1. CASE s = a
      BY <1>1, <1>5, <1>7, <2>1, <3>1
    <3>2. ASSUME NEW p \in items, End(p) = a, p.block_address = s
          PROVE  End(f) < s
      BY <1>1, <1>5, <1>7, <2>1, <3>2 DEF Apart
    <3> QED  BY <1>4, <3>1, <3>2
  <2>2. CASE a + n <= f.block_address
    <3>1. CASE t = a + n
      BY <1>1, <1>5, <1>7, <2>2, <3>1
    <3>2. ASSUME NEW q \in items, q.block_address = a + n, End(q) = t
          PROVE  t < f.block_address
      BY <1>1, <1>5, <1>7, <2>2, <3>2 DEF Apart
    <3> QED  BY <1>4, <3>1, <3>2
  <2> QED  BY <1>6, <2>1, <2>2
<1>8. t <= TotalBlocks
  BY <1>1, <1>3, <1>4, <1>5
<1> DEFINE m == Extent(s, t - s)
<1>9. m \in FreeExtent /\ m.block_address = s /\ m.block_count = t - s /\ End(m) = t
  BY <1>1, <1>4 DEF Extent, FreeExtent, End
<1>10. /\ m \in items'
       /\ \A f \in items' : f = m \/ (f \in items /\ End(f) # a /\ f.block_address # a + n)
  BY <1>4
<1> HIDE DEF m
<1>11. TypeOK'
  <2>1. items' \subseteq FreeExtent
    BY <1>1, <1>9, <1>10 DEF TypeOK
  <2>2. ASSUME NEW f \in items' PROVE 0 < f.block_count /\ End(f) <= TotalBlocks
    BY <1>1, <1>4, <1>5, <1>8, <1>9, <1>10
  <2>3. held' \subseteq Block
    BY <1>1 DEF FreeBlocks, TypeOK
  <2> QED  BY <2>1, <2>2, <2>3 DEF TypeOK
<1>12. Apart'
  <2> SUFFICES ASSUME NEW f \in items', NEW g \in items', f # g
               PROVE  End(f) < g.block_address \/ End(g) < f.block_address
    BY DEF Apart
  <2>1. CASE f # m /\ g # m
    BY <1>1, <1>10, <2>1 DEF Apart
  <2>2. CASE f = m
    BY <1>7, <1>9, <1>10, <2>2
  <2>3. CASE g = m
    BY <1>7, <1>9, <1>10, <2>3
  <2> QED  BY <2>1, <2>2, <2>3
<1>13. Partition'
  <2> SUFFICES ASSUME NEW b \in Block
               PROVE  b \in held' <=>
                        ~ \E f \in items' : f.block_address <= b /\ b < End(f)
    BY DEF Partition, FreeBlock
  <2>1. b \in Int
    BY DEF Block
  <2>2. b \in held <=> ~ \E f \in items : f.block_address <= b /\ b < End(f)
    BY <1>1 DEF Partition, FreeBlock
  <2>3. CASE a <= b /\ b < a + n
    BY <1>1, <1>2, <1>4, <1>9, <1>10, <2>1, <2>3
  <2>4. CASE s <= b /\ b < a
    <3>1. PICK p \in items : End(p) = a /\ p.block_address = s
      BY <1>1, <1>4, <2>1, <2>4
    <3> QED  BY <1>1, <1>2, <1>4, <1>9, <1>10, <2>1, <2>2, <2>4, <3>1
  <2>5. CASE a + n <= b /\ b < t
    <3>1. PICK q \in items : q.block_address = a + n /\ End(q) = t
      BY <1>1, <1>4, <2>1, <2>5
    <3> QED  BY <1>1, <1>2, <1>4, <1>9, <1>10, <2>1, <2>2, <2>5, <3>1
  <2>6. CASE b < s \/ t <= b
    <3>1. b \in held' <=> b \in held
      BY <1>1, <1>2, <1>4, <2>1, <2>6
    <3>2. ASSUME NEW f \in items, f.block_address <= b, b < End(f)
          PROVE  f \in items'
      <4>1. End(f) # a /\ f.block_address # a + n
        BY <1>1, <1>4, <1>5, <2>1, <2>6, <3>2
      <4>2. f.block_address # s
        <5>1. End(f) < s \/ t < f.block_address
          BY <1>7, <4>1
        <5>2. s <= t
          BY <1>1, <1>4
        <5> QED  BY <1>5, <5>1, <5>2
      <4> QED  BY <1>4, <4>1, <4>2
    <3>3. ~ (m.block_address <= b /\ b < End(m))
      BY <1>9, <2>1, <2>6
    <3> QED  BY <1>10, <2>2, <3>1, <3>2, <3>3
  <2> QED  BY <1>1, <1>4, <2>1, <2>3, <2>4, <2>5, <2>6
<1> QED  BY <1>11, <1>12, <1>13 DEF PoolInv
---------------------------------------------------------------------------
\* The record format leaves covers the pool.
LEMMA InitPool == Init => PoolInv
<1> SUFFICES ASSUME Init PROVE PoolInv
  OBVIOUS
<1> DEFINE e == Extent(0, TotalBlocks)
<1>1. /\ e \in FreeExtent /\ e.block_address = 0 /\ e.block_count = TotalBlocks
      /\ End(e) = TotalBlocks
  BY PoolAssumption DEF Extent, End, FreeExtent
<1>2. items = {e} /\ held = {}
  BY DEF Init
<1> HIDE DEF e
<1>3. TypeOK
  BY <1>1, <1>2, PoolAssumption DEF TypeOK
<1>4. Apart
  BY <1>2 DEF Apart
<1>5. Partition
  BY <1>1, <1>2, PoolAssumption DEF Partition, FreeBlock, Block
<1> QED  BY <1>3, <1>4, <1>5 DEF PoolInv

LEMMA NextPool == PoolInv /\ [Next]_vars => PoolInv'
<1> SUFFICES ASSUME PoolInv, [Next]_vars PROVE PoolInv'
  OBVIOUS
<1>1. ASSUME NEW n \in Size, AllocateBlocks(n) PROVE PoolInv'
  BY <1>1, AllocateKeeps
<1>2. ASSUME NEW a \in Block, NEW n \in Size, FreeBlocks(a, n) PROVE PoolInv'
  BY <1>2, FreeKeeps
<1>3. CASE UNCHANGED vars
  BY <1>3 DEF vars, PoolInv, TypeOK, Apart, Partition, FreeBlock
<1> QED  BY <1>1, <1>2, <1>3 DEF Next

\* Whatever runs a caller allocates and gives back, in any order, the records
\* of the free-extent tree neither overlap nor touch, and every block is in
\* exactly one record or held by the caller.
THEOREM PoolInvariant == Spec => [](TypeOK /\ Apart /\ Partition)
<1>1. PoolInv => TypeOK /\ Apart /\ Partition
  BY DEF PoolInv
<1> QED  BY <1>1, InitPool, NextPool, PTL DEF Spec

\* Two records of the free-extent tree never overlap or touch: free_blocks
\* merges a freed run with both its neighbours, and an allocation shortens or
\* removes one record.
THEOREM RecordsStayApart == Spec => []Apart
<1>1. TypeOK /\ Apart /\ Partition => Apart
  OBVIOUS
<1> QED  BY <1>1, PoolInvariant, PTL

\* Records that are apart hide no run: a run of free blocks lies in one record.
LEMMA RunInOneRecord == PoolInv => NoFalseOutOfSpace
<1> SUFFICES ASSUME PoolInv, NEW n \in Size, NEW a \in Block, Run(a, n) \subseteq FreeBlock
             PROVE  Fitting(items, n) # {}
  BY DEF NoFalseOutOfSpace
<1>1. /\ a \in Nat /\ n \in Nat \ {0} /\ TypeOK /\ Apart
      /\ \A b \in Int : a <= b /\ b < a + n => b \in FreeBlock
  BY PoolAssumption DEF Block, Size, PoolInv, Run
<1>2. PICK e \in items : e.block_address <= a /\ a < End(e)
  BY <1>1 DEF FreeBlock
<1>3. \A f \in items : /\ f.block_address \in Nat /\ f.block_count \in Nat \ {0}
                       /\ End(f) = f.block_address + f.block_count
  BY <1>1, ApartFacts
<1>4. a + n <= End(e)
  <2> SUFFICES ASSUME End(e) < a + n PROVE FALSE
    BY <1>1, <1>3
  <2>1. PICK f \in items : f.block_address <= End(e) /\ End(e) < End(f)
    BY <1>1, <1>2, <1>3 DEF FreeBlock
  <2> QED  BY <1>1, <1>2, <1>3, <2>1 DEF Apart
<1>5. e.block_count >= n
  BY <1>1, <1>2, <1>3, <1>4
<1> QED  BY <1>5 DEF Fitting

\* allocate_blocks reports OutOfSpace only when no run of the requested number
\* of free blocks is left.
THEOREM AllocationComplete == Spec => []NoFalseOutOfSpace
<1>1. Spec => [](TypeOK /\ Apart /\ Partition)
  BY PoolInvariant
<1>2. TypeOK /\ Apart /\ Partition => NoFalseOutOfSpace
  BY RunInOneRecord DEF PoolInv
<1> QED  BY <1>1, <1>2, PTL

\* What is free is what is not held.
LEMMA FreeIsRest == ASSUME PoolInv PROVE FreeBlock = Block \ held
  BY DEF PoolInv, Partition, FreeBlock

\* The records implement the pool of FreePool: allocate_blocks hands out n blocks
\* that were free and no others, and free_blocks makes exactly the returned
\* blocks free again.
THEOREM PoolRefinement == Spec => RefinesFreePool
<1>1. Init => Pool!PoolInit
  <2> SUFFICES ASSUME Init PROVE FreeBlock = Block /\ held = {}
    BY DEF Pool!PoolInit
  <2> QED  BY InitPool, FreeIsRest DEF Init
<1>2. ASSUME PoolInv, PoolInv', [Next]_vars
      PROVE  [Pool!PoolNext]_<<FreeBlock, held>>
  <2>1. FreeBlock = Block \ held /\ FreeBlock' = Block \ held'
    BY <1>2, FreeIsRest DEF PoolInv, Partition, FreeBlock
  <2>2. ASSUME NEW n \in Size, AllocateBlocks(n) PROVE Pool!PoolNext
    <3> DEFINE e == ChosenExtent(items, n)
               a == AllocatedAddress(e, n)
    <3>1. n \in Nat \ {0} /\ TypeOK /\ Apart /\ TotalBlocks \in Nat
      BY <1>2, PoolAssumption DEF Size, PoolInv
    <3>2. e \in Fitting(items, n)
      BY <2>2, <3>1, HighestExists DEF AllocateBlocks, Fitting, TypeOK, ChosenExtent
    <3>3. e \in items /\ e.block_count >= n
      BY <3>2 DEF Fitting
    <3> HIDE DEF e
    <3>4. /\ e.block_address \in Nat /\ e.block_count \in Nat
          /\ End(e) = e.block_address + e.block_count /\ End(e) <= TotalBlocks
      BY <3>1, <3>3, ApartFacts DEF TypeOK
    <3>5. a \in Block /\ Run(a, n) \subseteq FreeBlock
      BY <3>1, <3>3, <3>4 DEF AllocatedAddress, Run, FreeBlock, Block
    <3>6. held' = held \cup Run(a, n)
      BY <2>2 DEF AllocateBlocks, e
    <3> HIDE DEF a
    <3>7. FreeBlock' = FreeBlock \ Run(a, n)
      BY <2>1, <3>6
    <3>8. Pool!Take(a, n)
      BY <3>5, <3>6, <3>7 DEF Pool!Take, Pool!Run, Run
    <3> QED  BY <3>5, <3>8 DEF Pool!PoolNext
  <2>3. ASSUME NEW a \in Block, NEW n \in Size, FreeBlocks(a, n) PROVE Pool!PoolNext
    <3>1. Run(a, n) \subseteq held /\ held' = held \ Run(a, n) /\ held \subseteq Block
      BY <1>2, <2>3 DEF FreeBlocks, PoolInv, TypeOK
    <3>2. FreeBlock' = FreeBlock \cup Run(a, n)
      BY <2>1, <3>1
    <3>3. Pool!Give(a, n)
      BY <3>1, <3>2 DEF Pool!Give, Pool!Run, Run
    <3> QED  BY <3>3 DEF Pool!PoolNext
  <2>4. CASE UNCHANGED vars
    BY <2>4 DEF vars, FreeBlock
  <2> QED  BY <1>2, <2>2, <2>3, <2>4 DEF Next
<1>3. PoolInv /\ PoolInv' /\ [Next]_vars => [Pool!PoolNext]_<<FreeBlock, held>>
  BY <1>2
<1> QED
  BY <1>1, <1>3, InitPool, NextPool, PTL DEF Spec, RefinesFreePool, Pool!PoolSpec
===========================================================================
