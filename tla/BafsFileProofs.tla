--------------------------- MODULE BafsFileProofs ---------------------------
(***************************************************************************)
(* Proofs about the data of a file, for every block size, device and file  *)
(* size and any number of writes: what the read loop returns, and that it  *)
(* is what was written.                                                    *)
(***************************************************************************)
EXTENDS BafsFile, BafsLemmas

Recorded == {o \in Position : extents[o] # NoExtent}

\* Where the loop reads position p from.
Start(p) == read_extent_data_for_file_offset(p)
BlockOf(p) == extents[Start(p)].first_disk_block + ((p - Start(p)) \div BlockSize)
Within(p) == (p - Start(p)) % BlockSize
Readable(p) == CoveringExtents(p) # {} /\ ChecksumHolds(BlockOf(p))
ByteAt(p) == blocks[BlockOf(p)][Within(p)]

\* The blocks of the recorded extents lie behind the bump pointer and have
\* contents and checksums.
ExtentsStored ==
    \A o \in Recorded : \A a \in ExtentBlocks(o) :
        a < next_free_block /\ blocks[a] # NoBlock /\ checksums[a] # NoBlock

\* Every block and its checksum differ only if the medium damaged one.
DamageCounted == rot = 0 => blocks = checksums

\* What a checksum was taken of: byte j of block i of the extent at o is
\* padding, or was written at position o + i * BlockSize + j.
ChecksumsOwn ==
    \A o \in Recorded : \A i \in 0 .. (extents[o].block_count - 1), j \in 0 .. (BlockSize - 1) :
        LET p == o + i * BlockSize + j
            byte == checksums[extents[o].first_disk_block + i][j]
        IN  byte = 0 \/ (p \in Position /\ byte \in written[p])

\* While only supported writes were made, extents start at block boundaries and
\* their last block starts before the end of the file ...
ExtentsAligned ==
    status = "live" /\ supported =>
        \A o \in Recorded :
            /\ o % BlockSize = 0
            /\ o + (extents[o].block_count - 1) * BlockSize < file_size_in_bytes

\* ... and the first extent that covers a position holds the byte owed there.
FirstIsCurrent ==
    status = "live" /\ supported =>
        \A p \in 0 .. (file_size_in_bytes - 1) :
            /\ CoveringExtents(p) # {}
            /\ checksums[BlockOf(p)][Within(p)] = reference[p + 1]

\* As long as no extent record was replaced, the blocks in use are those of the
\* recorded extents; they are freed at the end.
BlocksAccounted ==
    fresh => {a \in Address : blocks[a] # NoBlock} =
               IF status = "live" THEN UNION {ExtentBlocks(o) : o \in Recorded} ELSE freed

\* SizeRight and what keeps it: after supported writes the size is exactly that
\* of the content owed, and writes are numbered upwards, so that a new write
\* does not move the end of an old one.
SizeTracked ==
    /\ SizeRight
    /\ status = "live" /\ supported => file_size_in_bytes = Len(reference)
    /\ status = "gone" => file_size_in_bytes = 0
    /\ \A p \in Position : \A w \in written[p] : w <= writes

\* The inductive invariant.
FileInv ==
    /\ TypeOK
    /\ SizeTracked
    /\ ExtentsStored
    /\ DamageCounted
    /\ ChecksumsOwn
    /\ ExtentsAligned
    /\ FirstIsCurrent
    /\ BlocksAccounted
---------------------------------------------------------------------------
\* What the read loop returns.

\* The smaller and the larger of two numbers.
LEMMA MinOfTwo ==
    ASSUME NEW a \in Int, NEW b \in Int
    PROVE  Min({a, b}) = IF a <= b THEN a ELSE b
<1>1. \A x \in {a, b} : (\A y \in {a, b} : x <= y) <=> x = IF a <= b THEN a ELSE b
  OBVIOUS
<1> QED  BY <1>1 DEF Min

\* The maximum of two naturals.
LEMMA MaxOfTwo ==
    ASSUME NEW a \in Int, NEW b \in Int
    PROVE  Max({a, b}) = IF a <= b THEN b ELSE a
<1>1. \A x \in {a, b} : (\A y \in {a, b} : x >= y) <=> x = IF a <= b THEN b ELSE a
  OBVIOUS
<1> QED  BY <1>1 DEF Max

\* Positions and extents are numbers.
LEMMA ExtentTypes ==
    ASSUME TypeOK, NEW o \in Recorded
    PROVE  /\ o \in Nat /\ o \in Position
           /\ extents[o].first_disk_block \in Nat
           /\ extents[o].block_count \in Nat \ {0}
           /\ ExtentEnd(o) \in Nat /\ ExtentEnd(o) = o + extents[o].block_count * BlockSize
<1>1. extents[o] \in ExtentRecord /\ o \in Nat /\ o \in Position
  BY SizeAssumption DEF TypeOK, Recorded, Position
<1>2. extents[o].first_disk_block \in Nat /\ extents[o].block_count \in Nat \ {0}
  BY <1>1 DEF ExtentRecord
<1>3. extents[o].block_count * BlockSize \in Nat
  BY <1>2, SizeAssumption
<1> QED  BY <1>1, <1>2, <1>3 DEF ExtentEnd

\* The extent that a position is read from is the first of those that cover it.
LEMMA StartIsFirst ==
    ASSUME TypeOK, NEW p \in Nat, CoveringExtents(p) # {}
    PROVE  /\ Start(p) \in CoveringExtents(p)
           /\ \A o \in CoveringExtents(p) : Start(p) <= o
<1>1. CoveringExtents(p) \subseteq Nat
  BY SizeAssumption DEF CoveringExtents, Position
<1>2. \E x \in CoveringExtents(p) : \A y \in CoveringExtents(p) : x <= y
  BY <1>1, LeastNatural
<1> QED  BY <1>2 DEF Start, read_extent_data_for_file_offset, Min

\* A record that covers a position and starts no later than any other that does
\* is the one it is read from.
LEMMA FirstIsStart ==
    ASSUME TypeOK, NEW p \in Nat, NEW s \in CoveringExtents(p),
           \A o \in CoveringExtents(p) : s <= o
    PROVE  Start(p) = s
<1>1. Start(p) \in CoveringExtents(p) /\ Start(p) <= s
  BY StartIsFirst
<1>2. s \in Nat /\ Start(p) \in Nat
  BY <1>1, SizeAssumption DEF CoveringExtents, Position
<1> QED  BY <1>1, <1>2

\* The block of a covered position is one of its extent.
LEMMA BlockInExtent ==
    ASSUME TypeOK, NEW p \in Nat, CoveringExtents(p) # {}
    PROVE  LET s == Start(p)
               q == (p - s) \div BlockSize
           IN  /\ s \in Recorded /\ s <= p
               /\ q \in 0 .. (extents[s].block_count - 1)
               /\ BlockOf(p) = extents[s].first_disk_block + q
               /\ BlockOf(p) \in ExtentBlocks(s)
               /\ Within(p) \in 0 .. (BlockSize - 1)
               /\ p = s + q * BlockSize + Within(p)
<1> DEFINE s == Start(p)
           n == extents[s].block_count
           q == (p - s) \div BlockSize
           w == (p - s) % BlockSize
<1>1. s \in Recorded /\ s <= p /\ p < ExtentEnd(s)
  BY StartIsFirst DEF CoveringExtents, Recorded
<1>2. /\ s \in Nat /\ n \in Nat \ {0} /\ extents[s].first_disk_block \in Nat
      /\ ExtentEnd(s) = s + n * BlockSize
  BY <1>1, ExtentTypes
<1>3. q \in Nat /\ w \in 0 .. (BlockSize - 1) /\ p - s = q * BlockSize + w
  <2>1. p - s \in Nat
    BY <1>1, <1>2
  <2> QED  BY <2>1, DivMod, SizeAssumption
<1> HIDE DEF s, n, q, w
<1>4. q < n
  <2>1. p - s < n * BlockSize
    BY <1>1, <1>2, SizeAssumption
  <2>2. n <= q => n * BlockSize <= q * BlockSize
    BY <1>2, <1>3, ProductGrows, SizeAssumption
  <2> QED  BY <1>2, <1>3, <2>1, <2>2, SizeAssumption
<1>5. p = s + q * BlockSize + w
  BY <1>1, <1>2, <1>3, SizeAssumption
<1>6. BlockOf(p) = extents[s].first_disk_block + q /\ Within(p) = w
  BY DEF BlockOf, Within, s, q, w
<1>7. BlockOf(p) \in ExtentBlocks(s)
  BY <1>2, <1>3, <1>4, <1>6 DEF ExtentBlocks, n
<1> QED  BY <1>1, <1>2, <1>3, <1>4, <1>5, <1>6, <1>7 DEF s, n, q, w

\* The positions behind p in its block are read from the same block.
LEMMA SameBlock ==
    ASSUME TypeOK, NEW p \in Nat, CoveringExtents(p) # {},
           NEW k \in Nat, k < BlockSize - Within(p)
    PROVE  /\ CoveringExtents(p + k) # {}
           /\ BlockOf(p + k) = BlockOf(p)
           /\ Within(p + k) = Within(p) + k
<1> DEFINE s == Start(p)
           n == extents[s].block_count
           q == (p - s) \div BlockSize
           w == Within(p)
<1>1. /\ s \in Recorded /\ s <= p
      /\ q \in 0 .. (n - 1) /\ BlockOf(p) = extents[s].first_disk_block + q
      /\ w \in 0 .. (BlockSize - 1)
      /\ p = s + q * BlockSize + w
  BY BlockInExtent
<1>2. /\ s \in Nat /\ s \in Position /\ n \in Nat \ {0}
      /\ ExtentEnd(s) = s + n * BlockSize
  BY <1>1, ExtentTypes
<1>3. s \in CoveringExtents(p) /\ \A o \in CoveringExtents(p) : s <= o
  BY StartIsFirst
<1> HIDE DEF s, n, q, w
<1>4. k < BlockSize - w
  BY DEF w
<1>5. q * BlockSize \in Nat /\ q * BlockSize + BlockSize <= n * BlockSize
  BY <1>1, <1>2, ProductGrows, SizeAssumption
<1>6. p + k < ExtentEnd(s) /\ s <= p + k
  BY <1>1, <1>2, <1>4, <1>5, SizeAssumption
<1>7. s \in CoveringExtents(p + k)
  BY <1>1, <1>2, <1>6 DEF CoveringExtents, Recorded
<1>8. ASSUME NEW o \in CoveringExtents(p + k) PROVE s <= o
  <2>1. /\ o \in Recorded /\ o <= p + k /\ p + k < ExtentEnd(o)
        /\ o \in Nat /\ ExtentEnd(o) \in Nat
    BY <1>8, ExtentTypes DEF CoveringExtents, Recorded
  <2>2. o <= p => o \in CoveringExtents(p)
    BY <2>1 DEF CoveringExtents, Recorded
  <2> QED  BY <2>1, <2>2, <1>1, <1>2, <1>3
<1>9. Start(p + k) = s
  BY <1>7, <1>8, FirstIsStart
<1>10. (p + k) - s = q * BlockSize + (w + k) /\ w + k \in 0 .. (BlockSize - 1)
  BY <1>1, <1>2, <1>4, <1>5, SizeAssumption
<1>11. ((p + k) - s) \div BlockSize = q /\ ((p + k) - s) % BlockSize = w + k
  <2>1. q \in Nat
    BY <1>1, <1>2
  <2>2. (q * BlockSize + (w + k)) \div BlockSize = q /\ (q * BlockSize + (w + k)) % BlockSize = w + k
    BY <2>1, <1>10, DivModUnique, SizeAssumption
  <2> QED  BY <1>10, <2>2
<1>12. BlockOf(p + k) = BlockOf(p) /\ Within(p + k) = w + k
  <2>1. /\ BlockOf(p + k) = extents[s].first_disk_block + (((p + k) - s) \div BlockSize)
        /\ Within(p + k) = ((p + k) - s) % BlockSize
    BY <1>9 DEF BlockOf, Within
  <2> QED  BY <1>1, <1>11, <2>1
<1> QED  BY <1>7, <1>12 DEF w
---------------------------------------------------------------------------
\* The bytes that one round of a read up to end copies, and how many.
Count(p, end) == Min({BlockSize - Within(p), end - p})
Chunk(p, end) == [j \in 1 .. Count(p, end) |-> blocks[BlockOf(p)][Within(p) + j - 1]]

\* One round of the loop, the rest being f.
Round(f, p, end) ==
    IF p = end THEN <<>>
    ELSE IF ~Readable(p) THEN <<Failed>>
    ELSE Chunk(p, end) \o f[p + Count(p, end)]

\* A round copies at least a byte, and stays in the block and in the read.
LEMMA CountBounds ==
    ASSUME TypeOK, NEW end \in Nat, NEW p \in 0 .. end, p # end, Readable(p)
    PROVE  /\ Count(p, end) \in 1 .. (end - p)
           /\ Count(p, end) <= BlockSize - Within(p)
<1>1. Within(p) \in 0 .. (BlockSize - 1)
  BY BlockInExtent DEF Readable
<1>2. Count(p, end) = IF BlockSize - Within(p) <= end - p THEN BlockSize - Within(p) ELSE end - p
  BY <1>1, MinOfTwo, SizeAssumption DEF Count
<1> QED  BY <1>1, <1>2, SizeAssumption

\* The recursive definition of the loop has a solution, so the loop satisfies it.
LEMMA LoopEquation ==
    ASSUME TypeOK, NEW end \in Nat
    PROVE  ReadLoop(end) = [p \in 0 .. end |-> Round(ReadLoop(end), p, end)]
<1> DEFINE stop == {p \in 0 .. end : p = end \/ ~Readable(p)}
           last == [p \in 0 .. end |-> IF p = end THEN <<>> ELSE <<Failed>>]
           head == [p \in 0 .. end |-> Chunk(p, end)]
           next == [p \in 0 .. end |-> p + Count(p, end)]
<1>1. \A p \in 0 .. end : p \notin stop => next[p] \in p + 1 .. end
  BY CountBounds
<1>2. PICK f : IsLoop(f, 0, end, stop, last, head, next)
  <2> HIDE DEF stop, last, head, next
  <2> QED  BY <1>1, LoopDefined
<1>3. f = [p \in 0 .. end |-> Round(f, p, end)]
  <2>1. \A p \in 0 .. end :
          (IF p \in stop THEN last[p] ELSE head[p] \o f[next[p]]) = Round(f, p, end)
    BY DEF Round
  <2> QED  BY <1>2, <2>1 DEF IsLoop
<1> DEFINE Body(g, p) ==
      IF p = end THEN <<>>
      ELSE IF CoveringExtents(p) = {} THEN <<Failed>>
      ELSE LET start == read_extent_data_for_file_offset(p)
               address == extents[start].first_disk_block + ((p - start) \div BlockSize)
               within == (p - start) % BlockSize
               count == Min({BlockSize - within, end - p})
           IN  IF ~ChecksumHolds(address) THEN <<Failed>>
               ELSE [j \in 1 .. count |-> blocks[address][within + j - 1]] \o g[p + count]
<1>4. \A g, p : Body(g, p) = Round(g, p, end)
  BY DEF Round, Readable, Chunk, Count, BlockOf, Within, Start
<1>5. ReadLoop(end) = CHOOSE g : g = [p \in 0 .. end |-> Body(g, p)]
  BY DEF ReadLoop
<1> HIDE DEF Body
<1>6. f = [p \in 0 .. end |-> Body(f, p)]
  BY <1>3, <1>4
<1>7. ReadLoop(end) = [p \in 0 .. end |-> Body(ReadLoop(end), p)]
  BY <1>5, <1>6
<1> QED  BY <1>4, <1>7
\* A covered position lies in a block that has a content and a checksum.
LEMMA StoredBytes ==
    ASSUME TypeOK, ExtentsStored, NEW p \in Nat, CoveringExtents(p) # {}
    PROVE  /\ BlockOf(p) \in Address
           /\ blocks[BlockOf(p)] \in DataBlock /\ checksums[BlockOf(p)] \in DataBlock
           /\ ByteAt(p) \in Nat \cup {Rotten}
<1>1. Start(p) \in Recorded /\ BlockOf(p) \in ExtentBlocks(Start(p)) /\ Within(p) \in 0 .. (BlockSize - 1)
  BY BlockInExtent
<1>2. BlockOf(p) \in Address
  BY <1>1 DEF TypeOK, Recorded
<1>3. blocks[BlockOf(p)] # NoBlock /\ checksums[BlockOf(p)] # NoBlock
  BY <1>1 DEF ExtentsStored
<1>4. blocks[BlockOf(p)] \in DataBlock /\ checksums[BlockOf(p)] \in DataBlock
  BY <1>2, <1>3 DEF TypeOK
<1>5. ByteAt(p) \in Nat \cup {Rotten}
  BY <1>1, <1>4 DEF ByteAt, DataBlock
<1> QED  BY <1>2, <1>4, <1>5

Byte == Nat \cup {Rotten}

\* The bytes from p up to end, one by one.
Bytes(p, end) == [i \in 1 .. (end - p) |-> ByteAt(p + (i - 1))]
AllReadable(p, end) == \A x \in p .. (end - 1) : Readable(x)

\* A round copies the bytes of its positions, which are all readable.
LEMMA ChunkIsBytes ==
    ASSUME TypeOK, ExtentsStored, NEW end \in Nat, NEW p \in 0 .. end, p # end, Readable(p)
    PROVE  LET n == p + Count(p, end)
           IN  /\ n \in p + 1 .. end
               /\ Chunk(p, end) = Bytes(p, n) /\ Chunk(p, end) \in Seq(Byte)
               /\ Len(Chunk(p, end)) = n - p
               /\ AllReadable(p, n)
<1> DEFINE c == Count(p, end)
           n == p + c
<1>1. c \in 1 .. (end - p) /\ c <= BlockSize - Within(p) /\ n \in p + 1 .. end /\ n - p = c
  BY CountBounds
<1> HIDE DEF c, n
<1>2. Within(p) \in 0 .. (BlockSize - 1) /\ CoveringExtents(p) # {}
  BY BlockInExtent DEF Readable
<1>3. ASSUME NEW k \in 0 .. (c - 1)
      PROVE  /\ Readable(p + k) /\ ByteAt(p + k) \in Byte
             /\ ByteAt(p + k) = blocks[BlockOf(p)][Within(p) + k]
  <2>1. k \in Nat /\ k < BlockSize - Within(p)
    BY <1>1, <1>2, SizeAssumption
  <2>2. /\ CoveringExtents(p + k) # {} /\ BlockOf(p + k) = BlockOf(p)
        /\ Within(p + k) = Within(p) + k
    BY <2>1, <1>2, SameBlock
  <2>3. Readable(p + k)
    BY <2>2 DEF Readable
  <2>4. ByteAt(p + k) \in Byte
    BY <2>1, <2>2, StoredBytes DEF Byte
  <2> QED  BY <2>2, <2>3, <2>4 DEF ByteAt
<1>4. AllReadable(p, n)
  <2> SUFFICES ASSUME NEW x \in p .. (n - 1) PROVE Readable(x)
    BY DEF AllReadable
  <2>1. x - p \in 0 .. (c - 1) /\ p + (x - p) = x
    BY <1>1
  <2> QED  BY <2>1, <1>3
<1>5. \A j \in 1 .. c :
        /\ blocks[BlockOf(p)][Within(p) + j - 1] = ByteAt(p + (j - 1))
        /\ ByteAt(p + (j - 1)) \in Byte
  <2> SUFFICES ASSUME NEW j \in 1 .. c
               PROVE  /\ blocks[BlockOf(p)][Within(p) + j - 1] = ByteAt(p + (j - 1))
                      /\ ByteAt(p + (j - 1)) \in Byte
    OBVIOUS
  <2>1. j - 1 \in 0 .. (c - 1)
    BY <1>1
  <2> QED  BY <2>1, <1>3
<1>6. Chunk(p, end) = Bytes(p, n)
  BY <1>1, <1>5 DEF Chunk, Bytes, c
<1>7. Bytes(p, n) \in [1 .. c -> Byte]
  BY <1>1, <1>5 DEF Bytes
<1>8. Bytes(p, n) \in Seq(Byte) /\ Len(Bytes(p, n)) = c
  BY <1>1, <1>7
<1> QED  BY <1>1, <1>4, <1>6, <1>8 DEF n, c
\* What is owed by the loop from p up to end: every byte if all positions are
\* readable, an error otherwise.
Returns(r, p, end) ==
    IF AllReadable(p, end)
    THEN r = Bytes(p, end) /\ r \in Seq(Byte) /\ Len(r) = end - p
    ELSE r \in Seq(Byte \cup {Failed}) /\ r # <<>> /\ r[Len(r)] = Failed

\* The bytes of two adjacent ranges make up those of the whole.
LEMMA BytesJoin ==
    ASSUME NEW p \in Nat, NEW n \in Nat, NEW end \in Nat, p <= n, n <= end,
           Bytes(p, n) \in Seq(Byte), Bytes(n, end) \in Seq(Byte)
    PROVE  Bytes(p, n) \o Bytes(n, end) = Bytes(p, end)
<1> DEFINE a == Bytes(p, n)
           b == Bytes(n, end)
           c == a \o b
<1>1. Len(a) = n - p /\ Len(b) = end - n
  BY DEF Bytes
<1>2. /\ \A i \in 1 .. (n - p) : a[i] = ByteAt(p + (i - 1))
      /\ \A i \in 1 .. (end - n) : b[i] = ByteAt(n + (i - 1))
  BY DEF Bytes
<1> HIDE DEF a, b
<1>3. /\ c \in Seq(Byte) /\ Len(c) = Len(a) + Len(b)
      /\ \A i \in 1 .. Len(a) + Len(b) : c[i] = IF i <= Len(a) THEN a[i] ELSE b[i - Len(a)]
  BY ConcatProperties DEF a, b
<1> HIDE DEF c
<1>4. Len(c) = end - p
  BY <1>1, <1>3
<1>5. ASSUME NEW i \in 1 .. (end - p) PROVE c[i] = ByteAt(p + (i - 1))
  <2>1. CASE i <= n - p
    BY <1>1, <1>2, <1>3, <2>1
  <2>2. CASE i > n - p
    <3>1. i - (n - p) \in 1 .. (end - n) /\ n + ((i - (n - p)) - 1) = p + (i - 1)
      BY <2>2
    <3>2. c[i] = b[i - (n - p)]
      <4>1. i \in 1 .. Len(a) + Len(b) /\ ~(i <= Len(a))
        BY <1>1, <2>2
      <4>2. c[i] = b[i - Len(a)]
        BY <1>3, <4>1
      <4> QED  BY <1>1, <4>2
    <3> QED  BY <3>1, <3>2, <1>2
  <2> QED  BY <2>1, <2>2
<1>6. c \in [1 .. (end - p) -> Byte]
  BY <1>3, <1>4, LenProperties
<1>7. c = Bytes(p, end)
  BY <1>5, <1>6 DEF Bytes
<1> QED  BY <1>7 DEF a, b, c

\* The loop returns the bytes of its positions, or fails if one cannot be read.
LEMMA LoopReturns ==
    ASSUME TypeOK, ExtentsStored, NEW end \in Nat, NEW p \in 0 .. end
    PROVE  Returns(ReadLoop(end)[p], p, end)
<1> DEFINE L == ReadLoop(end)
           Bad == {k \in 0 .. end : ~Returns(L[end - k], end - k, end)}
<1>0. \A o \in 0 .. end : L[o] = Round(L, o, end)
  <2>1. L = [o \in 0 .. end |-> Round(L, o, end)]
    BY LoopEquation
  <2> HIDE DEF L
  <2> QED  BY <2>1
<1> HIDE DEF L
<1>1. ASSUME NEW k \in Bad, \A j \in Bad : k <= j
      PROVE  FALSE
  <2> DEFINE o == end - k
             n == o + Count(o, end)
  <2>1. o \in 0 .. end /\ ~Returns(L[o], o, end) /\ L[o] = Round(L, o, end)
    BY <1>0
  <2>2. CASE o = end
    <3>1. L[o] = <<>>
      BY <2>1, <2>2 DEF Round
    <3>2. AllReadable(o, end)
      BY <2>1, <2>2 DEF AllReadable
    <3>3. Bytes(o, end) = <<>>
      BY <2>2 DEF Bytes
    <3> QED  BY <3>1, <3>2, <3>3, <2>1, <2>2 DEF Returns
  <2>3. CASE o # end /\ ~Readable(o)
    <3>1. L[o] = <<Failed>>
      BY <2>1, <2>3 DEF Round
    <3>2. ~AllReadable(o, end)
      BY <2>1, <2>3 DEF AllReadable
    <3> QED  BY <3>1, <3>2, <2>1 DEF Returns
  <2>4. CASE o # end /\ Readable(o)
    <3>1. /\ n \in o + 1 .. end /\ Chunk(o, end) = Bytes(o, n) /\ Bytes(o, n) \in Seq(Byte)
          /\ Len(Bytes(o, n)) = n - o /\ AllReadable(o, n)
      BY <2>1, <2>4, ChunkIsBytes
    <3>2. L[o] = Bytes(o, n) \o L[n]
      BY <2>1, <2>4, <3>1 DEF Round
    <3> HIDE DEF o, n
    <3>3. Returns(L[n], n, end)
      <4>1. end - n \in 0 .. end /\ end - n < k /\ end - (end - n) = n
        BY <2>1, <3>1 DEF o
      <4>2. end - n \notin Bad
        BY <4>1, <1>1
      <4> QED  BY <4>1, <4>2
    <3>4. AllReadable(o, end) <=> AllReadable(n, end)
      BY <2>1, <3>1 DEF AllReadable
    <3>5. CASE AllReadable(n, end)
      <4>1. L[n] = Bytes(n, end) /\ L[n] \in Seq(Byte) /\ Len(L[n]) = end - n
        BY <3>3, <3>5 DEF Returns
      <4>2. L[o] = Bytes(o, end)
        <5>1. o \in Nat /\ n \in Nat /\ o <= n /\ n <= end
          BY <2>1, <3>1
        <5>2. Bytes(n, end) \in Seq(Byte)
          BY <4>1
        <5>3. Bytes(o, n) \o Bytes(n, end) = Bytes(o, end)
          BY <5>1, <5>2, <3>1, BytesJoin
        <5> QED  BY <5>3, <4>1, <3>2
      <4>3. L[o] \in Seq(Byte) /\ Len(L[o]) = end - o
        <5>1. L[o] \in Seq(Byte) /\ Len(L[o]) = Len(Bytes(o, n)) + Len(L[n])
          <6>1. L[n] \in Seq(Byte) /\ Bytes(o, n) \in Seq(Byte)
            BY <4>1, <3>1
          <6> QED  BY ONLY <6>1, <3>2, ConcatProperties
        <5> QED  BY <5>1, <4>1, <3>1, <2>1
      <4> QED  BY <4>2, <4>3, <3>4, <3>5, <2>1 DEF Returns
    <3>6. CASE ~AllReadable(n, end)
      <4> DEFINE B == Byte \cup {Failed}
      <4>1. L[n] \in Seq(B) /\ L[n] # <<>> /\ L[n][Len(L[n])] = Failed
        BY <3>3, <3>6 DEF Returns
      <4>2. Bytes(o, n) \in Seq(B)
        BY <3>1
      <4> HIDE DEF B
      <4>3. /\ L[o] \in Seq(B) /\ Len(L[o]) = Len(Bytes(o, n)) + Len(L[n]) /\ Len(L[n]) > 0
        BY <4>1, <4>2, <3>2
      <4>4. L[o][Len(L[o])] = L[n][Len(L[n])]
        BY <4>1, <4>2, <4>3, <3>2
      <4>5. Returns(L[o], o, end)
        BY <4>1, <4>3, <4>4, <3>4, <3>6 DEF Returns, B
      <4> QED  BY <4>5, <2>1
    <3> QED  BY <3>5, <3>6
  <2> QED  BY <2>2, <2>3, <2>4
<1>2. Bad = {}
  <2>1. Bad \subseteq Nat
    OBVIOUS
  <2> HIDE DEF Bad
  <2> QED  BY <1>1, <2>1, LeastNatural
<1>3. end - p \in 0 .. end /\ end - (end - p) = p /\ end - p \notin Bad
  BY <1>2
<1>4. Returns(L[end - (end - p)], end - (end - p), end)
  <2> HIDE DEF Bad
  <2> QED  BY <1>3 DEF Bad
<1> QED  BY <1>3, <1>4 DEF L
\* Where a read of len bytes at o stops.
End(o, len) == IF o + len <= file_size_in_bytes THEN o + len ELSE file_size_in_bytes

\* A call returns nothing behind the end of the file and for an empty buffer.
LEMMA ReadNothing ==
    ASSUME NEW o, NEW len, len = 0 \/ o >= file_size_in_bytes
    PROVE  volume_read_file_data(o, len) = <<>> /\ ~IsError(volume_read_file_data(o, len))
<1>1. volume_read_file_data(o, len) = <<>>
  BY DEF volume_read_file_data
<1> QED  BY <1>1 DEF IsError

\* Any other call returns what the loop returns, and fails exactly when a
\* position before its end cannot be read.
LEMMA ReadReturns ==
    ASSUME TypeOK, ExtentsStored, NEW o \in Nat, NEW len \in Nat,
           len # 0, o < file_size_in_bytes
    PROVE  /\ End(o, len) \in o + 1 .. file_size_in_bytes
           /\ Returns(volume_read_file_data(o, len), o, End(o, len))
           /\ IsError(volume_read_file_data(o, len)) <=> ~AllReadable(o, End(o, len))
<1> DEFINE r == volume_read_file_data(o, len)
           end == End(o, len)
<1>1. file_size_in_bytes \in Nat
  BY SizeAssumption DEF TypeOK
<1>2. end \in o + 1 .. file_size_in_bytes /\ end \in Nat /\ o \in 0 .. end
  BY <1>1 DEF End
<1>3. r = ReadLoop(end)[o]
  <2>1. Min({o + len, file_size_in_bytes}) = end
    BY <1>1, MinOfTwo DEF End
  <2>2. ~(len = 0 \/ o >= file_size_in_bytes)
    BY <1>1
  <2> QED  BY <2>1, <2>2 DEF volume_read_file_data
<1>4. Returns(r, o, end)
  BY <1>2, <1>3, LoopReturns
<1> HIDE DEF r, end
<1>5. ASSUME AllReadable(o, end) PROVE ~IsError(r)
  <2>1. r \in Seq(Byte) /\ Len(r) = end - o
    BY <1>4, <1>5 DEF Returns
  <2>2. Len(r) \in 1 .. Len(r)
    BY <2>1, <1>2
  <2>3. r[Len(r)] \in Byte
    BY <2>1, <2>2, ElementOfSeq
  <2> QED  BY <2>3, MarkerAssumption DEF IsError, Byte
<1>6. ASSUME ~AllReadable(o, end) PROVE IsError(r)
  BY <1>4, <1>6 DEF Returns, IsError
<1>7. IsError(r) <=> ~AllReadable(o, end)
  BY <1>5, <1>6
<1> QED  BY <1>2, <1>4, <1>7 DEF r, end

\* One long read and short ones agree, because each byte is found by its own
\* position.
LEMMA ComposeHolds == TypeOK /\ ExtentsStored => ReadsCompose
<1> SUFFICES ASSUME TypeOK, ExtentsStored, NEW o \in Position, NEW len \in 2 .. MaxFileSize,
                    ~IsError(volume_read_file_data(o, len))
             PROVE  volume_read_file_data(o, len) =
                      volume_read_file_data(o, len - 1) \o volume_read_file_data(o + len - 1, 1)
  BY DEF ReadsCompose
<1> DEFINE size == file_size_in_bytes
           last == o + len - 1
<1>1. /\ o \in Nat /\ len \in Nat /\ len - 1 \in Nat /\ last \in Nat /\ len >= 2
      /\ size \in Nat /\ last >= o + 1 /\ last + 1 = o + len /\ last = o + (len - 1)
  BY SizeAssumption DEF TypeOK, Position
<1>2. CASE o >= size
  <2>1. /\ volume_read_file_data(o, len) = <<>> /\ volume_read_file_data(o, len - 1) = <<>>
        /\ volume_read_file_data(last, 1) = <<>>
    <3>1. last >= size
      BY <1>1, <1>2
    <3> HIDE DEF last
    <3> QED  BY <1>2, <3>1, ReadNothing
  <2> QED  BY <2>1
<1>3. CASE o < size
  <2> DEFINE end == End(o, len)
             mid == End(o, len - 1)
  <2>1. /\ end \in o + 1 .. size /\ AllReadable(o, end)
        /\ volume_read_file_data(o, len) = Bytes(o, end)
    <3>1. len # 0
      BY <1>1
    <3> QED  BY <1>1, <1>3, <3>1, ReadReturns DEF Returns
  <2>2. mid \in o + 1 .. size /\ mid <= end
    BY <1>1, <1>3 DEF End
  <2>3. AllReadable(o, mid) /\ AllReadable(mid, end)
    BY <1>1, <2>1, <2>2 DEF AllReadable
  <2>4. volume_read_file_data(o, len - 1) = Bytes(o, mid) /\ Bytes(o, mid) \in Seq(Byte)
    <3>1. len - 1 # 0
      BY <1>1
    <3>2. Returns(volume_read_file_data(o, len - 1), o, mid)
      BY <1>1, <1>3, <3>1, ReadReturns
    <3> QED  BY <3>2, <2>3 DEF Returns
  <2>5. CASE last >= size
    <3>1. mid = size /\ end = size
      BY <1>1, <1>3, <2>5 DEF End
    <3>2. volume_read_file_data(last, 1) = <<>>
      <4> HIDE DEF last
      <4> QED  BY <2>5, ReadNothing
    <3>3. Bytes(o, mid) \o <<>> = Bytes(o, mid)
      BY <2>4, ConcatEmptySeq
    <3> QED  BY <2>1, <2>4, <3>1, <3>2, <3>3
  <2>6. CASE last < size
    <3>1. mid = last /\ end = last + 1 /\ End(last, 1) = end
      BY <1>1, <1>3, <2>6 DEF End
    <3>2. Returns(volume_read_file_data(last, 1), last, end)
      <4>1. Returns(volume_read_file_data(last, 1), last, End(last, 1))
        <5> HIDE DEF last
        <5> QED  BY <1>1, <2>6, ReadReturns
      <4> QED  BY <3>1, <4>1
    <3>3. volume_read_file_data(last, 1) = Bytes(mid, end) /\ Bytes(mid, end) \in Seq(Byte)
      BY <3>1, <3>2, <2>3 DEF Returns
    <3>4. Bytes(o, mid) \o Bytes(mid, end) = Bytes(o, end)
      <4>1. o \in Nat /\ mid \in Nat /\ end \in Nat /\ o <= mid /\ mid <= end
        BY <1>1, <2>1, <2>2
      <4> HIDE DEF mid, end
      <4> QED  BY <4>1, <2>4, <3>3, BytesJoin
    <3> QED  BY <2>1, <2>4, <3>3, <3>4
  <2> QED  BY <1>1, <2>5, <2>6
<1> QED  BY <1>1, <1>2, <1>3
\* The block a readable position is read from is what its checksum was taken of.
LEMMA ReadableBlock ==
    ASSUME TypeOK, ExtentsStored, NEW p \in Nat, Readable(p)
    PROVE  ByteAt(p) = checksums[BlockOf(p)][Within(p)]
<1>1. CoveringExtents(p) # {} /\ ChecksumHolds(BlockOf(p))
  BY DEF Readable
<1>2. Start(p) \in Recorded /\ BlockOf(p) \in ExtentBlocks(Start(p))
  BY <1>1, BlockInExtent
<1>3. checksums[BlockOf(p)] # NoBlock
  BY <1>2 DEF ExtentsStored
<1> QED  BY <1>1, <1>3 DEF ChecksumHolds, ByteAt

\* A byte that is read was written at its position, or is padding.
LEMMA OwnHolds == FileInv => OnlyOwnBytes
<1> SUFFICES ASSUME FileInv, NEW o \in Position, NEW len \in 0 .. MaxFileSize,
                    ~IsError(volume_read_file_data(o, len)),
                    NEW i \in DOMAIN volume_read_file_data(o, len)
             PROVE  volume_read_file_data(o, len)[i] \in {0} \cup written[o + i - 1]
  BY DEF OnlyOwnBytes
<1> DEFINE r == volume_read_file_data(o, len)
           end == End(o, len)
<1>1. TypeOK /\ ExtentsStored /\ ChecksumsOwn /\ o \in Nat /\ len \in Nat
  BY SizeAssumption DEF FileInv, Position
<1>2. len # 0 /\ o < file_size_in_bytes
  <2>1. CASE len = 0 \/ o >= file_size_in_bytes
    <3>1. r = <<>>
      BY <2>1, ReadNothing
    <3> QED  BY <3>1
  <2>2. file_size_in_bytes \in Nat
    BY <1>1, SizeAssumption DEF TypeOK
  <2> QED  BY <1>1, <2>1, <2>2
<1>3. /\ end \in o + 1 .. file_size_in_bytes /\ AllReadable(o, end)
      /\ Returns(r, o, end)
  BY <1>1, <1>2, ReadReturns
<1>4. r = Bytes(o, end) /\ end \in Nat
  BY <1>1, <1>3 DEF Returns
<1> DEFINE p == o + (i - 1)
<1>5. i \in 1 .. (end - o)
  BY <1>4 DEF Bytes
<1>6. p \in Nat /\ p \in o .. (end - 1) /\ p = o + i - 1
  BY <1>1, <1>4, <1>5
<1>7. r[i] = ByteAt(p)
  BY <1>4, <1>5 DEF Bytes
<1>8. Readable(p)
  BY <1>3, <1>6 DEF AllReadable
<1> HIDE DEF p
<1>9. ByteAt(p) = checksums[BlockOf(p)][Within(p)] /\ CoveringExtents(p) # {}
  BY <1>1, <1>6, <1>8, ReadableBlock DEF Readable
<1> DEFINE s == Start(p)
           q == (p - s) \div BlockSize
<1>10. /\ s \in Recorded /\ q \in 0 .. (extents[s].block_count - 1)
       /\ BlockOf(p) = extents[s].first_disk_block + q
       /\ Within(p) \in 0 .. (BlockSize - 1) /\ p = s + q * BlockSize + Within(p)
  BY <1>1, <1>6, <1>9, BlockInExtent
<1> HIDE DEF s, q
<1>11. ByteAt(p) = 0 \/ ByteAt(p) \in written[p]
  BY <1>1, <1>9, <1>10 DEF ChecksumsOwn
<1> QED  BY <1>6, <1>7, <1>11 DEF p

\* A file of supported writes reads back, unless a block is damaged.
LEMMA BackHolds == FileInv => ReadsBack
<1> SUFFICES ASSUME FileInv, status = "live", supported,
                    NEW o \in Position, NEW len \in 0 .. MaxFileSize
             PROVE  IF IsError(volume_read_file_data(o, len)) THEN rot > 0
                    ELSE volume_read_file_data(o, len) = Slice(o, len)
  BY DEF ReadsBack
<1> DEFINE r == volume_read_file_data(o, len)
           end == End(o, len)
           size == file_size_in_bytes
<1>1. /\ TypeOK /\ ExtentsStored /\ DamageCounted /\ FirstIsCurrent
      /\ o \in Nat /\ len \in Nat /\ size \in Nat /\ size = Len(reference)
      /\ reference \in Seq(Nat) /\ rot \in Nat
  BY SizeAssumption DEF FileInv, Position, TypeOK, SizeTracked
<1>2. Slice(o, len) = SubSeq(reference, o + 1, end)
  <2>1. o + len \in Int /\ size \in Int
    BY <1>1
  <2>2. Min({o + len, size}) = end
    BY <2>1, MinOfTwo DEF End
  <2> QED  BY <1>1, <2>2 DEF Slice
<1>3. CASE len = 0 \/ o >= size
  <2>1. r = <<>> /\ ~IsError(r)
    BY <1>3, ReadNothing
  <2>2. end \in Nat /\ end < o + 1
    BY <1>1, <1>3 DEF End
  <2>3. SubSeq(reference, o + 1, end) = <<>>
    <3> HIDE DEF end
    <3> QED  BY <1>1, <2>2, SubSeqProperties
  <2> QED  BY <1>2, <2>1, <2>3
<1>4. CASE len # 0 /\ o < size
  <2>1. /\ end \in o + 1 .. size /\ Returns(r, o, end)
        /\ IsError(r) <=> ~AllReadable(o, end)
    BY <1>1, <1>4, ReadReturns
  <2>2. \A p \in o .. (end - 1) :
           /\ p \in Nat /\ CoveringExtents(p) # {}
           /\ checksums[BlockOf(p)][Within(p)] = reference[p + 1]
    <3>1. \A p \in 0 .. (size - 1) :
             /\ CoveringExtents(p) # {}
             /\ checksums[BlockOf(p)][Within(p)] = reference[p + 1]
      BY <1>1 DEF FirstIsCurrent
    <3>2. \A p \in o .. (end - 1) : p \in Nat /\ p \in 0 .. (size - 1)
      BY <1>1, <2>1
    <3> QED  BY <3>1, <3>2
  <2>3. CASE IsError(r)
    <3>1. PICK p \in o .. (end - 1) : ~Readable(p)
      BY <2>1, <2>3 DEF AllReadable
    <3>2. ~ChecksumHolds(BlockOf(p))
      BY <3>1, <2>2 DEF Readable
    <3>3. rot # 0
      BY <3>2, <1>1 DEF ChecksumHolds, DamageCounted
    <3> QED  BY <1>1, <2>3, <3>3
  <2>4. CASE ~IsError(r)
    <3> HIDE DEF end, r
    <3>1. AllReadable(o, end) /\ r = Bytes(o, end) /\ end \in Nat
      BY <1>1, <2>1, <2>4 DEF Returns
    <3>2. \A i \in 1 .. (end - o) : r[i] = reference[o + i]
      <4> SUFFICES ASSUME NEW i \in 1 .. (end - o) PROVE r[i] = reference[o + i]
        OBVIOUS
      <4> DEFINE p == o + (i - 1)
      <4>1. p \in Nat /\ p \in o .. (end - 1) /\ p + 1 = o + i
        BY <1>1, <3>1
      <4>2. r[i] = ByteAt(p)
        BY <3>1 DEF Bytes
      <4> HIDE DEF p
      <4>3. ByteAt(p) = checksums[BlockOf(p)][Within(p)]
        BY <1>1, <3>1, <4>1, ReadableBlock DEF AllReadable
      <4> QED  BY <2>2, <4>1, <4>2, <4>3
    <3>3. r = [i \in 1 .. (end - o) |-> reference[o + i]]
      BY <3>1, <3>2 DEF Bytes
    <3>4. SubSeq(reference, o + 1, end) = [i \in 1 .. (end - o) |-> reference[o + i]]
      BY <1>1, <2>1, <3>1
    <3> QED  BY <1>2, <2>4, <3>3, <3>4 DEF r
  <2> QED  BY <2>3, <2>4
<1> QED  BY <1>1, <1>3, <1>4
---------------------------------------------------------------------------
\* What a write leaves behind.

\* The steps a write has taken when its extent is recorded, or was about to be.
Attempt(o, len) ==
    /\ CanWrite(o, len) /\ AllocateDataBlocks(len)
    /\ UNCHANGED extents \/ RecordExtent(o, len)
    /\ RecordAttempt(o, len)

\* The number of blocks a write takes, and the blocks.
Taken(len) == CeilDiv(len, BlockSize)
NewBlocks(len) == next_free_block .. (next_free_block + (Taken(len) - 1))
NewRecord(len) == [first_disk_block |-> next_free_block, block_count |-> Taken(len)]

\* The blocks of a write hold its bytes, and the last one holds at least one.
LEMMA BlocksTaken ==
    ASSUME NEW len \in Nat \ {0}
    PROVE  /\ Taken(len) \in Nat \ {0}
           /\ len <= Taken(len) * BlockSize
           /\ (Taken(len) - 1) * BlockSize < len
<1> DEFINE m == BlockSize
           k == len + (m - 1)
           n == k \div m
<1>1. m \in Nat \ {0} /\ k \in Nat /\ k >= m
  BY SizeAssumption
<1>2. n \in Nat /\ k % m \in 0 .. (m - 1) /\ k = (n * m) + (k % m)
  BY <1>1, DivMod
<1>3. Taken(len) = n
  BY <1>1 DEF Taken, CeilDiv
<1> HIDE DEF n
<1>4. n # 0
  BY <1>1, <1>2
<1>5. (n - 1) * m = (n * m) - m /\ n * m \in Nat
  BY <1>1, <1>2
<1>6. len <= n * m /\ (n * m) - m < len
  BY <1>1, <1>2, <1>5
<1> QED  BY <1>2, <1>3, <1>4, <1>5, <1>6

\* What a block of a write holds.
LEMMA BufferTypes ==
    ASSUME NEW i \in Nat, NEW len \in Nat, NEW id \in Nat
    PROVE  BlockBuffer(i, len, id) \in DataBlock /\ BlockBuffer(i, len, id) # NoBlock
<1>1. BlockBuffer(i, len, id) \in DataBlock
  BY DEF BlockBuffer, DataBlock
<1> QED  BY <1>1, MarkerAssumption

\* The new blocks are blocks of the device; they and their checksums hold the
\* data, and no other block changes.
LEMMA BlocksWritten ==
    ASSUME TypeOK, NEW len \in Nat \ {0},
           next_free_block + Taken(len) <= TotalBlocks, AllocateDataBlocks(len)
    PROVE  /\ NewBlocks(len) \subseteq Address
           /\ next_free_block' \in Nat
           /\ next_free_block' >= next_free_block + Taken(len)
           /\ blocks' \in [Address -> DataBlock \cup {NoBlock}]
           /\ checksums' \in [Address -> DataBlock \cup {NoBlock}]
           /\ \A i \in 0 .. (Taken(len) - 1) :
                 /\ next_free_block + i \in NewBlocks(len)
                 /\ blocks'[next_free_block + i] = BlockBuffer(i, len, writes + 1)
                 /\ checksums'[next_free_block + i] = BlockBuffer(i, len, writes + 1)
           /\ \A a \in NewBlocks(len) :
                 blocks'[a] = checksums'[a] /\ blocks'[a] # NoBlock
           /\ \A a \in Address \ NewBlocks(len) :
                 blocks'[a] = blocks[a] /\ checksums'[a] = checksums[a]
<1> DEFINE n == Taken(len)
           f == next_free_block
           Buffer(a) == BlockBuffer(a - f, len, writes + 1)
<1>1. /\ n \in Nat \ {0} /\ f \in Nat /\ f + n <= TotalBlocks /\ writes + 1 \in Nat
      /\ TotalBlocks \in Nat /\ MetadataBlocks \in Nat
  BY BlocksTaken, SizeAssumption DEF TypeOK
<1>2. /\ blocks' = [a \in Address |-> IF a \in NewBlocks(len) THEN Buffer(a) ELSE blocks[a]]
      /\ checksums' = [a \in Address |-> IF a \in NewBlocks(len) THEN Buffer(a) ELSE checksums[a]]
      /\ next_free_block' = f + (n + MetadataBlocks)
  BY <1>1 DEF AllocateDataBlocks, NewBlocks, Taken
<1> HIDE DEF n
<1>3. NewBlocks(len) \subseteq Address
  BY <1>1 DEF NewBlocks, Address, n
<1>4. \A a \in NewBlocks(len) : a - f \in Nat
  BY <1>1 DEF NewBlocks, n
<1>5. \A a \in NewBlocks(len) : Buffer(a) \in DataBlock /\ Buffer(a) # NoBlock
  BY <1>1, <1>4, BufferTypes
<1>6. blocks \in [Address -> DataBlock \cup {NoBlock}] /\ checksums \in [Address -> DataBlock \cup {NoBlock}]
  BY DEF TypeOK
<1>7. \A i \in 0 .. (n - 1) : f + i \in NewBlocks(len) /\ (f + i) - f = i
  BY <1>1 DEF NewBlocks, n
<1>8. /\ blocks' \in [Address -> DataBlock \cup {NoBlock}]
      /\ checksums' \in [Address -> DataBlock \cup {NoBlock}]
  <2> HIDE DEF Buffer
  <2> QED  BY <1>2, <1>5, <1>6
<1>9. \A a \in NewBlocks(len) : blocks'[a] = Buffer(a) /\ checksums'[a] = Buffer(a)
  <2> HIDE DEF Buffer
  <2> QED  BY <1>2, <1>3
<1>10. \A a \in Address \ NewBlocks(len) : blocks'[a] = blocks[a] /\ checksums'[a] = checksums[a]
  <2> HIDE DEF Buffer
  <2> QED  BY <1>2
<1>11. \A i \in 0 .. (n - 1) :
          /\ blocks'[f + i] = BlockBuffer(i, len, writes + 1)
          /\ checksums'[f + i] = BlockBuffer(i, len, writes + 1)
  BY <1>7, <1>9
<1>12. next_free_block' \in Nat /\ next_free_block' >= f + n
  BY <1>1, <1>2
<1>13. \A a \in NewBlocks(len) : blocks'[a] = checksums'[a] /\ blocks'[a] # NoBlock
  <2> HIDE DEF Buffer
  <2> QED  BY <1>5, <1>9
<1> QED  BY <1>3, <1>7, <1>8, <1>10, <1>11, <1>12, <1>13 DEF n
\* What every write is: a number of bytes that fit in the file and the device.
LEMMA WriteTypes ==
    ASSUME TypeOK, NEW o \in Position, NEW len \in 1 .. MaxFileSize, CanWrite(o, len)
    PROVE  /\ len \in Nat \ {0} /\ o \in Nat /\ o + len <= MaxFileSize
           /\ next_free_block \in Nat /\ next_free_block + Taken(len) <= TotalBlocks
           /\ NewRecord(len) \in ExtentRecord
           /\ writes + 1 \in Nat
<1>1. len \in Nat \ {0} /\ o \in Nat /\ next_free_block \in Nat /\ writes + 1 \in Nat
  BY SizeAssumption DEF TypeOK, Position
<1>2. Taken(len) \in Nat \ {0}
  BY <1>1, BlocksTaken
<1> QED  BY <1>1, <1>2 DEF CanWrite, Taken, NewRecord, ExtentRecord

\* An extent record is an old one, or that of the write.
LEMMA RecordsAfter ==
    ASSUME TypeOK, NEW o \in Position, NEW len \in 1 .. MaxFileSize, Attempt(o, len)
    PROVE  /\ extents' \in [Position -> ExtentRecord \cup {NoExtent}]
           /\ \A x \in Recorded' :
                \/ x \in Recorded /\ extents'[x] = extents[x]
                \/ x = o /\ extents'[x] = NewRecord(len)
<1>1. extents \in [Position -> ExtentRecord \cup {NoExtent}]
  BY DEF TypeOK
<1>2. NewRecord(len) \in ExtentRecord
  BY WriteTypes DEF Attempt
<1>3. extents' = extents \/ extents' = [extents EXCEPT ![o] = NewRecord(len)]
  BY DEF Attempt, RecordExtent, NewRecord, Taken
<1>4. CASE extents' = extents
  BY <1>1, <1>4 DEF Recorded
<1>5. CASE extents' = [extents EXCEPT ![o] = NewRecord(len)]
  BY <1>1, <1>2, <1>5 DEF Recorded
<1> QED  BY <1>3, <1>4, <1>5

\* Its blocks are those it had, none of them new, or the new ones.
LEMMA RecordBlocksAfter ==
    ASSUME TypeOK, ExtentsStored, NEW o \in Position, NEW len \in 1 .. MaxFileSize,
           Attempt(o, len), NEW x \in Recorded'
    PROVE  \/ /\ x \in Recorded /\ extents'[x] = extents[x]
              /\ ExtentBlocks(x)' = ExtentBlocks(x)
              /\ ExtentBlocks(x) \subseteq Address \ NewBlocks(len)
           \/ /\ x = o /\ extents'[x] = NewRecord(len)
              /\ ExtentBlocks(x)' = NewBlocks(len)
<1>1. \/ x \in Recorded /\ extents'[x] = extents[x]
      \/ x = o /\ extents'[x] = NewRecord(len)
  BY RecordsAfter
<1>2. CASE x \in Recorded /\ extents'[x] = extents[x]
  <2>1. ExtentBlocks(x)' = ExtentBlocks(x)
    BY <1>2 DEF ExtentBlocks
  <2>2. ExtentBlocks(x) \subseteq Address
    BY <1>2 DEF TypeOK, Recorded
  <2>3. next_free_block \in Nat /\ \A a \in ExtentBlocks(x) : a < next_free_block
    BY <1>2 DEF ExtentsStored, TypeOK
  <2>4. \A a \in Address : a < next_free_block => a \notin NewBlocks(len)
    BY <2>3, SizeAssumption DEF NewBlocks, Address
  <2> QED  BY <1>2, <2>1, <2>2, <2>3, <2>4
<1>3. CASE x = o /\ extents'[x] = NewRecord(len)
  <2>1. next_free_block \in Nat /\ Taken(len) \in Nat
    <3>1. len \in Nat \ {0} /\ next_free_block \in Nat
      BY WriteTypes DEF Attempt
    <3> QED  BY <3>1, BlocksTaken
  <2>2. /\ extents'[x].first_disk_block = next_free_block
        /\ extents'[x].block_count = Taken(len)
    BY <1>3 DEF NewRecord
  <2>3. ExtentBlocks(x)' = NewBlocks(len)
    BY <2>1, <2>2 DEF ExtentBlocks, NewBlocks
  <2> QED  BY <1>3, <2>3
<1> QED  BY <1>1, <1>2, <1>3

\* A write leaves the extents in the device, with contents and checksums.
LEMMA WriteStored ==
    ASSUME TypeOK, ExtentsStored, NEW o \in Position, NEW len \in 1 .. MaxFileSize,
           Attempt(o, len)
    PROVE  /\ ExtentsStored'
           /\ \A x \in Recorded' : ExtentBlocks(x)' \subseteq Address
<1>1. /\ len \in Nat \ {0} /\ next_free_block \in Nat
      /\ next_free_block + Taken(len) <= TotalBlocks /\ AllocateDataBlocks(len)
  BY WriteTypes DEF Attempt
<1>2. /\ NewBlocks(len) \subseteq Address /\ next_free_block' \in Nat
      /\ next_free_block' >= next_free_block + Taken(len)
      /\ \A a \in NewBlocks(len) : blocks'[a] = checksums'[a] /\ blocks'[a] # NoBlock
      /\ \A a \in Address \ NewBlocks(len) : blocks'[a] = blocks[a] /\ checksums'[a] = checksums[a]
  BY <1>1, BlocksWritten
<1>3. Taken(len) \in Nat
  BY <1>1, BlocksTaken
<1>4. \A a \in NewBlocks(len) : a < next_free_block'
  BY <1>1, <1>2, <1>3 DEF NewBlocks
<1>5. \A a \in Address : a < next_free_block => a < next_free_block'
  BY <1>1, <1>2, <1>3, SizeAssumption DEF Address
<1>6. ASSUME NEW x \in Recorded', NEW a \in ExtentBlocks(x)'
      PROVE  a \in Address /\ a < next_free_block' /\ blocks'[a] # NoBlock /\ checksums'[a] # NoBlock
  <2>1. CASE /\ x \in Recorded /\ ExtentBlocks(x)' = ExtentBlocks(x)
             /\ ExtentBlocks(x) \subseteq Address \ NewBlocks(len)
    <3>1. /\ a \in ExtentBlocks(x) /\ a \in Address /\ a \notin NewBlocks(len)
          /\ a < next_free_block /\ blocks[a] # NoBlock /\ checksums[a] # NoBlock
      BY <1>6, <2>1 DEF ExtentsStored
    <3> QED  BY <3>1, <1>2, <1>5
  <2>2. CASE ExtentBlocks(x)' = NewBlocks(len)
    BY <1>2, <1>4, <1>6, <2>2
  <2> QED  BY <2>1, <2>2, <1>6, RecordBlocksAfter
<1>7. ExtentsStored'
  BY <1>6 DEF ExtentsStored
<1> QED  BY <1>6, <1>7
\* Byte j of block i of a write is its own up to its length, and padding behind.
LEMMA BufferByte ==
    ASSUME NEW i, NEW j \in 0 .. (BlockSize - 1), NEW len, NEW id
    PROVE  BlockBuffer(i, len, id)[j] = IF i * BlockSize + j < len THEN id ELSE 0
  BY DEF BlockBuffer

\* A write adds itself to what was written at each of its positions.
LEMMA WrittenAfter ==
    ASSUME TypeOK, NEW o \in Position, NEW len \in 1 .. MaxFileSize, Attempt(o, len)
    PROVE  /\ written' \in [Position -> SUBSET Nat]
           /\ writes' \in Nat
           /\ \A p \in Position :
                 /\ written[p] \subseteq written'[p]
                 /\ o <= p /\ p < o + len => writes + 1 \in written'[p]
<1>1. writes + 1 \in Nat /\ written \in [Position -> SUBSET Nat]
  BY DEF TypeOK
<1>2. /\ writes' = writes + 1
      /\ written' = [p \in Position |-> IF o <= p /\ p < o + len
                                        THEN written[p] \cup {writes + 1} ELSE written[p]]
  BY DEF Attempt, RecordAttempt
<1> QED  BY <1>1, <1>2

\* A write keeps the checksums the file's own.
LEMMA WriteOwn ==
    ASSUME TypeOK, ExtentsStored, ChecksumsOwn,
           NEW o \in Position, NEW len \in 1 .. MaxFileSize, Attempt(o, len)
    PROVE  ChecksumsOwn'
<1> SUFFICES ASSUME NEW x \in Recorded',
                    NEW i \in 0 .. (extents'[x].block_count - 1), NEW j \in 0 .. (BlockSize - 1)
             PROVE  LET p == x + i * BlockSize + j
                        byte == checksums'[extents'[x].first_disk_block + i][j]
                    IN  byte = 0 \/ (p \in Position /\ byte \in written'[p])
  BY DEF ChecksumsOwn
<1> DEFINE p == x + i * BlockSize + j
           a == extents'[x].first_disk_block + i
<1>1. /\ len \in Nat \ {0} /\ o \in Nat /\ o + len <= MaxFileSize /\ next_free_block \in Nat
      /\ next_free_block + Taken(len) <= TotalBlocks /\ AllocateDataBlocks(len)
  BY WriteTypes DEF Attempt
<1>2. CASE /\ x \in Recorded /\ extents'[x] = extents[x]
           /\ ExtentBlocks(x) \subseteq Address \ NewBlocks(len)
  <2>1. checksums[a][j] = 0 \/ (p \in Position /\ checksums[a][j] \in written[p])
    BY <1>2 DEF ChecksumsOwn
  <2>2. a \in ExtentBlocks(x)
    <3>1. extents[x].first_disk_block \in Nat /\ extents[x].block_count \in Nat
      BY <1>2, ExtentTypes
    <3>2. a = extents[x].first_disk_block + i /\ i \in 0 .. (extents[x].block_count - 1)
      BY <1>2
    <3> QED  BY <3>1, <3>2 DEF ExtentBlocks
  <2> HIDE DEF a, p
  <2>3. a \in Address \ NewBlocks(len)
    BY <1>2, <2>2
  <2>4. checksums'[a] = checksums[a]
    BY <1>1, <2>3, BlocksWritten
  <2>5. p \in Position => written[p] \subseteq written'[p]
    BY WrittenAfter
  <2>6. checksums'[a][j] = 0 \/ (p \in Position /\ checksums'[a][j] \in written'[p])
    BY <2>1, <2>4, <2>5
  <2> QED  BY <2>6 DEF a, p
<1>3. CASE x = o /\ extents'[x] = NewRecord(len)
  <2>1. i \in 0 .. (Taken(len) - 1) /\ a = next_free_block + i /\ p = o + i * BlockSize + j
    BY <1>3 DEF NewRecord
  <2>2. Taken(len) \in Nat /\ i \in Nat /\ j \in Nat /\ i * BlockSize \in Nat
    BY <1>1, <2>1, BlocksTaken, SizeAssumption
  <2>3. checksums'[next_free_block + i] = BlockBuffer(i, len, writes + 1)
    BY <1>1, <2>1, BlocksWritten
  <2>4. checksums'[a][j] = IF i * BlockSize + j < len THEN writes + 1 ELSE 0
    BY <2>1, <2>3, BufferByte
  <2> DEFINE m == i * BlockSize
  <2> HIDE DEF m
  <2>5. ASSUME m + j < len
        PROVE  p \in Position /\ o <= p /\ p < o + len
    BY <1>1, <2>1, <2>2, <2>5, SizeAssumption DEF Position, m
  <2>6. m + j < len => writes + 1 \in written'[p]
    <3> HIDE DEF p
    <3> QED  BY <2>5, WrittenAfter
  <2>7. checksums'[a][j] = 0 \/ (p \in Position /\ checksums'[a][j] \in written'[p])
    <3> HIDE DEF p, a
    <3> QED  BY <2>4, <2>5, <2>6 DEF m
  <2> QED  BY <2>7
<1> QED  BY <1>2, <1>3, RecordBlocksAfter

\* A write takes the checksum of every block it writes.
LEMMA WriteCounted ==
    ASSUME TypeOK, DamageCounted, NEW o \in Position, NEW len \in 1 .. MaxFileSize,
           Attempt(o, len), rot' = rot
    PROVE  DamageCounted'
<1> SUFFICES ASSUME rot = 0 PROVE blocks' = checksums'
  BY DEF DamageCounted
<1>1. blocks = checksums
  BY DEF DamageCounted
<1>2. /\ len \in Nat \ {0} /\ next_free_block + Taken(len) <= TotalBlocks
      /\ AllocateDataBlocks(len)
  BY WriteTypes DEF Attempt
<1>3. /\ blocks' \in [Address -> DataBlock \cup {NoBlock}]
      /\ checksums' \in [Address -> DataBlock \cup {NoBlock}]
      /\ \A a \in NewBlocks(len) : blocks'[a] = checksums'[a]
      /\ \A a \in Address \ NewBlocks(len) : blocks'[a] = blocks[a] /\ checksums'[a] = checksums[a]
  BY <1>2, BlocksWritten
<1>4. \A a \in Address : blocks'[a] = checksums'[a]
  BY <1>1, <1>3
<1> QED  BY <1>3, <1>4
\* The reference content after a write.
LEMMA OverlayTypes ==
    ASSUME TypeOK, NEW o \in Position, NEW len \in 1 .. MaxFileSize, CanWrite(o, len)
    PROVE  LET size == IF o + len <= Len(reference) THEN Len(reference) ELSE o + len
           IN  /\ Overlay(o, len) \in Seq(Nat)
               /\ Len(Overlay(o, len)) = size
               /\ size \in Nat /\ size <= MaxFileSize
               /\ \A i \in 1 .. size :
                     Overlay(o, len)[i] = IF o < i /\ i <= o + len THEN writes + 1
                                          ELSE IF i <= Len(reference) THEN reference[i] ELSE 0
<1> DEFINE size == IF o + len <= Len(reference) THEN Len(reference) ELSE o + len
           Byte_(i) == IF o < i /\ i <= o + len THEN writes + 1
                       ELSE IF i <= Len(reference) THEN reference[i] ELSE 0
<1>1. /\ len \in Nat \ {0} /\ o \in Nat /\ o + len <= MaxFileSize /\ writes + 1 \in Nat
      /\ MaxFileSize \in Nat
  BY WriteTypes, SizeAssumption
<1>2. reference \in Seq(Nat) /\ Len(reference) \in Nat /\ Len(reference) <= MaxFileSize
  BY LenProperties DEF TypeOK
<1>3. size \in Nat /\ size <= MaxFileSize
  BY <1>1, <1>2
<1>4. Max({Len(reference), o + len}) = size
  <2>1. Len(reference) \in Int /\ o + len \in Int
    BY <1>1, <1>2
  <2>2. Max({Len(reference), o + len}) = IF Len(reference) <= o + len THEN o + len ELSE Len(reference)
    BY <2>1, MaxOfTwo
  <2> QED  BY <2>1, <2>2
<1>5. Overlay(o, len) = [i \in 1 .. size |-> Byte_(i)]
  BY <1>4 DEF Overlay
<1>6. \A i \in 1 .. size : Byte_(i) \in Nat
  <2> SUFFICES ASSUME NEW i \in 1 .. size PROVE Byte_(i) \in Nat
    OBVIOUS
  <2>1. i \in Nat \ {0}
    BY <1>3
  <2>2. i <= Len(reference) => reference[i] \in Nat
    BY <1>2, <2>1, ElementOfSeq
  <2> QED  BY <1>1, <2>2
<1> HIDE DEF size, Byte_
<1>7. Overlay(o, len) \in Seq(Nat) /\ Len(Overlay(o, len)) = size
  BY <1>3, <1>5, <1>6, IsASeq
<1>8. \A i \in 1 .. size : Overlay(o, len)[i] = Byte_(i)
  BY <1>5
<1> QED  BY <1>3, <1>7, <1>8 DEF size, Byte_

\* The size and the block count that UpdateInode stores.
LEMMA InodeAfter ==
    ASSUME TypeOK, NEW o \in Position, NEW len \in 1 .. MaxFileSize, CanWrite(o, len),
           UpdateInode(o, len)
    PROVE  /\ file_size_in_bytes' = IF o + len <= file_size_in_bytes THEN file_size_in_bytes ELSE o + len
           /\ file_size_in_bytes' \in 0 .. MaxFileSize
           /\ allocated_block_count' \in Nat
<1>1. /\ len \in Nat \ {0} /\ o \in Nat /\ o + len <= MaxFileSize /\ MaxFileSize \in Nat
      /\ file_size_in_bytes \in 0 .. MaxFileSize /\ allocated_block_count \in Nat
  BY WriteTypes, SizeAssumption DEF TypeOK
<1>2. file_size_in_bytes' = IF o + len <= file_size_in_bytes THEN file_size_in_bytes ELSE o + len
  <2>1. o + len \in Int /\ file_size_in_bytes \in Int
    BY <1>1
  <2>2. file_size_in_bytes' = Max({o + len, file_size_in_bytes})
    BY DEF UpdateInode
  <2> QED  BY <2>1, <2>2, MaxOfTwo
<1>3. allocated_block_count' \in Nat
  <2>1. allocated_block_count' = allocated_block_count + Taken(len)
    BY DEF UpdateInode, Taken
  <2>2. Taken(len) \in Nat
    BY <1>1, BlocksTaken
  <2> QED  BY <1>1, <2>1, <2>2
<1> QED  BY <1>1, <1>2, <1>3

\* The reference content of a write that returns Ok, and its length.
LEMMA WriteSize ==
    ASSUME FileInv, NEW o \in Position, NEW len \in 1 .. MaxFileSize, WriteFileData(o, len)
    PROVE  /\ file_size_in_bytes' = IF o + len <= file_size_in_bytes THEN file_size_in_bytes ELSE o + len
           /\ file_size_in_bytes' \in 0 .. MaxFileSize
           /\ allocated_block_count' \in Nat
           /\ reference' \in Seq(Nat) /\ Len(reference') <= MaxFileSize
           /\ Len(reference') = IF o + len <= Len(reference) THEN Len(reference) ELSE o + len
<1>1. TypeOK /\ CanWrite(o, len) /\ UpdateInode(o, len) /\ reference' = Overlay(o, len)
  BY DEF FileInv, WriteFileData
<1> QED  BY <1>1, InodeAfter, OverlayTypes

\* A new write ends where it ends, and leaves the ends of the others.
LEMMA EndsAfter ==
    ASSUME FileInv, NEW o \in Position, NEW len \in 1 .. MaxFileSize, Attempt(o, len)
    PROVE  /\ \A p \in Position : \A w \in written'[p] : w <= writes'
           /\ \A n \in 1 .. MaxFileSize : SomeWriteEndsAt(n) => SomeWriteEndsAt(n)'
           /\ \A n : n = o + len => SomeWriteEndsAt(n)'
<1>1. /\ len \in Nat \ {0} /\ o \in Nat /\ o + len <= MaxFileSize /\ MaxFileSize \in Nat
      /\ writes \in Nat /\ written \in [Position -> SUBSET Nat]
  BY WriteTypes, SizeAssumption DEF FileInv, TypeOK, Attempt
<1>2. ASSUME NEW p \in Position, NEW w \in written[p]
      PROVE  w \in Nat /\ w <= writes /\ w # writes + 1
  <2>1. w \in Nat /\ w <= writes
    BY <1>1, <1>2 DEF FileInv, SizeTracked
  <2> QED  BY <1>1, <2>1
<1>3. /\ writes' = writes + 1
      /\ \A p \in Position : \A w : w \in written'[p] <=>
            w \in written[p] \/ (o <= p /\ p < o + len /\ w = writes + 1)
  <2>1. /\ writes' = writes + 1
        /\ written' = [p \in Position |-> IF o <= p /\ p < o + len
                                          THEN written[p] \cup {writes + 1} ELSE written[p]]
    BY DEF Attempt, RecordAttempt
  <2>2. \A p \in Position : written'[p] = IF o <= p /\ p < o + len
                                          THEN written[p] \cup {writes + 1} ELSE written[p]
    BY <2>1, Zenon
  <2> QED  BY <2>1, <2>2, Zenon
<1>4. ASSUME NEW p \in Position, NEW w \in written'[p]
      PROVE  w <= writes'
  <2>1. CASE w \in written[p]
    BY <1>1, <1>2, <1>3, <2>1
  <2>2. CASE w = writes + 1
    BY <1>1, <1>3, <2>2
  <2> QED  BY <1>3, <1>4, <2>1, <2>2
<1>5. ASSUME NEW n \in 1 .. MaxFileSize, SomeWriteEndsAt(n)
      PROVE  SomeWriteEndsAt(n)'
  <2>1. PICK w \in written[n - 1] : n < MaxFileSize => w \notin written[n]
    BY <1>5 DEF SomeWriteEndsAt
  <2>2. n - 1 \in Position /\ (n < MaxFileSize => n \in Position)
    BY <1>1 DEF Position
  <2>3. w \in written'[n - 1] /\ w # writes + 1
    BY <1>2, <1>3, <2>2, Zenon
  <2>4. n < MaxFileSize => w \notin written'[n]
    BY <1>3, <2>1, <2>2, <2>3
  <2> QED  BY <2>3, <2>4, Zenon DEF SomeWriteEndsAt
<1>6. ASSUME NEW n, n = o + len
      PROVE  SomeWriteEndsAt(n)'
  <2>1. /\ n - 1 \in Position /\ o <= n - 1 /\ n - 1 < o + len
        /\ n < MaxFileSize => n \in Position
        /\ ~(n < o + len)
    BY <1>1, <1>6 DEF Position
  <2>2. PICK w : w = writes + 1
    OBVIOUS
  <2>3. w \in written'[n - 1]
    BY <1>3, <2>1, <2>2, Zenon
  <2>4. n < MaxFileSize => w \notin written'[n]
    BY <1>2, <1>3, <2>1, <2>2, Zenon
  <2> QED  BY <2>3, <2>4, Zenon DEF SomeWriteEndsAt
<1> QED  BY <1>4, <1>5, <1>6

\* The size stays tracked by every write, whether or not it stores its inode and
\* whether or not it returns Ok.
LEMMA WriteTracked ==
    ASSUME FileInv, NEW o \in Position, NEW len \in 1 .. MaxFileSize,
           WriteFileData(o, len) \/ WriteFails(o, len)
    PROVE  SizeTracked'
<1> DEFINE size == file_size_in_bytes
           owed == Len(reference)
<1>1. TypeOK /\ SizeTracked /\ Attempt(o, len) /\ status = "live" /\ status' = "live"
  BY DEF FileInv, WriteFileData, WriteFails, Attempt, CanWrite
<1>2. /\ len \in Nat \ {0} /\ o \in Nat /\ o + len \in 1 .. MaxFileSize
      /\ size \in 0 .. MaxFileSize /\ owed \in Nat
  BY <1>1, WriteTypes, SizeAssumption, LenProperties DEF Attempt, TypeOK
<1>3. size >= owed /\ (size > owed => SomeWriteEndsAt(size))
  BY <1>1 DEF SizeTracked, SizeRight
<1>4. /\ \A p \in Position : \A w \in written'[p] : w <= writes'
      /\ \A n \in 1 .. MaxFileSize : SomeWriteEndsAt(n) => SomeWriteEndsAt(n)'
      /\ \A n : n = o + len => SomeWriteEndsAt(n)'
  BY <1>1, EndsAfter
<1>5. \/ size' = size
      \/ size' = IF o + len <= size THEN size ELSE o + len
  BY <1>1, InodeAfter DEF WriteFileData, WriteFails, Attempt
<1>6. \/ owed' = owed /\ ~supported'
      \/ /\ owed' = IF o + len <= owed THEN owed ELSE o + len
         /\ size' = IF o + len <= size THEN size ELSE o + len
         /\ supported' => supported
  <2>1. CASE WriteFileData(o, len)
    BY <2>1, WriteSize DEF WriteFileData
  <2>2. CASE WriteFails(o, len)
    BY <2>2 DEF WriteFails
  <2> QED  BY <2>1, <2>2
<1>7. size' >= owed'
  BY <1>2, <1>3, <1>5, <1>6
<1>8. size' = size \/ size' = o + len
  BY <1>5
<1>9. size' > owed' => SomeWriteEndsAt(size)'
  <2> SUFFICES ASSUME size' > owed' PROVE SomeWriteEndsAt(size)'
    OBVIOUS
  <2>1. CASE size' = o + len
    BY <1>4, <2>1 DEF SomeWriteEndsAt
  <2>2. CASE size' = size
    <3>1. size > owed /\ size \in 1 .. MaxFileSize
      BY <1>2, <1>6, <2>2
    <3>2. SomeWriteEndsAt(size) /\ (\E w \in written'[size - 1] : size < MaxFileSize => w \notin written'[size])
      BY <1>3, <1>4, <3>1 DEF SomeWriteEndsAt
    <3> QED  BY <2>2, <3>2 DEF SomeWriteEndsAt
  <2> QED  BY <1>8, <2>1, <2>2
<1>10. supported' => size' = owed'
  <2>1. supported => size = owed
    BY <1>1 DEF SizeTracked
  <2> QED  BY <1>6, <2>1
<1> QED  BY <1>1, <1>4, <1>7, <1>9, <1>10 DEF SizeTracked, SizeRight

\* A write, whole or half, keeps every variable in its type.
LEMMA WriteKeepsTypes ==
    ASSUME FileInv, NEW o \in Position, NEW len \in 1 .. MaxFileSize,
           WriteFileData(o, len) \/ WriteFails(o, len)
    PROVE  TypeOK'
<1>1. TypeOK /\ ExtentsStored /\ Attempt(o, len) /\ CanWrite(o, len)
  BY DEF FileInv, WriteFileData, WriteFails, Attempt
<1>2. /\ len \in Nat \ {0} /\ next_free_block + Taken(len) <= TotalBlocks
      /\ AllocateDataBlocks(len) /\ Taken(len) \in Nat
  BY <1>1, WriteTypes, BlocksTaken DEF Attempt
<1>3. /\ extents' \in [Position -> ExtentRecord \cup {NoExtent}]
      /\ \A x \in Position : extents'[x] # NoExtent => ExtentBlocks(x)' \subseteq Address
  BY <1>1, RecordsAfter, WriteStored DEF Recorded
<1>4. /\ blocks' \in [Address -> DataBlock \cup {NoBlock}]
      /\ checksums' \in [Address -> DataBlock \cup {NoBlock}]
      /\ next_free_block' \in Nat
  BY <1>1, <1>2, BlocksWritten
<1>5. written' \in [Position -> SUBSET Nat] /\ writes' \in Nat
  BY <1>1, WrittenAfter
<1>6. CASE WriteFileData(o, len)
  <2>1. /\ file_size_in_bytes' \in 0 .. MaxFileSize /\ allocated_block_count' \in Nat
        /\ reference' \in Seq(Nat) /\ Len(reference') <= MaxFileSize
    BY <1>6, WriteSize
  <2>2. supported' \in BOOLEAN /\ fresh' \in BOOLEAN
    BY <1>6, Zenon DEF WriteFileData
  <2>3. /\ status' \in {"live", "gone"} /\ freed' \subseteq Address
        /\ faults' \in Nat /\ rot' \in Nat
    BY <1>1, <1>6 DEF WriteFileData, TypeOK
  <2> QED  BY <1>3, <1>4, <1>5, <2>1, <2>2, <2>3 DEF TypeOK
<1>7. CASE WriteFails(o, len)
  <2>1. /\ file_size_in_bytes' \in 0 .. MaxFileSize /\ allocated_block_count' \in Nat
        /\ reference' \in Seq(Nat) /\ Len(reference') <= MaxFileSize
    BY <1>1, <1>7, InodeAfter DEF WriteFails, TypeOK
  <2>2. supported' \in BOOLEAN /\ fresh' \in BOOLEAN
    BY <1>7 DEF WriteFails
  <2>3. /\ status' \in {"live", "gone"} /\ freed' \subseteq Address
        /\ faults' \in Nat /\ rot' \in Nat
    BY <1>1, <1>7 DEF WriteFails, TypeOK
  <2> QED  BY <1>3, <1>4, <1>5, <2>1, <2>2, <2>3 DEF TypeOK
<1> QED  BY <1>6, <1>7
\* The records after a write that succeeds.
LEMMA WriteRecords ==
    ASSUME TypeOK, NEW o \in Position, NEW len \in 1 .. MaxFileSize, WriteFileData(o, len)
    PROVE  /\ Recorded' = Recorded \cup {o}
           /\ extents'[o] = NewRecord(len)
           /\ \A x \in Recorded \ {o} : extents'[x] = extents[x]
<1>1. extents \in [Position -> ExtentRecord \cup {NoExtent}]
  BY DEF TypeOK
<1>2. NewRecord(len) # NoExtent
  BY WriteTypes, MarkerAssumption DEF WriteFileData
<1>3. extents' = [extents EXCEPT ![o] = NewRecord(len)]
  BY DEF WriteFileData, RecordExtent, NewRecord, Taken
<1> QED  BY <1>1, <1>2, <1>3 DEF Recorded

\* A write where no record was replaced adds its blocks to those in use.
LEMMA WriteAccounted ==
    ASSUME FileInv, NEW o \in Position, NEW len \in 1 .. MaxFileSize, WriteFileData(o, len)
    PROVE  BlocksAccounted'
<1>1. /\ TypeOK /\ ExtentsStored /\ Attempt(o, len) /\ BlocksAccounted
      /\ status = "live" /\ status' = "live"
  BY DEF FileInv, WriteFileData, Attempt, CanWrite
<1> SUFFICES ASSUME fresh'
             PROVE  {a \in Address : blocks'[a] # NoBlock} = UNION {ExtentBlocks(x)' : x \in Recorded'}
  BY <1>1 DEF BlocksAccounted
<1>2. fresh /\ extents[o] = NoExtent
  BY DEF WriteFileData
<1>3. {a \in Address : blocks[a] # NoBlock} = UNION {ExtentBlocks(x) : x \in Recorded}
  BY <1>1, <1>2 DEF BlocksAccounted
<1>4. /\ NewBlocks(len) \subseteq Address
      /\ \A a \in NewBlocks(len) : blocks'[a] # NoBlock
      /\ \A a \in Address \ NewBlocks(len) : blocks'[a] = blocks[a]
  <2>1. /\ len \in Nat \ {0} /\ next_free_block + Taken(len) <= TotalBlocks
        /\ AllocateDataBlocks(len)
    BY <1>1, WriteTypes DEF Attempt
  <2> QED  BY <1>1, <2>1, BlocksWritten
<1>5. /\ Recorded' = Recorded \cup {o} /\ extents'[o] = NewRecord(len)
      /\ \A x \in Recorded \ {o} : extents'[x] = extents[x]
  BY <1>1, WriteRecords
<1>6. o \notin Recorded
  BY <1>2 DEF Recorded
<1>7. \A x \in Recorded : ExtentBlocks(x)' = ExtentBlocks(x)
  BY <1>5, <1>6 DEF ExtentBlocks
<1>8. ExtentBlocks(o)' = NewBlocks(len)
  <2>1. next_free_block \in Nat /\ Taken(len) \in Nat
    BY <1>1, WriteTypes, BlocksTaken DEF Attempt
  <2> QED  BY <1>5, <2>1 DEF ExtentBlocks, NewBlocks, NewRecord
<1>9. UNION {ExtentBlocks(x)' : x \in Recorded'} =
        (UNION {ExtentBlocks(x) : x \in Recorded}) \cup NewBlocks(len)
  <2>1. ASSUME NEW a
        PROVE  (\E x \in Recorded' : a \in ExtentBlocks(x)') <=>
                 (\E x \in Recorded : a \in ExtentBlocks(x)) \/ a \in NewBlocks(len)
    BY <1>5, <1>7, <1>8
  <2> QED  BY <2>1
<1>10. {a \in Address : blocks'[a] # NoBlock} = {a \in Address : blocks[a] # NoBlock} \cup NewBlocks(len)
  BY <1>4
<1> QED  BY <1>3, <1>9, <1>10

\* Records of supported writes start and end at block boundaries, and no later
\* than the end of the file rounded up to one.
LEMMA AlignedEnd ==
    ASSUME FileInv, status = "live", supported, NEW x \in Recorded
    PROVE  /\ x < file_size_in_bytes
           /\ file_size_in_bytes % BlockSize = 0 => ExtentEnd(x) <= file_size_in_bytes
<1> DEFINE m == BlockSize
           n == extents[x].block_count
           size == file_size_in_bytes
<1>1. /\ x \in Nat /\ n \in Nat \ {0} /\ m \in Nat \ {0} /\ size \in Nat
      /\ ExtentEnd(x) = x + n * m
  BY ExtentTypes, SizeAssumption DEF FileInv, TypeOK
<1>2. x % m = 0 /\ x + (n - 1) * m < size
  BY DEF FileInv, ExtentsAligned
<1> HIDE DEF n, m
<1>3. n * m \in Nat /\ (n - 1) * m \in Nat /\ (n - 1) * m = (n * m) - m
  <2>1. n - 1 \in Nat
    BY <1>1
  <2> QED  BY <1>1, <2>1, ProductGrows
<1>4. x < size
  BY <1>1, <1>2, <1>3
<1>5. ASSUME size % m = 0 PROVE x + n * m <= size
  <2> DEFINE q == x \div m
             t == size \div m
  <2>1. q \in Nat /\ t \in Nat /\ x = q * m /\ size = t * m
    <3>1. q \in Nat /\ x % m \in 0 .. m - 1 /\ x = (q * m) + (x % m)
      BY <1>1, DivMod
    <3>2. t \in Nat /\ size % m \in 0 .. m - 1 /\ size = (t * m) + (size % m)
      BY <1>1, DivMod
    <3>3. q * m \in Nat /\ t * m \in Nat
      BY <1>1, <3>1, <3>2, ProductGrows
    <3> HIDE DEF q, t
    <3> QED  BY <1>2, <1>5, <3>1, <3>2, <3>3
  <2> HIDE DEF q, t
  <2>2. x + n * m = (q + n) * m /\ x + (n - 1) * m = (q + (n - 1)) * m
    BY <1>1, <2>1
  <2>3. CASE t <= q + (n - 1)
    <3>1. t * m <= (q + (n - 1)) * m
      <4>1. q + (n - 1) \in Nat
        BY <1>1, <2>1
      <4> QED  BY <1>1, <2>1, <2>3, <4>1, ProductGrows
    <3>2. (q + (n - 1)) * m < t * m
      BY <1>2, <2>1, <2>2
    <3>3. t * m \in Int /\ (q + (n - 1)) * m \in Int
      BY <1>1, <2>1
    <3> QED  BY <3>1, <3>2, <3>3
  <2>4. CASE q + n <= t
    <3>1. q + n \in Nat
      BY <1>1, <2>1
    <3>2. (q + n) * m <= t * m
      BY <1>1, <2>1, <2>4, <3>1, ProductGrows
    <3> QED  BY <2>1, <2>2, <3>2
  <2> QED  BY <1>1, <2>1, <2>3, <2>4
<1> QED  BY <1>1, <1>4, <1>5 DEF n, m
\* The least of a set of numbers.
LEMMA MinIs ==
    ASSUME NEW S, S \subseteq Int, NEW s \in S, \A x \in S : s <= x
    PROVE  Min(S) = s
<1>1. \A x \in S : (\A y \in S : x <= y) <=> x = s
  OBVIOUS
<1> QED  BY <1>1 DEF Min

\* A position of a write that is read from the record of the write reads as the
\* write.
LEMMA NewByte ==
    ASSUME TypeOK, NEW o \in Position, NEW len \in 1 .. MaxFileSize, WriteFileData(o, len),
           NEW p \in Nat, o <= p, p < o + len, Start(p)' = o
    PROVE  checksums'[BlockOf(p)'][Within(p)'] = writes + 1
<1> DEFINE d == p - o
           q == d \div BlockSize
           w == d % BlockSize
           n == Taken(len)
<1>1. /\ len \in Nat \ {0} /\ o \in Nat /\ next_free_block \in Nat
      /\ next_free_block + Taken(len) <= TotalBlocks /\ AllocateDataBlocks(len)
      /\ BlockSize \in Nat \ {0}
  BY WriteTypes, SizeAssumption DEF WriteFileData
<1>2. d \in Nat /\ d < len
  BY <1>1
<1> HIDE DEF d
<1>3. q \in Nat /\ w \in 0 .. (BlockSize - 1) /\ d = q * BlockSize + w
  BY <1>1, <1>2, DivMod
<1>4. n \in Nat \ {0} /\ len <= n * BlockSize
  BY <1>1, BlocksTaken
<1> HIDE DEF q, w, n
<1>5. q \in 0 .. (n - 1)
  <2>1. CASE n <= q
    <3>1. n * BlockSize <= q * BlockSize /\ n * BlockSize \in Nat /\ q * BlockSize \in Nat
      BY <1>1, <1>3, <1>4, <2>1, ProductGrows
    <3> QED  BY <1>1, <1>2, <1>3, <1>4, <3>1
  <2> QED  BY <1>3, <1>4, <2>1
<1>6. extents'[o].first_disk_block = next_free_block
  <2>1. extents'[o] = NewRecord(len)
    BY WriteRecords
  <2> QED  BY <2>1 DEF NewRecord
<1>7. BlockOf(p)' = next_free_block + q /\ Within(p)' = w
  BY <1>6 DEF BlockOf, Within, q, w, d
<1>8. checksums'[next_free_block + q] = BlockBuffer(q, len, writes + 1)
  BY <1>1, <1>5, BlocksWritten DEF n
<1>9. BlockBuffer(q, len, writes + 1)[w] = writes + 1
  <2>1. q * BlockSize + w < len
    BY <1>2, <1>3
  <2> QED  BY <1>3, <2>1, BufferByte
<1> QED  BY <1>7, <1>8, <1>9

\* A supported write keeps the records aligned.
LEMMA WriteAligned ==
    ASSUME FileInv, NEW o \in Position, NEW len \in 1 .. MaxFileSize, WriteFileData(o, len)
    PROVE  ExtentsAligned'
<1> SUFFICES ASSUME supported', NEW x \in Recorded'
             PROVE  /\ x % BlockSize = 0
                    /\ x + (extents'[x].block_count - 1) * BlockSize < file_size_in_bytes'
  BY DEF ExtentsAligned
<1> DEFINE size == file_size_in_bytes
<1>1. TypeOK /\ status = "live" /\ supported /\ Supported(o, len) /\ CanWrite(o, len)
  BY DEF FileInv, WriteFileData, CanWrite
<1>2. /\ len \in Nat \ {0} /\ o \in Nat /\ size \in Nat /\ BlockSize \in Nat \ {0}
      /\ size' = IF o + len <= size THEN size ELSE o + len
  <2>1. len \in Nat \ {0} /\ o \in Nat
    BY <1>1, WriteTypes
  <2>2. size \in Nat /\ BlockSize \in Nat \ {0}
    BY <1>1, SizeAssumption DEF TypeOK
  <2>3. size' = IF o + len <= size THEN size ELSE o + len
    BY WriteSize
  <2> QED  BY <2>1, <2>2, <2>3
<1>3. CASE x = o
  <2>1. extents'[x].block_count = Taken(len)
    <3>1. extents'[x] = NewRecord(len)
      BY <1>1, <1>3, WriteRecords
    <3> QED  BY <3>1 DEF NewRecord
  <2>2. (Taken(len) - 1) * BlockSize < len /\ Taken(len) \in Nat \ {0}
    BY <1>2, BlocksTaken
  <2>3. (Taken(len) - 1) * BlockSize \in Nat
    <3>1. Taken(len) - 1 \in Nat
      BY <2>2
    <3> QED  BY <1>2, <3>1
  <2>4. o % BlockSize = 0
    BY <1>1, <1>2 DEF Supported
  <2>5. o + (Taken(len) - 1) * BlockSize < o + len
    <3> DEFINE t == (Taken(len) - 1) * BlockSize
    <3> HIDE DEF t
    <3>1. t \in Nat /\ t < len
      BY <2>2, <2>3 DEF t
    <3>2. o + t < o + len
      BY <1>2, <3>1
    <3> QED  BY <3>2 DEF t
  <2>6. o + (Taken(len) - 1) * BlockSize \in Nat
    BY <1>2, <2>3
  <2> QED  BY <1>2, <1>3, <2>1, <2>4, <2>5, <2>6
<1>4. CASE x # o
  <2>1. x \in Recorded /\ extents'[x] = extents[x]
    BY <1>1, <1>4, WriteRecords
  <2>2. x % BlockSize = 0 /\ x + (extents[x].block_count - 1) * BlockSize < size
    BY <1>1, <2>1 DEF FileInv, ExtentsAligned
  <2>3. x + (extents[x].block_count - 1) * BlockSize \in Int
    <3>1. x \in Nat /\ extents[x].block_count - 1 \in Nat
      BY <1>1, <2>1, ExtentTypes
    <3> QED  BY <1>2, <3>1
  <2>4. size <= size'
    BY <1>2
  <2> QED  BY <1>2, <2>1, <2>2, <2>3, <2>4
<1> QED  BY <1>3, <1>4
\* A supported write leaves the byte owed at each position in the first record
\* that covers it: the record at 0 of a whole-file write comes before every
\* other, and an append starts where every other has ended.
LEMMA WriteCurrent ==
    ASSUME FileInv, NEW o \in Position, NEW len \in 1 .. MaxFileSize, WriteFileData(o, len)
    PROVE  FirstIsCurrent'
<1> DEFINE size == file_size_in_bytes
<1> SUFFICES ASSUME supported', NEW p \in 0 .. (size' - 1)
             PROVE  /\ CoveringExtents(p)' # {}
                    /\ checksums'[BlockOf(p)'][Within(p)'] = reference'[p + 1]
  BY DEF FirstIsCurrent
<1>1. /\ TypeOK /\ ExtentsStored /\ FirstIsCurrent
      /\ status = "live" /\ supported /\ Supported(o, len) /\ CanWrite(o, len)
      /\ size = Len(reference) /\ reference' = Overlay(o, len)
  BY DEF FileInv, WriteFileData, CanWrite, SizeTracked
<1>2. /\ len \in Nat \ {0} /\ o \in Nat /\ size \in Nat /\ BlockSize \in Nat \ {0}
      /\ size' = IF o + len <= size THEN size ELSE o + len
  <2>1. size \in Nat /\ BlockSize \in Nat \ {0}
    BY <1>1, SizeAssumption DEF TypeOK
  <2>2. len \in Nat \ {0} /\ o \in Nat
    BY <1>1, WriteTypes
  <2> QED  BY <2>1, <2>2, WriteSize
<1>3. p \in Nat /\ p < size' /\ p + 1 \in 1 .. size'
  BY <1>2
<1>4. reference'[p + 1] = IF o <= p /\ p < o + len THEN writes + 1
                          ELSE IF p < size THEN reference[p + 1] ELSE 0
  <2>1. reference'[p + 1] = IF o < p + 1 /\ p + 1 <= o + len THEN writes + 1
                            ELSE IF p + 1 <= size THEN reference[p + 1] ELSE 0
    BY <1>1, <1>2, <1>3, OverlayTypes
  <2>2. (o < p + 1 <=> o <= p) /\ (p + 1 <= o + len <=> p < o + len) /\ (p + 1 <= size <=> p < size)
    BY <1>2, <1>3
  <2> QED  BY <2>1, <2>2
<1>5. /\ Recorded' = Recorded \cup {o} /\ extents'[o] = NewRecord(len)
      /\ \A x \in Recorded \ {o} : extents'[x] = extents[x]
      /\ Recorded' \subseteq Position
  BY <1>1, WriteRecords DEF Recorded
<1>6. /\ CoveringExtents(p) = {x \in Recorded : x <= p /\ p < ExtentEnd(x)}
      /\ CoveringExtents(p)' = {x \in Recorded' : x <= p /\ p < ExtentEnd(x)'}
  BY DEF CoveringExtents, Recorded
<1>7. CoveringExtents(p)' \subseteq Nat
  <2>1. CoveringExtents(p)' \subseteq Position
    BY <1>5, <1>6
  <2>2. Position \subseteq Nat
    BY SizeAssumption DEF Position
  <2> QED  BY <2>1, <2>2
<1>8. ExtentEnd(o)' = o + Taken(len) * BlockSize /\ \A x \in Recorded \ {o} : ExtentEnd(x)' = ExtentEnd(x)
  BY <1>5 DEF ExtentEnd, NewRecord
<1>9. o <= p /\ p < o + len => o \in CoveringExtents(p)'
  <2>1. len <= Taken(len) * BlockSize /\ Taken(len) * BlockSize \in Nat
    BY <1>2, BlocksTaken
  <2>2. p < o + len => p < ExtentEnd(o)'
    BY <1>2, <1>3, <1>8, <2>1
  <2> QED  BY <1>5, <1>6, <2>2
<1>10. ASSUME o <= p, p < o + len, \A x \in CoveringExtents(p)' : o <= x
       PROVE  /\ CoveringExtents(p)' # {}
              /\ checksums'[BlockOf(p)'][Within(p)'] = reference'[p + 1]
  <2>1. Min(CoveringExtents(p)') = o
    BY <1>7, <1>9, <1>10, MinIs
  <2>2. Start(p)' = o
    BY <2>1 DEF Start, read_extent_data_for_file_offset
  <2> QED  BY <1>1, <1>3, <1>4, <1>9, <1>10, <2>2, NewByte
<1>11. CASE o = 0 /\ len >= size
  <2>1. o <= p /\ p < o + len
    BY <1>2, <1>3, <1>11
  <2>2. \A x \in CoveringExtents(p)' : o <= x
    BY <1>7, <1>11
  <2> QED  BY <1>10, <2>1, <2>2
<1>12. CASE o = size /\ size % BlockSize = 0
  <2>1. \A x \in Recorded : x \in Nat /\ ExtentEnd(x) \in Nat /\ x < o /\ ExtentEnd(x) <= o
    BY <1>1, <1>12, AlignedEnd, ExtentTypes
  <2>2. o \notin Recorded
    BY <1>2, <2>1
  <2>3. CASE p < o
    <3>1. \A x \in Recorded' : x # o => x \in Recorded /\ ExtentEnd(x)' = ExtentEnd(x)
      BY <1>5, <1>8
    <3>2. \A x \in Recorded : x # o /\ x \in Recorded' /\ ExtentEnd(x)' = ExtentEnd(x)
      BY <1>5, <1>8, <2>2
    <3>3. ~(o <= p)
      BY <1>2, <1>3, <2>3
    <3>4. CoveringExtents(p)' = CoveringExtents(p)
      BY <1>6, <3>1, <3>2, <3>3
    <3>5. p \in 0 .. (size - 1)
      BY <1>2, <1>3, <1>12, <2>3
    <3>6. CoveringExtents(p) # {} /\ checksums[BlockOf(p)][Within(p)] = reference[p + 1]
      BY <1>1, <3>5 DEF FirstIsCurrent
    <3>7. Start(p)' = Start(p)
      BY <3>4 DEF Start, read_extent_data_for_file_offset
    <3>8. Start(p) \in Recorded /\ BlockOf(p) \in ExtentBlocks(Start(p))
      BY <1>1, <1>3, <3>6, BlockInExtent
    <3>9. extents'[Start(p)] = extents[Start(p)]
      BY <1>5, <2>2, <3>8
    <3>10. BlockOf(p)' = BlockOf(p) /\ Within(p)' = Within(p)
      BY <3>7, <3>9 DEF BlockOf, Within
    <3>11. checksums'[BlockOf(p)] = checksums[BlockOf(p)]
      <4>1. Attempt(o, len) /\ AllocateDataBlocks(len) /\ next_free_block + Taken(len) <= TotalBlocks
        BY <1>1, WriteTypes DEF WriteFileData, Attempt
      <4>2. Start(p) \in Recorded' /\ Start(p) # o
        BY <1>5, <2>2, <3>8
      <4>3. BlockOf(p) \in Address \ NewBlocks(len)
        BY <1>1, <3>8, <4>1, <4>2, RecordBlocksAfter
      <4> QED  BY <1>1, <1>2, <4>1, <4>3, BlocksWritten
    <3>12. reference'[p + 1] = reference[p + 1]
      BY <1>4, <1>12, <2>3, <3>3
    <3> QED  BY <3>4, <3>6, <3>10, <3>11, <3>12
  <2>4. CASE o <= p
    <3>1. p < o + len
      BY <1>2, <1>3, <1>12
    <3>2. \A x \in CoveringExtents(p)' : x = o
      <4> SUFFICES ASSUME NEW x \in CoveringExtents(p)', x # o PROVE FALSE
        OBVIOUS
      <4>1. x \in Recorded /\ p < ExtentEnd(x)
        BY <1>5, <1>6, <1>8
      <4> QED  BY <1>2, <1>3, <2>1, <2>4, <4>1
    <3>3. \A x \in CoveringExtents(p)' : o <= x
      BY <1>2, <3>2
    <3> QED  BY <1>10, <2>4, <3>1, <3>3
  <2> QED  BY <1>2, <1>3, <2>3, <2>4
<1> QED  BY <1>1, <1>11, <1>12 DEF Supported
---------------------------------------------------------------------------
\* The inductive invariant is one.

\* A new volume holds FileInv.
LEMMA InitFile == Init => FileInv
<1> SUFFICES ASSUME Init PROVE FileInv
  OBVIOUS
<1>1. Recorded = {}
  BY DEF Init, Recorded
<1>2. Len(<<>>) = 0 /\ <<>> \in Seq(Nat)
  OBVIOUS
<1>3. TypeOK
  BY <1>2, SizeAssumption DEF Init, TypeOK
<1>4. SizeTracked /\ DamageCounted
  BY <1>2 DEF Init, SizeTracked, SizeRight, DamageCounted
<1>5. ExtentsStored /\ ChecksumsOwn /\ ExtentsAligned
  BY <1>1 DEF ExtentsStored, ChecksumsOwn, ExtentsAligned
<1>6. FirstIsCurrent
  BY DEF Init, FirstIsCurrent
<1>7. BlocksAccounted
  BY <1>1 DEF Init, BlocksAccounted
<1> QED  BY <1>3, <1>4, <1>5, <1>6, <1>7 DEF FileInv

\* A completed write_file_data keeps FileInv.
LEMMA WriteFileDataKeeps ==
    ASSUME FileInv, NEW o \in Position, NEW len \in 1 .. MaxFileSize, WriteFileData(o, len)
    PROVE  FileInv'
<1>1. /\ TypeOK /\ ExtentsStored /\ ChecksumsOwn /\ DamageCounted /\ Attempt(o, len)
      /\ status' = "live" /\ rot' = rot
  BY DEF FileInv, WriteFileData, Attempt, CanWrite
<1>2. TypeOK' /\ ExtentsStored' /\ ChecksumsOwn' /\ DamageCounted'
  BY <1>1, WriteKeepsTypes, WriteStored, WriteOwn, WriteCounted
<1>3. SizeTracked'
  BY WriteTracked
<1>4. ExtentsAligned' /\ FirstIsCurrent' /\ BlocksAccounted'
  BY WriteAligned, WriteCurrent, WriteAccounted
<1> QED  BY <1>2, <1>3, <1>4 DEF FileInv

\* A write that fails part of the way keeps FileInv.
LEMMA WriteFailsKeeps ==
    ASSUME FileInv, NEW o \in Position, NEW len \in 1 .. MaxFileSize, WriteFails(o, len)
    PROVE  FileInv'
<1>1. /\ TypeOK /\ ExtentsStored /\ ChecksumsOwn /\ DamageCounted /\ Attempt(o, len)
      /\ status' = "live" /\ rot' = rot
  BY DEF FileInv, WriteFails, Attempt, CanWrite
<1>2. TypeOK' /\ ExtentsStored' /\ ChecksumsOwn' /\ DamageCounted'
  BY <1>1, WriteKeepsTypes, WriteStored, WriteOwn, WriteCounted
<1>3. SizeTracked'
  BY WriteTracked
<1>4. ExtentsAligned' /\ FirstIsCurrent' /\ BlocksAccounted'
  BY DEF WriteFails, ExtentsAligned, FirstIsCurrent, BlocksAccounted
<1> QED  BY <1>2, <1>3, <1>4 DEF FileInv

\* Damage to a stored block keeps FileInv.
LEMMA RotKeeps ==
    ASSUME FileInv, NEW b \in Address, Rot(b)
    PROVE  FileInv'
<1>1. /\ TypeOK /\ blocks \in [Address -> DataBlock \cup {NoBlock}]
      /\ blocks[b] # NoBlock /\ blocks' = [blocks EXCEPT ![b][0] = Rotten]
      /\ rot' = rot + 1 /\ rot \in Nat
  BY DEF FileInv, TypeOK, Rot
<1>2. UNCHANGED <<status, file_size_in_bytes, allocated_block_count, extents, checksums,
                  next_free_block, freed, reference, written, supported, fresh, writes, faults>>
  BY DEF Rot, inodeVars, historyVars
<1>3. [blocks[b] EXCEPT ![0] = Rotten] \in DataBlock
  BY <1>1, SizeAssumption DEF DataBlock
<1>4. blocks' \in [Address -> DataBlock \cup {NoBlock}]
  BY <1>1, <1>3
<1>5. \A a \in Address : blocks'[a] # NoBlock <=> blocks[a] # NoBlock
  <2>1. blocks'[b] # NoBlock
    BY <1>1, <1>3, MarkerAssumption
  <2>2. \A a \in Address \ {b} : blocks'[a] = blocks[a]
    BY <1>1
  <2> QED  BY <1>1, <2>1, <2>2
<1>6. Recorded' = Recorded /\ \A o : ExtentBlocks(o)' = ExtentBlocks(o)
  BY <1>2 DEF Recorded, ExtentBlocks
<1>7. TypeOK'
  <2>1. \A o \in Position : extents'[o] # NoExtent => ExtentBlocks(o)' \subseteq Address
    BY <1>1, <1>2, <1>6 DEF TypeOK
  <2>2. rot' \in Nat
    BY <1>1
  <2> QED  BY <1>1, <1>2, <1>4, <2>1, <2>2 DEF TypeOK
<1>8. SizeTracked'
  BY <1>2 DEF FileInv, SizeTracked, SizeRight, SomeWriteEndsAt
<1>9. ExtentsStored'
  <2>1. \A o \in Recorded : ExtentBlocks(o) \subseteq Address
    BY <1>1 DEF TypeOK, Recorded
  <2> QED  BY <1>2, <1>5, <1>6, <2>1 DEF FileInv, ExtentsStored
<1>10. DamageCounted'
  BY <1>1 DEF DamageCounted
<1>11. ChecksumsOwn'
  BY <1>2, <1>6 DEF FileInv, ChecksumsOwn
<1>12. ExtentsAligned'
  BY <1>2, <1>6 DEF FileInv, ExtentsAligned
<1>13. FirstIsCurrent'
  <2>1. \A p : CoveringExtents(p)' = CoveringExtents(p)
    BY <1>2 DEF CoveringExtents, ExtentEnd
  <2>2. \A p : Start(p)' = Start(p)
    BY <2>1 DEF Start, read_extent_data_for_file_offset
  <2>3. \A p : BlockOf(p)' = BlockOf(p) /\ Within(p)' = Within(p)
    BY <1>2, <2>2 DEF BlockOf, Within
  <2> QED  BY <1>2, <2>1, <2>3 DEF FileInv, FirstIsCurrent
<1>14. BlocksAccounted'
  <2>1. {a \in Address : blocks'[a] # NoBlock} = {a \in Address : blocks[a] # NoBlock}
    BY <1>5
  <2>2. (UNION {ExtentBlocks(o) : o \in Recorded})' = UNION {ExtentBlocks(o) : o \in Recorded}
    BY <1>6
  <2> QED  BY <1>2, <2>1, <2>2 DEF FileInv, BlocksAccounted
<1> QED  BY <1>7, <1>8, <1>9, <1>10, <1>11, <1>12, <1>13, <1>14 DEF FileInv
\* Removing the file keeps FileInv.
LEMMA UnlinkFileKeeps ==
    ASSUME FileInv, UnlinkFile
    PROVE  FileInv'
<1>1. /\ TypeOK /\ BlocksAccounted /\ status = "live" /\ status' = "gone"
      /\ file_size_in_bytes' = 0 /\ allocated_block_count' = 0
      /\ extents' = [p \in Position |-> NoExtent]
      /\ freed' = UNION {ExtentBlocks(o) : o \in Recorded}
  BY DEF FileInv, UnlinkFile, Recorded
<1>2. UNCHANGED <<blocks, checksums, next_free_block, reference, written, supported, fresh,
                  writes, faults, rot>>
  BY DEF UnlinkFile, historyVars
<1>3. Recorded' = {}
  BY <1>1 DEF Recorded
<1>4. freed' \subseteq Address
  <2>1. \A o \in Recorded : ExtentBlocks(o) \subseteq Address
    BY <1>1 DEF TypeOK, Recorded
  <2> QED  BY <1>1, <2>1
<1>5. TypeOK'
  <2>1. /\ extents' \in [Position -> ExtentRecord \cup {NoExtent}]
        /\ \A o \in Position : extents'[o] = NoExtent
    BY <1>1
  <2>2. file_size_in_bytes' \in 0 .. MaxFileSize /\ allocated_block_count' \in Nat
    BY <1>1, SizeAssumption
  <2>3. \A o \in Position : extents'[o] # NoExtent => ExtentBlocks(o)' \subseteq Address
    BY <2>1
  <2> QED  BY <1>1, <1>2, <1>4, <2>1, <2>2, <2>3 DEF TypeOK
<1>6. SizeTracked' /\ ExtentsAligned' /\ FirstIsCurrent'
  BY <1>1, <1>2 DEF FileInv, SizeTracked, SizeRight, ExtentsAligned, FirstIsCurrent
<1>7. ExtentsStored' /\ ChecksumsOwn'
  BY <1>3 DEF ExtentsStored, ChecksumsOwn
<1>8. DamageCounted'
  BY <1>2 DEF FileInv, DamageCounted
<1>9. BlocksAccounted'
  BY <1>1, <1>2 DEF BlocksAccounted
<1> QED  BY <1>5, <1>6, <1>7, <1>8, <1>9 DEF FileInv

\* FileInv depends on the variables only.
LEMMA StutterKeepsFile == FileInv /\ UNCHANGED vars => FileInv'
<1> SUFFICES ASSUME FileInv, UNCHANGED vars PROVE FileInv'
  OBVIOUS
<1>1. UNCHANGED <<status, file_size_in_bytes, allocated_block_count, extents, blocks, checksums,
                  next_free_block, freed, reference, written, supported, fresh, writes, faults, rot>>
  BY DEF vars, inodeVars, historyVars
<1>2. Recorded' = Recorded /\ \A o : ExtentBlocks(o)' = ExtentBlocks(o)
  BY <1>1 DEF Recorded, ExtentBlocks
<1>3. TypeOK'
  BY <1>1, <1>2 DEF FileInv, TypeOK
<1>4. SizeTracked' /\ DamageCounted' /\ ExtentsStored'
  BY <1>1, <1>2 DEF FileInv, SizeTracked, SizeRight, SomeWriteEndsAt, DamageCounted, ExtentsStored
<1>5. ChecksumsOwn' /\ ExtentsAligned'
  BY <1>1, <1>2 DEF FileInv, ChecksumsOwn, ExtentsAligned
<1>6. FirstIsCurrent'
  <2>1. \A p : CoveringExtents(p)' = CoveringExtents(p)
    BY <1>1 DEF CoveringExtents, ExtentEnd
  <2>2. \A p : Start(p)' = Start(p)
    BY <2>1 DEF Start, read_extent_data_for_file_offset
  <2>3. \A p : BlockOf(p)' = BlockOf(p) /\ Within(p)' = Within(p)
    BY <1>1, <2>2 DEF BlockOf, Within
  <2> QED  BY <1>1, <2>1, <2>3 DEF FileInv, FirstIsCurrent
<1>7. BlocksAccounted'
  BY <1>1, <1>2 DEF FileInv, BlocksAccounted
<1> QED  BY <1>3, <1>4, <1>5, <1>6, <1>7 DEF FileInv

\* Every step keeps FileInv.
LEMMA NextKeepsFile == FileInv /\ [Next]_vars => FileInv'
<1> SUFFICES ASSUME FileInv, [Next]_vars PROVE FileInv'
  OBVIOUS
<1>1. CASE \E o \in Position, len \in 1 .. MaxFileSize : WriteFileData(o, len) \/ WriteFails(o, len)
  BY <1>1, WriteFileDataKeeps, WriteFailsKeeps
<1>2. CASE \E b \in Address : Rot(b)
  BY <1>2, RotKeeps
<1>3. CASE UnlinkFile
  BY <1>3, UnlinkFileKeeps
<1>4. CASE UNCHANGED vars
  BY <1>4, StutterKeepsFile
<1> QED  BY <1>1, <1>2, <1>3, <1>4 DEF Next

\* FileInv holds in every reachable state.
LEMMA AlwaysFileInv == Spec => []FileInv
  BY InitFile, NextKeepsFile, PTL DEF Spec
---------------------------------------------------------------------------
\* The size in the inode covers every write that returned Ok, and is larger only
\* after a write that failed with its inode stored, whose end it then is; for
\* overwrites, appends, holes and errors at every step of volume_write_file_data.
THEOREM FileSizeIsRight == Spec => []SizeRight
<1>1. FileInv => SizeRight
  BY DEF FileInv, SizeTracked
<1> QED  BY <1>1, AlwaysFileInv, PTL

\* volume_read_file_data returns the bytes of the last writes, for every block
\* size and any number of whole-file writes and aligned appends; it fails only
\* where the medium damaged a block.
THEOREM FileReadsBack == Spec => []ReadsBack
  BY BackHolds, AlwaysFileInv, PTL

\* No read returns a byte that was not written at its position in this file,
\* whatever the writes, the errors in them and the damage to the blocks.
THEOREM FileReadsOnlyItsBytes == Spec => []OnlyOwnBytes
  BY OwnHolds, AlwaysFileInv, PTL

\* A read is the concatenation of its parts: the loop of volume_read_file_data
\* crosses blocks and extents without a seam.
THEOREM FileReadsCompose == Spec => []ReadsCompose
<1>1. FileInv => ReadsCompose
  BY ComposeHolds DEF FileInv
<1> QED  BY <1>1, AlwaysFileInv, PTL

\* Unlinking frees every block the file took, when no record was replaced and
\* no write stopped half way.
THEOREM UnlinkReclaimsAll == Spec => []ReclaimsFreshWrites
<1>1. FileInv => ReclaimsFreshWrites
  BY DEF FileInv, BlocksAccounted, ReclaimsFreshWrites
<1> QED  BY <1>1, AlwaysFileInv, PTL
===========================================================================
