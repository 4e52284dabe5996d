---------------------------- MODULE BafsJournal ----------------------------
(***************************************************************************)
(* The journal area under BafsCommit: how a commit record is laid out,     *)
(* written block by block over the records of earlier commits, and parsed  *)
(* by recover_journal_on_mount, with a power loss between or inside two    *)
(* block writes and with damaged bits.  The checksum is CRC32C itself.     *)
(*                                                                         *)
(* The area is a sequence of cells.  A cell is one field of the record (the *)
(* magic, an id, a count, an address, a piece of block data, the checksum) *)
(* and holds a 32-bit word: the set of the positions of its one bits.      *)
(***************************************************************************)
EXTENDS Integers, Sequences, FiniteSets, BafsChecksum

CONSTANTS
    BlockCells,     \* cells in a block
    JournalBlocks,  \* journal_size_in_blocks
    SectorCells,    \* cells in a sector: the unit in which a write can tear
    Dirty,          \* dirty-block caches: functions from addresses to blocks
    FlipBits,       \* bits of a cell that the medium may flip
    MaxCommits,     \* bound: commits that are begun
    MaxTxid,        \* bound: transaction ids that are given out
    MaxFaults       \* bound: power losses and bit flips

\* A number that a cell holds: below 2^32.
Fits(n) == n \div 65536 < 65536

ASSUME JournalAssumption ==
    /\ BlockCells \in Nat \ {0} /\ SectorCells \in Nat \ {0}
    /\ BlockCells % SectorCells = 0
    /\ JournalBlocks \in Nat \ {0}
    /\ \A d \in Dirty :
          /\ IsFiniteSet(DOMAIN d) /\ Fits(Cardinality(DOMAIN d))
          /\ \A a \in DOMAIN d :
                a \in Nat /\ Fits(a) /\ d[a] \in Seq(Word) /\ Len(d[a]) = BlockCells
    /\ FlipBits \subseteq 0 .. 31
    /\ MaxCommits \in Nat /\ MaxFaults \in Nat
    /\ MaxTxid \in Nat /\ Fits(MaxTxid)
---------------------------------------------------------------------------
\* to_le_bytes and from_le_bytes: a number by its bits.
ToCell(n) ==
    LET half[b \in 0 .. 31] == IF b = 0 THEN n ELSE half[b - 1] \div 2
    IN  {b \in 0 .. 31 : half[b] % 2 = 1}

FromCell(w) ==
    LET high[k \in 0 .. 32] ==
            IF k = 0 THEN 0 ELSE 2 * high[k - 1] + (IF 32 - k \in w THEN 1 ELSE 0)
    IN  high[32]

\* The bytes of some cells, in the order in which they lie in the buffer.
BytesOf(cells) ==
    [i \in 1 .. 4 * Len(cells) |->
        ShiftRight(cells[((i - 1) \div 4) + 1], 8 * ((i - 1) % 4)) \cap (0 .. 7)]

Magic == {0, 2, 5, 7}
HeaderSize == 4   \* JOURNAL_COMMIT_RECORD_HEADER_SIZE_BYTES, its checksum field included
CursorStart == 3  \* where the address list begins: after magic, id and count
Zeros(n) == [i \in 1 .. n |-> {}]

BodySize(count) == HeaderSize + count + BlockCells * count

\* The keys of the dirty-block cache, in ascending order.
Addresses(d) ==
    CHOOSE keys \in [1 .. Cardinality(DOMAIN d) -> DOMAIN d] :
        \A i, j \in 1 .. Cardinality(DOMAIN d) : i < j => keys[i] < keys[j]

\* commit_transaction, step (a): the buffer for the cache d, up to the checksum.
\* The addresses begin inside the header, so its last cell keeps its zero.
Body(txid, d) ==
    LET keys == Addresses(d)
        count == Cardinality(DOMAIN d)
    IN  <<Magic, ToCell(txid), ToCell(count)>>
          \o [i \in 1 .. count |-> ToCell(keys[i])]
          \o [j \in 1 .. BlockCells * count |->
                d[keys[((j - 1) \div BlockCells) + 1]][((j - 1) % BlockCells) + 1]]
          \o Zeros(HeaderSize - CursorStart)

Record(txid, d) == Append(Body(txid, d), compute_crc32c(BytesOf(Body(txid, d))))

AreaSize == JournalBlocks * BlockCells

\* write_bytes_to_journal refuses what is larger than the journal.
TooLarge(d) == BodySize(Cardinality(DOMAIN d)) + 1 > AreaSize

\* The records of every id and cache, so that TLC computes each of them once.
Records == [id \in 1 .. MaxTxid |-> [d \in {e \in Dirty : ~TooLarge(e)} |-> Record(id, d)]]

Nothing == [txid |-> 0, blocks |-> << >>]

\* Mutant of Accepted: the checksum is not compared.
AcceptedUnchecked(area, last) ==
    /\ AreaSize >= HeaderSize
    /\ area[1] = Magic
    /\ FromCell(area[2]) > last
    /\ BodySize(FromCell(area[3])) + 1 <= AreaSize

\* The tests of recover_journal_on_mount, in order.
Accepted(area, last) ==
    /\ AreaSize >= HeaderSize
    /\ area[1] = Magic
    /\ FromCell(area[2]) > last
    /\ BodySize(FromCell(area[3])) + 1 <= AreaSize
    /\ LET size == BodySize(FromCell(area[3]))
       IN  area[size + 1] = compute_crc32c(BytesOf(SubSeq(area, 1, size)))

\* Mutant of Replayed: the address list is read from behind the whole header.
ReplayedFromHeader(area) ==
    LET count == FromCell(area[3])
        address(i) == FromCell(area[HeaderSize + i])
        data(i) == SubSeq(area, HeaderSize + count + BlockCells * (i - 1) + 1,
                                HeaderSize + count + BlockCells * i)
    IN  [txid |-> FromCell(area[2]), blocks |-> [i \in 1 .. count |-> <<address(i), data(i)>>]]

\* The writes of the replay, in their order.
Replayed(area) ==
    LET count == FromCell(area[3])
        address(i) == FromCell(area[CursorStart + i])
        data(i) == SubSeq(area, CursorStart + count + BlockCells * (i - 1) + 1,
                                CursorStart + count + BlockCells * i)
    IN  [txid |-> FromCell(area[2]), blocks |-> [i \in 1 .. count |-> <<address(i), data(i)>>]]

Recovered(area, last) == IF Accepted(area, last) THEN Replayed(area) ELSE Nothing
---------------------------------------------------------------------------
VARIABLES
    area,     \* the cells of the journal area
    last,     \* last_committed_transaction_id of the superblock on disk
    pc,       \* "down", "up", "writing" the record, or "sealed"
    record,   \* the record being written
    written,  \* journal blocks written so far
    cache,    \* the dirty-block cache being committed
    replayed, \* what the mount of this session replayed
    sealed,   \* history: the newest commit whose whole record the area held
    clean,    \* history: no bit of the area has been flipped since then
    commits, faults

vars == <<area, last, pc, record, written, cache, replayed, sealed, clean, commits, faults>>

\* What a commit of d under txid must make the replay write.
Expected(txid, d) ==
    [txid |-> txid,
     blocks |-> [i \in 1 .. Cardinality(DOMAIN d) |->
                   LET a == Addresses(d)[i] IN <<a, d[a]>>]]

Init ==
    /\ area = Zeros(AreaSize)
    /\ last = 1
    /\ pc = "down"
    /\ record = << >> /\ written = 0 /\ cache = << >>
    /\ replayed = Nothing /\ sealed = Nothing /\ clean = TRUE
    /\ commits = 0 /\ faults = 0

\* bafs_mount: a replay, or nothing, and the superblock that names its id.
Mount ==
    /\ pc = "down"
    /\ pc' = "up"
    /\ replayed' = Recovered(area, last)
    /\ last' = IF replayed' = Nothing THEN last ELSE replayed'.txid
    /\ UNCHANGED <<area, record, written, cache, sealed, clean, commits, faults>>

\* commit_transaction, step (a); a record that does not fit is refused before
\* the first write, and so is every later flush of the volume: it is dropped.
Commit(d) ==
    /\ pc = "up"
    /\ DOMAIN d # {}
    /\ commits < MaxCommits /\ last < MaxTxid
    /\ commits' = commits + 1
    /\ \/ /\ TooLarge(d)
          /\ pc' = "down"
          /\ UNCHANGED <<record, cache>>
       \/ /\ ~TooLarge(d)
          /\ pc' = "writing"
          /\ record' = Records[last + 1][d]
          /\ cache' = d
    /\ written' = 0 /\ replayed' = Nothing
    /\ UNCHANGED <<area, last, sealed, clean, faults>>

\* The block of the record that goes to journal block n, padded with zeros.
Chunk(n) ==
    [i \in 1 .. BlockCells |->
        IF BlockCells * n + i <= Len(record) THEN record[BlockCells * n + i] ELSE {}]

\* The area after the cells of block n in S have been written.
AfterWrite(n, S) ==
    [c \in 1 .. AreaSize |->
        IF c - BlockCells * n \in S THEN Chunk(n)[c - BlockCells * n] ELSE area[c]]

LastChunk == BlockCells * (written + 1) >= Len(record)

\* The area holds the whole record from now on.
Seal ==
    IF \A c \in DOMAIN record : area'[c] = record[c]
    THEN sealed' = Expected(last + 1, cache) /\ clean' = TRUE
    ELSE UNCHANGED <<sealed, clean>>

\* write_bytes_to_journal, one block.
WriteChunk ==
    /\ pc = "writing"
    /\ area' = AfterWrite(written, 1 .. BlockCells)
    /\ written' = written + 1
    /\ pc' = IF LastChunk THEN "sealed" ELSE "writing"
    /\ Seal
    /\ UNCHANGED <<last, record, cache, replayed, commits, faults>>

\* Steps (c) and (d): the blocks in place and the superblock.
Finish ==
    /\ pc = "sealed"
    /\ pc' = "up"
    /\ last' = last + 1
    /\ record' = << >> /\ written' = 0 /\ cache' = << >>
    /\ UNCHANGED <<area, replayed, sealed, clean, commits, faults>>

Down ==
    /\ pc' = "down"
    /\ record' = << >> /\ written' = 0 /\ cache' = << >> /\ replayed' = Nothing

\* commit_transaction with an empty cache, as every bafs_unmount after a flush:
\* the id advances and the journal is left alone.
CommitEmpty ==
    /\ pc = "up"
    /\ commits < MaxCommits /\ commits' = commits + 1
    /\ last' = last + 1
    /\ replayed' = Nothing
    /\ UNCHANGED <<area, pc, record, written, cache, sealed, clean, faults>>

\* The session ends between two commits, by dropping the volume or with the
\* power.
Exit ==
    /\ pc = "up"
    /\ Down
    /\ UNCHANGED <<area, last, sealed, clean, commits, faults>>

\* Power loss between two writes of a commit, or a failed write that changed
\* nothing.  (A caller that retries on the open volume: BafsCommit.)
PowerLoss ==
    /\ pc \in {"writing", "sealed"}
    /\ faults < MaxFaults /\ faults' = faults + 1
    /\ Down
    /\ UNCHANGED <<area, last, sealed, clean, commits>>

\* Power loss inside a block write: some sectors are new.
TornWrite ==
    /\ pc = "writing"
    /\ faults < MaxFaults /\ faults' = faults + 1
    /\ \E sectors \in SUBSET (1 .. BlockCells \div SectorCells) :
         LET S == UNION {SectorCells * (s - 1) + 1 .. SectorCells * s : s \in sectors}
         IN  area' = AfterWrite(written, S)
    /\ Seal
    /\ Down
    /\ UNCHANGED <<last, commits>>

\* The medium flips a bit while no volume is mounted.
FlipBit ==
    /\ pc = "down"
    /\ faults < MaxFaults /\ faults' = faults + 1
    /\ \E c \in 1 .. AreaSize, b \in FlipBits : area' = [area EXCEPT ![c] = Xor(@, {b})]
    /\ clean' = FALSE
    /\ UNCHANGED <<last, pc, record, written, cache, replayed, sealed, commits>>

Next ==
    \/ Mount \/ (\E d \in Dirty : Commit(d)) \/ WriteChunk \/ Finish
    \/ CommitEmpty \/ Exit \/ PowerLoss \/ TornWrite \/ FlipBit

Spec == Init /\ [][Next]_vars
---------------------------------------------------------------------------
\* A mount replays only what one commit sealed, byte for byte: never a mixture
\* of two records, though records of different lengths overwrite one another
\* block by block and a crashed commit's transaction id is used again.
ReplaysOneCommit == replayed \in {Nothing, sealed}

\* Once the area holds all of it and until the superblock names it, a record is
\* replayed by the next mount, unless the medium damages it.
SealedIsReplayed ==
    [][pc = "down" /\ pc' = "up" /\ clean /\ sealed.txid > last => replayed' = sealed]_vars

\* The checksum that compute_crc32c puts on a record with its table of bytes is
\* CRC32C: the remainder of the division of its bytes by the Castagnoli polynomial.
TableMatchesDivision ==
    pc = "writing" /\ written = 0 =>
        record[Len(record)] = ReferenceCrc(BytesOf(SubSeq(record, 1, Len(record) - 1)))
===========================================================================
