--------------------------- MODULE BafsChecksum ---------------------------
(***************************************************************************)
(* CRC32C: the table and the loop of checksum.rs, and the division of      *)
(* polynomials that they have to agree with.                               *)
(*                                                                         *)
(* A word is the set of the positions of its one bits.                     *)
(***************************************************************************)
EXTENDS Integers, Sequences, FiniteSetsExt

Word == SUBSET (0 .. 31)
Byte == SUBSET (0 .. 7)

Xor(a, b) == SymDiff(a, b)
ShiftRight(w, n) == {b - n : b \in {x \in w : x >= n}}
AllOnes == 0 .. 31

\* 0x82F63B78
CASTAGNOLI_POLYNOMIAL_REVERSED ==
    {3, 4, 5, 6, 8, 9, 11, 12, 13, 17, 18, 20, 21, 22, 23, 25, 31}

\* One round of the feedback register.
ShiftOut(w) ==
    IF 0 \in w THEN Xor(ShiftRight(w, 1), CASTAGNOLI_POLYNOMIAL_REVERSED)
    ELSE ShiftRight(w, 1)

\* The register after some rounds.
Remainder(byte, rounds) ==
    LET after[bit \in 0 .. rounds] == IF bit = 0 THEN byte ELSE ShiftOut(after[bit - 1])
    IN  after[rounds]

\* Mutant of CRC32C_LOOKUP_TABLE: one round too few.
LookupTableShort == [byte \in Byte |-> Remainder(byte, 7)]

\* The table that build_crc32c_lookup_table computes.
CRC32C_LOOKUP_TABLE == [byte \in Byte |-> Remainder(byte, 8)]

\* One byte: xor it into the low bits, look the remainder up, shift the rest down.
UpdateByte(byte) ==
    [accumulator \in Word |->
        Xor(ShiftRight(accumulator, 8),
            CRC32C_LOOKUP_TABLE[Xor(accumulator, byte) \cap (0 .. 7)])]

compute_crc32c(data) ==
    LET after[i \in 0 .. Len(data)] ==
            IF i = 0 THEN AllOnes ELSE UpdateByte(data[i])[after[i - 1]]
    IN  Xor(after[Len(data)], AllOnes)
---------------------------------------------------------------------------
\* The reference: the message as a polynomial, lowest bit of each byte first,
\* divided by 0x1EDC6F41 with the register shifting towards the high powers.
Castagnoli == {0, 6, 8, 9, 10, 11, 13, 14, 18, 19, 20, 22, 23, 25, 26, 27, 28}

DivideBit(register, bit) ==
    LET shifted == {b + 1 : b \in register \ {31}}
    IN  IF (31 \in register) # bit THEN Xor(shifted, Castagnoli) ELSE shifted

DivideByte(byte) ==
    [register \in Word |->
        LET after[n \in 0 .. 8] ==
                IF n = 0 THEN register ELSE DivideBit(after[n - 1], n - 1 \in byte)
        IN  after[8]]

\* The remainder, read backwards and inverted.
ReferenceCrc(data) ==
    LET after[i \in 0 .. Len(data)] ==
            IF i = 0 THEN AllOnes ELSE DivideByte(data[i])[after[i - 1]]
    IN  Xor({31 - b : b \in after[Len(data)]}, AllOnes)

\* The reference gives the standard test vector of the code's documentation:
\* the bytes of "123456789" have the checksum 0xE3069283.
ASSUME StandardTestVector ==
    LET digits == <<{0}, {1}, {0, 1}, {2}, {0, 2}, {1, 2}, {0, 1, 2}, {3}, {0, 3}>>
    IN  ReferenceCrc([i \in 1 .. 9 |-> digits[i] \cup {4, 5}])
          = {0, 1, 7, 9, 12, 15, 17, 18, 24, 25, 29, 30, 31}
===========================================================================
