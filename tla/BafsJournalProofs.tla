------------------------ MODULE BafsJournalProofs -------------------------
(***************************************************************************)
(* Theorems about BafsJournal.  The checksum of the source, with its table, *)
(* is CRC32C for messages of any length; a commit record is parsed to the   *)
(* commit it was built from; and a record that the journal holds in full is *)
(* replayed, whatever crashes, torn writes and damage came before.          *)
(***************************************************************************)
EXTENDS BafsJournal, BafsLemmas, FiniteSetTheorems

\* Bit by bit.

\* A bit is set in the sum of two words when it is set in exactly one of them.
LEMMA XorBit ==
    ASSUME NEW a, NEW b, NEW x
    PROVE  x \in Xor(a, b) <=> ~(x \in a <=> x \in b)
  BY DEF Xor, SymDiff

\* A right shift by n puts bit x + n at bit x.
LEMMA ShiftRightBit ==
    ASSUME NEW w \in Word, NEW n \in Nat, NEW x
    PROVE  x \in ShiftRight(w, n) <=> x \in Nat /\ x + n \in w
<1>1. \A b \in w : b \in Nat
  BY DEF Word
<1>2. ASSUME x \in ShiftRight(w, n) PROVE x \in Nat /\ x + n \in w
  <2>1. PICK b \in w : b >= n /\ x = b - n
    BY <1>2 DEF ShiftRight
  <2>2. b \in Nat
    BY <1>1
  <2>3. x \in Nat /\ x + n = b
    BY <2>1, <2>2
  <2> QED  BY <2>1, <2>3
<1>3. ASSUME x \in Nat, x + n \in w PROVE x \in ShiftRight(w, n)
  <2>1. x + n >= n /\ x = (x + n) - n
    BY <1>3
  <2> QED  BY <1>3, <2>1 DEF ShiftRight
<1> QED  BY <1>2, <1>3

\* A right shift of a word is a word.
LEMMA ShiftRightWord ==
    ASSUME NEW w \in Word, NEW n \in Nat
    PROVE  ShiftRight(w, n) \in Word
<1>1. \A x : x \in ShiftRight(w, n) => x \in 0 .. 31
  <2> SUFFICES ASSUME NEW x, x \in ShiftRight(w, n) PROVE x \in 0 .. 31
    OBVIOUS
  <2>1. x \in Nat /\ x + n \in w
    BY ShiftRightBit
  <2>2. x + n \in 0 .. 31
    BY <2>1 DEF Word
  <2> QED  BY <2>1, <2>2
<1> QED  BY <1>1 DEF Word

\* Both forms of the Castagnoli polynomial are words.
LEMMA PolynomialWords ==
    CASTAGNOLI_POLYNOMIAL_REVERSED \in Word /\ Castagnoli \in Word
  BY DEF CASTAGNOLI_POLYNOMIAL_REVERSED, Castagnoli, Word

\* The sum of two words is a word.
LEMMA XorWord ==
    ASSUME NEW a \in Word, NEW b \in Word
    PROVE  Xor(a, b) \in Word
  BY DEF Xor, SymDiff, Word

\* A round of the register moves each bit down, and feeds bit 0 back.
LEMMA ShiftOutBit ==
    ASSUME NEW w \in Word, NEW x \in Nat
    PROVE  x \in ShiftOut(w) <=>
             ~(x + 1 \in w <=> (0 \in w /\ x \in CASTAGNOLI_POLYNOMIAL_REVERSED))
<1>1. x \in ShiftRight(w, 1) <=> x + 1 \in w
  BY ShiftRightBit
<1> QED  BY <1>1, XorBit DEF ShiftOut

\* One round of the table's inner loop gives a word.
LEMMA ShiftOutWord ==
    ASSUME NEW w \in Word
    PROVE  ShiftOut(w) \in Word
  BY ShiftRightWord, XorWord, PolynomialWords DEF ShiftOut

\* Two words are equal when their bits are.
LEMMA SameWord ==
    ASSUME NEW a \in Word, NEW b \in Word, \A x \in Nat : x \in a <=> x \in b
    PROVE  a = b
<1>1. \A x : x \in a => x \in Nat
  BY DEF Word
<1>2. \A x : x \in b => x \in Nat
  BY DEF Word
<1> QED  BY <1>1, <1>2

\* A round is linear.
LEMMA ShiftOutXor ==
    ASSUME NEW a \in Word, NEW b \in Word
    PROVE  ShiftOut(Xor(a, b)) = Xor(ShiftOut(a), ShiftOut(b))
<1>1. /\ Xor(a, b) \in Word /\ ShiftOut(Xor(a, b)) \in Word
      /\ ShiftOut(a) \in Word /\ ShiftOut(b) \in Word /\ Xor(ShiftOut(a), ShiftOut(b)) \in Word
  BY XorWord, ShiftOutWord
<1>2. ASSUME NEW x \in Nat
      PROVE  x \in ShiftOut(Xor(a, b)) <=> x \in Xor(ShiftOut(a), ShiftOut(b))
  <2> DEFINE P == CASTAGNOLI_POLYNOMIAL_REVERSED
  <2>1. x \in ShiftOut(Xor(a, b)) <=> ~(x + 1 \in Xor(a, b) <=> (0 \in Xor(a, b) /\ x \in P))
    BY <1>1, ShiftOutBit
  <2>2. /\ x \in ShiftOut(a) <=> ~(x + 1 \in a <=> (0 \in a /\ x \in P))
        /\ x \in ShiftOut(b) <=> ~(x + 1 \in b <=> (0 \in b /\ x \in P))
    BY ShiftOutBit
  <2>3. /\ x + 1 \in Xor(a, b) <=> ~(x + 1 \in a <=> x + 1 \in b)
        /\ 0 \in Xor(a, b) <=> ~(0 \in a <=> 0 \in b)
        /\ x \in Xor(ShiftOut(a), ShiftOut(b)) <=> ~(x \in ShiftOut(a) <=> x \in ShiftOut(b))
    BY XorBit
  <2> QED  BY <2>1, <2>2, <2>3
<1> QED  BY <1>1, <1>2, SameWord

\* A round on a word without bit 0 shifts it.
LEMMA ShiftOutEven ==
    ASSUME NEW w \in Word, NEW n \in Nat, n \notin w
    PROVE  ShiftOut(ShiftRight(w, n)) = ShiftRight(w, n + 1)
<1> DEFINE v == ShiftRight(w, n)
<1>1. v \in Word /\ ShiftRight(v, 1) \in Word /\ ShiftRight(w, n + 1) \in Word
  BY ShiftRightWord
<1>2. 0 \notin v
  BY ShiftRightBit
<1>3. ASSUME NEW x \in Nat PROVE x \in ShiftRight(v, 1) <=> x \in ShiftRight(w, n + 1)
  <2>1. x \in ShiftRight(v, 1) <=> x + 1 \in v
    <3> HIDE DEF v
    <3> QED  BY <1>1, ShiftRightBit
  <2>2. x + 1 \in v <=> (x + 1) + n \in w
    BY ShiftRightBit
  <2>3. x \in ShiftRight(w, n + 1) <=> x + (n + 1) \in w
    BY ShiftRightBit
  <2>4. (x + 1) + n = x + (n + 1)
    OBVIOUS
  <2> QED  BY <2>1, <2>2, <2>3, <2>4
<1>4. ShiftRight(v, 1) = ShiftRight(w, n + 1)
  BY <1>1, <1>3, SameWord
<1> QED  BY <1>2, <1>4 DEF ShiftOut
---------------------------------------------------------------------------
\* Eight rounds.

Two(w) == ShiftOut(ShiftOut(w))
Four(w) == Two(Two(w))
Eight(w) == Four(Four(w))

\* Any number of rounds gives a word.
LEMMA RoundsWord ==
    ASSUME NEW w \in Word
    PROVE  Two(w) \in Word /\ Four(w) \in Word /\ Eight(w) \in Word
<1>1. \A v \in Word : Two(v) \in Word
  BY ShiftOutWord DEF Two
<1>2. \A v \in Word : Four(v) \in Word
  BY <1>1 DEF Four
<1> QED  BY <1>1, <1>2 DEF Eight

\* Eight rounds are linear: they may be applied to the two terms of a sum apart.
LEMMA EightXor ==
    ASSUME NEW a \in Word, NEW b \in Word
    PROVE  Eight(Xor(a, b)) = Xor(Eight(a), Eight(b))
<1>1. \A v, w \in Word : Two(Xor(v, w)) = Xor(Two(v), Two(w))
  BY ShiftOutWord, ShiftOutXor DEF Two
<1>2. \A v, w \in Word : Four(Xor(v, w)) = Xor(Four(v), Four(w))
  BY <1>1, RoundsWord DEF Four
<1> QED  BY <1>2, RoundsWord DEF Eight

\* A word with no bit below 8 is shifted.
LEMMA EightHigh ==
    ASSUME NEW w \in Word, \A n \in 0 .. 7 : n \notin w
    PROVE  Eight(w) = ShiftRight(w, 8)
<1>1. ShiftRight(w, 0) = w
  <2>1. \A x \in Nat : x \in ShiftRight(w, 0) <=> x \in w
    BY ShiftRightBit
  <2> QED  BY <2>1, ShiftRightWord, SameWord
<1>2. /\ ShiftOut(ShiftRight(w, 0)) = ShiftRight(w, 1)
      /\ ShiftOut(ShiftRight(w, 1)) = ShiftRight(w, 2)
      /\ ShiftOut(ShiftRight(w, 2)) = ShiftRight(w, 3)
      /\ ShiftOut(ShiftRight(w, 3)) = ShiftRight(w, 4)
      /\ ShiftOut(ShiftRight(w, 4)) = ShiftRight(w, 5)
      /\ ShiftOut(ShiftRight(w, 5)) = ShiftRight(w, 6)
      /\ ShiftOut(ShiftRight(w, 6)) = ShiftRight(w, 7)
      /\ ShiftOut(ShiftRight(w, 7)) = ShiftRight(w, 8)
  <2>1. \A n \in 0 .. 7 : ShiftOut(ShiftRight(w, n)) = ShiftRight(w, n + 1)
    BY ShiftOutEven
  <2> QED  BY <2>1
<1>3. Four(w) = ShiftRight(w, 4)
  BY <1>1, <1>2 DEF Four, Two
<1>4. Four(ShiftRight(w, 4)) = ShiftRight(w, 8)
  BY <1>2 DEF Four, Two
<1> QED  BY <1>3, <1>4 DEF Eight

\* The loop of build_crc32c_lookup_table.
LEMMA RemainderIsEight ==
    ASSUME NEW byte \in Word
    PROVE  Remainder(byte, 8) = Eight(byte)
<1> DEFINE Round(g, i) == IF i = 0 THEN byte ELSE ShiftOut(g[i - 1])
           after == CHOOSE g : g = [i \in 0 .. 8 |-> Round(g, i)]
           step == [i \in 1 .. 8 |-> [x \in Word |-> ShiftOut(x)]]
<1>1. Remainder(byte, 8) = after[8]
  BY DEF Remainder
<1>2. PICK f : IsFold(f, Word, 8, byte, step)
  <2>1. \A x \in Word, i \in 1 .. 8 : step[i][x] \in Word
    BY ShiftOutWord
  <2> HIDE DEF step
  <2> QED  BY <2>1, FoldDefined
<1>3. f = [i \in 0 .. 8 |-> Round(f, i)]
  <2>1. f \in [0 .. 8 -> Word] /\ \A i \in 1 .. 8 : f[i - 1] \in Word
    BY <1>2 DEF IsFold
  <2> QED  BY <1>2, <2>1 DEF IsFold
<1>4. after = [i \in 0 .. 8 |-> Round(after, i)]
  <2> HIDE DEF Round
  <2> QED  BY <1>3
<1> HIDE DEF after
<1>5. after[0] = byte /\ \A i \in 1 .. 8 : after[i] = ShiftOut(after[i - 1])
  BY <1>4
<1>6. /\ after[1] = ShiftOut(after[0]) /\ after[2] = ShiftOut(after[1])
      /\ after[3] = ShiftOut(after[2]) /\ after[4] = ShiftOut(after[3])
      /\ after[5] = ShiftOut(after[4]) /\ after[6] = ShiftOut(after[5])
      /\ after[7] = ShiftOut(after[6]) /\ after[8] = ShiftOut(after[7])
  BY <1>5
<1> QED  BY <1>1, <1>5, <1>6 DEF Eight, Four, Two

\* One step of compute_crc32c: eight rounds on the register with the byte xored
\* in, the low bits by the table and the high ones by the shift.
LEMMA UpdateIsEight ==
    ASSUME NEW accumulator \in Word, NEW byte \in Byte
    PROVE  UpdateByte(byte)[accumulator] = Eight(Xor(accumulator, byte))
<1> DEFINE w == Xor(accumulator, byte)
           low == w \cap (0 .. 7)
           high == w \ (0 .. 7)
<1>1. byte \in Word /\ \A x \in byte : x \in 0 .. 7
  BY DEF Word, Byte
<1>2. w \in Word
  BY <1>1, XorWord
<1>3. low \in Word /\ high \in Word /\ low \in Byte
  BY <1>2 DEF Word, Byte
<1>4. w = Xor(low, high)
  BY DEF Xor, SymDiff
<1>5. Eight(w) = Xor(Eight(low), Eight(high))
  BY <1>3, <1>4, EightXor
<1>6. Eight(low) = CRC32C_LOOKUP_TABLE[low]
  BY <1>3, RemainderIsEight DEF CRC32C_LOOKUP_TABLE
<1>7. Eight(high) = ShiftRight(high, 8)
  BY <1>3, EightHigh
<1>8. ShiftRight(high, 8) = ShiftRight(accumulator, 8)
  <2>1. ASSUME NEW x \in Nat PROVE x \in ShiftRight(high, 8) <=> x \in ShiftRight(accumulator, 8)
    <3>1. x \in ShiftRight(high, 8) <=> x + 8 \in high
      <4> HIDE DEF high
      <4> QED  BY <1>3, ShiftRightBit
    <3>2. x \in ShiftRight(accumulator, 8) <=> x + 8 \in accumulator
      BY ShiftRightBit
    <3>3. x + 8 \notin 0 .. 7 /\ x + 8 \notin byte
      BY <1>1
    <3>4. x + 8 \in high <=> x + 8 \in accumulator
      BY <3>3, XorBit
    <3> QED  BY <3>1, <3>2, <3>4
  <2> HIDE DEF high
  <2> QED  BY <1>3, <2>1, ShiftRightWord, SameWord
<1>9. \A a, b : Xor(a, b) = Xor(b, a)
  BY DEF Xor, SymDiff
<1> HIDE DEF low, high
<1> QED  BY <1>5, <1>6, <1>7, <1>8, <1>9 DEF UpdateByte, low
---------------------------------------------------------------------------
\* The division, read backwards.

Reflect(r) == {31 - b : b \in r}

\* Reflection moves bit x to bit 31 - x.
LEMMA ReflectBit ==
    ASSUME NEW r \in Word, NEW x
    PROVE  x \in Reflect(r) <=> x \in 0 .. 31 /\ 31 - x \in r
<1>1. \A b \in r : b \in 0 .. 31
  BY DEF Word
<1>2. ASSUME x \in Reflect(r) PROVE x \in 0 .. 31 /\ 31 - x \in r
  <2>1. PICK b \in r : x = 31 - b
    BY <1>2 DEF Reflect
  <2>2. b \in 0 .. 31
    BY <1>1
  <2>3. x \in 0 .. 31 /\ 31 - x = b
    BY <2>1, <2>2
  <2> QED  BY <2>1, <2>3
<1>3. ASSUME x \in 0 .. 31, 31 - x \in r PROVE x \in Reflect(r)
  <2>1. x = 31 - (31 - x)
    BY <1>3
  <2> QED  BY <1>3, <2>1 DEF Reflect
<1> QED  BY <1>2, <1>3

\* The reflection of a word is a word.
LEMMA ReflectWord ==
    ASSUME NEW r \in Word
    PROVE  Reflect(r) \in Word
  BY ReflectBit DEF Word

\* The constant of checksum.rs is the reflected Castagnoli polynomial.
LEMMA PolynomialReflects ==
    ASSUME NEW x \in 0 .. 31
    PROVE  x \in CASTAGNOLI_POLYNOMIAL_REVERSED <=> 31 - x \in Castagnoli
  BY DEF CASTAGNOLI_POLYNOMIAL_REVERSED, Castagnoli

\* One step of the long division, bit by bit.
LEMMA DivideBitBit ==
    ASSUME NEW r \in Word, NEW bit \in BOOLEAN
    PROVE  /\ DivideBit(r, bit) \in Word
           /\ \A y \in 0 .. 31 :
                 y \in DivideBit(r, bit) <=>
                   ~((y # 0 /\ y - 1 \in r) <=> (~(31 \in r <=> bit) /\ y \in Castagnoli))
<1> DEFINE shifted == {b + 1 : b \in r \ {31}}
<1>1. \A b \in r : b \in 0 .. 31
  BY DEF Word
<1>2. \A y \in 0 .. 31 : y \in shifted <=> y # 0 /\ y - 1 \in r
  <2> SUFFICES ASSUME NEW y \in 0 .. 31 PROVE y \in shifted <=> y # 0 /\ y - 1 \in r
    OBVIOUS
  <2>1. ASSUME y \in shifted PROVE y # 0 /\ y - 1 \in r
    <3>1. PICK b \in r \ {31} : y = b + 1
      BY <2>1
    <3>2. b \in 0 .. 31 /\ y - 1 = b /\ y # 0
      BY <1>1, <3>1
    <3> QED  BY <3>1, <3>2
  <2>2. ASSUME y # 0, y - 1 \in r PROVE y \in shifted
    <3>1. y - 1 # 31 /\ y = (y - 1) + 1
      OBVIOUS
    <3> QED  BY <2>2, <3>1
  <2> QED  BY <2>1, <2>2
<1>3. shifted \in Word
  <2>1. \A b \in r \ {31} : b + 1 \in 0 .. 31
    BY <1>1
  <2> QED  BY <2>1 DEF Word
<1>4. DivideBit(r, bit) = IF ~(31 \in r <=> bit) THEN Xor(shifted, Castagnoli) ELSE shifted
  <2>1. ((31 \in r) # bit) <=> ~(31 \in r <=> bit)
    OBVIOUS
  <2> QED  BY <2>1 DEF DivideBit
<1> HIDE DEF shifted
<1>5. DivideBit(r, bit) \in Word
  BY <1>3, <1>4, XorWord, PolynomialWords
<1>6. ASSUME NEW y \in 0 .. 31
      PROVE  y \in DivideBit(r, bit) <=>
               ~(y \in shifted <=> (~(31 \in r <=> bit) /\ y \in Castagnoli))
  BY <1>4, XorBit
<1> QED  BY <1>2, <1>5, <1>6

Bit0(bit) == IF bit THEN {0} ELSE {}

\* A step of the division is a round of the register, backwards.
LEMMA DivideBitReflects ==
    ASSUME NEW r \in Word, NEW bit \in BOOLEAN
    PROVE  Reflect(DivideBit(r, bit)) = ShiftOut(Xor(Reflect(r), Bit0(bit)))
<1> DEFINE v == Xor(Reflect(r), Bit0(bit))
           P == CASTAGNOLI_POLYNOMIAL_REVERSED
<1>1. Bit0(bit) \in Word /\ v \in Word /\ DivideBit(r, bit) \in Word
  <2>1. Bit0(bit) \in Word
    BY DEF Bit0, Word
  <2> QED  BY <2>1, ReflectWord, XorWord, DivideBitBit
<1>2. Reflect(DivideBit(r, bit)) \in Word /\ ShiftOut(v) \in Word
  BY <1>1, ReflectWord, ShiftOutWord
<1>3. 0 \in v <=> ~(31 \in r <=> bit)
  <2>1. 0 \in Reflect(r) <=> 31 \in r
    <3>1. 31 - 0 = 31 /\ 0 \in 0 .. 31
      OBVIOUS
    <3> QED  BY <3>1, ReflectBit
  <2>2. 0 \in Bit0(bit) <=> bit
    BY DEF Bit0
  <2> QED  BY <2>1, <2>2, XorBit
<1>4. ASSUME NEW x \in Nat
      PROVE  x \in Reflect(DivideBit(r, bit)) <=> x \in ShiftOut(v)
  <2>1. x \in Reflect(DivideBit(r, bit)) <=> x \in 0 .. 31 /\ 31 - x \in DivideBit(r, bit)
    BY <1>1, ReflectBit
  <2>2. x \in ShiftOut(v) <=> ~(x + 1 \in v <=> (0 \in v /\ x \in P))
    <3> HIDE DEF v
    <3> QED  BY <1>1, ShiftOutBit
  <2>3. x + 1 \in v <=> x + 1 \in 0 .. 31 /\ 31 - (x + 1) \in r
    <3>1. x + 1 \notin Bit0(bit)
      BY DEF Bit0
    <3> QED  BY <3>1, XorBit, ReflectBit
  <2>4. CASE x \in 0 .. 31
    <3> DEFINE y == 31 - x
    <3>1. y \in 0 .. 31 /\ (y # 0 <=> x + 1 \in 0 .. 31) /\ y - 1 = 31 - (x + 1)
      BY <2>4
    <3>2. x \in P <=> y \in Castagnoli
      BY <2>4, PolynomialReflects
    <3> HIDE DEF y
    <3>3. y \in DivideBit(r, bit) <=>
            ~((y # 0 /\ y - 1 \in r) <=> (~(31 \in r <=> bit) /\ y \in Castagnoli))
      BY <3>1, DivideBitBit
    <3>4. x \in Reflect(DivideBit(r, bit)) <=> y \in DivideBit(r, bit)
      BY <2>1, <2>4 DEF y
    <3> HIDE DEF v, P
    <3> QED  BY <1>3, <2>2, <2>3, <3>1, <3>2, <3>3, <3>4
  <2>5. CASE x \notin 0 .. 31
    <3>1. x + 1 \notin 0 .. 31 /\ x \notin P
      BY <2>5, PolynomialWords DEF Word
    <3> QED  BY <2>1, <2>2, <2>3, <2>5, <3>1
  <2> QED  BY <2>4, <2>5
<1> HIDE DEF v
<1>5. Reflect(DivideBit(r, bit)) = ShiftOut(v)
  BY <1>2, <1>4, SameWord
<1> QED  BY <1>5 DEF v

\* After n bits of a byte: n rounds on the register with the whole byte xored
\* in, and the bits that are still to come.
LEMMA DivideStep ==
    ASSUME NEW r \in Word, NEW byte \in Byte, NEW v \in Word, NEW n \in 0 .. 7,
           Reflect(r) = Xor(v, ShiftRight(byte, n))
    PROVE  /\ DivideBit(r, n \in byte) \in Word
           /\ ShiftOut(v) \in Word
           /\ Reflect(DivideBit(r, n \in byte)) = Xor(ShiftOut(v), ShiftRight(byte, n + 1))
<1> DEFINE rest == ShiftRight(byte, n)
           c == Xor(rest, Bit0(n \in byte))
<1>1. byte \in Word /\ rest \in Word /\ ShiftRight(byte, n + 1) \in Word
  <2>1. byte \in Word
    BY DEF Byte, Word
  <2> QED  BY <2>1, ShiftRightWord
<1>2. Bit0(n \in byte) \in Word /\ c \in Word
  <2>1. Bit0(n \in byte) \in Word
    BY DEF Bit0, Word
  <2> QED  BY <1>1, <2>1, XorWord
<1>3. Reflect(DivideBit(r, n \in byte)) = ShiftOut(Xor(Xor(v, rest), Bit0(n \in byte)))
  <2>1. (n \in byte) \in BOOLEAN
    OBVIOUS
  <2> QED  BY <2>1, DivideBitReflects
<1>4. Xor(Xor(v, rest), Bit0(n \in byte)) = Xor(v, c)
  <2>1. \A p, q, s : Xor(Xor(p, q), s) = Xor(p, Xor(q, s))
    BY DEF Xor, SymDiff
  <2> HIDE DEF rest
  <2> QED  BY <2>1
<1>5. ShiftOut(Xor(v, c)) = Xor(ShiftOut(v), ShiftOut(c))
  <2> HIDE DEF c
  <2> QED  BY <1>2, ShiftOutXor
<1>6. 0 \notin c
  <2>1. 0 \in rest <=> n \in byte
    <3>1. 0 + n = n /\ 0 \in Nat /\ n \in Nat
      OBVIOUS
    <3> QED  BY <1>1, <3>1, ShiftRightBit
  <2>2. 0 \in Bit0(n \in byte) <=> n \in byte
    BY DEF Bit0
  <2> HIDE DEF rest
  <2> QED  BY <2>1, <2>2, XorBit
<1>7. ShiftOut(c) = ShiftRight(byte, n + 1)
  <2>1. ASSUME NEW x \in Nat PROVE x \in ShiftRight(c, 1) <=> x \in ShiftRight(byte, n + 1)
    <3>1. x \in ShiftRight(c, 1) <=> x + 1 \in c
      <4> HIDE DEF c
      <4> QED  BY <1>2, ShiftRightBit
    <3>2. x + 1 \in c <=> x + 1 \in rest
      <4>1. x + 1 \notin Bit0(n \in byte)
        BY DEF Bit0
      <4> HIDE DEF rest
      <4> QED  BY <4>1, XorBit
    <3>3. x + 1 \in rest <=> (x + 1) + n \in byte
      BY <1>1, ShiftRightBit
    <3>4. x \in ShiftRight(byte, n + 1) <=> x + (n + 1) \in byte
      BY <1>1, ShiftRightBit
    <3>5. (x + 1) + n = x + (n + 1)
      OBVIOUS
    <3> HIDE DEF c, rest
    <3> QED  BY <3>1, <3>2, <3>3, <3>4, <3>5
  <2> HIDE DEF c
  <2>2. ShiftRight(c, 1) = ShiftRight(byte, n + 1)
    BY <1>1, <1>2, <2>1, ShiftRightWord, SameWord
  <2> QED  BY <1>6, <2>2 DEF ShiftOut
<1>8. DivideBit(r, n \in byte) \in Word /\ ShiftOut(v) \in Word
  <2>1. (n \in byte) \in BOOLEAN
    OBVIOUS
  <2> QED  BY <2>1, DivideBitBit, ShiftOutWord
<1> HIDE DEF rest, c
<1> QED  BY <1>3, <1>4, <1>5, <1>7, <1>8

\* A byte of the division is eight rounds of the register, backwards.
LEMMA DivideByteReflects ==
    ASSUME NEW r \in Word, NEW byte \in Byte
    PROVE  /\ DivideByte(byte)[r] \in Word
           /\ Reflect(DivideByte(byte)[r]) = Eight(Xor(Reflect(r), byte))
<1> DEFINE Round(g, i) == IF i = 0 THEN r ELSE DivideBit(g[i - 1], i - 1 \in byte)
           after == CHOOSE g : g = [i \in 0 .. 8 |-> Round(g, i)]
           step == [i \in 1 .. 8 |-> [x \in Word |-> DivideBit(x, i - 1 \in byte)]]
<1>1. DivideByte(byte)[r] = after[8]
  BY DEF DivideByte
<1>2. PICK f : IsFold(f, Word, 8, r, step)
  <2>1. \A x \in Word, i \in 1 .. 8 : step[i][x] \in Word
    <3> SUFFICES ASSUME NEW x \in Word, NEW i \in 1 .. 8 PROVE DivideBit(x, i - 1 \in byte) \in Word
      OBVIOUS
    <3>1. (i - 1 \in byte) \in BOOLEAN
      OBVIOUS
    <3> QED  BY <3>1, DivideBitBit
  <2> HIDE DEF step
  <2> QED  BY <2>1, FoldDefined
<1>3. f = [i \in 0 .. 8 |-> Round(f, i)]
  <2>1. f \in [0 .. 8 -> Word] /\ \A i \in 1 .. 8 : f[i - 1] \in Word
    BY <1>2 DEF IsFold
  <2> QED  BY <1>2, <2>1 DEF IsFold
<1>4. after = [i \in 0 .. 8 |-> Round(after, i)]
  <2> HIDE DEF Round
  <2> QED  BY <1>3
<1> HIDE DEF after
<1>5. after[0] = r /\ \A n \in 0 .. 7 : after[n + 1] = DivideBit(after[n], n \in byte)
  <2>1. \A i \in 1 .. 8 : after[i] = DivideBit(after[i - 1], i - 1 \in byte)
    BY <1>4
  <2>2. \A n \in 0 .. 7 : n + 1 \in 1 .. 8 /\ (n + 1) - 1 = n
    OBVIOUS
  <2> QED  BY <1>4, <2>1, <2>2
<1> DEFINE Matches(n, v) ==
      /\ v \in Word /\ after[n] \in Word
      /\ Reflect(after[n]) = Xor(v, ShiftRight(byte, n))
<1>6. ASSUME NEW n \in 0 .. 7, NEW v, Matches(n, v) PROVE Matches(n + 1, ShiftOut(v))
  BY <1>5, <1>6, DivideStep
<1> DEFINE v0 == Xor(Reflect(r), byte)
<1>7. Matches(0, v0)
  <2>1. byte \in Word
    BY DEF Byte, Word
  <2>2. v0 \in Word
    BY <2>1, ReflectWord, XorWord
  <2>3. ShiftRight(byte, 0) = byte
    <3>1. \A x \in Nat : x \in ShiftRight(byte, 0) <=> x \in byte
      BY <2>1, ShiftRightBit
    <3> QED  BY <2>1, <3>1, ShiftRightWord, SameWord
  <2>4. Xor(Xor(Reflect(r), byte), byte) = Reflect(r)
    BY DEF Xor, SymDiff
  <2> QED  BY <1>5, <2>2, <2>3, <2>4
<1> HIDE DEF Matches, v0
<1>8. Matches(2, Two(v0))
  <2>1. Matches(1, ShiftOut(v0))
    BY <1>6, <1>7
  <2> QED  BY <1>6, <2>1 DEF Two
<1>9. Matches(4, Four(v0))
  <2>1. Matches(3, ShiftOut(Two(v0)))
    BY <1>6, <1>8
  <2> QED  BY <1>6, <2>1 DEF Four, Two
<1>10. Matches(6, Two(Four(v0)))
  <2>1. Matches(5, ShiftOut(Four(v0)))
    BY <1>6, <1>9
  <2> QED  BY <1>6, <2>1 DEF Two
<1>11. Matches(8, Eight(v0))
  <2>1. Matches(7, ShiftOut(Two(Four(v0))))
    BY <1>6, <1>10
  <2>2. Matches(8, ShiftOut(ShiftOut(Two(Four(v0)))))
    BY <1>6, <2>1
  <2>3. Eight(v0) = ShiftOut(ShiftOut(Two(Four(v0))))
    BY DEF Eight, Four, Two
  <2> QED  BY <2>2, <2>3
<1>12. ShiftRight(byte, 8) = {}
  <2>1. \A b \in byte : b \in 0 .. 7
    BY DEF Byte
  <2> QED  BY <2>1 DEF ShiftRight
<1>13. Xor(Eight(v0), {}) = Eight(v0)
  BY DEF Xor, SymDiff
<1> QED  BY <1>1, <1>11, <1>12, <1>13 DEF Matches, v0
---------------------------------------------------------------------------
\* compute_crc32c, with its table and its reflected register, computes the
\* remainder of the division by the Castagnoli polynomial, of every message.
THEOREM TableIsCrc32c ==
    \A data \in Seq(Byte) :
        compute_crc32c(data) = ReferenceCrc(data) /\ compute_crc32c(data) \in Word
<1> TAKE data \in Seq(Byte)
<1> DEFINE n == Len(data)
           UpdateBody(g, i) == IF i = 0 THEN AllOnes ELSE UpdateByte(data[i])[g[i - 1]]
           DivideBody(g, i) == IF i = 0 THEN AllOnes ELSE DivideByte(data[i])[g[i - 1]]
           u == CHOOSE g : g = [i \in 0 .. n |-> UpdateBody(g, i)]
           d == CHOOSE g : g = [i \in 0 .. n |-> DivideBody(g, i)]
<1>1. n \in Nat /\ \A i \in 1 .. n : data[i] \in Byte
  BY LenProperties, ElementOfSeq
<1>2. AllOnes \in Word /\ Reflect(AllOnes) = AllOnes
  <2>1. AllOnes \in Word
    BY DEF AllOnes, Word
  <2>2. \A x \in Nat : x \in Reflect(AllOnes) <=> x \in AllOnes
    <3> SUFFICES ASSUME NEW x \in Nat PROVE x \in Reflect(AllOnes) <=> x \in AllOnes
      OBVIOUS
    <3>1. x \in Reflect(AllOnes) <=> x \in 0 .. 31 /\ 31 - x \in AllOnes
      BY <2>1, ReflectBit
    <3> QED  BY <3>1 DEF AllOnes
  <2> QED  BY <2>1, <2>2, ReflectWord, SameWord
<1>3. \A w \in Word, b \in Byte : UpdateByte(b)[w] \in Word
  <2>1. \A b \in Byte : b \in Word
    BY DEF Byte, Word
  <2> QED  BY <2>1, UpdateIsEight, RoundsWord, XorWord
<1> HIDE DEF n
<1>4. u = [i \in 0 .. n |-> UpdateBody(u, i)]
  <2> DEFINE step == [i \in 1 .. n |-> UpdateByte(data[i])]
  <2>1. \A x \in Word, i \in 1 .. n : step[i][x] \in Word
    BY <1>1, <1>3
  <2>2. PICK f : IsFold(f, Word, n, AllOnes, step)
    <3> HIDE DEF step
    <3> QED  BY <1>1, <1>2, <2>1, FoldDefined
  <2>3. f = [i \in 0 .. n |-> UpdateBody(f, i)]
    <3>1. \A i \in 0 .. n : i # 0 => step[i] = UpdateByte(data[i])
      BY <1>1
    <3> HIDE DEF step
    <3> QED  BY <1>1, <2>2, <3>1 DEF IsFold
  <2> HIDE DEF UpdateBody
  <2> QED  BY <2>3
<1>5. d = [i \in 0 .. n |-> DivideBody(d, i)]
  <2> DEFINE step == [i \in 1 .. n |-> DivideByte(data[i])]
  <2>1. \A x \in Word, i \in 1 .. n : step[i][x] \in Word
    BY <1>1, DivideByteReflects
  <2>2. PICK f : IsFold(f, Word, n, AllOnes, step)
    <3> HIDE DEF step
    <3> QED  BY <1>1, <1>2, <2>1, FoldDefined
  <2>3. f = [i \in 0 .. n |-> DivideBody(f, i)]
    <3>1. \A i \in 0 .. n : i # 0 => step[i] = DivideByte(data[i])
      BY <1>1
    <3> HIDE DEF step
    <3> QED  BY <1>1, <2>2, <3>1 DEF IsFold
  <2> HIDE DEF DivideBody
  <2> QED  BY <2>3
<1>6. compute_crc32c(data) = Xor(u[n], AllOnes) /\ ReferenceCrc(data) = Xor(Reflect(d[n]), AllOnes)
  BY DEF compute_crc32c, ReferenceCrc, Reflect, n
<1> HIDE DEF u, d
<1>7. /\ u[0] = AllOnes /\ \A i \in 1 .. n : u[i] = UpdateByte(data[i])[u[i - 1]]
      /\ d[0] = AllOnes /\ \A i \in 1 .. n : d[i] = DivideByte(data[i])[d[i - 1]]
  <2>1. 0 \in 0 .. n /\ \A i \in 1 .. n : i \in 0 .. n /\ i # 0
    BY <1>1
  <2>2. u[0] = UpdateBody(u, 0) /\ \A i \in 1 .. n : u[i] = UpdateBody(u, i)
    <3> HIDE DEF UpdateBody
    <3> QED  BY <1>4, <2>1
  <2>3. d[0] = DivideBody(d, 0) /\ \A i \in 1 .. n : d[i] = DivideBody(d, i)
    <3> HIDE DEF DivideBody
    <3> QED  BY <1>5, <2>1
  <2> QED  BY <2>1, <2>2, <2>3
<1> DEFINE Bad == {i \in 0 .. n : ~(d[i] \in Word /\ u[i] = Reflect(d[i]))}
<1>8. ASSUME NEW k \in Bad, \A j \in Bad : k <= j PROVE FALSE
  <2>1. CASE k = 0
    BY <1>2, <1>7, <2>1
  <2>2. CASE k # 0
    <3>1. k \in 1 .. n /\ k - 1 \in 0 .. n /\ k - 1 \notin Bad
      BY <1>1, <1>8, <2>2
    <3>2. d[k - 1] \in Word /\ u[k - 1] = Reflect(d[k - 1]) /\ data[k] \in Byte
      BY <1>1, <3>1
    <3>3. d[k] \in Word /\ Reflect(d[k]) = Eight(Xor(Reflect(d[k - 1]), data[k]))
      BY <1>7, <3>1, <3>2, DivideByteReflects
    <3>4. u[k] = Eight(Xor(u[k - 1], data[k]))
      BY <1>7, <3>1, <3>2, UpdateIsEight, ReflectWord
    <3> QED  BY <3>2, <3>3, <3>4
  <2> QED  BY <2>1, <2>2
<1>9. Bad = {}
  <2>1. Bad \subseteq Nat
    BY <1>1
  <2> HIDE DEF Bad
  <2> QED  BY <1>8, <2>1, LeastNatural
<1>10. d[n] \in Word /\ u[n] = Reflect(d[n])
  BY <1>1, <1>9
<1>11. Xor(u[n], AllOnes) \in Word
  BY <1>2, <1>10, ReflectWord, XorWord
<1> QED  BY <1>6, <1>10, <1>11
---------------------------------------------------------------------------
\* Numbers in cells.

\* The loop that adds up the bits of a cell.
LEMMA FromCellLoop ==
    ASSUME NEW w
    PROVE  \E high :
              /\ FromCell(w) = high[32] /\ high[0] = 0
              /\ \A k \in 1 .. 32 : high[k] = 2 * high[k - 1] + (IF 32 - k \in w THEN 1 ELSE 0)
              /\ \A k \in 0 .. 32 : high[k] \in Nat
<1> DEFINE Bit(k) == IF 32 - k \in w THEN 1 ELSE 0
           HighBody(g, k) == IF k = 0 THEN 0 ELSE 2 * g[k - 1] + Bit(k)
           high == CHOOSE g : g = [k \in 0 .. 32 |-> HighBody(g, k)]
           step == [i \in 1 .. 32 |-> [x \in Nat |-> 2 * x + Bit(i)]]
<1>1. FromCell(w) = high[32]
  BY DEF FromCell
<1>2. \A i \in 1 .. 32 : Bit(i) \in Nat
  OBVIOUS
<1> HIDE DEF Bit
<1>3. \A x \in Nat, i \in 1 .. 32 : step[i][x] = 2 * x + Bit(i)
  OBVIOUS
<1> HIDE DEF step
<1>4. \A x \in Nat, i \in 1 .. 32 : step[i][x] \in Nat
  <2> TAKE x \in Nat, i \in 1 .. 32
  <2>1. step[i][x] = 2 * x + Bit(i) /\ Bit(i) \in Nat
    BY <1>2, <1>3
  <2> QED  BY <2>1
<1>5. PICK f : IsFold(f, Nat, 32, 0, step)
  BY <1>4, FoldDefined
<1>6. f = [k \in 0 .. 32 |-> HighBody(f, k)]
  <2>1. \A i \in 1 .. 32 : f[i - 1] \in Nat
    BY <1>5 DEF IsFold
  <2>2. \A i \in 0 .. 32 : i # 0 => step[i][f[i - 1]] = 2 * f[i - 1] + Bit(i)
    <3> SUFFICES ASSUME NEW i \in 0 .. 32, i # 0
                 PROVE  step[i][f[i - 1]] = 2 * f[i - 1] + Bit(i)
      OBVIOUS
    <3>1. i \in 1 .. 32 /\ f[i - 1] \in Nat
      BY <2>1
    <3> QED  BY <1>3, <3>1
  <2> QED  BY <1>5, <2>2 DEF IsFold
<1>7. high = [k \in 0 .. 32 |-> HighBody(high, k)]
  <2> HIDE DEF HighBody
  <2> QED  BY <1>6
<1> HIDE DEF high
<1>8. high[0] = 0 /\ \A k \in 1 .. 32 : high[k] = 2 * high[k - 1] + Bit(k)
  BY <1>7
<1>9. \A k \in 0 .. 32 : high[k] \in Nat
  <2> DEFINE Bad == {k \in 0 .. 32 : high[k] \notin Nat}
  <2>1. ASSUME NEW k \in Bad, \A c \in Bad : k <= c PROVE FALSE
    <3>1. k \in 1 .. 32
      BY <1>8
    <3>2. k - 1 \notin Bad /\ k - 1 \in 0 .. 32
      BY <2>1, <3>1
    <3>3. high[k - 1] \in Nat /\ Bit(k) \in Nat /\ high[k] = 2 * high[k - 1] + Bit(k)
      BY <1>2, <1>8, <3>1, <3>2
    <3>4. high[k] \in Nat
      BY <3>3
    <3> QED  BY <3>4
  <2>2. Bad \subseteq Nat
    OBVIOUS
  <2>3. Bad = {}
    <3> HIDE DEF Bad
    <3> QED  BY <2>1, <2>2, LeastNatural
  <2> QED  BY <2>3
<1> QED  BY <1>1, <1>8, <1>9 DEF Bit

\* A cell is read as a natural number.
LEMMA FromCellNat ==
    ASSUME NEW w
    PROVE  FromCell(w) \in Nat
  BY FromCellLoop

\* A number below 2^32 is what its bits say.
LEMMA CellHolds ==
    ASSUME NEW n \in Nat, Fits(n)
    PROVE  ToCell(n) \in Word /\ FromCell(ToCell(n)) = n
<1> DEFINE HalfBody(g, b) == IF b = 0 THEN n ELSE g[b - 1] \div 2
           half == CHOOSE g : g = [b \in 0 .. 31 |-> HalfBody(g, b)]
           w == {b \in 0 .. 31 : half[b] % 2 = 1}
           Bit(k) == IF 32 - k \in w THEN 1 ELSE 0
<1>1. ToCell(n) = w
  BY DEF ToCell
<1>2. half = [b \in 0 .. 31 |-> HalfBody(half, b)]
  <2> DEFINE step == [i \in 1 .. 31 |-> [x \in Nat |-> x \div 2]]
  <2>1. \A x \in Nat, i \in 1 .. 31 : step[i][x] \in Nat
    OBVIOUS
  <2>2. PICK f : IsFold(f, Nat, 31, n, step)
    <3> HIDE DEF step
    <3> QED  BY <2>1, FoldDefined
  <2>3. f = [b \in 0 .. 31 |-> HalfBody(f, b)]
    <3>1. \A i \in 1 .. 31 : f[i - 1] \in Nat
      BY <2>2 DEF IsFold
    <3>2. \A i \in 0 .. 31 : i # 0 => step[i][f[i - 1]] = f[i - 1] \div 2
      BY <3>1
    <3> HIDE DEF step
    <3> QED  BY <2>2, <3>2 DEF IsFold
  <2> HIDE DEF HalfBody
  <2> QED  BY <2>3
<1> HIDE DEF half
<1>3. half[0] = n /\ \A b \in 1 .. 31 : half[b] = half[b - 1] \div 2
  BY <1>2
<1>4. \A b \in 0 .. 31 : half[b] \in Nat
  <2> DEFINE Bad == {b \in 0 .. 31 : half[b] \notin Nat}
  <2>1. ASSUME NEW b \in Bad, \A c \in Bad : b <= c PROVE FALSE
    <3>1. b \in 1 .. 31
      BY <1>3
    <3>2. b - 1 \notin Bad /\ b - 1 \in 0 .. 31
      BY <2>1, <3>1
    <3>3. half[b - 1] \in Nat
      BY <3>2
    <3> QED  BY <1>3, <3>1, <3>3
  <2>2. Bad \subseteq Nat
    OBVIOUS
  <2>3. Bad = {}
    <3> HIDE DEF Bad
    <3> QED  BY <2>1, <2>2, LeastNatural
  <2> QED  BY <2>3
<1>5. \A b \in 0 .. 30 : /\ half[b] = 2 * half[b + 1] + (half[b] % 2)
                         /\ 2 * half[b + 1] <= half[b]
  <2> SUFFICES ASSUME NEW b \in 0 .. 30
               PROVE  /\ half[b] = 2 * half[b + 1] + (half[b] % 2)
                      /\ 2 * half[b + 1] <= half[b]
    OBVIOUS
  <2>1. b + 1 \in 1 .. 31 /\ (b + 1) - 1 = b
    OBVIOUS
  <2>2. half[b + 1] = half[b] \div 2
    BY <1>3, <2>1
  <2>3. half[b] \in Nat
    BY <1>4
  <2> QED  BY <2>2, <2>3
<1>6. half[31] < 2
  <2>1. /\ 2 * half[1] <= half[0] /\ 2 * half[2] <= half[1] /\ 2 * half[3] <= half[2] /\ 2 * half[4] <= half[3]
        /\ 2 * half[5] <= half[4] /\ 2 * half[6] <= half[5] /\ 2 * half[7] <= half[6] /\ 2 * half[8] <= half[7]
        /\ 2 * half[9] <= half[8] /\ 2 * half[10] <= half[9] /\ 2 * half[11] <= half[10] /\ 2 * half[12] <= half[11]
        /\ 2 * half[13] <= half[12] /\ 2 * half[14] <= half[13] /\ 2 * half[15] <= half[14] /\ 2 * half[16] <= half[15]
    BY <1>5
  <2>2. /\ 2 * half[17] <= half[16] /\ 2 * half[18] <= half[17] /\ 2 * half[19] <= half[18] /\ 2 * half[20] <= half[19]
        /\ 2 * half[21] <= half[20] /\ 2 * half[22] <= half[21] /\ 2 * half[23] <= half[22] /\ 2 * half[24] <= half[23]
        /\ 2 * half[25] <= half[24] /\ 2 * half[26] <= half[25] /\ 2 * half[27] <= half[26] /\ 2 * half[28] <= half[27]
        /\ 2 * half[29] <= half[28] /\ 2 * half[30] <= half[29] /\ 2 * half[31] <= half[30]
    BY <1>5
  <2>3. 65536 * half[16] <= n
    BY <1>3, <1>4, <2>1
  <2>4. 32768 * half[31] <= half[16]
    BY <1>4, <2>2
  <2>5. n < 4294967296
    BY DEF Fits
  <2> QED  BY <1>4, <2>3, <2>4, <2>5
<1>7. w \in Word
  BY DEF Word
<1>8. PICK high : /\ FromCell(w) = high[32] /\ high[0] = 0
                  /\ \A k \in 1 .. 32 : high[k] = 2 * high[k - 1] + Bit(k)
  <2> HIDE DEF w
  <2> QED  BY FromCellLoop
<1>9. \A k \in 1 .. 32 : high[k] = half[32 - k]
  <2> DEFINE Bad == {k \in 1 .. 32 : high[k] # half[32 - k]}
  <2>1. ASSUME NEW k \in Bad, \A c \in Bad : k <= c PROVE FALSE
    <3>1. k \in 1 .. 32 /\ 32 - k \in 0 .. 31 /\ half[32 - k] \in Nat
      BY <1>4
    <3>2. Bit(k) = half[32 - k] % 2
      <4>1. half[32 - k] % 2 \in {0, 1}
        BY <3>1
      <4> QED  BY <3>1, <4>1
    <3>3. high[k] = 2 * high[k - 1] + (half[32 - k] % 2)
      BY <1>8, <3>1, <3>2
    <3>4. CASE k = 1
      <4>1. half[31] = half[31] % 2
        BY <1>4, <1>6
      <4> QED  BY <1>8, <3>3, <3>4, <4>1, <1>4
    <3>5. CASE k # 1
      <4>1. k - 1 \notin Bad /\ k - 1 \in 1 .. 32
        BY <2>1, <3>1, <3>5
      <4>2. high[k - 1] = half[32 - (k - 1)]
        BY <4>1
      <4>3. 32 - (k - 1) = (32 - k) + 1 /\ 32 - k \in 0 .. 30
        BY <3>1, <3>5
      <4>4. half[32 - k] = 2 * half[(32 - k) + 1] + (half[32 - k] % 2)
        BY <1>5, <4>3
      <4> QED  BY <3>3, <4>2, <4>3, <4>4
    <3> QED  BY <3>4, <3>5
  <2>2. Bad \subseteq Nat
    OBVIOUS
  <2>3. Bad = {}
    <3> HIDE DEF Bad
    <3> QED  BY <2>1, <2>2, LeastNatural
  <2> QED  BY <2>3
<1>10. high[32] = n
  BY <1>3, <1>9
<1> QED  BY <1>1, <1>7, <1>8, <1>10
---------------------------------------------------------------------------
\* The layout of a record.

Ascends(keys, n) == \A i, j \in 1 .. n : i < j => keys[i] < keys[j]

\* A finite set of naturals can be listed in ascending order.
LEMMA CanBeSorted ==
    ASSUME NEW S, S \subseteq Nat, IsFiniteSet(S)
    PROVE  \E keys \in [1 .. Cardinality(S) -> S] : Ascends(keys, Cardinality(S))
<1> DEFINE Sortable(T, n) == \E keys \in [1 .. n -> T] : Ascends(keys, n)
           Bad == {n \in Nat : \E T \in SUBSET Nat :
                                  IsFiniteSet(T) /\ Cardinality(T) = n /\ ~Sortable(T, n)}
<1>1. ASSUME NEW n \in Bad, \A m \in Bad : n <= m PROVE FALSE
  <2>1. PICK T \in SUBSET Nat : IsFiniteSet(T) /\ Cardinality(T) = n /\ ~Sortable(T, n)
    OBVIOUS
  <2>2. CASE n = 0
    <3> DEFINE none == [i \in 1 .. 0 |-> 0]
    <3>1. none \in [1 .. 0 -> T] /\ \A i \in 1 .. 0 : FALSE
      OBVIOUS
    <3> HIDE DEF none
    <3>2. Ascends(none, 0)
      BY <3>1 DEF Ascends
    <3> QED  BY <2>1, <2>2, <3>1, <3>2
  <2>3. CASE n # 0
    <3>1. n \in Nat /\ T # {}
      BY <2>1, <2>3, FS_EmptySet
    <3>2. PICK least \in T : \A x \in T : least <= x
      BY <3>1, LeastNatural
    <3> DEFINE R == T \ {least}
               m == n - 1
    <3>3. m \in Nat /\ n = m + 1 /\ m < n
      BY <2>3, <3>1
    <3>4. R \in SUBSET Nat /\ IsFiniteSet(R) /\ Cardinality(R) = m
      BY <2>1, FS_RemoveElement
    <3>5. \A x \in R : x \in T /\ x \in Nat /\ least \in Nat /\ least < x
      BY <3>2
    <3> HIDE DEF m, R
    <3>6. Sortable(R, m)
      <4>1. m \notin Bad
        <5> HIDE DEF Bad
        <5> QED  BY <1>1, <3>1, <3>3
      <4> HIDE DEF Sortable
      <4> QED  BY <3>3, <3>4, <4>1
    <3>7. PICK keys \in [1 .. m -> R] : Ascends(keys, m)
      BY <3>6
    <3> DEFINE all == [i \in 1 .. n |-> IF i = 1 THEN least ELSE keys[i - 1]]
    <3>8. all[1] = least /\ \A i \in 1 .. n : i # 1 => i - 1 \in 1 .. m /\ all[i] = keys[i - 1]
      BY <3>1, <3>3
    <3>9. \A i \in 1 .. m : keys[i] \in R
      OBVIOUS
    <3>10. all \in [1 .. n -> T]
      BY <3>3, <3>5, <3>9
    <3> HIDE DEF all
    <3>11. ASSUME NEW i \in 1 .. n, NEW j \in 1 .. n, i < j PROVE all[i] < all[j]
      <4>1. j # 1 /\ j - 1 \in 1 .. m /\ all[j] = keys[j - 1]
        BY <3>3, <3>8, <3>11
      <4>2. CASE i = 1
        BY <3>5, <3>8, <3>9, <4>1, <4>2
      <4>3. CASE i # 1
        <5>1. i - 1 \in 1 .. m /\ all[i] = keys[i - 1] /\ i - 1 < j - 1
          BY <3>3, <3>8, <3>11, <4>3
        <5> QED  BY <3>7, <4>1, <5>1 DEF Ascends
      <4> QED  BY <4>2, <4>3
    <3>12. Ascends(all, n)
      BY <3>11 DEF Ascends
    <3> QED  BY <2>1, <3>10, <3>12
  <2> QED  BY <2>2, <2>3
<1>2. Bad = {}
  <2>1. Bad \subseteq Nat
    OBVIOUS
  <2> HIDE DEF Bad
  <2> QED  BY <1>1, <2>1, LeastNatural
<1>3. Cardinality(S) \in Nat
  BY FS_CardinalityType
<1>4. Sortable(S, Cardinality(S))
  <2> HIDE DEF Sortable
  <2> QED  BY <1>2, <1>3
<1> QED  BY <1>4

Count(d) == Cardinality(DOMAIN d)

\* The keys of a cache and what is stored under them.
LEMMA CacheKeys ==
    ASSUME NEW d \in Dirty
    PROVE  /\ Count(d) \in Nat /\ Fits(Count(d))
           /\ Addresses(d) \in [1 .. Count(d) -> DOMAIN d]
           /\ \A i \in 1 .. Count(d) :
                 /\ Addresses(d)[i] \in Nat /\ Fits(Addresses(d)[i])
                 /\ d[Addresses(d)[i]] \in Seq(Word)
                 /\ Len(d[Addresses(d)[i]]) = BlockCells
<1>1. /\ IsFiniteSet(DOMAIN d) /\ Fits(Count(d))
      /\ \A a \in DOMAIN d : a \in Nat /\ Fits(a) /\ d[a] \in Seq(Word) /\ Len(d[a]) = BlockCells
  BY JournalAssumption DEF Count
<1>2. Count(d) \in Nat
  BY <1>1, FS_CardinalityType DEF Count
<1>3. DOMAIN d \subseteq Nat
  BY <1>1
<1>4. \E keys \in [1 .. Count(d) -> DOMAIN d] : Ascends(keys, Count(d))
  BY <1>1, <1>3, CanBeSorted DEF Count
<1>5. Addresses(d) \in [1 .. Count(d) -> DOMAIN d]
  BY <1>4 DEF Addresses, Ascends, Count
<1>6. \A i \in 1 .. Count(d) : Addresses(d)[i] \in DOMAIN d
  BY <1>5
<1> QED  BY <1>1, <1>2, <1>5, <1>6

\* The bytes under a checksum are bytes.
LEMMA BytesOfCells ==
    ASSUME NEW cells \in Seq(Word)
    PROVE  BytesOf(cells) \in Seq(Byte)
<1> DEFINE n == 4 * Len(cells)
           e(i) == ShiftRight(cells[((i - 1) \div 4) + 1], 8 * ((i - 1) % 4)) \cap (0 .. 7)
<1>1. n \in Nat
  BY LenProperties
<1>2. \A i \in 1 .. n : e(i) \in Byte
  BY DEF Byte
<1>3. BytesOf(cells) = [i \in 1 .. n |-> e(i)]
  BY DEF BytesOf
<1> HIDE DEF n, e
<1>4. [i \in 1 .. n |-> e(i)] \in Seq(Byte)
  BY <1>1, <1>2
<1> QED  BY <1>3, <1>4

\* The cells of two sequences put together.
IsJoin(u, s, t, m, n) ==
    /\ u \in Seq(Word) /\ Len(u) = m + n
    /\ \A i \in 1 .. m : u[i] = s[i]
    /\ \A i \in 1 .. n : u[m + i] = t[i]

\* What concatenation computes, in the form the later steps cite.
LEMMA Joined ==
    ASSUME NEW s \in Seq(Word), NEW t \in Seq(Word), NEW m \in Nat, NEW n \in Nat,
           Len(s) = m, Len(t) = n
    PROVE  IsJoin(s \o t, s, t, m, n)
<1> DEFINE u == s \o t
<1>1. /\ u \in Seq(Word) /\ Len(u) = m + n
      /\ \A i \in 1 .. m + n : u[i] = IF i <= m THEN s[i] ELSE t[i - m]
  BY ConcatProperties
<1> HIDE DEF u
<1>2. \A i \in 1 .. m : u[i] = s[i]
  BY <1>1
<1>3. ASSUME NEW i \in 1 .. n PROVE u[m + i] = t[i]
  <2>1. m + i \in 1 .. m + n /\ ~(m + i <= m) /\ (m + i) - m = i
    OBVIOUS
  <2> QED  BY <1>1, <2>1
<1> QED  BY <1>1, <1>2, <1>3 DEF u, IsJoin

\* Where the cells of block i lie among the cells of all blocks.
LEMMA BlockPosition ==
    ASSUME NEW count \in Nat, NEW i \in 1 .. count, NEW j \in 1 .. BlockCells
    PROVE  /\ BlockCells * (i - 1) \in Nat
           /\ BlockCells * (i - 1) + j \in 1 .. BlockCells * count
           /\ ((BlockCells * (i - 1) + j) - 1) \div BlockCells = i - 1
           /\ ((BlockCells * (i - 1) + j) - 1) % BlockCells = j - 1
<1> DEFINE q == i - 1
           r == j - 1
<1>1. BlockCells \in Nat \ {0} /\ q \in Nat /\ q < count /\ r \in 0 .. BlockCells - 1
  BY JournalAssumption
<1>2. (q * BlockCells + r) \div BlockCells = q /\ (q * BlockCells + r) % BlockCells = r
  <2> HIDE DEF q, r
  <2> QED  BY <1>1, DivModUnique
<1>3. q * BlockCells \in Nat /\ q * BlockCells + BlockCells <= count * BlockCells
  <2> HIDE DEF q
  <2> QED  BY <1>1, ProductGrows
<1>4. q * BlockCells = BlockCells * (i - 1) /\ count * BlockCells = BlockCells * count
  BY <1>1
<1>5. BlockCells * count \in Nat
  BY <1>1
<1>6. (BlockCells * (i - 1) + j) - 1 = q * BlockCells + r
  BY <1>3, <1>4
<1>7. BlockCells * (i - 1) \in Nat
  BY <1>3, <1>4
<1>8. BlockCells * (i - 1) + j \in 1 .. BlockCells * count
  BY <1>1, <1>3, <1>4, <1>5, <1>7
<1> QED  BY <1>2, <1>6, <1>7, <1>8

\* Every cell of the blocks is a cell of one of them.
LEMMA BlockOfPosition ==
    ASSUME NEW count \in Nat, NEW c \in 1 .. BlockCells * count
    PROVE  /\ ((c - 1) \div BlockCells) + 1 \in 1 .. count
           /\ ((c - 1) % BlockCells) + 1 \in 1 .. BlockCells
<1> DEFINE q == (c - 1) \div BlockCells
           r == (c - 1) % BlockCells
<1>1. BlockCells \in Nat \ {0} /\ c - 1 \in Nat /\ BlockCells * count \in Nat
  BY JournalAssumption
<1>2. q \in Nat /\ r \in 0 .. BlockCells - 1 /\ c - 1 = q * BlockCells + r
  BY <1>1, DivMod
<1> HIDE DEF q, r
<1>3. q < count
  <2> SUFFICES ASSUME count <= q PROVE FALSE
    BY <1>2
  <2>1. count * BlockCells <= q * BlockCells
    BY <1>1, <1>2, ProductGrows
  <2>2. count * BlockCells = BlockCells * count /\ q * BlockCells \in Nat
    BY <1>1, <1>2
  <2> QED  BY <1>1, <1>2, <2>1, <2>2
<1>4. q + 1 \in 1 .. count /\ r + 1 \in 1 .. BlockCells
  BY <1>1, <1>2, <1>3
<1> QED  BY <1>4 DEF q, r

\* The layout of a record, read off the buffer.
LEMMA BodyCells ==
    ASSUME NEW d \in Dirty, NEW txid \in Nat, Fits(txid)
    PROVE  /\ Body(txid, d) \in Seq(Word)
           /\ BlockCells * Count(d) \in Nat
           /\ Len(Body(txid, d)) = BodySize(Count(d))
           /\ Body(txid, d)[1] = Magic
           /\ Body(txid, d)[2] = ToCell(txid)
           /\ Body(txid, d)[3] = ToCell(Count(d))
           /\ \A i \in 1 .. Count(d) : Body(txid, d)[3 + i] = ToCell(Addresses(d)[i])
           /\ \A i \in 1 .. Count(d), j \in 1 .. BlockCells :
                 Body(txid, d)[(3 + Count(d)) + (BlockCells * (i - 1) + j)] = d[Addresses(d)[i]][j]
<1> DEFINE keys == Addresses(d)
           n == Count(d)
           p == BlockCells * n
           A == <<Magic, ToCell(txid), ToCell(n)>>
           b(i) == ToCell(keys[i])
           B == [i \in 1 .. n |-> b(i)]
           c(j) == d[keys[((j - 1) \div BlockCells) + 1]][((j - 1) % BlockCells) + 1]
           C == [j \in 1 .. p |-> c(j)]
           Z == Zeros(HeaderSize - CursorStart)
<1>1. Body(txid, d) = ((A \o B) \o C) \o Z
  BY DEF Body, Count
<1>2. /\ n \in Nat /\ Fits(n)
      /\ \A i \in 1 .. n : keys[i] \in Nat /\ Fits(keys[i]) /\ d[keys[i]] \in Seq(Word)
                            /\ Len(d[keys[i]]) = BlockCells
  BY CacheKeys
<1>3. p \in Nat
  BY <1>2, JournalAssumption
<1> HIDE DEF n, keys, p
<1>4. A \in Seq(Word) /\ Len(A) = 3 /\ A[1] = Magic /\ A[2] = ToCell(txid) /\ A[3] = ToCell(n)
  <2>1. Magic \in Word /\ ToCell(txid) \in Word /\ ToCell(n) \in Word
    <3>1. Magic \in Word
      BY DEF Magic, Word
    <3> QED  BY <1>2, <3>1, CellHolds
  <2> QED  BY <2>1
<1>5. B \in Seq(Word) /\ Len(B) = n /\ \A i \in 1 .. n : B[i] = ToCell(keys[i])
  <2>1. \A i \in 1 .. n : b(i) \in Word
    BY <1>2, CellHolds
  <2>2. \A i \in 1 .. n : B[i] = ToCell(keys[i])
    OBVIOUS
  <2>3. B \in [1 .. n -> Word]
    <3> HIDE DEF b
    <3> QED  BY <2>1
  <2> HIDE DEF B
  <2> QED  BY <1>2, <2>2, <2>3
<1>6. C \in Seq(Word) /\ Len(C) = p
  <2>1. ASSUME NEW j \in 1 .. p PROVE c(j) \in Word
    <3> DEFINE q == ((j - 1) \div BlockCells) + 1
               r == ((j - 1) % BlockCells) + 1
    <3>1. q \in 1 .. n /\ r \in 1 .. BlockCells
      BY <1>2, BlockOfPosition DEF p
    <3> HIDE DEF q, r
    <3>2. d[keys[q]][r] \in Word
      BY <1>2, <3>1, ElementOfSeq
    <3> QED  BY <3>2 DEF q, r
  <2>2. C \in [1 .. p -> Word]
    <3> HIDE DEF c
    <3> QED  BY <2>1
  <2> HIDE DEF C
  <2> QED  BY <1>3, <2>2
<1>7. \A i \in 1 .. n, j \in 1 .. BlockCells : C[BlockCells * (i - 1) + j] = d[keys[i]][j]
  <2> SUFFICES ASSUME NEW i \in 1 .. n, NEW j \in 1 .. BlockCells
               PROVE  C[BlockCells * (i - 1) + j] = d[keys[i]][j]
    OBVIOUS
  <2> DEFINE k == BlockCells * (i - 1) + j
  <2>1. k \in 1 .. p /\ (k - 1) \div BlockCells = i - 1 /\ (k - 1) % BlockCells = j - 1
    BY <1>2, BlockPosition DEF p
  <2> HIDE DEF k
  <2>2. C[k] = d[keys[(i - 1) + 1]][(j - 1) + 1]
    BY <2>1
  <2>3. (i - 1) + 1 = i /\ (j - 1) + 1 = j
    BY <1>2, JournalAssumption
  <2> QED  BY <2>2, <2>3 DEF k
<1>8. Z \in Seq(Word) /\ Len(Z) = 1
  <2>1. Z = [i \in 1 .. 1 |-> {}]
    BY DEF Zeros, HeaderSize, CursorStart
  <2>2. {} \in Word
    BY DEF Word
  <2> HIDE DEF Z
  <2> QED  BY <2>1, <2>2
<1> HIDE DEF A, B, C, Z
<1> DEFINE AB == A \o B
           ABC == AB \o C
           all == ABC \o Z
<1>9. IsJoin(AB, A, B, 3, n)
  BY <1>2, <1>4, <1>5, Joined
<1> HIDE DEF AB
<1>10. IsJoin(ABC, AB, C, 3 + n, p)
  <2>1. 3 + n \in Nat /\ AB \in Seq(Word) /\ Len(AB) = 3 + n
    BY <1>2, <1>9 DEF IsJoin
  <2> QED  BY <1>3, <1>6, <2>1, Joined
<1> HIDE DEF ABC
<1>11. IsJoin(all, ABC, Z, (3 + n) + p, 1)
  <2>1. (3 + n) + p \in Nat /\ ABC \in Seq(Word) /\ Len(ABC) = (3 + n) + p
    BY <1>2, <1>3, <1>10 DEF IsJoin
  <2> QED  BY <1>8, <2>1, Joined
<1> HIDE DEF all
<1>12. Body(txid, d) = all
  BY <1>1 DEF all, ABC, AB
<1>13. \A i \in 1 .. 3 : all[i] = A[i]
  BY <1>2, <1>3, <1>9, <1>10, <1>11 DEF IsJoin
<1>14. \A i \in 1 .. n : all[3 + i] = ToCell(keys[i])
  BY <1>2, <1>3, <1>5, <1>9, <1>10, <1>11 DEF IsJoin
<1>15. \A i \in 1 .. n, j \in 1 .. BlockCells :
          all[(3 + n) + (BlockCells * (i - 1) + j)] = d[keys[i]][j]
  <2> SUFFICES ASSUME NEW i \in 1 .. n, NEW j \in 1 .. BlockCells
               PROVE  all[(3 + n) + (BlockCells * (i - 1) + j)] = d[keys[i]][j]
    OBVIOUS
  <2> DEFINE k == BlockCells * (i - 1) + j
  <2>1. k \in 1 .. p
    BY <1>2, BlockPosition DEF p
  <2>2. C[k] = d[keys[i]][j]
    BY <1>7
  <2> HIDE DEF k
  <2>3. (3 + n) + k \in 1 .. (3 + n) + p
    BY <1>2, <1>3, <2>1
  <2>4. all[(3 + n) + k] = C[k]
    BY <1>10, <1>11, <2>1, <2>3 DEF IsJoin
  <2> QED  BY <2>2, <2>4 DEF k
<1>16. ((3 + n) + p) + 1 = BodySize(n)
  BY <1>2, <1>3 DEF BodySize, HeaderSize, p
<1>17. all[1] = Magic /\ all[2] = ToCell(txid) /\ all[3] = ToCell(n)
  BY <1>4, <1>13
<1>18. all \in Seq(Word) /\ Len(all) = BodySize(n)
  BY <1>11, <1>16 DEF IsJoin
<1> QED  BY <1>3, <1>12, <1>14, <1>15, <1>17, <1>18 DEF n, keys, p

\* A record is its body and the checksum of its bytes.
LEMMA RecordCells ==
    ASSUME NEW d \in Dirty, NEW txid \in Nat, Fits(txid)
    PROVE  /\ BodySize(Count(d)) \in Nat
           /\ Record(txid, d) \in Seq(Word)
           /\ Len(Record(txid, d)) = BodySize(Count(d)) + 1
           /\ DOMAIN Record(txid, d) = 1 .. BodySize(Count(d)) + 1
           /\ \A c \in 1 .. BodySize(Count(d)) : Record(txid, d)[c] = Body(txid, d)[c]
           /\ Record(txid, d)[BodySize(Count(d)) + 1] = compute_crc32c(BytesOf(Body(txid, d)))
<1> DEFINE b == Body(txid, d)
           crc == compute_crc32c(BytesOf(b))
           size == BodySize(Count(d))
<1>1. b \in Seq(Word) /\ Len(b) = size
  BY BodyCells
<1>2. size \in Nat
  BY <1>1, LenProperties
<1> HIDE DEF b
<1>3. crc \in Word
  BY <1>1, BytesOfCells, TableIsCrc32c
<1>4. Record(txid, d) = Append(b, crc)
  BY DEF Record, b
<1> DEFINE r == Append(b, crc)
<1> HIDE DEF crc, size
<1>5. /\ r \in Seq(Word) /\ Len(r) = size + 1
      /\ \A c \in 1 .. size : r[c] = b[c]
      /\ r[size + 1] = crc
  BY <1>1, <1>3, AppendProperties
<1> HIDE DEF r
<1>6. DOMAIN r = 1 .. size + 1
  BY <1>5, LenProperties
<1>7. Record(txid, d) = r
  BY <1>4 DEF r
<1> QED  BY <1>2, <1>5, <1>6, <1>7 DEF b, crc, size

\* A piece of a sequence.
LEMMA Piece ==
    ASSUME NEW a, NEW s \in Seq(Word), NEW n \in Nat, NEW from \in Nat, Len(s) = n,
           \A i \in 1 .. n : a[from + i] = s[i]
    PROVE  SubSeq(a, from + 1, from + n) = s
<1> DEFINE t == SubSeq(a, from + 1, from + n)
<1>1. \A i \in from + 1 .. from + n : a[i] \in Word
  <2> SUFFICES ASSUME NEW i \in from + 1 .. from + n PROVE a[i] \in Word
    OBVIOUS
  <2>1. i - from \in 1 .. n /\ from + (i - from) = i
    OBVIOUS
  <2>2. a[i] = s[i - from]
    BY <2>1
  <2> QED  BY <2>1, <2>2, ElementOfSeq
<1>2. /\ t \in Seq(Word)
      /\ Len(t) = IF from + 1 <= from + n THEN ((from + n) - (from + 1)) + 1 ELSE 0
      /\ \A i \in 1 .. ((from + n) - (from + 1)) + 1 : t[i] = a[((from + 1) + i) - 1]
  BY <1>1, SubSeqProperties
<1> HIDE DEF t
<1>3. Len(t) = n
  BY <1>2
<1>4. \A i \in 1 .. n : t[i] = s[i]
  <2> SUFFICES ASSUME NEW i \in 1 .. n PROVE t[i] = s[i]
    OBVIOUS
  <2>1. i \in 1 .. ((from + n) - (from + 1)) + 1 /\ ((from + 1) + i) - 1 = from + i
    OBVIOUS
  <2> QED  BY <1>2, <2>1
<1>5. t = s
  BY <1>2, <1>3, <1>4, SeqEqual
<1> QED  BY <1>5 DEF t

\* recover_journal_on_mount reads back the commit that a record was built from.
LEMMA RecordParses ==
    ASSUME NEW d \in Dirty, ~TooLarge(d), NEW txid \in Nat, Fits(txid),
           NEW a, NEW id \in Nat, id < txid,
           \A c \in DOMAIN Record(txid, d) : a[c] = Record(txid, d)[c]
    PROVE  Recovered(a, id) = Expected(txid, d)
<1> DEFINE n == Count(d)
           size == BodySize(n)
           b == Body(txid, d)
           keys == Addresses(d)
<1>1. /\ n \in Nat /\ Fits(n)
      /\ \A i \in 1 .. n : /\ keys[i] \in Nat /\ Fits(keys[i])
                           /\ d[keys[i]] \in Seq(Word) /\ Len(d[keys[i]]) = BlockCells
  BY CacheKeys
<1>2. /\ b \in Seq(Word) /\ Len(b) = size /\ BlockCells * n \in Nat
      /\ b[1] = Magic /\ b[2] = ToCell(txid) /\ b[3] = ToCell(n)
      /\ \A i \in 1 .. n : b[3 + i] = ToCell(keys[i])
      /\ \A i \in 1 .. n, j \in 1 .. BlockCells :
            b[(3 + n) + (BlockCells * (i - 1) + j)] = d[keys[i]][j]
  BY BodyCells
<1>3. /\ size \in Nat
      /\ \A c \in 1 .. size : a[c] = b[c]
      /\ a[size + 1] = compute_crc32c(BytesOf(b))
  <2>1. /\ size \in Nat
        /\ DOMAIN Record(txid, d) = 1 .. size + 1
        /\ \A c \in 1 .. size : Record(txid, d)[c] = b[c]
        /\ Record(txid, d)[size + 1] = compute_crc32c(BytesOf(b))
    BY RecordCells
  <2> HIDE DEF size, b
  <2>2. size + 1 \in 1 .. size + 1 /\ \A c \in 1 .. size : c \in 1 .. size + 1
    BY <2>1
  <2> QED  BY <2>1, <2>2
<1>4. size = ((3 + n) + BlockCells * n) + 1
  <2> DEFINE p == BlockCells * n
  <2>1. n \in Nat /\ p \in Nat
    BY <1>1, <1>2
  <2>2. size = (4 + n) + p
    BY DEF BodySize, HeaderSize
  <2> HIDE DEF p, n, size
  <2>3. (4 + n) + p = ((3 + n) + p) + 1
    BY <2>1
  <2> QED  BY <2>2, <2>3 DEF p
<1>5. size + 1 <= AreaSize /\ AreaSize >= HeaderSize
  <2>1. AreaSize \in Nat
    BY JournalAssumption DEF AreaSize
  <2>2. ~(size + 1 > AreaSize)
    BY DEF TooLarge, Count
  <2> DEFINE p == BlockCells * n
  <2>3. n \in Nat /\ p \in Nat /\ size = ((3 + n) + p) + 1
    BY <1>1, <1>2, <1>4
  <2> HIDE DEF p, n, size
  <2>4. size + 1 <= AreaSize
    BY <2>1, <2>2, <2>3
  <2>5. size >= 4
    BY <2>3
  <2>6. AreaSize >= 4
    BY <2>1, <2>3, <2>4, <2>5
  <2> QED  BY <2>4, <2>6 DEF HeaderSize
<1> HIDE DEF n, size, b, keys
<1>6. a[1] = Magic /\ FromCell(a[2]) = txid /\ FromCell(a[3]) = n
  <2>1. 1 \in 1 .. size /\ 2 \in 1 .. size /\ 3 \in 1 .. size
    BY <1>1, <1>2, <1>3, <1>4
  <2>2. a[1] = Magic /\ a[2] = ToCell(txid) /\ a[3] = ToCell(n)
    BY <1>2, <1>3, <2>1
  <2> QED  BY <1>1, <2>2, CellHolds
<1>7. SubSeq(a, 1, size) = b
  <2>1. \A i \in 1 .. size : a[0 + i] = b[i]
    BY <1>3
  <2>2. SubSeq(a, 0 + 1, 0 + size) = b
    BY <1>2, <1>3, <2>1, Piece
  <2>3. 0 + 1 = 1 /\ 0 + size = size
    BY <1>3
  <2> QED  BY <2>2, <2>3
<1>8. Accepted(a, id)
  BY <1>3, <1>5, <1>6, <1>7 DEF Accepted, size
<1>9. ASSUME NEW i \in 1 .. n
      PROVE  /\ FromCell(a[CursorStart + i]) = keys[i]
             /\ SubSeq(a, ((CursorStart + n) + BlockCells * (i - 1)) + 1,
                          (CursorStart + n) + BlockCells * i) = d[keys[i]]
  <2>1. 3 + i \in 1 .. size
    BY <1>1, <1>2, <1>3, <1>4
  <2>2. a[3 + i] = ToCell(keys[i])
    BY <1>2, <1>3, <2>1
  <2>3. FromCell(a[3 + i]) = keys[i]
    BY <1>1, <2>2, CellHolds
  <2> DEFINE p == BlockCells * (i - 1)
             from == (3 + n) + p
  <2>4. BlockCells \in Nat \ {0} /\ p \in Nat
    <3>1. BlockCells \in Nat \ {0}
      BY JournalAssumption
    <3>2. 1 \in 1 .. BlockCells
      BY <3>1
    <3> QED  BY <1>1, <3>1, <3>2, BlockPosition
  <2>5. from \in Nat
    <3> HIDE DEF p
    <3> QED  BY <1>1, <2>4
  <2>6. ASSUME NEW j \in 1 .. BlockCells PROVE a[from + j] = d[keys[i]][j]
    <3>1. p + j \in 1 .. BlockCells * n /\ b[(3 + n) + (p + j)] = d[keys[i]][j]
      BY <1>1, <1>2, BlockPosition
    <3> HIDE DEF p
    <3>2. from + j = (3 + n) + (p + j)
      BY <1>1, <2>4
    <3>3. (3 + n) + (p + j) \in 1 .. size
      BY <1>1, <1>2, <1>3, <1>4, <2>4, <3>1
    <3> HIDE DEF from
    <3> QED  BY <1>3, <3>1, <3>2, <3>3
  <2>7. from + BlockCells = (3 + n) + BlockCells * i
    BY <1>1, <2>4
  <2> HIDE DEF from
  <2>8. SubSeq(a, from + 1, from + BlockCells) = d[keys[i]]
    <3> DEFINE s == d[keys[i]]
    <3>1. s \in Seq(Word) /\ Len(s) = BlockCells /\ \A j \in 1 .. BlockCells : a[from + j] = s[j]
      BY <1>1, <2>6
    <3> HIDE DEF s, p
    <3>2. SubSeq(a, from + 1, from + BlockCells) = s
      BY <2>4, <2>5, <3>1, Piece
    <3> QED  BY <3>2 DEF s
  <2> QED  BY <2>3, <2>7, <2>8 DEF CursorStart, from, p
<1>10. Replayed(a) = [txid |-> txid, blocks |-> [i \in 1 .. n |-> <<keys[i], d[keys[i]]>>]]
  <2>1. Replayed(a) =
          [txid |-> FromCell(a[2]),
           blocks |-> [i \in 1 .. FromCell(a[3]) |->
             <<FromCell(a[CursorStart + i]),
               SubSeq(a, ((CursorStart + FromCell(a[3])) + BlockCells * (i - 1)) + 1,
                         (CursorStart + FromCell(a[3])) + BlockCells * i)>>]]
    BY DEF Replayed
  <2> QED  BY <1>6, <1>9, <2>1
<1>11. Expected(txid, d) = [txid |-> txid, blocks |-> [i \in 1 .. n |-> <<keys[i], d[keys[i]]>>]]
  BY DEF Expected, n, keys, Count
<1> QED  BY <1>8, <1>10, <1>11 DEF Recovered
---------------------------------------------------------------------------
\* The area holds the whole record of a commit.
Holds(a, txid, d) == \A c \in DOMAIN Record(txid, d) : a[c] = Record(txid, d)[c]

\* A sealed commit that the superblock does not name yet, and no damage.
Pending == clean /\ sealed.txid > last

\* While a record is written, and until the superblock is, it is the record of
\* the cache under the next id; and the commit that is pending is in the area.
JournalInv ==
    /\ area \in [1 .. AreaSize -> Word]
    /\ last \in Nat /\ written \in Nat /\ clean \in BOOLEAN
    /\ sealed.txid \in Nat
    /\ pc \in {"writing", "sealed"} =>
          /\ cache \in Dirty /\ ~TooLarge(cache) /\ last < MaxTxid
          /\ record = Record(last + 1, cache)
    /\ Pending =>
          /\ pc # "up"
          /\ pc \in {"writing", "sealed"} =>
                sealed = Expected(last + 1, cache) /\ Holds(area, last + 1, cache)
          /\ \E d \in Dirty :
                /\ ~TooLarge(d) /\ sealed.txid <= MaxTxid
                /\ sealed = Expected(sealed.txid, d)
                /\ Holds(area, sealed.txid, d)

\* Every id that a commit is given fits a cell.
LEMMA IdFits ==
    ASSUME NEW id \in Nat, id <= MaxTxid
    PROVE  Fits(id)
<1>1. MaxTxid \in Nat /\ MaxTxid \div 65536 < 65536
  BY JournalAssumption DEF Fits
<1> QED  BY <1>1 DEF Fits

\* The commit that is expected of a mount carries the id it was built with.
LEMMA ExpectedId ==
    ASSUME NEW id, NEW d
    PROVE  Expected(id, d).txid = id
  BY DEF Expected

\* The state after format holds JournalInv.
LEMMA InitJournal == Init => JournalInv
<1> SUFFICES ASSUME Init PROVE JournalInv
  OBVIOUS
<1>1. area \in [1 .. AreaSize -> Word]
  BY DEF Init, Zeros, Word
<1>2. sealed.txid = 0 /\ last = 1 /\ pc = "down" /\ written = 0 /\ clean = TRUE
  BY DEF Init, Nothing
<1>3. ~Pending
  BY <1>2 DEF Pending
<1> QED  BY <1>1, <1>2, <1>3 DEF JournalInv

\* A mount replays the pending commit, and the superblock names it then.
LEMMA MountReplays ==
    ASSUME JournalInv, Mount
    PROVE  /\ Pending => replayed' = sealed
           /\ last' \in Nat
           /\ ~Pending'
<1>1. /\ pc = "down" /\ replayed' = Recovered(area, last)
      /\ last' = IF replayed' = Nothing THEN last ELSE replayed'.txid
      /\ sealed' = sealed /\ clean' = clean
  BY DEF Mount
<1>2. last \in Nat /\ sealed.txid \in Nat
  BY DEF JournalInv
<1>3. ASSUME Pending PROVE replayed' = sealed /\ last' = sealed.txid
  <2>1. PICK d \in Dirty : /\ ~TooLarge(d) /\ sealed.txid <= MaxTxid
                           /\ sealed = Expected(sealed.txid, d)
                           /\ Holds(area, sealed.txid, d)
    BY <1>3 DEF JournalInv
  <2>2. Fits(sealed.txid) /\ last < sealed.txid
    BY <1>2, <1>3, <2>1, IdFits DEF Pending
  <2>3. Recovered(area, last) = Expected(sealed.txid, d)
    BY <1>2, <2>1, <2>2, RecordParses DEF Holds
  <2>4. replayed' = sealed
    BY <1>1, <2>1, <2>3
  <2>5. replayed' # Nothing
    BY <1>2, <2>2, <2>4 DEF Nothing
  <2> QED  BY <1>1, <2>4, <2>5
<1>4. last' \in Nat /\ last <= last'
  <2>1. CASE replayed' = Nothing
    BY <1>1, <1>2, <2>1
  <2>2. CASE replayed' # Nothing
    <3>1. Accepted(area, last) /\ replayed' = Replayed(area)
      BY <1>1, <2>2 DEF Recovered
    <3>2. replayed'.txid = FromCell(area[2])
      BY <3>1 DEF Replayed
    <3>3. FromCell(area[2]) > last
      BY <3>1 DEF Accepted
    <3> QED  BY <1>1, <1>2, <2>2, <3>2, <3>3, FromCellNat
  <2> QED  BY <2>1, <2>2
<1>5. ~Pending'
  <2> SUFFICES ASSUME Pending' PROVE FALSE
    OBVIOUS
  <2>1. clean' /\ sealed'.txid > last'
    BY DEF Pending
  <2>2. Pending
    BY <1>1, <1>2, <1>4, <2>1 DEF Pending
  <2> QED  BY <1>1, <1>2, <1>3, <2>1, <2>2
<1> QED  BY <1>3, <1>4, <1>5

\* A mount keeps JournalInv: what it replays is no longer pending.
LEMMA MountKeepsJournal ==
    ASSUME JournalInv, Mount
    PROVE  JournalInv'
<1>1. /\ pc' = "up" /\ area' = area /\ written' = written
      /\ sealed' = sealed /\ clean' = clean
  BY DEF Mount
<1>2. last' \in Nat /\ ~Pending'
  BY MountReplays
<1> QED  BY <1>1, <1>2 DEF JournalInv

\* Starting a commit keeps JournalInv: its record is built from the cache.
LEMMA CommitKeepsJournal ==
    ASSUME JournalInv, NEW d \in Dirty, Commit(d)
    PROVE  JournalInv'
<1>1. /\ pc = "up" /\ last < MaxTxid /\ written' = 0
      /\ area' = area /\ last' = last /\ sealed' = sealed /\ clean' = clean
  BY DEF Commit
<1>2. last \in Nat /\ ~Pending
  BY <1>1 DEF JournalInv
<1>3. ~Pending'
  BY <1>1, <1>2 DEF Pending
<1>4. \/ pc' = "down"
      \/ /\ pc' = "writing" /\ ~TooLarge(d) /\ cache' = d
         /\ record' = Record(last + 1, d)
  <2>1. \/ pc' = "down"
        \/ /\ pc' = "writing" /\ ~TooLarge(d) /\ cache' = d
           /\ record' = Records[last + 1][d]
    BY DEF Commit
  <2>2. last + 1 \in 1 .. MaxTxid
    BY <1>1, <1>2, JournalAssumption
  <2>3. ~TooLarge(d) => Records[last + 1][d] = Record(last + 1, d)
    BY <2>2 DEF Records
  <2> QED  BY <2>1, <2>3
<1>5. pc' \in {"writing", "sealed"} =>
        /\ cache' \in Dirty /\ ~TooLarge(cache') /\ last' < MaxTxid
        /\ record' = Record(last' + 1, cache')
  BY <1>1, <1>4
<1> QED  BY <1>1, <1>2, <1>3, <1>5 DEF JournalInv

\* Writing cells of a block of the record leaves words, and leaves a record that
\* is in the area already as it is.
LEMMA WriteKeepsArea ==
    ASSUME JournalInv, pc = "writing", NEW S, S \subseteq 1 .. BlockCells
    PROVE  /\ AfterWrite(written, S) \in [1 .. AreaSize -> Word]
           /\ Holds(area, last + 1, cache) =>
                \A c \in DOMAIN record : AfterWrite(written, S)[c] = record[c]
<1> DEFINE from == BlockCells * written
<1>1. /\ area \in [1 .. AreaSize -> Word] /\ last \in Nat /\ written \in Nat
      /\ cache \in Dirty /\ ~TooLarge(cache) /\ last < MaxTxid
      /\ record = Record(last + 1, cache)
  BY DEF JournalInv
<1>2. BlockCells \in Nat /\ from \in Nat /\ AreaSize \in Nat
  BY <1>1, JournalAssumption DEF AreaSize
<1>3. last + 1 \in Nat /\ Fits(last + 1)
  BY <1>1, IdFits, JournalAssumption
<1>4. /\ record \in Seq(Word) /\ Len(record) \in Nat /\ DOMAIN record = 1 .. Len(record)
      /\ Len(record) <= AreaSize
  <2>1. /\ record \in Seq(Word) /\ Len(record) = BodySize(Count(cache)) + 1
        /\ BodySize(Count(cache)) \in Nat
    BY <1>1, <1>3, RecordCells
  <2>2. ~(BodySize(Count(cache)) + 1 > AreaSize)
    BY <1>1 DEF TooLarge, Count
  <2> QED  BY <1>2, <2>1, <2>2, LenProperties
<1> HIDE DEF from
<1>5. \A i \in 1 .. BlockCells :
        Chunk(written)[i] = IF from + i <= Len(record) THEN record[from + i] ELSE {}
  BY DEF Chunk, from
<1>6. \A i \in 1 .. BlockCells : Chunk(written)[i] \in Word
  <2> SUFFICES ASSUME NEW i \in 1 .. BlockCells PROVE Chunk(written)[i] \in Word
    OBVIOUS
  <2>1. CASE from + i <= Len(record)
    <3>1. from + i \in 1 .. Len(record)
      BY <1>2, <1>4, <2>1
    <3>2. record[from + i] \in Word
      BY <1>4, <3>1, ElementOfSeq
    <3> QED  BY <1>5, <2>1, <3>2
  <2>2. CASE ~(from + i <= Len(record))
    BY <1>5, <2>2 DEF Word
  <2> QED  BY <2>1, <2>2
<1>7. AfterWrite(written, S) =
        [c \in 1 .. AreaSize |-> IF c - from \in S THEN Chunk(written)[c - from] ELSE area[c]]
  BY DEF AfterWrite, from
<1>8. \A c \in 1 .. AreaSize :
        (IF c - from \in S THEN Chunk(written)[c - from] ELSE area[c]) \in Word
  BY <1>1, <1>6
<1>9. AfterWrite(written, S) \in [1 .. AreaSize -> Word]
  BY <1>7, <1>8
<1>10. ASSUME Holds(area, last + 1, cache), NEW c \in DOMAIN record
       PROVE  AfterWrite(written, S)[c] = record[c]
  <2>1. c \in 1 .. AreaSize /\ c \in 1 .. Len(record)
    BY <1>2, <1>4
  <2>2. area[c] = record[c]
    BY <1>1, <1>10 DEF Holds
  <2>3. CASE c - from \in S
    <3>1. c - from \in 1 .. BlockCells /\ from + (c - from) = c
      BY <1>2, <2>1, <2>3
    <3>2. Chunk(written)[c - from] = record[c]
      BY <1>4, <1>5, <2>1, <3>1
    <3> QED  BY <1>7, <2>1, <2>3, <3>2
  <2>4. CASE c - from \notin S
    BY <1>7, <2>1, <2>2, <2>4
  <2> QED  BY <2>3, <2>4
<1> QED  BY <1>9, <1>10

\* A write that completes the record seals the commit.
LEMMA SealKeeps ==
    ASSUME JournalInv, pc = "writing", NEW S, S \subseteq 1 .. BlockCells,
           area' = AfterWrite(written, S), Seal, last' = last
    PROVE  /\ area' \in [1 .. AreaSize -> Word]
           /\ clean' \in BOOLEAN /\ sealed'.txid \in Nat
           /\ Pending' => sealed' = Expected(last + 1, cache) /\ Holds(area', last + 1, cache)
<1>1. /\ last \in Nat /\ clean \in BOOLEAN /\ sealed.txid \in Nat
      /\ record = Record(last + 1, cache)
      /\ Pending => sealed = Expected(last + 1, cache) /\ Holds(area, last + 1, cache)
  BY DEF JournalInv
<1>2. /\ area' \in [1 .. AreaSize -> Word]
      /\ Holds(area, last + 1, cache) => \A c \in DOMAIN record : area'[c] = record[c]
  BY WriteKeepsArea
<1>3. CASE \A c \in DOMAIN record : area'[c] = record[c]
  <2>1. sealed' = Expected(last + 1, cache) /\ clean' = TRUE
    BY <1>3 DEF Seal
  <2>2. sealed'.txid = last + 1
    BY <2>1, ExpectedId
  <2>3. sealed'.txid \in Nat
    BY <1>1, <2>2
  <2>4. Holds(area', last + 1, cache)
    BY <1>1, <1>3 DEF Holds
  <2> QED  BY <1>2, <2>1, <2>3, <2>4
<1>4. CASE ~(\A c \in DOMAIN record : area'[c] = record[c])
  <2>1. sealed' = sealed /\ clean' = clean
    BY <1>4 DEF Seal
  <2>2. ~Pending
    BY <1>1, <1>2, <1>4
  <2>3. ~Pending'
    BY <2>1, <2>2 DEF Pending
  <2> QED  BY <1>1, <1>2, <2>1, <2>3
<1> QED  BY <1>3, <1>4

\* Writing a block of the record keeps JournalInv.
LEMMA WriteChunkKeepsJournal ==
    ASSUME JournalInv, WriteChunk
    PROVE  JournalInv'
<1>1. /\ pc = "writing" /\ area' = AfterWrite(written, 1 .. BlockCells)
      /\ written' = written + 1 /\ pc' \in {"sealed", "writing"} /\ Seal
      /\ last' = last /\ record' = record /\ cache' = cache
  BY DEF WriteChunk
<1>2. /\ last \in Nat /\ written \in Nat
      /\ cache \in Dirty /\ ~TooLarge(cache) /\ last < MaxTxid
      /\ record = Record(last + 1, cache)
  BY <1>1 DEF JournalInv
<1>3. /\ area' \in [1 .. AreaSize -> Word]
      /\ clean' \in BOOLEAN /\ sealed'.txid \in Nat
      /\ Pending' => sealed' = Expected(last + 1, cache) /\ Holds(area', last + 1, cache)
  BY <1>1, SealKeeps
<1>4. Pending' => /\ sealed'.txid = last + 1 /\ last + 1 <= MaxTxid
                  /\ sealed' = Expected(sealed'.txid, cache) /\ Holds(area', sealed'.txid, cache)
  <2>1. last + 1 <= MaxTxid
    BY <1>2, JournalAssumption
  <2> QED  BY <1>3, <2>1, ExpectedId
<1>5. Pending' => /\ pc' # "up"
                  /\ sealed' = Expected(last' + 1, cache') /\ Holds(area', last' + 1, cache')
                  /\ \E d \in Dirty : /\ ~TooLarge(d) /\ sealed'.txid <= MaxTxid
                                       /\ sealed' = Expected(sealed'.txid, d)
                                       /\ Holds(area', sealed'.txid, d)
  <2>1. pc' # "up" /\ last' = last /\ cache' = cache /\ cache \in Dirty /\ ~TooLarge(cache)
    BY <1>1, <1>2
  <2> QED  BY <2>1, <1>3, <1>4
<1>6. /\ area' \in [1 .. AreaSize -> Word]
      /\ last' \in Nat /\ written' \in Nat /\ clean' \in BOOLEAN /\ sealed'.txid \in Nat
  BY <1>1, <1>2, <1>3
<1>7. /\ cache' \in Dirty /\ ~TooLarge(cache)' /\ last' < MaxTxid
      /\ record' = Record(last' + 1, cache')
  BY <1>1, <1>2
<1> QED  BY <1>5, <1>6, <1>7 DEF JournalInv

\* The sectors that a torn write may have written lie in the block.
LEMMA SectorsInBlock ==
    ASSUME NEW sectors \in SUBSET (1 .. BlockCells \div SectorCells)
    PROVE  UNION {SectorCells * (s - 1) + 1 .. SectorCells * s : s \in sectors} \subseteq 1 .. BlockCells
<1> DEFINE q == BlockCells \div SectorCells
<1>1. BlockCells \in Nat /\ SectorCells \in Nat \ {0}
  BY JournalAssumption
<1>2. q \in Nat /\ BlockCells % SectorCells \in 0 .. SectorCells - 1
      /\ BlockCells = q * SectorCells + (BlockCells % SectorCells)
  BY <1>1, DivMod
<1> HIDE DEF q
<1>3. ASSUME NEW s \in sectors, NEW c \in SectorCells * (s - 1) + 1 .. SectorCells * s
      PROVE  c \in 1 .. BlockCells
  <2>1. s \in 1 .. q
    BY DEF q
  <2>2. s \in Nat /\ s - 1 \in Nat /\ s <= q
    BY <1>2, <2>1
  <2>3. s * SectorCells \in Nat /\ s * SectorCells <= q * SectorCells /\ q * SectorCells \in Nat
    BY <1>1, <1>2, <2>2, ProductGrows
  <2>4. SectorCells * (s - 1) \in Nat /\ SectorCells * s = s * SectorCells
    BY <1>1, <2>2
  <2>5. q * SectorCells <= BlockCells
    BY <1>1, <1>2, <2>3
  <2> QED  BY <1>1, <2>3, <2>4, <2>5
<1> QED  BY <1>3

\* A power loss in the middle of a block of the record keeps JournalInv.
LEMMA TornWriteKeepsJournal ==
    ASSUME JournalInv, TornWrite
    PROVE  JournalInv'
<1>1. /\ pc = "writing" /\ Seal /\ last' = last
      /\ pc' = "down" /\ written' = 0
  BY DEF TornWrite, Down
<1>2. PICK sectors \in SUBSET (1 .. BlockCells \div SectorCells) :
        area' = AfterWrite(written,
                  UNION {SectorCells * (s - 1) + 1 .. SectorCells * s : s \in sectors})
  BY DEF TornWrite
<1>3. /\ last \in Nat /\ cache \in Dirty /\ ~TooLarge(cache) /\ last < MaxTxid
      /\ record = Record(last + 1, cache)
  BY <1>1 DEF JournalInv
<1>4. /\ area' \in [1 .. AreaSize -> Word]
      /\ clean' \in BOOLEAN /\ sealed'.txid \in Nat
      /\ Pending' => sealed' = Expected(last + 1, cache) /\ Holds(area', last + 1, cache)
  <2> DEFINE S == UNION {SectorCells * (s - 1) + 1 .. SectorCells * s : s \in sectors}
  <2>1. S \subseteq 1 .. BlockCells /\ area' = AfterWrite(written, S)
    BY <1>2, SectorsInBlock
  <2> HIDE DEF S
  <2> QED  BY <1>1, <2>1, SealKeeps
<1>5. Pending' => \E d \in Dirty : /\ ~TooLarge(d) /\ sealed'.txid <= MaxTxid
                                   /\ sealed' = Expected(sealed'.txid, d)
                                   /\ Holds(area', sealed'.txid, d)
  <2>1. last + 1 <= MaxTxid
    BY <1>3, JournalAssumption
  <2>2. Pending' => sealed'.txid = last + 1
    BY <1>4, ExpectedId
  <2> QED  BY <1>3, <1>4, <2>1, <2>2
<1> QED  BY <1>1, <1>3, <1>4, <1>5 DEF JournalInv

\* Writing the superblocks keeps JournalInv: the commit stops being pending.
LEMMA FinishKeepsJournal ==
    ASSUME JournalInv, Finish
    PROVE  JournalInv'
<1>1. /\ pc = "sealed" /\ pc' = "up" /\ last' = last + 1 /\ written' = 0
      /\ area' = area /\ sealed' = sealed /\ clean' = clean
  BY DEF Finish
<1>2. /\ last \in Nat /\ sealed.txid \in Nat
      /\ Pending => sealed = Expected(last + 1, cache)
  BY <1>1 DEF JournalInv
<1>3. ~Pending'
  <2> SUFFICES ASSUME Pending' PROVE FALSE
    OBVIOUS
  <2>1. clean /\ sealed.txid > last + 1
    BY <1>1 DEF Pending
  <2>2. Pending
    BY <1>2, <2>1 DEF Pending
  <2>3. sealed.txid = last + 1
    BY <1>2, <2>2, ExpectedId
  <2> QED  BY <1>2, <2>1, <2>3
<1> QED  BY <1>1, <1>2, <1>3 DEF JournalInv

\* A commit with nothing to write keeps JournalInv.
LEMMA CommitEmptyKeepsJournal ==
    ASSUME JournalInv, CommitEmpty
    PROVE  JournalInv'
<1>1. /\ pc = "up" /\ pc' = "up" /\ last' = last + 1 /\ written' = written
      /\ area' = area /\ sealed' = sealed /\ clean' = clean
  BY DEF CommitEmpty
<1>2. last \in Nat /\ sealed.txid \in Nat /\ ~Pending
  BY <1>1 DEF JournalInv
<1>3. ~Pending'
  BY <1>1, <1>2 DEF Pending
<1> QED  BY <1>1, <1>2, <1>3 DEF JournalInv

\* The session ends, or the power fails between two writes.
LEMMA DownKeepsJournal ==
    ASSUME JournalInv, Exit \/ PowerLoss
    PROVE  JournalInv'
<1>1. /\ pc' = "down" /\ last' = last /\ written' = 0
      /\ area' = area /\ sealed' = sealed /\ clean' = clean
  BY DEF Exit, PowerLoss, Down
<1>2. Pending' <=> Pending
  BY <1>1 DEF Pending
<1>3. Pending => \E d \in Dirty : /\ ~TooLarge(d) /\ sealed.txid <= MaxTxid
                                  /\ sealed = Expected(sealed.txid, d)
                                  /\ Holds(area, sealed.txid, d)
  BY DEF JournalInv
<1> QED  BY <1>1, <1>2, <1>3 DEF JournalInv

\* Damage to the journal keeps JournalInv: from then on nothing is promised.
LEMMA FlipBitKeepsJournal ==
    ASSUME JournalInv, FlipBit
    PROVE  JournalInv'
<1>1. /\ pc = "down" /\ pc' = pc /\ last' = last /\ written' = written
      /\ sealed' = sealed /\ clean' = FALSE
  BY DEF FlipBit
<1>2. PICK c \in 1 .. AreaSize, b \in FlipBits : area' = [area EXCEPT ![c] = Xor(@, {b})]
  BY DEF FlipBit
<1>3. area \in [1 .. AreaSize -> Word]
  BY DEF JournalInv
<1>4. Xor(area[c], {b}) \in Word
  <2>1. area[c] \in Word /\ b \in 0 .. 31
    BY <1>3, JournalAssumption
  <2> QED  BY <2>1 DEF Xor, SymDiff, Word
<1>5. area' \in [1 .. AreaSize -> Word]
  BY <1>2, <1>3, <1>4
<1>6. ~Pending'
  BY <1>1 DEF Pending
<1> QED  BY <1>1, <1>5, <1>6 DEF JournalInv

\* JournalInv depends on the variables only.
LEMMA StutterKeepsJournal ==
    ASSUME JournalInv, UNCHANGED vars
    PROVE  JournalInv'
  BY DEF JournalInv, Pending, Holds, vars

\* Every step keeps JournalInv.
LEMMA NextKeepsJournal ==
    ASSUME JournalInv, [Next]_vars
    PROVE  JournalInv'
  BY MountKeepsJournal, CommitKeepsJournal, WriteChunkKeepsJournal, FinishKeepsJournal,
     CommitEmptyKeepsJournal, DownKeepsJournal, TornWriteKeepsJournal, FlipBitKeepsJournal,
     StutterKeepsJournal DEF Next

\* JournalInv holds in every state of BafsJournal.
LEMMA AlwaysJournalInv == Spec => []JournalInv
  BY InitJournal, NextKeepsJournal, PTL DEF Spec
---------------------------------------------------------------------------
\* A record that the journal holds in full, and that the superblock does not
\* name yet, is replayed by the next mount exactly as it was committed, for any
\* block and journal size, any caches, and any crashes, torn writes and bit
\* flips before it: recover_journal_on_mount inverts commit_transaction.
THEOREM SealedReplays == Spec => SealedIsReplayed
<1>1. ASSUME JournalInv, [Next]_vars
      PROVE  [pc = "down" /\ pc' = "up" /\ clean /\ sealed.txid > last => replayed' = sealed]_vars
  <2> SUFFICES ASSUME Next, pc = "down", pc' = "up", clean, sealed.txid > last
               PROVE  replayed' = sealed
    BY <1>1
  <2>1. Mount
    BY DEF Next, Mount, Commit, WriteChunk, Finish, CommitEmpty, Exit, PowerLoss, TornWrite, FlipBit
  <2>2. Pending
    BY DEF Pending
  <2> QED  BY <1>1, <2>1, <2>2, MountReplays
<1> QED  BY <1>1, AlwaysJournalInv, PTL DEF Spec, SealedIsReplayed

\* The checksum that commit_transaction puts on any record is CRC32C of the
\* record's bytes.
THEOREM RecordsHaveCrc32c == Spec => []TableMatchesDivision
<1>1. JournalInv => TableMatchesDivision
  <2> SUFFICES ASSUME JournalInv, pc = "writing"
               PROVE  record[Len(record)] = ReferenceCrc(BytesOf(SubSeq(record, 1, Len(record) - 1)))
    BY DEF TableMatchesDivision
  <2> DEFINE size == BodySize(Count(cache))
             b == Body(last + 1, cache)
  <2>1. /\ cache \in Dirty /\ last \in Nat /\ last < MaxTxid /\ record = Record(last + 1, cache)
    BY DEF JournalInv
  <2>2. last + 1 \in Nat /\ Fits(last + 1)
    BY <2>1, IdFits, JournalAssumption
  <2>3. /\ size \in Nat /\ Len(record) = size + 1
        /\ \A c \in 1 .. size : record[c] = b[c]
        /\ record[size + 1] = compute_crc32c(BytesOf(b))
    BY <2>1, <2>2, RecordCells
  <2>4. b \in Seq(Word) /\ Len(b) = size
    BY <2>1, <2>2, BodyCells
  <2> HIDE DEF b, size
  <2>5. SubSeq(record, 0 + 1, 0 + size) = b
    <3>1. \A i \in 1 .. size : record[0 + i] = b[i]
      BY <2>3
    <3> QED  BY <2>3, <2>4, <3>1, Piece
  <2>6. 0 + 1 = 1 /\ 0 + size = Len(record) - 1
    BY <2>3
  <2>7. compute_crc32c(BytesOf(b)) = ReferenceCrc(BytesOf(b))
    BY <2>4, BytesOfCells, TableIsCrc32c
  <2> QED  BY <2>3, <2>5, <2>6, <2>7
<1> QED  BY <1>1, AlwaysJournalInv, PTL
===========================================================================
