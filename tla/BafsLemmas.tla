----------------------------- MODULE BafsLemmas -----------------------------
(***************************************************************************)
(* Facts that the proofs of several components rest on: least elements,    *)
(* division by a block size, and loops.                                    *)
(*                                                                         *)
(* A loop of the source is a recursive function f on an interval, and such *)
(* a definition means CHOOSE f : f = [...].  LoopDefined shows that there  *)
(* is such an f; what the loop computes is then proved from the least      *)
(* number for which it would be wrong (LeastNatural).                      *)
(***************************************************************************)
EXTENDS Integers, Sequences, WellFoundedInduction, SequenceTheorems, TLAPS

\* A non-empty set of naturals has a least element.
LEMMA LeastNatural ==
    ASSUME NEW T, T \subseteq Nat, T # {}
    PROVE  \E x \in T : \A y \in T : x <= y
<1> DEFINE R == OpToRel(<, Nat)
<1>1. IsWellFoundedOn(R, Nat)
  BY NatLessThanWellFounded
<1>2. PICK x \in T : \A y \in T : ~ (<<y, x>> \in R)
  <2> HIDE DEF R
  <2> QED  BY <1>1, WFMin
<1>3. ASSUME NEW y \in T PROVE x <= y
  <2>1. x \in Nat /\ y \in Nat
    OBVIOUS
  <2>2. ~ (y < x)
    BY <1>2, <2>1 DEF OpToRel
  <2> QED  BY <2>1, <2>2
<1> QED  BY <1>3

\* A product grows with its factors.
LEMMA ProductGrows ==
    ASSUME NEW a \in Nat, NEW b \in Nat, NEW m \in Nat, a <= b
    PROVE  a * m \in Nat /\ b * m \in Nat /\ a * m <= b * m /\ (a < b => a * m + m <= b * m)
<1>1. PICK d \in Nat : b = a + d
  <2>1. b - a \in Nat /\ b = a + (b - a)
    OBVIOUS
  <2> QED  BY <2>1
<1>2. b * m = a * m + d * m /\ a * m \in Nat /\ d * m \in Nat
  BY <1>1
<1>3. a < b => d * m >= m
  <2>1. a < b => d - 1 \in Nat
    BY <1>1
  <2>2. d * m = (d - 1) * m + m
    OBVIOUS
  <2>3. a < b => (d - 1) * m \in Nat
    BY <2>1
  <2> QED  BY <2>2, <2>3, <1>2
<1> QED  BY <1>2, <1>3

\* Quotient and remainder of a position and a block size.
LEMMA DivMod ==
    ASSUME NEW n \in Nat, NEW m \in Nat \ {0}
    PROVE  /\ n \div m \in Nat
           /\ n % m \in 0 .. m - 1
           /\ n = (n \div m) * m + (n % m)
  OBVIOUS

\* They are the only ones.
LEMMA DivModUnique ==
    ASSUME NEW m \in Nat \ {0}, NEW q \in Nat, NEW r \in 0 .. m - 1
    PROVE  (q * m + r) \div m = q /\ (q * m + r) % m = r
<1> DEFINE n == q * m + r
           p == n \div m
           s == n % m
<1>1. n \in Nat /\ p \in Nat /\ s \in 0 .. m - 1 /\ n = p * m + s
  <2>1. q * m \in Nat
    OBVIOUS
  <2>2. n \in Nat
    BY <2>1
  <2> QED  BY <2>2, DivMod
<1> HIDE DEF p, s
<1>2. ~(p < q)
  BY <1>1, ProductGrows
<1>3. ~(q < p)
  BY <1>1, ProductGrows
<1>4. p = q /\ s = r
  BY <1>1, <1>2, <1>3
<1> QED  BY <1>4 DEF p, s

\* f is the loop from low up to end that goes on at next[o] with the output
\* head[o] in front, and stops at the positions of "stop" with the output last[o].
IsLoop(f, low, end, stop, last, head, next) ==
    f = [o \in low .. end |-> IF o \in stop THEN last[o] ELSE head[o] \o f[next[o]]]

\* A loop that moves upward and stops at its end at the latest is defined.
LEMMA LoopDefined ==
    ASSUME NEW end \in Nat, NEW stop, NEW last, NEW head, NEW next,
           \A o \in 0 .. end : o \notin stop => next[o] \in o + 1 .. end
    PROVE  \E f : IsLoop(f, 0, end, stop, last, head, next)
<1> DEFINE Solved(k) == \E f : IsLoop(f, end - k, end, stop, last, head, next)
           Bad == {k \in 0 .. end : ~Solved(k)}
<1>1. ASSUME NEW k \in Bad, \A j \in Bad : k <= j
      PROVE  FALSE
  <2>1. CASE k = 0
    <3> DEFINE f == [o \in end - 0 .. end |-> last[o]]
    <3>1. \A o \in end - 0 .. end : o \in stop
      OBVIOUS
    <3>2. IsLoop(f, end - 0, end, stop, last, head, next)
      BY <3>1 DEF IsLoop
    <3> QED  BY <3>2, <2>1
  <2>2. CASE k # 0
    <3>1. k - 1 \in 0 .. end /\ k - 1 \notin Bad
      BY <1>1, <2>2
    <3>2. PICK f : IsLoop(f, end - (k - 1), end, stop, last, head, next)
      BY <3>1
    <3> DEFINE b == end - k
               Body(o, e) == IF o \in stop THEN last[o] ELSE head[o] \o e[next[o]]
               g == [o \in b .. end |-> IF o = b THEN Body(o, f) ELSE f[o]]
               h == [o \in b .. end |-> Body(o, g)]
    <3>3. \A o \in b .. end : o \notin stop => next[o] \in b + 1 .. end
      BY <3>1
    <3>4. \A o \in b .. end : o \notin stop => g[next[o]] = f[next[o]]
      BY <3>3
    <3>5. \A o \in b + 1 .. end : f[o] = Body(o, f)
      <4>1. end - (k - 1) = b + 1
        BY <3>1
      <4>2. f = [o \in b + 1 .. end |-> Body(o, f)]
        BY <4>1, <3>2 DEF IsLoop
      <4> HIDE DEF Body, b
      <4> QED  BY <4>2
    <3>6. \A o \in b .. end : g[o] = h[o]
      BY <3>4, <3>5, <3>1
    <3>7. g = h
      BY <3>6
    <3>8. IsLoop(g, b, end, stop, last, head, next)
      BY <3>7 DEF IsLoop
    <3> QED  BY <3>8
  <2> QED  BY <2>1, <2>2
<1>2. Bad = {}
  <2>1. Bad \subseteq Nat
    OBVIOUS
  <2> HIDE DEF Bad
  <2> QED  BY <1>1, <2>1, LeastNatural
<1>3. Solved(end)
  <2> HIDE DEF Solved
  <2> QED  BY <1>2
<1>4. end - end = 0
  OBVIOUS
<1> QED  BY <1>3, <1>4

\* A loop over 1 .. n that starts from base and applies step[i] is defined.
IsFold(f, S, n, base, step) ==
    /\ f \in [0 .. n -> S]
    /\ f = [i \in 0 .. n |-> IF i = 0 THEN base ELSE step[i][f[i - 1]]]

\* A recursive function that folds a step over 1 .. n exists and unfolds.
LEMMA FoldDefined ==
    ASSUME NEW S, NEW n \in Nat, NEW base \in S, NEW step,
           \A x \in S, i \in 1 .. n : step[i][x] \in S
    PROVE  \E f : IsFold(f, S, n, base, step)
<1> DEFINE Solves(f, k) == /\ f \in [0 .. k -> S] /\ f[0] = base
                           /\ \A i \in 1 .. k : f[i] = step[i][f[i - 1]]
           Bad == {k \in 0 .. n : ~(\E f : Solves(f, k))}
<1>1. ASSUME NEW k \in Bad, \A j \in Bad : k <= j
      PROVE  FALSE
  <2>1. CASE k = 0
    <3> DEFINE f == [i \in 0 .. 0 |-> base]
    <3>1. f \in [0 .. 0 -> S] /\ f[0] = base
      OBVIOUS
    <3>2. \A i \in 1 .. 0 : FALSE
      OBVIOUS
    <3> HIDE DEF f
    <3>3. Solves(f, 0)
      BY <3>1, <3>2
    <3> QED  BY <2>1, <3>3
  <2>2. CASE k # 0
    <3>1. k \in Nat /\ k - 1 \in 0 .. n /\ k - 1 \notin Bad /\ k \in 1 .. n
      <4>1. k \in 0 .. n
        OBVIOUS
      <4> HIDE DEF Bad
      <4>2. k - 1 \in 0 .. n /\ k \in 1 .. n /\ ~(k <= k - 1)
        BY <2>2, <4>1
      <4> QED  BY <1>1, <4>1, <4>2
    <3>2. PICK f : Solves(f, k - 1)
      BY <3>1
    <3> DEFINE g == [i \in 0 .. k |-> IF i = k THEN step[k][f[k - 1]] ELSE f[i]]
    <3>3. f[k - 1] \in S
      BY <3>1, <3>2
    <3>4. \A i \in 0 .. k : g[i] \in S
      BY <3>1, <3>2, <3>3
    <3>5. \A i \in 0 .. (k - 1) : g[i] = f[i]
      BY <3>1
    <3>6. g[0] = base
      BY <3>1, <3>2, <3>5
    <3>7. \A i \in 1 .. k : g[i] = step[i][g[i - 1]]
      BY <3>1, <3>2, <3>5
    <3>8. Solves(g, k)
      BY <3>4, <3>6, <3>7
    <3> QED  BY <3>8
  <2> QED  BY <2>1, <2>2
<1>2. Bad = {}
  <2>1. Bad \subseteq Nat
    OBVIOUS
  <2> HIDE DEF Bad
  <2> QED  BY <1>1, <2>1, LeastNatural
<1>3. PICK f : Solves(f, n)
  BY <1>2
<1>4. IsFold(f, S, n, base, step)
  <2>1. f = [i \in 0 .. n |-> IF i = 0 THEN base ELSE step[i][f[i - 1]]]
    BY <1>3
  <2> QED  BY <1>3, <2>1 DEF IsFold
<1> QED  BY <1>4
===========================================================================
