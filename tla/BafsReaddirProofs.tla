------------------------- MODULE BafsReaddirProofs -------------------------
(***************************************************************************)
(* What a listing by index can miss and repeat, for directories of any     *)
(* size and any number of creates and unlinks in between.                  *)
(***************************************************************************)
EXTENDS BafsReaddir, FiniteSetTheorems, TLAPS

\* An entry that is there all along and not listed yet is still ahead of the
\* index, unless one below it was unlinked; a listed one is behind it, unless
\* one below it was created.
Ahead == \A e \in old \ listed : (\A u \in unlinked : ~(u < e)) => index <= Rank(dir, e)
Behind == \A e \in old \cap listed : (\A c \in created : ~(c < e)) => Rank(dir, e) < index

ListingInv ==
    /\ TypeOK /\ Ahead /\ Behind /\ RepeatsNeedCreates
    /\ MissesNeedUnlinks
    /\ Cardinality(dir) <= limit /\ index <= limit
---------------------------------------------------------------------------
\* The entries below e.
Below(d, e) == {x \in d : x < e}

LEMMA Finite ==
    ASSUME NEW d \in SUBSET HashValue
    PROVE  IsFiniteSet(d) /\ Cardinality(d) \in Nat
  BY HashAssumption, FS_Subset, FS_CardinalityType

\* Ranks are positions: numbers below the size of the directory ...
LEMMA RankType ==
    ASSUME NEW d \in SUBSET HashValue, NEW e
    PROVE  Rank(d, e) \in Nat /\ (e \in d => Rank(d, e) < Cardinality(d))
<1>1. Below(d, e) \in SUBSET HashValue /\ Rank(d, e) = Cardinality(Below(d, e))
  BY DEF Below, Rank
<1>2. Rank(d, e) \in Nat
  BY <1>1, Finite
<1>3. ASSUME e \in d PROVE Rank(d, e) < Cardinality(d)
  <2>1. Below(d, e) \subseteq d /\ Below(d, e) # d
    BY <1>3, HashAssumption DEF Below
  <2>2. QED
    BY <1>1, <2>1, Finite, FS_Subset
<1>4. QED
  BY <1>2, <1>3

\* ... that grow with the hash.
LEMMA RankGrows ==
    ASSUME NEW d \in SUBSET HashValue, NEW e \in d, NEW f \in d, e < f
    PROVE  Rank(d, e) < Rank(d, f)
<1>1. /\ Below(d, f) \in SUBSET HashValue /\ Below(d, e) \in SUBSET HashValue
      /\ Rank(d, f) = Cardinality(Below(d, f)) /\ Rank(d, e) = Cardinality(Below(d, e))
  BY DEF Below, Rank
<1>2. Below(d, e) \subseteq Below(d, f) /\ Below(d, e) # Below(d, f)
  <2>1. \A x \in d : x \in Nat
    BY HashAssumption
  <2>2. \A x \in d : x < e => x < f
    BY <2>1
  <2>3. e \in Below(d, f) /\ e \notin Below(d, e)
    BY <2>1 DEF Below
  <2>4. QED
    BY <2>2, <2>3 DEF Below
<1>3. QED
  BY <1>1, <1>2, Finite, FS_Subset

\* A larger directory does not lower a rank.
LEMMA RankMonotone ==
    ASSUME NEW d \in SUBSET HashValue, NEW c \in SUBSET d, NEW e
    PROVE  Rank(c, e) <= Rank(d, e)
<1>1. /\ Below(d, e) \in SUBSET HashValue /\ Below(c, e) \subseteq Below(d, e)
      /\ Rank(c, e) = Cardinality(Below(c, e)) /\ Rank(d, e) = Cardinality(Below(d, e))
  BY DEF Below, Rank
<1>2. QED
  BY <1>1, Finite, FS_Subset

\* Only entries below e count for its rank.
LEMMA RankSame ==
    ASSUME NEW d, NEW c, NEW e, Below(c, e) = Below(d, e)
    PROVE  Rank(c, e) = Rank(d, e)
  BY DEF Below, Rank
---------------------------------------------------------------------------
LEMMA InitListing == Init => ListingInv
<1> SUFFICES ASSUME Init PROVE ListingInv
  OBVIOUS
<1>1. Cardinality(dir) \in Nat
  BY Finite DEF Init
<1>2. TypeOK
  BY <1>1 DEF Init, TypeOK
<1>3. Ahead
  <2> SUFFICES ASSUME NEW e \in old PROVE index <= Rank(dir, e)
    BY DEF Ahead
  <2>1. QED
    BY RankType DEF Init
<1>4. Behind /\ RepeatsNeedCreates /\ MissesNeedUnlinks
  BY DEF Init, Behind, RepeatsNeedCreates, MissesNeedUnlinks
<1>5. QED
  BY <1>1, <1>2, <1>3, <1>4 DEF Init, ListingInv

\* Returning an entry.
LEMMA EntryStep ==
    ASSUME ListingInv, NEW x \in HashValue, ReaddirEntry(x)
    PROVE  ListingInv'
<1>1. /\ TypeOK /\ x \in dir /\ Rank(dir, x) = index /\ index' = index + 1
      /\ listed' = listed \cup {x} /\ again' = again \cup (listed \cap {x})
      /\ UNCHANGED <<done, failed, dir, old, created, unlinked, changes, limit>>
      /\ ~done /\ dir \in SUBSET HashValue /\ index \in Nat /\ old \subseteq dir
  BY DEF ListingInv, ReaddirEntry, NextIndex, TypeOK
<1>2. \A e \in dir : /\ Rank(dir, e) \in Nat /\ Rank(dir, e) < Cardinality(dir)
                     /\ (Rank(dir, e) = index => e = x)
  <2> SUFFICES ASSUME NEW e \in dir
               PROVE  /\ Rank(dir, e) \in Nat /\ Rank(dir, e) < Cardinality(dir)
                      /\ (Rank(dir, e) = index => e = x)
    OBVIOUS
  <2>1. Rank(dir, e) \in Nat /\ Rank(dir, e) < Cardinality(dir)
    BY <1>1, RankType
  <2>2. e < x => Rank(dir, e) < index
    BY <1>1, RankGrows
  <2>3. x < e => index < Rank(dir, e)
    BY <1>1, RankGrows
  <2>4. e \in Nat /\ x \in Nat
    BY <1>1, HashAssumption
  <2>5. QED
    BY <1>1, <2>1, <2>2, <2>3, <2>4
<1>3. TypeOK'
  BY <1>1 DEF TypeOK
<1>4. Ahead'
  BY <1>1, <1>2 DEF ListingInv, Ahead
<1>5. Behind'
  BY <1>1, <1>2 DEF ListingInv, Behind
<1>6. RepeatsNeedCreates'
  <2>1. ASSUME x \in old \cap listed PROVE \E c \in created : c < x
    BY <2>1, <1>1 DEF ListingInv, Behind
  <2>2. QED
    BY <1>1, <2>1 DEF ListingInv, RepeatsNeedCreates
<1>7. MissesNeedUnlinks'
  BY <1>1 DEF MissesNeedUnlinks
<1>8. index' <= limit' /\ Cardinality(dir') <= limit'
  <2>1. Cardinality(dir) \in Nat /\ limit \in Nat /\ index < Cardinality(dir)
    BY <1>1, <1>2, Finite DEF TypeOK
  <2>2. QED
    BY <1>1, <2>1 DEF ListingInv
<1>9. QED
  BY <1>3, <1>4, <1>5, <1>6, <1>7, <1>8 DEF ListingInv

\* The end of the listing.
LEMMA EndStep ==
    ASSUME ListingInv, ReaddirEnd PROVE ListingInv'
<1>1. /\ TypeOK /\ index >= Cardinality(dir) /\ done' = TRUE /\ dir \in SUBSET HashValue
      /\ UNCHANGED <<failed, index, listed, again, dir, old, created, unlinked, changes, limit>>
  BY DEF ListingInv, ReaddirEnd, TypeOK
<1>2. \A e \in old : ~(index <= Rank(dir, e))
  <2> SUFFICES ASSUME NEW e \in old PROVE ~(index <= Rank(dir, e))
    OBVIOUS
  <2>1. Rank(dir, e) \in Nat /\ Rank(dir, e) < Cardinality(dir) /\ Cardinality(dir) \in Nat
    BY <1>1, RankType, Finite DEF TypeOK
  <2>2. QED
    BY <1>1, <2>1 DEF TypeOK
<1>3. MissesNeedUnlinks'
  BY <1>1, <1>2 DEF ListingInv, Ahead, MissesNeedUnlinks
<1>4. QED
  BY <1>1, <1>3 DEF ListingInv, TypeOK, Ahead, Behind, RepeatsNeedCreates

LEMMA FailStep ==
    ASSUME ListingInv, ReaddirFails PROVE ListingInv'
  BY DEF ListingInv, ReaddirFails, TypeOK, Ahead, Behind, RepeatsNeedCreates, MissesNeedUnlinks

\* A new entry raises the ranks above it.
LEMMA CreateStep ==
    ASSUME ListingInv, NEW h \in HashValue, Create(h) PROVE ListingInv'
<1>1. /\ TypeOK /\ h \notin dir /\ dir' = dir \cup {h} /\ created' = created \cup {h}
      /\ limit' = limit + 1 /\ changes' = changes + 1
      /\ UNCHANGED <<done, failed, index, listed, again, old, unlinked>>
      /\ dir \in SUBSET HashValue /\ dir' \in SUBSET HashValue /\ old \subseteq dir
      /\ index \in Nat /\ limit \in Nat /\ changes \in Nat /\ h \in Nat
  BY HashAssumption DEF ListingInv, Create, Change, TypeOK
<1>2. TypeOK'
  BY <1>1 DEF TypeOK
<1>3. \A e \in old : Rank(dir, e) \in Nat /\ Rank(dir', e) \in Nat /\ Rank(dir, e) <= Rank(dir', e)
  BY <1>1, RankType, RankMonotone
<1>4. \A e \in old : ~(h < e) => Rank(dir', e) = Rank(dir, e)
  <2> SUFFICES ASSUME NEW e \in old, ~(h < e) PROVE Rank(dir', e) = Rank(dir, e)
    OBVIOUS
  <2>1. Below(dir', e) = Below(dir, e)
    BY <1>1 DEF Below
  <2>2. QED
    BY <2>1, RankSame
<1>5. Ahead'
  BY <1>1, <1>3 DEF ListingInv, Ahead
<1>6. Behind'
  BY <1>1, <1>4 DEF ListingInv, Behind
<1>7. RepeatsNeedCreates' /\ MissesNeedUnlinks'
  BY <1>1 DEF ListingInv, RepeatsNeedCreates, MissesNeedUnlinks
<1>8. Cardinality(dir') <= limit' /\ index' <= limit'
  <2>1. IsFiniteSet(dir) /\ Cardinality(dir) \in Nat
    BY <1>1, Finite
  <2>2. Cardinality(dir') = Cardinality(dir) + 1
    BY <1>1, <2>1, FS_AddElement
  <2>3. QED
    BY <1>1, <2>1, <2>2 DEF ListingInv
<1>9. QED
  BY <1>2, <1>5, <1>6, <1>7, <1>8 DEF ListingInv

\* Removing an entry lowers the ranks above it.
LEMMA UnlinkStep ==
    ASSUME ListingInv, NEW h \in HashValue, Unlink(h) PROVE ListingInv'
<1>1. /\ TypeOK /\ h \in dir /\ dir' = dir \ {h} /\ unlinked' = unlinked \cup {h}
      /\ old' = old \ {h} /\ changes' = changes + 1
      /\ UNCHANGED <<done, failed, index, listed, again, created, limit>>
      /\ dir \in SUBSET HashValue /\ dir' \in SUBSET dir /\ old \subseteq dir
      /\ index \in Nat /\ limit \in Nat /\ changes \in Nat /\ h \in Nat /\ ~done
  BY HashAssumption DEF ListingInv, Unlink, Change, TypeOK
<1>2. TypeOK'
  BY <1>1 DEF TypeOK
<1>3. \A e \in old : Rank(dir, e) \in Nat /\ Rank(dir', e) \in Nat /\ Rank(dir', e) <= Rank(dir, e)
  BY <1>1, RankType, RankMonotone
<1>4. \A e \in old : ~(h < e) => Rank(dir', e) = Rank(dir, e)
  <2> SUFFICES ASSUME NEW e \in old, ~(h < e) PROVE Rank(dir', e) = Rank(dir, e)
    OBVIOUS
  <2>1. Below(dir', e) = Below(dir, e)
    BY <1>1 DEF Below
  <2>2. QED
    BY <2>1, RankSame
<1>5. Ahead'
  BY <1>1, <1>4 DEF ListingInv, Ahead
<1>6. Behind'
  BY <1>1, <1>3 DEF ListingInv, Behind
<1>7. RepeatsNeedCreates' /\ MissesNeedUnlinks'
  BY <1>1 DEF ListingInv, RepeatsNeedCreates, MissesNeedUnlinks
<1>8. Cardinality(dir') <= limit' /\ index' <= limit'
  <2>1. IsFiniteSet(dir) /\ Cardinality(dir) \in Nat
    BY <1>1, Finite
  <2>2. Cardinality(dir') = Cardinality(dir) - 1
    BY <1>1, <2>1, FS_RemoveElement
  <2>3. QED
    BY <1>1, <2>1, <2>2 DEF ListingInv
<1>9. QED
  BY <1>2, <1>5, <1>6, <1>7, <1>8 DEF ListingInv

LEMMA ListingAlways == Spec => []ListingInv
<1>1. ListingInv /\ [Next]_vars => ListingInv'
  <2> SUFFICES ASSUME ListingInv, [Next]_vars PROVE ListingInv'
    OBVIOUS
  <2>1. CASE UNCHANGED vars
    BY <2>1 DEF vars, ListingInv, TypeOK, Ahead, Behind, RepeatsNeedCreates, MissesNeedUnlinks
  <2>2. QED
    BY <2>1, EntryStep, EndStep, FailStep, CreateStep, UnlinkStep DEF Next
<1>2. QED
  BY <1>1, InitListing, PTL DEF Spec

\* A listing by index misses an entry that stayed only when one with a smaller
\* hash was unlinked during it (or a call failed) ...
THEOREM MissesExplained == Spec => []MissesNeedUnlinks
<1>1. ListingInv => MissesNeedUnlinks
  BY DEF ListingInv
<1>2. QED
  BY <1>1, ListingAlways, PTL

\* ... repeats one only when one with a smaller hash was created during it ...
THEOREM RepeatsExplained == Spec => []RepeatsNeedCreates
<1>1. ListingInv => RepeatsNeedCreates
  BY DEF ListingInv
<1>2. QED
  BY <1>1, ListingAlways, PTL

\* ... and is never longer than the entries it started with and those created.
THEOREM ListingBounded == Spec => []CallsBounded
<1>1. ListingInv => CallsBounded
  BY DEF ListingInv, CallsBounded
<1>2. QED
  BY <1>1, ListingAlways, PTL
===========================================================================
