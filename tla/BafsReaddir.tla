---------------------------- MODULE BafsReaddir ----------------------------
(***************************************************************************)
(* Listing a directory by index, while entries come and go.  A caller asks *)
(* Inode::readdir for entry 0, 1, 2, ... until it gets none; every call    *)
(* scans the directory again, in the order of the name hashes, and picks   *)
(* the entry at the index.  Between two calls other callers create and     *)
(* unlink entries.  Calls are serialised, as kernel.rs requires.           *)
(*                                                                         *)
(* An entry is the hash of its name, which is its key in the inode tree.   *)
(* A behaviour is one listing of a directory with any entries: a listing   *)
(* keeps nothing but its index.                                            *)
(***************************************************************************)
EXTENDS Integers, FiniteSets

CONSTANTS
    HashValue,     \* the name hashes
    MaxChanges     \* bound: creates and unlinks during the listing

ASSUME HashAssumption == HashValue \subseteq Nat /\ IsFiniteSet(HashValue)
ASSUME ChangesAssumption == MaxChanges \in Nat

VARIABLES
    dir,           \* the entries of the directory
    done,          \* the caller got no entry
    failed,        \* because of an I/O error
    index,         \* the index of the next call
    listed,        \* the entries it has returned
    again,         \* those it has returned more than once
    old,           \* the entries that are there since the listing began
    created, unlinked,   \* what was created and unlinked since
    changes,       \* how many creates and unlinks there were
    limit          \* how many entries there were at first, plus creates since

vars == <<dir, done, failed, index, listed, again, old, created, unlinked, changes, limit>>
---------------------------------------------------------------------------
\* Mutant of Rank: the entries come in the opposite order.
RankBackwards(d, e) == Cardinality({x \in d : e < x})

\* The position of an entry in a scan of the directory.
Rank(d, e) == Cardinality({x \in d : x < e})

\* Mutant of NextIndex: one entry too many.
NextIndexSkips(i) == i + 2

\* The caller goes on with the next index.
NextIndex(i) == i + 1
---------------------------------------------------------------------------
Init ==
    /\ dir \in SUBSET HashValue
    /\ old = dir /\ limit = Cardinality(dir)
    /\ done = FALSE /\ failed = FALSE /\ index = 0 /\ changes = 0
    /\ listed = {} /\ again = {} /\ created = {} /\ unlinked = {}

\* Inode::readdir returns e, the entry that directory_iterate finds at the index.
ReaddirEntry(e) ==
    /\ ~done
    /\ e \in dir /\ Rank(dir, e) = index
    /\ again' = again \cup (listed \cap {e})
    /\ listed' = listed \cup {e}
    /\ index' = NextIndex(index)
    /\ UNCHANGED <<done, failed, dir, old, created, unlinked, changes, limit>>

\* It returns none: the index is past the last entry.
ReaddirEnd ==
    /\ ~done
    /\ index >= Cardinality(dir)
    /\ done' = TRUE
    /\ UNCHANGED <<failed, index, listed, again, dir, old, created, unlinked, changes, limit>>

\* It also returns none when the scan fails or the entry cannot be decoded.
ReaddirFails ==
    /\ ~done
    /\ done' = TRUE /\ failed' = TRUE
    /\ UNCHANGED <<index, listed, again, dir, old, created, unlinked, changes, limit>>

\* Changes after the listing no longer matter.
Change == ~done /\ changes < MaxChanges /\ changes' = changes + 1

\* Another caller creates an entry.
Create(h) ==
    /\ Change
    /\ h \notin dir
    /\ dir' = dir \cup {h}
    /\ created' = created \cup {h} /\ limit' = limit + 1
    /\ UNCHANGED <<done, failed, index, listed, again, old, unlinked>>

\* Another caller unlinks one.
Unlink(h) ==
    /\ Change
    /\ h \in dir
    /\ dir' = dir \ {h}
    /\ unlinked' = unlinked \cup {h} /\ old' = old \ {h}
    /\ UNCHANGED <<done, failed, index, listed, again, created, limit>>

Next ==
    \/ \E e \in HashValue : ReaddirEntry(e) \/ Create(e) \/ Unlink(e)
    \/ ReaddirEnd \/ ReaddirFails

Spec == Init /\ [][Next]_vars
---------------------------------------------------------------------------
\* Every variable has its type.
TypeOK ==
    /\ dir \subseteq HashValue /\ old \subseteq dir
    /\ listed \subseteq HashValue /\ again \subseteq listed
    /\ created \subseteq HashValue /\ unlinked \subseteq HashValue
    /\ index \in Nat /\ changes \in Nat /\ limit \in Nat
    /\ done \in BOOLEAN /\ failed \in BOOLEAN

\* A finished listing misses an entry that was there all along only if an entry
\* with a smaller hash was unlinked meanwhile, which moves it below the index,
\* or if a call failed, which the caller cannot tell from the end.
MissesNeedUnlinks ==
    done /\ ~failed => \A e \in old \ listed : \E u \in unlinked : u < e

\* A listing returns an entry that was there all along twice only if an entry
\* with a smaller hash was created meanwhile.
RepeatsNeedCreates == \A e \in old \cap again : \E c \in created : c < e

\* A listing is never chased to no end: it makes at most one call for each entry
\* there at first and each entry created since.
CallsBounded == index <= limit
===========================================================================
