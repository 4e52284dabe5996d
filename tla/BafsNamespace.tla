--------------------------- MODULE BafsNamespace ---------------------------
(***************************************************************************)
(* Directories and inodes: volume_create_file, volume_create_directory,    *)
(* volume_unlink_directory_entry, volume_lookup_directory_entry and the    *)
(* part of volume_write_file_data that records an extent, over dir.rs and  *)
(* inode.rs.  "fs" holds the items of the inode tree and the inode counter *)
(* of the superblock, as the mounted volume sees them; "saved" holds the   *)
(* ones a crash goes back to (BafsCommit shows that a commit is atomic).   *)
(*                                                                         *)
(* A create or unlink is several tree operations, each of which may stop   *)
(* the call with an I/O error; the ones before it stay in the mounted      *)
(* volume and the next commit saves them.                                  *)
(***************************************************************************)
EXTENDS Integers, FiniteSets

CONSTANTS
    Name,          \* file names
    BadName,       \* names directory_create_entry refuses (empty, too long)
    HashValue,     \* values of the 64-bit name hash
    Hash,          \* xxhash64_with_seed_zero, as a function of the name
    Offset,        \* the offsets extents are recorded at
    NoInode, NoEntry,
    MaxInode,      \* bound: the largest inode number
    MaxBirths,     \* bound: how many inodes are written as new
    MaxFaults      \* bound: how many calls stop with an I/O error

ASSUME NameAssumption == Hash \in [Name -> HashValue] /\ BadName \subseteq Name
ASSUME InodeAssumption ==
    MaxInode \in Nat \ {0} /\ MaxBirths \in Nat /\ MaxFaults \in Nat

InodeNumber == 1 .. MaxInode
Root == 1                     \* BAFS_ROOT_INODE_NUMBER

ASSUME NothingAssumption == NoInode \notin InodeNumber

Inode == [type : {"file", "dir"}, hard_link_count : Nat, born : Nat]
DirEntry == [name : Name, child : InodeNumber, type : {"file", "dir"}]

ASSUME AbsentAssumption == NoInode \notin Inode /\ NoEntry \notin DirEntry

VARIABLES
    fs,            \* the mounted volume: inodes, entries, extents, inode count
    saved,         \* the committed volume
    handles,       \* kernel inodes handed out since the mount
    births,        \* how many inodes were written as new
    faults

vars == <<fs, saved, handles, births, faults>>
---------------------------------------------------------------------------
Exists(f, i) == i \in InodeNumber /\ f.inodes[i] # NoInode
IsDir(f, i) == Exists(f, i) /\ f.inodes[i].type = "dir"
IsFile(f, i) == Exists(f, i) /\ f.inodes[i].type = "file"

\* Inode::inode_type, and the type in Inode::stat: whatever is not read as a
\* directory is reported as a regular file, be it gone or unreadable ("error":
\* an I/O error or a bad checksum on the way to the inode).
inode_type(f, i, error) == IF IsDir(f, i) /\ ~error THEN "dir" ELSE "file"

\* A kernel inode is a number; with it, the object it was made for.
HandleOf(f, i) ==
    [number |-> i, born |-> f.inodes[i].born, type |-> f.inodes[i].type]

\* directory_lookup_entry: the item at the name's hash, if the name is the same.
directory_lookup_entry(f, d, n) ==
    LET e == f.entries[<<d, Hash[n]>>]
    IN  IF e # NoEntry /\ e.name = n THEN e ELSE NoEntry

\* Mutant of NewInode: a directory starts with one link.
NewInodeOneLink(type) == [type |-> type, hard_link_count |-> 1, born |-> births + 1]

\* new_regular_file and new_directory.
NewInode(type) ==
    [type |-> type, hard_link_count |-> IF type = "dir" THEN 2 ELSE 1, born |-> births + 1]

\* volume_allocate_inode_number only moves the counter.
WithNumber(f) == [f EXCEPT !.allocated_inode_count = @ + 1]

\* volume_write_inode of a new inode under the number just allocated.
WithInode(f, type) ==
    LET g == WithNumber(f)
    IN  [g EXCEPT !.inodes[g.allocated_inode_count] = NewInode(type)]

\* directory_create_entry: the tree keeps one item for a directory and a hash.
WithEntry(f, d, n, type) ==
    LET g == WithInode(f, type)
    IN  [g EXCEPT !.entries[<<d, Hash[n]>>] =
            [name |-> n, child |-> g.allocated_inode_count, type |-> type]]

\* directory_unlink_entry deletes the item at the hash.
WithoutEntry(f, d, n) == [f EXCEPT !.entries[<<d, Hash[n]>>] = NoEntry]

\* Mutant of WithLessLinks: the extent items are left behind.
WithLessLinksLeaky(f, i) ==
    IF f.inodes[i].hard_link_count > 1
    THEN [f EXCEPT !.inodes[i].hard_link_count = @ - 1]
    ELSE [f EXCEPT !.inodes[i] = NoInode]

\* Mutant of WithLessLinks: the counter is taken for a count of live inodes.
WithLessLinksRecount(f, i) ==
    IF f.inodes[i].hard_link_count > 1
    THEN [f EXCEPT !.inodes[i].hard_link_count = @ - 1]
    ELSE [f EXCEPT !.inodes[i] = NoInode,
                   !.extents = {x \in @ : x[1] # i},
                   !.allocated_inode_count = @ - 1]

\* One link less; at zero the extents and the inode go.
WithLessLinks(f, i) ==
    IF f.inodes[i].hard_link_count > 1
    THEN [f EXCEPT !.inodes[i].hard_link_count = @ - 1]
    ELSE [f EXCEPT !.inodes[i] = NoInode,
                   !.extents = {x \in @ : x[1] # i}]
---------------------------------------------------------------------------
\* A formatted volume: the root directory and nothing else.
Formatted ==
    [inodes |-> [i \in InodeNumber |->
        IF i = Root THEN [type |-> "dir", hard_link_count |-> 2, born |-> 0] ELSE NoInode],
     entries |-> [place \in InodeNumber \X HashValue |-> NoEntry],
     extents |-> {},
     allocated_inode_count |-> 1]

Init ==
    /\ fs = Formatted
    /\ saved = Formatted
    /\ handles = {HandleOf(fs, Root)}
    /\ births = 0
    /\ faults = 0

Fault == faults < MaxFaults /\ faults' = faults + 1

\* The checks before volume_create_file and volume_create_directory change
\* anything, and the bounds.
CanCreate(d) ==
    /\ IsDir(fs, d)
    /\ fs.allocated_inode_count < MaxInode
    /\ births < MaxBirths

\* Mutant of Refused: the name is not looked up first.
RefusedBadOnly(d, n) == n \in BadName

\* What directory_create_entry refuses.
Refused(d, n) == n \in BadName \/ directory_lookup_entry(fs, d, n) # NoEntry

\* Inode::create and Inode::mkdir also hand out a handle on the new inode.
Create(d, n, type) ==
    /\ CanCreate(d)
    /\ ~Refused(d, n)
    /\ fs' = WithEntry(fs, d, n, type)
    /\ births' = births + 1
    /\ handles' = handles \cup {HandleOf(fs', fs'.allocated_inode_count)}
    /\ UNCHANGED <<saved, faults>>

\* The name is refused after the inode was written: AlreadyExists or
\* InvalidArgument is returned and the inode stays.
CreateRefused(d, n, type) ==
    /\ CanCreate(d)
    /\ Refused(d, n)
    /\ fs' = WithInode(fs, type)
    /\ births' = births + 1
    /\ UNCHANGED <<saved, handles, faults>>

\* An I/O error stops the call: before the inode is written, before the entry
\* is, or when the freed blocks are returned at the end.
CreateFails(d, n, type) ==
    /\ CanCreate(d)
    /\ Fault
    /\ \/ fs' = WithNumber(fs) /\ UNCHANGED births
       \/ fs' = WithInode(fs, type) /\ births' = births + 1
       \/ ~Refused(d, n) /\ fs' = WithEntry(fs, d, n, type) /\ births' = births + 1
    /\ UNCHANGED <<saved, handles>>

\* volume_unlink_directory_entry checks neither that d is a directory nor that
\* a directory it removes is empty.
CanUnlink(d, n) == directory_lookup_entry(fs, d, n) # NoEntry

\* The entry goes first, then the inode.  An error in the very last step, which
\* returns the freed blocks, leaves the same volume.
Unlink(d, n) ==
    /\ CanUnlink(d, n)
    /\ LET child == directory_lookup_entry(fs, d, n).child
           g == WithoutEntry(fs, d, n)
       IN  fs' = IF Exists(g, child) THEN WithLessLinks(g, child) ELSE g
    /\ UNCHANGED <<saved, handles, births, faults>>

\* Mutant of UnlinkStops: the inode goes before the entry.
UnlinkStopsInodeFirst(d, n) ==
    fs' = WithLessLinks(fs, directory_lookup_entry(fs, d, n).child)

\* What an unlink that stops half-way leaves: the roots of the inode and the
\* extents are only stored at the end.
UnlinkStops(d, n) == fs' = WithoutEntry(fs, d, n)

UnlinkFails(d, n) ==
    /\ CanUnlink(d, n)
    /\ Fault
    /\ UnlinkStops(d, n)
    /\ UNCHANGED <<saved, handles, births>>

\* volume_write_file_data records an extent for a file that still exists.
WriteFileData(i, offset) ==
    /\ IsFile(fs, i)
    /\ fs' = [fs EXCEPT !.extents = @ \cup {<<i, offset>>}]
    /\ UNCHANGED <<saved, handles, births, faults>>

\* Inode::lookup hands out a handle on the number in the entry.
Lookup(d, n) ==
    /\ IsDir(fs, d)
    /\ directory_lookup_entry(fs, d, n) # NoEntry
    /\ Exists(fs, directory_lookup_entry(fs, d, n).child)
    /\ handles' = handles \cup {HandleOf(fs, directory_lookup_entry(fs, d, n).child)}
    /\ UNCHANGED <<fs, saved, births, faults>>

\* flush_and_commit, which BafsCommit shows to be atomic.
Commit ==
    /\ saved' = fs
    /\ UNCHANGED <<fs, handles, births, faults>>

\* A crash or an unclean drop, and bafs_mount_kernel_volume, which hands out the
\* root directory.
Crash ==
    /\ fs' = saved
    /\ handles' = {HandleOf(saved, Root)}
    /\ UNCHANGED <<saved, births, faults>>

Next ==
    \/ \E d \in InodeNumber, n \in Name :
         \/ \E type \in {"file", "dir"} :
              Create(d, n, type) \/ CreateRefused(d, n, type) \/ CreateFails(d, n, type)
         \/ Unlink(d, n) \/ UnlinkFails(d, n)
         \/ Lookup(d, n)
    \/ \E i \in InodeNumber, offset \in Offset : WriteFileData(i, offset)
    \/ Commit
    \/ Crash

Spec == Init /\ [][Next]_vars
---------------------------------------------------------------------------
Volume ==
    [inodes : [InodeNumber -> Inode \cup {NoInode}],
     entries : [InodeNumber \X HashValue -> DirEntry \cup {NoEntry}],
     extents : SUBSET (InodeNumber \X Offset),
     allocated_inode_count : InodeNumber]

\* Every variable has its type.
TypeOK ==
    /\ fs \in Volume /\ saved \in Volume
    /\ handles \subseteq [number : InodeNumber, born : Nat, type : {"file", "dir"}]
    /\ births \in Nat /\ faults \in Nat

Resolves(f) ==
    \A place \in InodeNumber \X HashValue :
        LET e == f.entries[place]
        IN  e # NoEntry => /\ Exists(f, e.child) /\ f.inodes[e.child].type = e.type
                           /\ IsDir(f, place[1])

\* Every directory entry names an inode that exists and has the entry's type, and
\* lies in a directory that exists, in the mounted volume and in the committed
\* one.  Calls may stop half way (create writes the inode before the entry,
\* unlink deletes the entry before the inode), and a directory may be unlinked
\* with its entries (its second link keeps its inode).
EntriesResolve == Resolves(fs) /\ Resolves(saved)

NamesOnce(f) ==
    \A p, q \in InodeNumber \X HashValue :
        p # q /\ f.entries[p] # NoEntry /\ f.entries[q] # NoEntry
          => f.entries[p].child # f.entries[q].child

\* No inode has two names: a number is given out once, and a crash takes back
\* the counter together with the entries.
OneName == NamesOnce(fs)

OwnsExtents(f) == \A x \in f.extents : IsFile(f, x[1])

\* Every extent belongs to a file that exists: deleting a file takes its
\* extents along, and a write through an old handle finds no inode.
ExtentsOwned == OwnsExtents(fs)

\* A handle taken since the mount never comes to mean another object: its inode
\* is the one it was taken on, or is gone.  The type reported through it is the
\* one it was taken with, although an inode that is gone is reported as a regular
\* file; only for a directory whose inode cannot be read is it wrong.
HandlesStable ==
    \A h \in handles :
        /\ Exists(fs, h.number) => fs.inodes[h.number].born = h.born
        /\ \A error \in BOOLEAN :
             inode_type(fs, h.number, error) # h.type => error /\ h.type = "dir"

ChildOf(f, d, n) ==
    LET e == directory_lookup_entry(f, d, n) IN IF e = NoEntry THEN NoInode ELSE e.child

NamesOf(f) == [place \in InodeNumber \X Name |-> ChildOf(f, place[1], place[2])]

Names == INSTANCE NameMap WITH
    Dir <- InodeNumber, names <- NamesOf(fs), saved <- NamesOf(saved)

\* Seen through lookups, the directories are a map that every call changes at
\* one name at most, as long as no two names share a hash.
RefinesNameMap == Names!MapSpec

\* dir.rs says of two names with the same hash: "the second insert does NOT
\* overwrite the first".
CreateKeepsOtherNames ==
    [][\A d \in InodeNumber, n \in Name :
         births' > births /\ ChildOf(fs, d, n) # NoInode
           => ChildOf(fs', d, n) = ChildOf(fs, d, n)]_vars
===========================================================================
