------------------------ MODULE BafsNamespaceProofs ------------------------
(***************************************************************************)
(* The invariants of BafsNamespace for any number of names, inodes and     *)
(* stopped calls, and any hash function.                                   *)
(***************************************************************************)
EXTENDS BafsNamespace, TLAPS

Places == InodeNumber \X HashValue

\* Numbers above the counter are free, and a directory that has a name has the
\* second link that keeps its inode when the name is unlinked.
Numbered(f) == \A i \in InodeNumber : i > f.allocated_inode_count => f.inodes[i] = NoInode

Linked(f) ==
    \A p \in Places :
        f.entries[p] # NoEntry /\ f.entries[p].type = "dir"
          => f.inodes[f.entries[p].child].hard_link_count > 1

\* What holds of the mounted volume and of the committed one.
Sound(f) ==
    /\ f \in Volume
    /\ Numbered(f) /\ Linked(f) /\ Resolves(f) /\ NamesOnce(f) /\ OwnsExtents(f)
    /\ IsDir(f, Root)

\* A handle and its inode: the inode is the one it was taken on, and it is a
\* directory exactly if it was one then.
HandleHolds(h) ==
    /\ Exists(fs, h.number) => fs.inodes[h.number].born = h.born
    /\ IsDir(fs, h.number) <=> h.type = "dir"

HandlesInv ==
    /\ handles \subseteq [number : InodeNumber, born : Nat, type : {"file", "dir"}]
    /\ \A h \in handles : h.number <= fs.allocated_inode_count /\ HandleHolds(h)

NamespaceInv ==
    /\ Sound(fs) /\ Sound(saved) /\ HandlesInv
    /\ births \in Nat /\ faults \in Nat

\* g comes after f in one session: objects stay themselves, directories stay.
Keeps(f, g) ==
    /\ f.allocated_inode_count <= g.allocated_inode_count
    /\ \A i \in 1 .. f.allocated_inode_count :
         /\ Exists(g, i) => /\ Exists(f, i)
                            /\ g.inodes[i].born = f.inodes[i].born
                            /\ g.inodes[i].type = f.inodes[i].type
         /\ IsDir(f, i) => IsDir(g, i)
---------------------------------------------------------------------------
\* A formatted volume is sound.
LEMMA FormattedSound == Sound(Formatted)
<1>1. Formatted \in Volume
  BY InodeAssumption DEF Formatted, Volume, InodeNumber, Root, Inode
<1>2. QED
  BY <1>1, InodeAssumption, NothingAssumption, AbsentAssumption
     DEF Formatted, Sound, Numbered, Linked, Resolves, NamesOnce, OwnsExtents, IsDir, Exists,
         Root, InodeNumber, Places, Inode

\* Allocating a number leaves the volume sound.
LEMMA WithNumberSound ==
    ASSUME NEW f, Sound(f), f.allocated_inode_count < MaxInode
    PROVE  Sound(WithNumber(f)) /\ Keeps(f, WithNumber(f))
<1> DEFINE g == WithNumber(f)
<1>0. f.allocated_inode_count + 1 \in InodeNumber /\ f \in Volume
  BY InodeAssumption DEF Sound, Volume, InodeNumber
<1>a. /\ g.inodes = f.inodes /\ g.entries = f.entries /\ g.extents = f.extents
      /\ g.allocated_inode_count = f.allocated_inode_count + 1
  BY <1>0 DEF WithNumber, Volume
<1>b. g \in Volume
  BY <1>0 DEF WithNumber, Volume
<1>1. /\ g.inodes = f.inodes /\ g.entries = f.entries /\ g.extents = f.extents
      /\ g.allocated_inode_count = f.allocated_inode_count + 1
      /\ g \in Volume /\ f \in Volume
  BY <1>0, <1>a, <1>b
<1>2. f.allocated_inode_count \in Nat
  BY InodeAssumption DEF Sound, Volume, InodeNumber
<1> HIDE DEF g
<1>3. Numbered(g)
  BY <1>1, <1>2, InodeAssumption DEF Numbered, Sound, InodeNumber
<1>4. Linked(g) /\ Resolves(g) /\ NamesOnce(g) /\ OwnsExtents(g) /\ IsDir(g, Root)
  BY <1>1 DEF Sound, Linked, Resolves, NamesOnce, OwnsExtents, IsDir, IsFile, Exists
<1>5. Keeps(f, g)
  BY <1>1, <1>2 DEF Keeps, Exists, IsDir
<1>6. QED
  BY <1>1, <1>3, <1>4, <1>5 DEF Sound, g

\* So does writing a new inode under it.
LEMMA WithInodeSound ==
    ASSUME NEW f, Sound(f), f.allocated_inode_count < MaxInode, births \in Nat,
           NEW type \in {"file", "dir"},
           NEW g, g = WithInode(f, type)
    PROVE  /\ Sound(g) /\ Keeps(f, g)
           /\ g.allocated_inode_count = f.allocated_inode_count + 1
           /\ g.inodes[g.allocated_inode_count] = NewInode(type)
           /\ g.entries = f.entries
           /\ \A p \in Places : f.entries[p] # NoEntry
                => f.entries[p].child # g.allocated_inode_count
<1> DEFINE m == WithNumber(f)
           k == f.allocated_inode_count + 1
<1>1. Sound(m) /\ Keeps(f, m)
  BY WithNumberSound
<1>2. /\ k \in InodeNumber /\ f \in Volume /\ f.allocated_inode_count \in Nat
      /\ m \in Volume
  BY <1>1, InodeAssumption DEF Sound, Volume, InodeNumber
<1>3. /\ m.inodes = f.inodes /\ m.entries = f.entries /\ m.extents = f.extents
      /\ m.allocated_inode_count = k
  BY <1>2 DEF WithNumber, Volume
<1>4. NewInode(type) \in Inode /\ NewInode(type).type = type
      /\ (type = "dir" => NewInode(type).hard_link_count > 1)
  BY DEF NewInode, Inode
<1>5. /\ g.inodes = [f.inodes EXCEPT ![k] = NewInode(type)]
      /\ g.entries = f.entries /\ g.extents = f.extents /\ g.allocated_inode_count = k
  BY <1>2, <1>3 DEF WithInode, Volume
<1>6. g \in Volume
  BY <1>2, <1>3, <1>4 DEF WithInode, Volume
<1>7. f.inodes[k] = NoInode
  BY <1>2 DEF Sound, Numbered
<1> HIDE DEF m, k
<1>8. /\ g.inodes[k] = NewInode(type) /\ g.inodes[k] # NoInode
      /\ \A i \in InodeNumber : i # k => g.inodes[i] = f.inodes[i]
  BY <1>2, <1>4, <1>5, AbsentAssumption DEF Volume
<1>9. \A i \in InodeNumber : Exists(f, i) => Exists(g, i) /\ g.inodes[i] = f.inodes[i] /\ i # k
  BY <1>7, <1>8 DEF Exists
<1>10. \A p \in Places : f.entries[p] # NoEntry => f.entries[p].child # k /\ f.entries[p].child \in InodeNumber
  BY <1>7 DEF Sound, Resolves, Exists, Places
<1>11. Numbered(g)
  BY <1>2, <1>5, <1>8 DEF Sound, Numbered, k, InodeNumber
<1>12. Linked(g)
  BY <1>5, <1>8, <1>10 DEF Sound, Linked
<1>13. Resolves(g)
  BY <1>5, <1>9 DEF Sound, Resolves, IsDir, Exists
<1>14. NamesOnce(g)
  BY <1>5 DEF Sound, NamesOnce
<1>15. OwnsExtents(g) /\ IsDir(g, Root)
  BY <1>5, <1>9 DEF Sound, OwnsExtents, IsFile, IsDir, Exists
<1>16. Keeps(f, g)
  <2>1. \A i \in 1 .. f.allocated_inode_count : i \in InodeNumber /\ i # k
    BY <1>2, InodeAssumption DEF InodeNumber, k
  <2>2. f.allocated_inode_count <= k
    BY <1>2 DEF k
  <2>3. QED
    BY <2>1, <2>2, <1>5, <1>8 DEF Keeps, Exists, IsDir
<1>17. QED
  BY <1>5, <1>6, <1>8, <1>10, <1>11, <1>12, <1>13, <1>14, <1>15, <1>16 DEF Sound, k

\* And so does entering it under a name of a directory.
LEMMA WithEntrySound ==
    ASSUME NEW f, Sound(f), f.allocated_inode_count < MaxInode, births \in Nat,
           NEW type \in {"file", "dir"}, NEW d, IsDir(f, d), NEW n \in Name,
           NEW h, h = WithEntry(f, d, n, type)
    PROVE  /\ Sound(h) /\ Keeps(f, h)
           /\ h.allocated_inode_count = f.allocated_inode_count + 1
           /\ h.inodes[h.allocated_inode_count] = NewInode(type)
<1> DEFINE g == WithInode(f, type)
           q == <<d, Hash[n]>>
           k == f.allocated_inode_count + 1
           e == [name |-> n, child |-> k, type |-> type]
<1>1. /\ Sound(g) /\ Keeps(f, g) /\ g.allocated_inode_count = k
      /\ g.inodes[k] = NewInode(type) /\ g.entries = f.entries
      /\ \A p \in Places : f.entries[p] # NoEntry => f.entries[p].child # k
  BY WithInodeSound
<1>2. k \in InodeNumber /\ g \in Volume /\ d \in InodeNumber /\ q \in Places
  BY <1>1, InodeAssumption, NameAssumption DEF Sound, Volume, InodeNumber, IsDir, Exists, Places
<1>3. e \in DirEntry /\ e # NoEntry /\ e.child = k /\ e.type = type
  BY <1>2, AbsentAssumption DEF DirEntry
<1>4. /\ h.entries = [g.entries EXCEPT ![q] = e]
      /\ h.inodes = g.inodes /\ h.extents = g.extents
      /\ h.allocated_inode_count = g.allocated_inode_count
  BY <1>1, <1>2 DEF WithEntry, Volume
<1>5. h \in Volume
  BY <1>1, <1>2, <1>3 DEF WithEntry, Volume, Places
<1>6. NewInode(type) \in Inode /\ NewInode(type).type = type
      /\ (type = "dir" => NewInode(type).hard_link_count > 1)
  BY DEF NewInode, Inode
<1>7. h.entries[q] = e /\ \A p \in Places : p # q => h.entries[p] = g.entries[p]
  BY <1>2, <1>4 DEF Volume, Places
<1>8. Exists(h, k) /\ h.inodes[k].type = type
  BY <1>1, <1>2, <1>4, <1>6, AbsentAssumption DEF Exists
<1>9. IsDir(g, d)
  BY <1>1, <1>2 DEF Sound, Keeps, IsDir, Exists, Numbered, InodeNumber, Volume
<1> HIDE DEF g, q, k, e
<1>10. Numbered(h) /\ IsDir(h, Root) /\ OwnsExtents(h)
  BY <1>1, <1>4 DEF Sound, Numbered, IsDir, OwnsExtents, IsFile, Exists
<1>11. Linked(h)
  BY <1>1, <1>3, <1>4, <1>6, <1>7 DEF Sound, Linked
<1>12. Resolves(h)
  <2> SUFFICES ASSUME NEW p \in Places, h.entries[p] # NoEntry
               PROVE  /\ Exists(h, h.entries[p].child)
                      /\ h.inodes[h.entries[p].child].type = h.entries[p].type
                      /\ IsDir(h, p[1])
    BY DEF Resolves, Places
  <2>1. CASE p = q
    BY <2>1, <1>3, <1>4, <1>7, <1>8, <1>9 DEF q, IsDir, Exists
  <2>2. CASE p # q
    <3>1. h.entries[p] = g.entries[p] /\ h.inodes = g.inodes /\ Resolves(g)
      BY <2>2, <1>1, <1>4, <1>7 DEF Sound
    <3>2. /\ Exists(g, g.entries[p].child)
          /\ g.inodes[g.entries[p].child].type = g.entries[p].type
          /\ IsDir(g, p[1])
      BY <3>1 DEF Resolves, Places
    <3>3. QED
      BY <3>1, <3>2 DEF IsDir, Exists
  <2>3. QED
    BY <2>1, <2>2
<1>13. NamesOnce(h)
  BY <1>1, <1>3, <1>7 DEF Sound, NamesOnce, Places
<1>14. Keeps(f, h)
  BY <1>1, <1>4 DEF Keeps, Exists, IsDir
<1>15. QED
  BY <1>1, <1>4, <1>5, <1>10, <1>11, <1>12, <1>13, <1>14 DEF Sound, k

\* g is f without the entry e of n in d.
Removal(f, d, n, e, g) ==
    e = f.entries[<<d, Hash[n]>>] /\ e # NoEntry /\ g = WithoutEntry(f, d, n)

\* Deleting an entry leaves the volume sound, and its inode without a name.
LEMMA WithoutEntrySound ==
    ASSUME NEW f, Sound(f), NEW d \in InodeNumber, NEW n \in Name,
           NEW e, NEW g, Removal(f, d, n, e, g)
    PROVE  /\ Sound(g) /\ Keeps(f, g) /\ g.inodes = f.inodes
           /\ Exists(g, e.child)
           /\ g.inodes[e.child].type = "dir" => g.inodes[e.child].hard_link_count > 1
           /\ \A p \in Places : g.entries[p] # NoEntry => g.entries[p].child # e.child
<1> DEFINE q == <<d, Hash[n]>>
<1>0. e = f.entries[<<d, Hash[n]>>] /\ e # NoEntry /\ g = WithoutEntry(f, d, n)
  BY DEF Removal
<1> USE <1>0
<1>1. q \in Places /\ f \in Volume
  BY NameAssumption DEF Places, Sound
<1>2. /\ g.entries = [f.entries EXCEPT ![q] = NoEntry]
      /\ g.inodes = f.inodes /\ g.extents = f.extents
      /\ g.allocated_inode_count = f.allocated_inode_count
  BY <1>1 DEF WithoutEntry, Volume
<1>3. g \in Volume
  BY <1>1 DEF WithoutEntry, Volume, Places
<1> HIDE DEF q
<1>4. g.entries[q] = NoEntry /\ \A p \in Places : p # q => g.entries[p] = f.entries[p]
  BY <1>1, <1>2 DEF Volume, Places
<1>5. Numbered(g) /\ IsDir(g, Root) /\ OwnsExtents(g)
  BY <1>2 DEF Sound, Numbered, IsDir, OwnsExtents, IsFile, Exists
<1>6. Linked(g) /\ Resolves(g) /\ NamesOnce(g)
  <2>0. Linked(f) /\ Resolves(f) /\ NamesOnce(f)
    BY DEF Sound
  <2>1. Linked(g)
    BY <2>0, <1>2, <1>4 DEF Linked
  <2>2. Resolves(g)
    BY <2>0, <1>2, <1>4 DEF Resolves, Places, IsDir, Exists
  <2>3. NamesOnce(g)
    BY <2>0, <1>4 DEF NamesOnce, Places
  <2>4. QED
    BY <2>1, <2>2, <2>3
<1>7. Keeps(f, g)
  BY <1>1, <1>2 DEF Keeps, Exists, IsDir, Volume, InodeNumber
<1>8. /\ Exists(g, e.child) /\ f.inodes[e.child].type = e.type
      /\ e.type = "dir" => f.inodes[e.child].hard_link_count > 1
  BY <1>1, <1>2 DEF Sound, Resolves, Linked, Places, Exists, q
<1>9. \A p \in Places : g.entries[p] # NoEntry => g.entries[p].child # e.child
  BY <1>1, <1>4 DEF Sound, NamesOnce, Places, q
<1>10. QED
  BY <1>2, <1>3, <1>5, <1>6, <1>7, <1>8, <1>9 DEF Sound

\* Taking a link from an inode without a name leaves the volume sound.
LEMMA LessLinksSound ==
    ASSUME NEW f, Sound(f), NEW i \in InodeNumber, Exists(f, i),
           f.inodes[i].type = "dir" => f.inodes[i].hard_link_count > 1,
           \A p \in Places : f.entries[p] # NoEntry => f.entries[p].child # i,
           NEW g, g = WithLessLinks(f, i)
    PROVE  Sound(g) /\ Keeps(f, g)
<1> DEFINE less == [f.inodes[i] EXCEPT !.hard_link_count = @ - 1]
<1>1. f \in Volume /\ f.inodes[i] \in Inode /\ f.allocated_inode_count \in Nat
      /\ f.allocated_inode_count <= MaxInode
  BY InodeAssumption DEF Sound, Volume, Exists, InodeNumber
<1>2. CASE f.inodes[i].hard_link_count > 1
  <2>1. /\ less \in Inode /\ less.type = f.inodes[i].type /\ less.born = f.inodes[i].born
    BY <1>1, <1>2 DEF Inode
  <2>2. /\ g.inodes = [f.inodes EXCEPT ![i] = less]
        /\ g.entries = f.entries /\ g.extents = f.extents
        /\ g.allocated_inode_count = f.allocated_inode_count
    BY <1>1, <1>2 DEF WithLessLinks, Volume
  <2>3. g \in Volume
    BY <1>1, <1>2, <2>1 DEF WithLessLinks, Volume
  <2> HIDE DEF less
  <2>4. g.inodes[i] = less /\ less # NoInode
        /\ \A j \in InodeNumber : j # i => g.inodes[j] = f.inodes[j]
    BY <1>1, <2>1, <2>2, AbsentAssumption DEF Volume
  <2>5. \A j : /\ Exists(g, j) <=> Exists(f, j)
               /\ Exists(f, j) => /\ g.inodes[j].type = f.inodes[j].type
                                  /\ g.inodes[j].born = f.inodes[j].born
    BY <2>1, <2>4 DEF Exists
  <2>6. Numbered(g)
    BY <2>2, <2>4 DEF Sound, Numbered, Exists
  <2>7. Linked(g)
    BY <2>2, <2>4 DEF Sound, Linked, Resolves, Places, Exists
  <2>8. Resolves(g) /\ NamesOnce(g)
    BY <2>2, <2>5 DEF Sound, Resolves, NamesOnce, IsDir
  <2>9. OwnsExtents(g) /\ IsDir(g, Root) /\ Keeps(f, g)
    BY <1>1, <2>2, <2>5 DEF Sound, OwnsExtents, IsFile, IsDir, Keeps
  <2>10. QED
    BY <2>3, <2>6, <2>7, <2>8, <2>9 DEF Sound
<1>3. CASE ~(f.inodes[i].hard_link_count > 1)
  <2>1. f.inodes[i].type # "dir"
    BY <1>3
  <2>2. /\ g.inodes = [f.inodes EXCEPT ![i] = NoInode]
        /\ g.entries = f.entries /\ g.extents = {x \in f.extents : x[1] # i}
        /\ g.allocated_inode_count = f.allocated_inode_count
    BY <1>1, <1>3 DEF WithLessLinks, Volume
  <2>3. g \in Volume
    BY <1>1, <1>3 DEF WithLessLinks, Volume
  <2>4. g.inodes[i] = NoInode /\ \A j \in InodeNumber : j # i => g.inodes[j] = f.inodes[j]
    BY <1>1, <2>2 DEF Volume
  <2>5. \A j : /\ Exists(g, j) <=> Exists(f, j) /\ j # i
               /\ Exists(g, j) => g.inodes[j] = f.inodes[j]
    BY <2>4 DEF Exists
  <2>6. Numbered(g)
    BY <2>2, <2>4 DEF Sound, Numbered
  <2>7. Linked(g)
    BY <2>2, <2>4 DEF Sound, Linked, Resolves, Places, Exists
  <2>8. Resolves(g) /\ NamesOnce(g)
    BY <2>1, <2>2, <2>5 DEF Sound, Resolves, NamesOnce, IsDir, Places
  <2>9. OwnsExtents(g) /\ IsDir(g, Root)
    BY <2>1, <2>2, <2>5 DEF Sound, OwnsExtents, IsFile, IsDir
  <2>10. Keeps(f, g)
    BY <1>1, <2>1, <2>2, <2>5 DEF IsDir, Keeps
  <2>11. QED
    BY <2>3, <2>6, <2>7, <2>8, <2>9, <2>10 DEF Sound
<1>4. QED
  BY <1>2, <1>3
---------------------------------------------------------------------------
\* A handle on an inode of a sound volume.
LEMMA HandleOfSound ==
    ASSUME NEW f, Sound(f), NEW i \in InodeNumber, Exists(f, i)
    PROVE  /\ HandleOf(f, i) \in [number : InodeNumber, born : Nat, type : {"file", "dir"}]
           /\ HandleOf(f, i).number = i /\ HandleOf(f, i).born = f.inodes[i].born
           /\ HandleOf(f, i).type = "dir" <=> IsDir(f, i)
           /\ i <= f.allocated_inode_count
<1>1. f.inodes[i] \in Inode /\ f.allocated_inode_count \in Nat /\ i \in Nat
  BY InodeAssumption DEF Sound, Volume, Exists, InodeNumber
<1>2. i <= f.allocated_inode_count
  BY <1>1 DEF Sound, Numbered, Exists
<1>3. QED
  BY <1>1, <1>2 DEF HandleOf, Inode, IsDir

\* Handles stay good over a step of one session.
LEMMA HandlesKept ==
    ASSUME NamespaceInv, Sound(fs'), Keeps(fs, fs'), NEW new,
           \/ new = {}
           \/ \E i \in InodeNumber : Exists(fs', i) /\ new = {HandleOf(fs', i)},
           handles' = handles \cup new
    PROVE  HandlesInv'
<1>1. \A h \in handles :
        /\ h.number \in 1 .. fs.allocated_inode_count
        /\ h.number <= fs'.allocated_inode_count
  BY InodeAssumption DEF NamespaceInv, HandlesInv, Keeps, Sound, Volume, InodeNumber
<1>2. \A h \in handles : IsDir(fs', h.number) <=> IsDir(fs, h.number)
  BY <1>1 DEF Keeps, IsDir
<1>3. \A h \in handles :
        /\ Exists(fs', h.number) => fs'.inodes[h.number].born = h.born
        /\ IsDir(fs', h.number) <=> h.type = "dir"
  BY <1>1, <1>2 DEF NamespaceInv, HandlesInv, HandleHolds, Keeps
<1>4. CASE new = {}
  BY <1>1, <1>3, <1>4 DEF NamespaceInv, HandlesInv, HandleHolds, IsDir, Exists
<1>5. CASE \E i \in InodeNumber : Exists(fs', i) /\ new = {HandleOf(fs', i)}
  <2>1. PICK i \in InodeNumber : Exists(fs', i) /\ new = {HandleOf(fs', i)}
    BY <1>5
  <2>2. /\ HandleOf(fs', i) \in [number : InodeNumber, born : Nat, type : {"file", "dir"}]
        /\ HandleOf(fs', i).number = i /\ HandleOf(fs', i).born = fs'.inodes[i].born
        /\ (HandleOf(fs', i).type = "dir" <=> IsDir(fs', i)) /\ i <= fs'.allocated_inode_count
    BY <2>1, HandleOfSound
  <2>3. QED
    BY <1>1, <1>3, <2>1, <2>2
       DEF NamespaceInv, HandlesInv, HandleHolds, IsDir, Exists
<1>6. QED
  BY <1>4, <1>5

LEMMA OldHandlesKept ==
    ASSUME NamespaceInv, Sound(fs'), Keeps(fs, fs'), handles' = handles
    PROVE  HandlesInv'
<1>1. handles' = handles \cup {}
  OBVIOUS
<1>2. QED
  BY <1>1, HandlesKept

\* A volume keeps itself.
LEMMA KeepsItself == ASSUME NEW f, Sound(f) PROVE Keeps(f, f)
  BY InodeAssumption DEF Keeps, Sound, Volume, InodeNumber

LEMMA InitInv == Init => NamespaceInv
<1> SUFFICES ASSUME Init PROVE NamespaceInv
  OBVIOUS
<1>1. Sound(fs) /\ Sound(saved)
  BY FormattedSound DEF Init
<1>2. Root \in InodeNumber /\ Exists(fs, Root)
  BY <1>1 DEF Sound, IsDir, Exists
<1>3. /\ HandleOf(fs, Root) \in [number : InodeNumber, born : Nat, type : {"file", "dir"}]
      /\ HandleOf(fs, Root).number = Root /\ HandleOf(fs, Root).born = fs.inodes[Root].born
      /\ (HandleOf(fs, Root).type = "dir" <=> IsDir(fs, Root)) /\ Root <= fs.allocated_inode_count
  BY <1>1, <1>2, HandleOfSound
<1>4. QED
  BY <1>1, <1>3 DEF Init, NamespaceInv, HandlesInv, HandleHolds

\* Every action preserves the invariant.
LEMMA NextInv == NamespaceInv /\ [Next]_vars => NamespaceInv'
<1> SUFFICES ASSUME NamespaceInv, [Next]_vars PROVE NamespaceInv'
  OBVIOUS
<1>1. Sound(fs) /\ Sound(saved) /\ births \in Nat /\ faults \in Nat
  BY DEF NamespaceInv
<1>2. ASSUME NEW d \in InodeNumber, NEW n \in Name, NEW type \in {"file", "dir"},
             Create(d, n, type)
      PROVE  NamespaceInv'
  <2>1. /\ Sound(fs') /\ Keeps(fs, fs')
        /\ fs'.inodes[fs'.allocated_inode_count] = NewInode(type)
    BY <1>1, <1>2, WithEntrySound DEF Create, CanCreate
  <2>2. fs'.allocated_inode_count \in InodeNumber
        /\ Exists(fs', fs'.allocated_inode_count)
    BY <1>1, <2>1, AbsentAssumption DEF Sound, Volume, Exists, NewInode, Inode
  <2>3. HandlesInv'
    BY <1>2, <2>1, <2>2, HandlesKept DEF Create
  <2>4. QED
    BY <1>1, <1>2, <2>1, <2>3 DEF Create, NamespaceInv
<1>3. ASSUME NEW d \in InodeNumber, NEW n \in Name, NEW type \in {"file", "dir"},
             CreateRefused(d, n, type)
      PROVE  NamespaceInv'
  <2>1. Sound(fs') /\ Keeps(fs, fs')
    BY <1>1, <1>3, WithInodeSound DEF CreateRefused, CanCreate
  <2>2. HandlesInv'
    BY <1>3, <2>1, OldHandlesKept DEF CreateRefused
  <2>3. QED
    BY <1>1, <1>3, <2>1, <2>2 DEF CreateRefused, NamespaceInv
<1>4. ASSUME NEW d \in InodeNumber, NEW n \in Name, NEW type \in {"file", "dir"},
             CreateFails(d, n, type)
      PROVE  NamespaceInv'
  <2>1. Sound(fs') /\ Keeps(fs, fs') /\ births' \in Nat
    BY <1>1, <1>4, WithNumberSound, WithInodeSound, WithEntrySound DEF CreateFails, CanCreate
  <2>2. HandlesInv'
    BY <1>4, <2>1, OldHandlesKept DEF CreateFails
  <2>3. QED
    BY <1>1, <1>4, <2>1, <2>2 DEF CreateFails, Fault, NamespaceInv
<1>5. ASSUME NEW d \in InodeNumber, NEW n \in Name, CanUnlink(d, n),
             UNCHANGED <<saved, handles, births>>, faults' \in Nat,
             \/ fs' = WithoutEntry(fs, d, n)
             \/ LET child == directory_lookup_entry(fs, d, n).child
                    g == WithoutEntry(fs, d, n)
                IN  fs' = IF Exists(g, child) THEN WithLessLinks(g, child) ELSE g
      PROVE  NamespaceInv'
  <2> DEFINE e == fs.entries[<<d, Hash[n]>>]
             g == WithoutEntry(fs, d, n)
  <2>1. e # NoEntry /\ directory_lookup_entry(fs, d, n) = e
    BY <1>5 DEF CanUnlink, directory_lookup_entry
  <2> HIDE DEF e, g
  <2>a. /\ Sound(g) /\ Keeps(fs, g) /\ Exists(g, e.child)
        /\ g.inodes[e.child].type = "dir" => g.inodes[e.child].hard_link_count > 1
        /\ \A p \in Places : g.entries[p] # NoEntry => g.entries[p].child # e.child
    <3>1. Sound(fs) /\ Removal(fs, d, n, e, g)
      BY <1>1, <2>1 DEF e, g, Removal
    <3>2. QED
      BY <3>1, WithoutEntrySound
  <2>2. e.child \in InodeNumber
    BY <2>a DEF Exists
  <2>3. Sound(WithLessLinks(g, e.child)) /\ Keeps(g, WithLessLinks(g, e.child))
    BY <2>a, <2>2, LessLinksSound
  <2>4. fs' = g \/ fs' = WithLessLinks(g, e.child)
    BY <1>5, <2>1, <2>a DEF e, g
  <2>5. ASSUME NEW a, NEW b, NEW c, Sound(a), Sound(b), Sound(c), Keeps(a, b), Keeps(b, c)
        PROVE  Keeps(a, c)
    <3>1. \A i \in 1 .. a.allocated_inode_count : i \in 1 .. b.allocated_inode_count
      BY <2>5, InodeAssumption DEF Keeps, Sound, Volume, InodeNumber
    <3>2. a.allocated_inode_count <= c.allocated_inode_count
      BY <2>5, InodeAssumption DEF Keeps, Sound, Volume, InodeNumber
    <3>3. QED
      BY <2>5, <3>1, <3>2 DEF Keeps
  <2>6. Sound(fs') /\ Keeps(fs, fs')
    BY <1>1, <2>a, <2>3, <2>4, <2>5
  <2>7. HandlesInv'
    BY <1>5, <2>6, OldHandlesKept
  <2>8. QED
    BY <1>1, <1>5, <2>6, <2>7 DEF NamespaceInv
<1>6. ASSUME NEW d \in InodeNumber, NEW n \in Name, Unlink(d, n) \/ UnlinkFails(d, n)
      PROVE  NamespaceInv'
  BY <1>1, <1>5, <1>6 DEF Unlink, UnlinkFails, UnlinkStops, Fault
<1>7. ASSUME NEW d \in InodeNumber, NEW n \in Name, Lookup(d, n)
      PROVE  NamespaceInv'
  <2>1. Sound(fs') /\ Keeps(fs, fs')
    BY <1>1, <1>7, KeepsItself DEF Lookup
  <2>2. \E i \in InodeNumber : Exists(fs', i) /\ handles' = handles \cup {HandleOf(fs', i)}
    BY <1>7 DEF Lookup, Exists
  <2>3. HandlesInv'
    BY <2>1, <2>2, HandlesKept
  <2>4. QED
    BY <1>1, <1>7, <2>1, <2>3 DEF Lookup, NamespaceInv
<1>8. ASSUME NEW i \in InodeNumber, NEW offset \in Offset, WriteFileData(i, offset)
      PROVE  NamespaceInv'
  <2>1. fs \in Volume
    BY <1>1 DEF Sound
  <2>2. /\ fs'.inodes = fs.inodes /\ fs'.entries = fs.entries
        /\ fs'.extents = fs.extents \cup {<<i, offset>>}
        /\ fs'.allocated_inode_count = fs.allocated_inode_count
    BY <1>8, <2>1 DEF WriteFileData, Volume
  <2>3. fs' \in Volume
    BY <1>8, <2>1 DEF WriteFileData, Volume
  <2>4. Numbered(fs') /\ Linked(fs') /\ Resolves(fs') /\ NamesOnce(fs') /\ IsDir(fs', Root)
    <3>0. Numbered(fs) /\ Linked(fs) /\ Resolves(fs) /\ NamesOnce(fs) /\ IsDir(fs, Root)
      BY <1>1 DEF Sound
    <3>1. Numbered(fs')
      BY <3>0, <2>2 DEF Numbered
    <3>2. Linked(fs')
      BY <3>0, <2>2 DEF Linked
    <3>3. Resolves(fs')
      BY <3>0, <2>2 DEF Resolves, IsDir, Exists
    <3>4. NamesOnce(fs')
      BY <3>0, <2>2 DEF NamesOnce
    <3>5. IsDir(fs', Root)
      BY <3>0, <2>2 DEF IsDir, Exists
    <3>6. QED
      BY <3>1, <3>2, <3>3, <3>4, <3>5
  <2>5. OwnsExtents(fs')
    BY <1>1, <1>8, <2>2 DEF Sound, OwnsExtents, WriteFileData, IsFile, Exists
  <2>6. Keeps(fs, fs')
    BY <1>1, <2>2, KeepsItself DEF Keeps, Exists, IsDir
  <2>7. Sound(fs')
    BY <2>3, <2>4, <2>5 DEF Sound
  <2>8. HandlesInv'
    BY <1>8, <2>6, <2>7, OldHandlesKept DEF WriteFileData
  <2>9. QED
    BY <1>1, <1>8, <2>7, <2>8 DEF WriteFileData, NamespaceInv
<1>9. ASSUME Commit PROVE NamespaceInv'
  <2>1. HandlesInv'
    BY <1>1, <1>9, KeepsItself, OldHandlesKept DEF Commit
  <2>2. QED
    BY <1>1, <1>9, <2>1 DEF Commit, NamespaceInv
<1>10. ASSUME Crash PROVE NamespaceInv'
  <2>1. Sound(fs') /\ Root \in InodeNumber /\ Exists(fs', Root)
    BY <1>1, <1>10 DEF Crash, Sound, IsDir, Exists
  <2>2. /\ HandleOf(fs', Root) \in [number : InodeNumber, born : Nat, type : {"file", "dir"}]
        /\ HandleOf(fs', Root).number = Root
        /\ HandleOf(fs', Root).born = fs'.inodes[Root].born
        /\ HandleOf(fs', Root).type = "dir" <=> IsDir(fs', Root)
        /\ Root <= fs'.allocated_inode_count
    BY <2>1, HandleOfSound
  <2>3. handles' = {HandleOf(fs', Root)}
    BY <1>10 DEF Crash
  <2>4. HandlesInv'
    BY <2>2, <2>3 DEF HandlesInv, HandleHolds, IsDir, Exists
  <2>5. QED
    BY <1>1, <1>10, <2>1, <2>4 DEF Crash, NamespaceInv
<1>11. CASE UNCHANGED vars
  <2>1. HandlesInv'
    BY <1>1, <1>11, KeepsItself, OldHandlesKept DEF vars
  <2>2. QED
    BY <1>1, <1>11, <2>1 DEF vars, NamespaceInv
<1>12. QED
  BY <1>2, <1>3, <1>4, <1>6, <1>7, <1>8, <1>9, <1>10, <1>11 DEF Next

LEMMA InvAlways == Spec => []NamespaceInv
<1>1. QED
  BY InitInv, NextInv, PTL DEF Spec

\* The items of the inode tree and the handles have their types, whatever stops
\* half way.
THEOREM TypeCorrect == Spec => []TypeOK
<1>1. NamespaceInv => TypeOK
  BY DEF NamespaceInv, TypeOK, Sound, HandlesInv
<1>2. QED
  BY <1>1, InvAlways, PTL

\* Entries always name an existing inode of their type and lie in an existing
\* directory, mounted and committed, for every hash function and every way a
\* create or an unlink stops.
THEOREM EntriesAlwaysResolve == Spec => []EntriesResolve
<1>1. NamespaceInv => EntriesResolve
  BY DEF NamespaceInv, EntriesResolve, Sound
<1>2. QED
  BY <1>1, InvAlways, PTL

\* No inode ever has two names.
THEOREM AlwaysOneName == Spec => []OneName
<1>1. NamespaceInv => OneName
  BY DEF NamespaceInv, OneName, Sound
<1>2. QED
  BY <1>1, InvAlways, PTL

\* Every extent belongs to a file that exists.
THEOREM ExtentsAlwaysOwned == Spec => []ExtentsOwned
<1>1. NamespaceInv => ExtentsOwned
  BY DEF NamespaceInv, ExtentsOwned, Sound
<1>2. QED
  BY <1>1, InvAlways, PTL

\* A kernel inode keeps meaning the object it was handed out for, and the type
\* that inode_type and stat report through it is the one it had, except for a
\* directory whose inode cannot be read.
THEOREM HandlesAlwaysStable == Spec => []HandlesStable
<1>1. NamespaceInv => HandlesStable
  <2> SUFFICES ASSUME NamespaceInv, NEW h \in handles, NEW error \in BOOLEAN
               PROVE  /\ Exists(fs, h.number) => fs.inodes[h.number].born = h.born
                      /\ inode_type(fs, h.number, error) # h.type => error /\ h.type = "dir"
    BY DEF HandlesStable
  <2>1. h.type \in {"file", "dir"} /\ HandleHolds(h)
    BY DEF NamespaceInv, HandlesInv
  <2>2. QED
    BY <2>1 DEF HandleHolds, inode_type
<1>2. QED
  BY <1>1, InvAlways, PTL
---------------------------------------------------------------------------
\* xxhash64 separates the names in use.
NoCollision == \A m, n \in Name : Hash[m] = Hash[n] => m = n

\* Volumes with the same entries have the same names.
LEMMA SameNames == ASSUME NEW f, NEW g, g.entries = f.entries PROVE NamesOf(g) = NamesOf(f)
  BY DEF NamesOf, ChildOf, directory_lookup_entry

\* g has the entry e of n in d, and else the entries of f; and what that means for
\* the names.
EntryPut(f, d, n, e, g) == g.entries = [f.entries EXCEPT ![<<d, Hash[n]>>] = e]
NamePut(f, d, n, i, g) == NamesOf(g) = [NamesOf(f) EXCEPT ![<<d, n>>] = i]

\* Writing an entry changes one name.
LEMMA NamesAfterEntry ==
    ASSUME NoCollision, NEW f, f \in Volume, NEW g, NEW d \in InodeNumber, NEW n \in Name,
           NEW e \in DirEntry \cup {NoEntry},
           e # NoEntry => e.name = n, EntryPut(f, d, n, e, g)
    PROVE  NamePut(f, d, n, IF e = NoEntry THEN NoInode ELSE e.child, g)
<1> DEFINE new == [NamesOf(f) EXCEPT ![<<d, n>>] = IF e = NoEntry THEN NoInode ELSE e.child]
<1>0. g.entries = [f.entries EXCEPT ![<<d, Hash[n]>>] = e]
  BY DEF EntryPut
<1> USE <1>0
<1>1. /\ DOMAIN f.entries = Places
      /\ \A m \in Name : Hash[m] \in HashValue
  BY NameAssumption DEF Volume, Places
<1>2. \A p \in InodeNumber \X Name : p = <<p[1], p[2]>> /\ p[1] \in InodeNumber /\ p[2] \in Name
  OBVIOUS
<1>3. \A p \in InodeNumber \X Name : ChildOf(g, p[1], p[2]) = new[p]
  <2> SUFFICES ASSUME NEW c \in InodeNumber, NEW m \in Name
               PROVE  ChildOf(g, c, m) = new[<<c, m>>]
    BY <1>2
  <2>1. <<c, Hash[m]>> \in Places
    BY <1>1 DEF Places
  <2>2. new[<<c, m>>] = IF c = d /\ m = n THEN (IF e = NoEntry THEN NoInode ELSE e.child)
                        ELSE ChildOf(f, c, m)
    BY DEF NamesOf
  <2>3. CASE c = d /\ m = n
    <3>1. g.entries[<<c, Hash[m]>>] = e
      BY <1>1, <2>1, <2>3
    <3>2. QED
      BY <2>2, <2>3, <3>1 DEF ChildOf, directory_lookup_entry
  <2>4. CASE ~(c = d /\ m = n)
    <3>1. <<c, Hash[m]>> # <<d, Hash[n]>>
      BY <2>4 DEF NoCollision
    <3>2. g.entries[<<c, Hash[m]>>] = f.entries[<<c, Hash[m]>>]
      BY <1>1, <2>1, <3>1
    <3>3. QED
      BY <2>2, <2>4, <3>2 DEF ChildOf, directory_lookup_entry
  <2>5. QED
    BY <2>3, <2>4
<1>4. DOMAIN new = InodeNumber \X Name /\ new = [p \in InodeNumber \X Name |-> new[p]]
  BY DEF NamesOf
<1>5. NamesOf(g) = [p \in InodeNumber \X Name |-> new[p]]
  BY <1>3 DEF NamesOf
<1>6. QED
  BY <1>4, <1>5 DEF NamePut

\* Creating a name that is not refused binds it to a number without a name.
LEMMA CreateBinds ==
    ASSUME NoCollision, NamespaceInv, NEW d \in InodeNumber, NEW n \in Name,
           NEW type \in {"file", "dir"}, CanCreate(d), ~Refused(d, n),
           fs' = WithEntry(fs, d, n, type), saved' = saved
    PROVE  \E child \in InodeNumber : Names!Bind(d, n, child)
<1> DEFINE g == WithInode(fs, type)
           k == fs.allocated_inode_count + 1
           e == [name |-> n, child |-> k, type |-> type]
<1>1. /\ Sound(g) /\ g.allocated_inode_count = k /\ g.entries = fs.entries
      /\ \A p \in Places : fs.entries[p] # NoEntry => fs.entries[p].child # k
  BY WithInodeSound DEF NamespaceInv, CanCreate
<1>2. k \in InodeNumber /\ g \in Volume /\ k # NoInode /\ fs \in Volume
  BY <1>1, NothingAssumption, InodeAssumption DEF NamespaceInv, Sound, Volume
<1>3. e \in DirEntry /\ e # NoEntry /\ e.name = n /\ e.child = k
  BY <1>2, AbsentAssumption DEF DirEntry
<1>4. fs'.entries = [fs.entries EXCEPT ![<<d, Hash[n]>>] = e]
  BY <1>1, <1>2 DEF WithEntry, Volume
<1> HIDE DEF g, k, e
<1>5. NamesOf(fs') = [NamesOf(fs) EXCEPT ![<<d, n>>] = k]
  <2>1. EntryPut(fs, d, n, e, fs') /\ e \in DirEntry \cup {NoEntry}
    BY <1>3, <1>4 DEF EntryPut
  <2>2. NamePut(fs, d, n, IF e = NoEntry THEN NoInode ELSE e.child, fs')
    BY <1>2, <1>3, <2>1, NamesAfterEntry
  <2>3. QED
    BY <1>3, <2>2 DEF NamePut
<1>6. NamesOf(fs)[<<d, n>>] = NoInode
  BY DEF NamesOf, ChildOf, Refused
<1>7. ASSUME NEW c \in InodeNumber, NEW m \in Name PROVE NamesOf(fs)[<<c, m>>] # k
  <2>1. <<c, Hash[m]>> \in Places
    BY NameAssumption DEF Places
  <2>2. QED
    BY <1>1, <1>2, <2>1 DEF NamesOf, ChildOf, directory_lookup_entry
<1>8. \A p \in InodeNumber \X Name : NamesOf(fs)[p] # k
  BY <1>7
<1>9. Names!Bind(d, n, k)
  BY <1>5, <1>6, <1>8 DEF Names!Bind
<1>10. QED
  BY <1>2, <1>9

\* Seen through lookups the directories implement NameMap: every call binds or
\* frees one name or changes none, a commit saves the map and a crash restores
\* it, as long as no two names share a hash.
THEOREM NamesRefine == ASSUME NoCollision PROVE Spec => RefinesNameMap
<1>1. Init => Names!MapInit
  <2> SUFFICES ASSUME Init PROVE Names!MapInit
    OBVIOUS
  <2>1. \A p \in Places : fs.entries[p] = NoEntry
    BY DEF Init, Formatted, Places
  <2>2. ASSUME NEW d \in InodeNumber, NEW n \in Name PROVE ChildOf(fs, d, n) = NoInode
    <3>1. <<d, Hash[n]>> \in Places
      BY NameAssumption DEF Places
    <3>2. QED
      BY <2>1, <3>1 DEF ChildOf, directory_lookup_entry
  <2>3. NamesOf(fs) = [p \in InodeNumber \X Name |-> NoInode]
    BY <2>2 DEF NamesOf
  <2>4. QED
    BY <2>3 DEF Init, Names!MapInit
<1>2. ASSUME NamespaceInv, [Next]_vars PROVE [Names!MapNext]_(Names!mapVars)
  <2>1. ASSUME fs'.entries = fs.entries, saved' = saved
        PROVE  [Names!MapNext]_(Names!mapVars)
    BY <2>1, SameNames DEF Names!mapVars
  <2>2. Sound(fs) /\ births \in Nat /\ fs \in Volume
    BY <1>2 DEF NamespaceInv, Sound
  <2>3. ASSUME NEW d \in InodeNumber, NEW n \in Name, NEW type \in {"file", "dir"},
               \/ Create(d, n, type)
               \/ CreateRefused(d, n, type)
               \/ CreateFails(d, n, type)
        PROVE  [Names!MapNext]_(Names!mapVars)
    <3>1. CanCreate(d) /\ saved' = saved
      BY <2>3 DEF Create, CreateRefused, CreateFails
    <3>2. CASE fs' = WithNumber(fs)
      BY <2>1, <2>2, <3>1, <3>2 DEF WithNumber, Volume
    <3>3. CASE fs' = WithInode(fs, type)
      BY <2>1, <2>2, <3>1, <3>3, WithInodeSound DEF CanCreate
    <3>4. CASE ~Refused(d, n) /\ fs' = WithEntry(fs, d, n, type)
      BY <1>2, <3>1, <3>4, CreateBinds DEF Names!MapNext
    <3>5. QED
      BY <2>3, <3>2, <3>3, <3>4 DEF Create, CreateRefused, CreateFails
  <2>4. ASSUME NEW d \in InodeNumber, NEW n \in Name, Unlink(d, n) \/ UnlinkFails(d, n)
        PROVE  [Names!MapNext]_(Names!mapVars)
    <3> DEFINE g == WithoutEntry(fs, d, n)
               i == directory_lookup_entry(fs, d, n).child
    <3>1. CanUnlink(d, n) /\ saved' = saved
          /\ (fs' = g \/ fs' = WithLessLinks(g, i))
      BY <2>4 DEF Unlink, UnlinkFails, UnlinkStops
    <3>2. fs.entries[<<d, Hash[n]>>] # NoEntry
      BY <3>1 DEF CanUnlink, directory_lookup_entry
    <3>3. g \in Volume
      <4>1. Removal(fs, d, n, fs.entries[<<d, Hash[n]>>], g)
        BY <3>2 DEF Removal
      <4>2. Sound(g)
        BY <2>2, <4>1, WithoutEntrySound
      <4>3. QED
        BY <4>2 DEF Sound
    <3>4. g.entries = [fs.entries EXCEPT ![<<d, Hash[n]>>] = NoEntry]
      BY <2>2 DEF WithoutEntry, Volume
    <3> HIDE DEF g, i
    <3>5. WithLessLinks(g, i).entries = g.entries
      BY <3>3 DEF WithLessLinks, Volume
    <3>6. NamesOf(fs') = [NamesOf(fs) EXCEPT ![<<d, n>>] = NoInode]
      <4>1. EntryPut(fs, d, n, NoEntry, fs')
        BY <3>1, <3>4, <3>5 DEF EntryPut
      <4>2. fs \in Volume /\ NoEntry \in DirEntry \cup {NoEntry}
        BY <2>2
      <4>3. NamePut(fs, d, n, IF NoEntry = NoEntry THEN NoInode ELSE NoEntry.child, fs')
        BY <4>1, <4>2, NamesAfterEntry
      <4>4. QED
        BY <4>3 DEF NamePut
    <3>7. NamesOf(fs)[<<d, n>>] # NoInode
      <4>1. <<d, Hash[n]>> \in Places
        BY NameAssumption DEF Places
      <4>2. fs.entries[<<d, Hash[n]>>].child \in InodeNumber
        BY <2>2, <3>2, <4>1 DEF Sound, Resolves, Exists, Places
      <4>3. QED
        BY <3>1, <4>2, NothingAssumption
           DEF NamesOf, ChildOf, CanUnlink, directory_lookup_entry
    <3>8. Names!Unbind(d, n)
      BY <3>1, <3>6, <3>7 DEF Names!Unbind
    <3>9. QED
      BY <3>8 DEF Names!MapNext
  <2>5. ASSUME NEW d \in InodeNumber, NEW n \in Name, Lookup(d, n)
        PROVE  [Names!MapNext]_(Names!mapVars)
    BY <2>1, <2>5 DEF Lookup
  <2>6. ASSUME NEW i \in InodeNumber, NEW offset \in Offset, WriteFileData(i, offset)
        PROVE  [Names!MapNext]_(Names!mapVars)
    BY <2>1, <2>2, <2>6 DEF WriteFileData, Volume
  <2>7. CASE Commit
    BY <2>7 DEF Commit, Names!MapNext, Names!Save
  <2>8. CASE Crash
    BY <2>8 DEF Crash, Names!MapNext, Names!Revert
  <2>9. CASE UNCHANGED vars
    BY <2>1, <2>9 DEF vars
  <2>10. QED
    BY <1>2, <2>3, <2>4, <2>5, <2>6, <2>7, <2>8, <2>9 DEF Next
<1>3. NamespaceInv /\ [Next]_vars => [Names!MapNext]_(Names!mapVars)
  BY <1>2
<1>4. QED
  BY <1>1, <1>3, InvAlways, PTL DEF Spec, RefinesNameMap, Names!MapSpec
===========================================================================
