----------------------------- MODULE OspfsStore -----------------------------
(***************************************************************************)
(* OSPFS is a file store: the proof that every call of Ospfs, seen through *)
(* the names and sizes of files only, is a step of FileStore.              *)
(***************************************************************************)
EXTENDS OspfsProofs

Paths == DirInodes \X Names
Files == 2..(NINODES - 1)

-----------------------------------------------------------------------------
(* Steps of the file store *)

(* names and sizes stay *)
LEMMA QuietStep ==
  ASSUME FileOf(disk)' = FileOf(disk), SizeOf(disk)' = SizeOf(disk)
  PROVE  Users!Next
<1>1. Failed' \in BOOLEAN
  BY DEF Failed
<1> QED
  BY <1>1 DEF Users!Next

(* a new name for a file that had none: its size comes with it *)
LEMMA CreateStep ==
  ASSUME ~Failed', NEW p \in Paths, NEW z \in Files, FileOf(disk)[p] = 0,
         \A q \in Paths : FileOf(disk)[q] # z,
         FileOf(disk)' = [FileOf(disk) EXCEPT ![p] = z], FileOf(disk)'[p] = z,
         SizeOf(disk)' = [SizeOf(disk) EXCEPT ![z] = SizeOf(disk)'[z]]
  PROVE  Users!Next
<1>1. Users!Create(p, z)
  BY DEF Users!Create, Users!Named, Paths
<1> QED
  BY <1>1 DEF Users!Next, Paths, Files

(* a new name for a file that had one *)
LEMMA LinkStep ==
  ASSUME ~Failed', NEW p \in Paths, NEW z \in Files, FileOf(disk)[p] = 0,
         NEW q \in Paths, FileOf(disk)[q] = z,
         FileOf(disk)' = [FileOf(disk) EXCEPT ![p] = z], FileOf(disk)'[p] = z,
         SizeOf(disk)' = SizeOf(disk)
  PROVE  Users!Next
BY DEF Users!Next, Users!Link, Users!Named, Paths, Files

(* a name less *)
LEMMA UnlinkStep ==
  ASSUME ~Failed', NEW p \in Paths, FileOf(disk)[p] # 0,
         FileOf(disk)' = [FileOf(disk) EXCEPT ![p] = 0], FileOf(disk)'[p] = 0,
         SizeOf(disk)' = IF \E q \in Paths \ {p} : FileOf(disk)[q] = FileOf(disk)[p]
                         THEN SizeOf(disk) ELSE [SizeOf(disk) EXCEPT ![FileOf(disk)[p]] = 0]
  PROVE  Users!Next
BY DEF Users!Next, Users!Unlink, Paths, Files

(* a file that has a name gets another size *)
LEMMA ResizeStep ==
  ASSUME ~Failed', NEW z \in Files, NEW p \in Paths, FileOf(disk)[p] = z,
         FileOf(disk)' = FileOf(disk),
         SizeOf(disk)' = [SizeOf(disk) EXCEPT ![z] = SizeOf(disk)'[z]]
  PROVE  Users!Next
<1>1. CASE SizeOf(disk)'[z] = SizeOf(disk)[z]
  <2>1. SizeOf(disk) = [i \in Files |-> SizeOf(disk)[i]]
    BY DEF SizeOf, Files
  <2>2. SizeOf(disk)' = SizeOf(disk)
    BY <1>1, <2>1
  <2> QED
    BY <2>2, QuietStep
<1>2. CASE SizeOf(disk)'[z] # SizeOf(disk)[z]
  BY <1>2 DEF Users!Next, Users!Resize, Users!Named, Paths, Files
<1> QED
  BY <1>1, <1>2

-----------------------------------------------------------------------------
(* Names and sizes of an image *)

(* file i has a name, or one other than p *)
HasName(F, i) == \E p \in Paths : F[p] = i
NameBut(F, p, i) == \E q \in Paths \ {p} : F[q] = i

(* The file behind each path. *)
LEMMA FileIs ==
  ASSUME NEW d
  PROVE  /\ \A dir \in Directories(d), n \in Names : FileOf(d)[<<dir, n>>] = Lookup(d, dir, n)
         /\ \A dir \in DirInodes \ Directories(d), n \in Names : FileOf(d)[<<dir, n>>] = 0
         /\ Directories(d) \subseteq DirInodes
BY DEF FileOf, Directories

(* Paths that lead to the same files. *)
LEMMA FilesEqual ==
  ASSUME NEW d, NEW e,
         \A dir \in DirInodes, n \in Names : FileOf(e)[<<dir, n>>] = FileOf(d)[<<dir, n>>]
  PROVE  FileOf(e) = FileOf(d)
<1>1. /\ FileOf(d) = [p \in Paths |-> FileOf(d)[p]]
      /\ FileOf(e) = [p \in Paths |-> FileOf(e)[p]]
  BY DEF FileOf, Paths
<1>2. \A p \in Paths : FileOf(e)[p] = FileOf(d)[p]
  BY DEF Paths
<1> QED
  BY <1>1, <1>2

(* paths other than one lead to the same files *)
Elsewhere(d, e, dir, name) ==
  \A D \in DirInodes, n \in Names :
    ~(D = dir /\ n = name) => FileOf(e)[<<D, n>>] = FileOf(d)[<<D, n>>]

(* All paths but one lead to the same files. *)
LEMMA FilesExcept ==
  ASSUME NEW d, NEW e, NEW dir \in DirInodes, NEW name \in Names, NEW z,
         FileOf(e)[<<dir, name>>] = z, Elsewhere(d, e, dir, name)
  PROVE  FileOf(e) = [FileOf(d) EXCEPT ![<<dir, name>>] = z]
<1>1. /\ FileOf(d) = [p \in Paths |-> FileOf(d)[p]]
      /\ FileOf(e) = [p \in Paths |-> FileOf(e)[p]]
  BY DEF FileOf, Paths
<1> DEFINE q == <<dir, name>>
<1>2. \A p \in Paths : p # q => FileOf(e)[p] = FileOf(d)[p]
  BY DEF Paths, Elsewhere
<1>3. q \in Paths /\ FileOf(e)[q] = z
  BY DEF Paths
<1> HIDE DEF q
<1>4. [FileOf(d) EXCEPT ![q] = z] = [p \in Paths |-> FileOf(e)[p]]
  BY <1>1, <1>2, <1>3
<1> QED
  BY <1>1, <1>4 DEF q

(* The search for a name ends at the same inode if it finds the same offsets
   and reads the same there. *)
LEMMA LookupSame ==
  ASSUME NEW d, NEW e, NEW dir, NEW n, d.inode[dir].size \in Nat, e.inode[dir].size \in Nat,
         \A o : o \in Found(e, dir, n) <=> o \in Found(d, dir, n),
         \A o \in Found(d, dir, n) : EntryAt(e, dir, o) = EntryAt(d, dir, o)
  PROVE  Lookup(e, dir, n) = Lookup(d, dir, n)
<1>1. Found(e, dir, n) = Found(d, dir, n)
  OBVIOUS
<1>2. /\ find_direntry(d, dir, n) = IF Found(d, dir, n) = {} THEN -1 ELSE Min(Found(d, dir, n))
      /\ find_direntry(e, dir, n) = IF Found(e, dir, n) = {} THEN -1 ELSE Min(Found(e, dir, n))
  BY DEF find_direntry, Found
<1>3. find_direntry(e, dir, n) = find_direntry(d, dir, n)
  BY <1>1, <1>2
<1>4. CASE Found(d, dir, n) = {}
  BY <1>1, <1>4, FindIs
<1>5. CASE Found(d, dir, n) # {}
  <2>1. /\ find_direntry(d, dir, n) \in Found(d, dir, n)
        /\ Lookup(d, dir, n) = EntryAt(d, dir, find_direntry(d, dir, n)).ino
    BY <1>5, FindIs
  <2>2. Lookup(e, dir, n) = EntryAt(e, dir, find_direntry(e, dir, n)).ino
    BY <1>1, <1>5, FindIs
  <2> QED
    BY <1>3, <2>1, <2>2
<1> QED
  BY <1>4, <1>5

(* A name in a directory is found at its only offset. *)
LEMMA OneOffset ==
  ASSUME NEW d, WellFormed(d), NEW dir \in Directories(d), NEW n, NEW o \in Found(d, dir, n)
  PROVE  /\ \A q \in Found(d, dir, n) : q = o
         /\ n \in Names /\ find_direntry(d, dir, n) = o
         /\ Lookup(d, dir, n) = EntryAt(d, dir, o).ino /\ Lookup(d, dir, n) # ROOT_INO
<1>1. DistinctNames(d) /\ d.inode[dir].size \in Nat
  BY DirIs DEF WellFormed
<1>2. \A q \in Found(d, dir, n) : q = o
  BY <1>1 DEF DistinctNames, Found
<1>3. n \in Names /\ EntryAt(d, dir, o).ino # ROOT_INO
  BY <1>1 DEF DistinctNames, Found
<1>4. /\ find_direntry(d, dir, n) \in Found(d, dir, n)
      /\ Lookup(d, dir, n) = EntryAt(d, dir, find_direntry(d, dir, n)).ino
  BY <1>1, FindIs
<1> QED
  BY <1>2, <1>3, <1>4

(* The files that have a name are those with an entry. *)
LEMMA NamedIs ==
  ASSUME NEW d, WellFormed(d), NEW z \in Files
  PROVE  EntriesOf(d, z) # {} <=> HasName(FileOf(d), z)
<1>1. z # 0 /\ z > 0
  BY DEF Files
<1>2. ASSUME EntriesOf(d, z) # {} PROVE HasName(FileOf(d), z)
  <2>0. PICK dir \in Directories(d) : \E off \in Offsets(d, dir) : EntryAt(d, dir, off).ino = z
    BY <1>2, EntriesAre
  <2>1. PICK off \in Offsets(d, dir) : EntryAt(d, dir, off).ino = z
    BY <2>0
  <2> DEFINE n == EntryAt(d, dir, off).name
  <2>2. off \in Found(d, dir, n)
    BY <1>1, <2>1 DEF Found
  <2> HIDE DEF n
  <2>3. n \in Names /\ Lookup(d, dir, n) = z
    BY <2>1, <2>2, OneOffset
  <2>4. <<dir, n>> \in Paths /\ FileOf(d)[<<dir, n>>] = z
    BY <2>3, FileIs DEF Paths
  <2> QED
    BY <2>4 DEF HasName
<1>3. ASSUME HasName(FileOf(d), z) PROVE EntriesOf(d, z) # {}
  <2>1. PICK dir \in DirInodes, n \in Names : FileOf(d)[<<dir, n>>] = z
    BY <1>3 DEF HasName, Paths
  <2>2. dir \in Directories(d) /\ Lookup(d, dir, n) = z
    BY <1>1, <2>1, FileIs
  <2> QED
    BY <1>1, <2>2, LookupIs
<1> QED
  BY <1>2, <1>3

(* The size of a file that has a name. *)
LEMMA SizeIs ==
  ASSUME NEW d, WellFormed(d), NEW i \in Files
  PROVE  SizeOf(d)[i] = IF HasName(FileOf(d), i) /\ d.inode[i].ftype # "DIR"
                        THEN d.inode[i].size ELSE 0
<1>1. SizeOf(d)[i] = IF EntriesOf(d, i) = {} \/ d.inode[i].ftype = "DIR"
                     THEN 0 ELSE d.inode[i].size
  BY DEF SizeOf, Files
<1> QED
  BY <1>1, NamedIs

(* The names and sizes of an image have their types. *)
LEMMA StoreTypes ==
  ASSUME NEW d, WellFormed(d)
  PROVE  FileOf(d) \in [Paths -> Files \cup {0}] /\ SizeOf(d) \in [Files -> Nat]
<1>1. ASSUME NEW dir \in DirInodes, NEW n \in Names
      PROVE  FileOf(d)[<<dir, n>>] \in Files \cup {0}
  <2>1. CASE dir \in Directories(d) /\ Lookup(d, dir, n) # 0
    <3>1. /\ Lookup(d, dir, n) \in Inodes \ {0}
          /\ find_direntry(d, dir, n) \in Found(d, dir, n)
      BY <2>1, LookupIs
    <3>2. Lookup(d, dir, n) # ROOT_INO
      BY <2>1, <3>1, OneOffset
    <3>3. FileOf(d)[<<dir, n>>] = Lookup(d, dir, n)
      BY <2>1, FileIs
    <3> QED
      BY <3>1, <3>2, <3>3, OspfsAssumption DEF Inodes, ROOT_INO, Files
  <2>2. CASE ~(dir \in Directories(d) /\ Lookup(d, dir, n) # 0)
    BY <2>2, FileIs
  <2> QED
    BY <2>1, <2>2
<1>2. \A p \in Paths : FileOf(d)[p] \in Files \cup {0}
  BY <1>1 DEF Paths
<1>3. FileOf(d) = [p \in Paths |-> FileOf(d)[p]] /\ SizeOf(d) = [i \in Files |-> SizeOf(d)[i]]
  BY DEF FileOf, SizeOf, Paths, Files
<1>4. \A i \in Files : SizeOf(d)[i] \in Nat
  <2>1. \A i \in Files : d.inode[i].size \in Nat
    BY OspfsAssumption DEF WellFormed, Files, Inodes
  <2> QED
    BY <2>1, SizeIs
<1> QED
  BY <1>2, <1>3, <1>4

-----------------------------------------------------------------------------
(* How calls change names and sizes *)

(* Blank entries lead nowhere. *)
LEMMA SameFiles ==
  ASSUME NEW d, NEW e, SameNames(d, e)
  PROVE  FileOf(e) = FileOf(d)
<1>1. Directories(e) = Directories(d)
  BY DEF SameNames
<1>2. ASSUME NEW dir \in DirInodes, NEW n \in Names
      PROVE  FileOf(e)[<<dir, n>>] = FileOf(d)[<<dir, n>>]
  <2>1. dir \in Directories(d) => Lookup(e, dir, n) = Lookup(d, dir, n)
    BY NamesSame
  <2> QED
    BY <1>1, <2>1, FileIs
<1> QED
  BY <1>2, FilesEqual

(* every file but z keeps whether it has a name, its kind and its size *)
SameSizes(d, e, z) ==
  \A i \in Files \ {z} :
    /\ HasName(FileOf(e), i) <=> HasName(FileOf(d), i)
    /\ e.inode[i].ftype = d.inode[i].ftype
    /\ d.inode[i].ftype # "DIR" => e.inode[i].size = d.inode[i].size

(* Then no other size changes. *)
LEMMA SizesExcept ==
  ASSUME NEW d, WellFormed(d), NEW e, WellFormed(e), NEW z, SameSizes(d, e, z)
  PROVE  SizeOf(e) = [SizeOf(d) EXCEPT ![z] = SizeOf(e)[z]]
<1>1. /\ SizeOf(d) = [i \in Files |-> SizeOf(d)[i]]
      /\ SizeOf(e) = [i \in Files |-> SizeOf(e)[i]]
  BY DEF SizeOf, Files
<1>2. ASSUME NEW i \in Files, i # z PROVE SizeOf(e)[i] = SizeOf(d)[i]
  BY <1>2, SizeIs DEF SameSizes
<1> QED
  BY <1>1, <1>2

(* And none at all, if z keeps its size too. *)
LEMMA SizesEqual ==
  ASSUME NEW d, WellFormed(d), NEW e, WellFormed(e), NEW z, SameSizes(d, e, z),
         z \in Files => SizeOf(e)[z] = SizeOf(d)[z]
  PROVE  SizeOf(e) = SizeOf(d)
<1>1. /\ SizeOf(d) = [i \in Files |-> SizeOf(d)[i]]
      /\ SizeOf(e) = [i \in Files |-> SizeOf(e)[i]]
  BY DEF SizeOf, Files
<1>2. SizeOf(e) = [SizeOf(d) EXCEPT ![z] = SizeOf(e)[z]]
  BY SizesExcept
<1> QED
  BY <1>1, <1>2

(* Blocks given and taken, and an inode set up, change at most the size of
   that inode. *)
LEMMA KeepsSizes ==
  ASSUME NEW d, NEW e, NEW z, Keeps(d, e, z)
  PROVE  FileOf(e) = FileOf(d) /\ SameSizes(d, e, z)
<1>1. FileOf(e) = FileOf(d)
  BY SameFiles DEF Keeps
<1>2. Files \subseteq Inodes
  BY OspfsAssumption DEF Files, Inodes
<1> QED
  BY <1>1, <1>2 DEF SameSizes, Keeps

(* Nothing that users see changes if z has no name. *)
LEMMA KeepsAll ==
  ASSUME NEW d, WellFormed(d), NEW e, NEW z, Keeps(d, e, z), ~(z \in Files /\ HasName(FileOf(d), z))
  PROVE  FileOf(e) = FileOf(d) /\ SizeOf(e) = SizeOf(d)
<1>1. FileOf(e) = FileOf(d) /\ SameSizes(d, e, z) /\ WellFormed(e)
  BY KeepsSizes DEF Keeps
<1>2. z \in Files => SizeOf(e)[z] = SizeOf(d)[z]
  BY <1>1, SizeIs
<1> QED
  BY <1>1, <1>2, SizesEqual

(* An entry set: the other names lead where they led if the old entry was blank
   or had the same name. *)
LEMMA OtherNames ==
  ASSUME NEW d, NEW e, NEW dir \in Directories(d), NEW off, NEW x, NEW name,
         NamesBut(d, e, dir, off, x),
         EntryAt(d, dir, off).ino = 0 \/ EntryAt(d, dir, off).name = name,
         x.ino = 0 \/ x.name = name
  PROVE  Elsewhere(d, e, dir, name)
<1>1. Directories(e) = Directories(d)
  BY DEF NamesBut
<1>2. ASSUME NEW D \in Directories(d), NEW n \in Names, ~(D = dir /\ n = name)
      PROVE  Lookup(e, D, n) = Lookup(d, D, n)
  <2>1. /\ e.inode[D].size = d.inode[D].size /\ d.inode[D].size \in Nat
        /\ \A o \in Offsets(d, D) :
             EntryAt(e, D, o) = IF D = dir /\ o = off THEN x ELSE EntryAt(d, D, o)
    BY DEF NamesBut
  <2>2. Offsets(e, D) = Offsets(d, D)
    BY <2>1 DEF Offsets
  <2>3. ASSUME NEW o \in Offsets(d, D), D = dir, o = off
        PROVE  o \notin Found(e, D, n) /\ o \notin Found(d, D, n)
    BY <1>2, <2>1, <2>3 DEF Found
  <2>4. ASSUME NEW o \in Offsets(d, D), ~(D = dir /\ o = off)
        PROVE  /\ o \in Found(e, D, n) <=> o \in Found(d, D, n)
               /\ EntryAt(e, D, o) = EntryAt(d, D, o)
    BY <2>1, <2>2, <2>4 DEF Found
  <2>5. \A o : o \in Found(e, D, n) \/ o \in Found(d, D, n) => o \in Offsets(d, D)
    BY <2>2 DEF Found
  <2>6. \A o : o \in Found(e, D, n) <=> o \in Found(d, D, n)
    BY <2>3, <2>4, <2>5
  <2>7. \A o \in Found(d, D, n) : EntryAt(e, D, o) = EntryAt(d, D, o)
    BY <2>3, <2>4, <2>5
  <2> QED
    BY <2>1, <2>6, <2>7, LookupSame
<1> QED
  BY <1>1, <1>2, FileIs DEF Elsewhere

(* A name entered in a blank entry. *)
LEMMA BindIs ==
  ASSUME NEW g, WellFormed(g), NEW f, WellFormed(f), NEW dir \in Directories(g),
         NEW name \in Names, NEW off \in Offsets(g, dir), EntryAt(g, dir, off).ino = 0,
         NEW z \in Files, NEW m,
         EntrySet(g, f, dir, off, [name |-> name, ino |-> z], z, m)
  PROVE  FileOf(f) = [FileOf(g) EXCEPT ![<<dir, name>>] = z]
<1> DEFINE x == [name |-> name, ino |-> z]
<1>1. x.ino = z /\ x.name = name /\ z > 0
  BY DEF Files
<1>2. NamesBut(g, f, dir, off, x)
  BY EntrySetNames
<1> HIDE DEF x
<1>3. Elsewhere(g, f, dir, name)
  <2>1. /\ EntryAt(g, dir, off).ino = 0 \/ EntryAt(g, dir, off).name = name
        /\ x.ino = 0 \/ x.name = name
    BY <1>1
  <2> QED
    BY <1>2, <2>1, OtherNames
<1>4. /\ dir \in Directories(f) /\ f.inode[dir].size = g.inode[dir].size
      /\ EntryAt(f, dir, off) = x
  BY <1>2 DEF NamesBut
<1>5. off \in Found(f, dir, name)
  BY <1>1, <1>4 DEF Found, Offsets
<1>6. Lookup(f, dir, name) = z
  BY <1>1, <1>4, <1>5, OneOffset
<1>7. dir \in DirInodes /\ FileOf(f)[<<dir, name>>] = z
  BY <1>4, <1>6, FileIs
<1> QED
  BY <1>3, <1>7, FilesExcept

(* A name whose entry is blanked. *)
LEMMA UnbindIs ==
  ASSUME NEW d, WellFormed(d), NEW e, WellFormed(e), NEW dir \in Directories(d),
         NEW name \in Names, Lookup(d, dir, name) # 0, NEW x, x.ino = 0, NEW z, NEW m,
         EntrySet(d, e, dir, find_direntry(d, dir, name), x, z, m)
  PROVE  FileOf(e) = [FileOf(d) EXCEPT ![<<dir, name>>] = 0]
<1> DEFINE off == find_direntry(d, dir, name)
<1>1. off \in Found(d, dir, name) /\ off \in Offsets(d, dir)
  BY LookupIs
<1>2. EntryAt(d, dir, off).name = name
  BY <1>1 DEF Found
<1>3. NamesBut(d, e, dir, off, x)
  BY <1>1, EntrySetNames
<1> HIDE DEF off
<1>4. Elsewhere(d, e, dir, name)
  BY <1>2, <1>3, OtherNames
<1>5. Directories(e) = Directories(d) /\ EntryAt(e, dir, off) = x /\ e.inode[dir].size \in Nat
  BY <1>1, <1>3 DEF NamesBut
<1>6. Found(e, dir, name) \subseteq Found(d, dir, name)
  <2>1. ~(dir = dir /\ x.name = name /\ x.ino > 0)
    OBVIOUS
  <2> QED
    BY <1>1, <1>3, <2>1, NamesButAre
<1>7. Found(e, dir, name) = {}
  <2>1. off \notin Found(e, dir, name)
    BY <1>5 DEF Found
  <2>2. \A q \in Found(d, dir, name) : q = off
    BY <1>1, OneOffset
  <2> QED
    BY <1>6, <2>1, <2>2
<1>8. Lookup(e, dir, name) = 0
  BY <1>5, <1>7, FindIs
<1>9. dir \in DirInodes /\ FileOf(e)[<<dir, name>>] = 0
  BY <1>5, <1>8, FileIs
<1> QED
  BY <1>4, <1>9, FilesExcept

(* What has a name after one path is bound to z. *)
LEMMA RenamedIs ==
  ASSUME NEW F, NEW G, NEW p \in Paths, NEW z, F \in [Paths -> Files \cup {0}],
         G = [F EXCEPT ![p] = z]
  PROVE  /\ \A i \in Files : i # z /\ i # F[p] => (HasName(G, i) <=> HasName(F, i))
         /\ HasName(G, z) /\ HasName(F, F[p]) /\ G[p] = z
         /\ \A i \in Files : i # z => (HasName(G, i) <=> NameBut(F, p, i))
BY DEF HasName, NameBut

(* A new name: one path is bound, and the other files keep their sizes. *)
LEMMA BoundIs ==
  ASSUME NEW d, WellFormed(d), NEW dir \in Directories(d), NEW name \in Names,
         Lookup(d, dir, name) = 0, NEW z \in Files, NEW y \in {0, z}, NEW f,
         Bound(d, f, dir, name, z, y)
  PROVE  /\ FileOf(f) = [FileOf(d) EXCEPT ![<<dir, name>>] = z]
         /\ SameSizes(d, f, z) /\ WellFormed(f)
         /\ y # z => f.inode[z].ftype = d.inode[z].ftype
         /\ y # z /\ d.inode[z].ftype # "DIR" => f.inode[z].size = d.inode[z].size
<1> DEFINE p == <<dir, name>>
<1>1. PICK g, off, m :
        /\ Keeps(d, g, y) /\ off \in Offsets(g, dir) /\ EntryAt(g, dir, off).ino = 0
        /\ EntrySet(g, f, dir, off, [name |-> name, ino |-> z], z, m)
  BY DEF Bound
<1>2. WellFormed(f) /\ WellFormed(g) /\ SameNames(d, g)
  BY <1>1 DEF Bound, Keeps
<1>3. dir \in Directories(g)
  BY <1>2 DEF SameNames
<1>4. FileOf(f) = [FileOf(g) EXCEPT ![p] = z]
  BY <1>1, <1>2, <1>3, BindIs
<1>5. FileOf(g) = FileOf(d)
  BY <1>2, SameFiles
<1>6. Files \subseteq Inodes /\ 0 \notin Files
  BY OspfsAssumption DEF Files, Inodes
<1>7. ASSUME NEW i \in Files, i # y
      PROVE  /\ f.inode[i].ftype = d.inode[i].ftype
             /\ d.inode[i].ftype # "DIR" => f.inode[i].size = d.inode[i].size
  <2>1. f.inode[i].ftype = g.inode[i].ftype /\ f.inode[i].size = g.inode[i].size
    BY <1>1, <1>6 DEF EntrySet
  <2> QED
    BY <1>1, <1>6, <1>7, <2>1 DEF Keeps
<1>8. p \in Paths /\ FileOf(d)[p] = 0
  BY FileIs DEF Paths
<1>9. FileOf(d) \in [Paths -> Files \cup {0}]
  BY StoreTypes
<1> HIDE DEF p
<1>10. FileOf(f) = [FileOf(d) EXCEPT ![p] = z]
  BY <1>4, <1>5
<1>11. ASSUME NEW i \in Files, i # z PROVE HasName(FileOf(f), i) <=> HasName(FileOf(d), i)
  <2>1. \A j \in Files : j # z /\ j # FileOf(d)[p] =>
                            (HasName(FileOf(f), j) <=> HasName(FileOf(d), j))
    BY <1>8, <1>9, <1>10, RenamedIs
  <2>2. i # FileOf(d)[p]
    BY <1>6, <1>8
  <2> QED
    BY <1>11, <2>1, <2>2
<1>12. SameSizes(d, f, z)
  BY <1>6, <1>7, <1>11 DEF SameSizes
<1> QED
  BY <1>2, <1>6, <1>7, <1>10, <1>12 DEF p

-----------------------------------------------------------------------------
(* Calls *)

(* A call that leaves names and sizes alone. *)
LEMMA QuietCall ==
  ASSUME NEW d, disk' = d, FileOf(d) = FileOf(disk), SizeOf(d) = SizeOf(disk)
  PROVE  Users!Next
BY QuietStep

(* ospfs_create and ospfs_symlink bind one path to a file that had no name, or
   fail without a trace of it. *)
LEMMA MakeStore ==
  ASSUME Sound, NEW dir \in Directories(disk), NEW name \in Names, Asks(dir, name)
  PROVE  Users!Next
<1>1. WellFormed(disk)
  BY DEF Sound
<1>2. PICK ino, oi : NewFile(dir, name, ino, oi) /\ (ino # 0 => Ready(ino, oi))
  BY DEF Asks
<1>3. CASE Lookup(disk, dir, name) # 0 \/ ino = 0
  <2>1. disk' = disk
    BY <1>2, <1>3 DEF NewFile, Done
  <2> QED
    BY <2>1, QuietCall
<1>4. CASE Lookup(disk, dir, name) = 0 /\ ino # 0
  <2>1. Makes(dir, name, ino)
    BY <1>2, <1>4, NewFileIs DEF Asks
  <2>2. /\ ino \in Files
        /\ Prepared(disk, [disk EXCEPT !.inode[ino] = oi], ino, oi)
    BY <1>2, <1>4 DEF Ready, Files
  <2>3. EntriesOf(disk, ino) = {}
    <3> DEFINE e == [disk EXCEPT !.inode[ino] = oi]
    <3>1. SameNames(disk, e) /\ EntriesOf(e, ino) = {}
      BY <2>2 DEF Prepared
    <3> HIDE DEF e
    <3>2. ino \in Inodes \ {0}
      BY <2>2, OspfsAssumption DEF Files, Inodes
    <3> QED
      BY <3>1, <3>2, NamesSame
  <2>4. ~HasName(FileOf(disk), ino)
    BY <1>1, <2>2, <2>3, NamedIs
  <2>5. ASSUME NEW g, Keeps(disk, g, ino), Done(g, "ENOSPC") PROVE Users!Next
    <3>1. FileOf(g) = FileOf(disk) /\ SizeOf(g) = SizeOf(disk)
      BY <1>1, <2>4, <2>5, KeepsAll
    <3>2. disk' = g
      BY <2>5 DEF Done
    <3> QED
      BY <3>1, <3>2, QuietCall
  <2>6. ASSUME NEW f, NEW r \in {"OK", "ENOMEM"}, Bound(disk, f, dir, name, ino, ino), Done(f, r)
        PROVE  Users!Next
    <3> DEFINE p == <<dir, name>>
    <3>1. /\ FileOf(f) = [FileOf(disk) EXCEPT ![p] = ino]
          /\ SameSizes(disk, f, ino) /\ WellFormed(f)
      BY <1>1, <1>4, <2>2, <2>6, BoundIs
    <3>2. SizeOf(f) = [SizeOf(disk) EXCEPT ![ino] = SizeOf(f)[ino]]
      BY <1>1, <3>1, SizesExcept
    <3>3. disk' = f /\ ~Failed'
      BY <2>6 DEF Done, Failed
    <3>4. p \in Paths /\ FileOf(disk)[p] = 0
      BY <1>4, FileIs DEF Paths
    <3>5. FileOf(disk) \in [Paths -> Files \cup {0}]
      BY <1>1, StoreTypes
    <3>6. \A q \in Paths : FileOf(disk)[q] # ino
      BY <2>4 DEF HasName
    <3> HIDE DEF p
    <3>7. FileOf(f)[p] = ino
      BY <3>1, <3>4, <3>5
    <3> QED
      BY <2>2, <3>1, <3>2, <3>3, <3>4, <3>6, <3>7, CreateStep
  <2> QED
    BY <2>1, <2>5, <2>6 DEF Makes
<1> QED
  BY <1>3, <1>4

(* ospfs_link binds one path to a file that has a name, or fails. *)
LEMMA LinkStore ==
  ASSUME Careful, Sound, NEW dir \in Directories(disk), NEW name \in Names, NEW src \in Names,
         Link(dir, name, src)
  PROVE  Users!Next
<1> DEFINE ino == Lookup(disk, dir, src)
<1>1. WellFormed(disk)
  BY DEF Sound
<1>2. CASE Lookup(disk, dir, name) # 0
  <2>1. disk' = disk
    BY <1>2 DEF Link, Done
  <2> QED
    BY <2>1, QuietCall
<1>3. CASE Lookup(disk, dir, name) = 0
  <2>1. Joins(dir, name, ino)
    BY <1>3, LinkIs
  <2>2. ino # 0 /\ disk.inode[ino].ftype # "DIR"
    BY DEF Link, NonDir
  <2>3. ino \in Files
    BY <1>1, <2>2, LookupIs DEF Files
  <2>4. <<dir, src>> \in Paths /\ FileOf(disk)[<<dir, src>>] = ino
    BY FileIs DEF Paths
  <2>5. HasName(FileOf(disk), ino)
    BY <2>4 DEF HasName
  <2>6. 0 \notin Files
    BY DEF Files
  <2> HIDE DEF ino
  <2>7. ASSUME NEW g, Keeps(disk, g, 0), Done(g, "ENOSPC") PROVE Users!Next
    <3>1. FileOf(g) = FileOf(disk) /\ SizeOf(g) = SizeOf(disk)
      BY <1>1, <2>6, <2>7, KeepsAll
    <3>2. disk' = g
      BY <2>7 DEF Done
    <3> QED
      BY <3>1, <3>2, QuietCall
  <2>8. ASSUME NEW f, Bound(disk, f, dir, name, ino, 0), Done(f, "OK")
        PROVE  Users!Next
    <3> DEFINE p == <<dir, name>>
               q == <<dir, src>>
    <3>1. /\ FileOf(f) = [FileOf(disk) EXCEPT ![p] = ino]
          /\ SameSizes(disk, f, ino) /\ WellFormed(f)
          /\ f.inode[ino].ftype = disk.inode[ino].ftype /\ f.inode[ino].size = disk.inode[ino].size
      BY <1>1, <1>3, <2>2, <2>3, <2>6, <2>8, BoundIs
    <3>2. disk' = f /\ ~Failed'
      BY <2>8 DEF Done, Failed
    <3>3. p \in Paths /\ FileOf(disk)[p] = 0
      BY <1>3, FileIs DEF Paths
    <3>4. FileOf(disk) \in [Paths -> Files \cup {0}]
      BY <1>1, StoreTypes
    <3>5. q \in Paths /\ FileOf(disk)[q] = ino
      BY <2>4
    <3> HIDE DEF p, q
    <3>6. FileOf(f)[p] = ino /\ HasName(FileOf(f), ino)
      BY <3>1, <3>3, <3>4, RenamedIs
    <3>7. SizeOf(f)[ino] = SizeOf(disk)[ino]
      <4>1. /\ WellFormed(f) /\ f.inode[ino].ftype = disk.inode[ino].ftype
            /\ f.inode[ino].size = disk.inode[ino].size
        BY <3>1
      <4>2. SizeOf(disk)[ino] = disk.inode[ino].size
        BY <1>1, <2>2, <2>3, <2>5, SizeIs
      <4>3. SizeOf(f)[ino] = f.inode[ino].size
        BY <2>2, <2>3, <3>6, <4>1, SizeIs
      <4> QED
        BY <4>1, <4>2, <4>3
    <3>8. SizeOf(f) = SizeOf(disk)
      BY <1>1, <3>1, <3>7, SizesEqual
    <3> QED
      BY <2>3, <3>1, <3>2, <3>3, <3>5, <3>6, <3>8, LinkStep
  <2> QED
    BY <2>1, <2>7, <2>8 DEF Joins
<1> QED
  BY <1>2, <1>3

(* ospfs_unlink unbinds one path; the last name takes the file along. *)
LEMMA UnlinkStore ==
  ASSUME Careful, Sound, NEW dir \in Directories(disk), NEW name \in Names, Unlink(dir, name)
  PROVE  Users!Next
<1> DEFINE z == Lookup(disk, dir, name)
           p == <<dir, name>>
           F == FileOf(disk)
<1>1. WellFormed(disk)
  BY DEF Sound
<1>2. z # 0 /\ disk.inode[z].ftype # "DIR"
  BY DEF Unlink, NonDir
<1>3. z \in Files
  BY <1>1, <1>2, LookupIs DEF Files
<1>4. Leaves(dir, name, z)
  BY UnlinkIs
<1>5. p \in Paths /\ F[p] = z
  BY FileIs DEF Paths
<1>6. F \in [Paths -> Files \cup {0}]
  BY <1>1, StoreTypes
<1>7. Files \subseteq Inodes /\ 0 \notin Files
  BY OspfsAssumption DEF Files, Inodes
<1>8. PICK f : Unbound(disk, f, dir, name, z) /\ Done(f, "OK")
  BY <1>4 DEF Leaves
<1>9. PICK e, x, m :
        /\ EntrySet(disk, e, dir, find_direntry(disk, dir, name), x, z, m) /\ x.ino = 0
        /\ WellFormed(e) /\ (f = e \/ (EntriesOf(e, z) = {} /\ Keeps(e, f, z)))
  BY <1>8 DEF Unbound
<1>10. FileOf(e) = [F EXCEPT ![p] = 0]
  BY <1>1, <1>2, <1>9, UnbindIs
<1> HIDE DEF z, p
<1>11. WellFormed(f) /\ disk' = f /\ ~Failed'
  BY <1>8 DEF Unbound, Done, Failed
<1>12. FileOf(f) = FileOf(e)
  BY <1>9, KeepsSizes
<1>13. /\ \A i \in Files : e.inode[i].ftype = disk.inode[i].ftype
       /\ \A i \in Files : e.inode[i].size = disk.inode[i].size
  BY <1>7, <1>9 DEF EntrySet
<1>14. \A i \in Files : i # z => /\ f.inode[i].ftype = e.inode[i].ftype
                                 /\ e.inode[i].ftype # "DIR" => f.inode[i].size = e.inode[i].size
  BY <1>7, <1>9 DEF Keeps
<1>15. \A i \in Files : i # z => (HasName(FileOf(e), i) <=> HasName(F, i))
  <2>1. \A i \in Files : i # 0 /\ i # F[p] => (HasName(FileOf(e), i) <=> HasName(F, i))
    BY <1>5, <1>6, <1>10, RenamedIs
  <2> QED
    BY <1>5, <1>7, <2>1
<1>16. HasName(FileOf(e), z) <=> \E q \in Paths \ {p} : F[q] = z
  <2>1. \A i \in Files : i # 0 => (HasName(FileOf(e), i) <=> NameBut(F, p, i))
    BY <1>5, <1>6, <1>10, RenamedIs
  <2> QED
    BY <1>3, <1>7, <2>1 DEF NameBut
<1>17. FileOf(f)[p] = 0
  BY <1>5, <1>6, <1>10, <1>12
<1> HIDE DEF F
<1>18. SameSizes(disk, f, z)
  BY <1>12, <1>13, <1>14, <1>15 DEF SameSizes, F
<1>19. CASE HasName(FileOf(e), z)
  <2>1. f = e
    BY <1>3, <1>9, <1>19, NamedIs
  <2>2. HasName(F, z)
    BY <1>5 DEF HasName
  <2>3. SizeOf(f)[z] = SizeOf(disk)[z]
    BY <1>1, <1>3, <1>9, <1>13, <1>19, <2>1, <2>2, SizeIs DEF F
  <2>4. SizeOf(f) = SizeOf(disk)
    BY <1>1, <1>11, <1>18, <2>3, SizesEqual
  <2> QED
    BY <1>2, <1>5, <1>10, <1>11, <1>12, <1>16, <1>17, <1>19, <2>4, UnlinkStep DEF F
<1>20. CASE ~HasName(FileOf(e), z)
  <2>1. SizeOf(f)[z] = 0
    BY <1>3, <1>11, <1>12, <1>20, SizeIs
  <2>2. SizeOf(f) = [SizeOf(disk) EXCEPT ![z] = SizeOf(f)[z]]
    BY <1>1, <1>11, <1>18, SizesExcept
  <2> QED
    BY <1>2, <1>5, <1>10, <1>11, <1>12, <1>16, <1>17, <1>20, <2>1, <2>2, UnlinkStep DEF F
<1> QED
  BY <1>19, <1>20

(* A file that gets another size, or, if there is no room, does not; one that
   was unlinked while it is open is nobody's. *)
LEMMA ResizeStore ==
  ASSUME Sound, NEW z \in Inodes \ {0}, disk.inode[z].ftype # "DIR", NEW c, NEW size,
         Resizes(disk, c, z, size), disk' = c.disk, ret' = c.r
  PROVE  Users!Next
<1> DEFINE e == c.disk
<1>1. WellFormed(disk) /\ Linked(disk)
  BY DEF Sound, WellFormed
<1>2. z \in Files /\ Files \subseteq Inodes
  BY <1>1, OspfsAssumption DEF Linked, Inodes, Files, ROOT_INO
<1>3. /\ WellFormed(e) /\ SameNames(disk, e) /\ OnlyBlocksOf(disk, e, z)
      /\ c.r \in {"OK", "ENOSPC"} /\ (c.r = "ENOSPC" => e.inode[z].size = disk.inode[z].size)
      /\ disk' = e /\ ret' = c.r
  BY DEF Resizes
<1> HIDE DEF e
<1>4. Keeps(disk, e, z)
  BY <1>3 DEF Keeps, OnlyBlocksOf
<1>5. FileOf(e) = FileOf(disk) /\ SameSizes(disk, e, z)
  BY <1>4, KeepsSizes
<1>6. CASE ~HasName(FileOf(disk), z)
  <2>1. FileOf(e) = FileOf(disk) /\ SizeOf(e) = SizeOf(disk)
    BY <1>1, <1>4, <1>6, KeepsAll
  <2> QED
    BY <1>3, <2>1, QuietCall
<1>7. CASE HasName(FileOf(disk), z) /\ c.r = "OK"
  <2>1. PICK p \in Paths : FileOf(disk)[p] = z
    BY <1>7 DEF HasName
  <2>2. SizeOf(e) = [SizeOf(disk) EXCEPT ![z] = SizeOf(e)[z]]
    BY <1>1, <1>3, <1>5, SizesExcept
  <2>3. ~Failed'
    BY <1>3, <1>7 DEF Failed
  <2> QED
    BY <1>2, <1>3, <1>5, <2>1, <2>2, <2>3, ResizeStep
<1>8. CASE HasName(FileOf(disk), z) /\ c.r = "ENOSPC"
  <2>1. e.inode[z].ftype = disk.inode[z].ftype /\ e.inode[z].size = disk.inode[z].size
    BY <1>3, <1>8 DEF OnlyBlocksOf
  <2>2. SizeOf(e)[z] = SizeOf(disk)[z]
    BY <1>1, <1>2, <1>3, <1>5, <2>1, SizeIs
  <2>3. SizeOf(e) = SizeOf(disk)
    BY <1>1, <1>3, <1>5, <2>2, SizesEqual
  <2> QED
    BY <1>3, <1>5, <2>3, QuietCall
<1> QED
  BY <1>3, <1>6, <1>7, <1>8

(* ospfs_notify_change changes the size of one file. *)
LEMMA TruncateStore ==
  ASSUME Careful, Sound, NEW dir \in Directories(disk), NEW name \in Names,
         NEW size \in Sizes, Truncate(dir, name, size)
  PROVE  Users!Next
<1> DEFINE ino == Lookup(disk, dir, name)
           c == change_size(disk, ino, size)
<1>1. WellFormed(disk)
  BY DEF Sound
<1>2. /\ ino # 0 /\ disk.inode[ino].ftype # "SYMLINK"
      /\ size2nblocks(size) > NDIRECT + NINDIRECT =>
           Cardinality(disk.free) >= size2nblocks(size) + 3
  BY DEF Truncate, MayGrow
<1>3. ino \in Inodes \ {0}
  BY <1>1, <1>2, LookupIs
<1>4. CASE disk.inode[ino].ftype = "DIR"
  <2>1. disk' = disk
    BY <1>4 DEF Truncate, Done
  <2> QED
    BY <2>1, QuietCall
<1>5. CASE disk.inode[ino].ftype # "DIR"
  <2>1. disk' = c.disk /\ ret' = c.r
    BY <1>5 DEF Truncate, Done
  <2> HIDE DEF c, ino
  <2>2. Resizes(disk, c, ino, size)
    BY <1>1, <1>2, <1>3, <1>5, SizeFits, ResizeIs DEF c
  <2> QED
    BY <1>3, <1>5, <2>1, <2>2, ResizeStore
<1> QED
  BY <1>4, <1>5

(* ospfs_write changes the size of one file, before it copies. *)
LEMMA WriteStore ==
  ASSUME Careful, Sound, NEW pos, NEW count, NEW append, Write(pos, count, append)
  PROVE  Users!Next
<1> DEFINE size == disk.inode[filp].size
           at == IF append THEN size ELSE pos
           new == count + at
           c == change_size(disk, filp, new)
<1>1. WellFormed(disk) /\ filp \in Inodes /\ (filp # 0 => disk.inode[filp].ftype = "REG")
  BY DEF Sound, Handles
<1>2. /\ filp # 0 /\ new \in Sizes /\ MayGrow(filp, new)
      /\ (disk' = c.disk /\ ret' = c.r) \/ disk' = disk
  BY DEF Write
<1>3. CASE disk' = disk
  BY <1>3, QuietCall
<1>4. CASE disk' = c.disk /\ ret' = c.r
  <2>1. size2nblocks(new) > NDIRECT + NINDIRECT => Cardinality(disk.free) >= size2nblocks(new) + 3
    BY <1>2 DEF MayGrow
  <2>2. filp \in Inodes \ {0} /\ disk.inode[filp].ftype = "REG"
    BY <1>1, <1>2
  <2> HIDE DEF new, c
  <2>3. new \in Nat /\ size2nblocks(new) \in 0..(MAXFILEBLKS - 1)
    BY <1>2, SizeFits
  <2>4. Resizes(disk, c, filp, new)
    BY <1>1, <2>1, <2>2, <2>3, ResizeIs DEF c
  <2> QED
    BY <1>4, <2>2, <2>4, ResizeStore
<1> QED
  BY <1>2, <1>3, <1>4

(* ospfs_follow_link changes the text of a link, at most. *)
LEMMA FollowStore ==
  ASSUME Sound, NEW dir \in Directories(disk), NEW name \in Names, NEW root,
         FollowLink(dir, name, root)
  PROVE  Users!Next
<1> DEFINE ino == Lookup(disk, dir, name)
           e == [disk EXCEPT !.inode[ino].symlink = "cut"]
<1>1. WellFormed(disk)
  BY DEF Sound
<1>2. ino # 0 /\ disk.inode[ino].ftype = "SYMLINK"
  BY DEF FollowLink, NonDir
<1>3. ino \in Inodes \ {0}
  BY <1>1, <1>2, LookupIs
<1>4. disk' = disk \/ (disk.inode[ino].symlink = "cond" /\ disk' = e)
  BY DEF FollowLink, Done
<1>5. CASE disk' = disk
  BY <1>5, QuietCall
<1>6. CASE disk.inode[ino].symlink = "cond" /\ disk' = e
  <2>1. Keeps(disk, e, 0)
    <3> HIDE DEF ino
    <3> QED
      BY <1>1, <1>2, <1>3, <1>6, CutIs
  <2> HIDE DEF e
  <2>2. 0 \notin Files
    BY DEF Files
  <2>3. FileOf(e) = FileOf(disk) /\ SizeOf(e) = SizeOf(disk)
    BY <1>1, <2>1, <2>2, KeepsAll
  <2> QED
    BY <1>6, <2>3, QuietCall
<1> QED
  BY <1>4, <1>5, <1>6

-----------------------------------------------------------------------------
(* The refinement *)

(* Every call of a careful client is a step of the file store. *)
LEMMA StoreStep ==
  ASSUME Careful, Sound, [Next]_vars
  PROVE  Users!Next
<1>1. Dirs = Directories(disk)
  BY DEF Dirs, Directories
<1>2. ASSUME NEW dir \in Dirs, NEW name \in Names, Create(dir, name) PROVE Users!Next
  BY <1>1, <1>2, CreateIs, MakeStore
<1>3. ASSUME NEW dir \in Dirs, NEW name \in Names, Unlink(dir, name) PROVE Users!Next
  BY <1>1, <1>3, UnlinkStore
<1>4. ASSUME NEW dir \in Dirs, NEW name \in Names, NEW text \in SymNames,
             Symlink(dir, name, text)
      PROVE  Users!Next
  BY <1>1, <1>4, SymlinkIs, MakeStore
<1>5. ASSUME NEW dir \in Dirs, NEW name \in Names, NEW src \in Names, Link(dir, name, src)
      PROVE  Users!Next
  BY <1>1, <1>5, LinkStore
<1>6. ASSUME NEW dir \in Dirs, NEW name \in Names, NEW root \in BOOLEAN,
             FollowLink(dir, name, root)
      PROVE  Users!Next
  BY <1>1, <1>6, FollowStore
<1>7. ASSUME NEW dir \in Dirs, NEW name \in Names, NEW size \in Sizes,
             Truncate(dir, name, size)
      PROVE  Users!Next
  BY <1>1, <1>7, TruncateStore
<1>8. ASSUME NEW pos, NEW count, NEW append, Write(pos, count, append) PROVE Users!Next
  BY <1>8, WriteStore
<1>9. ASSUME disk' = disk PROVE Users!Next
  BY <1>9, QuietCall
<1>10. ASSUME NEW dir, NEW name, Open(dir, name) PROVE Users!Next
  BY <1>9, <1>10 DEF Open
<1>11. ASSUME NEW dir, OpenDir(dir) PROVE Users!Next
  BY <1>9, <1>11 DEF OpenDir
<1>12. ASSUME NEW stop, ReadDir(stop) PROVE Users!Next
  BY <1>9, <1>12 DEF ReadDir
<1>13. ASSUME NEW pos, NEW count, Read(pos, count) PROVE Users!Next
  BY <1>9, <1>13 DEF Read, Done
<1>14. ASSUME WriteCopy \/ Close \/ UNCHANGED vars PROVE Users!Next
  BY <1>9, <1>14 DEF WriteCopy, Close, vars
<1>15. CASE \E dir \in Dirs, name \in Names :
         \/ Create(dir, name) \/ Unlink(dir, name) \/ Open(dir, name)
         \/ \E text \in SymNames : Symlink(dir, name, text)
         \/ \E src \in Names : Link(dir, name, src)
         \/ \E root \in BOOLEAN : FollowLink(dir, name, root)
         \/ \E size \in Sizes : Truncate(dir, name, size)
  BY <1>2, <1>3, <1>4, <1>5, <1>6, <1>7, <1>10, <1>15
<1>16. CASE \/ \E dir \in Dirs : OpenDir(dir)
            \/ \E stop \in 0..(MAXFILEBLKS * BLKSIZE) : ReadDir(stop)
            \/ \E pos, count \in Positions : Read(pos, count) \/ Write(pos, count, FALSE)
            \/ \E count \in Positions : Write(0, count, TRUE)
            \/ WriteCopy \/ Close
  BY <1>8, <1>11, <1>12, <1>13, <1>14, <1>16
<1> QED
  BY <1>14, <1>15, <1>16 DEF Next

(* A mounted image shows users a file store in its initial state. *)
LEMMA StoreInit ==
  ASSUME \E d \in Disks : WellFormed(d) /\ Mounted(d)
  PROVE  Users!Init
<1>1. WellFormed(disk) /\ ret = "OK"
  BY DEF Mounted
<1>2. FileOf(disk) \in [Paths -> Files \cup {0}] /\ SizeOf(disk) \in [Files -> Nat]
  BY <1>1, StoreTypes
<1>3. \A i \in Files : ~HasName(FileOf(disk), i) => SizeOf(disk)[i] = 0
  BY <1>1, SizeIs
<1>4. Failed = FALSE
  BY <1>1 DEF Failed
<1> QED
  BY <1>2, <1>3, <1>4 DEF Users!Init, Users!Named, HasName, Paths, Files

(* OSPFS implements the file store: whatever the sizes of the disk, the files
   and the directories, every call of a careful client binds or removes one
   name, changes the size of one file, or, when it fails, changes nothing that
   users see, although it takes and gives back blocks and inodes on the way. *)
THEOREM OspfsIsFileStore == ASSUME Careful PROVE ImageSpec => ImplementsFileStore
<1>1. (\E d \in Disks : WellFormed(d) /\ Mounted(d)) => Users!Init
  BY StoreInit
<1>2. Sound /\ [Next]_vars => [Users!Next]_Users!vars
  BY StoreStep
<1>3. ImageSpec => []Sound
  BY SoundAlways
<1> QED
  BY <1>1, <1>2, <1>3, PTL DEF ImageSpec, ImplementsFileStore, Users!Spec
=============================================================================
