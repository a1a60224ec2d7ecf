---------------------------- MODULE OspfsProofs ----------------------------
(***************************************************************************)
(* Every call of OSPFS keeps a well-formed image well-formed, for disks,   *)
(* files and directories of any size: the invariant Sound is inductive,    *)
(* and the properties of Ospfs follow from it.                             *)
(***************************************************************************)
EXTENDS OspfsBlocks

-----------------------------------------------------------------------------
(* Directory entries *)

(* What is at an offset of a directory. *)
LEMMA EntryIs ==
  ASSUME NEW d, NEW dir, d.inode[dir].ftype = "DIR", d.inode[dir].size \in Nat,
         NEW off \in Offsets(d, dir)
  PROVE  /\ EntryAt(d, dir, off) = Slot(d, dir, off)
         /\ inode_blockno(d, d.inode[dir], off) = Ptr(d, dir, off \div BLKSIZE)
         /\ off \in Nat /\ off < d.inode[dir].size
         /\ off \div BLKSIZE \in 0..(nblocks(d, dir) - 1) /\ off % BLKSIZE \in Slots
<1>1. off \in Nat /\ off < d.inode[dir].size /\ ~(off >= d.inode[dir].size)
  BY DEF Offsets
<1>2. inode_blockno(d, d.inode[dir], off) = Ptr(d, dir, off \div BLKSIZE)
  BY <1>1 DEF inode_blockno, Ptr
<1> DEFINE n == nblocks(d, dir)
           m == BLKSIZE * n
<1>3. n \in Nat /\ d.inode[dir].size <= m /\ BLKSIZE \in Nat \ {0}
  BY BlocksCover, OspfsAssumption DEF nblocks
<1> HIDE DEF n
<1>4. m \in Int
  BY <1>3
<1>5. off < m
  <2> HIDE DEF m
  <2> QED
    BY <1>1, <1>3, <1>4
<1>6. off \div BLKSIZE \in Nat /\ off % BLKSIZE \in Slots /\ off \div BLKSIZE < n
  BY <1>1, <1>3, <1>5, OffsetInBlocks
<1>7. off \div BLKSIZE \in 0..(n - 1)
  <2> DEFINE q == off \div BLKSIZE
  <2>1. q \in Nat /\ q < n
    BY <1>6
  <2> HIDE DEF q
  <2> QED
    BY <1>3, <2>1 DEF q
<1> QED
  BY <1>1, <1>2, <1>6, <1>7 DEF n, EntryAt, Slot

(* the same names lead to the same files: directories may only have grown, by
   blank entries *)
SameNames(d, e) ==
  /\ Directories(e) = Directories(d)
  /\ \A dir \in Directories(d) :
       /\ d.inode[dir].size \in Nat /\ e.inode[dir].size \in Nat
       /\ d.inode[dir].size <= e.inode[dir].size
       /\ \A off \in Offsets(d, dir) : EntryAt(e, dir, off) = EntryAt(d, dir, off)
       /\ \A off \in Offsets(e, dir) :
            off >= d.inode[dir].size => EntryAt(e, dir, off).ino = 0

(* the offsets of a name *)
Found(d, dir, name) ==
  {off \in Offsets(d, dir) : EntryAt(d, dir, off).name = name /\ EntryAt(d, dir, off).ino > 0}

(* Where the search for a name ends. *)
LEMMA FindIs ==
  ASSUME NEW d, NEW dir, NEW name, d.inode[dir].size \in Nat
  PROVE  /\ Found(d, dir, name) = {} => find_direntry(d, dir, name) = -1 /\ Lookup(d, dir, name) = 0
         /\ Found(d, dir, name) # {} =>
              /\ find_direntry(d, dir, name) \in Found(d, dir, name)
              /\ \A off \in Found(d, dir, name) : find_direntry(d, dir, name) <= off
              /\ Lookup(d, dir, name) = EntryAt(d, dir, find_direntry(d, dir, name)).ino
              /\ Lookup(d, dir, name) # 0
<1> DEFINE F == Found(d, dir, name)
<1>1. find_direntry(d, dir, name) = IF F = {} THEN -1 ELSE Min(F)
  BY DEF find_direntry, Found
<1>2. Lookup(d, dir, name) = IF find_direntry(d, dir, name) = -1 THEN 0
                             ELSE EntryAt(d, dir, find_direntry(d, dir, name)).ino
  BY DEF Lookup
<1>3. F \in SUBSET Nat
  BY DEF Found, Offsets
<1>4. \A off \in F : EntryAt(d, dir, off).ino > 0
  BY DEF Found
<1> HIDE DEF F
<1>5. CASE F = {}
  BY <1>1, <1>2, <1>5 DEF F
<1>6. CASE F # {}
  <2> DEFINE m == find_direntry(d, dir, name)
  <2>1. m \in F /\ (\A off \in F : m <= off) /\ m # -1
    <3>1. m = Min(F)
      BY <1>1, <1>6
    <3>2. Min(F) \in F /\ \A off \in F : Min(F) <= off
      BY <1>3, <1>6, MinIs
    <3> HIDE DEF m
    <3>3. m \in Nat
      BY <1>3, <3>1, <3>2
    <3> QED
      BY <3>1, <3>2, <3>3
  <2>2. EntryAt(d, dir, m).ino > 0
    BY <1>4, <2>1
  <2>3. EntryAt(d, dir, m).ino # 0
    BY <2>2
  <2> QED
    BY <1>2, <1>6, <2>1, <2>3 DEF F
<1> QED
  BY <1>5, <1>6

(* The places of an inode. *)
LEMMA EntriesAre ==
  ASSUME NEW d, NEW ino
  PROVE  /\ \A dir \in Directories(d) : \A off \in Offsets(d, dir) :
              EntryAt(d, dir, off).ino = ino => <<dir, off>> \in EntriesOf(d, ino)
         /\ \A p \in EntriesOf(d, ino) : \E dir \in Directories(d) : \E off \in Offsets(d, dir) :
              p = <<dir, off>> /\ EntryAt(d, dir, off).ino = ino
BY DEF EntriesOf, Directories

(* Nothing is found that was not there. *)
LEMMA NamesSame ==
  ASSUME NEW d, NEW e, SameNames(d, e)
  PROVE  /\ \A ino \in Inodes \ {0} : EntriesOf(e, ino) = EntriesOf(d, ino)
         /\ \A dir \in Directories(d) : \A name :
              /\ Found(e, dir, name) = Found(d, dir, name)
              /\ find_direntry(e, dir, name) = find_direntry(d, dir, name)
              /\ Lookup(e, dir, name) = Lookup(d, dir, name)
<1>1. ASSUME NEW dir \in Directories(d), NEW off \in Offsets(e, dir)
      PROVE  \/ off \in Offsets(d, dir) /\ EntryAt(e, dir, off) = EntryAt(d, dir, off)
             \/ EntryAt(e, dir, off).ino = 0
  <2>1. CASE off >= d.inode[dir].size
    BY <2>1 DEF SameNames
  <2>2. CASE ~(off >= d.inode[dir].size)
    <3>1. off \in Offsets(d, dir)
      BY <2>2 DEF SameNames, Offsets
    <3> QED
      BY <3>1 DEF SameNames
  <2> QED
    BY <2>1, <2>2
<1>2. ASSUME NEW dir \in Directories(d), NEW off \in Offsets(d, dir)
      PROVE  off \in Offsets(e, dir) /\ EntryAt(e, dir, off) = EntryAt(d, dir, off)
  BY DEF SameNames, Offsets
<1>3. ASSUME NEW ino \in Inodes \ {0} PROVE EntriesOf(e, ino) = EntriesOf(d, ino)
  <2>1. Directories(e) = Directories(d)
    BY DEF SameNames
  <2>2. ASSUME NEW p \in EntriesOf(e, ino) PROVE p \in EntriesOf(d, ino)
    <3>1. PICK dir \in Directories(e) : \E off \in Offsets(e, dir) :
            p = <<dir, off>> /\ EntryAt(e, dir, off).ino = ino
      BY EntriesAre
    <3>2. PICK off \in Offsets(e, dir) : p = <<dir, off>> /\ EntryAt(e, dir, off).ino = ino
      BY <3>1
    <3>3. off \in Offsets(d, dir) /\ EntryAt(e, dir, off) = EntryAt(d, dir, off)
      BY <1>1, <2>1, <3>2
    <3> QED
      BY <2>1, <3>2, <3>3, EntriesAre
  <2>3. ASSUME NEW p \in EntriesOf(d, ino) PROVE p \in EntriesOf(e, ino)
    <3>1. PICK dir \in Directories(d) : \E off \in Offsets(d, dir) :
            p = <<dir, off>> /\ EntryAt(d, dir, off).ino = ino
      BY EntriesAre
    <3>2. PICK off \in Offsets(d, dir) : p = <<dir, off>> /\ EntryAt(d, dir, off).ino = ino
      BY <3>1
    <3>3. off \in Offsets(e, dir) /\ EntryAt(e, dir, off) = EntryAt(d, dir, off)
      BY <1>2, <3>2
    <3> QED
      BY <2>1, <3>2, <3>3, EntriesAre
  <2> QED
    BY <2>2, <2>3
<1>4. ASSUME NEW dir \in Directories(d), NEW name
      PROVE  /\ Found(e, dir, name) = Found(d, dir, name)
             /\ find_direntry(e, dir, name) = find_direntry(d, dir, name)
             /\ Lookup(e, dir, name) = Lookup(d, dir, name)
  <2>1. Found(e, dir, name) = Found(d, dir, name)
    <3>1. ASSUME NEW off \in Found(e, dir, name) PROVE off \in Found(d, dir, name)
      BY <1>1 DEF Found
    <3>2. ASSUME NEW off \in Found(d, dir, name) PROVE off \in Found(e, dir, name)
      BY <1>2 DEF Found
    <3> QED
      BY <3>1, <3>2
  <2>2. find_direntry(e, dir, name) = find_direntry(d, dir, name)
    BY <2>1 DEF find_direntry, Found
  <2>3. d.inode[dir].size \in Nat /\ e.inode[dir].size \in Nat
    BY DEF SameNames
  <2>4. CASE Found(d, dir, name) = {}
    BY <2>1, <2>3, <2>4, FindIs
  <2>5. CASE Found(d, dir, name) # {}
    <3> DEFINE m == find_direntry(d, dir, name)
    <3>1. m \in Found(d, dir, name) /\ Lookup(d, dir, name) = EntryAt(d, dir, m).ino
      BY <2>3, <2>5, FindIs
    <3>2. Lookup(e, dir, name) = EntryAt(e, dir, m).ino
      BY <2>1, <2>2, <2>3, <2>5, FindIs
    <3>3. m \in Offsets(d, dir)
      BY <3>1 DEF Found
    <3> QED
      BY <1>2, <2>1, <2>2, <3>1, <3>2, <3>3
  <2> QED
    BY <2>1, <2>2, <2>4, <2>5
<1> QED
  BY <1>3, <1>4

(* Names that stay the same twice. *)
LEMMA NamesTwice ==
  ASSUME NEW d, NEW e, NEW f, SameNames(d, e), SameNames(e, f)
  PROVE  SameNames(d, f)
<1>1. ASSUME NEW dir \in Directories(d)
      PROVE  /\ d.inode[dir].size \in Nat /\ f.inode[dir].size \in Nat
             /\ d.inode[dir].size <= f.inode[dir].size
             /\ \A off \in Offsets(d, dir) : EntryAt(f, dir, off) = EntryAt(d, dir, off)
             /\ \A off \in Offsets(f, dir) :
                  off >= d.inode[dir].size => EntryAt(f, dir, off).ino = 0
  <2>1. /\ dir \in Directories(e) /\ d.inode[dir].size \in Nat /\ e.inode[dir].size \in Nat
        /\ f.inode[dir].size \in Nat /\ d.inode[dir].size <= e.inode[dir].size
        /\ e.inode[dir].size <= f.inode[dir].size
    BY DEF SameNames
  <2>2. ASSUME NEW off \in Offsets(d, dir) PROVE EntryAt(f, dir, off) = EntryAt(d, dir, off)
    <3>1. off \in Offsets(e, dir)
      BY <2>1 DEF Offsets
    <3> QED
      BY <2>1, <3>1 DEF SameNames
  <2>3. ASSUME NEW off \in Offsets(f, dir), off >= d.inode[dir].size
        PROVE  EntryAt(f, dir, off).ino = 0
    <3>1. CASE off >= e.inode[dir].size
      BY <2>1, <3>1 DEF SameNames
    <3>2. CASE ~(off >= e.inode[dir].size)
      <4>1. off \in Offsets(e, dir)
        BY <2>1, <3>2 DEF Offsets
      <4> QED
        BY <2>1, <2>3, <4>1 DEF SameNames
    <3> QED
      BY <3>1, <3>2
  <2> QED
    BY <2>1, <2>2, <2>3
<1> QED
  BY <1>1 DEF SameNames

(* No name becomes ambiguous by entries that nobody uses. *)
LEMMA NamesDistinct ==
  ASSUME NEW d, NEW e, SameNames(d, e), DistinctNames(d)
  PROVE  DistinctNames(e)
<1>1. Directories(e) = Directories(d)
  BY DEF SameNames
<1>2. ASSUME NEW dir \in Directories(d), NEW o \in Offsets(e, dir), EntryAt(e, dir, o).ino > 0
      PROVE  o \in Offsets(d, dir) /\ EntryAt(e, dir, o) = EntryAt(d, dir, o)
  <2>1. ~(o >= d.inode[dir].size)
    BY <1>2 DEF SameNames
  <2>2. o \in Offsets(d, dir)
    BY <2>1 DEF SameNames, Offsets
  <2> QED
    BY <2>2 DEF SameNames
<1> SUFFICES ASSUME NEW dir \in Directories(d), NEW o \in Offsets(e, dir),
                    EntryAt(e, dir, o).ino > 0
             PROVE  /\ EntryAt(e, dir, o).name \in Names /\ EntryAt(e, dir, o).ino # ROOT_INO
                    /\ \A q \in Offsets(e, dir) :
                         EntryAt(e, dir, q).ino > 0 /\ EntryAt(e, dir, q).name = EntryAt(e, dir, o).name
                           => q = o
  BY <1>1 DEF DistinctNames
<1>3. o \in Offsets(d, dir) /\ EntryAt(e, dir, o) = EntryAt(d, dir, o)
  BY <1>2
<1>4. EntryAt(e, dir, o).name \in Names /\ EntryAt(e, dir, o).ino # ROOT_INO
  BY <1>3 DEF DistinctNames
<1>5. ASSUME NEW q \in Offsets(e, dir), EntryAt(e, dir, q).ino > 0,
             EntryAt(e, dir, q).name = EntryAt(e, dir, o).name
      PROVE  q = o
  <2>1. q \in Offsets(d, dir) /\ EntryAt(e, dir, q) = EntryAt(d, dir, q)
    BY <1>2, <1>5
  <2> QED
    BY <1>3, <1>5, <2>1 DEF DistinctNames
<1> QED
  BY <1>4, <1>5

(* how c leaves the well-formed image d when file ino was to get a size *)
Resizes(d, c, ino, size) ==
  /\ WellFormed(c.disk) /\ SameNames(d, c.disk) /\ OnlyBlocksOf(d, c.disk, ino)
  /\ c.r \in {"OK", "ENOSPC"}
  /\ c.disk.inode[ino].size = IF c.r = "OK" THEN size ELSE d.inode[ino].size

(* A bigger file has no fewer blocks. *)
LEMMA BlocksMono ==
  ASSUME NEW s \in Nat, NEW t \in Nat, s <= t
  PROVE  size2nblocks(s) <= size2nblocks(t)
<1>1. s > -BLKSIZE /\ t > -BLKSIZE /\ BLKSIZE \in Nat \ {0}
  BY OspfsAssumption
<1> DEFINE n == size2nblocks(t)
           m == BLKSIZE * n
<1>2. n \in Nat /\ t <= m
  BY <1>1, BlocksCover
<1> HIDE DEF n
<1>3. m \in Int
  BY <1>1, <1>2
<1>4. s <= m
  <2> HIDE DEF m
  <2> QED
    BY <1>2, <1>3
<1>5. size2nblocks(s) <= n
  BY <1>1, <1>2, <1>4, BlocksUnique
<1> QED
  BY <1>5 DEF n

(* change_size of a file, or of a directory that grows. *)
LEMMA ResizeIs ==
  ASSUME NEW d, WellFormed(d), NEW ino \in Inodes \ {0}, d.inode[ino].ftype # "SYMLINK",
         NEW size \in Nat, size2nblocks(size) \in 0..(MAXFILEBLKS - 1),
         size2nblocks(size) > NDIRECT + NINDIRECT =>
           Cardinality(d.free) >= size2nblocks(size) + 3,
         d.inode[ino].ftype = "DIR" => size >= d.inode[ino].size
  PROVE  Resizes(d, change_size(d, ino, size), ino, size)
<1> DEFINE c == change_size(d, ino, size)
           f == c.disk
           old == nblocks(d, ino)
<1>1. /\ Consistent(d) /\ d.inode[ino].size \in Nat /\ ino \in Live(d) /\ Filled(d)
      /\ BlankTails(d) /\ Linked(d) /\ DistinctNames(d)
      /\ \A i \in Inodes : d.inode[i].size \in Nat /\ d.inode[i].nlink \in Nat
  BY DEF WellFormed, Live
<1>2. old \in 0..(MAXFILEBLKS - 1)
  BY <1>1 DEF Filled
<1>3. Changed(d, c, ino, size)
  BY <1>1, <1>2, ChangeSizeIs
<1> HIDE DEF c
<1>4. /\ Consistent(f) /\ OnlyBlocksOf(d, f, ino) /\ Live(f) = Live(d) /\ c.r \in {"OK", "ENOSPC"}
      /\ f.inode[ino].size = IF c.r = "OK" THEN size ELSE d.inode[ino].size
  BY <1>3 DEF Changed
<1> HIDE DEF f
<1>5. /\ \A i \in Inodes : i # ino => f.inode[i] = d.inode[i]
      /\ \A i \in Inodes : f.inode[i].ftype = d.inode[i].ftype /\ f.inode[i].nlink = d.inode[i].nlink
  BY <1>4 DEF OnlyBlocksOf
<1>6. f.inode[ino].size \in Nat /\ (d.inode[ino].ftype = "DIR" => d.inode[ino].size <= f.inode[ino].size)
  BY <1>1, <1>4
<1>7. \A i \in Inodes : f.inode[i].size \in Nat /\ f.inode[i].nlink \in Nat
  BY <1>1, <1>5, <1>6
<1>8. nblocks(f, ino) \in 0..(MAXFILEBLKS - 1)
  BY <1>2, <1>4 DEF nblocks
<1>9. d.free \subseteq Data /\ 0 \notin Data /\ Data \subseteq Blocks /\ MAXFILEBLKS \in Int /\ old \in Nat
  <2>1. NINDIRECT * NINDIRECT \in Nat
    BY OspfsAssumption
  <2> QED
    BY <1>1, <1>2, <2>1, OspfsAssumption DEF Consistent, Data, Blocks, MAXFILEBLKS
<1>10. ASSUME NEW i \in Live(d), NEW k \in 0..(MAXFILEBLKS - 1),
              i # ino \/ (k < old /\ k < nblocks(f, ino))
       PROVE  Ptr(f, i, k) = Ptr(d, i, k)
  BY <1>3, <1>10 DEF Changed, f
<1>11. ASSUME NEW k \in old..(nblocks(f, ino) - 1)
       PROVE  Ptr(f, ino, k) \in d.free /\ f.ent[Ptr(f, ino, k)] = ZeroEnts
  BY <1>3, <1>11 DEF Changed, f
<1>12. \A b \in Blocks : b \notin d.free => f.ent[b] = d.ent[b]
  BY <1>3 DEF Changed, f
<1> HIDE DEF old
<1>13. Filled(f)
  <2> SUFFICES ASSUME NEW i \in Inodes \ {0}, f.inode[i].ftype # "SYMLINK"
               PROVE  /\ nblocks(f, i) \in 0..(MAXFILEBLKS - 1)
                      /\ \A k \in 0..(nblocks(f, i) - 1) : Ptr(f, i, k) # 0
    BY DEF Filled
  <2>1. i \in Live(d) /\ d.inode[i].ftype # "SYMLINK"
    BY <1>5 DEF Live
  <2>2. CASE i # ino
    <3>1. nblocks(f, i) = nblocks(d, i)
      BY <1>5, <2>2 DEF nblocks
    <3>2. nblocks(d, i) \in 0..(MAXFILEBLKS - 1) /\ \A k \in 0..(nblocks(d, i) - 1) : Ptr(d, i, k) # 0
      BY <1>1, <2>1 DEF Filled
    <3>3. ASSUME NEW k \in 0..(nblocks(d, i) - 1) PROVE Ptr(f, i, k) # 0
      <4>1. k \in 0..(MAXFILEBLKS - 1)
        BY <1>9, <3>2
      <4> QED
        BY <1>10, <2>1, <2>2, <3>2, <4>1
    <3> QED
      BY <3>1, <3>2, <3>3
  <2>3. CASE i = ino
    <3>1. \A k \in 0..(old - 1) : Ptr(d, ino, k) # 0
      BY <1>1, <2>1, <2>3 DEF Filled, old
    <3>2. ASSUME NEW k \in 0..(nblocks(f, ino) - 1) PROVE Ptr(f, ino, k) # 0
      <4>1. k \in 0..(MAXFILEBLKS - 1) /\ k < nblocks(f, ino) /\ k \in Nat
        BY <1>8, <1>9
      <4>2. CASE k < old
        <5>1. Ptr(f, ino, k) = Ptr(d, ino, k) /\ k \in 0..(old - 1)
          BY <1>1, <1>9, <1>10, <4>1, <4>2
        <5> QED
          BY <3>1, <5>1
      <4>3. CASE ~(k < old)
        <5>1. k \in old..(nblocks(f, ino) - 1)
          BY <1>9, <4>1, <4>3
        <5> QED
          BY <1>9, <1>11, <5>1
      <4> QED
        BY <4>2, <4>3
    <3> QED
      BY <1>8, <2>3, <3>2
  <2> QED
    BY <2>2, <2>3
<1>14. Directories(f) = Directories(d) /\ \A dir \in Directories(d) :
         /\ dir \in Inodes \ {0} /\ dir \in Live(d)
         /\ d.inode[dir].ftype = "DIR" /\ f.inode[dir].ftype = "DIR"
         /\ d.inode[dir].size \in Nat /\ f.inode[dir].size \in Nat
         /\ d.inode[dir].size <= f.inode[dir].size
         /\ nblocks(d, dir) \in 0..(MAXFILEBLKS - 1) /\ nblocks(f, dir) \in 0..(MAXFILEBLKS - 1)
         /\ nblocks(d, dir) <= nblocks(f, dir)
  <2>1. \A dir \in DirInodes : dir \in Inodes \ {0}
    BY OspfsAssumption DEF Inodes
  <2>2. Directories(f) = Directories(d)
    BY <1>5, <2>1 DEF Directories
  <2>3. ASSUME NEW dir \in Directories(d)
        PROVE  /\ dir \in Inodes \ {0} /\ d.inode[dir].ftype = "DIR" /\ f.inode[dir].ftype = "DIR"
    BY <1>5, <2>1 DEF Directories
  <2>4. ASSUME NEW dir \in Directories(d)
        PROVE  /\ d.inode[dir].size \in Nat /\ f.inode[dir].size \in Nat
               /\ d.inode[dir].size <= f.inode[dir].size
    BY <1>1, <1>5, <1>6, <1>7, <2>3
  <2>5. ASSUME NEW dir \in Directories(d)
        PROVE  /\ nblocks(d, dir) \in 0..(MAXFILEBLKS - 1) /\ nblocks(f, dir) \in 0..(MAXFILEBLKS - 1)
               /\ dir \in Live(d)
    BY <1>1, <1>13, <2>3 DEF Filled, Live
  <2>6. ASSUME NEW dir \in Directories(d) PROVE nblocks(d, dir) <= nblocks(f, dir)
    BY <2>4, BlocksMono DEF nblocks
  <2> QED
    BY <2>2, <2>3, <2>4, <2>5, <2>6
<1>15. ASSUME NEW dir \in Directories(d), NEW off \in Nat, off \div BLKSIZE < nblocks(f, dir)
       PROVE  /\ off \div BLKSIZE < nblocks(d, dir) => Slot(f, dir, off) = Slot(d, dir, off)
              /\ off \div BLKSIZE >= nblocks(d, dir) => dir = ino /\ Slot(f, dir, off).ino = 0
  <2> DEFINE q == off \div BLKSIZE
             s == off % BLKSIZE
  <2>1. q \in Nat /\ s \in Slots
    BY OffsetInBlocks
  <2>2. Slot(f, dir, off) = f.ent[Ptr(f, dir, q)][s] /\ Slot(d, dir, off) = d.ent[Ptr(d, dir, q)][s]
    BY DEF Slot
  <2>3. q < nblocks(f, dir)
    BY <1>15
  <2> HIDE DEF q, s
  <2>4. q \in 0..(MAXFILEBLKS - 1)
    BY <1>9, <1>14, <2>1, <2>3
  <2>5. ASSUME q < nblocks(d, dir) PROVE f.ent[Ptr(f, dir, q)] = d.ent[Ptr(d, dir, q)]
    <3>1. Ptr(f, dir, q) = Ptr(d, dir, q)
      BY <1>10, <1>14, <2>3, <2>4, <2>5 DEF old
    <3>2. Ptr(d, dir, q) # 0
      <4>1. q \in 0..(nblocks(d, dir) - 1)
        BY <1>14, <2>1, <2>5
      <4> QED
        BY <1>1, <1>14, <4>1 DEF Filled
    <3>3. Ptr(d, dir, q) \in Blocks /\ Ptr(d, dir, q) \notin d.free
      BY <1>1, <1>9, <1>14, <2>4, <3>2, OwnedBlocks DEF Consistent
    <3> QED
      BY <1>12, <3>1, <3>3
  <2>6. ASSUME q >= nblocks(d, dir) PROVE dir = ino /\ f.ent[Ptr(f, dir, q)] = ZeroEnts
    <3>1. dir = ino
      <4>1. ASSUME dir # ino PROVE nblocks(f, dir) = nblocks(d, dir)
        BY <1>5, <1>14, <4>1 DEF nblocks
      <4> QED
        BY <1>14, <2>1, <2>3, <2>6, <4>1
    <3>2. q \in old..(nblocks(f, ino) - 1)
      BY <1>8, <1>9, <2>1, <2>3, <2>6, <3>1 DEF old
    <3> QED
      BY <1>11, <3>1, <3>2
  <2>7. ZeroEnts[s].ino = 0
    BY <2>1 DEF ZeroEnts, NoEntry
  <2> QED
    BY <2>2, <2>5, <2>6, <2>7 DEF q
<1>16. ASSUME NEW dir \in Directories(d), NEW off \in Nat, off >= d.inode[dir].size,
              off \div BLKSIZE < nblocks(f, dir)
       PROVE  Slot(f, dir, off).ino = 0
  <2> DEFINE q == off \div BLKSIZE
  <2>1. q \in Nat /\ nblocks(d, dir) \in Nat
    BY <1>14, OffsetInBlocks
  <2>2. CASE q >= nblocks(d, dir)
    BY <1>15, <1>16, <2>2
  <2>3. CASE q < nblocks(d, dir)
    <3> DEFINE m == BLKSIZE * nblocks(d, dir)
    <3>1. off < m
      BY <2>1, <2>3, OffsetInBlocks
    <3>2. m \in Int
      BY <2>1, OspfsAssumption
    <3>3. off \in d.inode[dir].size..(m - 1)
      <4> HIDE DEF m
      <4> QED
        BY <1>14, <1>16, <3>1, <3>2
    <3>4. Slot(d, dir, off).ino = 0
      BY <1>1, <3>3 DEF BlankTails
    <3> QED
      BY <1>15, <1>16, <2>3, <3>4
  <2> HIDE DEF q
  <2> QED
    BY <2>1, <2>2, <2>3
<1>17. BlankTails(f)
  <2> SUFFICES ASSUME NEW dir \in Directories(f),
                      NEW off \in f.inode[dir].size..(BLKSIZE * nblocks(f, dir) - 1)
               PROVE  Slot(f, dir, off).ino = 0
    BY DEF BlankTails
  <2>1. dir \in Directories(d)
    BY <1>14
  <2> DEFINE m == BLKSIZE * nblocks(f, dir)
  <2>2. m \in Int /\ nblocks(f, dir) \in Nat
    BY <1>14, <2>1, OspfsAssumption
  <2>3. off \in f.inode[dir].size..(m - 1)
    OBVIOUS
  <2>4. off \in Nat /\ off >= d.inode[dir].size /\ off < m
    <3> HIDE DEF m
    <3> QED
      BY <1>14, <2>1, <2>2, <2>3
  <2>5. off \div BLKSIZE < nblocks(f, dir)
    BY <2>2, <2>4, OffsetInBlocks
  <2> QED
    BY <1>16, <2>1, <2>4, <2>5
<1>18. SameNames(d, f)
  <2>1. ASSUME NEW dir \in Directories(d), NEW off \in Offsets(d, dir)
        PROVE  EntryAt(f, dir, off) = EntryAt(d, dir, off)
    <3>1. off \in Offsets(f, dir)
      BY <1>14 DEF Offsets
    <3>2. EntryAt(d, dir, off) = Slot(d, dir, off) /\ off \in Nat
          /\ off \div BLKSIZE \in 0..(nblocks(d, dir) - 1)
      BY <1>14, EntryIs
    <3>3. EntryAt(f, dir, off) = Slot(f, dir, off)
          /\ off \div BLKSIZE \in 0..(nblocks(f, dir) - 1)
      BY <1>14, <3>1, EntryIs
    <3> DEFINE q == off \div BLKSIZE
    <3>4. q \in 0..(nblocks(d, dir) - 1) /\ q \in 0..(nblocks(f, dir) - 1)
      BY <3>2, <3>3
    <3>5. q < nblocks(d, dir) /\ q < nblocks(f, dir)
      <4> HIDE DEF q
      <4> QED
        BY <1>14, <3>4
    <3> QED
      BY <1>15, <3>2, <3>3, <3>5
  <2>2. ASSUME NEW dir \in Directories(d), NEW off \in Offsets(f, dir), off >= d.inode[dir].size
        PROVE  EntryAt(f, dir, off).ino = 0
    <3>1. EntryAt(f, dir, off) = Slot(f, dir, off) /\ off \in Nat
          /\ off \div BLKSIZE \in 0..(nblocks(f, dir) - 1)
      BY <1>14, EntryIs
    <3> DEFINE q == off \div BLKSIZE
    <3>2. q \in 0..(nblocks(f, dir) - 1)
      BY <3>1
    <3>3. q < nblocks(f, dir)
      <4> HIDE DEF q
      <4> QED
        BY <1>14, <3>2
    <3> QED
      BY <1>16, <2>2, <3>1, <3>3
  <2> QED
    BY <1>14, <2>1, <2>2 DEF SameNames
<1>19. Linked(f)
  <2>1. ROOT_INO \in Inodes /\ \A i \in 2..(NINODES - 1) : i \in Inodes \ {0}
    BY OspfsAssumption DEF Inodes, ROOT_INO
  <2>2. \A i \in 2..(NINODES - 1) : EntriesOf(f, i) = EntriesOf(d, i)
    BY <1>18, <2>1, NamesSame
  <2> QED
    BY <1>1, <1>4, <1>5, <2>1, <2>2 DEF Linked
<1>20. WellFormed(f)
  BY <1>1, <1>4, <1>7, <1>13, <1>17, <1>18, <1>19, NamesDistinct DEF WellFormed
<1> QED
  BY <1>4, <1>18, <1>20 DEF Resizes, c, f

(* A directory of a well-formed image. *)
LEMMA DirIs ==
  ASSUME NEW d, WellFormed(d), NEW dir \in Directories(d)
  PROVE  /\ dir \in 1..(NINODES - 1) /\ dir \in Inodes \ {0} /\ dir \in Live(d)
         /\ d.inode[dir].ftype = "DIR" /\ d.inode[dir].size \in Nat
         /\ nblocks(d, dir) \in 0..(MAXFILEBLKS - 1)
         /\ \A k \in 0..(nblocks(d, dir) - 1) : Ptr(d, dir, k) # 0
<1>1. dir \in 1..(NINODES - 1) /\ d.inode[dir].ftype = "DIR"
  BY OspfsAssumption DEF Directories
<1>2. dir \in Inodes \ {0}
  BY <1>1, OspfsAssumption DEF Inodes
<1>3. dir \in Live(d)
  BY <1>1, <1>2 DEF Live
<1>4. d.inode[dir].size \in Nat /\ Filled(d)
  BY <1>2 DEF WellFormed
<1> QED
  BY <1>1, <1>2, <1>3, <1>4 DEF Filled

(* An inode has finitely many places. *)
LEMMA EntriesFinite ==
  ASSUME NEW d, WellFormed(d), NEW ino
  PROVE  IsFiniteSet(EntriesOf(d, ino)) /\ Cardinality(EntriesOf(d, ino)) \in Nat
<1> DEFINE K == BLKSIZE * MAXFILEBLKS
           A == 1..(NINODES - 1)
           B == 0..K
<1>1. MAXFILEBLKS \in Int /\ K \in Int
  <2>1. NINDIRECT * NINDIRECT \in Nat
    BY OspfsAssumption
  <2>2. MAXFILEBLKS \in Int
    BY <2>1, OspfsAssumption DEF MAXFILEBLKS
  <2> QED
    BY <2>2, OspfsAssumption
<1>2. ASSUME NEW p \in EntriesOf(d, ino) PROVE p \in A \X B
  <2>1. PICK dir \in Directories(d) : \E off \in Offsets(d, dir) : p = <<dir, off>>
    BY EntriesAre
  <2>2. PICK off \in Offsets(d, dir) : p = <<dir, off>>
    BY <2>1
  <2>3. dir \in A /\ dir \in Inodes \ {0} /\ d.inode[dir].ftype = "DIR"
    BY DirIs
  <2>4. d.inode[dir].size \in Nat
    BY DirIs
  <2>5. off \in Nat /\ off \div BLKSIZE \in 0..(nblocks(d, dir) - 1)
    BY <2>3, <2>4, EntryIs
  <2>6. nblocks(d, dir) \in 0..(MAXFILEBLKS - 1)
    BY DirIs
  <2> DEFINE q == off \div BLKSIZE
  <2>7. q < MAXFILEBLKS /\ MAXFILEBLKS \in Nat
    <3>1. q \in 0..(nblocks(d, dir) - 1)
      BY <2>5
    <3> HIDE DEF q
    <3> QED
      BY <1>1, <2>6, <3>1
  <2>8. off < K
    BY <2>5, <2>7, OffsetInBlocks
  <2>9. off \in B
    <3> HIDE DEF K
    <3> QED
      BY <1>1, <2>5, <2>8
  <2> QED
    BY <2>2, <2>3, <2>9
<1>3. IsFiniteSet(A) /\ IsFiniteSet(B)
  <2> HIDE DEF K
  <2> QED
    BY <1>1, FS_Interval, OspfsAssumption
<1> HIDE DEF A, B
<1>4. IsFiniteSet(A \X B)
  BY <1>3, FS_Product
<1>5. IsFiniteSet(EntriesOf(d, ino))
  BY <1>2, <1>4, FS_Subset
<1> QED
  BY <1>5, FS_CardinalityType

(* What an inode without links is: a file that has no name. *)
LEMMA UnlinkedIs ==
  ASSUME NEW d, WellFormed(d), NEW ino \in 2..(NINODES - 1), d.inode[ino].nlink = 0
  PROVE  ino \in Live(d) /\ d.inode[ino].ftype # "DIR" /\ EntriesOf(d, ino) = {}
<1>1. ino \in Inodes \ {0}
  BY OspfsAssumption DEF Inodes
<1>2. ino \in Live(d) /\ d.inode[ino].ftype # "DIR"
  BY <1>1 DEF WellFormed, Linked
<1>3. EntriesOf(d, ino) # {} => 0 = Cardinality(EntriesOf(d, ino))
  BY <1>2 DEF WellFormed, Linked
<1>4. EntriesOf(d, ino) = {}
  BY <1>3, EntriesFinite, FS_EmptySet
<1> QED
  BY <1>2, <1>4

(* how e is the image d with inode ino, which had no link, set up as oi *)
Prepared(d, e, ino, oi) ==
  /\ WellFormed(e) /\ SameNames(d, e) /\ e.free = d.free
  /\ e.inode[ino] = oi /\ \A i \in Inodes : i # ino => e.inode[i] = d.inode[i]
  /\ EntriesOf(e, ino) = {}
  /\ \A dir \in Directories(d) : BlankOffsets(e, dir) = BlankOffsets(d, dir)

(* The inode of a new file or symbolic link, before it has a name: the pointers
   of its last owner stay, unless the text of a link takes their place. *)
LEMMA PrepareIs ==
  ASSUME NEW d, WellFormed(d), NEW ino \in 2..(NINODES - 1), d.inode[ino].nlink = 0,
         NEW oi \in InodeRecords, oi.nlink = 1, oi.size \in Nat,
         oi.indirect = d.inode[ino].indirect, oi.indirect2 = d.inode[ino].indirect2,
         \/ oi.ftype = "REG" /\ oi.size = 0 /\ oi.direct = d.inode[ino].direct
         \/ oi.ftype = "SYMLINK" /\ (oi.symlink = "short" => oi.direct = d.inode[ino].direct)
  PROVE  Prepared(d, [d EXCEPT !.inode[ino] = oi], ino, oi)
<1> DEFINE e == [d EXCEPT !.inode[ino] = oi]
<1>1. /\ d \in Disks /\ d.free \subseteq Data /\ Owned(d, d.free) /\ Filled(d) /\ BlankTails(d)
      /\ Linked(d) /\ \A i \in Inodes : d.inode[i].size \in Nat /\ d.inode[i].nlink \in Nat
  BY DEF WellFormed, Consistent
<1>2. ino \in Inodes \ {0} /\ ino \in Live(d) /\ d.inode[ino].ftype # "DIR" /\ EntriesOf(d, ino) = {}
  BY UnlinkedIs, OspfsAssumption DEF Inodes
<1>3. /\ e \in Disks /\ e.inode[ino] = oi /\ e.ptr = d.ptr /\ e.ent = d.ent /\ e.free = d.free
      /\ \A i \in Inodes : i # ino => e.inode[i] = d.inode[i]
  BY <1>1, <1>2, InodeField
<1> HIDE DEF e
<1>4. \A i \in Live(e) : i \in Live(d) /\ i \in Inodes
  BY <1>2, <1>3 DEF Live
<1>5. ASSUME NEW i \in Live(e)
      PROVE  /\ e.inode[i].direct = d.inode[i].direct /\ e.inode[i].indirect = d.inode[i].indirect
             /\ e.inode[i].indirect2 = d.inode[i].indirect2
  <2>1. CASE i # ino
    BY <1>3, <1>4, <2>1
  <2>2. CASE i = ino
    BY <1>3, <2>2 DEF Live
  <2> QED
    BY <2>1, <2>2
<1>6. \A b \in IndexBlocks(e) : b \in IndexBlocks(d)
  BY <1>3, <1>4, <1>5 DEF IndexBlocks
<1>7. Refs(e) \subseteq Refs(d)
  <2> SUFFICES ASSUME NEW p \in Refs(e) PROVE p \in Refs(d)
    OBVIOUS
  <2>1. CASE \E i \in Live(e), k \in 0..(NDIRECT - 1) :
               p = <<i, "direct", k, e.inode[i].direct[k]>>
    BY <1>1, <1>3, <1>4, <1>5, <2>1, RefsAre
  <2>2. CASE \E i \in Live(e) : p = <<i, "indirect", 0, e.inode[i].indirect>>
    BY <1>1, <1>3, <1>4, <1>5, <2>2, RefsAre
  <2>3. CASE \E i \in Live(e) : p = <<i, "indirect2", 0, e.inode[i].indirect2>>
    BY <1>1, <1>3, <1>4, <1>5, <2>3, RefsAre
  <2>4. CASE \E b \in IndexBlocks(e), k \in Indices : p = <<b, "block", k, e.ptr[b][k]>>
    BY <1>1, <1>3, <1>6, <2>4, RefsAre
  <2> QED
    BY <1>3, <2>1, <2>2, <2>3, <2>4, RefsAre
<1>8. Owned(e, e.free)
  <2>1. e.ptr[0] = ZeroPtrs
    BY <1>1, <1>3 DEF Owned
  <2> QED
    BY <1>1, <1>3, <1>7, <2>1, FewerRefs
<1>9. \A i \in Inodes : e.inode[i].size \in Nat /\ e.inode[i].nlink \in Nat
  BY <1>1, <1>3
<1>10. ASSUME NEW i \in Inodes, i # ino
       PROVE  nblocks(e, i) = nblocks(d, i) /\ \A k : Ptr(e, i, k) = Ptr(d, i, k)
  BY <1>3, <1>10 DEF nblocks, Ptr, BlockAt
<1>11. Filled(e)
  <2> SUFFICES ASSUME NEW i \in Inodes \ {0}, e.inode[i].ftype # "SYMLINK"
               PROVE  /\ nblocks(e, i) \in 0..(MAXFILEBLKS - 1)
                      /\ \A k \in 0..(nblocks(e, i) - 1) : Ptr(e, i, k) # 0
    BY DEF Filled
  <2>1. CASE i # ino
    BY <1>1, <1>3, <1>10, <2>1 DEF Filled
  <2>2. CASE i = ino
    <3>1. e.inode[i].size = 0
      BY <1>3, <2>2
    <3>2. 0 > -BLKSIZE /\ 0 <= BLKSIZE * 0 /\ 0 \in Int
      BY OspfsAssumption
    <3>3. size2nblocks(0) <= 0 /\ size2nblocks(0) \in Nat
      BY <3>2, BlocksUnique, BlocksCover
    <3>4. nblocks(e, i) = 0
      BY <3>1, <3>3 DEF nblocks
    <3>5. NINDIRECT * NINDIRECT \in Nat
      BY OspfsAssumption
    <3>6. MAXFILEBLKS - 1 >= 0 /\ MAXFILEBLKS \in Int
      BY <3>5, OspfsAssumption DEF MAXFILEBLKS
    <3> QED
      BY <3>4, <3>6
  <2> QED
    BY <2>1, <2>2
<1>12. /\ Directories(e) = Directories(d)
       /\ \A dir \in Directories(d) : dir \in Inodes /\ dir # ino
  <2>1. \A dir \in DirInodes : dir \in Inodes
    BY OspfsAssumption DEF Inodes
  <2> QED
    BY <1>2, <1>3, <2>1 DEF Directories
<1>13. ASSUME NEW dir \in Directories(d)
       PROVE  /\ e.inode[dir] = d.inode[dir] /\ Offsets(e, dir) = Offsets(d, dir)
              /\ \A off : EntryAt(e, dir, off) = EntryAt(d, dir, off)
              /\ \A off : Slot(e, dir, off) = Slot(d, dir, off)
  <2>1. e.inode[dir] = d.inode[dir]
    BY <1>3, <1>12
  <2> QED
    BY <1>3, <2>1 DEF Offsets, EntryAt, inode_blockno, BlockAt, Slot, Ptr
<1>14. BlankTails(e)
  BY <1>1, <1>12, <1>13 DEF BlankTails, nblocks
<1>15. SameNames(d, e)
  <2>1. ASSUME NEW dir \in Directories(d)
        PROVE  /\ d.inode[dir].size \in Nat /\ d.inode[dir].size <= d.inode[dir].size
               /\ \A off \in Offsets(d, dir) : ~(off >= d.inode[dir].size)
    BY <1>1, <1>12 DEF Offsets
  <2> QED
    BY <1>12, <1>13, <2>1 DEF SameNames
<1>16. \A i \in Inodes \ {0} : EntriesOf(e, i) = EntriesOf(d, i)
  BY <1>15, NamesSame
<1>17. Linked(e)
  <2>1. /\ ROOT_INO \in Inodes /\ ROOT_INO # ino
        /\ \A i \in 2..(NINODES - 1) : i \in Inodes \ {0}
    BY OspfsAssumption DEF Inodes, ROOT_INO
  <2>2. e.inode[ROOT_INO].ftype = "DIR"
    BY <1>1, <1>3, <2>1 DEF Linked
  <2>3. ASSUME NEW i \in Inodes \ {0}, e.inode[i].ftype = "DIR" \/ i \notin Live(e)
        PROVE  e.inode[i].nlink > 0
    <3>1. CASE i = ino
      BY <1>3, <3>1
    <3>2. CASE i # ino
      <4>1. d.inode[i].ftype = "DIR" \/ i \notin Live(d)
        BY <1>3, <2>3, <3>2 DEF Live
      <4> QED
        BY <1>1, <1>3, <3>2, <4>1 DEF Linked
    <3> QED
      BY <3>1, <3>2
  <2>4. ASSUME NEW i \in 2..(NINODES - 1), e.inode[i].ftype # "DIR", EntriesOf(e, i) # {}
        PROVE  e.inode[i].nlink = Cardinality(EntriesOf(e, i))
    <3>1. i # ino
      BY <1>2, <1>16, <2>1, <2>4
    <3> QED
      BY <1>1, <1>3, <1>16, <2>1, <2>4, <3>1 DEF Linked
  <2> QED
    BY <2>2, <2>3, <2>4 DEF Linked
<1>18. WellFormed(e)
  <2>1. DistinctNames(e)
    BY <1>15, NamesDistinct DEF WellFormed
  <2> QED
    BY <1>1, <1>3, <1>8, <1>9, <1>11, <1>14, <1>17, <2>1 DEF WellFormed, Consistent
<1>19. \A dir \in Directories(d) : BlankOffsets(e, dir) = BlankOffsets(d, dir)
  BY <1>13 DEF BlankOffsets
<1> QED
  BY <1>2, <1>3, <1>15, <1>16, <1>18, <1>19 DEF Prepared, e

-----------------------------------------------------------------------------
(* One entry set *)

(* e is d with x as the entry at offset off of directory dir, and m as the
   link count of inode z *)
EntrySet(d, e, dir, off, x, z, m) ==
  /\ e \in Disks /\ e.free = d.free /\ e.ptr = d.ptr
  /\ \A b \in Blocks, s \in Slots :
       e.ent[b][s] = IF b = Ptr(d, dir, off \div BLKSIZE) /\ s = (off % BLKSIZE)
                     THEN x ELSE d.ent[b][s]
  /\ \A i \in Inodes :
       /\ e.inode[i].size = d.inode[i].size /\ e.inode[i].ftype = d.inode[i].ftype
       /\ e.inode[i].symlink = d.inode[i].symlink /\ e.inode[i].direct = d.inode[i].direct
       /\ e.inode[i].indirect = d.inode[i].indirect
       /\ e.inode[i].indirect2 = d.inode[i].indirect2
       /\ e.inode[i].nlink = IF i = z THEN m ELSE d.inode[i].nlink

(* SetEntry sets one entry and no link count. *)
LEMMA SetEntryIs ==
  ASSUME NEW d, WellFormed(d), NEW dir \in Directories(d), NEW off \in Offsets(d, dir),
         NEW name \in Names \cup {NoName}, NEW ino \in Inodes, NEW z \in Inodes
  PROVE  EntrySet(d, SetEntry(d, dir, off, name, ino), dir, off,
                  [name |-> name, ino |-> ino], z, d.inode[z].nlink)
<1> DEFINE b0 == Ptr(d, dir, off \div BLKSIZE)
           s0 == off % BLKSIZE
           x == [name |-> name, ino |-> ino]
           e == [d EXCEPT !.ent[b0][s0] = x]
<1>1. inode_blockno(d, d.inode[dir], off) = b0 /\ s0 \in Slots
  BY DirIs, EntryIs
<1>2. SetEntry(d, dir, off, name, ino) = e
  BY <1>1 DEF SetEntry
<1>3. d \in Disks /\ x \in DirEntries
  BY DEF WellFormed, Consistent, DirEntries
<1> HIDE DEF b0, s0, x
<1>4. /\ e.free = d.free /\ e.ptr = d.ptr /\ e.inode = d.inode
      /\ e.ent = [d.ent EXCEPT ![b0][s0] = x] /\ e \in Disks
  BY <1>3 DEF Disks
<1>5. \A b \in Blocks, s \in Slots :
        e.ent[b][s] = IF b = b0 /\ s = s0 THEN x ELSE d.ent[b][s]
  BY <1>3, <1>4 DEF Disks
<1> HIDE DEF e
<1>6. EntrySet(d, e, dir, off, x, z, d.inode[z].nlink)
  BY <1>4, <1>5 DEF EntrySet, b0, s0
<1> QED
  BY <1>2, <1>6 DEF x

(* A link count set after the entry. *)
LEMMA SetLinksIs ==
  ASSUME NEW d, NEW e, NEW dir, NEW off, NEW x, NEW z \in Inodes, NEW n, NEW m \in Int,
         EntrySet(d, e, dir, off, x, z, n)
  PROVE  EntrySet(d, [e EXCEPT !.inode[z].nlink = m], dir, off, x, z, m)
<1> DEFINE oi == [e.inode[z] EXCEPT !.nlink = m]
           f == [e EXCEPT !.inode[z] = oi]
<1>1. f = [e EXCEPT !.inode[z].nlink = m] /\ e \in Disks
  BY DEF EntrySet
<1>2. /\ oi \in InodeRecords /\ oi.size = e.inode[z].size /\ oi.ftype = e.inode[z].ftype
      /\ oi.symlink = e.inode[z].symlink /\ oi.direct = e.inode[z].direct
      /\ oi.indirect = e.inode[z].indirect /\ oi.indirect2 = e.inode[z].indirect2
      /\ oi.nlink = m
  BY <1>1 DEF Disks, InodeRecords
<1> HIDE DEF oi
<1>3. /\ f \in Disks /\ f.inode[z] = oi /\ f.ptr = e.ptr /\ f.ent = e.ent /\ f.free = e.free
      /\ \A i \in Inodes : i # z => f.inode[i] = e.inode[i]
  BY <1>1, <1>2, InodeField
<1> HIDE DEF f
<1>4. EntrySet(d, f, dir, off, x, z, m)
  BY <1>2, <1>3 DEF EntrySet
<1> QED
  BY <1>1, <1>4

(* what a name is found at is the same but for one entry *)
NamesBut(d, e, dir, off, x) ==
  /\ Directories(e) = Directories(d)
  /\ \A D \in Directories(d) :
       /\ e.inode[D].size = d.inode[D].size /\ d.inode[D].size \in Nat
       /\ \A o \in Offsets(d, D) :
            EntryAt(e, D, o) = IF D = dir /\ o = off THEN x ELSE EntryAt(d, D, o)

(* Blocks of directories are not shared: nobody else's entry changes, and the
   space behind a directory stays blank. *)
LEMMA EntrySetNames ==
  ASSUME NEW d, WellFormed(d), NEW dir \in Directories(d), NEW off \in Offsets(d, dir),
         NEW x, NEW z, NEW m, NEW e, EntrySet(d, e, dir, off, x, z, m)
  PROVE  NamesBut(d, e, dir, off, x) /\ BlankTails(e)
<1>1. d \in Disks /\ Owned(d, d.free) /\ BlankTails(d)
  BY DEF WellFormed, Consistent
<1>2. \A D \in Directories(d) : D \in Inodes
  BY DirIs
<1>3. \A D \in DirInodes : D \in Inodes
  BY OspfsAssumption DEF Inodes
<1>4. Directories(e) = Directories(d)
  BY <1>3 DEF EntrySet, Directories
<1>5. ASSUME NEW D \in Directories(d)
      PROVE  /\ e.inode[D].size = d.inode[D].size /\ e.inode[D].ftype = "DIR"
             /\ nblocks(e, D) = nblocks(d, D) /\ \A k : Ptr(e, D, k) = Ptr(d, D, k)
             /\ Offsets(e, D) = Offsets(d, D)
  <2>1. /\ e.inode[D].size = d.inode[D].size /\ e.inode[D].ftype = d.inode[D].ftype
        /\ e.inode[D].direct = d.inode[D].direct /\ e.inode[D].indirect = d.inode[D].indirect
        /\ e.inode[D].indirect2 = d.inode[D].indirect2 /\ e.ptr = d.ptr
    BY <1>2 DEF EntrySet
  <2>2. \A k : Ptr(e, D, k) = Ptr(d, D, k)
    BY <2>1 DEF Ptr, BlockAt
  <2> QED
    BY <2>1, <2>2 DEF nblocks, Offsets, Directories
<1> DEFINE k0 == off \div BLKSIZE
<1>6. off \in Nat /\ k0 \in 0..(nblocks(d, dir) - 1) /\ off < d.inode[dir].size
  BY DirIs, EntryIs
<1>7. ASSUME NEW D \in Directories(d), NEW o \in Nat, o \div BLKSIZE \in 0..(nblocks(d, D) - 1)
      PROVE  Slot(e, D, o) = IF D = dir /\ o = off THEN x ELSE Slot(d, D, o)
  <2> DEFINE k == o \div BLKSIZE
             s == o % BLKSIZE
             b == Ptr(d, D, k)
  <2>1. MAXFILEBLKS \in Int
    <3>1. NINDIRECT * NINDIRECT \in Nat
      BY OspfsAssumption
    <3> QED
      BY <3>1, OspfsAssumption DEF MAXFILEBLKS
  <2>2. /\ k \in 0..(nblocks(d, D) - 1) /\ nblocks(d, D) \in 0..(MAXFILEBLKS - 1)
        /\ nblocks(d, dir) \in 0..(MAXFILEBLKS - 1) /\ D \in Live(d) /\ dir \in Live(d)
    BY <1>7, DirIs
  <2>3. s \in Slots
    BY OffsetInBlocks
  <2>4. b # 0
    BY <2>2, DirIs
  <2>5. Slot(e, D, o) = e.ent[b][s] /\ Slot(d, D, o) = d.ent[b][s]
    BY <1>5 DEF Slot
  <2>6. b = Ptr(d, dir, k0) /\ s = (off % BLKSIZE) <=> D = dir /\ o = off
    <3>1. ASSUME b = Ptr(d, dir, k0), s = (off % BLKSIZE) PROVE D = dir /\ o = off
      <4>1. k \in 0..(MAXFILEBLKS - 1) /\ k0 \in 0..(MAXFILEBLKS - 1)
        <5>1. k0 \in 0..(nblocks(d, dir) - 1)
          BY <1>6
        <5> HIDE DEF k, k0
        <5> QED
          BY <2>1, <2>2, <5>1
      <4>2. D = dir /\ k = k0
        <5> HIDE DEF k, k0
        <5> QED
          BY <1>1, <2>2, <2>4, <3>1, <4>1, PtrUnique
      <4>3. o = off
        BY <1>6, <3>1, <4>2, OffsetUnique
      <4> QED
        BY <4>2, <4>3
    <3> QED
      BY <3>1
  <2>7. b \in Blocks
    <3>1. k \in 0..(MAXFILEBLKS - 1)
      <4> HIDE DEF k
      <4> QED
        BY <2>1, <2>2
    <3> HIDE DEF k
    <3> QED
      BY <1>1, <2>2, <3>1, OwnedBlocks
  <2>8. e.ent[b][s] = IF b = Ptr(d, dir, k0) /\ s = (off % BLKSIZE) THEN x ELSE d.ent[b][s]
    <3> HIDE DEF b, s
    <3> QED
      BY <2>3, <2>7 DEF EntrySet
  <2> HIDE DEF b, s, k, k0
  <2> QED
    BY <2>5, <2>6, <2>8
<1>8. NamesBut(d, e, dir, off, x)
  <2>1. ASSUME NEW D \in Directories(d), NEW o \in Offsets(d, D)
        PROVE  EntryAt(e, D, o) = IF D = dir /\ o = off THEN x ELSE EntryAt(d, D, o)
    <3>1. /\ d.inode[D].ftype = "DIR" /\ d.inode[D].size \in Nat /\ o \in Offsets(e, D)
          /\ e.inode[D].ftype = "DIR" /\ e.inode[D].size \in Nat
      BY <1>5, DirIs
    <3>2. /\ EntryAt(d, D, o) = Slot(d, D, o) /\ o \in Nat
          /\ o \div BLKSIZE \in 0..(nblocks(d, D) - 1)
      BY <3>1, EntryIs
    <3>3. EntryAt(e, D, o) = Slot(e, D, o)
      BY <3>1, EntryIs
    <3> QED
      BY <1>7, <3>2, <3>3
  <2> QED
    BY <1>4, <1>5, <2>1, DirIs DEF NamesBut
<1>9. BlankTails(e)
  <2> SUFFICES ASSUME NEW D \in Directories(d),
                      NEW o \in d.inode[D].size..(BLKSIZE * nblocks(d, D) - 1)
               PROVE  Slot(e, D, o).ino = 0
    BY <1>4, <1>5 DEF BlankTails
  <2> DEFINE n == nblocks(d, D)
             p == BLKSIZE * n
  <2>1. n \in Nat /\ d.inode[D].size \in Nat /\ BLKSIZE \in Nat
    BY DirIs, OspfsAssumption
  <2>2. p \in Int
    BY <2>1
  <2>3. o \in d.inode[D].size..(p - 1)
    OBVIOUS
  <2>4. o \in Nat /\ o < p /\ o >= d.inode[D].size
    <3> HIDE DEF p
    <3> QED
      BY <2>1, <2>2, <2>3
  <2>5. o \div BLKSIZE \in Nat /\ o \div BLKSIZE < n
    <3> HIDE DEF n
    <3> QED
      BY <2>1, <2>4, OffsetInBlocks
  <2>6. o \div BLKSIZE \in 0..(n - 1)
    <3> DEFINE q == o \div BLKSIZE
    <3>1. q \in Nat /\ q < n
      BY <2>5
    <3> HIDE DEF q, n
    <3>2. q \in 0..(n - 1)
      BY <2>1, <3>1
    <3> QED
      BY <3>2 DEF q
  <2>7. Slot(e, D, o) = IF D = dir /\ o = off THEN x ELSE Slot(d, D, o)
    BY <1>7, <2>4, <2>6
  <2>8. ~(D = dir /\ o = off)
    BY <1>6, <2>1, <2>4
  <2>9. Slot(d, D, o).ino = 0
    BY <1>1, <2>3 DEF BlankTails
  <2> QED
    BY <2>7, <2>8, <2>9
<1> QED
  BY <1>8, <1>9

(* inode ino is named at one place more, or one less *)
OnePlaceMore(d, e, dir, off, ino) == EntriesOf(e, ino) = EntriesOf(d, ino) \cup {<<dir, off>>}
OnePlaceLess(d, e, dir, off, ino) == EntriesOf(e, ino) = EntriesOf(d, ino) \ {<<dir, off>>}

(* The places of an inode, and of a name, when one entry has been set. *)
LEMMA NamesButAre ==
  ASSUME NEW d, NEW e, NEW dir \in Directories(d), NEW off \in Offsets(d, dir), NEW x,
         NamesBut(d, e, dir, off, x)
  PROVE  /\ \A ino : x.ino = ino => OnePlaceMore(d, e, dir, off, ino)
         /\ \A ino : x.ino # ino => OnePlaceLess(d, e, dir, off, ino)
         /\ \A D \in Directories(d) : \A n :
              ~(D = dir /\ x.name = n /\ x.ino > 0) => Found(e, D, n) \subseteq Found(d, D, n)
<1>1. Directories(e) = Directories(d)
  BY DEF NamesBut
<1>2. \A D \in Directories(d) : Offsets(e, D) = Offsets(d, D)
  BY DEF NamesBut, Offsets
<1>3. \A D \in Directories(d) : \A o \in Offsets(d, D) :
        EntryAt(e, D, o) = IF D = dir /\ o = off THEN x ELSE EntryAt(d, D, o)
  BY DEF NamesBut
<1>4. ASSUME NEW ino, NEW p \in EntriesOf(e, ino)
      PROVE  IF p = <<dir, off>> THEN x.ino = ino ELSE p \in EntriesOf(d, ino)
  <2>1. PICK D \in Directories(e) : \E o \in Offsets(e, D) :
          p = <<D, o>> /\ EntryAt(e, D, o).ino = ino
    BY EntriesAre
  <2>2. PICK o \in Offsets(e, D) : p = <<D, o>> /\ EntryAt(e, D, o).ino = ino
    BY <2>1
  <2>3. D \in Directories(d) /\ o \in Offsets(d, D)
    BY <1>1, <1>2
  <2>4. CASE D = dir /\ o = off
    BY <1>3, <2>2, <2>3, <2>4
  <2>5. CASE ~(D = dir /\ o = off)
    <3>1. EntryAt(d, D, o).ino = ino /\ p # <<dir, off>>
      BY <1>3, <2>2, <2>3, <2>5
    <3> QED
      BY <2>2, <2>3, <3>1, EntriesAre
  <2> QED
    BY <2>4, <2>5
<1>5. ASSUME NEW ino, NEW p \in EntriesOf(d, ino), p # <<dir, off>>
      PROVE  p \in EntriesOf(e, ino)
  <2>1. PICK D \in Directories(d) : \E o \in Offsets(d, D) :
          p = <<D, o>> /\ EntryAt(d, D, o).ino = ino
    BY EntriesAre
  <2>2. PICK o \in Offsets(d, D) : p = <<D, o>> /\ EntryAt(d, D, o).ino = ino
    BY <2>1
  <2>3. EntryAt(e, D, o).ino = ino
    BY <1>3, <1>5, <2>2
  <2> QED
    BY <1>1, <1>2, <2>2, <2>3, EntriesAre
<1>6. ASSUME NEW ino, x.ino = ino PROVE <<dir, off>> \in EntriesOf(e, ino)
  <2>1. EntryAt(e, dir, off).ino = ino
    BY <1>3, <1>6
  <2> QED
    BY <1>1, <1>2, <2>1, EntriesAre
<1>7. ASSUME NEW ino, x.ino = ino
      PROVE  OnePlaceMore(d, e, dir, off, ino)
  BY <1>4, <1>5, <1>6, <1>7 DEF OnePlaceMore
<1>8. ASSUME NEW ino, x.ino # ino
      PROVE  OnePlaceLess(d, e, dir, off, ino)
  BY <1>4, <1>5, <1>8 DEF OnePlaceLess
<1>9. ASSUME NEW D \in Directories(d), NEW n, ~(D = dir /\ x.name = n /\ x.ino > 0),
             NEW o \in Found(e, D, n)
      PROVE  o \in Found(d, D, n)
  <2>1. o \in Offsets(d, D) /\ EntryAt(e, D, o).name = n /\ EntryAt(e, D, o).ino > 0
    BY <1>2 DEF Found
  <2>2. EntryAt(e, D, o) = EntryAt(d, D, o)
    BY <1>3, <1>9, <2>1
  <2> QED
    BY <2>1, <2>2 DEF Found
<1> QED
  BY <1>7, <1>8, <1>9

(* An image in which one entry, of the file z or of nobody, was set to z or to
   nobody, and with it the link count of z. *)
LEMMA EntrySetSound ==
  ASSUME NEW d, WellFormed(d), NEW dir \in Directories(d), NEW off \in Offsets(d, dir),
         NEW x, NEW z \in 2..(NINODES - 1), NEW m \in Nat, NEW e,
         EntrySet(d, e, dir, off, x, z, m), d.inode[z].ftype # "DIR",
         m > 0 \/ z \in Live(d), x.ino \in {0, z}, EntryAt(d, dir, off).ino \in {0, z},
         EntriesOf(e, z) # {} => m = Cardinality(EntriesOf(e, z)),
         x.ino = z => x.name \in Names /\ Found(d, dir, x.name) = {}
  PROVE  WellFormed(e)
<1>1. /\ d \in Disks /\ d.free \subseteq Data /\ Owned(d, d.free) /\ Filled(d) /\ Linked(d)
      /\ \A i \in Inodes : d.inode[i].size \in Nat /\ d.inode[i].nlink \in Nat
  BY DEF WellFormed, Consistent
<1>2. e \in Disks /\ e.free = d.free /\ e.ptr = d.ptr
  BY DEF EntrySet
<1>3. ASSUME NEW i \in Inodes
      PROVE  /\ e.inode[i].size = d.inode[i].size /\ e.inode[i].ftype = d.inode[i].ftype
             /\ e.inode[i].symlink = d.inode[i].symlink /\ e.inode[i].direct = d.inode[i].direct
             /\ e.inode[i].indirect = d.inode[i].indirect
             /\ e.inode[i].indirect2 = d.inode[i].indirect2
             /\ e.inode[i].nlink = IF i = z THEN m ELSE d.inode[i].nlink
  BY DEF EntrySet
<1>4. NamesBut(d, e, dir, off, x) /\ BlankTails(e)
  BY EntrySetNames
<1>5. Live(e) = Live(d) /\ \A i \in Live(d) : i \in Inodes
  BY <1>3 DEF Live
<1>6. Refs(e) = Refs(d)
  <2>1. \A i \in Live(d) : Pointers(e, i) = Pointers(d, i)
    BY <1>2, <1>3, <1>5 DEF Pointers
  <2> QED
    BY <1>5, <2>1 DEF Refs
<1>7. Consistent(e)
  BY <1>1, <1>2, <1>6 DEF Consistent, Owned
<1>8. \A i \in Inodes : e.inode[i].size \in Nat /\ e.inode[i].nlink \in Nat
  BY <1>1, <1>3
<1>9. Filled(e)
  <2>1. ASSUME NEW i \in Inodes
        PROVE  nblocks(e, i) = nblocks(d, i) /\ \A k : Ptr(e, i, k) = Ptr(d, i, k)
    BY <1>2, <1>3 DEF nblocks, Ptr, BlockAt
  <2> QED
    BY <1>1, <1>3, <2>1 DEF Filled
<1>10. ASSUME NEW i \in 2..(NINODES - 1), i # z PROVE EntriesOf(e, i) = EntriesOf(d, i)
  <2>1. x.ino # i /\ EntryAt(d, dir, off).ino # i
    BY <1>10
  <2>2. OnePlaceLess(d, e, dir, off, i)
    BY <1>4, <2>1, NamesButAre
  <2>3. <<dir, off>> \notin EntriesOf(d, i)
    BY <2>1, EntriesAre
  <2> QED
    BY <2>2, <2>3 DEF OnePlaceLess
<1>11. Linked(e)
  <2>1. ROOT_INO \in Inodes /\ \A i \in 2..(NINODES - 1) : i \in Inodes \ {0}
    BY OspfsAssumption DEF Inodes, ROOT_INO
  <2>2. e.inode[ROOT_INO].ftype = "DIR"
    BY <1>1, <1>3, <2>1 DEF Linked
  <2>3. ASSUME NEW i \in Inodes \ {0}, e.inode[i].ftype = "DIR" \/ i \notin Live(e)
        PROVE  e.inode[i].nlink > 0
    <3>1. d.inode[i].ftype = "DIR" \/ i \notin Live(d)
      BY <1>3, <1>5, <2>3
    <3>2. CASE i = z
      BY <1>3, <3>1, <3>2
    <3>3. CASE i # z
      BY <1>1, <1>3, <3>1, <3>3 DEF Linked
    <3> QED
      BY <3>2, <3>3
  <2>4. ASSUME NEW i \in 2..(NINODES - 1), e.inode[i].ftype # "DIR", EntriesOf(e, i) # {}
        PROVE  e.inode[i].nlink = Cardinality(EntriesOf(e, i))
    <3>1. CASE i = z
      BY <1>3, <2>1, <2>4, <3>1
    <3>2. CASE i # z
      BY <1>1, <1>3, <1>10, <2>1, <2>4, <3>2 DEF Linked
    <3> QED
      BY <3>1, <3>2
  <2> QED
    BY <2>2, <2>3, <2>4 DEF Linked
<1>12. DistinctNames(e)
  <2> SUFFICES ASSUME NEW D \in Directories(d), NEW o \in Offsets(d, D), NEW q \in Offsets(d, D),
                      EntryAt(e, D, o).ino > 0
               PROVE  /\ EntryAt(e, D, o).name \in Names /\ EntryAt(e, D, o).ino # ROOT_INO
                      /\ EntryAt(e, D, q).ino > 0 /\ EntryAt(e, D, q).name = EntryAt(e, D, o).name
                           => q = o
    <3>1. Directories(e) = Directories(d) /\ \A D \in Directories(d) : Offsets(e, D) = Offsets(d, D)
      BY <1>4 DEF NamesBut, Offsets
    <3> QED
      BY <3>1 DEF DistinctNames
  <2>1. \A k \in Offsets(d, D) :
          EntryAt(e, D, k) = IF D = dir /\ k = off THEN x ELSE EntryAt(d, D, k)
    BY <1>4 DEF NamesBut
  <2>2. \A k \in Offsets(d, D) : EntryAt(d, D, k).ino > 0 =>
          /\ EntryAt(d, D, k).name \in Names /\ EntryAt(d, D, k).ino # ROOT_INO
          /\ \A l \in Offsets(d, D) :
               EntryAt(d, D, l).ino > 0 /\ EntryAt(d, D, l).name = EntryAt(d, D, k).name => l = k
    BY DEF WellFormed, DistinctNames
  <2>3. x.ino > 0 => x.ino = z /\ z # ROOT_INO /\ x.name \in Names
    BY DEF ROOT_INO
  <2>4. ASSUME D = dir, NEW k \in Offsets(d, D), EntryAt(d, D, k).ino > 0, x.ino > 0
        PROVE  EntryAt(d, D, k).name # x.name
    BY <2>3, <2>4 DEF Found
  <2>5. CASE D = dir /\ o = off
    <3>1. EntryAt(e, D, o) = x /\ x.ino > 0
      BY <2>1, <2>5
    <3>2. ASSUME q # o, EntryAt(e, D, q).ino > 0, EntryAt(e, D, q).name = x.name PROVE FALSE
      <4>1. EntryAt(e, D, q) = EntryAt(d, D, q)
        BY <2>1, <2>5, <3>2
      <4> QED
        BY <2>4, <2>5, <3>1, <3>2, <4>1
    <3> QED
      BY <2>3, <3>1, <3>2
  <2>6. CASE ~(D = dir /\ o = off)
    <3>1. EntryAt(e, D, o) = EntryAt(d, D, o)
      BY <2>1, <2>6
    <3>2. ASSUME EntryAt(e, D, q).ino > 0, EntryAt(e, D, q).name = EntryAt(e, D, o).name
          PROVE  q = o
      <4>1. CASE D = dir /\ q = off
        <5>1. EntryAt(e, D, q) = x
          BY <2>1, <4>1
        <5> QED
          BY <2>4, <3>1, <3>2, <4>1, <5>1
      <4>2. CASE ~(D = dir /\ q = off)
        <5>1. EntryAt(e, D, q) = EntryAt(d, D, q)
          BY <2>1, <4>2
        <5> QED
          BY <2>2, <3>1, <3>2, <5>1
      <4> QED
        BY <4>1, <4>2
    <3> QED
      BY <2>2, <3>1, <3>2
  <2> QED
    BY <2>5, <2>6
<1> QED
  BY <1>4, <1>7, <1>8, <1>9, <1>11, <1>12 DEF WellFormed

-----------------------------------------------------------------------------
(* Room for an entry, and handles *)

(* The names of an image are its own. *)
LEMMA NamesReflexive ==
  ASSUME NEW d, WellFormed(d)
  PROVE  SameNames(d, d)
<1>1. \A dir \in Directories(d) : d.inode[dir].size \in Nat
  BY DirIs
<1>2. ASSUME NEW dir \in Directories(d), NEW off \in Offsets(d, dir)
      PROVE  ~(off >= d.inode[dir].size)
  BY <1>1 DEF Offsets
<1>3. \A dir \in Directories(d) : d.inode[dir].size <= d.inode[dir].size
  BY <1>1
<1> QED
  BY <1>1, <1>2, <1>3 DEF SameNames

(* a careful client's demand: a full directory can grow *)
Room(d, dir) ==
  BlankOffsets(d, dir) = {} =>
    LET n == size2nblocks(d.inode[dir].size + BLKBITSIZE)
    IN n < MAXFILEBLKS /\ (n > NDIRECT + NINDIRECT => Cardinality(d.free) >= n + 3)

(* how b is a blank entry of directory dir of the image d *)
Blank(d, b, dir) ==
  /\ WellFormed(b.disk) /\ SameNames(d, b.disk) /\ OnlyBlocksOf(d, b.disk, dir)
  /\ b.r \in {"OK", "ENOSPC"}
  /\ b.r = "OK" => b.off \in Offsets(b.disk, dir) /\ EntryAt(b.disk, dir, b.off).ino = 0

(* create_blank_direntry finds an entry that nobody uses, in the space the
   directory had or in the space it got. *)
LEMMA BlankIs ==
  ASSUME NEW d, WellFormed(d), NEW dir \in Directories(d), Room(d, dir)
  PROVE  Blank(d, create_blank_direntry(d, dir), dir)
<1> DEFINE b == create_blank_direntry(d, dir)
           size == d.inode[dir].size
           grown == change_size(d, dir, size + BLKBITSIZE)
           B == BlankOffsets(d, dir)
<1>1. /\ dir \in Inodes \ {0} /\ d.inode[dir].ftype = "DIR" /\ size \in Nat
      /\ BLKBITSIZE \in Nat /\ BLKBITSIZE > 1
  BY DirIs, OspfsAssumption DEF DIRENTRY_SIZE
<1>2. CASE B # {}
  <2>1. b.disk = d /\ b.r = "OK" /\ b.off = Min(B)
    BY <1>2 DEF create_blank_direntry
  <2>2. B \in SUBSET Nat
    BY DEF BlankOffsets, Offsets
  <2> HIDE DEF b
  <2>3. b.off \in B
    <3> HIDE DEF B
    <3> QED
      BY <1>2, <2>1, <2>2, MinIs
  <2>4. b.off \in Offsets(d, dir) /\ EntryAt(d, dir, b.off).ino = 0
    BY <2>3 DEF BlankOffsets
  <2>5. OnlyBlocksOf(d, d, dir) /\ SameNames(d, d)
    BY NamesReflexive DEF OnlyBlocksOf
  <2>6. Blank(d, b, dir)
    BY <2>1, <2>4, <2>5 DEF Blank
  <2> QED
    BY <2>6 DEF b
<1>3. CASE B = {}
  <2> DEFINE new == size + BLKBITSIZE
             n == size2nblocks(new)
  <2>1. b.disk = grown.disk /\ b.r = grown.r /\ b.off = size + DIRENTRY_SIZE
    BY <1>3 DEF create_blank_direntry
  <2>2. n < MAXFILEBLKS /\ (n > NDIRECT + NINDIRECT => Cardinality(d.free) >= n + 3)
    BY <1>3 DEF Room
  <2>3. new \in Nat /\ new > size + 1
    BY <1>1
  <2>4. n \in Nat /\ MAXFILEBLKS \in Int
    <3>1. NINDIRECT * NINDIRECT \in Nat
      BY OspfsAssumption
    <3>2. new \in Int /\ new > -BLKSIZE
      BY <2>3, OspfsAssumption
    <3> QED
      BY <3>1, <3>2, BlocksCover, OspfsAssumption DEF MAXFILEBLKS
  <2>5. n \in 0..(MAXFILEBLKS - 1)
    <3> HIDE DEF n
    <3> QED
      BY <2>2, <2>4
  <2> HIDE DEF b
  <2>6. Resizes(d, grown, dir, new)
    <3>1. new >= size /\ "DIR" # "SYMLINK"
      BY <1>1, <2>3
    <3> HIDE DEF grown, new
    <3> QED
      BY <1>1, <2>2, <2>3, <2>5, <3>1, ResizeIs DEF grown, new
  <2> HIDE DEF grown
  <2>7. /\ WellFormed(b.disk) /\ SameNames(d, b.disk) /\ OnlyBlocksOf(d, b.disk, dir)
        /\ b.r \in {"OK", "ENOSPC"}
        /\ b.r = "OK" => b.disk.inode[dir].size = new
    BY <2>1, <2>6 DEF Resizes
  <2>8. ASSUME b.r = "OK" PROVE b.off \in Offsets(b.disk, dir) /\ EntryAt(b.disk, dir, b.off).ino = 0
    <3>1. b.off \in Offsets(b.disk, dir) /\ b.off >= size
      BY <1>1, <2>1, <2>3, <2>7, <2>8 DEF Offsets, DIRENTRY_SIZE
    <3> QED
      BY <2>7, <3>1 DEF SameNames
  <2>9. Blank(d, b, dir)
    BY <2>7, <2>8 DEF Blank
  <2> QED
    BY <2>9 DEF b
<1> QED
  BY <1>2, <1>3

(* The inode that find_free_inode finds has no link. *)
LEMMA FreeInodeIs ==
  ASSUME NEW d, find_free_inode(d) # 0
  PROVE  find_free_inode(d) \in 2..(NINODES - 1) /\ d.inode[find_free_inode(d)].nlink = 0
<1> DEFINE F == {i \in 2..(NINODES - 1) : d.inode[i].nlink = 0}
<1>1. find_free_inode(d) = IF F = {} THEN 0 ELSE Min(F)
  BY DEF find_free_inode
<1>2. F \in SUBSET Nat
  OBVIOUS
<1>3. F # {} => Min(F) \in F
  <2> HIDE DEF F
  <2> QED
    BY <1>2, MinIs
<1>4. find_free_inode(d) \in F
  <2> HIDE DEF F
  <2> QED
    BY <1>1, <1>3
<1> QED
  BY <1>4

(* a name of d is found in e at no offset where it was not *)
NamesKept(d, e) ==
  /\ Directories(e) = Directories(d)
  /\ \A dir \in Directories(d) : \A n \in Names :
       Found(d, dir, n) # {} => Found(e, dir, n) \subseteq Found(d, dir, n)

(* The handles stay valid when a call leaves names in their places and the
   open file a regular file. *)
LEMMA DoneSound ==
  ASSUME Sound, NEW d, NEW r, Done(d, r), WellFormed(d), NamesKept(disk, d),
         filp # 0 => d.inode[filp].ftype = "REG"
  PROVE  Sound'
<1>1. /\ WellFormed(disk) /\ filp \in Inodes /\ f_pos \in Nat /\ left \in Nat
      /\ filp # 0 => scan.dir = 0
      /\ scan \in [dir : Directories(disk) \cup {0}, pos : Nat, todo : SUBSET Names]
      /\ scan.dir # 0 => \A n \in scan.todo :
           find_direntry(disk, scan.dir, n) \in scan.pos..(disk.inode[scan.dir].size - 1)
  BY DEF Sound, Handles
<1>2. disk' = d /\ filp' = filp /\ f_pos' = f_pos /\ left' = left
  BY DEF Done
<1> DEFINE T == {n \in scan.todo :
                   scan.dir # 0 /\ Lookup(d, scan.dir, n) = Lookup(disk, scan.dir, n)}
<1>3. scan' = [scan EXCEPT !.todo = T]
  BY DEF Done
<1>4. /\ T \subseteq scan.todo
      /\ \A n \in T : Lookup(d, scan.dir, n) = Lookup(disk, scan.dir, n)
  OBVIOUS
<1> HIDE DEF T
<1>5. Directories(d) = Directories(disk)
  BY DEF NamesKept
<1>6. /\ scan'.dir = scan.dir /\ scan'.pos = scan.pos /\ scan'.todo = T
      /\ scan' \in [dir : Directories(d) \cup {0}, pos : Nat, todo : SUBSET Names]
  BY <1>1, <1>3, <1>4, <1>5
<1>7. ASSUME scan.dir # 0, NEW n \in T
      PROVE  find_direntry(d, scan.dir, n) \in scan.pos..(d.inode[scan.dir].size - 1)
  <2> DEFINE dir == scan.dir
             o == find_direntry(disk, dir, n)
             q == find_direntry(d, dir, n)
  <2>1. dir \in Directories(disk) /\ scan.pos \in Nat /\ n \in Names /\ n \in scan.todo
    BY <1>1, <1>4, <1>7
  <2>2. disk.inode[dir].size \in Nat /\ d.inode[dir].size \in Nat
    BY <1>1, <1>5, <2>1, DirIs
  <2>3. o \in scan.pos..(disk.inode[dir].size - 1)
    BY <1>1, <1>7, <2>1
  <2>4. o # -1
    <3> HIDE DEF o
    <3> QED
      BY <2>1, <2>2, <2>3
  <2>5. Found(disk, dir, n) # {}
    BY <2>2, <2>4, FindIs
  <2>6. Lookup(disk, dir, n) # 0 /\ \A off \in Found(disk, dir, n) : o <= off
    BY <2>2, <2>5, FindIs
  <2>7. Lookup(d, dir, n) # 0
    BY <1>4, <1>7, <2>6
  <2>8. q \in Found(d, dir, n)
    BY <2>2, <2>7, FindIs
  <2>9. q \in Found(disk, dir, n) /\ q \in Offsets(d, dir)
    BY <2>1, <2>5, <2>8 DEF NamesKept, Found
  <2>10. o <= q /\ q \in 0..(d.inode[dir].size - 1)
    BY <2>6, <2>9 DEF Offsets
  <2> HIDE DEF o, q, dir
  <2>11. q \in scan.pos..(d.inode[dir].size - 1)
    BY <2>1, <2>2, <2>3, <2>10
  <2> QED
    BY <2>11 DEF q, dir
<1>8. WellFormed(disk)' /\ Directories(disk)' = Directories(d)
  BY <1>2
<1>9. /\ (filp \in Inodes /\ f_pos \in Nat /\ left \in Nat)'
      /\ (filp # 0 => disk.inode[filp].ftype = "REG" /\ scan.dir = 0)'
  BY <1>1, <1>2, <1>6
<1>10. (scan \in [dir : Directories(disk) \cup {0}, pos : Nat, todo : SUBSET Names])'
  BY <1>6, <1>8
<1>11. (scan.dir # 0 => \A n \in scan.todo :
          find_direntry(disk, scan.dir, n) \in scan.pos..(disk.inode[scan.dir].size - 1))'
  BY <1>2, <1>6, <1>7
<1> QED
  BY <1>8, <1>9, <1>10, <1>11 DEF Sound, Handles

-----------------------------------------------------------------------------
(* New names *)

(* Names kept through a call that only makes room. *)
LEMMA KeptSame ==
  ASSUME NEW d, NEW e, SameNames(d, e)
  PROVE  /\ NamesKept(d, e)
         /\ \A f : NamesKept(e, f) => NamesKept(d, f)
         /\ \A c : NamesKept(c, d) => NamesKept(c, e)
<1>1. Directories(e) = Directories(d)
  BY DEF SameNames
<1>2. \A dir \in Directories(d) : \A n \in Names : Found(e, dir, n) = Found(d, dir, n)
  BY NamesSame
<1>3. NamesKept(d, e)
  BY <1>1, <1>2 DEF NamesKept
<1>4. ASSUME NEW f, NamesKept(e, f) PROVE NamesKept(d, f)
  BY <1>1, <1>2, <1>4 DEF NamesKept
<1>5. ASSUME NEW c, NamesKept(c, d) PROVE NamesKept(c, e)
  BY <1>1, <1>2, <1>5 DEF NamesKept
<1> QED
  BY <1>3, <1>4, <1>5

(* The file a name leads to. *)
LEMMA LookupIs ==
  ASSUME NEW d, WellFormed(d), NEW dir \in Directories(d), NEW n, Lookup(d, dir, n) # 0
  PROVE  /\ find_direntry(d, dir, n) \in Found(d, dir, n)
         /\ find_direntry(d, dir, n) \in Offsets(d, dir)
         /\ EntryAt(d, dir, find_direntry(d, dir, n)).ino = Lookup(d, dir, n)
         /\ Lookup(d, dir, n) \in Inodes \ {0}
         /\ <<dir, find_direntry(d, dir, n)>> \in EntriesOf(d, Lookup(d, dir, n))
         /\ d.inode[Lookup(d, dir, n)].ftype # "DIR" =>
              /\ Lookup(d, dir, n) \in 2..(NINODES - 1)
              /\ d.inode[Lookup(d, dir, n)].nlink = Cardinality(EntriesOf(d, Lookup(d, dir, n)))
<1> DEFINE off == find_direntry(d, dir, n)
           ino == Lookup(d, dir, n)
<1>1. /\ d.inode[dir].size \in Nat /\ d.inode[dir].ftype = "DIR" /\ dir \in Live(d)
      /\ nblocks(d, dir) \in 0..(MAXFILEBLKS - 1)
  BY DirIs
<1>2. off \in Found(d, dir, n) /\ ino = EntryAt(d, dir, off).ino
  BY <1>1, FindIs
<1>3. off \in Offsets(d, dir)
  BY <1>2 DEF Found
<1>4. <<dir, off>> \in EntriesOf(d, ino)
  BY <1>2, <1>3, EntriesAre
<1>5. ino \in Inodes
  <2> DEFINE q == off \div BLKSIZE
             s == off % BLKSIZE
  <2>1. EntryAt(d, dir, off) = d.ent[Ptr(d, dir, q)][s] /\ q \in 0..(nblocks(d, dir) - 1) /\ s \in Slots
    BY <1>1, <1>3, EntryIs DEF Slot
  <2>2. MAXFILEBLKS \in Int
    <3>1. NINDIRECT * NINDIRECT \in Nat
      BY OspfsAssumption
    <3> QED
      BY <3>1, OspfsAssumption DEF MAXFILEBLKS
  <2> HIDE DEF q, s
  <2>3. q \in 0..(MAXFILEBLKS - 1)
    BY <1>1, <2>1, <2>2
  <2>4. d \in Disks /\ Owned(d, d.free)
    BY DEF WellFormed, Consistent
  <2>5. Ptr(d, dir, q) \in Blocks
    BY <1>1, <2>3, <2>4, OwnedBlocks
  <2> HIDE DEF off
  <2>6. EntryAt(d, dir, off).ino \in Inodes
    BY <2>1, <2>4, <2>5 DEF Disks, DirEntries
  <2> QED
    BY <1>2, <2>6 DEF off
<1>6. ASSUME d.inode[ino].ftype # "DIR"
      PROVE  ino \in 2..(NINODES - 1) /\ d.inode[ino].nlink = Cardinality(EntriesOf(d, ino))
  <2> HIDE DEF ino
  <2>1. ino # 0
    BY DEF ino
  <2>2. Linked(d)
    BY DEF WellFormed
  <2>3. ino # ROOT_INO
    BY <1>6, <2>2 DEF Linked
  <2>4. ino \in 2..(NINODES - 1)
    BY <1>5, <2>1, <2>3, OspfsAssumption DEF Inodes, ROOT_INO
  <2>5. EntriesOf(d, ino) # {}
    BY <1>4
  <2> QED
    BY <1>6, <2>2, <2>4, <2>5 DEF Linked
<1> QED
  BY <1>2, <1>3, <1>4, <1>5, <1>6

(* One more name for a file, in a blank entry. *)
LEMMA NewName ==
  ASSUME NEW d, WellFormed(d), NEW dir \in Directories(d), NEW off \in Offsets(d, dir),
         EntryAt(d, dir, off).ino = 0, NEW name \in Names, Found(d, dir, name) = {},
         NEW z \in 2..(NINODES - 1), d.inode[z].ftype # "DIR", NEW m,
         m = Cardinality(EntriesOf(d, z)) + 1,
         NEW e, EntrySet(d, e, dir, off, [name |-> name, ino |-> z], z, m)
  PROVE  WellFormed(e) /\ NamesKept(d, e)
<1> DEFINE x == [name |-> name, ino |-> z]
           p == <<dir, off>>
<1>1. x.ino = z /\ x.name = name /\ z # 0 /\ z > 0
  OBVIOUS
<1>2. EntrySet(d, e, dir, off, x, z, m)
  OBVIOUS
<1> HIDE DEF x
<1>3. NamesBut(d, e, dir, off, x)
  BY <1>2, EntrySetNames
<1>4. EntriesOf(e, z) = EntriesOf(d, z) \cup {p}
  <2>1. OnePlaceMore(d, e, dir, off, z)
    BY <1>1, <1>3, NamesButAre
  <2> QED
    BY <2>1 DEF OnePlaceMore
<1>5. p \notin EntriesOf(d, z)
  BY <1>1, EntriesAre
<1>6. IsFiniteSet(EntriesOf(d, z)) /\ Cardinality(EntriesOf(d, z)) \in Nat
  BY EntriesFinite
<1>7. Cardinality(EntriesOf(e, z)) = m /\ m \in Nat /\ m > 0
  <2> HIDE DEF p
  <2>1. Cardinality(EntriesOf(d, z) \cup {p}) = Cardinality(EntriesOf(d, z)) + 1
    BY <1>5, <1>6, FS_AddElement
  <2> QED
    BY <1>4, <1>6, <2>1
<1>8. x.ino \in {0, z} /\ EntryAt(d, dir, off).ino \in {0, z}
  BY <1>1
<1>9. WellFormed(e)
  BY <1>1, <1>2, <1>7, <1>8, EntrySetSound
<1>10. ASSUME NEW D \in Directories(d), NEW n \in Names, Found(d, D, n) # {}
       PROVE  Found(e, D, n) \subseteq Found(d, D, n)
  <2>1. ~(D = dir /\ x.name = n /\ x.ino > 0)
    BY <1>1, <1>10
  <2> QED
    BY <1>3, <2>1, NamesButAre
<1>11. NamesKept(d, e)
  BY <1>3, <1>10 DEF NamesKept, NamesBut
<1> QED
  BY <1>9, <1>11

(* What a careful client asks for there is room for. *)
LEMMA RoomIs ==
  ASSUME Careful, NEW dir, MayEnter(dir)
  PROVE  Room(disk, dir)
BY DEF MayEnter, MayGrow, Room

(* e has the names of d and, but for z, its files with their sizes *)
Keeps(d, e, z) ==
  /\ WellFormed(e) /\ SameNames(d, e)
  /\ \A i \in Inodes : i # z =>
       /\ e.inode[i].ftype = d.inode[i].ftype
       /\ d.inode[i].ftype # "DIR" => e.inode[i].size = d.inode[i].size

(* f is d with one more name, for file z; the sizes of others than y are kept *)
Bound(d, f, dir, name, z, y) ==
  /\ WellFormed(f) /\ NamesKept(d, f)
  /\ \E g, off, m :
       /\ Keeps(d, g, y) /\ off \in Offsets(g, dir) /\ EntryAt(g, dir, off).ino = 0
       /\ Found(g, dir, name) = {}
       /\ EntrySet(g, f, dir, off, [name |-> name, ino |-> z], z, m)

(* the open file is a regular file of d *)
Regular(d) == filp # 0 => d.inode[filp].ftype = "REG"

(* oi is what inode ino, which has no link, is set up as for a new file *)
Ready(ino, oi) ==
  /\ ino \in 2..(NINODES - 1) /\ oi.nlink = 1 /\ oi.ftype # "DIR"
  /\ Prepared(disk, [disk EXCEPT !.inode[ino] = oi], ino, oi)
  /\ filp = ino => oi.ftype = "REG"

(* how a new file or symbolic link is made: the inode set up, room made for an
   entry, the entry set; or there is no room *)
Makes(dir, name, ino) ==
  \/ \E g : Keeps(disk, g, ino) /\ Regular(g) /\ Done(g, "ENOSPC")
  \/ \E f : \E r \in {"OK", "ENOMEM"} :
       Bound(disk, f, dir, name, ino, ino) /\ Regular(f) /\ Done(f, r)

(* A new file or symbolic link. *)
LEMMA NewFileIs ==
  ASSUME Sound, NEW dir \in Directories(disk), NEW name \in Names, Room(disk, dir),
         NEW ino, NEW oi, NewFile(dir, name, ino, oi),
         Lookup(disk, dir, name) = 0, ino # 0, Ready(ino, oi)
  PROVE  Makes(dir, name, ino)
<1> DEFINE e == [disk EXCEPT !.inode[ino] = oi]
           b == create_blank_direntry(e, dir)
<1>0. /\ WellFormed(disk) /\ filp \in Inodes
      /\ filp # 0 => disk.inode[filp].ftype = "REG"
  BY DEF Sound, Handles
<1>1. /\ ino \in 2..(NINODES - 1) /\ oi.nlink = 1 /\ oi.ftype # "DIR"
      /\ Prepared(disk, e, ino, oi) /\ (filp = ino => oi.ftype = "REG")
      /\ NewEntry(b, dir, name, ino)
  BY DEF NewFile, Ready
<1>2. ino \in Inodes /\ dir \in Inodes
  BY <1>0, <1>1, DirIs, OspfsAssumption DEF Inodes
<1> HIDE DEF b
<1>3. /\ WellFormed(e) /\ SameNames(disk, e) /\ e.free = disk.free /\ e.inode[ino] = oi
      /\ \A i \in Inodes : i # ino => e.inode[i] = disk.inode[i]
      /\ EntriesOf(e, ino) = {} /\ BlankOffsets(e, dir) = BlankOffsets(disk, dir)
  BY <1>1 DEF Prepared
<1> HIDE DEF e
<1>4. dir \in Directories(e)
  BY <1>3 DEF SameNames
<1>5. e.inode[dir].ftype = "DIR"
  BY <1>3, <1>4, DirIs
<1>6. dir # ino
  BY <1>1, <1>3, <1>5
<1>7. Room(e, dir)
  <2>1. e.inode[dir] = disk.inode[dir]
    BY <1>2, <1>3, <1>6
  <2> QED
    BY <1>3, <2>1 DEF Room
<1>8. Blank(e, b, dir)
  BY <1>3, <1>4, <1>7, BlankIs DEF b
<1>9. /\ WellFormed(b.disk) /\ SameNames(e, b.disk) /\ OnlyBlocksOf(e, b.disk, dir)
      /\ b.r \in {"OK", "ENOSPC"}
      /\ b.r = "OK" => b.off \in Offsets(b.disk, dir) /\ EntryAt(b.disk, dir, b.off).ino = 0
  BY <1>8 DEF Blank
<1>10. \A i \in Inodes : b.disk.inode[i].ftype = e.inode[i].ftype
  BY <1>9 DEF OnlyBlocksOf
<1>11. filp # 0 => b.disk.inode[filp].ftype = "REG"
  BY <1>0, <1>1, <1>3, <1>10
<1>12. SameNames(disk, b.disk)
  BY <1>3, <1>9, NamesTwice
<1>13. NamesKept(disk, b.disk) /\ \A f : NamesKept(b.disk, f) => NamesKept(disk, f)
  BY <1>12, KeptSame
<1>14. Keeps(disk, b.disk, ino) /\ Regular(b.disk)
  <2>1. ASSUME NEW i \in Inodes, i # ino
        PROVE  /\ b.disk.inode[i].ftype = disk.inode[i].ftype
               /\ disk.inode[i].ftype # "DIR" => b.disk.inode[i].size = disk.inode[i].size
    <3>1. e.inode[i] = disk.inode[i]
      BY <1>3, <2>1
    <3>2. i # dir => b.disk.inode[i] = e.inode[i]
      BY <1>9 DEF OnlyBlocksOf
    <3> QED
      BY <1>5, <1>10, <3>1, <3>2
  <2> QED
    BY <1>9, <1>11, <1>12, <2>1 DEF Keeps, Regular
<1>15. CASE b.r # "OK"
  BY <1>1, <1>9, <1>14, <1>15 DEF NewEntry, Makes
<1>16. CASE b.r = "OK"
  <2> DEFINE g == b.disk
             off == b.off
             f == SetEntry(g, dir, off, name, ino)
             x == [name |-> name, ino |-> ino]
  <2>1. PICK r \in {"OK", "ENOMEM"} : Done(f, r)
    BY <1>1, <1>16 DEF NewEntry
  <2>2. dir \in Directories(g) /\ off \in Offsets(g, dir) /\ EntryAt(g, dir, off).ino = 0
    BY <1>4, <1>9, <1>16 DEF SameNames
  <2>3. g.inode[ino] = oi
    BY <1>2, <1>3, <1>6, <1>9 DEF OnlyBlocksOf
  <2>4. EntriesOf(g, ino) = {}
    <3>1. ino \in Inodes \ {0}
      BY <1>1, <1>2
    <3> QED
      BY <1>3, <1>9, <3>1, NamesSame
  <2>5. Found(g, dir, name) = {}
    <3>1. Lookup(g, dir, name) = 0
      BY <1>12, NamesSame
    <3>2. g.inode[dir].size \in Nat
      BY <1>9, <2>2, DirIs
    <3> QED
      BY <3>1, <3>2, FindIs
  <2>6. WellFormed(g)
    BY <1>9
  <2> HIDE DEF g, off
  <2>7. EntrySet(g, f, dir, off, x, ino, g.inode[ino].nlink)
    BY <1>2, <2>2, <2>6, SetEntryIs
  <2>8. g.inode[ino].nlink = Cardinality(EntriesOf(g, ino)) + 1
    BY <1>1, <2>3, <2>4, FS_EmptySet
  <2> HIDE DEF f
  <2>9. WellFormed(f) /\ NamesKept(g, f)
    BY <1>1, <2>2, <2>3, <2>5, <2>6, <2>7, <2>8, NewName
  <2>10. filp # 0 => f.inode[filp].ftype = "REG"
    <3>1. \A i \in Inodes : f.inode[i].ftype = g.inode[i].ftype
      BY <2>7 DEF EntrySet
    <3> QED
      BY <1>0, <1>11, <3>1 DEF g
  <2>11. NamesKept(disk, f)
    BY <1>13, <2>9 DEF g
  <2>12. Bound(disk, f, dir, name, ino, ino)
    <3>1. Keeps(disk, g, ino)
      BY <1>14 DEF g
    <3> QED
      BY <2>2, <2>5, <2>7, <2>9, <2>11, <3>1 DEF Bound
  <2> QED
    BY <2>1, <2>10, <2>12 DEF Makes, Regular
<1> QED
  BY <1>16, <1>15

(* a call that makes a file or link called name *)
Asks(dir, name) ==
  Room(disk, dir) /\ \E ino, oi : NewFile(dir, name, ino, oi) /\ (ino # 0 => Ready(ino, oi))

(* Whether the new file or link is made or not, the image stays sound. *)
LEMMA NewFileSound ==
  ASSUME Sound, NEW dir \in Directories(disk), NEW name \in Names, Asks(dir, name)
  PROVE  Sound'
<1>1. WellFormed(disk) /\ (filp # 0 => disk.inode[filp].ftype = "REG")
  BY DEF Sound, Handles
<1>2. NamesKept(disk, disk)
  BY <1>1, NamesReflexive, KeptSame
<1>3. Room(disk, dir)
  BY DEF Asks
<1>4. PICK ino, oi : NewFile(dir, name, ino, oi) /\ (ino # 0 => Ready(ino, oi))
  BY DEF Asks
<1>5. CASE Lookup(disk, dir, name) # 0
  BY <1>1, <1>2, <1>4, <1>5, DoneSound DEF NewFile
<1>6. CASE Lookup(disk, dir, name) = 0 /\ ino = 0
  BY <1>1, <1>2, <1>4, <1>6, DoneSound DEF NewFile
<1>7. CASE Lookup(disk, dir, name) = 0 /\ ino # 0
  <2>1. Makes(dir, name, ino)
    BY <1>3, <1>4, <1>7, NewFileIs
  <2>2. ASSUME NEW g, Keeps(disk, g, ino), Regular(g), Done(g, "ENOSPC") PROVE Sound'
    <3>1. WellFormed(g) /\ NamesKept(disk, g)
      BY <2>2, KeptSame DEF Keeps
    <3> QED
      BY <2>2, <3>1, DoneSound DEF Regular
  <2>3. ASSUME NEW f, NEW r, Bound(disk, f, dir, name, ino, ino), Regular(f), Done(f, r)
        PROVE  Sound'
    BY <2>3, DoneSound DEF Regular, Bound
  <2> QED
    BY <2>1, <2>2, <2>3 DEF Makes
<1> QED
  BY <1>5, <1>6, <1>7

(* The fields of an inode that a new file or link sets. *)
LEMMA InodeSet ==
  ASSUME NEW r \in InodeRecords, NEW size \in Int, NEW ftype \in {"REG", "SYMLINK"},
         NEW text \in {"none", "short", "long", "cond", "cut"}
  PROVE  /\ [r EXCEPT !.size = size, !.ftype = ftype, !.nlink = 1, !.symlink = text]
              \in InodeRecords
         /\ \A direct \in [0..(NDIRECT - 1) -> 0..NBLOCKS] :
              [r EXCEPT !.size = size, !.ftype = ftype, !.nlink = 1, !.symlink = text,
                        !.direct = direct] \in InodeRecords
<1> DEFINE r1 == [r EXCEPT !.size = size]
           r2 == [r1 EXCEPT !.ftype = ftype]
           r3 == [r2 EXCEPT !.nlink = 1]
           r4 == [r3 EXCEPT !.symlink = text]
           r5(v) == [r4 EXCEPT !.direct = v]
<1>1. /\ r4 = [r EXCEPT !.size = size, !.ftype = ftype, !.nlink = 1, !.symlink = text]
      /\ \A v : r5(v) = [r EXCEPT !.size = size, !.ftype = ftype, !.nlink = 1,
                                  !.symlink = text, !.direct = v]
  OBVIOUS
<1>2. r1 \in InodeRecords
  BY DEF InodeRecords
<1> HIDE DEF r1
<1>3. r2 \in InodeRecords
  BY <1>2 DEF InodeRecords
<1> HIDE DEF r2
<1>4. r3 \in InodeRecords
  BY <1>3 DEF InodeRecords
<1> HIDE DEF r3
<1>5. r4 \in InodeRecords
  BY <1>4 DEF InodeRecords
<1> HIDE DEF r4
<1>6. ASSUME NEW v \in [0..(NDIRECT - 1) -> 0..NBLOCKS] PROVE r5(v) \in InodeRecords
  BY <1>5 DEF InodeRecords
<1> HIDE DEF r5
<1> QED
  BY <1>1, <1>5, <1>6

(* ospfs_create *)
LEMMA CreateIs ==
  ASSUME Careful, Sound, NEW dir \in Directories(disk), NEW name \in Names, Create(dir, name)
  PROVE  Asks(dir, name)
<1> DEFINE ino == find_free_inode(disk)
           oi == [disk.inode[ino] EXCEPT !.size = 0, !.ftype = "REG", !.nlink = 1,
                                         !.symlink = "none"]
<1>1. MayEnter(dir) /\ NewFile(dir, name, ino, oi)
  BY DEF Create
<1>2. WellFormed(disk) /\ disk \in Disks
  BY DEF Sound, WellFormed, Consistent
<1>3. Room(disk, dir)
  BY <1>1, RoomIs
<1>4. ASSUME ino # 0
      PROVE  /\ ino \in 2..(NINODES - 1) /\ oi.nlink = 1 /\ oi.ftype # "DIR"
             /\ Prepared(disk, [disk EXCEPT !.inode[ino] = oi], ino, oi)
             /\ filp = ino => oi.ftype = "REG"
  <2>1. ino \in 2..(NINODES - 1) /\ disk.inode[ino].nlink = 0
    BY <1>4, FreeInodeIs
  <2>2. ino \in Inodes
    BY <2>1, OspfsAssumption DEF Inodes
  <2> HIDE DEF ino
  <2>3. disk.inode[ino] \in InodeRecords
    BY <1>2, <2>2 DEF Disks
  <2>4. /\ oi.nlink = 1 /\ oi.size = 0 /\ oi.ftype = "REG"
        /\ oi.direct = disk.inode[ino].direct /\ oi.indirect = disk.inode[ino].indirect
        /\ oi.indirect2 = disk.inode[ino].indirect2
        /\ disk.inode[ino].direct \in [0..(NDIRECT - 1) -> 0..NBLOCKS]
    BY <2>3 DEF InodeRecords
  <2>6. oi \in InodeRecords
    <3> DEFINE r == disk.inode[ino]
               size == 0
               ftype == "REG"
               text == "none"
    <3>1. size \in Int /\ ftype \in {"REG", "SYMLINK"} /\ text \in {"none", "short", "long", "cond", "cut"}
      OBVIOUS
    <3>2. oi = [r EXCEPT !.size = size, !.ftype = ftype, !.nlink = 1, !.symlink = text]
      OBVIOUS
    <3>3. r \in InodeRecords
      BY <2>3
    <3> HIDE DEF size, ftype, text, oi, r
    <3>4. [r EXCEPT !.size = size, !.ftype = ftype, !.nlink = 1, !.symlink = text]
            \in InodeRecords
      BY ONLY <3>1, <3>3, InodeSet
    <3> QED
      BY <3>2, <3>4
  <2> HIDE DEF oi
  <2>5. Prepared(disk, [disk EXCEPT !.inode[ino] = oi], ino, oi)
    BY <1>2, <2>1, <2>4, <2>6, PrepareIs
  <2> QED
    BY <2>1, <2>4, <2>5
<1> HIDE DEF ino, oi
<1> QED
  BY <1>1, <1>3, <1>4 DEF Asks, Ready

(* ospfs_symlink; a careful client makes no link while it has an unlinked file
   open, so the inode of an open file never becomes a link. *)
LEMMA SymlinkIs ==
  ASSUME Careful, Sound, NEW dir \in Directories(disk), NEW name \in Names,
         NEW text \in SymNames, Symlink(dir, name, text)
  PROVE  Asks(dir, name)
<1> DEFINE ino == find_free_inode(disk)
           oi == [disk.inode[ino] EXCEPT
                    !.size = SymLength(text), !.ftype = "SYMLINK", !.nlink = 1,
                    !.symlink = text,
                    !.direct = IF text = "short" THEN @ ELSE [i \in DOMAIN @ |-> WILD]]
<1>1. /\ MayEnter(dir) /\ NewFile(dir, name, ino, oi)
      /\ filp = 0 \/ disk.inode[filp].nlink > 0
  BY DEF Symlink
<1>2. WellFormed(disk) /\ disk \in Disks
  BY DEF Sound, WellFormed, Consistent
<1>3. Room(disk, dir)
  BY <1>1, RoomIs
<1>4. ASSUME ino # 0
      PROVE  /\ ino \in 2..(NINODES - 1) /\ oi.nlink = 1 /\ oi.ftype # "DIR"
             /\ Prepared(disk, [disk EXCEPT !.inode[ino] = oi], ino, oi)
             /\ filp = ino => oi.ftype = "REG"
  <2>1. ino \in 2..(NINODES - 1) /\ disk.inode[ino].nlink = 0
    BY <1>4, FreeInodeIs
  <2>2. ino \in Inodes
    BY <2>1, OspfsAssumption DEF Inodes
  <2> HIDE DEF ino
  <2>3. disk.inode[ino] \in InodeRecords
    BY <1>2, <2>2 DEF Disks
  <2> DEFINE old == disk.inode[ino].direct
             new == IF text = "short" THEN old ELSE [i \in DOMAIN old |-> WILD]
  <2>4. old \in [0..(NDIRECT - 1) -> 0..NBLOCKS]
    BY <2>3 DEF InodeRecords
  <2>5. new \in [0..(NDIRECT - 1) -> 0..NBLOCKS] /\ (text = "short" => new = old)
    BY <2>4, OspfsAssumption DEF WILD
  <2>6. /\ oi.nlink = 1 /\ oi.size = SymLength(text) /\ oi.ftype = "SYMLINK"
        /\ oi.direct = new /\ oi.indirect = disk.inode[ino].indirect
        /\ oi.indirect2 = disk.inode[ino].indirect2 /\ oi.symlink = text
    BY <2>3 DEF InodeRecords
  <2> HIDE DEF new
  <2>7. oi \in InodeRecords
    <3>1. text \in {"none", "short", "long", "cond", "cut"} /\ SymLength(text) \in Int
      BY OspfsAssumption DEF SymLength
    <3>2. oi = [disk.inode[ino] EXCEPT !.size = SymLength(text), !.ftype = "SYMLINK",
                                       !.nlink = 1, !.symlink = text, !.direct = new]
      BY DEF new
    <3> HIDE DEF oi
    <3> QED
      BY <2>3, <2>5, <3>1, <3>2, InodeSet
  <2>8. SymLength(text) \in Nat
    BY DEF SymLength
  <2> HIDE DEF oi
  <2>9. Prepared(disk, [disk EXCEPT !.inode[ino] = oi], ino, oi)
    BY <1>2, <2>1, <2>5, <2>6, <2>7, <2>8, PrepareIs
  <2>10. filp # ino
    BY <1>1, <2>1
  <2> QED
    BY <2>1, <2>6, <2>9, <2>10
<1> HIDE DEF ino, oi
<1> QED
  BY <1>1, <1>3, <1>4 DEF Asks, Ready

(* how a new name for inode ino is made, or there is no room for it *)
Joins(dir, name, ino) ==
  \/ \E g : Keeps(disk, g, 0) /\ Regular(g) /\ Done(g, "ENOSPC")
  \/ \E f : Bound(disk, f, dir, name, ino, 0) /\ Regular(f) /\ Done(f, "OK")

(* ospfs_link *)
LEMMA LinkIs ==
  ASSUME Careful, Sound, NEW dir \in Directories(disk), NEW name \in Names, NEW src,
         Link(dir, name, src), Lookup(disk, dir, name) = 0
  PROVE  Joins(dir, name, Lookup(disk, dir, src))
<1> DEFINE ino == Lookup(disk, dir, src)
           b == create_blank_direntry(disk, dir)
<1>1. /\ WellFormed(disk) /\ filp \in Inodes
      /\ filp # 0 => disk.inode[filp].ftype = "REG"
  BY DEF Sound, Handles
<1>2. ino # 0 /\ disk.inode[ino].ftype # "DIR" /\ MayEnter(dir)
  BY DEF Link, NonDir
<1>3. /\ ino \in 2..(NINODES - 1) /\ ino \in Inodes \ {0}
      /\ disk.inode[ino].nlink = Cardinality(EntriesOf(disk, ino))
  BY <1>1, <1>2, LookupIs
<1>4. LinkEntry(b, dir, name, ino)
  BY DEF Link
<1>5. Blank(disk, b, dir)
  BY <1>1, <1>2, RoomIs, BlankIs
<1> HIDE DEF b, ino
<1>6. /\ WellFormed(b.disk) /\ SameNames(disk, b.disk) /\ OnlyBlocksOf(disk, b.disk, dir)
      /\ b.r \in {"OK", "ENOSPC"}
      /\ b.r = "OK" => b.off \in Offsets(b.disk, dir) /\ EntryAt(b.disk, dir, b.off).ino = 0
  BY <1>5 DEF Blank
<1>7. \A i \in Inodes : /\ b.disk.inode[i].ftype = disk.inode[i].ftype
                        /\ b.disk.inode[i].nlink = disk.inode[i].nlink
  BY <1>6 DEF OnlyBlocksOf
<1>8. filp # 0 => b.disk.inode[filp].ftype = "REG"
  BY <1>1, <1>7
<1>9. NamesKept(disk, b.disk) /\ \A f : NamesKept(b.disk, f) => NamesKept(disk, f)
  BY <1>6, KeptSame
<1>10. Keeps(disk, b.disk, 0) /\ Regular(b.disk)
  <2>1. disk.inode[dir].ftype = "DIR"
    BY <1>1, DirIs
  <2>2. \A i \in Inodes : disk.inode[i].ftype # "DIR" => b.disk.inode[i].size = disk.inode[i].size
    BY <1>6, <2>1 DEF OnlyBlocksOf
  <2> QED
    BY <1>6, <1>7, <1>8, <2>2 DEF Keeps, Regular
<1>11. CASE b.r # "OK"
  BY <1>4, <1>6, <1>10, <1>11 DEF LinkEntry, Joins
<1>12. CASE b.r = "OK"
  <2> DEFINE g == b.disk
             off == b.off
             e == SetEntry(g, dir, off, name, ino)
             f == [e EXCEPT !.inode[ino].nlink = @ + 1]
             x == [name |-> name, ino |-> ino]
             n == g.inode[ino].nlink
  <2>1. Done(f, "OK")
    BY <1>4, <1>12 DEF LinkEntry
  <2>2. dir \in Directories(g) /\ off \in Offsets(g, dir) /\ EntryAt(g, dir, off).ino = 0
    BY <1>6, <1>12 DEF SameNames
  <2>3. EntriesOf(g, ino) = EntriesOf(disk, ino)
    BY <1>3, <1>6, NamesSame
  <2>4. Found(g, dir, name) = {}
    <3>1. Lookup(g, dir, name) = 0
      BY <1>6, NamesSame
    <3>2. g.inode[dir].size \in Nat
      BY <1>6, <2>2, DirIs
    <3> QED
      BY <3>1, <3>2, FindIs
  <2>5. WellFormed(g) /\ g.inode[ino].ftype # "DIR"
    BY <1>2, <1>3, <1>6, <1>7 DEF ino
  <2>6. n = Cardinality(EntriesOf(g, ino)) /\ n \in Nat
    BY <1>3, <1>7, <2>3, <2>5 DEF WellFormed
  <2> HIDE DEF g, off
  <2>7. EntrySet(g, e, dir, off, x, ino, n)
    BY <1>3, <2>2, <2>5, SetEntryIs
  <2>8. e.inode[ino].nlink = n /\ e \in Disks
    BY <1>3, <2>7 DEF EntrySet
  <2> HIDE DEF e, n
  <2>9. f = [e EXCEPT !.inode[ino].nlink = n + 1]
    BY <1>3, <2>8 DEF Disks
  <2> HIDE DEF f, x
  <2>10. EntrySet(g, f, dir, off, x, ino, n + 1)
    <3>1. ino \in Inodes /\ n + 1 \in Int
      BY <1>3, <2>6
    <3> QED
      BY <2>7, <2>9, <3>1, SetLinksIs
  <2>11. WellFormed(f) /\ NamesKept(g, f)
    <3>1. EntrySet(g, f, dir, off, [name |-> name, ino |-> ino], ino, n + 1)
      BY <2>10 DEF x
    <3> QED
      BY <1>3, <2>2, <2>4, <2>5, <2>6, <3>1, NewName
  <2>12. filp # 0 => f.inode[filp].ftype = "REG"
    <3>1. \A i \in Inodes : f.inode[i].ftype = g.inode[i].ftype
      BY <2>10 DEF EntrySet
    <3> QED
      BY <1>1, <1>8, <3>1 DEF g
  <2>13. NamesKept(disk, f)
    BY <1>9, <2>11 DEF g
  <2>14. Bound(disk, f, dir, name, ino, 0)
    <3>1. Keeps(disk, g, 0)
      BY <1>10 DEF g
    <3>2. EntrySet(g, f, dir, off, [name |-> name, ino |-> ino], ino, n + 1)
      BY <2>10 DEF x
    <3> QED
      BY <2>2, <2>4, <2>11, <2>13, <3>1, <3>2 DEF Bound
  <2> QED
    BY <2>1, <2>12, <2>14 DEF Joins, Regular, ino
<1> QED
  BY <1>12, <1>11

(* The image stays sound when a link is made, or not. *)
LEMMA LinkSound ==
  ASSUME Careful, Sound, NEW dir \in Directories(disk), NEW name \in Names, NEW src,
         Link(dir, name, src)
  PROVE  Sound'
<1>1. WellFormed(disk) /\ (filp # 0 => disk.inode[filp].ftype = "REG")
  BY DEF Sound, Handles
<1>2. NamesKept(disk, disk)
  BY <1>1, NamesReflexive, KeptSame
<1>3. CASE Lookup(disk, dir, name) # 0
  BY <1>1, <1>2, <1>3, DoneSound DEF Link
<1>4. CASE Lookup(disk, dir, name) = 0
  <2> DEFINE ino == Lookup(disk, dir, src)
  <2>1. Joins(dir, name, ino)
    BY <1>4, LinkIs
  <2> HIDE DEF ino
  <2>2. ASSUME NEW g, Keeps(disk, g, 0), Regular(g), Done(g, "ENOSPC") PROVE Sound'
    <3>1. WellFormed(g) /\ NamesKept(disk, g)
      BY <2>2, KeptSame DEF Keeps
    <3> QED
      BY <2>2, <3>1, DoneSound DEF Regular
  <2>3. ASSUME NEW f, Bound(disk, f, dir, name, ino, 0), Regular(f), Done(f, "OK")
        PROVE  Sound'
    BY <2>3, DoneSound DEF Regular, Bound
  <2> QED
    BY <2>1, <2>2, <2>3 DEF Joins
<1> QED
  BY <1>3, <1>4

-----------------------------------------------------------------------------
(* Other calls *)

(* The sizes clients ask for have fewer blocks than the largest file. *)
LEMMA SizeFits ==
  ASSUME NEW s \in Sizes
  PROVE  s \in Nat /\ size2nblocks(s) \in 0..(MAXFILEBLKS - 1)
<1> DEFINE n == MAXFILEBLKS - 1
           m == n * BLKSIZE
<1>1. BLKSIZE \in Nat \ {0} /\ Sizes \subseteq 0..m
  BY OspfsAssumption
<1>2. n \in Int
  <2>1. NINDIRECT * NINDIRECT \in Nat
    BY OspfsAssumption
  <2> QED
    BY <2>1, OspfsAssumption DEF MAXFILEBLKS
<1> HIDE DEF n
<1>3. m \in Int /\ m = BLKSIZE * n
  BY <1>1, <1>2
<1>4. s \in Nat /\ s <= m
  <2> HIDE DEF m
  <2> QED
    BY <1>1, <1>3
<1>5. s <= BLKSIZE * n
  BY <1>3, <1>4
<1>6. s \in Int /\ s > -BLKSIZE
  BY <1>1, <1>4
<1>7. size2nblocks(s) <= n /\ size2nblocks(s) \in Nat
  BY <1>2, <1>5, <1>6, BlocksUnique, BlocksCover
<1>8. size2nblocks(s) \in 0..n
  BY <1>2, <1>7
<1> QED
  BY <1>4, <1>8 DEF n

(* A file cut to nothing has no blocks. *)
LEMMA NoBlocks == 0 \in Nat /\ size2nblocks(0) = 0 /\ 0 \in 0..(MAXFILEBLKS - 1)
<1>1. 0 \in Int /\ 0 > -BLKSIZE /\ 0 <= BLKSIZE * 0
  BY OspfsAssumption
<1>2. size2nblocks(0) <= 0 /\ size2nblocks(0) \in Nat
  BY <1>1, BlocksUnique, BlocksCover
<1>3. NINDIRECT * NINDIRECT \in Nat
  BY OspfsAssumption
<1>4. MAXFILEBLKS - 1 >= 0 /\ MAXFILEBLKS \in Int
  BY <1>3, OspfsAssumption DEF MAXFILEBLKS
<1> QED
  BY <1>2, <1>4

(* A name removed: the file has one link less, and no name is found where it
   was not. *)
LEMMA OldName ==
  ASSUME NEW d, WellFormed(d), NEW dir \in Directories(d), NEW n, NEW z, z = Lookup(d, dir, n),
         z # 0, d.inode[z].ftype # "DIR", z \in Live(d), NEW off, off = find_direntry(d, dir, n),
         NEW x, x.ino = 0, NEW e, EntrySet(d, e, dir, off, x, z, d.inode[z].nlink - 1)
  PROVE  /\ WellFormed(e) /\ NamesKept(d, e)
         /\ d.inode[z].nlink = 1 => EntriesOf(e, z) = {}
<1> DEFINE p == <<dir, off>>
           m == d.inode[z].nlink - 1
<1>1. /\ off \in Offsets(d, dir) /\ EntryAt(d, dir, off).ino = z /\ p \in EntriesOf(d, z)
      /\ z \in 2..(NINODES - 1) /\ d.inode[z].nlink = Cardinality(EntriesOf(d, z))
  BY LookupIs
<1>2. NamesBut(d, e, dir, off, x)
  BY <1>1, EntrySetNames
<1>3. OnePlaceLess(d, e, dir, off, z)
  BY <1>1, <1>2, NamesButAre
<1>4. IsFiniteSet(EntriesOf(d, z)) /\ Cardinality(EntriesOf(d, z)) \in Nat
  BY EntriesFinite
<1>5. EntriesOf(e, z) = EntriesOf(d, z) \ {p}
  BY <1>3 DEF OnePlaceLess
<1> HIDE DEF p
<1>6. Cardinality(EntriesOf(d, z) \ {p}) = m /\ IsFiniteSet(EntriesOf(d, z) \ {p})
  BY <1>1, <1>4, FS_RemoveElement
<1>7. m \in Nat /\ m = Cardinality(EntriesOf(e, z)) /\ (m = 0 => EntriesOf(e, z) = {})
  BY <1>5, <1>6, FS_CardinalityType, FS_EmptySet
<1>8. d.inode[z].nlink = 1 => m = 0
  OBVIOUS
<1>9. x.ino \in {0, z} /\ EntryAt(d, dir, off).ino \in {0, z}
  BY <1>1
<1> HIDE DEF m
<1>10. EntrySet(d, e, dir, off, x, z, m)
  BY DEF m
<1>11. WellFormed(e)
  <2>1. x.ino # z
    OBVIOUS
  <2> QED
    BY <1>1, <1>7, <1>9, <1>10, <2>1, EntrySetSound
<1>12. ASSUME NEW D \in Directories(d), NEW k \in Names
       PROVE  Found(e, D, k) \subseteq Found(d, D, k)
  <2>1. ~(D = dir /\ x.name = k /\ x.ino > 0)
    OBVIOUS
  <2> QED
    BY <1>1, <1>2, <2>1, NamesButAre
<1>13. NamesKept(d, e)
  BY <1>2, <1>12 DEF NamesKept, NamesBut
<1> QED
  BY <1>7, <1>11, <1>13, <1>8

(* f is d without name, which led to file z; if that was its last name its
   blocks may be gone *)
Unbound(d, f, dir, name, z) ==
  /\ WellFormed(f) /\ NamesKept(d, f)
  /\ \E e, x, m :
       /\ EntrySet(d, e, dir, find_direntry(d, dir, name), x, z, m) /\ x.ino = 0
       /\ WellFormed(e) /\ (f = e \/ (EntriesOf(e, z) = {} /\ Keeps(e, f, z)))

(* how the name of inode ino is removed *)
Leaves(dir, name, ino) == \E f : Unbound(disk, f, dir, name, ino) /\ Regular(f) /\ Done(f, "OK")

(* ospfs_unlink: after the entry is gone the last link frees the blocks. *)
LEMMA UnlinkIs ==
  ASSUME Careful, Sound, NEW dir \in Directories(disk), NEW name \in Names, Unlink(dir, name)
  PROVE  Leaves(dir, name, Lookup(disk, dir, name))
<1> DEFINE off == find_direntry(disk, dir, name)
           ino == Lookup(disk, dir, name)
           oi == disk.inode[ino]
           e == SetEntry(disk, dir, off, NoName, 0)
           d1 == [e EXCEPT !.inode[ino].nlink = @ - 1]
           c == change_size(d1, ino, 0)
           x == [name |-> NoName, ino |-> 0]
<1>1. /\ WellFormed(disk) /\ filp \in Inodes
      /\ filp # 0 => disk.inode[filp].ftype = "REG"
  BY DEF Sound, Handles
<1>2. /\ ino # 0 /\ oi.ftype # "DIR" /\ (oi.ftype = "SYMLINK" => oi.symlink = "short")
      /\ Done(IF oi.ftype # "SYMLINK" /\ oi.nlink = 1 THEN c.disk ELSE d1, "OK")
  BY DEF Unlink, NonDir
<1>3. ino \in Inodes \ {0} /\ off \in Offsets(disk, dir)
  BY <1>1, <1>2, LookupIs
<1>4. ino \in Live(disk)
  BY <1>2, <1>3 DEF Live
<1>5. x.ino = 0 /\ ino \in Inodes /\ 0 \in Inodes /\ disk.inode[ino].nlink \in Nat
  BY <1>1, <1>3, OspfsAssumption DEF Inodes, WellFormed
<1> HIDE DEF c
<1>6. EntrySet(disk, e, dir, off, x, ino, disk.inode[ino].nlink)
  BY <1>1, <1>3, <1>5, SetEntryIs
<1>7. e.inode[ino].nlink = disk.inode[ino].nlink /\ e \in Disks
  BY <1>5, <1>6 DEF EntrySet
<1> DEFINE m == disk.inode[ino].nlink - 1
<1> HIDE DEF e, x, off
<1>8. d1 = [e EXCEPT !.inode[ino].nlink = m]
  <2> HIDE DEF ino
  <2> QED
    BY <1>5, <1>7 DEF Disks
<1>9. m \in Int
  BY <1>5
<1> HIDE DEF d1
<1>10. EntrySet(disk, d1, dir, off, x, ino, m)
  <2> HIDE DEF m, ino
  <2> QED
    BY <1>5, <1>6, <1>8, <1>9, SetLinksIs
<1>11. /\ WellFormed(d1) /\ NamesKept(disk, d1)
       /\ oi.nlink = 1 => EntriesOf(d1, ino) = {}
  BY <1>1, <1>2, <1>4, <1>5, <1>10, OldName DEF off
<1>12. \A f : Unbound(disk, f, dir, name, ino) /\ Regular(f) /\ Done(f, "OK")
                => Leaves(dir, name, Lookup(disk, dir, name))
  BY DEF Leaves
<1> DEFINE Reached(f) == f = d1 \/ (EntriesOf(d1, ino) = {} /\ Keeps(d1, f, ino))
<1>13. ASSUME NEW f, WellFormed(f), NamesKept(disk, f),
              Reached(f)
       PROVE  Unbound(disk, f, dir, name, ino)
  <2>1. off = find_direntry(disk, dir, name)
    BY DEF off
  <2> HIDE DEF ino, m
  <2> DEFINE Stage(g, y, k) == /\ EntrySet(disk, g, dir, off, y, ino, k) /\ y.ino = 0
                              /\ WellFormed(g) /\ (f = g \/ (EntriesOf(g, ino) = {} /\ Keeps(g, f, ino)))
  <2>2. Stage(d1, x, m)
    BY <1>5, <1>10, <1>11, <1>13
  <2> HIDE DEF Stage
  <2>3. \E g, y, k : Stage(g, y, k)
    BY <2>2
  <2> QED
    BY <2>1, <2>3, <1>13 DEF Unbound, Stage
<1> HIDE DEF ino, m, Reached
<1>14. \A i \in Inodes : d1.inode[i].ftype = disk.inode[i].ftype
  BY <1>10 DEF EntrySet
<1>15. filp # 0 => d1.inode[filp].ftype = "REG"
  BY <1>1, <1>14
<1>16. CASE ~(oi.ftype # "SYMLINK" /\ oi.nlink = 1)
  <2>1. Reached(d1)
    BY DEF Reached
  <2>3. Unbound(disk, d1, dir, name, ino)
    BY <1>11, <1>13, <2>1
  <2>2. Done(d1, "OK")
    BY <1>2, <1>16
  <2> QED
    BY <1>15, <1>12, <2>3, <2>2 DEF Regular
<1>17. CASE oi.ftype # "SYMLINK" /\ oi.nlink = 1
  <2>1. d1.inode[ino].ftype # "SYMLINK" /\ d1.inode[ino].ftype # "DIR"
    BY <1>2, <1>5, <1>14, <1>17
  <2>2. ~(size2nblocks(0) > NDIRECT + NINDIRECT) /\ size2nblocks(0) \in 0..(MAXFILEBLKS - 1)
    BY NoBlocks, OspfsAssumption
  <2>3. Resizes(d1, c, ino, 0)
    BY <1>3, <1>11, <2>1, <2>2, NoBlocks, ResizeIs DEF c
  <2>4. WellFormed(c.disk) /\ SameNames(d1, c.disk) /\ OnlyBlocksOf(d1, c.disk, ino)
    BY <2>3 DEF Resizes
  <2>5. NamesKept(disk, c.disk)
    BY <1>11, <2>4, KeptSame
  <2>6. \A i \in Inodes : c.disk.inode[i].ftype = d1.inode[i].ftype
    BY <2>4 DEF OnlyBlocksOf
  <2>7. filp # 0 => c.disk.inode[filp].ftype = "REG"
    BY <1>1, <1>15, <2>6
  <2>8. Keeps(d1, c.disk, ino)
    BY <2>4, <2>6 DEF Keeps, OnlyBlocksOf
  <2>9. Reached(c.disk)
    BY <1>11, <1>17, <2>8 DEF Reached
  <2>10. Unbound(disk, c.disk, dir, name, ino)
    BY <1>13, <2>4, <2>5, <2>9
  <2> QED
    BY <1>2, <1>17, <1>12, <2>7, <2>10 DEF Regular
<1> QED
  BY <1>16, <1>17

(* The image stays sound when a name is removed. *)
LEMMA UnlinkSound ==
  ASSUME Careful, Sound, NEW dir \in Directories(disk), NEW name \in Names, Unlink(dir, name)
  PROVE  Sound'
<1>1. PICK f : /\ Unbound(disk, f, dir, name, Lookup(disk, dir, name)) /\ Regular(f)
               /\ Done(f, "OK")
  BY UnlinkIs DEF Leaves
<1> QED
  BY <1>1, DoneSound DEF Unbound, Regular

(* ospfs_notify_change *)
LEMMA TruncateSound ==
  ASSUME Careful, Sound, NEW dir \in Directories(disk), NEW name \in Names,
         NEW size \in Sizes, Truncate(dir, name, size)
  PROVE  Sound'
<1> DEFINE ino == Lookup(disk, dir, name)
           c == change_size(disk, ino, size)
<1>1. /\ WellFormed(disk) /\ filp \in Inodes
      /\ filp # 0 => disk.inode[filp].ftype = "REG"
  BY DEF Sound, Handles
<1>2. /\ ino # 0 /\ disk.inode[ino].ftype # "SYMLINK"
      /\ size2nblocks(size) > NDIRECT + NINDIRECT =>
           Cardinality(disk.free) >= size2nblocks(size) + 3
  BY DEF Truncate, MayGrow
<1>3. ino \in Inodes \ {0}
  BY <1>1, <1>2, LookupIs
<1>4. CASE disk.inode[ino].ftype = "DIR"
  <2>1. Done(disk, "EPERM") /\ NamesKept(disk, disk)
    BY <1>1, <1>4, NamesReflexive, KeptSame DEF Truncate
  <2> QED
    BY <1>1, <2>1, DoneSound
<1>5. CASE disk.inode[ino].ftype # "DIR"
  <2>1. Done(c.disk, c.r)
    BY <1>5 DEF Truncate
  <2> HIDE DEF c, ino
  <2>2. Resizes(disk, c, ino, size)
    BY <1>1, <1>2, <1>3, <1>5, SizeFits, ResizeIs DEF c
  <2>3. WellFormed(c.disk) /\ SameNames(disk, c.disk) /\ OnlyBlocksOf(disk, c.disk, ino)
    BY <2>2 DEF Resizes
  <2>4. NamesKept(disk, c.disk)
    BY <2>3, KeptSame
  <2>5. \A i \in Inodes : c.disk.inode[i].ftype = disk.inode[i].ftype
    BY <2>3 DEF OnlyBlocksOf
  <2>6. filp # 0 => c.disk.inode[filp].ftype = "REG"
    BY <1>1, <2>5
  <2> QED
    BY <2>1, <2>3, <2>4, <2>6, DoneSound
<1> QED
  BY <1>4, <1>5

(* A conditional link whose ":" is gone is a link all the same. *)
LEMMA CutIs ==
  ASSUME NEW d, WellFormed(d), NEW ino \in Inodes \ {0}, d.inode[ino].ftype = "SYMLINK",
         d.inode[ino].symlink = "cond", NEW e, e = [d EXCEPT !.inode[ino].symlink = "cut"]
  PROVE  Keeps(d, e, 0)
<1> DEFINE oi == [d.inode[ino] EXCEPT !.symlink = "cut"]
           f == [d EXCEPT !.inode[ino] = oi]
<1>1. /\ d \in Disks /\ d.free \subseteq Data /\ Owned(d, d.free) /\ Filled(d) /\ BlankTails(d)
      /\ Linked(d) /\ \A i \in Inodes : d.inode[i].size \in Nat /\ d.inode[i].nlink \in Nat
  BY DEF WellFormed, Consistent
<1>2. e = f
  OBVIOUS
<1>3. /\ oi \in InodeRecords /\ oi.size = d.inode[ino].size /\ oi.ftype = "SYMLINK"
      /\ oi.nlink = d.inode[ino].nlink /\ oi.symlink = "cut"
  <2>1. d.inode[ino] \in InodeRecords /\ d.inode[ino].ftype = "SYMLINK"
    BY <1>1 DEF Disks
  <2> QED
    BY ONLY <2>1 DEF InodeRecords
<1> HIDE DEF oi
<1>4. /\ f \in Disks /\ f.inode[ino] = oi /\ f.ptr = d.ptr /\ f.ent = d.ent /\ f.free = d.free
      /\ \A i \in Inodes : i # ino => f.inode[i] = d.inode[i]
  BY <1>1, <1>3, InodeField
<1> HIDE DEF f
<1> SUFFICES Keeps(d, f, 0)
  BY <1>2
<1>5. \A i \in Inodes : /\ f.inode[i].ftype = d.inode[i].ftype /\ f.inode[i].size = d.inode[i].size
                        /\ f.inode[i].nlink = d.inode[i].nlink
  BY <1>3, <1>4
<1>6. Live(f) = Live(d) /\ ino \notin Live(d) /\ \A i \in Live(d) : i \in Inodes
  BY <1>3, <1>4 DEF Live
<1>7. Refs(f) = Refs(d)
  <2>1. ASSUME NEW i \in Live(d) PROVE Pointers(f, i) = Pointers(d, i)
    <3>1. f.inode[i] = d.inode[i]
      BY <1>4, <1>6
    <3> QED
      BY <1>4, <3>1 DEF Pointers
  <2> QED
    BY <1>6, <2>1 DEF Refs
<1>8. Consistent(f)
  BY <1>1, <1>4, <1>7 DEF Consistent, Owned
<1>9. Filled(f)
  <2>1. ASSUME NEW i \in Inodes, i # ino
        PROVE  nblocks(f, i) = nblocks(d, i) /\ \A k : Ptr(f, i, k) = Ptr(d, i, k)
    <3>1. f.inode[i] = d.inode[i]
      BY <1>4, <2>1
    <3> QED
      BY <1>4, <3>1 DEF nblocks, Ptr, BlockAt
  <2> QED
    BY <1>1, <1>5, <2>1 DEF Filled
<1>10. /\ Directories(f) = Directories(d)
       /\ \A dir \in Directories(d) : f.inode[dir] = d.inode[dir]
  <2>1. \A dir \in DirInodes : dir \in Inodes
    BY OspfsAssumption DEF Inodes
  <2> QED
    BY <1>4, <1>5, <2>1 DEF Directories
<1>11. ASSUME NEW dir \in Directories(d)
       PROVE  /\ Offsets(f, dir) = Offsets(d, dir)
              /\ \A off : EntryAt(f, dir, off) = EntryAt(d, dir, off)
              /\ \A off : Slot(f, dir, off) = Slot(d, dir, off)
  BY <1>4, <1>10 DEF Offsets, EntryAt, inode_blockno, BlockAt, Slot, Ptr
<1>12. BlankTails(f)
  BY <1>1, <1>10, <1>11 DEF BlankTails, nblocks
<1>13. \A i : EntriesOf(f, i) = EntriesOf(d, i)
  <2> SUFFICES ASSUME NEW i PROVE EntriesOf(f, i) = EntriesOf(d, i)
    OBVIOUS
  <2>1. ASSUME NEW p \in EntriesOf(f, i) PROVE p \in EntriesOf(d, i)
    BY <1>10, <1>11, EntriesAre
  <2>2. ASSUME NEW p \in EntriesOf(d, i) PROVE p \in EntriesOf(f, i)
    BY <1>10, <1>11, EntriesAre
  <2> QED
    BY <2>1, <2>2
<1>14. Linked(f)
  <2>1. ROOT_INO \in Inodes /\ \A i \in 2..(NINODES - 1) : i \in Inodes
    BY OspfsAssumption DEF Inodes, ROOT_INO
  <2> QED
    BY <1>1, <1>5, <1>6, <1>13, <2>1 DEF Linked
<1>15. WellFormed(f)
  <2>1. DistinctNames(d)
    BY DEF WellFormed
  <2>2. DistinctNames(f)
    BY <1>10, <1>11, <2>1 DEF DistinctNames
  <2> QED
    BY <1>1, <1>5, <1>8, <1>9, <1>12, <1>14, <2>2 DEF WellFormed
<1>16. SameNames(d, f)
  <2>1. \A dir \in Directories(d) : d.inode[dir].size \in Nat
    BY DirIs
  <2> QED
    BY <1>10, <1>11, <2>1 DEF SameNames, Offsets
<1> QED
  BY <1>5, <1>15, <1>16 DEF Keeps

(* ospfs_follow_link *)
LEMMA FollowSound ==
  ASSUME Sound, NEW dir \in Directories(disk), NEW name \in Names, NEW root,
         FollowLink(dir, name, root)
  PROVE  Sound'
<1> DEFINE ino == Lookup(disk, dir, name)
           e == [disk EXCEPT !.inode[ino].symlink = "cut"]
<1>1. /\ WellFormed(disk) /\ filp \in Inodes
      /\ filp # 0 => disk.inode[filp].ftype = "REG"
  BY DEF Sound, Handles
<1>2. NamesKept(disk, disk)
  BY <1>1, NamesReflexive, KeptSame
<1>3. ino # 0 /\ disk.inode[ino].ftype = "SYMLINK"
  BY DEF FollowLink, NonDir
<1>4. ino \in Inodes \ {0}
  BY <1>1, <1>3, LookupIs
<1>5. ASSUME NEW r, Done(disk, r) PROVE Sound'
  BY <1>1, <1>2, <1>5, DoneSound
<1>6. ASSUME disk.inode[ino].symlink = "cond", Done(e, "path1") PROVE Sound'
  <2>1. Keeps(disk, e, 0)
    <3> HIDE DEF ino
    <3> QED
      BY <1>1, <1>3, <1>4, <1>6, CutIs
  <2> HIDE DEF e
  <2>2. WellFormed(e) /\ NamesKept(disk, e)
    BY <2>1, KeptSame DEF Keeps
  <2>3. filp # 0 => e.inode[filp].ftype = "REG"
    BY <1>1, <2>1 DEF Keeps
  <2> QED
    BY <1>1, <1>6, <2>2, <2>3, DoneSound
<1>7. \/ \E r : Done(disk, r)
      \/ disk.inode[ino].symlink = "cond" /\ Done(e, "path1")
  BY DEF FollowLink
<1> QED
  BY <1>7, <1>5, <1>6

(* The inode a name leads to has a link. *)
LEMMA NamedIsLinked ==
  ASSUME NEW d, WellFormed(d), NEW dir \in Directories(d), NEW n, Lookup(d, dir, n) # 0
  PROVE  d.inode[Lookup(d, dir, n)].nlink > 0
<1> DEFINE z == Lookup(d, dir, n)
<1>1. /\ z \in Inodes \ {0} /\ EntriesOf(d, z) # {}
      /\ d.inode[z].ftype # "DIR" => d.inode[z].nlink = Cardinality(EntriesOf(d, z))
  BY LookupIs
<1> HIDE DEF z
<1>2. CASE d.inode[z].ftype = "DIR"
  BY <1>1, <1>2 DEF z, WellFormed, Linked
<1>3. CASE d.inode[z].ftype # "DIR"
  <2>1. Cardinality(EntriesOf(d, z)) \in Nat /\ Cardinality(EntriesOf(d, z)) # 0
    BY <1>1, EntriesFinite, FS_EmptySet
  <2> QED
    BY <1>1, <1>3, <2>1 DEF z
<1> QED
  BY <1>2, <1>3

(* A directory opened: every name is still owed. *)
LEMMA OpenDirSound ==
  ASSUME Sound, NEW dir \in Directories(disk), OpenDir(dir)
  PROVE  Sound'
<1>1. WellFormed(disk) /\ filp \in Inodes /\ f_pos \in Nat /\ left \in Nat /\ filp = 0
  BY DEF Sound, Handles, OpenDir
<1> DEFINE T == {n \in Names : Lookup(disk, dir, n) # 0}
<1>2. /\ scan' = [dir |-> dir, pos |-> 0, todo |-> T]
      /\ disk' = disk /\ filp' = filp /\ f_pos' = f_pos /\ left' = left
  BY DEF OpenDir
<1>3. T \subseteq Names /\ \A n \in T : Lookup(disk, dir, n) # 0
  OBVIOUS
<1> HIDE DEF T
<1>4. /\ scan'.dir = dir /\ scan'.pos = 0 /\ scan'.todo = T
      /\ scan' \in [dir : Directories(disk) \cup {0}, pos : Nat, todo : SUBSET Names]
  BY <1>2, <1>3
<1>5. ASSUME NEW n \in T PROVE find_direntry(disk, dir, n) \in 0..(disk.inode[dir].size - 1)
  BY <1>1, <1>3, LookupIs DEF Offsets
<1>6. WellFormed(disk)' /\ Directories(disk)' = Directories(disk)
  BY <1>1, <1>2
<1>7. (scan.dir # 0 => \A n \in scan.todo :
         find_direntry(disk, scan.dir, n) \in scan.pos..(disk.inode[scan.dir].size - 1))'
  BY <1>2, <1>4, <1>5
<1> QED
  BY <1>1, <1>2, <1>4, <1>6, <1>7 DEF Sound, Handles

(* ospfs_dir_readdir: a name that is still owed was not among the entries. *)
LEMMA ReadDirSound ==
  ASSUME Sound, NEW stop \in Int, ReadDir(stop)
  PROVE  Sound'
<1>1. /\ WellFormed(disk) /\ filp \in Inodes /\ f_pos \in Nat /\ left \in Nat
      /\ filp # 0 => disk.inode[filp].ftype = "REG" /\ scan.dir = 0
      /\ scan \in [dir : Directories(disk) \cup {0}, pos : Nat, todo : SUBSET Names]
      /\ scan.dir # 0 => \A n \in scan.todo :
           find_direntry(disk, scan.dir, n) \in scan.pos..(disk.inode[scan.dir].size - 1)
  BY DEF Sound, Handles
<1> DEFINE dir == scan.dir
           entries == {EntryAt(disk, dir, off) : off \in scan.pos..(stop - 1)}
           gone == {e.name : e \in {x \in entries : Listed(x)}}
<1>2. /\ dir \in Directories(disk) /\ dir # 0 /\ filp = 0 /\ scan.pos <= stop
      /\ disk' = disk /\ filp' = filp /\ f_pos' = f_pos /\ left' = left
  BY <1>1 DEF ReadDir
<1>3. disk.inode[dir].size \in Nat
  BY <1>1, <1>2, DirIs
<1>4. scan' = NoScan \/ scan' = [scan EXCEPT !.pos = stop, !.todo = @ \ gone]
  BY DEF ReadDir, Resume
<1>5. WellFormed(disk)' /\ Directories(disk)' = Directories(disk)
  BY <1>1, <1>2
<1>6. (filp \in Inodes /\ f_pos \in Nat /\ left \in Nat /\ filp = 0)'
  BY <1>1, <1>2
<1>7. CASE scan' = NoScan
  <2>1. /\ scan'.dir = 0
        /\ scan' \in [dir : Directories(disk) \cup {0}, pos : Nat, todo : SUBSET Names]
    BY <1>7 DEF NoScan
  <2> QED
    BY <1>5, <1>6, <2>1 DEF Sound, Handles
<1>8. CASE scan' = [scan EXCEPT !.pos = stop, !.todo = @ \ gone]
  <2>1. ASSUME NEW n \in scan.todo \ gone
        PROVE  find_direntry(disk, dir, n) \in stop..(disk.inode[dir].size - 1)
    <3> DEFINE o == find_direntry(disk, dir, n)
               z == Lookup(disk, dir, n)
    <3>1. o \in scan.pos..(disk.inode[dir].size - 1) /\ scan.pos \in Nat
      BY <1>1, <1>2, <2>1
    <3>2. Found(disk, dir, n) # {}
      <4>1. o # -1
        <5> HIDE DEF o
        <5> QED
          BY <1>3, <3>1
      <4> QED
        BY <1>3, <4>1, FindIs
    <3>3. z # 0
      BY <1>3, <3>2, FindIs
    <3>4. o \in Found(disk, dir, n) /\ EntryAt(disk, dir, o).ino = z /\ z \in Inodes \ {0}
      BY <1>1, <1>2, <3>3, LookupIs
    <3>5. EntryAt(disk, dir, o).name = n
      BY <3>4 DEF Found
    <3>6. disk.inode[z].nlink > 0
      BY <1>1, <1>2, <3>3, NamedIsLinked
    <3>7. Listed(EntryAt(disk, dir, o))
      <4> HIDE DEF z, o
      <4> QED
        BY <3>4, <3>6, OspfsAssumption DEF Listed, Inodes
    <3>8. o \notin scan.pos..(stop - 1)
      <4>1. SUFFICES ASSUME o \in scan.pos..(stop - 1) PROVE n \in gone
        BY <2>1
      <4>2. EntryAt(disk, dir, o) \in {x \in entries : Listed(x)}
        BY <3>7, <4>1
      <4> QED
        BY <3>5, <4>2
    <3> HIDE DEF o
    <3>9. o \in stop..(disk.inode[dir].size - 1)
      BY <1>3, <3>1, <3>8
    <3> QED
      BY <3>9 DEF o
  <2> HIDE DEF gone
  <2>2. /\ scan'.dir = dir /\ scan'.pos = stop /\ scan'.todo = scan.todo \ gone
        /\ scan' \in [dir : Directories(disk) \cup {0}, pos : Nat, todo : SUBSET Names]
    <3>1. stop \in Nat
      BY <1>1, <1>2
    <3> QED
      BY <1>1, <1>8, <3>1
  <2>3. (scan.dir # 0 => \A n \in scan.todo :
           find_direntry(disk, scan.dir, n) \in scan.pos..(disk.inode[scan.dir].size - 1))'
    BY <1>2, <2>1, <2>2
  <2> QED
    BY <1>5, <1>6, <2>2, <2>3 DEF Sound, Handles
<1> QED
  BY <1>4, <1>7, <1>8

(* Opening, closing and reading a file, and the copying of a write, leave the
   disk alone. *)
LEMMA QuietSound ==
  ASSUME Sound, UNCHANGED <<disk, scan>>,
         filp' \in Inodes /\ f_pos' \in Nat /\ left' \in Nat,
         filp' # 0 => disk.inode[filp'].ftype = "REG" /\ scan.dir = 0
  PROVE  Sound'
<1>1. disk' = disk /\ scan' = scan
  OBVIOUS
<1>2. /\ WellFormed(disk)
      /\ scan \in [dir : Directories(disk) \cup {0}, pos : Nat, todo : SUBSET Names]
      /\ scan.dir # 0 => \A n \in scan.todo :
           find_direntry(disk, scan.dir, n) \in scan.pos..(disk.inode[scan.dir].size - 1)
  BY DEF Sound, Handles
<1> QED
  BY <1>1, <1>2 DEF Sound, Handles

(* ospfs_dir_lookup and open *)
LEMMA OpenSound ==
  ASSUME Sound, NEW dir \in Directories(disk), NEW name \in Names, Open(dir, name)
  PROVE  Sound'
<1> DEFINE ino == Lookup(disk, dir, name)
<1>1. WellFormed(disk) /\ f_pos \in Nat /\ left \in Nat
  BY DEF Sound, Handles
<1>2. /\ ino # 0 /\ disk.inode[ino].ftype = "REG" /\ scan.dir = 0
      /\ filp' = ino /\ UNCHANGED <<disk, f_pos, left, scan>>
  BY DEF Open
<1>3. ino \in Inodes
  BY <1>1, <1>2, LookupIs
<1> QED
  BY <1>1, <1>2, <1>3, QuietSound

(* close *)
LEMMA CloseSound ==
  ASSUME Sound, Close
  PROVE  Sound'
<1>1. filp' = 0 /\ f_pos' = 0 /\ UNCHANGED <<disk, left, scan>> /\ left \in Nat /\ 0 \in Inodes
  BY OspfsAssumption DEF Close, Sound, Handles, Inodes
<1> QED
  BY <1>1, QuietSound

(* ospfs_read *)
LEMMA ReadSound ==
  ASSUME Sound, NEW pos, NEW count, Read(pos, count)
  PROVE  Sound'
<1>1. WellFormed(disk) /\ (filp # 0 => disk.inode[filp].ftype = "REG")
  BY DEF Sound, Handles
<1>2. NamesKept(disk, disk)
  BY <1>1, NamesReflexive, KeptSame
<1>3. PICK r : Done(disk, r)
  BY DEF Read
<1> QED
  BY <1>1, <1>2, <1>3, DoneSound

(* The copying of ospfs_write. *)
LEMMA WriteCopySound ==
  ASSUME Sound, WriteCopy
  PROVE  Sound'
<1>1. left' = 0 /\ f_pos' = 0 /\ UNCHANGED <<disk, filp, scan>>
  BY DEF WriteCopy
<1>2. filp \in Inodes /\ (filp # 0 => disk.inode[filp].ftype = "REG" /\ scan.dir = 0)
  BY DEF Sound, Handles
<1> QED
  BY <1>1, <1>2, QuietSound

(* ospfs_write, before the copying: the file may grow. *)
LEMMA WriteSound ==
  ASSUME Careful, Sound, NEW pos \in Nat, NEW count \in Nat, NEW append,
         Write(pos, count, append)
  PROVE  Sound'
<1> DEFINE size == disk.inode[filp].size
           at == IF append THEN size ELSE pos
           new == count + at
           c == change_size(disk, filp, new)
<1>1. /\ WellFormed(disk) /\ filp \in Inodes /\ f_pos \in Nat /\ left \in Nat
      /\ filp # 0 => disk.inode[filp].ftype = "REG" /\ scan.dir = 0
      /\ scan \in [dir : Directories(disk) \cup {0}, pos : Nat, todo : SUBSET Names]
  BY DEF Sound, Handles
<1>2. /\ filp # 0 /\ new \in Sizes /\ MayGrow(filp, new) /\ UNCHANGED <<filp, scan>>
      /\ (f_pos' = at /\ left' = count) \/ UNCHANGED <<f_pos, left>>
      /\ disk' = c.disk \/ disk' = disk
  BY DEF Write
<1>3. size \in Nat /\ at \in Nat
  BY <1>1 DEF WellFormed
<1>4. f_pos' \in Nat /\ left' \in Nat
  BY <1>1, <1>2, <1>3
<1>5. CASE disk' = disk
  BY <1>1, <1>2, <1>4, <1>5, QuietSound
<1>6. CASE disk' = c.disk
  <2>1. filp \in Inodes \ {0} /\ disk.inode[filp].ftype = "REG" /\ scan.dir = 0
    BY <1>1, <1>2
  <2>2. size2nblocks(new) > NDIRECT + NINDIRECT => Cardinality(disk.free) >= size2nblocks(new) + 3
    BY <1>2 DEF MayGrow
  <2> HIDE DEF new, c
  <2>3. Resizes(disk, c, filp, new)
    <3>1. new \in Nat /\ size2nblocks(new) \in 0..(MAXFILEBLKS - 1)
      BY <1>2, SizeFits
    <3> QED
      BY <1>1, <2>1, <2>2, <3>1, ResizeIs DEF c
  <2>4. /\ WellFormed(c.disk) /\ SameNames(disk, c.disk)
        /\ c.disk.inode[filp].ftype = disk.inode[filp].ftype
    BY <2>3 DEF Resizes, OnlyBlocksOf
  <2>5. Directories(c.disk) = Directories(disk)
    BY <2>4 DEF SameNames
  <2>6. WellFormed(disk)' /\ Directories(disk)' = Directories(disk)
    BY <1>6, <2>4, <2>5
  <2>7. /\ (filp \in Inodes /\ filp # 0 => disk.inode[filp].ftype = "REG" /\ scan.dir = 0)'
        /\ (filp \in Inodes /\ scan.dir = 0)'
    BY <1>2, <1>6, <2>1, <2>4
  <2>8. (scan \in [dir : Directories(disk) \cup {0}, pos : Nat, todo : SUBSET Names])'
    BY <1>1, <1>2, <2>6
  <2> QED
    BY <1>4, <2>6, <2>7, <2>8 DEF Sound, Handles
<1> QED
  BY <1>2, <1>5, <1>6

-----------------------------------------------------------------------------
(* The invariant *)

(* A mounted image is sound. *)
LEMMA MountSound ==
  ASSUME \E d \in Disks : WellFormed(d) /\ Mounted(d)
  PROVE  Sound
<1>1. /\ WellFormed(disk) /\ filp = 0 /\ f_pos = 0 /\ left = 0 /\ scan = NoScan
  BY DEF Mounted
<1>2. /\ 0 \in Inodes /\ scan.dir = 0
      /\ scan \in [dir : Directories(disk) \cup {0}, pos : Nat, todo : SUBSET Names]
  BY <1>1, OspfsAssumption DEF Inodes, NoScan
<1> QED
  BY <1>1, <1>2 DEF Sound, Handles

(* No call of a careful client makes a sound image unsound. *)
LEMMA SoundStep ==
  ASSUME Careful, Sound, [Next]_vars
  PROVE  Sound'
<1>1. Dirs = Directories(disk)
  BY DEF Dirs, Directories
<1>2. ASSUME NEW dir \in Dirs, NEW name \in Names, Create(dir, name) PROVE Sound'
  BY <1>1, <1>2, CreateIs, NewFileSound
<1>3. ASSUME NEW dir \in Dirs, NEW name \in Names, Unlink(dir, name) PROVE Sound'
  BY <1>1, <1>3, UnlinkSound
<1>4. ASSUME NEW dir \in Dirs, NEW name \in Names, Open(dir, name) PROVE Sound'
  BY <1>1, <1>4, OpenSound
<1>5. ASSUME NEW dir \in Dirs, NEW name \in Names, NEW text \in SymNames,
             Symlink(dir, name, text)
      PROVE  Sound'
  BY <1>1, <1>5, SymlinkIs, NewFileSound
<1>6. ASSUME NEW dir \in Dirs, NEW name \in Names, NEW src \in Names, Link(dir, name, src)
      PROVE  Sound'
  BY <1>1, <1>6, LinkSound
<1>7. ASSUME NEW dir \in Dirs, NEW name \in Names, NEW root \in BOOLEAN,
             FollowLink(dir, name, root)
      PROVE  Sound'
  BY <1>1, <1>7, FollowSound
<1>8. ASSUME NEW dir \in Dirs, NEW name \in Names, NEW size \in Sizes,
             Truncate(dir, name, size)
      PROVE  Sound'
  BY <1>1, <1>8, TruncateSound
<1>9. ASSUME NEW dir \in Dirs, OpenDir(dir) PROVE Sound'
  BY <1>1, <1>9, OpenDirSound
<1>10. ASSUME NEW stop \in 0..(MAXFILEBLKS * BLKSIZE), ReadDir(stop) PROVE Sound'
  <2>1. stop \in Int
    OBVIOUS
  <2> QED
    BY <1>10, <2>1, ReadDirSound
<1>11. ASSUME NEW pos \in Positions, NEW count \in Positions, Read(pos, count) PROVE Sound'
  BY <1>11, ReadSound
<1>12. ASSUME NEW pos \in Positions, NEW count \in Positions, Write(pos, count, FALSE)
       PROVE  Sound'
  <2>1. pos \in Nat /\ count \in Nat
    BY OspfsAssumption
  <2> QED
    BY <1>12, <2>1, WriteSound
<1>13. ASSUME NEW count \in Positions, Write(0, count, TRUE) PROVE Sound'
  <2>1. 0 \in Nat /\ count \in Nat
    BY OspfsAssumption
  <2> QED
    BY <1>13, <2>1, WriteSound
<1>14. ASSUME WriteCopy PROVE Sound'
  BY <1>14, WriteCopySound
<1>15. ASSUME Close PROVE Sound'
  BY <1>15, CloseSound
<1>16. ASSUME UNCHANGED vars PROVE Sound'
  BY <1>16, QuietSound DEF vars, Sound, Handles
<1>17. CASE \E dir \in Dirs, name \in Names :
         \/ Create(dir, name) \/ Unlink(dir, name) \/ Open(dir, name)
         \/ \E text \in SymNames : Symlink(dir, name, text)
         \/ \E src \in Names : Link(dir, name, src)
         \/ \E root \in BOOLEAN : FollowLink(dir, name, root)
         \/ \E size \in Sizes : Truncate(dir, name, size)
  BY <1>2, <1>3, <1>4, <1>5, <1>6, <1>7, <1>8, <1>17
<1>18. CASE \/ \E dir \in Dirs : OpenDir(dir)
            \/ \E stop \in 0..(MAXFILEBLKS * BLKSIZE) : ReadDir(stop)
            \/ \E pos, count \in Positions : Read(pos, count) \/ Write(pos, count, FALSE)
            \/ \E count \in Positions : Write(0, count, TRUE)
            \/ WriteCopy \/ Close
  BY <1>9, <1>10, <1>11, <1>12, <1>13, <1>14, <1>15, <1>18
<1> QED
  BY <1>16, <1>17, <1>18 DEF Next

(* OSPFS keeps every well-formed image well-formed: whatever the sizes of the
   disk, the files and the directories, and whatever calls come after each
   other, a careful client never meets a shared block, a block that is in use
   and free, a file without its blocks, or a wrong link count. *)
THEOREM SoundAlways == ASSUME Careful PROVE ImageSpec => []Sound
<1>1. (\E d \in Disks : WellFormed(d) /\ Mounted(d)) => Sound
  BY MountSound
<1>2. Sound /\ [Next]_vars => Sound'
  BY SoundStep
<1> QED
  BY <1>1, <1>2, PTL DEF ImageSpec

(* Every variable has its type. *)
THEOREM TypeCorrect == ASSUME Careful PROVE ImageSpec => []TypeOK
<1>1. ASSUME Sound PROVE TypeOK
  <2>1. disk \in Disks /\ \A i \in Inodes : disk.inode[i].size \in Nat /\ disk.inode[i].nlink \in Nat
    BY <1>1 DEF Sound, WellFormed, Consistent
  <2>2. ASSUME NEW i \in Inodes
        PROVE  /\ disk.inode[i].ftype \in {"REG", "DIR", "SYMLINK"}
               /\ disk.inode[i].direct \in [0..(NDIRECT - 1) -> 0..NBLOCKS]
               /\ disk.inode[i].indirect \in Blocks /\ disk.inode[i].indirect2 \in Blocks
    BY <2>1 DEF Disks, InodeRecords
  <2>3. /\ disk.free \subseteq Blocks /\ disk.ptr \in [Blocks -> [Indices -> Blocks]]
        /\ disk.ent \in [Blocks -> [Slots -> [name : Names \cup {NoName}, ino : Inodes]]]
    BY <2>1 DEF Disks, DirEntries
  <2>4. filp \in Inodes /\ f_pos \in Nat /\ left \in Nat
    BY <1>1 DEF Sound, Handles
  <2> QED
    BY <2>1, <2>2, <2>3, <2>4 DEF TypeOK
<1> QED
  BY <1>1, SoundAlways, PTL

(* Nobody's block is taken away or given to somebody else. *)
THEOREM BlocksOwned == ASSUME Careful PROVE ImageSpec => []BlockOwnership
<1>1. ASSUME Sound PROVE BlockOwnership
  <2> DEFINE P == AllPointers(disk)
             at == [p \in P |-> p[4]]
             B == {p[4] : p \in P}
  <2>1. /\ Owned(disk, disk.free) /\ Data = (FIRSTINOB + 1)..(NBLOCKS - 1)
    BY <1>1 DEF Sound, WellFormed, Consistent, Data
  <2>2. P \subseteq Refs(disk)
    BY DEF AllPointers, Refs, Live
  <2>3. /\ \A p \in P : p[4] \in Data \ disk.free
        /\ \A p, q \in P : p[4] = q[4] => p = q
    BY <2>1, <2>2 DEF Owned
  <2> HIDE DEF P
  <2>4. B \subseteq Data /\ IsFiniteSet(Data)
    <3>1. FIRSTINOB + 1 \in Int /\ NBLOCKS - 1 \in Int
      BY OspfsAssumption
    <3>2. IsFiniteSet(Data)
      BY <2>1, <3>1, FS_Interval
    <3> QED
      BY <2>3, <3>2
  <2>5. IsFiniteSet(B)
    BY <2>4, FS_Subset
  <2>6. at \in [P -> B] /\ (\A p \in P : at[p] = p[4]) /\ \A b \in B : \E p \in P : b = p[4]
    OBVIOUS
  <2> HIDE DEF at, B
  <2>7. at \in Injection(P, B) /\ at \in Surjection(P, B)
    BY <2>3, <2>6 DEF Injection, Surjection, IsInjective
  <2>8. Cardinality(B) = Cardinality(P)
    BY <2>5, <2>7, FS_Injection
  <2> QED
    BY <2>1, <2>3, <2>8 DEF BlockOwnership, P, B
<1> QED
  BY <1>1, SoundAlways, PTL

(* Every byte of a file has a block. *)
THEOREM BytesHaveBlocks == ASSUME Careful PROVE ImageSpec => []SizesHaveBlocks
<1>1. ASSUME Sound PROVE SizesHaveBlocks
  BY <1>1 DEF Sound, WellFormed, Filled, SizesHaveBlocks, nblocks, Ptr
<1> QED
  BY <1>1, SoundAlways, PTL

(* The link count of a file that has names is their number. *)
THEOREM LinksCounted == ASSUME Careful PROVE ImageSpec => []LinkCounts
<1>1. ASSUME Sound PROVE LinkCounts
  BY <1>1 DEF Sound, WellFormed, Linked, LinkCounts
<1> QED
  BY <1>1, SoundAlways, PTL

(* A directory scan that has come to the end has listed every name that was
   there all the time. *)
THEOREM ScansComplete == ASSUME Careful PROVE ImageSpec => []ReaddirComplete
<1>1. ASSUME Sound PROVE ReaddirComplete
  <2> SUFFICES ASSUME scan.dir # 0, scan.pos >= disk.inode[scan.dir].size
               PROVE  scan.todo = {}
    BY DEF ReaddirComplete
  <2>1. /\ WellFormed(disk)
        /\ scan \in [dir : Directories(disk) \cup {0}, pos : Nat, todo : SUBSET Names]
        /\ \A n \in scan.todo :
             find_direntry(disk, scan.dir, n) \in scan.pos..(disk.inode[scan.dir].size - 1)
    BY <1>1 DEF Sound, Handles
  <2>2. scan.dir \in Directories(disk) /\ scan.pos \in Nat
    BY <2>1
  <2>3. disk.inode[scan.dir].size \in Nat
    BY <2>1, <2>2, DirIs
  <2> QED
    BY <2>1, <2>2, <2>3
<1> QED
  BY <1>1, SoundAlways, PTL
=============================================================================
