----------------------------- MODULE OspfsImage -----------------------------
(***************************************************************************)
(* What a well-formed OSPFS image is, the checks a file system checker     *)
(* would make: block pointers and bitmap agree, sizes have their blocks,   *)
(* link counts are right, and the space behind a directory is blank.  The  *)
(* calls of Ospfs keep an image well-formed.                               *)
(***************************************************************************)
EXTENDS Ospfs

-----------------------------------------------------------------------------
(* Disks *)

(* the blocks that files and directories may use *)
Data == (FIRSTINOB + 1)..(NBLOCKS - 1)

InodeRecords ==
  [size : Int, ftype : {"REG", "DIR", "SYMLINK"}, nlink : Int,
   symlink : {"none", "short", "long", "cond", "cut"},
   direct : [0..(NDIRECT - 1) -> 0..NBLOCKS], indirect : Blocks, indirect2 : Blocks]

DirEntries == [name : Names \cup {NoName}, ino : Inodes]

Disks ==
  [free : SUBSET Blocks, inode : [Inodes -> InodeRecords],
   ptr : [Blocks -> [Indices -> Blocks]], ent : [Blocks -> [Slots -> DirEntries]]]

(* the inodes whose block pointers are pointers: all but those of symbolic links
   whose text has overwritten them *)
Live(d) ==
  {i \in Inodes \ {0} : d.inode[i].ftype = "SYMLINK" => d.inode[i].symlink = "short"}

Refs(d) == UNION {Pointers(d, i) : i \in Live(d)}

(* Every block that a live inode points to is a data block, is not in S, and is
   pointed to from one place; pointers through pointer 0 are 0. *)
Owned(d, S) ==
  /\ d.ptr[0] = ZeroPtrs
  /\ \A p \in Refs(d) : p[4] \in Data \ S
  /\ \A p, q \in Refs(d) : p[4] = q[4] => p = q

(* the pointer to the k-th block of file i *)
Ptr(d, i, k) == BlockAt(d, d.inode[i], k)

(* a disk whose pointers and bitmap agree *)
Consistent(d) == d \in Disks /\ d.free \subseteq Data /\ Owned(d, d.free)

nblocks(d, i) == size2nblocks(d.inode[i].size)

-----------------------------------------------------------------------------
(* Well-formed images *)

(* every file and directory has a block for each of its bytes *)
Filled(d) ==
  \A i \in Inodes \ {0} : d.inode[i].ftype # "SYMLINK" =>
    /\ nblocks(d, i) \in 0..(MAXFILEBLKS - 1)
    /\ \A k \in 0..(nblocks(d, i) - 1) : Ptr(d, i, k) # 0

Directories(d) == {i \in DirInodes : d.inode[i].ftype = "DIR"}

(* the place of byte off of a directory, below its size or not *)
Slot(d, dir, off) == d.ent[Ptr(d, dir, off \div BLKSIZE)][off % BLKSIZE]

(* no entry is left in the last block of a directory, behind its end *)
BlankTails(d) ==
  \A dir \in Directories(d) :
    \A off \in d.inode[dir].size..(BLKSIZE * nblocks(d, dir) - 1) : Slot(d, dir, off).ino = 0

(* an inode that can be given to a new file is no directory, has no name and
   has kept its pointers *)
Linked(d) ==
  /\ d.inode[ROOT_INO].ftype = "DIR"
  /\ \A i \in Inodes \ {0} :
       d.inode[i].ftype = "DIR" \/ i \notin Live(d) => d.inode[i].nlink > 0
  /\ \A i \in 2..(NINODES - 1) : d.inode[i].ftype # "DIR" /\ EntriesOf(d, i) # {} =>
       d.inode[i].nlink = Cardinality(EntriesOf(d, i))

(* a directory has no two entries of one name, and none without a name or for
   the root *)
DistinctNames(d) ==
  \A dir \in Directories(d) : \A o \in Offsets(d, dir) :
    LET x == EntryAt(d, dir, o)
    IN x.ino > 0 =>
         /\ x.name \in Names /\ x.ino # ROOT_INO
         /\ \A q \in Offsets(d, dir) :
              EntryAt(d, dir, q).ino > 0 /\ EntryAt(d, dir, q).name = x.name => q = o

WellFormed(d) ==
  /\ Consistent(d)
  /\ \A i \in Inodes : d.inode[i].size \in Nat /\ d.inode[i].nlink \in Nat
  /\ Filled(d) /\ BlankTails(d) /\ Linked(d) /\ DistinctNames(d)

(* the open file is a regular file, and a name that a scan still owes is at or
   behind the position of the scan *)
Handles ==
  /\ filp \in Inodes /\ f_pos \in Nat /\ left \in Nat
  /\ filp # 0 => disk.inode[filp].ftype = "REG" /\ scan.dir = 0
  /\ scan \in [dir : Directories(disk) \cup {0}, pos : Nat, todo : SUBSET Names]
  /\ scan.dir # 0 => \A n \in scan.todo :
       find_direntry(disk, scan.dir, n) \in scan.pos..(disk.inode[scan.dir].size - 1)

(* The image is well-formed after every call, whatever blocks and inodes were
   taken, given back and used again, and handles stay valid: no open file becomes
   a link or a directory, and no scan steps over a name it owes. *)
Sound == WellFormed(disk) /\ Handles

(* the file system mounted on any well-formed image *)
ImageSpec == (\E d \in Disks : WellFormed(d) /\ Mounted(d)) /\ [][Next]_vars
=============================================================================
