------------------------------- MODULE Ospfs -------------------------------
(***************************************************************************)
(* The OSPFS file system (lab3/ospfsmod.c) on a RAM disk: the free-block   *)
(* bitmap, inodes with direct, indirect and doubly indirect blocks,        *)
(* directories, and the operations Linux calls.                            *)
(*                                                                         *)
(* The disk is one record.  A block is seen as pointers (indirect blocks)  *)
(* or as directory entries; the bytes of files are left out.  One action   *)
(* is one call.  Only the copying of ospfs_write can sleep (a page fault   *)
(* of the user's buffer) and is a step for each block; a directory scan is *)
(* a sequence of readdir calls.                                            *)
(***************************************************************************)
EXTENDS Integers, FiniteSets, FiniteSetsExt, Sequences

CONSTANTS
  NBLOCKS, NINODES,     \* os_nblocks, os_ninodes
  FIRSTINOB,            \* os_firstinob
  BLKSIZE, BLKBITSIZE,  \* bytes of a block; bytes a directory grows by
  NDIRECT, NINDIRECT,   \* pointers in an inode, in an indirect block
  Names,                \* names of directory entries
  NoName,
  DirInodes,            \* the inodes of directories: none is created or removed
  Sizes, Positions,     \* the sizes and file positions clients ask for
  SymNames,             \* texts of symbolic links: "short", "long", "cond"
  MayOpen,              \* whether clients open files and directories, one at a time
  Careful               \* TRUE: clients leave room on the disk, see MayGrow

ROOT_INO == 1
DIRENTRY_SIZE == 1
MAXFILEBLKS == NDIRECT + NINDIRECT + NINDIRECT * NINDIRECT

ASSUME OspfsAssumption ==
  /\ FIRSTINOB \in Nat /\ NBLOCKS \in Nat /\ 2 < FIRSTINOB /\ FIRSTINOB < NBLOCKS
  /\ NINODES \in Nat /\ NINODES > 2
  /\ BLKSIZE \in Nat \ {0} /\ BLKBITSIZE \in Nat /\ BLKBITSIZE > DIRENTRY_SIZE
  /\ NDIRECT \in Nat \ {0} /\ NINDIRECT \in Nat \ {0}
  /\ Sizes \subseteq 0..((MAXFILEBLKS - 1) * BLKSIZE) /\ Positions \subseteq Nat
  /\ NoName \notin Names
  /\ ROOT_INO \in DirInodes /\ DirInodes \subseteq 1..(NINODES - 1)
  /\ SymNames \subseteq {"short", "long", "cond"}
  /\ MayOpen \in BOOLEAN /\ Careful \in BOOLEAN

Blocks == 0..(NBLOCKS - 1)
Inodes == 0..(NINODES - 1)
Indices == 0..(NINDIRECT - 1)
Slots == 0..(BLKSIZE - 1)
WILD == NBLOCKS       \* a pointer made of the characters of a symbolic link

VARIABLES
  disk,         \* ospfs_data: .free, .inode, .ptr and .ent
  filp,         \* inode of the one open file, 0 if none
  f_pos, left,  \* position and bytes left of an ospfs_write that copies
  scan,         \* an open directory being listed: .todo are the names that were
                \* there all the time and were not listed yet
  ret           \* what the last call returned

vars == <<disk, filp, f_pos, left, scan, ret>>

NoEntry == [name |-> NoName, ino |-> 0]
ZeroPtrs == [i \in Indices |-> 0]
ZeroEnts == [s \in Slots |-> NoEntry]

FreeInode == [size |-> 0, ftype |-> "REG", nlink |-> 0, symlink |-> "none",
              direct |-> [i \in 0..(NDIRECT - 1) |-> 0], indirect |-> 0, indirect2 |-> 0]

NoScan == [dir |-> 0, pos |-> 0, todo |-> {}]

-----------------------------------------------------------------------------
(* The bitmap *)

size2nblocks(size) == (size + BLKSIZE - 1) \div BLKSIZE

(* the block allocate_block returns, 0 if the disk is full *)
NextFree(d) == IF d.free = {} THEN 0 ELSE Min(d.free)

(* allocate_block and zero_out_block *)
Take(d, b) == [d EXCEPT !.free = @ \ {b}, !.ptr[b] = ZeroPtrs, !.ent[b] = ZeroEnts]

free_block(d, b) == IF b < FIRSTINOB THEN d ELSE [d EXCEPT !.free = @ \cup {b}]

-----------------------------------------------------------------------------
(* File blocks *)

indir2_index(b) == IF b + 1 > NDIRECT + NINDIRECT THEN 0 ELSE -1

indir_index(b) ==
  IF b + 1 <= NDIRECT THEN -1
  ELSE IF b + 1 <= NDIRECT + NINDIRECT THEN 0
  ELSE (b - NDIRECT - NINDIRECT) \div NINDIRECT

direct_index(b) ==
  IF b + 1 <= NDIRECT THEN b
  ELSE IF b + 1 <= NDIRECT + NINDIRECT THEN b - NDIRECT
  ELSE (b - NDIRECT) % NINDIRECT

(* the pointer to the k-th block of a file *)
BlockAt(d, oi, k) ==
  IF k >= NDIRECT + NINDIRECT
  THEN LET off == k - (NDIRECT + NINDIRECT)
       IN d.ptr[d.ptr[oi.indirect2][off \div NINDIRECT]][off % NINDIRECT]
  ELSE IF k >= NDIRECT THEN d.ptr[oi.indirect][k - NDIRECT]
  ELSE oi.direct[k]

inode_blockno(d, oi, offset) ==
  IF offset >= oi.size \/ oi.ftype = "SYMLINK" THEN 0
  ELSE BlockAt(d, oi, offset \div BLKSIZE)

(* the k-th pointer of indirect block b set to v, in the boot block too *)
SetPtr(d, b, k, v) == [d EXCEPT !.ptr[b][k] = v]

Grown(d, ino) == [disk |-> [d EXCEPT !.inode[ino].size = @ + BLKSIZE], r |-> "OK"]
NoSpace(d) == [disk |-> d, r |-> "ENOSPC"]

(* block new becomes the n-th of the file, under indirect block ind *)
StoreUnder(d, ino, ind, n, new) == Grown(SetPtr(d, ind, direct_index(n), new), ino)

(* add_block under the indirect block, which is allocated if there is none *)
AddIndirect(d, ino, n, new) ==
  LET ind == d.inode[ino].indirect
      got == NextFree(d)
  IN IF ind # 0 THEN StoreUnder(d, ino, ind, n, new)
     ELSE IF got = 0 THEN NoSpace(free_block(d, new))
     ELSE StoreUnder([Take(d, got) EXCEPT !.inode[ino].indirect = got], ino, got, n, new)

(* add_block under an indirect block of ind2, which is allocated if there is
   none; undone is the disk when that fails *)
StoreUnder2(d, ino, ind2, n, new, undone) ==
  LET ind == d.ptr[ind2][indir_index(n)]
      got == NextFree(d)
  IN IF ind # 0 THEN StoreUnder(d, ino, ind, n, new)
     ELSE IF got = 0 THEN NoSpace(undone)
     ELSE StoreUnder(SetPtr(Take(d, got), ind2, indir_index(n), got), ino, got, n, new)

(* add_block under the doubly indirect block.  When the indirect block cannot
   be allocated a new doubly indirect block is freed, but the inode still
   points to it. *)
AddIndirect2(d, ino, n, new) ==
  LET ind2 == d.inode[ino].indirect2
      got == NextFree(d)
      d1 == [Take(d, got) EXCEPT !.inode[ino].indirect2 = got]
  IN IF ind2 # 0 THEN StoreUnder2(d, ino, ind2, n, new, free_block(d, new))
     ELSE IF got = 0 THEN NoSpace(free_block(d, new))
     ELSE StoreUnder2(d1, ino, got, n, new, free_block(free_block(d1, new), got))

add_block(d, ino) ==
  LET n == size2nblocks(d.inode[ino].size)
      new == NextFree(d)
      d1 == Take(d, new)
  IN CASE n > MAXFILEBLKS \/ new = 0 -> NoSpace(d)
       [] new # 0 /\ n < NDIRECT -> Grown([d1 EXCEPT !.inode[ino].direct[n] = new], ino)
       [] new # 0 /\ n >= NDIRECT /\ n < NDIRECT + NINDIRECT -> AddIndirect(d1, ino, n, new)
       [] OTHER -> AddIndirect2(d1, ino, n, new)

(* mutant: the block dropped keeps its pointer *)
MutKeepPtr(d, b, k) == free_block(d, d.ptr[b][k])

(* pointer k of indirect block b is freed and cleared *)
DropPtr(d, b, k) == SetPtr(free_block(d, d.ptr[b][k]), b, k, 0)

(* remove_block, which looks for the last block at index n, one too far *)
remove_block(d, ino) ==
  LET oi == d.inode[ino]
      n == size2nblocks(oi.size)
      smaller == [d EXCEPT !.inode[ino].size = @ - BLKSIZE]
      ind2 == oi.indirect2
      d1 == DropPtr(smaller, oi.indirect, direct_index(n))
      d2 == DropPtr(smaller, smaller.ptr[ind2][indir_index(n)], direct_index(n))
      d3 == IF (n - NDIRECT) % NINDIRECT = 0 THEN DropPtr(d2, ind2, indir_index(n)) ELSE d2
  IN CASE indir_index(n) = -1 ->
            [free_block(smaller, oi.direct[n]) EXCEPT !.inode[ino].direct[n] = 0]
       [] indir_index(n) = 0 /\ indir2_index(n) = -1 ->
            IF n = NDIRECT THEN [free_block(d1, oi.indirect) EXCEPT !.inode[ino].indirect = 0]
            ELSE d1
       [] OTHER ->
            IF n = NDIRECT + NINDIRECT
            THEN [free_block(d3, ind2) EXCEPT !.inode[ino].indirect2 = 0] ELSE d3

(* the disk after k calls of remove_block *)
Removals(d, ino) ==
  LET step[k \in Nat] == IF k = 0 THEN d ELSE remove_block(step[k - 1], ino) IN step

(* the loops of change_size: remove blocks down to, add blocks up to n *)
Shrink(d, ino, n) ==
  LET have == size2nblocks(d.inode[ino].size)
  IN Removals(d, ino)[IF have > n THEN have - n ELSE 0]

GrowOnce(grown, ino) == IF grown.r = "OK" THEN add_block(grown.disk, ino) ELSE grown

(* the disk after k calls of add_block, of which none follows one that failed *)
Additions(d, ino) ==
  LET step[k \in Nat] ==
        IF k = 0 THEN [disk |-> d, r |-> "OK"] ELSE GrowOnce(step[k - 1], ino)
  IN step

Grow(d, ino, n) ==
  LET have == size2nblocks(d.inode[ino].size)
  IN Additions(d, ino)[IF have < n THEN n - have ELSE 0]

(* the blocks beyond size removed, and the size set *)
Settle(d, ino, size) ==
  [Shrink(d, ino, size2nblocks(size)) EXCEPT !.inode[ino].size = size]

(* mutant: a failed growth keeps the blocks it got *)
MutNoRollback(grown, ino, oldSize, size) ==
  IF grown.r # "OK" THEN grown
  ELSE [disk |-> Settle(grown.disk, ino, size), r |-> "OK"]

(* after the growth: back to the old size if it failed *)
Resized(grown, ino, oldSize, size) ==
  IF grown.r # "OK" THEN [disk |-> Settle(grown.disk, ino, oldSize), r |-> "ENOSPC"]
  ELSE [disk |-> Settle(grown.disk, ino, size), r |-> "OK"]

(* mutant: the number of blocks is rounded down *)
MutRoundDown(d, ino, size) ==
  Resized(Grow(d, ino, size \div BLKSIZE), ino, d.inode[ino].size, size)

change_size(d, ino, size) ==
  Resized(Grow(d, ino, size2nblocks(size)), ino, d.inode[ino].size, size)

-----------------------------------------------------------------------------
(* Directories *)

(* the entry at an offset of directory dir *)
EntryAt(d, dir, off) == d.ent[inode_blockno(d, d.inode[dir], off)][off % BLKSIZE]
Offsets(d, dir) == 0..(d.inode[dir].size - 1)

SetEntry(d, dir, off, name, ino) ==
  [d EXCEPT !.ent[inode_blockno(d, d.inode[dir], off)][off % BLKSIZE] =
              [name |-> name, ino |-> ino]]

(* find_direntry, and the search of lookup and unlink: the first offset of an
   entry with that name, -1 if there is none *)
find_direntry(d, dir, name) ==
  LET found == {off \in Offsets(d, dir) :
                  LET od == EntryAt(d, dir, off) IN od.name = name /\ od.ino > 0}
  IN IF found = {} THEN -1 ELSE Min(found)

(* the inode a name leads to, 0 if there is none *)
Lookup(d, dir, name) ==
  LET off == find_direntry(d, dir, name) IN IF off = -1 THEN 0 ELSE EntryAt(d, dir, off).ino

BlankOffsets(d, dir) == {off \in Offsets(d, dir) : EntryAt(d, dir, off).ino = 0}

(* the offset of a blank entry, after the directory has grown if it was full;
   then the second entry of the new space is used, not the first *)
create_blank_direntry(d, dir) ==
  LET size == d.inode[dir].size
      grown == change_size(d, dir, size + BLKBITSIZE)
  IN IF BlankOffsets(d, dir) # {}
     THEN [disk |-> d, r |-> "OK", off |-> Min(BlankOffsets(d, dir))]
     ELSE [disk |-> grown.disk, r |-> grown.r, off |-> size + DIRENTRY_SIZE]

find_free_inode(d) ==
  LET free == {i \in 2..(NINODES - 1) : d.inode[i].nlink = 0}
  IN IF free = {} THEN 0 ELSE Min(free)

Dirs == {i \in DirInodes : disk.inode[i].ftype = "DIR"}

(* a name whose file is not a directory, as the kernel's path walk leaves it *)
NonDir(dir, name) ==
  Lookup(disk, dir, name) # 0 /\ disk.inode[Lookup(disk, dir, name)].ftype # "DIR"

(* a call that changes the disk to d and returns r *)
Done(d, r) ==
  /\ disk' = d
  /\ ret' = r
  /\ scan' = [scan EXCEPT !.todo =
                {n \in @ : scan.dir # 0 /\ Lookup(d, scan.dir, n) = Lookup(disk, scan.dir, n)}]
  /\ UNCHANGED <<filp, f_pos, left>>

(* a careful client asks for a doubly indirect block only while the disk has
   room for all the blocks it needs *)
MayGrow(ino, size) ==
  Careful /\ size2nblocks(size) > NDIRECT + NINDIRECT
    => Cardinality(disk.free) >= size2nblocks(size) + 3

(* and one more name of a full directory only while that is below the largest
   size *)
MayEnter(dir) ==
  LET size == disk.inode[dir].size + BLKBITSIZE
  IN Careful /\ BlankOffsets(disk, dir) = {} =>
       size2nblocks(size) < MAXFILEBLKS /\ MayGrow(dir, size)

(* the entry of a new file, if there was room for it.  -ENOMEM: Linux has no
   memory for its own inode, after everything else has been done. *)
NewEntry(blank, dir, name, ino) ==
  IF blank.r # "OK" THEN Done(blank.disk, blank.r)
  ELSE \E r \in {"OK", "ENOMEM"} :
         Done(SetEntry(blank.disk, dir, blank.off, name, ino), r)

(* mutant: a name that is there is entered again *)
MutNoExist(dir, name, ino, oi) ==
  IF ino = 0 THEN Done(disk, "ENOSPC")
  ELSE NewEntry(create_blank_direntry([disk EXCEPT !.inode[ino] = oi], dir), dir, name, ino)

(* the new file is ino: its inode is set up, then the directory entry.  If
   there is no room for the entry the inode stays taken. *)
NewFile(dir, name, ino, oi) ==
  IF Lookup(disk, dir, name) # 0 THEN Done(disk, "EEXIST")
  ELSE IF ino = 0 THEN Done(disk, "ENOSPC")
  ELSE NewEntry(create_blank_direntry([disk EXCEPT !.inode[ino] = oi], dir), dir, name, ino)

(* ospfs_create: the block pointers of the inode's last owner stay *)
Create(dir, name) ==
  LET ino == find_free_inode(disk)
  IN /\ MayEnter(dir)
     /\ NewFile(dir, name, ino,
          [disk.inode[ino] EXCEPT !.size = 0, !.ftype = "REG", !.nlink = 1,
                                  !.symlink = "none"])

SymLength(text) == IF text = "short" THEN 1 ELSE 2

(* ospfs_symlink: the text is stored over oi_mode and, if it is longer than 4
   characters, over the block pointers *)
Symlink(dir, name, text) ==
  LET ino == find_free_inode(disk)
      oi == disk.inode[ino]
  IN /\ MayEnter(dir)
     /\ Careful => filp = 0 \/ disk.inode[filp].nlink > 0
     /\ NewFile(dir, name, ino,
          [oi EXCEPT !.size = SymLength(text), !.ftype = "SYMLINK", !.nlink = 1,
                     !.symlink = text,
                     !.direct = IF text = "short" THEN @ ELSE [i \in DOMAIN @ |-> WILD]])

(* the entry of a new name for ino *)
LinkEntry(blank, dir, name, ino) ==
  IF blank.r # "OK" THEN Done(blank.disk, blank.r)
  ELSE Done([SetEntry(blank.disk, dir, blank.off, name, ino)
               EXCEPT !.inode[ino].nlink = @ + 1], "OK")

(* ospfs_link *)
Link(dir, name, src) ==
  /\ NonDir(dir, src)
  /\ MayEnter(dir)
  /\ IF Lookup(disk, dir, name) # 0 THEN Done(disk, "EEXIST")
     ELSE LinkEntry(create_blank_direntry(disk, dir), dir, name, Lookup(disk, dir, src))

(* mutant: the link count is left alone *)
MutKeepCount(dir, name) ==
  /\ NonDir(dir, name)
  /\ Careful => disk.inode[Lookup(disk, dir, name)].symlink \in {"none", "short"}
  /\ Done([disk EXCEPT
       !.ent[inode_blockno(disk, disk.inode[dir], find_direntry(disk, dir, name))]
            [find_direntry(disk, dir, name) % BLKSIZE].ino = 0], "OK")

(* ospfs_unlink; nothing reads the name of an entry whose inode is 0, so the
   entry is blank *)
Unlink(dir, name) ==
  LET off == find_direntry(disk, dir, name)
      ino == Lookup(disk, dir, name)
      oi == disk.inode[ino]
      d1 == [SetEntry(disk, dir, off, NoName, 0)
               EXCEPT !.inode[ino].nlink = @ - 1]
  IN /\ NonDir(dir, name)
     /\ Careful => (oi.ftype = "SYMLINK" => oi.symlink = "short")
     /\ Done(IF oi.ftype # "SYMLINK" /\ oi.nlink = 1
             THEN change_size(d1, ino, 0).disk ELSE d1, "OK")

(* ospfs_follow_link by root or another user: the first time root follows a
   conditional link its ":" is overwritten, and whoever follows it after that
   uses the null pointer strchr returns *)
FollowLink(dir, name, root) ==
  LET ino == Lookup(disk, dir, name)
      text == disk.inode[ino].symlink
  IN /\ NonDir(dir, name) /\ disk.inode[ino].ftype = "SYMLINK"
     /\ \/ text \in {"short", "long"} /\ Done(disk, text)
        \/ text = "cond" /\ root /\ Done([disk EXCEPT !.inode[ino].symlink = "cut"], "path1")
        \/ text = "cond" /\ ~root /\ Done(disk, "path2")
        \/ text = "cut" /\ Done(disk, "FAULT")

(* ospfs_dir_readdir on the directory opened by OpenDir, from byte pos on: it
   hands over the entries before stop, where the buffer is full or the
   directory ends *)
OpenDir(dir) ==
  /\ MayOpen /\ scan.dir = 0 /\ filp = 0
  /\ scan' = [dir |-> dir, pos |-> 0, todo |-> {n \in Names : Lookup(disk, dir, n) # 0}]
  /\ ret' = "OK"
  /\ UNCHANGED <<disk, filp, f_pos, left>>

(* the inode of an entry that readdir hands over *)
Listed(e) == e.ino > 0 /\ e.ino < NINODES /\ disk.inode[e.ino].nlink > 0

(* mutant: the scan steps over the entry that did not fit *)
MutSkip(stop) == stop + 1

(* where the next readdir goes on *)
Resume(stop) == stop

ReadDir(stop) ==
  /\ scan.dir # 0
  /\ LET size == disk.inode[scan.dir].size
         entries == {EntryAt(disk, scan.dir, off) : off \in scan.pos..(stop - 1)}
     IN /\ scan.pos <= stop /\ stop <= size
        /\ stop < size => Listed(EntryAt(disk, scan.dir, stop))
        /\ IF stop = size /\ scan.pos = size
           THEN scan' = NoScan
           ELSE scan' = [scan EXCEPT !.pos = IF stop < size THEN Resume(stop) ELSE stop,
                           !.todo = @ \ {e.name : e \in {x \in entries : Listed(x)}}]
  /\ ret' = "OK"
  /\ UNCHANGED <<disk, filp, f_pos, left>>

-----------------------------------------------------------------------------
(* Files *)

(* ospfs_notify_change *)
Truncate(dir, name, size) ==
  LET ino == Lookup(disk, dir, name)
      Returned(changed) == Done(changed.disk, changed.r)
  IN /\ ino # 0 /\ disk.inode[ino].ftype # "SYMLINK"
     /\ MayGrow(ino, size)
     /\ IF disk.inode[ino].ftype = "DIR" THEN Done(disk, "EPERM")
        ELSE Returned(change_size(disk, ino, size))

(* ospfs_dir_lookup, and the kernel's open *)
Open(dir, name) ==
  LET ino == Lookup(disk, dir, name)
  IN /\ MayOpen /\ filp = 0 /\ scan.dir = 0 /\ ino # 0 /\ disk.inode[ino].ftype = "REG"
     /\ filp' = ino /\ ret' = "OK"
     /\ UNCHANGED <<disk, f_pos, left, scan>>

Close ==
  /\ filp # 0 /\ left = 0
  /\ filp' = 0 /\ f_pos' = 0 /\ ret' = "OK"
  /\ UNCHANGED <<disk, left, scan>>

(* ospfs_read of count bytes at pos.  Past the end count - a size_t - becomes
   huge and the first block is not found. *)
Read(pos, count) ==
  LET oi == disk.inode[filp]
      last == IF count + pos > oi.size THEN oi.size - 1 ELSE pos + count - 1
      found == \A off \in pos..last : inode_blockno(disk, oi, off) # 0
  IN /\ filp # 0 /\ left = 0
     /\ Done(disk, IF pos > oi.size \/ ~found THEN "EIO" ELSE "READ")

(* ospfs_write of count bytes at pos: first the size is changed *)
Write(pos, count, append) ==
  LET size == disk.inode[filp].size
      at == IF append THEN size ELSE pos
      Changed(c) == /\ disk' = c.disk /\ ret' = c.r
                    /\ IF c.r = "OK" THEN f_pos' = at /\ left' = count
                       ELSE UNCHANGED <<f_pos, left>>
  IN /\ filp # 0 /\ left = 0 /\ count > 0
     /\ count + at \in Sizes /\ MayGrow(filp, count + at)
     /\ Changed(IF count > size - at THEN change_size(disk, filp, count + at)
                ELSE [disk |-> disk, r |-> "OK"])
     /\ UNCHANGED <<filp, scan>>

(* then the bytes are copied.  A fault of the user's buffer sleeps, so other
   calls come first; the bytes are not part of the model, and the copies of all
   blocks are one step. *)
WriteCopy ==
  LET found == \A off \in f_pos..(f_pos + left - 1) :
                 inode_blockno(disk, disk.inode[filp], off) # 0
  IN /\ left > 0
     /\ \/ ~found /\ ret' = "EIO"
        \/ found /\ ret' = "WROTE"
        \/ ret' = "EFAULT"
     /\ left' = 0 /\ f_pos' = 0
     /\ UNCHANGED <<disk, filp, scan>>

-----------------------------------------------------------------------------
(* the file system on disk d, just mounted *)
Mounted(d) ==
  /\ disk = d
  /\ filp = 0 /\ f_pos = 0 /\ left = 0
  /\ scan = NoScan
  /\ ret = "OK"

Next ==
  \/ \E dir \in Dirs, name \in Names :
       \/ Create(dir, name) \/ Unlink(dir, name) \/ Open(dir, name)
       \/ \E text \in SymNames : Symlink(dir, name, text)
       \/ \E src \in Names : Link(dir, name, src)
       \/ \E root \in BOOLEAN : FollowLink(dir, name, root)
       \/ \E size \in Sizes : Truncate(dir, name, size)
  \/ \E dir \in Dirs : OpenDir(dir)
  \/ \E stop \in 0..(MAXFILEBLKS * BLKSIZE) : ReadDir(stop)
  \/ \E pos, count \in Positions : Read(pos, count) \/ Write(pos, count, FALSE)
  \/ \E count \in Positions : Write(0, count, TRUE)
  \/ WriteCopy \/ Close

-----------------------------------------------------------------------------
(* Properties *)

(* Every variable has its type; Sound in OspfsImage says this and more. *)
TypeOK ==
  /\ disk.free \subseteq Blocks
  /\ disk.ptr \in [Blocks -> [Indices -> Blocks]]
  /\ disk.ent \in [Blocks -> [Slots -> [name : Names \cup {NoName}, ino : Inodes]]]
  /\ \A i \in Inodes :
       /\ disk.inode[i].size \in Nat /\ disk.inode[i].nlink \in Nat
       /\ disk.inode[i].ftype \in {"REG", "DIR", "SYMLINK"}
       /\ disk.inode[i].direct \in [0..(NDIRECT - 1) -> 0..NBLOCKS]
       /\ disk.inode[i].indirect \in Blocks /\ disk.inode[i].indirect2 \in Blocks
  /\ filp \in Inodes /\ f_pos \in Nat /\ left \in Nat

(* the pointers of an inode that are not 0, with the place each is stored *)
Pointers(d, ino) ==
  LET oi == d.inode[ino]
      inds == {oi.indirect, oi.indirect2}
              \cup {d.ptr[oi.indirect2][k] : k \in IF oi.indirect2 = 0 THEN {} ELSE Indices}
      all == {<<ino, "direct", i, oi.direct[i]>> : i \in DOMAIN oi.direct}
             \cup {<<ino, "indirect", 0, oi.indirect>>, <<ino, "indirect2", 0, oi.indirect2>>}
             \cup {<<b, "block", k, d.ptr[b][k]>> : b \in inds \ {0}, k \in Indices}
  IN {p \in all : p[4] # 0}

AllPointers(d) ==
  UNION {Pointers(d, ino) : ino \in {i \in Inodes \ {0} : d.inode[i].ftype # "SYMLINK"}}

(* Nobody's block is taken away or given to somebody else: over every order of
   growing, shrinking, failed growth, unlinking and reuse of inodes, a block
   that an inode points to, directly or not, is marked as used in the bitmap
   and is pointed to from one place only. *)
BlockOwnership ==
  LET P == AllPointers(disk)
  IN /\ \A p \in P : p[4] \in (FIRSTINOB + 1)..(NBLOCKS - 1) /\ p[4] \notin disk.free
     /\ Cardinality({p[4] : p \in P}) = Cardinality(P)

(* Every byte below the size of a file or directory has a block: reads and
   writes inside a file never fail with -EIO, and a directory entry is never
   looked for in the boot block. *)
SizesHaveBlocks ==
  \A i \in Inodes \ {0} : disk.inode[i].ftype # "SYMLINK" =>
    \A k \in 0..(size2nblocks(disk.inode[i].size) - 1) : BlockAt(disk, disk.inode[i], k) # 0

(* the places in directories that name inode ino *)
EntriesOf(d, ino) ==
  UNION {{<<dir, off>> : off \in {o \in Offsets(d, dir) : EntryAt(d, dir, o).ino = ino}} :
           dir \in {i \in DirInodes : d.inode[i].ftype = "DIR"}}

(* The link count of a file that has names is their number, so the last unlink
   and no other frees the file and its inode. *)
LinkCounts ==
  \A i \in 2..(NINODES - 1) : disk.inode[i].ftype # "DIR" /\ EntriesOf(disk, i) # {} =>
    disk.inode[i].nlink = Cardinality(EntriesOf(disk, i))

(* A directory scan is complete: when readdir has reached the end, it has
   listed every name that was there all the time, although names were created
   and removed between its calls. *)
ReaddirComplete ==
  scan.dir # 0 /\ scan.pos >= disk.inode[scan.dir].size => scan.todo = {}

(* "If there is an -ENOSPC error when growing a file, the file size and
   allocated blocks should not change from their original values!!!" *)
EnospcRestores == [][ret' = "ENOSPC" => disk'.free = disk.free]_vars

(* What users see of the disk: the file behind each name and its size.  The
   size of a directory, which grows with its names, is left out. *)
FileOf(d) ==
  [p \in DirInodes \X Names |-> IF d.inode[p[1]].ftype = "DIR" THEN Lookup(d, p[1], p[2]) ELSE 0]

SizeOf(d) ==
  [i \in 2..(NINODES - 1) |->
     IF EntriesOf(d, i) = {} \/ d.inode[i].ftype = "DIR" THEN 0 ELSE d.inode[i].size]

Failed == ret \in {"EEXIST", "ENOSPC", "EPERM", "EIO", "EFAULT", "FAULT"}

Users == INSTANCE FileStore WITH
  Paths <- DirInodes \X Names, Files <- 2..(NINODES - 1), NoFile <- 0,
  file <- FileOf(disk), size <- SizeOf(disk), failed <- Failed

(* Every call does to names and sizes what a file system promises: one name
   bound or removed, one file resized, or, when it fails, nothing, whatever
   blocks and inodes were taken and given back on the way.  (-ENOMEM does not
   count as a failure: create and symlink return it after the file is there.) *)
ImplementsFileStore == Users!Spec
=============================================================================
