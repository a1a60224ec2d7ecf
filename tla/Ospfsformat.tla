---------------------------- MODULE Ospfsformat ----------------------------
(***************************************************************************)
(* The image builder (lab3/ospfsformat.c) and the file system mounted on   *)
(* what it builds.  The builder allocates blocks and inodes by counting    *)
(* up, walks a host directory, and writes the bitmap last; its block cache *)
(* and byte order are left out.                                            *)
(***************************************************************************)
EXTENDS OspfsImage

CONSTANTS HostTrees, LinkContents

(* A host tree is the sequence of files in the order of the walk, as records:
   kind "file", "symlink" or "dir"; name; size of a file or text of a link; key
   and contents, the same for files with the same host inode and the same bytes
   (0: like no other); and parent, the position of the directory in the
   sequence, or 0 for the root. *)
ASSUME FormatAssumption ==
  /\ LinkContents \in BOOLEAN
  /\ \A t \in HostTrees : \A k \in DOMAIN t :
       /\ t[k].parent \in 0..(k - 1)
       /\ t[k].kind = "dir" => k + 1 \in DirInodes

(* the image under construction; dirs[k] is the inode of tree entry k *)
Blank == [disk |-> [free |-> Blocks,
                    inode |-> [i \in Inodes |-> FreeInode],
                    ptr |-> [b \in Blocks |-> ZeroPtrs],
                    ent |-> [b \in Blocks |-> ZeroEnts]],
          nextb |-> FIRSTINOB + 1, nextinode |-> 0, hardlinks |-> {}, dirs |-> <<>>,
          aborted |-> FALSE]

Abort(img) == [img EXCEPT !.aborted = TRUE]

(* getblk: a block past the end of the disk aborts the program *)
NewBlock(img) ==
  IF img.nextb >= NBLOCKS THEN Abort(img) ELSE [img EXCEPT !.nextb = @ + 1]

allocinode(img) ==
  IF img.nextinode = NINODES THEN Abort(img) ELSE [img EXCEPT !.nextinode = @ + 1]

(* storeblk: block b becomes the nblk-th of file ino; indirect blocks are
   allocated on the way *)
storeblk(img, ino, b, nblk) ==
  LET oi == img.disk.inode[ino]
      off == nblk - NDIRECT - NINDIRECT
      withInd == IF oi.indirect # 0 THEN img
                 ELSE [NewBlock(img) EXCEPT !.disk.inode[ino].indirect = img.nextb]
      withInd2 == IF oi.indirect2 # 0 THEN img
                  ELSE [NewBlock(img) EXCEPT !.disk.inode[ino].indirect2 = img.nextb]
      ind2 == withInd2.disk.inode[ino].indirect2
      ind == withInd2.disk.ptr[ind2][off \div NINDIRECT]
      next == withInd2.nextb
  IN CASE nblk < NDIRECT -> [img EXCEPT !.disk.inode[ino].direct[nblk] = b]
       [] nblk >= NDIRECT /\ nblk < NDIRECT + NINDIRECT ->
            IF withInd.aborted THEN withInd
            ELSE [withInd EXCEPT
                    !.disk.ptr[withInd.disk.inode[ino].indirect][nblk - NDIRECT] = b]
       [] OTHER ->
            IF withInd2.aborted \/ nblk >= MAXFILEBLKS \/ (ind = 0 /\ next >= NBLOCKS)
            THEN Abort(img)
            ELSE IF ind # 0
            THEN [withInd2 EXCEPT !.disk.ptr[ind][off % NINDIRECT] = b]
            ELSE [NewBlock(withInd2) EXCEPT
                    !.disk.ptr[ind2][off \div NINDIRECT] = next,
                    !.disk.ptr[next][off % NINDIRECT] = b]

(* one more block at the end of ino, which has nblk blocks *)
AppendBlock(img, ino, nblk) ==
  IF img.aborted \/ NewBlock(img).aborted THEN Abort(img)
  ELSE storeblk(NewBlock(img), ino, img.nextb, nblk)

(* allocdirentry: the entry goes to the first free place of the last block of
   the directory, or to a new block *)
allocdirentry(img, dir, name, ino) ==
  LET size == img.disk.inode[dir].size
      blank == {off \in (size - BLKSIZE)..(size - 1) :
                  off >= 0 /\ EntryAt(img.disk, dir, off).ino = 0}
      grown == AppendBlock(img, dir, size \div BLKSIZE)
  IN IF blank # {}
     THEN [img EXCEPT !.disk = SetEntry(@, dir, Min(blank), name, ino)]
     ELSE IF grown.aborted THEN grown
     ELSE [grown EXCEPT !.disk = SetEntry([@ EXCEPT !.inode[dir].size = size + BLKSIZE],
                                          dir, size, name, ino)]

(* get_hardlink: the inode of the last file written that has the same host inode
   or, with -c, the same contents; 0 if there is none *)
get_hardlink(img, key, contents) ==
  LET same == {l.ino : l \in {h \in img.hardlinks :
                 \/ key # 0 /\ h.key = key
                 \/ LinkContents /\ contents # 0 /\ h.contents = contents}}
  IN IF same = {} THEN 0 ELSE Max(same)

add_hardlink(img, key, contents, ino) ==
  IF key = 0 /\ ~LinkContents THEN img
  ELSE [img EXCEPT !.hardlinks = @ \cup {[key |-> key, contents |-> contents, ino |-> ino]}]

(* the data blocks of writefile; when the file ends on a block boundary the next
   block is fetched once more, and not stored *)
WriteBlocks(img, ino, size) ==
  LET step[k \in Nat] == IF k = 0 THEN img ELSE AppendBlock(step[k - 1], ino, k - 1)
      done == step[size2nblocks(size)]
  IN IF done.aborted \/ (size % BLKSIZE = 0 /\ NewBlock(done).aborted) THEN Abort(img)
     ELSE [done EXCEPT !.disk.inode[ino].size = size]

(* writefile, addsymlink and writesymlink: a name for a file already in the
   image, or a new inode.  The entry comes first, then the inode. *)
WriteEntry(img, dir, e) ==
  LET old == get_hardlink(img, e.key, e.contents)
      ino == IF old # 0 THEN old ELSE img.nextinode
      named == allocdirentry(img, dir, e.name, ino)
      fresh == allocinode(named)
      linked == [add_hardlink(fresh, e.key, e.contents, ino)
                   EXCEPT !.disk.inode[ino].nlink = 1]
  IN IF named.aborted \/ (old = 0 /\ fresh.aborted) THEN Abort(img)
     ELSE IF old # 0 THEN [named EXCEPT !.disk.inode[ino].nlink = @ + 1]
     ELSE IF e.kind = "file" THEN WriteBlocks(linked, ino, e.size)
     ELSE [linked EXCEPT !.disk.inode[ino].ftype = "SYMLINK",
                         !.disk.inode[ino].symlink = e.size,
                         !.disk.inode[ino].size = SymLength(e.size),
                         !.disk.inode[ino].direct =
                           IF e.size = "short" THEN @ ELSE [i \in DOMAIN @ |-> WILD]]

(* writedirectory of a subdirectory *)
WriteDirectory(img, dir, e) ==
  LET ino == img.nextinode
      named == allocdirentry(img, dir, e.name, ino)
      fresh == allocinode(named)
  IN IF named.aborted \/ fresh.aborted THEN Abort(img)
     ELSE [fresh EXCEPT !.disk.inode[dir].nlink = @ + 1,
                        !.disk.inode[ino].ftype = "DIR", !.disk.inode[ino].nlink = 1]

(* the loop of writedirectory over the host's files *)
WriteTree(img, tree) ==
  LET step[k \in Nat] ==
        IF k = 0 \/ step[k - 1].aborted THEN IF k = 0 THEN img ELSE step[k - 1]
        ELSE LET prev == step[k - 1]
                 e == tree[k]
                 dir == IF e.parent = 0 THEN ROOT_INO ELSE prev.dirs[e.parent]
             IN [(IF e.kind = "dir" THEN WriteDirectory(prev, dir, e)
                  ELSE WriteEntry(prev, dir, e)) EXCEPT
                   !.dirs = Append(prev.dirs, prev.nextinode)]
  IN step[Len(tree)]

(* finishfs: the blocks counted off are used *)
finishfs(img) == [img.disk EXCEPT !.free = img.nextb..(NBLOCKS - 1)]

(* main: inodes 0 and 1, the root directory, and the tree *)
Format(tree) ==
  LET roots == [allocinode(allocinode(Blank)) EXCEPT
                  !.disk.inode[0].nlink = 1,
                  !.disk.inode[ROOT_INO].ftype = "DIR", !.disk.inode[ROOT_INO].nlink = 1]
  IN WriteTree(roots, tree)

(* the file system is mounted on an image whose construction was not aborted *)
MountedOn(img) == ~img.aborted /\ Mounted(finishfs(img))

Init == \E t \in HostTrees : MountedOn(Format(t))

Spec == Init /\ [][Next]_vars
=============================================================================
