---------------------------- MODULE OspfsBlocks ----------------------------
(***************************************************************************)
(* Facts about the block operations of Ospfs: which pointers a disk holds, *)
(* what add_block, remove_block and change_size do to them, and what they  *)
(* leave alone.                                                            *)
(***************************************************************************)
EXTENDS OspfsImage, NatLemmas, FiniteSetTheorems

-----------------------------------------------------------------------------
(* Arithmetic *)

(* Division by a positive number, with its remainder. *)
LEMMA DivFacts ==
  ASSUME NEW N \in Nat \ {0}, NEW x \in Nat
  PROVE  /\ x \div N \in Nat /\ x % N \in 0..(N - 1)
         /\ x = N * (x \div N) + (x % N)
OBVIOUS

(* The quotient of a number that is given with its remainder. *)
LEMMA DivOf ==
  ASSUME NEW N \in Nat \ {0}, NEW q \in Nat, NEW r \in 0..(N - 1)
  PROVE  (N * q + r) \div N = q
OBVIOUS

(* The number of blocks of a file: it covers the size and no block too many. *)
LEMMA BlocksCover ==
  ASSUME NEW s \in Int, s > -BLKSIZE
  PROVE  /\ size2nblocks(s) \in Nat
         /\ s <= BLKSIZE * size2nblocks(s)
         /\ BLKSIZE * size2nblocks(s) < s + BLKSIZE
<1> DEFINE x == s + BLKSIZE - 1
           q == x \div BLKSIZE
           r == x % BLKSIZE
<1>1. x \in Nat /\ BLKSIZE \in Nat \ {0}
  BY OspfsAssumption
<1>2. q \in Nat /\ r \in 0..(BLKSIZE - 1) /\ x = BLKSIZE * q + r
  <2> HIDE DEF x
  <2> QED
    BY <1>1, DivFacts
<1>3. size2nblocks(s) = q
  BY DEF size2nblocks
<1> DEFINE m == BLKSIZE * q
<1>4. m \in Int /\ x = m + r
  BY <1>1, <1>2
<1>5. s <= m /\ m < s + BLKSIZE
  <2> HIDE DEF m, q, r
  <2> QED
    BY <1>1, <1>2, <1>4
<1> QED
  BY <1>2, <1>3, <1>5

(* Whatever n covers s is the number of blocks, or more. *)
LEMMA BlocksUnique ==
  ASSUME NEW s \in Int, s > -BLKSIZE, NEW n \in Int, s <= BLKSIZE * n
  PROVE  size2nblocks(s) <= n
<1> DEFINE q == size2nblocks(s)
<1>1. q \in Nat /\ BLKSIZE * q < s + BLKSIZE /\ BLKSIZE \in Nat \ {0}
  BY BlocksCover, OspfsAssumption
<1> HIDE DEF q
<1>2. ASSUME q >= n + 1 PROVE FALSE
  <2>1. BLKSIZE * q >= BLKSIZE * (n + 1)
    BY <1>1, <1>2
  <2>2. BLKSIZE * (n + 1) = BLKSIZE * n + BLKSIZE
    BY <1>1
  <2>3. BLKSIZE * n \in Int /\ BLKSIZE * q \in Int
    BY <1>1
  <2> QED
    BY <1>1, <2>1, <2>2, <2>3
<1> QED
  BY <1>1, <1>2 DEF q

(* One more block of bytes is one more block. *)
LEMMA BlocksStep ==
  ASSUME NEW s \in Int, s > -BLKSIZE
  PROVE  size2nblocks(s + BLKSIZE) = size2nblocks(s) + 1
<1> DEFINE x == s + BLKSIZE - 1
           q == x \div BLKSIZE
           r == x % BLKSIZE
<1>1. x \in Nat /\ BLKSIZE \in Nat \ {0}
  BY OspfsAssumption
<1>2. q \in Nat /\ r \in 0..(BLKSIZE - 1) /\ x = BLKSIZE * q + r
  <2> HIDE DEF x
  <2> QED
    BY <1>1, DivFacts
<1> HIDE DEF q, r
<1>3. x + BLKSIZE = BLKSIZE * (q + 1) + r
  BY <1>1, <1>2
<1>4. (x + BLKSIZE) \div BLKSIZE = q + 1
  <2> HIDE DEF x
  <2>1. q + 1 \in Nat
    BY <1>2
  <2> QED
    BY <1>1, <1>2, <1>3, <2>1, DivOf
<1>5. s + BLKSIZE + BLKSIZE - 1 = x + BLKSIZE
  BY OspfsAssumption
<1> QED
  BY <1>4, <1>5 DEF size2nblocks, q

(* A byte below the size is in a block of the file. *)
LEMMA OffsetInBlocks ==
  ASSUME NEW off \in Nat
  PROVE  /\ off \div BLKSIZE \in Nat /\ off % BLKSIZE \in Slots
         /\ \A n \in Nat : off < BLKSIZE * n <=> off \div BLKSIZE < n
<1> DEFINE q == off \div BLKSIZE
           r == off % BLKSIZE
<1>1. BLKSIZE \in Nat \ {0}
  BY OspfsAssumption
<1>2. q \in Nat /\ r \in 0..(BLKSIZE - 1) /\ off = BLKSIZE * q + r
  BY <1>1, DivFacts
<1> HIDE DEF q, r
<1>3. ASSUME NEW n \in Nat PROVE off < BLKSIZE * n <=> q < n
  <2>1. ASSUME q < n PROVE off < BLKSIZE * n
    <3>1. BLKSIZE * (q + 1) <= BLKSIZE * n
      BY <1>1, <1>2, <2>1
    <3>2. BLKSIZE * (q + 1) = BLKSIZE * q + BLKSIZE
      BY <1>1, <1>2
    <3>3. BLKSIZE * q \in Int /\ BLKSIZE * n \in Int
      BY <1>1, <1>2
    <3> QED
      BY <1>1, <1>2, <3>1, <3>2, <3>3
  <2>2. ASSUME q >= n PROVE off >= BLKSIZE * n
    <3>1. BLKSIZE * n <= BLKSIZE * q
      BY <1>1, <1>2, <2>2
    <3>2. BLKSIZE * q \in Int /\ BLKSIZE * n \in Int
      BY <1>1, <1>2
    <3> QED
      BY <1>1, <1>2, <3>1, <3>2
  <2>3. BLKSIZE * n \in Int
    BY <1>1
  <2> QED
    BY <1>2, <2>1, <2>2, <2>3
<1> QED
  BY <1>2, <1>3 DEF q, r, Slots

(* Two offsets of one slot are in different blocks. *)
LEMMA OffsetUnique ==
  ASSUME NEW a \in Nat, NEW b \in Nat,
         a \div BLKSIZE = b \div BLKSIZE, a % BLKSIZE = b % BLKSIZE
  PROVE  a = b
<1>1. BLKSIZE \in Nat \ {0}
  BY OspfsAssumption
<1>2. a = BLKSIZE * (a \div BLKSIZE) + (a % BLKSIZE)
  BY <1>1, DivFacts
<1>3. b = BLKSIZE * (b \div BLKSIZE) + (b % BLKSIZE)
  BY <1>1, DivFacts
<1> QED
  BY <1>2, <1>3

(* where a block beyond the singly indirect ones hangs: the pointer of the
   doubly indirect block, and the pointer of the indirect block below it *)
Outer(k) == (k - (NDIRECT + NINDIRECT)) \div NINDIRECT
Inner(k) == (k - (NDIRECT + NINDIRECT)) % NINDIRECT

(* indir_index and direct_index find that place. *)
LEMMA DoubleIndex ==
  ASSUME NEW k \in (NDIRECT + NINDIRECT)..(MAXFILEBLKS - 1)
  PROVE  /\ Outer(k) \in Indices /\ Inner(k) \in Indices
         /\ k = NDIRECT + NINDIRECT + NINDIRECT * Outer(k) + Inner(k)
         /\ indir_index(k) = Outer(k)
         /\ direct_index(k) = Inner(k)
         /\ (k - NDIRECT) % NINDIRECT = Inner(k)
<1> DEFINE x == k - (NDIRECT + NINDIRECT)
           q == x \div NINDIRECT
           r == x % NINDIRECT
           sq == NINDIRECT * NINDIRECT
<1>1. NINDIRECT \in Nat \ {0} /\ NDIRECT \in Nat \ {0} /\ sq \in Int
  BY OspfsAssumption
<1>2. x \in Nat /\ x < sq /\ k \in Int
  <2>1. MAXFILEBLKS = NDIRECT + NINDIRECT + sq
    BY DEF MAXFILEBLKS
  <2>2. ASSUME NEW t \in Int, k \in (NDIRECT + NINDIRECT)..(NDIRECT + NINDIRECT + t - 1)
        PROVE  x \in Nat /\ x < t /\ k \in Int
    BY <1>1, <2>2
  <2> HIDE DEF sq, x
  <2> QED
    BY <1>1, <2>1, <2>2
<1>3. q \in Nat /\ r \in 0..(NINDIRECT - 1) /\ x = NINDIRECT * q + r
  <2> HIDE DEF x
  <2> QED
    BY <1>1, <1>2, DivFacts
<1> HIDE DEF q, r
<1>4. q < NINDIRECT
  <2>1. ASSUME q >= NINDIRECT PROVE FALSE
    <3>1. NINDIRECT * q >= sq
      BY <1>1, <1>3, <2>1
    <3>2. NINDIRECT * q \in Int
      BY <1>1, <1>3
    <3> HIDE DEF sq, x
    <3> QED
      BY <1>1, <1>2, <1>3, <3>1, <3>2
  <2> QED
    BY <1>1, <1>3, <2>1
<1>5. k = NDIRECT + NINDIRECT + NINDIRECT * q + r
  <2>1. NINDIRECT * q \in Int
    BY <1>1, <1>3
  <2> QED
    BY <1>1, <1>2, <1>3, <2>1
<1>6. Outer(k) = q /\ Inner(k) = r
  BY DEF Outer, Inner, q, r
<1>7. k - NDIRECT = NINDIRECT * (q + 1) + r
  <2>1. NINDIRECT * (q + 1) = NINDIRECT * q + NINDIRECT /\ NINDIRECT * q \in Int
    BY <1>1, <1>3
  <2> QED
    BY <1>1, <1>3, <1>5, <2>1
<1>8. (k - NDIRECT) % NINDIRECT = r
  <2>1. PICK p \in Nat : p = q + 1
    BY <1>3
  <2>2. (NINDIRECT * p + r) % NINDIRECT = r
    BY <1>1, <1>3, ModOf
  <2> QED
    BY <1>7, <2>1, <2>2, Zenon
<1>9. ~(k + 1 <= NDIRECT) /\ ~(k + 1 <= NDIRECT + NINDIRECT)
  BY <1>1, <1>2
<1>10. direct_index(k) = r
  BY <1>8, <1>9 DEF direct_index
<1>11. k - NDIRECT - NINDIRECT = x
  BY <1>1, <1>2
<1>12. indir_index(k) = q
  BY <1>9, <1>11 DEF indir_index, q
<1> QED
  BY <1>1, <1>3, <1>4, <1>5, <1>6, <1>8, <1>10, <1>12 DEF Indices

(* What Min of a set of natural numbers is: the first free block, inode or
   directory entry. *)
LEMMA MinIs ==
  ASSUME NEW S \in SUBSET Nat, S # {}
  PROVE  Min(S) \in S /\ \A y \in S : Min(S) <= y
<1>1. \E x \in S : \A y \in S : x <= y
  BY LeastExists
<1> QED
  BY <1>1 DEF Min

-----------------------------------------------------------------------------
(* Disks and their pointers *)

(* the blocks of pointers that live inodes lead to *)
IndexBlocks(d) ==
  {b \in Blocks \ {0} : \E i \in Live(d) :
     \/ b = d.inode[i].indirect
     \/ b = d.inode[i].indirect2
     \/ d.inode[i].indirect2 # 0 /\ \E k \in Indices : b = d.ptr[d.inode[i].indirect2][k]}

(* The pointers of a disk, one kind after the other. *)
LEMMA RefsAre ==
  ASSUME NEW d \in Disks
  PROVE  /\ \A i \in Live(d), k \in 0..(NDIRECT - 1) : d.inode[i].direct[k] # 0 =>
                <<i, "direct", k, d.inode[i].direct[k]>> \in Refs(d)
         /\ \A i \in Live(d) : d.inode[i].indirect # 0 =>
                <<i, "indirect", 0, d.inode[i].indirect>> \in Refs(d)
         /\ \A i \in Live(d) : d.inode[i].indirect2 # 0 =>
                <<i, "indirect2", 0, d.inode[i].indirect2>> \in Refs(d)
         /\ \A b \in IndexBlocks(d), k \in Indices : d.ptr[b][k] # 0 =>
                <<b, "block", k, d.ptr[b][k]>> \in Refs(d)
         /\ \A p \in Refs(d) : p[4] # 0 /\
              \/ \E i \in Live(d), k \in 0..(NDIRECT - 1) :
                   p = <<i, "direct", k, d.inode[i].direct[k]>>
              \/ \E i \in Live(d) : p = <<i, "indirect", 0, d.inode[i].indirect>>
              \/ \E i \in Live(d) : p = <<i, "indirect2", 0, d.inode[i].indirect2>>
              \/ \E b \in IndexBlocks(d), k \in Indices : p = <<b, "block", k, d.ptr[b][k]>>
<1> DEFINE Inds(i) == {d.inode[i].indirect, d.inode[i].indirect2}
                      \cup {d.ptr[d.inode[i].indirect2][k] :
                              k \in IF d.inode[i].indirect2 = 0 THEN {} ELSE Indices}
           DirectPart(i) ==
             {<<i, "direct", k, d.inode[i].direct[k]>> : k \in DOMAIN d.inode[i].direct}
           InodePart(i) == {<<i, "indirect", 0, d.inode[i].indirect>>,
                            <<i, "indirect2", 0, d.inode[i].indirect2>>}
           BlockPart(i) ==
             {<<b, "block", k, d.ptr[b][k]>> : b \in Inds(i) \ {0}, k \in Indices}
<1>1. \A i \in Live(d) : i \in Inodes /\ d.inode[i] \in InodeRecords
  BY DEF Live, Disks
<1>2. \A i \in Live(d) : DOMAIN d.inode[i].direct = 0..(NDIRECT - 1)
  BY <1>1 DEF InodeRecords
<1>3. ASSUME NEW i \in Live(d), NEW p
      PROVE  p \in Pointers(d, i) <=>
               p[4] # 0 /\ (p \in DirectPart(i) \/ p \in InodePart(i) \/ p \in BlockPart(i))
  BY DEF Pointers
<1>4. ASSUME NEW p PROVE p \in Refs(d) <=> \E i \in Live(d) : p \in Pointers(d, i)
  BY DEF Refs
<1>5. ASSUME NEW b PROVE b \in IndexBlocks(d) <=> \E i \in Live(d) : b \in Inds(i) \ {0}
  <2>1. ASSUME NEW i \in Live(d)
        PROVE  /\ d.inode[i].indirect \in Blocks /\ d.inode[i].indirect2 \in Blocks
               /\ \A k \in Indices : d.ptr[d.inode[i].indirect2][k] \in Blocks
    BY <1>1 DEF InodeRecords, Disks
  <2> QED
    BY <2>1 DEF IndexBlocks
<1> HIDE DEF Inds
<1>6. ASSUME NEW i \in Live(d), NEW k \in 0..(NDIRECT - 1), d.inode[i].direct[k] # 0
      PROVE  <<i, "direct", k, d.inode[i].direct[k]>> \in Refs(d)
  <2>1. <<i, "direct", k, d.inode[i].direct[k]>> \in DirectPart(i)
    BY <1>2
  <2> QED
    BY <1>3, <1>4, <1>6, <2>1
<1>7. ASSUME NEW i \in Live(d)
      PROVE  /\ d.inode[i].indirect # 0 =>
                   <<i, "indirect", 0, d.inode[i].indirect>> \in Refs(d)
             /\ d.inode[i].indirect2 # 0 =>
                   <<i, "indirect2", 0, d.inode[i].indirect2>> \in Refs(d)
  BY <1>3, <1>4
<1>8. ASSUME NEW b \in IndexBlocks(d), NEW k \in Indices, d.ptr[b][k] # 0
      PROVE  <<b, "block", k, d.ptr[b][k]>> \in Refs(d)
  <2>1. PICK i \in Live(d) : b \in Inds(i) \ {0}
    BY <1>5
  <2>2. <<b, "block", k, d.ptr[b][k]>> \in BlockPart(i)
    BY <2>1
  <2> QED
    BY <1>3, <1>4, <1>8, <2>2
<1>9. ASSUME NEW p \in Refs(d)
      PROVE  p[4] # 0 /\
              \/ \E i \in Live(d), k \in 0..(NDIRECT - 1) :
                   p = <<i, "direct", k, d.inode[i].direct[k]>>
              \/ \E i \in Live(d) : p = <<i, "indirect", 0, d.inode[i].indirect>>
              \/ \E i \in Live(d) : p = <<i, "indirect2", 0, d.inode[i].indirect2>>
              \/ \E b \in IndexBlocks(d), k \in Indices : p = <<b, "block", k, d.ptr[b][k]>>
  <2>1. PICK i \in Live(d) : p \in Pointers(d, i)
    BY <1>4
  <2>2. p[4] # 0
    BY <1>3, <2>1
  <2>3. CASE p \in DirectPart(i)
    BY <1>2, <2>2, <2>3
  <2>4. CASE p \in InodePart(i)
    BY <2>2, <2>4
  <2>5. CASE p \in BlockPart(i)
    BY <1>5, <2>2, <2>5
  <2> QED
    BY <1>3, <2>1, <2>3, <2>4, <2>5
<1> QED
  BY <1>6, <1>7, <1>8, <1>9

(* Where the pointer to a block of a file is kept. *)
LEMMA PtrIs ==
  ASSUME NEW d, NEW i, NEW k \in 0..(MAXFILEBLKS - 1)
  PROVE  /\ k < NDIRECT => k \in 0..(NDIRECT - 1) /\ Ptr(d, i, k) = d.inode[i].direct[k]
         /\ k >= NDIRECT /\ k < NDIRECT + NINDIRECT =>
              k - NDIRECT \in Indices /\ Ptr(d, i, k) = d.ptr[d.inode[i].indirect][k - NDIRECT]
         /\ k >= NDIRECT + NINDIRECT =>
              /\ Outer(k) \in Indices /\ Inner(k) \in Indices
              /\ Ptr(d, i, k) = d.ptr[d.ptr[d.inode[i].indirect2][Outer(k)]][Inner(k)]
<1>1. NDIRECT \in Nat \ {0} /\ NINDIRECT \in Nat \ {0} /\ k \in Nat
  BY OspfsAssumption
<1>2. ASSUME k >= NDIRECT + NINDIRECT
      PROVE  k \in (NDIRECT + NINDIRECT)..(MAXFILEBLKS - 1)
  BY <1>1, <1>2
<1>3. ASSUME k >= NDIRECT + NINDIRECT
      PROVE  /\ Outer(k) \in Indices /\ Inner(k) \in Indices
             /\ Ptr(d, i, k) = d.ptr[d.ptr[d.inode[i].indirect2][Outer(k)]][Inner(k)]
  BY <1>2, <1>3, DoubleIndex DEF Ptr, BlockAt, Outer, Inner
<1>4. ASSUME k < NDIRECT
      PROVE  k \in 0..(NDIRECT - 1) /\ Ptr(d, i, k) = d.inode[i].direct[k]
  <2>1. ~(k >= NDIRECT + NINDIRECT) /\ ~(k >= NDIRECT) /\ k \in 0..(NDIRECT - 1)
    BY <1>1, <1>4
  <2> QED
    BY ONLY <2>1 DEF Ptr, BlockAt
<1>5. ASSUME k >= NDIRECT, k < NDIRECT + NINDIRECT
      PROVE  /\ k - NDIRECT \in Indices
             /\ Ptr(d, i, k) = d.ptr[d.inode[i].indirect][k - NDIRECT]
  <2>1. ~(k >= NDIRECT + NINDIRECT) /\ k - NDIRECT \in Indices
    BY <1>1, <1>5 DEF Indices
  <2> QED
    BY ONLY <1>5, <2>1 DEF Ptr, BlockAt
<1> QED
  BY <1>3, <1>4, <1>5

(* The blocks that an owned disk's pointers lead to. *)
LEMMA OwnedBlocks ==
  ASSUME NEW d \in Disks, NEW S, Owned(d, S)
  PROVE  /\ 0 \notin Data /\ Data \subseteq Blocks /\ 0 \in Blocks
         /\ \A b \in IndexBlocks(d) : b \in Data \ S
         /\ \A i \in Live(d) :
              /\ i \in Inodes \ {0}
              /\ d.inode[i].indirect = 0 \/ d.inode[i].indirect \in IndexBlocks(d)
              /\ d.inode[i].indirect2 = 0 \/ d.inode[i].indirect2 \in IndexBlocks(d)
              /\ \A k \in Indices : \/ d.ptr[d.inode[i].indirect2][k] = 0
                                    \/ d.ptr[d.inode[i].indirect2][k] \in IndexBlocks(d)
         /\ \A i \in Live(d) : \A k \in 0..(MAXFILEBLKS - 1) :
              Ptr(d, i, k) = 0 \/ Ptr(d, i, k) \in Data \ S
<1>1. 0 \notin Data /\ Data \subseteq Blocks /\ 0 \in Blocks
  BY OspfsAssumption DEF Data, Blocks
<1>2. \A k \in Indices : d.ptr[0][k] = 0
  BY DEF Owned, ZeroPtrs
<1>3. ASSUME NEW i \in Live(d)
      PROVE  /\ i \in Inodes \ {0}
             /\ d.inode[i].indirect \in Blocks /\ d.inode[i].indirect2 \in Blocks
             /\ \A k \in Indices : d.ptr[d.inode[i].indirect2][k] \in Blocks
  BY DEF Live, Disks, InodeRecords
<1>4. ASSUME NEW i \in Live(d)
      PROVE  /\ d.inode[i].indirect = 0 \/ d.inode[i].indirect \in IndexBlocks(d)
             /\ d.inode[i].indirect2 = 0 \/ d.inode[i].indirect2 \in IndexBlocks(d)
             /\ \A k \in Indices : \/ d.ptr[d.inode[i].indirect2][k] = 0
                                   \/ d.ptr[d.inode[i].indirect2][k] \in IndexBlocks(d)
  BY <1>2, <1>3 DEF IndexBlocks
<1>5. ASSUME NEW b \in IndexBlocks(d) PROVE b \in Data \ S
  <2>1. PICK i \in Live(d) :
          \/ b = d.inode[i].indirect
          \/ b = d.inode[i].indirect2
          \/ d.inode[i].indirect2 # 0 /\ \E k \in Indices : b = d.ptr[d.inode[i].indirect2][k]
    BY DEF IndexBlocks
  <2>2. b # 0
    BY DEF IndexBlocks
  <2>3. CASE b = d.inode[i].indirect
    <3>1. <<i, "indirect", 0, b>> \in Refs(d)
      BY <2>2, <2>3, RefsAre
    <3> QED
      BY <3>1 DEF Owned
  <2>4. CASE b = d.inode[i].indirect2
    <3>1. <<i, "indirect2", 0, b>> \in Refs(d)
      BY <2>2, <2>4, RefsAre
    <3> QED
      BY <3>1 DEF Owned
  <2>5. ASSUME d.inode[i].indirect2 # 0, NEW k \in Indices, b = d.ptr[d.inode[i].indirect2][k]
        PROVE  b \in Data \ S
    <3>1. <<d.inode[i].indirect2, "block", k, b>> \in Refs(d)
      BY <1>4, <2>2, <2>5, RefsAre
    <3> QED
      BY <3>1 DEF Owned
  <2> QED
    BY <2>1, <2>3, <2>4, <2>5
<1>6. ASSUME NEW i \in Live(d), NEW k \in 0..(MAXFILEBLKS - 1), Ptr(d, i, k) # 0
      PROVE  Ptr(d, i, k) \in Data \ S
  <2>1. NDIRECT \in Nat /\ NINDIRECT \in Nat /\ k \in Nat
    BY OspfsAssumption
  <2>2. CASE k < NDIRECT
    <3>1. <<i, "direct", k, Ptr(d, i, k)>> \in Refs(d)
      BY <1>6, <2>2, PtrIs, RefsAre
    <3> QED
      BY <3>1 DEF Owned
  <2>3. CASE k >= NDIRECT /\ k < NDIRECT + NINDIRECT
    <3>1. k - NDIRECT \in Indices /\ Ptr(d, i, k) = d.ptr[d.inode[i].indirect][k - NDIRECT]
      BY <2>3, PtrIs
    <3>2. <<d.inode[i].indirect, "block", k - NDIRECT, Ptr(d, i, k)>> \in Refs(d)
      BY <1>2, <1>4, <1>6, <3>1, RefsAre
    <3> QED
      BY <3>2 DEF Owned
  <2>4. CASE k >= NDIRECT + NINDIRECT
    <3> DEFINE b == d.ptr[d.inode[i].indirect2][Outer(k)]
    <3>1. Outer(k) \in Indices /\ Inner(k) \in Indices /\ Ptr(d, i, k) = d.ptr[b][Inner(k)]
      BY <2>4, PtrIs
    <3>2. b = 0 \/ b \in IndexBlocks(d)
      BY <1>4, <3>1
    <3> HIDE DEF b
    <3>3. <<b, "block", Inner(k), Ptr(d, i, k)>> \in Refs(d)
      BY <1>2, <1>6, <3>1, <3>2, RefsAre
    <3> QED
      BY <3>3 DEF Owned
  <2> QED
    BY <2>1, <2>2, <2>3, <2>4
<1> QED
  BY <1>1, <1>3, <1>4, <1>5, <1>6

(* One pointer more, to a block that nothing pointed to. *)
LEMMA OneMoreRef ==
  ASSUME NEW d, NEW e, NEW S, NEW r, Owned(d, S), Refs(e) \subseteq Refs(d) \cup {r},
         r[4] \in Data, r[4] \in S, e.ptr[0] = ZeroPtrs
  PROVE  Owned(e, S \ {r[4]})
BY DEF Owned

(* One pointer less: what it pointed to has no pointer any more. *)
LEMMA OneRefLess ==
  ASSUME NEW d, NEW e, NEW S, NEW r \in Refs(d), Owned(d, S), Refs(e) \subseteq Refs(d) \ {r},
         e.ptr[0] = ZeroPtrs
  PROVE  Owned(e, S \cup {r[4]})
BY DEF Owned

(* Nothing changes for a subset. *)
LEMMA FewerRefs ==
  ASSUME NEW d, NEW e, NEW S, NEW T, Owned(d, S), T \subseteq S, Refs(e) \subseteq Refs(d),
         e.ptr[0] = ZeroPtrs
  PROVE  Owned(e, T)
BY DEF Owned

(* the block of pointers that holds the pointer to block k of file i, and the
   place in it, for a block that is not direct *)
IndexOf(d, i, k) ==
  IF k < NDIRECT + NINDIRECT THEN d.inode[i].indirect
  ELSE d.ptr[d.inode[i].indirect2][Outer(k)]
PlaceOf(k) == IF k < NDIRECT + NINDIRECT THEN k - NDIRECT ELSE Inner(k)

(* The pointer to a block, in terms of the block of pointers. *)
LEMMA IndexIs ==
  ASSUME NEW k \in NDIRECT..(MAXFILEBLKS - 1)
  PROVE  /\ k \in 0..(MAXFILEBLKS - 1) /\ PlaceOf(k) \in Indices /\ direct_index(k) = PlaceOf(k)
         /\ k >= NDIRECT + NINDIRECT => Outer(k) \in Indices /\ indir_index(k) = Outer(k)
         /\ \A d, i : Ptr(d, i, k) = d.ptr[IndexOf(d, i, k)][PlaceOf(k)]
<1>1. NDIRECT \in Nat \ {0} /\ NINDIRECT \in Nat \ {0} /\ k \in Nat
  BY OspfsAssumption
<1>2. k \in 0..(MAXFILEBLKS - 1)
  BY <1>1
<1>3. CASE k < NDIRECT + NINDIRECT
  BY <1>1, <1>2, <1>3, PtrIs DEF PlaceOf, IndexOf, direct_index
<1>4. CASE k >= NDIRECT + NINDIRECT
  <2>1. k \in (NDIRECT + NINDIRECT)..(MAXFILEBLKS - 1)
    BY <1>1, <1>4
  <2> QED
    BY <1>1, <1>2, <1>4, <2>1, PtrIs, DoubleIndex DEF PlaceOf, IndexOf
<1> QED
  BY <1>1, <1>3, <1>4

(* A block of pointers belongs to one part of one file. *)
LEMMA IndexUnique ==
  ASSUME NEW d \in Disks, NEW S, Owned(d, S), NEW i \in Live(d), NEW k \in NDIRECT..(MAXFILEBLKS - 1),
         IndexOf(d, i, k) # 0
  PROVE  /\ IndexOf(d, i, k) \in IndexBlocks(d)
         /\ \A j \in Live(d) : IndexOf(d, i, k) # d.inode[j].indirect2
         /\ \A j \in Live(d) : \A l \in NDIRECT..(MAXFILEBLKS - 1) :
              IndexOf(d, j, l) = IndexOf(d, i, k) =>
                /\ i = j
                /\ k < NDIRECT + NINDIRECT <=> l < NDIRECT + NINDIRECT
                /\ k >= NDIRECT + NINDIRECT => Outer(k) = Outer(l)
<1>1. ASSUME NEW j \in Live(d), NEW l \in NDIRECT..(MAXFILEBLKS - 1), IndexOf(d, j, l) # 0
      PROVE  /\ IndexOf(d, j, l) \in IndexBlocks(d)
             /\ l < NDIRECT + NINDIRECT => <<j, "indirect", 0, IndexOf(d, j, l)>> \in Refs(d)
             /\ l >= NDIRECT + NINDIRECT =>
                  /\ d.inode[j].indirect2 # 0
                  /\ <<d.inode[j].indirect2, "block", Outer(l), IndexOf(d, j, l)>> \in Refs(d)
                  /\ <<j, "indirect2", 0, d.inode[j].indirect2>> \in Refs(d)
  <2>1. l >= NDIRECT + NINDIRECT => Outer(l) \in Indices
    BY IndexIs
  <2>2. \A m \in Indices : d.ptr[0][m] = 0
    BY DEF Owned, ZeroPtrs
  <2>3. l \in Nat /\ NDIRECT \in Nat /\ NINDIRECT \in Nat
    BY OspfsAssumption
  <2>4. CASE l < NDIRECT + NINDIRECT
    BY <1>1, <2>3, <2>4, RefsAre, OwnedBlocks DEF IndexOf
  <2>5. CASE l >= NDIRECT + NINDIRECT
    <3>1. IndexOf(d, j, l) = d.ptr[d.inode[j].indirect2][Outer(l)]
      BY <2>3, <2>5 DEF IndexOf
    <3>2. d.inode[j].indirect2 # 0
      BY <1>1, <2>1, <2>2, <2>5, <3>1
    <3>3. d.inode[j].indirect2 \in IndexBlocks(d) /\ IndexOf(d, j, l) \in IndexBlocks(d)
      BY <1>1, <2>1, <2>5, <3>1, <3>2, OwnedBlocks
    <3> QED
      BY <1>1, <2>1, <2>3, <2>5, <3>1, <3>2, <3>3, RefsAre
  <2> QED
    BY <2>3, <2>4, <2>5
<1>2. NDIRECT \in Nat /\ NINDIRECT \in Nat /\ \A l \in NDIRECT..(MAXFILEBLKS - 1) : l \in Nat
  BY OspfsAssumption
<1>3. ASSUME NEW j \in Live(d) PROVE IndexOf(d, i, k) # d.inode[j].indirect2
  <2> SUFFICES ASSUME IndexOf(d, i, k) = d.inode[j].indirect2 PROVE FALSE
    OBVIOUS
  <2>1. <<j, "indirect2", 0, IndexOf(d, i, k)>> \in Refs(d)
    BY RefsAre
  <2>2. CASE k < NDIRECT + NINDIRECT
    <3>1. <<i, "indirect", 0, IndexOf(d, i, k)>> \in Refs(d)
      BY <1>1, <2>2
    <3> QED
      BY <2>1, <3>1 DEF Owned
  <2>3. CASE k >= NDIRECT + NINDIRECT
    <3>1. <<d.inode[i].indirect2, "block", Outer(k), IndexOf(d, i, k)>> \in Refs(d)
      BY <1>1, <2>3
    <3> QED
      BY <2>1, <3>1 DEF Owned
  <2> QED
    BY <1>2, <2>2, <2>3
<1>4. ASSUME NEW j \in Live(d), NEW l \in NDIRECT..(MAXFILEBLKS - 1),
             IndexOf(d, j, l) = IndexOf(d, i, k)
      PROVE  /\ i = j
             /\ k < NDIRECT + NINDIRECT <=> l < NDIRECT + NINDIRECT
             /\ k >= NDIRECT + NINDIRECT => Outer(k) = Outer(l)
  <2> DEFINE b == IndexOf(d, i, k)
  <2>1. b # 0 /\ IndexOf(d, j, l) = b
    BY <1>4
  <2> HIDE DEF b
  <2>2. ASSUME NEW p \in Refs(d), NEW q \in Refs(d), p[4] = q[4] PROVE p = q
    BY <2>2 DEF Owned
  <2>3. CASE k < NDIRECT + NINDIRECT /\ l < NDIRECT + NINDIRECT
    <3>1. <<i, "indirect", 0, b>> \in Refs(d) /\ <<j, "indirect", 0, b>> \in Refs(d)
      BY <1>1, <2>1, <2>3 DEF b
    <3> QED
      BY <1>2, <2>2, <2>3, <3>1
  <2>4. CASE k < NDIRECT + NINDIRECT /\ l >= NDIRECT + NINDIRECT
    <3>1. <<i, "indirect", 0, b>> \in Refs(d)
          /\ <<d.inode[j].indirect2, "block", Outer(l), b>> \in Refs(d)
      BY <1>1, <2>1, <2>4 DEF b
    <3> QED
      BY <2>2, <3>1
  <2>5. CASE k >= NDIRECT + NINDIRECT /\ l < NDIRECT + NINDIRECT
    <3>1. <<j, "indirect", 0, b>> \in Refs(d)
          /\ <<d.inode[i].indirect2, "block", Outer(k), b>> \in Refs(d)
      BY <1>1, <2>1, <2>5 DEF b
    <3> QED
      BY <2>2, <3>1
  <2>6. CASE k >= NDIRECT + NINDIRECT /\ l >= NDIRECT + NINDIRECT
    <3>1. /\ <<d.inode[j].indirect2, "block", Outer(l), b>> \in Refs(d)
          /\ <<d.inode[i].indirect2, "block", Outer(k), b>> \in Refs(d)
          /\ <<j, "indirect2", 0, d.inode[j].indirect2>> \in Refs(d)
          /\ <<i, "indirect2", 0, d.inode[i].indirect2>> \in Refs(d)
      BY <1>1, <2>1, <2>6 DEF b
    <3>2. d.inode[j].indirect2 = d.inode[i].indirect2 /\ Outer(l) = Outer(k)
      BY <2>2, <3>1
    <3>3. i = j
      BY <2>2, <3>1, <3>2
    <3> QED
      BY <1>2, <2>6, <3>2, <3>3
  <2> QED
    BY <1>2, <2>3, <2>4, <2>5, <2>6
<1> QED
  BY <1>1, <1>3, <1>4

(* No block of a file is also another block, of this or of another file. *)
LEMMA PtrUnique ==
  ASSUME NEW d \in Disks, NEW S, Owned(d, S), NEW i \in Live(d), NEW j \in Live(d),
         NEW k \in 0..(MAXFILEBLKS - 1), NEW l \in 0..(MAXFILEBLKS - 1),
         Ptr(d, i, k) = Ptr(d, j, l), Ptr(d, i, k) # 0
  PROVE  i = j /\ k = l
<1> DEFINE v == Ptr(d, i, k)
<1>1. NDIRECT \in Nat \ {0} /\ NINDIRECT \in Nat \ {0} /\ k \in Nat /\ l \in Nat
  BY OspfsAssumption
<1>2. v # 0 /\ Ptr(d, j, l) = v
  OBVIOUS
<1> HIDE DEF v
<1>3. ASSUME NEW p \in Refs(d), NEW q \in Refs(d), p[4] = q[4] PROVE p = q
  BY <1>3 DEF Owned
<1>4. ASSUME NEW a \in Live(d), NEW m \in 0..(MAXFILEBLKS - 1), Ptr(d, a, m) = v
      PROVE  /\ m < NDIRECT => <<a, "direct", m, v>> \in Refs(d)
             /\ m >= NDIRECT =>
                  /\ m \in NDIRECT..(MAXFILEBLKS - 1)
                  /\ IndexOf(d, a, m) # 0
                  /\ <<IndexOf(d, a, m), "block", PlaceOf(m), v>> \in Refs(d)
  <2>1. CASE m < NDIRECT
    BY <1>1, <1>2, <1>4, <2>1, PtrIs, RefsAre
  <2>2. CASE m >= NDIRECT
    <3>1. m \in NDIRECT..(MAXFILEBLKS - 1)
      BY <1>1, <2>2
    <3>2. v = d.ptr[IndexOf(d, a, m)][PlaceOf(m)] /\ PlaceOf(m) \in Indices
      BY <1>4, <3>1, IndexIs
    <3>3. IndexOf(d, a, m) # 0
      BY <1>2, <3>2 DEF Owned, ZeroPtrs
    <3>4. IndexOf(d, a, m) \in IndexBlocks(d)
      BY <3>1, <3>3, IndexUnique
    <3>5. <<IndexOf(d, a, m), "block", PlaceOf(m), v>> \in Refs(d)
      BY <1>2, <3>2, <3>4, RefsAre
    <3> QED
      BY <1>1, <2>2, <3>1, <3>3, <3>5
  <2> QED
    BY <1>1, <2>1, <2>2
<1>5. CASE k < NDIRECT /\ l < NDIRECT
  BY <1>2, <1>3, <1>4, <1>5 DEF v
<1>6. CASE k < NDIRECT /\ l >= NDIRECT
  BY <1>2, <1>3, <1>4, <1>6 DEF v
<1>7. CASE k >= NDIRECT /\ l < NDIRECT
  BY <1>2, <1>3, <1>4, <1>7 DEF v
<1>8. CASE k >= NDIRECT /\ l >= NDIRECT
  <2>1. k \in NDIRECT..(MAXFILEBLKS - 1) /\ l \in NDIRECT..(MAXFILEBLKS - 1)
    BY <1>2, <1>4, <1>8 DEF v
  <2>2. /\ <<IndexOf(d, i, k), "block", PlaceOf(k), v>> \in Refs(d)
        /\ <<IndexOf(d, j, l), "block", PlaceOf(l), v>> \in Refs(d)
        /\ IndexOf(d, i, k) # 0
    BY <1>2, <1>4, <1>8 DEF v
  <2>3. IndexOf(d, i, k) = IndexOf(d, j, l) /\ PlaceOf(k) = PlaceOf(l)
    BY <1>3, <2>2
  <2>4. /\ i = j
        /\ k < NDIRECT + NINDIRECT <=> l < NDIRECT + NINDIRECT
        /\ k >= NDIRECT + NINDIRECT => Outer(k) = Outer(l)
    BY <2>1, <2>2, <2>3, IndexUnique
  <2>5. CASE k < NDIRECT + NINDIRECT
    BY <1>1, <2>3, <2>4, <2>5 DEF PlaceOf
  <2>6. CASE k >= NDIRECT + NINDIRECT
    <3>1. Outer(k) = Outer(l) /\ Inner(k) = Inner(l)
      BY <1>1, <2>3, <2>4, <2>6 DEF PlaceOf
    <3>2. k \in (NDIRECT + NINDIRECT)..(MAXFILEBLKS - 1) /\ l \in (NDIRECT + NINDIRECT)..(MAXFILEBLKS - 1)
      BY <1>1, <2>4, <2>6
    <3>3. k = NDIRECT + NINDIRECT + NINDIRECT * Outer(k) + Inner(k)
      BY <3>2, DoubleIndex
    <3>4. l = NDIRECT + NINDIRECT + NINDIRECT * Outer(l) + Inner(l)
      BY <3>2, DoubleIndex
    <3> QED
      BY <2>4, <3>1, <3>3, <3>4
  <2> QED
    BY <1>1, <2>5, <2>6
<1> QED
  BY <1>1, <1>5, <1>6, <1>7, <1>8

-----------------------------------------------------------------------------
(* Elementary changes of a disk *)

(* the same inodes are live, and they have the same blocks *)
SamePtrs(d, e) ==
  /\ Live(e) = Live(d)
  /\ \A i \in Live(d) : \A k \in 0..(MAXFILEBLKS - 1) : Ptr(e, i, k) = Ptr(d, i, k)

(* except for block n of file ino, which is now v *)
SamePtrsBut(d, e, ino, n, v) ==
  /\ Live(e) = Live(d)
  /\ Ptr(e, ino, n) = v
  /\ \A i \in Live(d) : \A k \in 0..(MAXFILEBLKS - 1) :
       i # ino \/ k # n => Ptr(e, i, k) = Ptr(d, i, k)

(* except for the blocks of file ino from n on *)
SamePtrsBelow(d, e, ino, n) ==
  /\ Live(e) = Live(d)
  /\ \A i \in Live(d) : \A k \in 0..(MAXFILEBLKS - 1) :
       i # ino \/ k < n => Ptr(e, i, k) = Ptr(d, i, k)

(* inodes that agree in what their blocks depend on *)
SamePointerFields(oi, oj) ==
  /\ oi.ftype = oj.ftype /\ oi.symlink = oj.symlink
  /\ oi.direct = oj.direct /\ oi.indirect = oj.indirect /\ oi.indirect2 = oj.indirect2

(* Sizes, link counts, the bitmap and directory entries are no pointers. *)
LEMMA SameFields ==
  ASSUME NEW d \in Disks, NEW e \in Disks, e.ptr = d.ptr,
         \A i \in Inodes : SamePointerFields(d.inode[i], e.inode[i])
  PROVE  /\ SamePtrs(d, e) /\ IndexBlocks(e) = IndexBlocks(d)
         /\ \A S : Owned(d, S) => Owned(e, S)
<1>1. Live(e) = Live(d)
  BY DEF Live, SamePointerFields
<1>2. \A i \in Live(d) : i \in Inodes
  BY DEF Live
<1>3. IndexBlocks(e) = IndexBlocks(d)
  BY <1>1, <1>2 DEF IndexBlocks, SamePointerFields
<1>4. Refs(e) \subseteq Refs(d)
  <2> SUFFICES ASSUME NEW p \in Refs(e) PROVE p \in Refs(d)
    OBVIOUS
  <2>1. CASE \E i \in Live(e), k \in 0..(NDIRECT - 1) :
               p = <<i, "direct", k, e.inode[i].direct[k]>>
    BY <1>1, <1>2, <2>1, RefsAre DEF SamePointerFields
  <2>2. CASE \E i \in Live(e) : p = <<i, "indirect", 0, e.inode[i].indirect>>
    BY <1>1, <1>2, <2>2, RefsAre DEF SamePointerFields
  <2>3. CASE \E i \in Live(e) : p = <<i, "indirect2", 0, e.inode[i].indirect2>>
    BY <1>1, <1>2, <2>3, RefsAre DEF SamePointerFields
  <2>4. CASE \E b \in IndexBlocks(e), k \in Indices : p = <<b, "block", k, e.ptr[b][k]>>
    BY <1>3, <2>4, RefsAre
  <2> QED
    BY <2>1, <2>2, <2>3, <2>4, RefsAre
<1>5. SamePtrs(d, e)
  BY <1>1, <1>2 DEF SamePtrs, SamePointerFields, Ptr, BlockAt
<1>6. ASSUME NEW S, Owned(d, S) PROVE Owned(e, S)
  BY <1>4, <1>6, FewerRefs DEF Owned
<1> QED
  BY <1>3, <1>5, <1>6

(* allocate_block of a block that nothing points to, and zero_out_block *)
LEMMA TakeIs ==
  ASSUME NEW d \in Disks, NEW S, Owned(d, S), NEW b \in Data, b \in S
  PROVE  /\ Take(d, b) \in Disks
         /\ Take(d, b).inode = d.inode
         /\ Take(d, b).free = d.free \ {b}
         /\ Take(d, b).ptr = [d.ptr EXCEPT ![b] = ZeroPtrs]
         /\ Take(d, b).ent = [d.ent EXCEPT ![b] = ZeroEnts]
         /\ Owned(Take(d, b), S)
         /\ SamePtrs(d, Take(d, b)) /\ IndexBlocks(Take(d, b)) = IndexBlocks(d)
<1> DEFINE e == Take(d, b)
<1>1. b \in Blocks /\ b # 0
  BY OwnedBlocks
<1>2. ZeroPtrs \in [Indices -> Blocks] /\ ZeroEnts \in [Slots -> DirEntries]
  BY OspfsAssumption DEF ZeroPtrs, ZeroEnts, NoEntry, DirEntries, Blocks, Inodes
<1>3. /\ e \in Disks
      /\ e.inode = d.inode /\ e.free = d.free \ {b}
      /\ e.ptr = [d.ptr EXCEPT ![b] = ZeroPtrs]
      /\ e.ent = [d.ent EXCEPT ![b] = ZeroEnts]
  BY <1>1, <1>2 DEF Take, Disks
<1> HIDE DEF e
<1>4. b \notin IndexBlocks(d)
  BY OwnedBlocks
<1>5. \A x \in Blocks : x # b => e.ptr[x] = d.ptr[x]
  BY <1>3 DEF Disks
<1>6. Live(e) = Live(d)
  BY <1>3 DEF Live
<1>7. ASSUME NEW i \in Live(d)
      PROVE  /\ d.inode[i].indirect \in Blocks /\ d.inode[i].indirect # b
             /\ d.inode[i].indirect2 \in Blocks /\ d.inode[i].indirect2 # b
             /\ \A k \in Indices : d.ptr[d.inode[i].indirect2][k] \in Blocks \ {b}
  <2>1. d.inode[i] \in InodeRecords
    BY DEF Live, Disks
  <2>2. d.inode[i].indirect \in Blocks /\ d.inode[i].indirect2 \in Blocks
    BY <2>1 DEF InodeRecords
  <2>3. \A k \in Indices : d.ptr[d.inode[i].indirect2][k] \in Blocks
    BY <2>2 DEF Disks
  <2> QED
    BY <1>1, <1>4, <2>2, <2>3, OwnedBlocks
<1>8. IndexBlocks(e) = IndexBlocks(d)
  BY <1>3, <1>5, <1>6, <1>7 DEF IndexBlocks
<1>9. \A x \in IndexBlocks(d) : x \in Blocks /\ x # b
  BY <1>4 DEF IndexBlocks
<1>10. Refs(e) \subseteq Refs(d)
  <2> SUFFICES ASSUME NEW p \in Refs(e) PROVE p \in Refs(d)
    OBVIOUS
  <2>1. CASE \E i \in Live(e), k \in 0..(NDIRECT - 1) :
               p = <<i, "direct", k, e.inode[i].direct[k]>>
    BY <1>3, <1>6, <2>1, RefsAre
  <2>2. CASE \E i \in Live(e) : p = <<i, "indirect", 0, e.inode[i].indirect>>
    BY <1>3, <1>6, <2>2, RefsAre
  <2>3. CASE \E i \in Live(e) : p = <<i, "indirect2", 0, e.inode[i].indirect2>>
    BY <1>3, <1>6, <2>3, RefsAre
  <2>4. CASE \E x \in IndexBlocks(e), k \in Indices : p = <<x, "block", k, e.ptr[x][k]>>
    BY <1>3, <1>5, <1>8, <1>9, <2>4, RefsAre
  <2> QED
    BY <1>3, <2>1, <2>2, <2>3, <2>4, RefsAre
<1>11. Owned(e, S)
  <2>1. e.ptr[0] = ZeroPtrs
    BY <1>1, <1>5, OwnedBlocks DEF Owned
  <2> QED
    BY <1>10, <2>1, FewerRefs
<1>12. ASSUME NEW i \in Live(d), NEW k \in 0..(MAXFILEBLKS - 1) PROVE Ptr(e, i, k) = Ptr(d, i, k)
  <2>1. NDIRECT \in Nat /\ NINDIRECT \in Nat /\ k \in Nat
    BY OspfsAssumption
  <2>2. CASE k < NDIRECT
    BY <1>3, <2>2, PtrIs
  <2>3. CASE k >= NDIRECT /\ k < NDIRECT + NINDIRECT
    <3>1. Ptr(e, i, k) = e.ptr[e.inode[i].indirect][k - NDIRECT]
      BY <2>3, PtrIs
    <3>2. Ptr(d, i, k) = d.ptr[d.inode[i].indirect][k - NDIRECT]
      BY <2>3, PtrIs
    <3> QED
      BY <1>3, <1>5, <1>7, <3>1, <3>2
  <2>4. CASE k >= NDIRECT + NINDIRECT
    <3>1. Outer(k) \in Indices
          /\ Ptr(e, i, k) = e.ptr[e.ptr[e.inode[i].indirect2][Outer(k)]][Inner(k)]
      BY <2>4, PtrIs
    <3>2. Ptr(d, i, k) = d.ptr[d.ptr[d.inode[i].indirect2][Outer(k)]][Inner(k)]
      BY <2>4, PtrIs
    <3> QED
      BY <1>3, <1>5, <1>7, <3>1, <3>2
  <2> QED
    BY <2>1, <2>2, <2>3, <2>4
<1> QED
  BY <1>3, <1>6, <1>8, <1>11, <1>12 DEF e, SamePtrs

(* e is d with one pointer set to v, besides what is no pointer *)
SetsDirect(d, e, ino, n, v) ==
  /\ e.ptr = d.ptr
  /\ \A i \in Inodes :
       /\ e.inode[i].ftype = d.inode[i].ftype /\ e.inode[i].symlink = d.inode[i].symlink
       /\ e.inode[i].indirect = d.inode[i].indirect
       /\ e.inode[i].indirect2 = d.inode[i].indirect2
       /\ \A k \in 0..(NDIRECT - 1) :
            e.inode[i].direct[k] = IF i = ino /\ k = n THEN v ELSE d.inode[i].direct[k]

SetsIndirect(d, e, ino, v) ==
  /\ e.ptr = d.ptr
  /\ \A i \in Inodes :
       /\ e.inode[i].ftype = d.inode[i].ftype /\ e.inode[i].symlink = d.inode[i].symlink
       /\ e.inode[i].direct = d.inode[i].direct
       /\ e.inode[i].indirect = IF i = ino THEN v ELSE d.inode[i].indirect
       /\ e.inode[i].indirect2 = d.inode[i].indirect2

SetsIndirect2(d, e, ino, v) ==
  /\ e.ptr = d.ptr
  /\ \A i \in Inodes :
       /\ e.inode[i].ftype = d.inode[i].ftype /\ e.inode[i].symlink = d.inode[i].symlink
       /\ e.inode[i].direct = d.inode[i].direct
       /\ e.inode[i].indirect = d.inode[i].indirect
       /\ e.inode[i].indirect2 = IF i = ino THEN v ELSE d.inode[i].indirect2

SetsPtr(d, e, b, n, v) ==
  /\ \A x \in Blocks : \A k \in Indices :
       e.ptr[x][k] = IF x = b /\ k = n THEN v ELSE d.ptr[x][k]
  /\ \A i \in Inodes : SamePointerFields(d.inode[i], e.inode[i])

(* The pointer to a direct block is set to a block that had no pointer, or
   cleared. *)
LEMMA SetDirect ==
  ASSUME NEW d \in Disks, NEW S, Owned(d, S), NEW ino \in Live(d), NEW n \in 0..(NDIRECT - 1),
         NEW v \in Data \cup {0}, v # 0 => v \in S, NEW e \in Disks, SetsDirect(d, e, ino, n, v)
  PROVE  /\ v # 0 => Owned(e, S \ {v})
         /\ v = 0 => Owned(e, S \cup ({d.inode[ino].direct[n]} \ {0}))
         /\ SamePtrsBut(d, e, ino, n, v)
<1>1. Live(e) = Live(d) /\ \A i \in Live(d) : i \in Inodes
  BY DEF Live, SetsDirect
<1>2. e.ptr = d.ptr
  BY DEF SetsDirect
<1>3. ASSUME NEW i \in Live(d)
      PROVE  e.inode[i].indirect = d.inode[i].indirect /\ e.inode[i].indirect2 = d.inode[i].indirect2
  BY <1>1 DEF SetsDirect
<1>4. IndexBlocks(e) = IndexBlocks(d)
  BY <1>1, <1>2, <1>3 DEF IndexBlocks
<1>5. ASSUME NEW i \in Live(d), NEW k \in 0..(NDIRECT - 1)
      PROVE  e.inode[i].direct[k] = IF i = ino /\ k = n THEN v ELSE d.inode[i].direct[k]
  BY <1>1 DEF SetsDirect
<1> DEFINE old == <<ino, "direct", n, d.inode[ino].direct[n]>>
           new == <<ino, "direct", n, v>>
<1>6. ASSUME NEW p \in Refs(e) PROVE p = new \/ (p \in Refs(d) /\ p # old)
  <2>1. CASE \E i \in Live(e), k \in 0..(NDIRECT - 1) :
               p = <<i, "direct", k, e.inode[i].direct[k]>>
    <3>1. PICK i \in Live(e), k \in 0..(NDIRECT - 1) : p = <<i, "direct", k, e.inode[i].direct[k]>>
      BY <2>1
    <3>2. CASE i = ino /\ k = n
      BY <1>1, <1>5, <3>1, <3>2
    <3>3. CASE i # ino \/ k # n
      <4>1. p = <<i, "direct", k, d.inode[i].direct[k]>> /\ p[4] # 0
        BY <1>1, <1>5, <3>1, <3>3, RefsAre
      <4> QED
        BY <1>1, <3>3, <4>1, RefsAre
    <3> QED
      BY <3>2, <3>3
  <2>2. CASE \E i \in Live(e) : p = <<i, "indirect", 0, e.inode[i].indirect>>
    BY <1>1, <1>3, <2>2, RefsAre
  <2>3. CASE \E i \in Live(e) : p = <<i, "indirect2", 0, e.inode[i].indirect2>>
    BY <1>1, <1>3, <2>3, RefsAre
  <2>4. CASE \E x \in IndexBlocks(e), k \in Indices : p = <<x, "block", k, e.ptr[x][k]>>
    BY <1>2, <1>4, <2>4, RefsAre
  <2> QED
    BY <2>1, <2>2, <2>3, <2>4, RefsAre
<1>7. ASSUME v # 0 PROVE Owned(e, S \ {v})
  <2>1. Refs(e) \subseteq Refs(d) \cup {new} /\ new[4] = v
    BY <1>6
  <2> QED
    BY <1>2, <1>7, <2>1, OneMoreRef DEF Owned
<1>8. ASSUME v = 0 PROVE Owned(e, S \cup ({d.inode[ino].direct[n]} \ {0}))
  <2>1. Refs(e) \subseteq Refs(d) \ {old}
    BY <1>6, <1>8, RefsAre
  <2>2. CASE d.inode[ino].direct[n] = 0
    <3>1. S \cup ({d.inode[ino].direct[n]} \ {0}) = S
      BY <2>2
    <3> QED
      BY <1>2, <2>1, <3>1, FewerRefs DEF Owned
  <2>3. CASE d.inode[ino].direct[n] # 0
    <3>1. old \in Refs(d) /\ old[4] = d.inode[ino].direct[n]
      BY <2>3, RefsAre
    <3>2. S \cup ({d.inode[ino].direct[n]} \ {0}) = S \cup {old[4]}
      BY <2>3, <3>1
    <3> QED
      BY <1>2, <2>1, <3>1, <3>2, OneRefLess DEF Owned
  <2> QED
    BY <2>2, <2>3
<1>9. n \in 0..(MAXFILEBLKS - 1) /\ NDIRECT \in Nat /\ n < NDIRECT
  <2>1. NINDIRECT * NINDIRECT \in Nat
    BY OspfsAssumption
  <2> QED
    BY <2>1, OspfsAssumption DEF MAXFILEBLKS
<1>10. ASSUME NEW i \in Live(d), NEW k \in 0..(MAXFILEBLKS - 1)
       PROVE  Ptr(e, i, k) = IF i = ino /\ k = n THEN v ELSE Ptr(d, i, k)
  <2>1. CASE k < NDIRECT
    <3>1. k \in 0..(NDIRECT - 1) /\ Ptr(e, i, k) = e.inode[i].direct[k]
      BY <2>1, PtrIs
    <3>2. Ptr(d, i, k) = d.inode[i].direct[k]
      BY <2>1, PtrIs
    <3> QED
      BY <1>5, <3>1, <3>2
  <2>2. CASE k >= NDIRECT
    <3>1. k \in NDIRECT..(MAXFILEBLKS - 1)
      BY <1>9, <2>2
    <3>2. Ptr(e, i, k) = e.ptr[IndexOf(e, i, k)][PlaceOf(k)]
          /\ Ptr(d, i, k) = d.ptr[IndexOf(d, i, k)][PlaceOf(k)]
      BY <3>1, IndexIs
    <3>3. IndexOf(e, i, k) = IndexOf(d, i, k)
      BY <1>2, <1>3 DEF IndexOf
    <3> QED
      BY <1>2, <1>9, <2>2, <3>2, <3>3
  <2> QED
    BY <1>9, <2>1, <2>2
<1> QED
  BY <1>1, <1>7, <1>8, <1>9, <1>10 DEF SamePtrsBut

(* The pointer to the indirect block is set to an empty block that had no pointer,
   where there was none, or cleared. *)
LEMMA SetIndirect ==
  ASSUME NEW d \in Disks, NEW S, Owned(d, S), NEW ino \in Live(d), NEW v \in Data \cup {0},
         v # 0 => v \in S /\ d.ptr[v] = ZeroPtrs /\ d.inode[ino].indirect = 0,
         NEW e \in Disks, SetsIndirect(d, e, ino, v)
  PROVE  /\ v # 0 => Owned(e, S \ {v}) /\ SamePtrs(d, e) /\ v \in IndexBlocks(e)
         /\ v = 0 => /\ Owned(e, S \cup ({d.inode[ino].indirect} \ {0}))
                     /\ SamePtrsBelow(d, e, ino, NDIRECT)
<1>1. Live(e) = Live(d) /\ \A i \in Live(d) : i \in Inodes
  BY DEF Live, SetsIndirect
<1>2. e.ptr = d.ptr
  BY DEF SetsIndirect
<1>3. ASSUME NEW i \in Live(d)
      PROVE  /\ e.inode[i].indirect = IF i = ino THEN v ELSE d.inode[i].indirect
             /\ e.inode[i].indirect2 = d.inode[i].indirect2
             /\ e.inode[i].direct = d.inode[i].direct
  BY <1>1 DEF SetsIndirect
<1>4. ASSUME v # 0
      PROVE  \A k \in Indices : d.ptr[v][k] = 0
  BY <1>4 DEF ZeroPtrs
<1>5. ASSUME NEW b \in IndexBlocks(e) PROVE b \in IndexBlocks(d) \/ b = v
  BY <1>1, <1>2, <1>3, <1>4 DEF IndexBlocks
<1>6. ASSUME NEW b \in IndexBlocks(e) PROVE b # 0
  BY DEF IndexBlocks
<1> DEFINE old == <<ino, "indirect", 0, d.inode[ino].indirect>>
           new == <<ino, "indirect", 0, v>>
<1>7. ASSUME NEW p \in Refs(e) PROVE p = new \/ (p \in Refs(d) /\ p # old)
  <2>1. CASE \E i \in Live(e), k \in 0..(NDIRECT - 1) :
               p = <<i, "direct", k, e.inode[i].direct[k]>>
    BY <1>1, <1>3, <2>1, RefsAre
  <2>2. CASE \E i \in Live(e) : p = <<i, "indirect2", 0, e.inode[i].indirect2>>
    BY <1>1, <1>3, <2>2, RefsAre
  <2>3. CASE \E i \in Live(e) : p = <<i, "indirect", 0, e.inode[i].indirect>>
    <3>1. PICK i \in Live(e) : p = <<i, "indirect", 0, e.inode[i].indirect>>
      BY <2>3
    <3>2. CASE i = ino
      BY <1>1, <1>3, <3>1, <3>2
    <3>3. CASE i # ino
      <4>1. p = <<i, "indirect", 0, d.inode[i].indirect>> /\ p[4] # 0
        BY <1>1, <1>3, <3>1, <3>3, RefsAre
      <4> QED
        BY <1>1, <3>3, <4>1, RefsAre
    <3> QED
      BY <3>2, <3>3
  <2>4. CASE \E x \in IndexBlocks(e), k \in Indices : p = <<x, "block", k, e.ptr[x][k]>>
    <3>1. PICK x \in IndexBlocks(e), k \in Indices : p = <<x, "block", k, d.ptr[x][k]>>
      BY <1>2, <2>4
    <3>2. p[4] # 0
      BY RefsAre
    <3>3. x \in IndexBlocks(d)
      BY <1>4, <1>5, <1>6, <3>1, <3>2
    <3> QED
      BY <3>1, <3>2, <3>3, RefsAre
  <2> QED
    BY <2>1, <2>2, <2>3, <2>4, RefsAre
<1>8. ASSUME v # 0 PROVE Owned(e, S \ {v})
  <2>1. Refs(e) \subseteq Refs(d) \cup {new} /\ new[4] = v
    BY <1>7
  <2> QED
    BY <1>2, <1>8, <2>1, OneMoreRef DEF Owned
<1>9. ASSUME v # 0 PROVE v \in IndexBlocks(e)
  <2>1. e.inode[ino].indirect = v
    BY <1>3
  <2>2. v \in Blocks
    BY OwnedBlocks
  <2> QED
    BY <1>1, <1>9, <2>1, <2>2 DEF IndexBlocks
<1>10. ASSUME v = 0 PROVE Owned(e, S \cup ({d.inode[ino].indirect} \ {0}))
  <2>1. Refs(e) \subseteq Refs(d) \ {old}
    BY <1>7, <1>10, RefsAre
  <2>2. CASE d.inode[ino].indirect = 0
    <3>1. S \cup ({d.inode[ino].indirect} \ {0}) = S
      BY <2>2
    <3> QED
      BY <1>2, <2>1, <3>1, FewerRefs DEF Owned
  <2>3. CASE d.inode[ino].indirect # 0
    <3>1. old \in Refs(d) /\ old[4] = d.inode[ino].indirect
      BY <2>3, RefsAre
    <3>2. S \cup ({d.inode[ino].indirect} \ {0}) = S \cup {old[4]}
      BY <2>3, <3>1
    <3> QED
      BY <1>2, <2>1, <3>1, <3>2, OneRefLess DEF Owned
  <2> QED
    BY <2>2, <2>3
<1>11. NDIRECT \in Nat /\ NINDIRECT \in Nat
  BY OspfsAssumption
<1>12. ASSUME NEW i \in Live(d), NEW k \in 0..(MAXFILEBLKS - 1), v # 0 \/ i # ino \/ k < NDIRECT
       PROVE  Ptr(e, i, k) = Ptr(d, i, k)
  <2>1. CASE k < NDIRECT
    <3>1. k \in 0..(NDIRECT - 1) /\ Ptr(e, i, k) = e.inode[i].direct[k]
      BY <2>1, PtrIs
    <3>2. Ptr(d, i, k) = d.inode[i].direct[k]
      BY <2>1, PtrIs
    <3> QED
      BY <1>3, <3>1, <3>2
  <2>2. CASE k >= NDIRECT
    <3>1. k \in NDIRECT..(MAXFILEBLKS - 1)
      BY <1>11, <2>2
    <3>2. Ptr(e, i, k) = d.ptr[IndexOf(e, i, k)][PlaceOf(k)]
          /\ Ptr(d, i, k) = d.ptr[IndexOf(d, i, k)][PlaceOf(k)]
          /\ PlaceOf(k) \in Indices
      BY <1>2, <3>1, IndexIs
    <3>3. \A m \in Indices : d.ptr[0][m] = 0
      BY DEF Owned, ZeroPtrs
    <3>4. CASE i # ino
      BY <1>2, <1>3, <3>2, <3>4 DEF IndexOf
    <3>5. CASE i = ino /\ k >= NDIRECT + NINDIRECT
      BY <1>2, <1>3, <1>11, <3>2, <3>5 DEF IndexOf
    <3>6. CASE i = ino /\ k < NDIRECT + NINDIRECT
      <4>1. v # 0 /\ d.inode[ino].indirect = 0
        BY <1>11, <1>12, <2>2, <3>6
      <4>2. IndexOf(e, i, k) = v /\ IndexOf(d, i, k) = 0
        BY <1>3, <1>11, <3>6, <4>1 DEF IndexOf
      <4> QED
        BY <1>4, <3>2, <3>3, <4>1, <4>2
    <3> QED
      BY <1>11, <3>4, <3>5, <3>6
  <2> QED
    BY <1>11, <2>1, <2>2
<1> QED
  BY <1>1, <1>8, <1>9, <1>10, <1>12 DEF SamePtrs, SamePtrsBelow

(* The pointer to the doubly indirect block is set to an empty block that had no pointer,
   where there was none, or cleared. *)
LEMMA SetIndirect2 ==
  ASSUME NEW d \in Disks, NEW S, Owned(d, S), NEW ino \in Live(d), NEW v \in Data \cup {0},
         v # 0 => v \in S /\ d.ptr[v] = ZeroPtrs /\ d.inode[ino].indirect2 = 0,
         NEW e \in Disks, SetsIndirect2(d, e, ino, v)
  PROVE  /\ v # 0 => Owned(e, S \ {v}) /\ SamePtrs(d, e) /\ v \in IndexBlocks(e)
         /\ v = 0 => /\ Owned(e, S \cup ({d.inode[ino].indirect2} \ {0}))
                     /\ SamePtrsBelow(d, e, ino, NDIRECT + NINDIRECT)
<1>1. Live(e) = Live(d) /\ \A i \in Live(d) : i \in Inodes
  BY DEF Live, SetsIndirect2
<1>2. e.ptr = d.ptr
  BY DEF SetsIndirect2
<1>3. ASSUME NEW i \in Live(d)
      PROVE  /\ e.inode[i].indirect2 = IF i = ino THEN v ELSE d.inode[i].indirect2
             /\ e.inode[i].indirect = d.inode[i].indirect
             /\ e.inode[i].direct = d.inode[i].direct
  BY <1>1 DEF SetsIndirect2
<1>4. ASSUME v # 0
      PROVE  \A k \in Indices : d.ptr[v][k] = 0
  BY <1>4 DEF ZeroPtrs
<1>5. ASSUME NEW b \in IndexBlocks(e) PROVE b \in IndexBlocks(d) \/ b = v
  BY <1>1, <1>2, <1>3, <1>4 DEF IndexBlocks
<1>6. ASSUME NEW b \in IndexBlocks(e) PROVE b # 0
  BY DEF IndexBlocks
<1> DEFINE old == <<ino, "indirect2", 0, d.inode[ino].indirect2>>
           new == <<ino, "indirect2", 0, v>>
<1>7. ASSUME NEW p \in Refs(e) PROVE p = new \/ (p \in Refs(d) /\ p # old)
  <2>1. CASE \E i \in Live(e), k \in 0..(NDIRECT - 1) :
               p = <<i, "direct", k, e.inode[i].direct[k]>>
    BY <1>1, <1>3, <2>1, RefsAre
  <2>2. CASE \E i \in Live(e) : p = <<i, "indirect", 0, e.inode[i].indirect>>
    BY <1>1, <1>3, <2>2, RefsAre
  <2>3. CASE \E i \in Live(e) : p = <<i, "indirect2", 0, e.inode[i].indirect2>>
    <3>1. PICK i \in Live(e) : p = <<i, "indirect2", 0, e.inode[i].indirect2>>
      BY <2>3
    <3>2. CASE i = ino
      BY <1>1, <1>3, <3>1, <3>2
    <3>3. CASE i # ino
      <4>1. p = <<i, "indirect2", 0, d.inode[i].indirect2>> /\ p[4] # 0
        BY <1>1, <1>3, <3>1, <3>3, RefsAre
      <4> QED
        BY <1>1, <3>3, <4>1, RefsAre
    <3> QED
      BY <3>2, <3>3
  <2>4. CASE \E x \in IndexBlocks(e), k \in Indices : p = <<x, "block", k, e.ptr[x][k]>>
    <3>1. PICK x \in IndexBlocks(e), k \in Indices : p = <<x, "block", k, d.ptr[x][k]>>
      BY <1>2, <2>4
    <3>2. p[4] # 0
      BY RefsAre
    <3>3. x \in IndexBlocks(d)
      BY <1>4, <1>5, <1>6, <3>1, <3>2
    <3> QED
      BY <3>1, <3>2, <3>3, RefsAre
  <2> QED
    BY <2>1, <2>2, <2>3, <2>4, RefsAre
<1>8. ASSUME v # 0 PROVE Owned(e, S \ {v})
  <2>1. Refs(e) \subseteq Refs(d) \cup {new} /\ new[4] = v
    BY <1>7
  <2> QED
    BY <1>2, <1>8, <2>1, OneMoreRef DEF Owned
<1>9. ASSUME v # 0 PROVE v \in IndexBlocks(e)
  <2>1. e.inode[ino].indirect2 = v
    BY <1>3
  <2>2. v \in Blocks
    BY OwnedBlocks
  <2> QED
    BY <1>1, <1>9, <2>1, <2>2 DEF IndexBlocks
<1>10. ASSUME v = 0 PROVE Owned(e, S \cup ({d.inode[ino].indirect2} \ {0}))
  <2>1. Refs(e) \subseteq Refs(d) \ {old}
    BY <1>7, <1>10, RefsAre
  <2>2. CASE d.inode[ino].indirect2 = 0
    <3>1. S \cup ({d.inode[ino].indirect2} \ {0}) = S
      BY <2>2
    <3> QED
      BY <1>2, <2>1, <3>1, FewerRefs DEF Owned
  <2>3. CASE d.inode[ino].indirect2 # 0
    <3>1. old \in Refs(d) /\ old[4] = d.inode[ino].indirect2
      BY <2>3, RefsAre
    <3>2. S \cup ({d.inode[ino].indirect2} \ {0}) = S \cup {old[4]}
      BY <2>3, <3>1
    <3> QED
      BY <1>2, <2>1, <3>1, <3>2, OneRefLess DEF Owned
  <2> QED
    BY <2>2, <2>3
<1>11. NDIRECT \in Nat /\ NINDIRECT \in Nat
  BY OspfsAssumption
<1>12. ASSUME NEW i \in Live(d), NEW k \in 0..(MAXFILEBLKS - 1), v # 0 \/ i # ino \/ k < NDIRECT + NINDIRECT
       PROVE  Ptr(e, i, k) = Ptr(d, i, k)
  <2>1. CASE k < NDIRECT
    <3>1. k \in 0..(NDIRECT - 1) /\ Ptr(e, i, k) = e.inode[i].direct[k]
      BY <2>1, PtrIs
    <3>2. Ptr(d, i, k) = d.inode[i].direct[k]
      BY <2>1, PtrIs
    <3> QED
      BY <1>3, <3>1, <3>2
  <2>2. CASE k >= NDIRECT
    <3>1. k \in NDIRECT..(MAXFILEBLKS - 1)
      BY <1>11, <2>2
    <3>2. Ptr(e, i, k) = d.ptr[IndexOf(e, i, k)][PlaceOf(k)]
          /\ Ptr(d, i, k) = d.ptr[IndexOf(d, i, k)][PlaceOf(k)]
          /\ PlaceOf(k) \in Indices
      BY <1>2, <3>1, IndexIs
    <3>3. \A m \in Indices : d.ptr[0][m] = 0
      BY DEF Owned, ZeroPtrs
    <3>4. CASE i # ino
      BY <1>2, <1>3, <3>2, <3>4 DEF IndexOf
    <3>5. CASE i = ino /\ k < NDIRECT + NINDIRECT
      BY <1>2, <1>3, <1>11, <3>2, <3>5 DEF IndexOf
    <3>6. CASE i = ino /\ k >= NDIRECT + NINDIRECT
      <4>1. v # 0 /\ d.inode[ino].indirect2 = 0
        BY <1>11, <1>12, <2>2, <3>6
      <4>2. IndexOf(e, i, k) = d.ptr[v][Outer(k)] /\ IndexOf(d, i, k) = d.ptr[0][Outer(k)]
        BY <1>2, <1>3, <1>11, <3>6, <4>1 DEF IndexOf
      <4>3. Outer(k) \in Indices
        BY <3>1, <3>6, IndexIs
      <4>4. IndexOf(e, i, k) = 0 /\ IndexOf(d, i, k) = 0
        BY <1>4, <3>3, <4>1, <4>2, <4>3
      <4> QED
        BY <3>2, <4>4
    <3> QED
      BY <1>11, <3>4, <3>5, <3>6
  <2> QED
    BY <1>11, <2>1, <2>2
<1> QED
  BY <1>1, <1>8, <1>9, <1>10, <1>12 DEF SamePtrs, SamePtrsBelow

(* A pointer of a block of pointers is set to an empty block that had no pointer,
   or cleared. *)
LEMMA SetPtrOwned ==
  ASSUME NEW d \in Disks, NEW S, Owned(d, S), NEW b \in IndexBlocks(d), NEW n \in Indices,
         NEW v \in Data \cup {0}, v # 0 => v \in S /\ d.ptr[v] = ZeroPtrs,
         NEW e \in Disks, SetsPtr(d, e, b, n, v)
  PROVE  /\ v # 0 => Owned(e, S \ {v})
         /\ v = 0 => Owned(e, S \cup ({d.ptr[b][n]} \ {0}))
         /\ Live(e) = Live(d)
<1>1. Live(e) = Live(d) /\ \A i \in Live(d) : i \in Inodes
  BY DEF Live, SetsPtr, SamePointerFields
<1>2. ASSUME NEW i \in Live(d)
      PROVE  /\ e.inode[i].indirect = d.inode[i].indirect
             /\ e.inode[i].indirect2 = d.inode[i].indirect2
             /\ e.inode[i].direct = d.inode[i].direct
             /\ d.inode[i].indirect2 \in Blocks
  BY <1>1 DEF SetsPtr, SamePointerFields, Disks, InodeRecords
<1>3. \A x \in Blocks : \A k \in Indices :
        e.ptr[x][k] = IF x = b /\ k = n THEN v ELSE d.ptr[x][k]
  BY DEF SetsPtr
<1>4. /\ b \in Data \ S /\ b \in Blocks /\ b # 0
      /\ \A x \in IndexBlocks(e) : x \in Blocks /\ x # 0
  <2>1. b \in Data \ S /\ b \in Blocks /\ b # 0
    BY OwnedBlocks
  <2> QED
    BY <2>1 DEF IndexBlocks
<1>5. ASSUME v # 0 PROVE v # b /\ v \in Blocks /\ \A k \in Indices : d.ptr[v][k] = 0
  BY <1>4, <1>5, OwnedBlocks DEF ZeroPtrs
<1>6. ASSUME NEW x \in IndexBlocks(e) PROVE x \in IndexBlocks(d) \/ x = v
  BY <1>1, <1>2, <1>3 DEF IndexBlocks
<1> DEFINE old == <<b, "block", n, d.ptr[b][n]>>
           new == <<b, "block", n, v>>
<1>7. ASSUME NEW p \in Refs(e) PROVE p = new \/ (p \in Refs(d) /\ p # old)
  <2>1. CASE \E i \in Live(e), k \in 0..(NDIRECT - 1) :
               p = <<i, "direct", k, e.inode[i].direct[k]>>
    BY <1>1, <1>2, <2>1, RefsAre
  <2>2. CASE \E i \in Live(e) : p = <<i, "indirect", 0, e.inode[i].indirect>>
    BY <1>1, <1>2, <2>2, RefsAre
  <2>3. CASE \E i \in Live(e) : p = <<i, "indirect2", 0, e.inode[i].indirect2>>
    BY <1>1, <1>2, <2>3, RefsAre
  <2>4. CASE \E x \in IndexBlocks(e), k \in Indices : p = <<x, "block", k, e.ptr[x][k]>>
    <3>1. PICK x \in IndexBlocks(e), k \in Indices : p = <<x, "block", k, e.ptr[x][k]>>
      BY <2>4
    <3>2. p[4] # 0
      BY RefsAre
    <3>3. CASE x = b /\ k = n
      BY <1>3, <1>4, <3>1, <3>3
    <3>4. CASE x # b \/ k # n
      <4>1. p = <<x, "block", k, d.ptr[x][k]>>
        BY <1>3, <1>4, <3>1, <3>4
      <4>2. x \in IndexBlocks(d)
        BY <1>4, <1>5, <1>6, <3>2, <4>1
      <4> QED
        BY <3>2, <3>4, <4>1, <4>2, RefsAre
    <3> QED
      BY <3>3, <3>4
  <2> QED
    BY <2>1, <2>2, <2>3, <2>4, RefsAre
<1>8. e.ptr[0] = ZeroPtrs
  <2>1. 0 \in Blocks
    BY OspfsAssumption DEF Blocks
  <2>2. e.ptr[0] \in [Indices -> Blocks]
    BY <2>1 DEF Disks
  <2>3. \A k \in Indices : e.ptr[0][k] = 0
    BY <1>3, <1>4, <2>1 DEF Owned, ZeroPtrs
  <2> QED
    BY <2>2, <2>3 DEF ZeroPtrs
<1>9. ASSUME v # 0 PROVE Owned(e, S \ {v})
  <2>1. Refs(e) \subseteq Refs(d) \cup {new} /\ new[4] = v
    BY <1>7
  <2> QED
    BY <1>8, <1>9, <2>1, OneMoreRef
<1>10. ASSUME v = 0 PROVE Owned(e, S \cup ({d.ptr[b][n]} \ {0}))
  <2>1. Refs(e) \subseteq Refs(d) \ {old}
    BY <1>7, <1>10, RefsAre
  <2>2. CASE d.ptr[b][n] = 0
    <3>1. S \cup ({d.ptr[b][n]} \ {0}) = S
      BY <2>2
    <3> QED
      BY <1>8, <2>1, <3>1, FewerRefs
  <2>3. CASE d.ptr[b][n] # 0
    <3>1. old \in Refs(d) /\ old[4] = d.ptr[b][n]
      BY <2>3, RefsAre
    <3>2. S \cup ({d.ptr[b][n]} \ {0}) = S \cup {old[4]}
      BY <2>3, <3>1
    <3> QED
      BY <1>8, <2>1, <3>1, <3>2, OneRefLess
  <2> QED
    BY <2>2, <2>3
<1> QED
  BY <1>1, <1>9, <1>10

(* When that pointer is the one to block n of a file, nothing else changes. *)
LEMMA SetPtrLeaf ==
  ASSUME NEW d \in Disks, NEW S, Owned(d, S), NEW ino \in Live(d),
         NEW n \in NDIRECT..(MAXFILEBLKS - 1), IndexOf(d, ino, n) # 0,
         NEW v, NEW e \in Disks, SetsPtr(d, e, IndexOf(d, ino, n), PlaceOf(n), v)
  PROVE  SamePtrsBut(d, e, ino, n, v)
<1> DEFINE b == IndexOf(d, ino, n)
<1>1. Live(e) = Live(d) /\ \A i \in Live(d) : i \in Inodes
  BY DEF Live, SetsPtr, SamePointerFields
<1>2. ASSUME NEW i \in Live(d)
      PROVE  /\ e.inode[i].indirect = d.inode[i].indirect
             /\ e.inode[i].indirect2 = d.inode[i].indirect2
             /\ e.inode[i].direct = d.inode[i].direct
             /\ d.inode[i].indirect \in Blocks
             /\ d.inode[i].indirect2 \in Blocks /\ d.inode[i].indirect2 # b
  <2>1. d.inode[i].indirect2 # b
    BY IndexUnique
  <2> QED
    BY <1>1, <2>1 DEF SetsPtr, SamePointerFields, Disks, InodeRecords
<1>3. \A x \in Blocks : \A k \in Indices :
        e.ptr[x][k] = IF x = b /\ k = PlaceOf(n) THEN v ELSE d.ptr[x][k]
  BY DEF SetsPtr
<1>4. NDIRECT \in Nat \ {0} /\ NINDIRECT \in Nat \ {0} /\ n \in Nat
  BY OspfsAssumption
<1>5. ASSUME NEW i \in Live(d), NEW k \in NDIRECT..(MAXFILEBLKS - 1)
      PROVE  /\ IndexOf(e, i, k) = IndexOf(d, i, k) /\ IndexOf(d, i, k) \in Blocks
             /\ PlaceOf(k) \in Indices
             /\ Ptr(d, i, k) = d.ptr[IndexOf(d, i, k)][PlaceOf(k)]
             /\ Ptr(e, i, k) = e.ptr[IndexOf(e, i, k)][PlaceOf(k)]
  <2>1. k >= NDIRECT + NINDIRECT => Outer(k) \in Indices
    BY IndexIs
  <2>2. k \in Nat
    BY <1>4
  <2>3. CASE k < NDIRECT + NINDIRECT
    BY <1>2, <1>4, <2>3, IndexIs DEF IndexOf
  <2>4. CASE k >= NDIRECT + NINDIRECT
    <3>1. /\ IndexOf(e, i, k) = e.ptr[d.inode[i].indirect2][Outer(k)]
          /\ IndexOf(d, i, k) = d.ptr[d.inode[i].indirect2][Outer(k)]
      BY <1>2, <1>4, <2>2, <2>4 DEF IndexOf
    <3>2. IndexOf(e, i, k) = IndexOf(d, i, k)
      BY <1>2, <1>3, <2>1, <2>4, <3>1
    <3>3. IndexOf(d, i, k) \in Blocks
      BY <1>2, <2>1, <2>4, <3>1 DEF Disks
    <3> QED
      BY <3>2, <3>3, IndexIs
  <2> QED
    BY <1>4, <2>2, <2>3, <2>4
<1>6. Ptr(e, ino, n) = v
  BY <1>3, <1>5
<1>7. ASSUME NEW i \in Live(d), NEW k \in 0..(MAXFILEBLKS - 1), i # ino \/ k # n
      PROVE  Ptr(e, i, k) = Ptr(d, i, k)
  <2>1. CASE k < NDIRECT
    <3>1. Ptr(e, i, k) = e.inode[i].direct[k]
      BY <2>1, PtrIs
    <3>2. Ptr(d, i, k) = d.inode[i].direct[k]
      BY <2>1, PtrIs
    <3> QED
      BY <1>2, <3>1, <3>2
  <2>2. CASE k >= NDIRECT
    <3>1. k \in NDIRECT..(MAXFILEBLKS - 1) /\ k \in Nat
      BY <1>4, <2>2
    <3>2. CASE IndexOf(d, i, k) = b /\ PlaceOf(k) = PlaceOf(n)
      <4>1. /\ i = ino
            /\ n < NDIRECT + NINDIRECT <=> k < NDIRECT + NINDIRECT
            /\ n >= NDIRECT + NINDIRECT => Outer(n) = Outer(k)
        BY <3>1, <3>2, IndexUnique
      <4>2. CASE n < NDIRECT + NINDIRECT
        BY <1>4, <1>7, <3>1, <3>2, <4>1, <4>2 DEF PlaceOf
      <4>3. CASE n >= NDIRECT + NINDIRECT
        <5>1. Outer(k) = Outer(n) /\ Inner(k) = Inner(n)
          BY <1>4, <3>1, <3>2, <4>1, <4>3 DEF PlaceOf
        <5>2. k \in (NDIRECT + NINDIRECT)..(MAXFILEBLKS - 1)
              /\ n \in (NDIRECT + NINDIRECT)..(MAXFILEBLKS - 1)
          BY <1>4, <3>1, <4>1, <4>3
        <5>3. k = NDIRECT + NINDIRECT + NINDIRECT * Outer(k) + Inner(k)
          BY <5>2, DoubleIndex
        <5>4. n = NDIRECT + NINDIRECT + NINDIRECT * Outer(n) + Inner(n)
          BY <5>2, DoubleIndex
        <5>5. k = n
          BY <5>1, <5>3, <5>4
        <5> QED
          BY <1>7, <4>1, <5>5
      <4> QED
        BY <1>4, <4>2, <4>3
    <3>3. CASE IndexOf(d, i, k) # b \/ PlaceOf(k) # PlaceOf(n)
      <4> HIDE DEF b
      <4> QED
        BY <1>3, <1>5, <3>1, <3>3
    <3> QED
      BY <3>2, <3>3
  <2> QED
    BY <1>4, <2>1, <2>2
<1> QED
  BY <1>1, <1>6, <1>7 DEF SamePtrsBut

(* When it is a pointer of a doubly indirect block that is set, no block of a
   file changes; when it is cleared, only the blocks below it do. *)
LEMMA SetPtrIndex ==
  ASSUME NEW d \in Disks, NEW S, Owned(d, S), NEW ino \in Live(d),
         NEW n \in (NDIRECT + NINDIRECT)..(MAXFILEBLKS - 1), d.inode[ino].indirect2 # 0,
         NEW v \in Data \cup {0},
         v # 0 => v \in S /\ d.ptr[v] = ZeroPtrs /\ d.ptr[d.inode[ino].indirect2][Outer(n)] = 0,
         NEW e \in Disks, SetsPtr(d, e, d.inode[ino].indirect2, Outer(n), v)
  PROVE  /\ v # 0 => SamePtrs(d, e)
         /\ v = 0 /\ Inner(n) = 0 => SamePtrsBelow(d, e, ino, n)
<1> DEFINE b == d.inode[ino].indirect2
<1>1. Live(e) = Live(d) /\ \A i \in Live(d) : i \in Inodes
  BY DEF Live, SetsPtr, SamePointerFields
<1>2. ASSUME NEW i \in Live(d)
      PROVE  /\ e.inode[i].indirect = d.inode[i].indirect
             /\ e.inode[i].indirect2 = d.inode[i].indirect2
             /\ e.inode[i].direct = d.inode[i].direct
             /\ d.inode[i].indirect \in Blocks
             /\ d.inode[i].indirect2 \in Blocks
             /\ d.inode[i].indirect2 = b => i = ino
  <2>1. ASSUME d.inode[i].indirect2 = b PROVE i = ino
    <3>1. <<i, "indirect2", 0, b>> \in Refs(d) /\ <<ino, "indirect2", 0, b>> \in Refs(d)
      BY <2>1, RefsAre
    <3> QED
      BY <3>1 DEF Owned
  <2> QED
    BY <1>1, <2>1 DEF SetsPtr, SamePointerFields, Disks, InodeRecords
<1>3. \A x \in Blocks : \A k \in Indices :
        e.ptr[x][k] = IF x = b /\ k = Outer(n) THEN v ELSE d.ptr[x][k]
  BY DEF SetsPtr
<1>4. NDIRECT \in Nat \ {0} /\ NINDIRECT \in Nat \ {0} /\ n \in Nat /\ Outer(n) \in Indices
  BY OspfsAssumption, DoubleIndex
<1>5. ASSUME NEW i \in Live(d), NEW k \in NDIRECT..(MAXFILEBLKS - 1),
             \/ v # 0
             \/ i # ino
             \/ k < NDIRECT + NINDIRECT
             \/ Outer(k) # Outer(n)
      PROVE  Ptr(e, i, k) = Ptr(d, i, k)
  <2>1. /\ PlaceOf(k) \in Indices /\ k \in Nat
        /\ Ptr(d, i, k) = d.ptr[IndexOf(d, i, k)][PlaceOf(k)]
        /\ Ptr(e, i, k) = e.ptr[IndexOf(e, i, k)][PlaceOf(k)]
        /\ k >= NDIRECT + NINDIRECT => Outer(k) \in Indices
    BY <1>4, IndexIs
  <2>2. IndexOf(d, i, k) # b
    <3>1. CASE IndexOf(d, i, k) = 0
      BY <3>1
    <3>2. CASE IndexOf(d, i, k) # 0
      BY <3>2, IndexUnique
    <3> QED
      BY <3>1, <3>2
  <2>3. IndexOf(d, i, k) \in Blocks
    <3>1. CASE IndexOf(d, i, k) = 0
      BY <3>1, OwnedBlocks
    <3>2. CASE IndexOf(d, i, k) # 0
      BY <3>2, IndexUnique, OwnedBlocks
    <3> QED
      BY <3>1, <3>2
  <2>4. CASE IndexOf(e, i, k) = IndexOf(d, i, k)
    <3> HIDE DEF b
    <3> QED
      BY <1>3, <2>1, <2>2, <2>3, <2>4
  <2>5. CASE IndexOf(e, i, k) # IndexOf(d, i, k)
    <3>1. k >= NDIRECT + NINDIRECT
      BY <1>2, <1>4, <2>1, <2>5 DEF IndexOf
    <3>2. /\ IndexOf(e, i, k) = e.ptr[d.inode[i].indirect2][Outer(k)]
          /\ IndexOf(d, i, k) = d.ptr[d.inode[i].indirect2][Outer(k)]
      BY <1>2, <1>4, <2>1, <3>1 DEF IndexOf
    <3>3. d.inode[i].indirect2 = b /\ Outer(k) = Outer(n) /\ IndexOf(e, i, k) = v
      <4> HIDE DEF b
      <4> QED
        BY <1>2, <1>3, <2>1, <2>5, <3>1, <3>2
    <3>4. v # 0 /\ IndexOf(d, i, k) = 0
      BY <1>2, <1>4, <1>5, <2>1, <3>1, <3>2, <3>3
    <3>5. v # b /\ v \in Blocks
      BY <3>4, OwnedBlocks
    <3>6. Ptr(d, i, k) = 0
      BY <2>1, <3>4 DEF Owned, ZeroPtrs
    <3>7. Ptr(e, i, k) = d.ptr[v][PlaceOf(k)]
      BY <1>3, <2>1, <3>3, <3>5
    <3> QED
      BY <2>1, <3>4, <3>6, <3>7 DEF ZeroPtrs
  <2> QED
    BY <2>4, <2>5
<1>6. ASSUME NEW i \in Live(d), NEW k \in 0..(MAXFILEBLKS - 1),
             v # 0 \/ i # ino \/ (k < n /\ Inner(n) = 0)
      PROVE  Ptr(e, i, k) = Ptr(d, i, k)
  <2>1. CASE k < NDIRECT
    <3>1. Ptr(e, i, k) = e.inode[i].direct[k]
      BY <2>1, PtrIs
    <3>2. Ptr(d, i, k) = d.inode[i].direct[k]
      BY <2>1, PtrIs
    <3> QED
      BY <1>2, <3>1, <3>2
  <2>2. CASE k >= NDIRECT
    <3>1. k \in NDIRECT..(MAXFILEBLKS - 1) /\ k \in Nat
      BY <1>4, <2>2
    <3>2. ASSUME v = 0, i = ino, k >= NDIRECT + NINDIRECT, Outer(k) = Outer(n) PROVE FALSE
      <4>1. k \in (NDIRECT + NINDIRECT)..(MAXFILEBLKS - 1)
        BY <1>4, <3>1, <3>2
      <4>2. k = NDIRECT + NINDIRECT + NINDIRECT * Outer(k) + Inner(k) /\ Inner(k) \in Indices
        BY <4>1, DoubleIndex
      <4>3. n = NDIRECT + NINDIRECT + NINDIRECT * Outer(n) + Inner(n)
        BY DoubleIndex
      <4>4. k < n /\ Inner(n) = 0
        BY <1>6, <3>2
      <4> DEFINE t == NINDIRECT * Outer(n)
      <4>5. t \in Int
        BY <1>4 DEF Indices
      <4>6. k = NDIRECT + NINDIRECT + t + Inner(k) /\ n = NDIRECT + NINDIRECT + t
        BY <1>4, <3>2, <4>2, <4>3, <4>4, <4>5
      <4> HIDE DEF t
      <4> QED
        BY <1>4, <4>2, <4>4, <4>5, <4>6 DEF Indices
    <3> QED
      BY <1>4, <1>5, <3>1, <3>2
  <2> QED
    BY <1>4, <2>1, <2>2
<1> QED
  BY <1>1, <1>6 DEF SamePtrs, SamePtrsBelow

-----------------------------------------------------------------------------
(* add_block *)

(* what a change of the blocks of file ino leaves alone in the inodes *)
OnlyBlocksOf(d, e, ino) ==
  /\ \A i \in Inodes : i # ino => e.inode[i] = d.inode[i]
  /\ e.inode[ino].ftype = d.inode[ino].ftype
  /\ e.inode[ino].nlink = d.inode[ino].nlink
  /\ e.inode[ino].symlink = d.inode[ino].symlink

(* An assignment to a field of an inode. *)
LEMMA InodeField ==
  ASSUME NEW d \in Disks, NEW ino \in Inodes, NEW oi \in InodeRecords
  PROVE  /\ [d EXCEPT !.inode[ino] = oi] \in Disks
         /\ [d EXCEPT !.inode[ino] = oi].inode = [d.inode EXCEPT ![ino] = oi]
         /\ [d EXCEPT !.inode[ino] = oi].inode[ino] = oi
         /\ \A i \in Inodes : i # ino => [d EXCEPT !.inode[ino] = oi].inode[i] = d.inode[i]
         /\ [d EXCEPT !.inode[ino] = oi].ptr = d.ptr
         /\ [d EXCEPT !.inode[ino] = oi].ent = d.ent
         /\ [d EXCEPT !.inode[ino] = oi].free = d.free
BY DEF Disks

(* An assignment to a pointer of a block of pointers. *)
LEMMA SetPtrIs ==
  ASSUME NEW d \in Disks, NEW b \in Blocks, NEW k \in Indices, NEW v \in Blocks
  PROVE  /\ SetPtr(d, b, k, v) \in Disks
         /\ SetPtr(d, b, k, v).inode = d.inode
         /\ SetPtr(d, b, k, v).ent = d.ent
         /\ SetPtr(d, b, k, v).free = d.free
         /\ SetsPtr(d, SetPtr(d, b, k, v), b, k, v)
<1> DEFINE e == SetPtr(d, b, k, v)
<1>1. e.inode = d.inode /\ e.ent = d.ent /\ e.free = d.free
      /\ e.ptr = [d.ptr EXCEPT ![b] = [d.ptr[b] EXCEPT ![k] = v]]
  BY DEF SetPtr, Disks
<1>2. d.ptr \in [Blocks -> [Indices -> Blocks]]
  BY DEF Disks
<1>3. e.ptr \in [Blocks -> [Indices -> Blocks]]
  BY <1>1, <1>2
<1>4. e = [d EXCEPT !.ptr = e.ptr]
  BY DEF SetPtr, Disks
<1>5. e \in Disks
  BY <1>3, <1>4 DEF Disks
<1>6. \A x \in Blocks : \A m \in Indices :
        e.ptr[x][m] = IF x = b /\ m = k THEN v ELSE d.ptr[x][m]
  BY <1>1, <1>2
<1> QED
  BY <1>1, <1>5, <1>6 DEF SetsPtr, SamePointerFields

(* The size of a file grows by a block. *)
LEMMA GrownIs ==
  ASSUME NEW d \in Disks, NEW ino \in Inodes
  PROVE  /\ Grown(d, ino).r = "OK"
         /\ Grown(d, ino).disk \in Disks
         /\ Grown(d, ino).disk.ptr = d.ptr
         /\ Grown(d, ino).disk.ent = d.ent
         /\ Grown(d, ino).disk.free = d.free
         /\ Grown(d, ino).disk.inode[ino].size = d.inode[ino].size + BLKSIZE
         /\ OnlyBlocksOf(d, Grown(d, ino).disk, ino)
         /\ \A i \in Inodes : SamePointerFields(d.inode[i], Grown(d, ino).disk.inode[i])
<1> DEFINE oi == [d.inode[ino] EXCEPT !.size = d.inode[ino].size + BLKSIZE]
           e == [d EXCEPT !.inode[ino] = oi]
<1>1. d.inode[ino] \in InodeRecords /\ d.inode[ino].size + BLKSIZE \in Int
  BY OspfsAssumption DEF Disks, InodeRecords
<1>2. /\ oi \in InodeRecords /\ SamePointerFields(d.inode[ino], oi)
      /\ oi.size = d.inode[ino].size + BLKSIZE
      /\ oi.nlink = d.inode[ino].nlink
  BY <1>1 DEF InodeRecords, SamePointerFields
<1>3. Grown(d, ino) = [disk |-> e, r |-> "OK"]
  BY DEF Grown
<1>4. /\ e \in Disks /\ e.ptr = d.ptr /\ e.ent = d.ent /\ e.free = d.free /\ e.inode[ino] = oi
      /\ \A i \in Inodes : i # ino => e.inode[i] = d.inode[i]
  <2> HIDE DEF oi
  <2> QED
    BY <1>2, InodeField
<1> HIDE DEF e, oi
<1>5. \A i \in Inodes : SamePointerFields(d.inode[i], e.inode[i])
  BY <1>2, <1>4 DEF SamePointerFields
<1>6. OnlyBlocksOf(d, e, ino)
  BY <1>2, <1>4 DEF OnlyBlocksOf, SamePointerFields
<1> QED
  BY <1>2, <1>3, <1>4, <1>5, <1>6

(* how g leaves disk d when block v, in S, becomes block n of file ino *)
StoredUnder(d, g, S, ino, n, v) ==
  /\ g.r = "OK" /\ g.disk \in Disks /\ Owned(g.disk, S \ {v})
  /\ SamePtrsBut(d, g.disk, ino, n, v)
  /\ g.disk.ent = d.ent /\ g.disk.free = d.free
  /\ g.disk.inode[ino].size = d.inode[ino].size + BLKSIZE
  /\ g.disk.inode[ino].indirect = d.inode[ino].indirect
  /\ g.disk.inode[ino].indirect2 = d.inode[ino].indirect2
  /\ OnlyBlocksOf(d, g.disk, ino)

(* A new block is stored under a block of pointers. *)
LEMMA StoreUnderIs ==
  ASSUME NEW d \in Disks, NEW S, Owned(d, S), NEW ino \in Live(d),
         NEW n \in NDIRECT..(MAXFILEBLKS - 1), IndexOf(d, ino, n) # 0,
         NEW v \in Data, v \in S, d.ptr[v] = ZeroPtrs
  PROVE  StoredUnder(d, StoreUnder(d, ino, IndexOf(d, ino, n), n, v), S, ino, n, v)
<1> DEFINE b == IndexOf(d, ino, n)
           f == SetPtr(d, b, PlaceOf(n), v)
           g == Grown(f, ino)
           e == g.disk
<1>1. /\ b \in IndexBlocks(d) /\ b \in Blocks /\ v \in Blocks /\ ino \in Inodes /\ v # 0
      /\ PlaceOf(n) \in Indices /\ direct_index(n) = PlaceOf(n)
  BY IndexUnique, OwnedBlocks, IndexIs
<1>2. /\ f \in Disks /\ f.inode = d.inode /\ f.ent = d.ent /\ f.free = d.free
      /\ SetsPtr(d, f, b, PlaceOf(n), v)
  <2> HIDE DEF b
  <2> QED
    BY <1>1, SetPtrIs
<1>3. StoreUnder(d, ino, b, n, v) = g
  BY <1>1 DEF StoreUnder
<1> HIDE DEF f
<1>4. /\ g.r = "OK" /\ e \in Disks /\ e.ptr = f.ptr /\ e.ent = d.ent /\ e.free = d.free
      /\ e.inode[ino].size = d.inode[ino].size + BLKSIZE
      /\ OnlyBlocksOf(f, e, ino)
      /\ \A i \in Inodes : SamePointerFields(d.inode[i], e.inode[i])
  BY <1>1, <1>2, GrownIs
<1> HIDE DEF g
<1>5. SetsPtr(d, e, b, PlaceOf(n), v)
  BY <1>2, <1>4 DEF SetsPtr
<1>6. SamePtrsBut(d, e, ino, n, v)
  BY <1>4, <1>5, SetPtrLeaf
<1>7. Owned(e, S \ {v})
  <2> HIDE DEF b
  <2> QED
    BY <1>1, <1>4, <1>5, SetPtrOwned
<1>8. OnlyBlocksOf(d, e, ino)
  BY <1>2, <1>4 DEF OnlyBlocksOf
<1>9. e.inode[ino].indirect = d.inode[ino].indirect /\ e.inode[ino].indirect2 = d.inode[ino].indirect2
  BY <1>1, <1>4 DEF SamePointerFields
<1> QED
  BY <1>3, <1>4, <1>6, <1>7, <1>8, <1>9 DEF StoredUnder

(* free_block of a data block, or of pointer 0, which is in no bitmap. *)
LEMMA FreeBlockIs ==
  ASSUME NEW d \in Disks, NEW b \in Data \cup {0}
  PROVE  /\ free_block(d, b) \in Disks
         /\ free_block(d, b).free = d.free \cup ({b} \ {0})
         /\ free_block(d, b).inode = d.inode
         /\ free_block(d, b).ptr = d.ptr
         /\ free_block(d, b).ent = d.ent
<1>1. CASE b = 0
  <2>1. free_block(d, b) = d
    BY <1>1, OspfsAssumption DEF free_block
  <2> QED
    BY <1>1, <2>1
<1>2. CASE b # 0
  <2>1. b \in Blocks /\ ~(b < FIRSTINOB)
    BY <1>2, OspfsAssumption DEF Data, Blocks
  <2>2. free_block(d, b) = [d EXCEPT !.free = d.free \cup {b}]
    BY <2>1 DEF free_block
  <2> QED
    BY <1>2, <2>1, <2>2 DEF Disks
<1> QED
  BY <1>1, <1>2

(* The first free block, if there is one. *)
LEMMA NextFreeIs ==
  ASSUME NEW d, d.free \subseteq Data
  PROVE  /\ NextFree(d) # 0 <=> d.free # {}
         /\ d.free # {} => NextFree(d) \in d.free
<1>1. d.free \in SUBSET Nat /\ 0 \notin d.free
  BY OspfsAssumption DEF Data
<1>2. CASE d.free = {}
  BY <1>2 DEF NextFree
<1>3. CASE d.free # {}
  BY <1>1, <1>3, MinIs DEF NextFree
<1> QED
  BY <1>2, <1>3

(* Free blocks are finitely many, and one is taken at a time. *)
LEMMA FreeCard ==
  ASSUME NEW F \in SUBSET Data
  PROVE  /\ IsFiniteSet(F) /\ Cardinality(F) \in Nat
         /\ Cardinality(F) = 0 <=> F = {}
         /\ \A b \in F : Cardinality(F \ {b}) = Cardinality(F) - 1
<1>1. IsFiniteSet(Data)
  BY OspfsAssumption, FS_Interval DEF Data
<1>2. IsFiniteSet(F)
  BY <1>1, FS_Subset
<1> QED
  BY <1>2, FS_EmptySet, FS_CardinalityType, FS_RemoveElement

(* what is left of the room for a file: its free blocks, and the indirect block
   it already has *)
Credit(d, ino) == Cardinality(d.free) + (IF d.inode[ino].indirect = 0 THEN 0 ELSE 1)

(* how g leaves disk d, on which block v has been taken to become block n of ino *)
Stored(d, g, ino, n, v) ==
  /\ g.disk \in Disks /\ Owned(g.disk, g.disk.free) /\ g.disk.free \subseteq Data
  /\ \A b \in Blocks : b \notin d.free => g.disk.ent[b] = d.ent[b]
  /\ OnlyBlocksOf(d, g.disk, ino)
  /\ d.inode[ino].indirect2 # 0 => g.disk.inode[ino].indirect2 # 0
  /\ \/ /\ g.r = "OK" /\ g.disk.inode[ino].size = d.inode[ino].size + BLKSIZE
        /\ SamePtrsBut(d, g.disk, ino, n, v)
        /\ g.disk.free \subseteq d.free
        /\ g.disk.inode[ino].indirect2 # 0 \/ Credit(g.disk, ino) >= Credit(d, ino)
     \/ /\ g.r = "ENOSPC" /\ g.disk.inode[ino].size = d.inode[ino].size
        /\ SamePtrs(d, g.disk)
        /\ g.disk.free = d.free \cup {v}

(* a block that is taken and has no pointer yet *)
Taken(d, v) ==
  /\ d.free \subseteq Data /\ v \in Data \ d.free
  /\ Owned(d, d.free \cup {v})
  /\ d.ptr[v] = ZeroPtrs

(* When there is no block for the pointers, the new block is given back. *)
LEMMA GivesBack ==
  ASSUME NEW d \in Disks, NEW ino \in Inodes, NEW n, NEW v \in Data, Taken(d, v)
  PROVE  Stored(d, NoSpace(free_block(d, v)), ino, n, v)
<1> DEFINE e == free_block(d, v)
<1>1. v \in Data /\ v # 0
  BY OspfsAssumption DEF Taken, Data
<1>2. /\ e \in Disks /\ e.free = d.free \cup {v}
      /\ e.inode = d.inode /\ e.ptr = d.ptr /\ e.ent = d.ent
  BY <1>1, FreeBlockIs
<1> HIDE DEF e
<1>3. \A i \in Inodes : SamePointerFields(d.inode[i], e.inode[i])
  BY <1>2 DEF SamePointerFields
<1>4. SamePtrs(d, e) /\ Owned(e, d.free \cup {v})
  BY <1>2, <1>3, SameFields DEF Taken
<1>5. NoSpace(free_block(d, v)) = [disk |-> e, r |-> "ENOSPC"]
  BY DEF NoSpace, e
<1> QED
  BY <1>2, <1>4, <1>5 DEF Stored, Taken, OnlyBlocksOf

(* how e is d with block got taken, where no pointer of d leads to S *)
TakenFrom(d, e, S, got) ==
  /\ e \in Disks /\ e.inode = d.inode /\ e.free = d.free \ {got}
  /\ e.ptr[got] = ZeroPtrs
  /\ \A b \in Blocks : b # got => e.ptr[b] = d.ptr[b] /\ e.ent[b] = d.ent[b]
  /\ Owned(e, S) /\ SamePtrs(d, e) /\ IndexBlocks(e) = IndexBlocks(d)
  /\ got \in Data /\ got # 0 /\ got \in Blocks /\ got \in S

(* One more block is taken for pointers. *)
LEMMA TakeMore ==
  ASSUME NEW d \in Disks, NEW v \in Data, Taken(d, v), NEW got \in d.free,
         NEW S, S = d.free \cup {v}
  PROVE  TakenFrom(d, Take(d, got), S, got) /\ got # v
<1>1. got \in Data /\ got # 0 /\ got # v /\ got \in Blocks /\ v \in Blocks
  BY OspfsAssumption DEF Taken, Data, Blocks
<1>2. d.ptr \in [Blocks -> [Indices -> Blocks]] /\ d.ent \in [Blocks -> [Slots -> DirEntries]]
  BY DEF Disks
<1>3. Owned(d, S) /\ got \in S
  BY DEF Taken
<1>4. /\ Take(d, got) \in Disks
      /\ Take(d, got).inode = d.inode
      /\ Take(d, got).free = d.free \ {got}
      /\ Take(d, got).ptr = [d.ptr EXCEPT ![got] = ZeroPtrs]
      /\ Take(d, got).ent = [d.ent EXCEPT ![got] = ZeroEnts]
      /\ Owned(Take(d, got), S)
      /\ SamePtrs(d, Take(d, got)) /\ IndexBlocks(Take(d, got)) = IndexBlocks(d)
  BY <1>1, <1>3, TakeIs
<1> QED
  BY <1>1, <1>2, <1>3, <1>4 DEF TakenFrom

(* A block becomes one of the singly indirect ones. *)
LEMMA AddIndirectIs ==
  ASSUME NEW d \in Disks, NEW ino \in Live(d), NEW n \in NDIRECT..(MAXFILEBLKS - 1),
         n < NDIRECT + NINDIRECT, NEW v \in Data, Taken(d, v)
  PROVE  Stored(d, AddIndirect(d, ino, n, v), ino, n, v)
<1> DEFINE S == d.free \cup {v}
           ind == d.inode[ino].indirect
           g == AddIndirect(d, ino, n, v)
           e == g.disk
<1>1. Owned(d, S) /\ v \in S /\ v \in Data /\ d.ptr[v] = ZeroPtrs /\ ino \in Inodes
      /\ d.free \subseteq Data /\ v \notin d.free
  BY DEF Taken, Live
<1>2. \A c : IndexOf(c, ino, n) = c.inode[ino].indirect
  BY DEF IndexOf
<1>3. CASE ind # 0
  <2>1. g = StoreUnder(d, ino, IndexOf(d, ino, n), n, v)
    BY <1>2, <1>3 DEF AddIndirect
  <2>2. /\ g.r = "OK" /\ e \in Disks /\ Owned(e, S \ {v})
        /\ SamePtrsBut(d, e, ino, n, v)
        /\ e.ent = d.ent /\ e.free = d.free
        /\ e.inode[ino].size = d.inode[ino].size + BLKSIZE
        /\ e.inode[ino].indirect = d.inode[ino].indirect
        /\ e.inode[ino].indirect2 = d.inode[ino].indirect2
        /\ OnlyBlocksOf(d, e, ino)
    <3>1. IndexOf(d, ino, n) # 0
      BY <1>2, <1>3
    <3> HIDE DEF g, S
    <3>2. StoredUnder(d, g, S, ino, n, v)
      BY <1>1, <2>1, <3>1, StoreUnderIs
    <3> QED
      BY <3>2 DEF StoredUnder
  <2>3. Owned(e, e.free)
    <3>1. S \ {v} = e.free
      BY <1>1, <2>2
    <3> QED
      BY <2>2, <3>1
  <2>4. Credit(e, ino) = Credit(d, ino) /\ Credit(d, ino) \in Int
    BY <1>1, <2>2, FreeCard DEF Credit
  <2> QED
    BY <1>1, <2>2, <2>3, <2>4 DEF Stored
<1>4. CASE ind = 0 /\ NextFree(d) = 0
  <2>1. g = NoSpace(free_block(d, v))
    BY <1>4 DEF AddIndirect
  <2> QED
    BY <1>1, <2>1, GivesBack
<1>5. CASE ind = 0 /\ NextFree(d) # 0
  <2>1. PICK got \in d.free : got = NextFree(d)
    BY <1>1, <1>5, NextFreeIs
  <2> DEFINE t == Take(d, got)
             oi == [t.inode[ino] EXCEPT !.indirect = got]
             f == [t EXCEPT !.inode[ino] = oi]
  <2>2. g = StoreUnder(f, ino, got, n, v)
    BY <1>5, <2>1 DEF AddIndirect
  <2>3. /\ t \in Disks /\ t.inode = d.inode /\ t.free = d.free \ {got}
        /\ t.ptr[v] = ZeroPtrs /\ t.ptr[got] = ZeroPtrs
        /\ \A b \in Blocks : b # got => t.ptr[b] = d.ptr[b] /\ t.ent[b] = d.ent[b]
        /\ Owned(t, S) /\ SamePtrs(d, t)
        /\ got \in Data /\ got # 0 /\ got # v /\ got \in Blocks /\ v \in Blocks
    <3>1. TakenFrom(d, t, S, got) /\ got # v
      BY TakeMore
    <3>2. v \in Blocks
      BY <1>1, OwnedBlocks
    <3> HIDE DEF t
    <3>3. t.ptr[v] = ZeroPtrs
      BY <1>1, <3>1, <3>2 DEF TakenFrom
    <3> QED
      BY <3>1, <3>2, <3>3 DEF TakenFrom
  <2> HIDE DEF t
  <2>4. /\ oi \in InodeRecords /\ oi.indirect = got
        /\ oi.ftype = d.inode[ino].ftype /\ oi.symlink = d.inode[ino].symlink
        /\ oi.nlink = d.inode[ino].nlink /\ oi.size = d.inode[ino].size
        /\ oi.direct = d.inode[ino].direct /\ oi.indirect2 = d.inode[ino].indirect2
    <3>1. d.inode[ino] \in InodeRecords
      BY <1>1 DEF Disks
    <3> QED
      BY <2>3, <3>1 DEF InodeRecords
  <2> HIDE DEF oi
  <2>5. /\ f \in Disks /\ f.inode[ino] = oi /\ f.ptr = t.ptr /\ f.ent = t.ent /\ f.free = t.free
        /\ \A i \in Inodes : i # ino => f.inode[i] = t.inode[i]
    BY <1>1, <2>3, <2>4, InodeField
  <2> HIDE DEF f
  <2>6. SetsIndirect(t, f, ino, got)
    BY <2>3, <2>4, <2>5 DEF SetsIndirect
  <2>7. Live(t) = Live(d) /\ ino \in Live(t)
    BY <2>3 DEF SamePtrs
  <2>8. Owned(f, S \ {got}) /\ SamePtrs(t, f)
    <3>1. got \in S /\ t.inode[ino].indirect = 0
      BY <1>5, <2>1, <2>3
    <3> HIDE DEF S
    <3> QED
      BY <2>3, <2>5, <2>6, <2>7, <3>1, SetIndirect
  <2>9. Live(f) = Live(d) /\ ino \in Live(f) /\ IndexOf(f, ino, n) = got
    BY <1>2, <2>4, <2>5, <2>7, <2>8 DEF SamePtrs
  <2>10. /\ g.r = "OK" /\ e \in Disks /\ Owned(e, (S \ {got}) \ {v})
         /\ SamePtrsBut(f, e, ino, n, v)
         /\ e.ent = f.ent /\ e.free = f.free
         /\ e.inode[ino].size = f.inode[ino].size + BLKSIZE
         /\ e.inode[ino].indirect = f.inode[ino].indirect
         /\ e.inode[ino].indirect2 = f.inode[ino].indirect2
         /\ OnlyBlocksOf(f, e, ino)
    <3>1. v \in S \ {got} /\ f.ptr[v] = ZeroPtrs
      BY <1>1, <2>3, <2>5
    <3>2. g = StoreUnder(f, ino, IndexOf(f, ino, n), n, v)
      BY <2>2, <2>9
    <3> DEFINE U == S \ {got}
    <3> HIDE DEF g, S, U
    <3>3. StoredUnder(f, g, U, ino, n, v)
      BY <1>1, <2>5, <2>8, <2>9, <2>3, <3>1, <3>2, StoreUnderIs DEF U
    <3> USE DEF U
    <3> QED
      BY <3>3 DEF StoredUnder
  <2> HIDE DEF g
  <2>11. Owned(e, e.free) /\ e.free = d.free \ {got}
    <3>1. (S \ {got}) \ {v} = e.free /\ e.free = d.free \ {got}
      BY <1>1, <2>3, <2>5, <2>10
    <3> QED
      BY <2>10, <3>1
  <2>12. SamePtrsBut(d, e, ino, n, v)
    BY <2>3, <2>8, <2>9, <2>10 DEF SamePtrs, SamePtrsBut
  <2>13. OnlyBlocksOf(d, e, ino)
    BY <2>3, <2>4, <2>5, <2>10 DEF OnlyBlocksOf
  <2>14. \A b \in Blocks : b \notin d.free => e.ent[b] = d.ent[b]
    BY <2>1, <2>3, <2>5, <2>10
  <2>15. Credit(e, ino) = Credit(d, ino) /\ Credit(d, ino) \in Int
    BY <1>1, <1>5, <2>1, <2>3, <2>4, <2>5, <2>10, <2>11, FreeCard DEF Credit
  <2>16. e.inode[ino].size = d.inode[ino].size + BLKSIZE /\ e.inode[ino].indirect2 = d.inode[ino].indirect2
    BY <2>4, <2>5, <2>10
  <2> QED
    <3>1. e.free \subseteq Data /\ e.free \subseteq d.free
      BY <1>1, <2>11
    <3>2. Credit(e, ino) >= Credit(d, ino)
      BY <2>15
    <3> QED
      BY <2>10, <2>11, <2>12, <2>13, <2>14, <2>16, <3>1, <3>2 DEF Stored, g
<1> QED
  BY <1>3, <1>4, <1>5

(* A block becomes one of the doubly indirect ones, under a doubly indirect block
   that is there. *)
LEMMA StoreUnder2Is ==
  ASSUME NEW d \in Disks, NEW ino \in Live(d), NEW n \in (NDIRECT + NINDIRECT)..(MAXFILEBLKS - 1),
         NEW v \in Data, Taken(d, v), d.inode[ino].indirect2 # 0,
         NEW undone, d.free = {} => undone = free_block(d, v)
  PROVE  LET g == StoreUnder2(d, ino, d.inode[ino].indirect2, n, v, undone)
         IN Stored(d, g, ino, n, v) /\ (d.free # {} => g.r = "OK")
<1> DEFINE S == d.free \cup {v}
           ind2 == d.inode[ino].indirect2
           ind == IndexOf(d, ino, n)
           g == StoreUnder2(d, ino, ind2, n, v, undone)
<1>1. Owned(d, S) /\ v \in S /\ v # 0 /\ v \in Blocks /\ d.ptr[v] = ZeroPtrs /\ ino \in Inodes
      /\ d.free \subseteq Data /\ v \notin d.free /\ S \ {v} = d.free
  BY OspfsAssumption DEF Taken, Live, Data, Blocks
<1>2. NDIRECT \in Nat /\ NINDIRECT \in Nat /\ n \in NDIRECT..(MAXFILEBLKS - 1) /\ n \in Nat
  BY OspfsAssumption
<1>3. \A c : IndexOf(c, ino, n) = c.ptr[c.inode[ino].indirect2][Outer(n)]
  BY <1>2 DEF IndexOf
<1>4. indir_index(n) = Outer(n) /\ Outer(n) \in Indices
  BY DoubleIndex
<1>5. ind2 \in IndexBlocks(d) /\ ind2 \in Data \ S /\ ind2 \in Blocks
  BY <1>1, OwnedBlocks
<1>6. CASE ind # 0
  <2>1. g = StoreUnder(d, ino, IndexOf(d, ino, n), n, v)
    BY <1>3, <1>4, <1>6 DEF StoreUnder2
  <2> HIDE DEF g, S
  <2>2. StoredUnder(d, g, S, ino, n, v)
    BY <1>1, <1>2, <1>6, <2>1, StoreUnderIs
  <2>3. Owned(g.disk, g.disk.free)
    BY <1>1, <2>2 DEF StoredUnder
  <2> QED
    BY <1>1, <2>2, <2>3 DEF Stored, StoredUnder, g
<1>7. CASE ind = 0 /\ NextFree(d) = 0
  <2>1. d.free = {}
    BY <1>1, <1>7, NextFreeIs
  <2>2. g = NoSpace(free_block(d, v))
    BY <1>3, <1>4, <1>7, <2>1 DEF StoreUnder2
  <2> QED
    BY <1>1, <2>1, <2>2, GivesBack
<1>8. CASE ind = 0 /\ NextFree(d) # 0
  <2>1. PICK got \in d.free : got = NextFree(d)
    BY <1>1, <1>8, NextFreeIs
  <2> DEFINE t == Take(d, got)
             f == SetPtr(t, ind2, Outer(n), got)
             U == S \ {got}
  <2>2. g = StoreUnder(f, ino, got, n, v)
    BY <1>3, <1>4, <1>8, <2>1 DEF StoreUnder2
  <2>3. TakenFrom(d, t, S, got) /\ got # v
    BY TakeMore
  <2> HIDE DEF t
  <2>4. /\ t \in Disks /\ t.inode = d.inode /\ got \in Blocks /\ got # 0 /\ got \in Data
        /\ t.ptr[v] = ZeroPtrs /\ t.ptr[got] = ZeroPtrs
        /\ t.ptr[ind2] = d.ptr[ind2] /\ Live(t) = Live(d)
    BY <1>1, <1>5, <2>1, <2>3 DEF TakenFrom, SamePtrs
  <2>5. /\ f \in Disks /\ f.inode = d.inode /\ f.ent = t.ent /\ f.free = t.free
        /\ SetsPtr(t, f, ind2, Outer(n), got)
    BY <1>4, <1>5, <2>4, SetPtrIs
  <2> HIDE DEF f
  <2>6. Owned(f, U) /\ Live(f) = Live(t)
    <3>1. ind2 \in IndexBlocks(t) /\ Owned(t, S) /\ got \in S
      BY <1>5, <2>3 DEF TakenFrom
    <3> HIDE DEF S, ind2
    <3>2. Owned(f, S \ {got})
      BY <1>4, <2>4, <2>5, <3>1, SetPtrOwned
    <3>3. Live(f) = Live(t)
      BY <2>4, <2>5 DEF Live
    <3> QED
      BY <3>2, <3>3
  <2>7. SamePtrs(t, f)
    <3>1. /\ t.inode[ino].indirect2 # 0 /\ Owned(t, S) /\ got \in S
          /\ t.ptr[t.inode[ino].indirect2][Outer(n)] = 0 /\ ino \in Live(t)
          /\ SetsPtr(t, f, t.inode[ino].indirect2, Outer(n), got)
      BY <1>3, <1>8, <2>3, <2>4, <2>5 DEF TakenFrom
    <3> HIDE DEF S
    <3> QED
      BY <2>4, <2>5, <3>1, SetPtrIndex
  <2>8. IndexOf(f, ino, n) = got
    BY <1>3, <1>4, <1>5, <2>5 DEF SetsPtr
  <2>9. StoredUnder(f, g, U, ino, n, v)
    <3>1. v \in U /\ f.ptr[v] = ZeroPtrs
      <4>1. v \in U /\ v # ind2
        BY <1>1, <1>5, <2>3
      <4>2. f.ptr[v] \in [Indices -> Blocks] /\ \A k \in Indices : f.ptr[v][k] = t.ptr[v][k]
        BY <1>1, <2>5, <4>1 DEF SetsPtr, Disks
      <4>3. \A k \in Indices : f.ptr[v][k] = 0
        BY <2>4, <4>2 DEF ZeroPtrs
      <4> QED
        BY <4>1, <4>2, <4>3 DEF ZeroPtrs
    <3>2. g = StoreUnder(f, ino, IndexOf(f, ino, n), n, v) /\ ino \in Live(f)
      BY <2>2, <2>4, <2>6, <2>8
    <3> HIDE DEF g, S, U
    <3> QED
      BY <1>2, <2>4, <2>5, <2>6, <2>8, <3>1, <3>2, StoreUnderIs
  <2> HIDE DEF g
  <2>10. g.disk.free = d.free \ {got} /\ Owned(g.disk, g.disk.free)
    <3>1. g.disk.free = d.free \ {got} /\ U \ {v} = d.free \ {got}
      BY <1>1, <2>3, <2>5, <2>9 DEF StoredUnder, TakenFrom
    <3> HIDE DEF U, S
    <3> QED
      BY <2>9, <3>1 DEF StoredUnder
  <2>11. SamePtrsBut(d, g.disk, ino, n, v)
    BY <2>3, <2>7, <2>9 DEF StoredUnder, TakenFrom, SamePtrs, SamePtrsBut
  <2>12. OnlyBlocksOf(d, g.disk, ino)
    BY <2>5, <2>9 DEF OnlyBlocksOf, StoredUnder
  <2>13. \A b \in Blocks : b \notin d.free => g.disk.ent[b] = d.ent[b]
    BY <2>1, <2>3, <2>5, <2>9 DEF StoredUnder, TakenFrom
  <2>14. g.r = "OK" /\ g.disk \in Disks /\ g.disk.inode[ino].indirect2 = ind2
         /\ g.disk.inode[ino].size = d.inode[ino].size + BLKSIZE
    BY <2>5, <2>9 DEF StoredUnder
  <2>15. g.disk.free \subseteq Data /\ g.disk.free \subseteq d.free
    BY <1>1, <2>10
  <2> QED
    BY <2>10, <2>11, <2>12, <2>13, <2>14, <2>15 DEF Stored, g
<1> QED
  BY <1>6, <1>7, <1>8

(* A block becomes one of the doubly indirect ones.  Where there is no doubly
   indirect block yet, there must be room for it and for the indirect block
   below it: otherwise the inode would keep a pointer to a block given back. *)
LEMMA AddIndirect2Is ==
  ASSUME NEW d \in Disks, NEW ino \in Live(d), NEW n \in (NDIRECT + NINDIRECT)..(MAXFILEBLKS - 1),
         NEW v \in Data, Taken(d, v), d.inode[ino].indirect2 = 0 => Cardinality(d.free) >= 2
  PROVE  Stored(d, AddIndirect2(d, ino, n, v), ino, n, v)
<1> DEFINE S == d.free \cup {v}
           ind2 == d.inode[ino].indirect2
           g == AddIndirect2(d, ino, n, v)
<1>1. Owned(d, S) /\ v \in S /\ v # 0 /\ v \in Blocks /\ d.ptr[v] = ZeroPtrs /\ ino \in Inodes
      /\ d.free \subseteq Data /\ v \notin d.free
  BY OspfsAssumption DEF Taken, Live, Data, Blocks
<1>2. CASE ind2 # 0
  <2>1. g = StoreUnder2(d, ino, ind2, n, v, free_block(d, v))
    BY <1>2 DEF AddIndirect2
  <2> QED
    BY <1>2, <2>1, StoreUnder2Is
<1>3. CASE ind2 = 0
  <2>1. d.free # {} /\ NextFree(d) # 0
    BY <1>1, <1>3, FreeCard, NextFreeIs
  <2>2. PICK got \in d.free : got = NextFree(d)
    BY <1>1, <2>1, NextFreeIs
  <2> DEFINE t == Take(d, got)
             oi == [t.inode[ino] EXCEPT !.indirect2 = got]
             f == [t EXCEPT !.inode[ino] = oi]
             U == S \ {got}
             undone == free_block(free_block(f, v), got)
  <2>3. g = StoreUnder2(f, ino, got, n, v, undone)
    BY <1>3, <2>1, <2>2 DEF AddIndirect2
  <2> HIDE DEF undone
  <2>4. TakenFrom(d, t, S, got) /\ got # v
    BY TakeMore
  <2> HIDE DEF t
  <2>5. /\ t \in Disks /\ t.inode = d.inode /\ got \in Blocks /\ got # 0 /\ got \in Data
        /\ t.ptr[v] = ZeroPtrs /\ t.ptr[got] = ZeroPtrs /\ Live(t) = Live(d)
    BY <1>1, <2>1, <2>4 DEF TakenFrom, SamePtrs
  <2>6. /\ oi \in InodeRecords /\ oi.indirect2 = got
        /\ oi.ftype = d.inode[ino].ftype /\ oi.symlink = d.inode[ino].symlink
        /\ oi.nlink = d.inode[ino].nlink /\ oi.size = d.inode[ino].size
        /\ oi.direct = d.inode[ino].direct /\ oi.indirect = d.inode[ino].indirect
    <3>1. d.inode[ino] \in InodeRecords
      BY <1>1 DEF Disks
    <3> QED
      BY <2>5, <3>1 DEF InodeRecords
  <2> HIDE DEF oi
  <2>7. /\ f \in Disks /\ f.inode[ino] = oi /\ f.ptr = t.ptr /\ f.ent = t.ent /\ f.free = t.free
        /\ \A i \in Inodes : i # ino => f.inode[i] = t.inode[i]
    BY <1>1, <2>5, <2>6, InodeField
  <2> HIDE DEF f
  <2>8. SetsIndirect2(t, f, ino, got)
    BY <2>5, <2>6, <2>7 DEF SetsIndirect2
  <2>9. Owned(f, U) /\ SamePtrs(t, f)
    <3>1. got \in S /\ t.inode[ino].indirect2 = 0 /\ Owned(t, S)
      BY <1>3, <2>4, <2>5 DEF TakenFrom
    <3> HIDE DEF S
    <3>2. got \in Data \cup {0} /\ ino \in Live(t)
          /\ (got # 0 => got \in S /\ t.ptr[got] = ZeroPtrs /\ t.inode[ino].indirect2 = 0)
      BY <2>5, <3>1
    <3>3. got # 0 => Owned(f, S \ {got}) /\ SamePtrs(t, f) /\ got \in IndexBlocks(f)
      BY <2>5, <2>7, <2>8, <3>1, <3>2, SetIndirect2
    <3> QED
      BY <2>5, <3>3
  <2>10. ino \in Live(f) /\ f.inode[ino].indirect2 = got /\ f.free = d.free \ {got}
    BY <2>4, <2>5, <2>6, <2>7, <2>9 DEF TakenFrom, SamePtrs
  <2>11. Taken(f, v)
    <3>1. U = f.free \cup {v}
      BY <1>1, <2>4, <2>10
    <3> QED
      BY <1>1, <2>5, <2>7, <2>9, <2>10, <3>1 DEF Taken
  <2>12. f.free # {}
    BY <1>1, <1>3, <2>10, FreeCard
  <2>13. Stored(f, g, ino, n, v) /\ g.r = "OK"
    <3> HIDE DEF g
    <3> QED
      BY <2>3, <2>5, <2>7, <2>10, <2>11, <2>12, StoreUnder2Is
  <2> HIDE DEF g
  <2>14. SamePtrsBut(d, g.disk, ino, n, v)
    BY <2>4, <2>9, <2>13 DEF Stored, TakenFrom, SamePtrs, SamePtrsBut
  <2>15. OnlyBlocksOf(d, g.disk, ino)
    BY <2>5, <2>6, <2>7, <2>13 DEF OnlyBlocksOf, Stored
  <2>16. \A b \in Blocks : b \notin d.free => g.disk.ent[b] = d.ent[b]
    BY <2>2, <2>4, <2>7, <2>10, <2>13 DEF Stored, TakenFrom
  <2>17. /\ g.disk \in Disks /\ Owned(g.disk, g.disk.free) /\ g.disk.free \subseteq Data
         /\ g.disk.inode[ino].indirect2 # 0
         /\ g.disk.inode[ino].size = d.inode[ino].size + BLKSIZE
         /\ g.disk.free \subseteq d.free
    BY <2>5, <2>6, <2>7, <2>10, <2>13 DEF Stored
  <2> QED
    BY <2>13, <2>14, <2>15, <2>16, <2>17 DEF Stored, g
<1> QED
  BY <1>2, <1>3

(* how g leaves disk d when file ino was to get one more block *)
Added(d, g, ino) ==
  /\ Consistent(g.disk)
  /\ \A b \in Blocks : b \notin d.free => g.disk.ent[b] = d.ent[b]
  /\ OnlyBlocksOf(d, g.disk, ino)
  /\ d.inode[ino].indirect2 # 0 => g.disk.inode[ino].indirect2 # 0
  /\ g.disk.free \subseteq d.free
  /\ \/ /\ g.r = "OK" /\ g.disk.inode[ino].size = d.inode[ino].size + BLKSIZE
        /\ \E v \in d.free :
             SamePtrsBut(d, g.disk, ino, nblocks(d, ino), v) /\ g.disk.ent[v] = ZeroEnts
        /\ g.disk.inode[ino].indirect2 # 0 \/ Credit(g.disk, ino) + 1 >= Credit(d, ino)
     \/ /\ g.r = "ENOSPC" /\ g.disk.inode[ino].size = d.inode[ino].size
        /\ SamePtrs(d, g.disk)

(* add_block: the file has one more block, or, when the disk is full, everything
   is as before. *)
LEMMA AddBlockIs ==
  ASSUME NEW d, Consistent(d), NEW ino \in Live(d), nblocks(d, ino) \in 0..(MAXFILEBLKS - 1),
         nblocks(d, ino) >= NDIRECT + NINDIRECT /\ d.inode[ino].indirect2 = 0 =>
           Cardinality(d.free) >= 3
  PROVE  Added(d, add_block(d, ino), ino)
<1> DEFINE n == nblocks(d, ino)
           g == add_block(d, ino)
<1>1. /\ d \in Disks /\ d.free \subseteq Data /\ Owned(d, d.free) /\ ino \in Inodes
      /\ NDIRECT \in Nat \ {0} /\ NINDIRECT \in Nat \ {0} /\ n \in Nat
      /\ MAXFILEBLKS \in Int /\ n < MAXFILEBLKS
  <2>1. NINDIRECT * NINDIRECT \in Nat
    BY OspfsAssumption
  <2>2. MAXFILEBLKS \in Int
    BY <2>1, OspfsAssumption DEF MAXFILEBLKS
  <2> QED
    BY <2>2, OspfsAssumption DEF Consistent, Live
<1>2. n = size2nblocks(d.inode[ino].size)
  BY DEF nblocks
<1>3. ~(n > MAXFILEBLKS)
  BY <1>1
<1>4. CASE NextFree(d) = 0
  <2>1. g = [disk |-> d, r |-> "ENOSPC"]
    BY <1>2, <1>4 DEF add_block, NoSpace
  <2>2. SamePtrs(d, d) /\ OnlyBlocksOf(d, d, ino)
    BY DEF SamePtrs, OnlyBlocksOf
  <2> QED
    BY <1>1, <2>1, <2>2 DEF Added, Consistent
<1>5. CASE NextFree(d) # 0
  <2>1. PICK v \in d.free : v = NextFree(d)
    BY <1>1, <1>5, NextFreeIs
  <2> DEFINE t == Take(d, v)
  <2>2. /\ t \in Disks /\ t.inode = d.inode /\ t.free = d.free \ {v}
        /\ t.ptr = [d.ptr EXCEPT ![v] = ZeroPtrs] /\ t.ent = [d.ent EXCEPT ![v] = ZeroEnts]
        /\ Owned(t, d.free) /\ SamePtrs(d, t)
    <3>1. v \in Data
      BY <1>1
    <3> QED
      BY <1>1, <3>1, TakeIs
  <2>3. v \in Data /\ v \in Blocks /\ v # 0
    BY <1>1, OspfsAssumption DEF Data, Blocks
  <2>4. /\ t.ptr[v] = ZeroPtrs /\ t.ent[v] = ZeroEnts
        /\ \A b \in Blocks : b # v => t.ent[b] = d.ent[b]
    <3>1. d.ptr \in [Blocks -> [Indices -> Blocks]] /\ d.ent \in [Blocks -> [Slots -> DirEntries]]
      BY <1>1 DEF Disks
    <3> HIDE DEF t
    <3> QED
      BY <2>2, <2>3, <3>1
  <2>5. /\ n < NDIRECT => g = Grown([t EXCEPT !.inode[ino].direct[n] = v], ino)
        /\ n >= NDIRECT /\ n < NDIRECT + NINDIRECT => g = AddIndirect(t, ino, n, v)
        /\ n >= NDIRECT + NINDIRECT => g = AddIndirect2(t, ino, n, v)
    <3> DEFINE new == NextFree(d)
    <3>1. g = CASE n > MAXFILEBLKS \/ new = 0 -> NoSpace(d)
               [] new # 0 /\ n < NDIRECT -> Grown([Take(d, new) EXCEPT !.inode[ino].direct[n] = new], ino)
               [] new # 0 /\ n >= NDIRECT /\ n < NDIRECT + NINDIRECT -> AddIndirect(Take(d, new), ino, n, new)
               [] OTHER -> AddIndirect2(Take(d, new), ino, n, new)
      BY <1>2 DEF add_block
    <3> HIDE DEF g, n
    <3> QED
      BY <1>1, <1>3, <1>5, <2>1, <3>1
  <2> HIDE DEF t
  <2>6. Taken(t, v)
    <3>1. t.free \cup {v} = d.free
      BY <2>2
    <3> QED
      BY <1>1, <2>2, <2>3, <2>4, <3>1 DEF Taken
  <2>7. Live(t) = Live(d) /\ ino \in Live(t)
    BY <2>2 DEF SamePtrs
  <2>8. Stored(t, g, ino, n, v)
    <3>1. CASE n < NDIRECT
      <4> DEFINE oi == [t.inode[ino] EXCEPT !.direct[n] = v]
                 f == [t EXCEPT !.inode[ino] = oi]
      <4>1. g = Grown(f, ino)
        BY <2>5, <3>1
      <4>2. t.inode[ino] \in InodeRecords /\ n \in 0..(NDIRECT - 1) /\ v \in 0..NBLOCKS
        BY <1>1, <2>2, <2>3, <3>1, OspfsAssumption DEF Disks, Data
      <4>3. /\ oi \in InodeRecords
            /\ oi.ftype = t.inode[ino].ftype /\ oi.symlink = t.inode[ino].symlink
            /\ oi.nlink = t.inode[ino].nlink /\ oi.size = t.inode[ino].size
            /\ oi.indirect = t.inode[ino].indirect /\ oi.indirect2 = t.inode[ino].indirect2
            /\ oi.direct = [t.inode[ino].direct EXCEPT ![n] = v]
            /\ t.inode[ino].direct \in [0..(NDIRECT - 1) -> 0..NBLOCKS]
        <5> HIDE DEF n
        <5> QED
          BY <4>2 DEF InodeRecords
      <4> HIDE DEF oi
      <4>4. /\ f \in Disks /\ f.inode[ino] = oi /\ f.ptr = t.ptr /\ f.ent = t.ent /\ f.free = t.free
            /\ \A i \in Inodes : i # ino => f.inode[i] = t.inode[i]
        <5>1. t \in Disks /\ ino \in Inodes /\ oi \in InodeRecords
          BY <1>1, <2>2, <4>3
        <5> QED
          BY ONLY <5>1, InodeField
      <4> HIDE DEF f, g
      <4>5. /\ g.r = "OK" /\ g.disk \in Disks /\ g.disk.ptr = f.ptr /\ g.disk.ent = f.ent
            /\ g.disk.free = f.free /\ g.disk.inode[ino].size = f.inode[ino].size + BLKSIZE
            /\ OnlyBlocksOf(f, g.disk, ino)
            /\ \A i \in Inodes : SamePointerFields(f.inode[i], g.disk.inode[i])
        BY <1>1, <4>1, <4>4, GrownIs
      <4>6. SetsDirect(t, g.disk, ino, n, v)
        <5>1. g.disk.ptr = t.ptr
          BY <4>4, <4>5
        <5>2. ASSUME NEW i \in Inodes, i # ino
              PROVE  SamePointerFields(t.inode[i], g.disk.inode[i])
          BY <4>4, <4>5, <5>2
        <5>3. SamePointerFields(oi, g.disk.inode[ino])
          BY <1>1, <4>4, <4>5
        <5>4. \A k \in 0..(NDIRECT - 1) : oi.direct[k] = IF k = n THEN v ELSE t.inode[ino].direct[k]
          BY <4>2, <4>3
        <5> DEFINE oj == g.disk.inode[ino]
                   ti == t.inode[ino]
        <5>5. /\ oj.ftype = ti.ftype /\ oj.symlink = ti.symlink
              /\ oj.indirect = ti.indirect /\ oj.indirect2 = ti.indirect2
              /\ oj.direct = oi.direct
          BY <4>3, <5>3 DEF SamePointerFields
        <5> HIDE DEF n
        <5>6. ASSUME NEW i \in Inodes
              PROVE  /\ g.disk.inode[i].ftype = t.inode[i].ftype
                     /\ g.disk.inode[i].symlink = t.inode[i].symlink
                     /\ g.disk.inode[i].indirect = t.inode[i].indirect
                     /\ g.disk.inode[i].indirect2 = t.inode[i].indirect2
                     /\ \A k \in 0..(NDIRECT - 1) : g.disk.inode[i].direct[k] =
                          IF i = ino /\ k = n THEN v ELSE t.inode[i].direct[k]
          <6>1. CASE i = ino
            BY ONLY <5>4, <5>5, <6>1
          <6>2. CASE i # ino
            BY ONLY <5>2, <6>2, i \in Inodes DEF SamePointerFields
          <6> QED
            BY <6>1, <6>2
        <5> QED
          BY ONLY <5>1, <5>6 DEF SetsDirect
      <4>7. Owned(g.disk, d.free \ {v}) /\ SamePtrsBut(t, g.disk, ino, n, v)
        <5>1. v \in Data \cup {0} /\ (v # 0 => v \in d.free)
          BY <2>3
        <5> HIDE DEF n
        <5>2. v # 0 => Owned(g.disk, d.free \ {v})
          BY <2>2, <2>7, <4>2, <4>5, <4>6, <5>1, SetDirect
        <5>3. SamePtrsBut(t, g.disk, ino, n, v)
          BY <2>2, <2>7, <4>2, <4>5, <4>6, <5>1, SetDirect
        <5> QED
          BY <2>3, <5>2, <5>3
      <4>8. OnlyBlocksOf(t, g.disk, ino)
        BY <4>3, <4>4, <4>5 DEF OnlyBlocksOf
      <4>9. /\ g.disk.inode[ino].size = t.inode[ino].size + BLKSIZE
            /\ g.disk.inode[ino].indirect = t.inode[ino].indirect
            /\ g.disk.inode[ino].indirect2 = t.inode[ino].indirect2
        BY <1>1, <4>3, <4>4, <4>5 DEF SamePointerFields
      <4>10. g.disk.free = t.free /\ g.disk.ent = t.ent /\ t.free \subseteq Data
        BY <1>1, <2>2, <4>4, <4>5
      <4>11. Credit(g.disk, ino) = Credit(t, ino) /\ Credit(t, ino) \in Int
        BY <4>9, <4>10, FreeCard DEF Credit
      <4>12. Credit(g.disk, ino) >= Credit(t, ino)
        BY <4>11
      <4>13. Owned(g.disk, g.disk.free)
        BY <2>2, <4>7, <4>10
      <4> HIDE DEF n
      <4> QED
        BY <4>5, <4>7, <4>8, <4>9, <4>10, <4>12, <4>13 DEF Stored
    <3>2. CASE n >= NDIRECT /\ n < NDIRECT + NINDIRECT
      <4>1. n \in NDIRECT..(MAXFILEBLKS - 1) /\ g = AddIndirect(t, ino, n, v)
        BY <1>1, <2>5, <3>2
      <4> HIDE DEF n, g
      <4> QED
        BY <2>2, <2>3, <2>6, <2>7, <3>2, <4>1, AddIndirectIs
    <3>3. CASE n >= NDIRECT + NINDIRECT
      <4>1. n \in (NDIRECT + NINDIRECT)..(MAXFILEBLKS - 1) /\ g = AddIndirect2(t, ino, n, v)
        BY <1>1, <2>5, <3>3
      <4>2. t.inode[ino].indirect2 = 0 => Cardinality(t.free) >= 2
        BY <1>1, <2>1, <2>2, <3>3, FreeCard
      <4> HIDE DEF n, g
      <4> QED
        BY <2>2, <2>3, <2>6, <2>7, <4>1, <4>2, AddIndirect2Is
    <3> HIDE DEF n, g
    <3> QED
      BY <1>1, <3>1, <3>2, <3>3
  <2> HIDE DEF g
  <2>9. \A b \in Blocks : b \notin d.free => g.disk.ent[b] = d.ent[b]
    BY <2>1, <2>2, <2>4, <2>8 DEF Stored
  <2>10. OnlyBlocksOf(d, g.disk, ino)
    BY <2>2, <2>8 DEF Stored, OnlyBlocksOf
  <2>11. Consistent(g.disk) /\ g.disk.free \subseteq d.free
    BY <1>1, <2>1, <2>2, <2>8 DEF Stored, Consistent
  <2>12. d.inode[ino].indirect2 # 0 => g.disk.inode[ino].indirect2 # 0
    BY <2>2, <2>8 DEF Stored
  <2>13. ASSUME g.r = "OK", g.disk.inode[ino].size = t.inode[ino].size + BLKSIZE,
                SamePtrsBut(t, g.disk, ino, n, v), g.disk.free \subseteq t.free,
                g.disk.inode[ino].indirect2 # 0 \/ Credit(g.disk, ino) >= Credit(t, ino)
         PROVE  Added(d, g, ino)
    <3>1. SamePtrsBut(d, g.disk, ino, n, v)
      <4> HIDE DEF n
      <4> QED
        BY <2>2, <2>13 DEF SamePtrsBut, SamePtrs
    <3>2. g.disk.ent[v] = ZeroEnts
      BY <2>2, <2>3, <2>4, <2>8 DEF Stored
    <3>3. Credit(t, ino) + 1 = Credit(d, ino) /\ Credit(t, ino) \in Int
      BY <1>1, <2>1, <2>2, FreeCard DEF Credit
    <3>4. Credit(g.disk, ino) \in Int
      BY <2>11, FreeCard DEF Credit, Consistent
    <3>5. g.disk.inode[ino].indirect2 # 0 \/ Credit(g.disk, ino) + 1 >= Credit(d, ino)
      BY <2>13, <3>3, <3>4
    <3> QED
      BY <2>2, <2>9, <2>10, <2>11, <2>12, <2>13, <3>1, <3>2, <3>5 DEF Added
  <2>14. ASSUME g.r = "ENOSPC", g.disk.inode[ino].size = t.inode[ino].size, SamePtrs(t, g.disk)
         PROVE  Added(d, g, ino)
    <3>1. SamePtrs(d, g.disk)
      BY <2>2, <2>14 DEF SamePtrs
    <3> QED
      BY <2>2, <2>9, <2>10, <2>11, <2>12, <2>14, <3>1 DEF Added
  <2>15. Added(d, g, ino)
    <3> HIDE DEF n
    <3> QED
      BY <2>8, <2>13, <2>14 DEF Stored
  <2> QED
    BY <2>15 DEF g
<1> QED
  BY <1>4, <1>5

-----------------------------------------------------------------------------
(* remove_block *)

(* how e is d with pointers of file ino from block n on dropped *)
Dropped(d, e, ino, n) ==
  /\ Consistent(e)
  /\ SamePtrsBelow(d, e, ino, n)
  /\ e.ent = d.ent
  /\ OnlyBlocksOf(d, e, ino)
  /\ d.free \subseteq e.free

(* Dropping pointers twice. *)
LEMMA DroppedTwice ==
  ASSUME NEW d, NEW e, NEW f, NEW ino, NEW n, Dropped(d, e, ino, n), Dropped(e, f, ino, n)
  PROVE  Dropped(d, f, ino, n)
<1>1. SamePtrsBelow(d, f, ino, n)
  BY DEF Dropped, SamePtrsBelow
<1>2. OnlyBlocksOf(d, f, ino)
  BY DEF Dropped, OnlyBlocksOf
<1> QED
  BY <1>1, <1>2 DEF Dropped

(* A pointer of a block of pointers is freed and cleared; where there is no such
   block nothing changes, although the pointers of the boot block are used. *)
LEMMA DropPtrIs ==
  ASSUME NEW d, Consistent(d), NEW b \in IndexBlocks(d) \cup {0}, NEW k \in Indices
  PROVE  /\ Consistent(DropPtr(d, b, k))
         /\ SetsPtr(d, DropPtr(d, b, k), b, k, 0)
         /\ DropPtr(d, b, k).inode = d.inode
         /\ DropPtr(d, b, k).ent = d.ent
         /\ d.free \subseteq DropPtr(d, b, k).free
         /\ b = 0 => SamePtrs(d, DropPtr(d, b, k))
<1> DEFINE v == d.ptr[b][k]
           f == free_block(d, v)
           e == SetPtr(f, b, k, 0)
<1>1. d \in Disks /\ d.free \subseteq Data /\ Owned(d, d.free)
  BY DEF Consistent
<1>2. b \in Blocks /\ 0 \in Blocks
  BY <1>1, OwnedBlocks
<1>3. d.ptr[0] = ZeroPtrs /\ d.ptr \in [Blocks -> [Indices -> Blocks]]
  BY <1>1 DEF Owned, Disks
<1>4. b = 0 => v = 0
  BY <1>3 DEF ZeroPtrs
<1>5. v \in Data \cup {0}
  <2>1. ASSUME v # 0 PROVE v \in Data
    <3>1. <<b, "block", k, v>> \in Refs(d)
      BY <1>1, <1>4, <2>1, RefsAre
    <3> QED
      BY <1>1, <3>1 DEF Owned
  <2> QED
    BY <2>1
<1>6. DropPtr(d, b, k) = e
  BY DEF DropPtr
<1> HIDE DEF v
<1>7. /\ f \in Disks /\ f.free = d.free \cup ({v} \ {0})
      /\ f.inode = d.inode /\ f.ptr = d.ptr /\ f.ent = d.ent
  BY <1>1, <1>5, FreeBlockIs
<1> HIDE DEF f
<1>8. /\ e \in Disks /\ e.inode = f.inode /\ e.ent = f.ent /\ e.free = f.free
      /\ SetsPtr(f, e, b, k, 0)
  BY <1>2, <1>7, SetPtrIs
<1> HIDE DEF e
<1>9. SetsPtr(d, e, b, k, 0)
  BY <1>7, <1>8 DEF SetsPtr
<1>10. CASE b = 0
  <2>1. e.ptr \in [Blocks -> [Indices -> Blocks]]
    BY <1>8 DEF Disks
  <2>2. ASSUME NEW x \in Blocks, NEW l \in Indices PROVE e.ptr[x][l] = d.ptr[x][l]
    BY <1>4, <1>9, <1>10 DEF SetsPtr, v
  <2>3. ASSUME NEW x \in Blocks PROVE e.ptr[x] = d.ptr[x]
    <3>1. e.ptr[x] \in [Indices -> Blocks] /\ d.ptr[x] \in [Indices -> Blocks]
      BY <1>3, <2>1
    <3> QED
      BY <2>2, <3>1
  <2>4. e.ptr = d.ptr
    BY <1>3, <2>1, <2>3
  <2>5. \A i \in Inodes : SamePointerFields(d.inode[i], e.inode[i])
    BY <1>9 DEF SetsPtr
  <2>6. SamePtrs(d, e) /\ Owned(e, d.free)
    BY <1>1, <1>8, <2>4, <2>5, SameFields
  <2>7. e.free = d.free
    BY <1>4, <1>7, <1>8, <1>10
  <2> QED
    BY <1>1, <1>6, <1>7, <1>8, <1>9, <2>6, <2>7 DEF Consistent
<1>11. CASE b # 0
  <2>1. b \in IndexBlocks(d)
    BY <1>11
  <2>2. 0 \in Data \cup {0} /\ (0 # 0 => 0 \in d.free /\ d.ptr[0] = ZeroPtrs)
    OBVIOUS
  <2>3. 0 = 0 => Owned(e, d.free \cup ({d.ptr[b][k]} \ {0}))
    BY <1>1, <1>8, <1>9, <2>1, <2>2, SetPtrOwned
  <2>4. Owned(e, e.free)
    BY <1>7, <1>8, <2>3 DEF v
  <2>5. e.free \subseteq Data
    BY <1>1, <1>5, <1>7, <1>8
  <2> QED
    BY <1>6, <1>7, <1>8, <1>9, <1>11, <2>4, <2>5 DEF Consistent
<1> QED
  BY <1>10, <1>11

(* The pointer to block n, under a block of pointers. *)
LEMMA DropLeaf ==
  ASSUME NEW d, Consistent(d), NEW ino \in Live(d), NEW n \in NDIRECT..(MAXFILEBLKS - 1)
  PROVE  /\ Dropped(d, DropPtr(d, IndexOf(d, ino, n), PlaceOf(n)), ino, n)
         /\ DropPtr(d, IndexOf(d, ino, n), PlaceOf(n)).inode = d.inode
<1> DEFINE b == IndexOf(d, ino, n)
           k == PlaceOf(n)
           e == DropPtr(d, b, k)
<1>1. d \in Disks /\ Owned(d, d.free)
  BY DEF Consistent
<1>2. k \in Indices /\ (n >= NDIRECT + NINDIRECT => Outer(n) \in Indices)
  BY IndexIs
<1>3. b \in IndexBlocks(d) \cup {0}
  BY <1>1, IndexUnique
<1> HIDE DEF k
<1>4. /\ Consistent(e) /\ SetsPtr(d, e, b, k, 0) /\ e.inode = d.inode /\ e.ent = d.ent
      /\ d.free \subseteq e.free /\ (b = 0 => SamePtrs(d, e))
  <2> HIDE DEF b
  <2> QED
    BY <1>2, <1>3, DropPtrIs
<1> HIDE DEF e
<1>5. SamePtrsBelow(d, e, ino, n)
  <2>1. CASE b = 0
    BY <1>4, <2>1 DEF SamePtrs, SamePtrsBelow
  <2>2. CASE b # 0
    <3>1. e \in Disks
      BY <1>4 DEF Consistent
    <3>2. SamePtrsBut(d, e, ino, n, 0)
      BY <1>1, <1>4, <2>2, <3>1, SetPtrLeaf DEF k
    <3>3. n \in Int
      BY OspfsAssumption
    <3>4. ASSUME NEW i \in Live(d), NEW l \in 0..(MAXFILEBLKS - 1), i # ino \/ l < n
          PROVE  Ptr(e, i, l) = Ptr(d, i, l)
      <4>1. i # ino \/ l # n
        BY <3>3, <3>4
      <4> QED
        BY <3>2, <4>1 DEF SamePtrsBut
    <3> QED
      BY <3>2, <3>4 DEF SamePtrsBut, SamePtrsBelow
  <2> QED
    BY <2>1, <2>2
<1>6. OnlyBlocksOf(d, e, ino)
  BY <1>4 DEF OnlyBlocksOf
<1> QED
  BY <1>4, <1>5, <1>6 DEF Dropped, e, k

(* The pointer to the block of pointers of block n, which is its first. *)
LEMMA DropIndex ==
  ASSUME NEW d, Consistent(d), NEW ino \in Live(d),
         NEW n \in (NDIRECT + NINDIRECT)..(MAXFILEBLKS - 1), Inner(n) = 0
  PROVE  /\ Dropped(d, DropPtr(d, d.inode[ino].indirect2, Outer(n)), ino, n)
         /\ DropPtr(d, d.inode[ino].indirect2, Outer(n)).inode = d.inode
<1> DEFINE b == d.inode[ino].indirect2
           k == Outer(n)
           e == DropPtr(d, b, k)
<1>1. d \in Disks /\ Owned(d, d.free)
  BY DEF Consistent
<1>2. k \in Indices
  BY DoubleIndex
<1>3. b \in IndexBlocks(d) \cup {0}
  BY <1>1, OwnedBlocks
<1> HIDE DEF k
<1>4. /\ Consistent(e) /\ SetsPtr(d, e, b, k, 0) /\ e.inode = d.inode /\ e.ent = d.ent
      /\ d.free \subseteq e.free /\ (b = 0 => SamePtrs(d, e))
  <2> HIDE DEF b
  <2> QED
    BY <1>2, <1>3, DropPtrIs
<1> HIDE DEF e
<1>5. SamePtrsBelow(d, e, ino, n)
  <2>1. CASE b = 0
    BY <1>4, <2>1 DEF SamePtrs, SamePtrsBelow
  <2>2. CASE b # 0
    <3>1. e \in Disks
      BY <1>4 DEF Consistent
    <3>2. 0 = 0 /\ Inner(n) = 0 => SamePtrsBelow(d, e, ino, n)
      BY <1>1, <1>4, <2>2, <3>1, SetPtrIndex DEF k
    <3> QED
      BY <3>2
  <2> QED
    BY <2>1, <2>2
<1>6. OnlyBlocksOf(d, e, ino)
  BY <1>4 DEF OnlyBlocksOf
<1> QED
  BY <1>4, <1>5, <1>6 DEF Dropped, e, k

(* The pointer to a direct block. *)
LEMMA DropDirect ==
  ASSUME NEW d, Consistent(d), NEW ino \in Live(d), NEW n \in 0..(NDIRECT - 1)
  PROVE  LET e == [free_block(d, d.inode[ino].direct[n]) EXCEPT !.inode[ino].direct[n] = 0]
         IN Dropped(d, e, ino, n) /\ e.inode[ino].size = d.inode[ino].size
<1> DEFINE v == d.inode[ino].direct[n]
           f == free_block(d, v)
           oi == [f.inode[ino] EXCEPT !.direct[n] = 0]
           e == [f EXCEPT !.inode[ino] = oi]
<1>1. d \in Disks /\ d.free \subseteq Data /\ Owned(d, d.free) /\ ino \in Inodes
  BY DEF Consistent, Live
<1>2. v \in Data \cup {0}
  <2>1. ASSUME v # 0 PROVE v \in Data
    <3>1. <<ino, "direct", n, v>> \in Refs(d)
      BY <1>1, <2>1, RefsAre
    <3> QED
      BY <1>1, <3>1 DEF Owned
  <2> QED
    BY <2>1
<1>3. d.inode[ino] \in InodeRecords /\ 0 \in 0..NBLOCKS
  BY <1>1, OspfsAssumption DEF Disks
<1>4. e = [free_block(d, d.inode[ino].direct[n]) EXCEPT !.inode[ino].direct[n] = 0]
  OBVIOUS
<1> HIDE DEF v
<1>5. /\ f \in Disks /\ f.free = d.free \cup ({v} \ {0})
      /\ f.inode = d.inode /\ f.ptr = d.ptr /\ f.ent = d.ent
  BY <1>1, <1>2, FreeBlockIs
<1> HIDE DEF f
<1>6. /\ oi \in InodeRecords /\ oi.size = d.inode[ino].size /\ oi.ftype = d.inode[ino].ftype
      /\ oi.symlink = d.inode[ino].symlink /\ oi.nlink = d.inode[ino].nlink
      /\ oi.indirect = d.inode[ino].indirect /\ oi.indirect2 = d.inode[ino].indirect2
      /\ \A k \in 0..(NDIRECT - 1) : oi.direct[k] = IF k = n THEN 0 ELSE d.inode[ino].direct[k]
  BY <1>3, <1>5 DEF InodeRecords
<1> HIDE DEF oi
<1>7. /\ e \in Disks /\ e.inode[ino] = oi /\ e.ptr = f.ptr /\ e.ent = f.ent /\ e.free = f.free
      /\ \A i \in Inodes : i # ino => e.inode[i] = f.inode[i]
  BY <1>1, <1>5, <1>6, InodeField
<1> HIDE DEF e
<1>8. SetsDirect(d, e, ino, n, 0)
  <2>1. ASSUME NEW i \in Inodes
        PROVE  /\ e.inode[i].ftype = d.inode[i].ftype /\ e.inode[i].symlink = d.inode[i].symlink
               /\ e.inode[i].indirect = d.inode[i].indirect
               /\ e.inode[i].indirect2 = d.inode[i].indirect2
               /\ \A k \in 0..(NDIRECT - 1) :
                    e.inode[i].direct[k] = IF i = ino /\ k = n THEN 0 ELSE d.inode[i].direct[k]
    <3>1. CASE i = ino
      BY <1>6, <1>7, <3>1
    <3>2. CASE i # ino
      BY <1>5, <1>7, <3>2
    <3> QED
      BY <3>1, <3>2
  <2> QED
    BY <1>5, <1>7, <2>1 DEF SetsDirect
<1>9. /\ 0 = 0 => Owned(e, d.free \cup ({d.inode[ino].direct[n]} \ {0}))
      /\ SamePtrsBut(d, e, ino, n, 0)
  <2>1. 0 \in Data \cup {0} /\ (0 # 0 => 0 \in d.free)
    OBVIOUS
  <2> QED
    BY <1>1, <1>7, <1>8, <2>1, SetDirect
<1>10. Consistent(e) /\ d.free \subseteq e.free
  <2>1. e.free = d.free \cup ({v} \ {0})
    BY <1>5, <1>7
  <2> QED
    BY <1>1, <1>2, <1>7, <1>9, <2>1 DEF Consistent, v
<1>11. SamePtrsBelow(d, e, ino, n)
  BY <1>9 DEF SamePtrsBut, SamePtrsBelow
<1>12. OnlyBlocksOf(d, e, ino)
  BY <1>5, <1>6, <1>7 DEF OnlyBlocksOf
<1>13. Dropped(d, e, ino, n) /\ e.inode[ino].size = d.inode[ino].size
  BY <1>5, <1>6, <1>7, <1>10, <1>11, <1>12 DEF Dropped
<1> QED
  BY <1>4, <1>13

(* The pointer to the indirect block. *)
LEMMA DropIndirect ==
  ASSUME NEW d, Consistent(d), NEW ino \in Live(d)
  PROVE  LET e == [free_block(d, d.inode[ino].indirect) EXCEPT !.inode[ino].indirect = 0]
         IN Dropped(d, e, ino, NDIRECT) /\ e.inode[ino].size = d.inode[ino].size
<1> DEFINE v == d.inode[ino].indirect
           f == free_block(d, v)
           oi == [f.inode[ino] EXCEPT !.indirect = 0]
           e == [f EXCEPT !.inode[ino] = oi]
<1>1. d \in Disks /\ d.free \subseteq Data /\ Owned(d, d.free) /\ ino \in Inodes
  BY DEF Consistent, Live
<1>2. v \in Data \cup {0}
  BY <1>1, OwnedBlocks
<1>3. d.inode[ino] \in InodeRecords /\ 0 \in Blocks
  BY <1>1, OwnedBlocks DEF Disks
<1>4. e = [free_block(d, d.inode[ino].indirect) EXCEPT !.inode[ino].indirect = 0]
  OBVIOUS
<1> HIDE DEF v
<1>5. /\ f \in Disks /\ f.free = d.free \cup ({v} \ {0})
      /\ f.inode = d.inode /\ f.ptr = d.ptr /\ f.ent = d.ent
  BY <1>1, <1>2, FreeBlockIs
<1> HIDE DEF f
<1>6. /\ oi \in InodeRecords /\ oi.size = d.inode[ino].size /\ oi.ftype = d.inode[ino].ftype
      /\ oi.symlink = d.inode[ino].symlink /\ oi.nlink = d.inode[ino].nlink
      /\ oi.direct = d.inode[ino].direct
      /\ oi.indirect = 0 /\ oi.indirect2 = d.inode[ino].indirect2
  BY <1>3, <1>5 DEF InodeRecords
<1> HIDE DEF oi
<1>7. /\ e \in Disks /\ e.inode[ino] = oi /\ e.ptr = f.ptr /\ e.ent = f.ent /\ e.free = f.free
      /\ \A i \in Inodes : i # ino => e.inode[i] = f.inode[i]
  BY <1>1, <1>5, <1>6, InodeField
<1> HIDE DEF e
<1>8. SetsIndirect(d, e, ino, 0)
  BY <1>5, <1>6, <1>7 DEF SetsIndirect
<1>9. 0 = 0 => /\ Owned(e, d.free \cup ({d.inode[ino].indirect} \ {0}))
               /\ SamePtrsBelow(d, e, ino, NDIRECT)
  <2>1. 0 \in Data \cup {0}
        /\ (0 # 0 => 0 \in d.free /\ d.ptr[0] = ZeroPtrs /\ d.inode[ino].indirect = 0)
    OBVIOUS
  <2> QED
    BY <1>1, <1>7, <1>8, <2>1, SetIndirect
<1>10. Consistent(e) /\ d.free \subseteq e.free
  <2>1. e.free = d.free \cup ({v} \ {0})
    BY <1>5, <1>7
  <2> QED
    BY <1>1, <1>2, <1>7, <1>9, <2>1 DEF Consistent, v
<1>11. OnlyBlocksOf(d, e, ino)
  BY <1>5, <1>6, <1>7 DEF OnlyBlocksOf
<1>12. Dropped(d, e, ino, NDIRECT) /\ e.inode[ino].size = d.inode[ino].size
  BY <1>5, <1>6, <1>7, <1>9, <1>10, <1>11 DEF Dropped
<1> QED
  BY <1>4, <1>12

(* The pointer to the doubly indirect block. *)
LEMMA DropIndirect2 ==
  ASSUME NEW d, Consistent(d), NEW ino \in Live(d)
  PROVE  LET e == [free_block(d, d.inode[ino].indirect2) EXCEPT !.inode[ino].indirect2 = 0]
         IN Dropped(d, e, ino, NDIRECT + NINDIRECT) /\ e.inode[ino].size = d.inode[ino].size
<1> DEFINE v == d.inode[ino].indirect2
           f == free_block(d, v)
           oi == [f.inode[ino] EXCEPT !.indirect2 = 0]
           e == [f EXCEPT !.inode[ino] = oi]
<1>1. d \in Disks /\ d.free \subseteq Data /\ Owned(d, d.free) /\ ino \in Inodes
  BY DEF Consistent, Live
<1>2. v \in Data \cup {0}
  BY <1>1, OwnedBlocks
<1>3. d.inode[ino] \in InodeRecords /\ 0 \in Blocks
  BY <1>1, OwnedBlocks DEF Disks
<1>4. e = [free_block(d, d.inode[ino].indirect2) EXCEPT !.inode[ino].indirect2 = 0]
  OBVIOUS
<1> HIDE DEF v
<1>5. /\ f \in Disks /\ f.free = d.free \cup ({v} \ {0})
      /\ f.inode = d.inode /\ f.ptr = d.ptr /\ f.ent = d.ent
  BY <1>1, <1>2, FreeBlockIs
<1> HIDE DEF f
<1>6. /\ oi \in InodeRecords /\ oi.size = d.inode[ino].size /\ oi.ftype = d.inode[ino].ftype
      /\ oi.symlink = d.inode[ino].symlink /\ oi.nlink = d.inode[ino].nlink
      /\ oi.direct = d.inode[ino].direct
      /\ oi.indirect = d.inode[ino].indirect /\ oi.indirect2 = 0
  BY <1>3, <1>5 DEF InodeRecords
<1> HIDE DEF oi
<1>7. /\ e \in Disks /\ e.inode[ino] = oi /\ e.ptr = f.ptr /\ e.ent = f.ent /\ e.free = f.free
      /\ \A i \in Inodes : i # ino => e.inode[i] = f.inode[i]
  BY <1>1, <1>5, <1>6, InodeField
<1> HIDE DEF e
<1>8. SetsIndirect2(d, e, ino, 0)
  BY <1>5, <1>6, <1>7 DEF SetsIndirect2
<1>9. 0 = 0 => /\ Owned(e, d.free \cup ({d.inode[ino].indirect2} \ {0}))
               /\ SamePtrsBelow(d, e, ino, NDIRECT + NINDIRECT)
  <2>1. 0 \in Data \cup {0}
        /\ (0 # 0 => 0 \in d.free /\ d.ptr[0] = ZeroPtrs /\ d.inode[ino].indirect2 = 0)
    OBVIOUS
  <2> QED
    BY <1>1, <1>7, <1>8, <2>1, SetIndirect2
<1>10. Consistent(e) /\ d.free \subseteq e.free
  <2>1. e.free = d.free \cup ({v} \ {0})
    BY <1>5, <1>7
  <2> QED
    BY <1>1, <1>2, <1>7, <1>9, <2>1 DEF Consistent, v
<1>11. OnlyBlocksOf(d, e, ino)
  BY <1>5, <1>6, <1>7 DEF OnlyBlocksOf
<1>12. Dropped(d, e, ino, NDIRECT + NINDIRECT) /\ e.inode[ino].size = d.inode[ino].size
  BY <1>5, <1>6, <1>7, <1>9, <1>10, <1>11 DEF Dropped
<1> QED
  BY <1>4, <1>12

(* remove_block: the file is a block smaller and keeps the blocks below n, its
   number of blocks before. *)
LEMMA RemoveBlockIs ==
  ASSUME NEW d, Consistent(d), NEW ino \in Live(d), nblocks(d, ino) \in 0..(MAXFILEBLKS - 1)
  PROVE  /\ Dropped(d, remove_block(d, ino), ino, nblocks(d, ino))
         /\ remove_block(d, ino).inode[ino].size = d.inode[ino].size - BLKSIZE
<1> DEFINE n == nblocks(d, ino)
           g == remove_block(d, ino)
           oi == d.inode[ino]
           os == [oi EXCEPT !.size = oi.size - BLKSIZE]
           s == [d EXCEPT !.inode[ino] = os]
           d1 == DropPtr(s, oi.indirect, direct_index(n))
           d2 == DropPtr(s, s.ptr[oi.indirect2][indir_index(n)], direct_index(n))
           d3 == IF (n - NDIRECT) % NINDIRECT = 0
                 THEN DropPtr(d2, oi.indirect2, indir_index(n)) ELSE d2
<1> SUFFICES Dropped(d, g, ino, n) /\ g.inode[ino].size = oi.size - BLKSIZE
  OBVIOUS
<1>1. /\ d \in Disks /\ d.free \subseteq Data /\ Owned(d, d.free) /\ ino \in Inodes
      /\ NDIRECT \in Nat \ {0} /\ NINDIRECT \in Nat \ {0} /\ n \in Nat
      /\ MAXFILEBLKS \in Int /\ n < MAXFILEBLKS
  <2>1. NINDIRECT * NINDIRECT \in Nat
    BY OspfsAssumption
  <2>2. MAXFILEBLKS \in Int
    BY <2>1, OspfsAssumption DEF MAXFILEBLKS
  <2> QED
    BY <2>2, OspfsAssumption DEF Consistent, Live
<1>2. g = CASE indir_index(n) = -1 ->
                 [free_block(s, oi.direct[n]) EXCEPT !.inode[ino].direct[n] = 0]
            [] indir_index(n) = 0 /\ indir2_index(n) = -1 ->
                 IF n = NDIRECT THEN [free_block(d1, oi.indirect) EXCEPT !.inode[ino].indirect = 0]
                 ELSE d1
            [] OTHER ->
                 IF n = NDIRECT + NINDIRECT
                 THEN [free_block(d3, oi.indirect2) EXCEPT !.inode[ino].indirect2 = 0] ELSE d3
  BY DEF remove_block, nblocks
<1>3. oi \in InodeRecords /\ oi.size - BLKSIZE \in Int
  <2>1. oi \in InodeRecords
    BY <1>1 DEF Disks
  <2> HIDE DEF oi
  <2>2. oi.size \in Int
    BY <2>1 DEF InodeRecords
  <2> QED
    BY <2>1, <2>2, OspfsAssumption
<1> HIDE DEF n, g, d1, d2, d3
<1>4. /\ os \in InodeRecords /\ os.size = oi.size - BLKSIZE /\ os.nlink = oi.nlink
      /\ SamePointerFields(oi, os)
  BY <1>3 DEF InodeRecords, SamePointerFields
<1> HIDE DEF os
<1>5. /\ s \in Disks /\ s.inode[ino] = os /\ s.ptr = d.ptr /\ s.ent = d.ent /\ s.free = d.free
      /\ \A i \in Inodes : i # ino => s.inode[i] = d.inode[i]
  BY <1>1, <1>4, InodeField
<1> HIDE DEF s
<1>6. \A i \in Inodes : SamePointerFields(d.inode[i], s.inode[i])
  BY <1>4, <1>5 DEF SamePointerFields
<1>7. Dropped(d, s, ino, n) /\ ino \in Live(s) /\ s.inode[ino].size = oi.size - BLKSIZE
  <2>1. SamePtrs(d, s) /\ Owned(s, d.free)
    BY <1>1, <1>5, <1>6, SameFields
  <2>2. OnlyBlocksOf(d, s, ino)
    BY <1>4, <1>5 DEF OnlyBlocksOf, SamePointerFields
  <2> QED
    BY <1>1, <1>4, <1>5, <2>1, <2>2 DEF Dropped, Consistent, SamePtrs, SamePtrsBelow
<1>8. Consistent(s)
  BY <1>7 DEF Dropped
<1>9. /\ s.inode[ino].direct = oi.direct /\ s.inode[ino].indirect = oi.indirect
      /\ s.inode[ino].indirect2 = oi.indirect2
  BY <1>1, <1>6 DEF SamePointerFields
<1>10. ASSUME Dropped(s, g, ino, n), g.inode[ino].size = s.inode[ino].size
       PROVE  Dropped(d, g, ino, n) /\ g.inode[ino].size = oi.size - BLKSIZE
  BY <1>7, <1>10, DroppedTwice
<1>11. CASE n < NDIRECT
  <2>1. n \in 0..(NDIRECT - 1) /\ indir_index(n) = -1
    BY <1>1, <1>11 DEF indir_index
  <2> DEFINE e == [free_block(s, oi.direct[n]) EXCEPT !.inode[ino].direct[n] = 0]
  <2>2. g = e
    BY <1>2, <2>1
  <2>3. Dropped(s, e, ino, n) /\ e.inode[ino].size = s.inode[ino].size
    <3>1. oi.direct[n] = s.inode[ino].direct[n]
      BY <1>9
    <3> HIDE DEF oi
    <3> QED
      BY <1>7, <1>8, <2>1, <3>1, DropDirect
  <2> HIDE DEF e
  <2> QED
    BY <1>10, <2>2, <2>3
<1>12. CASE n >= NDIRECT /\ n < NDIRECT + NINDIRECT
  <2>1. n \in NDIRECT..(MAXFILEBLKS - 1) /\ indir_index(n) = 0 /\ indir2_index(n) = -1
    BY <1>1, <1>12 DEF indir_index, indir2_index
  <2>2. d1 = DropPtr(s, IndexOf(s, ino, n), PlaceOf(n))
    BY <1>9, <1>12, <2>1, IndexIs DEF IndexOf, d1
  <2>3. Dropped(s, d1, ino, n) /\ d1.inode = s.inode
    BY <1>7, <1>8, <2>1, <2>2, DropLeaf
  <2>4. CASE n # NDIRECT
    <3>1. g = d1
      BY <1>2, <2>1, <2>4
    <3> QED
      BY <1>10, <2>3, <3>1
  <2>5. CASE n = NDIRECT
    <3> DEFINE e == [free_block(d1, oi.indirect) EXCEPT !.inode[ino].indirect = 0]
    <3>1. g = e
      BY <1>2, <2>1, <2>5
    <3>2. Consistent(d1) /\ ino \in Live(d1) /\ oi.indirect = d1.inode[ino].indirect
      BY <1>7, <1>9, <2>3 DEF Dropped, SamePtrsBelow
    <3>3. Dropped(d1, e, ino, NDIRECT) /\ e.inode[ino].size = d1.inode[ino].size
      BY <3>2, DropIndirect
    <3> HIDE DEF e
    <3>4. Dropped(s, e, ino, n) /\ e.inode[ino].size = s.inode[ino].size
      BY <2>3, <2>5, <3>3, DroppedTwice
    <3> QED
      BY <1>10, <3>1, <3>4
  <2> QED
    BY <2>4, <2>5
<1>13. CASE n >= NDIRECT + NINDIRECT
  <2>1. /\ n \in (NDIRECT + NINDIRECT)..(MAXFILEBLKS - 1) /\ n \in NDIRECT..(MAXFILEBLKS - 1)
        /\ indir2_index(n) = 0 /\ ~(n < NDIRECT + NINDIRECT)
    BY <1>1, <1>13 DEF indir2_index
  <2>2. /\ Outer(n) \in Indices /\ indir_index(n) = Outer(n) /\ direct_index(n) = PlaceOf(n)
        /\ (n - NDIRECT) % NINDIRECT = Inner(n)
    BY <2>1, IndexIs, DoubleIndex
  <2>3. indir_index(n) # -1
    BY <2>2, OspfsAssumption DEF Indices
  <2>4. d2 = DropPtr(s, IndexOf(s, ino, n), PlaceOf(n))
    BY <1>9, <2>1, <2>2 DEF IndexOf, d2
  <2>5. Dropped(s, d2, ino, n) /\ d2.inode = s.inode
    BY <1>7, <1>8, <2>1, <2>4, DropLeaf
  <2>6. Dropped(s, d3, ino, n) /\ d3.inode = s.inode
    <3>1. CASE Inner(n) # 0
      BY <2>2, <2>5, <3>1 DEF d3
    <3>2. CASE Inner(n) = 0
      <4>1. Consistent(d2) /\ ino \in Live(d2) /\ oi.indirect2 = d2.inode[ino].indirect2
        BY <1>7, <1>9, <2>5 DEF Dropped, SamePtrsBelow
      <4>2. d3 = DropPtr(d2, d2.inode[ino].indirect2, Outer(n))
        BY <2>2, <3>2, <4>1 DEF d3
      <4>3. Dropped(d2, d3, ino, n) /\ d3.inode = d2.inode
        BY <2>1, <3>2, <4>1, <4>2, DropIndex
      <4> QED
        BY <2>5, <4>3, DroppedTwice
    <3> QED
      BY <3>1, <3>2
  <2>7. CASE n # NDIRECT + NINDIRECT
    <3>1. g = d3
      BY <1>2, <2>1, <2>3, <2>7
    <3> QED
      BY <1>10, <2>6, <3>1
  <2>8. CASE n = NDIRECT + NINDIRECT
    <3> DEFINE e == [free_block(d3, oi.indirect2) EXCEPT !.inode[ino].indirect2 = 0]
    <3>1. g = e
      BY <1>2, <2>1, <2>3, <2>8
    <3>2. Consistent(d3) /\ ino \in Live(d3) /\ oi.indirect2 = d3.inode[ino].indirect2
      BY <1>7, <1>9, <2>6 DEF Dropped, SamePtrsBelow
    <3>3. Dropped(d3, e, ino, NDIRECT + NINDIRECT) /\ e.inode[ino].size = d3.inode[ino].size
      BY <3>2, DropIndirect2
    <3> HIDE DEF e
    <3>4. Dropped(s, e, ino, n) /\ e.inode[ino].size = s.inode[ino].size
      BY <2>6, <2>8, <3>3, DroppedTwice
    <3> QED
      BY <1>10, <3>1, <3>4
  <2> QED
    BY <2>7, <2>8
<1> QED
  BY <1>1, <1>11, <1>12, <1>13

-----------------------------------------------------------------------------
(* The loops of change_size *)

(* The disk after any number of calls of remove_block: the recursive definition
   has a value, which satisfies its equation. *)
LEMMA RemovalsAre ==
  ASSUME NEW d, NEW ino
  PROVE  /\ Removals(d, ino)[0] = d
         /\ \A k \in Nat : Removals(d, ino)[k + 1] = remove_block(Removals(d, ino)[k], ino)
<1> DEFINE Upto(g, n) ==
             g = [k \in 0..n |-> IF k = 0 THEN d ELSE remove_block(g[k - 1], ino)]
           S == {n \in Nat : \E g : Upto(g, n)}
<1>1. ASSUME NEW g, NEW n \in Nat, Upto(g, n)
      PROVE  /\ g[0] = d
             /\ \A k \in Nat : k + 1 <= n => g[k + 1] = remove_block(g[k], ino)
  <2>1. \A k \in 0..n : g[k] = IF k = 0 THEN d ELSE remove_block(g[k - 1], ino)
    BY <1>1
  <2>2. ASSUME NEW k \in Nat, k + 1 <= n PROVE g[k + 1] = remove_block(g[k], ino)
    <3>1. k + 1 \in 0..n /\ k + 1 # 0 /\ (k + 1) - 1 = k
      BY <2>2
    <3> QED
      BY <2>1, <3>1
  <2> HIDE DEF Upto
  <2> QED
    BY <2>1, <2>2
<1>2. ASSUME NEW g, NEW n \in Nat, Upto(g, n), NEW h, NEW m \in Nat, Upto(h, m)
      PROVE  \A k \in Nat : k <= n /\ k <= m => g[k] = h[k]
  <2> DEFINE T == {k \in Nat : k <= n /\ k <= m => g[k] = h[k]}
  <2> HIDE DEF Upto
  <2>1. 0 \in T
    BY <1>1, <1>2
  <2>2. ASSUME NEW k \in Nat, k \in T PROVE k + 1 \in T
    BY <1>1, <1>2, <2>2
  <2> HIDE DEF T
  <2>3. \A k \in Nat : k \in T
    BY <2>1, <2>2, SetInduction
  <2> QED
    BY <2>3 DEF T
<1>3. \A n \in Nat : n \in S
  <2>1. 0 \in S
    <3>1. Upto([k \in 0..0 |-> d], 0)
      OBVIOUS
    <3> QED
      BY <3>1
  <2>2. ASSUME NEW n \in Nat, n \in S PROVE n + 1 \in S
    <3>1. PICK g : Upto(g, n)
      BY <2>2
    <3> DEFINE h == [k \in 0..(n + 1) |-> IF k = n + 1 THEN remove_block(g[n], ino) ELSE g[k]]
    <3>2. ASSUME NEW k \in 0..(n + 1)
          PROVE  h[k] = IF k = 0 THEN d ELSE remove_block(h[k - 1], ino)
      <4>1. CASE k = n + 1
        <5>1. k # 0 /\ k - 1 = n /\ n \in 0..(n + 1) /\ n # n + 1
          BY <4>1
        <5>2. h[k] = remove_block(g[n], ino) /\ h[n] = g[n]
          BY <4>1, <5>1
        <5> QED
          BY <5>1, <5>2
      <4>2. CASE k # n + 1 /\ k # 0
        <5>1. k - 1 \in Nat /\ (k - 1) + 1 = k /\ k <= n /\ k - 1 # n + 1 /\ k - 1 \in 0..(n + 1)
          BY <4>2
        <5>2. h[k] = g[k] /\ h[k - 1] = g[k - 1]
          BY <4>2, <5>1
        <5> HIDE DEF h, Upto
        <5>3. g[(k - 1) + 1] = remove_block(g[k - 1], ino)
          BY <1>1, <3>1, <5>1
        <5> QED
          BY <4>2, <5>1, <5>2, <5>3
      <4>3. CASE k = 0
        <5>1. h[0] = g[0]
          BY <4>3
        <5> HIDE DEF h, Upto
        <5> QED
          BY <1>1, <3>1, <4>3, <5>1
      <4> QED
        BY <4>1, <4>2, <4>3
    <3>3. Upto(h, n + 1)
      <4>1. h = [k \in 0..(n + 1) |-> h[k]]
        OBVIOUS
      <4> HIDE DEF h
      <4> QED
        BY <3>2, <4>1
    <3> HIDE DEF Upto, h
    <3> QED
      BY <3>3
  <2> HIDE DEF S
  <2> QED
    BY <2>1, <2>2, SetInduction
<1> DEFINE G(n) == CHOOSE g : Upto(g, n)
           f == [k \in Nat |-> G(k)[k]]
<1>4. ASSUME NEW n \in Nat PROVE Upto(G(n), n)
  <2> HIDE DEF Upto
  <2> QED
    BY <1>3
<1>5. ASSUME NEW k \in Nat
      PROVE  f[k] = IF k = 0 THEN d ELSE remove_block(f[k - 1], ino)
  <2> HIDE DEF Upto, G
  <2>1. CASE k = 0
    BY <1>1, <1>4, <2>1
  <2>2. CASE k # 0
    <3>1. k - 1 \in Nat /\ (k - 1) + 1 = k /\ k - 1 <= k /\ k <= k /\ k - 1 <= k - 1
      BY <2>2
    <3>2. G(k)[(k - 1) + 1] = remove_block(G(k)[k - 1], ino)
      BY <1>1, <1>4, <3>1
    <3>3. G(k)[k - 1] = G(k - 1)[k - 1]
      BY <1>2, <1>4, <3>1
    <3>4. f[k] = G(k)[k] /\ f[k - 1] = G(k - 1)[k - 1]
      BY <3>1
    <3> HIDE DEF f
    <3> QED
      BY <2>2, <3>1, <3>2, <3>3, <3>4
  <2> QED
    BY <2>1, <2>2
<1> HIDE DEF G
<1>6. f = [k \in Nat |-> IF k = 0 THEN d ELSE remove_block(f[k - 1], ino)]
  <2>1. f = [k \in Nat |-> f[k]]
    OBVIOUS
  <2> HIDE DEF f
  <2> QED
    BY <1>5, <2>1
<1> DEFINE R == Removals(d, ino)
<1>7. R = [k \in Nat |-> IF k = 0 THEN d ELSE remove_block(R[k - 1], ino)]
  <2> HIDE DEF f
  <2> QED
    BY <1>6 DEF Removals
<1> HIDE DEF R
<1>8. \A k \in Nat : R[k] = IF k = 0 THEN d ELSE remove_block(R[k - 1], ino)
  BY <1>7
<1>9. ASSUME NEW k \in Nat PROVE R[k + 1] = remove_block(R[k], ino)
  <2>1. k + 1 \in Nat /\ k + 1 # 0 /\ (k + 1) - 1 = k
    OBVIOUS
  <2> QED
    BY <1>8, <2>1
<1> QED
  BY <1>8, <1>9 DEF R

(* The same for the calls of add_block. *)
LEMMA AdditionsAre ==
  ASSUME NEW d, NEW ino
  PROVE  /\ Additions(d, ino)[0] = [disk |-> d, r |-> "OK"]
         /\ \A k \in Nat : Additions(d, ino)[k + 1] = GrowOnce(Additions(d, ino)[k], ino)
<1> DEFINE first == [disk |-> d, r |-> "OK"]
           Upto(g, n) ==
             g = [k \in 0..n |-> IF k = 0 THEN first ELSE GrowOnce(g[k - 1], ino)]
           S == {n \in Nat : \E g : Upto(g, n)}
<1> HIDE DEF first
<1>1. ASSUME NEW g, NEW n \in Nat, Upto(g, n)
      PROVE  /\ g[0] = first
             /\ \A k \in Nat : k + 1 <= n => g[k + 1] = GrowOnce(g[k], ino)
  <2>1. \A k \in 0..n : g[k] = IF k = 0 THEN first ELSE GrowOnce(g[k - 1], ino)
    BY <1>1
  <2>2. ASSUME NEW k \in Nat, k + 1 <= n PROVE g[k + 1] = GrowOnce(g[k], ino)
    <3>1. k + 1 \in 0..n /\ k + 1 # 0 /\ (k + 1) - 1 = k
      BY <2>2
    <3> QED
      BY <2>1, <3>1
  <2> HIDE DEF Upto
  <2> QED
    BY <2>1, <2>2
<1>2. ASSUME NEW g, NEW n \in Nat, Upto(g, n), NEW h, NEW m \in Nat, Upto(h, m)
      PROVE  \A k \in Nat : k <= n /\ k <= m => g[k] = h[k]
  <2> DEFINE T == {k \in Nat : k <= n /\ k <= m => g[k] = h[k]}
  <2> HIDE DEF Upto
  <2>1. 0 \in T
    BY <1>1, <1>2
  <2>2. ASSUME NEW k \in Nat, k \in T PROVE k + 1 \in T
    BY <1>1, <1>2, <2>2
  <2> HIDE DEF T
  <2>3. \A k \in Nat : k \in T
    BY <2>1, <2>2, SetInduction
  <2> QED
    BY <2>3 DEF T
<1>3. \A n \in Nat : n \in S
  <2>1. 0 \in S
    <3>1. Upto([k \in 0..0 |-> first], 0)
      OBVIOUS
    <3> QED
      BY <3>1
  <2>2. ASSUME NEW n \in Nat, n \in S PROVE n + 1 \in S
    <3>1. PICK g : Upto(g, n)
      BY <2>2
    <3> DEFINE h == [k \in 0..(n + 1) |-> IF k = n + 1 THEN GrowOnce(g[n], ino) ELSE g[k]]
    <3>2. ASSUME NEW k \in 0..(n + 1)
          PROVE  h[k] = IF k = 0 THEN first ELSE GrowOnce(h[k - 1], ino)
      <4>1. CASE k = n + 1
        <5>1. k # 0 /\ k - 1 = n /\ n \in 0..(n + 1) /\ n # n + 1
          BY <4>1
        <5>2. h[k] = GrowOnce(g[n], ino) /\ h[n] = g[n]
          BY <4>1, <5>1
        <5> QED
          BY <5>1, <5>2
      <4>2. CASE k # n + 1 /\ k # 0
        <5>1. k - 1 \in Nat /\ (k - 1) + 1 = k /\ k <= n /\ k - 1 # n + 1 /\ k - 1 \in 0..(n + 1)
          BY <4>2
        <5>2. h[k] = g[k] /\ h[k - 1] = g[k - 1]
          BY <4>2, <5>1
        <5> HIDE DEF h, Upto
        <5>3. g[(k - 1) + 1] = GrowOnce(g[k - 1], ino)
          BY <1>1, <3>1, <5>1
        <5> QED
          BY <4>2, <5>1, <5>2, <5>3
      <4>3. CASE k = 0
        <5>1. h[0] = g[0]
          BY <4>3
        <5> HIDE DEF h, Upto
        <5> QED
          BY <1>1, <3>1, <4>3, <5>1
      <4> QED
        BY <4>1, <4>2, <4>3
    <3>3. Upto(h, n + 1)
      <4>1. h = [k \in 0..(n + 1) |-> h[k]]
        OBVIOUS
      <4> HIDE DEF h
      <4> QED
        BY <3>2, <4>1
    <3> HIDE DEF Upto, h
    <3> QED
      BY <3>3
  <2> HIDE DEF S
  <2> QED
    BY <2>1, <2>2, SetInduction
<1> DEFINE G(n) == CHOOSE g : Upto(g, n)
           f == [k \in Nat |-> G(k)[k]]
<1>4. ASSUME NEW n \in Nat PROVE Upto(G(n), n)
  <2> HIDE DEF Upto
  <2> QED
    BY <1>3
<1>5. ASSUME NEW k \in Nat
      PROVE  f[k] = IF k = 0 THEN first ELSE GrowOnce(f[k - 1], ino)
  <2> HIDE DEF Upto, G
  <2>1. CASE k = 0
    BY <1>1, <1>4, <2>1
  <2>2. CASE k # 0
    <3>1. k - 1 \in Nat /\ (k - 1) + 1 = k /\ k - 1 <= k /\ k <= k /\ k - 1 <= k - 1
      BY <2>2
    <3>2. G(k)[(k - 1) + 1] = GrowOnce(G(k)[k - 1], ino)
      BY <1>1, <1>4, <3>1
    <3>3. G(k)[k - 1] = G(k - 1)[k - 1]
      BY <1>2, <1>4, <3>1
    <3>4. f[k] = G(k)[k] /\ f[k - 1] = G(k - 1)[k - 1]
      BY <3>1
    <3> HIDE DEF f
    <3> QED
      BY <2>2, <3>1, <3>2, <3>3, <3>4
  <2> QED
    BY <2>1, <2>2
<1> HIDE DEF G
<1>6. f = [k \in Nat |-> IF k = 0 THEN first ELSE GrowOnce(f[k - 1], ino)]
  <2>1. f = [k \in Nat |-> f[k]]
    OBVIOUS
  <2> HIDE DEF f
  <2> QED
    BY <1>5, <2>1
<1> DEFINE R == Additions(d, ino)
<1>7. R = [k \in Nat |-> IF k = 0 THEN first ELSE GrowOnce(R[k - 1], ino)]
  <2> HIDE DEF f
  <2> QED
    BY <1>6 DEF Additions, first
<1> HIDE DEF R
<1>8. \A k \in Nat : R[k] = IF k = 0 THEN first ELSE GrowOnce(R[k - 1], ino)
  BY <1>7
<1>9. ASSUME NEW k \in Nat PROVE R[k + 1] = GrowOnce(R[k], ino)
  <2>1. k + 1 \in Nat /\ k + 1 # 0 /\ (k + 1) - 1 = k
    OBVIOUS
  <2> QED
    BY <1>8, <2>1
<1> QED
  BY <1>8, <1>9 DEF R, first

(* Fewer blocks are kept than could be. *)
LEMMA DroppedMore ==
  ASSUME NEW d, NEW e, NEW ino, NEW n \in Int, NEW m \in Int, m <= n, Dropped(d, e, ino, n)
  PROVE  Dropped(d, e, ino, m)
<1>1. ASSUME NEW i \in Live(d), NEW k \in 0..(MAXFILEBLKS - 1), i # ino \/ k < m
      PROVE  Ptr(e, i, k) = Ptr(d, i, k)
  <2>1. i # ino \/ k < n
    BY <1>1
  <2> QED
    BY <2>1 DEF Dropped, SamePtrsBelow
<1> QED
  BY <1>1 DEF Dropped, SamePtrsBelow

(* One block less. *)
LEMMA BlocksLess ==
  ASSUME NEW s \in Int, s > -BLKSIZE, size2nblocks(s) >= 1
  PROVE  s - BLKSIZE \in Int /\ s - BLKSIZE > -BLKSIZE /\ size2nblocks(s - BLKSIZE) = size2nblocks(s) - 1
<1>1. BLKSIZE \in Nat \ {0}
  BY OspfsAssumption
<1> DEFINE q == size2nblocks(s)
           m == BLKSIZE * q
<1>2. q \in Nat /\ q >= 1 /\ m < s + BLKSIZE
  BY BlocksCover
<1> HIDE DEF q
<1>3. m >= BLKSIZE /\ m \in Int
  BY <1>1, <1>2
<1> HIDE DEF m
<1>4. s - BLKSIZE \in Int /\ s - BLKSIZE > -BLKSIZE
  BY <1>1, <1>2, <1>3
<1> DEFINE t == s - BLKSIZE
<1>5. t + BLKSIZE = s
  BY <1>1
<1> HIDE DEF t
<1>6. size2nblocks(t + BLKSIZE) = size2nblocks(t) + 1 /\ size2nblocks(t) \in Nat
  BY <1>4, BlocksStep, BlocksCover DEF t
<1> QED
  BY <1>4, <1>5, <1>6 DEF t, q

(* The first loop of change_size: blocks are removed until n are left. *)
LEMMA ShrinkIs ==
  ASSUME NEW d, Consistent(d), NEW ino \in Live(d), d.inode[ino].size > -BLKSIZE,
         nblocks(d, ino) \in 0..(MAXFILEBLKS - 1), NEW n \in Nat
  PROVE  Dropped(d, Shrink(d, ino, n), ino, n + 1)
<1> DEFINE have == nblocks(d, ino)
           R == Removals(d, ino)
           T == {k \in Nat : k <= have - n =>
                   /\ Dropped(d, R[k], ino, n + 1)
                   /\ R[k].inode[ino].size > -BLKSIZE
                   /\ nblocks(R[k], ino) = have - k}
<1>1. have \in Nat /\ have < MAXFILEBLKS /\ MAXFILEBLKS \in Int
  <2>1. NINDIRECT * NINDIRECT \in Nat
    BY OspfsAssumption
  <2>2. MAXFILEBLKS \in Int
    BY <2>1, OspfsAssumption DEF MAXFILEBLKS
  <2> QED
    BY <2>2
<1>2. R[0] = d /\ \A k \in Nat : R[k + 1] = remove_block(R[k], ino)
  BY RemovalsAre
<1>3. Shrink(d, ino, n) = R[IF have > n THEN have - n ELSE 0]
  BY DEF Shrink, nblocks
<1> HIDE DEF R, have
<1>4. Dropped(d, d, ino, n + 1)
  BY DEF Dropped, SamePtrsBelow, OnlyBlocksOf
<1>5. 0 \in T
  BY <1>1, <1>2, <1>4 DEF have
<1>6. ASSUME NEW k \in Nat, k \in T PROVE k + 1 \in T
  <2> SUFFICES ASSUME k + 1 <= have - n
               PROVE  /\ Dropped(d, R[k + 1], ino, n + 1)
                      /\ R[k + 1].inode[ino].size > -BLKSIZE
                      /\ nblocks(R[k + 1], ino) = have - (k + 1)
    OBVIOUS
  <2> DEFINE e == R[k]
             f == R[k + 1]
  <2>1. /\ Dropped(d, e, ino, n + 1) /\ e.inode[ino].size > -BLKSIZE
        /\ nblocks(e, ino) = have - k /\ have - k \in 0..(MAXFILEBLKS - 1)
        /\ have - k >= n + 1 /\ have - k >= 1 /\ have - k \in Int
    BY <1>1, <1>6
  <2>2. f = remove_block(e, ino)
    BY <1>2
  <2> HIDE DEF e, f, T
  <2>3. Consistent(e) /\ ino \in Live(e) /\ ino \in Inodes
    BY <2>1 DEF Dropped, SamePtrsBelow, Live
  <2>4. e.inode[ino].size \in Int
    BY <2>3 DEF Consistent, Disks, InodeRecords
  <2>5. /\ Dropped(e, f, ino, nblocks(e, ino))
        /\ f.inode[ino].size = e.inode[ino].size - BLKSIZE
    BY <2>1, <2>2, <2>3, RemoveBlockIs
  <2>6. Dropped(e, f, ino, n + 1)
    BY <2>1, <2>5, DroppedMore
  <2>7. Dropped(d, f, ino, n + 1)
    BY <2>1, <2>6, DroppedTwice
  <2>8. /\ f.inode[ino].size > -BLKSIZE
        /\ size2nblocks(f.inode[ino].size) = (have - k) - 1
    BY <2>1, <2>4, <2>5, BlocksLess DEF nblocks
  <2> QED
    BY <1>1, <2>7, <2>8 DEF nblocks, f
<1> HIDE DEF T
<1>7. \A k \in Nat : k \in T
  BY <1>5, <1>6, SetInduction
<1>8. CASE have > n
  <2>1. have - n \in Nat /\ have - n <= have - n
    BY <1>1, <1>8
  <2>2. Dropped(d, R[have - n], ino, n + 1)
    BY <1>7, <2>1 DEF T
  <2> QED
    BY <1>3, <1>8, <2>2
<1>9. CASE ~(have > n)
  BY <1>2, <1>3, <1>4, <1>9
<1> QED
  BY <1>8, <1>9

(* how e is d with file ino grown to n blocks, of which the new ones are blank *)
Extended(d, e, ino, n) ==
  /\ Consistent(e)
  /\ OnlyBlocksOf(d, e, ino)
  /\ e.free \subseteq d.free
  /\ \A b \in Blocks : b \notin d.free => e.ent[b] = d.ent[b]
  /\ SamePtrsBelow(d, e, ino, nblocks(d, ino))
  /\ nblocks(e, ino) = n /\ e.inode[ino].size > -BLKSIZE
  /\ \A j \in nblocks(d, ino)..(n - 1) :
       Ptr(e, ino, j) \in d.free /\ e.ent[Ptr(e, ino, j)] = ZeroEnts

(* add_block on a disk whose file has grown already. *)
LEMMA ExtendStep ==
  ASSUME NEW d, Consistent(d), NEW ino \in Live(d), nblocks(d, ino) \in Nat,
         NEW n \in Nat, nblocks(d, ino) <= n, n < MAXFILEBLKS,
         NEW e, Extended(d, e, ino, n),
         n >= NDIRECT + NINDIRECT /\ e.inode[ino].indirect2 = 0 => Cardinality(e.free) >= 3,
         NEW g, g = add_block(e, ino)
  PROVE  \/ /\ g.r = "OK" /\ Extended(d, g.disk, ino, n + 1)
            /\ e.inode[ino].indirect2 # 0 => g.disk.inode[ino].indirect2 # 0
            /\ g.disk.inode[ino].indirect2 # 0 \/ Credit(g.disk, ino) + 1 >= Credit(e, ino)
         \/ g.r = "ENOSPC" /\ Extended(d, g.disk, ino, n)
<1> DEFINE have == nblocks(d, ino)
           f == g.disk
<1>1. /\ Consistent(e) /\ ino \in Live(e) /\ Live(e) = Live(d) /\ ino \in Inodes
      /\ nblocks(e, ino) = n
  BY DEF Extended, SamePtrsBelow, Live
<1>2. n \in 0..(MAXFILEBLKS - 1) /\ MAXFILEBLKS \in Int
  <2>1. NINDIRECT * NINDIRECT \in Nat
    BY OspfsAssumption
  <2>2. MAXFILEBLKS \in Int
    BY <2>1, OspfsAssumption DEF MAXFILEBLKS
  <2> QED
    BY <2>2
<1>3. Added(e, g, ino)
  BY <1>1, <1>2, AddBlockIs
<1>4. /\ Consistent(f) /\ f.free \subseteq d.free /\ OnlyBlocksOf(d, f, ino)
      /\ \A b \in Blocks : b \notin d.free => f.ent[b] = d.ent[b]
  <2>1. OnlyBlocksOf(d, f, ino)
    BY <1>3 DEF Added, Extended, OnlyBlocksOf
  <2> QED
    BY <1>3, <2>1 DEF Added, Extended
<1>5. e.inode[ino].size \in Int /\ e.inode[ino].size > -BLKSIZE /\ BLKSIZE \in Nat \ {0}
  BY <1>1, OspfsAssumption DEF Consistent, Disks, InodeRecords, Extended
<1>6. ASSUME NEW j \in have..(n - 1), Ptr(f, ino, j) = Ptr(e, ino, j)
      PROVE  Ptr(f, ino, j) \in d.free /\ f.ent[Ptr(f, ino, j)] = ZeroEnts
  <2>1. Ptr(e, ino, j) \in d.free /\ e.ent[Ptr(e, ino, j)] = ZeroEnts
    BY DEF Extended
  <2>2. Ptr(e, ino, j) \in Blocks /\ Ptr(e, ino, j) \notin e.free
    <3>1. d.free \subseteq Data /\ 0 \notin Data /\ Data \subseteq Blocks
      BY OspfsAssumption DEF Consistent, Data, Blocks
    <3>2. j \in 0..(MAXFILEBLKS - 1)
      BY <1>2
    <3>3. Ptr(e, ino, j) = 0 \/ Ptr(e, ino, j) \in Data \ e.free
      BY <1>1, <3>2, OwnedBlocks DEF Consistent
    <3> QED
      BY <2>1, <3>1, <3>3
  <2> QED
    BY <1>3, <1>6, <2>1, <2>2 DEF Added
<1>7. ASSUME f.inode[ino].size = e.inode[ino].size, SamePtrs(e, f)
      PROVE  Extended(d, f, ino, n)
  <2>1. SamePtrsBelow(d, f, ino, have)
    BY <1>1, <1>7 DEF Extended, SamePtrs, SamePtrsBelow
  <2>2. ASSUME NEW j \in have..(n - 1) PROVE Ptr(f, ino, j) = Ptr(e, ino, j)
    <3>1. j \in 0..(MAXFILEBLKS - 1)
      BY <1>2
    <3> QED
      BY <1>1, <1>7, <3>1 DEF SamePtrs
  <2>3. nblocks(f, ino) = n /\ f.inode[ino].size > -BLKSIZE
    BY <1>1, <1>5, <1>7 DEF nblocks
  <2> HIDE DEF f, have
  <2> QED
    BY <1>4, <1>6, <2>1, <2>2, <2>3 DEF Extended, have
<1>8. ASSUME f.inode[ino].size = e.inode[ino].size + BLKSIZE, NEW v \in e.free,
             SamePtrsBut(e, f, ino, n, v), f.ent[v] = ZeroEnts
      PROVE  Extended(d, f, ino, n + 1)
  <2>1. SamePtrsBelow(d, f, ino, have)
    <3>1. ASSUME NEW i \in Live(d), NEW k \in 0..(MAXFILEBLKS - 1), i # ino \/ k < have
          PROVE  Ptr(f, i, k) = Ptr(d, i, k)
      <4>1. i # ino \/ k # n
        BY <3>1
      <4>2. Ptr(f, i, k) = Ptr(e, i, k)
        BY <1>1, <1>8, <4>1 DEF SamePtrsBut
      <4>3. Ptr(e, i, k) = Ptr(d, i, k)
        BY <3>1 DEF Extended, SamePtrsBelow
      <4> QED
        BY <4>2, <4>3
    <3> QED
      BY <1>1, <1>8, <3>1 DEF SamePtrsBut, SamePtrsBelow
  <2>2. ASSUME NEW j \in have..((n + 1) - 1)
        PROVE  Ptr(f, ino, j) \in d.free /\ f.ent[Ptr(f, ino, j)] = ZeroEnts
    <3>1. CASE j = n
      BY <1>8, <3>1 DEF SamePtrsBut, Extended
    <3>2. CASE j # n
      <4>1. j \in 0..(MAXFILEBLKS - 1) /\ j \in have..(n - 1)
        BY <1>2, <3>2
      <4>2. Ptr(f, ino, j) = Ptr(e, ino, j)
        BY <1>1, <1>8, <3>2, <4>1 DEF SamePtrsBut
      <4> HIDE DEF f, have
      <4> QED
        BY <1>6, <4>1, <4>2
    <3> QED
      BY <3>1, <3>2
  <2>3. nblocks(f, ino) = n + 1 /\ f.inode[ino].size > -BLKSIZE
    <3>1. size2nblocks(e.inode[ino].size + BLKSIZE) = size2nblocks(e.inode[ino].size) + 1
      BY <1>5, BlocksStep
    <3> QED
      BY <1>1, <1>5, <1>8, <3>1 DEF nblocks
  <2> HIDE DEF f, have
  <2> QED
    BY <1>4, <2>1, <2>2, <2>3 DEF Extended, have
<1> HIDE DEF f
<1>9. CASE g.r = "ENOSPC" /\ f.inode[ino].size = e.inode[ino].size /\ SamePtrs(e, f)
  BY <1>7, <1>9 DEF f
<1>10. CASE /\ g.r = "OK" /\ f.inode[ino].size = e.inode[ino].size + BLKSIZE
            /\ \E v \in e.free : SamePtrsBut(e, f, ino, n, v) /\ f.ent[v] = ZeroEnts
            /\ f.inode[ino].indirect2 # 0 \/ Credit(f, ino) + 1 >= Credit(e, ino)
  <2>1. Extended(d, f, ino, n + 1)
    BY <1>8, <1>10
  <2>2. e.inode[ino].indirect2 # 0 => f.inode[ino].indirect2 # 0
    BY <1>3 DEF Added, f
  <2> QED
    BY <1>10, <2>1, <2>2 DEF f
<1> QED
  BY <1>1, <1>3, <1>9, <1>10 DEF Added, f

(* how g leaves disk d when file ino was to grow to n blocks *)
GrownTo(d, g, ino, n) ==
  \/ /\ g.r = "OK"
     /\ Extended(d, g.disk, ino, IF nblocks(d, ino) < n THEN n ELSE nblocks(d, ino))
  \/ /\ g.r = "ENOSPC"
     /\ \E m \in nblocks(d, ino)..(n - 1) : Extended(d, g.disk, ino, m)

(* The second loop of change_size: blocks are added up to n, if there are enough.
   A doubly indirect block is asked for only with room for all blocks. *)
LEMMA GrowIs ==
  ASSUME NEW d, Consistent(d), NEW ino \in Live(d), d.inode[ino].size > -BLKSIZE,
         nblocks(d, ino) \in Nat, NEW n \in 0..(MAXFILEBLKS - 1),
         n > NDIRECT + NINDIRECT => Cardinality(d.free) >= n + 3
  PROVE  GrownTo(d, Grow(d, ino, n), ino, n)
<1> DEFINE have == nblocks(d, ino)
           A == Additions(d, ino)
           Good(k) == /\ A[k].r = "OK" /\ Extended(d, A[k].disk, ino, have + k)
                      /\ \/ A[k].disk.inode[ino].indirect2 # 0
                         \/ Credit(A[k].disk, ino) + k >= Credit(d, ino)
           Full(k) == /\ A[k].r = "ENOSPC"
                      /\ \E m \in have..(n - 1) : Extended(d, A[k].disk, ino, m)
           T == {k \in Nat : k <= n - have => Good(k) \/ Full(k)}
<1>1. /\ have \in Nat /\ MAXFILEBLKS \in Int /\ n \in Nat /\ n < MAXFILEBLKS
      /\ NDIRECT \in Nat /\ NINDIRECT \in Nat
  <2>1. NINDIRECT * NINDIRECT \in Nat
    BY OspfsAssumption
  <2>2. MAXFILEBLKS \in Int
    BY <2>1, OspfsAssumption DEF MAXFILEBLKS
  <2> QED
    BY <2>2, OspfsAssumption
<1>2. A[0] = [disk |-> d, r |-> "OK"] /\ \A k \in Nat : A[k + 1] = GrowOnce(A[k], ino)
  BY AdditionsAre
<1>3. Grow(d, ino, n) = A[IF have < n THEN n - have ELSE 0]
  BY DEF Grow, nblocks
<1>4. Credit(d, ino) \in Nat /\ Cardinality(d.free) \in Nat /\ Cardinality(d.free) <= Credit(d, ino)
  BY FreeCard DEF Credit, Consistent
<1> HIDE DEF A, have
<1>5. Extended(d, d, ino, have + 0)
  BY <1>1 DEF Extended, SamePtrsBelow, OnlyBlocksOf, have
<1>6. 0 \in T
  BY <1>2, <1>4, <1>5
<1>7. ASSUME NEW k \in Nat, k \in T PROVE k + 1 \in T
  <2> SUFFICES ASSUME k + 1 <= n - have PROVE Good(k + 1) \/ Full(k + 1)
    OBVIOUS
  <2>1. A[k + 1] = GrowOnce(A[k], ino) /\ (Good(k) \/ Full(k))
    BY <1>1, <1>2, <1>7
  <2>2. CASE Full(k)
    <3>1. A[k + 1] = A[k]
      BY <2>1, <2>2 DEF GrowOnce
    <3> QED
      BY <2>2, <3>1
  <2>3. CASE Good(k)
    <3> DEFINE e == A[k].disk
               g == A[k + 1]
               m == have + k
    <3>1. g = add_block(e, ino) /\ Extended(d, e, ino, m)
      BY <2>1, <2>3 DEF GrowOnce
    <3>2. m \in Nat /\ have <= m /\ m < n /\ m < MAXFILEBLKS
      BY <1>1
    <3>3. Credit(e, ino) \in Nat /\ Cardinality(e.free) \in Nat
          /\ Credit(e, ino) <= Cardinality(e.free) + 1
      BY <3>1, FreeCard DEF Extended, Consistent, Credit
    <3>4. ASSUME m >= NDIRECT + NINDIRECT, e.inode[ino].indirect2 = 0
          PROVE  Cardinality(e.free) >= 3
      <4>1. Credit(e, ino) + k >= Credit(d, ino)
        BY <2>3, <3>4
      <4>2. Cardinality(d.free) >= n + 3
        BY <1>1, <3>2, <3>4
      <4> HIDE DEF e
      <4> QED
        BY <1>1, <1>4, <3>2, <3>3, <4>1, <4>2
    <3>5. /\ e.inode[ino].indirect2 # 0 \/ Credit(e, ino) + k >= Credit(d, ino)
      BY <2>3
    <3> HIDE DEF e, m
    <3>6. \/ /\ g.r = "OK" /\ Extended(d, g.disk, ino, m + 1)
             /\ e.inode[ino].indirect2 # 0 => g.disk.inode[ino].indirect2 # 0
             /\ g.disk.inode[ino].indirect2 # 0 \/ Credit(g.disk, ino) + 1 >= Credit(e, ino)
          \/ g.r = "ENOSPC" /\ Extended(d, g.disk, ino, m)
      <4> HIDE DEF g
      <4> QED
        BY <3>1, <3>2, <3>4, <1>1, ExtendStep DEF have
    <3>7. CASE g.r = "ENOSPC" /\ Extended(d, g.disk, ino, m)
      <4>1. m \in have..(n - 1)
        BY <1>1, <3>2
      <4> QED
        BY <3>7, <4>1
    <3>8. CASE /\ g.r = "OK" /\ Extended(d, g.disk, ino, m + 1)
               /\ e.inode[ino].indirect2 # 0 => g.disk.inode[ino].indirect2 # 0
               /\ g.disk.inode[ino].indirect2 # 0 \/ Credit(g.disk, ino) + 1 >= Credit(e, ino)
      <4>1. m + 1 = have + (k + 1)
        BY <1>1 DEF m
      <4>2. Credit(g.disk, ino) \in Nat
        BY <3>8, FreeCard DEF Extended, Consistent, Credit
      <4>3. g.disk.inode[ino].indirect2 # 0 \/ Credit(g.disk, ino) + (k + 1) >= Credit(d, ino)
        BY <1>4, <3>3, <3>5, <3>8, <4>2
      <4> QED
        BY <3>8, <4>1, <4>3
    <3> QED
      BY <3>6, <3>7, <3>8
  <2> QED
    BY <2>1, <2>2, <2>3
<1>8. \A k \in Nat : k \in T
  <2> HIDE DEF T
  <2> QED
    BY <1>6, <1>7, SetInduction
<1>9. CASE have < n
  <2>1. n - have \in Nat /\ n - have <= n - have /\ have + (n - have) = n
    BY <1>1, <1>9
  <2>2. Good(n - have) \/ Full(n - have)
    BY <1>8, <2>1
  <2>3. Grow(d, ino, n) = A[n - have]
    BY <1>3, <1>9
  <2> QED
    BY <1>9, <2>1, <2>2, <2>3 DEF GrownTo, have
<1>10. CASE ~(have < n)
  <2>1. Grow(d, ino, n) = [disk |-> d, r |-> "OK"] /\ have + 0 = have
    BY <1>1, <1>2, <1>3, <1>10
  <2> QED
    BY <1>5, <1>10, <2>1 DEF GrownTo, have
<1> QED
  BY <1>9, <1>10

(* The end of change_size: the file is cut down to a size. *)
LEMMA SettleIs ==
  ASSUME NEW d, Consistent(d), NEW ino \in Live(d), d.inode[ino].size > -BLKSIZE,
         nblocks(d, ino) \in 0..(MAXFILEBLKS - 1), NEW size \in Nat
  PROVE  /\ Dropped(d, Settle(d, ino, size), ino, size2nblocks(size) + 1)
         /\ Settle(d, ino, size).inode[ino].size = size
<1> DEFINE n == size2nblocks(size)
           e == Shrink(d, ino, n)
           oi == [e.inode[ino] EXCEPT !.size = size]
           f == [e EXCEPT !.inode[ino] = oi]
<1>1. n \in Nat
  BY BlocksCover, OspfsAssumption
<1>2. Settle(d, ino, size) = f
  BY DEF Settle
<1> HIDE DEF n
<1>3. Dropped(d, e, ino, n + 1)
  BY <1>1, ShrinkIs
<1> HIDE DEF e
<1>4. e \in Disks /\ e.free \subseteq Data /\ Owned(e, e.free) /\ ino \in Inodes /\ ino \in Live(e)
  BY <1>3 DEF Dropped, Consistent, SamePtrsBelow, Live
<1>5. e.inode[ino] \in InodeRecords
  BY <1>4 DEF Disks
<1>6. oi \in InodeRecords /\ oi.size = size /\ oi.nlink = e.inode[ino].nlink
      /\ SamePointerFields(e.inode[ino], oi)
  BY <1>5 DEF InodeRecords, SamePointerFields
<1> HIDE DEF oi
<1>7. /\ f \in Disks /\ f.inode[ino] = oi /\ f.ptr = e.ptr /\ f.ent = e.ent /\ f.free = e.free
      /\ \A i \in Inodes : i # ino => f.inode[i] = e.inode[i]
  BY <1>4, <1>6, InodeField
<1> HIDE DEF f
<1>8. \A i \in Inodes : SamePointerFields(e.inode[i], f.inode[i])
  BY <1>6, <1>7 DEF SamePointerFields
<1>9. SamePtrs(e, f) /\ Owned(f, e.free)
  BY <1>4, <1>7, <1>8, SameFields
<1>10. OnlyBlocksOf(e, f, ino)
  BY <1>6, <1>7 DEF OnlyBlocksOf, SamePointerFields
<1>11. Dropped(e, f, ino, n + 1)
  BY <1>4, <1>7, <1>9, <1>10 DEF Dropped, Consistent, SamePtrs, SamePtrsBelow
<1>12. Dropped(d, f, ino, n + 1)
  BY <1>3, <1>11, DroppedTwice
<1> QED
  BY <1>2, <1>6, <1>7, <1>12 DEF n

(* how c leaves disk d when file ino was to get a size: blocks that it had and
   still needs stay, and the others it has are new and blank *)
Changed(d, c, ino, size) ==
  /\ Consistent(c.disk)
  /\ OnlyBlocksOf(d, c.disk, ino)
  /\ Live(c.disk) = Live(d)
  /\ c.r \in {"OK", "ENOSPC"}
  /\ c.disk.inode[ino].size = IF c.r = "OK" THEN size ELSE d.inode[ino].size
  /\ \A i \in Live(d) : \A k \in 0..(MAXFILEBLKS - 1) :
       i # ino \/ (k < nblocks(d, ino) /\ k < nblocks(c.disk, ino)) =>
         Ptr(c.disk, i, k) = Ptr(d, i, k)
  /\ \A b \in Blocks : b \notin d.free => c.disk.ent[b] = d.ent[b]
  /\ \A k \in nblocks(d, ino)..(nblocks(c.disk, ino) - 1) :
       Ptr(c.disk, ino, k) \in d.free /\ c.disk.ent[Ptr(c.disk, ino, k)] = ZeroEnts

(* What change_size does to a disk whose pointers and bitmap agree, for every
   old and new size across direct, indirect and doubly indirect blocks: they
   still agree, the file has the new size, or the old one with -ENOSPC, the
   blocks below both sizes stay where they are, new ones come from the bitmap and
   are blank, and nobody else's pointers, entries or inode change.  The index n of
   remove_block, one too far, leaves blocks with the file but harms nobody. *)
THEOREM ChangeSizeIs ==
  ASSUME NEW d, Consistent(d), NEW ino \in Live(d), d.inode[ino].size \in Nat,
         nblocks(d, ino) \in 0..(MAXFILEBLKS - 1),
         NEW size \in Nat, size2nblocks(size) \in 0..(MAXFILEBLKS - 1),
         size2nblocks(size) > NDIRECT + NINDIRECT =>
           Cardinality(d.free) >= size2nblocks(size) + 3
  PROVE  Changed(d, change_size(d, ino, size), ino, size)
<1> DEFINE old == nblocks(d, ino)
           n == size2nblocks(size)
           g == Grow(d, ino, n)
           c == change_size(d, ino, size)
<1>1. old \in Nat /\ n \in Nat /\ MAXFILEBLKS \in Int /\ n < MAXFILEBLKS /\ old < MAXFILEBLKS
  <2>1. NINDIRECT * NINDIRECT \in Nat
    BY OspfsAssumption
  <2>2. MAXFILEBLKS \in Int
    BY <2>1, OspfsAssumption DEF MAXFILEBLKS
  <2> QED
    BY <2>2
<1>2. d.inode[ino].size > -BLKSIZE
  BY OspfsAssumption
<1>3. c = Resized(g, ino, d.inode[ino].size, size)
  BY DEF change_size
<1>4. old = size2nblocks(d.inode[ino].size)
  BY DEF nblocks
<1>5. ASSUME NEW m \in Nat, m < MAXFILEBLKS, Extended(d, g.disk, ino, m), old <= m,
             NEW to \in Nat, c.disk = Settle(g.disk, ino, to), c.r \in {"OK", "ENOSPC"},
             size2nblocks(to) <= m, to = IF c.r = "OK" THEN size ELSE d.inode[ino].size
      PROVE  Changed(d, c, ino, size)
  <2> DEFINE e == g.disk
             f == c.disk
             t == size2nblocks(to)
  <2>1. Consistent(e) /\ ino \in Live(e) /\ Live(e) = Live(d) /\ nblocks(e, ino) = m
        /\ e.inode[ino].size > -BLKSIZE /\ m \in 0..(MAXFILEBLKS - 1)
    BY <1>1, <1>5 DEF Extended, SamePtrsBelow
  <2>2. Dropped(e, f, ino, t + 1) /\ f.inode[ino].size = to
    BY <1>5, <2>1, SettleIs
  <2>3. t \in Nat /\ nblocks(f, ino) = t
    BY <2>2, BlocksCover, OspfsAssumption DEF nblocks
  <2> HIDE DEF e, f, t, g, c, n
  <2>4. Consistent(f) /\ Live(f) = Live(d) /\ OnlyBlocksOf(d, f, ino)
    BY <1>5, <2>1, <2>2 DEF Dropped, SamePtrsBelow, Extended, OnlyBlocksOf, e
  <2>5. ASSUME NEW i \in Live(d), NEW k \in 0..(MAXFILEBLKS - 1), i # ino \/ k < t
        PROVE  Ptr(f, i, k) = Ptr(e, i, k)
    <3>1. i # ino \/ k < t + 1
      BY <2>3, <2>5
    <3> QED
      BY <2>1, <2>2, <3>1 DEF Dropped, SamePtrsBelow
  <2>6. ASSUME NEW i \in Live(d), NEW k \in 0..(MAXFILEBLKS - 1), i # ino \/ (k < old /\ k < t)
        PROVE  Ptr(f, i, k) = Ptr(d, i, k)
    <3>1. Ptr(e, i, k) = Ptr(d, i, k)
      BY <1>5, <2>6 DEF Extended, SamePtrsBelow, e
    <3> QED
      BY <2>5, <2>6, <3>1
  <2>7. f.ent = e.ent /\ \A b \in Blocks : b \notin d.free => f.ent[b] = d.ent[b]
    BY <1>5, <2>2 DEF Dropped, Extended, e
  <2>8. ASSUME NEW k \in old..(t - 1)
        PROVE  Ptr(f, ino, k) \in d.free /\ f.ent[Ptr(f, ino, k)] = ZeroEnts
    <3>1. k \in old..(m - 1) /\ k \in 0..(MAXFILEBLKS - 1) /\ k < t
      BY <1>1, <1>5, <2>3 DEF t
    <3>2. Ptr(e, ino, k) \in d.free /\ e.ent[Ptr(e, ino, k)] = ZeroEnts
      BY <1>5, <3>1 DEF Extended, e
    <3>3. Ptr(f, ino, k) = Ptr(e, ino, k)
      BY <2>5, <3>1
    <3> QED
      BY <2>7, <3>2, <3>3
  <2>9. f.inode[ino].size = IF c.r = "OK" THEN size ELSE d.inode[ino].size
    BY <1>5, <2>2
  <2> QED
    BY <1>5, <2>3, <2>4, <2>6, <2>7, <2>8, <2>9 DEF Changed, f
<1>6. GrownTo(d, g, ino, n)
  <2> HIDE DEF n
  <2> QED
    BY <1>1, <1>2, GrowIs DEF n
<1>7. CASE g.r = "OK" /\ Extended(d, g.disk, ino, IF old < n THEN n ELSE old)
  <2>1. c.r = "OK" /\ c.disk = Settle(g.disk, ino, size)
    BY <1>3, <1>7 DEF Resized
  <2> HIDE DEF g, c, old, n
  <2>2. PICK m \in Nat : m = IF old < n THEN n ELSE old
    BY <1>1
  <2>3. m < MAXFILEBLKS /\ Extended(d, g.disk, ino, m) /\ old <= m /\ n <= m
    BY <1>1, <1>7, <2>2
  <2> QED
    BY <1>5, <2>1, <2>3 DEF c, n
<1>8. CASE g.r = "ENOSPC" /\ \E m \in old..(n - 1) : Extended(d, g.disk, ino, m)
  <2>1. c.r = "ENOSPC" /\ c.disk = Settle(g.disk, ino, d.inode[ino].size)
    BY <1>3, <1>8 DEF Resized
  <2> HIDE DEF g, c, n
  <2>2. PICK m \in old..(n - 1) : Extended(d, g.disk, ino, m)
    BY <1>8
  <2>3. m \in Nat /\ m < MAXFILEBLKS /\ old <= m /\ size2nblocks(d.inode[ino].size) <= m
    BY <1>1, <1>4, <2>2
  <2> HIDE DEF old
  <2> QED
    BY <1>5, <2>1, <2>2, <2>3 DEF c
<1> QED
  BY <1>6, <1>7, <1>8 DEF GrownTo
=============================================================================
