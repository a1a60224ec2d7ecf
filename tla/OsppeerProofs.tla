--------------------------- MODULE OsppeerProofs ---------------------------
(***************************************************************************)
(* The invariants of Osppeer, proved for every list of arguments, every    *)
(* answer of the tracker, every stream, and every size of the buffer and   *)
(* of the unsigned counters that is a multiple of it.                      *)
(***************************************************************************)
EXTENDS Osppeer, NatLemmas, FiniteSetTheorems, SequenceTheorems, TLAPS

(* The sizes as plain inequalities. *)
LEMMA Sizes == /\ TASKBUFSIZ \in Nat /\ TASKBUFSIZ > 0 /\ WORD \in Nat /\ WORD > 0
               /\ TASKBUFSIZ < WORD /\ WORD % TASKBUFSIZ = 0
  BY BufferAssumption

-----------------------------------------------------------------------------
(* Tasks *)

Peers == UNION {Range(s) : s \in PeerLists}
LocalNames == {<<f, 0>> : f \in DOMAIN Local}
FileNames == (Range(Args) \cup DOMAIN Local) \X Nat
Slots == 0..(TASKBUFSIZ - 1)
Ends == {"eof", "reset"}

DownPC == {"none", "start", "open", "try_again", "get", "md5", "done", "reaped"}
UpPC == {"none", "start", "put", "complete", "done", "reaped"}

Task == [pc : DownPC \cup UpPC, peers : Seq(Peers), name : {NULL} \cup FileNames, i : Nat,
         stream : [len : Nat, end : Ends], head : Nat, tail : Nat,
         buf : [Slots -> Nat], in : Nat, out : Seq(Nat), freed : BOOLEAN]

(* The counters are the numbers of bytes that left and that entered the buffer,
   modulo WORD; what left is the beginning of the stream, and every byte on its
   way is in its slot. *)
Buffer(t) ==
  /\ t.head = Len(t.out) % WORD /\ t.tail = t.in % WORD
  /\ Len(t.out) <= t.in /\ t.in <= Len(t.out) + TASKBUFSIZ /\ t.in <= t.stream.len
  /\ \A k \in 1..Len(t.out) : t.out[k] = k
  /\ \A n \in Len(t.out)..(t.in - 1) : t.buf[n % TASKBUFSIZ] = n + 1

(* The positions of head and tail say how full the buffer is, but for the cases
   empty and full, which the counters tell apart. *)
LEMMA Positions ==
  ASSUME NEW t \in Task, Buffer(t)
  PROVE  /\ headpos(t) = Len(t.out) % TASKBUFSIZ /\ tailpos(t) = t.in % TASKBUFSIZ
         /\ headpos(t) \in Slots /\ tailpos(t) \in Slots
         /\ t.head = t.tail <=> t.in = Len(t.out)
         /\ \/ t.in - Len(t.out) = tailpos(t) - headpos(t)
            \/ t.in - Len(t.out) = tailpos(t) - headpos(t) + TASKBUFSIZ
<1> DEFINE x == Len(t.out)
           y == t.in
<1>1. x \in Nat /\ y \in Nat /\ x <= y /\ y <= x + TASKBUFSIZ
  BY DEF Task, Buffer
<1>2. t.head = x % WORD /\ t.tail = y % WORD
  BY DEF Buffer
<1> HIDE DEF x, y
<1>3. (x % WORD) % TASKBUFSIZ = x % TASKBUFSIZ /\ (y % WORD) % TASKBUFSIZ = y % TASKBUFSIZ
  BY <1>1, Sizes, ModOfMod
<1>4. headpos(t) = x % TASKBUFSIZ /\ tailpos(t) = y % TASKBUFSIZ
  BY <1>2, <1>3 DEF headpos, tailpos
<1>5. x % TASKBUFSIZ \in Slots /\ y % TASKBUFSIZ \in Slots
  BY <1>1, Sizes DEF Slots
<1>6. x % WORD = y % WORD => x = y
  <2>1. y <= x + WORD /\ y - x < WORD
    BY <1>1, Sizes
  <2>2. y - x = (y % WORD) - (x % WORD) \/ y - x = (y % WORD) - (x % WORD) + WORD
    BY <1>1, <2>1, Sizes, ModDiff
  <2>3. x % WORD \in Nat /\ y % WORD \in Nat
    BY <1>1, Sizes
  <2> QED
    BY <1>1, <2>1, <2>2, <2>3, Sizes
<1>7. \/ y - x = (y % TASKBUFSIZ) - (x % TASKBUFSIZ)
      \/ y - x = (y % TASKBUFSIZ) - (x % TASKBUFSIZ) + TASKBUFSIZ
  BY <1>1, Sizes, ModDiff
<1> QED
  BY <1>2, <1>4, <1>5, <1>6, <1>7 DEF x, y

(* read and write are asked for as much as there is room for, or as is there,
   in one piece. *)
LEMMA Spans ==
  ASSUME NEW t \in Task, Buffer(t)
  PROVE  /\ Room(t) \in Nat /\ tailpos(t) + Room(t) <= TASKBUFSIZ
         /\ t.in + Room(t) <= Len(t.out) + TASKBUFSIZ
         /\ t.head = t.tail => Room(t) > 0
         /\ t.head # t.tail => /\ Ready(t) \in Nat /\ headpos(t) + Ready(t) <= TASKBUFSIZ
                               /\ Len(t.out) + Ready(t) <= t.in
<1>1. t.in \in Nat /\ Len(t.out) \in Nat /\ Len(t.out) <= t.in /\ TASKBUFSIZ \in Nat /\ TASKBUFSIZ > 0
  BY Sizes DEF Task, Buffer
<1> DEFINE h == headpos(t)
           l == tailpos(t)
<1>2. /\ h \in 0..(TASKBUFSIZ - 1) /\ l \in 0..(TASKBUFSIZ - 1)
      /\ t.head = t.tail <=> t.in = Len(t.out)
      /\ t.in - Len(t.out) = l - h \/ t.in - Len(t.out) = l - h + TASKBUFSIZ
  BY Positions DEF Slots
<1>3. /\ Room(t) = IF t.head = t.tail \/ h < l THEN TASKBUFSIZ - l ELSE h - l
      /\ Ready(t) = IF h < l THEN l - h ELSE TASKBUFSIZ - h
  BY DEF Room, Ready
<1>4. t.in <= Len(t.out) + TASKBUFSIZ
  BY DEF Buffer
<1> HIDE DEF h, l
<1> DEFINE Goal == /\ Room(t) \in Nat /\ l + Room(t) <= TASKBUFSIZ
                   /\ t.in + Room(t) <= Len(t.out) + TASKBUFSIZ
                   /\ t.head = t.tail => Room(t) > 0
                   /\ t.head # t.tail => /\ Ready(t) \in Nat /\ h + Ready(t) <= TASKBUFSIZ
                                         /\ Len(t.out) + Ready(t) <= t.in
<1>5. t.head = t.tail => Goal
  <2> SUFFICES ASSUME t.head = t.tail PROVE Goal
    OBVIOUS
  <2>1. t.in = Len(t.out) /\ Room(t) = TASKBUFSIZ - l
    BY <1>2, <1>3
  <2> QED
    BY <1>1, <1>2, <2>1
<1>6. t.head # t.tail /\ h < l => Goal
  BY <1>1, <1>2, <1>3, <1>4
<1>7. t.head # t.tail /\ ~(h < l) => Goal
  BY <1>1, <1>2, <1>3, <1>4
<1>8. Goal
  BY <1>5, <1>6, <1>7
<1> QED
  BY <1>8 DEF h, l

(* What a task keeps while bytes move through its buffer. *)
SameTask(u, t) == /\ u.pc = t.pc /\ u.peers = t.peers /\ u.name = t.name /\ u.i = t.i
                  /\ u.stream = t.stream /\ u.freed = t.freed

(* Bytes that arrive go to free slots, in order. *)
LEMMA GotSpec ==
  ASSUME NEW t \in Task, Buffer(t), NEW a \in Nat, a <= Room(t), a <= t.stream.len - t.in
  PROVE  /\ Got(t, a) \in Task /\ Buffer(Got(t, a))
         /\ SameTask(Got(t, a), t) /\ Got(t, a).out = t.out
<1> DEFINE u == Got(t, a)
           x == Len(t.out)
           y == t.in
           l == tailpos(t)
<1>1. /\ x \in Nat /\ y \in Nat /\ t.stream.len \in Nat /\ a <= t.stream.len - y
      /\ x <= y /\ y <= x + TASKBUFSIZ /\ t.buf \in [Slots -> Nat]
  BY DEF Task, Buffer
<1>2. l = y % TASKBUFSIZ /\ l \in 0..(TASKBUFSIZ - 1)
  BY Positions DEF Slots
<1>3. l + a <= TASKBUFSIZ /\ y + a <= x + TASKBUFSIZ
  <2>1. Room(t) \in Nat /\ l + Room(t) <= TASKBUFSIZ /\ y + Room(t) <= x + TASKBUFSIZ
    BY Spans
  <2> HIDE DEF x, y, l
  <2> QED
    BY <1>1, <1>2, <2>1, Sizes
<1>4. /\ u.tail = (t.tail + a) % WORD /\ u.in = y + a /\ u.head = t.head /\ u.out = t.out
      /\ u.buf = [k \in Slots |-> IF k \in l..(l + a - 1) THEN y + 1 + k - l ELSE t.buf[k]]
      /\ SameTask(u, t)
  BY <1>1 DEF Got, Task, SameTask
<1>5. t.tail = y % WORD /\ \A n \in Nat : x <= n /\ n < y => t.buf[n % TASKBUFSIZ] = n + 1
  BY <1>1 DEF Buffer
<1> HIDE DEF u, x, y, l
<1>6. u.tail = (y + a) % WORD
  <2>1. ((y % WORD) + a) % WORD = (y + a) % WORD
    BY <1>1, Sizes, ModThenAdd
  <2> QED
    BY <1>4, <1>5, <2>1
<1>7. ASSUME NEW n \in Nat, x <= n, n < y + a
      PROVE  u.buf[n % TASKBUFSIZ] = n + 1
  <2> DEFINE m == n % TASKBUFSIZ
  <2>1. m \in 0..(TASKBUFSIZ - 1)
    BY Sizes
  <2>2. CASE n >= y
    <3> DEFINE e == n - y
    <3>1. e \in Nat /\ y + e = n /\ e < a
      BY <1>1, <1>7, <2>2
    <3> HIDE DEF e
    <3>2. (y % TASKBUFSIZ) + e < TASKBUFSIZ
      BY <1>2, <1>3, <3>1, Sizes
    <3>3. m = (y % TASKBUFSIZ) + e
      BY <1>1, <3>1, <3>2, Sizes, ModAdd
    <3> HIDE DEF m
    <3>4. m \in l..(l + a - 1) /\ y + 1 + m - l = n + 1
      BY <1>1, <1>2, <3>1, <3>3, Sizes
    <3>5. u.buf[m] = n + 1
      BY <1>4, <2>1, <3>4 DEF Slots
    <3> QED
      BY <3>5 DEF m
  <2>3. CASE n < y
    <3>1. t.buf[m] = n + 1
      BY <1>5, <1>7, <2>3
    <3>2. ASSUME m \in l..(l + a - 1) PROVE FALSE
      <4> DEFINE j == m - l
      <4> HIDE DEF m
      <4>1. j \in Nat /\ j < a /\ (y % TASKBUFSIZ) + j < TASKBUFSIZ /\ m = (y % TASKBUFSIZ) + j
        BY <1>2, <1>3, <2>1, <3>2, Sizes
      <4> HIDE DEF j
      <4>2. (y + j) % TASKBUFSIZ = (y % TASKBUFSIZ) + j
        BY <1>1, <4>1, Sizes, ModAdd
      <4>3. (y + j) % TASKBUFSIZ = m
        BY <4>1, <4>2
      <4>4. y + j \in Nat /\ n <= y + j /\ y + j <= n + TASKBUFSIZ
        BY <1>1, <1>3, <1>7, <2>3, <4>1, Sizes
      <4>5. \/ (y + j) - n = ((y + j) % TASKBUFSIZ) - (n % TASKBUFSIZ)
            \/ (y + j) - n = ((y + j) % TASKBUFSIZ) - (n % TASKBUFSIZ) + TASKBUFSIZ
        BY <4>4, Sizes, ModDiff
      <4>6. (y + j) - n = m - m \/ (y + j) - n = m - m + TASKBUFSIZ
        BY <4>3, <4>5 DEF m
      <4> QED
        BY <1>1, <1>3, <1>7, <2>1, <2>3, <4>1, <4>6, Sizes
    <3> HIDE DEF m
    <3>3. u.buf[m] = n + 1
      BY <1>4, <2>1, <3>1, <3>2 DEF Slots
    <3> QED
      BY <3>3 DEF m
  <2> QED
    BY <1>1, <2>2, <2>3
<1>8. u.in <= u.stream.len /\ x <= u.in /\ u.in <= x + TASKBUFSIZ
  BY <1>1, <1>3, <1>4, Sizes DEF SameTask
<1>9. Buffer(u)
  <2>1. u.head = Len(u.out) % WORD /\ \A k \in 1..Len(u.out) : u.out[k] = k
    BY <1>4 DEF Buffer
  <2>2. ASSUME NEW n \in x..(u.in - 1) PROVE u.buf[n % TASKBUFSIZ] = n + 1
    <3>1. n \in Nat /\ x <= n /\ n < y + a
      BY <1>1, <1>4
    <3> QED
      BY <1>7, <3>1
  <2> QED
    BY <1>4, <1>6, <1>8, <2>1, <2>2 DEF Buffer, x, y
<1>10. u \in Task
  <2>1. u.tail \in Nat /\ u.in \in Nat
    BY <1>1, <1>4, <1>6, Sizes
  <2>2. u.buf \in [Slots -> Nat]
    <3>1. ASSUME NEW k \in Slots PROVE u.buf[k] \in Nat
      BY <1>1, <1>2, <1>4, Sizes DEF Slots
    <3> QED
      BY <1>4, <3>1
  <2> QED
    BY <2>1, <2>2 DEF Got, Task, u
<1> QED
  BY <1>4, <1>9, <1>10 DEF u

(* Bytes that leave are the next ones of the stream. *)
LEMMA PutSpec ==
  ASSUME NEW t \in Task, Buffer(t), t.head # t.tail, NEW a \in Nat, a <= Ready(t)
  PROVE  Put(t, a) \in Task /\ Buffer(Put(t, a)) /\ SameTask(Put(t, a), t)
<1> DEFINE u == Put(t, a)
           x == Len(t.out)
           h == headpos(t)
           s == [k \in 1..a |-> t.buf[h + k - 1]]
<1>1. /\ x \in Nat /\ t.in \in Nat /\ t.stream.len \in Nat /\ t.out \in Seq(Nat)
      /\ x <= t.in /\ t.in <= x + TASKBUFSIZ /\ t.in <= t.stream.len /\ t.buf \in [Slots -> Nat]
  BY DEF Task, Buffer
<1>2. h = x % TASKBUFSIZ /\ h \in 0..(TASKBUFSIZ - 1)
  BY Positions DEF Slots
<1>3. h + a <= TASKBUFSIZ /\ x + a <= t.in
  <2>1. Ready(t) \in Nat /\ h + Ready(t) <= TASKBUFSIZ /\ x + Ready(t) <= t.in
    BY Spans
  <2> HIDE DEF x, h
  <2> QED
    BY <1>1, <1>2, <2>1, Sizes
<1>4. /\ u.head = (t.head + a) % WORD /\ u.out = t.out \o s
      /\ u.tail = t.tail /\ u.in = t.in /\ u.buf = t.buf /\ SameTask(u, t)
  BY DEF Put, Task, SameTask
<1>5. /\ t.head = x % WORD /\ t.tail = t.in % WORD /\ \A k \in 1..x : t.out[k] = k
      /\ \A n \in Nat : x <= n /\ n < t.in => t.buf[n % TASKBUFSIZ] = n + 1
  BY <1>1 DEF Buffer
<1> HIDE DEF x, h
<1>6. ASSUME NEW k \in 1..a PROVE s[k] = x + k
  <2> DEFINE e == k - 1
  <2>1. e \in Nat /\ h + k - 1 = h + e /\ x + e \in Nat /\ x + e < t.in /\ x + e + 1 = x + k
    BY <1>1, <1>2, <1>3
  <2>2. (x % TASKBUFSIZ) + e < TASKBUFSIZ
    BY <1>2, <1>3, Sizes
  <2> HIDE DEF e
  <2>3. (x + e) % TASKBUFSIZ = (x % TASKBUFSIZ) + e
    <3>1. TASKBUFSIZ \in Nat /\ TASKBUFSIZ > 0 /\ x \in Nat /\ e \in Nat
      BY <1>1, <2>1, Sizes
    <3> QED
      BY <2>2, <3>1, ModAdd, Zenon
  <2>4. t.buf[(x + e) % TASKBUFSIZ] = x + e + 1
    BY <1>1, <1>5, <2>1
  <2> QED
    BY <1>2, <2>1, <2>3, <2>4
<1>7. s \in Seq(Nat) /\ Len(s) = a
  <2>1. ASSUME NEW k \in 1..a PROVE s[k] \in Nat
    <3> HIDE DEF s
    <3> QED
      BY <1>1, <1>6
  <2>2. s \in [1..a -> Nat]
    BY <2>1
  <2> HIDE DEF s
  <2> QED
    BY <2>2
<1> HIDE DEF s
<1>8. u.out \in Seq(Nat) /\ Len(u.out) = x + a
  <2>1. t.out \o s \in Seq(Nat) /\ Len(t.out \o s) = Len(t.out) + Len(s)
    BY <1>1, <1>7, ConcatProperties
  <2> QED
    BY <1>4, <1>7, <2>1 DEF x
<1>9. ASSUME NEW k \in 1..Len(u.out) PROVE u.out[k] = k
  <2>1. u.out[k] = IF k <= x THEN t.out[k] ELSE s[k - x]
    BY <1>1, <1>4, <1>7, <1>8, ConcatProperties DEF x
  <2>2. CASE k <= x
    BY <1>5, <1>8, <2>1, <2>2
  <2>3. CASE ~(k <= x)
    <3>1. k - x \in 1..a
      BY <1>1, <1>8, <2>3
    <3>2. s[k - x] = x + (k - x)
      BY <1>6, <3>1
    <3>3. x + (k - x) = k
      BY <1>1
    <3> QED
      BY <2>1, <2>3, <3>2, <3>3
  <2> QED
    BY <2>2, <2>3
<1>10. u.head = (x + a) % WORD
  <2>1. ((x % WORD) + a) % WORD = (x + a) % WORD
    BY <1>1, Sizes, ModThenAdd
  <2> QED
    BY <1>4, <1>5, <2>1
<1>11. Buffer(u)
  <2> HIDE DEF u
  <2>1. u.stream = t.stream
    BY <1>4 DEF SameTask
  <2>2. Len(u.out) <= u.in /\ u.in <= Len(u.out) + TASKBUFSIZ
    BY <1>1, <1>3, <1>4, <1>8, Sizes
  <2>3. ASSUME NEW n \in Len(u.out)..(u.in - 1) PROVE u.buf[n % TASKBUFSIZ] = n + 1
    <3>1. n \in Nat /\ x <= n /\ n < t.in
      BY <1>1, <1>4, <1>8
    <3> QED
      BY <1>4, <1>5, <3>1
  <2> QED
    BY <1>1, <1>4, <1>5, <1>8, <1>9, <1>10, <2>1, <2>2, <2>3 DEF Buffer
<1>12. u \in Task
  <2>1. u.head \in Nat
    BY <1>1, <1>10, Sizes
  <2> QED
    BY <1>8, <2>1 DEF Put, Task
<1> QED
  BY <1>4, <1>11, <1>12

(* A read keeps the buffer in order, and END with an empty buffer is the end of
   the stream, whose bytes have all been written. *)
LEMMA ReadSpec ==
  ASSUME NEW t \in Task, Buffer(t), NEW r \in read_to_taskbuf(t)
  PROVE  /\ r.t \in Task /\ Buffer(r.t) /\ SameTask(r.t, t) /\ r.t.out = t.out
         /\ EndOfFile(r) => Len(t.out) = t.stream.len /\ t.stream.end = "eof"
<1> DEFINE left == t.stream.len - t.in
<1>1. \/ r.t = t /\ r.ret # "END"
      \/ r.t = t /\ r.ret = "END" /\ (Room(t) = 0 \/ (left = 0 /\ t.stream.end = "eof"))
      \/ r.ret = "OK" /\ \E a \in Amounts(Least(Room(t), left)) : r.t = Got(t, a)
  BY DEF read_to_taskbuf, Outcome
<1>2. left \in Nat /\ Room(t) \in Nat /\ Len(t.out) \in Nat /\ t.in \in Nat /\ t.stream.len \in Nat
  <2>1. Len(t.out) \in Nat /\ t.in \in Nat /\ t.stream.len \in Nat /\ t.in <= t.stream.len
    BY DEF Task, Buffer
  <2> QED
    BY <2>1, Spans
<1>3. SameTask(t, t)
  BY DEF SameTask
<1>4. CASE r.t = t /\ r.ret # "END"
  BY <1>3, <1>4 DEF EndOfFile
<1>5. CASE r.t = t /\ r.ret = "END" /\ (Room(t) = 0 \/ (left = 0 /\ t.stream.end = "eof"))
  <2>1. t.head = t.tail => Room(t) > 0 /\ t.in = Len(t.out)
    BY Spans, Positions
  <2>2. EndOfFile(r) => left = 0 /\ t.stream.end = "eof" /\ t.in = Len(t.out)
    BY <1>5, <2>1, <1>2 DEF EndOfFile
  <2> QED
    BY <1>2, <1>3, <1>5, <2>2
<1>6. CASE r.ret = "OK" /\ \E a \in Amounts(Least(Room(t), left)) : r.t = Got(t, a)
  <2>1. PICK a \in Amounts(Least(Room(t), left)) : r.t = Got(t, a)
    BY <1>6
  <2>2. Least(Room(t), left) \in Nat /\ Least(Room(t), left) <= Room(t) /\ Least(Room(t), left) <= left
    BY <1>2 DEF Least
  <2>3. a \in Nat /\ a <= Room(t) /\ a <= left
    BY <1>2, <2>2 DEF Amounts
  <2> QED
    BY <1>6, <2>1, <2>3, GotSpec DEF EndOfFile
<1> QED
  BY <1>1, <1>4, <1>5, <1>6

(* A write keeps the buffer in order. *)
LEMMA WriteSpec ==
  ASSUME NEW t \in Task, Buffer(t), NEW w \in write_from_taskbuf(t)
  PROVE  w.t \in Task /\ Buffer(w.t) /\ SameTask(w.t, t)
<1>1. \/ w.t = t
      \/ t.head # t.tail /\ \E a \in Amounts(Ready(t)) : w.t = Put(t, a)
  BY DEF write_from_taskbuf, Outcome
<1>2. CASE w.t = t
  BY <1>2 DEF SameTask
<1>3. CASE t.head # t.tail /\ \E a \in Amounts(Ready(t)) : w.t = Put(t, a)
  <2>1. PICK a \in Amounts(Ready(t)) : w.t = Put(t, a)
    BY <1>3
  <2>2. a \in Nat /\ a <= Ready(t)
    BY <1>3, Spans DEF Amounts
  <2> QED
    BY <1>3, <2>1, <2>2, PutSpec
<1> QED
  BY <1>1, <1>2, <1>3

-----------------------------------------------------------------------------
(* The inductive invariant *)

(* A download has a name exactly while it has a disk file or could not open one,
   and waits for the MD5 answer only with the whole stream written. *)
GoodDown(t) ==
  /\ t \in Task /\ Buffer(t) /\ t.pc \in DownPC
  /\ t.pc \in {"none", "start", "open"} => t.in = 0 /\ t.out = <<>>
  /\ t.name # NULL <=> t.pc \in {"get", "md5", "try_again"}
  /\ t.pc = "md5" => Len(t.out) = t.stream.len /\ t.stream.end = "eof"

GoodUp(t) ==
  /\ t \in Task /\ Buffer(t) /\ t.pc \in UpPC
  /\ t.pc \in {"none", "start"} => t.in = 0 /\ t.out = <<>>
  /\ t.pc = "complete" => Len(t.out) = t.stream.len

TasksInv ==
  /\ down \in [DOMAIN Args -> Task] /\ \A i \in DOMAIN Args : GoodDown(down[i])
  /\ up \in [1..Conns -> Task] /\ \A j \in 1..Conns : GoodUp(up[j])

(* A download has a file open. *)
Held(t) == t.pc \in {"get", "md5"}

DiskFiles == [by : Nat, data : Seq(Nat)]
Untouched(n, x) == \E f \in DOMAIN Local : n = <<f, 0>> /\ x = File(0, [k \in 1..Local[f] |-> k])

(* A file was there before or belongs to the download that has it open, and a
   file is lost only when an open of its name has failed; the download whose
   open failed has not made the name it will remove. *)
DiskInv ==
  /\ disk \in [DOMAIN disk -> DiskFiles] /\ DOMAIN disk \subseteq FileNames
  /\ \A n \in DOMAIN disk :
       \/ Untouched(n, disk[n])
       \/ \E i \in DOMAIN Args : Held(down[i]) /\ down[i].name = n /\ disk[n] = File(i, down[i].out)
  /\ \A i \in DOMAIN Args : Held(down[i]) =>
       down[i].name \in failed \/ (down[i].name \in DOMAIN disk /\ disk[down[i].name].by = i)
  /\ \A i \in DOMAIN Args : down[i].pc = "try_again" => down[i].name \in failed
  /\ \A f \in DOMAIN Local :
       <<f, 0>> \in failed \/ (<<f, 0>> \in DOMAIN disk /\ disk[<<f, 0>>].by = 0)
  /\ registered \subseteq LocalNames
  /\ main.pc = "register" => DOMAIN disk = LocalNames

MainRec == [pc : {"register", "download", "wait", "upload", "reap", "listen", "dead"},
            arg : Nat, conn : Nat, num_download_proc : Nat, num_upload_proc : Nat]

(* Arguments and connections that were not dealt with have no child, and the
   children of both kinds are counted. *)
MainInv ==
  /\ main \in MainRec
  /\ main.arg >= 1 /\ (main.pc = "register" => main.arg = 1)
  /\ main.conn <= Conns /\ (main.pc \in {"wait", "upload"} => main.conn >= 1)
  /\ \A i \in DOMAIN Args : i >= main.arg => down[i].pc = "none"
  /\ \A j \in 1..Conns : j > main.conn \/ (j = main.conn /\ main.pc \in {"wait", "upload"})
                           => up[j].pc = "none"
  /\ main.num_download_proc = Cardinality(Children(down)) /\ main.num_download_proc <= MAXPROC
  /\ main.num_upload_proc = Cardinality(Children(up)) /\ main.num_upload_proc <= MAXPROC

(* The downloads are over when the first upload begins. *)
OrderInv ==
  /\ Children(up) # {} => Children(down) = {}
  /\ main.pc \in {"register", "download"} => Children(up) = {}
  /\ main.pc \in {"upload", "reap", "listen"} => Children(down) = {}

IInv == TasksInv /\ DiskInv /\ MainInv /\ OrderInv

(* The task of a new child, and of one that has exited. *)
ZeroBuf == [k \in 0..(TASKBUFSIZ - 1) |-> 0]
Blank(pc, peers, b) ==
  [pc |-> pc, peers |-> peers, name |-> NULL, i |-> 0, stream |-> NoStream,
   head |-> 0, tail |-> 0, buf |-> ZeroBuf, in |-> 0, out |-> <<>>, freed |-> b]

(* It has its shape, no file, and nothing in its buffer. *)
LEMMA BlankGood ==
  ASSUME NEW pc \in {"none", "start", "done"}, NEW peers \in Seq(Peers), NEW b \in BOOLEAN
  PROVE  /\ GoodDown(Blank(pc, peers, b)) /\ GoodUp(Blank(pc, peers, b))
         /\ Blank(pc, peers, b).pc = pc /\ Blank(pc, peers, b).name = NULL
<1> DEFINE t == Blank(pc, peers, b)
<1>1. t \in Task
  <2>1. ZeroBuf \in [Slots -> Nat] /\ NoStream \in [len : Nat, end : Ends]
    BY DEF ZeroBuf, Slots, NoStream, Ends
  <2>2. pc \in DownPC \cup UpPC /\ <<>> \in Seq(Nat)
    BY DEF DownPC, UpPC
  <2> QED
    BY <2>1, <2>2 DEF Blank, Task
<1>2. /\ t.pc = pc /\ t.name = NULL /\ t.in = 0 /\ t.out = <<>> /\ t.head = 0 /\ t.tail = 0
      /\ t.stream.len = 0
  BY DEF Blank, NoStream
<1> HIDE DEF t
<1>3. Len(t.out) = 0 /\ 0 % WORD = 0
  BY <1>2, Sizes
<1>4. Buffer(t)
  BY <1>2, <1>3, Sizes DEF Buffer
<1>5. GoodDown(t) /\ GoodUp(t)
  BY <1>1, <1>2, <1>4 DEF GoodDown, GoodUp, DownPC, UpPC
<1> QED
  BY <1>2, <1>5 DEF t

(* The lists of the tracker are sequences of peers. *)
LEMMA PeersType == PeerLists \subseteq Seq(Peers)
<1> SUFFICES ASSUME NEW s \in PeerLists PROVE s \in Seq(Peers)
  OBVIOUS
<1>1. s \in Seq(Range(s)) /\ Range(s) \subseteq Peers
  BY InputAssumption DEF Peers
<1> QED
  BY <1>1

(* NULL names no file. *)
LEMMA NullNoFile == NULL \notin FileNames /\ LocalNames \subseteq FileNames
  BY DEF NULL, FileNames, LocalNames

(* task_pop_peer leaves a task without file and buffer. *)
LEMMA PopGood ==
  ASSUME NEW t \in Task, NEW pc \in {"start", "done"}
  PROVE  /\ GoodDown([task_pop_peer(t) EXCEPT !.pc = pc])
         /\ [task_pop_peer(t) EXCEPT !.pc = pc].name = NULL
         /\ [task_pop_peer(t) EXCEPT !.pc = pc].pc = pc
<1> DEFINE rest == IF t.peers = <<>> THEN <<>> ELSE Tail(t.peers)
           u == [task_pop_peer(t) EXCEPT !.pc = pc]
<1>1. rest \in Seq(Peers)
  BY DEF Task
<1>2. task_pop_peer(t) = [EmptyTask EXCEPT !.pc = t.pc, !.freed = TRUE, !.peers = rest]
  BY DEF task_pop_peer
<1> HIDE DEF rest
<1>3. task_pop_peer(t) = Blank(t.pc, rest, TRUE)
  BY <1>2 DEF EmptyTask, Blank, ZeroBuf
<1>4. u = Blank(pc, rest, TRUE)
  <2>1. ASSUME NEW q, NEW b PROVE [Blank(q, rest, b) EXCEPT !.pc = pc] = Blank(pc, rest, b)
    BY DEF Blank
  <2> QED
    BY <1>3, <2>1
<1> HIDE DEF u
<1>5. GoodDown(u) /\ u.pc = pc /\ u.name = NULL
  BY <1>1, <1>4, BlankGood
<1> QED
  BY <1>5 DEF u

(* task_new makes such a task. *)
LEMMA EmptyIsBlank == EmptyTask = Blank("none", <<>>, FALSE)
  BY DEF EmptyTask, Blank, ZeroBuf

(* A child gets its task with a list of peers. *)
LEMMA BlankWith ==
  ASSUME NEW pc, NEW peers, NEW b
  PROVE  [Blank("none", <<>>, b) EXCEPT !.pc = pc, !.peers = peers] = Blank(pc, peers, b)
<1>1. [Blank("none", <<>>, b) EXCEPT !.pc = pc] = Blank(pc, <<>>, b)
  BY DEF Blank
<1>2. [Blank(pc, <<>>, b) EXCEPT !.peers = peers] = Blank(pc, peers, b)
  BY DEF Blank
<1>3. ASSUME NEW t
      PROVE  [t EXCEPT !.pc = pc, !.peers = peers] = [[t EXCEPT !.pc = pc] EXCEPT !.peers = peers]
  OBVIOUS
<1> QED
  BY <1>1, <1>2, <1>3

(* The same for a task that did not get a list of peers. *)
LEMMA FreshGood ==
  ASSUME NEW pc \in {"none", "start", "done"}
  PROVE  /\ GoodDown([EmptyTask EXCEPT !.pc = pc]) /\ GoodUp([EmptyTask EXCEPT !.pc = pc])
         /\ [EmptyTask EXCEPT !.pc = pc].pc = pc /\ [EmptyTask EXCEPT !.pc = pc].name = NULL
<1> DEFINE b == FALSE
<1>1. EmptyTask = Blank("none", <<>>, b)
  BY EmptyIsBlank
<1>2. b \in BOOLEAN /\ <<>> \in Seq(Peers)
  OBVIOUS
<1> HIDE DEF b
<1>3. [Blank("none", <<>>, b) EXCEPT !.pc = pc] = Blank(pc, <<>>, b)
  BY DEF Blank
<1> DEFINE u == [EmptyTask EXCEPT !.pc = pc]
<1>4. u = Blank(pc, <<>>, b)
  BY <1>1, <1>3
<1> HIDE DEF u
<1>5. GoodDown(u) /\ GoodUp(u) /\ u.pc = pc /\ u.name = NULL
  BY <1>2, <1>4, BlankGood
<1> QED
  BY <1>5 DEF u

(* The order of the bytes depends on the buffer and the stream alone. *)
LEMMA BufferSame ==
  ASSUME NEW t, NEW u, Buffer(t), u.head = t.head, u.tail = t.tail, u.in = t.in,
         u.out = t.out, u.buf = t.buf, u.stream = t.stream
  PROVE  Buffer(u)
  BY DEF Buffer

(* The program counter of a task says nothing about its buffer. *)
LEMMA SetPc ==
  ASSUME NEW t \in Task, Buffer(t), NEW pc \in DownPC \cup UpPC
  PROVE  LET u == [t EXCEPT !.pc = pc]
         IN /\ u \in Task /\ Buffer(u) /\ u.pc = pc /\ u.name = t.name
            /\ u.out = t.out /\ u.in = t.in /\ u.stream = t.stream
<1> DEFINE u == [t EXCEPT !.pc = pc]
<1>1. /\ u \in Task /\ u.pc = pc /\ u.name = t.name /\ u.head = t.head /\ u.tail = t.tail
      /\ u.in = t.in /\ u.out = t.out /\ u.buf = t.buf /\ u.stream = t.stream
  BY DEF Task
<1> HIDE DEF u
<1>2. Buffer(u)
  BY <1>1, BufferSame
<1>3. /\ u \in Task /\ Buffer(u) /\ u.pc = pc /\ u.name = t.name
      /\ u.out = t.out /\ u.in = t.in /\ u.stream = t.stream
  BY <1>1, <1>2
<1> QED
  BY <1>3 DEF u

-----------------------------------------------------------------------------
(* What a step of a download does: it changes its own task and file.  It removes
   no file of another, unless an open of that name has failed, and no file of
   its own stays without the task. *)
DownChange(i, u) ==
  /\ down' = [down EXCEPT ![i] = u] /\ GoodDown(u) /\ u.pc \notin {"none", "reaped"}
  /\ failed \subseteq failed' /\ disk' \in [DOMAIN disk' -> DiskFiles]
  /\ \A m \in DOMAIN disk' :
       \/ m \in DOMAIN disk /\ disk'[m] = disk[m] /\ disk[m].by # i
       \/ Held(u) /\ m = u.name /\ disk'[m] = File(i, u.out)
  /\ \A m \in DOMAIN disk :
       disk[m].by # i => m \in failed' \/ (m \in DOMAIN disk' /\ disk'[m].by = disk[m].by)
  /\ Held(u) => u.name \in failed' \/ (u.name \in DOMAIN disk' /\ disk'[u.name].by = i)
  /\ u.pc = "try_again" => u.name \in failed'

(* A file that a download has open has the name in its task. *)
LEMMA MineIsNamed ==
  ASSUME DiskInv, NEW i \in DOMAIN Args, NEW m \in DOMAIN disk, disk[m].by = i
  PROVE  Held(down[i]) /\ m = down[i].name /\ disk[m] = File(i, down[i].out)
<1>1. i \in Nat \ {0}
  BY InputAssumption
<1>2. ~Untouched(m, disk[m])
  BY <1>1 DEF Untouched, File
<1>3. PICK k \in DOMAIN Args : Held(down[k]) /\ down[k].name = m /\ disk[m] = File(k, down[k].out)
  BY <1>2 DEF DiskInv
<1> QED
  BY <1>3 DEF File

(* try_again removes what has the name in the task: its own file, or one whose
   name could not be opened. *)
LEMMA TryAgainSpec ==
  ASSUME TasksInv, DiskInv, NEW i \in DOMAIN Args, NEW t \in Task, try_again(i, t), UNCHANGED failed,
         t.name = down[i].name
  PROVE  \E u : DownChange(i, u)
<1>1. PICK pc \in {"start", "done"} : down' = [down EXCEPT ![i] = [task_pop_peer(t) EXCEPT !.pc = pc]]
  BY DEF try_again
<1> DEFINE u == [task_pop_peer(t) EXCEPT !.pc = pc]
<1>2. GoodDown(u) /\ u.name = NULL /\ u.pc = pc
  BY PopGood
<1>3. disk' = [n \in DOMAIN disk \ {t.name} |-> disk[n]] /\ disk \in [DOMAIN disk -> DiskFiles]
  BY DEF try_again, DiskInv
<1> HIDE DEF u
<1>4. ASSUME NEW m \in DOMAIN disk' PROVE m \in DOMAIN disk /\ disk'[m] = disk[m] /\ disk[m].by # i
  BY <1>3, MineIsNamed
<1>5. ASSUME NEW m \in DOMAIN disk, disk[m].by # i
      PROVE  m \in failed' \/ (m \in DOMAIN disk' /\ disk'[m].by = disk[m].by)
  <2>1. CASE m # t.name
    BY <1>3, <2>1
  <2>2. CASE m = t.name
    <3>1. down[i].name # NULL /\ GoodDown(down[i])
      BY <2>2, NullNoFile DEF DiskInv, TasksInv
    <3>2. Held(down[i]) \/ down[i].pc = "try_again"
      BY <3>1 DEF GoodDown, Held
    <3> QED
      BY <1>5, <2>2, <3>2 DEF DiskInv
  <2> QED
    BY <2>1, <2>2
<1>6. DownChange(i, u)
  BY <1>1, <1>2, <1>3, <1>4, <1>5 DEF DownChange, Held, u
<1> QED
  BY <1>6

(* A step that leaves the directory alone and the task with the same file. *)
LEMMA SameFile ==
  ASSUME DiskInv, NEW i \in DOMAIN Args, NEW u, GoodDown(u), u.pc \notin {"none", "reaped"},
         Held(u) <=> Held(down[i]), Held(u) => u.name = down[i].name /\ u.out = down[i].out,
         u.pc = "try_again" => u.name \in failed',
         down' = [down EXCEPT ![i] = u], disk' = disk, failed \subseteq failed'
  PROVE  DownChange(i, u)
<1>1. ASSUME NEW m \in DOMAIN disk, disk[m].by = i
      PROVE  Held(u) /\ m = u.name /\ disk[m] = File(i, u.out)
  BY <1>1, MineIsNamed
<1>2. disk \in [DOMAIN disk -> DiskFiles]
  BY DEF DiskInv
<1>3. Held(u) => u.name \in failed' \/ (u.name \in DOMAIN disk /\ disk[u.name].by = i)
  BY DEF DiskInv
<1> QED
  BY <1>1, <1>2, <1>3 DEF DownChange

(* The connection to the first peer of the list. *)
LEMMA ConnectSpec ==
  ASSUME TasksInv, DiskInv, NEW i \in DOMAIN Args, connect(i), UNCHANGED failed
  PROVE  \E u : DownChange(i, u)
<1> DEFINE t == down[i]
<1>1. /\ t \in Task /\ Buffer(t) /\ t.in = 0 /\ t.out = <<>> /\ t.name = NULL /\ t.pc = "start"
      /\ ~Held(t)
  BY DEF TasksInv, GoodDown, connect, Held
<1>2. CASE task_free(i) /\ UNCHANGED disk
  BY <1>1, <1>2, FreshGood, SameFile DEF task_free, Held
<1>3. CASE try_again(i, t)
  BY <1>1, <1>3, TryAgainSpec
<1>4. CASE /\ UNCHANGED disk
           /\ \E s \in Streams : down' = [down EXCEPT ![i] = [t EXCEPT !.pc = "open", !.stream = s]]
  <2>1. PICK s \in Streams : down' = [down EXCEPT ![i] = [t EXCEPT !.pc = "open", !.stream = s]]
    BY <1>4
  <2>2. s \in [len : Nat, end : Ends] /\ s.len \in Nat
    BY InputAssumption DEF Ends
  <2> DEFINE u == [t EXCEPT !.pc = "open", !.stream = s]
  <2> HIDE DEF t
  <2>3. /\ u \in Task /\ u.pc = "open" /\ u.name = t.name /\ u.head = t.head /\ u.tail = t.tail
        /\ u.in = t.in /\ u.out = t.out /\ u.buf = t.buf /\ u.stream = s
    BY <1>1, <2>2 DEF Task, DownPC
  <2> HIDE DEF u
  <2>4. Buffer(u)
    BY <1>1, <2>2, <2>3 DEF Buffer
  <2>5. GoodDown(u)
    BY <1>1, <2>3, <2>4 DEF GoodDown, DownPC
  <2>6. ~Held(u) /\ u.pc \notin {"none", "reaped", "try_again"}
    BY <2>3 DEF Held
  <2> QED
    BY <1>1, <1>4, <2>1, <2>5, <2>6, SameFile DEF u, t
<1> QED
  BY <1>2, <1>3, <1>4 DEF connect

(* The name of the disk file: the next one is tried, it is made, or not. *)
LEMMA OpenSpec ==
  ASSUME TasksInv, DiskInv, NEW i \in DOMAIN Args, open_disk(i)
  PROVE  \E u : DownChange(i, u)
<1> DEFINE t == down[i]
           n == <<Args[i], t.i>>
<1>1. /\ t \in Task /\ Buffer(t) /\ t.in = 0 /\ t.out = <<>> /\ t.name = NULL /\ t.pc = "open"
      /\ ~Held(t)
  BY DEF TasksInv, GoodDown, open_disk, Held
<1>2. n \in FileNames /\ n # NULL
  BY <1>1, InputAssumption, NullNoFile DEF FileNames, Task, Range
<1> HIDE DEF n
<1>3. CASE task_free(i) /\ UNCHANGED <<disk, failed>>
  BY <1>1, <1>3, FreshGood, SameFile DEF task_free, Held
<1>4. CASE down' = [down EXCEPT ![i].i = t.i + 1] /\ UNCHANGED <<disk, failed>>
  <2> DEFINE u == [t EXCEPT !.i = t.i + 1]
  <2>1. down' = [down EXCEPT ![i] = u]
    BY <1>4
  <2> HIDE DEF t
  <2>2. /\ u \in Task /\ u.pc = "open" /\ u.name = t.name /\ u.head = t.head /\ u.tail = t.tail
        /\ u.in = t.in /\ u.out = t.out /\ u.buf = t.buf /\ u.stream = t.stream
    BY <1>1 DEF Task
  <2> HIDE DEF u
  <2>3. GoodDown(u)
    BY <1>1, <2>2, BufferSame DEF GoodDown, DownPC
  <2>4. ~Held(u) /\ u.pc \notin {"none", "reaped", "try_again"}
    BY <2>2 DEF Held
  <2> QED
    BY <1>1, <1>4, <2>1, <2>3, <2>4, SameFile DEF t
<1>5. CASE /\ n \notin DOMAIN disk
           /\ down' = [down EXCEPT ![i] = [t EXCEPT !.pc = "get", !.name = n]]
           /\ disk' = [m \in DOMAIN disk \cup {n} |-> IF m = n THEN File(i, <<>>) ELSE disk[m]]
           /\ UNCHANGED failed
  <2> DEFINE u == [t EXCEPT !.pc = "get", !.name = n]
  <2>1. down' = [down EXCEPT ![i] = u]
    BY <1>5
  <2> HIDE DEF t
  <2>2. /\ u \in Task /\ u.pc = "get" /\ u.name = n /\ u.head = t.head /\ u.tail = t.tail
        /\ u.in = t.in /\ u.out = t.out /\ u.buf = t.buf /\ u.stream = t.stream
    BY <1>1, <1>2 DEF Task, DownPC
  <2> HIDE DEF u
  <2>3. GoodDown(u)
    BY <1>1, <1>2, <2>2, BufferSame DEF GoodDown, DownPC
  <2>4. disk \in [DOMAIN disk -> DiskFiles]
    BY DEF DiskInv
  <2>5. File(i, <<>>) \in DiskFiles /\ File(i, <<>>).by = i
    BY InputAssumption DEF File, DiskFiles
  <2>6. disk' \in [DOMAIN disk \cup {n} -> DiskFiles]
    BY <1>5, <2>4, <2>5
  <2>7. \A m \in DOMAIN disk : disk[m].by # i
    BY <1>1, MineIsNamed DEF t
  <2>8. Held(u) /\ File(i, u.out) = File(i, <<>>)
    BY <1>1, <2>2 DEF Held
  <2>9. DownChange(i, u)
    BY <1>2, <1>5, <2>1, <2>2, <2>3, <2>5, <2>6, <2>7, <2>8 DEF DownChange
  <2> QED
    BY <2>9
<1>6. CASE /\ down' = [down EXCEPT ![i] = [t EXCEPT !.pc = "try_again", !.name = n]]
           /\ failed' = failed \cup {n} /\ UNCHANGED disk
  <2> DEFINE u == [t EXCEPT !.pc = "try_again", !.name = n]
  <2>1. down' = [down EXCEPT ![i] = u]
    BY <1>6
  <2> HIDE DEF t
  <2>2. /\ u \in Task /\ u.pc = "try_again" /\ u.name = n /\ u.head = t.head /\ u.tail = t.tail
        /\ u.in = t.in /\ u.out = t.out /\ u.buf = t.buf /\ u.stream = t.stream
    BY <1>1, <1>2 DEF Task, DownPC
  <2> HIDE DEF u
  <2>3. GoodDown(u)
    BY <1>1, <1>2, <2>2, BufferSame DEF GoodDown, DownPC
  <2>4. ~Held(u) /\ u.pc \notin {"none", "reaped"} /\ u.name \in failed'
    BY <1>6, <2>2 DEF Held
  <2> QED
    BY <1>1, <1>6, <2>1, <2>3, <2>4, SameFile DEF t
<1> QED
  BY <1>3, <1>4, <1>5, <1>6 DEF open_disk, n

(* The unlink after the open that failed. *)
LEMMA UnlinkSpec ==
  ASSUME TasksInv, DiskInv, NEW i \in DOMAIN Args, unlink_name(i), UNCHANGED failed
  PROVE  \E u : DownChange(i, u)
<1>1. down[i] \in Task /\ try_again(i, down[i])
  BY DEF TasksInv, unlink_name
<1> QED
  BY <1>1, TryAgainSpec

(* One turn of the loop that moves the stream to the disk file. *)
LEMMA TransferSpec ==
  ASSUME TasksInv, DiskInv, NEW i \in DOMAIN Args, transfer(i), UNCHANGED failed
  PROVE  \E u : DownChange(i, u)
<1> DEFINE t == down[i]
<1>1. t \in Task /\ Buffer(t) /\ t.name # NULL /\ t.pc = "get" /\ Held(t)
  BY DEF TasksInv, GoodDown, transfer, Held
<1>2. PICK r \in read_to_taskbuf(t) :
        \/ r.ret = "ERROR" /\ try_again(i, r.t)
        \/ EndOfFile(r) /\ r.t.out = <<>> /\ try_again(i, r.t)
        \/ /\ EndOfFile(r) /\ r.t.out # <<>>
           /\ down' = [down EXCEPT ![i] = [r.t EXCEPT !.pc = "md5"]]
           /\ UNCHANGED disk
        \/ /\ r.ret # "ERROR" /\ ~EndOfFile(r)
           /\ \E w \in write_from_taskbuf(r.t) :
                IF w.ret = "ERROR" \/ Len(w.t.out) > MAXFILESIZ THEN try_again(i, w.t)
                ELSE /\ down' = [down EXCEPT ![i] = w.t]
                     /\ disk' = Store(i, w.t)
  BY DEF transfer
<1>3. /\ r.t \in Task /\ Buffer(r.t) /\ SameTask(r.t, t) /\ r.t.out = t.out
      /\ EndOfFile(r) => Len(t.out) = t.stream.len /\ t.stream.end = "eof"
  BY <1>1, ReadSpec
<1>4. r.t.name = t.name /\ r.t.stream = t.stream /\ r.t.pc = t.pc
  BY <1>3 DEF SameTask
<1>5. CASE try_again(i, r.t)
  BY <1>3, <1>4, <1>5, TryAgainSpec
<1>6. CASE /\ EndOfFile(r) /\ UNCHANGED disk
           /\ down' = [down EXCEPT ![i] = [r.t EXCEPT !.pc = "md5"]]
  <2> DEFINE v == r.t
             u == [v EXCEPT !.pc = "md5"]
  <2> HIDE DEF v
  <2>1. v \in Task /\ Buffer(v) /\ "md5" \in DownPC
    BY <1>3 DEF v, DownPC
  <2>2. /\ u \in Task /\ Buffer(u) /\ u.pc = "md5" /\ u.name = v.name
        /\ u.out = v.out /\ u.in = v.in /\ u.stream = v.stream
    BY <2>1, SetPc
  <2>3. down' = [down EXCEPT ![i] = u] /\ disk' = disk
    BY <1>6 DEF v
  <2> HIDE DEF u
  <2>4. GoodDown(u)
    BY <1>1, <1>3, <1>4, <1>6, <2>1, <2>2 DEF GoodDown, v
  <2>5. u.name = down[i].name /\ u.out = down[i].out /\ Held(u)
    BY <1>3, <1>4, <2>2 DEF v, Held
  <2> QED
    BY <1>1, <2>2, <2>3, <2>4, <2>5, SameFile
<1>7. CASE \E w \in write_from_taskbuf(r.t) :
             IF w.ret = "ERROR" \/ Len(w.t.out) > MAXFILESIZ THEN try_again(i, w.t)
             ELSE /\ down' = [down EXCEPT ![i] = w.t]
                  /\ disk' = Store(i, w.t)
  <2>1. PICK w \in write_from_taskbuf(r.t) :
          \/ try_again(i, w.t)
          \/ down' = [down EXCEPT ![i] = w.t] /\ disk' = Store(i, w.t)
    BY <1>7
  <2>2. w.t \in Task /\ Buffer(w.t) /\ SameTask(w.t, r.t)
    BY <1>3, WriteSpec
  <2>3. w.t.name = t.name /\ w.t.pc = "get"
    BY <1>1, <1>4, <2>2 DEF SameTask
  <2>4. CASE try_again(i, w.t)
    BY <2>2, <2>3, <2>4, TryAgainSpec
  <2>5. CASE down' = [down EXCEPT ![i] = w.t] /\ disk' = Store(i, w.t)
    <3> DEFINE u == w.t
    <3>1. u \in Task /\ Buffer(u) /\ u.name = t.name /\ u.pc = "get" /\ u.out \in Seq(Nat)
      BY <2>2, <2>3 DEF Task
    <3>2. down' = [down EXCEPT ![i] = u] /\ disk' = Store(i, u)
      BY <2>5
    <3> HIDE DEF u
    <3>3. GoodDown(u)
      BY <1>1, <3>1 DEF GoodDown, DownPC
    <3>4. disk \in [DOMAIN disk -> DiskFiles] /\ Held(u)
      BY <3>1 DEF DiskInv, Held
    <3>5. File(i, u.out) \in DiskFiles /\ File(i, u.out).by = i
      BY <3>1, InputAssumption DEF File, DiskFiles
    <3>6. ASSUME NEW m \in DOMAIN disk, disk[m].by = i PROVE m = u.name
      BY <1>1, <3>1, <3>6, MineIsNamed
    <3>7. /\ disk' \in [DOMAIN disk -> DiskFiles]
          /\ \A m \in DOMAIN disk : disk'[m] = IF disk[m].by = i THEN File(i, u.out) ELSE disk[m]
      BY <3>2, <3>4, <3>5, <3>6 DEF Store
    <3>8. u.name \in failed \/ (u.name \in DOMAIN disk /\ disk[u.name].by = i)
      BY <1>1, <3>1 DEF DiskInv
    <3>9. DownChange(i, u)
      BY <3>1, <3>2, <3>3, <3>4, <3>5, <3>6, <3>7, <3>8 DEF DownChange
    <3> QED
      BY <3>9
  <2> QED
    BY <2>1, <2>4, <2>5
<1> QED
  BY <1>2, <1>5, <1>6, <1>7

(* So for every step of a download. *)
LEMMA DownloadSpec ==
  ASSUME TasksInv, DiskInv, NEW i \in DOMAIN Args, task_download(i)
  PROVE  /\ \E u : DownChange(i, u)
         /\ down[i].pc \notin {"none", "reaped"} /\ UNCHANGED <<main, registered, up>>
<1>1. \E u : DownChange(i, u)
  BY ConnectSpec, OpenSpec, UnlinkSpec, TransferSpec DEF task_download
<1>2. down[i].pc \in {"start", "open", "try_again", "get"}
  BY DEF task_download, connect, open_disk, unlink_name, transfer
<1> QED
  BY <1>1, <1>2 DEF task_download

(* A step of an upload changes its own task only. *)
LEMMA UploadSpec ==
  ASSUME TasksInv, DiskInv, NEW j \in 1..Conns, task_upload(j)
  PROVE  /\ \E u : /\ up' = [up EXCEPT ![j] = u] /\ GoodUp(u)
                   /\ u.pc \notin {"none", "reaped"}
         /\ up[j].pc \notin {"none", "reaped"} /\ UNCHANGED <<main, registered, down, disk, failed>>
<1> DEFINE t == up[j]
           Goal == \E u : up' = [up EXCEPT ![j] = u] /\ GoodUp(u) /\ u.pc \notin {"none", "reaped"}
<1>1. t \in Task /\ Buffer(t) /\ GoodUp(t)
  BY DEF TasksInv, GoodUp
<1>2. ASSUME NEW v \in Task, Buffer(v), upload_exit(j, v) PROVE Goal
  <2> DEFINE u == [v EXCEPT !.pc = "done"]
  <2>1. "done" \in UpPC
    BY DEF UpPC
  <2>2. u \in Task /\ Buffer(u) /\ u.pc = "done"
    BY <1>2, <2>1, SetPc
  <2>3. up' = [up EXCEPT ![j] = u]
    BY <1>2 DEF upload_exit
  <2> HIDE DEF u
  <2>4. GoodUp(u)
    BY <2>1, <2>2 DEF GoodUp
  <2> QED
    BY <2>2, <2>3, <2>4
<1>3. ASSUME request(j) PROVE Goal
  <2>1. t.pc = "start" /\ t.in = 0 /\ t.out = <<>>
    BY <1>1, <1>3 DEF request, GoodUp
  <2>2. CASE upload_exit(j, t)
    BY <1>1, <1>2, <2>2
  <2>3. CASE \E n \in DOMAIN disk, end \in {"eof", "reset"} :
               up' = [up EXCEPT ![j] = [t EXCEPT !.pc = "put", !.name = n,
                                                 !.stream = [len |-> Len(disk[n].data), end |-> end]]]
    <3>1. PICK n \in DOMAIN disk, end \in {"eof", "reset"} :
               up' = [up EXCEPT ![j] = [t EXCEPT !.pc = "put", !.name = n,
                                                 !.stream = [len |-> Len(disk[n].data), end |-> end]]]
      BY <2>3
    <3> DEFINE s == [len |-> Len(disk[n].data), end |-> end]
               u == [t EXCEPT !.pc = "put", !.name = n, !.stream = s]
    <3>2. n \in FileNames /\ s \in [len : Nat, end : Ends] /\ s.len \in Nat
      BY DEF DiskInv, DiskFiles, Ends
    <3>3. up' = [up EXCEPT ![j] = u]
      BY <3>1
    <3> HIDE DEF s, t
    <3>4. /\ u \in Task /\ u.pc = "put" /\ u.head = t.head /\ u.tail = t.tail
          /\ u.in = t.in /\ u.out = t.out /\ u.buf = t.buf /\ u.stream = s
      BY <1>1, <3>2 DEF Task, UpPC
    <3> HIDE DEF u
    <3>5. Buffer(u)
      BY <1>1, <2>1, <3>2, <3>4 DEF Buffer
    <3>6. GoodUp(u)
      BY <3>4, <3>5 DEF GoodUp, UpPC
    <3> QED
      BY <3>3, <3>4, <3>6
  <2> QED
    BY <1>3, <2>2, <2>3 DEF request
<1>4. ASSUME serve(j) PROVE Goal
  <2>1. PICK w \in write_from_taskbuf(t) :
          \/ upload_exit(j, w.t)
          \/ \E r \in read_to_taskbuf(w.t) :
               \/ upload_exit(j, r.t)
               \/ EndOfFile(r) /\ up' = [up EXCEPT ![j] = [r.t EXCEPT !.pc = "complete"]]
               \/ up' = [up EXCEPT ![j] = r.t]
    BY <1>4 DEF serve
  <2>2. w.t \in Task /\ Buffer(w.t) /\ SameTask(w.t, t)
    BY <1>1, WriteSpec
  <2>3. CASE upload_exit(j, w.t)
    BY <1>2, <2>2, <2>3
  <2>4. CASE \E r \in read_to_taskbuf(w.t) :
               \/ upload_exit(j, r.t)
               \/ EndOfFile(r) /\ up' = [up EXCEPT ![j] = [r.t EXCEPT !.pc = "complete"]]
               \/ up' = [up EXCEPT ![j] = r.t]
    <3>1. PICK r \in read_to_taskbuf(w.t) :
            \/ upload_exit(j, r.t)
            \/ EndOfFile(r) /\ up' = [up EXCEPT ![j] = [r.t EXCEPT !.pc = "complete"]]
            \/ up' = [up EXCEPT ![j] = r.t]
      BY <2>4
    <3> DEFINE v == r.t
    <3>2. /\ v \in Task /\ Buffer(v) /\ SameTask(v, w.t) /\ v.out = w.t.out
          /\ EndOfFile(r) => Len(w.t.out) = w.t.stream.len
      BY <2>2, ReadSpec
    <3>3. v.pc = "put" /\ v.stream = w.t.stream
      BY <1>4, <2>2, <3>2 DEF SameTask, serve
    <3>4. CASE upload_exit(j, v)
      BY <1>2, <3>2, <3>4
    <3>5. CASE EndOfFile(r) /\ up' = [up EXCEPT ![j] = [v EXCEPT !.pc = "complete"]]
      <4> DEFINE u == [v EXCEPT !.pc = "complete"]
      <4>0. up' = [up EXCEPT ![j] = u]
        BY <3>5
      <4> HIDE DEF v
      <4>1. "complete" \in UpPC
        BY DEF UpPC
      <4>2. u \in Task /\ Buffer(u) /\ u.pc = "complete" /\ u.out = v.out /\ u.stream = v.stream
        BY <3>2, <4>1, SetPc
      <4> HIDE DEF u
      <4>3. GoodUp(u)
        BY <3>2, <3>3, <3>5, <4>1, <4>2 DEF GoodUp
      <4> QED
        BY <4>0, <4>2, <4>3
    <3>6. CASE up' = [up EXCEPT ![j] = v]
      <4>1. GoodUp(v)
        BY <3>2, <3>3 DEF GoodUp, UpPC
      <4> QED
        BY <3>3, <3>6, <4>1
    <3> QED
      BY <3>1, <3>4, <3>5, <3>6
  <2> QED
    BY <2>1, <2>3, <2>4
<1>5. t.pc \in {"start", "put"}
  BY DEF task_upload, request, serve
<1> QED
  BY <1>3, <1>4, <1>5 DEF task_upload

-----------------------------------------------------------------------------
(* Every step keeps the invariant *)

(* There are finitely many children of each kind. *)
LEMMA ChildrenFinite ==
  ASSUME TasksInv
  PROVE  /\ IsFiniteSet(Children(down)) /\ Cardinality(Children(down)) \in Nat
         /\ IsFiniteSet(Children(up)) /\ Cardinality(Children(up)) \in Nat
<1>1. Len(Args) \in Nat /\ DOMAIN Args = 1..Len(Args)
  BY InputAssumption
<1>2. Children(down) \subseteq 1..Len(Args) /\ Children(up) \subseteq 1..Conns
  BY <1>1 DEF Children, TasksInv
<1>3. IsFiniteSet(1..Len(Args)) /\ IsFiniteSet(1..Conns)
  BY <1>1, BoundAssumption, FS_Interval
<1> QED
  BY <1>2, <1>3, FS_Subset, FS_CardinalityType

(* A download. *)
LEMMA DownloadStep ==
  ASSUME IInv, NEW i \in DOMAIN Args, task_download(i)
  PROVE  IInv'
<1>0. TasksInv /\ DiskInv /\ MainInv /\ OrderInv
  BY DEF IInv
<1>1. PICK u : DownChange(i, u)
  BY <1>0, DownloadSpec
<1>2. down[i].pc \notin {"none", "reaped"} /\ UNCHANGED <<main, registered, up>>
  BY <1>0, DownloadSpec
<1>3. down' = [down EXCEPT ![i] = u] /\ GoodDown(u) /\ u.pc \notin {"none", "reaped"}
  BY <1>1 DEF DownChange
<1>4. down'[i] = u /\ \A k \in DOMAIN Args : k # i => down'[k] = down[k]
  BY <1>0, <1>3 DEF TasksInv
<1>5. TasksInv'
  <2>1. u \in Task
    BY <1>3 DEF GoodDown
  <2>2. down' \in [DOMAIN Args -> Task]
    BY <1>0, <1>3, <2>1 DEF TasksInv
  <2>3. \A k \in DOMAIN Args : GoodDown(down'[k])
    BY <1>0, <1>3, <1>4 DEF TasksInv
  <2> QED
    BY <1>0, <1>2, <2>2, <2>3 DEF TasksInv
<1>6. Children(down') = Children(down)
  BY <1>0, <1>2, <1>3 DEF Children, TasksInv
<1>7. i < main.arg
  BY <1>0, <1>2, InputAssumption DEF MainInv, MainRec
<1>8. MainInv'
  BY <1>0, <1>2, <1>4, <1>6, <1>7 DEF MainInv
<1>9. OrderInv'
  BY <1>0, <1>2, <1>6 DEF OrderInv
<1>10. DiskInv'
  <2>1. /\ failed \subseteq failed' /\ disk' \in [DOMAIN disk' -> DiskFiles]
        /\ \A m \in DOMAIN disk' :
             \/ m \in DOMAIN disk /\ disk'[m] = disk[m] /\ disk[m].by # i
             \/ Held(u) /\ m = u.name /\ disk'[m] = File(i, u.out)
        /\ \A m \in DOMAIN disk :
             disk[m].by # i => m \in failed' \/ (m \in DOMAIN disk' /\ disk'[m].by = disk[m].by)
        /\ Held(u) => u.name \in failed' \/ (u.name \in DOMAIN disk' /\ disk'[u.name].by = i)
        /\ u.pc = "try_again" => u.name \in failed'
    BY <1>1 DEF DownChange
  <2>2. Held(u) => u.name \in FileNames
    BY <1>3 DEF GoodDown, Task, Held
  <2>3. DOMAIN disk' \subseteq FileNames
    BY <1>0, <2>1, <2>2 DEF DiskInv
  <2>4. ASSUME NEW m \in DOMAIN disk'
        PROVE  \/ Untouched(m, disk'[m])
               \/ \E k \in DOMAIN Args : Held(down'[k]) /\ down'[k].name = m /\ disk'[m] = File(k, down'[k].out)
    <3>1. CASE m \in DOMAIN disk /\ disk'[m] = disk[m] /\ disk[m].by # i
      <4>1. CASE Untouched(m, disk[m])
        BY <3>1, <4>1
      <4>2. CASE \E k \in DOMAIN Args : Held(down[k]) /\ down[k].name = m /\ disk[m] = File(k, down[k].out)
        <5>1. PICK k \in DOMAIN Args : Held(down[k]) /\ down[k].name = m /\ disk[m] = File(k, down[k].out)
          BY <4>2
        <5>2. k # i
          BY <3>1, <5>1 DEF File
        <5> QED
          BY <1>4, <3>1, <5>1, <5>2
      <4> QED
        BY <1>0, <3>1, <4>1, <4>2 DEF DiskInv
    <3>2. CASE Held(u) /\ m = u.name /\ disk'[m] = File(i, u.out)
      BY <1>4, <3>2
    <3> QED
      BY <2>1, <3>1, <3>2
  <2>5. ASSUME NEW k \in DOMAIN Args, Held(down'[k])
        PROVE  down'[k].name \in failed' \/ (down'[k].name \in DOMAIN disk' /\ disk'[down'[k].name].by = k)
    <3>1. CASE k = i
      BY <1>4, <2>1, <2>5, <3>1
    <3>2. CASE k # i
      BY <1>0, <1>4, <2>1, <2>5, <3>2 DEF DiskInv
    <3> QED
      BY <3>1, <3>2
  <2>6. \A k \in DOMAIN Args : down'[k].pc = "try_again" => down'[k].name \in failed'
    BY <1>0, <1>4, <2>1 DEF DiskInv
  <2>7. ASSUME NEW f \in DOMAIN Local
        PROVE  <<f, 0>> \in failed' \/ (<<f, 0>> \in DOMAIN disk' /\ disk'[<<f, 0>>].by = 0)
    <3>1. i # 0
      BY InputAssumption
    <3> QED
      BY <1>0, <2>1, <3>1 DEF DiskInv
  <2>8. main.pc # "register"
    BY <1>0, <1>7, InputAssumption DEF MainInv
  <2> QED
    BY <1>0, <1>2, <2>1, <2>3, <2>4, <2>5, <2>6, <2>7, <2>8 DEF DiskInv
<1> QED
  BY <1>5, <1>8, <1>9, <1>10 DEF IInv

(* An upload. *)
LEMMA UploadStep ==
  ASSUME IInv, NEW j \in 1..Conns, task_upload(j)
  PROVE  IInv'
<1>0. TasksInv /\ DiskInv /\ MainInv /\ OrderInv
  BY DEF IInv
<1>1. PICK u : up' = [up EXCEPT ![j] = u] /\ GoodUp(u) /\ u.pc \notin {"none", "reaped"}
  BY <1>0, UploadSpec
<1>2. up[j].pc \notin {"none", "reaped"} /\ UNCHANGED <<main, registered, down, disk, failed>>
  BY <1>0, UploadSpec
<1>3. up'[j] = u /\ \A k \in 1..Conns : k # j => up'[k] = up[k]
  BY <1>0, <1>1 DEF TasksInv
<1>4. TasksInv'
  <2>1. up' \in [1..Conns -> Task]
    BY <1>0, <1>1 DEF TasksInv, GoodUp
  <2>2. \A k \in 1..Conns : GoodUp(up'[k])
    BY <1>0, <1>1, <1>3 DEF TasksInv
  <2> QED
    BY <1>0, <1>2, <2>1, <2>2 DEF TasksInv
<1>5. Children(up') = Children(up)
  BY <1>0, <1>1, <1>2 DEF Children, TasksInv
<1>6. MainInv'
  <2>1. ~(j > main.conn \/ (j = main.conn /\ main.pc \in {"wait", "upload"}))
    BY <1>0, <1>2 DEF MainInv
  <2> QED
    BY <1>0, <1>2, <1>3, <1>5, <2>1 DEF MainInv
<1>7. OrderInv' /\ DiskInv'
  BY <1>0, <1>2, <1>5 DEF OrderInv, DiskInv
<1> QED
  BY <1>4, <1>6, <1>7 DEF IInv

(* A step of the main process that leaves the children and the directory alone
   keeps what is said of them. *)
LEMMA OnlyMain ==
  ASSUME TasksInv, DiskInv, UNCHANGED <<down, up, disk, failed>>, registered' \subseteq LocalNames,
         main'.pc # "register"
  PROVE  TasksInv' /\ DiskInv'
  BY DEF TasksInv, DiskInv

(* Nor does the start or the end of a download touch the files. *)
LEMMA OtherFiles ==
  ASSUME DiskInv, NEW i \in DOMAIN Args, UNCHANGED <<registered, disk, failed>>, main'.pc # "register",
         \A k \in DOMAIN Args : k # i => down'[k] = down[k],
         ~Held(down[i]), ~Held(down'[i]), down'[i].pc # "try_again"
  PROVE  DiskInv'
  BY DEF DiskInv

(* The files are registered. *)
LEMMA RegisterStep ==
  ASSUME IInv, register_files, UNCHANGED failed
  PROVE  IInv'
<1>0. TasksInv /\ DiskInv /\ MainInv /\ OrderInv /\ main \in MainRec
  BY DEF IInv, MainInv, MainRec
<1>1. /\ main.pc = "register" /\ UNCHANGED <<down, up, disk, failed>>
      /\ registered' \subseteq DOMAIN disk
      /\ \E pc \in {"download", "dead"} : main' = [main EXCEPT !.pc = pc]
  BY DEF register_files, At, Goto
<1>2. /\ main' \in MainRec /\ main'.pc \in {"download", "dead"} /\ main'.arg = main.arg
      /\ main'.conn = main.conn /\ main'.num_download_proc = main.num_download_proc
      /\ main'.num_upload_proc = main.num_upload_proc
  BY <1>0, <1>1 DEF MainRec
<1>3. TasksInv' /\ DiskInv'
  BY <1>0, <1>1, <1>2, OnlyMain DEF DiskInv
<1>4. MainInv'
  BY <1>0, <1>1, <1>2 DEF MainInv, MainRec
<1>5. OrderInv'
  BY <1>0, <1>1, <1>2 DEF OrderInv
<1> QED
  BY <1>3, <1>4, <1>5 DEF IInv

(* A new download, or an argument that is left out. *)
LEMMA StartDownloadStep ==
  ASSUME IInv, start_download, UNCHANGED failed
  PROVE  IInv'
<1>0. TasksInv /\ DiskInv /\ MainInv /\ OrderInv /\ main \in MainRec
  BY DEF IInv, MainInv, MainRec
<1>1. main.pc = "download" /\ main.arg <= Len(Args) /\ UNCHANGED <<registered, up, disk, failed>>
  BY DEF start_download, At
<1>2. Len(Args) \in Nat /\ DOMAIN Args = 1..Len(Args)
  BY InputAssumption
<1>3. main.arg \in DOMAIN Args
  BY <1>0, <1>1, <1>2 DEF MainInv, MainRec
<1>4. ASSUME UNCHANGED down, NEW pc \in {"download", "dead"}, NEW a \in {main.arg, main.arg + 1},
             main' = [main EXCEPT !.pc = pc, !.arg = a]
      PROVE  IInv'
  <2>0. a \in Nat /\ a >= main.arg /\ main.arg \in Nat
    BY <1>0, <1>4 DEF MainRec
  <2>1. /\ main' \in MainRec /\ main'.pc = pc /\ main'.arg = a
        /\ main'.conn = main.conn /\ main'.num_download_proc = main.num_download_proc
        /\ main'.num_upload_proc = main.num_upload_proc
    BY <1>0, <1>4, <2>0 DEF MainRec
  <2>2. TasksInv' /\ DiskInv'
    BY <1>0, <1>1, <1>4, <2>1, OnlyMain DEF DiskInv
  <2>3. MainInv'
    BY <1>0, <1>1, <1>2, <1>4, <2>0, <2>1 DEF MainInv, MainRec
  <2>4. OrderInv'
    BY <1>0, <1>1, <1>4, <2>1 DEF OrderInv
  <2> QED
    BY <2>2, <2>3, <2>4 DEF IInv
<1>5. CASE main' = [main EXCEPT !.arg = @ + 1] /\ UNCHANGED down
  <2>1. main' = [main EXCEPT !.pc = "download", !.arg = main.arg + 1]
    BY <1>0, <1>1, <1>5 DEF MainRec
  <2> QED
    BY <1>4, <1>5, <2>1
<1>6. CASE Goto("dead") /\ UNCHANGED down
  <2>1. main' = [main EXCEPT !.pc = "dead", !.arg = main.arg]
    BY <1>0, <1>1, <1>6 DEF Goto, MainRec
  <2> QED
    BY <1>4, <1>6, <2>1
<1>7. ASSUME NEW peers \in PeerLists, main.num_download_proc < MAXPROC,
             down' = [down EXCEPT ![main.arg] = [EmptyTask EXCEPT !.pc = "start", !.peers = peers]],
             main' = [main EXCEPT !.arg = @ + 1, !.num_download_proc = @ + 1]
      PROVE  IInv'
  <2> DEFINE u == [EmptyTask EXCEPT !.pc = "start", !.peers = peers]
             b == FALSE
  <2>1. GoodDown(u) /\ u.pc = "start" /\ u.name = NULL
    <3>1. EmptyTask = Blank("none", <<>>, b)
      BY EmptyIsBlank
    <3>2. peers \in Seq(Peers) /\ b \in BOOLEAN
      BY PeersType
    <3> HIDE DEF b
    <3>3. [Blank("none", <<>>, b) EXCEPT !.pc = "start", !.peers = peers] = Blank("start", peers, b)
      BY BlankWith
    <3>4. u = Blank("start", peers, b)
      BY <3>1, <3>3
    <3> HIDE DEF u
    <3> QED
      BY <3>2, <3>4, BlankGood
  <2>2. down' = [down EXCEPT ![main.arg] = u]
    BY <1>7
  <2> HIDE DEF u
  <2>3. down'[main.arg] = u /\ \A k \in DOMAIN Args : k # main.arg => down'[k] = down[k]
    BY <1>0, <1>3, <2>2 DEF TasksInv
  <2>4. TasksInv'
    <3>1. down' \in [DOMAIN Args -> Task]
      BY <1>0, <2>1, <2>2 DEF TasksInv, GoodDown
    <3>2. \A k \in DOMAIN Args : GoodDown(down'[k])
      BY <1>0, <2>1, <2>3 DEF TasksInv
    <3> QED
      BY <1>0, <1>1, <3>1, <3>2 DEF TasksInv
  <2>5. /\ main' \in MainRec /\ main'.pc = "download" /\ main'.arg = main.arg + 1
        /\ main'.conn = main.conn /\ main'.num_download_proc = main.num_download_proc + 1
        /\ main'.num_upload_proc = main.num_upload_proc
    <3>1. main.arg + 1 \in Nat /\ main.num_download_proc + 1 \in Nat
      BY <1>0 DEF MainRec
    <3> QED
      BY <1>0, <1>1, <1>7, <3>1 DEF MainRec
  <2>6. down[main.arg].pc = "none" /\ main.arg \in Nat
    BY <1>0, <1>3 DEF MainInv, MainRec
  <2>7. DiskInv'
    BY <1>0, <1>1, <1>3, <2>1, <2>3, <2>5, <2>6, OtherFiles DEF Held
  <2>9. Children(down') = Children(down) \cup {main.arg} /\ main.arg \notin Children(down)
    BY <1>0, <1>3, <2>1, <2>2, <2>6 DEF Children, TasksInv
  <2>10. Cardinality(Children(down')) = Cardinality(Children(down)) + 1
    <3>1. IsFiniteSet(Children(down))
      BY <1>0, ChildrenFinite
    <3> QED
      BY <2>9, <3>1, FS_AddElement
  <2>11. MainInv'
    <3>1. \A k \in DOMAIN Args : k >= main'.arg => down'[k].pc = "none"
      BY <1>0, <1>2, <2>3, <2>5, <2>6 DEF MainInv
    <3>2. main'.num_download_proc <= MAXPROC /\ main'.arg >= 1
      BY <1>0, <1>7, <2>5, <2>6, BoundAssumption DEF MainRec
    <3> QED
      BY <1>0, <1>1, <2>5, <2>10, <3>1, <3>2 DEF MainInv, MainRec
  <2>12. OrderInv'
    BY <1>0, <1>1, <2>5 DEF OrderInv
  <2> QED
    BY <2>4, <2>7, <2>11, <2>12 DEF IInv
<1> QED
  BY <1>5, <1>6, <1>7 DEF start_download

(* A connection is accepted, or the process dies. *)
LEMMA ListenStep ==
  ASSUME IInv, task_listen, UNCHANGED failed
  PROVE  IInv'
<1>0. TasksInv /\ DiskInv /\ MainInv /\ OrderInv /\ main \in MainRec
  BY DEF IInv, MainInv, MainRec
<1>1. /\ main.pc \in {"download", "listen"} /\ main.conn < Conns
      /\ UNCHANGED <<registered, down, up, disk, failed>>
      /\ \/ main' = [main EXCEPT !.pc = "wait", !.conn = @ + 1]
         \/ main' = [main EXCEPT !.pc = "dead"]
  BY DEF task_listen, At, Goto
<1>2. main.conn + 1 \in Nat /\ main.conn \in Nat /\ main.conn + 1 <= Conns
  BY <1>0, <1>1, BoundAssumption DEF MainRec
<1>3. /\ main' \in MainRec /\ main'.arg = main.arg
      /\ main'.num_download_proc = main.num_download_proc
      /\ main'.num_upload_proc = main.num_upload_proc
      /\ \/ main'.pc = "wait" /\ main'.conn = main.conn + 1
         \/ main'.pc = "dead" /\ main'.conn = main.conn
  BY <1>0, <1>1, <1>2 DEF MainRec
<1>4. TasksInv' /\ DiskInv'
  BY <1>0, <1>1, <1>3, OnlyMain DEF DiskInv
<1>5. MainInv'
  BY <1>0, <1>1, <1>2, <1>3, BoundAssumption DEF MainInv, MainRec
<1>6. OrderInv'
  BY <1>0, <1>1, <1>3 DEF OrderInv
<1> QED
  BY <1>4, <1>5, <1>6 DEF IInv

(* A task that is waited for stays as it is otherwise. *)
LEMMA ReapedGood ==
  ASSUME NEW t \in Task
  PROVE  LET u == [t EXCEPT !.pc = "reaped"]
         IN /\ GoodDown(t) /\ Exited(t) => GoodDown(u) /\ u.name = NULL
            /\ GoodUp(t) => GoodUp(u)
            /\ u.pc = "reaped" /\ u \in Task
<1> DEFINE u == [t EXCEPT !.pc = "reaped"]
<1>1. /\ u \in Task /\ u.pc = "reaped" /\ u.name = t.name /\ u.head = t.head /\ u.tail = t.tail
      /\ u.in = t.in /\ u.out = t.out /\ u.buf = t.buf /\ u.stream = t.stream
  BY DEF Task, DownPC
<1> HIDE DEF u
<1>2. Buffer(t) => Buffer(u)
  BY <1>1, BufferSame
<1>3. GoodDown(t) /\ Exited(t) => GoodDown(u) /\ u.name = NULL
  BY <1>1, <1>2 DEF GoodDown, Exited, DownPC
<1>4. GoodUp(t) => GoodUp(u)
  BY <1>1, <1>2 DEF GoodUp, UpPC
<1> QED
  BY <1>1, <1>3, <1>4 DEF u

(* The main process waits for the downloads. *)
LEMMA WaitStep ==
  ASSUME IInv, wait_downloads, UNCHANGED failed
  PROVE  IInv'
<1>0. TasksInv /\ DiskInv /\ MainInv /\ OrderInv /\ main \in MainRec
  BY DEF IInv, MainInv, MainRec
<1>1. main.pc = "wait" /\ UNCHANGED <<registered, up, disk, failed>>
  BY DEF wait_downloads, At
<1>2. CASE main.num_download_proc = 0 /\ Goto("upload") /\ UNCHANGED down
  <2>1. /\ main' \in MainRec /\ main'.pc = "upload" /\ main'.arg = main.arg
        /\ main'.conn = main.conn /\ main'.num_download_proc = main.num_download_proc
        /\ main'.num_upload_proc = main.num_upload_proc
    BY <1>0, <1>2 DEF MainRec, Goto
  <2>2. TasksInv' /\ DiskInv'
    BY <1>0, <1>1, <1>2, <2>1, OnlyMain DEF DiskInv
  <2>3. MainInv'
    BY <1>0, <1>1, <1>2, <2>1 DEF MainInv, MainRec
  <2>4. Children(down) = {}
    BY <1>0, <1>2, ChildrenFinite, FS_EmptySet DEF MainInv
  <2>5. OrderInv'
    BY <1>0, <1>1, <1>2, <2>1, <2>4 DEF OrderInv
  <2> QED
    BY <2>2, <2>3, <2>5 DEF IInv
<1>3. ASSUME NEW i \in DOMAIN down, Exited(down[i]), down' = [down EXCEPT ![i].pc = "reaped"],
             main' = [main EXCEPT !.num_download_proc = @ - 1]
      PROVE  IInv'
  <2> DEFINE u == [down[i] EXCEPT !.pc = "reaped"]
  <2>0. i \in DOMAIN Args /\ down[i] \in Task
    BY <1>0 DEF TasksInv
  <2>1. GoodDown(u) /\ u.pc = "reaped" /\ u.name = NULL /\ u \in Task
    BY <1>0, <1>3, <2>0, ReapedGood DEF TasksInv
  <2>2. down' = [down EXCEPT ![i] = u]
    BY <1>3
  <2> HIDE DEF u
  <2>3. down'[i] = u /\ \A k \in DOMAIN Args : k # i => down'[k] = down[k]
    BY <1>0, <2>0, <2>2 DEF TasksInv
  <2>4. TasksInv'
    <3>1. down' \in [DOMAIN Args -> Task]
      BY <1>0, <2>1, <2>2 DEF TasksInv
    <3>2. \A k \in DOMAIN Args : GoodDown(down'[k])
      BY <1>0, <2>1, <2>3 DEF TasksInv
    <3> QED
      BY <1>0, <1>1, <3>1, <3>2 DEF TasksInv
  <2>5. Children(down') = Children(down) \ {i} /\ i \in Children(down)
    BY <1>0, <1>3, <2>0, <2>1, <2>2 DEF Children, Exited, TasksInv
  <2>6. /\ Cardinality(Children(down')) = Cardinality(Children(down)) - 1
        /\ Cardinality(Children(down)) - 1 \in Nat
    <3>1. IsFiniteSet(Children(down)) /\ Cardinality(Children(down)) \in Nat
      BY <1>0, ChildrenFinite
    <3>2. Cardinality(Children(down)) # 0
      BY <2>5, <3>1, FS_EmptySet
    <3>3. Cardinality(Children(down) \ {i}) = Cardinality(Children(down)) - 1
      BY <2>5, <3>1, FS_RemoveElement
    <3> QED
      BY <2>5, <3>1, <3>2, <3>3
  <2>7. /\ main' \in MainRec /\ main'.pc = "wait" /\ main'.arg = main.arg
        /\ main'.conn = main.conn /\ main'.num_download_proc = Cardinality(Children(down))- 1
        /\ main'.num_upload_proc = main.num_upload_proc
    BY <1>0, <1>1, <1>3, <2>6 DEF MainInv, MainRec
  <2>8. DiskInv'
    BY <1>0, <1>1, <1>3, <2>0, <2>1, <2>3, <2>7, OtherFiles DEF Held, Exited
  <2>9. MainInv'
    <3>1. \A k \in DOMAIN Args : k >= main'.arg => down'[k].pc = "none"
      BY <1>0, <1>3, <2>0, <2>3, <2>7 DEF MainInv, Exited
    <3>2. main'.num_download_proc <= MAXPROC
      BY <1>0, <2>6, <2>7, BoundAssumption DEF MainInv, MainRec
    <3> QED
      BY <1>0, <1>1, <2>6, <2>7, <3>1, <3>2 DEF MainInv, MainRec
  <2>10. OrderInv'
    BY <1>0, <1>1, <2>5, <2>7 DEF OrderInv
  <2> QED
    BY <2>4, <2>8, <2>9, <2>10 DEF IInv
<1> QED
  BY <1>2, <1>3 DEF wait_downloads

(* A new upload, or a connection nobody answers. *)
LEMMA StartUploadStep ==
  ASSUME IInv, start_upload, UNCHANGED failed
  PROVE  IInv'
<1>0. TasksInv /\ DiskInv /\ MainInv /\ OrderInv /\ main \in MainRec
  BY DEF IInv, MainInv, MainRec
<1>1. main.pc = "upload" /\ UNCHANGED <<registered, down, disk, failed>>
  BY DEF start_upload, At
<1>2. CASE Goto("reap") /\ UNCHANGED up
  <2>1. /\ main' \in MainRec /\ main'.pc = "reap" /\ main'.arg = main.arg
        /\ main'.conn = main.conn /\ main'.num_download_proc = main.num_download_proc
        /\ main'.num_upload_proc = main.num_upload_proc
    BY <1>0, <1>2 DEF MainRec, Goto
  <2>2. TasksInv' /\ DiskInv'
    BY <1>0, <1>1, <1>2, <2>1, OnlyMain DEF DiskInv
  <2>3. MainInv' /\ OrderInv'
    BY <1>0, <1>1, <1>2, <2>1 DEF MainInv, MainRec, OrderInv
  <2> QED
    BY <2>2, <2>3 DEF IInv
<1>3. CASE /\ main.num_upload_proc < MAXPROC
           /\ up' = [up EXCEPT ![main.conn] = [EmptyTask EXCEPT !.pc = "start"]]
           /\ main' = [main EXCEPT !.pc = "reap", !.num_upload_proc = @ + 1]
  <2> DEFINE u == [EmptyTask EXCEPT !.pc = "start"]
  <2>0. main.conn \in 1..Conns /\ main.conn \in Nat
    BY <1>0, <1>1, BoundAssumption DEF MainInv, MainRec
  <2>1. GoodUp(u) /\ u.pc = "start" /\ u \in Task
    BY FreshGood DEF GoodUp
  <2>2. up' = [up EXCEPT ![main.conn] = u]
    BY <1>3
  <2> HIDE DEF u
  <2>3. up'[main.conn] = u /\ \A k \in 1..Conns : k # main.conn => up'[k] = up[k]
    BY <1>0, <2>0, <2>2 DEF TasksInv
  <2>4. TasksInv'
    <3>1. up' \in [1..Conns -> Task]
      BY <1>0, <2>1, <2>2 DEF TasksInv
    <3>2. \A k \in 1..Conns : GoodUp(up'[k])
      BY <1>0, <2>1, <2>3 DEF TasksInv
    <3> QED
      BY <1>0, <1>1, <3>1, <3>2 DEF TasksInv
  <2>5. /\ main' \in MainRec /\ main'.pc = "reap" /\ main'.arg = main.arg
        /\ main'.conn = main.conn /\ main'.num_download_proc = main.num_download_proc
        /\ main'.num_upload_proc = main.num_upload_proc + 1
    <3>1. main.num_upload_proc + 1 \in Nat
      BY <1>0 DEF MainRec
    <3> QED
      BY <1>0, <1>3, <3>1 DEF MainRec
  <2>6. Children(up') = Children(up) \cup {main.conn} /\ main.conn \notin Children(up)
    BY <1>0, <1>1, <2>0, <2>1, <2>2 DEF Children, TasksInv, MainInv
  <2>7. Cardinality(Children(up')) = Cardinality(Children(up)) + 1
    <3>1. IsFiniteSet(Children(up))
      BY <1>0, ChildrenFinite
    <3> QED
      BY <2>6, <3>1, FS_AddElement
  <2>8. DiskInv'
    BY <1>0, <1>1, <2>5 DEF DiskInv
  <2>9. MainInv'
    <3>1. \A k \in 1..Conns : k > main'.conn => up'[k].pc = "none"
      BY <1>0, <2>0, <2>3, <2>5 DEF MainInv
    <3>2. main'.num_upload_proc <= MAXPROC
      BY <1>0, <1>3, <2>5, BoundAssumption DEF MainRec
    <3> QED
      BY <1>0, <1>1, <2>5, <2>7, <3>1, <3>2 DEF MainInv, MainRec
  <2>10. OrderInv'
    BY <1>0, <1>1, <2>5 DEF OrderInv
  <2> QED
    BY <2>4, <2>8, <2>9, <2>10 DEF IInv
<1> QED
  BY <1>2, <1>3 DEF start_upload

(* One upload that ended is waited for. *)
LEMMA ReapStep ==
  ASSUME IInv, reap, UNCHANGED failed
  PROVE  IInv'
<1>0. TasksInv /\ DiskInv /\ MainInv /\ OrderInv /\ main \in MainRec
  BY DEF IInv, MainInv, MainRec
<1>1. main.pc = "reap" /\ UNCHANGED <<registered, down, disk, failed>>
  BY DEF reap, At
<1>2. CASE Goto("listen") /\ UNCHANGED up
  <2>1. /\ main' \in MainRec /\ main'.pc = "listen" /\ main'.arg = main.arg
        /\ main'.conn = main.conn /\ main'.num_download_proc = main.num_download_proc
        /\ main'.num_upload_proc = main.num_upload_proc
    BY <1>0, <1>2 DEF MainRec, Goto
  <2>2. TasksInv' /\ DiskInv'
    BY <1>0, <1>1, <1>2, <2>1, OnlyMain DEF DiskInv
  <2>3. MainInv' /\ OrderInv'
    BY <1>0, <1>1, <1>2, <2>1 DEF MainInv, MainRec, OrderInv
  <2> QED
    BY <2>2, <2>3 DEF IInv
<1>3. ASSUME NEW j \in DOMAIN up, Exited(up[j]), up' = [up EXCEPT ![j].pc = "reaped"],
             main' = [main EXCEPT !.pc = "listen", !.num_upload_proc = @ - 1]
      PROVE  IInv'
  <2> DEFINE u == [up[j] EXCEPT !.pc = "reaped"]
  <2>0. j \in 1..Conns /\ up[j] \in Task
    BY <1>0 DEF TasksInv
  <2>1. GoodUp(u) /\ u.pc = "reaped" /\ u \in Task
    BY <1>0, <2>0, ReapedGood DEF TasksInv
  <2>2. up' = [up EXCEPT ![j] = u]
    BY <1>3
  <2> HIDE DEF u
  <2>3. up'[j] = u /\ \A k \in 1..Conns : k # j => up'[k] = up[k]
    BY <1>0, <2>0, <2>2 DEF TasksInv
  <2>4. TasksInv'
    <3>1. up' \in [1..Conns -> Task]
      BY <1>0, <2>1, <2>2 DEF TasksInv
    <3>2. \A k \in 1..Conns : GoodUp(up'[k])
      BY <1>0, <2>1, <2>3 DEF TasksInv
    <3> QED
      BY <1>0, <1>1, <3>1, <3>2 DEF TasksInv
  <2>5. Children(up') = Children(up) \ {j} /\ j \in Children(up)
    BY <1>0, <1>3, <2>0, <2>1, <2>2 DEF Children, Exited, TasksInv
  <2>6. /\ Cardinality(Children(up')) = Cardinality(Children(up)) - 1
        /\ Cardinality(Children(up)) - 1 \in Nat
    <3>1. IsFiniteSet(Children(up)) /\ Cardinality(Children(up)) \in Nat
      BY <1>0, ChildrenFinite
    <3>2. Cardinality(Children(up)) # 0
      BY <2>5, <3>1, FS_EmptySet
    <3>3. Cardinality(Children(up) \ {j}) = Cardinality(Children(up)) - 1
      BY <2>5, <3>1, FS_RemoveElement
    <3> QED
      BY <2>5, <3>1, <3>2, <3>3
  <2>7. /\ main' \in MainRec /\ main'.pc = "listen" /\ main'.arg = main.arg
        /\ main'.conn = main.conn /\ main'.num_download_proc = main.num_download_proc
        /\ main'.num_upload_proc = Cardinality(Children(up)) - 1
    BY <1>0, <1>3, <2>6 DEF MainInv, MainRec
  <2>8. DiskInv'
    BY <1>0, <1>1, <2>7 DEF DiskInv
  <2>9. MainInv'
    <3>1. \A k \in 1..Conns : k > main'.conn => up'[k].pc = "none"
      BY <1>0, <1>3, <2>0, <2>3, <2>7 DEF MainInv, Exited
    <3>2. main'.num_upload_proc <= MAXPROC
      BY <1>0, <2>6, <2>7, BoundAssumption DEF MainInv, MainRec
    <3> QED
      BY <1>0, <1>1, <2>6, <2>7, <3>1, <3>2 DEF MainInv, MainRec
  <2>10. OrderInv'
    BY <1>0, <1>1, <2>5, <2>7 DEF OrderInv
  <2> QED
    BY <2>4, <2>8, <2>9, <2>10 DEF IInv
<1> QED
  BY <1>2, <1>3 DEF reap

(* The invariant at the start: the children are still to come, and the directory
   holds the files that are there. *)
LEMMA InitInv ==
  ASSUME Init
  PROVE  IInv
<1> DEFINE e == EmptyTask
<1>1. GoodDown(e) /\ GoodUp(e) /\ e.pc = "none" /\ e.name = NULL
  <2> DEFINE b == FALSE
  <2>1. e = Blank("none", <<>>, b)
    BY EmptyIsBlank
  <2>2. b \in BOOLEAN /\ <<>> \in Seq(Peers)
    OBVIOUS
  <2> HIDE DEF b, e
  <2> QED
    BY <2>1, <2>2, BlankGood
<1>2. /\ main = [pc |-> "register", arg |-> 1, conn |-> 0, num_download_proc |-> 0, num_upload_proc |-> 0]
      /\ registered = {} /\ down = [i \in DOMAIN Args |-> e] /\ up = [j \in 1..Conns |-> e]
      /\ disk = [n \in LocalNames |-> File(0, [k \in 1..Local[n[1]] |-> k])] /\ failed = {}
  BY DEF Init, LocalNames
<1> HIDE DEF e
<1>3. e \in Task
  BY <1>1 DEF GoodDown
<1>4. TasksInv
  BY <1>1, <1>2, <1>3 DEF TasksInv
<1>5. Children(down) = {} /\ Children(up) = {}
  BY <1>1, <1>2 DEF Children
<1>6. MainInv
  <2>1. /\ main \in MainRec /\ main.arg = 1 /\ main.conn = 0 /\ main.pc = "register"
        /\ main.num_download_proc = 0 /\ main.num_upload_proc = 0
    BY <1>2 DEF MainRec
  <2>2. Cardinality(Children(down)) = 0 /\ Cardinality(Children(up)) = 0
    BY <1>5, FS_EmptySet
  <2>3. /\ \A i \in DOMAIN Args : down[i].pc = "none"
        /\ \A j \in 1..Conns : up[j].pc = "none"
    BY <1>1, <1>2
  <2> QED
    BY <2>1, <2>2, <2>3, BoundAssumption DEF MainInv
<1>7. OrderInv
  BY <1>5 DEF OrderInv
<1>8. DiskInv
  <2>1. ASSUME NEW n \in LocalNames
        PROVE  Untouched(n, disk[n]) /\ disk[n] \in DiskFiles /\ disk[n].by = 0
    <3>1. PICK f \in DOMAIN Local : n = <<f, 0>> /\ n[1] = f
      BY DEF LocalNames
    <3> DEFINE l == Local[f]
               s == [k \in 1..l |-> k]
    <3>2. disk[n] = File(0, s)
      BY <1>2, <3>1
    <3>3. Untouched(n, disk[n])
      BY <3>1, <3>2 DEF Untouched
    <3>4. l \in Nat
      BY InputAssumption
    <3> HIDE DEF l
    <3>5. s \in [1..l -> Nat]
      BY <3>4
    <3> HIDE DEF s
    <3>6. s \in Seq(Nat)
      BY <3>4, <3>5
    <3> QED
      BY <3>2, <3>3, <3>6 DEF File, DiskFiles
  <2>2. disk \in [LocalNames -> DiskFiles] /\ DOMAIN disk = LocalNames
    BY <1>2, <2>1
  <2>3. \A f \in DOMAIN Local : <<f, 0>> \in DOMAIN disk /\ disk[<<f, 0>>].by = 0
    BY <2>1, <2>2 DEF LocalNames
  <2>4. \A i \in DOMAIN Args : ~Held(down[i]) /\ down[i].pc = "none"
    BY <1>1, <1>2 DEF Held
  <2> QED
    BY <1>2, <2>1, <2>2, <2>3, <2>4, NullNoFile DEF DiskInv
<1> QED
  BY <1>4, <1>6, <1>7, <1>8 DEF IInv

(* The invariant is inductive. *)
LEMMA InvStep ==
  ASSUME IInv, [Next]_vars
  PROVE  IInv'
<1>1. CASE Main
  BY <1>1, RegisterStep, StartDownloadStep, WaitStep, StartUploadStep, ReapStep DEF Main
<1>2. CASE task_listen /\ UNCHANGED failed
  BY <1>2, ListenStep
<1>3. ASSUME NEW i \in DOMAIN Args, task_download(i) PROVE IInv'
  BY <1>3, DownloadStep
<1>4. ASSUME NEW j \in 1..Conns, task_upload(j) PROVE IInv'
  BY <1>4, UploadStep
<1>5. CASE UNCHANGED vars
  BY <1>5 DEF vars, IInv, TasksInv, DiskInv, MainInv, OrderInv
<1> QED
  BY <1>1, <1>2, <1>3, <1>4, <1>5 DEF Next

(* It holds in every behaviour. *)
LEMMA InvHolds == Spec => []IInv
<1>1. Init => IInv
  BY InitInv
<1>2. IInv /\ [Next]_vars => IInv'
  BY InvStep
<1> QED
  BY <1>1, <1>2, PTL DEF Spec

(* The main process counts its children right, however downloads and uploads end
   and in whichever order it waits for them, and never has more than MAXPROC of a
   kind. *)
THEOREM TypeCorrect == Spec => []TypeOK
<1>1. IInv => TypeOK
  <2> SUFFICES ASSUME IInv PROVE TypeOK
    OBVIOUS
  <2>1. ASSUME NEW i \in DOMAIN down
        PROVE  down[i].head \in 0..(WORD - 1) /\ down[i].tail \in 0..(WORD - 1)
    <3>1. down[i] \in Task /\ Buffer(down[i])
      BY DEF IInv, TasksInv, GoodDown
    <3>2. Len(down[i].out) \in Nat /\ down[i].in \in Nat
      BY <3>1 DEF Task
    <3>3. down[i].head = Len(down[i].out) % WORD /\ down[i].tail = down[i].in % WORD
      BY <3>1 DEF Buffer
    <3> QED
      BY <3>2, <3>3, Sizes
  <2> QED
    BY <2>1 DEF IInv, MainInv, MainRec, TypeOK, Count
<1> QED
  BY <1>1, InvHolds, PTL

(* While a child serves files to another peer no child of a download is left. *)
THEOREM DownloadsComeFirst == Spec => []DownloadsFirst
<1>1. IInv => DownloadsFirst
  BY DEF IInv, OrderInv, DownloadsFirst, Running
<1> QED
  BY <1>1, InvHolds, PTL

(* Downloads that run at the same time, of the same file even, write different
   files and leave no parts behind, and what was in the directory before stays as
   it was; a file is lost only after an open of its very name has failed for
   another reason than that the name is taken. *)
THEOREM FilesKept == Spec => []OwnFiles
<1>1. IInv => OwnFiles
  <2> SUFFICES ASSUME IInv PROVE OwnFiles
    OBVIOUS
  <2>1. TasksInv /\ DiskInv
    BY DEF IInv
  <2>2. DOMAIN down = DOMAIN Args /\ Holding = {i \in DOMAIN Args : Held(down[i])}
    BY <2>1 DEF Holding, Held, TasksInv
  <2>3. registered \subseteq DOMAIN disk \cup failed
    BY <2>1 DEF DiskInv, LocalNames
  <2> QED
    BY <2>1, <2>2, <2>3 DEF OwnFiles, DiskInv, Untouched
<1> QED
  BY <1>1, InvHolds, PTL

(* A file is taken for complete only with all its bytes written, and an upload
   only with all its bytes sent: TBUF_END, which means "end of file" or "buffer
   full", is never mistaken. *)
THEOREM EndIsEnd == Spec => []CompleteAtEnd
<1>1. IInv => CompleteAtEnd
  <2> SUFFICES ASSUME IInv PROVE CompleteAtEnd
    OBVIOUS
  <2>1. TasksInv /\ DiskInv
    BY DEF IInv
  <2>2. ASSUME NEW i \in DOMAIN down, down[i].pc = "md5"
        PROVE  Len(down[i].out) = down[i].stream.len /\ down[i].stream.end = "eof"
    BY <2>1, <2>2 DEF TasksInv, GoodDown
  <2>3. \A j \in DOMAIN up : up[j].pc = "complete" => Len(up[j].out) = up[j].stream.len
    BY <2>1 DEF TasksInv, GoodUp
  <2> QED
    BY <2>2, <2>3 DEF CompleteAtEnd
<1> QED
  BY <1>1, InvHolds, PTL

(* What left a buffer followed by what is in it is what entered it, for every
   size of the buffer and of the unsigned counters, also when they wrap around. *)
LEMMA InOrder ==
  ASSUME NEW t \in Task, Buffer(t)
  PROVE  LET held == (t.tail - t.head) % WORD
         IN t.out \o [k \in 1..held |-> t.buf[(headpos(t) + k - 1) % TASKBUFSIZ]] = [k \in 1..t.in |-> k]
<1> DEFINE x == Len(t.out)
           y == t.in
           d == y - x
           s == [k \in 1..d |-> t.buf[(headpos(t) + k - 1) % TASKBUFSIZ]]
<1>1. /\ x \in Nat /\ y \in Nat /\ d \in Nat /\ d <= TASKBUFSIZ /\ t.out \in Seq(Nat)
      /\ t.head = x % WORD /\ t.tail = y % WORD /\ \A k \in 1..x : t.out[k] = k
      /\ \A n \in x..(y - 1) : t.buf[n % TASKBUFSIZ] = n + 1
  BY Sizes DEF Task, Buffer
<1>2. headpos(t) = x % TASKBUFSIZ
  BY Positions
<1> HIDE DEF x, y
<1>3. ((y % WORD) - (x % WORD)) % WORD = d
  <2>1. x <= y /\ y < x + WORD
    BY <1>1, Sizes
  <2> QED
    BY <1>1, <2>1, Sizes, CounterDiff
<1>4. (t.tail - t.head) % WORD = d
  BY <1>1, <1>3
<1>5. ASSUME NEW k \in 1..d PROVE s[k] = x + k
  <2> DEFINE e == k - 1
  <2>1. e \in Nat /\ x + e \in x..(y - 1) /\ x + e + 1 = x + k
    BY <1>1
  <2>2. ((x % TASKBUFSIZ) + e) % TASKBUFSIZ = (x + e) % TASKBUFSIZ
    <3> HIDE DEF e
    <3> QED
      BY <1>1, <2>1, Sizes, ModThenAdd
  <2>3. (x % TASKBUFSIZ) + k - 1 = (x % TASKBUFSIZ) + e
    BY <1>1, Sizes
  <2>4. t.buf[(x + e) % TASKBUFSIZ] = x + e + 1
    BY <1>1, <2>1
  <2>5. s[k] = t.buf[((x % TASKBUFSIZ) + k - 1) % TASKBUFSIZ]
    BY <1>2
  <2> HIDE DEF e, s, d
  <2> QED
    BY <2>1, <2>2, <2>3, <2>4, <2>5
<1>6. s \in Seq(Nat) /\ Len(s) = d
  <2>1. ASSUME NEW k \in 1..d PROVE s[k] \in Nat
    <3> HIDE DEF s
    <3> QED
      BY <1>1, <1>5
  <2>2. s \in [1..d -> Nat]
    BY <2>1
  <2> HIDE DEF s, d
  <2> QED
    BY <1>1, <2>2
<1> DEFINE all == [k \in 1..y |-> k]
<1>7. all \in Seq(Nat) /\ Len(all) = y /\ \A k \in 1..y : all[k] = k
  <2>1. all \in [1..y -> Nat] /\ \A k \in 1..y : all[k] = k
    BY <1>1
  <2> HIDE DEF all
  <2> QED
    BY <1>1, <2>1
<1> HIDE DEF s, all
<1>8. /\ t.out \o s \in Seq(Nat) /\ Len(t.out \o s) = x + d
      /\ \A k \in 1..(x + d) : (t.out \o s)[k] = IF k <= x THEN t.out[k] ELSE s[k - x]
  BY <1>1, <1>6, ConcatProperties DEF x
<1>9. x + d = y
  BY <1>1
<1> HIDE DEF d
<1>10. ASSUME NEW k \in 1..y PROVE (t.out \o s)[k] = all[k]
  <2>1. CASE k <= x
    <3>1. k \in 1..x /\ k \in 1..(x + d)
      BY <1>1, <1>9, <2>1
    <3>2. (t.out \o s)[k] = t.out[k]
      BY <1>8, <2>1, <3>1
    <3> QED
      BY <1>1, <1>7, <3>1, <3>2
  <2>2. CASE ~(k <= x)
    <3>1. k - x \in 1..d /\ x + (k - x) = k
      BY <1>1, <1>9, <2>2
    <3>2. s[k - x] = x + (k - x)
      BY <1>5, <3>1
    <3> QED
      BY <1>7, <1>8, <1>9, <2>2, <3>1, <3>2
  <2> QED
    BY <2>1, <2>2
<1>11. t.out \o s = all
  BY <1>7, <1>8, <1>9, <1>10, SeqEqual
<1> QED
  BY <1>4, <1>11 DEF s, all, y

(* The bytes of every task stay in order. *)
THEOREM BytesInOrder == Spec => []BufferInOrder
<1>1. IInv => BufferInOrder
  <2> SUFFICES ASSUME IInv PROVE BufferInOrder
    OBVIOUS
  <2>1. \A t \in {down[i] : i \in DOMAIN down} \cup {up[j] : j \in DOMAIN up} : t \in Task /\ Buffer(t)
    BY DEF IInv, TasksInv, GoodDown, GoodUp
  <2> QED
    BY <2>1, InOrder DEF BufferInOrder
<1> QED
  BY <1>1, InvHolds, PTL
=============================================================================
