----------------------------- MODULE NatLemmas -----------------------------
(***************************************************************************)
(* Facts about natural numbers that the proofs of several components rest  *)
(* on: least and greatest elements of sets, induction, and the remainder   *)
(* operator that the code uses for its cyclic searches and ring buffers.   *)
(***************************************************************************)
EXTENDS Integers, WellFoundedInduction, TLAPS

(* A nonempty set of natural numbers has a least element: a search that visits
   positions in increasing order stops at the first hit. *)
LEMMA LeastExists ==
  ASSUME NEW S \in SUBSET Nat, S # {}
  PROVE  \E x \in S : \A y \in S : x <= y
<1> DEFINE R == OpToRel(<, Nat)
<1>1. \E x \in S : \A y \in S : ~(<<y, x>> \in R)
  <2> HIDE DEF R
  <2> QED
    BY NatLessThanWellFounded, WFMin DEF R
<1>2. PICK x \in S : \A y \in S : ~(y < x)
  BY <1>1 DEF OpToRel
<1> QED
  BY <1>2

(* A nonempty bounded set of natural numbers has a greatest element. *)
LEMMA GreatestExists ==
  ASSUME NEW S \in SUBSET Nat, S # {}, NEW n \in Nat, \A x \in S : x <= n
  PROVE  \E x \in S : \A y \in S : y <= x
<1> DEFINE D == {d \in Nat : n - d \in S}
<1>1. D \in SUBSET Nat /\ D # {}
  <2>1. PICK x \in S : TRUE
    OBVIOUS
  <2>2. n - x \in D
    BY <2>1
  <2> QED
    BY <2>2
<1>2. PICK d \in D : \A e \in D : d <= e
  <2> HIDE DEF D
  <2> QED
    BY <1>1, LeastExists
<1>3. ASSUME NEW y \in S PROVE y <= n - d
  <2>1. n - y \in D
    OBVIOUS
  <2> QED
    BY <1>2, <2>1
<1> QED
  BY <1>2, <1>3

(* Induction: a set that has 0 and the successors of its elements has every
   natural number. *)
LEMMA SetInduction ==
  ASSUME NEW S, 0 \in S, \A n \in Nat : n \in S => n + 1 \in S
  PROVE  \A n \in Nat : n \in S
<1> DEFINE T == {n \in Nat : n \notin S}
<1> SUFFICES ASSUME T # {} PROVE FALSE
  OBVIOUS
<1>1. PICK x \in T : \A y \in T : x <= y
  <2>1. T \in SUBSET Nat
    OBVIOUS
  <2> HIDE DEF T
  <2> QED
    BY <2>1, LeastExists
<1>2. x \in Nat /\ x # 0 /\ x - 1 \in Nat /\ x - 1 \notin T
  BY <1>1
<1>3. x - 1 \in S
  BY <1>2
<1>4. (x - 1) + 1 \in S
  BY <1>2, <1>3
<1> QED
  BY <1>1, <1>2, <1>4

-----------------------------------------------------------------------------
(* Remainders *)

(* Division with remainder. *)
LEMMA DivMod ==
  ASSUME NEW N \in Nat, N > 0, NEW x \in Nat
  PROVE  \E q \in Nat : \E r \in 0..(N - 1) : x = N * q + r /\ r = x % N
<1> DEFINE y == x % N
<1>1. y \in 0..(N - 1)
  OBVIOUS
<1>2. \E q \in Int : x = N * q + y
  OBVIOUS
<1>3. PICK q \in Int : x = N * q + y
  BY <1>2
<1>4. q >= 0
  <2> HIDE DEF y
  <2>1. ASSUME q <= -1 PROVE FALSE
    <3>1. N * q <= -N
      BY <2>1
    <3> QED
      BY <1>1, <1>3, <3>1
  <2> QED
    BY <2>1
<1> QED
  BY <1>1, <1>3, <1>4

(* The remainder of a number in this form. *)
LEMMA ModOf ==
  ASSUME NEW N \in Nat, N > 0, NEW q \in Nat, NEW r \in 0..(N - 1)
  PROVE  (N * q + r) % N = r
OBVIOUS

(* Remainders of the numbers below 3N: positions of a search that goes around
   a table of N entries at most three times. *)
LEMMA SmallMod ==
  ASSUME NEW N \in Nat, N > 0, NEW x \in Nat, x < 3 * N
  PROVE  x % N = IF x < N THEN x ELSE IF x < 2 * N THEN x - N ELSE x - 2 * N
<1>1. CASE x < N
  BY <1>1
<1>2. CASE N <= x /\ x < 2 * N
  BY <1>2
<1>3. CASE 2 * N <= x
  BY <1>3
<1> QED
  BY <1>1, <1>2, <1>3

(* A remainder stays below N: the numbers behind x in the same round. *)
LEMMA ModAdd ==
  ASSUME NEW N \in Nat, N > 0, NEW x \in Nat, NEW a \in Nat, (x % N) + a < N
  PROVE  (x + a) % N = (x % N) + a
<1>1. PICK q \in Nat : \E r \in 0..(N - 1) : x = N * q + r /\ r = x % N
  BY DivMod
<1>2. PICK r \in 0..(N - 1) : x = N * q + r /\ r = x % N
  BY <1>1
<1>3. x + a = N * q + (r + a) /\ r + a \in 0..(N - 1)
  BY <1>2
<1> QED
  BY <1>2, <1>3, ModOf

(* Going on from a remainder is going on from the number. *)
LEMMA ModThenAdd ==
  ASSUME NEW N \in Nat, N > 0, NEW x \in Nat, NEW a \in Nat
  PROVE  ((x % N) + a) % N = (x + a) % N
<1>1. PICK q \in Nat : \E r \in 0..(N - 1) : x = N * q + r /\ r = x % N
  BY DivMod
<1>2. PICK r \in 0..(N - 1) : x = N * q + r /\ r = x % N
  BY <1>1
<1>3. PICK c \in Nat : \E s \in 0..(N - 1) : r + a = N * c + s /\ s = (r + a) % N
  BY DivMod
<1>4. PICK s \in 0..(N - 1) : r + a = N * c + s /\ s = (r + a) % N
  BY <1>3
<1>5. x + a = N * (q + c) + s
  BY <1>2, <1>4
<1>6. (N * (q + c) + s) % N = s
  BY ModOf
<1> QED
  BY <1>2, <1>4, <1>5, <1>6

(* A counter modulo W is good enough for positions modulo T if T divides W. *)
LEMMA ModOfMod ==
  ASSUME NEW T \in Nat, T > 0, NEW W \in Nat, W > 0, W % T = 0, NEW x \in Nat
  PROVE  (x % W) % T = x % T
<1>1. PICK q \in Nat : \E r \in 0..(W - 1) : x = W * q + r /\ r = x % W
  BY DivMod
<1>2. PICK r \in 0..(W - 1) : x = W * q + r /\ r = x % W
  BY <1>1
<1>3. PICK c \in Nat : \E z \in 0..(T - 1) : W = T * c + z /\ z = W % T
  BY DivMod
<1>4. W = T * c
  BY <1>3
<1>5. PICK d \in Nat : \E s \in 0..(T - 1) : r = T * d + s /\ s = r % T
  BY <1>2, DivMod
<1>6. PICK s \in 0..(T - 1) : r = T * d + s /\ s = r % T
  BY <1>5
<1>7. W * q = T * (c * q)
  BY <1>4
<1> DEFINE m == c * q
<1>8. m \in Nat
  OBVIOUS
<1> HIDE DEF m
<1>9. x = T * (m + d) + s
  <2>1. x = T * m + (T * d + s)
    BY <1>2, <1>6, <1>7 DEF m
  <2>2. T * (m + d) = T * m + T * d
    BY <1>8
  <2> QED
    BY <1>8, <2>1, <2>2
<1>10. (T * (m + d) + s) % T = s
  BY <1>8, ModOf
<1> QED
  BY <1>2, <1>6, <1>9, <1>10

(* How far apart two numbers are follows from their remainders, as long as they
   are at most N apart; only 0 and N are confused. *)
LEMMA ModDiff ==
  ASSUME NEW N \in Nat, N > 0, NEW x \in Nat, NEW y \in Nat, x <= y, y <= x + N
  PROVE  y - x = (y % N) - (x % N) \/ y - x = (y % N) - (x % N) + N
<1>1. PICK q \in Nat : \E r \in 0..(N - 1) : x = N * q + r /\ r = x % N
  BY DivMod
<1>2. PICK r \in 0..(N - 1) : x = N * q + r /\ r = x % N
  BY <1>1
<1>3. PICK p \in Nat : \E s \in 0..(N - 1) : y = N * p + s /\ s = y % N
  BY DivMod
<1>4. PICK s \in 0..(N - 1) : y = N * p + s /\ s = y % N
  BY <1>3
<1> DEFINE d == p - q
<1>5. N * p - N * q = N * d
  OBVIOUS
<1> HIDE DEF d
<1>6. y - x = N * d + (s - r) /\ d \in Int
  BY <1>2, <1>4, <1>5 DEF d
<1>7. CASE d = 0
  BY <1>2, <1>4, <1>6, <1>7
<1>8. CASE d = 1
  BY <1>2, <1>4, <1>6, <1>8
<1>9. CASE d >= 2
  <2>1. N * d >= 2 * N
    BY <1>9, <1>6
  <2> QED
    BY <1>6, <2>1
<1>10. CASE d <= -1
  <2>1. N * d <= -N
    BY <1>10, <1>6
  <2> QED
    BY <1>6, <2>1
<1> QED
  BY <1>6, <1>7, <1>8, <1>9, <1>10

(* The difference of two counters modulo W, taken modulo W as well, is how far
   apart they are. *)
LEMMA CounterDiff ==
  ASSUME NEW W \in Nat, W > 0, NEW x \in Nat, NEW y \in Nat, x <= y, y < x + W
  PROVE  ((y % W) - (x % W)) % W = y - x
<1> DEFINE s == y % W
           r == x % W
<1>1. y - x = s - r \/ y - x = s - r + W
  <2>1. y <= x + W
    OBVIOUS
  <2> QED
    BY <2>1, ModDiff
<1>2. s \in 0..(W - 1) /\ r \in 0..(W - 1)
  OBVIOUS
<1> HIDE DEF s, r
<1>3. CASE s - r >= 0
  BY <1>1, <1>2, <1>3 DEF s, r
<1>4. CASE s - r < 0
  BY <1>1, <1>2, <1>4 DEF s, r
<1> QED
  BY <1>2, <1>3, <1>4
=============================================================================
