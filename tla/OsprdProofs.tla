---------------------------- MODULE OsprdProofs ----------------------------
(***************************************************************************)
(* Proofs about the ramdisk lock (module Osprd) for any number of          *)
(* processes and files and any bounds: the lock exclusion, the accounting, *)
(* the ticket queue and the service order, in every build in which         *)
(* SafeBuild holds; and that locks, tickets and counts are never stranded. *)
(***************************************************************************)
EXTENDS Osprd, FiniteSetTheorems, WellFoundedInduction, TLAPS

(* SkipInvalid, the loop over invalidTicketList, stops at the first ticket
   from t on that is still valid, and no later than at ticket_head. *)
LEMMA SkipInvalidSpec ==
  ASSUME TypeOK, TicketBounds, NEW t \in Nat, t <= ticket_head
  PROVE  /\ SkipInvalid(t) \in t..ticket_head
         /\ SkipInvalid(t) \notin invalidTicketList
         /\ \A v \in t..(SkipInvalid(t) - 1) : v \in invalidTicketList
<1> DEFINE T == {u \in Nat : t <= u /\ u <= ticket_head /\ u \notin invalidTicketList}
           R == OpToRel(<, Nat)
<1>1. ticket_head \in T
  BY DEF TypeOK, TicketBounds
<1>2. \E x \in T : \A y \in T : ~(<<y, x>> \in R)
  <2>1. T \subseteq Nat /\ T # {}
    BY <1>1
  <2> HIDE DEF T, R
  <2> QED
    BY <2>1, NatLessThanWellFounded, WFMin DEF R
<1>3. PICK x \in T : \A y \in T : ~(y < x)
  BY <1>2 DEF OpToRel
<1>4. x \in t..ticket_head /\ x \notin invalidTicketList
  BY <1>3 DEF TypeOK
<1>5. \A v \in t..(x - 1) : v \in invalidTicketList
  BY <1>3 DEF TypeOK
<1> QED
  BY <1>4, <1>5 DEF SkipInvalid

-----------------------------------------------------------------------------
(* The lock counters *)

AccountingOK == num_write \in {0, 1} /\ LockAccounting

(* Cardinalities after adding or removing one element. *)
LEMMA CardinalityStep ==
  ASSUME NEW S, IsFiniteSet(S), NEW x
  PROVE  /\ Cardinality(S) \in Nat
         /\ Cardinality(S) = 0 <=> S = {}
         /\ Cardinality(S \cup {x}) \in Nat
         /\ x \notin S => Cardinality(S \cup {x}) = Cardinality(S) + 1
         /\ Cardinality(S \cup {x}) <= Cardinality(S) + 1
         /\ x \in S => Cardinality(S \ {x}) = Cardinality(S) - 1
<1>1. Cardinality(S) \in Nat
  BY FS_CardinalityType
<1>2. Cardinality(S) = 0 <=> S = {}
  BY FS_EmptySet
<1>3. Cardinality(S \cup {x}) = IF x \in S THEN Cardinality(S) ELSE Cardinality(S) + 1
  BY FS_AddElement
<1>4. Cardinality(S \ {x}) = IF x \in S THEN Cardinality(S) - 1 ELSE Cardinality(S)
  BY FS_RemoveElement
<1> QED
  BY <1>1, <1>2, <1>3, <1>4

(* The sets whose sizes LockAccounting compares are finite. *)
LEMMA LockedFinite ==
  ASSUME TypeOK
  PROVE  /\ IsFiniteSet(locked \cap WFiles) /\ IsFiniteSet(locked \cap RFiles)
         /\ Cardinality(locked \cap WFiles) \in Nat
         /\ Cardinality(locked \cap RFiles) \in Nat
<1>1. IsFiniteSet(locked)
  BY OsprdAssumption, FS_Subset DEF TypeOK
<1> QED
  BY <1>1, FS_Intersection, FS_CardinalityType

(* A grant to a request that meets the wait condition keeps the counters in
   step with the LOCKED flags. *)
LEMMA GrantAccounting ==
  ASSUME TypeOK, AccountingOK, NEW p \in Procs, NEW f \in Files,
         num_write = 0, f \in WFiles => num_read = 0,
         GrantLock(p, f)
  PROVE  AccountingOK'
<1> DEFINE W == locked \cap WFiles
           R == locked \cap RFiles
<1>0. p # NoProc
  BY OsprdAssumption
<1>1. IsFiniteSet(W) /\ IsFiniteSet(R)
  BY LockedFinite
<1>2. /\ Cardinality(W) = 0 /\ Cardinality(R) <= num_read
      /\ write_locking_pids = NoProc
  BY DEF AccountingOK, LockAccounting
<1>3. CASE f \in WFiles
  <2>1. (locked \cap WFiles)' = W \cup {f} /\ (locked \cap RFiles)' = R
    BY <1>3 DEF GrantLock, GrantWrite, RFiles
  <2>3. num_write' = 1 /\ num_read' = 0 /\ write_locking_pids' = p /\ num_read = 0
    BY <1>3 DEF GrantLock, GrantWrite
  <2> HIDE DEF W, R
  <2>2. Cardinality(W \cup {f}) = 1
    <3>1. f \notin W
      BY <1>1, <1>2, CardinalityStep
    <3>2. Cardinality(W \cup {f}) = Cardinality(W) + 1
      BY <1>1, <3>1, CardinalityStep
    <3> QED
      BY <1>2, <3>2
  <2> QED
    BY <1>0, <1>2, <2>1, <2>2, <2>3 DEF AccountingOK, LockAccounting
<1>4. CASE f \notin WFiles
  <2>1. (locked \cap RFiles)' = R \cup {f} /\ (locked \cap WFiles)' = W
    BY <1>4 DEF GrantLock, GrantRead, RFiles
  <2>2. /\ Cardinality(R \cup {f}) <= Cardinality(R) + 1
        /\ Cardinality(R \cup {f}) \in Nat /\ Cardinality(R) \in Nat
    BY <1>1, CardinalityStep
  <2>3. /\ num_write' = 0 /\ num_read' = num_read + 1 /\ num_read \in Int
        /\ write_locking_pids' = NoProc
    BY <1>2, <1>4 DEF GrantLock, GrantRead, TypeOK
  <2> HIDE DEF W, R
  <2> QED
    BY <1>2, <2>1, <2>2, <2>3 DEF AccountingOK, LockAccounting
<1> QED
  BY <1>3, <1>4

(* Releasing a LOCKED file does too; a writer's release finds no other write
   lock, a reader's release finds its read lock counted. *)
LEMMA DropAccounting ==
  ASSUME TypeOK, AccountingOK, NEW p \in Procs, NEW f \in locked,
         DropLock(p, f)
  PROVE  /\ AccountingOK'
         /\ num_write = 0 => num_write' = 0
         /\ num_read = 0 => num_read' = 0
<1> DEFINE W == locked \cap WFiles
           R == locked \cap RFiles
<1>1. IsFiniteSet(W) /\ IsFiniteSet(R)
  BY LockedFinite
<1>2. /\ Cardinality(W) = num_write /\ num_write \in {0, 1}
      /\ Cardinality(R) <= num_read /\ num_read \in Int
      /\ num_write > 0 => num_read = 0
      /\ num_write = 0 <=> write_locking_pids = NoProc
  BY DEF AccountingOK, LockAccounting, TypeOK
<1>3. CASE f \in WFiles
  <2>1. (locked \cap WFiles)' = W \ {f} /\ (locked \cap RFiles)' = R /\ f \in W
    BY <1>3 DEF DropLock, RFiles
  <2>2. Cardinality(W \ {f}) = Cardinality(W) - 1 /\ Cardinality(W) # 0
    BY <1>1, <2>1, CardinalityStep
  <2>3. num_write' = 0 /\ num_read' = num_read /\ write_locking_pids' = NoProc
    BY <1>3 DEF DropLock
  <2> HIDE DEF W, R
  <2> QED
    BY <1>2, <2>1, <2>2, <2>3 DEF AccountingOK, LockAccounting
<1>4. CASE f \notin WFiles
  <2>1. (locked \cap RFiles)' = R \ {f} /\ (locked \cap WFiles)' = W /\ f \in R
    BY <1>4 DEF DropLock, RFiles, TypeOK
  <2>2. /\ Cardinality(R \ {f}) = Cardinality(R) - 1 /\ Cardinality(R) # 0
        /\ Cardinality(R) \in Nat
    BY <1>1, <2>1, CardinalityStep
  <2>3. /\ num_write' = num_write /\ num_read' = num_read - 1
        /\ write_locking_pids' = write_locking_pids
    BY <1>4 DEF DropLock
  <2> HIDE DEF W, R
  <2>4. num_read >= 1 /\ num_write = 0
    BY <1>2, <2>2
  <2>5. Cardinality(R \ {f}) <= num_read'
    BY <1>2, <2>2, <2>3
  <2>6. num_write' = 0 /\ Cardinality(W) = 0 /\ write_locking_pids' = NoProc
    BY <1>2, <2>3, <2>4
  <2>7. AccountingOK'
    BY <2>1, <2>5, <2>6 DEF AccountingOK, LockAccounting
  <2> QED
    BY <1>2, <2>4, <2>6, <2>7
<1> QED
  BY <1>3, <1>4

(* With the counters right, a write lock excludes every other lock. *)
LEMMA AccountingExcludes ==
  ASSUME TypeOK, AccountingOK
  PROVE  LockExclusion
<1> SUFFICES ASSUME NEW f \in locked \cap WFiles, NEW g \in locked, g # f
             PROVE  FALSE
  BY DEF LockExclusion
<1>1. Cardinality(locked \cap WFiles) = 1
  BY LockedFinite, FS_EmptySet DEF AccountingOK, LockAccounting
<1>2. locked \cap WFiles = {f}
  BY <1>1, LockedFinite, FS_Singleton
<1>3. g \in locked \cap RFiles
  BY <1>2 DEF RFiles, TypeOK
<1>4. Cardinality(locked \cap RFiles) # 0
  BY <1>3, LockedFinite, FS_EmptySet
<1> QED
  BY <1>1, <1>4, LockedFinite DEF AccountingOK, LockAccounting, TypeOK

-----------------------------------------------------------------------------
(* Typing.  Every action but the two that call SkipInvalid is immediate. *)

(* Every step of the driver preserves the types. *)
LEMMA TypeStep ==
  ASSUME IInv, [Next]_vars
  PROVE  TypeOK'
<1> USE OsprdAssumption DEF TypeOK, Steps, Codes
<1>1. ASSUME NEW p \in Procs, NEW f \in Files, Open(p, f) PROVE TypeOK'
  BY <1>1 DEF IInv, Open, lockVars, procVars
<1>2. ASSUME NEW p \in Procs, NEW f \in Files, Close(p, f) PROVE TypeOK'
  BY <1>2 DEF IInv, Close, Section, Unlock, DropLock, UnlinkReader, Return,
              lockVars, procVars
<1>3. ASSUME NEW p \in Procs, NEW f \in Files, AcquireTicket(p, f) PROVE TypeOK'
  BY <1>3 DEF IInv, AcquireTicket, Calls, Section, Unlock, Return, Continue, lockVars
<1>4. ASSUME NEW p \in Procs, NEW f \in Files, TrySnapshot(p, f) PROVE TypeOK'
  BY <1>4 DEF IInv, TrySnapshot, Section, Unlock, Return, Continue, lockVars
<1>5. ASSUME NEW p \in Procs, NEW f \in Files, Release(p, f) PROVE TypeOK'
  BY <1>5 DEF IInv, Release, Section, Unlock, LeakLock, DropLock, UnlinkReader,
              Return, lockVars
<1>6. ASSUME NEW p \in Procs, NEW q \in Procs, NEW f \in Files, ShareFile(p, q, f)
      PROVE  TypeOK'
  BY <1>6 DEF IInv, ShareFile, lockVars, procVars
<1>7. ASSUME NEW p \in Procs, NEW s \in Signals, SendSignal(p, s) PROVE TypeOK'
  BY <1>7 DEF IInv, SendSignal, lockVars
<1>8. ASSUME NEW p \in Procs, Exit(p) PROVE TypeOK'
  BY <1>8 DEF IInv, Exit, lockVars
<1>9. ASSUME NEW p \in Procs, AcquireScan(p) PROVE TypeOK'
  BY <1>9 DEF IInv, AcquireScan, Section, Delivered, Unlock, Return, Continue, lockVars
<1>10. ASSUME NEW p \in Procs, WaitCheck(p) PROVE TypeOK'
  BY <1>10 DEF IInv, WaitCheck, Continue, lockVars
<1>11. ASSUME NEW p \in Procs, Interrupted(p) PROVE TypeOK'
  <2>1. ticket_tail = my_ticket[p] => ticket_tail + 1 <= ticket_head
    BY <1>11 DEF IInv, Interrupted, TicketQueue, Ticketed
  <2>2. ticket_tail = my_ticket[p] => SkipInvalid(ticket_tail + 1) \in Nat
    BY <2>1, SkipInvalidSpec DEF IInv
  <2> QED
    BY <1>11, <2>2 DEF IInv, Interrupted, Delivered, Return, Continue, lockVars
<1>12. ASSUME NEW p \in Procs, Invalidate(p) PROVE TypeOK'
  BY <1>12 DEF IInv, Invalidate, Delivered, Return, lockVars
<1>13. ASSUME NEW p \in Procs, AcquireGrant(p) PROVE TypeOK'
  <2>1. ticket_tail + 1 <= ticket_head
    BY <1>13 DEF IInv, AcquireGrant, GrantReady, Eligible, TicketQueue, Ticketed
  <2>2. SkipInvalid(ticket_tail + 1) \in Nat
    BY <2>1, SkipInvalidSpec DEF IInv
  <2>3. filp[p] \in Files
    BY <1>13 DEF IInv, DriverContext, AcquireGrant
  <2> QED
    BY <1>13, <2>2, <2>3 DEF IInv, AcquireGrant, Section, Delivered, Unlock,
         GrantLock, GrantWrite, GrantRead, Return
<1>14. ASSUME NEW p \in Procs, TryLock(p) PROVE TypeOK'
  <2>1. filp[p] \in Files
    BY <1>14 DEF IInv, DriverContext, TryLock
  <2> QED
    BY <1>14, <2>1 DEF IInv, TryLock, Section, Delivered, Unlock, LeakLock,
         GrantLock, GrantWrite, GrantRead, Return, lockVars
<1>15. CASE UNCHANGED vars
  BY <1>15 DEF IInv, vars, lockVars, procVars
<1> QED
  BY <1>1, <1>2, <1>3, <1>4, <1>5, <1>6, <1>7, <1>8, <1>9, <1>10, <1>11, <1>12,
     <1>13, <1>14, <1>15 DEF Next, DriverStep

-----------------------------------------------------------------------------
(* The lock state *)

(* A step leaves the lock state alone, releases a LOCKED file, or grants the
   lock to a process whose wait condition holds. *)
LEMMA LockChange ==
  ASSUME IInv, [Next]_vars
  PROVE  \/ UNCHANGED lockVars
         \/ \E p \in Procs, f \in locked : DropLock(p, f)
         \/ \E p \in Procs :
              /\ Eligible(p) /\ GrantLock(p, filp[p])
              /\ filp[p] \in Files
<1> DEFINE Goal == \/ UNCHANGED lockVars
                   \/ \E p \in Procs, f \in locked : DropLock(p, f)
                   \/ \E p \in Procs :
                        /\ Eligible(p) /\ GrantLock(p, filp[p])
                        /\ filp[p] \in Files
<1>1. ASSUME NEW p \in Procs, NEW f \in Files,
             \/ Open(p, f) \/ AcquireTicket(p, f) \/ TrySnapshot(p, f)
             \/ Close(p, f) \/ Release(p, f)
      PROVE  Goal
  BY <1>1 DEF Open, AcquireTicket, TrySnapshot, Close, Release
<1>2. ASSUME NEW p \in Procs, NEW q \in Procs, NEW f \in Files, ShareFile(p, q, f)
      PROVE  Goal
  BY <1>2 DEF ShareFile
<1>3. ASSUME NEW p \in Procs, NEW s \in Signals, SendSignal(p, s) PROVE Goal
  BY <1>3 DEF SendSignal
<1>4. ASSUME NEW p \in Procs,
             \/ Exit(p) \/ AcquireScan(p) \/ WaitCheck(p) \/ Interrupted(p)
             \/ Invalidate(p)
      PROVE  Goal
  BY <1>4 DEF Exit, AcquireScan, WaitCheck, Interrupted, Invalidate
<1>5. ASSUME NEW p \in Procs, AcquireGrant(p) PROVE Goal
  BY <1>5 DEF AcquireGrant, IInv, GrantReady, DriverContext
<1>6. ASSUME NEW p \in Procs, TryLock(p) PROVE Goal
  BY <1>6 DEF TryLock, IInv, DriverContext
<1>7. CASE UNCHANGED vars
  BY <1>7 DEF vars
<1> QED
  BY <1>1, <1>2, <1>3, <1>4, <1>5, <1>6, <1>7 DEF Next, DriverStep

(* Every step keeps the counters in step with the LOCKED flags. *)
LEMMA AccountingStep ==
  ASSUME IInv, [Next]_vars
  PROVE  AccountingOK'
<1>0. TypeOK /\ AccountingOK
  BY DEF IInv, AccountingOK
<1>1. CASE UNCHANGED lockVars
  BY <1>0, <1>1 DEF lockVars, AccountingOK, LockAccounting
<1>2. ASSUME NEW p \in Procs, NEW f \in locked, DropLock(p, f) PROVE AccountingOK'
  BY <1>0, <1>2, DropAccounting
<1>3. ASSUME NEW p \in Procs, Eligible(p), GrantLock(p, filp[p]), filp[p] \in Files
      PROVE  AccountingOK'
  BY <1>0, <1>3, GrantAccounting DEF Eligible
<1> QED
  BY <1>1, <1>2, <1>3, LockChange

-----------------------------------------------------------------------------
(* The tickets.  ticket_tail moves only in the two steps that call
   SkipInvalid, and then only past tickets that nobody holds. *)

(* Moving ticket_tail past the ticket of p and the invalid ones skips no other
   outstanding request. *)
LEMMA TailAdvance ==
  ASSUME IInv, NEW p \in Procs, Ticketed(p), ticket_tail = my_ticket[p]
  PROVE  /\ SkipInvalid(ticket_tail + 1) <= ticket_head
         /\ \A q \in Procs : Ticketed(q) /\ q # p
              => SkipInvalid(ticket_tail + 1) <= my_ticket[q]
<1>1. ticket_tail + 1 <= ticket_head /\ ticket_tail + 1 \in Nat
  BY DEF IInv, TypeOK, TicketQueue
<1> DEFINE n == SkipInvalid(ticket_tail + 1)
<1>2. /\ n \in (ticket_tail + 1)..ticket_head
      /\ \A v \in (ticket_tail + 1)..(n - 1) : v \in invalidTicketList
  BY <1>1, SkipInvalidSpec DEF IInv
<1> HIDE DEF n
<1>3. ASSUME NEW q \in Procs, Ticketed(q), q # p PROVE n <= my_ticket[q]
  <2>1. /\ my_ticket[q] # my_ticket[p] /\ ticket_tail <= my_ticket[q]
        /\ my_ticket[q] \notin invalidTicketList /\ my_ticket[q] \in Nat
    BY <1>3 DEF IInv, TicketQueue, TypeOK
  <2> QED
    BY <1>1, <1>2, <2>1 DEF IInv, TypeOK
<1>4. n <= ticket_head
  BY <1>1, <1>2 DEF IInv, TypeOK
<1> QED
  BY <1>3, <1>4 DEF n

(* Every step keeps the outstanding tickets a queue that starts at ticket_tail. *)
LEMMA TicketStep ==
  ASSUME IInv, [Next]_vars
  PROVE  TicketBounds' /\ TicketQueue'
<1> DEFINE Goal == TicketBounds' /\ TicketQueue'
<1> USE DEF IInv, TypeOK, TicketBounds, TicketQueue, Ticketed
<1>1. ASSUME NEW p \in Procs, NEW f \in Files, Open(p, f) PROVE Goal
  BY <1>1 DEF Open, procVars
<1>2. ASSUME NEW p \in Procs, NEW f \in Files, Close(p, f) PROVE Goal
  BY <1>2 DEF Close, Return, procVars
<1>3. ASSUME NEW p \in Procs, NEW f \in Files, AcquireTicket(p, f) PROVE Goal
  BY <1>3 DEF AcquireTicket, Calls, Return, Continue
<1>4. ASSUME NEW p \in Procs, NEW f \in Files, TrySnapshot(p, f) PROVE Goal
  BY <1>4 DEF TrySnapshot, Calls, Return, Continue
<1>5. ASSUME NEW p \in Procs, NEW f \in Files, Release(p, f) PROVE Goal
  BY <1>5 DEF Release, Calls, Return
<1>6. ASSUME NEW p \in Procs, NEW q \in Procs, NEW f \in Files, ShareFile(p, q, f)
      PROVE  Goal
  BY <1>6 DEF ShareFile, procVars
<1>7. ASSUME NEW p \in Procs, NEW s \in Signals, SendSignal(p, s) PROVE Goal
  BY <1>7 DEF SendSignal
<1>8. ASSUME NEW p \in Procs, Exit(p) PROVE Goal
  BY <1>8 DEF Exit
<1>9. ASSUME NEW p \in Procs, AcquireScan(p) PROVE Goal
  BY <1>9 DEF AcquireScan, Return, Continue
<1>10. ASSUME NEW p \in Procs, WaitCheck(p) PROVE Goal
  BY <1>10 DEF WaitCheck, Continue
<1>11. ASSUME NEW p \in Procs, Interrupted(p) PROVE Goal
  <2>1. CASE ticket_tail = my_ticket[p]
    <3>1. /\ SkipInvalid(ticket_tail + 1) <= ticket_head
          /\ \A q \in Procs : Ticketed(q) /\ q # p
               => SkipInvalid(ticket_tail + 1) <= my_ticket[q]
      BY <1>11, <2>1, TailAdvance DEF Interrupted
    <3> QED
      BY <1>11, <2>1, <3>1 DEF Interrupted, Return
  <2>2. CASE ticket_tail # my_ticket[p]
    BY <1>11, <2>2 DEF Interrupted, Continue
  <2> QED
    BY <2>1, <2>2
<1>12. ASSUME NEW p \in Procs, Invalidate(p) PROVE Goal
  BY <1>12 DEF Invalidate, Return
<1>13. ASSUME NEW p \in Procs, AcquireGrant(p) PROVE Goal
  <2>1. /\ SkipInvalid(ticket_tail + 1) <= ticket_head
        /\ \A q \in Procs : Ticketed(q) /\ q # p
             => SkipInvalid(ticket_tail + 1) <= my_ticket[q]
    BY <1>13, TailAdvance DEF AcquireGrant, GrantReady, Eligible
  <2> QED
    BY <1>13, <2>1 DEF AcquireGrant, Return
<1>14. ASSUME NEW p \in Procs, TryLock(p) PROVE Goal
  BY <1>14 DEF TryLock, Return
<1>15. CASE UNCHANGED vars
  BY <1>15 DEF vars, procVars
<1> QED
  BY <1>1, <1>2, <1>3, <1>4, <1>5, <1>6, <1>7, <1>8, <1>9, <1>10, <1>11, <1>12,
     <1>13, <1>14, <1>15 DEF Next, DriverStep

-----------------------------------------------------------------------------
(* Where the processes are in the driver, and who has the CPU *)

(* Every step keeps the processes inside the driver where DriverContext says. *)
LEMMA ContextStep ==
  ASSUME IInv, [Next]_vars
  PROVE  DriverContext'
<1> USE OsprdAssumption DEF IInv, TypeOK, DriverContext, CanRun
<1>1. ASSUME NEW p \in Procs, NEW f \in Files, Open(p, f) PROVE DriverContext'
  BY <1>1 DEF Open, procVars
<1>2. ASSUME NEW p \in Procs, NEW f \in Files, Close(p, f) PROVE DriverContext'
  BY <1>2 DEF Close, Return, procVars
<1>3. ASSUME NEW p \in Procs, NEW f \in Files, AcquireTicket(p, f)
      PROVE  DriverContext'
  BY <1>3 DEF AcquireTicket, Calls, Return, Continue
<1>4. ASSUME NEW p \in Procs, NEW f \in Files, TrySnapshot(p, f) PROVE DriverContext'
  BY <1>4 DEF TrySnapshot, Calls, Return, Continue
<1>5. ASSUME NEW p \in Procs, NEW f \in Files, Release(p, f) PROVE DriverContext'
  BY <1>5 DEF Release, Calls, Return
<1>6. ASSUME NEW p \in Procs, NEW q \in Procs, NEW f \in Files, ShareFile(p, q, f)
      PROVE  DriverContext'
  BY <1>6 DEF ShareFile, procVars
<1>7. ASSUME NEW p \in Procs, NEW s \in Signals, SendSignal(p, s)
      PROVE  DriverContext'
  BY <1>7 DEF SendSignal
<1>8. ASSUME NEW p \in Procs, Exit(p) PROVE DriverContext'
  BY <1>8 DEF Exit
<1>9. ASSUME NEW p \in Procs, AcquireScan(p) PROVE DriverContext'
  BY <1>9 DEF AcquireScan, Return, Continue
<1>10. ASSUME NEW p \in Procs, WaitCheck(p) PROVE DriverContext'
  BY <1>10 DEF WaitCheck, Continue
<1>11. ASSUME NEW p \in Procs, Interrupted(p) PROVE DriverContext'
  BY <1>11 DEF Interrupted, Return, Continue
<1>12. ASSUME NEW p \in Procs, Invalidate(p) PROVE DriverContext'
  BY <1>12 DEF Invalidate, Return
<1>13. ASSUME NEW p \in Procs, AcquireGrant(p) PROVE DriverContext'
  BY <1>13 DEF AcquireGrant, Return
<1>14. ASSUME NEW p \in Procs, TryLock(p) PROVE DriverContext'
  BY <1>14 DEF TryLock, Return
<1>15. CASE UNCHANGED vars
  BY <1>15 DEF vars, procVars
<1> QED
  BY <1>1, <1>2, <1>3, <1>4, <1>5, <1>6, <1>7, <1>8, <1>9, <1>10, <1>11, <1>12,
     <1>13, <1>14, <1>15 DEF Next, DriverStep

(* The heart of the argument: between a request's wait condition and its grant
   nobody else can take the lock.  On a uniprocessor nobody else runs; on the
   other kernels only a request with the same ticket, or TRYACQUIRE, could. *)
LEMMA GrantReadyStep ==
  ASSUME SafeBuild, IInv, [Next]_vars
  PROVE  GrantReady'
<1> USE OsprdAssumption DEF IInv, TypeOK, GrantReady, Eligible, CanRun
<1>0. TypeOK /\ AccountingOK
  BY DEF AccountingOK
<1>d. ASSUME NEW p \in Procs, NEW f \in locked, DropLock(p, f)
      PROVE  (num_write = 0 => num_write' = 0) /\ (num_read = 0 => num_read' = 0)
  BY <1>0, <1>d, DropAccounting
<1>1. ASSUME NEW p \in Procs, NEW f \in Files, Open(p, f) PROVE GrantReady'
  BY <1>1 DEF Open, procVars, lockVars
<1>2. ASSUME NEW p \in Procs, NEW f \in Files, Close(p, f) PROVE GrantReady'
  <2>1. UNCHANGED ticket_tail
    BY <1>2 DEF Close
  <2>2. (num_write = 0 => num_write' = 0) /\ (num_read = 0 => num_read' = 0)
    BY <1>2, <1>d DEF Close, lockVars
  <2>3. \A q \in Procs : pc'[q] = "grant" =>
          pc[q] = "grant" /\ my_ticket'[q] = my_ticket[q] /\ filp'[q] = filp[q]
    BY <1>2 DEF Close, Return, procVars
  <2> QED
    BY <2>1, <2>2, <2>3
<1>3. ASSUME NEW p \in Procs, NEW f \in Files, AcquireTicket(p, f) PROVE GrantReady'
  BY <1>3 DEF AcquireTicket, Calls, Return, Continue, lockVars
<1>4. ASSUME NEW p \in Procs, NEW f \in Files, TrySnapshot(p, f) PROVE GrantReady'
  BY <1>4 DEF TrySnapshot, Calls, Return, Continue, lockVars
<1>5. ASSUME NEW p \in Procs, NEW f \in Files, Release(p, f) PROVE GrantReady'
  <2>1. UNCHANGED ticket_tail
    BY <1>5 DEF Release
  <2>2. (num_write = 0 => num_write' = 0) /\ (num_read = 0 => num_read' = 0)
    BY <1>5, <1>d DEF Release, lockVars
  <2>3. \A q \in Procs : pc'[q] = "grant" =>
          pc[q] = "grant" /\ my_ticket'[q] = my_ticket[q] /\ filp'[q] = filp[q]
    BY <1>5 DEF Release, Return
  <2> QED
    BY <2>1, <2>2, <2>3
<1>6. ASSUME NEW p \in Procs, NEW q \in Procs, NEW f \in Files, ShareFile(p, q, f)
      PROVE  GrantReady'
  BY <1>6 DEF ShareFile, procVars, lockVars
<1>7. ASSUME NEW p \in Procs, NEW s \in Signals, SendSignal(p, s) PROVE GrantReady'
  BY <1>7 DEF SendSignal, lockVars
<1>8. ASSUME NEW p \in Procs, Exit(p) PROVE GrantReady'
  BY <1>8 DEF Exit, lockVars
<1>9. ASSUME NEW p \in Procs, AcquireScan(p) PROVE GrantReady'
  BY <1>9 DEF AcquireScan, Return, Continue, lockVars
<1>10. ASSUME NEW p \in Procs, WaitCheck(p) PROVE GrantReady'
  BY <1>10 DEF WaitCheck, Continue, lockVars
<1>11. ASSUME NEW p \in Procs, Interrupted(p) PROVE GrantReady'
  <2>1. ASSUME NEW q \in Procs, q # p, pc[q] = "grant" PROVE ticket_tail # my_ticket[p]
    BY <1>11, <2>1 DEF Interrupted, TicketQueue, Ticketed
  <2> QED
    BY <1>11, <2>1 DEF Interrupted, Return, Continue, lockVars
<1>12. ASSUME NEW p \in Procs, Invalidate(p) PROVE GrantReady'
  BY <1>12 DEF Invalidate, Return, lockVars
<1>13. ASSUME NEW p \in Procs, AcquireGrant(p) PROVE GrantReady'
  <2>1. \A q \in Procs : q # p => pc[q] # "grant"
    BY <1>13 DEF AcquireGrant, TicketQueue, Ticketed
  <2> QED
    BY <1>13, <2>1 DEF AcquireGrant, Return
<1>14. ASSUME NEW p \in Procs, TryLock(p) PROVE GrantReady'
  <2>1. ~Preempt
    BY <1>14 DEF SafeBuild, DriverContext, TryLock
  <2>2. \A q \in Procs : q # p => pc[q] # "grant"
    BY <1>14, <2>1 DEF DriverContext, TryLock
  <2> QED
    BY <1>14, <2>2 DEF TryLock, Return
<1>15. CASE UNCHANGED vars
  BY <1>15 DEF vars, procVars, lockVars
<1> QED
  BY <1>1, <1>2, <1>3, <1>4, <1>5, <1>6, <1>7, <1>8, <1>9, <1>10, <1>11, <1>12,
     <1>13, <1>14, <1>15 DEF Next, DriverStep

-----------------------------------------------------------------------------
(* The initial state of osprd_setup satisfies the invariant. *)
LEMMA InitInv == Init => IInv
<1> SUFFICES ASSUME Init PROVE IInv
  OBVIOUS
<1>1. TypeOK
  BY DEF Init, TypeOK, Steps, Codes
<1>2. locked \cap WFiles = {} /\ locked \cap RFiles = {}
  BY DEF Init
<1>3. num_write \in {0, 1} /\ LockAccounting
  BY <1>2, FS_EmptySet DEF Init, LockAccounting
<1>4. TicketBounds /\ TicketQueue /\ DriverContext /\ GrantReady
  BY DEF Init, TicketBounds, TicketQueue, Ticketed, DriverContext, GrantReady
<1> QED
  BY <1>1, <1>3, <1>4 DEF IInv

(* The invariant is inductive in every build without a preemptible kernel, and
   in every build whose clients do not use TRYACQUIRE. *)
THEOREM Invariance ==
  ASSUME SafeBuild
  PROVE  Spec => []IInv
<1>1. IInv /\ [Next]_vars => IInv'
  BY TypeStep, AccountingStep, TicketStep, ContextStep, GrantReadyStep
     DEF IInv, AccountingOK
<1> QED
  BY <1>1, InitInv, PTL DEF Spec

(* Type correctness of the driver's state, for osprd_ioctl and
   osprd_close_last in any interleaving the build allows. *)
THEOREM TypeCorrect ==
  ASSUME SafeBuild
  PROVE  Spec => []TypeOK
<1>1. IInv => TypeOK
  BY DEF IInv
<1> QED
  BY <1>1, Invariance, PTL

(* A write lock granted by osprd_ioctl excludes every other lock on the
   device, for any number of processes, files, tickets and signals. *)
THEOREM Exclusion ==
  ASSUME SafeBuild
  PROVE  Spec => []LockExclusion
<1>1. IInv => LockExclusion
  BY AccountingExcludes DEF IInv, AccountingOK
<1> QED
  BY <1>1, Invariance, PTL

(* The counters of osprd_info_t agree with the LOCKED flags of the files. *)
THEOREM Accounting ==
  ASSUME SafeBuild
  PROVE  Spec => []LockAccounting
<1>1. IInv => LockAccounting
  BY DEF IInv
<1> QED
  BY <1>1, Invariance, PTL

(* The outstanding tickets of blocked requests are distinct and none of them
   is skipped. *)
THEOREM Tickets ==
  ASSUME SafeBuild
  PROVE  Spec => []TicketQueue
<1>1. IInv => TicketQueue
  BY DEF IInv
<1> QED
  BY <1>1, Invariance, PTL

(* Requests are granted in the order of their tickets, and TRYACQUIRE
   overtakes nobody. *)
THEOREM Order ==
  ASSUME SafeBuild
  PROVE  Spec => ServedInOrder
<1> DEFINE InOrder == \A p, q \in Procs :
       /\ pc[p] \in {"grant", "try"} /\ pc'[p] = "user" /\ ret' = "OK"
       /\ q # p /\ Ticketed(q)
       => pc[p] = "grant" /\ my_ticket[p] < my_ticket[q]
<1>1. IInv /\ [Next]_vars => InOrder
  <2> SUFFICES ASSUME IInv, [Next]_vars, NEW p \in Procs, NEW q \in Procs,
                      pc[p] \in {"grant", "try"}, pc'[p] = "user", ret' = "OK",
                      q # p, Ticketed(q)
               PROVE  pc[p] = "grant" /\ my_ticket[p] < my_ticket[q]
    OBVIOUS
  <2>1. CASE pc[p] = "grant"
    BY <2>1 DEF IInv, TypeOK, GrantReady, Eligible, TicketQueue, Ticketed
  <2>2. CASE pc[p] = "try"
    <3>1. ~Preempt /\ my_ticket[p] = ticket_head /\ cpu = p
      BY <2>2 DEF SafeBuild, IInv, DriverContext
    <3>2. TryLock(p)
      <4>1. ASSUME NEW r \in Procs, NEW f \in Files,
                   \/ Open(r, f) \/ AcquireTicket(r, f) \/ TrySnapshot(r, f)
                   \/ Close(r, f) \/ Release(r, f)
            PROVE  FALSE
        BY <2>2, <3>1, <4>1, OsprdAssumption
           DEF Open, AcquireTicket, TrySnapshot, Close, Release, Calls, CanRun
      <4>2. ASSUME NEW r \in Procs, NEW t \in Procs, NEW f \in Files,
                   ShareFile(r, t, f)
            PROVE  FALSE
        BY <2>2, <3>1, <4>2, OsprdAssumption DEF ShareFile, Calls, CanRun
      <4>3. ASSUME NEW r \in Procs, NEW s \in Signals, SendSignal(r, s) PROVE FALSE
        BY <3>1, <4>3, OsprdAssumption DEF SendSignal
      <4>4. ASSUME NEW r \in Procs, Exit(r) PROVE FALSE
        BY <2>2, <4>4 DEF Exit
      <4>5. ASSUME NEW r \in Procs, DriverStep(r) PROVE r = p /\ TryLock(p)
        BY <2>2, <3>1, <4>5, OsprdAssumption
           DEF DriverStep, AcquireScan, WaitCheck, Interrupted, Invalidate,
               AcquireGrant, TryLock, CanRun
      <4>6. CASE UNCHANGED vars
        BY <2>2, <4>6 DEF vars, procVars
      <4> QED
        BY <4>1, <4>2, <4>3, <4>4, <4>5, <4>6 DEF Next
    <3>3. ticket_tail = ticket_head
      BY <3>1, <3>2 DEF TryLock, Eligible, Return
    <3> QED
      BY <3>3 DEF IInv, TicketQueue, TypeOK
  <2> QED
    BY <2>1, <2>2
<1>2. IInv /\ [Next]_vars => [InOrder]_vars
  BY <1>1
<1> QED
  BY <1>2, Invariance, PTL DEF Spec, ServedInOrder
-----------------------------------------------------------------------------
(* Who can still release a lock.  This part needs no assumption on the build. *)

(* inside the driver a process works on a file it has open *)
DriverHolds ==
  /\ holders \in [Files -> SUBSET Procs] /\ locked \subseteq Files
  /\ pc \in [Procs -> Steps] /\ filp \in [Procs -> Files \cup {NoFile}]
  /\ \A p \in Procs : pc[p] # "user" => filp[p] \in Files /\ p \in holders[filp[p]]

(* Every step keeps the files of the processes in the driver open, and a lock
   is granted only on such a file and released by its last close. *)
LEMMA HoldersStep ==
  ASSUME DriverHolds, LocksHaveHolders, [Next]_vars
  PROVE  DriverHolds' /\ LocksHaveHolders'
<1> DEFINE Goal == DriverHolds' /\ LocksHaveHolders'
<1> USE DEF DriverHolds, LocksHaveHolders, Steps
<1>1. ASSUME NEW p \in Procs, NEW f \in Files, Open(p, f) PROVE Goal
  BY <1>1 DEF Open, lockVars, procVars
<1>2. ASSUME NEW p \in Procs, NEW f \in Files, Close(p, f) PROVE Goal
  BY <1>2 DEF Close, DropLock, Return, lockVars, procVars
<1>3. ASSUME NEW p \in Procs, NEW f \in Files, AcquireTicket(p, f) PROVE Goal
  BY <1>3 DEF AcquireTicket, Calls, Return, Continue, lockVars
<1>4. ASSUME NEW p \in Procs, NEW f \in Files, TrySnapshot(p, f) PROVE Goal
  BY <1>4 DEF TrySnapshot, Calls, Return, Continue, lockVars
<1>5. ASSUME NEW p \in Procs, NEW f \in Files, Release(p, f) PROVE Goal
  BY <1>5 DEF Release, Calls, DropLock, Return, lockVars
<1>6. ASSUME NEW p \in Procs, NEW q \in Procs, NEW f \in Files, ShareFile(p, q, f)
      PROVE  Goal
  BY <1>6 DEF ShareFile, lockVars, procVars
<1>7. ASSUME NEW p \in Procs, NEW s \in Signals, SendSignal(p, s) PROVE Goal
  BY <1>7 DEF SendSignal, lockVars
<1>8. ASSUME NEW p \in Procs, Exit(p) PROVE Goal
  BY <1>8 DEF Exit, lockVars
<1>9. ASSUME NEW p \in Procs, AcquireScan(p) PROVE Goal
  BY <1>9 DEF AcquireScan, Return, Continue, lockVars
<1>10. ASSUME NEW p \in Procs, WaitCheck(p) PROVE Goal
  BY <1>10 DEF WaitCheck, Continue, lockVars
<1>11. ASSUME NEW p \in Procs, Interrupted(p) PROVE Goal
  BY <1>11 DEF Interrupted, Return, Continue, lockVars
<1>12. ASSUME NEW p \in Procs, Invalidate(p) PROVE Goal
  BY <1>12 DEF Invalidate, Return, lockVars
<1>13. ASSUME NEW p \in Procs, AcquireGrant(p) PROVE Goal
  BY <1>13 DEF AcquireGrant, GrantLock, GrantWrite, GrantRead, Return
<1>14. ASSUME NEW p \in Procs, TryLock(p) PROVE Goal
  BY <1>14 DEF TryLock, GrantLock, GrantWrite, GrantRead, Return, lockVars
<1>15. CASE UNCHANGED vars
  BY <1>15 DEF vars, lockVars, procVars
<1> QED
  BY <1>1, <1>2, <1>3, <1>4, <1>5, <1>6, <1>7, <1>8, <1>9, <1>10, <1>11, <1>12,
     <1>13, <1>14, <1>15 DEF Next, DriverStep

(* In every build, also the preemptible ones with TRYACQUIRE, a LOCKED file is
   open in some process: osprd_close_last can still release its lock. *)
THEOREM NoLockForgotten == Spec => []LocksHaveHolders
<1>1. Init => DriverHolds /\ LocksHaveHolders
  BY DEF Init, DriverHolds, LocksHaveHolders, Steps
<1>2. DriverHolds /\ LocksHaveHolders /\ [Next]_vars
        => DriverHolds' /\ LocksHaveHolders'
  BY HoldersStep
<1> QED
  BY <1>1, <1>2, PTL DEF Spec

-----------------------------------------------------------------------------
(* The ticket being served, on a uniprocessor *)

(* between the test of an interrupted request and its entry in the list of
   invalid tickets nobody moves ticket_tail *)
TailInv ==
  /\ TailLive
  /\ \A p \in Procs : pc[p] = "invalidate" => ticket_tail # my_ticket[p]

(* SkipInvalid leaves no invalid ticket to be served. *)
LEMMA TailInvStep ==
  ASSUME ~Preempt, IInv, TailInv, [Next]_vars
  PROVE  TailInv'
<1> USE OsprdAssumption DEF IInv, TypeOK, TailInv, TailLive, DriverContext, CanRun
<1>1. ASSUME NEW p \in Procs, NEW f \in Files, Open(p, f) PROVE TailInv'
  BY <1>1 DEF Open, procVars
<1>2. ASSUME NEW p \in Procs, NEW f \in Files, Close(p, f) PROVE TailInv'
  BY <1>2 DEF Close, Return, procVars
<1>3. ASSUME NEW p \in Procs, NEW f \in Files, AcquireTicket(p, f) PROVE TailInv'
  BY <1>3 DEF AcquireTicket, Calls, Return, Continue
<1>4. ASSUME NEW p \in Procs, NEW f \in Files, TrySnapshot(p, f) PROVE TailInv'
  BY <1>4 DEF TrySnapshot, Calls, Return, Continue
<1>5. ASSUME NEW p \in Procs, NEW f \in Files, Release(p, f) PROVE TailInv'
  BY <1>5 DEF Release, Calls, Return
<1>6. ASSUME NEW p \in Procs, NEW q \in Procs, NEW f \in Files, ShareFile(p, q, f)
      PROVE  TailInv'
  BY <1>6 DEF ShareFile, procVars
<1>7. ASSUME NEW p \in Procs, NEW s \in Signals, SendSignal(p, s) PROVE TailInv'
  BY <1>7 DEF SendSignal
<1>8. ASSUME NEW p \in Procs, Exit(p) PROVE TailInv'
  BY <1>8 DEF Exit
<1>9. ASSUME NEW p \in Procs, AcquireScan(p) PROVE TailInv'
  BY <1>9 DEF AcquireScan, Return, Continue
<1>10. ASSUME NEW p \in Procs, WaitCheck(p) PROVE TailInv'
  BY <1>10 DEF WaitCheck, Continue
<1>11. ASSUME NEW p \in Procs, Interrupted(p) PROVE TailInv'
  <2>1. CASE ticket_tail = my_ticket[p]
    <3>1. ticket_tail + 1 \in Nat /\ ticket_tail + 1 <= ticket_head
      BY <1>11, <2>1 DEF Interrupted, TicketQueue, Ticketed
    <3>2. SkipInvalid(ticket_tail + 1) \notin invalidTicketList
      BY <3>1, SkipInvalidSpec
    <3>3. \A q \in Procs : q # p => pc[q] # "invalidate"
      BY <1>11 DEF Interrupted
    <3> QED
      BY <1>11, <2>1, <3>2, <3>3 DEF Interrupted, Return
  <2>2. CASE ticket_tail # my_ticket[p]
    BY <1>11, <2>2 DEF Interrupted, Continue
  <2> QED
    BY <2>1, <2>2
<1>12. ASSUME NEW p \in Procs, Invalidate(p) PROVE TailInv'
  BY <1>12 DEF Invalidate, Return
<1>13. ASSUME NEW p \in Procs, AcquireGrant(p) PROVE TailInv'
  <2>1. ticket_tail + 1 \in Nat /\ ticket_tail + 1 <= ticket_head
    BY <1>13 DEF AcquireGrant, GrantReady, Eligible, TicketQueue, Ticketed
  <2>2. SkipInvalid(ticket_tail + 1) \notin invalidTicketList
    BY <2>1, SkipInvalidSpec
  <2>3. \A q \in Procs : q # p => pc[q] # "invalidate"
    BY <1>13 DEF AcquireGrant
  <2> QED
    BY <1>13, <2>2, <2>3 DEF AcquireGrant, Return
<1>14. ASSUME NEW p \in Procs, TryLock(p) PROVE TailInv'
  BY <1>14 DEF TryLock, Return
<1>15. CASE UNCHANGED vars
  BY <1>15 DEF vars, procVars
<1> QED
  BY <1>1, <1>2, <1>3, <1>4, <1>5, <1>6, <1>7, <1>8, <1>9, <1>10, <1>11, <1>12,
     <1>13, <1>14, <1>15 DEF Next, DriverStep

(* On a uniprocessor the ticket being served is never one that was given up,
   however many requests are interrupted.  The assumption is needed: with
   preemption ticket_tail can reach a ticket just before it becomes invalid. *)
THEOREM TailStaysLive ==
  ASSUME ~Preempt
  PROVE  Spec => []TailLive
<1>1. SafeBuild
  BY DEF SafeBuild
<1>2. Spec => []IInv
  BY <1>1, Invariance
<1>3. Init => TailInv
  BY DEF Init, TailInv, TailLive
<1>4. IInv /\ TailInv /\ [Next]_vars => TailInv'
  BY TailInvStep
<1>5. TailInv => TailLive
  BY DEF TailInv
<1> QED
  BY <1>2, <1>3, <1>4, <1>5, PTL DEF Spec

-----------------------------------------------------------------------------
(* The read count, for clients that ask for one lock at a time *)

(* a file is open in one process only, is not locked while its process asks
   for a lock, and every read lock is counted once *)
ExactCount ==
  /\ \A f \in Files : \A p, q \in holders[f] : p = q
  /\ \A p \in Procs : pc[p] # "user" => filp[p] \notin locked
  /\ num_read = Cardinality(locked \cap RFiles)
  /\ \A p \in Procs : pc[p] # "try"

PoliteClients == Polite /\ ~Shares /\ "TRYACQUIRE" \notin Ops

(* Granting the lock of a file that is not locked counts it. *)
LEMMA GrantCounts ==
  ASSUME TypeOK, NEW p \in Procs, NEW f \in Files, f \notin locked, GrantLock(p, f),
         num_read = Cardinality(locked \cap RFiles)
  PROVE  num_read' = Cardinality(locked' \cap RFiles)
<1>1. CASE f \in WFiles
  <2>1. locked' \cap RFiles = locked \cap RFiles
    BY <1>1 DEF GrantLock, GrantWrite, RFiles
  <2> QED
    BY <1>1, <2>1 DEF GrantLock, GrantWrite
<1>2. CASE f \notin WFiles
  <2>1. locked' \cap RFiles = (locked \cap RFiles) \cup {f} /\ f \notin locked \cap RFiles
    BY <1>2 DEF GrantLock, GrantRead, RFiles
  <2>2. Cardinality((locked \cap RFiles) \cup {f}) = Cardinality(locked \cap RFiles) + 1
    BY <2>1, LockedFinite, CardinalityStep
  <2> QED
    BY <1>2, <2>1, <2>2 DEF GrantLock, GrantRead
<1> QED
  BY <1>1, <1>2

(* Releasing a LOCKED file uncounts it. *)
LEMMA DropUncounts ==
  ASSUME TypeOK, NEW p \in Procs, NEW f \in locked, DropLock(p, f),
         num_read = Cardinality(locked \cap RFiles)
  PROVE  num_read' = Cardinality(locked' \cap RFiles)
<1>1. CASE f \in WFiles
  <2>1. locked' \cap RFiles = locked \cap RFiles
    BY <1>1 DEF DropLock, RFiles
  <2> QED
    BY <1>1, <2>1 DEF DropLock
<1>2. CASE f \notin WFiles
  <2>1. locked' \cap RFiles = (locked \cap RFiles) \ {f} /\ f \in locked \cap RFiles
    BY <1>2 DEF DropLock, RFiles, TypeOK
  <2>2. Cardinality((locked \cap RFiles) \ {f}) = Cardinality(locked \cap RFiles) - 1
    BY <2>1, LockedFinite, CardinalityStep
  <2> QED
    BY <1>2, <2>1, <2>2 DEF DropLock
<1> QED
  BY <1>1, <1>2

(* Every step of polite clients keeps the count exact. *)
LEMMA ExactCountStep ==
  ASSUME PoliteClients, IInv, DriverHolds, ExactCount, [Next]_vars
  PROVE  ExactCount'
<1> USE OsprdAssumption DEF PoliteClients, IInv, DriverHolds, ExactCount
<1>1. ASSUME NEW p \in Procs, NEW f \in Files, Open(p, f) PROVE ExactCount'
  BY <1>1 DEF Open, lockVars, procVars
<1>2. ASSUME NEW p \in Procs, NEW f \in Files, Close(p, f) PROVE ExactCount'
  <2>0. (f \in locked /\ DropLock(p, f)) \/ UNCHANGED lockVars
    BY <1>2 DEF Close
  <2>1. num_read' = Cardinality(locked' \cap RFiles)
    <3>1. CASE UNCHANGED lockVars
      BY <3>1 DEF lockVars
    <3> QED
      BY <2>0, <3>1, DropUncounts
  <2>2. locked' \subseteq locked
    <3>1. CASE UNCHANGED lockVars
      BY <3>1 DEF lockVars
    <3>2. CASE DropLock(p, f)
      BY <3>2 DEF DropLock
    <3> QED
      BY <2>0, <3>1, <3>2
  <2>3. /\ \A q \in Procs : pc'[q] # "try" /\ (pc'[q] # "user" => pc[q] # "user" /\ filp'[q] = filp[q])
        /\ holders' = [holders EXCEPT ![f] = @ \ {p}]
    BY <1>2 DEF Close, Return, procVars
  <2> QED
    BY <2>1, <2>2, <2>3
<1>3. ASSUME NEW p \in Procs, NEW f \in Files, AcquireTicket(p, f) PROVE ExactCount'
  BY <1>3 DEF AcquireTicket, Calls, MayAcquire, Return, Continue, lockVars
<1>4. ASSUME NEW p \in Procs, NEW f \in Files, TrySnapshot(p, f) PROVE ExactCount'
  BY <1>4 DEF TrySnapshot
<1>5. ASSUME NEW p \in Procs, NEW f \in Files, Release(p, f) PROVE ExactCount'
  <2>0. (f \in locked /\ DropLock(p, f)) \/ UNCHANGED lockVars
    BY <1>5 DEF Release
  <2>1. num_read' = Cardinality(locked' \cap RFiles)
    <3>1. CASE UNCHANGED lockVars
      BY <3>1 DEF lockVars
    <3> QED
      BY <2>0, <3>1, DropUncounts
  <2>2. locked' \subseteq locked
    <3>1. CASE UNCHANGED lockVars
      BY <3>1 DEF lockVars
    <3>2. CASE DropLock(p, f)
      BY <3>2 DEF DropLock
    <3> QED
      BY <2>0, <3>1, <3>2
  <2>3. /\ \A q \in Procs : pc'[q] # "try" /\ (pc'[q] # "user" => pc[q] # "user" /\ filp'[q] = filp[q])
        /\ holders' = holders
    BY <1>5 DEF Release, Return
  <2> QED
    BY <2>1, <2>2, <2>3
<1>6. ASSUME NEW p \in Procs, NEW q \in Procs, NEW f \in Files, ShareFile(p, q, f)
      PROVE  ExactCount'
  BY <1>6 DEF ShareFile
<1>7. ASSUME NEW p \in Procs, NEW s \in Signals, SendSignal(p, s) PROVE ExactCount'
  BY <1>7 DEF SendSignal, lockVars
<1>8. ASSUME NEW p \in Procs, Exit(p) PROVE ExactCount'
  BY <1>8 DEF Exit, lockVars
<1>9. ASSUME NEW p \in Procs, AcquireScan(p) PROVE ExactCount'
  BY <1>9 DEF AcquireScan, Return, Continue, lockVars
<1>10. ASSUME NEW p \in Procs, WaitCheck(p) PROVE ExactCount'
  BY <1>10 DEF WaitCheck, Continue, lockVars
<1>11. ASSUME NEW p \in Procs, Interrupted(p) PROVE ExactCount'
  BY <1>11 DEF Interrupted, Return, Continue, lockVars
<1>12. ASSUME NEW p \in Procs, Invalidate(p) PROVE ExactCount'
  BY <1>12 DEF Invalidate, Return, lockVars
<1>13. ASSUME NEW p \in Procs, AcquireGrant(p) PROVE ExactCount'
  <2>1. filp[p] \in Files /\ filp[p] \notin locked /\ p \in holders[filp[p]]
    BY <1>13 DEF AcquireGrant
  <2>2. num_read' = Cardinality(locked' \cap RFiles)
    BY <1>13, <2>1, GrantCounts DEF AcquireGrant
  <2>3. locked' = locked \cup {filp[p]} /\ holders' = holders
    BY <1>13 DEF AcquireGrant, GrantLock, GrantWrite, GrantRead
  <2>4. \A q \in Procs : pc'[q] # "try" /\
          (pc'[q] # "user" => q # p /\ pc[q] # "user" /\ filp'[q] = filp[q])
    BY <1>13 DEF AcquireGrant, Return
  <2> QED
    BY <2>1, <2>2, <2>3, <2>4
<1>14. ASSUME NEW p \in Procs, TryLock(p) PROVE ExactCount'
  BY <1>14 DEF TryLock
<1>15. CASE UNCHANGED vars
  BY <1>15 DEF vars, lockVars, procVars
<1> QED
  BY <1>1, <1>2, <1>3, <1>4, <1>5, <1>6, <1>7, <1>8, <1>9, <1>10, <1>11, <1>12,
     <1>13, <1>14, <1>15 DEF Next, DriverStep

(* With clients that open their own files and ask with ACQUIRE for one lock at
   a time, on any kernel, the read count is back at 0 when nothing is locked. *)
THEOREM CountsReturn ==
  ASSUME PoliteClients
  PROVE  Spec => []QuiescentCounts
<1>1. Spec => []IInv
  BY Invariance DEF SafeBuild, PoliteClients
<1>2. Init => DriverHolds /\ LocksHaveHolders /\ ExactCount
  <2>1. Init => locked \cap RFiles = {}
    BY DEF Init
  <2> QED
    BY <2>1, FS_EmptySet DEF Init, DriverHolds, LocksHaveHolders, ExactCount, Steps
<1>3. /\ IInv /\ DriverHolds /\ LocksHaveHolders /\ ExactCount /\ [Next]_vars
      => DriverHolds' /\ LocksHaveHolders' /\ ExactCount'
  BY HoldersStep, ExactCountStep
<1>4. ExactCount => QuiescentCounts
  <2> SUFFICES ASSUME ExactCount, locked = {} PROVE num_read = 0
    BY DEF QuiescentCounts
  <2>1. locked \cap RFiles = {}
    OBVIOUS
  <2> QED
    BY <2>1, FS_EmptySet DEF ExactCount
<1> QED
  BY <1>1, <1>2, <1>3, <1>4, PTL DEF Spec

-----------------------------------------------------------------------------
(* The abstract lock.  Three lemmas say what a step does to the queue of RWLock
   when it takes no process into it, one out of it, or a new one into it. *)

(* the processes of P keep their tickets and files *)
SameRequests(P) == \A q \in P : filp'[q] = filp[q] /\ my_ticket'[q] = my_ticket[q]

(* Nobody joins or leaves. *)
LEMMA QueueSame ==
  ASSUME Waits' = Waits, SameRequests(Waits)
  PROVE  /\ [p \in Waits |-> filp[p]]' = [p \in Waits |-> filp[p]]
         /\ [p \in Waits |-> Ahead(p)]' = [p \in Waits |-> Ahead(p)]
<1>1. [p \in Waits |-> filp[p]]' = [p \in Waits |-> filp[p]]
  BY DEF SameRequests
<1>2. \A p \in Waits : Ahead(p)' = Ahead(p)
  BY DEF SameRequests, Ahead
<1> QED
  BY <1>1, <1>2

(* p leaves, the others stay. *)
LEMMA QueueLeave ==
  ASSUME NEW p \in Waits, Waits' = Waits \ {p}, SameRequests(Waits \ {p})
  PROVE  Abstract!Leave(p)
<1>1. Abstract!Waiting = Waits /\ Abstract!Waiting' = Waits \ {p}
  BY DEF Abstract!Waiting
<1>2. [q \in Waits |-> filp[q]]' = [q \in Waits \ {p} |-> [r \in Waits |-> filp[r]][q]]
  BY DEF SameRequests
<1>3. \A q \in Waits \ {p} : Ahead(q)' = Ahead(q) \ {p}
  BY DEF SameRequests, Ahead
<1>4. [q \in Waits |-> Ahead(q)]' = [q \in Waits \ {p} |-> [r \in Waits |-> Ahead(r)][q] \ {p}]
  BY <1>3
<1> QED
  BY <1>1, <1>2, <1>4 DEF Abstract!Leave

(* p joins with a ticket behind all others. *)
LEMMA QueueJoin ==
  ASSUME NEW p \in Procs, p \notin Waits, Waits' = Waits \cup {p}, SameRequests(Waits),
         NEW f, filp'[p] = f, NEW t \in Nat, my_ticket'[p] = t,
         \A q \in Waits : my_ticket[q] \in Nat /\ my_ticket[q] < t, UNCHANGED locked
  PROVE  Abstract!Request(p, f)
<1>1. Abstract!Waiting = Waits /\ Abstract!Waiting' = Waits \cup {p}
  BY DEF Abstract!Waiting
<1>2. [q \in Waits |-> filp[q]]'
        = [q \in Waits \cup {p} |-> IF q = p THEN f ELSE [r \in Waits |-> filp[r]][q]]
  BY DEF SameRequests
<1>3. Ahead(p)' = Waits
  BY DEF SameRequests, Ahead
<1>4. \A q \in Waits : Ahead(q)' = Ahead(q)
  BY DEF SameRequests, Ahead
<1>5. [q \in Waits |-> Ahead(q)]'
        = [q \in Waits \cup {p} |-> IF q = p THEN Waits ELSE [r \in Waits |-> Ahead(r)][q]]
  BY <1>3, <1>4
<1> QED
  BY <1>1, <1>2, <1>5 DEF Abstract!Request

(* Every step of the driver is a step of the abstract lock, or none. *)
LEMMA AbstractStep ==
  ASSUME SafeBuild, IInv, [Next]_vars
  PROVE  [Abstract!Next]_(Abstract!vars)
<1> DEFINE Goal == [Abstract!Next]_(Abstract!vars)
<1> USE OsprdAssumption DEF IInv, TypeOK
<1>a. Abstract!Waiting = Waits /\ \A p \in Procs : p \in Waits <=> Ticketed(p)
  BY DEF Abstract!Waiting, Waits
<1>b. ASSUME Waits' = Waits, SameRequests(Waits), UNCHANGED locked PROVE Goal
  BY <1>b, QueueSame DEF Abstract!vars
<1>c. ASSUME Waits' = Waits, SameRequests(Waits), NEW f \in locked, locked' = locked \ {f}
      PROVE  Goal
  <2>1. Abstract!Unlock(f) /\ f \in Files
    BY <1>c, QueueSame DEF Abstract!Unlock
  <2> QED
    BY <2>1 DEF Abstract!Next
<1>e. ASSUME NEW p \in Procs, p \in Waits, Waits' = Waits \ {p}, SameRequests(Waits \ {p}),
             UNCHANGED locked
      PROVE  Goal
  <2>1. Abstract!Withdraw(p)
    BY <1>e, QueueLeave DEF Abstract!Withdraw
  <2> QED
    BY <1>a, <1>e, <2>1 DEF Abstract!Next
<1>f. ASSUME num_write = 0, NEW f \in Files, f \in WFiles => num_read = 0
      PROVE  Abstract!Compatible(f)
  <2>1. IsFiniteSet(locked \cap WFiles) /\ IsFiniteSet(locked \cap RFiles)
    BY LockedFinite
  <2>2. locked \cap WFiles = {} /\ (num_read = 0 => locked \cap RFiles = {})
    <3>1. Cardinality(locked \cap WFiles) = 0
      BY <1>f DEF LockAccounting
    <3>2. num_read = 0 => Cardinality(locked \cap RFiles) = 0
      BY <2>1, FS_CardinalityType DEF LockAccounting
    <3> QED
      BY <2>1, <3>1, <3>2, FS_EmptySet
  <2> QED
    BY <1>f, <2>2 DEF Abstract!Compatible, RFiles
<1>1. ASSUME NEW p \in Procs, NEW f \in Files, Open(p, f) PROVE Goal
  BY <1>1, <1>b DEF Open, procVars, lockVars, Waits, Ticketed, SameRequests
<1>2. ASSUME NEW p \in Procs, NEW f \in Files, Close(p, f) PROVE Goal
  <2>1. Waits' = Waits /\ SameRequests(Waits)
    BY <1>2 DEF Close, Return, procVars, Waits, Ticketed, SameRequests
  <2>2. UNCHANGED locked \/ (f \in locked /\ locked' = locked \ {f})
    BY <1>2 DEF Close, DropLock, lockVars
  <2> QED
    BY <1>b, <1>c, <2>1, <2>2
<1>3. ASSUME NEW p \in Procs, NEW f \in Files, AcquireTicket(p, f) PROVE Goal
  <2>1. UNCHANGED locked /\ p \notin Waits
    BY <1>3 DEF AcquireTicket, Calls, lockVars, Waits, Ticketed
  <2>2. CASE p = write_locking_pids
    BY <1>3, <1>b, <2>1, <2>2 DEF AcquireTicket, Return, Waits, Ticketed, SameRequests
  <2>3. CASE p # write_locking_pids
    <3>1. Waits' = Waits \cup {p} /\ SameRequests(Waits)
      BY <1>3, <2>1, <2>3 DEF AcquireTicket, Continue, Waits, Ticketed, SameRequests
    <3>2. filp'[p] = f /\ my_ticket'[p] = ticket_head
      BY <1>3, <2>3 DEF AcquireTicket
    <3>3. \A q \in Waits : my_ticket[q] \in Nat /\ my_ticket[q] < ticket_head
      BY DEF Waits, TicketQueue
    <3>4. Abstract!Request(p, f)
      BY <2>1, <3>1, <3>2, <3>3, QueueJoin
    <3> QED
      BY <3>4 DEF Abstract!Next
  <2> QED
    BY <2>2, <2>3
<1>4. ASSUME NEW p \in Procs, NEW f \in Files, TrySnapshot(p, f) PROVE Goal
  BY <1>4, <1>b DEF TrySnapshot, Calls, Return, Continue, lockVars, Waits, Ticketed, SameRequests
<1>5. ASSUME NEW p \in Procs, NEW f \in Files, Release(p, f) PROVE Goal
  <2>1. Waits' = Waits /\ SameRequests(Waits)
    BY <1>5 DEF Release, Calls, Return, Waits, Ticketed, SameRequests
  <2>2. UNCHANGED locked \/ (f \in locked /\ locked' = locked \ {f})
    BY <1>5 DEF Release, DropLock, lockVars
  <2> QED
    BY <1>b, <1>c, <2>1, <2>2
<1>6. ASSUME NEW p \in Procs, NEW q \in Procs, NEW f \in Files, ShareFile(p, q, f)
      PROVE  Goal
  BY <1>6, <1>b DEF ShareFile, procVars, lockVars, Waits, Ticketed, SameRequests
<1>7. ASSUME NEW p \in Procs, NEW s \in Signals, SendSignal(p, s) PROVE Goal
  BY <1>7, <1>b DEF SendSignal, lockVars, Waits, Ticketed, SameRequests
<1>8. ASSUME NEW p \in Procs, Exit(p) PROVE Goal
  BY <1>8, <1>b DEF Exit, lockVars, Waits, Ticketed, SameRequests
<1>9. ASSUME NEW p \in Procs, AcquireScan(p) PROVE Goal
  BY <1>9, <1>b, <1>e DEF AcquireScan, Return, Continue, lockVars, Waits, Ticketed, SameRequests
<1>10. ASSUME NEW p \in Procs, WaitCheck(p) PROVE Goal
  BY <1>10, <1>b DEF WaitCheck, Continue, lockVars, Waits, Ticketed, SameRequests
<1>11. ASSUME NEW p \in Procs, Interrupted(p) PROVE Goal
  BY <1>11, <1>b, <1>e DEF Interrupted, Return, Continue, lockVars, Waits, Ticketed, SameRequests
<1>12. ASSUME NEW p \in Procs, Invalidate(p) PROVE Goal
  BY <1>12, <1>e DEF Invalidate, Return, lockVars, Waits, Ticketed, SameRequests
<1>13. ASSUME NEW p \in Procs, AcquireGrant(p) PROVE Goal
  <2> DEFINE f == filp[p]
  <2>1. f \in Files /\ Eligible(p) /\ p \in Waits
    BY <1>13 DEF AcquireGrant, DriverContext, GrantReady, Waits, Ticketed
  <2>2. Abstract!Compatible(f)
    BY <1>f, <2>1 DEF Eligible
  <2>3. Waits' = Waits \ {p} /\ SameRequests(Waits \ {p})
    BY <1>13 DEF AcquireGrant, Return, Waits, Ticketed, SameRequests
  <2>4. Ahead(p) = {}
    BY <2>1 DEF Eligible, TicketQueue, Waits, Ahead
  <2>5. locked' = locked \cup {f}
    BY <1>13 DEF AcquireGrant, GrantLock, GrantWrite, GrantRead
  <2>6. Abstract!Serve(p)
    BY <1>a, <2>1, <2>2, <2>3, <2>4, <2>5, QueueLeave DEF Abstract!Serve
  <2> QED
    BY <1>a, <2>1, <2>6 DEF Abstract!Next
<1>14. ASSUME NEW p \in Procs, TryLock(p) PROVE Goal
  <2>1. Waits' = Waits /\ SameRequests(Waits)
    BY <1>14 DEF TryLock, Return, Waits, Ticketed, SameRequests
  <2>2. CASE ~Eligible(p)
    BY <1>14, <1>b, <2>1, <2>2 DEF TryLock, lockVars
  <2>3. CASE Eligible(p)
    <3>1. filp[p] \in Files /\ ticket_tail = ticket_head
      BY <1>14, <2>3 DEF SafeBuild, DriverContext, TryLock, Eligible
    <3>2. Waits = {}
      BY <3>1 DEF TicketQueue, Waits
    <3>3. Abstract!Compatible(filp[p])
      BY <1>f, <2>3, <3>1 DEF Eligible
    <3>4. locked' = locked \cup {filp[p]}
      BY <1>14, <2>3 DEF TryLock, GrantLock, GrantWrite, GrantRead
    <3>5. Abstract!TryLock(filp[p])
      BY <1>a, <2>1, <3>2, <3>3, <3>4, QueueSame DEF Abstract!TryLock
    <3> QED
      BY <3>1, <3>5 DEF Abstract!Next
  <2> QED
    BY <2>2, <2>3
<1>15. CASE UNCHANGED vars
  BY <1>15, <1>b DEF vars, lockVars, procVars, Waits, Ticketed, SameRequests
<1> QED
  BY <1>1, <1>2, <1>3, <1>4, <1>5, <1>6, <1>7, <1>8, <1>9, <1>10, <1>11, <1>12,
     <1>13, <1>14, <1>15 DEF Next, DriverStep

(* The ramdisk lock is a first-come first-served reader-writer lock for any
   number of processes and files: every step of osprd_ioctl and osprd_close_last
   is a step of RWLock, in the builds where no TRYACQUIRE can run between a
   request's wait condition and its grant. *)
THEOREM Refinement ==
  ASSUME SafeBuild
  PROVE  Spec => ImplementsRWLock
<1>1. Init => Abstract!Init
  <2> SUFFICES ASSUME Init PROVE Abstract!Init
    OBVIOUS
  <2>1. Waits = {} /\ locked = {}
    BY DEF Init, Waits, Ticketed
  <2> QED
    BY <2>1 DEF Abstract!Init
<1>2. IInv /\ [Next]_vars => [Abstract!Next]_(Abstract!vars)
  BY AbstractStep
<1> QED
  BY <1>1, <1>2, Invariance, PTL DEF Spec, ImplementsRWLock, Abstract!Spec
=============================================================================
