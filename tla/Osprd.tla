------------------------------- MODULE Osprd -------------------------------
(***************************************************************************)
(* The lock protocol of one OSP ramdisk (lab2/osprd.c): the ioctls         *)
(* OSPRDIOCACQUIRE, OSPRDIOCTRYACQUIRE and OSPRDIOCRELEASE, and the close  *)
(* hook, executed by several processes that open files on the device,      *)
(* share them with other processes, and are hit by signals.                *)
(*                                                                         *)
(* One action is one stretch of driver code between two points where       *)
(* another task can run: a critical section of d->mutex or an unlocked     *)
(* piece.  Which tasks can run in between depends on the build             *)
(* (spinlock.h): on a uniprocessor without preemption (Preempt = FALSE) a  *)
(* task in the kernel keeps the CPU until it sleeps or returns; on an SMP  *)
(* or preemptible kernel (Preempt = TRUE) any task can run at any point.   *)
(***************************************************************************)
EXTENDS Integers, FiniteSets

CONSTANTS
  Procs,       \* the processes (pid_t values)
  Files,       \* the open-file slots of this device (struct file)
  WFiles,      \* the slots whose f_mode has FMODE_WRITE
  NoProc,      \* the pid -1: no process
  NoFile,      \* no file
  Preempt,     \* TRUE for CONFIG_SMP or CONFIG_PREEMPT
  Ops,         \* the ioctls the clients use
  Polite,      \* TRUE if clients ask for one lock at a time
  Signals,     \* the kinds of signal the environment sends to waiters
  Shares,      \* TRUE if files are inherited by fork or passed on
  MaxTicket,   \* bound: ACQUIRE calls of a behaviour
  MaxLeaks,    \* bound: critical sections left without unlocking
  MaxReads     \* bound: read locks counted when TRYACQUIRE is called

AllOps == {"ACQUIRE", "TRYACQUIRE", "RELEASE"}

ASSUME OsprdAssumption ==
  /\ NoProc \notin Procs
  /\ NoFile \notin Files
  /\ IsFiniteSet(Files) /\ WFiles \subseteq Files
  /\ Preempt \in BOOLEAN /\ Polite \in BOOLEAN /\ Shares \in BOOLEAN
  /\ Ops \subseteq AllOps
  /\ Signals \subseteq {"caught", "kill"}
  /\ MaxTicket \in Nat /\ MaxLeaks \in Nat /\ MaxReads \in Nat

VARIABLES
  mutex,               \* d->mutex outside critical sections: 0 free, -n leaked
  ticket_head,         \* the next ticket ACQUIRE hands out
  ticket_tail,         \* the ticket being served
  write_locking_pids,  \* pid of the write-lock holder, NoProc for -1
  num_write, num_read, \* the lock counts
  read_locking_pids,   \* the pids on the read-lock list (only ever searched)
  invalidTicketList,   \* tickets of interrupted waiters (only ever searched)
  holders,             \* holders[f]: processes with a descriptor for f
  locked,              \* the files with F_OSPRD_LOCKED in f_flags
  pc,                  \* where each process is in the driver
  my_ticket, filp,     \* the ioctl's local ticket and file
  sig,                 \* pending signal: "none", "caught" or "kill"
  ret,                 \* what the last step returned to user mode, if it did
  cpu                  \* ~Preempt: the process inside the kernel, or NoProc

lockVars == <<write_locking_pids, num_write, num_read, read_locking_pids, locked>>
procVars == <<pc, my_ticket, filp, cpu>>
vars == <<mutex, ticket_head, ticket_tail, invalidTicketList, holders, sig,
          lockVars, procVars, ret>>

Steps == {"user", "scan", "check", "sleep", "grant", "intr", "invalidate", "try"}
Codes == {"none", "OK", "EBUSY", "EDEADLK", "EINVAL", "ERESTARTSYS"}

(* osprd_setup *)
Init ==
  /\ mutex = 0
  /\ ticket_head = 0 /\ ticket_tail = 0
  /\ write_locking_pids = NoProc /\ num_write = 0
  /\ read_locking_pids = {} /\ num_read = 0
  /\ invalidTicketList = {}
  /\ holders = [f \in Files |-> {}] /\ locked = {}
  /\ pc = [p \in Procs |-> "user"]
  /\ my_ticket = [p \in Procs |-> 0]
  /\ filp = [p \in Procs |-> NoFile]
  /\ sig = [p \in Procs |-> "none"]
  /\ ret = "none"
  /\ cpu = NoProc

-----------------------------------------------------------------------------
(* The CPU, the spinlock and the wait queue *)

CanRun(p) == cpu \in {NoProc, p}

(* p goes on inside the driver, at step s *)
Continue(p, s) ==
  /\ pc' = [pc EXCEPT ![p] = s]
  /\ cpu' = IF Preempt THEN NoProc ELSE p
  /\ ret' = "none"

(* p's call returns with the given code, after waking the queue if it does *)
Return(p, code, wakeAll) ==
  /\ pc' = [q \in Procs |-> IF q = p THEN "user"
                            ELSE IF wakeAll /\ pc[q] = "sleep" THEN "check"
                            ELSE pc[q]]
  /\ cpu' = NoProc
  /\ ret' = code
  /\ filp' = [filp EXCEPT ![p] = NoFile]
  /\ my_ticket' = [my_ticket EXCEPT ![p] = 0]

(* osp_spin_lock ... osp_spin_unlock around a section that p runs; s is the
   value sig[p] has at the end of the action when no SIGKILL is sent.  With the
   counting lock of spinlock.h a lock() on a locked lock sends SIGKILL to the
   caller and goes on; a real spinlock is never obtained. *)
Section(p, s) ==
  /\ Preempt => mutex = 0
  /\ sig' = [sig EXCEPT ![p] = IF mutex < 0 THEN "kill" ELSE s]

(* what remains pending once p is back in user mode *)
Delivered(p) == IF sig[p] = "caught" THEN "none" ELSE sig[p]

Unlock == mutex' = mutex
(* mutant: the early exits unlock twice instead of not at all *)
MutDoubleUnlock == mutex' = mutex + 1

LeakLock == mutex' = mutex - 1
MayLeak == mutex > -MaxLeaks   \* bound, where a call that can leak starts

(* mutant: the tail does not skip invalid tickets *)
MutNoSkip(t) == t

(* for (i = 0; i < num_invalid; ++i) ...: advance t past the invalid tickets *)
SkipInvalid(t) ==
  CHOOSE u \in t..ticket_head :
    /\ u \notin invalidTicketList
    /\ \A v \in t..(u - 1) : v \in invalidTicketList

-----------------------------------------------------------------------------
(* The lock accounting *)

GrantWrite(p, f) ==
  /\ locked' = locked \cup {f}
  /\ num_write' = num_write + 1
  /\ write_locking_pids' = p
  /\ UNCHANGED <<num_read, read_locking_pids>>

GrantRead(p, f) ==
  /\ locked' = locked \cup {f}
  /\ num_read' = num_read + 1
  /\ read_locking_pids' = read_locking_pids \cup {p}
  /\ UNCHANGED <<num_write, write_locking_pids>>

(* mutant: a process is counted once, however many read locks it takes *)
MutCountOnce(p, f) ==
  IF f \in WFiles THEN GrantWrite(p, f)
  ELSE /\ locked' = locked \cup {f}
       /\ num_read' = IF p \in read_locking_pids THEN num_read ELSE num_read + 1
       /\ read_locking_pids' = read_locking_pids \cup {p}
       /\ UNCHANGED <<num_write, write_locking_pids>>

GrantLock(p, f) == IF f \in WFiles THEN GrantWrite(p, f) ELSE GrantRead(p, f)

(* The list walk that should unlink p: temp and next start at the same node
   and advance together, so temp->next = next->next relinks a node to its own
   successor and the list stays as it is. *)
UnlinkReader(pids, p) == pids

(* mutants of DropLock: the pid stays, the flag stays *)
MutDropKeepsPid(p, f) ==
  /\ locked' = locked \ {f}
  /\ IF f \in WFiles
     THEN num_write' = 0 /\ UNCHANGED <<num_read, write_locking_pids>>
     ELSE num_read' = num_read - 1 /\ UNCHANGED <<num_write, write_locking_pids>>
  /\ UNCHANGED read_locking_pids

MutDropKeepsFlag(p, f) ==
  /\ IF f \in WFiles
     THEN num_write' = 0 /\ write_locking_pids' = NoProc /\ UNCHANGED num_read
     ELSE num_read' = num_read - 1 /\ UNCHANGED <<num_write, write_locking_pids>>
  /\ UNCHANGED <<locked, read_locking_pids>>

DropLock(p, f) ==
  /\ locked' = locked \ {f}
  /\ IF f \in WFiles
     THEN /\ num_write' = 0 /\ write_locking_pids' = NoProc
          /\ UNCHANGED <<num_read, read_locking_pids>>
     ELSE /\ num_read' = num_read - 1
          /\ read_locking_pids' = UnlinkReader(read_locking_pids, p)
          /\ UNCHANGED <<num_write, write_locking_pids>>

-----------------------------------------------------------------------------
(* User-level and kernel events around the driver *)

(* p is in user mode and can make a system call on its file f *)
Calls(p, f) ==
  /\ pc[p] = "user" /\ sig[p] = "none" /\ CanRun(p)
  /\ p \in holders[f]

(* osprd_open; a new struct file has no F_OSPRD_LOCKED flag *)
Open(p, f) ==
  /\ pc[p] = "user" /\ sig[p] = "none" /\ CanRun(p)
  /\ holders[f] = {}
  /\ holders' = [holders EXCEPT ![f] = {p}]
  /\ UNCHANGED <<mutex, ticket_head, ticket_tail, invalidTicketList, sig,
                 lockVars, procVars>>
  /\ ret' = "none"

(* q inherits p's file, or receives its descriptor *)
ShareFile(p, q, f) ==
  /\ Shares
  /\ Calls(p, f)
  /\ q \notin holders[f] /\ pc[q] = "user" /\ sig[q] = "none"
  /\ holders' = [holders EXCEPT ![f] = @ \cup {q}]
  /\ UNCHANGED <<mutex, ticket_head, ticket_tail, invalidTicketList, sig,
                 lockVars, procVars>>
  /\ ret' = "none"

(* close(), by the program or when a killed process exits; the last close runs
   osprd_close_last *)
Close(p, f) ==
  /\ pc[p] = "user" /\ CanRun(p)
  /\ p \in holders[f]
  /\ holders' = [holders EXCEPT ![f] = @ \ {p}]
  /\ IF holders[f] = {p}
     THEN /\ Section(p, sig[p])
          /\ Unlock
          /\ IF f \in locked
             THEN DropLock(p, f) /\ Return(p, "OK", TRUE)
             ELSE UNCHANGED lockVars /\ Return(p, "OK", FALSE)
     ELSE UNCHANGED <<mutex, sig, lockVars, procVars>> /\ ret' = "none"
  /\ UNCHANGED <<ticket_head, ticket_tail, invalidTicketList>>

(* a killed process is gone; its pid goes to a new process *)
Exit(p) ==
  /\ pc[p] = "user" /\ sig[p] = "kill"
  /\ \A f \in Files : p \notin holders[f]
  /\ sig' = [sig EXCEPT ![p] = "none"]
  /\ ret' = "none"
  /\ UNCHANGED <<mutex, ticket_head, ticket_tail, invalidTicketList, holders,
                 lockVars, pc, my_ticket, filp, cpu>>

(* a signal reaches a process that blocks in ACQUIRE, and wakes it *)
SendSignal(p, s) ==
  /\ pc[p] \in {"sleep", "check"} /\ cpu = NoProc /\ sig[p] = "none"
  /\ sig' = [sig EXCEPT ![p] = s]
  /\ pc' = [pc EXCEPT ![p] = "check"] /\ ret' = "none"
  /\ UNCHANGED <<mutex, ticket_head, ticket_tail, invalidTicketList, holders,
                 lockVars, my_ticket, filp, cpu>>

-----------------------------------------------------------------------------
(* osprd_ioctl, OSPRDIOCACQUIRE *)

(* a polite client asks only while it holds no lock, and not for a write lock
   once it is on the read list, from which nobody is ever removed *)
MayAcquire(p, f) ==
  Polite => /\ \A g \in locked : p \notin holders[g]
            /\ f \in WFiles => p \notin read_locking_pids

(* First critical section: take a ticket.  A request by the write-lock holder
   is refused; the ticket stays taken. *)
AcquireTicket(p, f) ==
  /\ "ACQUIRE" \in Ops /\ Calls(p, f) /\ MayAcquire(p, f)
  /\ ticket_head < MaxTicket
  /\ Section(p, "none") /\ Unlock
  /\ ticket_head' = ticket_head + 1
  /\ IF p = write_locking_pids
     THEN Return(p, "EDEADLK", FALSE)
     ELSE /\ Continue(p, IF f \in WFiles THEN "scan" ELSE "check")
          /\ my_ticket' = [my_ticket EXCEPT ![p] = ticket_head]
          /\ filp' = [filp EXCEPT ![p] = f]
  /\ UNCHANGED <<ticket_tail, invalidTicketList, holders, lockVars>>

(* A writer looks for its own pid among the readers *)
AcquireScan(p) ==
  /\ pc[p] = "scan" /\ CanRun(p)
  /\ Section(p, IF p \in read_locking_pids THEN Delivered(p) ELSE sig[p])
  /\ Unlock
  /\ IF p \in read_locking_pids
     THEN Return(p, "EDEADLK", FALSE)
     ELSE Continue(p, "check") /\ UNCHANGED <<my_ticket, filp>>
  /\ UNCHANGED <<ticket_head, ticket_tail, invalidTicketList, holders, lockVars>>

(* mutants of Eligible: readers ignored; ticket order ignored *)
MutIgnoreReaders(p) == ticket_tail = my_ticket[p] /\ num_write = 0
MutIgnoreTicket(p) == num_write = 0 /\ (filp[p] \in WFiles => num_read = 0)

(* the condition of wait_event_interruptible *)
Eligible(p) ==
  /\ ticket_tail = my_ticket[p]
  /\ num_write = 0
  /\ filp[p] \in WFiles => num_read = 0

(* One turn of wait_event_interruptible: the condition, then the signals *)
WaitCheck(p) ==
  /\ pc[p] = "check" /\ CanRun(p)
  /\ IF Eligible(p) THEN Continue(p, "grant")
     ELSE IF sig[p] # "none" THEN Continue(p, "intr")
     ELSE pc' = [pc EXCEPT ![p] = "sleep"] /\ cpu' = NoProc /\ ret' = "none"
  /\ UNCHANGED <<mutex, ticket_head, ticket_tail, invalidTicketList, holders,
                 sig, lockVars, my_ticket, filp>>

(* mutant: an interrupted request moves ticket_tail on whoever is served *)
MutAlwaysAdvance(p) ==
  /\ pc[p] = "intr" /\ CanRun(p)
  /\ ticket_tail' = SkipInvalid(ticket_tail + 1)
  /\ Return(p, "ERESTARTSYS", FALSE)
  /\ sig' = [sig EXCEPT ![p] = Delivered(p)]
  /\ UNCHANGED <<mutex, ticket_head, invalidTicketList, holders, lockVars>>

(* Interrupted, without d->mutex: give up the ticket being served ... *)
Interrupted(p) ==
  /\ pc[p] = "intr" /\ CanRun(p)
  /\ IF ticket_tail = my_ticket[p]
     THEN /\ ticket_tail' = SkipInvalid(ticket_tail + 1)
          /\ Return(p, "ERESTARTSYS", FALSE)
          /\ sig' = [sig EXCEPT ![p] = Delivered(p)]
     ELSE /\ Continue(p, "invalidate")
          /\ UNCHANGED <<ticket_tail, sig, my_ticket, filp>>
  /\ UNCHANGED <<mutex, ticket_head, invalidTicketList, holders, lockVars>>

(* mutant: the ticket of an interrupted request is forgotten *)
MutForgetTicket(p) ==
  /\ pc[p] = "invalidate" /\ CanRun(p)
  /\ Return(p, "ERESTARTSYS", FALSE)
  /\ sig' = [sig EXCEPT ![p] = Delivered(p)]
  /\ UNCHANGED <<mutex, ticket_head, ticket_tail, invalidTicketList, holders, lockVars>>

(* ... or put it on the list of invalid tickets.  Nobody is woken. *)
Invalidate(p) ==
  /\ pc[p] = "invalidate" /\ CanRun(p)
  /\ invalidTicketList' = invalidTicketList \cup {my_ticket[p]}
  /\ Return(p, "ERESTARTSYS", FALSE)
  /\ sig' = [sig EXCEPT ![p] = Delivered(p)]
  /\ UNCHANGED <<mutex, ticket_head, ticket_tail, holders, lockVars>>

(* Last critical section: take the lock, serve the next ticket, wake all *)
AcquireGrant(p) ==
  /\ pc[p] = "grant" /\ CanRun(p)
  /\ Section(p, Delivered(p)) /\ Unlock
  /\ GrantLock(p, filp[p])
  /\ ticket_tail' = SkipInvalid(ticket_tail + 1)
  /\ Return(p, "OK", TRUE)
  /\ UNCHANGED <<ticket_head, invalidTicketList, holders>>

-----------------------------------------------------------------------------
(* osprd_ioctl, OSPRDIOCTRYACQUIRE *)

(* First critical section: read the next ticket, do not take it *)
TrySnapshot(p, f) ==
  /\ "TRYACQUIRE" \in Ops /\ Calls(p, f) /\ MayLeak /\ num_read < MaxReads
  /\ Section(p, "none") /\ Unlock
  /\ IF write_locking_pids = p
     THEN Return(p, "EDEADLK", FALSE)
     ELSE /\ Continue(p, "try")
          /\ my_ticket' = [my_ticket EXCEPT ![p] = ticket_head]
          /\ filp' = [filp EXCEPT ![p] = f]
  /\ UNCHANGED <<ticket_head, ticket_tail, invalidTicketList, holders, lockVars>>

(* Second critical section; a reader's -EBUSY leaves the mutex locked *)
TryLock(p) ==
  /\ pc[p] = "try" /\ CanRun(p)
  /\ Section(p, Delivered(p))
  /\ IF Eligible(p)
     THEN /\ GrantLock(p, filp[p])
          /\ Unlock
          /\ Return(p, "OK", FALSE)
     ELSE /\ UNCHANGED lockVars
          /\ IF filp[p] \in WFiles THEN Unlock ELSE LeakLock
          /\ Return(p, "EBUSY", FALSE)
  /\ UNCHANGED <<ticket_head, ticket_tail, invalidTicketList, holders>>

-----------------------------------------------------------------------------
(* osprd_ioctl, OSPRDIOCRELEASE: -EINVAL leaves the mutex locked; only a
   writer's release wakes the waiters *)
Release(p, f) ==
  /\ "RELEASE" \in Ops /\ Calls(p, f) /\ (f \notin locked => MayLeak)
  /\ Section(p, "none")
  /\ IF f \in locked
     THEN /\ DropLock(p, f)
          /\ Unlock
          /\ Return(p, "OK", f \in WFiles)
     ELSE /\ UNCHANGED lockVars
          /\ LeakLock
          /\ Return(p, "EINVAL", FALSE)
  /\ UNCHANGED <<ticket_head, ticket_tail, invalidTicketList, holders>>

-----------------------------------------------------------------------------
(* the driver code that p runs once it is inside ACQUIRE or TRYACQUIRE *)
DriverStep(p) ==
  \/ AcquireScan(p) \/ WaitCheck(p) \/ Interrupted(p) \/ Invalidate(p)
  \/ AcquireGrant(p) \/ TryLock(p)

Next ==
  \/ \E p \in Procs, f \in Files :
       \/ Open(p, f) \/ Close(p, f)
       \/ AcquireTicket(p, f) \/ TrySnapshot(p, f) \/ Release(p, f)
  \/ \E p, q \in Procs, f \in Files : ShareFile(p, q, f)
  \/ \E p \in Procs, s \in Signals : SendSignal(p, s)
  \/ \E p \in Procs : Exit(p)
  \/ \E p \in Procs : DriverStep(p)

Spec == Init /\ [][Next]_vars

(* The scheduler keeps running every process that can run inside the driver,
   and a process that holds a lock, or is being killed, ends up closing its
   files: programs exit. *)
Fairness ==
  \A p \in Procs :
    /\ SF_vars(DriverStep(p))
    /\ SF_vars(\E f \in Files : (f \in locked \/ sig[p] = "kill") /\ Close(p, f))

FairSpec == Spec /\ Fairness

-----------------------------------------------------------------------------
(* Properties *)

(* p has taken a ticket that is neither served nor given up *)
Ticketed(p) == pc[p] \in {"scan", "check", "sleep", "grant", "intr", "invalidate"}

RFiles == Files \ WFiles

(* Every variable has its type. *)
TypeOK ==
  /\ mutex \in Int /\ mutex <= 0
  /\ ticket_head \in Nat /\ ticket_tail \in Nat
  /\ write_locking_pids \in Procs \cup {NoProc}
  /\ num_write \in Nat /\ num_read \in Int
  /\ read_locking_pids \subseteq Procs
  /\ invalidTicketList \subseteq Nat
  /\ holders \in [Files -> SUBSET Procs]
  /\ locked \subseteq Files
  /\ pc \in [Procs -> Steps]
  /\ my_ticket \in [Procs -> Nat]
  /\ filp \in [Procs -> Files \cup {NoFile}]
  /\ sig \in [Procs -> {"none", "caught", "kill"}]
  /\ ret \in Codes
  /\ cpu \in Procs \cup {NoProc}

(* A write lock excludes every other lock: a LOCKED file that is open for
   writing is the only LOCKED file of the device (osprd_ioctl blocks "until no
   other process holds a write lock" and, for writers, a read lock). *)
LockExclusion == \A f \in locked \cap WFiles : locked = {f}

(* The counters of osprd_info_t agree with the LOCKED flags of the files over
   every order of grants, releases and closes: num_write and
   write_locking_pids say whether a write lock is held, num_read is never less
   than the number of read-locked files, and is 0 while a write lock is held. *)
LockAccounting ==
  /\ num_write = Cardinality(locked \cap WFiles)
  /\ num_write = 0 <=> write_locking_pids = NoProc
  /\ num_read >= Cardinality(locked \cap RFiles)
  /\ num_write > 0 => num_read = 0

(* The outstanding tickets are a queue: two blocked requests never hold the
   same ticket, and none is behind ticket_tail (its owner would never be
   served), not handed out yet, or on the list of invalid tickets. *)
TicketQueue ==
  /\ \A p \in Procs : Ticketed(p) =>
       /\ ticket_tail <= my_ticket[p] /\ my_ticket[p] < ticket_head
       /\ my_ticket[p] \notin invalidTicketList
  /\ \A p, q \in Procs :
       Ticketed(p) /\ Ticketed(q) /\ p # q => my_ticket[p] # my_ticket[q]

(* The ticket being served is never one whose owner has given up: otherwise
   nobody moves ticket_tail on and every later request blocks for ever. *)
TailLive == ticket_tail \notin invalidTicketList

(* The driver never forgets a lock: a LOCKED file is still open in some
   process, so osprd_close_last can still release it. *)
LocksHaveHolders == \A f \in locked : holders[f] # {}

(* A step that gives the lock to p overtakes nobody: every other outstanding
   request has a later ticket, and TRYACQUIRE succeeds only when nobody waits
   ("lock requests should be serviced in order"). *)
ServedInOrder ==
  [][\A p, q \in Procs :
       /\ pc[p] \in {"grant", "try"} /\ pc'[p] = "user" /\ ret' = "OK"
       /\ q # p /\ Ticketed(q)
       => pc[p] = "grant" /\ my_ticket[p] < my_ticket[q]]_vars

(* Every blocked ACQUIRE returns: with the lock, or interrupted. *)
EveryRequestReturns ==
  \A p \in Procs : (pc[p] \in {"check", "sleep"}) ~> (pc[p] = "user")

(* When no file holds a lock, no lock is counted: releases and closes give
   back what the grants took. *)
QuiescentCounts == locked = {} => num_read = 0

(* The abstract lock: the locked files, and the processes with a ticket in the
   order of their tickets.  A request refused with -EDEADLK before it waits
   never joins the queue. *)
Waits == {p \in Procs : Ticketed(p)}
Ahead(p) == {q \in Waits : my_ticket[q] < my_ticket[p]}
Abstract == INSTANCE RWLock WITH
  held <- locked,
  wants <- [p \in Waits |-> filp[p]],
  ahead <- [p \in Waits |-> Ahead(p)]

(* Tickets, counters, invalid tickets and the sleeping queue together are a
   first-come first-served reader-writer lock: whatever the order of ioctls,
   signals and closes, a step joins the end of the queue, leaves it, serves its
   front, locks at once while nobody waits, or unlocks ("lock requests should be
   serviced in order"). *)
ImplementsRWLock == Abstract!Spec

-----------------------------------------------------------------------------
(* The inductive invariant behind LockExclusion, LockAccounting, TicketQueue
   and ServedInOrder.  It holds in the builds where no TRYACQUIRE can run
   between the wait condition of another request and its grant. *)

SafeBuild == ~Preempt \/ "TRYACQUIRE" \notin Ops

(* the tickets handed out so far bound the served and the invalid ones *)
TicketBounds ==
  /\ ticket_tail <= ticket_head
  /\ \A t \in invalidTicketList : t < ticket_head

(* inside the driver a process works on a file; off the preemptible kernels it
   keeps the CPU unless it is in wait_event_interruptible *)
DriverContext ==
  /\ \A p \in Procs : pc[p] # "user" => filp[p] \in Files
  /\ \A p \in Procs : pc[p] = "try" => "TRYACQUIRE" \in Ops
  /\ ~Preempt => \A p \in Procs : pc[p] \notin {"user", "check", "sleep"} => cpu = p
  /\ ~Preempt => \A p \in Procs : pc[p] = "try" => my_ticket[p] = ticket_head

(* what a request saw in its wait condition still holds when it takes the lock *)
GrantReady == \A p \in Procs : pc[p] = "grant" => Eligible(p)

IInv ==
  /\ TypeOK
  /\ num_write \in {0, 1} /\ LockAccounting
  /\ TicketBounds /\ TicketQueue
  /\ DriverContext
  /\ GrantReady
=============================================================================
