------------------------------ MODULE Schedos ------------------------------
(***************************************************************************)
(* SchedOS (weensyos2): the kernel with its five scheduling algorithms     *)
(* (schedos-kern.c) and the applications it runs (schedos-1.c, included by *)
(* schedos-2.c to schedos-4.c with other constants), which print to a      *)
(* shared console with one of two synchronization methods.                 *)
(*                                                                         *)
(* One action is one system call, one clock interrupt, or one instruction  *)
(* of an application that touches shared memory.  The kernel itself is     *)
(* never interrupted.                                                      *)
(***************************************************************************)
EXTENDS Integers, FiniteSets

CONSTANTS
  NPROCS,      \* size of proc_array; descriptor 0 is never used
  RUNCOUNT,    \* characters each application prints
  Builds,      \* the constants the system may be built with
  Clock        \* argument of interrupt_controller_init: clock interrupts

Pids == 1..(NPROCS - 1)

(* scheduling_algorithm of the kernel, SYNC_METHOD of all the applications,
   PRIORITY and SHARE of each *)
BuildSpace == [scheduling_algorithm : 0..4, SYNC_METHOD : {1, 2},
               PRIORITY : [Pids -> Nat], SHARE : [Pids -> Nat]]

ASSUME SchedosAssumption ==
  /\ NPROCS \in Nat /\ NPROCS > 1
  /\ RUNCOUNT \in Nat \ {0}
  /\ Builds \subseteq BuildSpace
  /\ Clock \in BOOLEAN

Cells == 0..((NPROCS - 1) * RUNCOUNT - 1)

VARIABLES
  build,                    \* the build that runs
  p_state, p_priority, p_share, p_run_count,  \* the fields of process_t
  current,                  \* the running process; 0 while schedule() spins
  lock, cursorpos, console, \* shared memory; cell k shows process console[k]
  pc, i,                    \* where each application is, and its loop counter
  tmp                       \* its copy of cursorpos in a register

kernel == <<p_state, p_priority, p_share, p_run_count, current>>
memory == <<lock, cursorpos, console>>
vars == <<build, kernel, memory, pc, i, tmp>>

(* start() of the kernel *)
Init ==
  /\ build \in Builds
  /\ p_state = [p \in Pids |-> "RUNNABLE"]
  /\ p_priority = [p \in Pids |-> 0]
  /\ p_share = [p \in Pids |-> -1]
  /\ p_run_count = [p \in Pids |-> 0]
  /\ current = 1
  /\ lock = 0 /\ cursorpos = 0 /\ console = [k \in Cells |-> 0]
  /\ pc = [p \in Pids |-> "set_priority"]
  /\ i = [p \in Pids |-> 0]
  /\ tmp = [p \in Pids |-> 0]

-----------------------------------------------------------------------------
(* schedule(), once the system call has set p_state' *)

(* mutant: exited processes are still scheduled *)
MutAnyone(p) == p \in Pids

Runnable(p) == p \in Pids /\ p_state'[p] = "RUNNABLE"

(* the k-th descriptor a search visits that starts at the current one *)
Visited(k) == (current + k) % NPROCS

Least(K) == CHOOSE k \in K : \A j \in K : k <= j
Greatest(K) == CHOOSE k \in K : \A j \in K : j <= k

(* mutant: the largest number is the best priority *)
MutMaxPriority(p) == \A q \in Pids : Runnable(q) => p_priority[q] <= p_priority[p]

MinPriority(p) == \A q \in Pids : Runnable(q) => p_priority[p] <= p_priority[q]

(* algorithm 0: the next process in cyclic order *)
RoundRobin ==
  LET hits == {k \in 1..NPROCS : Runnable(Visited(k))}
  IN /\ current' = IF hits = {} THEN 0 ELSE Visited(Least(hits))
     /\ UNCHANGED p_run_count

(* algorithm 1: the smallest pid *)
SmallestPid ==
  LET hits == {p \in Pids : Runnable(p)}
  IN /\ current' = IF hits = {} THEN 0 ELSE Least(hits)
     /\ UNCHANGED p_run_count

(* algorithm 2: the last process in the scan with the best (least) priority *)
BestPriority ==
  LET hits == {k \in 0..(NPROCS - 1) : Runnable(Visited(k)) /\ MinPriority(Visited(k))}
  IN /\ current' = IF hits = {} THEN 0 ELSE Visited(Greatest(hits))
     /\ UNCHANGED p_run_count

(* mutant: one slot more than the share *)
MutOneMore(p, count) == p_share[p] = -1 \/ count # p_share[p] + 1

(* p has no share, or has slots left when it has used count of them *)
SlotsLeft(p, count) == p_share[p] = -1 \/ count # p_share[p]

(* The search of algorithms 3 and 4 among the given processes, from the
   current one on.  It stops at the first one with slots
   left and charges it one; it resets the count of those it passes, so that on
   the second lap it stops at any of them whose share is not 0. *)
ShareSearch(members) ==
  LET visits == {k \in 0..(2 * NPROCS - 1) : Visited(k) \in members}
      count(k) == IF k < NPROCS THEN p_run_count[Visited(k)] ELSE 0
      hits == {k \in visits : SlotsLeft(Visited(k), count(k))}
      stop == Least(hits)
      passed == {Visited(k) : k \in {j \in visits : j < stop}}
      charge(k) == IF p_share[Visited(k)] = -1 THEN 0 ELSE 1
  IN IF hits = {}
     THEN current' = 0 /\ UNCHANGED p_run_count
     ELSE /\ current' = Visited(stop)
          /\ p_run_count' = [p \in Pids |->
               CASE p = Visited(stop) -> count(stop) + charge(stop)
                 [] p # Visited(stop) /\ p \in passed -> 0
                 [] OTHER -> p_run_count[p]]

(* algorithm 3: proportional shares *)
ProportionalShare == ShareSearch({p \in Pids : Runnable(p)})

(* algorithm 4: proportional shares among the processes with the best
   priority; a process without a share is run when the search meets it *)
MultiLevelQueue ==
  ShareSearch({p \in Pids : Runnable(p) /\ (p_share[p] = -1 \/ MinPriority(p))})

Schedule ==
  \/ build.scheduling_algorithm = 0 /\ RoundRobin
  \/ build.scheduling_algorithm = 1 /\ SmallestPid
  \/ build.scheduling_algorithm = 2 /\ BestPriority
  \/ build.scheduling_algorithm = 3 /\ ProportionalShare
  \/ build.scheduling_algorithm = 4 /\ MultiLevelQueue

-----------------------------------------------------------------------------
(* interrupt() and the applications, which make these calls in this order *)

Goto(p, step) == pc' = [pc EXCEPT ![p] = step]
At(p, step) == current = p /\ pc[p] = step

(* the first step of an iteration of the printing loop *)
LoopStart == IF build.SYNC_METHOD = 1 THEN "print" ELSE "acquire"

SetPriority(p) ==
  /\ At(p, "set_priority") /\ Goto(p, "set_share")
  /\ p_priority' = [p_priority EXCEPT ![p] = build.PRIORITY[p]]
  /\ UNCHANGED <<build, p_state, p_share, p_run_count, current, memory, i, tmp>>

SetShare(p) ==
  /\ At(p, "set_share") /\ Goto(p, "yield")
  /\ p_share' = [p_share EXCEPT ![p] = build.SHARE[p]]
  /\ UNCHANGED <<build, p_state, p_priority, p_run_count, current, memory, i, tmp>>

(* mutant: the loop runs once more *)
MutOneMoreRound(p) ==
  /\ At(p, "yield")
  /\ Goto(p, IF i[p] <= RUNCOUNT THEN LoopStart ELSE "exit")
  /\ UNCHANGED <<build, p_state, p_priority, p_share, memory, i, tmp>>
  /\ Schedule

(* sys_yield, after which the loop goes on or ends *)
Yield(p) ==
  /\ At(p, "yield")
  /\ Goto(p, IF i[p] < RUNCOUNT THEN LoopStart ELSE "exit")
  /\ UNCHANGED <<build, p_state, p_priority, p_share, memory, i, tmp>>
  /\ Schedule

Exit(p) ==
  /\ At(p, "exit") /\ Goto(p, "gone")
  /\ p_state' = [p_state EXCEPT ![p] = "ZOMBIE"]
  /\ UNCHANGED <<build, p_priority, p_share, memory, i, tmp>>
  /\ Schedule

(* INT_CLOCK interrupts the application anywhere *)
ClockInterrupt(p) ==
  /\ Clock /\ current = p
  /\ UNCHANGED <<build, p_state, p_priority, p_share, memory, pc, i, tmp>>
  /\ Schedule

(* p's character goes to cell c *)
Put(p, c) ==
  /\ console' = [console EXCEPT ![c] = p]
  /\ i' = [i EXCEPT ![p] = @ + 1]

(* method 1: sys_print, in the kernel *)
SysPrint(p) ==
  /\ At(p, "print") /\ Goto(p, "yield")
  /\ Put(p, cursorpos)
  /\ cursorpos' = cursorpos + 1
  /\ UNCHANGED <<build, kernel, lock, tmp>>

(* mutant: the lock is not tested *)
MutNoTest(p) ==
  /\ At(p, "acquire") /\ Goto(p, "read")
  /\ lock' = 1
  /\ UNCHANGED <<build, kernel, cursorpos, console, i, tmp>>

(* method 2: while (atomic_swap(&lock, 1) != 0) continue; *)
Acquire(p) ==
  /\ At(p, "acquire") /\ Goto(p, IF lock = 0 THEN "read" ELSE "acquire")
  /\ lock' = 1
  /\ UNCHANGED <<build, kernel, cursorpos, console, i, tmp>>

(* *cursorpos++ = PRINTCHAR: cursorpos is loaded, stored back incremented, and
   the character is stored through the old value *)
ReadCursor(p) ==
  /\ At(p, "read") /\ Goto(p, "advance")
  /\ tmp' = [tmp EXCEPT ![p] = cursorpos]
  /\ UNCHANGED <<build, kernel, memory, i>>

AdvanceCursor(p) ==
  /\ At(p, "advance") /\ Goto(p, "write")
  /\ cursorpos' = tmp[p] + 1
  /\ UNCHANGED <<build, kernel, lock, console, i, tmp>>

WriteCell(p) ==
  /\ At(p, "write") /\ Goto(p, "release")
  /\ Put(p, tmp[p])
  /\ tmp' = [tmp EXCEPT ![p] = 0]   \* the register is dead
  /\ UNCHANGED <<build, kernel, lock, cursorpos>>

(* mutant: the lock is not released *)
MutNoRelease(p) ==
  /\ At(p, "release") /\ Goto(p, "yield")
  /\ UNCHANGED <<build, kernel, memory, i, tmp>>

(* atomic_swap(&lock, 0) *)
Release(p) ==
  /\ At(p, "release") /\ Goto(p, "yield")
  /\ lock' = 0
  /\ UNCHANGED <<build, kernel, cursorpos, console, i, tmp>>

AppStep(p) ==
  \/ SetPriority(p) \/ SetShare(p) \/ Yield(p) \/ Exit(p) \/ SysPrint(p)
  \/ Acquire(p) \/ ReadCursor(p) \/ AdvanceCursor(p) \/ WriteCell(p) \/ Release(p)

Next == \E p \in Pids : AppStep(p) \/ ClockInterrupt(p)

Spec == Init /\ [][Next]_vars

(* An application that is resumed again and again gets its next instruction
   done before a clock interrupt, which comes only HZ times a second; and the
   clock keeps ticking. *)
Fairness == \A p \in Pids : SF_vars(AppStep(p)) /\ WF_vars(ClockInterrupt(p))

FairSpec == Spec /\ Fairness

-----------------------------------------------------------------------------
(* Properties *)

(* Every variable has its type. *)
TypeOK ==
  /\ build \in Builds
  /\ p_state \in [Pids -> {"RUNNABLE", "ZOMBIE"}]
  /\ p_priority \in [Pids -> Nat]
  /\ p_share \in [Pids -> Nat \cup {-1}]
  /\ p_run_count \in [Pids -> Nat]
  /\ current \in 0..(NPROCS - 1)
  /\ lock \in {0, 1} /\ cursorpos \in Nat
  /\ console \in [Cells -> 0..(NPROCS - 1)]
  /\ pc \in [Pids -> {"set_priority", "set_share", "yield", "print", "acquire",
                      "read", "advance", "write", "release", "exit", "gone"}]
  /\ i \in [Pids -> 0..RUNCOUNT]
  /\ tmp \in [Pids -> Nat]

(* schedule() runs a RUNNABLE process under every algorithm, and "if there are
   no runnable processes, it spins forever", only then. *)
RunsRunnable ==
  IF current = 0 THEN \A p \in Pids : p_state[p] # "RUNNABLE"
  ELSE p_state[current] = "RUNNABLE"

(* Under algorithms 2 and 4 a process that has started to print runs only
   while no process that can run has a better priority, whatever the clock
   interrupts: the processes that are still starting up, with the default
   priority 0, come first. *)
PriorityRespected ==
  \A p \in Pids :
    /\ build.scheduling_algorithm \in {2, 4} /\ current = p
    /\ pc[p] \in {"print", "acquire", "read", "advance", "write", "release"}
    => \A q \in Pids : p_state[q] = "RUNNABLE" => p_priority[p] <= p_priority[q]

(* Under algorithms 3 and 4 a process never uses more slots than its share
   before the others get their turn: the test p_run_count != p_share is hit
   exactly. *)
ShareRespected ==
  \A p \in Pids : p_share[p] # -1 => p_run_count[p] <= p_share[p]

(* No character is lost or overwritten, with either synchronization method
   and clock interrupts anywhere: the console shows as many characters of each
   process as it has printed and, while the lock is free, the cursor is right
   after the last one. *)
ConsoleIntact ==
  /\ \A p \in Pids : Cardinality({k \in Cells : console[k] = p}) = i[p]
  /\ lock = 0 => \A k \in Cells : k < cursorpos <=> console[k] # 0

(* Every application prints all its characters and exits: no algorithm
   starves a process for ever, and no process spins on the lock for ever while
   the scheduler prefers it to the holder. *)
AllFinish == <>(\A p \in Pids : pc[p] = "gone")
=============================================================================
