-------------------------------- MODULE Mpos --------------------------------
(***************************************************************************)
(* The MiniprocOS kernel (weensyos1/mpos-kern.c): a table of process       *)
(* descriptors, the system calls of interrupt(), and the cooperative       *)
(* round-robin scheduler.  The running process makes any system call its   *)
(* client program allows; the kernel runs the call to the end and resumes  *)
(* a process, so one action is one system call.                            *)
(***************************************************************************)
EXTENDS Integers, FiniteSets

CONSTANTS
  NPROCS,     \* size of proc_array; descriptor 0 is never used
  Statuses,   \* the values programs pass to sys_exit
  Threads,    \* TRUE: clients call sys_newthread
  KillStates, \* clients call sys_kill only for processes in these states
  OneWaiter   \* TRUE: clients wait only for later pids nobody waits for

States == {"EMPTY", "RUNNABLE", "BLOCKED", "ZOMBIE"}
Live == {"RUNNABLE", "BLOCKED"}

ASSUME MposAssumption ==
  /\ NPROCS \in Nat /\ NPROCS > 1
  /\ Statuses \subseteq Int
  /\ Threads \in BOOLEAN
  /\ KillStates \subseteq States
  /\ OneWaiter \in BOOLEAN

Pids == 1..(NPROCS - 1)

VARIABLES
  p_state, p_exit_status, wait_queue,  \* the fields of process_t
  eax,      \* p_registers.reg_eax: a call's argument, then its result
  stack,    \* the stack region reg_esp points into: region p is process p's
  current   \* the running process; 0 while schedule() spins

vars == <<p_state, p_exit_status, wait_queue, eax, stack, current>>

(* start() *)
Init ==
  /\ p_state = [p \in Pids |-> IF p = 1 THEN "RUNNABLE" ELSE "EMPTY"]
  /\ p_exit_status = [p \in Pids |-> 0]
  /\ wait_queue = [p \in Pids |-> 0]
  /\ eax = [p \in Pids |-> 0]
  /\ stack = [p \in Pids |-> p]
  /\ current = 1

-----------------------------------------------------------------------------
(* schedule() and run() *)

(* mutant: any process in the table is picked *)
MutAnyProcess(state, c) ==
  LET cand == {p \in Pids : state[p] # "EMPTY"}
  IN IF cand = {} THEN 0
     ELSE CHOOSE p \in cand :
            \A q \in cand : (p - c - 1) % NPROCS <= (q - c - 1) % NPROCS

(* the first RUNNABLE process after c in cyclic order, c itself last; 0 if
   there is none and the search goes on for ever *)
NextRunnable(state, c) ==
  LET cand == {p \in Pids : state[p] = "RUNNABLE"}
  IN IF cand = {} THEN 0
     ELSE CHOOSE p \in cand :
            \A q \in cand : (p - c - 1) % NPROCS <= (q - c - 1) % NPROCS

Schedule == current' = NextRunnable(p_state', current)
Run(p) == current' = p

-----------------------------------------------------------------------------
(* Creating processes *)

(* the first EMPTY descriptor, 0 if the table is full *)
FreeSlot ==
  LET free == {p \in Pids : p_state[p] = "EMPTY"}
  IN IF free = {} THEN 0 ELSE CHOOSE p \in free : \A q \in free : p <= q

(* mutant: the child keeps the parent's stack pointer *)
MutParentStack(dest, src) == stack[src]

(* copy_stack: the child's stack pointer is as far below the top of its own
   region as the parent's is below the top of the parent's *)
CopyStack(dest, src) == dest + (stack[src] - src)

(* mutant: a new process keeps the descriptor's old wait_queue *)
MutKeepQueue(p, region) ==
  IF FreeSlot = 0
  THEN /\ eax' = [eax EXCEPT ![p] = -1]
       /\ UNCHANGED <<p_state, wait_queue, stack>>
  ELSE /\ p_state' = [p_state EXCEPT ![FreeSlot] = "RUNNABLE"]
       /\ eax' = [eax EXCEPT ![p] = FreeSlot, ![FreeSlot] = 0]
       /\ stack' = [stack EXCEPT ![FreeSlot] = region]
       /\ UNCHANGED wait_queue

(* p gets a new process in the free descriptor, its stack pointer in the given
   region, or -1 *)
Create(p, region) ==
  IF FreeSlot = 0
  THEN /\ eax' = [eax EXCEPT ![p] = -1]
       /\ UNCHANGED <<p_state, wait_queue, stack>>
  ELSE /\ p_state' = [p_state EXCEPT ![FreeSlot] = "RUNNABLE"]
       /\ eax' = [eax EXCEPT ![p] = FreeSlot, ![FreeSlot] = 0]
       /\ wait_queue' = [wait_queue EXCEPT ![FreeSlot] = 0]
       /\ stack' = [stack EXCEPT ![FreeSlot] = region]

(* INT_SYS_FORK, do_fork *)
Fork(p) ==
  /\ Create(p, CopyStack(FreeSlot, p))
  /\ Run(p)
  /\ UNCHANGED p_exit_status

(* INT_SYS_NEWTHREAD, do_newthread: the initial stack pointer is the top of
   the region before the thread's own *)
NewThread(p) ==
  /\ Threads
  /\ Create(p, FreeSlot - 1)
  /\ Run(p)
  /\ UNCHANGED p_exit_status

-----------------------------------------------------------------------------
(* The other system calls *)

(* INT_SYS_GETPID *)
GetPid(p) ==
  /\ eax' = [eax EXCEPT ![p] = p]
  /\ Run(p)
  /\ UNCHANGED <<p_state, p_exit_status, wait_queue, stack>>

(* INT_SYS_YIELD has neither argument nor result: the program's own %eax is
   saved, which 0 stands for *)
Yield(p) ==
  /\ eax' = [eax EXCEPT ![p] = 0]
  /\ UNCHANGED <<p_state, p_exit_status, wait_queue, stack>>
  /\ Schedule

(* state with p in state s and the process on p's wait_queue RUNNABLE *)
Woken(p, s) ==
  [q \in Pids |-> IF q = wait_queue[p] THEN "RUNNABLE"
                  ELSE IF q = p THEN s ELSE p_state[q]]

(* mutant: sys_exit does not wake the waiter *)
MutSilentExit(p, status) ==
  /\ p_state' = [p_state EXCEPT ![p] = "ZOMBIE"]
  /\ p_exit_status' = [p_exit_status EXCEPT ![p] = status]
  /\ Schedule
  /\ UNCHANGED <<wait_queue, eax, stack>>

(* INT_SYS_EXIT: the descriptor stays a ZOMBIE, with or without a waiter *)
Exit(p, status) ==
  /\ p_state' = Woken(p, "ZOMBIE")
  /\ p_exit_status' = [p_exit_status EXCEPT ![p] = status]
  /\ eax' = [q \in Pids |-> IF q \in {p, wait_queue[p]} THEN status ELSE eax[q]]
  /\ Schedule
  /\ UNCHANGED <<wait_queue, stack>>

(* sys_kill and sys_wait refuse the same arguments *)
BadArgument(p, t) == ~(0 < t /\ t < NPROCS /\ t # p /\ p_state[t] # "EMPTY")

(* mutant: the waiter of a killed process keeps waiting *)
MutSilentKill(p, t) ==
  /\ ~BadArgument(p, t) => p_state[t] \in KillStates
  /\ IF BadArgument(p, t)
     THEN /\ eax' = [eax EXCEPT ![p] = -1] /\ UNCHANGED <<p_state, p_exit_status>>
     ELSE /\ p_state' = [p_state EXCEPT ![t] = "EMPTY"]
          /\ p_exit_status' = [p_exit_status EXCEPT ![t] = -1]
          /\ eax' = [eax EXCEPT ![p] = 0]
  /\ Run(p)
  /\ UNCHANGED <<wait_queue, stack>>

(* INT_SYS_KILL: a live process disappears and its waiter gets 0; a ZOMBIE
   disappears only if somebody has waited for it, who is "woken" again *)
Kill(p, t) ==
  /\ ~BadArgument(p, t) => p_state[t] \in KillStates
  /\ IF BadArgument(p, t)
     THEN /\ eax' = [eax EXCEPT ![p] = -1]
          /\ UNCHANGED <<p_state, p_exit_status>>
     ELSE /\ p_exit_status' = [p_exit_status EXCEPT
                                 ![t] = IF p_state[t] = "ZOMBIE" THEN 0 ELSE -1]
          /\ eax' = [q \in Pids |-> IF q \in {p, wait_queue[t]} THEN 0 ELSE eax[q]]
          /\ IF p_state[t] = "ZOMBIE" /\ wait_queue[t] = 0
             THEN UNCHANGED p_state
             ELSE p_state' = Woken(t, "EMPTY")
  /\ Run(p)
  /\ UNCHANGED <<wait_queue, stack>>

(* mutant: sys_wait blocks for a process that has already exited *)
MutWaitZombie(p, t) ==
  /\ OneWaiter /\ ~BadArgument(p, t) => t > p /\ wait_queue[t] = 0
  /\ IF BadArgument(p, t)
     THEN eax' = [eax EXCEPT ![p] = -1] /\ UNCHANGED <<p_state, wait_queue>>
     ELSE /\ eax' = [eax EXCEPT ![p] = t]
          /\ p_state' = [p_state EXCEPT ![p] = "BLOCKED"]
          /\ wait_queue' = [wait_queue EXCEPT ![t] = p]
  /\ Schedule
  /\ UNCHANGED <<p_exit_status, stack>>

(* INT_SYS_WAIT: an error, the exit status of a ZOMBIE, or p blocks as THE
   waiter of t *)
Wait(p, t) ==
  /\ OneWaiter /\ ~BadArgument(p, t) /\ p_state[t] \in Live
       => t > p /\ wait_queue[t] = 0
  /\ \/ /\ BadArgument(p, t)
        /\ eax' = [eax EXCEPT ![p] = -1]
        /\ UNCHANGED <<p_state, wait_queue>>
     \/ /\ ~BadArgument(p, t) /\ p_state[t] = "ZOMBIE"
        /\ eax' = [eax EXCEPT ![p] = p_exit_status[t]]
        /\ p_state' = [p_state EXCEPT ![t] = "EMPTY"]
        /\ UNCHANGED wait_queue
     \/ /\ ~BadArgument(p, t) /\ p_state[t] # "ZOMBIE"
        /\ eax' = [eax EXCEPT ![p] = t]
        /\ p_state' = [p_state EXCEPT ![p] = "BLOCKED"]
        /\ wait_queue' = [wait_queue EXCEPT ![t] = p]
  /\ Schedule
  /\ UNCHANGED <<p_exit_status, stack>>

-----------------------------------------------------------------------------
(* interrupt(): the running process makes a system call *)
SysCall(p) ==
  /\ current = p
  /\ \/ GetPid(p) \/ Yield(p) \/ Fork(p) \/ NewThread(p)
     \/ \E status \in Statuses : Exit(p, status)
     \/ \E t \in 0..NPROCS : Kill(p, t) \/ Wait(p, t)

Next == \E p \in Pids : SysCall(p)

Spec == Init /\ [][Next]_vars

(* Every process keeps calling the kernel, and programs end: a process that
   is run again and again exits. *)
Fairness ==
  /\ WF_vars(Next)
  /\ \A p \in Pids :
       SF_vars(current = p /\ \E status \in Statuses : Exit(p, status))

FairSpec == Spec /\ Fairness

-----------------------------------------------------------------------------
(* Properties *)

(* Every variable has its type; a stack pointer is in the region of its
   process or, for threads, in the one before. *)
TypeOK ==
  /\ p_state \in [Pids -> States]
  /\ p_exit_status \in [Pids -> Int]
  /\ wait_queue \in [Pids -> 0..(NPROCS - 1)]
  /\ eax \in [Pids -> Int]
  /\ stack \in [Pids -> Int] /\ \A p \in Pids : stack[p] \in {p - 1, p}
  /\ current \in 0..(NPROCS - 1)

(* The kernel resumes RUNNABLE processes only: no call leaves a killed, exited
   or blocked process running, and schedule() spins only when none is left. *)
RunsRunnable ==
  IF current = 0 THEN \A p \in Pids : p_state[p] # "RUNNABLE"
  ELSE p_state[current] = "RUNNABLE"

(* Nobody sleeps for nothing: a BLOCKED process is on the wait_queue of the
   process it waits for, which has not exited yet. *)
WaitersRegistered ==
  \A w \in Pids : p_state[w] = "BLOCKED" =>
    \E t \in Pids : eax[w] = t /\ p_state[t] \in Live /\ wait_queue[t] = w

(* schedule() spins for ever only when nobody is blocked: with clients that
   wait in pid order the kernel loses no wakeup. *)
SpinsWhenDone == current = 0 => \A p \in Pids : p_state[p] # "BLOCKED"

(* sys_wait returns to a process it blocked only when the process waited for
   has ended in that step, with its exit status, or 0 if it was killed. *)
WaitTruth ==
  [][\A w \in Pids : p_state[w] = "BLOCKED" /\ p_state'[w] = "RUNNABLE" =>
       LET t == eax[w] IN
         /\ t \in Pids /\ p_state[t] \in Live
         /\ \/ p_state'[t] = "ZOMBIE" /\ eax'[w] = p_exit_status'[t]
            \/ p_state'[t] = "EMPTY" /\ eax'[w] = 0]_vars

ProcessCreated == Fork(current) \/ NewThread(current)

(* The dead stay dead: a descriptor that is EMPTY or ZOMBIE becomes RUNNABLE
   only as the new process of a sys_fork or sys_newthread ("Kill a process"). *)
NoResurrection ==
  [][\A p \in Pids : p_state[p] \notin Live /\ p_state'[p] \in Live =>
       p_state[p] = "EMPTY" /\ ProcessCreated]_vars

(* Live processes have stacks of their own. *)
OwnStacks ==
  \A p, q \in Pids :
    p # q /\ p_state[p] \in Live /\ p_state[q] \in Live => stack[p] # stack[q]

(* Every sys_wait returns. *)
EveryWaitReturns ==
  \A p \in Pids : (p_state[p] = "BLOCKED") ~> (p_state[p] # "BLOCKED")

-----------------------------------------------------------------------------
(* The inductive invariants behind the properties of sys_wait *)

(* clients that kill only RUNNABLE processes leave no stale wait_queue entry *)
GentleKills == KillStates \subseteq {"RUNNABLE"}

(* the process on the wait_queue of a live process is BLOCKED in the sys_wait
   it made for that process, and in no other *)
WaitQueueOK ==
  \A t \in Pids : p_state[t] \in Live /\ wait_queue[t] # 0 =>
    p_state[wait_queue[t]] = "BLOCKED" /\ eax[wait_queue[t]] = t

(* nobody waits for a process with a smaller pid *)
ForwardWaits == \A w \in Pids : p_state[w] = "BLOCKED" => eax[w] > w
=============================================================================
