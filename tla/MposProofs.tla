----------------------------- MODULE MposProofs -----------------------------
(***************************************************************************)
(* Proofs about the MiniprocOS kernel (module Mpos) for a process table of *)
(* any size: what the kernel runs, and what sys_wait promises to clients   *)
(* that kill only RUNNABLE processes.                                      *)
(***************************************************************************)
EXTENDS Mpos, WellFoundedInduction, TLAPS

-----------------------------------------------------------------------------
(* The searches of schedule(), do_fork() and do_newthread() *)

(* A nonempty set on which f is a natural number has an element where f is
   least. *)
LEMMA Least ==
  ASSUME NEW S, S # {}, NEW f \in [S -> Nat]
  PROVE  \E x \in S : \A y \in S : f[x] <= f[y]
<1> DEFINE T == {f[x] : x \in S}
           R == OpToRel(<, Nat)
<1>1. \E n \in T : \A m \in T : ~(<<m, n>> \in R)
  <2>1. T \subseteq Nat /\ T # {}
    OBVIOUS
  <2> HIDE DEF T, R
  <2> QED
    BY <2>1, NatLessThanWellFounded, WFMin DEF R
<1>2. PICK n \in T : \A m \in T : ~(m < n)
  BY <1>1 DEF OpToRel
<1>3. PICK x \in S : f[x] = n
  BY <1>2
<1>4. \A y \in S : f[y] \in T /\ f[y] \in Nat
  OBVIOUS
<1> HIDE DEF T
<1> QED
  BY <1>2, <1>3, <1>4

(* schedule() finds a RUNNABLE process whenever there is one, and spins (0)
   only when there is none. *)
LEMMA NextRunnableSpec ==
  ASSUME NEW state, NEW c \in Int
  PROVE  \/ /\ NextRunnable(state, c) = 0
            /\ \A p \in Pids : state[p] # "RUNNABLE"
         \/ /\ NextRunnable(state, c) \in Pids
            /\ state[NextRunnable(state, c)] = "RUNNABLE"
<1> DEFINE cand == {p \in Pids : state[p] = "RUNNABLE"}
           d == [p \in cand |-> (p - c - 1) % NPROCS]
<1>1. CASE cand = {}
  BY <1>1 DEF NextRunnable
<1>2. CASE cand # {}
  <2>1. d \in [cand -> Nat]
    BY MposAssumption DEF Pids
  <2>2. \E p \in cand : \A q \in cand : d[p] <= d[q]
    <3> HIDE DEF d, cand
    <3> QED
      BY <1>2, <2>1, Least
  <2>3. \E p \in cand : \A q \in cand : (p - c - 1) % NPROCS <= (q - c - 1) % NPROCS
    BY <2>2
  <2>4. NextRunnable(state, c) = CHOOSE p \in cand :
           \A q \in cand : (p - c - 1) % NPROCS <= (q - c - 1) % NPROCS
    BY <1>2 DEF NextRunnable
  <2>5. NextRunnable(state, c) \in cand
    <3> HIDE DEF cand
    <3> QED
      BY <2>3, <2>4
  <2> QED
    BY <2>5
<1> QED
  BY <1>1, <1>2

(* do_fork and do_newthread take an EMPTY descriptor, and fail only when the
   table is full. *)
LEMMA FreeSlotSpec ==
  \/ FreeSlot = 0 /\ \A p \in Pids : p_state[p] # "EMPTY"
  \/ FreeSlot \in Pids /\ p_state[FreeSlot] = "EMPTY"
<1> DEFINE free == {p \in Pids : p_state[p] = "EMPTY"}
           id == [p \in free |-> p]
<1>1. CASE free = {}
  BY <1>1 DEF FreeSlot
<1>2. CASE free # {}
  <2>1. id \in [free -> Nat]
    BY DEF Pids
  <2>2. \E p \in free : \A q \in free : id[p] <= id[q]
    <3> HIDE DEF id, free
    <3> QED
      BY <1>2, <2>1, Least
  <2>3. \E p \in free : \A q \in free : p <= q
    BY <2>2
  <2>4. FreeSlot = CHOOSE p \in free : \A q \in free : p <= q
    BY <1>2 DEF FreeSlot
  <2>5. FreeSlot \in free
    <3> HIDE DEF free
    <3> QED
      BY <2>3, <2>4
  <2> QED
    BY <2>5
<1> QED
  BY <1>1, <1>2

-----------------------------------------------------------------------------
(* The types, and the process the kernel resumes; for every client *)

Basic == TypeOK /\ RunsRunnable

(* Schedule after a system call resumes a RUNNABLE process or spins for lack
   of one. *)
LEMMA ScheduleRuns ==
  ASSUME TypeOK, Schedule
  PROVE  current' \in 0..(NPROCS - 1) /\ RunsRunnable'
<1>1. current \in Int
  BY MposAssumption DEF TypeOK
<1>2. \/ /\ current' = 0
         /\ \A p \in Pids : p_state'[p] # "RUNNABLE"
      \/ /\ current' \in Pids
         /\ p_state'[current'] = "RUNNABLE"
  BY <1>1, NextRunnableSpec DEF Schedule
<1> QED
  BY <1>2, MposAssumption DEF RunsRunnable, Pids

(* The types and RunsRunnable are inductive. *)
LEMMA BasicStep ==
  ASSUME Basic, [Next]_vars
  PROVE  Basic'
<1> USE DEF Basic
<1>1. CASE UNCHANGED vars
  BY <1>1 DEF vars, TypeOK, RunsRunnable
<1>2. CASE Next
  <2>1. PICK p \in Pids : SysCall(p)
    BY <1>2 DEF Next
  <2>2. current = p /\ p # 0 /\ p_state[p] = "RUNNABLE" /\ p \in 0..(NPROCS - 1)
    BY <2>1, MposAssumption DEF SysCall, RunsRunnable, Pids
  <2>3. CASE GetPid(p)
    BY <2>2, <2>3 DEF GetPid, Run, TypeOK, RunsRunnable, Pids
  <2>4. CASE Yield(p)
    BY <2>4, ScheduleRuns DEF Yield, TypeOK
  <2>5. ASSUME NEW region, region \in {FreeSlot - 1, FreeSlot}, Create(p, region),
               Run(p), UNCHANGED p_exit_status
        PROVE  Basic'
    <3>1. CASE FreeSlot = 0
      BY <2>2, <2>5, <3>1 DEF Create, Run, TypeOK, RunsRunnable
    <3>2. CASE FreeSlot \in Pids /\ p_state[FreeSlot] = "EMPTY"
      <4>1. FreeSlot # 0 /\ FreeSlot # p /\ region \in Int
        BY <2>2, <2>5, <3>2 DEF Pids
      <4>2. p_state' \in [Pids -> States] /\ p_state'[p] = "RUNNABLE"
        BY <2>2, <2>5, <3>2, <4>1 DEF Create, TypeOK, States
      <4>3. eax' \in [Pids -> Int] /\ wait_queue' \in [Pids -> 0..(NPROCS - 1)]
        <5>1. FreeSlot \in Int /\ 0 \in 0..(NPROCS - 1)
          BY <3>2, MposAssumption DEF Pids
        <5> QED
          BY <2>5, <3>2, <4>1, <5>1 DEF Create, TypeOK
      <4>4. stack' \in [Pids -> Int] /\ \A q \in Pids : stack'[q] \in {q - 1, q}
        BY <2>5, <3>2, <4>1 DEF Create, TypeOK
      <4> QED
        BY <2>2, <2>5, <4>2, <4>3, <4>4 DEF Run, TypeOK, RunsRunnable
    <3> QED
      BY <3>1, <3>2, FreeSlotSpec
  <2>6. CASE Fork(p)
    <3>1. FreeSlot \in Int /\ stack[p] \in {p - 1, p} /\ p \in Int
      BY FreeSlotSpec DEF TypeOK, Pids
    <3>2. CopyStack(FreeSlot, p) \in {FreeSlot - 1, FreeSlot}
      BY <3>1 DEF CopyStack
    <3> QED
      BY <2>5, <2>6, <3>2 DEF Fork
  <2>7. CASE NewThread(p)
    BY <2>5, <2>7 DEF NewThread
  <2>8. ASSUME NEW status \in Statuses, Exit(p, status)
        PROVE  Basic'
    <3>1. TypeOK'
      BY <2>8, ScheduleRuns, MposAssumption DEF Exit, Woken, TypeOK, States
    <3> QED
      BY <2>8, <3>1, ScheduleRuns DEF Exit
  <2>9. ASSUME NEW t \in 0..NPROCS, Kill(p, t)
        PROVE  Basic'
    <3>1. TypeOK'
      BY <2>2, <2>9 DEF Kill, Woken, TypeOK, States, Run, Pids
    <3>2. p_state'[p] = "RUNNABLE"
      <4>1. CASE p_state' = p_state
        BY <2>2, <4>1
      <4>2. CASE t # p /\ p_state' = Woken(t, "EMPTY")
        BY <2>2, <4>2 DEF Woken
      <4> QED
        BY <2>9, <4>1, <4>2 DEF Kill, BadArgument
    <3> QED
      BY <2>2, <2>9, <3>1, <3>2 DEF Kill, Run, RunsRunnable
  <2>10. ASSUME NEW t \in 0..NPROCS, Wait(p, t)
         PROVE  Basic'
    <3>1. t \in Int /\ (~BadArgument(p, t) => t \in Pids)
      BY MposAssumption DEF BadArgument, Pids
    <3>2. TypeOK'
      <4>1. p_state' \in [Pids -> States] /\ eax' \in [Pids -> Int]
        BY <2>10, <3>1 DEF Wait, TypeOK, States
      <4>2. wait_queue' \in [Pids -> 0..(NPROCS - 1)]
        BY <2>2, <2>10 DEF Wait, TypeOK
      <4> QED
        BY <2>10, <4>1, <4>2, ScheduleRuns DEF Wait, TypeOK
    <3> QED
      BY <2>10, <3>2, ScheduleRuns DEF Wait
  <2> QED
    BY <2>1, <2>3, <2>4, <2>6, <2>7, <2>8, <2>9, <2>10 DEF SysCall
<1> QED
  BY <1>1, <1>2

(* The initial state: process 1, alone. *)
LEMMA BasicInit == Init => Basic
BY MposAssumption DEF Init, Basic, TypeOK, RunsRunnable, States, Pids

(* For every client and every size of the table, the variables have their
   types (TypeOK). *)
THEOREM TypeCorrect == Spec => []TypeOK
<1>1. Spec => []Basic
  BY BasicInit, BasicStep, PTL DEF Spec
<1>2. Basic => TypeOK
  BY DEF Basic
<1> QED
  BY <1>1, <1>2, PTL

(* For every client and every size of the table, the kernel resumes RUNNABLE
   processes only, and spins only when there is none (RunsRunnable). *)
THEOREM ResumesRunnable == Spec => []RunsRunnable
<1>1. Spec => []Basic
  BY BasicInit, BasicStep, PTL DEF Spec
<1>2. Basic => RunsRunnable
  BY DEF Basic
<1> QED
  BY <1>1, <1>2, PTL

-----------------------------------------------------------------------------
(* What a system call of p does to the fields that sys_wait depends on: it
   leaves the process states alone, creates n, ends t, reaps t, or blocks p. *)

Quiet(p) ==
  /\ UNCHANGED <<p_state, wait_queue>>
  /\ \A q \in Pids \ {p} : eax'[q] = eax[q]

Creates(p, n) ==
  /\ p_state[n] = "EMPTY"
  /\ p_state' = [p_state EXCEPT ![n] = "RUNNABLE"]
  /\ wait_queue' = [wait_queue EXCEPT ![n] = 0]
  /\ \A q \in Pids \ {p, n} : eax'[q] = eax[q]
  /\ Fork(p) \/ NewThread(p)

Ends(p, t) ==
  /\ p_state[t] = "RUNNABLE"
  /\ wait_queue' = wait_queue
  /\ \A q \in Pids \ {p, wait_queue[t]} : eax'[q] = eax[q]
  /\ \E s \in {"ZOMBIE", "EMPTY"} :
       /\ p_state' = Woken(t, s)
       /\ wait_queue[t] \in Pids /\ wait_queue[t] # p =>
            eax'[wait_queue[t]] = IF s = "ZOMBIE" THEN p_exit_status'[t] ELSE 0

Reaps(p, t) ==
  /\ p_state[t] = "ZOMBIE"
  /\ p_state' = [p_state EXCEPT ![t] = "EMPTY"]
  /\ wait_queue' = wait_queue
  /\ \A q \in Pids \ {p} : eax'[q] = eax[q]

Blocks(p, t) ==
  /\ t # p /\ p_state[t] \in Live
  /\ OneWaiter => t > p /\ wait_queue[t] = 0
  /\ p_state' = [p_state EXCEPT ![p] = "BLOCKED"]
  /\ wait_queue' = [wait_queue EXCEPT ![t] = p]
  /\ eax' = [eax EXCEPT ![p] = t]

(* Every system call has one of these effects when clients kill only RUNNABLE
   processes. *)
LEMMA Effects ==
  ASSUME GentleKills, Basic, NEW p \in Pids, SysCall(p)
  PROVE  /\ p_state[p] = "RUNNABLE"
         /\ \/ Quiet(p)
            \/ \E t \in Pids : \/ Creates(p, t) \/ Ends(p, t)
                              \/ Reaps(p, t) \/ Blocks(p, t)
<1> USE DEF Basic
<1>1. current = p /\ p # 0 /\ p_state[p] = "RUNNABLE"
  BY DEF SysCall, RunsRunnable, Pids
<1>2. CASE GetPid(p) \/ Yield(p)
  BY <1>1, <1>2 DEF GetPid, Yield, Quiet, TypeOK
<1>3. ASSUME NEW region, Create(p, region), Fork(p) \/ NewThread(p)
      PROVE  Quiet(p) \/ \E n \in Pids : Creates(p, n)
  <2>1. CASE FreeSlot = 0
    BY <1>3, <2>1 DEF Create, Quiet, TypeOK
  <2>2. CASE FreeSlot \in Pids /\ p_state[FreeSlot] = "EMPTY"
    <3>1. FreeSlot # 0
      BY <2>2 DEF Pids
    <3>2. Creates(p, FreeSlot)
      BY <1>3, <2>2, <3>1 DEF Create, Creates, TypeOK
    <3> QED
      BY <2>2, <3>2
  <2> QED
    BY <2>1, <2>2, FreeSlotSpec
<1>4. CASE Fork(p) \/ NewThread(p)
  BY <1>1, <1>3, <1>4 DEF Fork, NewThread
<1>5. ASSUME NEW status \in Statuses, Exit(p, status)
      PROVE  Ends(p, p)
  <2>1. /\ p_state' = Woken(p, "ZOMBIE")
        /\ p_exit_status' = [p_exit_status EXCEPT ![p] = status]
        /\ eax' = [q \in Pids |-> IF q \in {p, wait_queue[p]} THEN status ELSE eax[q]]
        /\ wait_queue' = wait_queue
    BY <1>5 DEF Exit
  <2>2. p_exit_status'[p] = status
    BY <2>1 DEF TypeOK
  <2> QED
    BY <1>1, <2>1, <2>2 DEF Ends
<1>6. ASSUME NEW t \in 0..NPROCS, Kill(p, t)
      PROVE  Quiet(p) \/ \E u \in Pids : Ends(p, u)
  <2>1. CASE BadArgument(p, t)
    BY <1>6, <2>1 DEF Kill, Quiet, TypeOK
  <2>2. CASE ~BadArgument(p, t)
    <3>1. t \in Pids /\ p_state[t] = "RUNNABLE"
      <4>1. p_state[t] \in KillStates
        BY <1>6, <2>2 DEF Kill
      <4>2. p_state[t] = "RUNNABLE"
        BY <4>1 DEF GentleKills
      <4>3. t \in Pids
        BY <2>2, MposAssumption DEF BadArgument, Pids
      <4> QED
        BY <4>2, <4>3
    <3>2. /\ p_state' = Woken(t, "EMPTY")
          /\ eax' = [q \in Pids |-> IF q \in {p, wait_queue[t]} THEN 0 ELSE eax[q]]
          /\ wait_queue' = wait_queue
      BY <1>6, <2>2, <3>1 DEF Kill
    <3>3. Ends(p, t)
      BY <3>1, <3>2 DEF Ends
    <3> QED
      BY <3>1, <3>3
  <2> QED
    BY <2>1, <2>2
<1>7. ASSUME NEW t \in 0..NPROCS, Wait(p, t)
      PROVE  Quiet(p) \/ \E u \in Pids : Reaps(p, u) \/ Blocks(p, u)
  <2>1. CASE BadArgument(p, t)
    BY <1>7, <2>1 DEF Wait, Quiet, TypeOK
  <2>2. CASE ~BadArgument(p, t)
    <3>1. t \in Pids /\ t # p /\ p_state[t] \in States /\ p_state[t] # "EMPTY"
      BY <2>2, MposAssumption DEF BadArgument, Pids, TypeOK
    <3>2. CASE p_state[t] = "ZOMBIE"
      BY <1>7, <2>2, <3>1, <3>2 DEF Wait, Reaps, TypeOK
    <3>3. CASE p_state[t] # "ZOMBIE"
      <4>1. p_state[t] \in Live
        BY <3>1, <3>3 DEF States, Live
      <4> QED
        BY <1>7, <2>2, <3>1, <3>3, <4>1 DEF Wait, Blocks
    <3> QED
      BY <3>2, <3>3
  <2> QED
    BY <2>1, <2>2
<1> QED
  BY <1>1, <1>2, <1>4, <1>5, <1>6, <1>7 DEF SysCall

-----------------------------------------------------------------------------
(* sys_wait, for clients that kill only RUNNABLE processes *)

(* Who is on a wait_queue is blocked there and nowhere else: inductive, since
   the argument of its sys_wait is still in the %eax of a blocked process. *)
LEMMA WaitQueueStep ==
  ASSUME GentleKills, Basic, WaitQueueOK, [Next]_vars
  PROVE  WaitQueueOK'
<1>1. CASE UNCHANGED vars
  BY <1>1 DEF vars, WaitQueueOK
<1>2. ASSUME NEW p \in Pids, SysCall(p)
      PROVE  WaitQueueOK'
  <2>0. p_state[p] = "RUNNABLE"
    BY <1>2, Effects
  <2>q. \A t \in Pids : wait_queue[t] # 0 => wait_queue[t] \in Pids
    BY MposAssumption DEF Basic, TypeOK, Pids
  <2> SUFFICES ASSUME NEW t \in Pids, p_state'[t] \in Live, wait_queue'[t] # 0
               PROVE  p_state'[wait_queue'[t]] = "BLOCKED" /\ eax'[wait_queue'[t]] = t
    BY DEF WaitQueueOK
  <2>1. CASE Quiet(p)
    BY <2>0, <2>q, <2>1 DEF Quiet, WaitQueueOK
  <2>2. ASSUME NEW n \in Pids, Creates(p, n)
        PROVE  p_state'[wait_queue'[t]] = "BLOCKED" /\ eax'[wait_queue'[t]] = t
    <3>1. t # n /\ wait_queue'[t] = wait_queue[t] /\ p_state[t] \in Live
      BY <2>2 DEF Creates, Basic, TypeOK
    <3>2. p_state[wait_queue[t]] = "BLOCKED" /\ eax[wait_queue[t]] = t /\ wait_queue[t] \in Pids
      BY <2>q, <3>1 DEF WaitQueueOK
    <3>3. wait_queue[t] # p /\ wait_queue[t] # n
      BY <2>0, <2>2, <3>2 DEF Creates
    <3> QED
      BY <2>2, <3>1, <3>2, <3>3 DEF Creates, Basic, TypeOK
  <2>3. ASSUME NEW u \in Pids, Ends(p, u)
        PROVE  p_state'[wait_queue'[t]] = "BLOCKED" /\ eax'[wait_queue'[t]] = t
    <3>1. PICK s \in {"ZOMBIE", "EMPTY"} : p_state' = Woken(u, s)
      BY <2>3 DEF Ends
    <3>2. /\ wait_queue' = wait_queue /\ p_state[u] = "RUNNABLE"
          /\ \A q \in Pids \ {p, wait_queue[u]} : eax'[q] = eax[q]
      BY <2>3 DEF Ends
    <3>3. t = wait_queue[u] => p_state[t] = "BLOCKED"
      BY <3>2 DEF WaitQueueOK, Live, Pids
    <3>4. p_state[t] \in Live /\ (t = u => t = wait_queue[u])
      BY <3>1, <3>3 DEF Woken, Live
    <3>5. p_state[wait_queue[t]] = "BLOCKED" /\ eax[wait_queue[t]] = t /\ wait_queue[t] \in Pids
      BY <2>q, <3>2, <3>4 DEF WaitQueueOK
    <3>6. t # u
      BY <3>2, <3>3, <3>4
    <3>7. wait_queue[t] # wait_queue[u]
      BY <3>2, <3>5, <3>6, <2>q DEF WaitQueueOK, Live, Pids
    <3>8. wait_queue[t] # p /\ wait_queue[t] # u
      BY <2>0, <3>2, <3>5
    <3> QED
      BY <3>1, <3>2, <3>5, <3>7, <3>8 DEF Woken
  <2>4. ASSUME NEW u \in Pids, Reaps(p, u)
        PROVE  p_state'[wait_queue'[t]] = "BLOCKED" /\ eax'[wait_queue'[t]] = t
    <3>1. t # u /\ wait_queue'[t] = wait_queue[t] /\ p_state[t] \in Live
      BY <2>4 DEF Reaps, Basic, TypeOK, Live
    <3>2. p_state[wait_queue[t]] = "BLOCKED" /\ eax[wait_queue[t]] = t /\ wait_queue[t] \in Pids
      BY <2>q, <3>1 DEF WaitQueueOK
    <3> QED
      BY <2>0, <2>4, <3>1, <3>2 DEF Reaps, Basic, TypeOK
  <2>5. ASSUME NEW u \in Pids, Blocks(p, u)
        PROVE  p_state'[wait_queue'[t]] = "BLOCKED" /\ eax'[wait_queue'[t]] = t
    <3>1. CASE t = u
      BY <2>5, <3>1 DEF Blocks, Basic, TypeOK
    <3>2. CASE t # u
      <4>1. wait_queue'[t] = wait_queue[t] /\ p_state[t] \in Live
        BY <2>0, <2>5, <3>2 DEF Blocks, Basic, TypeOK, Live
      <4>2. p_state[wait_queue[t]] = "BLOCKED" /\ eax[wait_queue[t]] = t /\ wait_queue[t] \in Pids
        BY <2>q, <4>1 DEF WaitQueueOK
      <4> QED
        BY <2>0, <2>5, <4>1, <4>2 DEF Blocks, Basic, TypeOK
    <3> QED
      BY <3>1, <3>2
  <2> QED
    BY <1>2, <2>1, <2>2, <2>3, <2>4, <2>5, Effects
<1> QED
  BY <1>1, <1>2 DEF Next

(* Initially nobody waits. *)
LEMMA WaitQueueInit == Init => WaitQueueOK
BY DEF Init, WaitQueueOK

(* The invariant of the theorems on sys_wait. *)
LEMMA WaitQueueInv ==
  ASSUME GentleKills
  PROVE  Spec => [](Basic /\ WaitQueueOK)
BY BasicInit, BasicStep, WaitQueueInit, WaitQueueStep, PTL DEF Spec

(* For clients that kill only RUNNABLE processes, whatever they wait for:
   sys_wait returns to a blocked process only when the process it waits for
   ends, with its exit status or 0 (WaitTruth). *)
THEOREM WaitsTrue ==
  ASSUME GentleKills
  PROVE  Spec => WaitTruth
<1> DEFINE Truth == \A w \in Pids : p_state[w] = "BLOCKED" /\ p_state'[w] = "RUNNABLE" =>
       LET t == eax[w] IN
         /\ t \in Pids /\ p_state[t] \in Live
         /\ \/ p_state'[t] = "ZOMBIE" /\ eax'[w] = p_exit_status'[t]
            \/ p_state'[t] = "EMPTY" /\ eax'[w] = 0
<1>1. ASSUME Basic, WaitQueueOK, [Next]_vars
      PROVE  Truth
  <2>1. CASE UNCHANGED vars
    BY <2>1 DEF vars
  <2>2. ASSUME NEW p \in Pids, SysCall(p), NEW w \in Pids,
               p_state[w] = "BLOCKED", p_state'[w] = "RUNNABLE"
        PROVE  LET t == eax[w] IN
                 /\ t \in Pids /\ p_state[t] \in Live
                 /\ \/ p_state'[t] = "ZOMBIE" /\ eax'[w] = p_exit_status'[t]
                    \/ p_state'[t] = "EMPTY" /\ eax'[w] = 0
    <3>1. PICK u \in Pids : Ends(p, u)
      <4>1. ASSUME NEW t \in Pids, Creates(p, t) \/ Reaps(p, t) \/ Blocks(p, t)
            PROVE  FALSE
        BY <1>1, <2>2, <4>1 DEF Creates, Reaps, Blocks, Basic, TypeOK
      <4>2. ~Quiet(p)
        BY <2>2 DEF Quiet
      <4> QED
        BY <1>1, <2>2, <4>1, <4>2, Effects
    <3>2. PICK s \in {"ZOMBIE", "EMPTY"} :
            /\ p_state' = Woken(u, s)
            /\ wait_queue[u] \in Pids /\ wait_queue[u] # p =>
                 eax'[wait_queue[u]] = IF s = "ZOMBIE" THEN p_exit_status'[u] ELSE 0
      BY <3>1 DEF Ends
    <3>3. p_state[u] = "RUNNABLE" /\ p_state[p] = "RUNNABLE" /\ p # w /\ u # w
      BY <1>1, <2>2, <3>1, Effects DEF Ends
    <3>4. w = wait_queue[u]
      BY <2>2, <3>2, <3>3 DEF Woken
    <3>5. eax[w] = u /\ p_state[u] \in Live
      BY <1>1, <3>3, <3>4 DEF WaitQueueOK, Live, Pids
    <3>6. p_state'[u] = s
      BY <3>2, <3>3, <3>4 DEF Woken
    <3>7. eax'[w] = IF s = "ZOMBIE" THEN p_exit_status'[u] ELSE 0
      BY <3>2, <3>3, <3>4
    <3> QED
      BY <3>5, <3>6, <3>7
  <2> QED
    BY <1>1, <2>1, <2>2 DEF Next
<1>2. Basic /\ WaitQueueOK /\ [Next]_vars => [Truth]_vars
  <2> HIDE DEF Truth
  <2> QED
    BY <1>1
<1> QED
  BY <1>2, WaitQueueInv, PTL DEF Spec, WaitTruth

(* For clients that kill only RUNNABLE processes: a descriptor comes to life
   only as a new process (NoResurrection). *)
THEOREM DeadStayDead ==
  ASSUME GentleKills
  PROVE  Spec => NoResurrection
<1> DEFINE Dead == \A p \in Pids : p_state[p] \notin Live /\ p_state'[p] \in Live =>
       p_state[p] = "EMPTY" /\ ProcessCreated
<1>1. ASSUME Basic, WaitQueueOK, [Next]_vars
      PROVE  Dead
  <2>1. CASE UNCHANGED vars
    BY <2>1 DEF vars
  <2>2. ASSUME NEW p \in Pids, SysCall(p), NEW q \in Pids,
               p_state[q] \notin Live, p_state'[q] \in Live
        PROVE  p_state[q] = "EMPTY" /\ ProcessCreated
    <3>1. current = p /\ p_state[p] = "RUNNABLE"
      BY <1>1, <2>2, Effects DEF SysCall
    <3>2. ASSUME NEW t \in Pids, Reaps(p, t) \/ Blocks(p, t)
          PROVE  FALSE
      BY <1>1, <2>2, <3>1, <3>2 DEF Reaps, Blocks, Basic, TypeOK, Live
    <3>3. ASSUME NEW t \in Pids, Ends(p, t)
          PROVE  FALSE
      <4>1. PICK s \in {"ZOMBIE", "EMPTY"} : p_state' = Woken(t, s)
        BY <3>3 DEF Ends
      <4>2. q = wait_queue[t]
        BY <2>2, <4>1 DEF Woken, Live
      <4> QED
        BY <1>1, <2>2, <3>3, <4>2 DEF Ends, WaitQueueOK, Live, Pids
    <3>4. ~Quiet(p)
      BY <2>2 DEF Quiet
    <3>5. PICK n \in Pids : Creates(p, n)
      BY <1>1, <2>2, <3>2, <3>3, <3>4, Effects
    <3> QED
      BY <1>1, <2>2, <3>1, <3>5 DEF Creates, ProcessCreated, Basic, TypeOK
  <2> QED
    BY <1>1, <2>1, <2>2 DEF Next
<1>2. Basic /\ WaitQueueOK /\ [Next]_vars => [Dead]_vars
  <2> HIDE DEF Dead
  <2> QED
    BY <1>1
<1> QED
  BY <1>2, WaitQueueInv, PTL DEF Spec, NoResurrection

-----------------------------------------------------------------------------
(* Clients that also wait in pid order, one waiter for each process *)

(* Blocked processes stay registered with a live process of a larger pid. *)
LEMMA RegisteredStep ==
  ASSUME GentleKills, OneWaiter, Basic, WaitersRegistered, ForwardWaits, [Next]_vars
  PROVE  WaitersRegistered' /\ ForwardWaits'
<1>1. CASE UNCHANGED vars
  BY <1>1 DEF vars, WaitersRegistered, ForwardWaits
<1>2. ASSUME NEW p \in Pids, SysCall(p)
      PROVE  WaitersRegistered' /\ ForwardWaits'
  <2>0. p_state[p] = "RUNNABLE"
    BY <1>2, Effects
  <2> DEFINE Fine(w) == \E t \in Pids : /\ eax'[w] = t /\ p_state'[t] \in Live
                                        /\ wait_queue'[t] = w /\ t > w
  <2> SUFFICES ASSUME NEW w \in Pids, p_state'[w] = "BLOCKED"
               PROVE  Fine(w)
    BY DEF WaitersRegistered, ForwardWaits
  <2>1. ASSUME p_state[w] = "BLOCKED"
        PROVE  \E t \in Pids : /\ eax[w] = t /\ p_state[t] \in Live
                               /\ wait_queue[t] = w /\ t > w
    BY <2>1 DEF WaitersRegistered, ForwardWaits
  <2>2. CASE Quiet(p)
    BY <2>0, <2>1, <2>2 DEF Quiet
  <2>3. ASSUME NEW n \in Pids, Creates(p, n)
        PROVE  Fine(w)
    <3>1. p_state[w] = "BLOCKED" /\ w # n /\ w # p
      BY <2>0, <2>3 DEF Creates, Basic, TypeOK
    <3>2. PICK t \in Pids : eax[w] = t /\ p_state[t] \in Live /\ wait_queue[t] = w /\ t > w
      BY <2>1, <3>1
    <3>3. t # n
      BY <2>3, <3>2 DEF Creates, Live
    <3> QED
      BY <2>3, <3>1, <3>2, <3>3 DEF Creates, Basic, TypeOK
  <2>4. ASSUME NEW u \in Pids, Ends(p, u)
        PROVE  Fine(w)
    <3>1. PICK s \in {"ZOMBIE", "EMPTY"} : p_state' = Woken(u, s)
      BY <2>4 DEF Ends
    <3>2. p_state[w] = "BLOCKED" /\ w # wait_queue[u] /\ w # p
      BY <2>0, <3>1 DEF Woken
    <3>3. PICK t \in Pids : eax[w] = t /\ p_state[t] \in Live /\ wait_queue[t] = w /\ t > w
      BY <2>1, <3>2
    <3>4. t # u
      BY <3>2, <3>3
    <3>5. p_state'[t] \in Live
      BY <3>1, <3>3, <3>4 DEF Woken, Live
    <3> QED
      BY <2>4, <3>2, <3>3, <3>5 DEF Ends
  <2>5. ASSUME NEW u \in Pids, Reaps(p, u)
        PROVE  Fine(w)
    <3>1. p_state[w] = "BLOCKED" /\ w # p
      BY <2>0, <2>5 DEF Reaps, Basic, TypeOK
    <3>2. PICK t \in Pids : eax[w] = t /\ p_state[t] \in Live /\ wait_queue[t] = w /\ t > w
      BY <2>1, <3>1
    <3>3. t # u
      BY <2>5, <3>2 DEF Reaps, Live
    <3> QED
      BY <2>5, <3>1, <3>2, <3>3 DEF Reaps, Basic, TypeOK
  <2>6. ASSUME NEW u \in Pids, Blocks(p, u)
        PROVE  Fine(w)
    <3>1. u > p /\ wait_queue[u] = 0 /\ p_state[u] \in Live /\ u # p
      BY <2>6 DEF Blocks
    <3>2. CASE w = p
      BY <2>6, <3>1, <3>2 DEF Blocks, Basic, TypeOK
    <3>3. CASE w # p
      <4>1. p_state[w] = "BLOCKED" /\ w # 0
        BY <2>6, <3>3 DEF Blocks, Basic, TypeOK, Pids
      <4>2. PICK t \in Pids : eax[w] = t /\ p_state[t] \in Live /\ wait_queue[t] = w /\ t > w
        BY <2>1, <4>1
      <4>3. t # u
        BY <3>1, <4>1, <4>2
      <4>4. p_state'[t] \in Live
        BY <2>6, <4>2 DEF Blocks, Basic, TypeOK, Live
      <4> QED
        BY <2>6, <3>3, <4>2, <4>3, <4>4 DEF Blocks, Basic, TypeOK
    <3> QED
      BY <3>2, <3>3
  <2> QED
    BY <1>2, <2>2, <2>3, <2>4, <2>5, <2>6, Effects
<1> QED
  BY <1>1, <1>2 DEF Next

(* With one waiter for each process, waiting in pid order, no blocked process
   is ever forgotten (WaitersRegistered): the case of a second waiter, whose
   sys_wait overwrites wait_queue, is the only one that loses a waiter. *)
THEOREM NoWaiterLost ==
  ASSUME GentleKills, OneWaiter
  PROVE  Spec => []WaitersRegistered
<1> DEFINE I == Basic /\ WaitersRegistered /\ ForwardWaits
<1>1. Init => I
  BY BasicInit DEF Init, WaitersRegistered, ForwardWaits
<1>2. I /\ [Next]_vars => I'
  BY BasicStep, RegisteredStep
<1> QED
  BY <1>1, <1>2, PTL DEF Spec

(* With one waiter for each process, waiting in pid order, schedule() spins
   only when no process is left blocked (SpinsWhenDone): from any blocked
   process the waits lead, in increasing pids, to one that can run. *)
THEOREM SpinsOnlyWhenDone ==
  ASSUME GentleKills, OneWaiter
  PROVE  Spec => []SpinsWhenDone
<1> DEFINE I == Basic /\ WaitersRegistered /\ ForwardWaits
<1>1. Init => I
  BY BasicInit DEF Init, WaitersRegistered, ForwardWaits
<1>2. I /\ [Next]_vars => I'
  BY BasicStep, RegisteredStep
<1>3. I => SpinsWhenDone
  <2> SUFFICES ASSUME I, current = 0, NEW b \in Pids, p_state[b] = "BLOCKED"
               PROVE  FALSE
    BY DEF SpinsWhenDone
  <2> DEFINE B == {q \in Pids : p_state[q] = "BLOCKED"}
             d == [q \in B |-> NPROCS - q]
  <2>1. B # {} /\ d \in [B -> Nat]
    BY MposAssumption DEF Pids
  <2>2. \E w \in B : \A q \in B : d[w] <= d[q]
    <3> HIDE DEF B, d
    <3> QED
      BY <2>1, Least
  <2>3. PICK w \in B : \A q \in B : q <= w
    <3>1. PICK w \in B : \A q \in B : d[w] <= d[q]
      BY <2>2
    <3>2. \A q \in B : d[q] = NPROCS - q /\ q \in Int
      BY DEF Pids
    <3> HIDE DEF B, d
    <3> QED
      BY <3>1, <3>2, MposAssumption
  <2>4. PICK t \in Pids : eax[w] = t /\ p_state[t] \in Live /\ t > w
    BY <2>3 DEF WaitersRegistered, ForwardWaits
  <2>5. p_state[t] = "BLOCKED"
    BY <2>4 DEF Basic, RunsRunnable, Live
  <2> QED
    BY <2>3, <2>4, <2>5, MposAssumption DEF Pids
<1> QED
  BY <1>1, <1>2, <1>3, PTL DEF Spec

-----------------------------------------------------------------------------
(* Stacks *)

(* Without sys_newthread, which places a thread's stack pointer in the region
   before its own, live processes never share a stack (OwnStacks): copy_stack
   puts the stack of every forked process into the process's own region. *)
THEOREM ForkedStacks ==
  ASSUME ~Threads
  PROVE  Spec => []OwnStacks
<1> DEFINE I == Basic /\ \A p \in Pids : stack[p] = p
<1>1. Init => I
  BY BasicInit DEF Init
<1>2. I /\ [Next]_vars => I'
  <2> SUFFICES ASSUME I, [Next]_vars
               PROVE  \A q \in Pids : stack'[q] = q
    BY BasicStep
  <2>1. CASE UNCHANGED vars
    BY <2>1 DEF vars
  <2>2. ASSUME NEW p \in Pids, SysCall(p)
        PROVE  \A q \in Pids : stack'[q] = q
    <3>1. CASE Fork(p)
      <4>1. FreeSlot \in Int /\ stack[p] = p /\ p \in Int
        BY FreeSlotSpec DEF Pids
      <4>2. CopyStack(FreeSlot, p) = FreeSlot
        BY <4>1 DEF CopyStack
      <4> QED
        BY <3>1, <4>2 DEF Fork, Create, Basic, TypeOK
    <3>2. ~NewThread(p)
      BY DEF NewThread
    <3>3. CASE ~Fork(p)
      BY <2>2, <3>2, <3>3 DEF SysCall, GetPid, Yield, Exit, Kill, Wait
    <3> QED
      BY <3>1, <3>3
  <2> QED
    BY <2>1, <2>2 DEF Next
<1>3. I => OwnStacks
  BY DEF OwnStacks
<1> QED
  BY <1>1, <1>2, <1>3, PTL DEF Spec
=============================================================================
