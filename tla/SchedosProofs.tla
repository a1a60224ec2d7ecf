--------------------------- MODULE SchedosProofs ---------------------------
(***************************************************************************)
(* Proofs about SchedOS (module Schedos) for any number of processes and   *)
(* characters, any build and clock interrupts anywhere: what the five      *)
(* scheduling algorithms promise, and that the console loses nothing.      *)
(***************************************************************************)
EXTENDS Schedos, NatLemmas, FiniteSetTheorems

Starting == {"set_priority", "set_share"}
Critical == {"read", "advance", "write", "release"}
Size == (NPROCS - 1) * RUNCOUNT

(* The shares with which algorithms 3 and 4 always find somebody to run; the
   programs of the lab ask for shares of at least 1. *)
PositiveShares ==
  \A b \in Builds : b.scheduling_algorithm \in {3, 4} => \A p \in Pids : b.SHARE[p] # 0

-----------------------------------------------------------------------------
(* The searches *)

(* Least picks the first hit of a search. *)
LEMMA LeastSpec ==
  ASSUME NEW K \in SUBSET Nat, K # {}
  PROVE  Least(K) \in K /\ \A j \in K : Least(K) <= j
BY LeastExists DEF Least

(* Greatest picks the last one. *)
LEMMA GreatestSpec ==
  ASSUME NEW K \in SUBSET Nat, K # {}, NEW n \in Nat, \A k \in K : k <= n
  PROVE  Greatest(K) \in K
BY GreatestExists DEF Greatest

(* A search visits descriptors, and every one of them on every lap. *)
LEMMA VisitedSpec ==
  ASSUME current \in 0..(NPROCS - 1)
  PROVE  /\ \A k \in 0..(2 * NPROCS - 1) : Visited(k) \in 0..(NPROCS - 1)
         /\ \A p \in Pids : /\ \E k \in 1..NPROCS : Visited(k) = p
                            /\ \E k \in 0..(NPROCS - 1) : Visited(k) = p
                            /\ \E k \in NPROCS..(2 * NPROCS - 1) : Visited(k) = p
<1> USE SchedosAssumption DEF Visited, Pids
<1>1. \A k \in 0..(2 * NPROCS - 1) :
        Visited(k) = IF current + k < NPROCS THEN current + k
                     ELSE IF current + k < 2 * NPROCS THEN current + k - NPROCS
                     ELSE current + k - 2 * NPROCS
  BY SmallMod
<1>2. \A k \in 0..(2 * NPROCS - 1) : Visited(k) \in 0..(NPROCS - 1)
  BY <1>1
<1> SUFFICES ASSUME NEW p \in Pids
             PROVE  /\ \E k \in 1..NPROCS : Visited(k) = p
                    /\ \E k \in 0..(NPROCS - 1) : Visited(k) = p
                    /\ \E k \in NPROCS..(2 * NPROCS - 1) : Visited(k) = p
  BY <1>2
<1> DEFINE d == IF p >= current THEN p - current ELSE p - current + NPROCS
           e == IF p > current THEN p - current ELSE p - current + NPROCS
<1>3. d \in 0..(NPROCS - 1) /\ Visited(d) = p
  BY <1>1
<1>4. e \in 1..NPROCS /\ Visited(e) = p
  BY <1>1
<1>5. d + NPROCS \in NPROCS..(2 * NPROCS - 1) /\ Visited(d + NPROCS) = p
  BY <1>1
<1> QED
  BY <1>3, <1>4, <1>5

(* Among the processes that can run one has the least priority number. *)
LEMMA BestExists ==
  ASSUME p_priority \in [Pids -> Nat], NEW q \in Pids, Runnable(q)
  PROVE  \E p \in Pids : Runnable(p) /\ MinPriority(p)
<1> DEFINE S == {p_priority[r] : r \in {s \in Pids : Runnable(s)}}
<1>1. S \in SUBSET Nat /\ S # {}
  OBVIOUS
<1>2. PICK x \in S : \A y \in S : x <= y
  <2> HIDE DEF S
  <2> QED
    BY <1>1, LeastExists
<1>3. PICK p \in Pids : Runnable(p) /\ p_priority[p] = x
  BY <1>2
<1> QED
  BY <1>2, <1>3 DEF MinPriority
-----------------------------------------------------------------------------
(* What schedule() does, algorithm by algorithm *)

(* A process without a share was never charged, one with a share has it from
   the macro SHARE and was not charged more. *)
ShareInv ==
  /\ \A p \in Pids : pc[p] \in Starting <=> p_share[p] = -1
  /\ \A p \in Pids : p_share[p] = -1 => p_run_count[p] = 0
  /\ \A p \in Pids : p_share[p] # -1 => p_share[p] = build.SHARE[p]
  /\ ShareRespected

(* schedule() resumes a process that can run, or none can and it spins *)
Resumes ==
  \/ current' = 0 /\ \A p \in Pids : ~Runnable(p)
  \/ Runnable(current')

(* Algorithm 0 finds a process whenever one can run. *)
LEMMA RoundRobinResumes ==
  ASSUME TypeOK, RoundRobin
  PROVE  Resumes
<1> DEFINE hits == {k \in 1..NPROCS : Runnable(Visited(k))}
<1>1. CASE hits = {}
  BY <1>1, VisitedSpec DEF RoundRobin, Resumes, TypeOK
<1>2. CASE hits # {}
  <2>1. hits \in SUBSET Nat
    BY SchedosAssumption
  <2>2. Least(hits) \in hits
    <3> HIDE DEF hits
    <3> QED
      BY <1>2, <2>1, LeastSpec
  <2>3. current' = Visited(Least(hits))
    BY <1>2 DEF RoundRobin
  <2> QED
    BY <2>2, <2>3 DEF Resumes
<1> QED
  BY <1>1, <1>2

(* So does algorithm 1. *)
LEMMA SmallestPidResumes ==
  ASSUME SmallestPid
  PROVE  Resumes
<1> DEFINE hits == {p \in Pids : Runnable(p)}
<1>1. CASE hits = {}
  BY <1>1 DEF SmallestPid, Resumes
<1>2. CASE hits # {}
  <2>1. hits \in SUBSET Nat
    BY SchedosAssumption DEF Pids
  <2>2. Least(hits) \in hits
    <3> HIDE DEF hits
    <3> QED
      BY <1>2, <2>1, LeastSpec
  <2> QED
    BY <1>2, <2>2 DEF SmallestPid, Resumes
<1> QED
  BY <1>1, <1>2

(* Algorithm 2 resumes a process of the best priority. *)
LEMMA BestPriorityResumes ==
  ASSUME TypeOK, BestPriority
  PROVE  Resumes /\ (current' # 0 => MinPriority(current'))
<1> DEFINE hits == {k \in 0..(NPROCS - 1) : Runnable(Visited(k)) /\ MinPriority(Visited(k))}
<1>1. CASE hits = {}
  <2>1. ASSUME NEW q \in Pids, Runnable(q) PROVE FALSE
    <3>1. PICK p \in Pids : Runnable(p) /\ MinPriority(p)
      BY <2>1, BestExists DEF TypeOK
    <3>2. PICK k \in 0..(NPROCS - 1) : Visited(k) = p
      BY VisitedSpec DEF TypeOK
    <3> QED
      BY <1>1, <3>1, <3>2
  <2> QED
    BY <1>1, <2>1 DEF BestPriority, Resumes
<1>2. CASE hits # {}
  <2>1. hits \in SUBSET Nat /\ (\A k \in hits : k <= NPROCS) /\ NPROCS \in Nat
    BY SchedosAssumption
  <2>2. Greatest(hits) \in hits
    <3> HIDE DEF hits
    <3> QED
      BY <1>2, <2>1, GreatestSpec
  <2>3. current' = Visited(Greatest(hits))
    BY <1>2 DEF BestPriority
  <2> QED
    BY <2>2, <2>3 DEF Resumes
<1> QED
  BY <1>1, <1>2

(* The search of algorithms 3 and 4 charges nobody above its share; it ends at
   one of the given processes, or none of them may run. *)
LEMMA ShareSearchSpec ==
  ASSUME TypeOK, ShareInv, NEW members \in SUBSET Pids, ShareSearch(members)
  PROVE  /\ p_run_count' \in [Pids -> Nat]
         /\ \A p \in Pids : p_share[p] = -1 => p_run_count'[p] = 0
         /\ \A p \in Pids : p_share[p] # -1 => p_run_count'[p] <= p_share[p]
         /\ current' \in members \/ (current' = 0 /\ \A p \in members : p_share[p] = 0)
<1> DEFINE visits == {k \in 0..(2 * NPROCS - 1) : Visited(k) \in members}
           count(k) == IF k < NPROCS THEN p_run_count[Visited(k)] ELSE 0
           hits == {k \in visits : SlotsLeft(Visited(k), count(k))}
           stop == Least(hits)
           passed == {Visited(k) : k \in {j \in visits : j < stop}}
           charge(k) == IF p_share[Visited(k)] = -1 THEN 0 ELSE 1
<1>0. /\ p_run_count \in [Pids -> Nat] /\ p_share \in [Pids -> Nat \cup {-1}]
      /\ \A p \in Pids : p_share[p] = -1 => p_run_count[p] = 0
      /\ \A p \in Pids : p_share[p] # -1 => p_run_count[p] <= p_share[p]
  BY DEF TypeOK, ShareInv, ShareRespected
<1>1. CASE hits = {}
  <2>1. current' = 0 /\ p_run_count' = p_run_count
    BY <1>1 DEF ShareSearch
  <2>2. ASSUME NEW p \in members PROVE p_share[p] = 0
    <3>1. PICK k \in NPROCS..(2 * NPROCS - 1) : Visited(k) = p
      BY VisitedSpec DEF TypeOK
    <3>2. k \in visits /\ count(k) = 0
      BY <3>1, SchedosAssumption
    <3>3. ~SlotsLeft(p, 0)
      BY <1>1, <3>1, <3>2
    <3> QED
      BY <3>3 DEF SlotsLeft
  <2> QED
    BY <1>0, <2>1, <2>2
<1>2. CASE hits # {}
  <2>1. hits \in SUBSET Nat
    BY SchedosAssumption
  <2>2. stop \in hits
    <3> HIDE DEF hits
    <3> QED
      BY <1>2, <2>1, LeastSpec
  <2> DEFINE p0 == Visited(stop)
             c0 == count(stop)
             g0 == charge(stop)
  <2>3. p0 \in members /\ SlotsLeft(p0, c0)
    BY <2>2
  <2>4. c0 \in {p_run_count[p0], 0}
    OBVIOUS
  <2>5. g0 = IF p_share[p0] = -1 THEN 0 ELSE 1
    OBVIOUS
  <2>6. /\ current' = p0
        /\ p_run_count' = [p \in Pids |-> CASE p = p0 -> c0 + g0
                                            [] p # p0 /\ p \in passed -> 0
                                            [] OTHER -> p_run_count[p]]
    BY <1>2 DEF ShareSearch
  <2> HIDE DEF p0, c0, g0, passed, hits, visits
  <2>7. c0 \in Nat /\ g0 \in Nat
    BY <1>0, <2>3, <2>4, <2>5
  <2>8. p_share[p0] = -1 => c0 + g0 = 0
    BY <1>0, <2>3, <2>4, <2>5
  <2>9. p_share[p0] # -1 => c0 + g0 <= p_share[p0]
    BY <1>0, <2>3, <2>4, <2>5 DEF SlotsLeft
  <2>10. \A p \in Pids : p_run_count'[p] \in {0, p_run_count[p]} \/ (p = p0 /\ p_run_count'[p] = c0 + g0)
    BY <2>6
  <2> QED
    BY <1>0, <2>3, <2>6, <2>7, <2>8, <2>9, <2>10
<1> QED
  BY <1>1, <1>2
(* schedule() with any algorithm and any shares: what it resumes can run, and
   under algorithms 2 and 4 nobody who can run has a better priority than a
   process that has a share. *)
LEMMA ScheduleSpec ==
  ASSUME TypeOK, ShareInv, Schedule
  PROVE  /\ current' \in 0..(NPROCS - 1)
         /\ current' = 0 \/ Runnable(current')
         /\ p_run_count' \in [Pids -> Nat]
         /\ \A p \in Pids : p_share[p] = -1 => p_run_count'[p] = 0
         /\ \A p \in Pids : p_share[p] # -1 => p_run_count'[p] <= p_share[p]
         /\ build.scheduling_algorithm = 2 /\ current' # 0 => MinPriority(current')
         /\ build.scheduling_algorithm = 4 /\ current' # 0
              => p_share[current'] = -1 \/ MinPriority(current')
<1> DEFINE Counts == /\ p_run_count' \in [Pids -> Nat]
                     /\ \A p \in Pids : p_share[p] = -1 => p_run_count'[p] = 0
                     /\ \A p \in Pids : p_share[p] # -1 => p_run_count'[p] <= p_share[p]
<1>0. \A p \in Pids : Runnable(p) => p \in 0..(NPROCS - 1)
  BY SchedosAssumption DEF Pids
<1>1. UNCHANGED p_run_count => Counts
  BY DEF TypeOK, ShareInv, ShareRespected
<1>2. \A p : Runnable(p) => p \in Pids
  BY DEF Runnable
<1>3. 0 \in 0..(NPROCS - 1)
  BY SchedosAssumption
<1>4. CASE build.scheduling_algorithm = 0 /\ RoundRobin
  <2>1. UNCHANGED p_run_count
    BY <1>4 DEF RoundRobin
  <2> QED
    BY <1>0, <1>1, <1>2, <1>3, <1>4, <2>1, RoundRobinResumes DEF Resumes
<1>5. CASE build.scheduling_algorithm = 1 /\ SmallestPid
  <2>1. UNCHANGED p_run_count
    BY <1>5 DEF SmallestPid
  <2> QED
    BY <1>0, <1>1, <1>2, <1>3, <1>5, <2>1, SmallestPidResumes DEF Resumes
<1>6. CASE build.scheduling_algorithm = 2 /\ BestPriority
  <2>1. UNCHANGED p_run_count
    BY <1>6 DEF BestPriority
  <2> QED
    BY <1>0, <1>1, <1>2, <1>3, <1>6, <2>1, BestPriorityResumes DEF Resumes
<1>7. CASE build.scheduling_algorithm = 3 /\ ProportionalShare
  <2> DEFINE members == {p \in Pids : Runnable(p)}
  <2>1. members \in SUBSET Pids /\ ShareSearch(members)
    BY <1>7 DEF ProportionalShare
  <2>2. Counts /\ (current' \in members \/ current' = 0)
    <3> HIDE DEF members
    <3> QED
      BY <2>1, ShareSearchSpec
  <2> QED
    BY <1>0, <1>3, <1>7, <2>2
<1>8. CASE build.scheduling_algorithm = 4 /\ MultiLevelQueue
  <2> DEFINE members == {p \in Pids : Runnable(p) /\ (p_share[p] = -1 \/ MinPriority(p))}
  <2>1. members \in SUBSET Pids /\ ShareSearch(members)
    BY <1>8 DEF MultiLevelQueue
  <2>2. Counts /\ (current' \in members \/ current' = 0)
    <3> HIDE DEF members
    <3> QED
      BY <2>1, ShareSearchSpec
  <2> QED
    BY <1>0, <1>3, <1>8, <2>2
<1> QED
  BY <1>4, <1>5, <1>6, <1>7, <1>8 DEF Schedule

(* With positive shares it spins only when nobody can run: the second lap of
   the search meets every process with a fresh count. *)
LEMMA ScheduleResumes ==
  ASSUME PositiveShares, TypeOK, ShareInv, Schedule
  PROVE  Resumes
<1>1. CASE build.scheduling_algorithm \notin {3, 4}
  BY <1>1, RoundRobinResumes, SmallestPidResumes, BestPriorityResumes DEF Schedule
<1>2. CASE build.scheduling_algorithm \in {3, 4}
  <2>1. \A p \in Pids : p_share[p] # 0
    BY <1>2 DEF PositiveShares, TypeOK, ShareInv
  <2>2. CASE ProportionalShare
    <3> DEFINE members == {p \in Pids : Runnable(p)}
    <3>1. members \in SUBSET Pids /\ ShareSearch(members)
      BY <2>2 DEF ProportionalShare
    <3>2. current' \in members \/ (current' = 0 /\ \A p \in members : p_share[p] = 0)
      <4> HIDE DEF members
      <4> QED
        BY <3>1, ShareSearchSpec
    <3> QED
      BY <2>1, <3>2 DEF Resumes
  <2>3. CASE MultiLevelQueue
    <3> DEFINE members == {p \in Pids : Runnable(p) /\ (p_share[p] = -1 \/ MinPriority(p))}
    <3>1. members \in SUBSET Pids /\ ShareSearch(members)
      BY <2>3 DEF MultiLevelQueue
    <3>2. current' \in members \/ (current' = 0 /\ \A p \in members : p_share[p] = 0)
      <4> HIDE DEF members
      <4> QED
        BY <3>1, ShareSearchSpec
    <3>3. ASSUME NEW q \in Pids, Runnable(q) PROVE \E p \in Pids : p \in members
      BY <3>3, BestExists DEF TypeOK
    <3> QED
      BY <2>1, <3>2, <3>3 DEF Resumes
  <2> QED
    BY <1>2, <2>2, <2>3 DEF Schedule
<1> QED
  BY <1>1, <1>2
-----------------------------------------------------------------------------
(* Types, loop counters and shares *)

(* where an application is agrees with its loop counter and the build *)
LoopInv ==
  /\ \A p \in Pids : pc[p] \in {"print", "acquire", "read", "advance", "write"}
                       => i[p] < RUNCOUNT
  /\ \A p \in Pids : pc[p] = "print" => build.SYNC_METHOD = 1
  /\ \A p \in Pids : pc[p] \in Critical \cup {"acquire"} => build.SYNC_METHOD = 2

Basic == TypeOK /\ LoopInv /\ ShareInv

(* the steps that call schedule() *)
ScheduleStep(p) == Yield(p) \/ Exit(p) \/ ClockInterrupt(p)

(* What they do besides: sys_yield and sys_exit move their caller on. *)
LEMMA ScheduleStepSpec ==
  ASSUME Basic, NEW p \in Pids, ScheduleStep(p)
  PROVE  /\ Schedule /\ UNCHANGED <<build, p_priority, p_share, memory, i, tmp>>
         /\ current = p
         /\ p_state' \in [Pids -> {"RUNNABLE", "ZOMBIE"}]
         /\ \/ UNCHANGED pc
            \/ pc[p] = "yield" /\ pc' = [pc EXCEPT ![p] = LoopStart] /\ i[p] < RUNCOUNT
            \/ pc[p] \in {"yield", "exit"} /\ \E s \in {"exit", "gone"} : pc' = [pc EXCEPT ![p] = s]
<1>1. CASE Yield(p)
  BY <1>1 DEF Yield, At, Goto, Basic, TypeOK
<1>2. CASE Exit(p)
  BY <1>2 DEF Exit, At, Goto, Basic, TypeOK
<1>3. CASE ClockInterrupt(p)
  BY <1>3 DEF ClockInterrupt, Basic, TypeOK
<1> QED
  BY <1>1, <1>2, <1>3 DEF ScheduleStep

(* The first two system calls of an application. *)
LEMMA BasicStart ==
  ASSUME Basic, NEW p \in Pids, SetPriority(p) \/ SetShare(p)
  PROVE  Basic'
<1>1. /\ build.PRIORITY[p] \in Nat /\ build.SHARE[p] \in Nat /\ build.SHARE[p] # -1
  BY SchedosAssumption DEF Basic, TypeOK, BuildSpace
<1> USE DEF Basic, TypeOK
<1>2. CASE SetPriority(p)
  <2>1. TypeOK'
    BY <1>1, <1>2 DEF SetPriority, At, Goto, memory
  <2>2. LoopInv'
    BY <1>2 DEF SetPriority, At, Goto, LoopInv, Critical
  <2>3. ShareInv'
    BY <1>2 DEF SetPriority, At, Goto, ShareInv, ShareRespected, Starting
  <2> QED
    BY <2>1, <2>2, <2>3
<1>3. CASE SetShare(p)
  <2>1. TypeOK'
    BY <1>1, <1>3 DEF SetShare, At, Goto, memory
  <2>2. LoopInv'
    BY <1>3 DEF SetShare, At, Goto, LoopInv, Critical
  <2>3. p_run_count[p] = 0
    BY <1>3 DEF SetShare, At, ShareInv, Starting
  <2>4. ShareInv'
    BY <1>1, <1>3, <2>3 DEF SetShare, At, Goto, ShareInv, ShareRespected, Starting
  <2> QED
    BY <2>1, <2>2, <2>4
<1> QED
  BY <1>2, <1>3

(* the steps of the printing loop *)
PrintStep(p) == \/ SysPrint(p) \/ Acquire(p) \/ ReadCursor(p) \/ AdvanceCursor(p)
                \/ WriteCell(p) \/ Release(p)

(* They leave the kernel's variables alone, keep the types, and go on inside the
   loop only while there is something left to print. *)
LEMMA PrintStepSpec ==
  ASSUME Basic, NEW p \in Pids, PrintStep(p)
  PROVE  /\ UNCHANGED <<build, kernel>> /\ current = p
         /\ pc[p] \in {"print", "acquire"} \cup Critical
         /\ \E s \in {"acquire", "yield"} \cup Critical :
              /\ pc' = [pc EXCEPT ![p] = s]
              /\ s \in {"acquire", "read", "advance", "write"} => i'[p] < RUNCOUNT
              /\ s # "yield" => build.SYNC_METHOD = 2
         /\ TypeOK'
         /\ \A q \in Pids : q # p => i'[q] = i[q]
<1> USE SchedosAssumption DEF Basic, TypeOK, LoopInv, Critical, At, Goto, Put, kernel
<1>0. ASSUME NEW c, Put(p, c), i[p] < RUNCOUNT
      PROVE  /\ i' \in [Pids -> 0..RUNCOUNT] /\ (\A q \in Pids : q # p => i'[q] = i[q])
             /\ console' \in [Cells -> 0..(NPROCS - 1)]
  <2>1. p \in 0..(NPROCS - 1)
    BY DEF Pids
  <2>2. console' \in [Cells -> 0..(NPROCS - 1)]
    BY <1>0, <2>1
  <2>3. i[p] + 1 \in 0..RUNCOUNT
    BY <1>0
  <2>4. i' \in [Pids -> 0..RUNCOUNT] /\ (\A q \in Pids : q # p => i'[q] = i[q])
    BY <1>0, <2>3
  <2> QED
    BY <2>2, <2>4
<1>1. CASE SysPrint(p)
  <2>1. /\ i' \in [Pids -> 0..RUNCOUNT] /\ (\A q \in Pids : q # p => i'[q] = i[q])
        /\ console' \in [Cells -> 0..(NPROCS - 1)]
    BY <1>0, <1>1 DEF SysPrint
  <2> QED
    BY <1>1, <2>1 DEF SysPrint
<1>2. CASE Acquire(p)
  BY <1>2 DEF Acquire
<1>3. CASE ReadCursor(p)
  BY <1>3 DEF ReadCursor, memory
<1>4. CASE AdvanceCursor(p)
  BY <1>4 DEF AdvanceCursor
<1>5. CASE WriteCell(p)
  <2>1. /\ i' \in [Pids -> 0..RUNCOUNT] /\ (\A q \in Pids : q # p => i'[q] = i[q])
        /\ console' \in [Cells -> 0..(NPROCS - 1)]
    BY <1>0, <1>5 DEF WriteCell
  <2> QED
    BY <1>5, <2>1 DEF WriteCell
<1>6. CASE Release(p)
  BY <1>6 DEF Release
<1> QED
  BY <1>1, <1>2, <1>3, <1>4, <1>5, <1>6 DEF PrintStep

(* Every step preserves the types, the loop counters and the shares. *)
LEMMA BasicStep ==
  ASSUME Basic, [Next]_vars
  PROVE  Basic'
<1>1. ASSUME NEW p \in Pids, SetPriority(p) \/ SetShare(p) PROVE Basic'
  BY <1>1, BasicStart
<1>2. ASSUME NEW p \in Pids, ScheduleStep(p) PROVE Basic'
  <2>1. /\ Schedule /\ UNCHANGED <<build, p_priority, p_share, memory, i, tmp>>
        /\ p_state' \in [Pids -> {"RUNNABLE", "ZOMBIE"}]
        /\ \/ UNCHANGED pc
           \/ pc[p] = "yield" /\ pc' = [pc EXCEPT ![p] = LoopStart] /\ i[p] < RUNCOUNT
           \/ pc[p] \in {"yield", "exit"} /\ \E s \in {"exit", "gone"} : pc' = [pc EXCEPT ![p] = s]
    BY <1>2, ScheduleStepSpec
  <2>2. /\ current' \in 0..(NPROCS - 1)
        /\ p_run_count' \in [Pids -> Nat]
        /\ \A q \in Pids : p_share[q] = -1 => p_run_count'[q] = 0
        /\ \A q \in Pids : p_share[q] # -1 => p_run_count'[q] <= p_share[q]
    BY <2>1, ScheduleSpec DEF Basic
  <2>3. TypeOK'
    BY <2>1, <2>2 DEF Basic, TypeOK, memory, LoopStart
  <2>4. build.SYNC_METHOD \in {1, 2}
    BY SchedosAssumption DEF Basic, TypeOK, BuildSpace
  <2>5. LoopInv'
    BY <2>1, <2>4 DEF Basic, TypeOK, LoopInv, LoopStart, Critical
  <2>6. ShareInv'
    BY <2>1, <2>2 DEF Basic, TypeOK, ShareInv, ShareRespected, Starting, LoopStart
  <2> QED
    BY <2>3, <2>5, <2>6 DEF Basic
<1>3. ASSUME NEW p \in Pids, PrintStep(p) PROVE Basic'
  <2>1. /\ UNCHANGED <<build, kernel>> /\ TypeOK'
        /\ pc[p] \in {"print", "acquire"} \cup Critical
        /\ \A q \in Pids : q # p => i'[q] = i[q]
    BY <1>3, PrintStepSpec
  <2>2. PICK s \in {"acquire", "yield"} \cup Critical :
              /\ pc' = [pc EXCEPT ![p] = s]
              /\ s \in {"acquire", "read", "advance", "write"} => i'[p] < RUNCOUNT
              /\ s # "yield" => build.SYNC_METHOD = 2
    BY <1>3, PrintStepSpec
  <2>3. LoopInv'
    BY <2>1, <2>2 DEF Basic, TypeOK, LoopInv, Critical
  <2>4. ShareInv'
    BY <2>1, <2>2 DEF Basic, TypeOK, ShareInv, ShareRespected, Starting, Critical, kernel
  <2> QED
    BY <2>1, <2>3, <2>4 DEF Basic
<1>4. CASE UNCHANGED vars
  BY <1>4 DEF Basic, TypeOK, LoopInv, ShareInv, ShareRespected, vars, kernel, memory
<1> QED
  BY <1>1, <1>2, <1>3, <1>4 DEF Next, AppStep, PrintStep, ScheduleStep

(* start() of the kernel establishes them. *)
LEMMA BasicInit == Init => Basic
<1> SUFFICES ASSUME Init PROVE Basic
  OBVIOUS
<1>1. TypeOK
  BY SchedosAssumption DEF Init, TypeOK, Pids
<1> QED
  BY <1>1, SchedosAssumption
     DEF Init, Basic, LoopInv, ShareInv, ShareRespected, Starting, Critical

(* They hold in every reachable state. *)
LEMMA BasicInv == Spec => []Basic
<1>1. Basic /\ [Next]_vars => Basic'
  BY BasicStep
<1> QED
  BY <1>1, BasicInit, PTL DEF Spec

(* Every variable of SchedOS keeps its type: the applications stop their loops
   in time, and schedule() leaves a descriptor number in current. *)
THEOREM TypeCorrect == Spec => []TypeOK
<1>1. Basic => TypeOK
  BY DEF Basic
<1> QED
  BY <1>1, BasicInv, PTL

(* Under algorithms 3 and 4 no process is charged more slots than its share. *)
THEOREM SharesKept == Spec => []ShareRespected
<1>1. Basic => ShareRespected
  BY DEF Basic, ShareInv
<1> QED
  BY <1>1, BasicInv, PTL
-----------------------------------------------------------------------------
(* Who runs *)

(* A step of the current process leaves current and the process states alone,
   or calls schedule(). *)
LEMMA RunningStep ==
  ASSUME Basic, [Next]_vars
  PROVE  \/ \E p \in Pids : ScheduleStep(p)
         \/ UNCHANGED <<current, p_state>>
<1>1. ASSUME NEW p \in Pids, SetPriority(p) \/ SetShare(p)
      PROVE  UNCHANGED <<current, p_state>>
  BY <1>1 DEF SetPriority, SetShare
<1>2. ASSUME NEW p \in Pids, PrintStep(p) PROVE UNCHANGED <<current, p_state>>
  BY <1>2, PrintStepSpec DEF kernel
<1>3. CASE UNCHANGED vars
  BY <1>3 DEF vars, kernel
<1> QED
  BY <1>1, <1>2, <1>3 DEF Next, AppStep, PrintStep, ScheduleStep

(* With positive shares every algorithm resumes a RUNNABLE process whenever
   there is one: the kernel spins only when all the processes are gone. *)
THEOREM ResumesRunnable ==
  ASSUME PositiveShares
  PROVE  Spec => []RunsRunnable
<1>1. Init => RunsRunnable
  BY SchedosAssumption DEF Init, RunsRunnable, Pids
<1>2. Basic /\ RunsRunnable /\ [Next]_vars => RunsRunnable'
  <2> SUFFICES ASSUME Basic, RunsRunnable, [Next]_vars PROVE RunsRunnable'
    OBVIOUS
  <2>1. CASE UNCHANGED <<current, p_state>>
    BY <2>1 DEF RunsRunnable
  <2>2. ASSUME NEW p \in Pids, ScheduleStep(p) PROVE RunsRunnable'
    <3>1. Schedule
      BY <2>2, ScheduleStepSpec
    <3>2. Resumes
      BY <3>1, ScheduleResumes DEF Basic
    <3> QED
      BY <3>2, SchedosAssumption DEF Resumes, Runnable, RunsRunnable, Pids
  <2> QED
    BY <2>1, <2>2, RunningStep
<1> QED
  BY <1>1, <1>2, BasicInv, PTL DEF Spec

(* Under algorithms 2 and 4 a process that prints runs only while nobody who
   can run has a better priority; with any priorities and shares. *)
THEOREM PrioritiesKept == Spec => []PriorityRespected
<1>1. Init => PriorityRespected
  BY DEF Init, PriorityRespected
<1>2. Basic /\ PriorityRespected /\ [Next]_vars => PriorityRespected'
  <2> SUFFICES ASSUME Basic, PriorityRespected, [Next]_vars PROVE PriorityRespected'
    OBVIOUS
  <2>1. ASSUME NEW p \in Pids, SetPriority(p) \/ SetShare(p) PROVE PriorityRespected'
    BY <2>1 DEF SetPriority, SetShare, At, Goto, PriorityRespected, Basic, TypeOK
  <2>2. ASSUME NEW p \in Pids, PrintStep(p) PROVE PriorityRespected'
    <3>1. /\ UNCHANGED <<build, kernel>> /\ current = p
          /\ pc[p] \in {"print", "acquire"} \cup Critical
      BY <2>2, PrintStepSpec
    <3> QED
      BY <3>1 DEF PriorityRespected, kernel, Critical
  <2>3. ASSUME NEW p \in Pids, ScheduleStep(p) PROVE PriorityRespected'
    <3>1. Schedule /\ UNCHANGED <<build, p_priority, p_share>>
      BY <2>3, ScheduleStepSpec
    <3>2. /\ build.scheduling_algorithm = 2 /\ current' # 0 => MinPriority(current')
          /\ build.scheduling_algorithm = 4 /\ current' # 0
               => p_share[current'] = -1 \/ MinPriority(current')
      BY <3>1, ScheduleSpec DEF Basic
    <3>3. \A q \in Pids : pc'[q] \notin Starting => p_share[q] # -1
      BY <3>1, BasicStep DEF Basic, ShareInv
    <3>4. SUFFICES ASSUME NEW q \in Pids, build.scheduling_algorithm \in {2, 4}, current' = q,
                          pc'[q] \in {"print", "acquire", "read", "advance", "write", "release"}
                   PROVE  \A r \in Pids : p_state'[r] = "RUNNABLE" => p_priority[q] <= p_priority[r]
      BY <3>1 DEF PriorityRespected
    <3>5. MinPriority(q)
      BY <3>2, <3>3, <3>4, SchedosAssumption DEF Pids, Starting
    <3> QED
      BY <3>5 DEF MinPriority, Runnable
  <2>4. CASE UNCHANGED vars
    BY <2>4 DEF vars, kernel, PriorityRespected
  <2> QED
    BY <2>1, <2>2, <2>3, <2>4 DEF Next, AppStep, PrintStep, ScheduleStep
<1> QED
  BY <1>1, <1>2, BasicInv, PTL DEF Spec
-----------------------------------------------------------------------------
(* The console *)

CellsOf(p) == {k \in Cells : console[k] = p}
CountInv == \A p \in Pids : Cardinality(CellsOf(p)) = i[p]

(* exactly the first n cells are written *)
Front(n) == \A k \in Cells : k < n <=> console[k] # 0

(* the lock admits one process, and while it is free nobody is inside *)
MutexInv ==
  /\ \A p, q \in Pids : pc[p] \in Critical /\ pc[q] \in Critical => p = q
  /\ lock = 0 => \A p \in Pids : pc[p] \notin Critical

(* the cursor is after the last cell, or one ahead while its writer is between
   the two stores *)
CursorInv ==
  /\ cursorpos <= Size
  /\ \A p \in Pids : pc[p] = "advance" => tmp[p] = cursorpos
  /\ \A p \in Pids : pc[p] = "write" => cursorpos = tmp[p] + 1 /\ Front(tmp[p])
  /\ (\A p \in Pids : pc[p] # "write") => Front(cursorpos)

(* The cells are a finite interval of Size elements. *)
LEMMA CellsFinite ==
  /\ Size \in Nat /\ Cells = 0..(Size - 1) /\ IsFiniteSet(Cells)
  /\ Cardinality(Cells) = Size
  /\ \A S \in SUBSET Cells : IsFiniteSet(S) /\ Cardinality(S) \in Nat
<1>1. Size \in Nat
  BY SchedosAssumption DEF Size
<1>2. Cells = 0..(Size - 1)
  BY DEF Cells, Size
<1> HIDE DEF Size
<1>3. IsFiniteSet(Cells) /\ Cardinality(Cells) = Size
  BY <1>1, <1>2, FS_Interval
<1>4. ASSUME NEW S \in SUBSET Cells PROVE IsFiniteSet(S) /\ Cardinality(S) \in Nat
  BY <1>3, FS_Subset, FS_CardinalityType
<1> QED
  BY <1>1, <1>2, <1>3, <1>4

(* The characters of the first n processes fit into n * RUNCOUNT cells, with
   one to spare if p is among them and has not finished. *)
LEMMA PrintedBound ==
  ASSUME TypeOK, CountInv, NEW p \in Pids, i[p] < RUNCOUNT
  PROVE  \A n \in Nat : n < NPROCS =>
           Cardinality({k \in Cells : console[k] \in 1..n}) + (IF p <= n THEN 1 ELSE 0)
             <= n * RUNCOUNT
<1> DEFINE Upto(n) == {k \in Cells : console[k] \in 1..n}
           spare(n) == IF p <= n THEN 1 ELSE 0
           S == {n \in Nat : n < NPROCS => Cardinality(Upto(n)) + spare(n) <= n * RUNCOUNT}
<1>0. \A n \in Nat : IsFiniteSet(Upto(n)) /\ Cardinality(Upto(n)) \in Nat
  BY CellsFinite
<1>1. 0 \in S
  <2>1. Upto(0) = {} /\ spare(0) = 0
    BY DEF Pids
  <2>2. Cardinality(Upto(0)) = 0
    BY <2>1, FS_EmptySet
  <2> QED
    BY <2>1, <2>2, SchedosAssumption
<1>2. ASSUME NEW n \in Nat, n \in S PROVE n + 1 \in S
  <2> SUFFICES ASSUME n + 1 < NPROCS
               PROVE  Cardinality(Upto(n + 1)) + spare(n + 1) <= (n + 1) * RUNCOUNT
    <3>1. n + 1 \in Nat
      OBVIOUS
    <3> HIDE DEF Upto, spare
    <3> QED
      BY <3>1
  <2>1. n + 1 \in Pids /\ n < NPROCS
    BY SchedosAssumption DEF Pids
  <2>2. Cardinality(Upto(n)) + spare(n) <= n * RUNCOUNT
    BY <1>2, <2>1
  <2>3. Upto(n + 1) = Upto(n) \cup CellsOf(n + 1) /\ Upto(n) \cap CellsOf(n + 1) = {}
    BY SchedosAssumption DEF CellsOf, TypeOK
  <2>4. /\ IsFiniteSet(CellsOf(n + 1)) /\ Cardinality(CellsOf(n + 1)) = i[n + 1]
        /\ i[n + 1] \in 0..RUNCOUNT
    BY <2>1, CellsFinite DEF CellsOf, CountInv, TypeOK
  <2>5. Cardinality(Upto(n) \cup CellsOf(n + 1))
          = Cardinality(Upto(n)) + i[n + 1] - Cardinality(Upto(n) \cap CellsOf(n + 1))
    <3> HIDE DEF Upto
    <3> QED
      BY <1>0, <2>4, FS_Union
  <2>6. Cardinality(Upto(n + 1)) = Cardinality(Upto(n)) + i[n + 1]
    <3>1. Cardinality(Upto(n) \cap CellsOf(n + 1)) = 0
      BY <2>3, FS_EmptySet
    <3> HIDE DEF Upto
    <3>2. Cardinality(Upto(n)) \in Nat /\ i[n + 1] \in Nat
      BY <1>0, <2>4, SchedosAssumption
    <3>3. Cardinality(Upto(n + 1)) = Cardinality(Upto(n) \cup CellsOf(n + 1))
      BY <2>3
    <3> QED
      BY <2>5, <3>1, <3>2, <3>3
  <2>7. i[n + 1] + spare(n + 1) <= RUNCOUNT + spare(n)
    <3>1. CASE p = n + 1
      BY <2>4, <3>1, SchedosAssumption
    <3>2. CASE p # n + 1
      BY <2>4, <3>2, SchedosAssumption DEF Pids
    <3> QED
      BY <3>1, <3>2
  <2>8. (n + 1) * RUNCOUNT = n * RUNCOUNT + RUNCOUNT /\ n * RUNCOUNT \in Nat
    BY SchedosAssumption
  <2>9. spare(n) \in Nat /\ spare(n + 1) \in Nat /\ Cardinality(Upto(n)) \in Nat
    BY <1>0
  <2> HIDE DEF Upto, spare
  <2> QED
    BY <2>2, <2>4, <2>6, <2>7, <2>8, <2>9, SchedosAssumption
<1>3. \A n \in Nat : n \in S
  <2> HIDE DEF S
  <2> QED
    BY <1>1, <1>2, SetInduction
<1> QED
  BY <1>3

(* While a process has something to print there is a cell for it. *)
LEMMA RoomLeft ==
  ASSUME TypeOK, CountInv, NEW p \in Pids, i[p] < RUNCOUNT,
         NEW n \in Nat, n <= Size, Front(n)
  PROVE  n < Size
<1> SUFFICES ASSUME n = Size PROVE FALSE
  BY CellsFinite
<1> DEFINE m == NPROCS - 1
<1>1. Cardinality({k \in Cells : console[k] \in 1..m}) + 1 <= m * RUNCOUNT
  BY PrintedBound, SchedosAssumption DEF Pids
<1>2. {k \in Cells : console[k] \in 1..m} = Cells
  <2>1. ASSUME NEW k \in Cells PROVE console[k] \in 1..m
    BY CellsFinite, SchedosAssumption DEF Front, TypeOK
  <2> QED
    BY <2>1
<1>3. m * RUNCOUNT = Size
  BY DEF Size
<1> HIDE DEF m
<1>4. Cardinality(Cells) + 1 <= Size
  BY <1>1, <1>2, <1>3
<1> QED
  BY <1>4, CellsFinite

(* A character put right behind the others is added to its process's, and
   overwrites nothing. *)
LEMMA PutAppends ==
  ASSUME TypeOK, CountInv, NEW p \in Pids, i[p] < RUNCOUNT,
         NEW n \in Nat, n < Size, Front(n), Put(p, n)
  PROVE  CountInv' /\ \A k \in Cells : k < n + 1 <=> console'[k] # 0
<1>0. p # 0 /\ n \in Cells
  BY CellsFinite DEF Pids
<1>1. /\ console' = [console EXCEPT ![n] = p] /\ i' = [i EXCEPT ![p] = @ + 1]
      /\ console \in [Cells -> 0..(NPROCS - 1)] /\ i \in [Pids -> 0..RUNCOUNT]
  BY DEF Put, TypeOK
<1>2. console[n] = 0
  BY <1>0 DEF Front
<1>3. ASSUME NEW q \in Pids PROVE Cardinality(CellsOf(q)') = i'[q]
  <2>1. CASE q = p
    <3>1. CellsOf(q)' = CellsOf(q) \cup {n} /\ n \notin CellsOf(q)
      BY <1>0, <1>1, <1>2, <2>1 DEF CellsOf
    <3>2. IsFiniteSet(CellsOf(q))
      BY CellsFinite DEF CellsOf
    <3>3. Cardinality(CellsOf(q) \cup {n}) = Cardinality(CellsOf(q)) + 1
      BY <3>1, <3>2, FS_AddElement
    <3> QED
      BY <1>1, <2>1, <3>1, <3>3 DEF CountInv
  <2>2. CASE q # p
    <3>1. CellsOf(q)' = CellsOf(q)
      BY <1>0, <1>1, <1>2, <2>2 DEF CellsOf, Pids
    <3> QED
      BY <1>1, <2>2, <3>1 DEF CountInv
  <2> QED
    BY <2>1, <2>2
<1>4. \A k \in Cells : k < n + 1 <=> console'[k] # 0
  BY <1>0, <1>1, CellsFinite DEF Front
<1> QED
  BY <1>3, <1>4 DEF CountInv

(* The inductive invariant of the console. *)
ConsoleInv == CountInv /\ MutexInv /\ CursorInv

(* The steps of the printing loop keep the console in order. *)
LEMMA ConsolePrint ==
  ASSUME Basic, ConsoleInv, NEW p \in Pids, PrintStep(p)
  PROVE  ConsoleInv'
<1>0. TypeOK /\ LoopInv /\ CountInv /\ MutexInv /\ CursorInv
  BY DEF Basic, ConsoleInv
<1>a. cursorpos \in Nat /\ Size \in Nat /\ tmp[p] \in Nat
  BY <1>0, CellsFinite DEF TypeOK
<1>b. ASSUME UNCHANGED <<console, i>> PROVE CountInv' /\ \A n : Front(n)' = Front(n)
  BY <1>0, <1>b DEF CountInv, CellsOf, Front
<1>1. CASE SysPrint(p)
  <2>1. /\ pc[p] = "print" /\ i[p] < RUNCOUNT /\ build.SYNC_METHOD = 1
        /\ pc' = [pc EXCEPT ![p] = "yield"] /\ Put(p, cursorpos)
        /\ cursorpos' = cursorpos + 1 /\ lock' = lock /\ tmp' = tmp
    BY <1>0, <1>1 DEF SysPrint, At, Goto, LoopInv
  <2>2. \A q \in Pids : pc[q] \notin Critical /\ pc'[q] \notin Critical
    BY <1>0, <2>1 DEF LoopInv, TypeOK, Critical
  <2>3. Front(cursorpos) /\ cursorpos < Size
    BY <1>0, <1>a, <2>1, <2>2, RoomLeft DEF CursorInv, Critical
  <2>4. CountInv' /\ \A k \in Cells : k < cursorpos + 1 <=> console'[k] # 0
    BY <1>0, <1>a, <2>1, <2>3, PutAppends
  <2>5. Front(cursorpos)'
    BY <2>1, <2>4 DEF Front
  <2>6. MutexInv'
    BY <2>2 DEF MutexInv
  <2>7. CursorInv'
    BY <1>a, <2>1, <2>2, <2>3, <2>5, CellsFinite DEF CursorInv, Critical, Size
  <2> QED
    BY <2>4, <2>6, <2>7 DEF ConsoleInv
<1>2. CASE Acquire(p)
  <2>1. /\ pc[p] = "acquire" /\ lock' = 1 /\ UNCHANGED <<cursorpos, console, i, tmp>>
        /\ \/ lock = 0 /\ pc' = [pc EXCEPT ![p] = "read"]
           \/ lock # 0 /\ pc' = [pc EXCEPT ![p] = "acquire"]
    BY <1>2 DEF Acquire, At, Goto
  <2>2. MutexInv'
    BY <1>0, <2>1 DEF MutexInv, TypeOK, Critical
  <2>3. \A q \in Pids : pc'[q] \in {"advance", "write"} <=> pc[q] \in {"advance", "write"}
    BY <1>0, <2>1 DEF TypeOK
  <2>4. \A q \in Pids : pc'[q] \in {"advance", "write"} => pc'[q] = pc[q]
    BY <1>0, <2>1 DEF TypeOK
  <2>5. CursorInv'
    BY <1>0, <2>1, <2>3, <2>4 DEF CursorInv, Front, Size
  <2> QED
    BY <1>b, <2>1, <2>2, <2>5 DEF ConsoleInv
<1>3. CASE ReadCursor(p)
  <2>1. /\ pc[p] = "read" /\ pc' = [pc EXCEPT ![p] = "advance"]
        /\ tmp' = [tmp EXCEPT ![p] = cursorpos] /\ UNCHANGED <<memory, i>>
    BY <1>3 DEF ReadCursor, At, Goto
  <2>2. \A q \in Pids : q # p => pc[q] \notin Critical /\ pc'[q] \notin Critical
    BY <1>0, <2>1 DEF MutexInv, TypeOK, Critical
  <2>3. MutexInv'
    BY <1>0, <2>1, <2>2 DEF MutexInv, TypeOK, Critical, memory
  <2>4. Front(cursorpos)
    BY <1>0, <2>1, <2>2 DEF CursorInv, Critical
  <2>5. CursorInv'
    BY <1>0, <2>1, <2>2, <2>4 DEF CursorInv, TypeOK, Front, Critical, memory, Size
  <2> QED
    BY <1>b, <2>1, <2>3, <2>5 DEF ConsoleInv, memory
<1>4. CASE AdvanceCursor(p)
  <2>1. /\ pc[p] = "advance" /\ pc' = [pc EXCEPT ![p] = "write"] /\ i[p] < RUNCOUNT
        /\ cursorpos' = tmp[p] + 1 /\ UNCHANGED <<lock, console, i, tmp>>
    BY <1>0, <1>4 DEF AdvanceCursor, At, Goto, LoopInv
  <2>2. \A q \in Pids : q # p => pc[q] \notin Critical /\ pc'[q] \notin Critical
    BY <1>0, <2>1 DEF MutexInv, TypeOK, Critical
  <2>3. MutexInv'
    BY <1>0, <2>1, <2>2 DEF MutexInv, TypeOK, Critical
  <2>4. tmp[p] = cursorpos /\ Front(cursorpos)
    BY <1>0, <2>1, <2>2 DEF CursorInv, Critical
  <2>5. cursorpos < Size
    BY <1>0, <1>a, <2>1, <2>4, RoomLeft DEF CursorInv
  <2>6. Front(tmp[p])'
    BY <2>1, <2>4 DEF Front
  <2>7. CursorInv'
    BY <1>0, <1>a, <2>1, <2>2, <2>4, <2>5, <2>6, CellsFinite
       DEF CursorInv, TypeOK, Critical, Size
  <2> QED
    BY <1>b, <2>1, <2>3, <2>7 DEF ConsoleInv
<1>5. CASE WriteCell(p)
  <2>1. /\ pc[p] = "write" /\ pc' = [pc EXCEPT ![p] = "release"] /\ i[p] < RUNCOUNT
        /\ Put(p, tmp[p]) /\ UNCHANGED <<lock, cursorpos>>
    BY <1>0, <1>5 DEF WriteCell, At, Goto, LoopInv
  <2>2. \A q \in Pids : q # p => pc[q] \notin Critical /\ pc'[q] \notin Critical
    BY <1>0, <2>1 DEF MutexInv, TypeOK, Critical
  <2>3. MutexInv'
    BY <1>0, <2>1, <2>2 DEF MutexInv, TypeOK, Critical
  <2>4. cursorpos = tmp[p] + 1 /\ Front(tmp[p]) /\ tmp[p] < Size
    BY <1>0, <1>a, <2>1 DEF CursorInv
  <2>5. CountInv' /\ \A k \in Cells : k < tmp[p] + 1 <=> console'[k] # 0
    <3> DEFINE n == tmp[p]
    <3>1. n \in Nat /\ n < Size /\ Front(n) /\ Put(p, n)
      BY <1>a, <2>1, <2>4
    <3> HIDE DEF n
    <3>2. CountInv' /\ \A k \in Cells : k < n + 1 <=> console'[k] # 0
      BY <1>0, <2>1, <3>1, PutAppends
    <3> QED
      BY <3>2 DEF n
  <2>6. Front(cursorpos)'
    BY <2>1, <2>4, <2>5 DEF Front
  <2>7. CursorInv'
    BY <1>0, <2>1, <2>2, <2>6 DEF CursorInv, TypeOK, Critical, Size
  <2> QED
    BY <2>3, <2>5, <2>7 DEF ConsoleInv
<1>6. CASE Release(p)
  <2>1. /\ pc[p] = "release" /\ pc' = [pc EXCEPT ![p] = "yield"]
        /\ UNCHANGED <<cursorpos, console, i, tmp>>
    BY <1>6 DEF Release, At, Goto
  <2>2. \A q \in Pids : pc'[q] \notin Critical /\ (q # p => pc[q] \notin Critical)
    BY <1>0, <2>1 DEF MutexInv, TypeOK, Critical
  <2>3. Front(cursorpos)
    BY <1>0, <2>1, <2>2 DEF CursorInv, Critical
  <2>4. MutexInv' /\ CursorInv'
    BY <1>0, <2>1, <2>2, <2>3 DEF MutexInv, CursorInv, Front, Critical, Size
  <2> QED
    BY <1>b, <2>1, <2>4 DEF ConsoleInv
<1> QED
  BY <1>1, <1>2, <1>3, <1>4, <1>5, <1>6 DEF PrintStep

(* The other steps touch neither the console nor a critical section. *)
LEMMA ConsoleStep ==
  ASSUME Basic, ConsoleInv, [Next]_vars
  PROVE  ConsoleInv'
<1>0. TypeOK /\ CountInv /\ MutexInv /\ CursorInv
  BY DEF Basic, ConsoleInv
<1>1. ASSUME UNCHANGED <<memory, i, tmp>>,
             \A q \in Pids : pc'[q] = pc[q] \/ (pc[q] \notin Critical /\ pc'[q] \notin Critical)
      PROVE  ConsoleInv'
  <2>1. CountInv'
    BY <1>0, <1>1 DEF CountInv, CellsOf, memory
  <2>2. MutexInv'
    BY <1>0, <1>1 DEF MutexInv, memory
  <2>3. CursorInv'
    BY <1>0, <1>1 DEF CursorInv, Front, Size, Critical, memory
  <2> QED
    BY <2>1, <2>2, <2>3 DEF ConsoleInv
<1>2. ASSUME NEW p \in Pids, SetPriority(p) \/ SetShare(p) PROVE ConsoleInv'
  BY <1>0, <1>1, <1>2 DEF SetPriority, SetShare, At, Goto, TypeOK, Critical
<1>3. ASSUME NEW p \in Pids, ScheduleStep(p) PROVE ConsoleInv'
  <2>1. /\ UNCHANGED <<memory, i, tmp>>
        /\ \/ UNCHANGED pc
           \/ pc[p] = "yield" /\ pc' = [pc EXCEPT ![p] = LoopStart]
           \/ pc[p] \in {"yield", "exit"} /\ \E s \in {"exit", "gone"} : pc' = [pc EXCEPT ![p] = s]
    BY <1>3, ScheduleStepSpec
  <2>2. \A q \in Pids : pc'[q] = pc[q] \/ (pc[q] \notin Critical /\ pc'[q] \notin Critical)
    BY <1>0, <2>1 DEF TypeOK, LoopStart, Critical
  <2> QED
    BY <1>1, <2>1, <2>2
<1>4. ASSUME NEW p \in Pids, PrintStep(p) PROVE ConsoleInv'
  BY <1>4, ConsolePrint
<1>5. CASE UNCHANGED vars
  BY <1>1, <1>5 DEF vars
<1> QED
  BY <1>2, <1>3, <1>4, <1>5 DEF Next, AppStep, PrintStep, ScheduleStep

(* No character is lost or overwritten, with either synchronization method, any
   scheduling algorithm and clock interrupts between any two instructions. *)
THEOREM NothingLost == Spec => []ConsoleIntact
<1>1. Init => ConsoleInv
  <2> SUFFICES ASSUME Init PROVE ConsoleInv
    OBVIOUS
  <2>1. \A p \in Pids : CellsOf(p) = {}
    BY DEF Init, CellsOf, Pids
  <2>2. CountInv
    BY <2>1, FS_EmptySet DEF CountInv, Init
  <2>3. MutexInv
    BY DEF Init, MutexInv, Critical
  <2>4. CursorInv
    BY CellsFinite DEF Init, CursorInv, Front
  <2> QED
    BY <2>2, <2>3, <2>4 DEF ConsoleInv
<1>2. Basic /\ ConsoleInv /\ [Next]_vars => ConsoleInv'
  BY ConsoleStep
<1>3. ConsoleInv => ConsoleIntact
  <2> SUFFICES ASSUME ConsoleInv PROVE ConsoleIntact
    OBVIOUS
  <2>1. lock = 0 => Front(cursorpos)
    BY DEF ConsoleInv, MutexInv, CursorInv, Critical
  <2> QED
    BY <2>1 DEF ConsoleInv, CountInv, CellsOf, Front, ConsoleIntact
<1> QED
  BY <1>1, <1>2, <1>3, BasicInv, PTL DEF Spec
=============================================================================
