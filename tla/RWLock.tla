------------------------------- MODULE RWLock -------------------------------
(***************************************************************************)
(* What the ramdisk lock promises its clients, without tickets, counters,  *)
(* signals or wait queues: a reader-writer lock that is first come, first  *)
(* served.  A request joins the end of the queue; it leaves it with the    *)
(* lock, at the front and while no other lock stands against it, or        *)
(* without; an attempt that does not wait succeeds only if nobody waits.   *)
(***************************************************************************)
CONSTANTS Procs, Files,
          WFiles   \* the files a lock of which is a write lock

VARIABLES held,    \* the files that are locked
          wants,   \* wants[p]: the file the waiting process p asked to lock
          ahead    \* ahead[p]: the processes that wait and asked before p

vars == <<held, wants, ahead>>

Waiting == DOMAIN wants

Compatible(f) == IF f \in WFiles THEN held = {} ELSE held \cap WFiles = {}

Init == held = {} /\ wants \in [{} -> Files] /\ ahead \in [{} -> Procs]

Request(p, f) ==
  /\ p \notin Waiting /\ UNCHANGED held
  /\ Waiting' = Waiting \cup {p}
  /\ wants' = [q \in Waiting' |-> IF q = p THEN f ELSE wants[q]]
  /\ ahead' = [q \in Waiting' |-> IF q = p THEN Waiting ELSE ahead[q]]

Leave(p) ==
  /\ Waiting' = Waiting \ {p}
  /\ wants' = [q \in Waiting' |-> wants[q]]
  /\ ahead' = [q \in Waiting' |-> ahead[q] \ {p}]

Serve(p) ==
  /\ Leave(p)
  /\ ahead[p] = {} /\ Compatible(wants[p])
  /\ held' = held \cup {wants[p]}

Withdraw(p) == Leave(p) /\ UNCHANGED held

TryLock(f) ==
  /\ Compatible(f) /\ held' = held \cup {f}
  /\ Waiting = {} /\ UNCHANGED <<wants, ahead>>

Unlock(f) ==
  /\ f \in held /\ held' = held \ {f}
  /\ UNCHANGED <<wants, ahead>>

Next ==
  \/ \E p \in Procs, f \in Files : Request(p, f)
  \/ \E p \in Waiting : Serve(p) \/ Withdraw(p)
  \/ \E f \in Files : TryLock(f) \/ Unlock(f)

Spec == Init /\ [][Next]_vars
=============================================================================
