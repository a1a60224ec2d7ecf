------------------------------ MODULE Osppeer ------------------------------
(***************************************************************************)
(* The peer of lab4/osppeer.c: the main process, which registers with the  *)
(* tracker, forks a child for every download and then one for every        *)
(* connection of another peer, and the children, which move files through  *)
(* the bounded buffer of their task.                                       *)
(*                                                                         *)
(* The tracker and the other peers are the environment: which peers the    *)
(* tracker names, and what a connection delivers, are chosen freely.  The  *)
(* bytes of a file are numbered, so that order and completeness can be     *)
(* seen.  The peer runs with evil_mode = 0.                                *)
(***************************************************************************)
EXTENDS Integers, Sequences, FiniteSets, Functions

CONSTANTS Args,        \* the files named on the command line
          PeerLists,   \* the peer lists the tracker may answer with
          Self,        \* this peer, as the tracker lists it
          Streams,     \* what a connection may deliver: [len, end]
          Local,       \* the files of the directory and their lengths
          Conns,       \* bound: the connections other peers open
          NAMES,       \* names tried for a download (50 in the code)
          TASKBUFSIZ,
          WORD,        \* the unsigned counters are modulo WORD
          MAXFILESIZ,
          MAXPROC,     \* children of a kind at a time (16 in the code)
          MAXFD,       \* connections the process can have open
          MaxErrors    \* bound: the names whose open fails

ASSUME BufferAssumption ==
  /\ TASKBUFSIZ \in Nat \ {0} /\ WORD \in Nat /\ WORD > TASKBUFSIZ
  /\ WORD % TASKBUFSIZ = 0
ASSUME BoundAssumption ==
  /\ NAMES \in Nat \ {0} /\ MAXPROC \in Nat \ {0} /\ MAXFD \in Nat /\ Conns \in Nat /\ MAXFILESIZ \in Nat
  /\ MaxErrors \in Nat
ASSUME InputAssumption ==
  /\ Args \in Seq(Range(Args)) /\ \A s \in PeerLists : s \in Seq(Range(s))
  /\ Streams \subseteq [len : Nat, end : {"eof", "reset"}]
  /\ Local \in [DOMAIN Local -> Nat]

VARIABLES main,        \* [pc, arg, conn, num_download_proc, num_upload_proc]
          registered,  \* the files the tracker knows this peer has
          down,        \* the download task of each argument
          up,          \* the upload task of each connection
          disk,        \* the files of the directory: <<name, i>> is name~i~
          failed       \* history: the names whose open failed, not because they are taken

vars == <<main, registered, down, up, disk, failed>>

NULL == <<>>
(* a file is what it holds and the download that has it open, 0 for the files
   that were there before *)
File(i, bytes) == [by |-> i, data |-> bytes]

Endless == MAXFILESIZ + TASKBUFSIZ + 1  \* longer than any download gets

(* task_new, and task_pop_peer's reset of the buffer *)
NoStream == [len |-> 0, end |-> "eof"]
EmptyTask == [pc |-> "none", peers |-> <<>>, name |-> NULL, i |-> 0, stream |-> NoStream,
              head |-> 0, tail |-> 0, buf |-> [k \in 0..(TASKBUFSIZ - 1) |-> 0],
              in |-> 0, out |-> <<>>, freed |-> FALSE]

-----------------------------------------------------------------------------
(* The bounded buffer.  in counts the bytes read into it, out is what was
   written from it. *)

headpos(t) == t.head % TASKBUFSIZ
tailpos(t) == t.tail % TASKBUFSIZ

(* mutant: a full buffer is taken for an empty one *)
MutRoom(t) == IF headpos(t) <= tailpos(t) THEN TASKBUFSIZ - tailpos(t) ELSE headpos(t) - tailpos(t)

(* how much read and write are asked for *)
Room(t) == IF t.head = t.tail \/ headpos(t) < tailpos(t)
           THEN TASKBUFSIZ - tailpos(t) ELSE headpos(t) - tailpos(t)
Ready(t) == IF headpos(t) < tailpos(t) THEN tailpos(t) - headpos(t) ELSE TASKBUFSIZ - headpos(t)

Amounts(n) == {a \in {1, n} : a \in 1..n}
Least(a, b) == IF a < b THEN a ELSE b
Outcome(ret, t) == [ret |-> ret, t |-> t]

(* a bytes arrive behind tailpos; a bytes leave from headpos on *)
Got(t, a) == [t EXCEPT !.tail = (@ + a) % WORD, !.in = @ + a,
                !.buf = [k \in DOMAIN @ |-> IF k \in tailpos(t)..(tailpos(t) + a - 1)
                                            THEN t.in + 1 + k - tailpos(t) ELSE @[k]]]
Put(t, a) == [t EXCEPT !.head = (@ + a) % WORD,
                       !.out = @ \o [k \in 1..a |-> t.buf[headpos(t) + k - 1]]]

(* read_to_taskbuf: the results of one call on a connection or file that still
   has stream.len - in bytes; a read of 0 bytes is the end *)
read_to_taskbuf(t) ==
  LET left == t.stream.len - t.in
  IN {Outcome("AGAIN", t)}
     \cup {Outcome("OK", Got(t, a)) : a \in Amounts(Least(Room(t), left))}
     \cup (IF Room(t) = 0 \/ (left = 0 /\ t.stream.end = "eof") THEN {Outcome("END", t)} ELSE {})
     \cup (IF left = 0 /\ t.stream.end = "reset" /\ Room(t) > 0 THEN {Outcome("ERROR", t)} ELSE {})

(* write_from_taskbuf: nothing happens on an empty buffer *)
write_from_taskbuf(t) ==
  IF t.head = t.tail THEN {Outcome("END", t)}
  ELSE {Outcome("AGAIN", t), Outcome("ERROR", t)} \cup {Outcome("OK", Put(t, a)) : a \in Amounts(Ready(t))}

-----------------------------------------------------------------------------
(* Downloads *)

(* mutant: the name of the disk file stays in the task *)
MutKeepName(t) == [EmptyTask EXCEPT !.pc = t.pc, !.freed = TRUE, !.name = t.name,
                                    !.peers = IF t.peers = <<>> THEN <<>> ELSE Tail(t.peers)]

(* mutant: the peer stays in the list *)
MutKeepPeer(t) == [EmptyTask EXCEPT !.pc = t.pc, !.freed = TRUE, !.peers = t.peers]

(* task_pop_peer clears the buffer and the disk file name, frees md5_state and
   removes the first peer *)
task_pop_peer(t) == [EmptyTask EXCEPT !.pc = t.pc, !.freed = TRUE,
                                      !.peers = IF t.peers = <<>> THEN <<>> ELSE Tail(t.peers)]

(* try_again: whatever has the name of the disk file is removed and the next peer
   tried.  From the second time on md5_state is freed twice: free may stop the
   process. *)
try_again(i, t) ==
  /\ disk' = [n \in DOMAIN disk \ {t.name} |-> disk[n]]
  /\ \/ down' = [down EXCEPT ![i] = [task_pop_peer(t) EXCEPT !.pc = "start"]]
     \/ t.freed /\ down' = [down EXCEPT ![i] = [task_pop_peer(t) EXCEPT !.pc = "done"]]

(* task_free, and exit of the child *)
task_free(i) == down' = [down EXCEPT ![i] = [EmptyTask EXCEPT !.pc = "done"]]

(* the first peer of the list is this peer itself, does not answer, or delivers
   some stream *)
connect(i) ==
  LET t == down[i]
  IN /\ t.pc = "start"
     /\ \/ t.peers = <<>> /\ task_free(i) /\ UNCHANGED disk
        \/ t.peers # <<>> /\ try_again(i, t)
        \/ /\ t.peers # <<>> /\ Head(t.peers) # Self
           /\ \E s \in Streams : down' = [down EXCEPT ![i] = [t EXCEPT !.pc = "open", !.stream = s]]
           /\ UNCHANGED disk

(* one open with O_EXCL: the name is taken, made, or the call fails for another
   reason (no descriptor or memory left, a signal), whether the name is taken or
   not.  After the last name the download is given up. *)
open_disk(i) ==
  LET t == down[i]
      n == <<Args[i], t.i>>
  IN /\ t.pc = "open"
     /\ \/ /\ n \in DOMAIN disk
           /\ IF t.i + 1 < NAMES THEN down' = [down EXCEPT ![i].i = t.i + 1] ELSE task_free(i)
           /\ UNCHANGED <<disk, failed>>
        \/ /\ n \notin DOMAIN disk
           /\ down' = [down EXCEPT ![i] = [t EXCEPT !.pc = "get", !.name = n]]
           /\ disk' = [m \in DOMAIN disk \cup {n} |-> IF m = n THEN File(i, <<>>) ELSE disk[m]]
           /\ UNCHANGED failed
        \/ /\ Cardinality(failed \cup {n}) <= MaxErrors
           /\ down' = [down EXCEPT ![i] = [t EXCEPT !.pc = "try_again", !.name = n]]
           /\ failed' = failed \cup {n}
           /\ UNCHANGED disk

(* the unlink that follows the failed open, of a name this download has not made *)
unlink_name(i) == down[i].pc = "try_again" /\ try_again(i, down[i])

(* what is written goes to the file that was opened, wherever its name is now *)
Store(i, t) == IF t.name \in DOMAIN disk /\ disk[t.name].by = i
               THEN [disk EXCEPT ![t.name] = File(i, t.out)] ELSE disk

(* mutant: any end of a read ends the download *)
MutEnd(r) == r.ret = "END"

(* the end of the file: the read has nothing, and the buffer is empty *)
EndOfFile(r) == r.ret = "END" /\ r.t.head = r.t.tail

(* one turn of the loop: a read, a write, and the check of the size.  At the end
   the loop that builds the MD5 query of a file that is not empty never ends,
   as its counter stays 0. *)
transfer(i) ==
  /\ down[i].pc = "get"
  /\ \E r \in read_to_taskbuf(down[i]) :
       \/ r.ret = "ERROR" /\ try_again(i, r.t)
       \/ EndOfFile(r) /\ r.t.out = <<>> /\ try_again(i, r.t)
       \/ /\ EndOfFile(r) /\ r.t.out # <<>>
          /\ down' = [down EXCEPT ![i] = [r.t EXCEPT !.pc = "md5"]]
          /\ UNCHANGED disk
       \/ /\ r.ret # "ERROR" /\ ~EndOfFile(r)
          /\ \E w \in write_from_taskbuf(r.t) :
               IF w.ret = "ERROR" \/ Len(w.t.out) > MAXFILESIZ THEN try_again(i, w.t)
               ELSE /\ down' = [down EXCEPT ![i] = w.t]
                    /\ disk' = Store(i, w.t)

task_download(i) ==
  /\ \/ open_disk(i)
     \/ (connect(i) \/ unlink_name(i) \/ transfer(i)) /\ UNCHANGED failed
  /\ UNCHANGED <<main, registered, up>>

-----------------------------------------------------------------------------
(* Uploads *)

upload_exit(j, t) == up' = [up EXCEPT ![j] = [t EXCEPT !.pc = "done"]]

(* the request: odd, for no file of the directory, or for one of its files *)
request(j) ==
  LET t == up[j]
  IN /\ t.pc = "start"
     /\ \/ upload_exit(j, t)
        \/ \E n \in DOMAIN disk, end \in {"eof", "reset"} :
             up' = [up EXCEPT ![j] = [t EXCEPT !.pc = "put", !.name = n,
                                               !.stream = [len |-> Len(disk[n].data), end |-> end]]]

(* one turn of the loop: a write to the peer, then a read from the file, which
   may fail ("reset") *)
serve(j) ==
  /\ up[j].pc = "put"
  /\ \E w \in write_from_taskbuf(up[j]) :
       \/ w.ret = "ERROR" /\ upload_exit(j, w.t)
       \/ /\ w.ret # "ERROR"
          /\ \E r \in read_to_taskbuf(w.t) :
               \/ r.ret = "ERROR" /\ upload_exit(j, r.t)
               \/ EndOfFile(r) /\ up' = [up EXCEPT ![j] = [r.t EXCEPT !.pc = "complete"]]
               \/ r.ret # "ERROR" /\ ~EndOfFile(r) /\ up' = [up EXCEPT ![j] = r.t]

task_upload(j) == (request(j) \/ serve(j)) /\ UNCHANGED <<main, registered, down, disk, failed>>

-----------------------------------------------------------------------------
(* The main process *)

Exited(t) == t.pc \in {"done", "complete"}
At(pc) == main.pc = pc
Goto(pc) == main' = [main EXCEPT !.pc = pc]

(* the files are registered one by one, none if the tracker refuses the address;
   names that end in .c, .h or ~ are left out.  Before and meanwhile the process
   dies if it cannot listen or the tracker leaves. *)
register_files ==
  /\ At("register") /\ (Goto("download") \/ Goto("dead"))
  /\ registered' \in SUBSET {n \in DOMAIN disk : n[2] = 0}
  /\ UNCHANGED <<down, up, disk>>

(* start_download for the next argument, and the fork.  The tracker may answer
   with an error, fork may fail, and above MAXPROC the file is left out.  When the
   tracker leaves, or fills the buffer with its answer, the process dies. *)
start_download ==
  /\ At("download") /\ main.arg <= Len(Args)
  /\ \/ \E peers \in PeerLists :
          /\ main.num_download_proc < MAXPROC
          /\ down' = [down EXCEPT ![main.arg] = [EmptyTask EXCEPT !.pc = "start", !.peers = peers]]
          /\ main' = [main EXCEPT !.arg = @ + 1, !.num_download_proc = @ + 1]
     \/ main' = [main EXCEPT !.arg = @ + 1] /\ UNCHANGED down
     \/ Goto("dead") /\ UNCHANGED down
  /\ UNCHANGED <<registered, up, disk>>

(* task_listen accepts a connection, or accept fails and the process dies.  No
   connection is ever closed in the main process: with MAXFD of them it must. *)
task_listen ==
  /\ (At("download") /\ main.arg > Len(Args)) \/ At("listen")
  /\ main.conn < Conns
  /\ \/ main.conn < MAXFD /\ main' = [main EXCEPT !.pc = "wait", !.conn = @ + 1]
     \/ Goto("dead")
  /\ UNCHANGED <<registered, down, up, disk>>

(* mutant: one child is waited for, not all *)
MutWaitOne ==
  /\ At("wait") /\ UNCHANGED <<registered, up, disk>>
  /\ \/ /\ main.num_download_proc > 0
        /\ \E i \in DOMAIN down :
             /\ Exited(down[i]) /\ down' = [down EXCEPT ![i].pc = "reaped"]
             /\ main' = [main EXCEPT !.num_download_proc = @ - 1, !.pc = "upload"]
     \/ main.num_download_proc = 0 /\ Goto("upload") /\ UNCHANGED down

(* all downloads are waited for before the first upload *)
wait_downloads ==
  /\ At("wait") /\ UNCHANGED <<registered, up, disk>>
  /\ \/ /\ main.num_download_proc > 0
        /\ \E i \in DOMAIN down :
             /\ Exited(down[i]) /\ down' = [down EXCEPT ![i].pc = "reaped"]
             /\ main' = [main EXCEPT !.num_download_proc = @ - 1]
     \/ main.num_download_proc = 0 /\ Goto("upload") /\ UNCHANGED down

(* mutant: the new child is not counted *)
MutNoCount ==
  /\ At("upload") /\ UNCHANGED <<registered, down, disk>>
  /\ Goto("reap")
  /\ \/ /\ main.num_upload_proc < MAXPROC
        /\ up' = [up EXCEPT ![main.conn] = [EmptyTask EXCEPT !.pc = "start"]]
     \/ UNCHANGED up

(* the fork for an upload: it may fail, and above MAXPROC it is left out; then
   the connection stays open and nobody answers *)
start_upload ==
  /\ At("upload") /\ UNCHANGED <<registered, down, disk>>
  /\ \/ /\ main.num_upload_proc < MAXPROC
        /\ up' = [up EXCEPT ![main.conn] = [EmptyTask EXCEPT !.pc = "start"]]
        /\ main' = [main EXCEPT !.pc = "reap", !.num_upload_proc = @ + 1]
     \/ Goto("reap") /\ UNCHANGED up

(* waitpid with WNOHANG: one child that ended, if there is one *)
reap ==
  /\ At("reap") /\ UNCHANGED <<registered, down, disk>>
  /\ IF \E j \in DOMAIN up : Exited(up[j])
     THEN \E j \in DOMAIN up :
            /\ Exited(up[j]) /\ up' = [up EXCEPT ![j].pc = "reaped"]
            /\ main' = [main EXCEPT !.pc = "listen", !.num_upload_proc = @ - 1]
     ELSE Goto("listen") /\ UNCHANGED up

-----------------------------------------------------------------------------
Init ==
  /\ main = [pc |-> "register", arg |-> 1, conn |-> 0, num_download_proc |-> 0, num_upload_proc |-> 0]
  /\ registered = {}
  /\ down = [i \in DOMAIN Args |-> EmptyTask]
  /\ up = [j \in 1..Conns |-> EmptyTask]
  /\ disk = [n \in {<<f, 0>> : f \in DOMAIN Local} |-> File(0, [k \in 1..Local[n[1]] |-> k])]
  /\ failed = {}

Main == (register_files \/ start_download \/ wait_downloads \/ start_upload \/ reap) /\ UNCHANGED failed

Next == \/ Main
        \/ task_listen /\ UNCHANGED failed
        \/ \E i \in DOMAIN Args : task_download(i)
        \/ \E j \in 1..Conns : task_upload(j)

(* The main process and the downloads are scheduled fairly, and a peer that has
   accepted a connection goes on with its stream or ends it.  Nothing is assumed
   of those who connect to this peer. *)
Spec == /\ Init /\ [][Next]_vars
        /\ WF_vars(Main)
        /\ \A i \in DOMAIN Args : WF_vars(task_download(i))

-----------------------------------------------------------------------------
(* Properties *)

Count(S) == Cardinality(S)
Children(f) == {i \in DOMAIN f : f[i].pc \notin {"none", "reaped"}}
Running(f) == {i \in Children(f) : ~Exited(f[i])}
Holding == {i \in DOMAIN down : down[i].pc \in {"get", "md5"}}

(* The tasks have their shape, and the process counters of main are the numbers
   of children that were not waited for. *)
TypeOK ==
  /\ main.pc \in {"register", "download", "wait", "upload", "reap", "listen", "dead"}
  /\ main.num_download_proc = Count(Children(down)) /\ main.num_download_proc <= MAXPROC
  /\ main.num_upload_proc = Count(Children(up)) /\ main.num_upload_proc <= MAXPROC
  /\ \A i \in DOMAIN down : down[i].head \in 0..(WORD - 1) /\ down[i].tail \in 0..(WORD - 1)

(* What left the buffer of a task, followed by what is in it, is what was read
   into it, in order: also when the buffer is full, and when the unsigned
   counters start again at 0. *)
BufferInOrder ==
  \A t \in {down[i] : i \in DOMAIN down} \cup {up[j] : j \in DOMAIN up} :
    LET held == (t.tail - t.head) % WORD
    IN t.out \o [k \in 1..held |-> t.buf[(headpos(t) + k - 1) % TASKBUFSIZ]] = [k \in 1..t.in |-> k]

(* A download is taken for complete, and an upload reported complete, only when
   every byte was moved: a full buffer is never taken for the end of the file. *)
CompleteAtEnd ==
  /\ \A i \in DOMAIN down : down[i].pc = "md5" =>
       Len(down[i].out) = down[i].stream.len /\ down[i].stream.end = "eof"
  /\ \A j \in DOMAIN up : up[j].pc = "complete" => Len(up[j].out) = up[j].stream.len

(* Every file of the directory is one that was there before, as it was, or is
   that of a running download and holds the bytes it wrote: no two downloads
   write to one file and none leaves a part of one behind.  A download keeps its
   file, and the files that were there before and those the tracker was told of
   stay, unless an open of that very name failed for another reason than that it
   is taken. *)
OwnFiles ==
  /\ \A n \in DOMAIN disk :
       \/ \E f \in DOMAIN Local : n = <<f, 0>> /\ disk[n] = File(0, [k \in 1..Local[f] |-> k])
       \/ \E i \in Holding : down[i].name = n /\ disk[n] = File(i, down[i].out)
  /\ \A i \in Holding :
       down[i].name \in failed \/ (down[i].name \in DOMAIN disk /\ disk[down[i].name].by = i)
  /\ \A f \in DOMAIN Local :
       <<f, 0>> \in failed \/ (<<f, 0>> \in DOMAIN disk /\ disk[<<f, 0>>].by = 0)
  /\ registered \subseteq DOMAIN disk \cup failed

(* While an upload runs no download does: no half of a file is served. *)
DownloadsFirst == Running(up) # {} => Children(down) = {}

(* Every download comes to an end or to the MD5 query, whatever its peers do
   short of falling silent. *)
DownloadsSettle ==
  \A i \in DOMAIN Args : down[i].pc = "start" ~> down[i].pc \in {"md5", "done", "reaped"}

(* answers.txt: after the downloads the peer "begins to listen to other peer's
   data requests and processes them": an accepted connection is dealt with. *)
RequestsProcessed == At("wait") ~> At("listen")
=============================================================================
