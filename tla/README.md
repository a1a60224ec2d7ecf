# TLA+ specifications of the CS111 lab programs

This directory models the concurrent and stateful programs of the repository in
TLA+, checks them with TLC on small instances, and proves their main safety
properties with TLAPS for every size of the system. `PROJECT.json` maps every
definition to the lines it models, lists the runs, the theorems, the hazards and
the disagreements found between the code and its comments.

## 1. The system

The repository holds the programs of an operating-systems course. They do not
call each other; each is a component with its own actors.

| Component | State | Operations | What is hard | What makes it correct |
|---|---|---|---|---|
| **osprd lock** (`lab2/osprd.c`, `spinlock.h`): reader-writer lock of a RAM disk | `mutex`, `ticket_head/tail`, lock counts, writer pid, list of reader pids, list of invalid tickets; `F_OSPRD_LOCKED` of each file | `ioctl` ACQUIRE, TRYACQUIRE, RELEASE; last close; signals to waiters | processes interleave at every unlock and sleep; waiters are interrupted; files are shared after `fork`; early returns | a writer excludes everybody; counts match the files; tickets are served in order; every waiter returns; the answer -EDEADLK is right |
| **osprd data path** | disk bytes | read/write requests in sectors | the boundary of the disk | requests stay inside the disk |
| **MiniprocOS** (`weensyos1/mpos-kern.c`) | process table, registers, stacks, `wait_queue` | getpid, fork, newthread, yield, exit, kill, wait; `schedule()` | long sequences of calls that reuse descriptors, stale `wait_queue` entries, spinning with somebody blocked | only RUNNABLE processes run; the dead stay dead; a wait returns the status of the process waited for; nobody waits for nothing |
| **SchedOS** (`weensyos2/schedos-kern.c`, `schedos-1.c`) | process table with priority, share and run count; console, cursor and lock in shared memory | yield, exit, set priority, set share, print; clock interrupt; the printing loop | the clock interrupts applications between any two instructions; five schedulers; a spinlock under priority scheduling | the scheduler keeps its policy; no character is lost; everybody finishes |
| **OSPFS** (`lab3/ospfsmod.c`, `ospfs.h`) | block bitmap, inodes with direct, indirect and doubly indirect blocks, directory entries | lookup, readdir, create, link, symlink, follow link, unlink, truncate, read, write | running out of blocks half-way, indirect-block boundaries, files removed while open, directories changed while listed | no block is used twice; sizes match blocks; link counts match entries; a listing is complete; a call that fails changes nothing users see |
| **ospfsformat** (`lab3/ospfsformat.c`) | the image under construction, counters of blocks and inodes, known hard links | walk of a host directory | the last block; hard links by host inode and by contents | the image is one the file system can be mounted on |
| **profiling shell: parser** (`lab1/read-command.c`) | the text and an index into it | `get_command_type`, one `create_..._command` for each type | the type is guessed from the line before it is parsed; nesting | scripts are parsed as they were written; what is no script is rejected |
| **profiling shell: execution** (`lab1/execute-command.c`, `main.c`) | tree of processes, pipes, statuses, the profile | if, while, until, pipe, sequence, subshell, simple | forked copies of the shell, pipe ends left open, statuses of compound commands | the programs, inputs, outputs and order of `/bin/sh`; every script ends; one profile line for each command |
| **osppeer** (`lab4/osppeer.c`) | tasks with ring buffers, peer lists, forked children, disk files | tracker conversation, download, upload, `main` | peers that refuse, break off or never stop; a full buffer; children side by side in one directory | bytes keep their order; a download is whole or given up; children keep to their own files; downloads end, then requests are served |
| platform and vendored code (boot loaders, ELF loader, string library, md5, `fsimgtoc`, `truncate`, testers) | - | - | - | left out: hardware access, third-party code or test drivers |

Interactions: an osprd process meets the others only through `osprd_info_t` and
the wait queue `d->blockq`; MiniprocOS and SchedOS processes meet through the
process table and (SchedOS) shared memory; OSPFS is called by Linux on behalf of
many processes, on the image ospfsformat built; the shell and its children share
pipes and files; an osppeer process meets other peers over sockets, its own
children through `waitpid`, and the children each other in the directory.

## 2. Modules

| Module | Models | Run modules | Proofs |
|---|---|---|---|
| `Osprd` | the lock protocol of one RAM disk | `MCOsprd` | `OsprdProofs` |
| `RWLock` | what the lock promises: the abstract specification of `Osprd` | `MCOsprd` | `OsprdProofs` |
| `Mpos` | the MiniprocOS kernel | `MCMpos` | `MposProofs` |
| `Schedos` | the SchedOS kernel and its applications | `MCSchedos` | `SchedosProofs` |
| `Ospfs` | the file system | `MCOspfs` | `OspfsBlocks`, `OspfsProofs` |
| `OspfsImage` | what a well-formed image is, and `Ospfs` mounted on any such image | `MCOspfs` | `OspfsProofs` |
| `Ospfsformat` | the image builder, and `Ospfs` mounted on its images | `MCOspfs` | |
| `FileStore` | what a file system promises: the abstract specification of `Ospfs` | `MCOspfs` | `OspfsStore` |
| `ReadCommand` | the shell's parser, as operators | `MCProfsh` | |
| `Profsh` | the shell: `main` and the execute functions | `MCProfsh` | |
| `Sh` | the reference: how commands are written, and what `/bin/sh` does with them | `MCProfsh` | |
| `Osppeer` | the peer | `MCOsppeer` | `OsppeerProofs` |
| `NatLemmas` | - (lemmas about numbers for the proofs) | | |

Definitions whose name starts with `Mut` are deliberate faults. They are used by
no specification; each shows that a property notices a plausible mistake.

### Osprd

The variables have the names of the fields of `osprd_info_t`. `locked` is the set
of files with `F_OSPRD_LOCKED`, `holders[f]` the processes with a descriptor for
`f`. The lists `read_locking_pids` and `invalidTicketList` are only searched and
appended to, so sets stand for them; the walk that should unlink a reader changes
nothing (`UnlinkReader`), because its two pointers advance together.

An action is a stretch of driver code between two points where another task can
run. `pc[p]` says where `p` is:

    user --AcquireTicket--> scan (writers) --AcquireScan--> check
    check --WaitCheck--> grant | intr | sleep        wake-up or signal: sleep -> check
    grant --AcquireGrant--> user                     takes the lock, advances ticket_tail
    intr --Interrupted--> user | invalidate --Invalidate--> user
    user --TrySnapshot--> try --TryLock--> user      TRYACQUIRE

`Preempt` selects the build. In a uniprocessor build without preemption a task in
the kernel keeps the CPU (`cpu`) until it sleeps or returns; otherwise any task
runs at any point. `mutex` counts the critical sections left without unlocking:
in the uniprocessor build `spinlock.h` then sends SIGKILL to the next caller (and
goes on), in the other a locked mutex is never obtained again. The source relies
on `d->mutex` alone; whether a kernel also serialises the ioctls of block devices
is not its business, and `Preempt = TRUE` does not assume it.

`RWLock` is the lock a client sees: the locked files, the waiting processes, what
they want, and who asked ahead of them. A request joins the end, leaves without the
lock, or is served when nobody is ahead and no held lock stands against it; an
attempt without waiting needs an empty queue. `ImplementsRWLock` maps the
processes with a ticket to the queue and the order of tickets to its order;
`ticket_tail`, the counters, the invalid tickets and the sleepers have no
counterpart: they have to make the steps come out right. The run covers ACQUIRE,
signals and closes, the proof (section 3) also TRYACQUIRE, RELEASE, shared files
and the other builds.

Limits of the model: one device (the deadlock of two processes that lock two
devices in opposite order, tests 19 and 20 of `deadlock.pl`, is out of sight: the
driver keeps no state across devices); a killed process's files are closed one by one;
`Interrupted` and `Invalidate` are one step each although the SMP build runs them
without the mutex, so the SMP instances say nothing about torn updates there.

Runs:

* `osprd_up` - three processes, a writable and a read-only file, all ioctls, both
  kinds of signal, shared files, three tickets and one leaked critical section.
  Shows exclusion, accounting, the ticket queue, that the tail never rests on an
  abandoned ticket, that every lock has a holder, and service in order. Three
  processes are what an order violation needs (one served, one overtaken, one
  giving up).
* `osprd_live` - polite clients (one lock at a time) with interruptible waits,
  three files of which two can be written, and four tickets: every blocked ACQUIRE
  returns, no read lock stays counted, and every step is one of `RWLock`.
* `osprd_v_ticket` - an ACQUIRE refused with -EDEADLK keeps its ticket, and later
  requests block for ever.

Fairness (`FairSpec`): the Linux scheduler keeps running a process that can run
inside the driver (`SF` on `DriverStep`: another waiter can steal the turn between
wake-up and check), and a process that holds a lock, or has been killed, closes
its files in the end, because programs exit. Nothing is assumed about signals or
new requests.

### Mpos

One action is one system call of `interrupt()` together with the `schedule()` or
`run()` that ends it; the kernel cannot be interrupted. `eax[p]` is the saved
register: the argument of the call `p` is blocked in, then its result. `stack[p]`
is the region the stack pointer is in (`copy_stack` keeps the offset from the top;
`do_newthread` starts at the top address of the region, which belongs to the
region before). `current = 0` stands for the endless search of `schedule()`.

Clients are constrained by constants only: `KillStates` (which processes
they kill), `OneWaiter` (nobody waits for a process that has a waiter, or for an
earlier one), `Threads`.

Runs: `mpos` (three descriptors: enough for a waiter, the process it waits for
and a third that kills, reuses a descriptor or fills the table) checks everything
under clients that kill RUNNABLE processes and wait forward.

Fairness: the running process keeps calling the kernel, and programs end: a
process that is resumed again and again calls `sys_exit` some time.

Deadlock checking is off: when all processes have exited, `schedule()` spins.

### Schedos

`build` is chosen once: algorithm, synchronization method, and the `PRIORITY` and
`SHARE` of each application. System calls and clock interrupts end in `Schedule`.
An application is at `pc[p]`; the C statement `*cursorpos++ = PRINTCHAR` is three
steps (load, store of the incremented cursor, store of the character), between
which the clock may interrupt. The searches of the schedulers are given in closed
form: the first (or last) hit in the order in which the loop visits descriptors.

Runs: `schedos` - 50 builds (every algorithm, both methods, five priority and three
share assignments), three applications, clock interrupts anywhere, one character
per application (the loop runs once and is left once).

Fairness: an application that is resumed again and again completes its next
instruction before a clock interrupt, since interrupts come `HZ` times a second;
the clock keeps ticking.

### Ospfs, OspfsImage, Ospfsformat and FileStore

The variable `disk` is `ospfs_data`: `free` is the bitmap, `inode` the inodes,
and every block is kept both as an array of pointers (`ptr`) and as an array of
directory entries (`ent`). The bytes of files are not part of the model. The
functions of `ospfsmod.c` do not sleep, with one exception, and the kernel of the
lab is not preempted inside them, so a call is one action; the exception is
`copy_from_user` in `ospfs_write`, and `Write` (the size) and `WriteCopy` (the
copy) are two steps with other calls in between. A listing of a directory is a
sequence of `ReadDir` calls which stop where the user's buffer is full. One file
or one directory can be open at a time, and be changed or removed by other calls
meanwhile.

`add_block`, `remove_block` and `change_size` are pure operators on the disk, in
the order of the code, the failures included: a doubly indirect block that is
freed and stays in `oi_indirect2`, and `remove_block`'s index `n`, which is one
behind the last block. `Create` leaves the block pointers of the inode's last
owner in place, as the code does. A symbolic link with a text longer than four
characters stores it over the block pointers; they become `WILD`.

Because some failures of the code damage the image, clients are either *careful*
(`Careful = TRUE`) or not. Careful clients

* ask for a doubly indirect block only while the disk has room for all it needs
  (`MayGrow`): otherwise a block that was freed stays in `oi_indirect2`;
* enter a name into a full directory only while the directory is below the
  largest size and, if it needs a doubly indirect block, has room (`MayEnter`);
* do not unlink long symbolic links, whose inode would hand its `WILD` pointers
  to a new file;
* make no symbolic link while they have an unlinked file open, whose inode the
  link might get.

The invariants and the proofs are about careful clients; `ospfs_v_enospc` drops
the conditions. A disk that runs out of direct and singly indirect blocks, inodes
or directory space is within them.

`OspfsImage` says what a file system checker would test on an image
(`WellFormed`): pointers and bitmap agree and no block has two owners
(`Consistent`), sizes have their blocks (`Filled`), no entry is left behind the end
of a directory (`BlankTails`: the directory will grow over it), inodes without
links have no names and usable pointers (`Linked`), and no directory has two
entries of one name (`DistinctNames`). `Sound` adds that open files and scans are
valid. `ImageSpec` is `Ospfs` mounted on any well-formed image.

`Ospfsformat` builds the initial disks: `Format` is `main` and the walk of a host
tree, `storeblk` places blocks, `WriteEntry` is `writefile` together with
`addsymlink` and `writesymlink`. An image whose construction aborts is not mounted.
The block cache and the byte order of the tool are left out.

`FileStore` knows paths, files and sizes only. A call binds one free path (to a
new file or to one that has a name), removes one, resizes one file, or changes
nothing; a call that failed changes nothing. `ImplementsFileStore` maps a path
to the inode `Lookup` finds (`FileOf`) and a file or link with names to its size
(`SizeOf`). The size of a directory is left out: it grows when a name is entered,
and stays grown when the call fails after that. `-ENOMEM` from create and symlink
is not mapped to a failure, since the file is there then.

Limits: an entry is one unit of a directory (`DIRENTRY_SIZE = 1`), so the effect
of `readdir`'s step of one byte instead of 128 is out of sight; sizes stay one
block below the largest file (see the hazards); no directories are made at run
time (the code has no mkdir); the dentry and inode caches of Linux are left out.
The text of a symbolic link is one value: that `ospfs_symlink` copies it without
its NUL (`ospfsmod.c:1401`), so that old bytes of the inode can follow it, is out of
sight.

Runs:

* `ospfs` - 12 blocks of which 8 hold data, 4 inodes, one direct pointer and two
  pointers in an indirect block, so that a size of 7 bytes uses every kind of
  block and two files exhaust disk and inodes; three images; one open file or
  listing at a time. 167,000 states. `BlockOwnership`, `SizesHaveBlocks`,
  `LinkCounts` and `ReaddirComplete` are over all orders of these calls. `Sound`
  contains the type invariant `TypeOK`; in the initial states it also says that
  `Format` builds well-formed images from these trees.
* `ospfs_refine` - images with hard links by inode and by contents, a
  subdirectory, a file with all kinds of blocks and a conditional link. A block
  holds one unit, so that the subdirectory is full and grows with its next name;
  growth fails for lack of blocks, and files grow into doubly indirect blocks.
  42,000 states.
* `ospfs_v_enospc` - a failed growth changes the set of free blocks.

`VIEW` leaves out `ret` and the contents of free blocks. No action reads either
(a block is zeroed when it is taken), the invariants do not mention them, and in
a step of `FileStore` only the new value of `failed` counts, so states that agree
otherwise have the same successors and the same verdicts.

### ReadCommand, Profsh and Sh

A script is a sequence of tokens: a word is one, as are blanks, newlines and the
special characters. The parser's functions keep their names; each returns the
command and the index it stopped at, `ERROR` where the code prints a message and
exits, `WILD` where it reads uninitialised or foreign memory.

In `Profsh` a process is its memory, standard input and output, the write ends it
holds open, and the list of what it has to do, which is what the C stack holds;
`fork` copies it. Since every `fork` is followed by a `waitpid` for that child the
processes form a stack of which the last one runs. The statuses and redirections
of commands are memory of each process: a child's changes are not seen by its
parent. A program reads its input to the end or not at all, writes a fixed
number of units, and exits with either status; after `MaxRuns` programs the
status is fixed, so that loops end. The profile is always written (`-p`); its
times are left out.

When `execvp` does not find a word, its child comes back from
`execute_simple_command` as a copy of the shell and goes on with the rest of the
script, while its parent waits (`execute-command.c:561`). `copy` marks such a
process and its children, and with them what they run (`ran`) and write into the
profile (`log`); `Own` leaves those entries out.

`Sh` says how a command is written (`Written`) and what `/bin/sh` runs for it
(`ShCommand`), on the structure the script was written from, without looking at
the parser or the processes. `AsSh` compares the programs the shell itself ran, in
order, with their inputs, outputs and statuses, and its exit status: that a copy
runs beside it must not change them. If every word is found nothing else may run.
`ProfileComplete` says of the profile that the shell's own lines are one for each
command each time it ran, inner before outer; the lines of copies stand between
them. That the copy runs the rest of the script again is against `/bin/sh`, and
is listed with the disagreements below.

Limits:

* commands of at most two words (the word array of longer ones is grown by code
  that is not modelled); what a program leaves in a pipe fits into it;
* the scripts are those on which the parser and `/bin/sh` agree: conditions are
  simple commands, redirections stand on simple commands and on subshells of one, a
  pipe stands on a line of its own, and nothing follows a subshell on its line.
  What the parser does with the others is in the model, and below;
* a condition that `execvp` does not find is that of the last command of its
  script: otherwise its status is that of the copy's last command, see below;
* `u.command[2]` of an if without else is never assigned (`read-command.c:283,347`)
  and tested when the command is executed. The model takes it as absent, which is
  what fresh memory gives; so it does with the node behind the last command
  (`read-command.c:919`);
* the reference shell drops the word `exec` and goes on, as `lab1/README:27` says
  `profsh` does ("which would be terminated after run in bash"); the scripts use it
  where nothing follows.

Runs: `profsh` - 270 texts with and without `-t`: every type, nested two deep,
sequences and pipes of three, redirections to files that are missing or
read-only, words that are no program at the start, in the middle and at the end of
scripts, branches, loops and pipes, and the texts `test-t-bad.sh` wants to be
rejected; 60,000 states. `profsh_v_sh` - `if a | b` takes the else branch although
`b` returned 0.

Fairness: `WF` of the next step: processes and programs are scheduled.

### Osppeer

`main` is the main process, `down[i]` the child that downloads the i-th argument,
`up[j]` the child that serves the j-th connection, `disk` the files of the
directory with their contents; `<<name, i>>` is `name~i~`. The bytes of a file are
numbered 1, 2, ... so that order and completeness can be seen; `by` is the download
that made a file and has it open, 0 for those that were there before. A step of a
child is one turn of its loop (`transfer`, `serve`), one `open` with `O_EXCL`, the
`unlink` after an `open` that failed (`unlink_name`), or one connection; a step of the main process ends at `accept`, `fork` or `waitpid`.
`head` and `tail` are counters modulo `WORD`, a multiple of the buffer's size.

The environment is free: the tracker answers with any list of `PeerLists`, refuses
or leaves; a peer refuses, or delivers a stream that is empty, whole, broken off
or endless; disk and connection may fail at any read or write; `fork` may fail.
An `open` may fail for another reason than EEXIST (no descriptor or memory left, a
signal), whether the name is taken or not. The code then unlinks the name in a
later step, and with it whatever file has the name by then: one that was there
before, or one a sibling has made meanwhile, which goes on writing into a file
without a name (`Store`). The history variable `failed` holds the names for which
this happened. `OwnFiles` says that nothing else endangers a file: a file is lost
only if an `open` of its very name failed, and at all times every file is an
untouched original or holds exactly the bytes of the one running download that
made it.
`task_pop_peer` frees `md5_state` again for every further peer; `free` may stop
the process then. The loop at line 659 never ends: a download that received data
stays at `md5`. What follows it in the source is not modelled, nor are the modes
in which the peer misbehaves on purpose (`evil_mode` is 0).

Runs: `osppeer` - two equal arguments, the name of a file that is there already,
two names for each, a buffer of 2 bytes, files of 3, opens that fail for either
name, two children of a kind, three connections of which the process can hold
two: 383,000 states. Two downloads are what a conflict about a name needs. They do
not exceed `MAXPROC`; that a third one is left out is covered by the proofs, which
are for every list of arguments.
`osppeer_v_serve` - no request is processed after a successful download.

Fairness: the main process and the downloads are scheduled, and a peer that
accepted a connection goes on or breaks off (a turn in which neither read nor
write moves anything is a stuttering step, which `WF` excludes for ever: the code
has no timeout, and a peer that falls silent stops a download for good). Nothing
is assumed of those who connect.

### Disagreements without a run of their own

Found on the way and visible in the models with the constants named:

* releasing a read lock wakes nobody (`osprd.c:471`), so a waiting writer sleeps
  on: `EveryRequestReturns` with clients that use RELEASE;
* with `Preempt = TRUE`, TRYACQUIRE and a granted waiter both get the lock
  (`osprd.c:412`): `LockExclusion`;
* a busy TRYACQUIRE of a reader (`osprd.c:424`) and a RELEASE without a lock
  (`osprd.c:460`) leave the mutex locked, and the next caller is killed;
* a process that once held a read lock is refused a write lock with -EDEADLK
  (`osprd.c:289`), since the list of readers never shrinks;
* the status of a process is returned to its waiter and to a later `sys_wait`
  again (`mpos-kern.c:178`), against `mpos-app.h:143`;
* a process killed while it waits runs again when the process it waited for ends
  (`mpos-kern.c:179`): `NoResurrection` with `KillStates` that include BLOCKED;
* a share of 0 makes `schedule()` spin with runnable processes
  (`schedos-kern.c:276`): `RunsRunnable`;
* a pipe whose left side writes more than fits into the pipe never ends
  (`execute-command.c:353`): `Finishes` with `Output` above `Capacity`;
* a word that `execvp` does not find makes a second shell that runs the rest of the
  script before the first one does (`execute-command.c:561`), against
  `lab1/README:27`: "It works as well as /bin/sh." In the run, `AsSh` with `ran` in
  the place of `Own(ran)` fails for `m` followed by `c`. The word's status is
  that of the copy's last command, so `if m` followed by a command that succeeds
  takes the then branch;
* a line with a `|` is parsed as a pipe whose right side is the rest of the line
  (`read-command.c:236`): `a | b; c` becomes `a | (b; c)`, against `lab1/README:21`
  ("based on the precedence of operator"); `a; b | c` and `(a) | b` make the parser
  read behind the text, and `(a); b` is refused. `ParsesAsWritten` fails with these
  scripts;
* a download whose `open` fails for another reason than EEXIST removes the file of
  that name (`osppeer.c:609-611`, `710-711`), be it an original or a sibling's,
  although the comment at `osppeer.c:600` wants existing files left alone:
  `OwnFiles` with `failed` taken as empty;
* redirections of if, while and until are parsed and not applied, although
  `lab1/README:30` says they are handled;
* root following a conditional symbolic link cuts its text for everybody else
  (`ospfsmod.c:1446`): the outcome FAULT of `FollowLink`.

## 3. What is proved

All proofs are for any number of processes, files, descriptors, tickets, blocks and inodes.

`OsprdProofs`, assuming `SafeBuild` (no preemption, or no client uses TRYACQUIRE):
`TypeCorrect`, `Exclusion`, `Accounting`, `Tickets` and `Order`. Exclusion is not
inductive: a grant is safe only because the wait condition, evaluated in an
earlier step, still holds (`GrantReady`), which needs that no two requests share a
ticket (`TicketQueue`), that tickets and tail are bounded by the head
(`TicketBounds`), and that without preemption nobody runs between a TRYACQUIRE's
snapshot and its test (`DriverContext`). Their conjunction with the types and the
accounting is `IInv`; `Invariance` proves it step by step, one lemma per part and
one step per action. `SafeBuild` cannot be dropped: see the second disagreement above.

Also in `OsprdProofs`:

* `Refinement`: `Osprd` implements `RWLock` in every `SafeBuild`. Lemmas
  `QueueSame`, `QueueLeave` and `QueueJoin` say what a change of tickets is on the
  queue; `AbstractStep` has one step per action, and uses `IInv` where it matters:
  a grant serves the first of the queue (`TicketQueue`, `GrantReady`), no held lock
  stands against it (`LockAccounting`), and a TRYACQUIRE that succeeds finds
  `ticket_tail = ticket_head`, hence nobody waiting;
* `NoLockForgotten`, in every build and for all clients: a process inside the
  driver has the file it works on open (`DriverHolds`), so a lock is granted only
  on an open file, and the last close releases it;
* `TailStaysLive`, without preemption: a ticket is given up either by its owner
  while it is served, who moves the tail on, or before, and then the tail skips it;
  no step comes between a test of `ticket_tail` and its use. With preemption the
  tail may reach a ticket in between, and the property fails;
* `CountsReturn`, for clients that hold one lock at a time, share no files and do
  not use TRYACQUIRE (`PoliteClients`): the read count is exactly the number of
  read-locked files (`ExactCount`). The assumption is needed because a TRYACQUIRE
  counts the same file again and RELEASE or close gives back one.

`MposProofs`:

* `TypeCorrect` and `ResumesRunnable`, without assumptions on clients;
* `WaitsTrue` and `DeadStayDead`, for clients that kill only RUNNABLE processes
  (`GentleKills`): a live process's `wait_queue` names a process that is BLOCKED
  in a wait for it (`WaitQueueOK`; the argument still in `%eax` is what ties the
  two together);
* `NoWaiterLost` and `SpinsOnlyWhenDone`, for clients that also wait forward
  (`OneWaiter`): the invariant is `WaitersRegistered` with `ForwardWaits`. A cycle
  of waits would need a step back, so with somebody blocked there is a last one
  who is waited for and can run;
* `ForkedStacks`, for clients without threads: live processes have stacks of
  their own.

`SchedosProofs`, for any number of processes and characters, every build and clock
interrupts between any two instructions:

* `TypeCorrect` and `SharesKept`, from the invariant `Basic`: a process that
  has not set its share has not been counted, so the exact test `p_run_count !=
  p_share` is never jumped over;
* `ResumesRunnable`, for shares that are not 0 (`PositiveShares`; the programs ask
  for at least 1, and a share of 0 makes algorithms 3 and 4 spin). The searches of
  `schedule()` visit descriptors cyclically; that they find somebody when somebody
  is there rests on the remainders in `NatLemmas`;
* `PrioritiesKept`, for algorithms 2 and 4;
* `NothingLost`: each process owns as many cells as it counted (`CountInv`), at most
  one is between `read` and `release` and only while the lock is taken
  (`MutexInv`), and the cursor it has read is the one it writes back
  (`CursorInv`). `ConsoleIntact` alone is not inductive: it says nothing of the
  cursor while somebody is inside.

`OsppeerProofs`, for every list of arguments, every answer of the tracker, every
stream of a peer, every failure, and every buffer size of which `WORD` is a proper
multiple (`TASKBUFSIZ` is 4096 in the code and the counters have 32 bits):
`TypeCorrect`, `BytesInOrder`, `EndIsEnd`, `FilesKept` and `DownloadsComeFirst`. The
inductive invariant is

* `TasksInv`: `head` and `tail` are the numbers of bytes that left and entered,
  modulo `WORD`; at most `TASKBUFSIZ` bytes are held; byte `b` that is held lies in
  slot `(b - 1) % TASKBUFSIZ`; what left is `1, 2, ...` in order. That the difference of
  two wrapped counters is the number of bytes held is lemma `CounterDiff`, and that
  a slot does not depend on the wrap is `ModOfMod`, which needs the multiple;
* `DiskInv`: every file is an untouched original or is held by the one download
  that made it and holds what that download wrote; the file of a download and an
  original are in the directory unless their name is in `failed`; and a name that is
  about to be unlinked after a failed `open` is in `failed`. The last part is what
  makes `FilesKept` inductive: a download unlinks its own name or one in `failed`,
  and when its own file has lost its name, the name is in `failed` too;
* `MainInv`: the counters of `main` are the numbers of children not yet waited for;
* `OrderInv`: the downloads have all been waited for before an upload is started.

`IInv` was also checked by TLC on the instance of run `osppeer`.

`OspfsBlocks`, `OspfsProofs` and `OspfsStore`, for any numbers of blocks, inodes
and pointers, any block size, names and directories, any well-formed image to
start from (`ImageSpec`), and careful clients:

* `ChangeSizeIs`: the contract of `change_size`. `Refs(d)` is the set of all block
  pointers that live inodes hold, each with its place; `Owned` says that no block
  has two places, and `RefsAre`, `OneMoreRef` and `OneRefLess` what an assignment
  to a pointer does to that. `AddBlockIs` has a case for each kind of block and
  each allocation that can fail, `RemoveBlockIs` for each limit between kinds;
  `AdditionsAre` and `RemovalsAre` unfold the loops, and `GrowIs` and `ShrinkIs` are
  inductions over their turns. The delicate part is that a careful client's
  growth cannot fail between the doubly indirect block and the indirect block
  below it: `Credit` counts the free blocks, and one more for a file that has its
  indirect block, and drops by one with each block;
* `SoundAlways`: `Sound` is inductive. None of the properties is so by itself: a
  link count stays the number of names because `EntriesOf` changes at one place
  (`NamesButAre`), which holds because directory blocks are not shared
  (`EntrySetNames`, from `Consistent`), because a directory grows over blank space
  (`BlankTails`), and because the blocks of a reused inode are still its own
  (`PrepareIs`, from `Linked`). `SoundStep` has one step per action;
* from it `TypeCorrect`, `BlocksOwned`, `BytesHaveBlocks`, `LinksCounted` and
  `ScansComplete`: types, and the other four invariants of run `ospfs`. The last one needs `Handles`:
  a name that a scan owes is found at or behind the scan's position, since no
  call moves an entry (`NamesKept`);
* `OspfsIsFileStore`: `Ospfs` implements `FileStore`. `BindIs` and `UnbindIs` say what
  an entry set or blanked is in `FileOf`, with `DistinctNames` for the case that
  the name removed must not be found a second time; `NamedIs` turns places into
  names, `SizesExcept` says whose size may change, and `StoreStep` has one step per
  action.

`Sound` was checked by TLC on run `ospfs` before it was proved, and the refinement
on `ospfs_refine`. An earlier form of the mapping, which counted the sizes of
subdirectories, was refuted that way.

`NatLemmas` has the facts these proofs share: least and greatest elements,
induction over a set of numbers (the library's theorem takes an operator, which
the provers cannot instantiate; the set form they can), and the remainder
operator.

Model-checked only:

* all liveness properties (`EveryRequestReturns`, `EveryWaitReturns`, `AllFinish`,
  `Finishes`, `DownloadsSettle`), which are out of reach of the prover;
* everything about `ReadCommand`, `Profsh` and `Sh`, which use RECURSIVE operators
  because the parser is recursive: nothing can be proved about them with this
  prover;
* that `Ospfsformat` builds well-formed images: `Format` folds over a host tree,
  which would need induction over data. TLC checks it for the trees of the runs
  (`Sound` in the initial states).

## 4. Bounds

`MaxTicket` bounds the ACQUIRE calls of a behaviour, `MaxLeaks` the critical
sections left locked, `MaxReads` the read locks counted when a TRYACQUIRE starts
(TRYACQUIRE can lock the same file again and again). `RUNCOUNT` and `NPROCS` are
the program's own constants, made small, as are the sizes of disk, inodes and
blocks of OSPFS, `TASKBUFSIZ`, `MAXFILESIZ`, `NAMES` and `MAXPROC` of the peer.
`MaxRuns` bounds the programs of a script whose status is open, `Conns` the
connections other peers open, `MaxErrors` the names whose `open` fails for another
reason than EEXIST (in the run as many as there are names). Integers are unbounded except the counters of the
task buffer (modulo `WORD`): no other counter reaches its width in a run of the
programs that a user could wait for.

## 5. Not modelled, and the plan

The plan the modules were written along is done: the lock, the two kernels, the
file system with its image builder, the shell and the peer are modelled, in this
order, and every safety invariant and refinement of the first four and of the peer
is proved. What is left is of a kind the tools do not reach: section 3 lists it
under "model-checked only".

Left out for good: WeensyOS boot and loader code, x86 setup, string library and
console driver (hardware access without protocol state), `md5.c` (third party),
`fsimgtoc` and `truncate` (conversion of files), the testers (read as statements
of intended behaviour), the registration of the RAM disk with Linux (sequential
calls of the kernel API), the osprd data path (one bounds check and a copy), the
fixed programs `mpos-app*.c` (the clients of `Mpos` make any calls), and
`print-command.c` (layout).
