------------------------------- MODULE Profsh -------------------------------
(***************************************************************************)
(* The profiling shell: main (lab1/main.c) reads the script with the       *)
(* parser of ReadCommand and runs it with lab1/execute-command.c.          *)
(*                                                                         *)
(* A process is its memory (the status and the redirections of every       *)
(* command), its standard input and output, the pipes whose write end it   *)
(* has open, and the items it still has to do: what the C stack holds.     *)
(* Every fork is followed by a waitpid for that child, so the processes    *)
(* are a stack whose last one runs and whose others wait; fork copies the  *)
(* items, and a child that is not replaced by a program goes on with them  *)
(* as a copy of the shell.                                                 *)
(* Commands are named by their path: <<k>> is the k-th of the script,      *)
(* Append(p, j) the j-th inside p.  Times and the wording of the profile   *)
(* are left out: a line of the profile is the path of its command.         *)
(***************************************************************************)
EXTENDS ReadCommand, FiniteSets

CONSTANTS Scripts,   \* records [text, ast, meant, stream]: the file, its commands,
                     \* whether it is a script, what make_command_stream makes of it
          Programs,  \* the words execvp finds
          Reads,     \* the programs that read their input to its end
          Output,    \* how much a program writes
          Ends,      \* the status a program has when it was run often enough
          Present,   \* the files that exist
          ReadOnly,  \* the files that cannot be opened for writing
          Capacity,  \* what fits into a pipe
          MaxRuns    \* bound: the runs whose status is open

ASSUME StreamsAssumption == \A s \in Scripts : s.stream = make_command_stream(s.text)
ASSUME ProgramsAssumption == /\ Reads \subseteq Programs
                             /\ Output \in [Programs -> Nat]
                             /\ Ends \in [Programs -> {0, 1}]
ASSUME BoundsAssumption == Capacity \in Nat \ {0} /\ MaxRuns \in Nat

VARIABLES script,  \* the file given to the shell
          tree,    \* the option -t
          cmds,    \* the command stream
          procs,   \* the processes, the one that runs last
          pipe,    \* what is in the pipes, by the path of their command
          files,   \* the files that exist
          ran,     \* the programs that ran: word, input, output, status, and
                   \* whether a copy of the shell ran them
          log,     \* the profile, with the same distinction
          exited   \* the status of the shell, or Running

vars == <<script, tree, cmds, procs, pipe, files, ran, log, exited>>

Running == -1
Crash == 139

(* a standard input or output: the terminal, a file or a pipe *)
Terminal == [file |-> NULL, pipe |-> <<>>]
File(f) == [file |-> f, pipe |-> <<>>]
Pipe(p) == [file |-> NULL, pipe |-> p]

Do(op, p) == [op |-> op, at |-> p, n |-> 0]

-----------------------------------------------------------------------------
RECURSIVE CmdAt(_, _)
CmdAt(cs, p) == IF Len(p) = 1 THEN cs[p[1]] ELSE CmdAt(cs, Front(p)).cmd[Last(p)]

RECURSIVE PathsOf(_, _)
PathsOf(cs, p) == {Append(p, j) : j \in DOMAIN cs}
                  \cup UNION {PathsOf(cs[j].cmd, Append(p, j)) : j \in DOMAIN cs}

(* the commands as the parser leaves them: no status yet *)
Fresh(cs) == [p \in PathsOf(cs, <<>>) |->
               [status |-> -1, input |-> CmdAt(cs, p).input, output |-> CmdAt(cs, p).output]]

Top == procs[Len(procs)]
Item == Head(Top.todo)
Ready(op) == procs # <<>> /\ Item.op = op
CanRun(type) == Ready("run") /\ CmdAt(cmds, Item.at).type = type
Sub(p, j) == Append(p, j)

(* the running process goes on with p, after a fork the child c is the last *)
Goes(p) == procs' = [procs EXCEPT ![Len(procs)] = p]
Forks(p, c) == procs' = Append([procs EXCEPT ![Len(procs)] = p], c)
Then(p, items) == [p EXCEPT !.todo = items \o Tail(@)]

(* exit or _exit with this status, and the waitpid of the parent, who keeps the
   status if the child was the program of a simple command *)
Exit(st) ==
  LET n == Len(procs)
      parent == procs[n - 1]
      at == Head(parent.todo).at
      told == IF CmdAt(cmds, at).type = "SIMPLE"
              THEN [parent EXCEPT !.mem[at].status = st] ELSE parent
  IN IF n = 1 THEN procs' = <<>> /\ exited' = st
     ELSE procs' = [SubSeq(procs, 1, n - 1) EXCEPT ![n - 1] = Then(told, <<>>)] /\ UNCHANGED exited

-----------------------------------------------------------------------------
(* main: a script that cannot be parsed ends the shell with status 1 before
   anything runs, or with a crash; with -t the tree is printed and nothing run *)
Load(r) ==
  \/ r.i = ERROR /\ procs' = <<>> /\ exited' = 1 /\ UNCHANGED cmds
  \/ r.i = WILD /\ procs' = <<>> /\ exited' \in {1, Crash} /\ UNCHANGED cmds
  \/ r.i > 0 /\ tree /\ cmds' = r.c /\ procs' = <<>> /\ exited' = 0
  \/ /\ r.i > 0 /\ ~tree /\ cmds' = r.c
     /\ Goes([Top EXCEPT !.mem = Fresh(r.c), !.todo = <<Do("next", <<1>>)>>])
     /\ UNCHANGED exited

main ==
  /\ Ready("main") /\ Load(script.stream)
  /\ UNCHANGED <<script, tree, pipe, files, ran, log>>

(* the loop of main over read_command_stream; behind the last command the
   process returns the status of that command *)
read_command_stream ==
  LET k == Item.at[1]
  IN /\ Ready("next")
     /\ UNCHANGED <<script, tree, cmds, pipe, files, ran, log>>
     /\ \/ /\ k <= Len(cmds)
           /\ Goes(Then(Top, <<Do("run", <<k>>), Do("next", <<k + 1>>)>>))
           /\ UNCHANGED exited
        \/ k > Len(cmds) /\ Exit(IF k = 1 THEN 0 ELSE Top.mem[<<k - 1>>].status % 256)

-----------------------------------------------------------------------------
(* The execute functions.  Each ends with a line of the profile. *)

Quiet == UNCHANGED <<script, tree, cmds, files, ran, log, exited>>

execute_if_command ==
  /\ CanRun("IF") /\ Quiet /\ UNCHANGED pipe
  /\ LET p == Item.at
     IN Goes(Then(Top, <<Do("run", Sub(p, 1)), Do("branch", p), Do("log", p)>>))

(* mutant: without an else part the function returns before its profile line *)
MutReturns ==
  /\ Ready("branch") /\ Quiet /\ UNCHANGED pipe
  /\ LET p == Item.at
         which == IF Top.mem[Sub(p, 1)].status = 0 THEN 2 ELSE 3
     IN Goes(IF which \in DOMAIN CmdAt(cmds, p).cmd
             THEN Then(Top, <<Do("run", Sub(p, which))>>)
             ELSE Then(Then(Top, <<>>), <<>>))

(* the status of the condition decides; without else there may be nothing to do *)
branch ==
  /\ Ready("branch") /\ Quiet /\ UNCHANGED pipe
  /\ LET p == Item.at
         which == IF Top.mem[Sub(p, 1)].status = 0 THEN 2 ELSE 3
     IN Goes(Then(Top, IF which \in DOMAIN CmdAt(cmds, p).cmd
                       THEN <<Do("run", Sub(p, which))>> ELSE <<>>))

execute_sequence_command ==
  /\ CanRun("SEQUENCE") /\ Quiet /\ UNCHANGED pipe
  /\ LET p == Item.at
     IN Goes(Then(Top, <<Do("run", Sub(p, 1)), Do("run", Sub(p, 2)), Do("log", p)>>))

(* the redirections of a subshell become those of the command inside *)
execute_subshell_command ==
  /\ CanRun("SUBSHELL") /\ Quiet /\ UNCHANGED pipe
  /\ LET p == Item.at
         c == Top.mem[p]
         inner == [Top.mem[Sub(p, 1)] EXCEPT !.input = IF c.input # NULL THEN c.input ELSE @,
                                             !.output = IF c.output # NULL THEN c.output ELSE @]
     IN Goes(Then([Top EXCEPT !.mem[Sub(p, 1)] = inner],
                  <<Do("run", Sub(p, 1)), Do("log", p)>>))

execute_while_command ==
  /\ CanRun("WHILE") /\ Quiet /\ UNCHANGED pipe
  /\ LET p == Item.at
     IN Goes(Then(Top, <<Do("run", Sub(p, 1)), Do("loop", p), Do("log", p)>>))

execute_until_command ==
  /\ CanRun("UNTIL") /\ Quiet /\ UNCHANGED pipe
  /\ LET p == Item.at
     IN Goes(Then(Top, <<Do("run", Sub(p, 1)), Do("loop", p), Do("log", p)>>))


(* the body and the condition again, or the end of the loop *)
loop ==
  /\ Ready("loop") /\ Quiet /\ UNCHANGED pipe
  /\ LET p == Item.at
         again == (Top.mem[Sub(p, 1)].status = 0) = (CmdAt(cmds, p).type = "WHILE")
     IN Goes(Then(Top, IF again THEN <<Do("run", Sub(p, 2)), Do("run", Sub(p, 1)), Do("loop", p)>>
                       ELSE <<>>))

(* the first child takes both sides of the pipe, the shell closes its ends *)
execute_pipe_command ==
  /\ CanRun("PIPE") /\ Quiet
  /\ LET p == Item.at
     IN /\ pipe' = [q \in DOMAIN pipe \cup {p} |-> IF q = p THEN 0 ELSE pipe[q]]
        /\ Forks(Then(Top, <<Do("wait", p), Do("log", p)>>),
                 [Top EXCEPT !.wr = @ \cup {p}, !.todo = <<Do("left", p), Do("right", p)>>])

(* mutant: the left side is not waited for *)
MutNoWait ==
  /\ Ready("left") /\ Quiet /\ UNCHANGED pipe
  /\ LET p == Item.at
     IN Forks(Then(Top, <<>>),
              [Top EXCEPT !.out = Pipe(p),
                          !.todo = <<Do("run", Sub(p, 1)), Do("exit", Sub(p, 1))>>])

(* it forks a second child for the left side and waits for it *)
left_side ==
  /\ Ready("left") /\ Quiet /\ UNCHANGED pipe
  /\ LET p == Item.at
     IN Forks(Then(Top, <<Do("wait", p)>>),
              [Top EXCEPT !.out = Pipe(p),
                          !.todo = <<Do("run", Sub(p, 1)), Do("exit", Sub(p, 1))>>])

(* mutant: the write end stays open *)
MutKeepEnd ==
  /\ Ready("right") /\ Quiet /\ UNCHANGED pipe
  /\ LET p == Item.at
     IN Goes([Top EXCEPT !.in = Pipe(p),
                         !.todo = <<Do("run", Sub(p, 2)), Do("exit", Sub(p, 2))>>])

(* only then it closes the write end and runs the right side itself *)
right_side ==
  /\ Ready("right") /\ Quiet /\ UNCHANGED pipe
  /\ LET p == Item.at
     IN Goes([Top EXCEPT !.wr = @ \ {p}, !.in = Pipe(p),
                         !.todo = <<Do("run", Sub(p, 2)), Do("exit", Sub(p, 2))>>])

_exit ==
  /\ Ready("exit") /\ Exit(Top.mem[Item.at].status % 256)
  /\ UNCHANGED <<script, tree, cmds, pipe, files, ran, log>>

execute_simple_command ==
  /\ CanRun("SIMPLE") /\ Quiet /\ UNCHANGED pipe
  /\ LET p == Item.at
     IN Forks(Then(Top, <<Do("wait", p), Do("log", p)>>), Then(Top, <<Do("exec", p)>>))

printcmd ==
  /\ Ready("log")
  /\ log' = Append(log, [at |-> Item.at, copy |-> Top.copy])
  /\ Goes(Then(Top, <<>>))
  /\ UNCHANGED <<script, tree, cmds, pipe, files, ran, exited>>

-----------------------------------------------------------------------------
(* The child of a simple command *)

(* the redirections are opened in order.  A word execvp does not find leaves
   the child a copy of the shell, in the middle of the script. *)
exec ==
  LET p == Item.at
      c == Top.mem[p]
      word == CmdAt(cmds, p).word
      found == IF word[1] = "exec" THEN Tail(word) ELSE word
      opened == [Top EXCEPT !.in = IF c.input # NULL THEN File(c.input) ELSE @,
                            !.out = IF c.output # NULL THEN File(c.output) ELSE @]
      noInput == c.input # NULL /\ c.input \notin files
      noOutput == c.output # NULL /\ c.output \in ReadOnly
  IN /\ Ready("exec")
     /\ UNCHANGED <<script, tree, cmds, pipe, ran, log>>
     /\ \/ (noInput \/ noOutput) /\ Exit(1) /\ UNCHANGED files
        \/ /\ ~noInput /\ ~noOutput
           /\ files' = files \cup ({c.output} \ {NULL})
           /\ \/ /\ found # <<>> /\ found[1] \in Programs
                 /\ Goes([opened EXCEPT !.todo = <<Do("read", p)>>])
              \/ /\ found = <<>> \/ found[1] \notin Programs
                 /\ Goes(Then([opened EXCEPT !.copy = TRUE], <<>>))
           /\ UNCHANGED exited

Word(p) == LET word == CmdAt(cmds, p).word IN IF word[1] = "exec" THEN word[2] ELSE word[1]

(* a program that reads comes to the end of a pipe when it is empty and nobody
   has its write end open *)
ReadInput ==
  /\ Ready("read")
  /\ LET p == Item.at
         q == Top.in.pipe
         piped == Word(p) \in Reads /\ q # <<>>
     IN /\ piped => \A k \in DOMAIN procs : q \notin procs[k].wr
        /\ pipe' = IF piped THEN [pipe EXCEPT ![q] = 0] ELSE pipe
        /\ Goes(Then(Top, <<[Do("write", p) EXCEPT !.n = Output[Word(p)]]>>))
  /\ Quiet

(* a full pipe blocks its writer *)
WriteOutput ==
  /\ Ready("write") /\ Item.n > 0
  /\ LET q == Top.out.pipe
     IN /\ q # <<>> => pipe[q] < Capacity
        /\ pipe' = IF q # <<>> THEN [pipe EXCEPT ![q] = @ + 1] ELSE pipe
        /\ Goes(Then(Top, <<[Item EXCEPT !.n = @ - 1]>>))
  /\ Quiet

ProgramExits ==
  /\ Ready("write") /\ Item.n = 0
  /\ \E st \in IF Len(ran) < MaxRuns THEN {0, 1} ELSE {Ends[Word(Item.at)]} :
       /\ ran' = Append(ran, [word |-> Word(Item.at), in |-> Top.in, out |-> Top.out, st |-> st,
                              copy |-> Top.copy])
       /\ Exit(st)
  /\ UNCHANGED <<script, tree, cmds, pipe, files, log>>

-----------------------------------------------------------------------------
Init ==
  /\ script \in Scripts /\ tree \in BOOLEAN
  /\ cmds = <<>> /\ pipe = <<>> /\ ran = <<>> /\ log = <<>>
  /\ files = Present /\ exited = Running
  /\ procs = <<[todo |-> <<Do("main", <<1>>)>>, mem |-> <<>>,
                in |-> Terminal, out |-> Terminal, wr |-> {}, copy |-> FALSE]>>

Execute == \/ execute_if_command \/ branch
           \/ execute_sequence_command
           \/ execute_subshell_command
           \/ execute_while_command \/ execute_until_command \/ loop
           \/ execute_pipe_command \/ left_side \/ right_side \/ _exit
           \/ execute_simple_command \/ printcmd

Program == exec \/ ReadInput \/ WriteOutput \/ ProgramExits

Ended == exited # Running /\ UNCHANGED vars

Next == main \/ read_command_stream \/ Execute \/ Program \/ Ended

Spec == Init /\ [][Next]_vars /\ WF_vars(Next)
=============================================================================
