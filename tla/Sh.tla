--------------------------------- MODULE Sh ---------------------------------
(***************************************************************************)
(* What a script means: how its commands are written and what /bin/sh does *)
(* with them.  lab1/README holds the profiling shell against it: "It works *)
(* as well as /bin/sh".  A reference definition, not a model of code.      *)
(***************************************************************************)
EXTENDS Profsh

(* A script is written with one command per line and keywords that start a
   line. *)
RECURSIVE Written(_)
Written(c) ==
  LET w(k) == Written(c.cmd[k])
      blanks == [k \in 1..(2 * Len(c.word) - 1) |-> IF k % 2 = 1 THEN c.word[(k + 1) \div 2] ELSE " "]
      body == CASE c.type = "SIMPLE" -> blanks
                [] c.type = "PIPE" -> w(1) \o <<" ", "|", " ">> \o w(2)
                [] c.type = "SEQUENCE" -> w(1) \o <<";", " ">> \o w(2)
                [] c.type = "SUBSHELL" -> <<"(">> \o w(1) \o <<")">>
                [] c.type = "IF" ->
                     <<"if", " ">> \o w(1) \o <<"\n", "then", " ">> \o w(2) \o <<"\n">>
                     \o (IF Len(c.cmd) = 3 THEN <<"else", " ">> \o w(3) \o <<"\n">> ELSE <<>>)
                     \o <<"fi">>
                [] c.type \in {"WHILE", "UNTIL"} ->
                     <<IF c.type = "WHILE" THEN "while" ELSE "until", " ">> \o w(1)
                     \o <<"\n", "do", " ">> \o w(2) \o <<"\n", "done">>
  IN body \o (IF c.input # NULL THEN <<" ", "<", " ", c.input>> ELSE <<>>)
          \o (IF c.output # NULL THEN <<" ", ">", " ", c.output>> ELSE <<>>)

Text(cs) == FlattenSeq([k \in DOMAIN cs |-> Written(cs[k]) \o <<"\n">>])

(* Running a command: st is its status, did the programs it ran, lines the
   commands that ended, and left the observed statuses that are not used yet.
   Where none is left the run is cut short. *)
Did(s, st) == [s EXCEPT !.st = st]
Line(s, p) == [s EXCEPT !.lines = Append(@, p)]

(* "exec" is left out of a command, as lab1/README says of this shell; /bin/sh
   would end with it *)
ShSimple(c, in, out, s) ==
  LET word == IF c.word[1] = "exec" THEN Tail(c.word) ELSE c.word
  IN IF word = <<>> \/ word[1] \notin Programs THEN Did(s, 127)
     ELSE IF s.left = <<>> THEN [s EXCEPT !.short = TRUE]
     ELSE [s EXCEPT !.st = Head(s.left), !.left = Tail(@),
             !.did = Append(@, [word |-> word[1], in |-> in, out |-> out, st |-> Head(s.left),
                                copy |-> FALSE])]

RECURSIVE ShCommand(_, _, _, _, _)
RECURSIVE ShLoop(_, _, _, _, _)

ShLoop(c, p, in, out, s) ==
  LET cond == ShCommand(c.cmd[1], Sub(p, 1), in, out, s)
      again == (cond.st = 0) = (c.type = "WHILE")
  IN IF cond.short THEN cond
     ELSE IF ~again THEN Did(cond, s.st)
     ELSE ShLoop(c, p, in, out, ShCommand(c.cmd[2], Sub(p, 2), in, out, cond))

ShCommand(c, p, in0, out0, s0) ==
  LET in == IF c.input # NULL THEN File(c.input) ELSE in0
      out == IF c.output # NULL THEN File(c.output) ELSE out0
      closed == (c.input # NULL /\ c.input \notin s0.files) \/ c.output \in ReadOnly
      s == [s0 EXCEPT !.files = @ \cup ({c.output} \ {NULL})]
      sub(k, t) == ShCommand(c.cmd[k], Sub(p, k), in, out, t)
      if(cond) == LET which == IF cond.st = 0 THEN 2 ELSE 3
                  IN IF which \in DOMAIN c.cmd THEN sub(which, cond) ELSE Did(cond, 0)
      r == CASE closed -> Did(s0, 1)
             [] ~closed /\ c.type = "SIMPLE" -> ShSimple(c, in, out, s)
             [] ~closed /\ c.type = "PIPE" ->
                  ShCommand(c.cmd[2], Sub(p, 2), Pipe(p), out,
                            ShCommand(c.cmd[1], Sub(p, 1), in, Pipe(p), s))
             [] ~closed /\ c.type = "SEQUENCE" -> sub(2, sub(1, s))
             [] ~closed /\ c.type = "SUBSHELL" -> sub(1, s)
             [] ~closed /\ c.type = "IF" -> if(sub(1, s))
             [] OTHER -> ShLoop(c, p, in, out, Did(s, 0))
  IN IF s0.short THEN s0 ELSE Line(r, p)

(* the whole script, given the statuses its programs had *)
ShScript(cs, statuses) ==
  LET start == [st |-> 0, did |-> <<>>, lines |-> <<>>, left |-> statuses,
                files |-> Present, short |-> FALSE]
  IN FoldLeft(LAMBDA s, k : ShCommand(cs[k], <<k>>, Terminal, Terminal, s), start,
              [k \in 1..Len(cs) |-> k])

(* what the shell did itself, without the copies that a failed execvp leaves *)
Own(s) == SelectSeq(s, LAMBDA x : ~x.copy)

AsInSh == ShScript(script.ast, [k \in DOMAIN Own(ran) |-> Own(ran)[k].st])

RECURSIVE WordsFound(_)
WordsFound(cs) == \A k \in DOMAIN cs :
  IF cs[k].type # "SIMPLE" THEN WordsFound(cs[k].cmd)
  ELSE LET word == IF cs[k].word[1] = "exec" THEN Tail(cs[k].word) ELSE cs[k].word
       IN word # <<>> /\ word[1] \in Programs

-----------------------------------------------------------------------------
(* Properties *)

(* The processes of the shell have their shape: the last one runs and every
   other is in the waitpid for the child it forked. *)
TypeOK ==
  /\ tree \in BOOLEAN
  /\ exited \in {Running} \cup 0..255
  /\ \A q \in DOMAIN pipe : pipe[q] \in 0..Capacity
  /\ \A k \in DOMAIN procs :
       /\ DOMAIN procs[k].mem = PathsOf(cmds, <<>>)
       /\ \A p \in DOMAIN procs[k].mem : procs[k].mem[p].status \in -1..255
       /\ procs[k].wr \subseteq DOMAIN pipe
       /\ procs[k].todo # <<>>
       /\ (Head(procs[k].todo).op = "wait") = (k < Len(procs))

(* The command stream of a script that means something is its commands, with
   the operands, the nesting and the redirections as they are written; any
   other text ends the shell before a program runs. *)
ParsesAsWritten ==
  /\ cmds # <<>> => cmds = script.ast
  /\ (exited # Running /\ script.meant) => cmds = script.ast
  /\ ~script.meant => ran = <<>> /\ exited # 0

(* When the shell ends it has run the programs /bin/sh runs, in that order and
   on those inputs and outputs, and its status says success when that of
   /bin/sh does (the last command being a simple one).  A word that execvp does
   not find leaves a copy of the shell that runs the rest once more: not what
   /bin/sh does, but it takes nothing from what the shell itself then does, and
   no other script is run by a copy. *)
AsSh ==
  exited # Running /\ script.meant /\ ~tree =>
    /\ AsInSh.did = Own(ran) /\ AsInSh.left = <<>> /\ ~AsInSh.short
    /\ WordsFound(script.ast) => ran = Own(ran)
    /\ AsInSh.files = files
    /\ script.ast # <<>> /\ Last(script.ast).type = "SIMPLE" => (AsInSh.st = 0) = (exited = 0)

(* The profile has one line for every command that ran, each time it ran, and
   behind the lines of the commands inside it; the lines of copies of the shell
   stand between them. *)
ProfileComplete ==
  exited # Running /\ script.meant /\ ~tree =>
    AsInSh.lines = [k \in DOMAIN Own(log) |-> Own(log)[k].at]

(* The shell comes to the end of every script: no process of a pipe waits for
   another one for ever. *)
Finishes == <>(exited # Running)
=============================================================================
