---------------------------- MODULE ReadCommand ----------------------------
(***************************************************************************)
(* The parser of the profiling shell (lab1/read-command.c), as operators   *)
(* on the text of a script.                                                *)
(*                                                                         *)
(* A text is a sequence of cells: a word, one of the characters ; | ( ) <  *)
(* >, a blank, a newline, "#" for a comment (its words are left out) or a  *)
(* character that is never valid.  Two words never stand side by side, and *)
(* the last cell is a newline.  Parsing functions return the command and   *)
(* the position after it.  Position 0 stands for exit(1) with a message,   *)
(* and -1 for a scan that runs past the buffer or a null pointer used:     *)
(* both are passed on by every function that gets them.                    *)
(***************************************************************************)
EXTENDS Integers, Sequences, SequencesExt

NULL == "NULL"
NoToken == <<NULL>>
ERROR == 0
WILD == -1

Special == {";", "|", "(", ")", "<", ">"}
Layout == {" ", "\n"}
Invalid == {"#", "&", "?"}
Reserved == {"if", "then", "else", "fi", "while", "until", "do", "done"}

is_special_char(c) == c \in Special
is_valid_char(c) == c \notin Special \cup Layout \cup Invalid \cup {"\\0"}

(* the cell at i; behind the text the buffer has a null character *)
At(b, i) == IF i \in 1..Len(b) THEN b[i] ELSE "\\0"

(* the first position from i up to n whose cell is in S, n + 1 if there is none *)
Find(b, i, n, S) == LET at == {k \in i..n : At(b, k) \in S}
                    IN IF at = {} THEN n + 1 ELSE Min(at)
(* the first position from i up to n whose cell is not in S *)
Skip(b, i, n, S) == LET at == {k \in i..n : At(b, k) \notin S}
                    IN IF at = {} THEN n + 1 ELSE Min(at)

Node(type, cmd) == [type |-> type, cmd |-> cmd, word |-> <<>>, input |-> NULL, output |-> NULL]
initialize_command(type) == Node(type, <<>>)
Result(c, i) == [c |-> c, i |-> i]
Fail(i) == Result(NULL, i)

-----------------------------------------------------------------------------
(* Words and tokens *)

(* the blanks, newlines and comments before a word *)
SkipBlank(b, i) ==
  LET n == Len(b)
      step[k \in 1..(n + 1)] ==
        IF k > n THEN k
        ELSE IF b[k] = "#" THEN step[Find(b, k, n - 1, {"\n"}) + 1]
        ELSE IF b[k] \in Layout THEN step[k + 1]
        ELSE k
  IN step[i]

(* get_next_word: the word, or NULL if the next cell is none *)
get_next_word(b, i) ==
  IF i <= 0 THEN Fail(i)
  ELSE LET k == SkipBlank(b, i)
       IN IF is_valid_char(At(b, k)) THEN Result(b[k], k + 1) ELSE Result(NULL, k)

(* read_next_token: the cells up to the next blank or newline before size.
   <<>> is the empty token, NoToken the null pointer. *)
read_next_token(b, i, size) ==
  LET from == Skip(b, i, size - 1, Layout)
  IN IF i >= size THEN NoToken ELSE SubSeq(b, from, Find(b, from, size - 1, Layout) - 1)

(* mutant: the tokens go on behind the end of the line *)
MutTwoLines(b, i, size) ==
  LET from == Skip(b, i, Len(b), Layout)
      to == Find(b, from, size - 1, Layout) - 1
  IN IF to < from THEN Result(NoToken, from) ELSE Result(SubSeq(b, from, to), to + 1)

(* read_next_token2: the token and the position after it, none at the end of
   the line *)
read_next_token2(b, i, size) ==
  LET from == Skip(b, i, Len(b), {" "})
      to == Find(b, from, size - 1, Layout) - 1
  IN IF At(b, from) = "\n" \/ to < from THEN Result(NoToken, from)
     ELSE Result(SubSeq(b, from, to), to + 1)

read_comments(b, i) == Find(b, i, Len(b), {"\n"})

-----------------------------------------------------------------------------
(* Command types *)

(* strchr(word, '|') finds a pipe that is not the first half of || *)
HasPipe(word) ==
  LET at == {k \in DOMAIN word : word[k] = "|"}
  IN at # {} /\ At(word, Min(at) + 1) # "|"

(* the tokens of the line from i on, up to size and the first of stop *)
RECURSIVE LineTokens(_, _, _, _)
LineTokens(b, i, size, stop) ==
  LET t == read_next_token2(b, i, size)
  IN IF t.c = NoToken \/ t.c \in {<<w>> : w \in stop} THEN {}
     ELSE {t.c} \cup LineTokens(b, t.i, size, stop)

(* the type of a command that starts with a plain word: a pipe anywhere in the
   line wins, then a semicolon anywhere *)
LineType(b, i, size) ==
  LET word == read_next_token(b, i, size)
  IN IF HasPipe(word) \/ \E t \in LineTokens(b, i, size, Reserved) : HasPipe(t)
     THEN "PIPE"
     ELSE IF \E t \in {word} \cup LineTokens(b, i, size, Reserved \cup {"in", "esac"}) :
               \E k \in DOMAIN t : t[k] = ";"
     THEN "SEQUENCE" ELSE "SIMPLE"

(* get_command_type: the type of the command at i, and its first position *)
get_command_type(b, i, size) ==
  LET k == Skip(b, i, size - 1, Layout)
      word == read_next_token(b, k, size)
      first == At(word, 1)
      type == CASE i <= 0 -> "FAIL"
                [] i > 0 /\ k >= size -> "SIMPLE"
                [] i > 0 /\ k < size /\ b[k] \in Invalid -> "ERROR"
                [] i > 0 /\ k < size /\ first = "(" -> "SUBSHELL"
                [] i > 0 /\ k < size /\ word = <<"if">> -> "IF"
                [] i > 0 /\ k < size /\ word = <<"while">> -> "WHILE"
                [] i > 0 /\ k < size /\ word = <<"until">> -> "UNTIL"
                [] i > 0 /\ k < size
                   /\ (word \in {<<w>> : w \in {"do", "done", "else", "fi", "then"}}
                       \/ first = ")") -> "ERROR"
                [] OTHER -> LineType(b, k, size)
      end == IF i >= size THEN i ELSE IF At(b, size - 1) = " " THEN size + 1 ELSE size
  IN [type |-> type,
      i |-> CASE type = "FAIL" -> i
              [] type = "ERROR" -> ERROR
              [] OTHER -> IF k >= size THEN end ELSE k]

-----------------------------------------------------------------------------
(* Commands *)

(* the redirection after ")", "fi" or "done".  A while command allows nothing
   else there, and does not ask for the name of the file. *)
Redirect(b, r, while) ==
  LET word == read_next_token(b, r.i, Len(b) + 1)
      sign == At(word, 1)
      file == get_next_word(b, get_next_word(b, r.i).i + 1)
  IN CASE r.i <= 0 -> r
       [] r.i > 0 /\ At(b, r.i) = "\n" -> r
       [] r.i > 0 /\ At(b, r.i) # "\n" /\ word = NoToken -> Fail(WILD)
       [] OTHER ->
            IF sign \notin {"<", ">"} THEN IF while THEN Fail(ERROR) ELSE r
            ELSE IF file.c = NULL /\ ~while THEN Fail(ERROR)
            ELSE Result(IF sign = "<" THEN [r.c EXCEPT !.input = file.c]
                        ELSE [r.c EXCEPT !.output = file.c], file.i)

(* the keyword expected at i: after it goes on, otherwise exit(1).  until and
   while hand a missing word to strcmp. *)
Keyword(b, i, words, checked) ==
  LET w == get_next_word(b, i)
  IN CASE i <= 0 -> Fail(i)
       [] i > 0 /\ i = Len(b) + 1 -> Fail(ERROR)
       [] i > 0 /\ i # Len(b) + 1 /\ w.c = NULL -> Fail(IF checked THEN ERROR ELSE WILD)
       [] OTHER -> IF w.c \in words THEN w ELSE Fail(ERROR)

(* create_simple_command: words and redirections up to the end of the line, a
   reserved word or one of ; | ( ).  A comment does not end the line: the next
   line goes on with the same command.  write: there was a word. *)
RECURSIVE SimpleFrom(_, _, _, _)
SimpleFrom(b, i, c, write) ==
  LET x == At(b, i)
      end(k, wrote) == IF wrote THEN Result(c, k) ELSE Fail(ERROR)
      file == get_next_word(b, i + 1)
  IN CASE i > Len(b) -> end(i, write)
       [] x = " " -> SimpleFrom(b, i + 1, c, write)
       [] x = "#" -> SimpleFrom(b, Find(b, i, Len(b), {"\n"}) + 1, c, write)
       [] x = "\n" -> end(i + 1, write)
       [] is_valid_char(x) /\ i <= Len(b) ->
            IF x \in Reserved THEN end(i, TRUE)
            ELSE SimpleFrom(b, i + 1, [c EXCEPT !.word = Append(@, x)], TRUE)
       [] x = "<" -> IF c.input # NULL \/ file.c = NULL THEN Fail(ERROR)
                     ELSE SimpleFrom(b, file.i, [c EXCEPT !.input = file.c], write)
       [] x = ">" -> IF c.output # NULL \/ file.c = NULL THEN Fail(ERROR)
                     ELSE SimpleFrom(b, file.i, [c EXCEPT !.output = file.c], write)
       [] x \in {";", "|", "(", ")"} -> end(i, write)
       [] x \in Invalid -> Fail(ERROR)

create_simple_command(b, i) ==
  IF i <= 0 THEN Fail(i) ELSE SimpleFrom(b, i, initialize_command("SIMPLE"), FALSE)

(* The create functions for the other types have the same switch on the type of
   the command inside; cmd[i, size] is what it makes of the text at i. *)

create_if_command(b, i, cmd) ==
  LET size == Len(b) + 1
      c0 == cmd[get_next_word(b, i).i, size]
      then == Keyword(b, c0.i, {"then"}, TRUE)
      c1 == cmd[then.i, size]
      else == Keyword(b, c1.i, {"else", "fi"}, TRUE)
      c2 == cmd[else.i, size]
      fi == Keyword(b, c2.i, {"fi"}, TRUE)
  IN CASE else.i <= 0 -> else
       [] else.c = "fi" -> Result(Node("IF", <<c0.c, c1.c>>), else.i)
       [] OTHER -> IF fi.i <= 0 THEN fi
                   ELSE Redirect(b, Result(Node("IF", <<c0.c, c1.c, c2.c>>), fi.i), FALSE)

(* create_pipe_command: the text up to the first | is the left side, unless the
   command found there goes on behind it.  Half of a || makes the left side a
   pipe again, and the calls never end. *)
create_pipe_command(b, i, cmd) ==
  LET n == Len(b)
      bars == {k \in i..n : b[k] = "|" /\ At(b, k + 1) # "|"}
      left == cmd[i, Min(bars)]
      bar == Find(b, left.i, n, {"|"})
      right == cmd[bar + 1, n + 1]
  IN IF bars = {} \/ get_command_type(b, i, Min(bars)).type = "PIPE" THEN Fail(WILD)
     ELSE IF left.i <= 0 THEN left
     ELSE IF bar > n THEN Fail(WILD)
     ELSE IF right.i <= 0 THEN right
     ELSE Result(Node("PIPE", <<left.c, right.c>>), right.i)

(* create_sequence_command: a ; before a keyword ends the command *)
create_sequence_command(b, i, cmd) ==
  LET n == Len(b)
      left == cmd[i, Find(b, i, n, {";"})]
      semi == Find(b, left.i, n, {";", ")"})
      next == read_next_token(b, semi + 1, n + 1)
      right == cmd[semi + 1, n + 1]
  IN IF Find(b, i, n, {";"}) > n THEN Fail(WILD)
     ELSE IF b[i] = ";" THEN Fail(ERROR)
     ELSE IF left.i <= 0 THEN left
     ELSE IF semi > n THEN Fail(WILD)
     ELSE IF b[semi] = ")" THEN Fail(ERROR)
     ELSE IF next = NoToken THEN Fail(WILD)
     ELSE IF next \in {<<w>> : w \in {"do", "then", "done", "else", "fi"}}
     THEN Result(left.c, semi + 1)
     ELSE IF right.i <= 0 THEN right
     ELSE Result(Node("SEQUENCE", <<left.c, right.c>>), right.i)

(* create_subshell_command: the ) has to be on the line where the command ends;
   if the text ends there, the search goes on behind the buffer *)
create_subshell_command(b, i, cmd) ==
  LET c0 == cmd[i + 1, Len(b) + 1]
      close == Find(b, c0.i, Len(b), {")", "\n"})
  IN IF c0.i <= 0 THEN c0
     ELSE IF close > Len(b) THEN Fail(WILD)
     ELSE IF b[close] = "\n" THEN Fail(ERROR)
     ELSE Redirect(b, Result(Node("SUBSHELL", <<c0.c>>), close + 1), FALSE)

create_until_command(b, i, cmd) ==
  LET size == Len(b) + 1
      c0 == cmd[get_next_word(b, i).i, size]
      do == Keyword(b, c0.i, {"do"}, FALSE)
      c1 == cmd[do.i, size]
      done == Keyword(b, c1.i, {"done"}, FALSE)
  IN IF done.i <= 0 THEN done
     ELSE Redirect(b, Result(Node("UNTIL", <<c0.c, c1.c>>), done.i), FALSE)

(* create_while_command: one simple command more is taken into the condition *)
create_while_command(b, i, cmd) ==
  LET size == Len(b) + 1
      first == cmd[get_next_word(b, i).i, size]
      word == get_next_word(b, first.i)
      more == create_simple_command(b, word.i - 1)
      plain == first.i <= 0 \/ word.c \in {NULL, "do"}
      c0 == IF plain \/ more.i <= 0 THEN first.c ELSE Node("SEQUENCE", <<first.c, more.c>>)
      second == get_next_word(b, more.i)
      do == IF plain THEN Keyword(b, first.i, {"do"}, FALSE)
            ELSE IF second.c = "do" \/ more.i <= 0 THEN second
            ELSE Fail(IF second.c = NULL THEN WILD ELSE ERROR)
      c1 == cmd[do.i, size]
      done == Keyword(b, c1.i, {"done"}, FALSE)
  IN IF done.i <= 0 THEN done
     ELSE Redirect(b, Result(Node("WHILE", <<c0, c1.c>>), done.i), TRUE)

Create(b, t, cmd) ==
  CASE t.type = "SIMPLE" -> create_simple_command(b, t.i)
    [] t.type = "PIPE" -> create_pipe_command(b, t.i, cmd)
    [] t.type = "SEQUENCE" -> create_sequence_command(b, t.i, cmd)
    [] t.type = "SUBSHELL" -> create_subshell_command(b, t.i, cmd)
    [] t.type = "IF" -> create_if_command(b, t.i, cmd)
    [] t.type = "WHILE" -> create_while_command(b, t.i, cmd)
    [] t.type = "UNTIL" -> create_until_command(b, t.i, cmd)
    [] OTHER -> Fail(t.i)

Command(b) ==
  LET cmd[i \in -1..(Len(b) + 2), size \in 1..(Len(b) + 2)] ==
        Create(b, get_command_type(b, i, size), cmd)
  IN cmd

(* the loop of make_command_stream over the top-level commands, from i on; a
   command that takes no cell, such as "done<", is read for ever *)
RECURSIVE CommandsFrom(_, _, _, _)
CommandsFrom(b, k, cmd, cmds) ==
  LET on(i, cs) == CommandsFrom(b, Skip(b, i, Len(b), {" "}), cmd, cs)
      store(r) == IF r.i <= 0 THEN r ELSE IF r.i = k THEN Fail(WILD)
                  ELSE on(r.i, Append(cmds, r.c))
  IN CASE k > Len(b) -> Result(cmds, k)
       [] At(b, k) = "\n" -> on(k + 1, cmds)
       [] At(b, k) = "#" -> on(read_comments(b, k) + 1, cmds)
       [] OTHER -> store(cmd[k, Len(b) + 1])

make_command_stream(b) == CommandsFrom(b, Skip(b, 1, Len(b), {" "}), Command(b), <<>>)
=============================================================================
