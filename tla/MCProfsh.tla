------------------------------ MODULE MCProfsh ------------------------------
(* Scripts and programs for Profsh.                                          *)
EXTENDS Sh

Simple(w) == [initialize_command("SIMPLE") EXCEPT !.word = w]
In(c, f) == [c EXCEPT !.input = f]
Out(c, f) == [c EXCEPT !.output = f]
Seq2(x, y) == Node("SEQUENCE", <<x, y>>)
Pipe2(x, y) == Node("PIPE", <<x, y>>)
Subshell(x) == Node("SUBSHELL", <<x>>)
If2(x, y) == Node("IF", <<x, y>>)
If3(x, y, z) == Node("IF", <<x, y, z>>)
While(x, y) == Node("WHILE", <<x, y>>)
Until(x, y) == Node("UNTIL", <<x, y>>)

a == Simple(<<"a">>)
b == Simple(<<"b">>)
c == Simple(<<"c">>)
e == Simple(<<"exec", "a">>)
u == Simple(<<"u">>)
m == Simple(<<"m">>)

(* One line each: words, redirections, sequences and pipes. *)
Lines == {a, In(a, "f"), Out(b, "g"), Out(In(a, "f"), "g"), e, In(b, "nofile"), Out(a, "ro"),
          Seq2(a, b), Seq2(a, Seq2(b, c)), Seq2(Out(a, "g"), In(b, "g")),
          Pipe2(a, b), Pipe2(a, Pipe2(b, c)), Pipe2(In(a, "f"), Out(b, "g")),
          Pipe2(a, m), Pipe2(m, b), Seq2(m, c), Seq2(a, Seq2(Out(m, "g"), b))}
Bodies == {a, Seq2(a, b), Pipe2(a, b), Subshell(Pipe2(a, b)), Subshell(Seq2(a, b))}
IfBlocks == {If2(a, x) : x \in Bodies} \cup {If3(a, x, y) : x \in Bodies, y \in {c, Pipe2(b, c)}}
Loops == {While(a, x) : x \in Bodies} \cup {Until(u, x) : x \in Bodies}
Blocks == IfBlocks \cup Loops
Subs == {Subshell(x) : x \in Lines \cup IfBlocks}
        \cup {Out(Subshell(a), "g"), In(Subshell(Out(a, "g")), "f")}
Nested == {If2(a, x) : x \in Blocks} \cup {While(a, x) : x \in Blocks}
          \cup {Until(u, x) : x \in IfBlocks} \cup {If3(a, c, x) : x \in Loops}
          \cup {Pipe2(a, Subshell(x)) : x \in Bodies} \cup {Seq2(a, Subshell(Seq2(a, b)))}

(* A word that execvp does not find: its child goes on with the rest of the
   branch, of the loop and of the script. *)
Unknown == {If3(a, Seq2(m, b), c), If3(m, b, c), While(a, m), While(a, Seq2(m, b)), Until(u, Seq2(m, a)),
            Pipe2(a, Subshell(Seq2(m, b)))}

(* The commands on which the parser and /bin/sh agree: conditions are simple
   commands, a condition execvp does not find is that of the last command, only
   simple commands and subshells of one have redirections, a pipe stands on a
   line of its own and nothing follows a subshell on its line. *)
Script(t, cs, ok) == [text |-> t, ast |-> cs, meant |-> ok]
Means(cs) == Script(Text(cs), cs, TRUE)
Commands == Lines \cup Subs \cup Blocks \cup Nested \cup Unknown
PlainScripts == {Means(<<x>>) : x \in Commands \cup {m}}
                \cup {Means(<<x, c>>) : x \in Blocks \cup Subs \cup (Unknown \ {If3(m, b, c)})
                                             \cup {Pipe2(a, b), Pipe2(m, b), m, Seq2(m, c)}}
                \cup {Means(<<m, m, c>>), Means(<<m, Out(a, "g"), In(b, "g")>>)}
                \cup {Script(<<"#", "\n", "\n", " ", "a", "\n", "b", "\n">>, <<a, b>>, TRUE),
                      Script(<<"\n">>, <<>>, TRUE)}

(* the texts test-t-bad.sh wants to be rejected *)
BadTexts ==
  { <<"?", "\n">>, <<">", "\n">>, <<"<", "\n">>, <<"a", " ", ">", "b", " ", "<", "\n">>,
    <<";", "\n">>, <<";", " ", "a", "\n">>, <<"a", " ", "|", "|", "\n">>,
    <<"while", " ", "a", "\n">>, <<"do", "\n">>, <<"done", " ", ">", "f", "\n">>,
    <<"if", " ", "a", ";", " ", "then", " ", "b", ";", " ", "else", " ", "fi", "\n">>,
    <<"if", " ", ";", " ", "then", " ", ";", " ", "else", " ", ";", " ", "fi", "\n">>,
    <<"if", " ", "a", ";", " ", "else", " ", "b", ";", " ", "then", " ", "c", ";", " ", "fi", "\n">>,
    <<"if", " ", "a", ";", " ", "then", " ", "b", "\n">>,
    <<"if", " ", "a", ";", " ", "then", " ", "b", ";", " ", "else", " ", "c", ";", " ", ")", ";", " ", "fi", "\n">>,
    <<"if", " ", "a", ";", " ", "then", " ", "b", ";", " ", ")", " ", "else", " ", "c", ";", " ", "fi", "\n">>,
    <<"if", " ", "a", ")", ";", " ", "then", " ", "b", ";", " ", "else", " ", "c", ";", " ", "fi", "\n">>,
    <<"if", " ", "(", ")", ";", " ", "then", " ", "b", ";", " ", "else", " ", "c", ";", " ", "fi", "\n">>,
    <<"if", " ", "a", ";", " ", "then", " ", "b", ";", " ", "else", " ", "c", ";", " ", "fi", " ", "fi", "\n">>,
    <<"if", " ", "a", ";", " ", "then", " ", "b", ";", " ", "else", " ", "c", ";", " ", "done", "\n">>,
    <<"while", " ", "a", ";", " ", "do", " ", "b", ";", " ", "done", " ", "c", "\n">>,
    <<"until", " ", "a", ";", " ", "do", " ", "b", ";", " ", "done", " ", ">", "\n">>,
    <<"a", "\n", " ", "|", " ", "b", "\n">>, <<"a", "\n", " ", ";", " ", "b", "\n">>,
    <<"a", ";", ";", "b", "\n">>, <<"a", "|", "|", "|", "b", "\n">>, <<"|", "a", "\n">>,
    <<"<", " ", "a", "\n">>, <<"&", "&", " ", "a", "\n">>, <<"|", "|", "a", "\n">>,
    <<"(", "a", "|", "b", "\n">>, <<"a", ";", "b", ")", "\n">>, <<"(", " ", "(", "a", ")", "\n">>,
    <<"a", ">", ">", ">", "b", "\n">> }

Parsed(scripts) == {[text |-> s.text, ast |-> s.ast, meant |-> s.meant,
                     stream |-> make_command_stream(s.text)] : s \in scripts}
TestScripts == Parsed(PlainScripts \cup {Script(t, <<>>, FALSE) : t \in BadTexts})

(* a condition that is a pipe *)
PipeCondition == Parsed({Means(<<If2(Pipe2(a, b), c)>>)})

MCOutput == [w \in {"a", "b", "c", "u"} |-> CASE w = "a" -> 2 [] w = "b" -> 1 [] OTHER -> 0]
MCEnds == [w \in {"a", "b", "c", "u"} |-> IF w = "a" THEN 1 ELSE 0]
=============================================================================
