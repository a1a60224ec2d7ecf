----------------------------- MODULE MCOsppeer -----------------------------
(* An instance of Osppeer: a file asked for twice that is there already.   *)
EXTENDS Osppeer

MCArgs == <<"g", "g">>
MCPeerLists == {<<"self">>, <<"p", "q">>}
MCStreams == {[len |-> 0, end |-> "eof"], [len |-> 3, end |-> "eof"],
              [len |-> 1, end |-> "reset"], [len |-> Endless, end |-> "eof"]}
MCLocal == [n \in {"g"} |-> 3]
=============================================================================
