----------------------------- MODULE MCSchedos -----------------------------
(* Schedos for TLC: three applications.  Algorithms 0 and 1 ignore the macros
   PRIORITY and SHARE, algorithm 2 ignores SHARE and algorithm 3 PRIORITY. *)
EXTENDS Schedos

Uniform == {<<1, 1, 1>>}
Prios == {<<1, 1, 1>>, <<1, 2, 2>>, <<2, 2, 1>>, <<3, 2, 1>>, <<1, 2, 3>>}
Portions == {<<1, 1, 1>>, <<2, 1, 1>>, <<1, 2, 3>>}
NoShare == {<<0, 1, 1>>, <<1, 0, 1>>, <<0, 0, 0>>}

With(algorithms, priorities, shares) ==
  [scheduling_algorithm : algorithms, SYNC_METHOD : {1, 2},
   PRIORITY : priorities, SHARE : shares]

AllBuilds ==
  With({0, 1}, Uniform, Uniform) \cup With({2}, Prios, Uniform)
  \cup With({3}, Uniform, Portions) \cup With({4}, Prios, Portions)

(* builds in which a program asks for a share of 0 *)
ZeroShareBuilds == With({3, 4}, Uniform, NoShare)
=============================================================================
