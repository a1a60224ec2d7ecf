------------------------------ MODULE MCOsprd ------------------------------
(* Instances of Osprd for TLC: processes and files are model values. *)
EXTENDS Osprd, TLC

(* Processes are interchangeable, files of the same mode too.  Used by the
   runs that check safety properties only. *)
Symmetry ==
  Permutations(Procs) \cup Permutations(WFiles) \cup Permutations(Files \ WFiles)
=============================================================================
