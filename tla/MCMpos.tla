------------------------------- MODULE MCMpos -------------------------------
(* Mpos for TLC: a table of NPROCS - 1 descriptors and one exit status that is
   neither a pid, nor 0, nor -1, so that results can be told apart. *)
EXTENDS Mpos

ExitCodes == {1000}
=============================================================================
