----------------------------- MODULE FileStore -----------------------------
(***************************************************************************)
(* What a file system promises its users, without blocks, inodes or        *)
(* bitmaps: names are bound to files, files have sizes, and one call       *)
(* changes one binding or the size of one file, or fails and changes       *)
(* nothing.                                                                *)
(***************************************************************************)
EXTENDS Integers

CONSTANTS Paths,  \* pairs of a directory and a name
          Files,  \* the identities files can have
          NoFile

VARIABLES file,   \* file[p]: the file path p is bound to, or NoFile
          size,   \* size[f]: its size; 0 for files without a name
          failed  \* whether the last call returned an error

vars == <<file, size, failed>>

Named(f) == \E p \in Paths : file[p] = f

Init ==
  /\ file \in [Paths -> Files \cup {NoFile}]
  /\ size \in [Files -> Nat]
  /\ \A f \in Files : ~Named(f) => size[f] = 0
  /\ failed = FALSE

(* a new name p: for a new file (symbolic links are not empty) ... *)
Create(p, f) ==
  /\ ~Named(f)
  /\ file' = [file EXCEPT ![p] = f]
  /\ size' = [size EXCEPT ![f] = size'[f]]

(* ... or for a file that has a name *)
Link(p, f) ==
  /\ Named(f)
  /\ file' = [file EXCEPT ![p] = f]
  /\ UNCHANGED size

(* the last name takes the file along *)
Unlink(p) ==
  /\ file' = [file EXCEPT ![p] = NoFile]
  /\ size' = IF \E q \in Paths \ {p} : file[q] = file[p] THEN size
             ELSE [size EXCEPT ![file[p]] = 0]

Resize(f) ==
  /\ Named(f)
  /\ size' = [size EXCEPT ![f] = size'[f]]
  /\ UNCHANGED file

Next ==
  \/ UNCHANGED <<file, size>> /\ failed' \in BOOLEAN
  \/ /\ ~failed'
     /\ \/ \E p \in Paths :
             /\ file[p] = NoFile
             /\ \E f \in Files : f = file'[p] /\ (Create(p, f) \/ Link(p, f))
        \/ \E p \in Paths : file[p] # NoFile /\ file'[p] = NoFile /\ Unlink(p)
        \/ \E f \in Files : size'[f] # size[f] /\ Resize(f)

Spec == Init /\ [][Next]_vars
=============================================================================
