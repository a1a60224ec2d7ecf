------------------------------ MODULE MCOspfs ------------------------------
(* Ospfs for TLC: a disk of a few blocks, on images of small host trees. *)
EXTENDS Ospfsformat

File(name, size, key, contents) ==
  [kind |-> "file", name |-> name, size |-> size, key |-> key, contents |-> contents,
   parent |-> 0]
Sym(name, text) == [File(name, text, 0, 0) EXCEPT !.kind = "symlink"]
Dir(name) == [File(name, 0, 0, 0) EXCEPT !.kind = "dir"]
In(parent, e) == [e EXCEPT !.parent = parent]

(* nothing; one file; one file that fills its blocks, with two names *)
Trees == {<<>>, <<File("a", 5, 0, 1)>>, <<File("a", 4, 7, 0), File("b", 4, 7, 0)>>}

(* two files with the same contents, of which one has two host names; a
   subdirectory; a file that needs every kind of block *)
RefineTrees ==
  {<<File("a", 1, 7, 1), File("b", 1, 0, 1)>>,
   <<Dir("a"), In(1, File("b", 2, 0, 1)), File("b", 2, 0, 1)>>,
   <<File("a", 4, 0, 1), Sym("b", "cond")>>}

(* ret and the contents of free blocks are read by no action *)
View ==
  <<[disk EXCEPT !.ptr = [b \in Blocks |-> IF b \in disk.free THEN ZeroPtrs ELSE disk.ptr[b]],
                 !.ent = [b \in Blocks |-> IF b \in disk.free THEN ZeroEnts ELSE disk.ent[b]]],
    filp, f_pos, left, scan>>
=============================================================================
