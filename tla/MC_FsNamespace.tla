--------------------------- MODULE MC_FsNamespace ---------------------------
(***************************************************************************)
(* A small volume for FsNamespace.                                         *)
(*                                                                         *)
(*   r (root)   x -> a (dir), y -> b (dir)                                 *)
(*   a          x -> f (file)                                              *)
(*   b          (empty)                                                    *)
(*                                                                         *)
(* n1, n2, n3 are the numbers the next creates allocate.  The operations  *)
(* reach every branch: a file created next to f, a directory made in b    *)
(* and removed again, a hard link to f (so that unlinking a/x must keep   *)
(* f), an attempted hard link to a directory, a rename across            *)
(* directories and one within a, and a create in n1, which may not exist  *)
(* yet, may be a file, or may be a directory; a Write of f and a Getstat  *)
(* of n1.  The liveness calls add Setstat and the XAttr calls on n1.      *)
(***************************************************************************)
EXTENDS FsNamespace, TLC

MCCallers == {"c1", "c2"}

\* The callers are interchangeable (for the safety run, whose callers are
\* model values).
CallerSymmetry == Permutations(Callers)
MCInodes == {"r", "a", "b", "f", "n1", "n2", "n3"}
MCNames == {"x", "y"}
MCNewIds == <<"n1", "n2", "n3">>
\* The safety run allocates two: every create kind, a failed create and a
\* symlink in the new directory n1 still happen, at half the states.
MCNewIdsSafety == <<"n1", "n2">>

MCInitKind ==
  [i \in MCInodes |-> CASE i \in {"r", "a", "b"} -> "dir"
                        [] i = "f" -> "file"
                        [] OTHER -> "none"]

MCInitEnt ==
  [d \in MCInodes |-> [n \in MCNames |->
     CASE d = "r" /\ n = "x" -> "a"
       [] d = "r" /\ n = "y" -> "b"
       [] d = "a" /\ n = "x" -> "f"
       [] OTHER -> "none"]]

\* ReadDir lists "." and ".." first, then x before y.
MCNameOrder == <<"x", "y">>

NewOp(d, n, k) == [op |-> "create", dir |-> d, name |-> n, kind |-> k]
LinkOp(d, n, t) == [op |-> "link", dir |-> d, name |-> n, target |-> t]
RemoveOp(o, d, n) == [op |-> o, dir |-> d, name |-> n]
ReaddirOp(d, p, l) == [op |-> "readdir", dir |-> d, plus |-> p, loc |-> l]
InodeOp(o, i) == [op |-> o, ino |-> i]
SetstatOp(i, s, b) == [op |-> "setstat", ino |-> i, set |-> s, big |-> b]
XAttrOp(o, i, f) == [op |-> o, ino |-> i, stream |-> "s", flags |-> f]
RenameOp(sd, sn, dd, dn) == [op |-> "rename", sdir |-> sd, sname |-> sn, ddir |-> dd, dname |-> dn]

MCOps ==
  {NewOp("a", "y", "file"), NewOp("b", "x", "dir"), NewOp("n1", "x", "symlink"),
   LinkOp("b", "y", "f"), LinkOp("a", "y", "b"),
   RemoveOp("unlink", "a", "x"), RemoveOp("unlink", "r", "x"), RemoveOp("rmdir", "b", "x"),
   RenameOp("a", "x", "b", "x"), RenameOp("a", "x", "a", "y"), RenameOp("b", "x", "a", "y"),
   ReaddirOp("b", TRUE, 0), ReaddirOp("r", FALSE, 5),
   InodeOp("write", "f"), InodeOp("getstat", "n1")}

\* For the liveness run: a create and a link into b racing removals from
\* a and b, readdirs of r and b, and renames of a's entry.
MCOpsLive ==
  {NewOp("b", "x", "dir"), LinkOp("b", "y", "f"),
   RemoveOp("unlink", "a", "x"), RemoveOp("rmdir", "b", "x"),
   RenameOp("a", "x", "a", "y"),
   ReaddirOp("r", FALSE, 0), ReaddirOp("b", TRUE, 3),
   SetstatOp("n1", {"times", "owner", "mode"}, {"mode"}), XAttrOp("setxattr", "n1", 0),
   XAttrOp("removexattr", "n1", 0)}

\* Rmdir of b racing a Rename into b.
MCOpsRmdirRename == {RemoveOp("rmdir", "r", "y"), RenameOp("a", "x", "b", "x")}

\* Readdir of a, whose ".." is r, racing Unlink of r/x (that is, of a).
MCOpsReaddirUnlink == {ReaddirOp("a", FALSE, 0), RemoveOp("unlink", "r", "x")}


=============================================================================
