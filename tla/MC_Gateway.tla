----------------------------- MODULE MC_Gateway ------------------------------
(***************************************************************************)
(* The volume of MC_FsNamespace with object PUTs of the HTTP gateway:      *)
(* one overwrites the object x of container x (the file f in a), one puts *)
(* y/y into container y (b), making the directory y on the way, and one   *)
(* puts "../x" into container x, whose walk locks the root after a.        *)
(* There are no symlinks in the volume.                                   *)
(***************************************************************************)
EXTENDS Gateway, MC_FsNamespace

PutOp(cn, ds, b) == [op |-> "put", cont |-> cn, dirs |-> ds, base |-> b]

MCTarget == [i \in MCInodes |-> <<>>]

MCOpsPut ==
  {PutOp("x", <<>>, "x"), PutOp("y", <<"y">>, "y"), PutOp("x", <<"..">>, "x")}

=============================================================================
