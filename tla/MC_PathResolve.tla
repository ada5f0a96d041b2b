--------------------------- MODULE MC_PathResolve ---------------------------
(***************************************************************************)
(* A small namespace for PathResolve.                                      *)
(*                                                                         *)
(*   /            r     a (dir), s1 -> "a", s3 -> "s1", l -> "l"           *)
(*   /a           a     b (dir), f (file), s2 -> "/a/b", h -> "."          *)
(*   /a/b         b     (empty)                                            *)
(*                                                                         *)
(* s1 and s3 are relative symlinks (s3 is a chain of two links), l is a    *)
(* symlink loop, s2 is absolute.  ".." is an entry of every directory; up  *)
(* -> ".." in a is a relative symlink to the parent, present only in the   *)
(* namespace MCEntriesUp.  Paths are given as revSplitPath leaves them:   *)
(* path.Clean of the path without its leading "/", which removes "." and  *)
(* inner "..", but keeps a leading ".." ("/../a" becomes "../a").          *)
(***************************************************************************)
EXTENDS PathResolve

MCCallers == {"c1", "c2"}
MCOneCaller == {"c1"}

MCInodes == {"r", "a", "b", "f", "s1", "s2", "s3", "l", "h", "up"}
MCNames == {"a", "b", "f", "s1", "s2", "s3", "l", "h", "up", "..", "nope"}

Links == {<<"r", "a", "a">>, <<"r", "s1", "s1">>, <<"r", "s3", "s3">>,
          <<"r", "l", "l">>, <<"r", "..", "r">>,
          <<"a", "b", "b">>, <<"a", "f", "f">>, <<"a", "s2", "s2">>,
          <<"a", "h", "h">>, <<"a", "..", "r">>, <<"b", "..", "a">>}

LookupIn(L) ==
  [d \in MCInodes |-> [n \in MCNames |->
     IF \E e \in L : e[1] = d /\ e[2] = n
       THEN (CHOOSE e \in L : e[1] = d /\ e[2] = n)[3]
       ELSE "none"]]

MCEntries == LookupIn(Links)
MCEntriesUp == LookupIn(Links \cup {<<"a", "up", "up">>})

MCKind ==
  [i \in MCInodes |-> CASE i \in {"r", "a", "b"} -> "dir"
                        [] i = "f" -> "file"
                        [] OTHER -> "symlink"]

MCTarget ==
  [i \in MCInodes |-> CASE i = "s1" -> <<"a">>
                        [] i = "s3" -> <<"s1">>
                        [] i = "l" -> <<"l">>
                        [] i = "s2" -> <<"a", "b">>
                        [] i = "h" -> <<".">>
                        [] i = "up" -> <<"..">>
                        [] OTHER -> <<>>]

MCAbsolute == [i \in MCInodes |-> i = "s2"]

MCPaths == {<<"a", "b">>, <<"s3", "f">>, <<"a", "s2">>, <<"l">>,
            <<"a", "f", "b">>, <<"nope">>, <<"a", "h", "f">>, <<>>}

\* No path asks for a lock its resolver already holds: what getLock
\* (ensureReadLock / ensureWriteLock, not in src/) does then is unknown.
MCPathsUp == {<<"a", "up">>, <<"a", "b">>}

=============================================================================
