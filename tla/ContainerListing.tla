-------------------------- MODULE ContainerListing ---------------------------
(***************************************************************************)
(* The container listing of the HTTP gateway, MiddlewareGetContainer of    *)
(* src/fs/api_internal.go (907-1089): the recursive walk recursiveReaddir- *)
(* Plus over a container's tree, with its marker, prefix and maxEntries.   *)
(*                                                                         *)
(* Paths are byte strings (sequences of character codes) because the walk  *)
(* is driven by Go's bytewise string order: '-' (45) sorts before '/' (47) *)
(* and both before letters, which is why a directory's descent is put off. *)
(* The tree is a node -> kind function, a node the sequence of basenames  *)
(* from the container down; it does not change during one listing, so the *)
(* paginated Readdir calls of one directory return its entries in order.  *)
(***************************************************************************)
EXTENDS Integers, Sequences, SequencesExt, TLC

CONSTANTS Nodes,       \* candidate nodes: non-empty sequences of basenames
          MarkerSet,     \* the marker strings asked for
          PrefixSet,    \* the prefix strings asked for
          MaxEntries   \* the largest maxEntries asked for

Slash == 47            \* '/'

VARIABLES kind,        \* kind[n]: "none", "file" or "dir"
          marker, prefix, maxEntries

vars == <<kind, marker, prefix, maxEntries>>

Kinds == {"none", "file", "dir"}

\* Go's string comparison: bytewise, a proper prefix sorts first.
RECURSIVE StrLess(_, _)
StrLess(s, t) ==
  IF t = <<>> THEN FALSE
  ELSE IF s = <<>> THEN TRUE
  ELSE IF Head(s) # Head(t) THEN Head(s) < Head(t)
  ELSE StrLess(Tail(s), Tail(t))

StrLeq(s, t) == s = t \/ StrLess(s, t)

\* The strings of a finite set, least first.
RECURSIVE Sorted(_)
Sorted(S) ==
  IF S = {} THEN <<>>
  ELSE LET least == CHOOSE x \in S : \A y \in S : StrLeq(x, y)
       IN <<least>> \o Sorted(S \ {least})

\* strings.HasPrefix(s, p)
HasPrefix(s, p) == IsPrefix(p, s)

\* The container-relative path of a node: its basenames joined by '/'.
RECURSIVE PathOf(_)
PathOf(n) == IF Len(n) = 1 THEN n[1] ELSE PathOf(Front(n)) \o <<Slash>> \o Last(n)

Live == {n \in Nodes : kind[n] # "none"}

\* Readdir of directory node `dir` (the container is <<>>), paged until
\* areMoreEntries is false: its basenames in lexicographic order.  "." and
\* ".." are dropped as the loop drops them (953-956).
Entries(dir) ==
  Sorted({Last(n) : n \in {m \in Live : Len(m) = Len(dir) + 1 /\ Front(m) = dir}})

\* The loop of recursiveReaddirPlus (925-1078), one turn per step: es are the
\* dirEnts left, ds the recursiveDescents, out containerEnts.  A pending
\* descent goes first when its name sorts before the next dirEnt's Basename
\* (959-970); the entry's fileName is dirName + Basename (979-985); then the
\* prefix early return (987-992), the marker pruning (1016-1018), and a file
\* emitted (1028-1043) or a directory emitted and queued as fileName + "/"
\* (1044-1076).  Readdir and Getstat errors need a tree that changes under
\* the walk and are left out.
RECURSIVE Walk(_, _, _, _, _), ReaddirPlus(_, _, _)
Walk(dirName, dir, es, ds, out) ==
  IF ~((es # <<>> \/ ds # <<>>) /\ Len(out) < maxEntries) THEN out
  ELSE IF ds # <<>> /\ (es = <<>> \/ StrLess(Head(ds).name, Head(es)))
    THEN LET sub == ReaddirPlus(Head(ds).name, Head(ds).ino, out)
         IN IF Len(sub) >= maxEntries THEN sub ELSE Walk(dirName, dir, es, Tail(ds), sub)
  ELSE
    LET fileName == dirName \o Head(es)
        node     == dir \o <<Head(es)>>
        rest     == Tail(es)
    IN CASE StrLess(prefix, fileName) /\ ~HasPrefix(fileName, prefix) -> out
         [] StrLeq(fileName, marker) /\ ~HasPrefix(marker, fileName) ->
              Walk(dirName, dir, rest, ds, out)
         [] kind[node] = "file" ->
              Walk(dirName, dir, rest, ds,
                   IF StrLeq(fileName, marker) \/ ~HasPrefix(fileName, prefix)
                     THEN out ELSE Append(out, fileName))
         [] ~HasPrefix(fileName, prefix) /\ ~HasPrefix(prefix, fileName) ->
              Walk(dirName, dir, rest, ds, out)
         [] OTHER ->
              Walk(dirName, dir, rest,
                   Append(ds, [name |-> fileName \o <<Slash>>, ino |-> node]),
                   IF StrLess(marker, fileName) /\ HasPrefix(fileName, prefix)
                     THEN Append(out, fileName) ELSE out)

ReaddirPlus(dirName, dir, out) == Walk(dirName, dir, Entries(dir), <<>>, out)

\* MiddlewareGetContainer: the walk from the container with dirName "".
Listing == ReaddirPlus(<<>>, <<>>, <<>>)

\* Every node's parent is a live directory.
Trees ==
  {k \in [Nodes -> Kinds] :
     \A n \in Nodes : k[n] # "none" /\ Len(n) > 1 => Front(n) \in Nodes /\ k[Front(n)] = "dir"}

Init ==
  /\ kind \in Trees
  /\ marker \in MarkerSet
  /\ prefix \in PrefixSet
  /\ maxEntries \in 1..MaxEntries

\* A listing request changes nothing.
Next == UNCHANGED vars

Spec == Init /\ [][Next]_vars

TypeOK ==
  /\ kind \in [Nodes -> Kinds]
  /\ maxEntries \in 1..MaxEntries

(***************************************************************************)
(* What the Swift API and the spec ask of a page: the paths of every      *)
(* object and directory of the container that sort after the marker and  *)
(* begin with the prefix, in lexicographic order, the first maxEntries of *)
(* them.  A client pages by passing the last path returned as the next    *)
(* marker, so a page out of order drops objects from the later pages.     *)
(***************************************************************************)
Reference ==
  LET matching == {PathOf(n) : n \in Live}
      chosen   == {p \in matching : StrLess(marker, p) /\ HasPrefix(p, prefix)}
      sorted   == Sorted(chosen)
  IN SubSeq(sorted, 1, IF Len(sorted) < maxEntries THEN Len(sorted) ELSE maxEntries)

(* MiddlewareGetContainer returns exactly the page the Swift API defines:  *)
(* the walk's deferred descents, prefix early return and marker pruning   *)
(* never drop, add or reorder a path.                                      *)
ListingIsReference == Listing = Reference

=============================================================================
