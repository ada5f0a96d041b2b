------------------------------ MODULE Gateway --------------------------------
(***************************************************************************)
(* The HTTP gateway's object PUT, MiddlewarePutComplete of                 *)
(* src/fs/api_internal.go (1229-1476) with removeObstacleToObjectPut       *)
(* (2620-2670), run by callers next to the namespace calls of FsNamespace. *)
(*                                                                         *)
(* PutComplete looks the container up in the root (the public Lookup,     *)
(* under its own caller id), write-locks it, and walks the directory part *)
(* of the object path down, write-locking each entry before it lets go of *)
(* its parent and following symlinks.  At the deepest existing directory  *)
(* it creates the file, and the missing directories above it, links each *)
(* into the next, removes an obstacle at the object's name and links the  *)
(* top of the chain in.  The object path is given already split, as       *)
(* revSplitPath returns it after path.Clean: "." only as the whole path,  *)
(* ".." only before the first name.                                       *)
(***************************************************************************)
EXTENDS FsNamespace

CONSTANTS Target,           \* Target[i]: GetSymlink(i), split and cleaned
          Absolute,         \* the symlinks whose target starts with "/"
          MiddlewareStream  \* the stream holding the object's metadata

VARIABLES dirIno,   \* dirIno[c]: dirInodeNumber, the directory c holds
          dirs      \* dirs[c]: the segments still to walk, the next first

gwVars == <<vars, dirIno, dirs>>

GwInit ==
  /\ Init
  /\ dirIno = [c \in Callers |-> NoInode]
  /\ dirs = [c \in Callers |-> <<>>]

\* The collaborator's Lookup(d, n): "." names d, ".." its parent.
LookupName(d, n) ==
  CASE n = "."  -> d
    [] n = ".." -> IF Parent(d) = <<>> THEN NoInode ELSE Parent(d)[1]
    [] OTHER    -> ent[d][n]

\* mS.Lookup of the container in the root: ReadLock the root under a new
\* caller id (1231, 586-590).
PutStart(c, o) ==
  /\ o.op = "put"
  /\ LockFirst(c, o, Root, "put_lookup", "shared")
  /\ UNCHANGED <<xattr, changed, dirIno, dirs>>

\* Its F_OK and X_OK pass for the root user on the root; the collaborator's
\* Lookup, the deferred Unlock, and the return on NotFound (592-604,
\* 1232-1234).
PutLookup(c) ==
  LET x == ent[Root][op[c].cont] IN
  /\ pc[c] = "put_lookup"
  /\ IF x = NoInode
       THEN Return(c, <<Root>>) /\ UNCHANGED <<dirIno, dirs>>
       ELSE /\ SetLocks(Unlock(lk, Root, c), c)
            /\ dirIno' = [dirIno EXCEPT ![c] = x]
            /\ dirs' = [dirs EXCEPT ![c] = op[c].dirs]
            /\ pc' = [pc EXCEPT ![c] = "put_lock_dir"]
            /\ UNCHANGED <<op, next, newIno, child, todo, listing>>
  /\ UNCHANGED <<kind, ent, nlink, allocated, xattr, changed>>

\* getWriteLock of the container under the PUT's caller id (1250-1254).
PutLockDir(c) ==
  /\ pc[c] = "put_lock_dir"
  /\ WriteLock(dirIno[c], c, "put_walk")
  /\ UNCHANGED <<kind, ent, nlink, allocated, op, newIno, child, todo, listing,
                 xattr, changed, dirIno, dirs>>

\* The walk's Lookup fails once dirInodeNumber is no live directory (the
\* container's entry named a file, or the directory was removed before it
\* was locked).  Which error the collaborator then returns is not in src/:
\* NotFound ends the walk, any other makes the loop retry the same Lookup.
LookupFails(c) == kind[dirIno[c]] # "dir"

\* The walk has reached the deepest existing directory: no segment is left,
\* or Lookup of the next one reports NotFound (1264-1269).
WalkDone(c) ==
  IF dirs[c] = <<>> THEN TRUE
  ELSE Head(dirs[c]) # "." /\ (LookupFails(c) \/ LookupName(dirIno[c], Head(dirs[c])) = NoInode)

\* One turn of the walk loop (1256-1262, 1273-1280): skip "."; else an
\* entry found is write-locked under the same caller id.
PutWalk(c) ==
  LET d == dirIno[c]
      s == dirs[c]
  IN /\ pc[c] = "put_walk"
     /\ s # <<>>
     /\ \/ /\ Head(s) = "."
           /\ dirs' = [dirs EXCEPT ![c] = Tail(s)]
           /\ UNCHANGED <<lk, woken, pc, next, child>>
        \/ /\ Head(s) # "."
           /\ ~LookupFails(c)
           /\ LookupName(d, Head(s)) # NoInode
           /\ child' = [child EXCEPT ![c] = LookupName(d, Head(s))]
           /\ dirs' = [dirs EXCEPT ![c] = Tail(s)]
           /\ WriteLock(LookupName(d, Head(s)), c, "put_type")
     /\ UNCHANGED <<kind, ent, nlink, allocated, op, newIno, todo, listing,
                    xattr, changed, dirIno>>

\* "Mysterious error; just bail" (1270-1272) sets err but neither breaks
\* nor shortens dirs: the loop repeats the failing Lookup for ever with the
\* directory write-locked.
PutSpin(c) ==
  /\ pc[c] = "put_walk"
  /\ dirs[c] # <<>> /\ Head(dirs[c]) # "." /\ LookupFails(c)
  /\ pc' = [pc EXCEPT ![c] = "put_spin"]
  /\ UNCHANGED <<lk, woken, kind, ent, nlink, allocated, op, next, newIno, child,
                 todo, listing, xattr, changed, dirIno, dirs>>

\* GetType of the entry (1282-1333): a file ends the PUT with NotDir; a
\* symlink is read and unlocked and its target walked next, from the root
\* if absolute (the directory unlocked too); a directory becomes the one
\* held and its parent is unlocked.  The deferred function unlocks the
\* directory, then the entry.
PutType(c) ==
  LET d == dirIno[c]
      x == child[c]
  IN /\ pc[c] = "put_type"
     /\ CASE kind[x] \in {"file", "none"} ->
               Return(c, <<d, x>>) /\ UNCHANGED <<dirIno, dirs>>
          [] kind[x] = "symlink" ->
               /\ SetLocks(UnlockAll(lk, IF x \in Absolute THEN <<x, d>> ELSE <<x>>, c), c)
               /\ dirs' = [dirs EXCEPT ![c] = Target[x] \o @]
               /\ dirIno' = [dirIno EXCEPT ![c] = IF x \in Absolute THEN Root ELSE d]
               /\ pc' = [pc EXCEPT ![c] = IF x \in Absolute THEN "put_root" ELSE "put_walk"]
               /\ child' = [child EXCEPT ![c] = NoInode]
               /\ UNCHANGED <<op, next, newIno, todo, listing>>
          [] OTHER ->
               /\ SetLocks(Unlock(lk, d, c), c)
               /\ dirIno' = [dirIno EXCEPT ![c] = x]
               /\ child' = [child EXCEPT ![c] = NoInode]
               /\ pc' = [pc EXCEPT ![c] = "put_walk"]
               /\ UNCHANGED <<op, next, newIno, todo, listing, dirs>>
     /\ UNCHANGED <<kind, ent, nlink, allocated, xattr, changed>>

\* An absolute symlink: getWriteLock of the root under a new caller id.
PutRoot(c) ==
  /\ pc[c] = "put_root"
  /\ WriteLock(Root, c, "put_walk")
  /\ UNCHANGED <<kind, ent, nlink, allocated, op, newIno, child, todo, listing,
                 xattr, changed, dirIno, dirs>>

\* The walk is over (1339-1460): CreateFile, Wrote of the segments and
\* PutStream of the metadata; for each segment left a CreateDir with the
\* chain so far linked into it, the file first under the object's name;
\* with no segment left the Lookup of the object's name, whose entry is
\* the obstacle to write-lock; else the top of the chain is linked into
\* the directory.  No failure after CreateFile destroys what was made.
PutMake(c) ==
  LET d    == dirIno[c]
      s    == dirs[c]
      k    == Len(s)
      New  == [j \in 0..k |-> NewIds[allocated + 1 + j]]
      Made == {New[j] : j \in 1..k}
      \* the name New[j] is linked under: the object's, then the deepest segment first
      Name(j) == IF j = 0 THEN op[c].base ELSE s[k + 1 - j]
      chainEnt ==
        [i \in Inodes |->
           IF i \in Made
             THEN LET j == CHOOSE j \in 1..k : New[j] = i
                  IN [n \in Names |-> IF n = Name(j - 1) THEN New[j - 1] ELSE NoInode]
             ELSE ent[i]]
      chainLinks ==
        [i \in Inodes |-> CASE i = New[0] -> IF k > 0 THEN 1 ELSE 0
                            [] i \in Made -> IF i = New[k] THEN 1 ELSE 2
                            [] OTHER -> nlink[i]]
      obstacle == IF k = 0 /\ ~LookupFails(c) THEN LookupName(d, op[c].base) ELSE NoInode
      linked == Name(k) \in Names /\ CanLink(d, Name(k))
  IN /\ pc[c] = "put_walk"
     /\ WalkDone(c)
     /\ allocated + 1 + k <= Len(NewIds)
     /\ allocated' = allocated + 1 + k
     /\ kind' = [i \in Inodes |-> CASE i = New[0] -> "file"
                                    [] i \in Made -> "dir"
                                    [] OTHER -> kind[i]]
     /\ xattr' = [xattr EXCEPT ![New[0]] = {MiddlewareStream}]
     /\ changed' = [changed EXCEPT ![New[0]] = {"size"}]
     /\ IF obstacle # NoInode
          THEN /\ ent' = chainEnt /\ nlink' = chainLinks
               /\ newIno' = [newIno EXCEPT ![c] = New[0]]
               /\ child' = [child EXCEPT ![c] = obstacle]
               /\ WriteLock(obstacle, c, "put_obstacle")
               /\ UNCHANGED <<op, todo, listing>>
          ELSE /\ ent' = IF linked THEN [chainEnt EXCEPT ![d][Name(k)] = New[k]] ELSE chainEnt
               /\ nlink' = IF linked THEN [chainLinks EXCEPT ![New[k]] = @ + 1] ELSE chainLinks
               /\ Return(c, <<d>>)
     /\ UNCHANGED <<dirIno, dirs>>

\* removeObstacleToObjectPut (2620-2670): getstatHelper fails once the
\* obstacle is destroyed; a directory with an entry besides "." and ".."
\* fails with IsDir; a file, a symlink or an empty directory is unlinked.
ObstacleRemovable(x) == ~StatFails(x) /\ (kind[x] = "dir" => EmptyDir(x))

\* With the obstacle locked (1418-1460): remove it, then the final Link of
\* the file, which cannot fail: the directory is live and locked and the
\* name was just freed.  Destroy (1452) is called on the outer
\* obstacleInodeNumber, which the short declaration at 1405 shadowed and
\* which is still 0: no inode, so it fails and is only logged.  The
\* deferred unlocks run the obstacle's first.
PutObstacle(c) ==
  LET d == dirIno[c]
      x == child[c]
  IN /\ pc[c] = "put_obstacle"
     /\ IF ObstacleRemovable(x)
          THEN /\ ent' = [ent EXCEPT ![d][op[c].base] = newIno[c]]
               /\ nlink' = [nlink EXCEPT ![x] = @ - 1, ![newIno[c]] = @ + 1]
          ELSE UNCHANGED <<ent, nlink>>
     /\ Return(c, <<x, d>>)
     /\ UNCHANGED <<kind, allocated, xattr, changed, dirIno, dirs>>

PutStep(c) ==
  \/ PutLookup(c) \/ PutLockDir(c) \/ PutWalk(c) \/ PutSpin(c) \/ PutType(c)
  \/ PutRoot(c) \/ PutMake(c) \/ PutObstacle(c)

GwNext ==
  \/ Next /\ UNCHANGED <<dirIno, dirs>>
  \/ \E c \in Callers : (\E o \in Ops : PutStart(c, o)) \/ PutStep(c)

GwSpec == GwInit /\ [][GwNext]_gwVars

=============================================================================
