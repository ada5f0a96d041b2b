---------------------------- MODULE FsNamespace -----------------------------
(***************************************************************************)
(* The namespace operations of src/fs/api_internal.go run by concurrent    *)
(* callers: Create, Mkdir and Symlink (one create-then-link operation      *)
(* that differs only in the kind created), Link, Unlink, Rmdir, Rename and *)
(* the readdir calls, with the calls on one inode (Getstat, Write,        *)
(* Setstat, the XAttr calls, ...) contending for the same locks.           *)
(*                                                                         *)
(* Each operation locks the inodes it works on through the inode locks    *)
(* (InodeLock) and calls the inode collaborator (VolumeHandle) between its *)
(* lock calls.  The collaborator is not under src/: its calls are modelled *)
(* as the design (spec.md 3, 5) describes them, on the state kind, ent and *)
(* nlink.  A step of the model runs from one lock call to the next, since  *)
(* every collaborator call between them works on inodes the caller holds  *)
(* locked.                                                                 *)
(***************************************************************************)
EXTENDS Naturals, Sequences, FiniteSets, Relation

CONSTANTS Callers,     \* concurrent fs calls, each with its own caller id
          Inodes,      \* inode numbers, those allocated later included
          Root,        \* inode.RootDirInodeNumber
          NoInode,     \* no inode: an absent entry or no new inode
          Names,       \* basenames
          NameOrder,   \* the basenames in the order ReadDir lists them
          InitKind,    \* InitKind[i]: type of i at start, "none" if unallocated
          InitEnt,     \* InitEnt[d][n]: the directory entries at start
          NewIds,      \* the numbers Create/Mkdir/Symlink allocate, in order
          Denied,      \* inodes whose W_OK (W_OK|X_OK) Access check fails
          Streams,     \* xattr stream names
          Ops          \* the operations a caller may issue

ASSUME /\ Root \in Inodes /\ NoInode \notin Inodes /\ NewIds \in Seq(Inodes)
       /\ NameOrder \in Seq(Names) /\ {NameOrder[k] : k \in DOMAIN NameOrder} = Names

Kinds == {"file", "dir", "symlink"}

INSTANCE InodeLock

VARIABLES lk,        \* lk[i]: the lock of inode i
          woken,     \* woken[c]: c's queued request was granted
          kind,      \* kind[i]: the type of inode i, "none" if not alive
          ent,       \* ent[d][n]: the entry n of directory d
          nlink,     \* nlink[i]: the link count the collaborator keeps
          allocated, \* how many of NewIds have been allocated
          pc,        \* pc[c]: where caller c is
          op,        \* op[c]: the operation c runs
          next,      \* next[c]: where c goes when its lock request is granted
          newIno,    \* newIno[c]: the inode Create made, not yet linked
          child,     \* child[c]: basenameInodeNumber of Unlink / Rmdir
          todo,      \* todo[c]: the entries a readdir has still to lock or stat
          listing,   \* listing[c]: the entries readdir's helper returned
          xattr,     \* xattr[i]: the streams of inode i
          changed    \* changed[i]: the attribute groups calls have set on i

vars == <<lk, woken, kind, ent, nlink, allocated, pc, op, next, newIno, child, todo, listing,
          xattr, changed>>

Alive == {i \in Inodes : kind[i] # "none"}

-----------------------------------------------------------------------------
(* The collaborator's calls (VolumeHandle), as the design describes them. *)

\* Link(d, n, i) fails unless d is a directory without an entry n.
CanLink(d, n) == kind[d] = "dir" /\ ent[d][n] = NoInode

VLink(d, n, i) ==
  /\ ent' = [ent EXCEPT ![d][n] = i]
  /\ nlink' = [nlink EXCEPT ![i] = @ + 1]

\* Unlink(d, n): drop the entry and one link of the inode it names.
VUnlink(d, n) ==
  /\ ent' = [ent EXCEPT ![d][n] = NoInode]
  /\ nlink' = [nlink EXCEPT ![ent[d][n]] = @ - 1]

\* Destroy(i).
Destroyed(i) == [kind EXCEPT ![i] = "none"]

\* NumDirEntries(i) = 2: only "." and "..".
EmptyDir(i) == \A n \in Names : ent[i][n] = NoInode

\* The inodes reachable from S through entries of live directories.
RECURSIVE ReachFrom(_)
ReachFrom(S) ==
  LET S2 == S \cup ({ent[d][n] : d \in {e \in S : kind[e] = "dir"}, n \in Names} \ {NoInode})
  IN IF S2 = S THEN S ELSE ReachFrom(S2)

Reachable == ReachFrom({Root})

-----------------------------------------------------------------------------
(* Lock calls of caller c.                                                 *)

SetLocks(u, c) ==
  /\ lk' = u.locks
  /\ woken' = [d \in Callers |-> IF d = c THEN FALSE ELSE woken[d] \/ d \in u.granted]

\* A lock of inode i in mode m: go on to step s at once if granted, else wait.
LockAs(i, c, s, m) ==
  LET res == Acquire(lk, i, c, m)
  IN /\ SetLocks(res, c)
     /\ pc' = [pc EXCEPT ![c] = IF c \in res.granted THEN s ELSE "wait"]
     /\ next' = [next EXCEPT ![c] = s]

WriteLock(i, c, s) == LockAs(i, c, s, "exclusive")

ReadLock(i, c, s) == LockAs(i, c, s, "shared")

\* Return: run the deferred unlocks of the sequence s, and c is free again.
NoOp == [op |-> "none"]

Return(c, s) ==
  /\ SetLocks(UnlockAll(lk, s, c), c)
  /\ pc' = [pc EXCEPT ![c] = "idle"]
  /\ op' = [op EXCEPT ![c] = NoOp]
  /\ next' = [next EXCEPT ![c] = "idle"]
  /\ newIno' = [newIno EXCEPT ![c] = NoInode]
  /\ child' = [child EXCEPT ![c] = NoInode]
  /\ todo' = [todo EXCEPT ![c] = <<>>]
  /\ listing' = [listing EXCEPT ![c] = <<>>]

Init ==
  /\ lk = [i \in Inodes |-> FreeLock]
  /\ woken = [c \in Callers |-> FALSE]
  /\ kind = InitKind
  /\ ent = InitEnt
  /\ nlink = [i \in Inodes |->
                IF InitKind[i] = "none" THEN 0
                ELSE Cardinality({<<d, n>> \in Inodes \X Names : InitEnt[d][n] = i})
                       + (IF InitKind[i] = "dir" THEN 1 ELSE 0)]
  /\ allocated = 0
  /\ pc = [c \in Callers |-> "idle"]
  /\ op = [c \in Callers |-> NoOp]
  /\ next = [c \in Callers |-> "idle"]
  /\ newIno = [c \in Callers |-> NoInode]
  /\ child = [c \in Callers |-> NoInode]
  /\ todo = [c \in Callers |-> <<>>]
  /\ listing = [c \in Callers |-> <<>>]
  /\ xattr = [i \in Inodes |-> {}]
  /\ changed = [i \in Inodes |-> {}]

\* The inodes a call names are ones its client looked up, so reachable
\* when it is issued; they may be gone by the time it runs.
Handles(o) == {o[f] : f \in DOMAIN o \cap {"dir", "target", "sdir", "ddir", "ino"}}

Issue(c, o) ==
  /\ pc[c] = "idle"
  /\ Handles(o) \subseteq Reachable
  /\ op' = [op EXCEPT ![c] = o]

\* CreateFile, CreateDir or CreateSymlink makes the new inode (link count 0,
\* 1 for a directory's "."), then the directory is write-locked.
CreateStart(c, o) ==
  LET i == NewIds[allocated + 1] IN
  /\ Issue(c, o)
  /\ allocated < Len(NewIds)
  /\ allocated' = allocated + 1
  /\ kind' = [kind EXCEPT ![i] = o.kind]
  /\ nlink' = [nlink EXCEPT ![i] = IF o.kind = "dir" THEN 1 ELSE 0]
  /\ newIno' = [newIno EXCEPT ![c] = i]
  /\ WriteLock(o.dir, c, "create_link")
  /\ UNCHANGED <<ent, child, todo, listing>>

Create(c, o) == o.op = "create" /\ o.kind = "file" /\ CreateStart(c, o)

Mkdir(c, o) == o.op = "create" /\ o.kind = "dir" /\ CreateStart(c, o)

Symlink(c, o) == o.op = "create" /\ o.kind = "symlink" /\ CreateStart(c, o)

\* The calls that lock an existing directory first, under one caller id.
LockFirst(c, o, i, s, m) ==
  /\ Issue(c, o)
  /\ LockAs(i, c, s, m)
  /\ UNCHANGED <<kind, ent, nlink, allocated, newIno, child, todo, listing>>

Link(c, o) == o.op = "link" /\ LockFirst(c, o, o.dir, "link_target", "exclusive")

Unlink(c, o) == o.op = "unlink" /\ LockFirst(c, o, o.dir, "lookup", "exclusive")

Rmdir(c, o) == o.op = "rmdir" /\ LockFirst(c, o, o.dir, "lookup", "exclusive")

Rename(c, o) == o.op = "rename" /\ LockFirst(c, o, o.sdir, "rename_src", "exclusive")

\* Cond.Wait in commonLock returns once the request is granted.
Woke(c) ==
  /\ pc[c] = "wait"
  /\ woken[c]
  /\ woken' = [woken EXCEPT ![c] = FALSE]
  /\ pc' = [pc EXCEPT ![c] = next[c]]
  /\ UNCHANGED <<lk, kind, ent, nlink, allocated, op, next, newIno, child, todo, listing>>

\* Create/Mkdir/Symlink after the directory lock: F_OK, W_OK|X_OK, then
\* Link; a failure of any destroys the new inode (Create 124-150).
CreateLink(c) ==
  LET d == op[c].dir
      i == newIno[c]
  IN /\ pc[c] = "create_link"
     /\ IF d \in Alive /\ d \notin Denied /\ CanLink(d, op[c].name)
          THEN VLink(d, op[c].name, i) /\ UNCHANGED kind
          ELSE kind' = Destroyed(i) /\ UNCHANGED <<ent, nlink>>
     /\ Return(c, <<d>>)
     /\ UNCHANGED allocated

\* Link: the target is write-locked under the same caller id (509-513).
LinkTarget(c) ==
  /\ pc[c] = "link_target"
  /\ WriteLock(op[c].target, c, "link_check")
  /\ UNCHANGED <<kind, ent, nlink, allocated, op, newIno, child, todo, listing>>

\* Link's checks with both locks held (515-546): GetType of the target
\* (no directories), F_OK of both, W_OK|X_OK of the directory, W_OK of the
\* target, then the collaborator's Link.
LinkAllowed(c) ==
  LET t == op[c].target IN
  /\ t \in Alive
  /\ kind[t] # "dir"
  /\ op[c].dir \in Alive
  /\ op[c].dir \notin Denied
  /\ t \notin Denied

LinkCheck(c) ==
  LET d == op[c].dir IN
  /\ pc[c] = "link_check"
  /\ IF LinkAllowed(c) /\ CanLink(d, op[c].name)
       THEN VLink(d, op[c].name, op[c].target)
       ELSE UNCHANGED <<ent, nlink>>
  /\ Return(c, <<op[c].target, d>>)
  /\ UNCHANGED <<kind, allocated>>

\* Unlink and Rmdir with the directory locked: F_OK, W_OK|X_OK, Lookup,
\* then write-lock the entry under the same caller id (Unlink 2314-2335,
\* Rmdir 1983-2004).
\* The not-found return without its deferred unlock (a mutant).
LookupChildNoUnlock(c) ==
  LET d == op[c].dir
      x == IF kind[d] = "dir" THEN ent[d][op[c].name] ELSE NoInode
  IN /\ pc[c] = "lookup"
     /\ IF d \notin Alive \/ d \in Denied \/ x = NoInode
          THEN Return(c, <<>>)
          ELSE /\ child' = [child EXCEPT ![c] = x]
               /\ WriteLock(x, c, "remove")
               /\ UNCHANGED <<op, newIno, todo, listing>>
     /\ UNCHANGED <<kind, ent, nlink, allocated>>

LookupChild(c) ==
  LET d == op[c].dir
      x == IF kind[d] = "dir" THEN ent[d][op[c].name] ELSE NoInode
  IN /\ pc[c] = "lookup"
     /\ IF d \notin Alive \/ d \in Denied \/ x = NoInode
          THEN Return(c, <<d>>)
          ELSE /\ child' = [child EXCEPT ![c] = x]
               /\ WriteLock(x, c, "remove")
               /\ UNCHANGED <<op, newIno, todo, listing>>
     /\ UNCHANGED <<kind, ent, nlink, allocated>>

\* Unlink with both locks (2337-2367): no directories; the collaborator's
\* Unlink, then Destroy once GetLinkCount is zero.
\* Unlink without its IsDir check (a mutant).
UnlinkRemoveAnyType(c, x) ==
  /\ VUnlink(op[c].dir, op[c].name)
  /\ kind' = IF nlink[x] - 1 = 0 THEN Destroyed(x) ELSE kind

UnlinkRemove(c, x) ==
  IF kind[x] = "dir"
    THEN UNCHANGED <<kind, ent, nlink>>
    ELSE /\ VUnlink(op[c].dir, op[c].name)
         /\ kind' = IF nlink[x] - 1 = 0 THEN Destroyed(x) ELSE kind

\* Rmdir with both locks (2006-2040): only an empty directory ("." and
\* ".." alone) is unlinked and destroyed.
RmdirRemove(c, x) ==
  IF kind[x] # "dir" \/ ~EmptyDir(x)
    THEN UNCHANGED <<kind, ent, nlink>>
    ELSE VUnlink(op[c].dir, op[c].name) /\ kind' = Destroyed(x)

\* Remove returning with the directory still locked (a mutant).
RemoveKeepDir(c) ==
  LET x == child[c] IN
  /\ pc[c] = "remove"
  /\ IF op[c].op = "unlink" THEN UnlinkRemove(c, x) ELSE RmdirRemove(c, x)
  /\ Return(c, <<x>>)
  /\ UNCHANGED allocated

Remove(c) ==
  LET x == child[c] IN
  /\ pc[c] = "remove"
  /\ IF op[c].op = "unlink" THEN UnlinkRemove(c, x) ELSE RmdirRemove(c, x)
  /\ Return(c, <<x, op[c].dir>>)
  /\ UNCHANGED allocated

\* The collaborator's Move(sd, sn, dd, dn).  Its behaviour when dn is
\* taken is not in src/ nor in the design; the model lets it fail then.
CanMove(o) ==
  /\ kind[o.sdir] = "dir" /\ kind[o.ddir] = "dir"
  /\ ent[o.sdir][o.sname] # NoInode
  /\ ent[o.ddir][o.dname] = NoInode

VMove(o) ==
  ent' = [ent EXCEPT ![o.sdir][o.sname] = NoInode,
                     ![o.ddir][o.dname] = ent[o.sdir][o.sname]]

\* Rename with the source directory locked (1653-1673): F_OK and W_OK|X_OK
\* return at once, the source lock still held; with two directories the
\* destination is try-write-locked, and on TryAgain the source lock is
\* dropped and the whole is retried.
\* Rename taking the destination lock with a blocking WriteLock (a mutant).
RenameSrcBlocking(c) ==
  LET o == op[c] IN
  /\ pc[c] = "rename_src"
  /\ CASE o.sdir \notin Alive \/ o.sdir \in Denied ->
            Return(c, <<>>)
       [] o.sdir = o.ddir ->
            /\ pc' = [pc EXCEPT ![c] = "rename_move"]
            /\ UNCHANGED <<lk, woken, op, next, newIno, child, todo, listing>>
       [] OTHER ->
            /\ WriteLock(o.ddir, c, "rename_move")
            /\ UNCHANGED <<op, newIno, child, todo, listing>>
  /\ UNCHANGED <<kind, ent, nlink, allocated>>

RenameSrc(c) ==
  LET o == op[c] IN
  /\ pc[c] = "rename_src"
  /\ CASE o.sdir \notin Alive \/ o.sdir \in Denied ->
            Return(c, <<>>)
       [] o.sdir = o.ddir ->
            /\ pc' = [pc EXCEPT ![c] = "rename_move"]
            /\ UNCHANGED <<lk, woken, op, next, newIno, child, todo, listing>>
       [] TryBusy(lk[o.ddir], "exclusive") ->
            /\ SetLocks(Unlock(lk, o.sdir, c), c)
            /\ pc' = [pc EXCEPT ![c] = "rename_retry"]
            /\ UNCHANGED <<op, next, newIno, child, todo, listing>>
       [] OTHER ->
            /\ SetLocks(Acquire(lk, o.ddir, c, "exclusive"), c)
            /\ pc' = [pc EXCEPT ![c] = "rename_move"]
            /\ UNCHANGED <<op, next, newIno, child, todo, listing>>
  /\ UNCHANGED <<kind, ent, nlink, allocated>>

\* goto retryLock: write-lock the source directory again.
RenameRetry(c) ==
  /\ pc[c] = "rename_retry"
  /\ WriteLock(op[c].sdir, c, "rename_src")
  /\ UNCHANGED <<kind, ent, nlink, allocated, op, newIno, child, todo, listing>>

\* The destination's F_OK and W_OK|X_OK (1675-1684) unlock only the
\* source; then Move and both unlocks (1687-1696).
\* Both unlocks even when the directories are the same (a mutant).
RenameMoveUnlockBoth(c) ==
  LET o == op[c] IN
  /\ pc[c] = "rename_move"
  /\ IF o.sdir # o.ddir /\ (o.ddir \notin Alive \/ o.ddir \in Denied)
       THEN Return(c, <<o.sdir>>) /\ UNCHANGED ent
       ELSE /\ IF CanMove(o) THEN VMove(o) ELSE UNCHANGED ent
            /\ Return(c, <<o.ddir, o.sdir>>)
  /\ UNCHANGED <<kind, nlink, allocated>>

RenameMove(c) ==
  LET o == op[c] IN
  /\ pc[c] = "rename_move"
  /\ IF o.sdir # o.ddir /\ (o.ddir \notin Alive \/ o.ddir \in Denied)
       THEN Return(c, <<o.sdir>>) /\ UNCHANGED ent
       ELSE /\ IF CanMove(o) THEN VMove(o) ELSE UNCHANGED ent
            /\ Return(c, IF o.sdir = o.ddir THEN <<o.sdir>> ELSE <<o.ddir, o.sdir>>)
  /\ UNCHANGED <<kind, nlink, allocated>>

-----------------------------------------------------------------------------
(* Readdir, ReaddirOne, ReaddirPlus and ReaddirOnePlus (1747-1919) with    *)
(* readdirHelper and readdirOneHelper (2731-2806).  The directory is       *)
(* read-locked; the helper read-locks each entry but "." under the same    *)
(* caller id while it holds the directory; the Plus calls then unlock the  *)
(* directory and read-lock each entry again, "." included, to stat it.    *)

\* The ".." entry: the directory naming d, the root's own for the root.
Parent(d) ==
  IF d = Root THEN <<Root>>
  ELSE LET P == {p \in Alive : kind[p] = "dir" /\ \E n \in Names : ent[p][n] = d}
       IN IF P = {} THEN <<>> ELSE <<CHOOSE p \in P : TRUE>>

\* ReadDir: ".", "..", then the entries in name order.
Listing(d) ==
  <<d>> \o Parent(d)
        \o SelectSeq([k \in DOMAIN NameOrder |-> ent[d][NameOrder[k]]], LAMBDA i : i # NoInode)

\* The entries a call reads: all of them, or the one at location o.loc;
\* past the last one readdirOneHelper's ReadDir fails with NotFound.
Listed(o) ==
  LET L == Listing(o.dir) IN
  IF o.loc = 0 THEN L ELSE IF o.loc <= Len(L) THEN <<L[o.loc]>> ELSE <<>>

ReaddirStart(c, o) == LockFirst(c, o, o.dir, "rd_check", "shared")

Readdir(c, o) == o.op = "readdir" /\ o.loc = 0 /\ ~o.plus /\ ReaddirStart(c, o)

ReaddirOne(c, o) == o.op = "readdir" /\ o.loc > 0 /\ ~o.plus /\ ReaddirStart(c, o)

ReaddirPlus(c, o) == o.op = "readdir" /\ o.loc = 0 /\ o.plus /\ ReaddirStart(c, o)

ReaddirOnePlus(c, o) == o.op = "readdir" /\ o.loc > 0 /\ o.plus /\ ReaddirStart(c, o)

\* F_OK and X_OK with the directory read-locked.  Readdir and ReaddirOne
\* return through their deferred unlock; ReaddirPlus and ReaddirOnePlus
\* have none and return holding it (1815-1824, 1869-1876).  Otherwise the
\* helper lists the entries and is to lock those other than ".".
RdCheck(c) ==
  LET d == op[c].dir IN
  /\ pc[c] = "rd_check"
  /\ IF d \notin Alive \/ d \in Denied
       THEN Return(c, IF op[c].plus THEN <<>> ELSE <<d>>)
       ELSE /\ listing' = [listing EXCEPT ![c] = Listed(op[c])]
            /\ todo' = [todo EXCEPT ![c] = SelectSeq(Listed(op[c]), LAMBDA i : i # d)]
            /\ pc' = [pc EXCEPT ![c] = "rd_entry"]
            /\ UNCHANGED <<lk, woken, op, next, newIno, child>>
  /\ UNCHANGED <<kind, ent, nlink, allocated>>

\* The helper's loop: ReadLock the next entry under the caller's id.
RdEntry(c) ==
  /\ pc[c] = "rd_entry"
  /\ todo[c] # <<>>
  /\ ReadLock(Head(todo[c]), c, "rd_type")
  /\ UNCHANGED <<kind, ent, nlink, allocated, op, newIno, child, todo, listing>>

\* getTypeHelper, then the entry's Unlock.
RdType(c) ==
  /\ pc[c] = "rd_type"
  /\ SetLocks(Unlock(lk, Head(todo[c]), c), c)
  /\ todo' = [todo EXCEPT ![c] = Tail(@)]
  /\ pc' = [pc EXCEPT ![c] = "rd_entry"]
  /\ UNCHANGED <<kind, ent, nlink, allocated, op, next, newIno, child, listing>>

\* The helper returns: Readdir and ReaddirOne unlock the directory and
\* return; the Plus calls unlock it and stat every entry listed, unless
\* readdirOneHelper found none (1827-1831, 1880-1889).
RdEnd(c) ==
  LET L == listing[c] IN
  /\ pc[c] = "rd_entry"
  /\ todo[c] = <<>>
  /\ IF op[c].plus /\ L # <<>>
       THEN /\ SetLocks(Unlock(lk, op[c].dir, c), c)
            /\ todo' = [todo EXCEPT ![c] = L]
            /\ pc' = [pc EXCEPT ![c] = "st_entry"]
            /\ UNCHANGED <<op, next, newIno, child, listing>>
       ELSE Return(c, <<op[c].dir>>)
  /\ UNCHANGED <<kind, ent, nlink, allocated>>

\* The stat loop: ReadLock the entry under a new caller id.
StEntry(c) ==
  /\ pc[c] = "st_entry"
  /\ todo[c] # <<>>
  /\ ReadLock(Head(todo[c]), c, "st_stat")
  /\ UNCHANGED <<kind, ent, nlink, allocated, op, newIno, child, todo, listing>>

\* getstatHelper fails once the entry is destroyed (GetMetadata).
StatFails(i) == i \notin Alive

\* getstatHelper, the entry's Unlock, and a return on its error.
StStat(c) ==
  LET i == Head(todo[c]) IN
  /\ pc[c] = "st_stat"
  /\ IF StatFails(i) \/ Tail(todo[c]) = <<>>
       THEN Return(c, <<i>>)
       ELSE /\ SetLocks(Unlock(lk, i, c), c)
            /\ todo' = [todo EXCEPT ![c] = Tail(@)]
            /\ pc' = [pc EXCEPT ![c] = "st_entry"]
            /\ UNCHANGED <<op, next, newIno, child, listing>>
  /\ UNCHANGED <<kind, ent, nlink, allocated>>

-----------------------------------------------------------------------------
(* The calls on one existing inode.  Each locks the inode under a new      *)
(* caller id, read-locking to observe it and write-locking to change it,   *)
(* makes its Access checks, calls the collaborator and returns through its *)
(* deferred unlock.  What they change is abstracted to xattr, the streams  *)
(* of each inode, and changed, the groups of attributes calls have set.    *)

\* The collaborator's Access (mountStruct.Access passes it on): every mask
\* fails for a destroyed inode; a mask beyond F_OK fails for a denied one.
Access(i, m) == i \in Alive /\ (m = "F_OK" \/ i \notin Denied)

\* Per call, the lock it takes and the Access masks it checks.
GetstatCall     == [lock |-> "shared", checks |-> {}]
GetTypeCall     == [lock |-> "shared", checks |-> {}]
IsDirCall       == [lock |-> "shared", checks |-> {}]
IsFileCall      == [lock |-> "shared", checks |-> {}]
IsSymlinkCall   == [lock |-> "shared", checks |-> {}]
GetXAttrCall    == [lock |-> "shared", checks |-> {"F_OK", "R_OK"}]
ListXAttrCall   == [lock |-> "shared", checks |-> {"F_OK", "R_OK"}]
LookupCall      == [lock |-> "shared", checks |-> {"F_OK", "X_OK"}]
ReadCall        == [lock |-> "shared", checks |-> {"F_OK", "R_OK"}]
ReadsymlinkCall == [lock |-> "shared", checks |-> {"F_OK", "R_OK"}]
FlushCall       == [lock |-> "exclusive", checks |-> {"F_OK", "W_OK"}]
ResizeCall      == [lock |-> "exclusive", checks |-> {"F_OK", "W_OK"}]
WriteCall       == [lock |-> "exclusive", checks |-> {"F_OK", "W_OK"}]
SetstatCall     == [lock |-> "exclusive", checks |-> {"P_OK"}]
SetXAttrCall    == [lock |-> "exclusive", checks |-> {"F_OK", "W_OK"}]
RemoveXAttrCall == [lock |-> "exclusive", checks |-> {"F_OK", "W_OK"}]

InodeCall ==
  [getstat |-> GetstatCall, gettype |-> GetTypeCall, isdir |-> IsDirCall,
   isfile |-> IsFileCall, issymlink |-> IsSymlinkCall, getxattr |-> GetXAttrCall,
   listxattr |-> ListXAttrCall, lookup |-> LookupCall, read |-> ReadCall,
   readsymlink |-> ReadsymlinkCall, flush |-> FlushCall, resize |-> ResizeCall,
   write |-> WriteCall, setstat |-> SetstatCall, setxattr |-> SetXAttrCall,
   removexattr |-> RemoveXAttrCall]

\* The calls that change nothing the model keeps: the readers, and Flush,
\* which writes back what the inode already holds.
Observers == {"getstat", "gettype", "isdir", "isfile", "issymlink", "getxattr",
              "listxattr", "lookup", "read", "readsymlink", "flush"}

\* Every Access check of c's call passes.
Allowed(c) == \A m \in InodeCall[op[c].op].checks : Access(op[c].ino, m)

LockInode(c, o) ==
  /\ o.op \in DOMAIN InodeCall
  /\ LockFirst(c, o, o.ino, "inode_call", InodeCall[o.op].lock)
  /\ UNCHANGED <<xattr, changed>>

InodeReturn(c) ==
  /\ Return(c, <<op[c].ino>>)
  /\ UNCHANGED <<kind, ent, nlink, allocated>>

Observe(c) ==
  /\ pc[c] = "inode_call"
  /\ op[c].op \in Observers
  /\ InodeReturn(c)
  /\ UNCHANGED <<xattr, changed>>

\* Set the attribute groups G of c's inode.
SetAttrs(c, G) == changed' = [changed EXCEPT ![op[c].ino] = @ \cup G]

\* Write and Resize change the data and the size once F_OK and W_OK pass.
\* Write without its F_OK check (a mutant).
WriteDataNoExistCheck(c) ==
  /\ pc[c] = "inode_call"
  /\ op[c].op \in {"write", "resize"}
  /\ IF op[c].ino \notin Denied THEN SetAttrs(c, {"size"}) ELSE UNCHANGED changed
  /\ InodeReturn(c)
  /\ UNCHANGED xattr

WriteData(c) ==
  /\ pc[c] = "inode_call"
  /\ op[c].op \in {"write", "resize"}
  /\ IF Allowed(c) THEN SetAttrs(c, {"size"}) ELSE UNCHANGED changed
  /\ InodeReturn(c)
  /\ UNCHANGED xattr

\* Setstat sets the groups present in o.set in the code's order: the four
\* times and the size; the owner ids, unless one is out of range; the
\* mode, unless it is out of range.  A range error returns after the
\* groups before it were set.
SetstatApplied(o) ==
  CASE "owner" \in o.set /\ "owner" \in o.big -> o.set \cap {"times", "size"}
    [] "mode" \in o.set /\ "mode" \in o.big   -> o.set \cap {"times", "size", "owner"}
    [] OTHER                                  -> o.set

Setstat(c) ==
  /\ pc[c] = "inode_call"
  /\ op[c].op = "setstat"
  /\ IF Allowed(c) THEN SetAttrs(c, SetstatApplied(op[c])) ELSE UNCHANGED changed
  /\ InodeReturn(c)
  /\ UNCHANGED xattr

\* SetXAttr: flags 0 puts the stream; CREATE and REPLACE first call
\* GetXAttr, whose ReadLock under a new caller id queues behind the write
\* lock this call holds; other flags are invalid.  The nested request is
\* the same goroutine's, so it is queued under c.
SetXAttr(c) ==
  LET o == op[c] IN
  /\ pc[c] = "inode_call"
  /\ o.op = "setxattr"
  /\ CASE ~Allowed(c) \/ o.flags \notin {0, 1, 2} ->
            InodeReturn(c) /\ UNCHANGED xattr
       [] o.flags = 0 ->
            /\ xattr' = [xattr EXCEPT ![o.ino] = @ \cup {o.stream}]
            /\ InodeReturn(c)
       [] OTHER ->
            /\ ReadLock(o.ino, c, "xattr_put")
            /\ UNCHANGED <<kind, ent, nlink, allocated, op, newIno, child, todo, listing, xattr>>
  /\ UNCHANGED changed

\* RemoveXAttr: DeleteStream once F_OK and W_OK pass.
RemoveXAttr(c) ==
  LET o == op[c] IN
  /\ pc[c] = "inode_call"
  /\ o.op = "removexattr"
  /\ xattr' = IF Allowed(c) THEN [xattr EXCEPT ![o.ino] = @ \ {o.stream}] ELSE xattr
  /\ InodeReturn(c)
  /\ UNCHANGED changed


\* The steps of a call in progress; at most one is enabled at a time.
Step(c) ==
  /\ \/ Woke(c) \/ CreateLink(c) \/ LinkTarget(c) \/ LinkCheck(c)
     \/ LookupChild(c) \/ Remove(c) \/ RenameSrc(c) \/ RenameRetry(c)
     \/ RenameMove(c) \/ RdCheck(c) \/ RdEntry(c) \/ RdType(c) \/ RdEnd(c)
     \/ StEntry(c) \/ StStat(c)
  /\ UNCHANGED <<xattr, changed>>

InodeStep(c) ==
  \/ Observe(c) \/ WriteData(c) \/ Setstat(c) \/ SetXAttr(c) \/ RemoveXAttr(c)

Next ==
  \E c \in Callers :
    \/ /\ \E o \in Ops : \/ Create(c, o) \/ Mkdir(c, o) \/ Symlink(c, o)
                        \/ Link(c, o) \/ Unlink(c, o) \/ Rmdir(c, o) \/ Rename(c, o)
                        \/ Readdir(c, o) \/ ReaddirOne(c, o)
                        \/ ReaddirPlus(c, o) \/ ReaddirOnePlus(c, o)
       /\ UNCHANGED <<xattr, changed>>
    \/ \E o \in Ops : LockInode(c, o)
    \/ Step(c)
    \/ InodeStep(c)

Spec == Init /\ [][Next]_vars

\* Every call runs on its own goroutine and keeps running while it can; a
\* granted Cond.Wait returns.  Issuing a call is not fair.
FairSpec == Spec /\ \A c \in Callers : WF_vars(Step(c) \/ InodeStep(c))

-----------------------------------------------------------------------------
(* Properties                                                              *)

Phases == {"idle", "wait", "create_link", "link_target", "link_check", "lookup",
           "remove", "rename_src", "rename_retry", "rename_move",
           "rd_check", "rd_entry", "rd_type", "st_entry", "st_stat", "inode_call"}

TypeOK ==
  /\ lk \in [Inodes -> LockRec]
  /\ woken \in [Callers -> BOOLEAN]
  /\ kind \in [Inodes -> Kinds \cup {"none"}]
  /\ ent \in [Inodes -> [Names -> Inodes \cup {NoInode}]]
  /\ nlink \in [Inodes -> Nat]
  /\ allocated \in 0..Len(NewIds)
  /\ pc \in [Callers -> Phases]
  /\ op \in [Callers -> Ops \cup {NoOp}]
  /\ newIno \in [Callers -> Inodes \cup {NoInode}]
  /\ child \in [Callers -> Inodes \cup {NoInode}]
  /\ todo \in [Callers -> Seq(Inodes)]
  /\ listing \in [Callers -> Seq(Inodes)]
  /\ xattr \in [Inodes -> SUBSET Streams]
  /\ changed \in [Inodes -> SUBSET {"times", "size", "owner", "mode"}]


\* No orphan and no dangling entry (spec.md 3, 7; the Create race of 8):
\* every live inode is reachable from the root unless it is the new inode
\* of a create that has not linked it yet, and no entry of a live
\* directory names a destroyed inode.  Unlink's destroy at link count
\* zero, Rmdir's emptiness check and the destroy on every failed create
\* are what keep it.
NamespaceConnected ==
  /\ \A i \in Alive : i \in Reachable \/ \E c \in Callers : newIno[c] = i
  /\ \A d \in Alive, n \in Names : kind[d] = "dir" /\ ent[d][n] # NoInode => ent[d][n] \in Alive

\* A call that has returned, or a Rename between its retries, holds no
\* inode lock: every path out of every operation unlocks what it locked.
NoLeakedLocks ==
  \A c \in Callers, i \in Inodes :
    pc[c] \in {"idle", "rename_retry"} => lk[i].owners[c] = 0

\* No caller waits, directly or through others, for itself.
NoWaitCycle ==
  LET tc == TransitiveClosure(WaitsOn(lk, Inodes), Callers) IN
  \A c \in Callers : ~tc[c, c]

\* Every Create, Mkdir, Symlink, Link, Unlink, Rmdir and readdir that
\* starts returns: the FIFO inode locks starve none of them.  Rename is
\* left out: its TryWriteLock has no place in the queue, and a rename whose
\* destination is held at each try retries forever (1670).
OpCompletes ==
  \A c \in Callers : (pc[c] # "idle" /\ op[c].op # "rename") ~> pc[c] = "idle"

\* A destroyed inode is never changed again.  A Write, Resize, Setstat,
\* SetXAttr or RemoveXAttr queued on the lock of an inode that Unlink or
\* Rmdir destroys while holding it runs once the lock is granted, and only
\* its F_OK (Setstat: P_OK) check after the lock keeps it from changing
\* the dead inode.
NoChangeAfterDestroy ==
  [][\A i \in Inodes : kind[i] = "none" => xattr'[i] = xattr[i] /\ changed'[i] = changed[i]]_vars

=============================================================================
