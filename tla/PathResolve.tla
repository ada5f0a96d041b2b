---------------------------- MODULE PathResolve -----------------------------
(***************************************************************************)
(* resolvePath of src/fs/api_internal.go 2477-2609, run by several callers *)
(* at once over one fixed namespace.                                       *)
(*                                                                         *)
(* The walk locks the root, then for each segment looks the entry up in    *)
(* the current directory and locks it while still holding the directory   *)
(* (lock coupling); a directory becomes the new current directory and the *)
(* old one is unlocked; a symlink is unlocked and its target's segments    *)
(* are pushed, after re-locking the root for an absolute target; the last *)
(* segment is returned with its lock held.  getLock is ensureReadLock or   *)
(* ensureWriteLock (resolvePathForRead / ForWrite, 2469-2475), which are   *)
(* not in src/: for a lock the caller does not hold they queue a read or   *)
(* write request.  The nil checks of 2499-2507, 2547 and 2560 suggest they *)
(* return no lock for one it already holds; that case is not modelled, and *)
(* the MC paths never ask for a lock their resolver holds.                 *)
(*                                                                         *)
(* Inode locks are the local lock manager's: a FIFO reader/writer lock     *)
(* whose grant pass is processLocalQ (modelled in full, with its threads,  *)
(* in LLM).                                                                *)
(***************************************************************************)
EXTENDS Naturals, Sequences, FiniteSets, Relation

CONSTANTS Callers,     \* concurrent resolvePath calls
          Inodes,      \* inode numbers of the namespace
          Root,        \* inode.RootDirInodeNumber
          NoInode,     \* Lookup found nothing
          Names,       \* path segments, "." and ".." among them
          Entries,     \* Entries[d][n]: Lookup(d, n), NoInode if absent
          Kind,        \* Kind[i]: GetType(i): "dir", "file" or "symlink"
          Target,      \* Target[i]: GetSymlink(i) split into segments
          Absolute,    \* Absolute[i]: the target starts with "/"
          Paths,       \* paths the callers resolve, split into segments
          MaxSymlinks  \* the follow budget (40 in the code)

ASSUME Root \in Inodes /\ NoInode \notin Inodes /\ MaxSymlinks \in Nat

Errors == {"NotFound", "NotDir", "TooManySymlinks"}

VARIABLES lk,        \* lk[i]: the lock of inode i
          pc,        \* pc[c]: where caller c is
          mode,      \* mode[c]: the getLock of c's resolvePath
          path,      \* path[c]: the path c resolves
          segs,      \* segs[c]: pathSegments, next segment first
          dir,       \* dir[c]: dirInodeNumber
          cursor,    \* cursor[c]: cursorInodeNumber
          follows,   \* follows[c]: followsRemaining
          next,      \* next[c]: where c goes when its lock request is granted
          woken,     \* woken[c]: c's queued request was granted
          result     \* result[c]: the inode or error resolvePath returned

vars == <<lk, pc, mode, path, segs, dir, cursor, follows, next, woken, result>>

INSTANCE InodeLock

-----------------------------------------------------------------------------
\* Apply a lock change made by c, whose own pc and next are set by the caller.
SetLocks(u, c) ==
  /\ lk' = u.locks
  /\ woken' = [d \in Callers |-> IF d = c THEN FALSE ELSE woken[d] \/ d \in u.granted]

\* getLock(i) by c, for an inode c does not hold: queue the request and
\* run the grant pass; go on to step s at once if granted, else wait.
GetLock(i, c, s) ==
  LET res == Acquire(lk, i, c, mode[c])
  IN /\ SetLocks(res, c)
     /\ pc' = [pc EXCEPT ![c] = IF c \in res.granted THEN s ELSE "wait"]
     /\ next' = [next EXCEPT ![c] = s]

\* The locks c holds once resolvePath has returned and run its defers.
\* dirInodeLock and cursorInodeLock are released by the deferred cleanups
\* unless they were handed to the caller.
Return(c, res, unlocks) ==
  /\ SetLocks(UnlockAll(lk, unlocks, c), c)
  /\ result' = [result EXCEPT ![c] = res]
  /\ pc' = [pc EXCEPT ![c] = "returned"]

-----------------------------------------------------------------------------
Init ==
  /\ lk = [i \in Inodes |-> FreeLock]
  /\ pc = [c \in Callers |-> "idle"]
  /\ mode = [c \in Callers |-> "shared"]
  /\ path = [c \in Callers |-> <<>>]
  /\ segs = [c \in Callers |-> <<>>]
  /\ dir = [c \in Callers |-> Root]
  /\ cursor = [c \in Callers |-> NoInode]
  /\ follows = [c \in Callers |-> MaxSymlinks]
  /\ next = [c \in Callers |-> "walk"]
  /\ woken = [c \in Callers |-> FALSE]
  /\ result = [c \in Callers |-> NoInode]

\* resolvePath 2484-2495: split the path, set the follow budget, and lock
\* the root as the first directory.
Start(c, p, m) ==
  /\ pc[c] = "idle"
  /\ mode' = [mode EXCEPT ![c] = m]
  /\ path' = [path EXCEPT ![c] = p]
  /\ segs' = [segs EXCEPT ![c] = p]
  /\ follows' = [follows EXCEPT ![c] = MaxSymlinks]
  /\ dir' = [dir EXCEPT ![c] = Root]
  /\ GetLock(Root, c, "walk")
  /\ UNCHANGED <<cursor, result>>

\* Cond.Wait in commonLock returns once the request is granted.
Woke(c) ==
  /\ pc[c] = "wait"
  /\ woken[c]
  /\ woken' = [woken EXCEPT ![c] = FALSE]
  /\ pc' = [pc EXCEPT ![c] = next[c]]
  /\ UNCHANGED <<lk, mode, path, segs, dir, cursor, follows, next, result>>

\* resolvePath 2509-2530: take the next segment; skip "."; look it up in
\* the directory (NotFound returns) and lock what was found while the
\* directory stays locked.  With no segment left the directory itself is
\* returned (the path "/", 2598-2608).
Walk(c) ==
  /\ pc[c] = "walk"
  /\ IF segs[c] = <<>>
     THEN /\ Return(c, dir[c], <<>>)
          /\ UNCHANGED <<segs, cursor, next>>
     ELSE LET seg == Head(segs[c])
              x == Entries[dir[c]][seg]
          IN /\ segs' = [segs EXCEPT ![c] = Tail(@)]
             /\ CASE seg = "." -> UNCHANGED <<lk, pc, cursor, next, woken, result>>
                  [] x = NoInode ->
                       /\ Return(c, "NotFound", <<dir[c]>>)
                       /\ UNCHANGED <<cursor, next>>
                  [] OTHER ->
                       /\ cursor' = [cursor EXCEPT ![c] = x]
                       /\ GetLock(x, c, "typed")
                       /\ UNCHANGED result
  /\ UNCHANGED <<mode, path, dir, follows>>

\* followsRemaining == 0 (resolvePath 2537): no symlink may be followed.
OutOfFollowsLate(c) == follows[c] <= 1
OutOfFollowsNever(c) == FALSE
OutOfFollows(c) == follows[c] = 0

\* The locks let go of after reading symlink x (resolvePath 2546-2564):
\* the symlink, and the directory too when the target is absolute.
SymlinkReleaseKeepDir(c, x) == <<x>>
SymlinkReleaseKeepLink(c, x) == IF Absolute[x] THEN <<dir[c]>> ELSE <<>>
SymlinkRelease(c, x) == IF Absolute[x] THEN <<x, dir[c]>> ELSE <<x>>

\* resolvePath 2533-2593, with cursor locked: a symlink spends one follow
\* (TooManySymlinks when none is left), is unlocked and its target's
\* segments are pushed; an absolute target also unlocks the directory and
\* restarts from the root.  Any other inode is returned when it was the
\* last segment, is NotDir when it is a file, and otherwise becomes the
\* directory, the old directory being unlocked.  Errors return through the
\* deferred cleanups, which unlock cursor and then the directory.
Typed(c) ==
  LET x == cursor[c] IN
  /\ pc[c] = "typed"
  /\ CASE Kind[x] = "symlink" /\ OutOfFollows(c) ->
            /\ Return(c, "TooManySymlinks", <<x, dir[c]>>)
            /\ UNCHANGED <<segs, dir, follows, next>>
       [] Kind[x] = "symlink" ->
            /\ follows' = [follows EXCEPT ![c] = @ - 1]
            /\ segs' = [segs EXCEPT ![c] = Target[x] \o @]
            /\ SetLocks(UnlockAll(lk, SymlinkRelease(c, x), c), c)
            /\ pc' = [pc EXCEPT ![c] = IF Absolute[x] THEN "relock_root" ELSE "walk"]
            /\ UNCHANGED <<dir, next, result>>
       [] segs[c] = <<>> ->
            /\ Return(c, x, <<dir[c]>>)
            /\ UNCHANGED <<segs, dir, follows, next>>
       [] Kind[x] = "file" ->
            /\ Return(c, "NotDir", <<x, dir[c]>>)
            /\ UNCHANGED <<segs, dir, follows, next>>
       [] OTHER ->
            /\ SetLocks(UnlockAll(lk, <<dir[c]>>, c), c)
            /\ dir' = [dir EXCEPT ![c] = x]
            /\ pc' = [pc EXCEPT ![c] = "walk"]
            /\ UNCHANGED <<segs, follows, next, result>>
  /\ UNCHANGED <<mode, path, cursor>>

\* resolvePath 2566-2567: after an absolute symlink, lock the root again
\* as the directory.
RelockRoot(c) ==
  /\ pc[c] = "relock_root"
  /\ dir' = [dir EXCEPT ![c] = Root]
  /\ GetLock(Root, c, "walk")
  /\ UNCHANGED <<mode, path, segs, cursor, follows, result>>

\* The caller of resolvePath (MiddlewareHeadResponse 1167-1171) uses
\* the result and unlocks the lock it was handed; it is then free again.
Use(c) ==
  /\ pc[c] = "returned"
  /\ IF result[c] \in Inodes
       THEN SetLocks(Unlock(lk, result[c], c), c)
       ELSE UNCHANGED <<lk, woken>>
  /\ pc' = [pc EXCEPT ![c] = "idle"]
  /\ mode' = [mode EXCEPT ![c] = "shared"]
  /\ path' = [path EXCEPT ![c] = <<>>]
  /\ segs' = [segs EXCEPT ![c] = <<>>]
  /\ dir' = [dir EXCEPT ![c] = Root]
  /\ cursor' = [cursor EXCEPT ![c] = NoInode]
  /\ follows' = [follows EXCEPT ![c] = MaxSymlinks]
  /\ next' = [next EXCEPT ![c] = "walk"]
  /\ result' = [result EXCEPT ![c] = NoInode]

Next ==
  \E c \in Callers :
    \/ \E p \in Paths, m \in Modes : Start(c, p, m)
    \/ Woke(c)
    \/ Walk(c)
    \/ Typed(c)
    \/ RelockRoot(c)
    \/ Use(c)

Spec == Init /\ [][Next]_vars

\* Each resolvePath runs on its own goroutine and keeps running while it
\* can; a woken Cond.Wait returns; every caller of resolvePath unlocks the
\* returned lock (by defer).  Starting a resolution is not fair: a caller
\* may stay idle.
FairSpec ==
  /\ Spec
  /\ \A c \in Callers : /\ WF_vars(Woke(c)) /\ WF_vars(Walk(c)) /\ WF_vars(Typed(c))
                       /\ WF_vars(RelockRoot(c)) /\ WF_vars(Use(c))

-----------------------------------------------------------------------------
(* Properties                                                              *)

TypeOK ==
  /\ lk \in [Inodes -> LockRec]
  /\ pc \in [Callers -> {"idle", "wait", "walk", "typed", "relock_root", "returned"}]
  /\ mode \in [Callers -> Modes]
  /\ dir \in [Callers -> Inodes]
  /\ cursor \in [Callers -> Inodes \cup {NoInode}]
  /\ follows \in [Callers -> 0..MaxSymlinks]
  /\ next \in [Callers -> {"walk", "typed"}]
  /\ woken \in [Callers -> BOOLEAN]
  /\ result \in [Callers -> Inodes \cup Errors \cup {NoInode}]

\* What a path means: the sequential reading of 4.E of the design, with
\* a symlink chain of at most MaxSymlinks links resolving and a longer
\* one failing.
RECURSIVE Meaning(_, _, _)
Meaning(d, s, f) ==
  IF s = <<>> THEN d
  ELSE LET seg == Head(s)
           x == Entries[d][seg]
       IN CASE seg = "." -> Meaning(d, Tail(s), f)
            [] x = NoInode -> "NotFound"
            [] Kind[x] = "symlink" ->
                 IF f = 0 THEN "TooManySymlinks"
                 ELSE Meaning(IF Absolute[x] THEN Root ELSE d, Target[x] \o Tail(s), f - 1)
            [] Tail(s) = <<>> -> x
            [] Kind[x] = "file" -> "NotDir"
            [] OTHER -> Meaning(x, Tail(s), f)

\* Whatever other resolvers do meanwhile, resolvePath returns what the
\* path means: the lock coupling and the unlocking around symlinks never
\* make it resolve a segment in the wrong directory.
ResolvesCorrectly ==
  \A c \in Callers : pc[c] = "returned" => result[c] = Meaning(Root, path[c], MaxSymlinks)

\* The locks resolvePath holds at each point, as a list: the
\* directory while walking, the directory and cursor
\* while the cursor's type is read, nothing between an absolute symlink
\* and re-locking the root, and on return only the lock handed to the
\* caller.  A waiting caller holds what it held before the request, and
\* the requested lock too once the request has been granted.
Requested(c) == IF next[c] = "typed" THEN cursor[c] ELSE Root

ExpectedLocks(c) ==
  CASE pc[c] = "walk" -> <<dir[c]>>
    [] pc[c] = "typed" -> <<dir[c], cursor[c]>>
    [] pc[c] = "wait" ->
         (IF next[c] = "typed" THEN <<dir[c]>> ELSE <<>>)
           \o (IF woken[c] THEN <<Requested(c)>> ELSE <<>>)
    [] pc[c] = "returned" /\ result[c] \in Inodes -> <<result[c]>>
    [] OTHER -> <<>>

Occurrences(s, i) == Cardinality({k \in 1..Len(s) : s[k] = i})

\* No lock leaks and none is dropped early: on every path through
\* resolvePath, error returns included, the deferred cleanups leave the
\* caller holding exactly the returned inode's lock, and during the walk
\* exactly the locks of the lock coupling.
NoLeakedLocks ==
  \A c \in Callers, i \in Inodes : lk[i].owners[c] = Occurrences(ExpectedLocks(c), i)

\* c waits for d: c's request is queued on a lock that d holds or that
\* d's request precedes in the FIFO queue.
WaitsFor == WaitsOn(lk, Inodes)

\* Concurrent resolvers never wait on each other in a cycle (nor on
\* themselves): the root-down lock coupling orders lock acquisition.
NoWaitCycle ==
  LET tc == TransitiveClosure(WaitsFor, Callers) IN
  \A c \in Callers : ~tc[c, c]

\* Every resolvePath that starts returns, a result or an error: the FIFO
\* grant of the inode locks starves no resolver, and the symlink budget
\* ends every loop.
ResolveCompletes ==
  \A c \in Callers : pc[c] \notin {"idle", "returned"} ~> pc[c] = "returned"

=============================================================================
