# TLA+ models of ProxyFS's lock manager and file-system layer

This directory holds TLA+ specifications of the Go code under `src/`:
the local lock manager `src/dlm/llm.go` and the file-system layer
`src/fs/api_internal.go`. It also holds the TLC configurations that check
them. `PROJECT.json` lists the components, the runs, the mutants (faulty
variants of the modelled code that each property must catch), and the map
from every TLA+ definition to the source lines it translates. It also
records the findings and the hazards.

## 1. The system

| Part | Source | State it keeps | Operations |
|---|---|---|---|
| Local lock manager (LLM) | `src/dlm/llm.go` | `globals.localLockMap` (lock id → `*localLockTrack`) under the global mutex. Per track: `owners`, `waiters`, `state` (stale/shared/exclusive), `listOfOwners`, and the FIFO `waitReqQ` of `localLockRequest{requestedState, wakeUp, Cond}` | `commonLock` (read, write, try-write), `unlock`, `isLockHeld`, with the helpers `processLocalQ`, `grantAndSignal`, `removeFromListOfOwners` and `callerInListOfOwners` |
| DLM facade | not in `src/` (spec.md 4.B/4.C) | caller ids and lock handles | `ReadLock`, `WriteLock`, `TryWriteLock`, `Unlock`, `IsReadHeld` / `IsWriteHeld` |
| Byte-range lock table | `api_internal.go` 176-306 | per volume `FLockMap`: inode → `container/list` of `FlockStruct`, ordered by `Start` | `Flock` (`F_SETLK` lock and unlock; `F_SETLKW` is rejected) |
| Path resolution | `api_internal.go` 2417-2609 | none beyond the locks it holds while it walks | `resolvePath` (symlinks, `MaxSymlinks`), `revSplitPath`, name validation |
| Namespace operations | `api_internal.go` 96-153, 491-650, 1549-1700, 1747-1919, 1971-2047, 2245-2369, 2731-2806 | directory entries and link counts, owned by the inode collaborator | `Create`, `Mkdir`, `Symlink`, `Link`, `Unlink`, `Rmdir`, `Rename`, the `Readdir` family, `LookupPath` |
| Inode operations | `api_internal.go` 85-95, 154-175, 308-490, 551-606, 1601-1628, 1702-1746, 1921-1970, 2048-2244, 2370-2416 | inode metadata and streams, owned by the collaborator | `Getstat`, `GetType`, `Is*`, `Lookup`, `Setstat`, `Read`, `Write`, `Resize`, `Flush`, `Readsymlink`, the XAttr calls |
| Gateway adapter | `api_internal.go` 650-1548, 2620-2715 | the same namespace, seen as containers and objects | `MiddlewareCoalesce`, `Delete`, `GetAccount`, `GetContainer`, `GetObject`, `HeadResponse`, `Post`, `PutComplete`, `PutContainer` |

**How the parts interact.** Every fs and gateway call takes inode locks
through the facade, and the facade is backed by the LLM. The caller id of a
lock decides what `isLockHeld` reports. Several fs helpers rely on that
answer: `readdirHelper`, `getstatHelper`, and `MiddlewareCoalesce`'s
`IsWriteHeld`. Path resolution couples locks parent-to-child along the walk.
`Rename` takes the source directory lock and then *tries* the destination
lock, retrying on `TryAgain`. `Flock` holds a read lock on the inode and
edits the volume's lock table.

**Hard behaviours in the code.**
- Threads interleave on the global mutex, on the per-track mutexes, and on
  the condition variables.
- `unlock` deletes a track while other threads may still hold pointers to
  it.
- The FIFO grant pass gives a writer preference once the writer is at the
  head of the queue.
- `removeFromListOfOwners` edits only a copy of the slice header.
- `Flock` walks a shared list while other `Flock` calls edit it, and its
  offsets are uint64 values that can wrap.
- Path resolution takes a lock on `..` while it holds the child's lock.
- Several fs paths return without releasing a lock.
- `Rename`'s retry loop has no bound.
- `MiddlewarePutComplete` walks and creates directories outside any
  lock on what it creates, and replaces an existing object in place.

## 2. Modules

### `RWLock` — the facade's contract (abstract)
The variable `rw[l][t]` says where caller `t` stands on lock `l`. It takes
one of the values idle, want_shared, want_exclusive, shared or exclusive.
The actions are:
- `Request`: a caller asks for the lock.
- `GiveUp`: a try-write request is abandoned, which is allowed only while
  another caller holds the lock.
- `Hand`: at most one holder lets go, and any set of requesters is granted
  in the same step, provided the result is compatible.

This module is the specification that the LLM is shown to implement.

### `LLM` — `src/dlm/llm.go`
The state is `globals` (the holder of the global mutex), `localLockMap`,
and `track` (the contents of each track address). A track is an object
that threads hold references to. Each thread has:
- `pc`, its place in the call;
- `req`, its lock request;
- `ref`, its track pointer;
- `wakeUp`, the flag of its request;
- `query`, `resume` and `answer`, for `isLockHeld`.

Each critical section under a track mutex is one step. The global mutex is
held from a lookup step to the step after it, which models the lock
coupling of the code.

| Action | Code |
|---|---|
| `Request` | a client calls ReadLock, WriteLock or TryWriteLock |
| `LockLookup` | `commonLock` 219-229: look up or create the track under `globals` |
| `LockEnqueue` | `commonLock` 231-257: take the track mutex and release `globals`; fail a busy try; otherwise enqueue, `waiters++`, run `processLocalQ`, and return at once or wait |
| `Wake` | `commonLock` 259-270: woken from `Cond.Wait`, then `waiters--` |
| `Release` | the client calls Unlock |
| `UnlockLookup` | `unlock` 277-281 |
| `UnlockTrack` | `unlock` 283-314: delete the map entry if this is the last owner and nobody waits; `owners--`; `removeFromListOfOwners`; set stale at zero owners; `processLocalQ` |
| `AskHeld`, `HeldLookup`, `HeldRead`, `Resume` | `isLockHeld` 137-163 |

`ProcessLocalQ` is a RECURSIVE operator, and it grants from the head of the
queue the way the Go loop does. `RemoveFromListOfOwners` models exactly
what the Go code does to the caller's slice: the backing array is shifted
left, the last entry is duplicated, and the length is unchanged.

### `Flock` — `api_internal.go` 176-306
The state is `flockList`, the per-inode list, in which each element has an
address. Each concurrent call has:
- `pc`;
- `inReq`, its request;
- `cur`, its loop element;
- `insertElm`, its insertion mark;
- `result`.

The actions are:
- `FlockReject`: `F_SETLKW`, or a failed Access check.
- `FlockUnlock`: exact-match removal.
- `FlockBegin`: start of the walk.
- `FlockScan`: one loop iteration (skip, take the mark, insert early,
  identical, conflict, continue).
- `FlockEnd`: insertion after the loop.
- `FlockReturn`.

The `container/list` semantics are modelled as they are:
- `e.Next()` of a removed element is nil.
- `InsertBefore` with a mark that is no longer in the list does nothing.
- `InsertBefore` with a nil mark panics.

`Start + Len` is computed modulo `2^W`.

### `InodeLock` — one inode lock as the fs layer sees it
The fs modules give each inode a lock `lk[i]`, a FIFO reader/writer lock as
the LLM keeps it: a state, owner counts per caller id, and the queue. The
LLM's threads and mutexes are modelled in `LLM`; here one lock call is one
step, and the operators are pure functions of the map of locks:
- `Acquire` queues a request and runs `GrantPass` (`processLocalQ`, a
  RECURSIVE operator over `Grant1`, `grantAndSignal`);
- `TryBusy` is the try check of `commonLock`;
- `Unlock` and `UnlockAll` (the deferred unlocks, in order) decrement the
  owner count, set stale at zero owners and run the grant pass;
- `WaitsOn` is the wait-for relation between callers that the
  `NoWaitCycle` properties close transitively.

Each returns the callers whose queued requests were granted, which become
their `Cond.Wait` returns. A caller may hold an inode twice, as the code
does for `..`.

### `PathResolve` — `api_internal.go` 2440-2609
Several `resolvePath` calls run at once over one fixed namespace (the
constants `Entries`, `Kind`, `Target`, `Absolute` stand for `Lookup`,
`GetType` and `GetSymlink` of the inode collaborator), on the locks of
`InodeLock`.

Per caller: `pc`, `mode` (`ForRead`/`ForWrite`), `path` (the segments
`revSplitPath` produces), `segs` (`pathSegments`), `dir`, `cursor`,
`follows` (`followsRemaining`), `next` (where a granted request resumes),
`woken` (`wakeUp`) and `result`.

The actions are:
- `Start`: split the path and lock the root (2484-2495).
- `Woke`: `Cond.Wait` returns after a grant.
- `Walk`: one loop head (2509-2531): the directory is returned when no
  segment is left, `.` is skipped, a failed `Lookup` returns `NotFound`,
  otherwise the entry is locked under the directory's lock.
- `Typed`: the type branch (2533-2593): symlink (budget, unlock, push the
  target, and for an absolute target unlock the directory), last segment
  (returned with its lock), file (`NotDir`), directory (unlock the old one).
  Error returns run the deferred cleanups (2497-2507).
- `RelockRoot`: re-lock the root after an absolute symlink (2565).
- `Use`: the caller of `resolvePath` unlocks the returned lock
  (e.g. `MiddlewareHeadResponse`, 1167-1171).

`getLock` is `ensureReadLock` or `ensureWriteLock` (2469-2475), and neither
is in `src/`. For a lock the caller does not hold, `GetLock` queues a read
or write request. The nil checks at 2499-2507, 2547 and 2560 suggest that
they return no lock for a lock the caller already holds. The model leaves
that case out, and no MC path reaches it: no path has a leading `..` and
no symlink target leads back to a directory the walk holds.

### `FsNamespace` — the namespace calls of `api_internal.go`
Concurrent callers run `Create`, `Mkdir`, `Symlink`, `Link`, `Unlink`,
`Rmdir`, `Rename` and the four readdir calls on the locks of `InodeLock`.
The namespace is the collaborator's state, which is not in `src/`, so it is
modelled from spec.md 3 and 5:
- `kind[i]` is the type of inode i, or "none" once it is destroyed;
- `ent[d][n]` is the entry n of directory d;
- `nlink[i]` is the link count, with 1 for a directory's ".".

`VLink`, `VUnlink`, `Destroyed`, `VMove` and `EmptyDir` are the
collaborator's calls. `Denied` is the set of inodes whose W_OK check
fails. An inode destroyed before a call runs fails that call's F_OK check,
which is how a concurrent Rmdir reaches the error paths. Per caller the
model keeps:
- `pc` and `next`;
- `op`, the call;
- `newIno`, the inode a create made and has not linked yet;
- `child`, the entry an Unlink or Rmdir locked;
- `todo` and `listing`, the entries a readdir has still to lock and the
  ones it listed.

A step runs from one lock call to the next, because the collaborator calls
between two lock calls touch only inodes the caller holds.

The single-inode calls (`Access`, `Flush`, `Getstat`, `GetType`, `IsDir`,
`IsFile`, `IsSymlink`, `GetXAttr`, `ListXAttr`, `Lookup`, `Read`,
`Readsymlink`, `Resize`, `Write`, `Setstat`, `SetXAttr`, `RemoveXAttr`) are
calls of the same module, so they contend with the namespace calls for the
same locks. Each is described by one record (`GetstatCall`, ...): the lock
mode it takes and the Access masks it checks after the lock. What they
change is abstracted to two variables:
- `xattr[i]`, the streams of inode i;
- `changed[i]`, the groups of attributes (times, size, owner, mode) calls
  have set on i.

`Access(i, m)` fails for a destroyed inode and, beyond F_OK, for a denied
one. `SetstatApplied` sets the groups present in the code's order and
stops at the first out-of-range owner id or mode, after the groups before
it were set. `SetXAttr` with CREATE or REPLACE calls `GetXAttr`, whose read
lock is queued behind the write lock the call holds. The nested request
comes from the same goroutine, so it is queued under the caller's own id.

| Action | Code |
|---|---|
| `Create`, `Mkdir`, `Symlink` | make the inode, then write-lock the directory (96-122, 1549-1570, 2245-2268) |
| `CreateLink` | F_OK, W_OK\|X_OK, `Link`, and `Destroy` of the new inode on any failure (124-153) |
| `Link`, `LinkTarget`, `LinkCheck` | lock the directory, then the target under the same caller id, then GetType (no directories), the Access checks and `Link` (491-549) |
| `Unlink`, `Rmdir`, `LookupChild`, `Remove` | lock the directory, check it, `Lookup`, lock the entry, then IsDir or NotDir/NotEmpty, `Unlink`, and `Destroy` at link count 0 or of the empty directory (2302-2368, 1971-2046) |
| `Rename`, `RenameSrc`, `RenameRetry`, `RenameMove` | lock the source; its checks return with the lock held; `TryWriteLock` on the destination, with an unlock and `goto retryLock` on TryAgain; the destination's checks unlock only the source; then `Move` and both unlocks (1629-1700) |
| `Readdir`, `ReaddirOne`, `ReaddirPlus`, `ReaddirOnePlus` | read-lock the directory (1747-1868) |
| `RdCheck` | F_OK and X_OK: the plain calls return through their deferred unlock, the Plus calls return holding the lock; otherwise `ReadDir` lists ".", "..", then the names in order (1816-1826, 2741-2745, 2779-2784) |
| `RdEntry`, `RdType`, `RdEnd` | `readdirHelper`'s loop: read-lock each entry but "." under the caller's id, `getTypeHelper`, unlock; then the directory's unlock (2748-2764, 1826-1832, 1879-1890) |
| `StEntry`, `StStat` | the Plus calls' stat loop: read-lock each listed entry, `getstatHelper`, unlock, and return on its error (1834-1857) |
| `LockInode` | the preamble of every single-inode call: `initInodeLock` with a new caller id, `ReadLock` or `WriteLock` (e.g. 2180-2189) |
| `Observe` | the calls that change nothing kept in the model: checks, the collaborator's read, the deferred unlock (e.g. `Read` 1702-1745) |
| `WriteData` | `Write` and `Resize`: F_OK, W_OK, then the write or `SetSize` (2385-2412, 1946-1969) |
| `Setstat` | P_OK, then the groups in order with the range checks (2048-2172) |
| `SetXAttr`, `RemoveXAttr` | F_OK, W_OK, the flags (0 puts, CREATE/REPLACE take the nested read lock, others are invalid), `PutStream` / `DeleteStream` (2180-2224, 1601-1627) |

A client names only inodes it has looked up, so a call is issued only on
inodes reachable from the root. They may be gone by the time the call
runs.

### `Gateway` — `MiddlewarePutComplete`, `api_internal.go` 1229-1476

`Gateway` EXTENDS `FsNamespace` and adds the object PUT of the HTTP gateway
as a further call. Its callers run next to the namespace and inode calls,
on the same inode locks and the same directory state. Two variables are
added per caller: `dirIno` (`dirInodeNumber`, the directory the walk
holds) and `dirs` (the path segments still to walk). `child` holds the
entry or obstacle being locked, and `newIno` holds the new file while the
PUT waits for the obstacle's lock, so `NamespaceConnected` reads as it
does for a create. An object path is given as the segment list that
`revSplitPath` returns after `path.Clean`. Symlink targets are constants
(`Target`, `Absolute`).

| Action | Code |
|---|---|
| `PutStart`, `PutLookup` | the public `Lookup` of the container in the root: read lock under its own caller id, `VolumeHandle.Lookup`, deferred unlock, return on NotFound (1231-1234, 585-605) |
| `PutLockDir` | write-lock the container under the PUT's caller id (1248-1254) |
| `PutWalk`, `PutSpin` | one turn of the walk: skip ".", `Lookup` (with "." and ".." as the collaborator answers them), write-lock the entry; a Lookup error other than NotFound loops forever (1256-1281) |
| `PutType` | GetType of the entry: a file returns NotDir; a symlink is unlocked and its target put in front of `dirs` (absolute: the directory is unlocked too, then `PutRoot` locks the root); a directory becomes the one held and its parent is unlocked (1282-1334) |
| `PutMake` | `CreateFile`, `Wrote`, `PutStream` of the metadata, a `CreateDir` and `Link` for each missing segment, then either the obstacle's `Lookup` and write lock, or the final `Link` (1335-1416, 1427-1446) |
| `PutObstacle` | `removeObstacleToObjectPut` (`ObstacleRemovable`: stat, IsDir for a non-empty directory, `Unlink`), the final `Link`, and `Destroy` of the shadowed `obstacleInodeNumber`, which is 0 and fails (1417-1476, 2620-2670) |

No failure after `CreateFile` destroys what the PUT created, and the model
keeps every such return.

### `ContainerListing` — `MiddlewareGetContainer`, `api_internal.go` 907-1088

The container listing is a pure computation over the container's tree, so
this module models it as operators rather than as steps. The container
lock is released before the walk (920), and the spec accepts listings
that are not snapshots. The model therefore holds the tree still during
one listing. Its variables are the inputs: `kind` (node -> "none",
"file" or "dir", a node being the list of basenames from the container
down), `marker`, `prefix` and `maxEntries`. `Init` takes every consistent
tree and every input of the MC sets, and `Next` changes nothing.

Paths are byte strings (sequences of character codes), because the walk
depends on Go's bytewise order: `-` (45) sorts before `/` (47). That is
why the walk defers a directory's descent until the siblings that sort
before `name/` have been listed.

| Definition | Code |
|---|---|
| `StrLess`, `StrLeq`, `HasPrefix` | Go's `<` and `<=` on strings, `strings.HasPrefix` (959, 1016, 1045) |
| `Sorted`, `Entries` | `Readdir`, paged until `areMoreEntries` is false, in lexicographic order; "." and ".." dropped (936-956) |
| `Walk`, `ReaddirPlus` | `recursiveReaddirPlus` as two mutually RECURSIVE operators, one loop turn per call: the descent test (959-970), `fileName` (979-985), the prefix early return (987-992), the marker pruning (1016-1018), a file emitted (1028-1043), a directory emitted and queued as `fileName + "/"` (1044-1076) |
| `Listing` | the walk from the container with `dirName` "" (907-924, 1081) |

`Reference` is what the Swift API and spec.md 4.G ask of a page. It takes
every path of the container that sorts after the marker and begins with
the prefix, sorts them, and keeps the first `maxEntries`.

## 3. Runs

| Run | Config | Expect | Shows |
|---|---|---|---|
| `llm_safety` | `MC_LLM.cfg` | pass | With 3 callers, 1 lock id and 2 track addresses: `TrackMatchesHolders` (counters, queue, state and map entry all agree with what the threads really hold or wait for); `NoPanic`; `TryNeverBlocks`; `GrantsInFifoOrder` (an action property); and `RWLockRefined`, i.e. LLM refines RWLock through `INSTANCE RWLock WITH rw <- ...` |
| `llm_liveness` | `MC_LLM_live.cfg` | pass | `AcquireCompletes`: every request returns, under `FairSpec` |
| `llm_isheld` | `MC_LLM_held.cfg` | violation | `IsLockHeldAccurate`: after A and B share the lock and B unlocks, `isLockHeld(B, READLOCK)` is TRUE |
| `resolve_safety` | `MC_PathResolve.cfg` | pass | Two resolvers over a namespace with a relative symlink, a two-link chain, an absolute symlink, a loop and a `.` target, under `FairSpec`: `ResolvesCorrectly` (the result equals `Meaning`, a recursive sequential reading of the path), `NoLeakedLocks` (exactly the lock-coupling locks held at each step, only the returned lock after return, on every error path too), `NoWaitCycle` (the wait-for relation, closed with `Relation`'s `TransitiveClosure`, has no cycle) and `ResolveCompletes` (every started resolution returns) |
| `resolve_dotdot` | `MC_PathResolve_up.cfg` | violation | `NoWaitCycle`: a write-mode resolver of `/a/up` (a relative symlink `up -> ..` in `a`) holds `a` and asks for `r`, while a reader of `/a/b` holds `r` and waits for `a` |
| `ns_safety` | `MC_FsNamespace.cfg` | pass | Two callers issuing 15 calls (below): `NamespaceConnected` (every live inode is reachable from the root or is a create's new inode not yet linked, and no entry names a destroyed inode), `NoLeakedLocks` (a returned call holds no lock), `NoWaitCycle`, and `NoChangeAfterDestroy` (an action property: no step changes the streams or attributes of a destroyed inode, although a Write may be queued on the lock of the file an Unlink is destroying) |
| `ns_liveness` | `MC_FsNamespace_live.cfg` | pass | `OpCompletes`: under `FairSpec`, every call but Rename that starts returns, Setstat, SetXAttr and RemoveXAttr on a directory that a concurrent Rmdir removes included |
| `gw_put_overwrite` | `MC_Gateway.cfg` | violation | `NamespaceConnected`: a PUT of object x into container x, over the file f at a/x, unlinks f and links the new file, then destroys inode 0 instead of f; f is left alive with no name (6 states) |
| `ns_readdir_deadlock` | `MC_FsNamespace_readdir.cfg` | violation | `NoWaitCycle`: Readdir(a) holds a and read-locks its `..`, r, while Unlink(r, x) holds r and write-locks a |
| `flock_seq` | `MC_Flock.cfg` | pass | With one caller at a time, any request sequence keeps `NoConflictingLocks`, `SortedByStart` and `GrantRecorded` |
| `flock_race` | `MC_Flock_race.cfg` | violation | Two concurrent Flock calls grant overlapping write locks |
| `gc_order` | `MC_ContainerListing.cfg` | violation | `ListingIsReference`: for the tree a/, a/b/, a/b/a, a/b-, `GetContainer` lists a, a/b, a/b/a, a/b- instead of a, a/b, a/b-, a/b/a |

Each property of a passing run has a mutant in `PROJECT.json`: a faulty
variant of one mapped definition, defined just before it in the module,
that TLC must catch with the run's own config. Examples:
- `GrantAndSignal` also doing `waiters--`, which the comment at llm.go 266
  warns against;
- `unlock` deleting the map entry regardless of waiters;
- `processLocalQ` skipping a blocked writer;
- `commonLock` without lock coupling;
- `unlock` without the grant pass;
- Flock's conflict test looking only at the existing lock;
- `resolvePath` checking `followsRemaining` one too early, never, keeping
  the symlink locked, or re-locking the root before releasing the directory;
- `Unlink` without its IsDir check, a
  Lookup failure of Unlink/Rmdir returning without its deferred unlock,
  `Rename` taking the destination with a blocking WriteLock, a same-directory
  `Rename` unlocking twice, `Remove` forgetting the directory's unlock, and
  `Write` without its F_OK check after the lock.

**Bounds.**
- **LLM safety:** three callers are the fewest in which a writer can queue
  between two readers. One lock id is used because tracks of different ids
  share nothing but the global mutex, which one id already contends on. Two
  track addresses let a deleted track still be referenced while a new
  track for the same id is created. `MaxOwnerList = 3` lets the stale
  entries of `listOfOwners` build up. This run has 111,933 distinct states
  and takes about 1 minute.
- **LLM liveness:** uses two callers, because temporal checking of the
  three-caller graph takes far longer than the run allows. Two callers
  still cover a writer waiting behind a reader and hand-over in both
  directions.
- **Flock:** offsets are 3 bits wide (0..7). Starts {0,2,4} and lengths
  {0,2,3} produce overlaps, end-to-end neighbours and to-end-of-file locks.
  Up to three (sequential) or four (race) element addresses are used. The
  wrap run uses start 6 with length 3.
- **ContainerListing:** basenames a, b and b- and eight nodes, down to
  depth three: a, b, b-, a/a, a/b, a/b-, a/b/a and b/a. Each node is
  absent, a file or a directory, and every parent is a directory. The
  markers are "", a/b and a/b/a, the prefixes "" and a/, and maxEntries
  runs over 1..4. That is 16,920 inputs. A name that extends a
  directory's name (b- beside b/) must appear one level down for the
  descent test to matter, so depth three is the least that shows it.
  The markers include a directory's own name and a path inside it, which
  exercises the pruning of a marked directory. Symlinks take the file
  branch of the walk (1028) and are not enumerated separately.
- **PathResolve:** two callers, both modes, eight paths that reach every
  branch of the loop. `MaxSymlinks = 2` (40 in the code): the chain
  `s3 -> s1 -> a` uses the whole budget and resolves, and the loop `l`
  exhausts it, which is the boundary spec.md 4.F states for 40. With three
  callers the run takes over nine minutes; two already contend on the
  root in both modes and interleave every step of one walk with the other.

- **FsNamespace:** two callers; inodes r, a, b, f and three new ids (two in
  the safety run); names
  x and y; initially r/x = a, r/y = b, a/x = f. The safety calls are:
  - creates of a file (a/y), a directory (b/x) and a symlink inside the
    new directory (n1/x);
  - hard links b/y to f and a/y to the directory b;
  - Unlink of a/x and of r/x (a directory);
  - Rmdir of b/x;
  - Renames a/x to b/x, a/x to a/y and b/x to a/y;
  - ReaddirPlus of b and a ReaddirOne past the end of r;
  - Write of f (which the Unlink of a/x may destroy) and Getstat of n1.

  Together they reach every branch: a failed create destroys its inode, a
  hard link is kept alive by its second name, Rmdir meets NotEmpty, and
  renames go both ways between a and b, so the try-lock retry fires. The
  readdirs stat entries that a concurrent Rmdir removes. The readdirs of
  the safety run are of b and r: a readdir of a directory whose parent an
  Unlink or Rmdir of the run locks deadlocks (finding 5). The callers are
  model values under `SYMMETRY` (no invariant names a caller). The run
  has 492,486 distinct states and takes under a minute. A third new id
  multiplies that by 3.5 without adding a case, and each further call
  roughly doubles it. The liveness run uses 10 calls (Readdir of r,
  ReaddirOnePlus of b, and Setstat, SetXAttr and RemoveXAttr of the
  directory n1 that its Mkdir makes and its Rmdir removes; 257,418
  states, about 3.5 minutes), because the temporal check of the full set
  takes longer than the run allows, and it has no symmetry, which is
  unsound for liveness. SetXAttr is issued with flags 0 only (section 4).

- **Gateway:** the volume of `MC_FsNamespace` and two callers, with three
  PUTs: x over a/x (the overwrite), y/y into b (it creates the directory
  y), and `../x` into a. The run stops at the first violation, a
  single-caller trace of 6 states. To check the rest of the module, the
  same volume was run with the obstacle's `Destroy` fixed and six new
  ids. Its calls were PUTs that create a directory chain or meet a file
  on the walk, a PUT through a relative symlink, an Unlink, a Readdir of
  r and a symlink create. It kept `NamespaceConnected`, `NoLeakedLocks`
  and `NoWaitCycle` over 900,013 states. Allocation stops at the last
  new id, so that run skips the deadlock check.

**Fairness.** Steps that take the global mutex (`LockLookup`,
`UnlockLookup`, `HeldLookup`) are strongly fair. The mutex is free only
from time to time, and Go's `sync.Mutex` switches to FIFO hand-off for a
waiter starved for more than 1 ms. `Release` is strongly fair because
every fs caller unlocks what it locked, even if it keeps calling
`isLockHeld` in between. Without this, a holder looping on `isLockHeld`
starves a queued writer, which TLC showed. The other steps need no other
thread and are weakly fair. `Request` and `AskHeld` are the client's
choice and have no fairness.

In `PathResolve` each resolver's steps are weakly fair: a goroutine keeps
running while it is able to, and every caller of `resolvePath` unlocks the
returned lock with `defer`. `Start` has no fairness.

In `FsNamespace` each caller's steps (`Step(c) \/ InodeStep(c)`) are
weakly fair, for the same reason. At most one of them is enabled at a
time, since `pc[c]` selects it, so this is the same as weak fairness of
each step. Issuing a call is the client's choice and has none. Rename is
left out of `OpCompletes`: its `TryWriteLock` takes no place in the queue.
Under these fairness conditions a rename retries forever whenever the
destination is held at each of its tries (section 4).

## 4. Findings

Each finding is the result of a violation run, and all six are code bugs.

1. **`removeFromListOfOwners` never shrinks the track's list**
   (llm.go 117). As a result, `isLockHeld` reports a lock as held by a
   caller that already released it. With a writer queued, it even reports
   WRITELOCK for a former reader.
2. **Flock races** (api_internal.go 188 and 213). The volume mutex is
   released before the walk, and the inode lock is only shared. Two
   callers can both grant overlapping write locks.
3. **GetContainer lists a subdirectory's objects out of order**
   (api_internal.go 959). Before handling the next entry, the walk checks
   whether a pending descent goes first. It compares the descent's name,
   a container-relative path such as `a/b/`, with the entry's bare
   `Basename`, such as `b-`. At the container's top level the two agree.
   One level down they do not. For the tree a/, a/b/, a/b/a and a/b-,
   the listing is a, a/b, a/b/a, a/b-, but `-` sorts before `/`. spec.md
   4.G asks for one lexicographically ordered stream. Swift clients page
   with the last name returned as the next marker. With `maxEntries` 3,
   the next page starts after a/b/a, and the marker pruning skips a/b-,
   so that object never appears. With the test made against
   `dirName + Basename`, the same model and config pass on all 16,920
   inputs. So the prefix early return and the marker pruning are right,
   and this comparison is the only fault.
4. **`resolvePath` deadlocks through a symlink to `..`** (api_internal.go
   2527). It locks the looked-up entry while holding the directory.
   After a relative symlink `a/up -> ..`, the walk looks `..` up in `a`,
   which it still holds, and asks for the parent `r`, which it released
   on entering `a`. That locks a parent under its child. A write-mode
   resolver of `/a/up` then holds `a` and waits for `r`. A reader of
   `/a/b` holds `r` and waits for `a`. Neither returns. No resolver in
   the trace asks for a lock it already holds, so the result does not
   depend on what `ensureReadLock`/`ensureWriteLock` (not in `src/`) do
   in that case. `..` naming the parent is the inode collaborator's, as
   in finding 5. A leading `..` (`path.Clean("../a")`) would make the
   walk ask for the root it holds. What happens then is up to the
   `ensure` calls, so it is listed as a hazard without a run.
5. **`readdirHelper` deadlocks with Unlink and Rmdir** (api_internal.go
   2756). It read-locks `..` while it holds the directory, that is, a
   parent under its child. Unlink and Rmdir lock the parent and then the
   child. So Readdir(a) and Unlink(r, x), with r/x = a, wait on each other
   forever, and every later call on r or a waits behind them.
6. **PutComplete leaks every object it overwrites** (api_internal.go
   1405, 1452). The obstacle's `Lookup` declares a new
   `obstacleInodeNumber` with `:=` inside the `if` block. The outer
   variable that `Destroy` uses after the final `Link` therefore stays 0.
   The replaced file is unlinked and never destroyed: its inode and its
   data stay allocated with no name. spec.md 4.G step 8 says the obstacle
   is destroyed, and spec.md 7 lists the shadowing as an open question.

Observed while modelling, without a run of their own (the project keeps
12 runs):
- **Rename leaks a lock when a directory check fails** (api_internal.go
  1680, and 1657 for the source). A failed F_OK or W_OK|X_OK on the
  destination unlocks only the source. A concurrent Rmdir of the
  destination is enough to trigger it, with no permission involved.
  `MC_FsNamespace_leak.cfg` (a Rmdir of b racing a Rename into b)
  violates `NoLeakedLocks` in 7 states.
- **PutComplete orphans what it created when a later step fails**
  (1339-1446). An obstacle that is a non-empty directory, a failed
  `Lookup` of the obstacle, or a failed final `Link` all return with the
  new file and any new directories allocated and unreachable, against
  spec.md 7 (a). A Rmdir of the container between PutComplete's `Lookup`
  and its write lock is enough: with such a Rmdir added to
  `MC_Gateway.cfg`'s calls, `NamespaceConnected` fails that way too.
- **PutComplete can loop forever** holding a write lock: on a `Lookup`
  error other than NotFound (1270), and through a symlink loop, since it
  follows symlinks with no `MaxSymlinks` budget (1323). Both are
  modelled (`PutSpin`, `PutType`); no run checks the gateway's liveness.
- **PutComplete deadlocks on a leading `..`** (1273). For the object
  `../x`, the walk write-locks the container's parent while holding the
  container. With a Readdir of r added to `MC_Gateway.cfg`'s calls,
  `NoWaitCycle` fails. This is the same lock-order fault as finding 4.
- **SetXAttr with CREATE or REPLACE hangs** (api_internal.go 2204,
  2209). It calls `GetXAttr` while it holds the inode's write lock, and
  `GetXAttr` read-locks the inode under a new caller id, which queues
  behind that write lock forever. spec.md 4.F says CREATE fails with
  Exists and REPLACE with NotFound; neither call returns at all, and
  every later call on the inode waits behind it. Given
  `SetXAttr(f, CREATE)`, the model violates `NoWaitCycle` in 2 steps;
  the passing runs issue flags 0 only.
- **Setstat updates part of the inode before it fails** (2123, 2133,
  2158). The times and the size are set before the owner ids are range
  checked, and the owner before the mode is. An out-of-range value
  returns a typed error, as spec.md 4.F asks, with the earlier groups
  already set. `SetstatApplied` models this; spec.md does not promise an
  all-or-nothing update, so no property claims one.
- **Flock panics on a wrapping `Start + Len`** (api_internal.go 251 and
  277). The walk meets a lock past the wrapped end before any insertion
  mark is set, and it calls `InsertBefore(x, nil)`. With
  `MC_Flock_wrap.cfg` (a start of 6 with 3-bit ends), `NoPanic` fails in
  one call. It is a single-request edge that one unit test reaches, so
  its run slot went to `gc_order`.
- **Flock refuses end-to-end locks** (api_internal.go 267 and 275):
  `[Start, Start+Len)` is compared as if closed at both ends, where spec.md
  4.F refuses only overlapping locks. One call shows it.
- **Link(d, n, d) hangs** (api_internal.go 510). It write-locks d twice
  under one caller id before the LinkDir check at 523. The `FsNamespace`
  model, given that call, finds a `NoWaitCycle` violation in 2 steps.
- **ReaddirPlus and ReaddirOnePlus leak the directory's read lock**
  (1818, 1872) when F_OK fails. They return without any unlock. Given a
  ReaddirPlus of b and an Rmdir of r/y, the model violates
  `NoLeakedLocks` in 6 steps.
- **Rename can retry forever** (1670). spec.md 4.F says the retry breaks
  deadlocks, and `NoWaitCycle` confirms it: a blocking destination lock
  (the mutant) gives a cycle. But the try has no place in the queue. Two
  renames in opposite directions, or any calls that hold the destination
  at each try, keep a fairly scheduled rename retrying. With `FairSpec`,
  a `RenameCompletes` property fails against one ReaddirOnePlus of the
  destination.

## 5. Plan

`PathResolve`, `FsNamespace` (the single-inode calls included) and
`Gateway`'s `PutComplete` are done. Still to write, most important first:
1. **`Gateway`**:
   - `PutContainer` and `Post`, the compare-and-set on the metadata stream;
   - `Delete`, which takes paths through `resolvePath` and so needs
     `PathResolve` composed with `FsNamespace`;
   - `GetContainer` while the tree changes: an entry unlinked between
     `Readdir` and `Getstat` fails the whole listing (1020-1024);
   - `GetAccount`, a flat filter of the root's `Readdir`.
2. A passing run of `Gateway`. With the overwrite leak in the code, any
   PUT that can be repeated breaks `NamespaceConnected`. Such a run could
   check `NoLeakedLocks` and the liveness of PUTs that avoid `..` and
   symlink loops, and it needs a run slot.

## 6. Not modelled

- The inode collaborator (data, on-disk layout). Its namespace calls are
  modelled from the design in `FsNamespace`. `Move` onto a name that is
  taken fails in the model, because neither `src/` nor spec.md says what
  it does.
- `LookupPath` (607-648), a loop of its own that read-locks one
  directory at a time, checks X_OK, looks the segment up and unlocks
  before going on; it holds at most one lock and follows no symlinks, so
  it can neither leak nor order locks. Also not modelled: the
  contents of data, sizes and times (only which groups were set is kept),
  the profiler, the readdir paging arguments (the model reads all entries in one call),
  and lock-call errors, which the lock layer returns only for try requests.
- The gateway calls other than `PutComplete` and `GetContainer`:
  `MiddlewareCoalesce`, `Delete`, `GetAccount`, `GetObject`,
  `HeadResponse`, `Post` and `PutContainer` (650-906, 1090-1228,
  1478-1548). They resolve paths through `resolvePath`, which
  `PathResolve` models separately, or they read contents the model
  abstracts. `GetAccount` is a one-level filter of the root's `Readdir`
  with none of `GetContainer`'s ordering logic. `GetContainer`'s `Readdir`
  and `Getstat` errors only occur when the tree changes during the
  walk, which `ContainerListing` does not model. The second, never-called
  copy of `removeObstacleToObjectPut` (2672-2714) is not modelled either.
- The test-only pollers in llm.go (`getTrack`, `waitCountWaiters`,
  `waitCountOwners`).
- `StatVfs`, `VolumeName`, `mount` (constants and registry lookups).
- `Validate`, which recurses on itself and overflows the stack on any
  call.
- The SAIO shell script, the configuration fragment, and the DLM master
  state diagram (`src/docs/dlm-master.uml`), which describes distributed
  states the code does not implement.
