-------------------------------- MODULE LLM --------------------------------
(***************************************************************************)
(* The local lock manager of src/dlm/llm.go.                               *)
(*                                                                         *)
(* globals.localLockMap maps a lock id to a *localLockTrack, guarded by    *)
(* the global mutex.  Every call (commonLock, unlock, isLockHeld) looks up *)
(* the track under the global mutex, then locks the track's mutex before  *)
(* unlocking the global one (lock coupling), and does the rest under the   *)
(* track mutex.  Tracks are objects: a thread keeps a reference (ref) from *)
(* the lookup until it is done with the track, so a track deleted from the *)
(* map can still be used by whoever holds a reference to it.               *)
(*                                                                         *)
(* Granularity: the global mutex is held from a lookup step to the next    *)
(* step of the same thread.  A track-mutex critical section touches only   *)
(* that track and is one atomic step; the one in commonLock ends in        *)
(* Cond.Wait, which releases the track mutex, and the woken thread's       *)
(* re-acquisition and waiters-- is the step Wake.                          *)
(*                                                                         *)
(* Each thread is one caller id and runs the client loop: request a lock   *)
(* (ReadLock, WriteLock or TryWriteLock), hold it, unlock it, and at any   *)
(* time ask isLockHeld about itself.                                       *)
(***************************************************************************)
EXTENDS Naturals, Sequences, FiniteSets, SequencesExt

CONSTANTS Threads,       \* caller ids (one per client thread)
          Locks,         \* lock ids
          TrackIds,      \* addresses available for *localLockTrack objects
          NoTrack,       \* nil track pointer
          NoThread,      \* nobody holds the global mutex
          MaxOwnerList   \* bound: a new request starts only while the
                         \* track's listOfOwners is shorter than this

ASSUME NoTrack \notin TrackIds /\ NoThread \notin Threads
ASSUME Cardinality(TrackIds) >= Cardinality(Locks)
ASSUME MaxOwnerList \in Nat \ {0}

VARIABLES globals,       \* holder of globals.Mutex
          localLockMap,  \* globals.localLockMap: lock id -> track address
          track,         \* track[k]: the localLockTrack at address k
          pc,            \* pc[t]: where thread t is in its client loop
          req,           \* req[t]: the lock request t made last
          ref,           \* ref[t]: the track t is using, or NoTrack
          wakeUp,        \* wakeUp[t]: localLockRequest.wakeUp of t's request
          query,         \* query[t]: the isLockHeld question t is asking
          resume,        \* resume[t]: where t returns after isLockHeld
          answer         \* answer[t]: what isLockHeld returned to t

vars == <<globals, localLockMap, track, pc, req, ref, wakeUp, query, resume, answer>>

RequestStates == {"shared", "exclusive"}          \* requestedState
LockStates == {"stale", "shared", "exclusive"}     \* localLockTrack.state
LockHeldTypes == {"READLOCK", "WRITELOCK", "ANYLOCK"}

Pcs == {"idle", "lock_lookup", "lock_enqueue", "wait", "holding",
        "unlock_lookup", "unlock_track", "held_lookup", "held_read", "answered"}

LocalLockRequest == [caller : Threads, requestedState : RequestStates]

LocalLockTrack == [lockId : Locks, owners : Nat, waiters : Nat,
                   state : LockStates, listOfOwners : Seq(Threads),
                   waitReqQ : Seq(LocalLockRequest)]

\* commonLock: track = &localLockTrack{lockId: l.LockID, state: stale}
NewTrack(l) == [lockId |-> l, owners |-> 0, waiters |-> 0, state |-> "stale",
                listOfOwners |-> <<>>, waitReqQ |-> <<>>]

\* Contents of an unreachable address (kept canonical).
Garbage == NewTrack(CHOOSE l \in Locks : TRUE)

Unreferenced(k, others) ==
  /\ k \notin {localLockMap[l] : l \in Locks}
  /\ \A u \in others : ref[u] # k

FreeTracks == {k \in TrackIds : Unreferenced(k, Threads)}

-----------------------------------------------------------------------------
(* Helpers of llm.go, as operators on a track value.                       *)

\* removeFromListOfOwners: append(listOfOwners[:i], listOfOwners[i+1:]...)
\* shifts the backing array left but assigns only the local slice header,
\* so track.listOfOwners keeps its length and ends with its old last entry.
RemoveFromListOfOwners(s, c) ==
  IF Contains(s, c) THEN Append(RemoveFirst(s, c), Last(s)) ELSE s

\* callerInListOfOwners
CallerInListOfOwners(s, c) == Contains(s, c)

\* Faulty variants of grantAndSignal, for mutation checks: one that also
\* does waiters-- (which the comment at llm.go 266 warns against), one that
\* forgets to append the caller to listOfOwners.
GrantAndSignalDecWaiters(tr, r) ==
  [tr EXCEPT !.state = r.requestedState, !.listOfOwners = Append(@, r.caller),
             !.owners = @ + 1, !.waiters = @ - 1]
GrantAndSignalNoOwner(tr, r) ==
  [tr EXCEPT !.state = r.requestedState, !.owners = @ + 1]

\* grantAndSignal
GrantAndSignal(tr, r) ==
  [tr EXCEPT !.state = r.requestedState,
             !.listOfOwners = Append(@, r.caller),
             !.owners = @ + 1]

\* Faulty processLocalQ, for mutation checks: a blocked writer at the head
\* is skipped instead of stopping the pass.
RECURSIVE ProcessLocalQSkip(_, _)
ProcessLocalQSkip(tr, granted) ==
  IF tr.waitReqQ = <<>> \/ tr.state = "exclusive"
  THEN [track |-> tr, granted |-> granted]
  ELSE LET r == Head(tr.waitReqQ)
           popped == [tr EXCEPT !.waitReqQ = Tail(@)]
       IN IF r.requestedState = "exclusive" /\ tr.state = "stale"
          THEN [track |-> GrantAndSignal(popped, r), granted |-> granted \cup {r.caller}]
          ELSE IF r.requestedState = "exclusive"
          THEN LET rest == ProcessLocalQSkip(popped, granted)
               IN [track |-> [rest.track EXCEPT !.waitReqQ = <<r>> \o @],
                   granted |-> rest.granted]
          ELSE ProcessLocalQSkip(GrantAndSignal(popped, r), granted \cup {r.caller})

\* processLocalQ: grant from the head of waitReqQ while possible.  Returns
\* the new track and the set of callers whose wakeUp was set.
RECURSIVE ProcessLocalQ(_, _)
ProcessLocalQ(tr, granted) ==
  IF tr.waitReqQ = <<>> \/ tr.state = "exclusive"
  THEN [track |-> tr, granted |-> granted]
  ELSE LET r == Head(tr.waitReqQ)
           popped == [tr EXCEPT !.waitReqQ = Tail(@)]
       IN IF r.requestedState = "exclusive" /\ tr.state = "stale"
          THEN [track |-> GrantAndSignal(popped, r), granted |-> granted \cup {r.caller}]
          ELSE IF r.requestedState = "exclusive"
          THEN [track |-> tr, granted |-> granted]
          ELSE ProcessLocalQ(GrantAndSignal(popped, r), granted \cup {r.caller})

\* Faulty try check, for mutation checks: only an exclusive holder makes
\* the lock busy, whatever the requested mode.
TryBusyOnlyExclusive(tr, requestedState) == tr.state = "exclusive"

\* The try check at the top of commonLock.
TryBusy(tr, requestedState) ==
  IF requestedState = "exclusive" THEN tr.state # "stale"
  ELSE tr.state = "exclusive"

\* isLockHeld, on a track that is in the map.
IsLockHeldIn(tr, c, kind) ==
  CASE kind = "READLOCK"  -> tr.state = "shared" /\ CallerInListOfOwners(tr.listOfOwners, c)
    [] kind = "WRITELOCK" -> tr.state = "exclusive" /\ CallerInListOfOwners(tr.listOfOwners, c)
    [] kind = "ANYLOCK"   -> tr.state \in {"shared", "exclusive"}
                                /\ CallerInListOfOwners(tr.listOfOwners, c)

\* req and query of a thread that has none outstanding (kept canonical).
NoReq == [lock |-> CHOOSE l \in Locks : TRUE, requestedState |-> "shared", try |-> FALSE]
NoQuery == [lock |-> CHOOSE l \in Locks : TRUE, kind |-> "ANYLOCK"]

-----------------------------------------------------------------------------
Init ==
  /\ globals = NoThread
  /\ localLockMap = [l \in Locks |-> NoTrack]
  /\ track = [k \in TrackIds |-> Garbage]
  /\ pc = [t \in Threads |-> "idle"]
  /\ req = [t \in Threads |-> NoReq]
  /\ ref = [t \in Threads |-> NoTrack]
  /\ wakeUp = [t \in Threads |-> FALSE]
  /\ query = [t \in Threads |-> NoQuery]
  /\ resume = [t \in Threads |-> "idle"]
  /\ answer = [t \in Threads |-> FALSE]

\* A client calls ReadLock, WriteLock or TryWriteLock (the facade offers no
\* try-read).  MaxOwnerList bounds the model, not the code.
Request(t, l, m, try) ==
  /\ pc[t] = "idle"
  /\ try => m = "exclusive"
  /\ localLockMap[l] # NoTrack => Len(track[localLockMap[l]].listOfOwners) < MaxOwnerList
  /\ req' = [req EXCEPT ![t] = [lock |-> l, requestedState |-> m, try |-> try]]
  /\ pc' = [pc EXCEPT ![t] = "lock_lookup"]
  /\ UNCHANGED <<globals, localLockMap, track, ref, wakeUp, query, resume, answer>>

\* Faulty commonLock lookup, for mutation checks: globals is released before
\* the track mutex is taken (no lock coupling).
LockLookupNoCoupling(t) ==
  LET l == req[t].lock IN
  /\ pc[t] = "lock_lookup"
  /\ globals = NoThread
  /\ IF localLockMap[l] # NoTrack
     THEN /\ ref' = [ref EXCEPT ![t] = localLockMap[l]]
          /\ UNCHANGED <<localLockMap, track>>
     ELSE LET k == CHOOSE k \in FreeTracks : TRUE IN
          /\ FreeTracks # {}
          /\ localLockMap' = [localLockMap EXCEPT ![l] = k]
          /\ track' = [track EXCEPT ![k] = NewTrack(l)]
          /\ ref' = [ref EXCEPT ![t] = k]
  /\ pc' = [pc EXCEPT ![t] = "lock_enqueue"]
  /\ UNCHANGED <<globals, req, wakeUp, query, resume, answer>>

\* commonLock, llm.go 219-229: under globals, find the track or create one.
\* The global mutex stays held until the track mutex is taken.
LockLookup(t) ==
  LET l == req[t].lock IN
  /\ pc[t] = "lock_lookup"
  /\ globals = NoThread
  /\ IF localLockMap[l] # NoTrack
     THEN /\ ref' = [ref EXCEPT ![t] = localLockMap[l]]
          /\ UNCHANGED <<localLockMap, track>>
     ELSE LET k == CHOOSE k \in FreeTracks : TRUE IN
          /\ FreeTracks # {}
          /\ localLockMap' = [localLockMap EXCEPT ![l] = k]
          /\ track' = [track EXCEPT ![k] = NewTrack(l)]
          /\ ref' = [ref EXCEPT ![t] = k]
  /\ globals' = t
  /\ pc' = [pc EXCEPT ![t] = "lock_enqueue"]
  /\ UNCHANGED <<req, wakeUp, query, resume, answer>>

\* commonLock, llm.go 231-270: take the track mutex, drop globals, fail a
\* busy try, else queue the request, run processLocalQ and either return
\* at once (wakeUp already set, waiters--) or block in Cond.Wait.
LockEnqueue(t) ==
  LET k == ref[t]
      r == req[t]
      tr == track[k]
      queued == [tr EXCEPT !.waitReqQ = Append(@, [caller |-> t, requestedState |-> r.requestedState]),
                           !.waiters = @ + 1]
      res == ProcessLocalQ(queued, {})
  IN
  /\ pc[t] = "lock_enqueue"
  /\ globals' = NoThread
  /\ IF r.try /\ TryBusy(tr, r.requestedState)
     THEN /\ pc' = [pc EXCEPT ![t] = "idle"]
          /\ req' = [req EXCEPT ![t] = NoReq]
          /\ ref' = [ref EXCEPT ![t] = NoTrack]
          /\ UNCHANGED <<track, wakeUp>>
     ELSE IF t \in res.granted
     THEN /\ track' = [track EXCEPT ![k] = [res.track EXCEPT !.waiters = @ - 1]]
          /\ wakeUp' = [u \in Threads |-> IF u = t THEN FALSE ELSE wakeUp[u] \/ u \in res.granted]
          /\ pc' = [pc EXCEPT ![t] = "holding"]
          /\ ref' = [ref EXCEPT ![t] = NoTrack]
          /\ UNCHANGED req
     ELSE /\ track' = [track EXCEPT ![k] = res.track]
          /\ wakeUp' = [u \in Threads |-> wakeUp[u] \/ u \in res.granted]
          /\ pc' = [pc EXCEPT ![t] = "wait"]
          /\ UNCHANGED <<req, ref>>
  /\ UNCHANGED <<localLockMap, query, resume, answer>>

\* commonLock, llm.go 259-270: woken by Broadcast, Cond.Wait re-takes the
\* track mutex; waiters-- and the deferred unlock.
Wake(t) ==
  LET k == ref[t] IN
  /\ pc[t] = "wait"
  /\ wakeUp[t]
  /\ track' = [track EXCEPT ![k].waiters = @ - 1]
  /\ wakeUp' = [wakeUp EXCEPT ![t] = FALSE]
  /\ pc' = [pc EXCEPT ![t] = "holding"]
  /\ ref' = [ref EXCEPT ![t] = NoTrack]
  /\ UNCHANGED <<globals, localLockMap, req, query, resume, answer>>

\* The client is done with the lock and calls Unlock.
Release(t) ==
  /\ pc[t] = "holding"
  /\ pc' = [pc EXCEPT ![t] = "unlock_lookup"]
  /\ UNCHANGED <<globals, localLockMap, track, req, ref, wakeUp, query, resume, answer>>

\* unlock, llm.go 277-281: find the track under globals (a missing track
\* is the panic of line 280; NoPanic states that it cannot happen).
UnlockLookup(t) ==
  LET l == req[t].lock IN
  /\ pc[t] = "unlock_lookup"
  /\ globals = NoThread
  /\ localLockMap[l] # NoTrack
  /\ globals' = t
  /\ ref' = [ref EXCEPT ![t] = localLockMap[l]]
  /\ pc' = [pc EXCEPT ![t] = "unlock_track"]
  /\ UNCHANGED <<localLockMap, track, req, wakeUp, query, resume, answer>>

\* Faulty unlocks, for mutation checks: one deletes the map entry whenever
\* the last owner leaves, waiters or not; one forgets the grant pass.
UnlockTrackIgnoreWaiters(t) ==
  LET l == req[t].lock
      k == ref[t]
      tr == track[k]
      removed == [tr EXCEPT !.owners = @ - 1, !.listOfOwners = RemoveFromListOfOwners(@, t)]
      staled == IF removed.owners = 0 THEN [removed EXCEPT !.state = "stale"] ELSE removed
      res == ProcessLocalQ(staled, {})
      map2 == IF tr.owners = 1 THEN [localLockMap EXCEPT ![l] = NoTrack] ELSE localLockMap
  IN
  /\ pc[t] = "unlock_track"
  /\ localLockMap' = map2
  /\ track' = [track EXCEPT ![k] =
                 IF k \notin {map2[x] : x \in Locks} /\ \A u \in Threads \ {t} : ref[u] # k
                 THEN Garbage ELSE res.track]
  /\ wakeUp' = [u \in Threads |-> wakeUp[u] \/ u \in res.granted]
  /\ globals' = NoThread
  /\ pc' = [pc EXCEPT ![t] = "idle"]
  /\ req' = [req EXCEPT ![t] = NoReq]
  /\ ref' = [ref EXCEPT ![t] = NoTrack]
  /\ UNCHANGED <<query, resume, answer>>
UnlockTrackNoGrant(t) ==
  LET l == req[t].lock
      k == ref[t]
      tr == track[k]
      removed == [tr EXCEPT !.owners = @ - 1, !.listOfOwners = RemoveFromListOfOwners(@, t)]
      staled == IF removed.owners = 0 THEN [removed EXCEPT !.state = "stale"] ELSE removed
      map2 == IF tr.owners = 1 /\ tr.waiters = 0 THEN [localLockMap EXCEPT ![l] = NoTrack]
              ELSE localLockMap
  IN
  /\ pc[t] = "unlock_track"
  /\ localLockMap' = map2
  /\ track' = [track EXCEPT ![k] =
                 IF k \notin {map2[x] : x \in Locks} /\ \A u \in Threads \ {t} : ref[u] # k
                 THEN Garbage ELSE staled]
  /\ globals' = NoThread
  /\ pc' = [pc EXCEPT ![t] = "idle"]
  /\ req' = [req EXCEPT ![t] = NoReq]
  /\ ref' = [ref EXCEPT ![t] = NoTrack]
  /\ UNCHANGED <<wakeUp, query, resume, answer>>

\* unlock, llm.go 283-314: take the track mutex; while still holding
\* globals delete the map entry if we are the last owner and nobody waits;
\* drop globals; owners--, removeFromListOfOwners, stale at zero owners,
\* processLocalQ; unlock the track.
UnlockTrack(t) ==
  LET l == req[t].lock
      k == ref[t]
      tr == track[k]
      delete == tr.owners = 1 /\ tr.waiters = 0
      removed == [tr EXCEPT !.owners = @ - 1,
                            !.listOfOwners = RemoveFromListOfOwners(@, t)]
      staled == IF removed.owners = 0 THEN [removed EXCEPT !.state = "stale"] ELSE removed
      res == ProcessLocalQ(staled, {})
      map2 == IF delete THEN [localLockMap EXCEPT ![l] = NoTrack] ELSE localLockMap
  IN
  /\ pc[t] = "unlock_track"
  /\ localLockMap' = map2
  /\ track' = [track EXCEPT ![k] =
                 IF k \notin {map2[x] : x \in Locks} /\ \A u \in Threads \ {t} : ref[u] # k
                 THEN Garbage ELSE res.track]
  /\ wakeUp' = [u \in Threads |-> wakeUp[u] \/ u \in res.granted]
  /\ globals' = NoThread
  /\ pc' = [pc EXCEPT ![t] = "idle"]
  /\ req' = [req EXCEPT ![t] = NoReq]
  /\ ref' = [ref EXCEPT ![t] = NoTrack]
  /\ UNCHANGED <<query, resume, answer>>

\* A client asks isLockHeld(l, itself, kind).
AskHeld(t, l, kind) ==
  /\ pc[t] \in {"idle", "holding"}
  /\ query' = [query EXCEPT ![t] = [lock |-> l, kind |-> kind]]
  /\ resume' = [resume EXCEPT ![t] = pc[t]]
  /\ pc' = [pc EXCEPT ![t] = "held_lookup"]
  /\ UNCHANGED <<globals, localLockMap, track, req, ref, wakeUp, answer>>

\* isLockHeld, llm.go 138-147: lookup under globals; no track means FALSE.
HeldLookup(t) ==
  LET l == query[t].lock IN
  /\ pc[t] = "held_lookup"
  /\ globals = NoThread
  /\ IF localLockMap[l] = NoTrack
     THEN /\ answer' = [answer EXCEPT ![t] = FALSE]
          /\ pc' = [pc EXCEPT ![t] = "answered"]
          /\ UNCHANGED <<globals, ref>>
     ELSE /\ globals' = t
          /\ ref' = [ref EXCEPT ![t] = localLockMap[l]]
          /\ pc' = [pc EXCEPT ![t] = "held_read"]
          /\ UNCHANGED answer
  /\ UNCHANGED <<localLockMap, track, req, wakeUp, query, resume>>

\* isLockHeld, llm.go 149-163: under the track mutex.
HeldRead(t) ==
  /\ pc[t] = "held_read"
  /\ answer' = [answer EXCEPT ![t] = IsLockHeldIn(track[ref[t]], t, query[t].kind)]
  /\ globals' = NoThread
  /\ ref' = [ref EXCEPT ![t] = NoTrack]
  /\ pc' = [pc EXCEPT ![t] = "answered"]
  /\ UNCHANGED <<localLockMap, track, req, wakeUp, query, resume>>

\* The client goes on with the answer.
Resume(t) ==
  /\ pc[t] = "answered"
  /\ pc' = [pc EXCEPT ![t] = resume[t]]
  /\ answer' = [answer EXCEPT ![t] = FALSE]
  /\ query' = [query EXCEPT ![t] = NoQuery]
  /\ resume' = [resume EXCEPT ![t] = "idle"]
  /\ UNCHANGED <<globals, localLockMap, track, req, ref, wakeUp>>

Next ==
  \E t \in Threads :
    \/ \E l \in Locks, m \in RequestStates, try \in BOOLEAN : Request(t, l, m, try)
    \/ LockLookup(t)
    \/ LockEnqueue(t)
    \/ Wake(t)
    \/ Release(t)
    \/ UnlockLookup(t)
    \/ UnlockTrack(t)
    \/ \E l \in Locks, kind \in LockHeldTypes : AskHeld(t, l, kind)
    \/ HeldLookup(t)
    \/ HeldRead(t)
    \/ Resume(t)

(***************************************************************************)
(* Fairness.  Taking the global mutex is only intermittently possible; Go  *)
(* mutexes switch to FIFO hand-off for waiters starved over 1ms, so those  *)
(* steps are strongly fair.  A step that needs no other thread is weakly   *)
(* fair.  The client always unlocks what it holds (every fs caller defers  *)
(* or calls Unlock on each path), even if it keeps asking isLockHeld in   *)
(* between, so Release is strongly fair.  Starting a request or a query   *)
(* is up to the client.                                                    *)
(***************************************************************************)
Fairness ==
  \A t \in Threads :
    /\ SF_vars(LockLookup(t)) /\ SF_vars(UnlockLookup(t)) /\ SF_vars(HeldLookup(t))
    /\ WF_vars(LockEnqueue(t)) /\ WF_vars(Wake(t)) /\ WF_vars(UnlockTrack(t))
    /\ WF_vars(HeldRead(t)) /\ SF_vars(Release(t)) /\ WF_vars(Resume(t))

Spec == Init /\ [][Next]_vars

FairSpec == Spec /\ Fairness

-----------------------------------------------------------------------------
(* What each client thread really has: the ground truth the track's        *)
(* bookkeeping must agree with.                                            *)

HoldingPcs == {"holding", "unlock_lookup", "unlock_track"}
QueryPcs == {"held_lookup", "held_read", "answered"}

\* t has been granted lock l: it runs with it, or it was granted in
\* processLocalQ and has not yet woken up.
Holds(t, l) ==
  /\ req[t].lock = l
  /\ \/ pc[t] \in HoldingPcs
     \/ pc[t] \in QueryPcs /\ resume[t] = "holding"
     \/ pc[t] = "wait" /\ wakeUp[t]

HoldersOf(l) == {t \in Threads : Holds(t, l)}

\* Threads blocked in commonLock on l, woken or not (track.waiters).
WaitersOf(l) == {t \in Threads : pc[t] = "wait" /\ req[t].lock = l}

\* Threads whose request is still in l's waitReqQ.
QueuedOf(l) == {t \in WaitersOf(l) : ~wakeUp[t]}

TypeOK ==
  /\ globals \in Threads \cup {NoThread}
  /\ localLockMap \in [Locks -> TrackIds \cup {NoTrack}]
  /\ track \in [TrackIds -> LocalLockTrack]
  /\ pc \in [Threads -> Pcs]
  /\ req \in [Threads -> [lock : Locks, requestedState : RequestStates, try : BOOLEAN]]
  /\ ref \in [Threads -> TrackIds \cup {NoTrack}]
  /\ wakeUp \in [Threads -> BOOLEAN]
  /\ query \in [Threads -> [lock : Locks, kind : LockHeldTypes]]
  /\ resume \in [Threads -> {"idle", "holding"}]
  /\ answer \in [Threads -> BOOLEAN]

(***************************************************************************)
(* The track of every lock id agrees with what the threads really do       *)
(* (spec.md 3 invariants and 8.3): a lock with a holder or a waiter has a  *)
(* track in the map; the owners and waiters counters count them; the queue *)
(* holds exactly the requests not yet granted, once each, in their mode;  *)
(* state is stale iff nobody holds the lock, exclusive iff one thread      *)
(* holds it exclusively, shared iff only shared holders; and a track in    *)
(* the map with neither owners nor waiters exists only while its creator  *)
(* is between lookup and enqueue.  It is about the delete in unlock (line  *)
(* 290), done before owners-- on counters that include granted threads    *)
(* that have not woken yet, and about every counter update in commonLock.  *)
(***************************************************************************)
TrackMatchesHolders ==
  \A l \in Locks :
    LET k == localLockMap[l]
        tr == track[k]
        H == HoldersOf(l)
    IN IF k = NoTrack
       THEN H = {} /\ WaitersOf(l) = {}
       ELSE /\ tr.owners = Cardinality(H)
            /\ tr.waiters = Cardinality(WaitersOf(l))
            /\ Len(tr.waitReqQ) = Cardinality(QueuedOf(l))
            /\ \A i \in 1..Len(tr.waitReqQ) :
                 /\ tr.waitReqQ[i].caller \in QueuedOf(l)
                 /\ tr.waitReqQ[i].requestedState = req[tr.waitReqQ[i].caller].requestedState
            /\ (tr.state = "stale") <=> (H = {})
            /\ \A t \in H : req[t].requestedState = tr.state
            /\ tr.state = "exclusive" => Cardinality(H) = 1
            /\ tr.owners + tr.waiters = 0 =>
                 \E t \in Threads : pc[t] = "lock_enqueue" /\ req[t].lock = l

(***************************************************************************)
(* None of the panics of llm.go is reachable by a client that unlocks only *)
(* what it holds: unlock finds the track in the map (line 280), finds the  *)
(* caller in listOfOwners (line 122), and never takes the uint64 owners    *)
(* counter below zero (line 298, where the check owners < 0 can never     *)
(* fire).                                                                  *)
(***************************************************************************)
NoPanic ==
  \A t \in Threads :
    /\ pc[t] = "unlock_lookup" => localLockMap[req[t].lock] # NoTrack
    /\ pc[t] = "unlock_track" =>
         /\ CallerInListOfOwners(track[ref[t]].listOfOwners, t)
         /\ track[ref[t]].owners > 0

(***************************************************************************)
(* TryWriteLock never blocks: a try request either fails at once with      *)
(* TryAgain or is granted in the same call.  Rename's retry loop (fs       *)
(* api_internal.go 1669) depends on it; it holds only if no track is left  *)
(* stale with requests still queued, which is the job of the grant pass   *)
(* at the end of unlock.                                                   *)
(***************************************************************************)
TryNeverBlocks == \A t \in Threads : pc[t] = "wait" => ~req[t].try

\* t is granted in this step or runs with the lock after it.
GrantedNext(t) == wakeUp'[t] \/ pc'[t] = "holding"

(***************************************************************************)
(* Grants are FIFO: no step grants a queued request, or the request being *)
(* queued by commonLock, while a request ahead of it in the same waitReqQ *)
(* stays queued.  In particular a reader arriving behind a waiting writer *)
(* is never let in before it (spec.md 4.B, 5: no writer starvation).  It  *)
(* is about processLocalQ stopping at a blocked head, called from both    *)
(* commonLock and unlock.                                                  *)
(***************************************************************************)
GrantsInFifoOrder ==
  [][\A l \in Locks :
       localLockMap[l] # NoTrack =>
         LET q == track[localLockMap[l]].waitReqQ
             arriving == {t \in Threads : pc[t] = "lock_enqueue" /\ req[t].lock = l}
         IN \A i \in 1..Len(q) :
              ~GrantedNext(q[i].caller) =>
                /\ \A j \in i+1..Len(q) : ~GrantedNext(q[j].caller)
                /\ \A t \in arriving : ~GrantedNext(t)]_vars

(***************************************************************************)
(* Every blocking request is eventually granted and every try request      *)
(* eventually returns, under the fairness above: no lost wakeup, no waiter *)
(* stranded on a deleted track, no writer starved by readers.              *)
(***************************************************************************)
AcquireCompletes ==
  \A t \in Threads :
    pc[t] \in {"lock_lookup", "lock_enqueue", "wait"} ~> pc[t] \in {"holding", "idle"}

(***************************************************************************)
(* isLockHeld(l, c, kind) (llm.go 137) answers whether caller c holds l in *)
(* that mode (spec.md 4.B).  getstatHelper, readdirHelper and Coalesce's   *)
(* IsWriteHeld rely on it.                                                 *)
(***************************************************************************)
IsLockHeldAccurate ==
  \A t \in Threads :
    pc[t] = "answered" =>
      LET l == query[t].lock
          has == resume[t] = "holding" /\ req[t].lock = l
      IN answer[t] = CASE query[t].kind = "READLOCK"  -> has /\ req[t].requestedState = "shared"
                       [] query[t].kind = "WRITELOCK" -> has /\ req[t].requestedState = "exclusive"
                       [] query[t].kind = "ANYLOCK"   -> has

-----------------------------------------------------------------------------
(* The local lock manager implements the facade's reader/writer contract.  *)

AbsState(l, t) ==
  IF Holds(t, l) THEN req[t].requestedState
  ELSE IF req[t].lock = l /\ pc[t] \in {"lock_lookup", "lock_enqueue", "wait"}
       THEN IF req[t].requestedState = "shared" THEN "want_shared" ELSE "want_exclusive"
       ELSE "idle"

RW == INSTANCE RWLock WITH rw <- [l \in Locks |-> [t \in Threads |-> AbsState(l, t)]]

RWLockRefined == RW!Spec

=============================================================================
