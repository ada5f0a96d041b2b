----------------------------- MODULE InodeLock ------------------------------
(***************************************************************************)
(* The inode lock of the fs layer, as the local lock manager keeps one     *)
(* track (src/dlm/llm.go): a FIFO reader/writer lock whose queue is        *)
(* drained by processLocalQ.  One lock call is one step here; the threads  *)
(* and mutexes inside the lock manager are modelled in LLM.  The operators *)
(* are pure: they take the map of locks L and return the new map with the  *)
(* callers whose queued requests were granted (their Cond.Broadcast).      *)
(* Owners are counted per caller id, since one caller id may hold a lock   *)
(* twice.                                                                  *)
(***************************************************************************)
EXTENDS Naturals, Sequences

CONSTANT Callers     \* lock caller ids

Modes == {"shared", "exclusive"}          \* ReadLock, WriteLock

LockRec == [state : {"stale", "shared", "exclusive"},
            owners : [Callers -> 0..2],
            queue : Seq([caller : Callers, mode : Modes])]

\* A track as commonLock creates it.
FreeLock == [state |-> "stale", owners |-> [c \in Callers |-> 0], queue |-> <<>>]

\* grantAndSignal of the head request r.
Grant1(t, r) ==
  [t EXCEPT !.state = r.mode, !.owners[r.caller] = @ + 1, !.queue = Tail(@)]

\* processLocalQ: grant from the head while possible.
RECURSIVE GrantPass(_, _)
GrantPass(t, granted) ==
  IF t.queue = <<>> \/ t.state = "exclusive" THEN [lock |-> t, granted |-> granted]
  ELSE LET r == Head(t.queue) IN
       IF r.mode = "exclusive" /\ t.state = "stale"
       THEN [lock |-> Grant1(t, r), granted |-> granted \cup {r.caller}]
       ELSE IF r.mode = "exclusive" THEN [lock |-> t, granted |-> granted]
       ELSE GrantPass(Grant1(t, r), granted \cup {r.caller})

\* commonLock without try: queue c's request in mode m, run the grant pass.
Acquire(L, i, c, m) ==
  LET res == GrantPass([L[i] EXCEPT !.queue = Append(@, [caller |-> c, mode |-> m])], {})
  IN [locks |-> [L EXCEPT ![i] = res.lock], granted |-> res.granted]

\* The try check of commonLock: TryAgain instead of queueing.
TryBusy(t, m) == IF m = "exclusive" THEN t.state # "stale" ELSE t.state = "exclusive"

\* A grant pass that is never run (a mutant of Unlock).
UnlockNoGrant(L, i, c) ==
  LET o == [L[i].owners EXCEPT ![c] = @ - 1]
      t == [L[i] EXCEPT !.owners = o,
                        !.state = IF \A d \in Callers : o[d] = 0 THEN "stale" ELSE @]
  IN [locks |-> [L EXCEPT ![i] = t], granted |-> {}]

\* unlock by c: owners--, stale at zero owners, then the grant pass.
Unlock(L, i, c) ==
  LET o == [L[i].owners EXCEPT ![c] = @ - 1]
      t == [L[i] EXCEPT !.owners = o,
                        !.state = IF \A d \in Callers : o[d] = 0 THEN "stale" ELSE @]
      res == GrantPass(t, {})
  IN [locks |-> [L EXCEPT ![i] = res.lock], granted |-> res.granted]

\* Unlock every inode of the sequence s in turn (deferred unlocks).
RECURSIVE UnlockAll(_, _, _)
UnlockAll(L, s, c) ==
  IF s = <<>> THEN [locks |-> L, granted |-> {}]
  ELSE LET u1 == Unlock(L, Head(s), c)
           u2 == UnlockAll(u1.locks, Tail(s), c)
       IN [locks |-> u2.locks, granted |-> u1.granted \cup u2.granted]

\* The wait-for relation: c waits for d when c's request is queued on a
\* lock that d holds or that d's request precedes in the queue.
WaitsOn(L, Ids) ==
  [p \in Callers \X Callers |->
     \E i \in Ids : \E k \in 1..Len(L[i].queue) :
        /\ L[i].queue[k].caller = p[1]
        /\ \/ L[i].owners[p[2]] > 0
           \/ \E j \in 1..k-1 : L[i].queue[j].caller = p[2]]

=============================================================================
