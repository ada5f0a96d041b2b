------------------------------- MODULE RWLock -------------------------------
(***************************************************************************)
(* The promise the DLM facade makes to its callers (spec.md 4.B, 4.C):     *)
(* per lock id, a reader/writer lock.  A caller first asks for the lock in *)
(* a mode; it is later handed the lock, possibly in the same step in which *)
(* another caller lets go of it; a try-write request may be abandoned, but *)
(* only while somebody else holds the lock.  At every instant the holders  *)
(* of a lock are either any number of shared holders or one exclusive     *)
(* holder.  There is no in-place upgrade or downgrade.                     *)
(***************************************************************************)
EXTENDS Naturals, FiniteSets

CONSTANTS Threads,   \* caller ids
          Locks      \* lock ids, one per (volume, inode)

VARIABLE rw          \* rw[l][t]: where caller t stands with respect to lock l

CallerStates == {"idle", "want_shared", "want_exclusive", "shared", "exclusive"}

Held(s) == s \in {"shared", "exclusive"}

Wanted(s) == s \in {"want_shared", "want_exclusive"}

GrantedMode(s) == IF s = "want_shared" THEN "shared" ELSE "exclusive"

Holders(l) == {t \in Threads : Held(rw[l][t])}

\* No exclusive holder shares the lock with any other holder.
Compatible(f) ==
  \A t, u \in Threads : t # u /\ f[t] = "exclusive" => ~Held(f[u])

TypeOK == rw \in [Locks -> [Threads -> CallerStates]]

Init == rw = [l \in Locks |-> [t \in Threads |-> "idle"]]

Request(t, l, m) ==
  /\ rw[l][t] = "idle"
  /\ rw' = [rw EXCEPT ![l][t] = IF m = "shared" THEN "want_shared" ELSE "want_exclusive"]

\* A try-write request that found the lock busy.
GiveUp(t, l) ==
  /\ rw[l][t] = "want_exclusive"
  /\ Holders(l) \ {t} # {}
  /\ rw' = [rw EXCEPT ![l][t] = "idle"]

\* At most one holder R lets go and a set S of requesters is granted.
Hand(l, R, S) ==
  /\ R \subseteq Holders(l)
  /\ Cardinality(R) <= 1
  /\ \A t \in S : Wanted(rw[l][t])
  /\ R \cup S # {}
  /\ LET f == [t \in Threads |-> IF t \in R THEN "idle"
                                 ELSE IF t \in S THEN GrantedMode(rw[l][t])
                                 ELSE rw[l][t]]
     IN /\ Compatible(f)
        /\ rw' = [rw EXCEPT ![l] = f]

Next ==
  \E l \in Locks :
    \/ \E t \in Threads, m \in {"shared", "exclusive"} : Request(t, l, m)
    \/ \E t \in Threads : GiveUp(t, l)
    \/ \E R, S \in SUBSET Threads : Hand(l, R, S)

Spec == Init /\ [][Next]_rw

=============================================================================
