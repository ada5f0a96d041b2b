------------------------------- MODULE MC_LLM -------------------------------
(* Model-checking instance of LLM.  Safety: three caller ids, so that a    *)
(* writer can queue between two readers, one lock id and two track         *)
(* addresses, so that a deleted track can still be referenced while a new  *)
(* one is created for the same id.  Liveness: two caller ids.              *)
EXTENDS LLM, TLC

CONSTANTS t1, t2, t3, lockA, lockB, k1, k2, k3

MCThreads == {t1, t2, t3}
MCTwoThreads == {t1, t2}
MCLocks == {lockA, lockB}
MCOneLock == {lockA}
MCTrackIds == {k1, k2, k3}
MCTwoTrackIds == {k1, k2}

\* Caller ids and track addresses are interchangeable (safety runs only).
Symmetry == Permutations(MCThreads) \cup Permutations(MCTwoTrackIds)
=============================================================================
