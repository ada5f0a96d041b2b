------------------------------ MODULE MC_Flock ------------------------------
(* Model-checking instance of Flock: 3-bit offsets, two pids, and offsets  *)
(* that make locks overlap, touch end to end, and run to the end of file. *)
EXTENDS Flock, TLC

CONSTANTS c1, c2, p1, p2, e1, e2, e3, e4

MCOneCaller == {c1}
MCTwoCallers == {c1, c2}
MCPids == {p1, p2}
MCElemIds3 == {e1, e2, e3}
MCElemIds4 == {e1, e2, e3, e4}

\* Starts and lengths whose sums stay within 3 bits.
MCStarts == {0, 2, 4}
MCLens == {0, 2, 3}

\* A start near the top and a length that makes Start + Len wrap.
MCWrapStarts == {2, 6}
MCWrapLens == {0, 3}
=============================================================================
