---------------------------- MODULE MCTimerHeap ----------------------------
(***************************************************************************)
(* Instances of the timer heap.                                            *)
(***************************************************************************)
EXTENDS TimerHeap, TLC

CONSTANTS e1, e2, e3, e4, e5, e6

FewEntries == {e1, e2}

\* Enough for a node to have a grandchild on the other side of the root.
SixEntries == {e1, e2, e3, e4, e5, e6}
AnyOrder == Permutations(Entries)

\* Two delays, of which the longer one passes the other on its way up.
TwoDelays == {0, 1}
=============================================================================
