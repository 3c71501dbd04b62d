--------------------------- MODULE MCTimerThread ---------------------------
(* Small instances of TimerThread for TLC.                                 *)
EXTENDS TimerThread, TLC

CONSTANTS c1, c2, e1, e2, e3

Symmetry == Permutations(Events \ PersistentEvents)

=============================================================================
