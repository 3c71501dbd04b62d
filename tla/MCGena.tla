------------------------------- MODULE MCGena -------------------------------
(* Small instances of Gena for TLC.                                        *)
EXTENDS Gena, TLC

CONSTANTS t1, t2, s1, s2

TwoTimers   == 1..2
FourTimers  == 1..4

Symmetry == Permutations(Threads) \cup Permutations(Subs)

=============================================================================
