------------------------- MODULE MC_PrivateSendPSTX -------------------------
EXTENDS PrivateSendPSTX, TLC

CONSTANTS p1, p2

MCTx == {p1, p2}

\* The two hashes play the same part.
MCSymmetry == Permutations(MCTx)
=============================================================================
