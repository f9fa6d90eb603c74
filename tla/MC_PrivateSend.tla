---------------------------- MODULE MC_PrivateSend ----------------------------
EXTENDS PrivateSend

\* Outputs that are not a denomination: one whole coin, which the
\* denominations (1 DYN + 1000 duffs) deliberately miss.
MCNonDenomAmount == COIN

\* nDenom as a peer may send it: every in-range mask, the first values out
\* of range, and negative ints, whose bit 31 is set.
MCDenomInputs == {-2147483647 - 1, -16, -1} \cup (0..17) \cup {2147483647}

\* Collaterals: three outpoints, one worth the collateral amount, one
\* worth twice it, one unknown to the UTXO set; outputs of -1 to 2 units.
CONSTANT NoCoin
MCOutpoint == {1, 2, 3}
MCUTXO == [o \in MCOutpoint |-> IF o = 3 THEN NoCoin ELSE o]
MCValues == -1..2
=============================================================================
