--------------------------- MODULE MC_InstantSend ---------------------------
(* Two competing lock requests: t1 spends outpoint 1, t2 spends 2 and 1.   *)
(* Three dynodes are ranked for every outpoint and two signatures lock an  *)
(* outpoint, so any two quorums of one outpoint share a dynode, as         *)
(* SIGNATURES_REQUIRED = 6 of SIGNATURES_TOTAL = 10 do in the code.        *)
EXTENDS InstantSend

CONSTANTS t1, t2, d1, d2, d3, d4

MCTx == {t1, t2}
MCOutpoint == {1, 2}
MCDynode == {d1, d2, d3}
\* For the broken-quorum run: a fourth dynode, so that two disjoint pairs of
\* dynodes each make a quorum of one outpoint.
MCDynode4 == {d1, d2, d3, d4}
\* Two requests that spend the same single outpoint.
MCInputsOfSame == (t1 :> <<1>>) @@ (t2 :> <<1>>)
\* The broken-quorum run uses outpoint 1 only.
MCOutpointOne == {1}
MCEligible4 == [o \in MCOutpointOne |-> MCDynode4]
MCHashOrder4 ==
  LET ts == <<t1, t2>>  ds == <<d1, d2, d3, d4>>
  IN [i \in 1..8 |-> << ts[((i - 1) % 2) + 1], 1, ds[((i - 1) \div 2) + 1] >>]
MCInputsOf == (t1 :> <<1>>) @@ (t2 :> <<2, 1>>)
\* For the liveness run: two requests that spend different outpoints.
MCInputsOfDisjoint == (t1 :> <<1>>) @@ (t2 :> <<2>>)
MCEligible == [o \in MCOutpoint |-> MCDynode]
\* A node that is not a dynode itself (fDynodeMode false): only the other
\* dynodes are ranked, so the local Vote() never adds a vote.
MCEligibleOthers == [o \in MCOutpoint |-> MCDynode \ {d1}]
\* One fixed order of the vote hashes: dynode-major, then outpoint, then tx.
MCHashOrder ==
  LET ts == <<t1, t2>>  ds == <<d1, d2, d3>>
  IN [i \in 1..12 |-> << ts[((i - 1) % 2) + 1],
                         (((i - 1) \div 2) % 2) + 1,
                         ds[((i - 1) \div 4) + 1] >>]

=============================================================================
