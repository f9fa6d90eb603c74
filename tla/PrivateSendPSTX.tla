--------------------------- MODULE PrivateSendPSTX ---------------------------
(***************************************************************************)
(* CPrivateSend::mapPSTX, the PrivateSend broadcast transactions a node    *)
(* keeps, with the height of the block that confirmed each (privatesend.  *)
(* cpp AddPSTX, GetPSTX, SyncTransaction, CheckPSTXes and                  *)
(* CPrivatesendBroadcastTx::IsExpired).  The chain is the environment: a   *)
(* block is connected or the tip disconnected, and each tx of that block   *)
(* is passed to SyncTransaction with the block, or with no block when it   *)
(* leaves the chain, as the validation interface does.                     *)
(***************************************************************************)
EXTENDS Integers, FiniteSets, Functions, TLC

CONSTANTS
  Tx,         \* hashes of mixing transactions
  MaxHeight   \* the highest block the chain grows to

\* The literal of IsExpired: confirmed PSTXes expire ~1h after confirmation.
PSTX_EXPIRY_DEPTH == 24

Unconfirmed == -1

VARIABLES
  mapPSTX,    \* hash -> nConfirmedHeight of its CPrivatesendBroadcastTx
  txHeight,   \* environment: height of the active-chain block holding tx, or -1
  tip         \* environment: height of the active chain

vars == <<mapPSTX, txHeight, tip>>

IsExpired(nConfirmedHeight, nHeight) ==
  nConfirmedHeight # Unconfirmed /\ nHeight - nConfirmedHeight > PSTX_EXPIRY_DEPTH

\* GetPSTX: a default CPrivatesendBroadcastTx (never confirmed) when the
\* hash is not in the map.
GetPSTX(m, hash) == IF hash \in DOMAIN m THEN m[hash] ELSE Unconfirmed

\* AddPSTX: std::map::insert, which keeps an entry already there.
AddPSTXTo(m, hash) == IF hash \in DOMAIN m THEN m ELSE (hash :> Unconfirmed) @@ m

\* A slip: 0 instead of -1 stands for "no block".
SyncTransaction_ZeroForNull(m, hash, pblockHeight, blockFound) ==
  IF hash \notin DOMAIN m \/ (pblockHeight # Unconfirmed /\ ~blockFound) THEN m
  ELSE [m EXCEPT ![hash] = IF pblockHeight = Unconfirmed THEN 0 ELSE pblockHeight]

SyncTransaction(m, hash, pblockHeight, blockFound) ==
  IF hash \notin DOMAIN m THEN m
  ELSE IF pblockHeight # Unconfirmed /\ ~blockFound THEN m
  ELSE [m EXCEPT ![hash] = pblockHeight]

\* SyncTransaction for every tx of a set, each with the same block.
SyncAll(m, txs, pblockHeight) ==
  [h \in DOMAIN m |-> IF h \in txs THEN SyncTransaction(m, h, pblockHeight, TRUE)[h]
                                   ELSE m[h]]

\* CheckPSTXes(nHeight): erase every expired entry.
CheckPSTXesAt(m, nHeight) ==
  Restrict(m, {h \in DOMAIN m : ~IsExpired(m[h], nHeight)})

Init ==
  /\ mapPSTX = [h \in {} |-> Unconfirmed]
  /\ txHeight = [t \in Tx |-> Unconfirmed]
  /\ tip = 0

\* The PSTX message handler keeps a tx it accepted into the mempool, so the
\* tx is not in the active chain when AddPSTX runs.
AddPSTX(t) ==
  /\ txHeight[t] = Unconfirmed
  /\ mapPSTX' = AddPSTXTo(mapPSTX, t)
  /\ UNCHANGED <<txHeight, tip>>

\* A block at tip + 1 with the unconfirmed txs of S; SyncTransaction for each.
ConnectBlock(S) ==
  /\ tip < MaxHeight
  /\ \A t \in S : txHeight[t] = Unconfirmed
  /\ tip' = tip + 1
  /\ txHeight' = [t \in Tx |-> IF t \in S THEN tip + 1 ELSE txHeight[t]]
  /\ mapPSTX' = SyncAll(mapPSTX, S, tip + 1)

\* The tip is disconnected; its txs go back with a NULL pblock.
DisconnectBlock ==
  LET left == {t \in Tx : txHeight[t] = tip}
  IN  /\ tip > 0
      /\ tip' = tip - 1
      /\ txHeight' = [t \in Tx |-> IF t \in left THEN Unconfirmed ELSE txHeight[t]]
      /\ mapPSTX' = SyncAll(mapPSTX, left, Unconfirmed)

\* CheckPSTXes with the height of the current tip.
CheckPSTXes ==
  /\ mapPSTX' = CheckPSTXesAt(mapPSTX, tip)
  /\ UNCHANGED <<txHeight, tip>>

Next ==
  \/ \E t \in Tx : AddPSTX(t)
  \/ \E S \in SUBSET Tx : ConnectBlock(S)
  \/ DisconnectBlock
  \/ CheckPSTXes

Spec == Init /\ [][Next]_vars

-----------------------------------------------------------------------------
TypeOK ==
  /\ DOMAIN mapPSTX \subseteq Tx
  /\ \A h \in DOMAIN mapPSTX : mapPSTX[h] \in {Unconfirmed} \cup 1..MaxHeight
  /\ txHeight \in [Tx -> {Unconfirmed} \cup 1..MaxHeight]
  /\ tip \in 0..MaxHeight
=============================================================================
