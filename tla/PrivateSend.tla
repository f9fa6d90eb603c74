------------------------------ MODULE PrivateSend ------------------------------
(***************************************************************************)
(* The static functions of CPrivateSend (privatesend.cpp) that mixing     *)
(* clients and dynodes call: the standard denominations, the bit mask      *)
(* GetDenominations makes of a list of outputs (optionally keeping one     *)
(* random denomination), its decoding by GetDenominationsBits and          *)
(* GetDenominationsToString, GetDenominationsByAmounts, and the collateral *)
(* test IsCollateralValid.  The functions are pure; the state machine      *)
(* below is a caller that makes one call at a time with bounded inputs and *)
(* returns, so that every call and every result is a reachable state that *)
(* the invariants compare with reference definitions.                      *)
(***************************************************************************)
EXTENDS Integers, Sequences, SequencesExt, FiniteSets, FiniteSetsExt, Functions

CONSTANTS
  MaxOuts,       \* longest output or amount list a call is made with
  NonDenomAmount \* an output value that is not a standard denomination

COIN == 100000000

\* vecStandardDenominations after InitStandardDenominations: the 100 and
\* .001 denominations are commented out, so bit 0 is 10 DYN + 10000.
StandardDenominations ==
  << 10 * COIN + 10000, COIN + 1000, COIN \div 10 + 100, COIN \div 100 + 10 >>

N == Len(StandardDenominations)

ASSUME NonDenomAmount \notin Range(StandardDenominations)

\* Bit i of the 32-bit two's complement int n, i.e. (n & (1 << i)) # 0:
\* floor division is an arithmetic shift, so negative n keep their high bits.
Bit(n, i) == (n \div 2^i) % 2

(***************************************************************************)
(* GetDenominations(vecTxOut, fSingleRandomDenom).  flip[c] is what        *)
(* GetRandInt(2) returns when the loop reaches denomination c; it is only  *)
(* read when fSingleRandomDenom holds.  bit & s.second on {0,1} is a       *)
(* product, and nDenom |= bit << c adds a bit not yet set.                 *)
(***************************************************************************)
DenomUsed(vecTxOut) ==
  [c \in 1..N |-> IF StandardDenominations[c] \in Range(vecTxOut) THEN 1 ELSE 0]

AllOutputsDenominated(vecTxOut) ==
  \A k \in DOMAIN vecTxOut : vecTxOut[k] \in Range(StandardDenominations)

\* A slip: the shift counter starts one too high (bit << ++c).
ShiftUsedBits_OffByOne(used, single, flip, c) ==
  SumSet({ (IF single THEN flip[k] ELSE 1) * used[k] * 2^k : k \in c..N })

RECURSIVE ShiftUsedBits(_, _, _, _)
ShiftUsedBits(used, single, flip, c) ==
  IF c > N THEN 0
  ELSE LET bit == (IF single THEN flip[c] ELSE 1) * used[c]
       IN  IF single /\ bit = 1
           THEN bit * 2^(c - 1)
           ELSE bit * 2^(c - 1) + ShiftUsedBits(used, single, flip, c + 1)

\* A slip: an output that is no denomination does not end the scan.
GetDenominations_IgnoresNonDenom(vecTxOut, single, flip) ==
  ShiftUsedBits(DenomUsed(vecTxOut), single, flip, 1)

GetDenominations(vecTxOut, single, flip) ==
  IF ~AllOutputsDenominated(vecTxOut) THEN 0
  ELSE ShiftUsedBits(DenomUsed(vecTxOut), single, flip, 1)

\* GetDenominationsByAmounts: outputs made in reverse order, one random
\* denomination kept.
GetDenominationsByAmounts(vecAmount, flip) ==
  GetDenominations(Reverse(vecAmount), TRUE, flip)

\* GetDenominationsBits(nDenom, vecBitsRet): the out-of-bounds return comes
\* before vecBitsRet.clear(), so the caller's vector is left as it was.
BitsOf(nDenom) == SelectSeq([i \in 1..N |-> i - 1], LAMBDA i : Bit(nDenom, i) = 1)

\* A slip: the loop stops one denomination short (i < nMaxDenoms - 1).
GetDenominationsBits_ShortLoop(nDenom, vecBitsRet) ==
  IF nDenom >= 2^N THEN <<FALSE, vecBitsRet>>
  ELSE LET bits == SelectSeq([i \in 1..N - 1 |-> i - 1], LAMBDA i : Bit(nDenom, i) = 1)
       IN  <<bits # <<>>, bits>>

GetDenominationsBits(nDenom, vecBitsRet) ==
  IF nDenom >= 2^N THEN <<FALSE, vecBitsRet>>
  ELSE <<BitsOf(nDenom) # <<>>, BitsOf(nDenom)>>

\* GetDenominationsToString: FormatMoney and the "+" separator are layout;
\* the description is the list of amounts it names, or one of the two
\* words the function returns instead.
GetDenominationsToString(nDenom) ==
  IF nDenom >= 2^N THEN [text |-> "out-of-bounds", amounts |-> <<>>]
  ELSE IF BitsOf(nDenom) = <<>> THEN [text |-> "non-denom", amounts |-> <<>>]
  ELSE [text |-> "amounts",
        amounts |-> [k \in DOMAIN BitsOf(nDenom) |-> StandardDenominations[BitsOf(nDenom)[k] + 1]]]

(***************************************************************************)
(* IsCollateralValid.  A collateral is a record of its outputs (value, and *)
(* whether the script is a normal payment script), the outpoints it spends *)
(* and its nLockTime; amounts are small integers in units of the smallest  *)
(* collateral step.  The UTXO set and AcceptToMemoryPool (validation.cpp,  *)
(* not in this tree) are the environment; the dry run is taken from what   *)
(* it checks of a collateral: no outpoint spent twice, no negative output, *)
(* inputs known.                                                           *)
(***************************************************************************)
CONSTANTS
  Outpoint,          \* outpoints a collateral may spend
  UTXO,              \* UTXO[o]: value of the unspent output o, or Missing
  Missing,           \* GetUTXOCoins fails for the outpoint
  Values,            \* output values a client may put in a collateral
  MaxIO,             \* most inputs, and most outputs, of a collateral
  CollateralAmount   \* GetCollateralAmount()

ASSUME UTXO \in [Outpoint -> Nat \cup {Missing}]

Known(o) == UTXO[o] # Missing

\* nValueOut, and nValueIn as the loop adds coins.vout[prevout.n].nValue
\* once per input.
ValueOut(tx) == SumFunction([k \in DOMAIN tx.vout |-> tx.vout[k].value])
ValueIn(tx) == SumFunction([k \in DOMAIN tx.vin |-> UTXO[tx.vin[k]]])

\* AcceptToMemoryPool with fDryRun: the checks it makes of a collateral
\* that IsCollateralValid does not already make.
AcceptToMemoryPoolDryRun(tx) ==
  /\ IsInjective(tx.vin)
  /\ \A k \in DOMAIN tx.vout : tx.vout[k].value >= 0
  /\ \A k \in DOMAIN tx.vin : Known(tx.vin[k])
  /\ ValueIn(tx) >= ValueOut(tx)

IsCollateralValid(tx) ==
  /\ tx.vout # <<>>
  /\ tx.lockTime = 0
  /\ \A k \in DOMAIN tx.vout : tx.vout[k].normal
  /\ \A k \in DOMAIN tx.vin : Known(tx.vin[k])
  /\ ValueIn(tx) - ValueOut(tx) >= CollateralAmount
  /\ AcceptToMemoryPoolDryRun(tx)

-----------------------------------------------------------------------------
(***************************************************************************)
(* The caller.  last is the call in progress with its inputs and result;   *)
(* vecBitsRet is the caller's vector that GetDenominationsBits fills.      *)
(***************************************************************************)
CONSTANT DenomInputs   \* nDenom values a caller passes (network input)

VARIABLES last, vecBitsRet
vars == <<last, vecBitsRet>>

Amounts == Range(StandardDenominations) \cup {NonDenomAmount}
Flips == [1..N -> {0, 1}]
NoFlip == [c \in 1..N |-> 0]
Idle == [op |-> "none"]

Init == last = Idle /\ vecBitsRet = <<>>

CallGetDenominations ==
  /\ last = Idle
  /\ \E outs \in BoundedSeq(Amounts, MaxOuts) :
       last' = [op |-> "GetDenominations", outs |-> outs,
                res |-> GetDenominations(outs, FALSE, NoFlip)]
  /\ UNCHANGED vecBitsRet

CallGetDenominationsByAmounts ==
  /\ last = Idle
  /\ \E amounts \in BoundedSeq(Amounts, MaxOuts), flip \in Flips :
       last' = [op |-> "GetDenominationsByAmounts", amounts |-> amounts,
                res |-> GetDenominationsByAmounts(amounts, flip)]
  /\ UNCHANGED vecBitsRet

CallGetDenominationsBits ==
  /\ last = Idle
  /\ \E n \in DenomInputs :
       LET r == GetDenominationsBits(n, vecBitsRet)
       IN  /\ last' = [op |-> "GetDenominationsBits", n |-> n, res |-> r[1]]
           /\ vecBitsRet' = r[2]

CallGetDenominationsToString ==
  /\ last = Idle
  /\ \E n \in DenomInputs :
       last' = [op |-> "GetDenominationsToString", n |-> n,
                res |-> GetDenominationsToString(n)]
  /\ UNCHANGED vecBitsRet

Collaterals ==
  [vout : BoundedSeq([value : Values, normal : BOOLEAN], MaxIO),
   vin : BoundedSeq(Outpoint, MaxIO),
   lockTime : {0, 1}]

\* A dynode checks the collateral a client sends with its entry or queue.
CallIsCollateralValid ==
  /\ last = Idle
  /\ \E tx \in Collaterals :
       last' = [op |-> "IsCollateralValid", tx |-> tx, res |-> IsCollateralValid(tx)]
  /\ UNCHANGED vecBitsRet

Return ==
  /\ last # Idle
  /\ last' = Idle
  /\ UNCHANGED vecBitsRet

Next ==
  \/ CallGetDenominations
  \/ CallGetDenominationsByAmounts
  \/ CallGetDenominationsBits
  \/ CallGetDenominationsToString
  \/ CallIsCollateralValid
  \/ Return

Spec == Init /\ [][Next]_vars

-----------------------------------------------------------------------------
\* Reference definitions, written from the documented meaning of the mask.
UsedDenominations(outs) == {c \in 1..N : StandardDenominations[c] \in Range(outs)}

RefMask(outs) ==
  IF \E k \in DOMAIN outs : outs[k] \notin Range(StandardDenominations) THEN 0
  ELSE SumSet({2^(c - 1) : c \in UsedDenominations(outs)})

\* Bit 31 of an int is its sign (2^31 is past TLC's integers).
HasHighBit(n) == n < 0 \/ \E i \in N..30 : Bit(n, i) = 1

TypeOK ==
  /\ last.op \in {"none", "GetDenominations", "GetDenominationsByAmounts",
                  "GetDenominationsBits", "GetDenominationsToString",
                  "IsCollateralValid"}
  /\ vecBitsRet \in BoundedSeq(0..N - 1, N)
  /\ last.op \in {"GetDenominations", "GetDenominationsByAmounts"} =>
        last.res \in 0..2^N - 1

\* GetDenominations without a random choice sets exactly the bits of the
\* standard denominations present among the outputs, and is 0 as soon as
\* one output is not a standard denomination.
DenominationsMatchReference ==
  last.op = "GetDenominations" => last.res = RefMask(last.outs)

\* GetDenominationsBits decodes every mask in range: it returns true
\* exactly when the mask is not 0, and vecBitsRet lists its bits in
\* increasing order.
BitsDecodeMask ==
  (last.op = "GetDenominationsBits" /\ last.n \in 0..2^N - 1) =>
    /\ last.res = (last.n # 0)
    /\ IsSorted(vecBitsRet, <)
    /\ SumSet({2^b : b \in Range(vecBitsRet)}) = last.n

\* The comment of GetDenominationsToString: "bit 4 and so on -
\* out-of-bounds".  A value with a bit at or above the number of
\* denominations is reported out-of-bounds, and GetDenominationsBits,
\* which makes the same range test, refuses it.
OutOfBoundsDetected ==
  /\ (last.op = "GetDenominationsToString" /\ HasHighBit(last.n)) =>
        last.res.text = "out-of-bounds"
  /\ (last.op = "GetDenominationsBits" /\ HasHighBit(last.n)) => ~last.res
=============================================================================
