CONSTANTS
  MaxOuts = 3
  NonDenomAmount <- MCNonDenomAmount
  DenomInputs <- MCDenomInputs
  NoCoin = NoCoin
  Missing = NoCoin
  Outpoint <- MCOutpoint
  UTXO <- MCUTXO
  Values <- MCValues
  MaxIO = 2
  CollateralAmount = 1

SPECIFICATION Spec

INVARIANT OutOfBoundsDetected
