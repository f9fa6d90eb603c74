CONSTANTS
  t1 = t1
  t2 = t2
  d1 = d1
  d2 = d2
  d3 = d3
  d4 = d4
  Tx <- MCTx
  Outpoint <- MCOutpointOne
  Dynode <- MCDynode4
  Me = d1
  NetVoters = {d2, d3, d4}
  InputsOf <- MCInputsOfSame
  Eligible <- MCEligible4
  WellFormed = {t1, t2}
  HashOrder <- MCHashOrder4
  SIGNATURES_REQUIRED = 2
  LOCK_TIMEOUT = 0
  FAILED_TIMEOUT = 1
  ORPHAN_KEEP = 1
  KEEP_LOCK = 0
  StrayVotes = FALSE
  SignMayFail = FALSE
  MempoolEvicts = FALSE
  KnownAtStart = {d1, d2, d3, d4}
  InitHeight = 1
  MAX_REORG = 0
  MaxTime = 1
  MaxHeight = 1

SPECIFICATION Spec

INVARIANTS
  LockedNeverReportedTimedOut
