----------------------------- MODULE InstantSend -----------------------------
(***************************************************************************)
(* The transaction-lock manager CInstantSend of one node (instantsend.cpp)*)
(* with the lock candidates (CTxLockCandidate), per-outpoint vote sets    *)
(* (COutPointLock), votes (CTxLockVote) and the orphan-vote buffer.       *)
(*                                                                         *)
(* Every public entry point holds cs_main and cs_instantsend for its whole *)
(* run, so each is one atomic action.  The handlers are written as         *)
(* operators from a state record to a state record (and a return value     *)
(* where the C++ returns one), so that nested calls such as                *)
(* TryToFinalizeLockCandidate -> ResolveConflicts -> CheckAndRemove reuse  *)
(* the same definitions, in the order the code makes them.                 *)
(***************************************************************************)
EXTENDS Integers, FiniteSets, Sequences, SequencesExt, Functions, TLC

CONSTANTS
  Tx,                  \* transaction hashes that lock requests and votes name
  Outpoint,            \* outpoints (naturals: std::map iterates them in < order)
  Dynode,              \* dynode identities (collateral outpoints)
  Me,                  \* this node's own dynode identity (activeDynode.outpoint)
  NetVoters,           \* dynodes whose votes reach this node over the network
  InputsOf,            \* InputsOf[t]: the prevouts of t's vin, in vin order
  Eligible,            \* Eligible[o]: dynodes ranked within SIGNATURES_TOTAL for o
  WellFormed,          \* requests passing the non-UTXO checks of CTxLockRequest::IsValid
  SIGNATURES_REQUIRED, \* COutPointLock::SIGNATURES_REQUIRED
  LOCK_TIMEOUT,        \* INSTANTSEND_LOCK_TIMEOUT_SECONDS, in ticks
  FAILED_TIMEOUT,      \* INSTANTSEND_FAILED_TIMEOUT_SECONDS, in ticks
  ORPHAN_KEEP,         \* the 60*10 seconds an orphan-vote rate entry is kept, in ticks
  KEEP_LOCK,           \* Consensus nInstantSendKeepLock, in blocks
  StrayVotes,          \* whether the network may send a vote on an outpoint its tx does not spend
  SignMayFail,         \* whether CTxLockVote::Sign or CheckSignature may fail in Vote()
  MempoolEvicts,       \* whether the mempool may drop a tx it holds (expiry, size limit)
  KnownAtStart,        \* dynodes in this node's dynode list (dnodeman) at the start
  HashOrder,           \* every VoteId once, in the (arbitrary, fixed) order of their hashes
  InitHeight,          \* chain height when the model starts
  MAX_REORG,           \* deepest reorganisation: blocks below the best tip ever reached
  MaxTime, MaxHeight   \* bounds of the wall clock and of the chain height

ASSUME
  /\ Me \in Dynode /\ NetVoters \subseteq Dynode /\ Me \notin NetVoters
  /\ Outpoint \subseteq Nat
  /\ InputsOf \in [Tx -> Seq(Outpoint)]
  /\ \A t \in Tx : Len(InputsOf[t]) > 0 /\ IsInjective(InputsOf[t])
  /\ Eligible \in [Outpoint -> SUBSET Dynode]
  /\ KnownAtStart \subseteq Dynode /\ Me \in KnownAtStart
  /\ WellFormed \subseteq Tx
  /\ StrayVotes \in BOOLEAN /\ SignMayFail \in BOOLEAN /\ MempoolEvicts \in BOOLEAN
  /\ HashOrder \in Seq(Tx \X Outpoint \X Dynode)
  /\ SIGNATURES_REQUIRED \in Nat \ {0}
  /\ FAILED_TIMEOUT > LOCK_TIMEOUT
  /\ InitHeight > KEEP_LOCK /\ MaxHeight >= InitHeight /\ MAX_REORG \in Nat

NoHeight == -1           \* nConfirmedHeight of something not in a block

Inputs(t) == Range(InputsOf[t])

\* A vote is identified by what CTxLockVote::GetHash() serialises.
VoteId == Tx \X Outpoint \X Dynode
VTx(v) == v[1]
VOut(v) == v[2]
VDn(v) == v[3]

VARIABLES
  candidates,      \* mapTxLockCandidates: Tx -> candidate record
  txLockVotes,     \* mapTxLockVotes: VoteId -> [created, confirmed, null]
  orphanVotes,     \* mapTxLockVotesOrphan: VoteId -> nTimeCreated of the vote
  lockedOutpoints, \* mapLockedOutpoints: Outpoint -> Tx
  votedOutpoints,  \* mapVotedOutpoints: Outpoint -> SUBSET Tx
  accepted,        \* keys of mapLockRequestAccepted
  rejected,        \* keys of mapLockRequestRejected
  dnOrphanVotes,   \* mapDynodeOrphanVotes: Dynode -> expiry time
  banned,          \* dynodes given dnodeman.PoSeBan
  notified,        \* txs announced by NotifyTransactionLock
  now,             \* GetTime()
  height,          \* nCachedBlockHeight (= chain tip)
  mined,           \* chain: Tx -> height of the block that includes it
  mempool,         \* txs in the mempool (mempool.mapNextTx)
  dnKnown,         \* dynodes in this node's dynode list (dnodeman.Has)
  best             \* environment: the highest tip height the chain has reached

vars == <<candidates, txLockVotes, orphanVotes, lockedOutpoints, votedOutpoints,
          accepted, rejected, dnOrphanVotes, banned, notified, now, height,
          mined, mempool, dnKnown, best>>

-----------------------------------------------------------------------------
(* The state CInstantSend owns, as one record the handlers transform.     *)
S == [cand |-> candidates, votes |-> txLockVotes, orphans |-> orphanVotes,
      locked |-> lockedOutpoints, voted |-> votedOutpoints, acc |-> accepted,
      rej |-> rejected, dnOrphan |-> dnOrphanVotes, banned |-> banned,
      notified |-> notified]

\* Binding by value: e is evaluated once and its value handed to Op.  The
\* handlers thread one state through many steps; binding each intermediate
\* state keeps TLC from re-evaluating the chain at every use of it.
Bind(e, Op(_)) == CHOOSE r \in {Op(x) : x \in {e}} : TRUE

Commit(e) ==
  \E s \in {e} :
  /\ candidates' = s.cand /\ txLockVotes' = s.votes /\ orphanVotes' = s.orphans
  /\ lockedOutpoints' = s.locked /\ votedOutpoints' = s.voted
  /\ accepted' = s.acc /\ rejected' = s.rej /\ dnOrphanVotes' = s.dnOrphan
  /\ banned' = s.banned /\ notified' = s.notified

Drop(f, K) == Restrict(f, DOMAIN f \ K)

\* The UTXO view: an outpoint is gone once a tx spending it is in a block.
Unspent(o) == \A t \in DOMAIN mined : o \notin Inputs(t)

-----------------------------------------------------------------------------
(* COutPointLock and CTxLockCandidate                                      *)
EmptyLock == [votes |-> {}, attacked |-> FALSE]
NoLocks == [o \in {} |-> EmptyLock]

NewCandidate(hasRequest, locks) ==
  [req |-> hasRequest, locks |-> locks, created |-> now, confirmed |-> NoHeight]

\* A definition named Op_Slip is Op with one slip the code could plausibly
\* make (a dropped test, an off-by-one, a reordered step); the properties
\* below must tell each such variant from the code.
IsReady_IgnoresAttack(l) == Cardinality(l.votes) >= SIGNATURES_REQUIRED

IsReady(l) == Cardinality(l.votes) >= SIGNATURES_REQUIRED /\ ~l.attacked

IsAllOutPointsReady_Any(c) ==
  DOMAIN c.locks # {} /\ \E o \in DOMAIN c.locks : IsReady(c.locks[o])

IsAllOutPointsReady(c) ==
  DOMAIN c.locks # {} /\ \A o \in DOMAIN c.locks : IsReady(c.locks[o])

\* COutPointLock::HasDynodeVoted and COutPointLock::AddVote: <<lock, ok>>.
OutPointLockHasDynodeVoted(l, d) == d \in l.votes

OutPointLockAddVote(l, d) ==
  IF OutPointLockHasDynodeVoted(l, d) THEN <<l, FALSE>>
  ELSE <<[l EXCEPT !.votes = @ \cup {d}], TRUE>>

HasDynodeVoted(c, o, d) ==
  o \in DOMAIN c.locks /\ OutPointLockHasDynodeVoted(c.locks[o], d)

MarkOutpointAsAttacked(c, o) ==
  IF o \in DOMAIN c.locks THEN [c EXCEPT !.locks[o].attacked = TRUE] ELSE c

\* CTxLockCandidate::AddVote: <<candidate, ok>>.
CandAddVote(c, o, d) ==
  IF o \notin DOMAIN c.locks THEN <<c, FALSE>>
  ELSE Bind(OutPointLockAddVote(c.locks[o], d), LAMBDA r :
       <<[c EXCEPT !.locks[o] = r[1]], r[2]>>)

CandIsExpired_NoConfirmTest(c) == height - c.confirmed > KEEP_LOCK

CandIsExpired(c) == c.confirmed # NoHeight /\ height - c.confirmed > KEEP_LOCK
CandIsTimedOut(c) == now - c.created > LOCK_TIMEOUT

-----------------------------------------------------------------------------
(* Queries of CInstantSend                                                 *)
\* GetLockedOutPointTxHash: <<found, hashRet>>, hashRet only when found.
GetLockedOutPointTxHash(s, o) ==
  IF o \in DOMAIN s.locked THEN <<TRUE, s.locked[o]>> ELSE <<FALSE>>

IsLockedInstantSendTransaction(s, t) ==
  /\ t \in DOMAIN s.cand
  /\ DOMAIN s.cand[t].locks # {}
  /\ \A o \in DOMAIN s.cand[t].locks :
       LET r == GetLockedOutPointTxHash(s, o) IN r[1] /\ r[2] = t

\* The read-only queries wallets and RPCs ask of the lock manager.  The
\* fEnableInstantSend, fork-warning and spork tests are taken to pass.
IsInstantSendReadyToLock(s, t) ==
  t \in DOMAIN s.cand /\ IsAllOutPointsReady(s.cand[t])

\* nInstantSendDepth = DEFAULT_INSTANTSEND_DEPTH.
INSTANTSEND_DEPTH == 5
GetConfirmations(s, t) ==
  IF IsLockedInstantSendTransaction(s, t) THEN INSTANTSEND_DEPTH ELSE 0

IsTxLockCandidateTimedOut(s, t) ==
  /\ t \in DOMAIN s.cand
  /\ ~IsAllOutPointsReady(s.cand[t])
  /\ CandIsTimedOut(s.cand[t])

VoteIsExpired(e) == e.confirmed # NoHeight /\ height - e.confirmed > KEEP_LOCK
\* A slip: an orphan counts as timed out at its deadline, not after it.
VoteIsTimedOut_Early(created) == now - created >= LOCK_TIMEOUT

VoteIsTimedOut(created) == now - created > LOCK_TIMEOUT
\* A default-constructed entry (null) has a null tx hash, never locked.
VoteIsFailed(s, v) ==
  /\ now - s.votes[v].created > FAILED_TIMEOUT
  /\ s.votes[v].null \/ ~IsLockedInstantSendTransaction(s, VTx(v))

GetAverageDynodeOrphanVoteTime(s) ==
  IF DOMAIN s.dnOrphan = {} THEN 0
  ELSE SumFunction(s.dnOrphan) \div Cardinality(DOMAIN s.dnOrphan)

IsEnoughOrphanVotesForTx(s, t) ==
  \A o \in Inputs(t) :
    Cardinality({v \in DOMAIN s.orphans : VTx(v) = t /\ VOut(v) = o})
      >= SIGNATURES_REQUIRED

-----------------------------------------------------------------------------
(* CInstantSend::CheckAndRemove: the sweep, in the code's order.          *)
\* The five passes of the sweep, each over the state the previous one left.
RemoveExpiredCandidates(s) ==
  LET expired == {t \in DOMAIN s.cand : CandIsExpired(s.cand[t])}
      ops     == UNION {DOMAIN s.cand[t].locks : t \in expired}
  IN [s EXCEPT !.locked = Drop(@, ops), !.voted = Drop(@, ops),
               !.acc = @ \ expired, !.rej = @ \ expired,
               !.cand = Drop(@, expired)]

RemoveExpiredVotes(s) ==
  [s EXCEPT !.votes = Drop(@, {v \in DOMAIN s.votes : VoteIsExpired(s.votes[v])})]

RemoveTimedOutOrphans(s) ==
  LET late == {v \in DOMAIN s.orphans : VoteIsTimedOut(s.orphans[v])}
  IN [s EXCEPT !.votes = Drop(@, late), !.orphans = Drop(@, late)]

RemoveFailedVotes(s) ==
  [s EXCEPT !.votes = Drop(@, {v \in DOMAIN s.votes : VoteIsFailed(s, v)})]

RemoveStaleOrphanRates(s) ==
  [s EXCEPT !.dnOrphan = Drop(@, {d \in DOMAIN s.dnOrphan : s.dnOrphan[d] < now})]

CheckAndRemove_FailedFirst(s) ==
  Bind(RemoveFailedVotes(s), LAMBDA s1 :
  Bind(RemoveExpiredCandidates(s1), LAMBDA s2 :
  Bind(RemoveExpiredVotes(s2), LAMBDA s3 :
  Bind(RemoveTimedOutOrphans(s3), LAMBDA s4 :
  RemoveStaleOrphanRates(s4)))))

CheckAndRemove(s) ==
  Bind(RemoveExpiredCandidates(s), LAMBDA s1 :
  Bind(RemoveExpiredVotes(s1), LAMBDA s2 :
  Bind(RemoveTimedOutOrphans(s2), LAMBDA s3 :
  Bind(RemoveFailedVotes(s3), LAMBDA s4 :
  RemoveStaleOrphanRates(s4)))))

-----------------------------------------------------------------------------
(* Finalisation: ResolveConflicts, LockTransactionInputs,                 *)
(* UpdateLockedTransaction and TryToFinalizeLockCandidate.                *)

\* The loop of ResolveConflicts over txLockRequest.tx->vin from index i,
\* then its tail: <<state, result>>.
RECURSIVE ResolveFrom(_, _, _)
ResolveFrom(s, t, i) ==
  IF i > Len(InputsOf[t])
  THEN IF t \in DOMAIN mined THEN <<s, TRUE>>
       ELSE <<s, \A o \in Inputs(t) : Unspent(o)>>
  ELSE
    LET o == InputsOf[t][i] IN
    IF o \in DOMAIN s.locked /\ s.locked[o] # t
    THEN LET h == s.locked[o] IN
         IF t \notin DOMAIN s.cand \/ h \notin DOMAIN s.cand THEN <<s, FALSE>>
         ELSE \* both expire now, are swept, and are then recorded as rejected
              Bind([s EXCEPT !.cand[t].confirmed = 0, !.cand[h].confirmed = 0],
                   LAMBDA s1 : <<[CheckAndRemove(s1) EXCEPT !.rej = @ \cup {t, h}],
                                 FALSE>>)
    ELSE IF \E m \in mempool : m # t /\ o \in Inputs(m) THEN <<s, FALSE>>
    ELSE ResolveFrom(s, t, i + 1)

ResolveConflicts(s, t) ==
  IF ~IsAllOutPointsReady(s.cand[t]) THEN <<s, FALSE>> ELSE ResolveFrom(s, t, 1)

\* mapLockedOutpoints.insert never overwrites an existing entry.
LockTransactionInputs(s, t) ==
  IF ~IsAllOutPointsReady(s.cand[t]) THEN s
  ELSE LET ops == DOMAIN s.cand[t].locks IN
       [s EXCEPT !.locked = [o \in DOMAIN @ \cup ops |->
                               IF o \in DOMAIN s.locked THEN s.locked[o] ELSE t]]

UpdateLockedTransaction(s, t) ==
  IF IsLockedInstantSendTransaction(s, t)
  THEN [s EXCEPT !.notified = @ \cup {t}] ELSE s

TryToFinalizeLockCandidate(s, t) ==
  IF /\ t \in DOMAIN s.cand
     /\ IsAllOutPointsReady(s.cand[t])
     /\ ~IsLockedInstantSendTransaction(s, t)
  THEN Bind(ResolveConflicts(s, t), LAMBDA r :
       IF r[2] THEN Bind(LockTransactionInputs(r[1], t), LAMBDA s1 :
                         UpdateLockedTransaction(s1, t))
       ELSE r[1])
  ELSE s

-----------------------------------------------------------------------------
(* Lock requests: CreateTxLockCandidate, CreateEmptyTxLockCandidate and   *)
(* ProcessTxLockRequest.                                                   *)

\* CTxLockRequest::IsValid: every input still in the UTXO set; the output,
\* finality, input-age, value-ceiling and fee checks are WellFormed.
RequestIsValid(t) == t \in WellFormed /\ \A o \in Inputs(t) : Unspent(o)

FreshLocks(t) == [o \in Inputs(t) |-> EmptyLock]

CreateTxLockCandidate(s, t) ==
  IF ~RequestIsValid(t) THEN <<s, FALSE>>
  ELSE IF t \notin DOMAIN s.cand
  THEN <<[s EXCEPT !.cand = (t :> NewCandidate(TRUE, FreshLocks(t))) @@ @], TRUE>>
  ELSE IF ~s.cand[t].req
  THEN \* the request is attached before the timeout test
       Bind([s EXCEPT !.cand[t].req = TRUE], LAMBDA s1 :
       IF CandIsTimedOut(s.cand[t]) THEN <<s1, FALSE>>
       ELSE <<[s1 EXCEPT !.cand[t].locks = @ @@ FreshLocks(t)], TRUE>>)
  ELSE <<s, TRUE>>

CreateEmptyTxLockCandidate(s, t) ==
  IF t \in DOMAIN s.cand THEN s
  ELSE [s EXCEPT !.cand = (t :> NewCandidate(FALSE, NoLocks)) @@ @]

ProcessTxLockRequest(s, t) ==
  Bind(CreateTxLockCandidate(s, t), LAMBDA r :
  IF ~r[2] THEN r ELSE <<TryToFinalizeLockCandidate(r[1], t), TRUE>>)

-----------------------------------------------------------------------------
(* Votes: ProcessTxLockVote with its orphan branch, and                    *)
(* ProcessOrphanTxLockVotes.                                               *)

\* CTxLockVote::IsValid: the dynode is in the dynode list (else AskForDN
\* and false), the outpoint is unspent, the dynode is ranked within the top
\* SIGNATURES_TOTAL for the outpoint, and the signature verifies (votes are
\* taken to carry their voter's signature).
VoteIsValid(v) ==
  /\ VDn(v) \in dnKnown
  /\ Unspent(VOut(v))
  /\ VDn(v) \in Eligible[VOut(v)]

OrphanRateLimit_LongKeep(s, d) ==
  IF d \notin DOMAIN s.dnOrphan
  THEN <<[s EXCEPT !.dnOrphan = (d :> now + ORPHAN_KEEP + 1) @@ @], TRUE>>
  ELSE IF /\ s.dnOrphan[d] > now
          /\ s.dnOrphan[d] > GetAverageDynodeOrphanVoteTime(s)
  THEN <<s, FALSE>>
  ELSE <<[s EXCEPT !.dnOrphan[d] = now + ORPHAN_KEEP + 1], TRUE>>

\* The per-dynode orphan rate limit at the end of the orphan branch.
OrphanRateLimit(s, d) ==
  IF d \notin DOMAIN s.dnOrphan
  THEN <<[s EXCEPT !.dnOrphan = (d :> now + ORPHAN_KEEP) @@ @], TRUE>>
  ELSE IF /\ s.dnOrphan[d] > now
          /\ s.dnOrphan[d] > GetAverageDynodeOrphanVoteTime(s)
  THEN <<s, FALSE>>                       \* spamming orphan votes
  ELSE <<[s EXCEPT !.dnOrphan[d] = now + ORPHAN_KEEP], TRUE>>

\* The branch taken when the vote's candidate or its request is unknown.
OrphanVote(s, v, created) ==
  LET t == VTx(v) IN
  IF v \notin DOMAIN s.orphans
  THEN Bind([CreateEmptyTxLockCandidate(s, t) EXCEPT
               !.orphans = (v :> created) @@ @], LAMBDA s1 :
       IF t \in s1.acc \cup s1.rej /\ IsEnoughOrphanVotesForTx(s1, t)
       THEN <<ProcessTxLockRequest(s1, t)[1], TRUE>>
       ELSE OrphanRateLimit(s1, VDn(v)))
  ELSE OrphanRateLimit(s, VDn(v))

RecordVotedOutpoint_OnlyCurrent(s, v) ==
  LET t == VTx(v)  o == VOut(v)  d == VDn(v) IN
  IF o \notin DOMAIN s.voted THEN [s EXCEPT !.voted = (o :> {t}) @@ @]
  ELSE
    LET rivals == {h \in s.voted[o] \ {t} :
                     h \in DOMAIN s.cand /\ HasDynodeVoted(s.cand[h], o, d)}
        hit == IF rivals = {} THEN {} ELSE {t}
    IN [s EXCEPT !.cand = [h \in DOMAIN @ |->
                             IF h \in hit THEN MarkOutpointAsAttacked(@[h], o)
                             ELSE @[h]],
                 !.banned = IF rivals = {} THEN @ ELSE @ \cup {d},
                 !.voted[o] = @ \cup {t}]

\* Scan of the other candidates voted on the same outpoint: a dynode that
\* voted there too marks the outpoint attacked in both and is PoSe-banned;
\* then the tx joins mapVotedOutpoints[o], whatever the scan found.
RecordVotedOutpoint(s, v) ==
  LET t == VTx(v)  o == VOut(v)  d == VDn(v) IN
  IF o \notin DOMAIN s.voted THEN [s EXCEPT !.voted = (o :> {t}) @@ @]
  ELSE
    LET rivals == {h \in s.voted[o] \ {t} :
                     h \in DOMAIN s.cand /\ HasDynodeVoted(s.cand[h], o, d)}
        hit == IF rivals = {} THEN {} ELSE rivals \cup {t}
    IN [s EXCEPT !.cand = [h \in DOMAIN @ |->
                             IF h \in hit THEN MarkOutpointAsAttacked(@[h], o)
                             ELSE @[h]],
                 !.banned = IF rivals = {} THEN @ ELSE @ \cup {d},
                 !.voted[o] = @ \cup {t}]

ProcessTxLockVote_NoFinalize(s, v, created) ==
  LET t == VTx(v) IN
  IF ~VoteIsValid(v) THEN <<s, FALSE>>
  ELSE IF t \notin DOMAIN s.cand \/ ~s.cand[t].req THEN OrphanVote(s, v, created)
  ELSE IF CandIsTimedOut(s.cand[t]) THEN <<s, FALSE>>
  ELSE Bind(RecordVotedOutpoint(s, v), LAMBDA s1 :
       LET r == CandAddVote(s1.cand[t], VOut(v), VDn(v)) IN
       IF ~r[2] THEN <<s1, FALSE>> ELSE <<[s1 EXCEPT !.cand[t] = r[1]], TRUE>>)

\* CInstantSend::ProcessTxLockVote: <<state, result>>.
ProcessTxLockVote(s, v, created) ==
  LET t == VTx(v) IN
  IF ~VoteIsValid(v) THEN <<s, FALSE>>
  ELSE IF t \notin DOMAIN s.cand \/ ~s.cand[t].req THEN OrphanVote(s, v, created)
  ELSE IF CandIsTimedOut(s.cand[t]) THEN <<s, FALSE>>
  ELSE Bind(RecordVotedOutpoint(s, v), LAMBDA s1 :
       LET r == CandAddVote(s1.cand[t], VOut(v), VDn(v)) IN
       IF ~r[2] THEN <<s1, FALSE>>
       ELSE <<TryToFinalizeLockCandidate([s1 EXCEPT !.cand[t] = r[1]], t), TRUE>>)

\* The loop of ProcessOrphanTxLockVotes over the orphans in map order: each
\* one is reprocessed and erased when ProcessTxLockVote returns true:
\* <<state, ok>>, where ok is false when a nested call erased the orphan
\* the loop's iterator points to (erase(it++) or ++it is then undefined).
RECURSIVE ProcessOrphansInOrder(_, _)
ProcessOrphansInOrder(s, vs) ==
  IF vs = <<>> THEN <<s, TRUE>>
  ELSE LET v == Head(vs) IN
       IF v \notin DOMAIN s.orphans THEN ProcessOrphansInOrder(s, Tail(vs))
       ELSE Bind(ProcessTxLockVote(s, v, s.orphans[v]), LAMBDA r :
            Bind(IF r[2] THEN [r[1] EXCEPT !.orphans = Drop(@, {v})] ELSE r[1],
                 LAMBDA s1 : Bind(ProcessOrphansInOrder(s1, Tail(vs)), LAMBDA rest :
                   <<rest[1], v \in DOMAIN r[1].orphans /\ rest[2]>>)))

-----------------------------------------------------------------------------
(* Local voting: CInstantSend::Vote(txHash) and Vote(candidate).          *)

\* fAlreadyVoted.  The code looks every hash of mapVotedOutpoints[o] up in
\* mapTxLockCandidates without testing for end(); for a hash with no
\* candidate the answer is undefined, and is the free choice `ub`.
AlreadyVoted_Never(s, o, ub) == FALSE

AlreadyVoted(s, o, ub) ==
  /\ o \in DOMAIN s.voted
  /\ \E h \in s.voted[o] :
       IF h \in DOMAIN s.cand THEN HasDynodeVoted(s.cand[h], o, Me) ELSE ub

\* The loop of Vote(candidate) over mapOutPointLocks in outpoint order.
\* `fails` are the outpoints whose vote Sign() or CheckSignature() would
\* reject: the loop returns there, keeping the votes it already made.
RECURSIVE VoteOutpoints(_, _, _, _, _)
VoteOutpoints(s, t, os, ub, fails) ==
  IF os = <<>> THEN s
  ELSE LET o == Head(os) IN
  IF ~Unspent(o) THEN s                                  \* UTXO gone: return
  ELSE IF Me \notin Eligible[o] \/ AlreadyVoted(s, o, ub)
  THEN VoteOutpoints(s, t, Tail(os), ub, fails)
  ELSE IF o \in fails THEN s                              \* signing failed: return
  ELSE LET v == <<t, o, Me>> IN
       Bind([s EXCEPT !.votes = IF v \in DOMAIN @ THEN @
                 ELSE (v :> [created |-> now, confirmed |-> NoHeight,
                             null |-> FALSE]) @@ @], LAMBDA s1 :
       LET r == CandAddVote(s1.cand[t], o, Me) IN
       Bind(IF ~r[2] THEN s1
            ELSE [s1 EXCEPT !.cand[t] = r[1],
                            !.voted = IF o \in DOMAIN @ THEN [@ EXCEPT ![o] = @ \cup {t}]
                                      ELSE (o :> {t}) @@ @],
            LAMBDA s2 : VoteOutpoints(s2, t, Tail(os), ub, fails)))

\* Vote(txHash): Vote(candidate), then TryToFinalizeLockCandidate whether
\* or not the loop returned early.
Vote(s, t, ub, fails) ==
  IF t \notin DOMAIN s.cand THEN s
  ELSE Bind(IF t \in s.acc
            THEN VoteOutpoints(s, t, SetToSortSeq(DOMAIN s.cand[t].locks, <), ub, fails)
            ELSE s, LAMBDA s1 :
       TryToFinalizeLockCandidate(s1, t))

-----------------------------------------------------------------------------
(* CInstantSend::SyncTransaction for tx t, now at height h (NoHeight when *)
(* it left the chain or the mempool).                                     *)
\* A slip: a tx leaving the chain (nHeightNew = -1) is ignored, so its
\* candidate keeps the height of the block it was in.
SyncTransaction_IgnoresNotInBlock(s, t, h) ==
  IF h = NoHeight \/ t \notin DOMAIN s.cand THEN s
  ELSE [s EXCEPT !.cand[t].confirmed = h]

SyncTransaction(s, t, h) ==
  LET inCand(v) == t \in DOMAIN s.cand /\ HasDynodeVoted(s.cand[t], VOut(v), VDn(v))
      orphaned  == {v \in DOMAIN s.orphans : VTx(v) = t}
      Confirm(e) == [e EXCEPT !.confirmed = h]
  IN Bind(IF t \notin DOMAIN s.cand THEN s
          ELSE [s EXCEPT !.cand[t].confirmed = h,
                         !.votes = [v \in DOMAIN s.votes |->
                            IF VTx(v) = t /\ inCand(v) THEN Confirm(s.votes[v])
                            ELSE s.votes[v]]], LAMBDA s1 :
     \* mapTxLockVotes[hash] default-constructs a missing entry
     [s1 EXCEPT !.votes = [v \in DOMAIN s1.votes \cup orphaned |->
         IF v \notin orphaned THEN s1.votes[v]
         ELSE IF v \in DOMAIN s1.votes THEN Confirm(s1.votes[v])
         ELSE [created |-> now, confirmed |-> h, null |-> TRUE]]])

-----------------------------------------------------------------------------
(* The environment and the entry points.                                   *)

\* AcceptToMemoryPool (validation.cpp, not in this excerpt), as far as it
\* decides a lock request: inputs unspent, no conflicting mempool tx, and
\* no input locked to another tx.
MempoolAccepts(t) ==
  /\ t \notin mempool /\ t \notin DOMAIN mined
  /\ \A o \in Inputs(t) : Unspent(o)
  /\ \A m \in mempool : Inputs(m) \cap Inputs(t) = {}
  /\ \A o \in Inputs(t) : o \in DOMAIN lockedOutpoints => lockedOutpoints[o] = t

\* The outpoints of t whose local vote may fail to sign.
SignFailures(t) == IF SignMayFail THEN SUBSET Inputs(t) ELSE {{}}

\* A "txlreg" message for t not yet seen (AlreadyHave is false):
\* ProcessTxLockRequest, then AcceptLockRequest and Vote when the mempool
\* takes t, or RejectLockRequest when it does not.
ReceiveLockRequest(t) ==
  /\ t \notin accepted \cup rejected
  /\ \E r \in {ProcessTxLockRequest(S, t)} :
     IF ~r[2] THEN Commit(r[1]) /\ UNCHANGED mempool
     ELSE IF MempoolAccepts(t)
     THEN /\ mempool' = mempool \cup {t}
          /\ \E ub \in BOOLEAN, fails \in SignFailures(t) :
               Commit(Vote([r[1] EXCEPT !.acc = @ \cup {t}], t, ub, fails))
     ELSE Commit([r[1] EXCEPT !.rej = @ \cup {t}]) /\ UNCHANGED mempool
  /\ UNCHANGED <<now, height, mined, dnKnown, best>>

\* An ordinary transaction enters the mempool.
TxToMempool(t) ==
  /\ MempoolAccepts(t)
  /\ mempool' = mempool \cup {t}
  /\ UNCHANGED <<candidates, txLockVotes, orphanVotes, lockedOutpoints,
                 votedOutpoints, accepted, rejected, dnOrphanVotes, banned,
                 notified, now, height, mined, dnKnown, best>>

\* The mempool drops t (expiry or size limit).  Removal from the mempool
\* other than by a block or a conflict sends no SyncTransaction, so the lock
\* manager's state is left as it is.
MempoolEvict(t) ==
  /\ MempoolEvicts
  /\ t \in mempool
  /\ mempool' = mempool \ {t}
  /\ UNCHANGED <<candidates, txLockVotes, orphanVotes, lockedOutpoints,
                 votedOutpoints, accepted, rejected, dnOrphanVotes, banned,
                 notified, now, height, mined, dnKnown, best>>

NetVote(v) ==
  /\ VDn(v) \in NetVoters
  /\ StrayVotes \/ VOut(v) \in Inputs(VTx(v))

\* ProcessMessage for a "txvote": a vote whose hash is new is stored in
\* mapTxLockVotes before it is validated, then ProcessTxLockVote.
ReceiveVote(v) ==
  /\ NetVote(v)
  /\ v \notin DOMAIN txLockVotes
  /\ Commit(Bind([S EXCEPT !.votes = (v :> [created |-> now, confirmed |-> NoHeight,
                                            null |-> FALSE]) @@ @], LAMBDA s1 :
            ProcessTxLockVote(s1, v, now)[1]))
  /\ UNCHANGED <<now, height, mined, mempool, dnKnown, best>>

OrphanOrder == SelectSeq(HashOrder, LAMBDA v : v \in DOMAIN orphanVotes)

ProcessOrphanTxLockVotes ==
  /\ DOMAIN orphanVotes # {}
  /\ Commit(ProcessOrphansInOrder(S, OrphanOrder)[1])
  /\ UNCHANGED <<now, height, mined, mempool, dnKnown, best>>

\* A block with t: SyncTransaction for t at the new height, for the mempool
\* txs it conflicts with (now out of the mempool), and UpdatedBlockTip.
MineTx(t) ==
  /\ height < MaxHeight
  /\ t \notin DOMAIN mined
  /\ \A o \in Inputs(t) : Unspent(o)
  /\ LET evicted == {m \in mempool \ {t} : Inputs(m) \cap Inputs(t) # {}}
     IN /\ Commit(FoldSet(LAMBDA m, acc : SyncTransaction(acc, m, NoHeight),
                          SyncTransaction(S, t, height + 1), evicted))
        /\ mempool' = mempool \ ({t} \cup evicted)
  /\ mined' = (t :> height + 1) @@ mined
  /\ height' = height + 1
  /\ best' = IF height + 1 > best THEN height + 1 ELSE best
  /\ UNCHANGED <<now, dnKnown>>

EmptyBlock ==
  /\ height < MaxHeight
  /\ height' = height + 1
  /\ best' = IF height + 1 > best THEN height + 1 ELSE best
  /\ UNCHANGED <<candidates, txLockVotes, orphanVotes, lockedOutpoints,
                 votedOutpoints, accepted, rejected, dnOrphanVotes, banned,
                 notified, now, mined, mempool, dnKnown>>

\* The tip block is disconnected in a reorganisation: each of its txs is
\* passed to SyncTransaction with posInBlock SYNC_TRANSACTION_NOT_IN_BLOCK
\* (nHeightNew = -1) and is offered back to the mempool, which refuses one
\* whose input is locked to another tx; UpdatedBlockTip then caches the
\* new height.  The chain never falls more than MAX_REORG blocks below
\* the best tip it has reached.
DisconnectBlock ==
  /\ height > InitHeight
  /\ best - (height - 1) <= MAX_REORG
  /\ LET left == {t \in DOMAIN mined : mined[t] = height}
         back == {t \in left : \A o \in Inputs(t) :
                    o \in DOMAIN lockedOutpoints => lockedOutpoints[o] = t}
     IN /\ Commit(FoldSet(LAMBDA t, acc : SyncTransaction(acc, t, NoHeight), S, left))
        /\ mempool' = mempool \cup back
        /\ mined' = Drop(mined, left)
  /\ height' = height - 1
  /\ UNCHANGED <<now, dnKnown, best>>

Tick ==
  /\ now < MaxTime
  /\ now' = now + 1
  /\ UNCHANGED <<candidates, txLockVotes, orphanVotes, lockedOutpoints,
                 votedOutpoints, accepted, rejected, dnOrphanVotes, banned,
                 notified, height, mined, mempool, dnKnown, best>>

\* The dynode list learns d (the reply to dnodeman.AskForDN, or the list
\* sync); the lock manager is not told.
LearnDynode(d) ==
  /\ d \notin dnKnown
  /\ dnKnown' = dnKnown \cup {d}
  /\ UNCHANGED <<candidates, txLockVotes, orphanVotes, lockedOutpoints,
                 votedOutpoints, accepted, rejected, dnOrphanVotes, banned,
                 notified, now, height, mined, mempool, best>>

\* ThreadCheckPrivateSend calls CheckAndRemove every 60 ticks.
Sweep ==
  /\ Commit(CheckAndRemove(S))
  /\ UNCHANGED <<now, height, mined, mempool, dnKnown, best>>

Init ==
  /\ candidates = [t \in {} |-> NewCandidate(FALSE, NoLocks)]
  /\ txLockVotes = [v \in {} |-> 0]
  /\ orphanVotes = [v \in {} |-> 0]
  /\ lockedOutpoints = [o \in {} |-> 0]
  /\ votedOutpoints = [o \in {} |-> {}]
  /\ accepted = {} /\ rejected = {}
  /\ dnOrphanVotes = [d \in {} |-> 0]
  /\ banned = {} /\ notified = {}
  /\ now = 0 /\ height = InitHeight
  /\ mined = [t \in {} |-> 0]
  /\ mempool = {}
  /\ dnKnown = KnownAtStart
  /\ best = InitHeight

Next ==
  \/ \E t \in Tx : ReceiveLockRequest(t)
  \/ \E t \in Tx : TxToMempool(t)
  \/ \E t \in Tx : MempoolEvict(t)
  \/ \E v \in VoteId : ReceiveVote(v)
  \/ ProcessOrphanTxLockVotes
  \/ \E t \in Tx : MineTx(t)
  \/ EmptyBlock
  \/ DisconnectBlock
  \/ Tick
  \/ Sweep
  \/ \E d \in Dynode : LearnDynode(d)

Spec == Init /\ [][Next]_vars

\* The fairness the deployment gives: a vote a dynode broadcasts is relayed
\* until it reaches this node (CTxLockVote::Relay by every peer that
\* accepted it), ProcessOrphanTxLockVotes is called again and again by
\* the node's periodic dynode-list processing while orphans wait, and a
\* dynode asked for with AskForDN is eventually in the list.
Fairness ==
  /\ \A v \in VoteId : WF_vars(ReceiveVote(v))
  /\ WF_vars(ProcessOrphanTxLockVotes)
  /\ \A d \in Dynode : WF_vars(LearnDynode(d))

LiveSpec == Spec /\ Fairness

-----------------------------------------------------------------------------
(* Properties                                                              *)

LockRec == [votes : SUBSET Dynode, attacked : BOOLEAN]
Time == 0..MaxTime
Heights == {NoHeight} \cup 0..MaxHeight

TypeOK ==
  /\ DOMAIN candidates \subseteq Tx
  /\ \A t \in DOMAIN candidates :
       LET c == candidates[t] IN
       /\ c.req \in BOOLEAN /\ c.created \in Time /\ c.confirmed \in Heights
       /\ DOMAIN c.locks \subseteq Outpoint
       /\ \A o \in DOMAIN c.locks : c.locks[o] \in LockRec
  /\ DOMAIN txLockVotes \subseteq VoteId
  /\ \A v \in DOMAIN txLockVotes :
       txLockVotes[v] \in [created : Time, confirmed : Heights, null : BOOLEAN]
  /\ DOMAIN orphanVotes \subseteq VoteId /\ Range(orphanVotes) \subseteq Time
  /\ DOMAIN lockedOutpoints \subseteq Outpoint /\ Range(lockedOutpoints) \subseteq Tx
  /\ DOMAIN votedOutpoints \subseteq Outpoint
  /\ Range(votedOutpoints) \subseteq SUBSET Tx
  /\ accepted \subseteq Tx /\ rejected \subseteq Tx
  /\ DOMAIN dnOrphanVotes \subseteq Dynode
  /\ Range(dnOrphanVotes) \subseteq 0..(MaxTime + ORPHAN_KEEP)
  /\ banned \subseteq Dynode /\ notified \subseteq Tx
  /\ now \in Time /\ height \in InitHeight..MaxHeight
  /\ DOMAIN mined \subseteq Tx /\ mempool \subseteq Tx
  /\ dnKnown \subseteq Dynode
  /\ best \in height..MaxHeight

\* Equivocation (ProcessTxLockVote): whenever one dynode's vote on an
\* outpoint is recorded in two live lock candidates, that outpoint is
\* attacked in both candidates and the dynode is PoSe-banned.
EquivocationVetoed ==
  \A a, b \in DOMAIN candidates, o \in Outpoint, d \in Dynode :
    (a # b /\ HasDynodeVoted(candidates[a], o, d)
           /\ HasDynodeVoted(candidates[b], o, d))
      => /\ candidates[a].locks[o].attacked
         /\ candidates[b].locks[o].attacked
         /\ d \in banned

\* No double lock: two live candidates that spend a common outpoint are
\* never both IsInstantSendReadyToLock, whatever the dynodes vote, as any
\* two quorums of one outpoint share a dynode and the equivocation check
\* vetoes the outpoint in both.
ConflictingNeverBothReady ==
  \A a, b \in DOMAIN candidates :
    (a # b /\ Inputs(a) \cap Inputs(b) # {})
      => ~(IsInstantSendReadyToLock(S, a) /\ IsInstantSendReadyToLock(S, b))

\* Every entry of mapLockedOutpoints names a live candidate that holds a
\* quorum of votes on that outpoint and whose lock was announced
\* (LockTransactionInputs is only reached through ResolveConflicts, and
\* CheckAndRemove erases the locks of the candidates it deletes).
LockBackedByQuorum ==
  \A o \in DOMAIN lockedOutpoints :
    LET t == lockedOutpoints[o] IN
    /\ t \in DOMAIN candidates
    /\ o \in DOMAIN candidates[t].locks
    /\ Cardinality(candidates[t].locks[o].votes) >= SIGNATURES_REQUIRED
    /\ t \in notified

\* CheckAndRemove is idempotent: a second sweep at the same time and
\* height changes nothing (its steps run in an order where none re-enables
\* an earlier one).
SweepIdempotent ==
  Bind(CheckAndRemove(S), LAMBDA once : CheckAndRemove(once) = once)

\* Spec 8: a candidate still short of votes when its lock timeout has passed
\* is purged by the sweep.  Stated of every reachable state: once
\* CheckAndRemove has run, no timed-out candidate that is not ready is left.
SweepPurgesTimedOut ==
  Bind(CheckAndRemove(S), LAMBDA swept :
  \A t \in DOMAIN swept.cand :
    ~(CandIsTimedOut(swept.cand[t]) /\ ~IsAllOutPointsReady(swept.cand[t])))

\* ProcessOrphanTxLockVotes walks mapTxLockVotesOrphan with an iterator
\* while ProcessTxLockVote runs; the orphan it points to is never erased
\* by that nested call (ResolveConflicts -> CheckAndRemove), so the loop's
\* erase(it++) or ++it always acts on a valid iterator.
OrphanIteratorStaysValid ==
  DOMAIN orphanVotes # {} =>
    Bind(ProcessOrphansInOrder(S, OrphanOrder), LAMBDA r : r[2])

\* Liveness of locking: a lock request this node accepted is eventually
\* locked and announced by TryToFinalizeLockCandidate, unless its tx is
\* mined first, once the votes of the eligible dynodes reach the node in
\* any order, before or after the request (through the orphan buffer, which
\* spec 4.5 says holds orphan votes until their request arrives).
AcceptedEventuallyLocked ==
  \A t \in Tx : t \in accepted ~> (t \in notified \/ t \in DOMAIN mined)

\* Liveness when the request leads: a lock request this node accepted
\* before any other dynode's vote on it arrived is eventually locked and
\* announced (unless its tx is mined first): each vote that then arrives
\* is added to the candidate and TryToFinalizeLockCandidate runs after it.
\* Spec 4.2 calls a vote from a dynode not yet in the dynode list a retry
\* hint, so the property expects such a vote to count once the list has the
\* dynode.  The code does not recover: the vote was stored at line 82, and
\* a relayed copy is dropped as already seen at line 81 (is_unknown_dynode);
\* is_lock_liveness knows every dynode from the start.
NoNetVoteYet(t) == \A v \in DOMAIN txLockVotes : VTx(v) = t => VDn(v) = Me

AcceptedBeforeVotesEventuallyLocked ==
  \A t \in Tx : (t \in accepted /\ NoNetVoteYet(t))
                   ~> (t \in notified \/ t \in DOMAIN mined)

\* The lock manager implements the lock abstraction InstantSendLock: the
\* locked outpoints are mapLockedOutpoints, the announced txs those given
\* to NotifyTransactionLock, the chain the mined txs.  So TryToFinalize-
\* LockCandidate only locks a tx none of whose inputs is locked to another
\* tx or spent by another mined tx, and CheckAndRemove only releases the
\* lock of an outpoint that is spent in the chain, also after a chain
\* reorganisation took a mined tx back out (SyncTransaction must then reset
\* the confirmed height from which its candidate expires).
Abs == INSTANCE InstantSendLock
         WITH locked <- lockedOutpoints, announced <- notified, chain <- DOMAIN mined

ImplementsInstantSendLock == Abs!Spec

\* A tx the lock manager reports as locked (GetConfirmations gives the
\* InstantSend depth) is never at the same time reported as a failed,
\* timed-out lock candidate by IsTxLockCandidateTimedOut: a vote that
\* arrives after the lock, or a sweep, cannot turn a locked tx into a
\* timed-out one.
LockedNeverReportedTimedOut ==
  \A t \in Tx : GetConfirmations(S, t) > 0 => ~IsTxLockCandidateTimedOut(S, t)

\* The local dynode never votes on one outpoint for two txs (Vote()'s
\* fAlreadyVoted scan of mapVotedOutpoints): its votes kept in
\* mapTxLockVotes or in a lock candidate name a single tx per outpoint,
\* even when the mempool drops a tx it voted for and accepts a conflicting
\* one, and when signing fails part way through a candidate's outpoints.
MyVotedTxs(o) ==
  {t \in Tx : /\ <<t, o, Me>> \in DOMAIN txLockVotes
              /\ ~txLockVotes[<<t, o, Me>>].null}
  \cup {t \in DOMAIN candidates : HasDynodeVoted(candidates[t], o, Me)}

SelfNeverEquivocates == \A o \in Outpoint : Cardinality(MyVotedTxs(o)) <= 1

\* Every hash in mapVotedOutpoints names a live candidate: Vote() looks each
\* one up in mapTxLockCandidates and dereferences the result unchecked.
VotedOutpointsReferToCandidates ==
  \A o \in DOMAIN votedOutpoints : votedOutpoints[o] \subseteq DOMAIN candidates

=============================================================================
