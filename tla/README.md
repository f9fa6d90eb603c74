# TLA+ models of Dynamic's InstantSend and PrivateSend helpers

This directory holds TLA+ specifications of the InstantSend transaction-lock
protocol in `src/src/instantsend.cpp`, with an abstract lock specification
that it is shown to implement. It also models the parts of
`src/src/privatesend.cpp` that have state or logic of their own: the
denomination encoding, the collateral check and the broadcast-tx (PSTX)
expiry map. The directory holds the TLC configurations that check them, and
`PROJECT.json`, which lists the components, runs, mutants, source map,
findings and hazards.

## 1. The system and its parts

The source tree has eight files.

| File | What it is | Status |
|---|---|---|
| `instantsend.cpp` | `CInstantSend`, the per-node lock manager, with `CTxLockRequest`, `CTxLockVote`, `COutPointLock` and `CTxLockCandidate` | modelled (`InstantSend`) |
| `privatesend.cpp` | PrivateSend denominations, collateral check, queues and broadcast txs, plus `ThreadCheckPrivateSend`, which calls `instantsend.CheckAndRemove()` every 60 s | denominations and collateral (`PrivateSend`), PSTX map (`PrivateSendPSTX`), the sweep call (`InstantSend`); queues, entries and signing not modelled |
| `primitives/transaction.h` | transaction data types | only `vin` prevouts are modelled |
| `rpc/certificates.cpp` | RPC glue | not modelled (formatting and parsing only) |
| `qt/dynamicstrings.cpp` | generated strings | not modelled |
| `bdap/fees.h`, `dht/storage.h` | constants and an interface | not modelled |
| `miner/miner.cpp` | thread wrappers | not modelled; block inclusion is `MineTx` |

### How InstantSend works

1. A wallet broadcasts a lock request (`txlreq`) for a transaction.
2. `ProcessTxLockRequest` creates a **lock candidate**. The candidate holds one
   **outpoint lock** per input.
3. The node's main loop checks the request against the mempool:
   - If the mempool accepts it, the node calls `AcceptLockRequest`, and a
     dynode also calls `Vote`.
   - Otherwise the node calls `RejectLockRequest`.
4. The top dynodes of each input send **votes** (`txvote`). `ProcessTxLockVote`
   handles each vote:
   - It validates the vote.
   - A vote for an unknown request is buffered as an **orphan**, subject to a
     per-dynode rate limit.
   - It detects **equivocation**: the same dynode voting the same outpoint
     for two txs. The outpoint is then marked attacked in both candidates,
     and the dynode is banned.
   - It records the vote in the candidate.
   - It calls `TryToFinalizeLockCandidate`.
5. Once every outpoint has `SIGNATURES_REQUIRED` votes and none is attacked,
   the finalisation step runs:
   - `ResolveConflicts` checks against other completed locks, the mempool, the
     chain and the UTXO set.
   - Then come `LockTransactionInputs` (`mapLockedOutpoints`) and
     `UpdateLockedTransaction` (`NotifyTransactionLock`).
6. `SyncTransaction` records confirmation heights. `CheckAndRemove`, called
   from the PrivateSend thread, sweeps:
   - expired candidates;
   - expired, timed-out orphan, and failed votes;
   - old rate-limit entries.

Every entry point takes `cs_main` and `cs_instantsend` for its whole run. The
model therefore makes each entry point one atomic step. The concurrency that
remains is the order of steps:

- messages from peers;
- the local vote;
- blocks;
- the clock;
- the sweep thread.

### The PrivateSend parts that are modelled

- **Denominations.** `InitStandardDenominations` fixes four amounts (10, 1,
  0.1 and 0.01 DYN, each plus a marker). `GetDenominations` turns a list of
  outputs into a bit mask, bit `i` for denomination `i`, and returns 0 as
  soon as one output is not a denomination. With `fSingleRandomDenom` it
  keeps one used denomination, chosen by coin flips. `GetDenominationsBits`
  and `GetDenominationsToString` decode a mask received from a peer.
- **Collateral.** `IsCollateralValid` is the check a mixing dynode makes of
  the fee-paying tx a client sends with its entry.
- **Broadcast txs.** `mapPSTX` keeps the mixing txs a node has broadcast,
  with the height of the block that confirmed each (`SyncTransaction`), and
  `CheckPSTXes` forgets those buried more than 24 blocks deep.

## 2. Modules

### `InstantSend.tla`

This module is the lock manager of one node, which is also a dynode (`Me`).
Its environment is network voters, a mempool, a chain and a clock.

**State.** There is one variable per member map:

| Variable | Code |
|---|---|
| `candidates` | `mapTxLockCandidates`; each record holds `req` (a request attached), `locks` (outpoint to a set of voters plus `attacked`), `created` and `confirmed` |
| `txLockVotes` | `mapTxLockVotes` |
| `orphanVotes` | `mapTxLockVotesOrphan` |
| `lockedOutpoints` | `mapLockedOutpoints` |
| `votedOutpoints` | `mapVotedOutpoints` |
| `accepted`, `rejected` | keys of `mapLockRequestAccepted` / `Rejected` |
| `dnOrphanVotes` | `mapDynodeOrphanVotes` |
| `banned` | `PoSeBan` |
| `notified` | `NotifyTransactionLock` |

Environment variables: `now`, `height`, `mined`, `mempool`, and `best`, the
highest tip height the chain has reached (it bounds reorganisations).

**Handlers as operators.** Every C++ method is an operator from a state record
`S` to a new record, or to `<<record, result>>` when the method returns
`bool`. Nested calls compose in code order. For example, `ProcessTxLockVote`
calls `TryToFinalizeLockCandidate`, which calls `ResolveConflicts`, which may
call `CheckAndRemove`. `Commit` writes the final record back to the variables.

`Bind(e, LAMBDA x : ...)` evaluates an intermediate state once and passes it on
by value. With coverage collection on, TLC does not cache LET values or
operator arguments, so a state used several times would otherwise be
recomputed at every use, and the cost grows exponentially along a chain of
nested handlers. `CheckAndRemove` is the composition of its five passes
(`RemoveExpiredCandidates`, ..., `RemoveStaleOrphanRates`), in code order.

**Loops.** Loops over `std::map`s are `RECURSIVE` operators over the keys in
map order:

- `ResolveFrom` is the `vin` loop.
- `VoteOutpoints` is the outpoint loop of `Vote`.
- `ProcessOrphansInOrder` is the orphan loop. Its order is the constant
  `HashOrder`, a fixed arbitrary permutation of vote hashes.

**Actions.**

| Action | What it models |
|---|---|
| `ReceiveLockRequest` | A `txlreq` not seen before. It runs `ProcessTxLockRequest`, then either `AcceptLockRequest` and `Vote`, or `RejectLockRequest`. |
| `ReceiveVote` | `ProcessMessage` for a `txvote`: the vote is stored, then `ProcessTxLockVote` runs. |
| `ProcessOrphanTxLockVotes` | The orphan-reprocessing loop. |
| `TxToMempool` | An ordinary conflicting tx. |
| `MineTx` | A block with a tx: `SyncTransaction` for it and for the mempool txs it evicts, then `UpdatedBlockTip`. |
| `EmptyBlock` | A block without a tracked tx. |
| `DisconnectBlock` | A chain reorganisation disconnects the tip block: `SyncTransaction` with no block (`nHeightNew = -1`) for each of its txs, which go back to the mempool unless an input is locked to another tx, then `UpdatedBlockTip` at the lower height. |
| `Tick` | The clock advances. |
| `Sweep` | `CheckAndRemove`. |
| `MempoolEvict` | A tx leaves the mempool without being mined. |
| `LearnDynode` | A dynode enters the local dynode list. |

**Queries.** The read-only queries that wallets and RPCs ask are operators
on `S`: `GetLockedOutPointTxHash`, `IsLockedInstantSendTransaction`,
`IsInstantSendReadyToLock`, `GetConfirmations` and
`IsTxLockCandidateTimedOut`. The properties use them, so they state what a
caller of the lock manager is told.

**Undefined behaviour.** `Vote` looks up every hash of
`mapVotedOutpoints[o]` without an `end()` check. For a hash with no candidate,
the result is a free boolean `ub`, chosen nondeterministically.

**Abstractions.**

- A vote is the triple its hash serialises.
- Signatures of network votes always verify. The local signature in
  `Vote()` may fail when `SignMayFail` holds: the set `fails` of outpoints
  whose signing fails is chosen nondeterministically, and `Vote()` returns at
  the first of them, after the earlier outpoints were voted (lines 262-270).
- The dynode ranking is the constant `Eligible[o]`. The dynode list is the
  variable `dnKnown`, which starts as `KnownAtStart` and grows by
  `LearnDynode` (the node hears of a dynode after `AskForDN`).
- The non-UTXO checks of `CTxLockRequest::IsValid` are the constant set
  `WellFormed`.
- Time and heights are small integers.
- Sporks are on and the dynode list is synced.
- `MempoolEvict` (when `MempoolEvicts` holds) drops a tx from the mempool,
  as expiry or a size limit does; the lock manager is not told.

`IsReady`, `MarkAsAttacked` and the candidate constructor are in
`instantsend.h`, which is not in this tree. They are modelled from the spec, as
are `AcceptToMemoryPool` (`MempoolAccepts`) and the clock. `PROJECT.json`
marks them `spec_modelled`.


**Fairness and liveness.** `LiveSpec` is `Spec` with weak fairness on
`ReceiveVote(v)` for every network vote, on `ProcessOrphanTxLockVotes` and on
`LearnDynode(d)`. The code justifies all three:

- a vote a dynode broadcasts is relayed by every peer that accepts it
  (`CTxLockVote::Relay`), so it keeps being offered until it reaches the node;
- `ProcessOrphanTxLockVotes` is called again and again while orphans wait;
- a vote from an unknown dynode makes `IsValid` call `AskForDN`, so the
  node eventually learns of an existing dynode.

Nothing is assumed of `Sweep`, `Tick`, blocks or competing mempool txs: they
may happen or not.

**Refinement.** `Abs == INSTANCE InstantSendLock WITH locked <-
lockedOutpoints, announced <- notified, chain <- DOMAIN mined` maps the lock
manager onto the abstract specification, and `ImplementsInstantSendLock ==
Abs!Spec` is checked as a temporal property. It holds only where the
dynodes' quorums intersect: with a broken quorum, two conflicting candidates
can both get ready, and the conflict branch of `ResolveConflicts` releases
locks whose outpoints are still unspent, which the abstract specification
forbids. `is_sweep`, where the property is checked, has one network voter
and intersecting quorums; `is_broken_quorum` does not check it.

### `InstantSendLock.tla`

This is the abstract specification: what InstantSend promises, without
votes, candidates or timers. Its variables are `locked` (outpoint to tx),
`announced` and `chain`. Its actions are:

- `Lock(T)`: lock a set of txs with disjoint inputs, each of whose inputs is
  free of other locks and not spent by another tx in the chain, and announce
  them. A set is needed because one reprocessing of orphan votes can lock
  several txs in one atomic step.
- `Release(O)`: drop the locks of outpoints that are spent in the chain.
- `Mine(t)`: a tx whose inputs are unspent enters the chain.

### `MC_InstantSend.tla`

This module instantiates the model for TLC:

- Two txs that conflict: `t1` spends outpoint 1, and `t2` spends 2 and 1.
- Three dynodes, all eligible for both outpoints, with `SIGNATURES_REQUIRED = 2`.
  This keeps the property of the code's 6-of-10 rule that any two quorums of
  one outpoint share a dynode.
- `d1` is the local dynode.
- `MCHashOrder` is the hash order of the 12 possible votes.
- For the liveness runs, `MCInputsOfDisjoint`: `t1` and `t2` spend different
  outpoints, so both may lock.
- For the broken-quorum runs: four dynodes (`MCDynode4`), one outpoint
  (`MCOutpointOne`) spent by both txs (`MCInputsOfSame`), two signatures
  required. Two disjoint pairs of dynodes then each make a quorum, as a
  malicious majority of the code's top 10 can.

### `PrivateSend.tla` and `MC_PrivateSend.tla`

These model the static functions of `CPrivateSend`, as pure operators:

- `GetDenominations` builds the used-denomination vector and the
  all-outputs-denominated test. The shift loop, with its random break, is the
  `RECURSIVE` operator `ShiftUsedBits`.
- `GetDenominationsBits`, `GetDenominationsToString` and
  `GetDenominationsByAmounts`.
- `IsCollateralValid` on a collateral record (outputs with value and a
  normal-script flag, inputs, `nLockTime`), against a constant UTXO set. The
  `AcceptToMemoryPool` dry run is modelled by what it checks of a collateral.

`int` bit tests keep the width of a 32-bit two's complement `int`: `Bit(n, i)`
uses floor division, which is an arithmetic shift, so a negative `nDenom` has
its high bits set as in C++.

The state machine is a caller that makes one call at a time with bounded
inputs, records inputs and result in `last`, and returns. `vecBitsRet` is the
caller's vector, which persists between calls, as it does in a caller that
reuses it. The properties compare each result with reference definitions
written from the meaning of the mask (`RefMask`, `UsedDenominations`).

`MC_PrivateSend` gives the inputs:

- up to 3 outputs, each one of the four denominations or one whole coin
  (which no denomination equals);
- every in-range mask 0..15, the first out-of-range values 16 and 17,
  `INT_MAX`, and the negative values -1, -16 and `INT_MIN`;
- collaterals of up to 2 inputs and 2 outputs, over three outpoints: one worth
  1 unit, one worth 2, one unknown. Output values run from -1 to 2, and the
  collateral amount is 1 unit.

### `PrivateSendPSTX.tla` and `MC_PrivateSendPSTX.tla`

This module models `mapPSTX`, hash to `nConfirmedHeight`, with `AddPSTX`
(insert without overwrite), `GetPSTX`, `SyncTransaction` and `CheckPSTXes`.

The chain is the environment:

- `ConnectBlock(S)` mines a block with a set of unconfirmed txs and calls
  `SyncTransaction` with the block for each.
- `DisconnectBlock` removes the tip and calls `SyncTransaction` with a NULL
  block for its txs, as the validation interface does.

`CheckPSTXes` runs at the tip height. The MC module has two txs (symmetric)
and lets the chain grow to height 26, past the 24-block expiry depth.

## 3. Runs

| Run | cfg | Expect | Checks |
|---|---|---|---|
| `is_voting` | `MC_InstantSend.cfg` | pass (714k states) | `TypeOK`, `EquivocationVetoed`, `ConflictingNeverBothReady`, `LockBackedByQuorum`, `SelfNeverEquivocates` |
| `is_sweep` | `MC_InstantSend_sweep.cfg` | pass (1.46M states) | `SweepIdempotent`, `LockBackedByQuorum`, `ImplementsInstantSendLock` |
| `is_lock_liveness` | `MC_InstantSend_live.cfg` | pass (23k states) | `AcceptedBeforeVotesEventuallyLocked` |
| `is_broken_quorum` | `MC_InstantSend_broken.cfg` | pass (1.8M states) | `OrphanIteratorStaysValid` |
| `ps_functions` | `MC_PrivateSend.cfg` | pass (39k states) | `TypeOK`, `DenominationsMatchReference`, `BitsDecodeMask` |
| `ps_pstx` | `MC_PrivateSendPSTX.cfg` | pass (14k states) | `TypeOK` |
| `is_timeout_purge` | `MC_InstantSend_timeout.cfg` | violation | `SweepPurgesTimedOut` |
| `is_unknown_dynode` | `MC_InstantSend_unknowndn.cfg` | violation | `AcceptedBeforeVotesEventuallyLocked` |
| `is_dangling_voted` | `MC_InstantSend_dangling.cfg` | violation | `VotedOutpointsReferToCandidates` |
| `is_orphan_starvation` | `MC_InstantSend_starve.cfg` | violation | `AcceptedEventuallyLocked` |
| `is_locked_timed_out` | `MC_InstantSend_lockedtimeout.cfg` | violation | `LockedNeverReportedTimedOut` |
| `ps_denom_range` | `MC_PrivateSend_range.cfg` | violation | `OutOfBoundsDetected` |

### Bounds and why they are enough

**`is_voting`.** Two network voters plus the local one. Every interleaving of
the following steps is explored:

- requests;
- up to 12 distinct votes;
- orphan reprocessing;
- one block.

Timeouts are 0 and 1 ticks, and the clock stays at 0. The properties are about
vote counting and equivocation, which need two voters on two conflicting txs.
That is the smallest case where a double lock is possible at all.

**`is_sweep`.** One network voter. The clock goes to 2 ticks, which passes both
`LOCK_TIMEOUT` and `FAILED_TIMEOUT`. The chain goes to height 3, which passes
`KEEP_LOCK = 0`. This reaches every pass of `CheckAndRemove`:

- candidate expiry;
- vote expiry;
- orphan timeout;
- failed votes;
- rate-limit expiry.

Locks are taken, mined, expired and released in this run, so the refinement
mapping is exercised on `Lock`, `Mine` and `Release` steps. `MAX_REORG = 1`
lets the tip block be disconnected once below the best tip ever reached, so
a mined tx leaves the chain again (`Unmine` steps) and may be re-mined at
another height; the other runs set `MAX_REORG = 0`. The code disconnects and
reconnects blocks under `cs_main` in one `ActivateBestChain` step; the model
lets handlers run in between, which is an over-approximation and sound for
the safety properties checked here. A reorg depth of 1 is the smallest in
which a candidate's confirmed height goes stale; `is_sweep` with
`MAX_REORG = 0` has 760k states and the run takes about 3.5 minutes with
coverage at depth 1, so deeper reorgs are out of reach of the time bound.

`is_voting` lets signing fail and txs leave the mempool, so a dynode that
signed for one tx can see it evicted, accept a conflicting request and reach
`Vote()` again for the same outpoint; `SelfNeverEquivocates` asks whether the
`mapVotedOutpoints` scan still stops it. `MCEligibleOthers` (used by
`is_unknown_dynode`) makes the node a non-dynode, so only network votes count.

**`is_lock_liveness`.** Two network voters and the local dynode on two txs
with disjoint inputs. The clock is frozen (`MaxTime = 0`): a lock that times
out legitimately never completes, so the liveness question is asked of a node
whose votes arrive within the timeout. Blocks up to height 2 let a tx be mined
first.

**`is_broken_quorum`.** Four dynodes, one outpoint, two requests, three
network voters, clock to 1 tick and no block. This is the smallest instance
in which two conflicting candidates can both be ready, so
`TryToFinalizeLockCandidate` reaches the conflict branch of `ResolveConflicts`,
with its nested `CheckAndRemove`, while orphans are being reprocessed. It
takes about 2 minutes.

**`ps_functions`.** Every output list up to length 3 over 5 amounts, every
vector of 4 coin flips, every listed `nDenom`, and every collateral of the
bounds above. Lists of length 3 already contain duplicates, a missing
denomination and a non-denomination, which are the cases the loops handle.

**`ps_pstx`.** Two txs and heights up to 26: a tx can be confirmed at
height 1 and buried 25 deep, and blocks can be disconnected and txs re-mined
at other heights before that.

**Coverage.** Together the passing runs fire every action of every `Next`
and every disjunct.

### What the runs show

- **Safety of the quorum rule.** With quorums that intersect, the equivocation
  scan always vetoes an outpoint voted by one dynode for two txs. Two
  conflicting candidates are never both ready to lock, and every locked
  outpoint names a live candidate with a quorum that was announced. This holds
  whatever order the votes, requests, orphan reprocessing, blocks and sweeps
  happen in.
- **The node never equivocates itself.** Even when its signing fails part way
  through `Vote()` and a tx it voted for leaves the mempool, the node never
  signs votes for two txs on one outpoint.
- **The sweep** is idempotent. Its five passes never re-enable one another,
  for example a failed-vote removal making something else removable.
- **Refinement.** Where quorums intersect, the lock manager implements
  `InstantSendLock`:
  - it locks a tx only while no input is locked to another tx or spent by
    another mined tx;
  - it announces exactly the txs it locks;
  - `CheckAndRemove` releases a lock only once its outpoint is spent in the
    chain.

  A candidate that expires without being confirmed would release an
  unspent lock; the mutant that drops the confirmed-height test from
  `CTxLockCandidate::IsExpired` is rejected.

  This also holds across a chain reorganisation: when the tip block is
  disconnected, `SyncTransaction` resets the confirmed height of its txs to
  -1, so their candidates stop expiring and their locks stay. The mutant
  that ignores a tx leaving the chain (its candidate keeps the old height)
  releases the lock of a tx that is back in the mempool and is rejected; with
  `MAX_REORG = 0` that mutant goes unnoticed.
- **Liveness when the request leads.** A request the node accepted before any
  other dynode's vote arrived is eventually locked and announced, or mined.
- **The orphan loop is safe.** With a broken quorum, the nested
  `CheckAndRemove` in `ResolveConflicts` never erases the orphan that
  `ProcessOrphanTxLockVotes`' iterator points to. An orphan is never older
  than its candidate, so an orphan that has timed out belongs to a candidate
  that has timed out too, and `ProcessTxLockVote` refuses that candidate
  before finalising. A slip that counts orphans as timed out at the deadline
  rather than after it breaks this.
- **PrivateSend.**
  - `GetDenominations` matches the reference mask on every list.
  - `GetDenominationsBits` decodes every in-range mask exactly.
  - `GetDenominationsByAmounts`, `GetDenominationsToString`,
    `IsCollateralValid` and the PSTX map handlers run over all their bounded
    inputs and connect/disconnect orders with only their type invariants
    checked: a property of their results would restate their guards.
- **Six disagreements** were found. Each is a `violation` run; see `findings`
  in `PROJECT.json`.
  1. `CheckAndRemove` never removes a candidate that timed out without a
     quorum, unless its tx is later mined. The spec says the sweep purges them.
  2. A vote from a dynode that is not yet in the local list is stored in
     `mapTxLockVotes` and then rejected by `IsValid`. When the dynode is
     learned and the vote is relayed again, it is dropped as already seen,
     so an accepted request with an honest quorum is never locked. The spec
     calls the rejection a retry hint.
  3. A vote on an outpoint its tx does not spend puts the tx hash into
     `mapVotedOutpoints` before `AddVote` fails. The hash outlives its
     candidate, and `Vote()` later dereferences `end()`.
  4. Liveness fails when votes arrive before the request:
     `ProcessOrphanTxLockVotes` erases orphan votes whose request has not
     arrived (the orphan branch returns true after refreshing the rate limit),
     and re-sent votes are dropped as already seen, so the request is
     accepted with an honest quorum and never locked.
  5. After a tx is locked, one equivocating dynode marks its outpoint
     attacked. Once the timeout passes, `IsTxLockCandidateTimedOut` reports
     the locked tx as a timed-out candidate, while
     `IsLockedInstantSendTransaction` and `GetConfirmations` still report it
     locked.
  6. A negative `nDenom` from a peer passes the out-of-bounds test of
     `GetDenominationsBits` and `GetDenominationsToString`. Only bits 0..3
     are decoded: -1 is reported as all four denominations, while -16 or
     `INT_MIN` (low bits clear) is reported as non-denominated rather than
     out of bounds.

  One more disagreement has no run, because every run slot is taken.
  `GetDenominationsByAmounts` returns 0 for denominated amounts when every
  `GetRandInt(2)` draw is 0 (lines 293-298), while the comment above
  `GetDenominations` (lines 263-271) says 0 means a non-denominated list.
  `ps_functions` reaches that result; no property states the comment, so
  nothing in the project claims it holds.

Every property of a passing run is paired with a mutant in `PROJECT.json`. A
mutant is a variant `X_<Slip>` of a mapped definition `X`, for example
`ProcessTxLockVote_NoFinalize`, and TLC rejects each one.

### Fairness

Only `is_lock_liveness`, `is_unknown_dynode` and `is_orphan_starvation` use fairness, through
`LiveSpec`; see section 2. The violation runs use the same fairness, so their
counterexamples are fair behaviours: every vote is delivered, every dynode is
learned, and the orphan loop runs whenever it is enabled.

## 4. Not modelled, and why

- **Relay, inventory and peer bookkeeping.** These are message plumbing with
  no effect on lock state.
- **Wallet updates and `-instantsendnotify`.** These are external side
  effects. `notified` records the `NotifyTransactionLock` signal. The
  `LOCK(pwalletMain->cs_wallet)` statements at lines 77, 436 and 488 are the
  body of a brace-less `if`, so they release the wallet lock at once. That
  matters only to wallet threads, which are not in this tree; it is listed as
  a hazard without a property.
- **Dynode list removals and ranking changes.** The list only grows, the
  `IsDynodeListSynced` gate is open, and eligibility is constant.
- **Deep chain reorganisations in `InstantSend`.** Only one block below the
  best tip is disconnected (`MAX_REORG = 1`); see the bounds of `is_sweep`.
- **The 32-bit `int nDynodeOrphanExpireTime`.** Time is a few ticks. The
  wrap (after January 2038) makes the stored expiry negative, so
  `RemoveStaleOrphanRates` erases the entry at once and the rate limit is
  off; showing it needs a violation run, and all twelve run slots are used by
  questions that the model answers at today's clock values.
- **The spam heuristic at line 362.** The model keeps the comparison with
  the average exactly as written; whether it is a good heuristic is not a
  correctness property the code or spec states.
- **Unconfirmed PSTXs kept forever (`privatesend.cpp:117`).** A PSTX that is
  never mined keeps `nConfirmedHeight = -1` and is never erased. The PSTX
  model has this behaviour; a run showing the unbounded map would be a
  violation of a bound nobody states, so it stays a listed hazard.
- **`CTxLockRequest::IsValid`'s amount, age and fee tests.** They read chain,
  coin and spork values of other components; the model abstracts them to the
  constant set `WellFormed`.
- **PrivateSend queues, entries and pool state.**
  - `CPrivatesendQueue` and `CPrivatesendBroadcastTx` signing is
    cryptography.
  - `Relay` is a network send.
  - `CPrivateSendEntry::AddScriptSig` is used only by the mixing sessions,
    which are not in this tree.
  - `SetNull`, `GetStateString` and `GetMessageByID` are session resets and
    string tables.
- **The other files.** See section 1.

## 5. Plan for later work

In order:

1. **Numeric edges.** A run with 32-bit wrap-around of the orphan rate-limit
   expiry (`nDynodeOrphanExpireTime = GetTime() + 600` in an `int`).
2. **Multi-node composition.** Several nodes, each running `InstantSend`, with
   honest dynodes voting via `Vote` and messages that are lost, duplicated or
   reordered.
3. **Ghost vote entries.** Show that the entries `SyncTransaction` creates in
   `mapTxLockVotes` for unknown hashes eventually disappear, under fairness
   on `Sweep` (the thread calls it every 60 s while the chain is synced).
4. **Larger instances** of the quorum runs, with three txs.
5. **Deeper reorganisations** (`MAX_REORG = 2`) in a run of their own, with
   a smaller instance than `is_sweep` so that it stays within the time bound.
