--------------------------- MODULE InstantSendLock ---------------------------
(***************************************************************************)
(* What InstantSend promises about transaction locks, without votes,       *)
(* candidates or timers: a tx is locked (all its inputs at once) and       *)
(* announced only while no other tx holds a lock on one of its inputs and  *)
(* none of its inputs is spent in the chain by another tx; a lock on an    *)
(* outpoint is released only once that outpoint is spent in the chain.     *)
(* The chain may also lose txs again in a reorganisation.                  *)
(* InstantSend.tla is shown to implement this specification.              *)
(***************************************************************************)
EXTENDS FiniteSets, Functions

CONSTANTS
  Tx,          \* transactions
  Outpoint,    \* outpoints they spend
  Inputs(_)    \* Inputs(t): the outpoints t spends

VARIABLES
  locked,      \* Outpoint -> Tx, the tx each locked outpoint is locked to
  announced,   \* txs whose lock has been announced
  chain        \* txs included in the chain

vars == <<locked, announced, chain>>

Spent(o) == \E t \in chain : o \in Inputs(t)

\* No other tx holds a lock on an input of t.
Free(t) == \A o \in Inputs(t) : o \notin DOMAIN locked \/ locked[o] = t

\* t may be locked: its inputs are free and none is spent by another tx.
Lockable(t) == Free(t) /\ (t \in chain \/ \A o \in Inputs(t) : ~Spent(o))

\* One step may lock several txs (one node reprocesses many votes at once);
\* they spend disjoint outpoints.
Lock(T) ==
  /\ T # {}
  /\ \A t \in T : Lockable(t)
  /\ \A a, b \in T : a # b => Inputs(a) \cap Inputs(b) = {}
  /\ locked' = [o \in DOMAIN locked \cup UNION {Inputs(t) : t \in T} |->
                  IF o \in DOMAIN locked THEN locked[o]
                  ELSE CHOOSE t \in T : o \in Inputs(t)]
  /\ announced' = announced \cup T
  /\ UNCHANGED chain

Release(O) ==
  /\ O # {}
  /\ O \subseteq DOMAIN locked
  /\ \A o \in O : Spent(o)
  /\ locked' = Restrict(locked, DOMAIN locked \ O)
  /\ UNCHANGED <<announced, chain>>

Mine(t) ==
  /\ t \notin chain
  /\ \A o \in Inputs(t) : ~Spent(o)
  /\ chain' = chain \cup {t}
  /\ UNCHANGED <<locked, announced>>

\* A chain reorganisation takes txs out of the chain again; locks and
\* announcements stay as they are.
Unmine(T) ==
  /\ T # {}
  /\ T \subseteq chain
  /\ chain' = chain \ T
  /\ UNCHANGED <<locked, announced>>

Init ==
  /\ locked = [o \in {} |-> CHOOSE t \in Tx : TRUE]
  /\ announced = {}
  /\ chain = {}

Next ==
  \/ \E T \in SUBSET Tx : Lock(T)
  \/ \E O \in SUBSET Outpoint : Release(O)
  \/ \E t \in Tx : Mine(t)
  \/ \E T \in SUBSET Tx : Unmine(T)

Spec == Init /\ [][Next]_vars
=============================================================================
