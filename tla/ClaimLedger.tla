----------------------------- MODULE ClaimLedger -----------------------------
(***************************************************************************)
(* The durable claim ledger of the faucet                                  *)
(* (packages/bitcoin/faucet/ledger.mjs): the SQLite tables claims,         *)
(* reservations and quarantine, and the operations the payout engine calls *)
(* on them.  Every operation is one SQL statement or one transaction, and  *)
(* synchronous = FULL makes it durable before it returns, so each one is a *)
(* conjunct of the step that calls it.                                     *)
(*                                                                         *)
(* A claim is named after the request that creates it; its entitlement is  *)
(* the triple (network, output script, UTC day) and its key the pair       *)
(* (network, idempotency key).                                             *)
(***************************************************************************)
EXTENDS Naturals, FiniteSets, WalletTx

CONSTANTS
  Entitlements,    \* (network, script, day) triples
  Keys,            \* client idempotency keys, scoped by network
  EntitlementOf,   \* the entitlement each request asks for
  KeyOf,           \* the key each request carries, or None
  MaxBroadcasts    \* broadcasts per claim before it is parked (claimflow: 3)

Reasons == {"retired-confirmed", "conflicted-retired", "reorg-after-confirm",
            "reorg-resolved-conflicting-spend"}

GuardRow == [by : Claims, why : Reasons]

ASSUME LedgerAssumption ==
  /\ EntitlementOf \in [Claims -> Entitlements]
  /\ KeyOf \in [Claims -> Keys \cup {None}]
  /\ MaxBroadcasts \in Nat \ {0}
  /\ None \notin Claims \cup Keys \cup ClaimTx \cup GuardRow

VARIABLES
  state,      \* claims.state, "NONE" before the row exists
  rawTx,      \* claims.raw_tx with claims.local_txid
  reserved,   \* claims.reserved_outpoints
  attempts,   \* claims.broadcast_attempt_count
  resv,       \* reservations: the claim holding each outpoint, or None
  guard       \* quarantine: the row of each outpoint, or None

ledgerVars == <<state, rawTx, reserved, attempts, resv, guard>>

Terminal == {"CONFIRMED", "CONFLICTED", "FAILED_SAFE"}
NonTerminal == {"AUTHORISED", "SIGNED", "BROADCASTING", "SEEN", "UNCERTAIN"}
States == Terminal \cup NonTerminal

LedgerTypeOK ==
  /\ state \in [Claims -> States \cup {"NONE"}]
  /\ rawTx \in [Claims -> ClaimTx \cup {None}]
  /\ reserved \in [Claims -> SUBSET Outpoints]
  /\ attempts \in [Claims -> 0 .. MaxBroadcasts]
  /\ resv \in [Outpoints -> Claims \cup {None}]
  /\ guard \in [Outpoints -> GuardRow \cup {None}]

LedgerInit ==
  /\ state = [c \in Claims |-> "NONE"]
  /\ rawTx = [c \in Claims |-> None]
  /\ reserved = [c \in Claims |-> {}]
  /\ attempts = [c \in Claims |-> 0]
  /\ resv = [op \in Outpoints |-> None]
  /\ guard = [op \in Outpoints |-> None]

(***************************************************************************)
(* Queries                                                                 *)
(***************************************************************************)
Exists(c) == state[c] # "NONE"

\* getByEntitlement: the claims holding request r's entitlement.
HoldersOf(r) == {d \in Claims : Exists(d) /\ EntitlementOf[d] = EntitlementOf[r]}

\* getByClientKey, and the partial unique index uq_clientkey_net.
KeyTaken(r) ==
  KeyOf[r] # None /\ \E d \in Claims : Exists(d) /\ KeyOf[d] = KeyOf[r]

\* activeReservations: what coin selection must avoid.
Held(op) == resv[op] # None \/ guard[op] # None
ActiveReservations == {op \in Outpoints : Held(op)}

\* guardReason: every row of one claim carries the same reason.
GuardRows(c) == {op \in Outpoints : guard[op] # None /\ guard[op].by = c}
HasGuard(c) == GuardRows(c) # {}
GuardReasonIs(c, why) == \E op \in GuardRows(c) : guard[op].why = why

(***************************************************************************)
(* The transition matrix and the operations                                *)
(***************************************************************************)
TransitionAllowed(from, to) ==
  \/ /\ from = "AUTHORISED"
     /\ to \in {"SIGNED", "UNCERTAIN", "CONFLICTED", "FAILED_SAFE"}
  \/ /\ from = "SIGNED"
     /\ to \in {"BROADCASTING", "UNCERTAIN", "CONFLICTED", "FAILED_SAFE"}
  \/ /\ from = "BROADCASTING"
     /\ to \in {"SEEN", "CONFIRMED", "UNCERTAIN", "CONFLICTED", "FAILED_SAFE"}
  \/ /\ from = "SEEN"
     /\ to \in {"CONFIRMED", "UNCERTAIN", "CONFLICTED"}
  \/ /\ from = "UNCERTAIN"
     /\ to \in {"SEEN", "CONFIRMED", "BROADCASTING", "CONFLICTED", "FAILED_SAFE"}

\* transition() succeeds on a listed move and on a same-state patch.
Accepts(c, to) == Exists(c) /\ (state[c] = to \/ TransitionAllowed(state[c], to))

\* transition(): the move, or the exception that leaves the row alone.
Transition(c, to) ==
  state' = IF Accepts(c, to) THEN [state EXCEPT ![c] = to] ELSE state

\* markFailedSafe bypasses the matrix.
MarkFailedSafe(c) == state' = [state EXCEPT ![c] = "FAILED_SAFE"]

\* Mutant: markSigned without the immutable-once-set check.
SignAcceptedOverwriting(c, t) == Accepts(c, "SIGNED")

\* A same-state patch never replaces a committed raw_tx (IMMUTABLE_ONCE_SET).
SignAccepted(c, t) == Accepts(c, "SIGNED") /\ (state[c] = "SIGNED" => rawTx[c] \in {None, t})

MarkSigned(c, t) ==
  /\ state' = [state EXCEPT ![c] = "SIGNED"]
  /\ rawTx' = [rawTx EXCEPT ![c] = t]
  /\ reserved' = [reserved EXCEPT ![c] = t.ins]

MarkBroadcasting(c) ==
  /\ state' = [state EXCEPT ![c] = "BROADCASTING"]
  /\ attempts' = [attempts EXCEPT ![c] = @ + 1]

\* Mutant: reservations without their primary key.
InsertRefusedNoPrimaryKey(r, coins) == KeyTaken(r)

\* createAuthorised inside BEGIN IMMEDIATE: the reservations' primary key and
\* the two unique indexes refuse the insert.
InsertRefused(r, coins) == KeyTaken(r) \/ \E op \in coins : resv[op] # None

InsertClaim(r, coins) ==
  /\ state' = [state EXCEPT ![r] = "AUTHORISED"]
  /\ reserved' = [reserved EXCEPT ![r] = coins]
  /\ resv' = [op \in Outpoints |-> IF op \in coins THEN r ELSE resv[op]]

\* Mutant: the bare delete of retireReservations.
RetireWithoutGuard(c, why) ==
  /\ resv' = [op \in Outpoints |-> IF resv[op] = c THEN None ELSE resv[op]]
  /\ UNCHANGED guard

\* retireToGuard: guard rows in, reservation rows out, one transaction.
RetireToGuard(c, why) ==
  /\ guard' = [op \in Outpoints |->
                 IF op \in reserved[c] THEN [by |-> c, why |-> why] ELSE guard[op]]
  /\ resv' = [op \in Outpoints |-> IF resv[op] = c THEN None ELSE resv[op]]

\* setGuardReason: every row of the claim.
SetGuardReason(c, why) ==
  guard' = [op \in Outpoints |->
              IF op \in GuardRows(c) THEN [by |-> c, why |-> why] ELSE guard[op]]

\* quarantineOutpoints: ON CONFLICT DO NOTHING keeps a row already there.
QuarantineOutpoints(c, ops, why) ==
  guard' = [op \in Outpoints |->
              IF op \in ops /\ guard[op] = None THEN [by |-> c, why |-> why] ELSE guard[op]]

==============================================================================
