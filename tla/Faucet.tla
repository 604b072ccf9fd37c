-------------------------------- MODULE Faucet --------------------------------
(***************************************************************************)
(* The faucet's payout engine: the /claim handler (server.mjs), the        *)
(* recovery worker (recovery.mjs), the pass that advances one claim        *)
(* (advance.mjs, claimflow.mjs), own-node reconciliation                   *)
(* (authreconcile.mjs), the per-claim lock (claimlock.mjs) and the ledger, *)
(* over the Bitcoin network.                                               *)
(*                                                                         *)
(* Node runs one thread, so an action is the code between two awaits: what *)
(* it reads and writes is atomic, and every other actor may run at each    *)
(* await.  An actor is a request handler or the recovery worker; its       *)
(* program counter names the await it is parked at:                        *)
(*   "pick"     getUTXOs in createClaim                                    *)
(*   "lock"     the tail promise of the claim in withClaimLock             *)
(*   "sign"     the signer                                                 *)
(*   "recon"    reconcileState of a claim not SEEN                         *)
(*   "watch"    reconcileState of a claim read as SEEN                     *)
(*   "send"     chain.broadcast, before the node has the bytes             *)
(*   "accepted", "refused"  chain.broadcast, after the node decided        *)
(*   "facts", "pool", "coins"  the RPCs of gatherFacts                     *)
(* chain.authoritative is FALSE, as both adapters of the source set it     *)
(* (server.mjs, realChain): authority comes from the own node only.        *)
(***************************************************************************)
EXTENDS ClaimLedger, BitcoinNet

CONSTANTS
  Worker,         \* the recovery worker
  OwnNode,        \* the network has an own-node reconciler (authReconcilers)
  UseLock,        \* withClaimLock is in force
  Honest,         \* explorer, signer and broadcaster tell the truth
  MaxPicks,       \* createClaim's attempts (3)
  DailyCap,       \* GLOBAL_DAILY_CAP
  MinRetireConf,  \* confirmations before a reservation is retired (2)
  MaxCrashes      \* bound on process crashes

ASSUME FaucetAssumption ==
  /\ Worker \notin Claims \cup {None}
  /\ {OwnNode, UseLock, Honest} \subseteq BOOLEAN
  /\ MaxPicks \in Nat \ {0}
  /\ DailyCap \in Nat
  /\ MinRetireConf \in Nat \ {0}
  /\ MaxCrashes \in Nat

VARIABLES
  pc,        \* where each actor is parked
  cl,        \* the claim an actor is advancing
  tx,        \* its local copy of raw_tx and local_txid
  res,       \* its local copy of reserved_outpoints
  avoid,     \* activeReservations() as a handler read it before getUTXOs
  listing,   \* the coins unspent when getUTXOs was called
  picks,     \* createClaim attempts made
  facts,     \* what gatherFacts has learnt so far
  healthy,   \* ledgerHealthy
  crashes

actorVars == <<pc, cl, tx, res, avoid, listing, picks, facts>>
vars == <<ledgerVars, netVars, actorVars, healthy, crashes>>

Actors == Claims \cup {Worker}
Parked == {"new", "idle", "done", "pick", "lock"}
Inside == {"sign", "recon", "watch", "send", "accepted", "refused", "facts", "pool", "coins"}

NoFacts == [conf |-> 0, pool |-> FALSE]

ActorTypeOK ==
  /\ pc \in [Actors -> Parked \cup Inside]
  /\ cl \in [Actors -> Claims \cup {None}]
  /\ tx \in [Actors -> ClaimTx \cup {None}]
  /\ res \in [Actors -> SUBSET Outpoints]
  /\ avoid \in [Actors -> SUBSET Outpoints]
  /\ listing \in [Actors -> SUBSET Outpoints]
  /\ picks \in [Actors -> 0 .. MaxPicks]
  /\ facts \in [Actors -> [conf : Nat, pool : BOOLEAN]]
  /\ \A a \in Actors : pc[a] \in Inside \cup {"lock"} => cl[a] \in Claims
  /\ pc[Worker] \notin {"new", "pick"}
  /\ \A a \in Actors : pc[a] = "new" => picks[a] = 0

TypeOK ==
  /\ LedgerTypeOK
  /\ NetTypeOK
  /\ ActorTypeOK
  /\ healthy \in BOOLEAN
  /\ crashes \in 0 .. MaxCrashes

Init ==
  /\ LedgerInit
  /\ NetInit
  /\ pc = [a \in Actors |-> IF a = Worker THEN "idle" ELSE "new"]
  /\ cl = [a \in Actors |-> None]
  /\ tx = [a \in Actors |-> None]
  /\ res = [a \in Actors |-> {}]
  /\ avoid = [a \in Actors |-> {}]
  /\ listing = [a \in Actors |-> {}]
  /\ picks = [a \in Actors |-> 0]
  /\ facts = [a \in Actors |-> NoFacts]
  /\ healthy = TRUE
  /\ crashes = 0

-------------------------------------------------------------------------------
(***************************************************************************)
(* Moving between awaits                                                   *)
(***************************************************************************)
Goto(a, label) == pc' = [pc EXCEPT ![a] = label]

KeepLocals == UNCHANGED <<cl, tx, res, avoid, listing, picks, facts>>
KeepWorld == UNCHANGED <<netVars, healthy, crashes>>

\* On to the next await with the same local variables.
Await(a, label) == Goto(a, label) /\ KeepLocals

\* A finished or failed pass: the handler answers, the worker takes its next
\* claim, and the local variables are gone.
Finish(a) ==
  /\ Goto(a, IF a = Worker THEN "idle" ELSE "done")
  /\ cl' = [cl EXCEPT ![a] = None]
  /\ tx' = [tx EXCEPT ![a] = None]
  /\ res' = [res EXCEPT ![a] = {}]
  /\ avoid' = [avoid EXCEPT ![a] = {}]
  /\ listing' = [listing EXCEPT ![a] = {}]
  /\ picks' = [picks EXCEPT ![a] = 0]
  /\ facts' = [facts EXCEPT ![a] = NoFacts]

\* processClaim reads the row and runs to its first await.
ProcessClaim(a, c) ==
  IF state[c] \in Terminal
    THEN Finish(a)
    ELSE /\ Goto(a, CASE state[c] = "AUTHORISED" -> "sign"
                      [] state[c] = "SEEN" -> "watch"
                      [] OTHER -> "recon")
         /\ tx' = [tx EXCEPT ![a] = rawTx[c]]
         /\ res' = [res EXCEPT ![a] = reserved[c]]
         /\ facts' = [facts EXCEPT ![a] = NoFacts]
         /\ UNCHANGED <<cl, avoid, listing, picks>>

-------------------------------------------------------------------------------
(***************************************************************************)
(* The /claim handler                                                      *)
(***************************************************************************)

\* Bad input, the human check, the IP limit, the velocity breaker.
Refuse(r) ==
  /\ pc[r] = "new"
  /\ Finish(r)
  /\ KeepWorld /\ UNCHANGED ledgerVars

\* The key is known: the stored claim, or 409, and nothing changes.
ReplayKey(r) ==
  /\ pc[r] = "new" /\ healthy
  /\ KeyTaken(r)
  /\ Finish(r)
  /\ KeepWorld /\ UNCHANGED ledgerVars

\* The entitlement is taken: the existing claim is advanced unless terminal.
ReplayEntitlement(r) ==
  /\ pc[r] = "new" /\ healthy
  /\ ~KeyTaken(r)
  /\ \E c \in HoldersOf(r) :
       IF state[c] \in Terminal
         THEN Finish(r)
         ELSE /\ Goto(r, "lock")
              /\ cl' = [cl EXCEPT ![r] = c]
              /\ UNCHANGED <<tx, res, avoid, listing, picks, facts>>
  /\ KeepWorld /\ UNCHANGED ledgerVars

\* pickFaucetCoins: the held set is read, then getUTXOs is awaited.
AskForCoins(r) ==
  /\ avoid' = [avoid EXCEPT ![r] = ActiveReservations]
  /\ listing' = [listing EXCEPT ![r] = IF Honest THEN {op \in Outpoints : Unspent(op)} ELSE {}]
  /\ picks' = [picks EXCEPT ![r] = @ + 1]
  /\ Goto(r, "pick")
  /\ UNCHANGED <<cl, tx, res, facts>>

Admit(r) ==
  /\ pc[r] = "new" /\ healthy
  /\ ~KeyTaken(r)
  /\ HoldersOf(r) = {}
  /\ Cardinality({c \in Claims : Exists(c)}) < DailyCap
  /\ AskForCoins(r)
  /\ KeepWorld /\ UNCHANGED ledgerVars

CapReached(r) ==
  /\ pc[r] = "new" /\ healthy
  /\ ~KeyTaken(r)
  /\ HoldersOf(r) = {}
  /\ Cardinality({c \in Claims : Exists(c)}) >= DailyCap
  /\ Finish(r)
  /\ KeepWorld /\ UNCHANGED ledgerVars

\* The coins getUTXOs may return: an honest explorer answers as of the call or
\* as of the reply, another one with anything.
Selectable(r, coins) ==
  /\ coins \cap avoid[r] = {}
  /\ Honest => \/ coins \subseteq listing[r]
               \/ \A op \in coins : Unspent(op)

NoCoins(r) ==
  /\ pc[r] = "pick"
  /\ Finish(r)
  /\ KeepWorld /\ UNCHANGED ledgerVars

\* createAuthorised commits the claim with its reservations; advanceClaim follows.
CreateClaim(r) ==
  /\ pc[r] = "pick"
  /\ \E coins \in (SUBSET Outpoints) \ {{}} :
       /\ Selectable(r, coins)
       /\ HoldersOf(r) = {}
       /\ ~InsertRefused(r, coins)
       /\ InsertClaim(r, coins)
  /\ Goto(r, "lock")
  /\ cl' = [cl EXCEPT ![r] = r]
  /\ avoid' = [avoid EXCEPT ![r] = {}]
  /\ listing' = [listing EXCEPT ![r] = {}]
  /\ picks' = [picks EXCEPT ![r] = 0]
  /\ UNCHANGED <<rawTx, attempts, guard, tx, res, facts>>
  /\ KeepWorld

\* The entitlement went to another request during the await.
LoseEntitlement(r) ==
  /\ pc[r] = "pick"
  /\ \E coins \in (SUBSET Outpoints) \ {{}} : Selectable(r, coins)
  /\ HoldersOf(r) # {}
  /\ Finish(r)
  /\ KeepWorld /\ UNCHANGED ledgerVars

\* A coin or the key was taken during the await: fresh coins, three times.
RetryPick(r) ==
  /\ pc[r] = "pick"
  /\ \E coins \in (SUBSET Outpoints) \ {{}} :
       Selectable(r, coins) /\ InsertRefused(r, coins)
  /\ HoldersOf(r) = {}
  /\ IF picks[r] < MaxPicks THEN AskForCoins(r) ELSE Finish(r)
  /\ KeepWorld /\ UNCHANGED ledgerVars

\* A ledger call of the handler throws: payouts stop until a restart.
LedgerFailure(r) ==
  /\ pc[r] \in {"new", "pick"} /\ healthy
  /\ healthy' = FALSE
  /\ Finish(r)
  /\ UNCHANGED <<ledgerVars, netVars, crashes>>

-------------------------------------------------------------------------------
(***************************************************************************)
(* The recovery worker and the lock                                        *)
(***************************************************************************)

\* Mutant: nonTerminal() lists the claims not yet signed only.
RecoverUnsigned ==
  /\ pc[Worker] = "idle"
  /\ \E c \in Claims :
       /\ state[c] = "AUTHORISED"
       /\ cl' = [cl EXCEPT ![Worker] = c]
  /\ Goto(Worker, "lock")
  /\ UNCHANGED <<tx, res, avoid, listing, picks, facts>>
  /\ KeepWorld /\ UNCHANGED ledgerVars

\* recoverAll takes a claim from nonTerminal(), or from recentConfirmed() when
\* the own node can re-check it.
Recover ==
  /\ pc[Worker] = "idle"
  /\ \E c \in Claims :
       /\ state[c] \in NonTerminal \/ (OwnNode /\ state[c] = "CONFIRMED")
       /\ cl' = [cl EXCEPT ![Worker] = c]
  /\ Goto(Worker, "lock")
  /\ UNCHANGED <<tx, res, avoid, listing, picks, facts>>
  /\ KeepWorld /\ UNCHANGED ledgerVars

\* Mutant: withClaimLock runs every call at once.
LockIgnored(a) == a = a

LockFree(a) == \A b \in Actors \ {a} : cl[b] = cl[a] => pc[b] \notin Inside

\* advanceClaimInner: the own node reconciles what it may have an answer for.
Enter(a) ==
  /\ pc[a] = "lock"
  /\ UseLock => LockFree(a)
  /\ LET c == cl[a]
     IN IF OwnNode /\ state[c] \in {"SEEN", "UNCERTAIN", "CONFIRMED"} /\ rawTx[c] # None
          THEN /\ Goto(a, "facts")
               /\ tx' = [tx EXCEPT ![a] = rawTx[c]]
               /\ res' = [res EXCEPT ![a] = reserved[c]]
               /\ UNCHANGED <<cl, avoid, listing, picks, facts>>
          ELSE ProcessClaim(a, c)
  /\ KeepWorld /\ UNCHANGED ledgerVars

-------------------------------------------------------------------------------
(***************************************************************************)
(* processClaim: signing                                                   *)
(***************************************************************************)
Sign(a) ==
  /\ pc[a] = "sign"
  /\ \E ins \in (SUBSET Outpoints) \ {{}}, v \in Versions :
       LET t == [claim |-> cl[a], ins |-> ins, ver |-> v]
       IN  /\ ins \subseteq res[a]
           /\ SignAccepted(cl[a], t)
           /\ MarkSigned(cl[a], t)
           /\ tx' = [tx EXCEPT ![a] = t]
           /\ res' = [res EXCEPT ![a] = ins]
  /\ Goto(a, "recon")
  /\ UNCHANGED <<attempts, resv, guard, cl, avoid, listing, picks, facts>>
  /\ KeepWorld

\* Another pass already committed other bytes or moved on: markSigned throws.
SignRefused(a) ==
  /\ pc[a] = "sign"
  /\ \E ins \in (SUBSET res[a]) \ {{}}, v \in Versions :
       ~SignAccepted(cl[a], [claim |-> cl[a], ins |-> ins, ver |-> v])
  /\ Finish(a)
  /\ KeepWorld /\ UNCHANGED ledgerVars

SignFails(a) ==
  /\ pc[a] = "sign"
  /\ Transition(cl[a], "UNCERTAIN")
  /\ Finish(a)
  /\ UNCHANGED <<rawTx, reserved, attempts, resv, guard>>
  /\ KeepWorld

\* The signer's txid is not the bytes', or it spends a coin not reserved.
SignUnsafe(a) ==
  /\ pc[a] = "sign" /\ ~Honest
  /\ MarkFailedSafe(cl[a])
  /\ Finish(a)
  /\ UNCHANGED <<rawTx, reserved, attempts, resv, guard>>
  /\ KeepWorld

-------------------------------------------------------------------------------
(***************************************************************************)
(* processClaim: reconciliation with the explorer                          *)
(***************************************************************************)
Truth(a) ==
  IF tx[a] = None THEN "throw"
  ELSE IF tx[a] \in Mined THEN "confirmed"
  ELSE IF tx[a] \in mempool THEN "seen"
  ELSE IF \E op \in res[a] : ~Unspent(op) THEN "conflicted"
  ELSE "absent"

\* reconcileState returns; an explorer that is not honest answers anything.
Answers(a, r) == r = "throw" \/ ~Honest \/ r = Truth(a)

\* Mutant: an explorer's "confirmed" makes the claim terminal.
ReconcileConfirmed(a) ==
  /\ pc[a] = "recon"
  /\ Answers(a, "confirmed") \/ Answers(a, "seen")
  /\ Transition(cl[a], "CONFIRMED")
  /\ Finish(a)
  /\ UNCHANGED <<rawTx, reserved, attempts, resv, guard>>
  /\ KeepWorld

\* confirmed or seen: only an observation, since the explorer is advisory.
ReconcileSeen(a) ==
  /\ pc[a] = "recon"
  /\ Answers(a, "confirmed") \/ Answers(a, "seen")
  /\ Transition(cl[a], "SEEN")
  /\ Finish(a)
  /\ UNCHANGED <<rawTx, reserved, attempts, resv, guard>>
  /\ KeepWorld

\* Mutant: an unanswered reconciliation is taken for a sighting.
ReconcileOptimistic(a) ==
  /\ pc[a] = "recon"
  /\ Answers(a, "conflicted") \/ Answers(a, "throw")
  /\ Transition(cl[a], "SEEN")
  /\ Finish(a)
  /\ UNCHANGED <<rawTx, reserved, attempts, resv, guard>>
  /\ KeepWorld

\* Conflicted on an explorer's word, or no answer: held.
ReconcileHold(a) ==
  /\ pc[a] = "recon"
  /\ Answers(a, "conflicted") \/ Answers(a, "throw")
  /\ Transition(cl[a], "UNCERTAIN")
  /\ Finish(a)
  /\ UNCHANGED <<rawTx, reserved, attempts, resv, guard>>
  /\ KeepWorld

\* Mutant: the send is not preceded by the durable BROADCASTING write.
ReconcileAbsentUnlogged(a) ==
  /\ pc[a] = "recon"
  /\ Answers(a, "absent")
  /\ attempts[cl[a]] < MaxBroadcasts
  /\ Await(a, "send")
  /\ KeepWorld /\ UNCHANGED ledgerVars

\* Mutant: one broadcast too many.
ReconcileAbsentOnceMore(a) ==
  /\ pc[a] = "recon"
  /\ Answers(a, "absent")
  /\ attempts[cl[a]] <= MaxBroadcasts
  /\ IF Accepts(cl[a], "BROADCASTING")
       THEN MarkBroadcasting(cl[a]) /\ Await(a, "send")
       ELSE UNCHANGED <<state, attempts>> /\ Finish(a)
  /\ UNCHANGED <<rawTx, reserved, resv, guard>>
  /\ KeepWorld

\* Absent and attempts left: BROADCASTING is durable before anything is sent.
ReconcileAbsent(a) ==
  /\ pc[a] = "recon"
  /\ Answers(a, "absent")
  /\ attempts[cl[a]] < MaxBroadcasts
  /\ IF Accepts(cl[a], "BROADCASTING")
       THEN MarkBroadcasting(cl[a]) /\ Await(a, "send")
       ELSE UNCHANGED <<state, attempts>> /\ Finish(a)
  /\ UNCHANGED <<rawTx, reserved, resv, guard>>
  /\ KeepWorld

\* Absent and no attempt left: parked.
ReconcileExhausted(a) ==
  /\ pc[a] = "recon"
  /\ Answers(a, "absent")
  /\ attempts[cl[a]] >= MaxBroadcasts
  /\ Transition(cl[a], "UNCERTAIN")
  /\ Finish(a)
  /\ UNCHANGED <<rawTx, reserved, attempts, resv, guard>>
  /\ KeepWorld

\* A claim read as SEEN: absence demotes it, everything else leaves it.
Watch(a) ==
  /\ pc[a] = "watch"
  /\ \/ Answers(a, "absent") /\ Transition(cl[a], "UNCERTAIN")
     \/ \E r \in {"confirmed", "seen", "conflicted", "throw"} : Answers(a, r) /\ UNCHANGED state
  /\ Finish(a)
  /\ UNCHANGED <<rawTx, reserved, attempts, resv, guard>>
  /\ KeepWorld

-------------------------------------------------------------------------------
(***************************************************************************)
(* processClaim: broadcasting                                              *)
(***************************************************************************)
\* A pass with no stored transaction has nothing a node could take.
Transmit(a) ==
  /\ pc[a] = "send"
  /\ sent' = sent \cup ({tx[a]} \ {None})
  /\ \/ /\ tx[a] # None
        /\ Acceptable(tx[a])
        /\ mempool' = mempool \cup {tx[a]}
        /\ Await(a, "accepted")
     \/ Await(a, "refused") /\ UNCHANGED mempool
  /\ UNCHANGED <<ledgerVars, depth, reorgs, healthy, crashes>>

Replied == {"accepted", "refused"}

\* Our txid came back, or "already in mempool".
BroadcastSeen(a) ==
  /\ pc[a] \in Replied
  /\ Honest => pc[a] = "accepted"
  /\ Transition(cl[a], "SEEN")
  /\ Finish(a)
  /\ UNCHANGED <<rawTx, reserved, attempts, resv, guard>>
  /\ KeepWorld

\* Any other error is ambiguous, a lost reply included.
BroadcastAmbiguous(a) ==
  /\ pc[a] \in Replied
  /\ Transition(cl[a], "UNCERTAIN")
  /\ Finish(a)
  /\ UNCHANGED <<rawTx, reserved, attempts, resv, guard>>
  /\ KeepWorld

\* The network returned a different txid.
BroadcastMismatch(a) ==
  /\ pc[a] \in Replied /\ ~Honest
  /\ MarkFailedSafe(cl[a])
  /\ Finish(a)
  /\ UNCHANGED <<rawTx, reserved, attempts, resv, guard>>
  /\ KeepWorld

-------------------------------------------------------------------------------
(***************************************************************************)
(* Own-node reconciliation: three RPC groups, then one synchronous apply.  *)
(* A failed RPC yields the conservative value, so a reading is the truth   *)
(* of its own moment or that value.                                        *)
(***************************************************************************)
\* ready() throws: unreachable, wrong chain, syncing.  The claim is held.
NotAuthoritative(a) ==
  /\ pc[a] = "facts"
  /\ Finish(a)
  /\ KeepWorld /\ UNCHANGED ledgerVars

GatherConfirmations(a) ==
  /\ pc[a] = "facts"
  /\ \E n \in {0} \cup {depth[t] : t \in Mined \cap {tx[a]}} :
       /\ facts' = [facts EXCEPT ![a] = [conf |-> n, pool |-> FALSE]]
       /\ Goto(a, IF n >= 1 THEN "coins" ELSE "pool")
  /\ UNCHANGED <<cl, tx, res, avoid, listing, picks>>
  /\ KeepWorld /\ UNCHANGED ledgerVars

GatherMempool(a) ==
  /\ pc[a] = "pool"
  /\ \E b \in BOOLEAN :
       /\ b => tx[a] \in mempool
       /\ facts' = [facts EXCEPT ![a].pool = b]
  /\ Goto(a, "coins")
  /\ UNCHANGED <<cl, tx, res, avoid, listing, picks>>
  /\ KeepWorld /\ UNCHANGED ledgerVars

\* The coins read unspent, and whether a different mined spender was found.
CoinReadings(a, unspent, other) ==
  /\ unspent \subseteq {op \in res[a] : Unspent(op)}
  /\ other => /\ facts[a].conf < 1 /\ ~facts[a].pool
              /\ unspent # res[a]
              /\ \E t \in Mined : t # tx[a] /\ t.ins \cap res[a] # {}

\* Mutant: one confirmation is enough.
ClassifyShallow(a, unspent, other) ==
  CASE facts[a].conf >= 1 -> "CONFIRMED"
    [] facts[a].conf < 1 /\ facts[a].pool -> "SEEN"
    [] facts[a].conf < 1 /\ ~facts[a].pool /\ other -> "CONFLICTED"
    [] facts[a].conf < 1 /\ ~facts[a].pool /\ ~other /\ unspent = res[a] /\ unspent # {} -> "ABSENT"
    [] OTHER -> "UNCERTAIN"

\* classifyAuthoritative
Classify(a, unspent, other) ==
  CASE facts[a].conf >= MinRetireConf -> "CONFIRMED"
    [] facts[a].conf \in 1 .. MinRetireConf - 1 -> "SEEN"
    [] facts[a].conf < 1 /\ facts[a].pool -> "SEEN"
    [] facts[a].conf < 1 /\ ~facts[a].pool /\ other -> "CONFLICTED"
    [] facts[a].conf < 1 /\ ~facts[a].pool /\ ~other /\ unspent = res[a] /\ unspent # {} -> "ABSENT"
    [] OTHER -> "UNCERTAIN"

ReorgAfterConfirm(a, unspent) ==
  facts[a].conf < 1 /\ ~facts[a].pool /\ unspent # {}

\* The terminal state is written, then retireToGuard runs as a second
\* transaction: a crash between the two, or its rollback, leaves the
\* reservation rows in place.
ApplyTerminal(a, c, to, why) ==
  IF Accepts(c, to)
    THEN /\ state' = [state EXCEPT ![c] = to]
         /\ RetireToGuard(c, why) \/ UNCHANGED <<resv, guard>>
    ELSE UNCHANGED <<state, resv, guard>>

\* applyAuthoritative on a claim not yet CONFIRMED, but for the absent case.
ApplyVerdict(a) ==
  /\ pc[a] = "coins"
  /\ state[cl[a]] # "CONFIRMED"
  /\ \E unspent \in SUBSET res[a], other \in BOOLEAN :
       /\ CoinReadings(a, unspent, other)
       /\ IF state[cl[a]] \in Terminal
            THEN UNCHANGED <<state, resv, guard>>
            ELSE \/ /\ Classify(a, unspent, other) = "CONFIRMED"
                    /\ ApplyTerminal(a, cl[a], "CONFIRMED", "retired-confirmed")
                 \/ /\ Classify(a, unspent, other) = "CONFLICTED"
                    /\ ApplyTerminal(a, cl[a], "CONFLICTED", "conflicted-retired")
                 \/ /\ Classify(a, unspent, other) \in {"SEEN", "UNCERTAIN"}
                    /\ Transition(cl[a], Classify(a, unspent, other))
                    /\ UNCHANGED <<resv, guard>>
  /\ Finish(a)
  /\ UNCHANGED <<rawTx, reserved, attempts>>
  /\ KeepWorld

\* Absent on our own node: processClaim rebroadcasts the stored bytes.
ApplyAbsent(a) ==
  /\ pc[a] = "coins"
  /\ state[cl[a]] \in NonTerminal
  /\ \E unspent \in SUBSET res[a] :
       /\ CoinReadings(a, unspent, FALSE)
       /\ Classify(a, unspent, FALSE) = "ABSENT"
  /\ ProcessClaim(a, cl[a])
  /\ KeepWorld /\ UNCHANGED ledgerVars

\* A reorganisation un-confirmed the claim: its guard is flipped, or made if
\* the retirement never committed.  The rows are inserted one by one, so a
\* crash may leave some of them.
ReorgQuarantine(a) ==
  /\ pc[a] = "coins" /\ state[cl[a]] = "CONFIRMED"
  /\ ~GuardReasonIs(cl[a], "reorg-after-confirm")
  /\ \E unspent \in SUBSET res[a] :
       CoinReadings(a, unspent, FALSE) /\ ReorgAfterConfirm(a, unspent)
  /\ IF HasGuard(cl[a])
       THEN SetGuardReason(cl[a], "reorg-after-confirm")
       ELSE \E ops \in (SUBSET reserved[cl[a]]) \ {{}} :
              QuarantineOutpoints(cl[a], ops, "reorg-after-confirm")
  /\ Finish(a)
  /\ UNCHANGED <<state, rawTx, reserved, attempts, resv>>
  /\ KeepWorld

\* A claim in reorg hold: resolved by current evidence, its guard retained.
ReorgResolve(a) ==
  /\ pc[a] = "coins" /\ state[cl[a]] = "CONFIRMED"
  /\ GuardReasonIs(cl[a], "reorg-after-confirm")
  /\ \E unspent \in SUBSET res[a], other \in BOOLEAN :
       /\ CoinReadings(a, unspent, other)
       /\ \/ /\ facts[a].conf >= MinRetireConf
             /\ SetGuardReason(cl[a], "retired-confirmed")
          \/ other /\ SetGuardReason(cl[a], "reorg-resolved-conflicting-spend")
  /\ Finish(a)
  /\ UNCHANGED <<state, rawTx, reserved, attempts, resv>>
  /\ KeepWorld

\* A CONFIRMED claim about which there is nothing to do.
ConfirmedHeld(a) ==
  LET c == cl[a]
  IN /\ pc[a] = "coins" /\ state[c] = "CONFIRMED"
     /\ \E unspent \in SUBSET res[a], other \in BOOLEAN :
          /\ CoinReadings(a, unspent, other)
          /\ IF GuardReasonIs(c, "reorg-after-confirm")
               THEN facts[a].conf < MinRetireConf /\ ~other
               ELSE ~ReorgAfterConfirm(a, unspent)
     /\ Finish(a)
     /\ KeepWorld /\ UNCHANGED ledgerVars

-------------------------------------------------------------------------------
\* The process dies at any await and restarts: the ledger survives, the open
\* requests do not.
Crash ==
  /\ crashes < MaxCrashes
  /\ crashes' = crashes + 1
  /\ healthy' = TRUE
  /\ pc' = [a \in Actors |-> CASE a = Worker -> "idle"
                               [] a # Worker /\ pc[a] = "new" -> "new"
                               [] OTHER -> "done"]
  /\ cl' = [a \in Actors |-> None]
  /\ tx' = [a \in Actors |-> None]
  /\ res' = [a \in Actors |-> {}]
  /\ avoid' = [a \in Actors |-> {}]
  /\ listing' = [a \in Actors |-> {}]
  /\ picks' = [a \in Actors |-> 0]
  /\ facts' = [a \in Actors |-> NoFacts]
  /\ UNCHANGED <<ledgerVars, netVars>>

Handler(r) ==
  \/ Refuse(r) \/ ReplayKey(r) \/ ReplayEntitlement(r) \/ Admit(r) \/ CapReached(r)
  \/ NoCoins(r) \/ CreateClaim(r) \/ LoseEntitlement(r) \/ RetryPick(r)
  \/ LedgerFailure(r)

Pass(a) ==
  \/ Enter(a)
  \/ Sign(a) \/ SignRefused(a) \/ SignFails(a) \/ SignUnsafe(a)
  \/ ReconcileSeen(a) \/ ReconcileHold(a) \/ ReconcileAbsent(a) \/ ReconcileExhausted(a)
  \/ Watch(a)
  \/ Transmit(a) \/ BroadcastSeen(a) \/ BroadcastAmbiguous(a) \/ BroadcastMismatch(a)
  \/ NotAuthoritative(a) \/ GatherConfirmations(a) \/ GatherMempool(a)
  \/ ApplyVerdict(a) \/ ApplyAbsent(a)
  \/ ReorgQuarantine(a) \/ ReorgResolve(a) \/ ConfirmedHeld(a)

Network == NetNext /\ UNCHANGED <<ledgerVars, actorVars, healthy, crashes>>

Next ==
  \/ \E r \in Claims : Handler(r)
  \/ Recover
  \/ \E a \in Actors : Pass(a)
  \/ Network
  \/ Crash

Spec == Init /\ [][Next]_vars

-------------------------------------------------------------------------------
(***************************************************************************)
(* Properties                                                              *)
(***************************************************************************)

\* Exactly once: whatever crashes, retries, replays and lying explorers do,
\* at most one transaction is ever handed to the network for one entitlement
\* (I1 of docs/RT2_CLAIM_LEDGER.md; claimlock.mjs says it needs no lock).
AtMostOnePayment ==
  \A t, u \in sent : EntitlementOf[t.claim] = EntitlementOf[u.claim] => t = u

\* Write-ahead: the bytes on the network are those the ledger stored, and the
\* attempt was counted, before they left; so a restart can only resend them.
WriteAhead ==
  \A t \in sent : rawTx[t.claim] = t /\ attempts[t.claim] >= 1

\* Why exactly-once holds with the lock off: an entitlement has one row, bytes
\* are stored only on leaving AUTHORISED and never replaced, and every pass
\* that may send carries the bytes of its claim's row (claimflow.mjs signs
\* only AUTHORISED claims and resends "the STORED bytes").
PastSigning == Inside \ {"sign"}
Unsigned == {"NONE", "AUTHORISED"}

OneHolder ==
  \A c, d \in Claims : Exists(c) /\ Exists(d) /\ EntitlementOf[c] = EntitlementOf[d] => c = d

BytesAreFinal ==
  \A c \in Claims : /\ rawTx[c] # None => rawTx[c].claim = c /\ state[c] \notin Unsigned
                    /\ state[c] = "SIGNED" => rawTx[c] # None

PassesCarryTheBytes ==
  \A a \in Actors :
    /\ pc[a] \in {"lock", "sign"} => Exists(cl[a])
    /\ pc[a] \in PastSigning => state[cl[a]] \notin Unsigned /\ tx[a] = rawTx[cl[a]]
    /\ pc[a] = "send" => attempts[cl[a]] >= 1

OnceInv == OneHolder /\ BytesAreFinal /\ PassesCarryTheBytes /\ WriteAhead

\* A coin an outstanding or past payment spends is never back in coin
\* selection: it is reserved or guarded at every durable state.
InputsHeld ==
  \A c \in Claims : \A op \in reserved[c] : rawTx[c] # None => Held(op)

\* A claim being signed still owns every coin it was promised, so signing
\* late, after any delay or restart, spends no other claim's coin.
AuthorisedOwnsCoins ==
  \A c \in Claims : state[c] = "AUTHORISED" => \A op \in reserved[c] : resv[op] = c

\* Why: a coin of a row stays that row's until it is guarded, guards are
\* never removed, the bytes spend what the row says, and a signer works from
\* the row's own coins (ledger.mjs retireToGuard, claimflow.mjs' input check).
CoinInv ==
  /\ \A c \in Claims : \A op \in reserved[c] :
       /\ state[c] = "AUTHORISED" => resv[op] = c
       /\ rawTx[c] # None => resv[op] = c \/ (OwnNode /\ guard[op] # None)
  /\ \A c \in Claims : rawTx[c] # None => rawTx[c].ins = reserved[c]
  /\ \A a \in Actors :
       pc[a] = "sign" /\ state[cl[a]] = "AUTHORISED" => res[a] = reserved[cl[a]]
  /\ ~OwnNode => /\ \A c \in Claims : state[c] \notin {"CONFIRMED", "CONFLICTED"}
                 /\ \A a \in Actors : pc[a] \notin {"facts", "pool", "coins"}

\* Two claims never commit to one coin.
DisjointPayments ==
  \A c, d \in Claims : c # d /\ rawTx[c] # None /\ rawTx[d] # None
                       => rawTx[c].ins \cap rawTx[d].ins = {}

\* A guarded coin is as unavailable as a reserved one: no other claim gets it.
GuardedNotReserved ==
  \A op \in Outpoints : guard[op] # None => resv[op] \in {None, guard[op].by}

\* Short of a reorganisation, CONFIRMED means buried as deep as retirement
\* demands and CONFLICTED means another transaction really spent an input.
VerdictsAreTrue ==
  reorgs = 0 =>
    \A c \in Claims :
      /\ state[c] = "CONFIRMED" => rawTx[c] \in Mined /\ depth[rawTx[c]] >= MinRetireConf
      /\ state[c] = "CONFLICTED" => \E t \in Mined \ {rawTx[c]} : t.ins \cap reserved[c] # {}

\* With truthful services, the success the client is shown is real: the
\* payment left for the network.
SeenWasSent ==
  \A c \in Claims : state[c] \in {"SEEN", "CONFIRMED"} => rawTx[c] \in sent

\* Without an own node nothing terminal is concluded from the explorer's word
\* but the safety stop, and no reservation is ever given up.
AdvisoryOnly ==
  ~OwnNode => \A c \in Claims :
                /\ state[c] \notin {"CONFIRMED", "CONFLICTED"}
                /\ rawTx[c] # None => \A op \in rawTx[c].ins : resv[op] = c

\* The payment engine keeps the abstract promise: an entitlement is settled on
\* the bytes its claim's row stores, and only those are ever sent.
CommittedOf(e) ==
  LET settled == {c \in Claims : rawTx[c] # None /\ EntitlementOf[c] = e}
  IN  IF settled = {} THEN None ELSE rawTx[CHOOSE c \in settled : TRUE]

Promise == INSTANCE FaucetPromise WITH
  Payments <- ClaimTx,
  committed <- [e \in Entitlements |-> CommittedOf(e)]

\* Refinement: every step of the engine is a step of the promise or none.
KeepsPromise == Promise!Spec

\* Terminal states are terminal, and no step rewrites a committed transaction.
TerminalIsFinal ==
  [][\A c \in Claims : /\ state[c] \in Terminal => state'[c] = state[c]
                       /\ rawTx[c] # None => rawTx'[c] = rawTx[c]]_vars

\* A reservation ends only by becoming a guard, in one step: no crash finds
\* a signed input in neither table.
ReleasedOnlyIntoGuard ==
  [][\A op \in Outpoints :
       resv[op] # None /\ resv'[op] = None =>
         LET c == resv[op]
         IN  /\ state'[c] \in {"CONFIRMED", "CONFLICTED"}
             /\ op \in reserved[c] => guard'[op] # None]_vars

-------------------------------------------------------------------------------
(***************************************************************************)
(* Liveness.  The 30 s interval re-runs the worker (weak fairness of       *)
(* Recover), FIFO promise chains pass the lock on (strong fairness of      *)
(* Enter), and an awaited call returns or times out (weak fairness of the  *)
(* rest of a pass).  Requests, crashes and the network owe nothing.        *)
(***************************************************************************)
PassFairness(a) ==
  /\ SF_vars(Enter(a))
  /\ WF_vars(pc[a] \in Inside /\ Pass(a))

RecoverClaim(c) ==
  /\ Recover
  /\ cl'[Worker] = c

Fairness ==
  /\ \A c \in Claims : SF_vars(RecoverClaim(c))
  /\ \A a \in Actors : PassFairness(a)

FairSpec == Spec /\ Fairness

\* No claim is left mid-flight: it is eventually observed, terminal or held.
NeverParked ==
  \A c \in Claims :
    state[c] \in {"AUTHORISED", "SIGNED", "BROADCASTING"} ~>
      state[c] \in {"SEEN", "UNCERTAIN"} \cup Terminal

\* recovery.mjs: "This is what makes AUTHORISED claims auto-complete".
AuthorisedCompletes ==
  \A c \in Claims : state[c] = "AUTHORISED" ~> rawTx[c] # None \/ state[c] \in Terminal
===============================================================================
