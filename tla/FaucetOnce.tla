------------------------------ MODULE FaucetOnce ------------------------------
(***************************************************************************)
(* Theorems about the payout engine, for every set of claims, coins,       *)
(* entitlements and versions, with or without the lock, the own node and   *)
(* truthful services: its types, exactly-once (with services that lie, any *)
(* number of crashes and of passes over one claim; the inductive invariant *)
(* is OnceInv), and that it implements FaucetPromise.                      *)
(***************************************************************************)
EXTENDS Faucet, TLAPS

USE LedgerAssumption, NetAssumption, FaucetAssumption

LEMMA TypeInit == Init => TypeOK
  BY DEF Init, TypeOK, LedgerInit, NetInit, LedgerTypeOK, NetTypeOK, ActorTypeOK, Mined, Actors, Parked,
         Inside, NoFacts

-------------------------------------------------------------------------------
(* How the steps of a pass end: the locals stay well typed. *)
LEMMA FinishType ==
  ASSUME ActorTypeOK, NEW a \in Actors, Finish(a)
  PROVE  ActorTypeOK'
  BY DEF ActorTypeOK, Actors, Finish, Goto, Parked, Inside, NoFacts

LEMMA AwaitType ==
  ASSUME ActorTypeOK, NEW a \in Actors, NEW label \in Inside, cl[a] \in Claims, Await(a, label)
  PROVE  ActorTypeOK'
  BY DEF ActorTypeOK, Actors, Await, KeepLocals, Goto, Parked, Inside

LEMMA ProcessType ==
  ASSUME ActorTypeOK, LedgerTypeOK, NEW a \in Actors, NEW c \in Claims, cl[a] \in Claims,
         ProcessClaim(a, c)
  PROVE  ActorTypeOK'
  <1>1. CASE state[c] \in Terminal
    BY <1>1, FinishType DEF ProcessClaim
  <1>2. CASE state[c] \notin Terminal
    <2> DEFINE label == CASE state[c] = "AUTHORISED" -> "sign"
                          [] state[c] = "SEEN" -> "watch"
                          [] OTHER -> "recon"
    <2>1. label \in Inside /\ label \notin {"new", "pick"}
      BY DEF Inside
    <2>2. pc' = [pc EXCEPT ![a] = label]
      BY <1>2 DEF ProcessClaim, Goto
    <2>3. /\ tx' = [tx EXCEPT ![a] = rawTx[c]]
          /\ res' = [res EXCEPT ![a] = reserved[c]]
          /\ facts' = [facts EXCEPT ![a] = NoFacts]
          /\ UNCHANGED <<cl, avoid, listing, picks>>
      BY <1>2 DEF ProcessClaim
    <2> HIDE DEF label
    <2>4. QED
      BY <2>1, <2>2, <2>3 DEF ActorTypeOK, LedgerTypeOK, NoFacts, Parked, Actors
  <1>3. QED
    BY <1>1, <1>2

LEMMA AskType ==
  ASSUME ActorTypeOK, NEW r \in Claims, picks[r] < MaxPicks, AskForCoins(r)
  PROVE  ActorTypeOK'
  BY DEF ActorTypeOK, Actors, AskForCoins, Goto, Parked, Inside, ActiveReservations

(* On to an await of a pass on claim c, with well-typed locals. *)
LEMMA StepType ==
  ASSUME ActorTypeOK, NEW a \in Actors, NEW c \in Claims, NEW label \in Inside \cup {"lock"},
         Goto(a, label),
         cl' = [cl EXCEPT ![a] = c],
         tx' \in [Actors -> ClaimTx \cup {None}],
         res' \in [Actors -> SUBSET Outpoints],
         facts' \in [Actors -> [conf : Nat, pool : BOOLEAN]],
         UNCHANGED <<avoid, listing, picks>>
  PROVE  ActorTypeOK'
  <1>1. label \notin {"new", "pick"} /\ label \in Parked \cup Inside
    BY DEF Inside, Parked
  <1>2. pc' = [pc EXCEPT ![a] = label]
    BY DEF Goto
  <1>3. /\ pc' \in [Actors -> Parked \cup Inside]
        /\ pc'[Worker] \notin {"new", "pick"}
    BY <1>1, <1>2 DEF ActorTypeOK
  <1>4. cl' \in [Actors -> Claims \cup {None}]
    BY DEF ActorTypeOK
  <1>5. \A b \in Actors : pc'[b] \in Inside \cup {"lock"} => cl'[b] \in Claims
    BY <1>2 DEF ActorTypeOK
  <1>6. \A b \in Actors : pc'[b] = "new" => picks'[b] = 0
    BY <1>1, <1>2 DEF ActorTypeOK
  <1>7. QED
    BY <1>3, <1>4, <1>5, <1>6 DEF ActorTypeOK

LEMMA MoveType ==
  ASSUME LedgerTypeOK, NEW c \in Claims, NEW to \in States, Transition(c, to),
         UNCHANGED <<rawTx, reserved, attempts, resv, guard>>
  PROVE  LedgerTypeOK'
  BY DEF LedgerTypeOK, Transition

LEMMA FailSafeType ==
  ASSUME LedgerTypeOK, NEW c \in Claims, MarkFailedSafe(c),
         UNCHANGED <<rawTx, reserved, attempts, resv, guard>>
  PROVE  LedgerTypeOK'
  BY DEF LedgerTypeOK, MarkFailedSafe, States, Terminal

LEMMA LedgerFrame == LedgerTypeOK /\ UNCHANGED ledgerVars => LedgerTypeOK'
  BY DEF LedgerTypeOK, ledgerVars

LEMMA NetFrame == NetTypeOK /\ UNCHANGED netVars => NetTypeOK'
  BY DEF NetTypeOK, netVars, Mined

LEMMA WorldFrame ==
  ASSUME TypeOK, LedgerTypeOK', ActorTypeOK', KeepWorld
  PROVE  TypeOK'
  BY NetFrame DEF TypeOK, KeepWorld

(* A step that writes one claim's state and ends the pass. *)
LEMMA MoveAndFinishType ==
  ASSUME TypeOK, NEW a \in Actors, NEW c \in Claims, NEW to \in States,
         Transition(c, to), Finish(a),
         UNCHANGED <<rawTx, reserved, attempts, resv, guard>>, KeepWorld
  PROVE  TypeOK'
  BY MoveType, FinishType, WorldFrame DEF TypeOK

LEMMA FailSafeAndFinishType ==
  ASSUME TypeOK, NEW a \in Actors, NEW c \in Claims, MarkFailedSafe(c), Finish(a),
         UNCHANGED <<rawTx, reserved, attempts, resv, guard>>, KeepWorld
  PROVE  TypeOK'
  BY FailSafeType, FinishType, WorldFrame DEF TypeOK

LEMMA FinishOnlyType ==
  ASSUME TypeOK, NEW a \in Actors, Finish(a), UNCHANGED ledgerVars, KeepWorld
  PROVE  TypeOK'
  BY LedgerFrame, FinishType, WorldFrame DEF TypeOK

LEMMA StateNames ==
  {"AUTHORISED", "SIGNED", "BROADCASTING", "SEEN", "UNCERTAIN",
   "CONFIRMED", "CONFLICTED", "FAILED_SAFE"} \subseteq States
  BY DEF States, Terminal, NonTerminal

LEMMA HandlerType ==
  ASSUME TypeOK, NEW r \in Claims, Handler(r)
  PROVE  TypeOK'
  <1> USE DEF TypeOK
  <1>0. r \in Actors
    BY DEF Actors
  <1>1. CASE Refuse(r) \/ ReplayKey(r) \/ CapReached(r) \/ NoCoins(r) \/ LoseEntitlement(r)
    BY <1>0, <1>1, FinishOnlyType DEF Refuse, ReplayKey, CapReached, NoCoins, LoseEntitlement
  <1>2. CASE ReplayEntitlement(r)
    <2>1. ActorTypeOK'
      <3>1. PICK c \in HoldersOf(r) :
              IF state[c] \in Terminal
                THEN Finish(r)
                ELSE /\ Goto(r, "lock")
                     /\ cl' = [cl EXCEPT ![r] = c]
                     /\ UNCHANGED <<tx, res, avoid, listing, picks, facts>>
        BY <1>2 DEF ReplayEntitlement
      <3>2. CASE state[c] \in Terminal
        BY <1>0, <3>1, <3>2, FinishType
      <3>3. CASE state[c] \notin Terminal
        BY <1>0, <3>1, <3>3, StepType DEF ActorTypeOK, HoldersOf
      <3>4. QED
        BY <3>2, <3>3
    <2>2. QED
      BY <1>2, <2>1, LedgerFrame, WorldFrame DEF ReplayEntitlement
  <1>3. CASE Admit(r)
    <2>1. picks[r] < MaxPicks
      BY <1>0, <1>3 DEF Admit, ActorTypeOK
    <2>2. QED
      BY <1>3, <2>1, AskType, LedgerFrame, WorldFrame DEF Admit
  <1>4. CASE CreateClaim(r)
    <2>1. LedgerTypeOK'
      BY <1>4, StateNames DEF CreateClaim, InsertClaim, LedgerTypeOK
    <2>2. ActorTypeOK'
      BY <1>0, <1>4 DEF CreateClaim, ActorTypeOK, Actors, Goto, Parked, Inside
    <2>3. QED
      BY <1>4, <2>1, <2>2, WorldFrame DEF CreateClaim
  <1>5. CASE RetryPick(r)
    <2>1. ActorTypeOK'
      BY <1>0, <1>5, AskType, FinishType DEF RetryPick
    <2>2. QED
      BY <1>5, <2>1, LedgerFrame, WorldFrame DEF RetryPick
  <1>6. CASE LedgerFailure(r)
    BY <1>0, <1>6, FinishType, LedgerFrame, NetFrame DEF LedgerFailure
  <1>7. QED
    BY <1>1, <1>2, <1>3, <1>4, <1>5, <1>6 DEF Handler
LEMMA RecoverType ==
  ASSUME TypeOK, Recover
  PROVE  TypeOK'
  <1>1. Worker \in Actors
    BY DEF Actors
  <1>2. ActorTypeOK'
    BY <1>1, StepType DEF TypeOK, Recover, ActorTypeOK
  <1>3. QED
    BY <1>2, LedgerFrame, WorldFrame DEF TypeOK, Recover

(* applyAuthoritative writes the state, and the two guard tables with it. *)
LEMMA VerdictType ==
  ASSUME TypeOK, NEW a \in Actors, cl[a] \in Claims, ApplyVerdict(a)
  PROVE  LedgerTypeOK'
  <1> DEFINE c == cl[a]
  <1>1. ASSUME NEW to \in {"CONFIRMED", "CONFLICTED"}, NEW why \in Reasons, ApplyTerminal(a, c, to, why)
        PROVE  LedgerTypeOK'
    <2>1. state' \in [Claims -> States \cup {"NONE"}]
      BY <1>1, StateNames DEF ApplyTerminal, TypeOK, LedgerTypeOK
    <2>2. /\ resv' \in [Outpoints -> Claims \cup {None}]
          /\ guard' \in [Outpoints -> GuardRow \cup {None}]
      BY <1>1 DEF ApplyTerminal, RetireToGuard, TypeOK, LedgerTypeOK, GuardRow
    <2>3. QED
      BY <2>1, <2>2 DEF ApplyVerdict, TypeOK, LedgerTypeOK
  <1>2. ASSUME NEW to \in {"SEEN", "UNCERTAIN"}, Transition(c, to), UNCHANGED <<resv, guard>>
        PROVE  LedgerTypeOK'
    BY <1>2, StateNames, MoveType DEF ApplyVerdict, TypeOK
  <1>3. CASE UNCHANGED <<state, resv, guard>>
    BY <1>3, LedgerFrame DEF ApplyVerdict, TypeOK, ledgerVars
  <1>4. "retired-confirmed" \in Reasons /\ "conflicted-retired" \in Reasons
    BY DEF Reasons
  <1>5. QED
    BY <1>1, <1>2, <1>3, <1>4 DEF ApplyVerdict

(* The steps of a pass, from the lock to its end. *)
LEMMA PassType ==
  ASSUME TypeOK, NEW a \in Actors, Pass(a)
  PROVE  TypeOK'
  <1> USE DEF TypeOK
  <1>0. /\ pc[a] \in Inside \cup {"lock"} => cl[a] \in Claims
        /\ cl \in [Actors -> Claims \cup {None}]
        /\ tx \in [Actors -> ClaimTx \cup {None}]
        /\ res \in [Actors -> SUBSET Outpoints]
        /\ facts \in [Actors -> [conf : Nat, pool : BOOLEAN]]
    BY DEF ActorTypeOK
  <1>1. CASE Enter(a)
    <2> DEFINE c == cl[a]
    <2>1. c \in Claims
      BY <1>0, <1>1 DEF Enter
    <2>2. ActorTypeOK'
      <3>1. CASE ProcessClaim(a, c)
        BY <2>1, <3>1, ProcessType
      <3>2. CASE /\ Goto(a, "facts")
                 /\ tx' = [tx EXCEPT ![a] = rawTx[c]]
                 /\ res' = [res EXCEPT ![a] = reserved[c]]
                 /\ UNCHANGED <<cl, avoid, listing, picks, facts>>
        <4>1. rawTx[c] \in ClaimTx \cup {None} /\ reserved[c] \in SUBSET Outpoints
          BY <2>1 DEF LedgerTypeOK
        <4>2. "facts" \in Inside
          BY DEF Inside
        <4>3. cl' = [cl EXCEPT ![a] = c]
          BY <1>0, <3>2
        <4>4. QED
          BY <1>0, <2>1, <3>2, <4>1, <4>2, <4>3, StepType
      <3>3. QED
        BY <1>1, <3>1, <3>2 DEF Enter
    <2>3. QED
      BY <1>1, <2>2, LedgerFrame, WorldFrame DEF Enter
  <1>2. CASE Sign(a)
    <2>1. cl[a] \in Claims
      BY <1>0, <1>2 DEF Sign, Inside
    <2>2. PICK t \in ClaimTx :
            /\ MarkSigned(cl[a], t)
            /\ tx' = [tx EXCEPT ![a] = t]
            /\ res' = [res EXCEPT ![a] = t.ins]
      <3>1. PICK ins \in (SUBSET Outpoints) \ {{}}, v \in Versions :
              LET t == [claim |-> cl[a], ins |-> ins, ver |-> v]
              IN  /\ MarkSigned(cl[a], t)
                  /\ tx' = [tx EXCEPT ![a] = t]
                  /\ res' = [res EXCEPT ![a] = ins]
        BY <1>2 DEF Sign
      <3>2. [claim |-> cl[a], ins |-> ins, ver |-> v] \in ClaimTx
        BY <2>1 DEF ClaimTx
      <3>3. QED
        BY <3>1, <3>2
    <2>3. t.ins \in SUBSET Outpoints
      BY DEF ClaimTx
    <2>4. LedgerTypeOK'
      BY <1>2, <2>1, <2>2, <2>3, StateNames DEF Sign, MarkSigned, LedgerTypeOK
    <2>5. ActorTypeOK'
      <3>1. "recon" \in Inside /\ cl' = [cl EXCEPT ![a] = cl[a]]
        BY <1>0, <1>2 DEF Sign, Inside
      <3>2. QED
        BY <1>0, <1>2, <2>1, <2>2, <2>3, <3>1, StepType DEF Sign
    <2>6. QED
      BY <1>2, <2>4, <2>5, WorldFrame DEF Sign
  <1>3. CASE SignRefused(a) \/ NotAuthoritative(a) \/ ConfirmedHeld(a)
    BY <1>3, FinishOnlyType DEF SignRefused, NotAuthoritative, ConfirmedHeld
  <1>4. CASE SignFails(a) \/ ReconcileExhausted(a) \/ BroadcastAmbiguous(a)
    <2>1. cl[a] \in Claims
      BY <1>0, <1>4 DEF SignFails, ReconcileExhausted, BroadcastAmbiguous, Inside, Replied
    <2>2. QED
      BY <1>4, <2>1, StateNames, MoveAndFinishType
         DEF SignFails, ReconcileExhausted, BroadcastAmbiguous
  <1>5. CASE ReconcileSeen(a) \/ BroadcastSeen(a)
    <2>1. cl[a] \in Claims
      BY <1>0, <1>5 DEF ReconcileSeen, BroadcastSeen, Inside, Replied
    <2>2. QED
      BY <1>5, <2>1, StateNames, MoveAndFinishType DEF ReconcileSeen, BroadcastSeen
  <1>6. CASE SignUnsafe(a) \/ BroadcastMismatch(a)
    <2>1. cl[a] \in Claims
      BY <1>0, <1>6 DEF SignUnsafe, BroadcastMismatch, Inside, Replied
    <2>2. QED
      BY <1>6, <2>1, FailSafeAndFinishType DEF SignUnsafe, BroadcastMismatch
  <1>7. CASE ReconcileHold(a)
    <2>1. cl[a] \in Claims
      BY <1>0, <1>7 DEF ReconcileHold, Inside
    <2>2. QED
      BY <1>7, <2>1, StateNames, MoveAndFinishType DEF ReconcileHold
  <1>8. CASE ReconcileAbsent(a)
    <2>1. cl[a] \in Claims
      BY <1>0, <1>8 DEF ReconcileAbsent, Inside
    <2>2. CASE MarkBroadcasting(cl[a]) /\ Await(a, "send")
      <3>1. attempts[cl[a]] + 1 \in 0 .. MaxBroadcasts
        BY <1>8, <2>1 DEF ReconcileAbsent, LedgerTypeOK
      <3>2. LedgerTypeOK'
        BY <1>8, <2>1, <2>2, <3>1, StateNames DEF ReconcileAbsent, MarkBroadcasting, LedgerTypeOK
      <3>3. "send" \in Inside
        BY DEF Inside
      <3>4. QED
        BY <1>8, <2>1, <2>2, <3>2, <3>3, AwaitType, WorldFrame DEF ReconcileAbsent
    <2>3. CASE UNCHANGED <<state, attempts>> /\ Finish(a)
      BY <1>8, <2>3, FinishOnlyType DEF ReconcileAbsent, ledgerVars
    <2>4. QED
      BY <1>8, <2>2, <2>3 DEF ReconcileAbsent
  <1>9. CASE Watch(a)
    <2>1. cl[a] \in Claims
      BY <1>0, <1>9 DEF Watch, Inside
    <2>2. CASE Transition(cl[a], "UNCERTAIN")
      BY <1>9, <2>1, <2>2, StateNames, MoveAndFinishType DEF Watch
    <2>3. CASE UNCHANGED state
      BY <1>9, <2>3, FinishOnlyType DEF Watch, ledgerVars
    <2>4. QED
      BY <1>9, <2>2, <2>3 DEF Watch
  <1>10. CASE Transmit(a)
    <2>1. cl[a] \in Claims
      BY <1>0, <1>10 DEF Transmit, Inside
    <2>2. tx[a] \in ClaimTx \cup {None}
      BY <1>0
    <2>3. NetTypeOK'
      BY <1>10, <2>2 DEF Transmit, NetTypeOK, NetTx, Mined
    <2>4. ActorTypeOK'
      BY <1>10, <2>1, AwaitType DEF Transmit, Inside
    <2>5. QED
      BY <1>10, <2>3, <2>4, LedgerFrame DEF Transmit
  <1>11. CASE GatherConfirmations(a)
    <2>1. cl[a] \in Claims
      BY <1>0, <1>11 DEF GatherConfirmations, Inside
    <2>2. PICK n \in {0} \cup {depth[t] : t \in Mined \cap {tx[a]}} :
            /\ facts' = [facts EXCEPT ![a] = [conf |-> n, pool |-> FALSE]]
            /\ Goto(a, IF n >= 1 THEN "coins" ELSE "pool")
      BY <1>11 DEF GatherConfirmations
    <2>3. n \in Nat
      BY <2>2 DEF NetTypeOK
    <2>4. facts' \in [Actors -> [conf : Nat, pool : BOOLEAN]]
      BY <1>0, <2>2, <2>3
    <2>5. (IF n >= 1 THEN "coins" ELSE "pool") \in Inside
      BY DEF Inside
    <2>6. cl' = [cl EXCEPT ![a] = cl[a]]
      BY <1>0, <1>11 DEF GatherConfirmations
    <2>7. ActorTypeOK'
      BY <1>0, <1>11, <2>1, <2>2, <2>4, <2>5, <2>6, StepType DEF GatherConfirmations
    <2>8. QED
      BY <1>11, <2>7, LedgerFrame, WorldFrame DEF GatherConfirmations
  <1>12. CASE GatherMempool(a)
    <2>1. cl[a] \in Claims
      BY <1>0, <1>12 DEF GatherMempool, Inside
    <2>2. PICK b \in BOOLEAN : facts' = [facts EXCEPT ![a].pool = b]
      BY <1>12 DEF GatherMempool
    <2>4. facts' \in [Actors -> [conf : Nat, pool : BOOLEAN]]
      BY <1>0, <2>2
    <2>5. "coins" \in Inside
      BY DEF Inside
    <2>6. cl' = [cl EXCEPT ![a] = cl[a]]
      BY <1>0, <1>12 DEF GatherMempool
    <2>7. ActorTypeOK'
      BY <1>0, <1>12, <2>1, <2>4, <2>5, <2>6, StepType DEF GatherMempool
    <2>8. QED
      BY <1>12, <2>7, LedgerFrame, WorldFrame DEF GatherMempool
  <1>13. CASE ApplyVerdict(a)
    <2>1. cl[a] \in Claims
      BY <1>0, <1>13 DEF ApplyVerdict, Inside
    <2>2. LedgerTypeOK'
      BY <1>13, <2>1, VerdictType DEF ApplyVerdict
    <2>3. QED
      BY <1>13, <2>2, FinishType, WorldFrame DEF ApplyVerdict
  <1>14. CASE ApplyAbsent(a)
    <2>1. cl[a] \in Claims
      BY <1>0, <1>14 DEF ApplyAbsent, Inside
    <2>2. ActorTypeOK'
      BY <1>14, <2>1, ProcessType DEF ApplyAbsent
    <2>3. QED
      BY <1>14, <2>2, LedgerFrame, WorldFrame DEF ApplyAbsent
  <1>15. CASE ReorgQuarantine(a) \/ ReorgResolve(a)
    <2>1. cl[a] \in Claims
      BY <1>0, <1>15 DEF ReorgQuarantine, ReorgResolve, Inside
    <2>2. PICK why \in Reasons, ops \in SUBSET Outpoints :
            SetGuardReason(cl[a], why) \/ QuarantineOutpoints(cl[a], ops, why)
      BY <1>15, <2>1 DEF ReorgQuarantine, ReorgResolve, Reasons, LedgerTypeOK
    <2>3. guard' \in [Outpoints -> GuardRow \cup {None}]
      BY <2>1, <2>2 DEF SetGuardReason, QuarantineOutpoints, LedgerTypeOK, GuardRow
    <2>4. LedgerTypeOK'
      BY <1>15, <2>3 DEF ReorgQuarantine, ReorgResolve, LedgerTypeOK
    <2>5. QED
      BY <1>15, <2>4, FinishType, WorldFrame DEF ReorgQuarantine, ReorgResolve
  <1>16. QED
    BY <1>1, <1>2, <1>3, <1>4, <1>5, <1>6, <1>7, <1>8, <1>9, <1>10, <1>11, <1>12, <1>13, <1>14, <1>15
       DEF Pass

LEMMA NetworkType ==
  ASSUME TypeOK, Network
  PROVE  TypeOK'
  <1>1. NetTypeOK'
    <2> USE DEF TypeOK
    <2>1. CASE MineBlock
      BY <2>1 DEF MineBlock, NetTypeOK, Mined, Deeper
    <2>2. CASE DisconnectBlock
      BY <2>2 DEF DisconnectBlock, NetTypeOK, Mined
    <2>3. CASE Evict
      BY <2>3 DEF Evict, NetTypeOK, Mined
    <2>4. CASE ForeignSpend
      BY <2>4 DEF ForeignSpend, NetTypeOK, Mined, NetTx
    <2>5. QED
      BY <2>1, <2>2, <2>3, <2>4 DEF Network, NetNext
  <1>2. ActorTypeOK'
    BY DEF TypeOK, Network, actorVars, ActorTypeOK
  <1>3. QED
    BY <1>1, <1>2, LedgerFrame DEF TypeOK, Network

LEMMA CrashType ==
  ASSUME TypeOK, Crash
  PROVE  TypeOK'
  <1>1. ActorTypeOK'
    BY DEF TypeOK, Crash, ActorTypeOK, Actors, Parked, Inside, NoFacts
  <1>2. QED
    BY <1>1, LedgerFrame, NetFrame DEF TypeOK, Crash

LEMMA TypeStep == TypeOK /\ [Next]_vars => TypeOK'
  <1> SUFFICES ASSUME TypeOK, [Next]_vars PROVE TypeOK'
    OBVIOUS
  <1>1. ASSUME NEW r \in Claims, Handler(r) PROVE TypeOK'
    BY <1>1, HandlerType
  <1>2. CASE Recover
    BY <1>2, RecoverType
  <1>3. ASSUME NEW a \in Actors, Pass(a) PROVE TypeOK'
    BY <1>3, PassType
  <1>4. CASE Network
    BY <1>4, NetworkType
  <1>5. CASE Crash
    BY <1>5, CrashType
  <1>6. CASE UNCHANGED vars
    <2>1. ActorTypeOK'
      BY <1>6 DEF vars, actorVars, TypeOK, ActorTypeOK
    <2>2. QED
      BY <1>6, <2>1, LedgerFrame, NetFrame DEF vars, TypeOK
  <1>7. QED
    BY <1>1, <1>2, <1>3, <1>4, <1>5, <1>6 DEF Next

(***************************************************************************)
(* Type correctness: in particular no claim is ever broadcast more often   *)
(* than MaxBroadcasts, whatever crashes and retries do (claimflow.mjs).    *)
(***************************************************************************)
THEOREM TypeCorrect == Spec => []TypeOK
  <1>1. QED
    BY TypeInit, TypeStep, PTL DEF Spec

-------------------------------------------------------------------------------
(***************************************************************************)
(* Exactly-once.                                                           *)
(***************************************************************************)
LEMMA OnceInit == Init => OnceInv
  BY DEF Init, OnceInv, OneHolder, BytesAreFinal, PassesCarryTheBytes, WriteAhead, LedgerInit, NetInit,
         Exists, Unsigned, PastSigning, Inside, Actors

-------------------------------------------------------------------------------
(* A ledger step that commits no bytes and takes no claim back. *)
Calm ==
  /\ rawTx' = rawTx
  /\ \A c \in Claims :
       /\ state'[c] = "NONE" <=> state[c] = "NONE"
       /\ state'[c] = "AUTHORISED" => state[c] = "AUTHORISED"
       /\ state'[c] = "SIGNED" => state[c] = "SIGNED"
       /\ attempts[c] >= 1 => attempts'[c] >= 1

LEMMA CalmFrame == UNCHANGED ledgerVars => Calm
  BY DEF Calm, ledgerVars

LEMMA CalmMove ==
  ASSUME LedgerTypeOK, NEW c \in Claims, NEW to \in States \ {"AUTHORISED", "SIGNED"},
         Transition(c, to), UNCHANGED <<rawTx, attempts>>
  PROVE  Calm
  <1>1. to # "NONE"
    BY DEF States, Terminal, NonTerminal
  <1>2. QED
    BY <1>1 DEF Calm, Transition, Accepts, Exists, LedgerTypeOK

LEMMA CalmFailSafe ==
  ASSUME LedgerTypeOK, NEW c \in Claims, Exists(c), MarkFailedSafe(c), UNCHANGED <<rawTx, attempts>>
  PROVE  Calm
  BY DEF Calm, MarkFailedSafe, Exists, LedgerTypeOK

(* Such a step keeps what the invariant says of the ledger and of the net. *)
LEMMA CalmLedger ==
  ASSUME OnceInv, Calm, sent' = sent, TypeOK
  PROVE  OneHolder' /\ BytesAreFinal' /\ WriteAhead'
  <1>1. OneHolder'
    BY DEF OnceInv, OneHolder, Exists, Calm
  <1>2. BytesAreFinal'
    BY DEF OnceInv, BytesAreFinal, Unsigned, Calm
  <1>3. WriteAhead'
    BY DEF OnceInv, WriteAhead, Calm, TypeOK, NetTypeOK, ClaimTx
  <1>4. QED
    BY <1>1, <1>2, <1>3

(* ... and what it says of every actor that does not move. *)
Settled(a) ==
  /\ pc[a] \in {"lock", "sign"} => Exists(cl[a])
  /\ pc[a] \in PastSigning => state[cl[a]] \notin Unsigned /\ tx[a] = rawTx[cl[a]]
  /\ pc[a] = "send" => attempts[cl[a]] >= 1

LEMMA CalmOthers ==
  ASSUME OnceInv, TypeOK, Calm, NEW a \in Actors,
         pc'[a] = pc[a], cl'[a] = cl[a], tx'[a] = tx[a]
  PROVE  Settled(a)'
  <1>1. pc[a] \in Inside \cup {"lock"} => cl[a] \in Claims
    BY DEF TypeOK, ActorTypeOK
  <1>2. Settled(a)
    BY DEF OnceInv, PassesCarryTheBytes, Settled
  <1>3. QED
    BY <1>1, <1>2 DEF Settled, Exists, Calm, PastSigning, Unsigned, Inside

LEMMA SettledAll == PassesCarryTheBytes <=> \A a \in Actors : Settled(a)
  BY DEF PassesCarryTheBytes, Settled

(* A calm step in which actor a moves and ends up settled. *)
LEMMA CalmStep ==
  ASSUME OnceInv, TypeOK, Calm, sent' = sent, NEW a \in Actors,
         \A b \in Actors \ {a} : pc'[b] = pc[b] /\ cl'[b] = cl[b] /\ tx'[b] = tx[b],
         Settled(a)'
  PROVE  OnceInv'
  <1>1. \A b \in Actors : Settled(b)'
    BY CalmOthers
  <1>2. PassesCarryTheBytes'
    BY <1>1 DEF PassesCarryTheBytes, Settled
  <1>3. QED
    BY <1>2, CalmLedger DEF OnceInv

LEMMA CalmFinish ==
  ASSUME OnceInv, TypeOK, Calm, sent' = sent, NEW a \in Actors, Finish(a)
  PROVE  OnceInv'
  <1>1. pc'[a] \in {"idle", "done"}
    BY DEF Finish, Goto, TypeOK, ActorTypeOK
  <1>2. Settled(a)'
    BY <1>1 DEF Settled, PastSigning, Inside
  <1>3. \A b \in Actors \ {a} : pc'[b] = pc[b] /\ cl'[b] = cl[b] /\ tx'[b] = tx[b]
    BY DEF Finish, Goto, TypeOK, ActorTypeOK
  <1>4. QED
    BY <1>2, <1>3, CalmStep

LEMMA ProcessOnce ==
  ASSUME OnceInv, TypeOK, UNCHANGED ledgerVars, sent' = sent,
         NEW a \in Actors, cl[a] \in Claims, Exists(cl[a]), ProcessClaim(a, cl[a])
  PROVE  OnceInv'
  <1> DEFINE c == cl[a]
  <1>1. Calm
    BY CalmFrame
  <1>2. CASE state[c] \in Terminal
    BY <1>1, <1>2, CalmFinish DEF ProcessClaim
  <1>3. CASE state[c] \notin Terminal
    <2>1. pc' = [pc EXCEPT ![a] = CASE state[c] = "AUTHORISED" -> "sign"
                                    [] state[c] = "SEEN" -> "watch"
                                    [] OTHER -> "recon"]
      BY <1>3 DEF ProcessClaim, Goto
    <2>2. tx' = [tx EXCEPT ![a] = rawTx[c]] /\ cl' = cl
      BY <1>3 DEF ProcessClaim
    <2>3. \A b \in Actors \ {a} : pc'[b] = pc[b] /\ cl'[b] = cl[b] /\ tx'[b] = tx[b]
      BY <2>1, <2>2 DEF TypeOK, ActorTypeOK
    <2>4. tx'[a] = rawTx[c] /\ cl'[a] = c
      BY <2>2 DEF TypeOK, ActorTypeOK
    <2>5. CASE state[c] = "AUTHORISED"
      <3>1. pc'[a] = "sign"
        BY <2>1, <2>5 DEF TypeOK, ActorTypeOK
      <3>2. Settled(a)'
        BY <2>4, <3>1 DEF Settled, PastSigning, Exists, ledgerVars
      <3>3. QED
        BY <1>1, <2>3, <3>2, CalmStep
    <2>6. CASE state[c] # "AUTHORISED"
      <3>1. pc'[a] \in {"watch", "recon"}
        BY <2>1, <2>6 DEF TypeOK, ActorTypeOK
      <3>2. Settled(a)'
        BY <2>4, <2>6, <3>1 DEF Settled, PastSigning, Exists, Unsigned, ledgerVars
      <3>3. QED
        BY <1>1, <2>3, <3>2, CalmStep
    <2>7. QED
      BY <2>5, <2>6
  <1>4. QED
    BY <1>2, <1>3

(* A calm step that parks actor a at the lock of an existing claim. *)
LEMMA LockOnce ==
  ASSUME OnceInv, TypeOK, UNCHANGED ledgerVars, sent' = sent,
         NEW a \in Actors, NEW c \in Claims, Exists(c), Goto(a, "lock"),
         cl' = [cl EXCEPT ![a] = c], UNCHANGED tx
  PROVE  OnceInv'
  <1>1. Calm
    BY CalmFrame
  <1>2. pc'[a] = "lock" /\ cl'[a] = c
    BY DEF Goto, TypeOK, ActorTypeOK
  <1>3. Settled(a)'
    BY <1>2 DEF Settled, PastSigning, Exists, Inside, ledgerVars
  <1>4. \A b \in Actors \ {a} : pc'[b] = pc[b] /\ cl'[b] = cl[b] /\ tx'[b] = tx[b]
    BY DEF Goto, TypeOK, ActorTypeOK
  <1>5. QED
    BY <1>1, <1>3, <1>4, CalmStep

(* createClaim asks for coins: nothing is promised yet. *)
LEMMA AskOnce ==
  ASSUME OnceInv, TypeOK, UNCHANGED ledgerVars, sent' = sent, NEW r \in Claims, AskForCoins(r)
  PROVE  OnceInv'
  <1>0. r \in Actors
    BY DEF Actors
  <1>1. Calm
    BY CalmFrame
  <1>2. pc'[r] = "pick"
    BY <1>0 DEF AskForCoins, Goto, TypeOK, ActorTypeOK
  <1>3. Settled(r)'
    BY <1>2 DEF Settled, PastSigning, Inside
  <1>4. \A b \in Actors \ {r} : pc'[b] = pc[b] /\ cl'[b] = cl[b] /\ tx'[b] = tx[b]
    BY DEF AskForCoins, Goto, TypeOK, ActorTypeOK
  <1>5. QED
    BY <1>0, <1>1, <1>3, <1>4, CalmStep

(* A new claim: the only row of its entitlement, with no bytes. *)
LEMMA CreateOnce ==
  ASSUME OnceInv, TypeOK, NEW r \in Claims, CreateClaim(r)
  PROVE  OnceInv'
  <1>0. r \in Actors
    BY DEF Actors
  <1>1. /\ state' = [state EXCEPT ![r] = "AUTHORISED"]
        /\ rawTx' = rawTx /\ attempts' = attempts /\ sent' = sent
        /\ HoldersOf(r) = {}
    BY DEF CreateClaim, InsertClaim, KeepWorld, netVars
  <1>2. state[r] = "NONE"
    BY <1>1 DEF HoldersOf, Exists
  <1>3. rawTx[r] = None
    BY <1>2 DEF OnceInv, BytesAreFinal, Unsigned
  <1>4. OneHolder'
    <2> SUFFICES ASSUME NEW c \in Claims, NEW d \in Claims, Exists(c)', Exists(d)',
                        EntitlementOf[c] = EntitlementOf[d]
                 PROVE  c = d
      BY DEF OneHolder
    <2>1. \A e \in Claims \ {r} : Exists(e)' => Exists(e)
      BY <1>1 DEF Exists, TypeOK, LedgerTypeOK
    <2>2. \A e \in Claims : Exists(e) => EntitlementOf[e] # EntitlementOf[r]
      BY <1>1 DEF HoldersOf
    <2>3. QED
      BY <2>1, <2>2 DEF OnceInv, OneHolder
  <1>5. BytesAreFinal'
    BY <1>1, <1>3 DEF OnceInv, BytesAreFinal, Unsigned, TypeOK, LedgerTypeOK
  <1>6. WriteAhead'
    BY <1>1 DEF OnceInv, WriteAhead
  <1>7. ASSUME NEW a \in Actors PROVE Settled(a)'
    <2>1. CASE a = r
      <3>1. pc'[a] = "lock" /\ cl'[a] = r
        BY <1>0, <2>1 DEF CreateClaim, Goto, TypeOK, ActorTypeOK
      <3>2. QED
        BY <1>1, <3>1 DEF Settled, PastSigning, Inside, Exists, TypeOK, LedgerTypeOK
    <2>2. CASE a # r
      <3>1. pc'[a] = pc[a] /\ cl'[a] = cl[a] /\ tx'[a] = tx[a]
        BY <2>2 DEF CreateClaim, Goto, TypeOK, ActorTypeOK
      <3>2. pc[a] \in Inside \cup {"lock"} => cl[a] \in Claims
        BY DEF TypeOK, ActorTypeOK
      <3>3. Settled(a)
        BY DEF OnceInv, PassesCarryTheBytes, Settled
      <3>4. QED
        BY <1>1, <1>2, <3>1, <3>2, <3>3
           DEF Settled, PastSigning, Inside, Exists, Unsigned, TypeOK, LedgerTypeOK
    <2>3. QED
      BY <2>1, <2>2
  <1>8. PassesCarryTheBytes'
    BY <1>7 DEF PassesCarryTheBytes, Settled
  <1>9. QED
    BY <1>4, <1>5, <1>6, <1>8 DEF OnceInv

LEMMA HandlerOnce ==
  ASSUME OnceInv, TypeOK, NEW r \in Claims, Handler(r)
  PROVE  OnceInv'
  <1>0. r \in Actors
    BY DEF Actors
  <1>1. CASE Refuse(r) \/ ReplayKey(r) \/ CapReached(r) \/ NoCoins(r) \/ LoseEntitlement(r)
    BY <1>0, <1>1, CalmFrame, CalmFinish
       DEF Refuse, ReplayKey, CapReached, NoCoins, LoseEntitlement, KeepWorld, netVars
  <1>2. CASE ReplayEntitlement(r)
    <2>1. PICK c \in HoldersOf(r) :
            IF state[c] \in Terminal
              THEN Finish(r)
              ELSE /\ Goto(r, "lock")
                   /\ cl' = [cl EXCEPT ![r] = c]
                   /\ UNCHANGED <<tx, res, avoid, listing, picks, facts>>
      BY <1>2 DEF ReplayEntitlement
    <2>2. c \in Claims /\ Exists(c)
      BY DEF HoldersOf
    <2>3. UNCHANGED ledgerVars /\ sent' = sent
      BY <1>2 DEF ReplayEntitlement, KeepWorld, netVars
    <2>4. QED
      BY <1>0, <2>1, <2>2, <2>3, CalmFrame, CalmFinish, LockOnce
  <1>3. CASE Admit(r)
    BY <1>3, AskOnce DEF Admit, KeepWorld, netVars
  <1>4. CASE CreateClaim(r)
    BY <1>4, CreateOnce
  <1>5. CASE RetryPick(r)
    BY <1>0, <1>5, AskOnce, CalmFrame, CalmFinish DEF RetryPick, KeepWorld, netVars
  <1>6. CASE LedgerFailure(r)
    BY <1>0, <1>6, CalmFrame, CalmFinish DEF LedgerFailure, netVars
  <1>7. QED
    BY <1>1, <1>2, <1>3, <1>4, <1>5, <1>6 DEF Handler

LEMMA RecoverOnce ==
  ASSUME OnceInv, TypeOK, Recover
  PROVE  OnceInv'
  <1>1. Worker \in Actors
    BY DEF Actors
  <1>2. PICK c \in Claims :
          /\ state[c] \in NonTerminal \/ state[c] = "CONFIRMED"
          /\ cl' = [cl EXCEPT ![Worker] = c]
    BY DEF Recover
  <1>3. Exists(c)
    BY <1>2 DEF Exists, NonTerminal
  <1>4. QED
    BY <1>1, <1>2, <1>3, LockOnce DEF Recover, KeepWorld, netVars

(* Signing: bytes are stored for an AUTHORISED claim, or stored again.  They  *)
(* are new only if the claim has none, so no pass carries others.             *)
LEMMA SignOnce ==
  ASSUME OnceInv, TypeOK, NEW a \in Actors, Sign(a)
  PROVE  OnceInv'
  <1> DEFINE c == cl[a]
  <1>1. c \in Claims /\ pc[a] = "sign"
    BY DEF Sign, TypeOK, ActorTypeOK, Inside
  <1>2. PICK t \in ClaimTx :
          /\ t.claim = c
          /\ SignAccepted(c, t)
          /\ MarkSigned(c, t)
          /\ tx' = [tx EXCEPT ![a] = t]
    <2>1. PICK ins \in (SUBSET Outpoints) \ {{}}, v \in Versions :
            LET t == [claim |-> c, ins |-> ins, ver |-> v]
            IN  /\ SignAccepted(c, t)
                /\ MarkSigned(c, t)
                /\ tx' = [tx EXCEPT ![a] = t]
      BY DEF Sign
    <2>2. [claim |-> c, ins |-> ins, ver |-> v] \in ClaimTx
      BY <1>1 DEF ClaimTx
    <2>3. QED
      BY <2>1, <2>2
  <1>3. /\ state' = [state EXCEPT ![c] = "SIGNED"]
        /\ rawTx' = [rawTx EXCEPT ![c] = t]
        /\ attempts' = attempts /\ sent' = sent /\ cl' = cl
        /\ pc' = [pc EXCEPT ![a] = "recon"]
    BY <1>2 DEF Sign, MarkSigned, Goto, KeepWorld, netVars
  <1>4. Exists(c) /\ (state[c] = "AUTHORISED" \/ rawTx[c] = t)
    BY <1>1, <1>2 DEF SignAccepted, Accepts, TransitionAllowed, OnceInv, BytesAreFinal
  <1>5. t # None
    BY LedgerAssumption
  <1>6. OneHolder'
    BY <1>3, <1>4 DEF OnceInv, OneHolder, Exists, TypeOK, LedgerTypeOK
  <1>7. BytesAreFinal'
    BY <1>1, <1>2, <1>3, <1>4, <1>5 DEF OnceInv, BytesAreFinal, Unsigned, TypeOK, LedgerTypeOK
  <1>8. WriteAhead'
    <2> SUFFICES ASSUME NEW u \in sent PROVE rawTx'[u.claim] = u /\ attempts'[u.claim] >= 1
      BY <1>3 DEF WriteAhead
    <2>1. u \in ClaimTx /\ u.claim \in Claims /\ u # None
      BY LedgerAssumption DEF TypeOK, NetTypeOK, ClaimTx
    <2>2. rawTx[u.claim] = u /\ attempts[u.claim] >= 1
      BY DEF OnceInv, WriteAhead
    <2>3. u.claim = c => rawTx[c] = t
      BY <1>4, <2>1, <2>2 DEF OnceInv, BytesAreFinal, Unsigned
    <2>4. QED
      BY <1>3, <2>1, <2>2, <2>3 DEF TypeOK, LedgerTypeOK
  <1>9. ASSUME NEW b \in Actors PROVE Settled(b)'
    <2>1. CASE b = a
      <3>1. pc'[b] = "recon" /\ cl'[b] = c /\ tx'[b] = t
        BY <1>2, <1>3, <2>1 DEF TypeOK, ActorTypeOK
      <3>2. state'[c] = "SIGNED" /\ rawTx'[c] = t
        BY <1>1, <1>3 DEF TypeOK, LedgerTypeOK
      <3>3. QED
        BY <3>1, <3>2 DEF Settled, Unsigned
    <2>2. CASE b # a
      <3>1. pc'[b] = pc[b] /\ cl'[b] = cl[b] /\ tx'[b] = tx[b]
        BY <1>2, <1>3, <2>2 DEF TypeOK, ActorTypeOK
      <3>2. pc[b] \in Inside \cup {"lock"} => cl[b] \in Claims
        BY DEF TypeOK, ActorTypeOK
      <3>3. Settled(b)
        BY DEF OnceInv, PassesCarryTheBytes, Settled
      <3>4. pc[b] \in PastSigning /\ cl[b] = c => rawTx[c] = t
        BY <1>4, <3>3 DEF Settled, Unsigned
      <3>5. pc[b] \in PastSigning => state'[cl'[b]] \notin Unsigned /\ tx'[b] = rawTx'[cl'[b]]
        BY <1>1, <1>3, <3>1, <3>2, <3>3, <3>4
           DEF Settled, Unsigned, PastSigning, TypeOK, LedgerTypeOK
      <3>6. pc[b] \in {"lock", "sign"} => Exists(cl[b])'
        BY <1>1, <1>3, <3>1, <3>2, <3>3 DEF Settled, Exists, Inside, TypeOK, LedgerTypeOK
      <3>7. QED
        BY <1>3, <3>1, <3>3, <3>5, <3>6 DEF Settled
    <2>3. QED
      BY <2>1, <2>2
  <1>10. PassesCarryTheBytes'
    BY <1>9 DEF PassesCarryTheBytes, Settled
  <1>11. QED
    BY <1>6, <1>7, <1>8, <1>10 DEF OnceInv

(* The attempt is counted, then the stored bytes are carried to the send. *)
LEMMA AbsentOnce ==
  ASSUME OnceInv, TypeOK, NEW a \in Actors, ReconcileAbsent(a)
  PROVE  OnceInv'
  <1> DEFINE c == cl[a]
  <1>1. c \in Claims /\ state[c] \notin Unsigned /\ tx[a] = rawTx[c] /\ sent' = sent
    BY DEF ReconcileAbsent, TypeOK, ActorTypeOK, Inside, OnceInv, PassesCarryTheBytes, PastSigning,
           KeepWorld, netVars
  <1>2. CASE MarkBroadcasting(c) /\ Await(a, "send")
    <2>1. Calm
      BY <1>1, <1>2 DEF ReconcileAbsent, MarkBroadcasting, Calm, Unsigned, TypeOK, LedgerTypeOK
    <2>2. pc'[a] = "send" /\ cl'[a] = c /\ tx'[a] = rawTx[c]
      BY <1>1, <1>2 DEF Await, Goto, KeepLocals, TypeOK, ActorTypeOK
    <2>3. attempts'[c] >= 1 /\ state'[c] = "BROADCASTING"
      BY <1>1, <1>2 DEF MarkBroadcasting, TypeOK, LedgerTypeOK
    <2>4. Settled(a)'
      BY <2>1, <2>2, <2>3 DEF Settled, Unsigned, Calm
    <2>5. \A b \in Actors \ {a} : pc'[b] = pc[b] /\ cl'[b] = cl[b] /\ tx'[b] = tx[b]
      BY <1>2 DEF Await, Goto, KeepLocals, TypeOK, ActorTypeOK
    <2>6. QED
      BY <1>1, <2>1, <2>4, <2>5, CalmStep
  <1>3. CASE UNCHANGED <<state, attempts>> /\ Finish(a)
    BY <1>1, <1>3, CalmFrame, CalmFinish DEF ReconcileAbsent, ledgerVars
  <1>4. QED
    BY <1>2, <1>3 DEF ReconcileAbsent

(* The send itself: what leaves is what the row stores. *)
LEMMA TransmitOnce ==
  ASSUME OnceInv, TypeOK, NEW a \in Actors, Transmit(a)
  PROVE  OnceInv'
  <1> DEFINE c == cl[a]
  <1>1. /\ c \in Claims /\ state[c] \notin Unsigned /\ tx[a] = rawTx[c] /\ attempts[c] >= 1
        /\ UNCHANGED ledgerVars
    BY DEF Transmit, TypeOK, ActorTypeOK, Inside, OnceInv, PassesCarryTheBytes, PastSigning
  <1>2. sent' = sent \cup ({tx[a]} \ {None})
    BY DEF Transmit
  <1>3. WriteAhead'
    BY <1>1, <1>2 DEF OnceInv, WriteAhead, BytesAreFinal, ledgerVars
  <1>4. OneHolder' /\ BytesAreFinal'
    BY <1>1 DEF OnceInv, OneHolder, BytesAreFinal, Exists, ledgerVars
  <1>5. Calm
    BY <1>1, CalmFrame
  <1>6. Settled(a)'
    <2>1. pc'[a] \in {"accepted", "refused"} /\ cl'[a] = c /\ tx'[a] = tx[a]
      BY DEF Transmit, Await, Goto, KeepLocals, TypeOK, ActorTypeOK
    <2>2. QED
      BY <1>1, <2>1 DEF Settled, ledgerVars
  <1>7. \A b \in Actors \ {a} : pc'[b] = pc[b] /\ cl'[b] = cl[b] /\ tx'[b] = tx[b]
    BY DEF Transmit, Await, Goto, KeepLocals, TypeOK, ActorTypeOK
  <1>8. \A b \in Actors : Settled(b)'
    BY <1>5, <1>6, <1>7, CalmOthers
  <1>9. QED
    BY <1>3, <1>4, <1>8 DEF OnceInv, PassesCarryTheBytes, Settled

(* A calm step that carries the same locals to another await of the pass. *)
LEMMA CarryOnce ==
  ASSUME OnceInv, TypeOK, UNCHANGED ledgerVars, sent' = sent, NEW a \in Actors,
         NEW label \in PastSigning \ {"send"}, Goto(a, label),
         pc[a] \in PastSigning, UNCHANGED <<cl, tx>>
  PROVE  OnceInv'
  <1>1. Calm
    BY CalmFrame
  <1>2. pc'[a] = label
    BY DEF Goto, TypeOK, ActorTypeOK
  <1>3. state[cl[a]] \notin Unsigned /\ tx[a] = rawTx[cl[a]]
    BY DEF OnceInv, PassesCarryTheBytes
  <1>4. Settled(a)'
    BY <1>2, <1>3 DEF Settled, PastSigning, Inside, ledgerVars
  <1>5. \A b \in Actors \ {a} : pc'[b] = pc[b] /\ cl'[b] = cl[b] /\ tx'[b] = tx[b]
    BY DEF Goto, TypeOK, ActorTypeOK
  <1>6. QED
    BY <1>1, <1>4, <1>5, CalmStep

LEMMA EnterOnce ==
  ASSUME OnceInv, TypeOK, NEW a \in Actors, Enter(a)
  PROVE  OnceInv'
  <1> DEFINE c == cl[a]
  <1>1. c \in Claims /\ Exists(c) /\ UNCHANGED ledgerVars /\ sent' = sent
    BY DEF Enter, TypeOK, ActorTypeOK, OnceInv, PassesCarryTheBytes, KeepWorld, netVars
  <1>2. CASE ProcessClaim(a, c)
    BY <1>1, <1>2, ProcessOnce
  <1>3. CASE /\ state[c] \in {"SEEN", "UNCERTAIN", "CONFIRMED"}
             /\ Goto(a, "facts")
             /\ tx' = [tx EXCEPT ![a] = rawTx[c]]
             /\ cl' = cl
    <2>1. Calm
      BY <1>1, CalmFrame
    <2>2. pc'[a] = "facts" /\ cl'[a] = c /\ tx'[a] = rawTx[c]
      BY <1>3 DEF Goto, TypeOK, ActorTypeOK
    <2>3. Settled(a)'
      BY <1>1, <1>3, <2>2 DEF Settled, Unsigned, ledgerVars
    <2>4. \A b \in Actors \ {a} : pc'[b] = pc[b] /\ cl'[b] = cl[b] /\ tx'[b] = tx[b]
      BY <1>3 DEF Goto, TypeOK, ActorTypeOK
    <2>5. QED
      BY <1>1, <2>1, <2>3, <2>4, CalmStep
  <1>4. QED
    BY <1>2, <1>3 DEF Enter

LEMMA VerdictOnce ==
  ASSUME OnceInv, TypeOK, NEW a \in Actors, ApplyVerdict(a)
  PROVE  OnceInv'
  <1> DEFINE c == cl[a]
  <1>1. c \in Claims /\ sent' = sent /\ state[c] \notin Unsigned
    BY DEF ApplyVerdict, TypeOK, ActorTypeOK, Inside, KeepWorld, netVars, OnceInv,
           PassesCarryTheBytes, PastSigning
  <1>2. ASSUME NEW to \in {"CONFIRMED", "CONFLICTED"}, NEW why, ApplyTerminal(a, c, to, why)
        PROVE  Calm
    BY <1>1, <1>2 DEF ApplyVerdict, ApplyTerminal, Calm, Unsigned, TypeOK, LedgerTypeOK
  <1>3. ASSUME NEW to \in {"SEEN", "UNCERTAIN"}, Transition(c, to) PROVE Calm
    <2>1. to \in States \ {"AUTHORISED", "SIGNED"}
      BY StateNames
    <2>2. QED
      BY <1>1, <1>3, <2>1, CalmMove DEF ApplyVerdict, TypeOK
  <1>4. ASSUME UNCHANGED state PROVE Calm
    BY <1>4 DEF ApplyVerdict, Calm
  <1>5. \/ UNCHANGED state
        \/ \E to \in {"CONFIRMED", "CONFLICTED"}, why \in Reasons : ApplyTerminal(a, c, to, why)
        \/ \E to \in {"SEEN", "UNCERTAIN"} : Transition(c, to)
    BY DEF ApplyVerdict, Reasons
  <1>6. Calm
    BY <1>2, <1>3, <1>4, <1>5
  <1>7. QED
    BY <1>1, <1>6, CalmFinish DEF ApplyVerdict

LEMMA PassOnce ==
  ASSUME OnceInv, TypeOK, NEW a \in Actors, Pass(a)
  PROVE  OnceInv'
  <1>0. /\ pc[a] \in Inside => cl[a] \in Claims
        /\ pc[a] \in Inside => Exists(cl[a])
        /\ {"UNCERTAIN", "SEEN"} \subseteq States \ {"AUTHORISED", "SIGNED"}
    BY StateNames DEF TypeOK, ActorTypeOK, OnceInv, PassesCarryTheBytes, PastSigning, Unsigned, Exists
  <1>1. CASE Enter(a)
    BY <1>1, EnterOnce
  <1>2. CASE Sign(a)
    BY <1>2, SignOnce
  <1>3. CASE SignRefused(a) \/ NotAuthoritative(a) \/ ConfirmedHeld(a)
    BY <1>3, CalmFrame, CalmFinish DEF SignRefused, NotAuthoritative, ConfirmedHeld, KeepWorld, netVars
  <1>4. CASE SignFails(a) \/ ReconcileExhausted(a) \/ ReconcileHold(a) \/ BroadcastAmbiguous(a)
    <2>1. cl[a] \in Claims /\ Transition(cl[a], "UNCERTAIN") /\ Finish(a)
      BY <1>0, <1>4 DEF SignFails, ReconcileExhausted, ReconcileHold, BroadcastAmbiguous, Inside, Replied
    <2>2. UNCHANGED <<rawTx, attempts>> /\ sent' = sent
      BY <1>4 DEF SignFails, ReconcileExhausted, ReconcileHold, BroadcastAmbiguous, KeepWorld, netVars
    <2>3. QED
      BY <1>0, <2>1, <2>2, CalmMove, CalmFinish DEF TypeOK
  <1>5. CASE ReconcileSeen(a) \/ BroadcastSeen(a)
    <2>1. cl[a] \in Claims /\ Transition(cl[a], "SEEN") /\ Finish(a)
      BY <1>0, <1>5 DEF ReconcileSeen, BroadcastSeen, Inside, Replied
    <2>2. UNCHANGED <<rawTx, attempts>> /\ sent' = sent
      BY <1>5 DEF ReconcileSeen, BroadcastSeen, KeepWorld, netVars
    <2>3. QED
      BY <1>0, <2>1, <2>2, CalmMove, CalmFinish DEF TypeOK
  <1>6. CASE SignUnsafe(a) \/ BroadcastMismatch(a)
    <2>1. cl[a] \in Claims /\ Exists(cl[a]) /\ MarkFailedSafe(cl[a]) /\ Finish(a)
      BY <1>0, <1>6 DEF SignUnsafe, BroadcastMismatch, Inside, Replied
    <2>2. UNCHANGED <<rawTx, attempts>> /\ sent' = sent
      BY <1>6 DEF SignUnsafe, BroadcastMismatch, KeepWorld, netVars
    <2>3. QED
      BY <2>1, <2>2, CalmFailSafe, CalmFinish DEF TypeOK
  <1>7. CASE ReconcileAbsent(a)
    BY <1>7, AbsentOnce
  <1>8. CASE Watch(a)
    <2>1. cl[a] \in Claims /\ sent' = sent /\ Finish(a)
      BY <1>0, <1>8 DEF Watch, Inside, KeepWorld, netVars
    <2>2. CASE Transition(cl[a], "UNCERTAIN")
      BY <1>0, <1>8, <2>1, <2>2, CalmMove, CalmFinish DEF Watch, TypeOK
    <2>3. CASE UNCHANGED state
      BY <1>8, <2>1, <2>3, CalmFrame, CalmFinish DEF Watch, ledgerVars
    <2>4. QED
      BY <1>8, <2>2, <2>3 DEF Watch
  <1>9. CASE Transmit(a)
    BY <1>9, TransmitOnce
  <1>10. CASE GatherConfirmations(a)
    <2>1. PICK n : Goto(a, IF n >= 1 THEN "coins" ELSE "pool")
      BY <1>10 DEF GatherConfirmations
    <2>2. (IF n >= 1 THEN "coins" ELSE "pool") \in PastSigning \ {"send"}
      BY DEF PastSigning, Inside
    <2>3. pc[a] \in PastSigning
      BY <1>10 DEF GatherConfirmations, PastSigning, Inside
    <2>4. QED
      BY <1>10, <2>1, <2>2, <2>3, CarryOnce DEF GatherConfirmations, KeepWorld, netVars
  <1>11. CASE GatherMempool(a)
    <2>1. "coins" \in PastSigning \ {"send"} /\ pc[a] \in PastSigning
      BY <1>11 DEF GatherMempool, PastSigning, Inside
    <2>2. QED
      BY <1>11, <2>1, CarryOnce DEF GatherMempool, KeepWorld, netVars
  <1>12. CASE ApplyVerdict(a)
    BY <1>12, VerdictOnce
  <1>13. CASE ApplyAbsent(a)
    BY <1>0, <1>13, ProcessOnce DEF ApplyAbsent, KeepWorld, netVars, Inside
  <1>14. CASE ReorgQuarantine(a) \/ ReorgResolve(a)
    <2>1. Finish(a) /\ sent' = sent /\ UNCHANGED <<state, rawTx, attempts>>
      BY <1>14 DEF ReorgQuarantine, ReorgResolve, KeepWorld, netVars
    <2>2. Calm
      BY <2>1 DEF Calm
    <2>3. QED
      BY <2>1, <2>2, CalmFinish
  <1>15. QED
    BY <1>1, <1>2, <1>3, <1>4, <1>5, <1>6, <1>7, <1>8, <1>9, <1>10, <1>11, <1>12, <1>13, <1>14 DEF Pass

-------------------------------------------------------------------------------
LEMMA OnceStep == OnceInv /\ TypeOK /\ [Next]_vars => OnceInv'
  <1> SUFFICES ASSUME OnceInv, TypeOK, [Next]_vars PROVE OnceInv'
    OBVIOUS
  <1>1. ASSUME NEW r \in Claims, Handler(r) PROVE OnceInv'
    BY <1>1, HandlerOnce
  <1>2. CASE Recover
    BY <1>2, RecoverOnce
  <1>3. ASSUME NEW a \in Actors, Pass(a) PROVE OnceInv'
    BY <1>3, PassOnce
  <1>4. ASSUME UNCHANGED <<ledgerVars, actorVars, sent>> PROVE OnceInv'
    BY <1>4 DEF OnceInv, OneHolder, BytesAreFinal, PassesCarryTheBytes, WriteAhead, Exists,
                ledgerVars, actorVars
  <1>5. CASE Network
    <2>1. sent' = sent
      BY <1>5 DEF Network, NetNext, MineBlock, DisconnectBlock, Evict, ForeignSpend
    <2>2. QED
      BY <1>4, <1>5, <2>1 DEF Network
  <1>6. CASE UNCHANGED vars
    BY <1>4, <1>6 DEF vars, netVars
  <1>7. CASE Crash
    <2>1. OneHolder' /\ BytesAreFinal' /\ WriteAhead'
      BY <1>7 DEF Crash, OnceInv, OneHolder, BytesAreFinal, WriteAhead, Exists, ledgerVars, netVars
    <2>2. \A a \in Actors : pc'[a] \in {"idle", "new", "done"}
      BY <1>7 DEF Crash
    <2>3. PassesCarryTheBytes'
      BY <2>2 DEF PassesCarryTheBytes, PastSigning, Inside
    <2>4. QED
      BY <2>1, <2>3 DEF OnceInv
  <1>8. QED
    BY <1>1, <1>2, <1>3, <1>5, <1>6, <1>7 DEF Next

(* The inductive invariant holds of every behaviour. *)
THEOREM OnceInvariant == Spec => []OnceInv
  <1>1. QED
    BY TypeCorrect, OnceInit, OnceStep, PTL DEF Spec

(***************************************************************************)
(* Write-ahead (claimflow.mjs, ledger.mjs): whatever reaches the network   *)
(* is what the ledger stored before it left, with the attempt counted.     *)
(***************************************************************************)
THEOREM WriteAheadAlways == Spec => []WriteAhead
  <1>1. OnceInv => WriteAhead
    BY DEF OnceInv
  <1>2. QED
    BY <1>1, OnceInvariant, PTL

(***************************************************************************)
(* Exactly-once (I1): for one entitlement at most one transaction is ever  *)
(* sent, whatever crashes, retries, overlapping passes and lying services  *)
(* do, and without relying on the per-claim lock (claimlock.mjs).          *)
(***************************************************************************)
THEOREM PaidAtMostOnce == Spec => []AtMostOnePayment
  <1>1. OnceInv /\ TypeOK => AtMostOnePayment
    <2> SUFFICES ASSUME OnceInv, TypeOK, NEW t \in sent, NEW u \in sent,
                        EntitlementOf[t.claim] = EntitlementOf[u.claim]
                 PROVE  t = u
      BY DEF AtMostOnePayment
    <2>1. t.claim \in Claims /\ u.claim \in Claims /\ t # None /\ u # None
      BY LedgerAssumption DEF TypeOK, NetTypeOK, ClaimTx
    <2>2. rawTx[t.claim] = t /\ rawTx[u.claim] = u
      BY DEF OnceInv, WriteAhead
    <2>3. Exists(t.claim) /\ Exists(u.claim)
      BY <2>1, <2>2 DEF OnceInv, BytesAreFinal, Unsigned, Exists
    <2>4. QED
      BY <2>1, <2>2, <2>3 DEF OnceInv, OneHolder
  <1>2. QED
    BY <1>1, OnceInvariant, TypeCorrect, PTL

-------------------------------------------------------------------------------
(***************************************************************************)
(* The engine implements FaucetPromise: committed maps each entitlement to *)
(* the bytes stored in its claim's row, and sent is the history of the     *)
(* network.                                                                *)
(***************************************************************************)
Committed == [e \in Entitlements |-> CommittedOf(e)]

(* The mapping is well defined: one row of an entitlement stores bytes. *)
LEMMA CommittedIs ==
  ASSUME OnceInv, NEW c \in Claims, rawTx[c] # None
  PROVE  CommittedOf(EntitlementOf[c]) = rawTx[c]
  <1> DEFINE settled == {d \in Claims : rawTx[d] # None /\ EntitlementOf[d] = EntitlementOf[c]}
  <1>1. \A d \in settled : d = c
    BY DEF OnceInv, OneHolder, BytesAreFinal, Unsigned, Exists
  <1>2. c \in settled
    OBVIOUS
  <1>3. (CHOOSE d \in settled : TRUE) = c
    BY <1>1, <1>2
  <1>4. QED
    BY <1>2, <1>3 DEF CommittedOf

(* The same of the next state. *)
LEMMA CommittedBecomes ==
  ASSUME OnceInv', NEW c \in Claims, rawTx'[c] # None
  PROVE  CommittedOf(EntitlementOf[c])' = rawTx'[c]
  <1> DEFINE settled == {d \in Claims : rawTx'[d] # None /\ EntitlementOf[d] = EntitlementOf[c]}
  <1>1. \A d \in settled : d = c
    BY DEF OnceInv, OneHolder, BytesAreFinal, Unsigned, Exists
  <1>2. c \in settled
    OBVIOUS
  <1>3. (CHOOSE d \in settled : TRUE) = c
    BY <1>1, <1>2
  <1>4. QED
    BY <1>2, <1>3 DEF CommittedOf

LEMMA CommittedNone ==
  ASSUME NEW e \in Entitlements, \A c \in Claims : EntitlementOf[c] = e => rawTx[c] = None
  PROVE  CommittedOf(e) = None
  BY DEF CommittedOf

LEMMA CommittedFrame ==
  ASSUME rawTx' = rawTx
  PROVE  Committed' = Committed
  BY DEF Committed, CommittedOf

LEMMA RefinesInit == Init => Promise!Init
  <1> SUFFICES ASSUME Init PROVE Promise!Init
    OBVIOUS
  <1>1. \A c \in Claims : rawTx[c] = None
    BY DEF Init, LedgerInit
  <1>2. \A e \in Entitlements : CommittedOf(e) = None
    BY <1>1, CommittedNone
  <1>3. QED
    BY <1>2 DEF Promise!Init, Init, NetInit

(* Storing the bytes settles the entitlement, or stores them again. *)
LEMMA SignRefines ==
  ASSUME OnceInv, OnceInv', TypeOK, NEW a \in Actors, Sign(a)
  PROVE  Promise!Next \/ UNCHANGED <<Committed, sent>>
  <1>0. PICK c \in Claims : c = cl[a]
    BY DEF Sign, TypeOK, ActorTypeOK, Inside
  <1> DEFINE e == EntitlementOf[c]
  <1>1. c \in Claims /\ e \in Entitlements
    BY LedgerAssumption
  <1>2. PICK t \in ClaimTx : SignAccepted(c, t) /\ MarkSigned(c, t)
    <2>1. PICK ins \in (SUBSET Outpoints) \ {{}}, v \in Versions :
            LET t == [claim |-> c, ins |-> ins, ver |-> v]
            IN  SignAccepted(c, t) /\ MarkSigned(c, t)
      BY <1>0 DEF Sign
    <2>2. [claim |-> c, ins |-> ins, ver |-> v] \in ClaimTx
      BY <1>1 DEF ClaimTx
    <2>3. QED
      BY <2>1, <2>2
  <1>3. rawTx' = [rawTx EXCEPT ![c] = t] /\ sent' = sent
    BY <1>2 DEF Sign, MarkSigned, KeepWorld, netVars
  <1>4. CASE rawTx[c] = t
    <2>1. rawTx' = rawTx
      BY <1>1, <1>3, <1>4 DEF TypeOK, LedgerTypeOK
    <2>2. QED
      BY <1>3, <2>1, CommittedFrame
  <1>5. CASE rawTx[c] # t
    <2>1. state[c] = "AUTHORISED"
      BY <1>1, <1>2, <1>5 DEF SignAccepted, Accepts, TransitionAllowed, OnceInv, BytesAreFinal
    <2>2. \A d \in Claims : EntitlementOf[d] = e => rawTx[d] = None
      BY <1>1, <2>1 DEF OnceInv, OneHolder, BytesAreFinal, Unsigned, Exists
    <2>3. Committed[e] = None
      BY <1>1, <2>2, CommittedNone DEF Committed
    <2>4. rawTx'[c] = t /\ t # None
      BY LedgerAssumption, <1>1, <1>3 DEF TypeOK, LedgerTypeOK
    <2>5. CommittedOf(e)' = t
      BY <1>1, <2>4, CommittedBecomes
    <2>6. ASSUME NEW f \in Entitlements, f # e PROVE CommittedOf(f)' = CommittedOf(f)
      <3>1. \A d \in Claims : EntitlementOf[d] = f => rawTx'[d] = rawTx[d]
        BY <1>1, <1>3, <2>6 DEF TypeOK, LedgerTypeOK
      <3>2. {d \in Claims : rawTx'[d] # None /\ EntitlementOf[d] = f}
              = {d \in Claims : rawTx[d] # None /\ EntitlementOf[d] = f}
        BY <3>1
      <3>3. QED
        BY <3>1, <3>2 DEF CommittedOf
    <2>7. Committed' = [Committed EXCEPT ![e] = t]
      BY <1>1, <2>5, <2>6 DEF Committed
    <2>8. Promise!Commit(e)
      BY <1>3, <2>3, <2>7 DEF Promise!Commit, Committed
    <2>9. QED
      BY <1>1, <2>8 DEF Promise!Next
  <1>6. QED
    BY <1>4, <1>5

(* Only the settled payment leaves. *)
LEMMA TransmitRefines ==
  ASSUME OnceInv, TypeOK, NEW a \in Actors, Transmit(a)
  PROVE  Promise!Next \/ UNCHANGED <<Committed, sent>>
  <1> DEFINE c == cl[a]
             e == EntitlementOf[c]
  <1>1. /\ c \in Claims /\ e \in Entitlements /\ tx[a] = rawTx[c]
        /\ sent' = sent \cup ({tx[a]} \ {None})
        /\ Committed' = Committed
    BY LedgerAssumption, CommittedFrame
       DEF Transmit, TypeOK, ActorTypeOK, Inside, OnceInv, PassesCarryTheBytes, PastSigning, ledgerVars
  <1>2. CASE rawTx[c] = None
    BY <1>1, <1>2
  <1>3. CASE rawTx[c] # None
    <2>1. Committed[e] = rawTx[c]
      BY <1>1, <1>3, CommittedIs DEF Committed
    <2>2. Promise!Send(e)
      BY <1>1, <1>3, <2>1 DEF Promise!Send, Committed
    <2>3. QED
      BY <1>1, <2>2 DEF Promise!Next
  <1>4. QED
    BY <1>2, <1>3

(* No other step stores bytes or sends. *)
LEMMA QuietSteps ==
  ASSUME [Next]_vars
  PROVE  \/ rawTx' = rawTx /\ sent' = sent
         \/ \E a \in Actors : Sign(a) \/ Transmit(a)
  <1>1. ASSUME NEW r \in Claims, Handler(r) PROVE rawTx' = rawTx /\ sent' = sent
    BY <1>1 DEF Handler, Refuse, ReplayKey, ReplayEntitlement, Admit, CapReached, NoCoins, CreateClaim,
                LoseEntitlement, RetryPick, LedgerFailure, KeepWorld, ledgerVars, netVars
  <1>2. ASSUME NEW a \in Actors, Pass(a), ~Sign(a), ~Transmit(a) PROVE rawTx' = rawTx /\ sent' = sent
    BY <1>2 DEF Pass, Enter, SignRefused, SignFails, SignUnsafe, ReconcileSeen, ReconcileHold,
                ReconcileAbsent, ReconcileExhausted, Watch, BroadcastSeen, BroadcastAmbiguous,
                BroadcastMismatch, NotAuthoritative, GatherConfirmations, GatherMempool, ApplyVerdict,
                ApplyAbsent, ReorgQuarantine, ReorgResolve, ConfirmedHeld, KeepWorld, ledgerVars, netVars
  <1>3. CASE Recover \/ Crash
    BY <1>3 DEF Recover, Crash, KeepWorld, ledgerVars, netVars
  <1>4. CASE Network
    BY <1>4 DEF Network, NetNext, MineBlock, DisconnectBlock, Evict, ForeignSpend, ledgerVars
  <1>5. CASE UNCHANGED vars
    BY <1>5 DEF vars, ledgerVars, netVars
  <1>6. QED
    BY <1>1, <1>2, <1>3, <1>4, <1>5 DEF Next

(***************************************************************************)
(* The faucet implements its abstract promise: each entitlement is settled *)
(* at most once on one payment, and nothing but that payment is ever sent. *)
(***************************************************************************)
THEOREM FaucetKeepsPromise == Spec => KeepsPromise
  <1>1. ASSUME OnceInv, OnceInv', TypeOK, [Next]_vars
        PROVE  [Promise!Next]_Promise!promiseVars
    <2>1. Promise!Next \/ UNCHANGED <<Committed, sent>>
      <3>1. CASE rawTx' = rawTx /\ sent' = sent
        BY <3>1, CommittedFrame
      <3>2. ASSUME NEW a \in Actors, Sign(a) \/ Transmit(a)
            PROVE  Promise!Next \/ UNCHANGED <<Committed, sent>>
        BY <1>1, <3>2, SignRefines, TransmitRefines
      <3>3. QED
        BY <1>1, <3>1, <3>2, QuietSteps
    <2>2. QED
      BY <2>1 DEF Promise!promiseVars, Committed
  <1>2. QED
    BY <1>1, RefinesInit, TypeCorrect, OnceInvariant, PTL DEF Spec, KeepsPromise, Promise!Spec
===============================================================================
