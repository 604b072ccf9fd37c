---------------------------- MODULE FaucetCustody ----------------------------
(***************************************************************************)
(* Custody of the wallet's coins, proved for every instance: from the      *)
(* reservation to the guard no coin of a payment is free for another.  The *)
(* inductive invariant is CoinInv, on top of exactly-once.  The second     *)
(* half proves what the faucet concludes: that verdicts are true, that     *)
(* they are final, and that a reported success was a payment (TruthInv,    *)
(* LockInv and SentInv).                                                   *)
(***************************************************************************)
EXTENDS FaucetOnce

OwnNodeAt == {"facts", "pool", "coins"}
Verdicts == {"CONFIRMED", "CONFLICTED"}

(* CoinInv, split into what it says of a claim and of an actor. *)
ClaimCoins(c) ==
  /\ \A op \in reserved[c] :
       /\ state[c] = "AUTHORISED" => resv[op] = c
       /\ rawTx[c] # None => resv[op] = c \/ (OwnNode /\ guard[op] # None)
  /\ rawTx[c] # None => rawTx[c].ins = reserved[c]
  /\ ~OwnNode => state[c] \notin Verdicts

ActorCoins(a) ==
  /\ pc[a] = "sign" /\ state[cl[a]] = "AUTHORISED" => res[a] = reserved[cl[a]]
  /\ ~OwnNode => pc[a] \notin OwnNodeAt

LEMMA CoinParts == CoinInv <=> (\A c \in Claims : ClaimCoins(c)) /\ (\A a \in Actors : ActorCoins(a))
  BY DEF CoinInv, ClaimCoins, ActorCoins, OwnNodeAt, Verdicts

LEMMA CoinPartsNext ==
  (\A c \in Claims : ClaimCoins(c)') /\ (\A a \in Actors : ActorCoins(a)') => CoinInv'
  BY DEF CoinInv, ClaimCoins, ActorCoins, OwnNodeAt, Verdicts

LEMMA CoinInit == Init => CoinInv
  BY DEF Init, CoinInv, LedgerInit, Actors

-------------------------------------------------------------------------------
(* A step that frees no coin, commits no bytes and renders no verdict without *)
(* the own node.                                                              *)
Safekeeping ==
  /\ UNCHANGED <<rawTx, reserved, resv>>
  /\ \A op \in Outpoints : guard[op] # None => guard'[op] # None
  /\ \A c \in Claims :
       /\ state'[c] = "AUTHORISED" => state[c] = "AUTHORISED"
       /\ state'[c] \in Verdicts => state[c] \in Verdicts \/ OwnNode

LEMMA KeepFrame == UNCHANGED ledgerVars => Safekeeping
  BY DEF Safekeeping, ledgerVars

LEMMA KeepMove ==
  ASSUME TypeOK, NEW c \in Claims, NEW to \in States \ ({"AUTHORISED"} \cup Verdicts),
         Transition(c, to) \/ state' = [state EXCEPT ![c] = to],
         UNCHANGED <<rawTx, reserved, resv, guard>>
  PROVE  Safekeeping
  BY DEF Safekeeping, Transition, TypeOK, LedgerTypeOK

LEMMA KeepClaims ==
  ASSUME TypeOK, CoinInv, Safekeeping, NEW c \in Claims
  PROVE  ClaimCoins(c)'
  <1>1. ClaimCoins(c)
    BY CoinParts
  <1>2. reserved[c] \subseteq Outpoints
    BY DEF TypeOK, LedgerTypeOK
  <1>3. QED
    BY <1>1, <1>2 DEF ClaimCoins, Safekeeping

LEMMA KeepOthers ==
  ASSUME TypeOK, CoinInv, Safekeeping, NEW a \in Actors, pc'[a] = pc[a], cl'[a] = cl[a], res'[a] = res[a]
  PROVE  ActorCoins(a)'
  <1>1. ActorCoins(a)
    BY CoinParts
  <1>2. pc[a] = "sign" => cl[a] \in Claims
    BY DEF TypeOK, ActorTypeOK, Inside
  <1>3. QED
    BY <1>1, <1>2 DEF ActorCoins, Safekeeping

LEMMA KeepStep ==
  ASSUME TypeOK, CoinInv, Safekeeping, NEW a \in Actors,
         \A b \in Actors \ {a} : pc'[b] = pc[b] /\ cl'[b] = cl[b] /\ res'[b] = res[b],
         ActorCoins(a)'
  PROVE  CoinInv'
  <1>1. \A b \in Actors : ActorCoins(b)'
    BY KeepOthers
  <1>2. QED
    BY <1>1, KeepClaims, CoinPartsNext

(* ... in which the acting pass goes where no coin matters. *)
LEMMA KeepGoto ==
  ASSUME TypeOK, CoinInv, Safekeeping, NEW a \in Actors, NEW label, label \notin {"sign"} \cup OwnNodeAt,
         Goto(a, label), \A b \in Actors \ {a} : cl'[b] = cl[b] /\ res'[b] = res[b]
  PROVE  CoinInv'
  <1>1. pc'[a] = label /\ \A b \in Actors \ {a} : pc'[b] = pc[b]
    BY DEF Goto, TypeOK, ActorTypeOK
  <1>2. ActorCoins(a)'
    BY <1>1 DEF ActorCoins
  <1>3. QED
    BY <1>1, <1>2, KeepStep

LEMMA KeepFinish ==
  ASSUME TypeOK, CoinInv, Safekeeping, NEW a \in Actors, Finish(a)
  PROVE  CoinInv'
  <1> DEFINE label == IF a = Worker THEN "idle" ELSE "done"
  <1>1. label \notin {"sign"} \cup OwnNodeAt /\ Goto(a, label)
    BY DEF Finish, OwnNodeAt
  <1>2. \A b \in Actors \ {a} : cl'[b] = cl[b] /\ res'[b] = res[b]
    BY DEF Finish, TypeOK, ActorTypeOK
  <1>3. QED
    BY <1>1, <1>2, KeepGoto

LEMMA KeepProcess ==
  ASSUME TypeOK, CoinInv, UNCHANGED ledgerVars, NEW a \in Actors, cl[a] \in Claims,
         ProcessClaim(a, cl[a])
  PROVE  CoinInv'
  <1> DEFINE c == cl[a]
  <1>1. Safekeeping
    BY KeepFrame
  <1>2. CASE state[c] \in Terminal
    BY <1>1, <1>2, KeepFinish DEF ProcessClaim
  <1>3. CASE state[c] \notin Terminal
    <2> DEFINE label == CASE state[c] = "AUTHORISED" -> "sign"
                          [] state[c] = "SEEN" -> "watch"
                          [] OTHER -> "recon"
    <2>1. label \notin OwnNodeAt
      BY DEF OwnNodeAt
    <2>2. /\ pc' = [pc EXCEPT ![a] = label]
          /\ res' = [res EXCEPT ![a] = reserved[c]]
          /\ cl' = cl
      BY <1>3 DEF ProcessClaim, Goto
    <2> HIDE DEF label
    <2>3. pc'[a] = label /\ res'[a] = reserved[c]
      BY <2>2 DEF TypeOK, ActorTypeOK
    <2>4. ActorCoins(a)'
      BY <2>1, <2>2, <2>3 DEF ActorCoins, ledgerVars
    <2>5. \A b \in Actors \ {a} : pc'[b] = pc[b] /\ cl'[b] = cl[b] /\ res'[b] = res[b]
      BY <2>2 DEF TypeOK, ActorTypeOK
    <2>6. QED
      BY <1>1, <2>4, <2>5, KeepStep
  <1>4. QED
    BY <1>2, <1>3

-------------------------------------------------------------------------------
(* A new claim takes coins nobody has reserved. *)
LEMMA CreateCoins ==
  ASSUME TypeOK, OnceInv, CoinInv, NEW r \in Claims, CreateClaim(r)
  PROVE  CoinInv'
  <1>1. PICK coins \in SUBSET Outpoints : ~InsertRefused(r, coins) /\ InsertClaim(r, coins)
    BY DEF CreateClaim
  <1>2. /\ state' = [state EXCEPT ![r] = "AUTHORISED"]
        /\ reserved' = [reserved EXCEPT ![r] = coins]
        /\ resv' = [op \in Outpoints |-> IF op \in coins THEN r ELSE resv[op]]
        /\ UNCHANGED <<rawTx, guard, res>>
        /\ cl' = [cl EXCEPT ![r] = r] /\ pc' = [pc EXCEPT ![r] = "lock"]
    BY <1>1 DEF CreateClaim, InsertClaim, Goto
  <1>3. \A op \in coins : resv[op] = None
    BY <1>1 DEF InsertRefused
  <1>4. state[r] = "NONE" /\ rawTx[r] = None
    BY DEF CreateClaim, HoldersOf, Exists, OnceInv, BytesAreFinal, Unsigned
  <1>5. ASSUME NEW c \in Claims PROVE ClaimCoins(c)'
    <2>1. CASE c = r
      BY <1>2, <1>4, <2>1 DEF ClaimCoins, Verdicts, TypeOK, LedgerTypeOK
    <2>2. CASE c # r
      <3>1. state'[c] = state[c] /\ reserved'[c] = reserved[c] /\ reserved[c] \subseteq Outpoints
        BY <1>2, <2>2 DEF TypeOK, LedgerTypeOK
      <3>2. \A op \in reserved[c] : resv[op] = c => resv'[op] = c
        BY <1>2, <1>3, <3>1, LedgerAssumption
      <3>3. ClaimCoins(c)
        BY CoinParts
      <3>4. QED
        BY <1>2, <3>1, <3>2, <3>3 DEF ClaimCoins
    <2>3. QED
      BY <2>1, <2>2
  <1>6. ASSUME NEW a \in Actors PROVE ActorCoins(a)'
    <2>1. CASE a = r
      BY <1>2, <2>1 DEF ActorCoins, OwnNodeAt, TypeOK, ActorTypeOK
    <2>2. CASE a # r
      <3>1. pc'[a] = pc[a] /\ cl'[a] = cl[a] /\ res'[a] = res[a] /\ ActorCoins(a)
        BY <1>2, <2>2, CoinParts DEF TypeOK, ActorTypeOK
      <3>2. pc[a] = "sign" => cl[a] \in Claims /\ cl[a] # r
        BY <1>4 DEF TypeOK, ActorTypeOK, Inside, OnceInv, PassesCarryTheBytes, Exists
      <3>3. QED
        BY <1>2, <3>1, <3>2 DEF ActorCoins, TypeOK, LedgerTypeOK
    <2>3. QED
      BY <2>1, <2>2
  <1>7. QED
    BY <1>5, <1>6, CoinPartsNext

(* The signer spends coins of the row, which the row still owns. *)
LEMMA SignCoins ==
  ASSUME TypeOK, OnceInv, CoinInv, NEW a \in Actors, Sign(a)
  PROVE  CoinInv'
  <1>1. PICK c \in Claims : c = cl[a]
    BY DEF Sign, TypeOK, ActorTypeOK, Inside
  <1>2. PICK t \in ClaimTx : /\ t.ins \subseteq res[a]
                            /\ SignAccepted(c, t)
                            /\ MarkSigned(c, t)
                            /\ res' = [res EXCEPT ![a] = t.ins]
    <2>1. PICK ins \in (SUBSET Outpoints) \ {{}}, v \in Versions :
            LET t == [claim |-> c, ins |-> ins, ver |-> v]
            IN  /\ ins \subseteq res[a]
                /\ SignAccepted(c, t)
                /\ MarkSigned(c, t)
                /\ res' = [res EXCEPT ![a] = ins]
      BY <1>1 DEF Sign
    <2>2. [claim |-> c, ins |-> ins, ver |-> v] \in ClaimTx
      BY DEF ClaimTx
    <2>3. QED
      BY <2>1, <2>2
  <1>3. /\ state' = [state EXCEPT ![c] = "SIGNED"]
        /\ rawTx' = [rawTx EXCEPT ![c] = t]
        /\ reserved' = [reserved EXCEPT ![c] = t.ins]
        /\ UNCHANGED <<resv, guard, cl>>
        /\ pc' = [pc EXCEPT ![a] = "recon"]
    BY <1>2 DEF Sign, MarkSigned, Goto
  <1>4. \A op \in t.ins : resv[op] = c \/ (OwnNode /\ guard[op] # None)
    <2>1. CASE state[c] = "AUTHORISED"
      <3>1. t.ins \subseteq reserved[c]
        BY <1>1, <1>2, <2>1, CoinParts DEF Sign, ActorCoins
      <3>2. QED
        BY <2>1, <3>1, CoinParts DEF ClaimCoins
    <2>2. CASE state[c] # "AUTHORISED"
      <3>1. rawTx[c] = t /\ t # None
        BY <1>2, <2>2, LedgerAssumption
           DEF SignAccepted, Accepts, TransitionAllowed, OnceInv, BytesAreFinal
      <3>2. QED
        BY <3>1, CoinParts DEF ClaimCoins
    <2>3. QED
      BY <2>1, <2>2
  <1>5. ASSUME NEW d \in Claims PROVE ClaimCoins(d)'
    <2>1. CASE d = c
      BY <1>3, <1>4, <2>1 DEF ClaimCoins, Verdicts, TypeOK, LedgerTypeOK
    <2>2. CASE d # c
      <3>1. state'[d] = state[d] /\ reserved'[d] = reserved[d] /\ rawTx'[d] = rawTx[d] /\ ClaimCoins(d)
        BY <1>3, <2>2, CoinParts DEF TypeOK, LedgerTypeOK
      <3>2. QED
        BY <1>3, <3>1 DEF ClaimCoins
    <2>3. QED
      BY <2>1, <2>2
  <1>6. ASSUME NEW b \in Actors PROVE ActorCoins(b)'
    <2>1. CASE b = a
      BY <1>3, <2>1 DEF ActorCoins, OwnNodeAt, TypeOK, ActorTypeOK
    <2>2. CASE b # a
      <3>1. pc'[b] = pc[b] /\ cl'[b] = cl[b] /\ res'[b] = res[b] /\ ActorCoins(b)
        BY <1>2, <1>3, <2>2, CoinParts DEF TypeOK, ActorTypeOK
      <3>2. pc[b] = "sign" => cl[b] \in Claims
        BY DEF TypeOK, ActorTypeOK, Inside
      <3>3. state'[c] = "SIGNED"
        BY <1>3 DEF TypeOK, LedgerTypeOK
      <3>4. QED
        BY <1>3, <3>1, <3>2, <3>3 DEF ActorCoins, TypeOK, LedgerTypeOK
    <2>3. QED
      BY <2>1, <2>2
  <1>7. QED
    BY <1>5, <1>6, CoinPartsNext

(* Retirement guards every coin of the row in the step that frees it. *)
LEMMA RetireCoins ==
  ASSUME TypeOK, OnceInv, CoinInv, OwnNode, NEW a \in Actors, NEW c \in Claims, state[c] \notin Unsigned,
         NEW to \in Verdicts, NEW why \in Reasons, ApplyTerminal(a, c, to, why),
         UNCHANGED <<rawTx, reserved>>, NEW d \in Claims
  PROVE  ClaimCoins(d)'
  <1>1. ClaimCoins(d) /\ reserved[d] \subseteq Outpoints
    BY CoinParts DEF TypeOK, LedgerTypeOK
  <1>2. state'[d] = "AUTHORISED" => state[d] = "AUTHORISED" /\ d # c
    BY DEF ApplyTerminal, Verdicts, Unsigned, TypeOK, LedgerTypeOK
  <1>3. CASE UNCHANGED <<resv, guard>>
    BY <1>1, <1>2, <1>3 DEF ClaimCoins
  <1>4. CASE RetireToGuard(c, why)
    <2>1. [by |-> c, why |-> why] # None
      BY LedgerAssumption DEF GuardRow
    <2>2. \A op \in Outpoints : guard[op] # None \/ op \in reserved[c] => guard'[op] # None
      BY <1>4, <2>1 DEF RetireToGuard
    <2>3. \A op \in Outpoints : resv[op] # c => resv'[op] = resv[op]
      BY <1>4 DEF RetireToGuard
    <2>4. CASE d = c
      BY <1>1, <1>2, <2>2, <2>4 DEF ClaimCoins
    <2>5. CASE d # c
      BY <1>1, <1>2, <2>2, <2>3, <2>5 DEF ClaimCoins
    <2>6. QED
      BY <2>4, <2>5
  <1>5. QED
    BY <1>3, <1>4 DEF ApplyTerminal

LEMMA VerdictCoins ==
  ASSUME TypeOK, OnceInv, CoinInv, NEW a \in Actors, ApplyVerdict(a)
  PROVE  CoinInv'
  <1>1. PICK c \in Claims : c = cl[a]
    BY DEF ApplyVerdict, TypeOK, ActorTypeOK, Inside
  <1>2. OwnNode /\ state[c] \notin Unsigned /\ Finish(a) /\ UNCHANGED <<rawTx, reserved>>
    BY <1>1, CoinParts
       DEF ApplyVerdict, ActorCoins, OwnNodeAt, OnceInv, PassesCarryTheBytes, PastSigning, Inside
  <1>3. \/ UNCHANGED <<state, resv, guard>>
        \/ \E to \in Verdicts, why \in Reasons : ApplyTerminal(a, c, to, why)
        \/ \E to \in {"SEEN", "UNCERTAIN"} : Transition(c, to) /\ UNCHANGED <<resv, guard>>
    BY <1>1 DEF ApplyVerdict, Reasons, Verdicts
  <1>4. CASE UNCHANGED <<state, resv, guard>>
    <2>1. Safekeeping
      BY <1>2, <1>4 DEF Safekeeping
    <2>2. QED
      BY <1>2, <2>1, KeepFinish
  <1>5. ASSUME NEW to \in {"SEEN", "UNCERTAIN"}, Transition(c, to), UNCHANGED <<resv, guard>>
        PROVE  CoinInv'
    <2>1. to \in States \ ({"AUTHORISED"} \cup Verdicts)
      BY StateNames DEF Verdicts
    <2>2. QED
      BY <1>2, <1>5, <2>1, KeepMove, KeepFinish
  <1>6. ASSUME NEW to \in Verdicts, NEW why \in Reasons, ApplyTerminal(a, c, to, why)
        PROVE  CoinInv'
    <2>1. \A d \in Claims : ClaimCoins(d)'
      BY <1>2, <1>6, RetireCoins
    <2>2. \A b \in Actors \ {a} : pc'[b] = pc[b] /\ cl'[b] = cl[b] /\ res'[b] = res[b]
      BY <1>2 DEF Finish, Goto, TypeOK, ActorTypeOK
    <2>3. pc'[a] \in {"idle", "done"}
      BY <1>2 DEF Finish, Goto, TypeOK, ActorTypeOK
    <2>4. \A d \in Claims : state'[d] = "AUTHORISED" => state[d] = "AUTHORISED"
      BY <1>6 DEF ApplyTerminal, Verdicts, TypeOK, LedgerTypeOK
    <2>5. ASSUME NEW b \in Actors PROVE ActorCoins(b)'
      <3>1. ActorCoins(b) /\ (pc[b] = "sign" => cl[b] \in Claims)
        BY CoinParts DEF TypeOK, ActorTypeOK, Inside
      <3>2. QED
        BY <1>2, <2>2, <2>3, <2>4, <3>1 DEF ActorCoins, OwnNodeAt
    <2>6. QED
      BY <2>1, <2>5, CoinPartsNext
  <1>7. QED
    BY <1>3, <1>4, <1>5, <1>6

LEMMA HandlerCoins ==
  ASSUME TypeOK, OnceInv, CoinInv, NEW r \in Claims, Handler(r)
  PROVE  CoinInv'
  <1>0. r \in Actors /\ {"lock", "pick"} \cap ({"sign"} \cup OwnNodeAt) = {}
    BY DEF Actors, OwnNodeAt
  <1>1. CASE Refuse(r) \/ ReplayKey(r) \/ CapReached(r) \/ NoCoins(r) \/ LoseEntitlement(r) \/ LedgerFailure(r)
    BY <1>0, <1>1, KeepFrame, KeepFinish
       DEF Refuse, ReplayKey, CapReached, NoCoins, LoseEntitlement, LedgerFailure
  <1>2. ASSUME AskForCoins(r), UNCHANGED ledgerVars PROVE CoinInv'
    BY <1>0, <1>2, KeepFrame, KeepGoto DEF AskForCoins
  <1>3. CASE ReplayEntitlement(r)
    <2>1. PICK c \in HoldersOf(r) :
            \/ Finish(r)
            \/ Goto(r, "lock") /\ cl' = [cl EXCEPT ![r] = c] /\ UNCHANGED res
      BY <1>3 DEF ReplayEntitlement
    <2>2. UNCHANGED ledgerVars
      BY <1>3 DEF ReplayEntitlement
    <2>3. CASE Finish(r)
      BY <1>0, <2>2, <2>3, KeepFrame, KeepFinish
    <2>4. CASE Goto(r, "lock") /\ cl' = [cl EXCEPT ![r] = c] /\ UNCHANGED res
      <3>1. \A b \in Actors \ {r} : cl'[b] = cl[b] /\ res'[b] = res[b]
        BY <2>4 DEF TypeOK, ActorTypeOK
      <3>2. QED
        BY <1>0, <2>2, <2>4, <3>1, KeepFrame, KeepGoto
    <2>5. QED
      BY <2>1, <2>3, <2>4
  <1>4. CASE Admit(r)
    BY <1>2, <1>4 DEF Admit
  <1>5. CASE CreateClaim(r)
    BY <1>5, CreateCoins
  <1>6. CASE RetryPick(r)
    BY <1>0, <1>2, <1>6, KeepFrame, KeepFinish DEF RetryPick
  <1>7. QED
    BY <1>1, <1>3, <1>4, <1>5, <1>6 DEF Handler

(* Guards are added or renamed, never dropped. *)
LEMMA GuardCoins ==
  ASSUME TypeOK, NEW a \in Actors, ReorgQuarantine(a) \/ ReorgResolve(a)
  PROVE  Safekeeping
  <1>1. PICK c \in Claims : c = cl[a]
    BY DEF ReorgQuarantine, ReorgResolve, TypeOK, ActorTypeOK, Inside
  <1>2. PICK why \in Reasons, ops \in SUBSET Outpoints :
          SetGuardReason(c, why) \/ QuarantineOutpoints(c, ops, why)
    BY <1>1 DEF ReorgQuarantine, ReorgResolve, Reasons, TypeOK, LedgerTypeOK
  <1>3. [by |-> c, why |-> why] # None
    BY LedgerAssumption DEF GuardRow
  <1>4. \A op \in Outpoints : guard[op] # None => guard'[op] # None
    BY <1>2, <1>3 DEF SetGuardReason, QuarantineOutpoints
  <1>5. UNCHANGED <<state, rawTx, reserved, resv>>
    BY DEF ReorgQuarantine, ReorgResolve
  <1>6. QED
    BY <1>4, <1>5 DEF Safekeeping

LEMMA PassCoins ==
  ASSUME TypeOK, OnceInv, CoinInv, NEW a \in Actors, Pass(a)
  PROVE  CoinInv'
  <1>0. /\ pc[a] \in Inside \cup {"lock"} => cl[a] \in Claims
        /\ pc[a] \in OwnNodeAt => OwnNode
        /\ {"UNCERTAIN", "SEEN", "BROADCASTING", "FAILED_SAFE"}
             \subseteq States \ ({"AUTHORISED"} \cup Verdicts)
    BY StateNames, CoinParts DEF TypeOK, ActorTypeOK, ActorCoins, Verdicts
  <1>1. CASE Enter(a)
    <2>1. cl[a] \in Claims /\ UNCHANGED ledgerVars
      BY <1>0, <1>1 DEF Enter
    <2>2. CASE ProcessClaim(a, cl[a])
      BY <2>1, <2>2, KeepProcess
    <2>3. CASE /\ OwnNode /\ Goto(a, "facts")
               /\ res' = [res EXCEPT ![a] = reserved[cl[a]]] /\ cl' = cl
      <3>1. pc'[a] = "facts"
        BY <2>3 DEF Goto, TypeOK, ActorTypeOK
      <3>2. ActorCoins(a)'
        BY <2>3, <3>1 DEF ActorCoins
      <3>3. \A b \in Actors \ {a} : pc'[b] = pc[b] /\ cl'[b] = cl[b] /\ res'[b] = res[b]
        BY <2>3 DEF Goto, TypeOK, ActorTypeOK
      <3>4. QED
        BY <2>1, <3>2, <3>3, KeepFrame, KeepStep
    <2>4. QED
      BY <1>1, <2>2, <2>3 DEF Enter
  <1>2. CASE Sign(a)
    BY <1>2, SignCoins
  <1>3. CASE SignRefused(a) \/ NotAuthoritative(a) \/ ConfirmedHeld(a)
    BY <1>3, KeepFrame, KeepFinish DEF SignRefused, NotAuthoritative, ConfirmedHeld
  <1>4. CASE \/ SignFails(a) \/ ReconcileExhausted(a) \/ ReconcileHold(a) \/ BroadcastAmbiguous(a)
             \/ ReconcileSeen(a) \/ BroadcastSeen(a) \/ SignUnsafe(a) \/ BroadcastMismatch(a)
    <2>1. pc[a] \in Inside /\ Finish(a) /\ UNCHANGED <<rawTx, reserved, resv, guard>>
      BY <1>4 DEF SignFails, ReconcileExhausted, ReconcileHold, BroadcastAmbiguous, ReconcileSeen,
                  BroadcastSeen, SignUnsafe, BroadcastMismatch, Inside, Replied
    <2>2. \E to \in {"UNCERTAIN", "SEEN", "FAILED_SAFE"} :
            Transition(cl[a], to) \/ state' = [state EXCEPT ![cl[a]] = to]
      BY <1>4 DEF SignFails, ReconcileExhausted, ReconcileHold, BroadcastAmbiguous, ReconcileSeen,
                  BroadcastSeen, SignUnsafe, BroadcastMismatch, MarkFailedSafe
    <2>3. QED
      BY <1>0, <2>1, <2>2, KeepMove, KeepFinish
  <1>5. CASE ReconcileAbsent(a)
    <2>1. cl[a] \in Claims /\ UNCHANGED <<rawTx, reserved, resv, guard>>
      BY <1>0, <1>5 DEF ReconcileAbsent, Inside
    <2>2. CASE MarkBroadcasting(cl[a]) /\ Await(a, "send")
      <3>1. Safekeeping
        BY <1>0, <2>1, <2>2, KeepMove DEF MarkBroadcasting
      <3>2. "send" \notin {"sign"} \cup OwnNodeAt
        BY DEF OwnNodeAt
      <3>3. QED
        BY <2>2, <3>1, <3>2, KeepGoto DEF Await, KeepLocals
    <2>3. CASE UNCHANGED <<state, attempts>> /\ Finish(a)
      BY <2>1, <2>3, KeepFrame, KeepFinish DEF ledgerVars
    <2>4. QED
      BY <1>5, <2>2, <2>3 DEF ReconcileAbsent
  <1>6. CASE Watch(a)
    <2>1. cl[a] \in Claims /\ UNCHANGED <<rawTx, reserved, attempts, resv, guard>> /\ Finish(a)
      BY <1>0, <1>6 DEF Watch, Inside
    <2>2. CASE Transition(cl[a], "UNCERTAIN")
      BY <1>0, <2>1, <2>2, KeepMove, KeepFinish
    <2>3. CASE UNCHANGED state
      BY <2>1, <2>3, KeepFrame, KeepFinish DEF ledgerVars
    <2>4. QED
      BY <1>6, <2>2, <2>3 DEF Watch
  <1>7. CASE Transmit(a)
    <2>1. {"accepted", "refused"} \cap ({"sign"} \cup OwnNodeAt) = {}
      BY DEF OwnNodeAt
    <2>2. QED
      BY <1>7, <2>1, KeepFrame, KeepGoto DEF Transmit, Await, KeepLocals
  <1>8. CASE GatherConfirmations(a) \/ GatherMempool(a)
    <2>1. OwnNode /\ UNCHANGED <<ledgerVars, cl, res>>
      BY <1>0, <1>8 DEF GatherConfirmations, GatherMempool, OwnNodeAt
    <2>2. PICK label \in OwnNodeAt : Goto(a, label)
      BY <1>8 DEF GatherConfirmations, GatherMempool, OwnNodeAt
    <2>3. pc'[a] = label /\ \A b \in Actors \ {a} : pc'[b] = pc[b]
      BY <2>2 DEF Goto, TypeOK, ActorTypeOK
    <2>4. ActorCoins(a)'
      BY <2>1, <2>3 DEF ActorCoins, OwnNodeAt
    <2>5. QED
      BY <2>1, <2>3, <2>4, KeepFrame, KeepStep
  <1>9. CASE ApplyVerdict(a)
    BY <1>9, VerdictCoins
  <1>10. CASE ApplyAbsent(a)
    BY <1>0, <1>10, KeepProcess DEF ApplyAbsent, Inside
  <1>11. CASE ReorgQuarantine(a) \/ ReorgResolve(a)
    BY <1>11, GuardCoins, KeepFinish DEF ReorgQuarantine, ReorgResolve
  <1>12. QED
    BY <1>1, <1>2, <1>3, <1>4, <1>5, <1>6, <1>7, <1>8, <1>9, <1>10, <1>11 DEF Pass

LEMMA CoinStep == TypeOK /\ OnceInv /\ CoinInv /\ [Next]_vars => CoinInv'
  <1> SUFFICES ASSUME TypeOK, OnceInv, CoinInv, [Next]_vars PROVE CoinInv'
    OBVIOUS
  <1>1. ASSUME NEW r \in Claims, Handler(r) PROVE CoinInv'
    BY <1>1, HandlerCoins
  <1>2. CASE Recover
    <2>1. Worker \in Actors /\ "lock" \notin {"sign"} \cup OwnNodeAt
      BY DEF Actors, OwnNodeAt
    <2>2. \A b \in Actors \ {Worker} : cl'[b] = cl[b] /\ res'[b] = res[b]
      BY <1>2 DEF Recover, TypeOK, ActorTypeOK
    <2>3. QED
      BY <1>2, <2>1, <2>2, KeepFrame, KeepGoto DEF Recover
  <1>3. ASSUME NEW a \in Actors, Pass(a) PROVE CoinInv'
    BY <1>3, PassCoins
  <1>4. ASSUME UNCHANGED <<ledgerVars, actorVars>> PROVE CoinInv'
    BY <1>4 DEF CoinInv, ledgerVars, actorVars
  <1>5. CASE Network \/ UNCHANGED vars
    BY <1>4, <1>5 DEF Network, vars
  <1>6. CASE Crash
    <2>1. \A a \in Actors : pc'[a] \in {"idle", "new", "done"}
      BY <1>6 DEF Crash
    <2>2. \A a \in Actors : ActorCoins(a)'
      BY <2>1 DEF ActorCoins, OwnNodeAt
    <2>3. QED
      BY <1>6, <2>2, KeepFrame, KeepClaims, CoinPartsNext DEF Crash
  <1>7. QED
    BY <1>1, <1>2, <1>3, <1>5, <1>6 DEF Next

-------------------------------------------------------------------------------
THEOREM CoinInvariant == Spec => []CoinInv
  <1>1. QED
    BY CoinInit, CoinStep, OnceInvariant, TypeCorrect, PTL DEF Spec

(***************************************************************************)
(* No coin of a signed payment is ever offered to coin selection again:    *)
(* it is reserved or guarded at every durable state (ledger.mjs,           *)
(* retireToGuard), crashes and reorganisations included.                   *)
(***************************************************************************)
THEOREM CoinsStayHeld == Spec => []InputsHeld
  <1>1. OnceInv /\ CoinInv => InputsHeld
    BY LedgerAssumption DEF CoinInv, InputsHeld, Held, OnceInv
  <1>2. QED
    BY <1>1, CoinInvariant, OnceInvariant, PTL

(***************************************************************************)
(* However late a claim is signed, every coin it was promised is its own   *)
(* (claimflow.mjs signs the reserved inputs only).                         *)
(***************************************************************************)
THEOREM LateSigningIsSafe == Spec => []AuthorisedOwnsCoins
  <1>1. CoinInv => AuthorisedOwnsCoins
    BY DEF CoinInv, AuthorisedOwnsCoins
  <1>2. QED
    BY <1>1, CoinInvariant, PTL

(***************************************************************************)
(* Without an own node the explorer is advisory only: nothing it says      *)
(* concludes a claim or frees a coin (claimflow.mjs, server.mjs).          *)
(***************************************************************************)
THEOREM ExplorerIsAdvisory == Spec => []AdvisoryOnly
  <1>1. CoinInv => AdvisoryOnly
    BY DEF CoinInv, AdvisoryOnly
  <1>2. QED
    BY <1>1, CoinInvariant, PTL

(***************************************************************************)
(* ... and then no two claims ever commit to one coin, so no payout of the *)
(* faucet can invalidate another.                                          *)
(***************************************************************************)
THEOREM PaymentsAreDisjoint == Spec => [](~OwnNode => DisjointPayments)
  <1>1. OnceInv /\ CoinInv /\ ~OwnNode => DisjointPayments
    BY DEF CoinInv, DisjointPayments, OnceInv
  <1>2. QED
    BY <1>1, CoinInvariant, OnceInvariant, PTL

-------------------------------------------------------------------------------
(***************************************************************************)
(* Verdicts.  Before the first disconnected block, what a pass has read of *)
(* its transaction stays true until it is applied, and what was applied    *)
(* stays true.                                                             *)
(***************************************************************************)
NetClean == mempool \cap Mined = {}
BytesSpend == \A c \in Claims : rawTx[c] # None => rawTx[c].ins # {}

\* A reader compares the coins of its claim's row.
ReadsRow == \A a \in Actors : pc[a] \in OwnNodeAt => res[a] = reserved[cl[a]]

Buried(t, n) == t \in Mined /\ depth[t] >= n

ClaimTrue(c) ==
  /\ state[c] = "CONFIRMED" => Buried(rawTx[c], MinRetireConf)
  /\ state[c] = "CONFLICTED" => \E t \in Mined \ {rawTx[c]} : t.ins \cap reserved[c] # {}

ReadTrue(a) ==
  pc[a] \in {"pool", "coins"} /\ facts[a].conf >= 1 => Buried(tx[a], facts[a].conf)

TruthInv ==
  /\ NetClean /\ BytesSpend /\ ReadsRow
  /\ reorgs = 0 => (\A c \in Claims : ClaimTrue(c)) /\ (\A a \in Actors : ReadTrue(a))

\* With the lock, one pass is inside a claim, and it signs or sends what no
\* other pass can have concluded meanwhile.
Exclusive ==
  \A a, b \in Actors : a # b /\ pc[a] \in Inside /\ pc[b] \in Inside => cl[a] # cl[b]

PassLocked(a) ==
  /\ pc[a] = "sign" => state[cl[a]] = "AUTHORISED"
  /\ pc[a] \in {"send"} \cup Replied => state[cl[a]] = "BROADCASTING"

LockInv == UseLock => Exclusive /\ \A a \in Actors : PassLocked(a)

-------------------------------------------------------------------------------
(* Who moves, and where a pass may be once it has moved. *)
Locals(a) == <<pc[a], cl[a], tx[a], res[a], facts[a]>>
Moves(a) == \A b \in Actors \ {a} : UNCHANGED Locals(b)
Stays(a) ==
  \/ Enter(a) \/ Sign(a) \/ ReconcileAbsent(a) \/ Transmit(a)
  \/ GatherConfirmations(a) \/ GatherMempool(a) \/ ApplyAbsent(a)

LEMMA FinishMoves ==
  ASSUME TypeOK, NEW a \in Actors, Finish(a)
  PROVE  Moves(a) /\ pc'[a] \in Parked
  BY DEF Finish, Goto, TypeOK, ActorTypeOK, Moves, Locals, Parked

-------------------------------------------------------------------------------
(* Who writes a row: the insert, the signer, or a pass that moves its own claim. *)
Concludes(a, to) ==
  /\ pc[a] \in Inside /\ UNCHANGED <<rawTx, reserved>>
  /\ \/ pc'[a] \in Parked
     \/ pc'[a] = "send" /\ to = "BROADCASTING"
  /\ \/ Accepts(cl[a], to) \/ (to = "FAILED_SAFE" /\ (SignUnsafe(a) \/ BroadcastMismatch(a)))
  /\ to \in Verdicts => ApplyVerdict(a)
  /\ to = "SEEN" => ReconcileSeen(a) \/ BroadcastSeen(a) \/ ApplyVerdict(a)
  /\ state' = [state EXCEPT ![cl[a]] = to]

RowsQuiet == UNCHANGED <<state, rawTx, reserved>>

LEMMA MoveConcludes ==
  ASSUME NEW a \in Actors, pc[a] \in Inside, pc'[a] \in Parked, UNCHANGED <<rawTx, reserved>>,
         NEW to \in {"SEEN", "UNCERTAIN"}, Transition(cl[a], to),
         to = "SEEN" => ReconcileSeen(a) \/ BroadcastSeen(a) \/ ApplyVerdict(a)
  PROVE  RowsQuiet \/ Concludes(a, to)
  BY DEF RowsQuiet, Concludes, Transition, Verdicts

LEMMA PassWrites ==
  ASSUME TypeOK, NEW a \in Actors, Pass(a)
  PROVE  RowsQuiet \/ Sign(a) \/ \E to \in States : Concludes(a, to)
  <1>0. /\ {"SEEN", "UNCERTAIN"} \subseteq States /\ "FAILED_SAFE" \in States
        /\ "BROADCASTING" \in States /\ Verdicts \subseteq States
    BY StateNames DEF Verdicts
  <1>1. CASE \/ Enter(a) \/ SignRefused(a) \/ NotAuthoritative(a) \/ ConfirmedHeld(a)
             \/ GatherConfirmations(a) \/ GatherMempool(a) \/ ApplyAbsent(a) \/ Transmit(a)
    BY <1>1 DEF Enter, SignRefused, NotAuthoritative, ConfirmedHeld, GatherConfirmations,
         GatherMempool, ApplyAbsent, Transmit, ledgerVars, RowsQuiet
  <1>2. CASE ReorgQuarantine(a) \/ ReorgResolve(a)
    BY <1>2 DEF ReorgQuarantine, ReorgResolve, RowsQuiet
  <1>f. Finish(a) => pc'[a] \in Parked
    BY FinishMoves
  <1>3. CASE \/ SignFails(a) \/ ReconcileExhausted(a) \/ ReconcileHold(a) \/ BroadcastAmbiguous(a)
             \/ ReconcileSeen(a) \/ BroadcastSeen(a) \/ Watch(a)
    <2>1. pc[a] \in Inside /\ pc'[a] \in Parked /\ UNCHANGED <<rawTx, reserved>>
      BY <1>3, <1>f DEF SignFails, ReconcileExhausted, ReconcileHold, BroadcastAmbiguous, ReconcileSeen,
           BroadcastSeen, Watch, Inside, Replied
    <2>2. UNCHANGED state \/ \E to \in {"SEEN", "UNCERTAIN"} :
            /\ Transition(cl[a], to)
            /\ to = "SEEN" => ReconcileSeen(a) \/ BroadcastSeen(a)
      <3>1. CASE ReconcileSeen(a) \/ BroadcastSeen(a)
        BY <3>1 DEF ReconcileSeen, BroadcastSeen
      <3>2. CASE ~ReconcileSeen(a) /\ ~BroadcastSeen(a)
        <4>1. UNCHANGED state \/ Transition(cl[a], "UNCERTAIN")
          BY <1>3, <3>2 DEF SignFails, ReconcileExhausted, ReconcileHold, BroadcastAmbiguous, Watch
        <4> QED BY <4>1
      <3> QED BY <3>1, <3>2
    <2> QED BY <1>0, <2>1, <2>2, MoveConcludes DEF RowsQuiet
  <1>4. CASE SignUnsafe(a) \/ BroadcastMismatch(a)
    <2>1. Concludes(a, "FAILED_SAFE")
      BY <1>4, <1>f DEF SignUnsafe, BroadcastMismatch, MarkFailedSafe, Concludes, Inside, Replied, Verdicts
    <2> QED BY <1>0, <2>1
  <1>5. CASE ReconcileAbsent(a)
    <2>1. UNCHANGED state \/ Concludes(a, "BROADCASTING")
      <3>1. Await(a, "send") => pc'[a] = "send"
        BY DEF Await, Goto, TypeOK, ActorTypeOK
      <3> QED BY <1>5, <3>1 DEF ReconcileAbsent, MarkBroadcasting, Concludes, Inside, Verdicts
    <2> QED BY <1>0, <1>5, <2>1 DEF ReconcileAbsent, RowsQuiet
  <1>6. CASE ApplyVerdict(a)
    <2>1. pc[a] \in Inside /\ pc'[a] \in Parked /\ UNCHANGED <<rawTx, reserved>>
      BY <1>6, <1>f DEF ApplyVerdict, Inside
    <2>2. \/ UNCHANGED state
          \/ \E to \in Verdicts, why \in Reasons : ApplyTerminal(a, cl[a], to, why)
          \/ \E to \in {"SEEN", "UNCERTAIN"} : Transition(cl[a], to)
      BY <1>6 DEF ApplyVerdict, Reasons, Verdicts
    <2>3. ASSUME NEW to \in Verdicts, NEW why \in Reasons, ApplyTerminal(a, cl[a], to, why)
          PROVE  RowsQuiet \/ Concludes(a, to)
      BY <1>6, <2>1, <2>3 DEF ApplyTerminal, Concludes, RowsQuiet
    <2> QED BY <1>0, <1>6, <2>1, <2>2, <2>3, MoveConcludes DEF RowsQuiet
  <1>7. CASE Sign(a)
    BY <1>7
  <1> QED BY <1>1, <1>2, <1>3, <1>4, <1>5, <1>6, <1>7 DEF Pass

LEMMA WhoWrites ==
  ASSUME TypeOK, [Next]_vars
  PROVE  \/ RowsQuiet
         \/ \E r \in Claims : CreateClaim(r)
         \/ \E a \in Actors : Sign(a) \/ \E to \in States : Concludes(a, to)
  <1>1. ASSUME NEW r \in Claims, Handler(r)
        PROVE  RowsQuiet \/ CreateClaim(r)
    BY <1>1 DEF Handler, Refuse, ReplayKey, ReplayEntitlement, Admit, CapReached, NoCoins,
         LoseEntitlement, RetryPick, LedgerFailure, ledgerVars, RowsQuiet
  <1>2. CASE Recover \/ Network \/ Crash \/ UNCHANGED vars
    BY <1>2 DEF Recover, Network, Crash, vars, ledgerVars, RowsQuiet
  <1>3. ASSUME NEW a \in Actors, Pass(a)
        PROVE  RowsQuiet \/ Sign(a) \/ \E to \in States : Concludes(a, to)
    BY <1>3, PassWrites
  <1> QED BY <1>1, <1>2, <1>3 DEF Next

\* An insert is of a claim without a row.
LEMMA InsertIs ==
  ASSUME TypeOK, OnceInv, NEW r \in Claims, CreateClaim(r)
  PROVE  /\ state[r] = "NONE" /\ state' = [state EXCEPT ![r] = "AUTHORISED"]
         /\ rawTx' = rawTx /\ \A d \in Claims \ {r} : reserved'[d] = reserved[d]
  <1>1. PICK coins \in SUBSET Outpoints : HoldersOf(r) = {} /\ InsertClaim(r, coins)
    BY DEF CreateClaim
  <1>2. state[r] = "NONE"
    BY <1>1 DEF HoldersOf, Exists
  <1> QED BY <1>1, <1>2 DEF CreateClaim, InsertClaim, TypeOK, LedgerTypeOK

\* A signature is of a claim that had none, or of the same bytes.
LEMMA SignatureIs ==
  ASSUME TypeOK, OnceInv, CoinInv, NEW a \in Actors, Sign(a)
  PROVE  \E t \in ClaimTx :
           /\ t.ins # {} /\ cl[a] \in Claims
           /\ state' = [state EXCEPT ![cl[a]] = "SIGNED"]
           /\ rawTx' = [rawTx EXCEPT ![cl[a]] = t]
           /\ reserved' = [reserved EXCEPT ![cl[a]] = t.ins]
           /\ \/ state[cl[a]] = "AUTHORISED" /\ rawTx[cl[a]] = None
              \/ state[cl[a]] = "SIGNED" /\ rawTx[cl[a]] = t /\ reserved[cl[a]] = t.ins
  <1>1. cl[a] \in Claims
    BY DEF Sign, TypeOK, ActorTypeOK, Inside
  <1>2. PICK ins \in (SUBSET Outpoints) \ {{}}, v \in Versions :
          LET t == [claim |-> cl[a], ins |-> ins, ver |-> v]
          IN  SignAccepted(cl[a], t) /\ MarkSigned(cl[a], t)
    BY DEF Sign
  <1>3. PICK t \in ClaimTx : /\ t.ins # {} /\ SignAccepted(cl[a], t) /\ MarkSigned(cl[a], t)
    <2>1. PICK t : t = [claim |-> cl[a], ins |-> ins, ver |-> v]
      OBVIOUS
    <2>2. t \in ClaimTx /\ t.ins = ins
      BY <1>1, <2>1 DEF ClaimTx
    <2> QED BY <1>2, <2>1, <2>2
  <1>4. state[cl[a]] = "AUTHORISED" => rawTx[cl[a]] = None
    BY <1>1 DEF OnceInv, BytesAreFinal, Unsigned
  <1>5. state[cl[a]] = "SIGNED" => rawTx[cl[a]] = t /\ reserved[cl[a]] = t.ins
    BY <1>1, <1>3 DEF SignAccepted, OnceInv, BytesAreFinal, CoinInv
  <1>6. state[cl[a]] \in {"AUTHORISED", "SIGNED"}
    BY <1>3 DEF SignAccepted, Accepts, TransitionAllowed
  <1> QED BY <1>1, <1>3, <1>4, <1>5, <1>6 DEF MarkSigned

\* What a claim past signing stores and reserves is there to stay.
LEMMA RowsStill ==
  ASSUME TypeOK, OnceInv, CoinInv, [Next]_vars, NEW c \in Claims, state[c] \notin Unsigned
  PROVE  rawTx'[c] = rawTx[c] /\ reserved'[c] = reserved[c]
  <1>1. CASE RowsQuiet
    BY <1>1 DEF RowsQuiet
  <1>2. ASSUME NEW r \in Claims, CreateClaim(r)
        PROVE  rawTx'[c] = rawTx[c] /\ reserved'[c] = reserved[c]
    BY <1>2, InsertIs DEF Unsigned
  <1>3. ASSUME NEW a \in Actors, Sign(a)
        PROVE  rawTx'[c] = rawTx[c] /\ reserved'[c] = reserved[c]
    BY <1>3, SignatureIs DEF Unsigned, TypeOK, LedgerTypeOK
  <1>4. ASSUME NEW a \in Actors, NEW to \in States, Concludes(a, to)
        PROVE  rawTx'[c] = rawTx[c] /\ reserved'[c] = reserved[c]
    BY <1>4 DEF Concludes
  <1> QED BY <1>1, <1>2, <1>3, <1>4, WhoWrites

-------------------------------------------------------------------------------
LEMMA ProcessMoves ==
  ASSUME TypeOK, NEW a \in Actors, NEW c \in Claims, ProcessClaim(a, c)
  PROVE  /\ Moves(a)
         /\ pc'[a] \notin Parked =>
              /\ cl'[a] = cl[a] /\ pc'[a] \in {"sign", "watch", "recon"}
              /\ pc'[a] = "sign" => state[c] = "AUTHORISED"
  <1>1. CASE state[c] \in Terminal
    BY <1>1, FinishMoves DEF ProcessClaim
  <1>2. CASE state[c] \notin Terminal
    <2> DEFINE label == CASE state[c] = "AUTHORISED" -> "sign"
                          [] state[c] = "SEEN" -> "watch"
                          [] OTHER -> "recon"
    <2>1. label \in {"sign", "watch", "recon"} /\ (label = "sign" => state[c] = "AUTHORISED")
      OBVIOUS
    <2>2. /\ pc' = [pc EXCEPT ![a] = label] /\ tx' = [tx EXCEPT ![a] = rawTx[c]]
          /\ res' = [res EXCEPT ![a] = reserved[c]] /\ facts' = [facts EXCEPT ![a] = NoFacts]
          /\ cl' = cl
      BY <1>2 DEF ProcessClaim, Goto
    <2> HIDE DEF label
    <2> QED BY <2>1, <2>2 DEF Moves, Locals, TypeOK, ActorTypeOK
  <1> QED BY <1>1, <1>2

LEMMA StaysMoves ==
  ASSUME TypeOK, NEW a \in Actors, Stays(a)
  PROVE  /\ Moves(a) /\ cl[a] \in Claims /\ (Enter(a) \/ pc[a] \in Inside)
         /\ pc'[a] \in Inside => cl'[a] = cl[a]
  <1>1. cl[a] \in Claims /\ (Enter(a) \/ pc[a] \in Inside)
    BY DEF Stays, Enter, Sign, ReconcileAbsent, Transmit, GatherConfirmations, GatherMempool,
       ApplyAbsent, Inside, TypeOK, ActorTypeOK
  <1>2. Parked \cap Inside = {}
    BY DEF Parked, Inside
  <1>3. CASE Enter(a)
    <2>1. CASE ProcessClaim(a, cl[a])
      BY <1>1, <1>2, <2>1, ProcessMoves
    <2>2. CASE ~ProcessClaim(a, cl[a])
      BY <1>1, <1>3, <2>2 DEF Enter, Goto, Moves, Locals, TypeOK, ActorTypeOK
    <2> QED BY <2>1, <2>2
  <1>4. CASE ApplyAbsent(a)
    BY <1>1, <1>2, <1>4, ProcessMoves DEF ApplyAbsent
  <1>5. CASE Sign(a)
    <2>1. /\ \E t : tx' = [tx EXCEPT ![a] = t]
          /\ \E ins : res' = [res EXCEPT ![a] = ins]
          /\ pc' = [pc EXCEPT ![a] = "recon"] /\ UNCHANGED <<cl, facts>>
      BY <1>5 DEF Sign, Goto
    <2> QED BY <1>1, <2>1 DEF Moves, Locals, TypeOK, ActorTypeOK
  <1>6. CASE ReconcileAbsent(a)
    <2>1. CASE Finish(a)
      BY <1>1, <1>2, <2>1, FinishMoves
    <2>2. CASE Await(a, "send")
      BY <1>1, <2>2 DEF Await, Goto, KeepLocals, Moves, Locals, TypeOK, ActorTypeOK
    <2> QED BY <1>6, <2>1, <2>2 DEF ReconcileAbsent
  <1>7. CASE Transmit(a)
    BY <1>1, <1>7 DEF Transmit, Await, Goto, KeepLocals, Moves, Locals, TypeOK, ActorTypeOK
  <1>8. CASE GatherConfirmations(a)
    <2>1. /\ \E l : pc' = [pc EXCEPT ![a] = l]
          /\ \E f : facts' = [facts EXCEPT ![a] = f] /\ UNCHANGED <<cl, tx, res>>
      BY <1>8 DEF GatherConfirmations, Goto
    <2> QED BY <1>1, <2>1 DEF Moves, Locals, TypeOK, ActorTypeOK
  <1>9. CASE GatherMempool(a)
    <2>1. /\ \E l : pc' = [pc EXCEPT ![a] = l]
          /\ \E b : facts' = [facts EXCEPT ![a].pool = b] /\ UNCHANGED <<cl, tx, res>>
      BY <1>9 DEF GatherMempool, Goto
    <2> QED BY <1>1, <2>1 DEF Moves, Locals, TypeOK, ActorTypeOK
  <1> QED BY <1>3, <1>4, <1>5, <1>6, <1>7, <1>8, <1>9 DEF Stays

LEMMA WhoMoves ==
  ASSUME TypeOK, [Next]_vars
  PROVE  \/ \A b \in Actors : UNCHANGED Locals(b)
         \/ Crash
         \/ \E a \in Actors : Moves(a) /\ (pc'[a] \in Parked \/ Stays(a))
  <1>1. ASSUME NEW r \in Claims, Handler(r)
        PROVE  \E a \in Actors : Moves(a) /\ pc'[a] \in Parked
    <2>0. r \in Actors
      BY DEF Actors
    <2>1. CASE Finish(r)
      BY <2>0, <2>1, FinishMoves
    <2>2. CASE AskForCoins(r) \/ CreateClaim(r) \/ ReplayEntitlement(r)
      <3> DEFINE Asks == /\ \E l \in {"pick", "lock"} : Goto(r, l)
                         /\ UNCHANGED <<tx, res, facts>>
                         /\ UNCHANGED cl \/ \E c : cl' = [cl EXCEPT ![r] = c]
      <3>1. CASE AskForCoins(r) \/ CreateClaim(r)
        <4>1. Asks
          BY <3>1 DEF AskForCoins, CreateClaim
        <4> QED BY <2>0, <4>1 DEF Goto, Moves, Locals, TypeOK, ActorTypeOK, Parked
      <3>2. CASE ReplayEntitlement(r)
        <4>1. PICK c \in HoldersOf(r) :
                IF state[c] \in Terminal
                  THEN Finish(r)
                  ELSE /\ Goto(r, "lock")
                       /\ cl' = [cl EXCEPT ![r] = c]
                       /\ UNCHANGED <<tx, res, avoid, listing, picks, facts>>
          BY <3>2 DEF ReplayEntitlement
        <4>2. Finish(r) \/ Asks
          BY <4>1
        <4> QED BY <2>0, <2>1, <4>2 DEF Goto, Moves, Locals, TypeOK, ActorTypeOK, Parked
      <3> QED BY <2>2, <3>1, <3>2
    <2> QED BY <1>1, <2>1, <2>2 DEF Handler, Refuse, ReplayKey, Admit, CapReached, NoCoins,
         LoseEntitlement, RetryPick, LedgerFailure
  <1>2. CASE Recover
    <2>1. /\ Worker \in Actors /\ Goto(Worker, "lock") /\ UNCHANGED <<tx, res, facts>>
          /\ \E c : cl' = [cl EXCEPT ![Worker] = c]
      BY <1>2 DEF Recover, Actors
    <2> QED BY <2>1 DEF Goto, Moves, Locals, TypeOK, ActorTypeOK, Parked
  <1>3. ASSUME NEW a \in Actors, Pass(a), ~Stays(a) PROVE Finish(a)
    BY <1>3 DEF Pass, Stays, SignRefused, SignFails, SignUnsafe, ReconcileSeen, ReconcileHold,
       ReconcileExhausted, Watch, BroadcastSeen, BroadcastAmbiguous, BroadcastMismatch,
       NotAuthoritative, ApplyVerdict, ReorgQuarantine, ReorgResolve, ConfirmedHeld
  <1>4. CASE Network \/ UNCHANGED vars
    BY <1>4 DEF Network, vars, actorVars, Locals
  <1> QED BY <1>1, <1>2, <1>3, <1>4, FinishMoves, StaysMoves DEF Next

-------------------------------------------------------------------------------
(* The lock: nobody else writes the row a pass is inside of. *)
LEMMA OwnRow ==
  ASSUME TypeOK, OnceInv, CoinInv, LockInv, UseLock, [Next]_vars,
         NEW b \in Actors, pc[b] \in Inside
  PROVE  \/ state'[cl[b]] = state[cl[b]]
         \/ pc'[b] \in Parked \cup {"recon"}
         \/ pc'[b] = "send" /\ state'[cl[b]] = "BROADCASTING"
  <1>0. cl[b] \in Claims /\ Exists(cl[b])
    BY DEF TypeOK, ActorTypeOK, OnceInv, PassesCarryTheBytes, PastSigning, Exists, Unsigned
  <1>1. ASSUME NEW r \in Claims, CreateClaim(r) PROVE state'[cl[b]] = state[cl[b]]
    BY <1>0, <1>1, InsertIs DEF Exists, TypeOK, LedgerTypeOK
  <1>2. ASSUME NEW a \in Actors, a # b, pc[a] \in Inside, NEW to,
               state' = [state EXCEPT ![cl[a]] = to]
        PROVE  state'[cl[b]] = state[cl[b]]
    BY <1>0, <1>2 DEF LockInv, Exclusive, TypeOK, LedgerTypeOK
  <1>3. ASSUME NEW a \in Actors, Sign(a)
        PROVE  state'[cl[b]] = state[cl[b]] \/ pc'[b] = "recon"
    <2>1. pc[a] \in Inside /\ pc'[a] = "recon"
      BY <1>3 DEF Sign, Goto, Inside, TypeOK, ActorTypeOK
    <2> QED BY <1>2, <1>3, <2>1, SignatureIs
  <1>4. ASSUME NEW a \in Actors, NEW to \in States, Concludes(a, to)
        PROVE  \/ state'[cl[b]] = state[cl[b]] \/ pc'[b] \in Parked
               \/ pc'[b] = "send" /\ state'[cl[b]] = "BROADCASTING"
    BY <1>0, <1>2, <1>4 DEF Concludes, TypeOK, LedgerTypeOK
  <1> QED BY <1>1, <1>3, <1>4, WhoWrites DEF RowsQuiet

LEMMA LockStep == TypeOK /\ OnceInv /\ CoinInv /\ LockInv /\ [Next]_vars => LockInv'
  <1> SUFFICES ASSUME TypeOK, OnceInv, CoinInv, LockInv, [Next]_vars, UseLock
               PROVE  Exclusive' /\ \A b \in Actors : PassLocked(b)'
    BY DEF LockInv
  <1>0. Parked \cap Inside = {} /\ {"sign", "send"} \cup Replied \subseteq Inside
    BY DEF Parked, Inside, Replied
  <1>1. CASE Crash
    <2>1. \A b \in Actors : pc'[b] \in Parked
      BY <1>1 DEF Crash, Parked
    <2> QED BY <1>0, <2>1 DEF Exclusive, PassLocked
  <1>2. ASSUME NEW b \in Actors, UNCHANGED Locals(b)
        PROVE  PassLocked(b)'
    BY <1>0, <1>2, OwnRow DEF Locals, LockInv, PassLocked, Parked, Replied
  <1>3. ASSUME NEW b \in Actors, Stays(b)
        PROVE  PassLocked(b)'
    <2>1. CASE pc'[b] \notin Inside
      BY <1>0, <2>1 DEF PassLocked
    <2>2. CASE pc'[b] \in Inside
      <3>1. cl'[b] = cl[b] /\ cl[b] \in Claims
        BY <1>3, <2>2, StaysMoves
      <3>2. CASE UNCHANGED ledgerVars /\ ProcessClaim(b, cl[b])
        BY <1>0, <2>2, <3>1, <3>2, ProcessMoves DEF PassLocked, Replied, ledgerVars
      <3>3. CASE ReconcileAbsent(b)
        <4>1. Finish(b) => pc'[b] \in Parked
          BY FinishMoves
        <4>2. pc'[b] = "send" /\ state'[cl[b]] = "BROADCASTING"
          BY <1>0, <2>2, <3>1, <3>3, <4>1
             DEF ReconcileAbsent, MarkBroadcasting, Await, Goto, TypeOK, ActorTypeOK, LedgerTypeOK
        <4> QED BY <3>1, <4>2 DEF PassLocked, Replied
      <3>4. CASE Transmit(b)
        <4>1. pc[b] = "send" /\ pc'[b] \in Replied /\ UNCHANGED state
          BY <3>4 DEF Transmit, Await, Goto, Replied, ledgerVars, TypeOK, ActorTypeOK
        <4> QED BY <3>1, <4>1 DEF PassLocked, Replied, LockInv
      <3>5. CASE Sign(b) \/ GatherConfirmations(b) \/ GatherMempool(b) \/ (Enter(b) /\ pc'[b] = "facts")
        <4>1. pc'[b] \in {"recon", "pool", "coins", "facts"}
          BY <3>5 DEF Sign, GatherConfirmations, GatherMempool, Goto, TypeOK, ActorTypeOK
        <4> QED BY <4>1 DEF PassLocked, Replied
      <3>6. Enter(b) => (UNCHANGED ledgerVars /\ ProcessClaim(b, cl[b])) \/ pc'[b] = "facts"
        BY DEF Enter, Goto, TypeOK, ActorTypeOK
      <3>7. ApplyAbsent(b) => UNCHANGED ledgerVars /\ ProcessClaim(b, cl[b])
        BY DEF ApplyAbsent
      <3> QED BY <1>3, <3>2, <3>3, <3>4, <3>5, <3>6, <3>7 DEF Stays
    <2> QED BY <2>1, <2>2
  <1>4. CASE \A b \in Actors : UNCHANGED Locals(b)
    BY <1>2, <1>4 DEF Exclusive, LockInv, Locals
  <1>5. ASSUME NEW a \in Actors, Moves(a), pc'[a] \in Parked \/ Stays(a)
        PROVE  Exclusive' /\ \A b \in Actors : PassLocked(b)'
    <2>1. PassLocked(a)'
      BY <1>0, <1>3, <1>5 DEF PassLocked
    <2>2. ASSUME NEW b \in Actors, b # a, pc'[a] \in Inside, pc'[b] \in Inside
          PROVE  cl'[a] # cl'[b]
      <3>1. cl'[a] = cl[a] /\ (Enter(a) \/ pc[a] \in Inside) /\ UNCHANGED <<pc[b], cl[b]>>
        BY <1>0, <1>5, <2>2, StaysMoves DEF Moves, Locals
      <3>2. Enter(a) => LockFree(a)
        BY DEF Enter
      <3> QED BY <2>2, <3>1, <3>2 DEF LockFree, LockInv, Exclusive
    <2>3. Exclusive'
      BY <1>5, <2>2 DEF Exclusive, LockInv, Moves, Locals
    <2> QED BY <1>2, <1>5, <2>1, <2>3 DEF Moves
  <1> QED BY <1>1, <1>4, <1>5, WhoMoves, <1>2

LEMMA LockInit == Init => LockInv
  BY DEF Init, LockInv, Exclusive, PassLocked, Inside, Replied

-------------------------------------------------------------------------------
(* Without a disconnected block the chain only grows. *)
LEMMA ChainGrows ==
  ASSUME TypeOK, NetClean, [Next]_vars, reorgs' = 0
  PROVE  reorgs = 0 /\ \A t, n : n \in Nat /\ Buried(t, n) => Buried(t, n)'
  <1>1. CASE MineBlock
    <2>1. PICK block \in SUBSET mempool :
            /\ depth' = [t \in Mined \cup block |-> IF t \in block THEN 1 ELSE Deeper(depth[t])]
            /\ reorgs' = reorgs
      BY <1>1 DEF MineBlock
    <2>2. ASSUME NEW t \in Mined PROVE t \notin block /\ Deeper(depth[t]) >= depth[t]
      BY <2>1, NetAssumption DEF NetClean, Deeper, TypeOK, NetTypeOK
    <2>3. ASSUME NEW t \in Mined PROVE t \in Mined' /\ depth'[t] >= depth[t]
      BY <2>1, <2>2 DEF Mined
    <2>4. ASSUME NEW t \in Mined PROVE depth[t] \in Nat /\ depth'[t] \in Nat
      BY <2>1, <2>2, NetAssumption DEF TypeOK, NetTypeOK, Deeper
    <2> QED BY <2>1, <2>3, <2>4 DEF Buried
  <1>2. CASE ForeignSpend
    <2>1. PICK op \in ForeignOps :
            /\ depth' = [t \in Mined \cup {Foreign(op)} |-> IF t \in Mined THEN depth[t] ELSE 1]
            /\ reorgs' = reorgs
      BY <1>2 DEF ForeignSpend
    <2>2. ASSUME NEW t \in Mined PROVE t \in Mined' /\ depth'[t] = depth[t]
      BY <2>1 DEF Mined
    <2> QED BY <2>1, <2>2 DEF Buried
  <1>3. CASE DisconnectBlock
    BY <1>3 DEF DisconnectBlock, TypeOK, NetTypeOK
  <1>4. CASE UNCHANGED <<depth, reorgs>>
    BY <1>4 DEF Buried, Mined
  <1>5. ASSUME NEW r \in Claims, Handler(r) PROVE UNCHANGED <<depth, reorgs>>
    BY <1>5 DEF Handler, Refuse, ReplayKey, ReplayEntitlement, Admit, CapReached, NoCoins, CreateClaim,
       LoseEntitlement, RetryPick, LedgerFailure, KeepWorld, netVars
  <1>6. ASSUME NEW a \in Actors, Pass(a) PROVE UNCHANGED <<depth, reorgs>>
    BY <1>6 DEF Pass, Enter, Sign, SignRefused, SignFails, SignUnsafe, ReconcileSeen, ReconcileHold,
       ReconcileAbsent, ReconcileExhausted, Watch, Transmit, BroadcastSeen, BroadcastAmbiguous,
       BroadcastMismatch, NotAuthoritative, GatherConfirmations, GatherMempool, ApplyVerdict,
       ApplyAbsent, ReorgQuarantine, ReorgResolve, ConfirmedHeld, KeepWorld, netVars
  <1> QED BY <1>1, <1>2, <1>3, <1>4, <1>5, <1>6 DEF Next, Network, NetNext, Evict, Recover, Crash,
       KeepWorld, netVars, vars

(* The invariant's parts.                                                  *)
LEMMA NetStaysClean == TypeOK /\ OnceInv /\ NetClean /\ BytesSpend /\ [Next]_vars => NetClean'
  <1> SUFFICES ASSUME TypeOK, OnceInv, NetClean, BytesSpend, [Next]_vars PROVE NetClean'
    OBVIOUS
  <1>1. CASE MineBlock
    BY <1>1 DEF MineBlock, NetClean, Mined
  <1>2. CASE DisconnectBlock
    BY <1>2 DEF DisconnectBlock, NetClean, Mined
  <1>3. CASE ForeignSpend
    <2>1. PICK op \in ForeignOps :
            /\ depth' = [t \in Mined \cup {Foreign(op)} |-> IF t \in Mined THEN depth[t] ELSE 1]
            /\ mempool' = {t \in mempool : ~Spends(t, op)}
      BY <1>3 DEF ForeignSpend
    <2>2. Spends(Foreign(op), op)
      BY DEF Spends, Foreign
    <2>3. Mined' = Mined \cup {Foreign(op)}
      BY <2>1 DEF Mined
    <2> QED BY <2>1, <2>2, <2>3 DEF NetClean
  <1>4. ASSUME NEW a \in Actors, Transmit(a) PROVE NetClean'
    <2>0. depth' = depth
      BY <1>4 DEF Transmit
    <2>1. \/ mempool' = mempool
          \/ tx[a] # None /\ Acceptable(tx[a]) /\ mempool' = mempool \cup {tx[a]}
      BY <1>4 DEF Transmit
    <2>2. cl[a] \in Claims /\ tx[a] = rawTx[cl[a]]
      BY <1>4 DEF Transmit, TypeOK, ActorTypeOK, Inside, PastSigning, OnceInv, PassesCarryTheBytes
    <2>3. tx[a] # None => tx[a].ins # {}
      BY <2>2 DEF BytesSpend
    <2>4. tx[a] # None /\ Acceptable(tx[a]) => tx[a] \notin Mined
      BY <2>3 DEF Acceptable, Unspent, UnspentInChain, Spends, NetClean
    <2> QED BY <2>0, <2>1, <2>4 DEF NetClean, Mined
  <1>5. CASE UNCHANGED <<mempool, depth>>
    BY <1>5 DEF NetClean, Mined
  <1>6. CASE Evict
    BY <1>6 DEF Evict, NetClean, Mined
  <1>7. ASSUME NEW r \in Claims, Handler(r) PROVE UNCHANGED <<mempool, depth>>
    BY <1>7 DEF Handler, Refuse, ReplayKey, ReplayEntitlement, Admit, CapReached, NoCoins, CreateClaim,
       LoseEntitlement, RetryPick, LedgerFailure, KeepWorld, netVars
  <1>8. ASSUME NEW a \in Actors, Pass(a), ~Transmit(a) PROVE UNCHANGED <<mempool, depth>>
    BY <1>8 DEF Pass, Enter, Sign, SignRefused, SignFails, SignUnsafe, ReconcileSeen, ReconcileHold,
       ReconcileAbsent, ReconcileExhausted, Watch, BroadcastSeen, BroadcastAmbiguous,
       BroadcastMismatch, NotAuthoritative, GatherConfirmations, GatherMempool, ApplyVerdict,
       ApplyAbsent, ReorgQuarantine, ReorgResolve, ConfirmedHeld, KeepWorld, netVars
  <1> QED BY <1>1, <1>2, <1>3, <1>4, <1>5, <1>6, <1>7, <1>8
          DEF Next, Network, NetNext, Recover, Crash, KeepWorld, netVars, vars

LEMMA BytesStillSpend ==
  TypeOK /\ OnceInv /\ CoinInv /\ BytesSpend /\ [Next]_vars => BytesSpend'
  <1> SUFFICES ASSUME TypeOK, OnceInv, CoinInv, BytesSpend, [Next]_vars PROVE BytesSpend'
    OBVIOUS
  <1>1. CASE rawTx' = rawTx
    BY <1>1 DEF BytesSpend
  <1>2. ASSUME NEW a \in Actors, Sign(a) PROVE BytesSpend'
    BY <1>2, SignatureIs DEF BytesSpend, TypeOK, LedgerTypeOK
  <1> QED BY <1>1, <1>2, WhoWrites, InsertIs DEF RowsQuiet, Concludes

LEMMA ReadersHoldTheRow ==
  TypeOK /\ OnceInv /\ CoinInv /\ ReadsRow /\ [Next]_vars => ReadsRow'
  <1> SUFFICES ASSUME TypeOK, OnceInv, CoinInv, ReadsRow, [Next]_vars, NEW a \in Actors, pc'[a] \in OwnNodeAt
               PROVE  res'[a] = reserved'[cl'[a]]
    BY DEF ReadsRow
  <1>0. OwnNodeAt \subseteq Inside /\ OwnNodeAt \subseteq PastSigning /\ OwnNodeAt \cap Parked = {}
    BY DEF OwnNodeAt, Inside, PastSigning, Parked
  <1>1. CASE UNCHANGED Locals(a)
    <2>1. cl[a] \in Claims /\ state[cl[a]] \notin Unsigned /\ res[a] = reserved[cl[a]]
      BY <1>0, <1>1 DEF Locals, TypeOK, ActorTypeOK, OnceInv, PassesCarryTheBytes, ReadsRow
    <2> QED BY <1>1, <2>1, RowsStill DEF Locals
  <1>2. CASE Stays(a)
    <2>1. CASE ProcessClaim(a, cl[a])
      BY <1>0, <1>2, <2>1, ProcessMoves, StaysMoves DEF OwnNodeAt
    <2>2. CASE Enter(a) /\ ~ProcessClaim(a, cl[a])
      BY <2>2 DEF Enter, ledgerVars, TypeOK, ActorTypeOK
    <2>3. CASE GatherConfirmations(a) \/ GatherMempool(a)
      BY <2>3 DEF GatherConfirmations, GatherMempool, OwnNodeAt, ReadsRow, ledgerVars
    <2>4. CASE Sign(a) \/ Transmit(a) \/ ReconcileAbsent(a)
      <3>1. pc'[a] \in Parked \cup {"recon", "accepted", "refused", "send"}
        BY <2>4, FinishMoves DEF Sign, Transmit, ReconcileAbsent, Await, Goto, TypeOK, ActorTypeOK
      <3> QED BY <1>0, <3>1 DEF OwnNodeAt
    <2> QED BY <1>2, <2>1, <2>2, <2>3, <2>4 DEF Stays, ApplyAbsent
  <1>3. Crash => pc'[a] \in Parked
    BY DEF Crash, Parked
  <1> QED BY <1>0, <1>1, <1>2, <1>3, WhoMoves DEF Moves

\* What the apply step concludes is what the pass has read of the chain.
LEMMA VerdictIsTrue ==
  ASSUME TypeOK, OnceInv, TruthInv, reorgs = 0, NEW a \in Actors, ApplyVerdict(a),
         NEW c \in Claims, c = cl[a], state'[c] # state[c]
  PROVE  ClaimTrue(c)'
  <1>1. /\ pc[a] = "coins" /\ UNCHANGED <<rawTx, reserved, depth>>
    BY DEF ApplyVerdict, KeepWorld, netVars, TypeOK, ActorTypeOK, Inside
  <1>2. tx[a] = rawTx[c] /\ res[a] = reserved[c] /\ ReadTrue(a)
    BY <1>1 DEF OnceInv, PassesCarryTheBytes, PastSigning, Inside, TruthInv, ReadsRow, OwnNodeAt
  <1>3. PICK unspent \in SUBSET res[a], other \in BOOLEAN :
          /\ CoinReadings(a, unspent, other)
          /\ \/ /\ Classify(a, unspent, other) = "CONFIRMED"
                /\ ApplyTerminal(a, cl[a], "CONFIRMED", "retired-confirmed")
             \/ /\ Classify(a, unspent, other) = "CONFLICTED"
                /\ ApplyTerminal(a, cl[a], "CONFLICTED", "conflicted-retired")
             \/ /\ Classify(a, unspent, other) \in {"SEEN", "UNCERTAIN"}
                /\ Transition(cl[a], Classify(a, unspent, other))
    BY DEF ApplyVerdict
  <1>4. CASE Classify(a, unspent, other) = "CONFIRMED"
    <2>1. facts[a].conf >= MinRetireConf
      BY <1>4 DEF Classify
    <2>2. facts[a].conf \in Nat /\ MinRetireConf \in Nat \ {0}
      BY FaucetAssumption DEF TypeOK, ActorTypeOK
    <2>3. tx[a] \in Mined /\ depth[tx[a]] >= facts[a].conf /\ depth[tx[a]] \in Nat
      BY <1>1, <1>2, <2>1, <2>2, NetAssumption DEF ReadTrue, Buried, TypeOK, NetTypeOK
    <2>4. Buried(rawTx[c], MinRetireConf)'
      BY <1>1, <1>2, <2>1, <2>2, <2>3 DEF Buried, Mined
    <2>5. state'[c] = "CONFIRMED"
      BY <1>1, <1>3, <1>4 DEF ApplyTerminal, TypeOK, LedgerTypeOK
    <2> QED BY <1>1, <2>4, <2>5, FaucetAssumption DEF ClaimTrue
  <1>5. CASE Classify(a, unspent, other) = "CONFLICTED"
    <2>1. other
      BY <1>5 DEF Classify
    <2>2. \E t \in Mined : t # tx[a] /\ t.ins \cap res[a] # {}
      BY <1>3, <2>1 DEF CoinReadings
    <2>3. state'[c] = "CONFLICTED"
      BY <1>1, <1>3, <1>5 DEF ApplyTerminal, TypeOK, LedgerTypeOK
    <2> QED BY <1>1, <1>2, <2>2, <2>3 DEF ClaimTrue, Mined
  <1>6. CASE Classify(a, unspent, other) \in {"SEEN", "UNCERTAIN"}
    <2>1. state'[c] \in {"SEEN", "UNCERTAIN"}
      BY <1>1, <1>3, <1>6 DEF Transition, TypeOK, LedgerTypeOK
    <2> QED BY <2>1 DEF ClaimTrue
  <1> QED BY <1>3, <1>4, <1>5, <1>6

LEMMA ClaimsStayTrue ==
  ASSUME TypeOK, OnceInv, CoinInv, TruthInv, [Next]_vars, reorgs' = 0, NEW c \in Claims
  PROVE  ClaimTrue(c)'
  <1>0. /\ reorgs = 0 /\ ClaimTrue(c)
        /\ \A t, n : n \in Nat /\ Buried(t, n) => Buried(t, n)'
    BY ChainGrows DEF TruthInv
  <1>1. CASE state'[c] = state[c]
    <2>1. CASE state[c] \in Verdicts
      <3>1. rawTx'[c] = rawTx[c] /\ reserved'[c] = reserved[c]
        BY <2>1, RowsStill DEF Verdicts, Unsigned
      <3>2. MinRetireConf \in Nat
        BY FaucetAssumption
      <3>3. \A t \in Mined : t \in Mined'
        <4>1. \A t \in Mined : depth[t] >= 0
          BY NetAssumption DEF TypeOK, NetTypeOK
        <4> QED BY <1>0, <4>1 DEF Buried
      <3> QED BY <1>0, <1>1, <3>1, <3>2, <3>3 DEF ClaimTrue
    <2> QED BY <1>1, <2>1 DEF ClaimTrue, Verdicts
  <1>2. CASE state'[c] # state[c]
    <2>1. ASSUME NEW r \in Claims, CreateClaim(r) PROVE ClaimTrue(c)'
      BY <1>2, <2>1, InsertIs DEF ClaimTrue, TypeOK, LedgerTypeOK
    <2>2. ASSUME NEW a \in Actors, Sign(a) PROVE ClaimTrue(c)'
      BY <1>2, <2>2, SignatureIs DEF ClaimTrue, TypeOK, LedgerTypeOK
    <2>3. ASSUME NEW a \in Actors, NEW to \in States, Concludes(a, to) PROVE ClaimTrue(c)'
      <3>1. c = cl[a] /\ state'[c] = to
        BY <1>2, <2>3 DEF Concludes, TypeOK, LedgerTypeOK
      <3>2. CASE to \in Verdicts
        BY <1>0, <1>2, <2>3, <3>1, <3>2, VerdictIsTrue DEF Concludes
      <3> QED BY <3>1, <3>2 DEF ClaimTrue, Verdicts
    <2> QED BY <1>2, <2>1, <2>2, <2>3, WhoWrites DEF RowsQuiet
  <1> QED BY <1>1, <1>2

LEMMA ReadingsStayTrue ==
  ASSUME TypeOK, OnceInv, TruthInv, [Next]_vars, reorgs' = 0, NEW a \in Actors
  PROVE  ReadTrue(a)'
  <1>0. /\ reorgs = 0 /\ ReadTrue(a)
        /\ \A t, n : n \in Nat /\ Buried(t, n) => Buried(t, n)'
    BY ChainGrows DEF TruthInv
  <1>1. CASE UNCHANGED Locals(a)
    BY <1>0, <1>1 DEF Locals, ReadTrue, TypeOK, ActorTypeOK
  <1>2. CASE GatherConfirmations(a)
    <2>1. PICK n \in {0} \cup {depth[t] : t \in Mined \cap {tx[a]}} :
            facts' = [facts EXCEPT ![a] = [conf |-> n, pool |-> FALSE]]
      BY <1>2 DEF GatherConfirmations
    <2>2. facts'[a].conf = n /\ tx' = tx /\ depth' = depth
      BY <1>2, <2>1 DEF GatherConfirmations, KeepWorld, netVars, TypeOK, ActorTypeOK
    <2>3. n >= 1 => tx[a] \in Mined /\ depth[tx[a]] = n
      OBVIOUS
    <2>4. n \in Nat
      BY NetAssumption DEF TypeOK, NetTypeOK
    <2> QED BY <2>2, <2>3, <2>4 DEF ReadTrue, Buried, Mined
  <1>3. CASE GatherMempool(a)
    <2>1. PICK b \in BOOLEAN : facts' = [facts EXCEPT ![a].pool = b]
      BY <1>3 DEF GatherMempool
    <2>2. facts'[a].conf = facts[a].conf /\ tx' = tx /\ depth' = depth /\ pc[a] = "pool"
      BY <1>3, <2>1 DEF GatherMempool, KeepWorld, netVars, TypeOK, ActorTypeOK
    <2> QED BY <1>0, <2>2 DEF ReadTrue, Buried, Mined
  <1>4. CASE Stays(a) /\ ~GatherConfirmations(a) /\ ~GatherMempool(a)
    <2>1. pc'[a] \notin {"pool", "coins"}
      <3>1. CASE ProcessClaim(a, cl[a])
        BY <1>4, <3>1, ProcessMoves, StaysMoves DEF Parked
      <3>2. CASE Enter(a) /\ ~ProcessClaim(a, cl[a])
        BY <3>2 DEF Enter, Goto, TypeOK, ActorTypeOK
      <3>3. CASE Sign(a) \/ Transmit(a) \/ ReconcileAbsent(a)
        BY <3>3, FinishMoves DEF Sign, Transmit, ReconcileAbsent, Await, Goto, TypeOK, ActorTypeOK, Parked
      <3> QED BY <1>4, <3>1, <3>2, <3>3 DEF Stays, ApplyAbsent
    <2> QED BY <2>1 DEF ReadTrue
  <1>5. CASE pc'[a] \in Parked
    BY <1>5 DEF ReadTrue, Parked
  <1>6. Crash => pc'[a] \in Parked
    BY DEF Crash, Parked
  <1> QED BY <1>1, <1>2, <1>3, <1>4, <1>5, <1>6, WhoMoves DEF Moves

LEMMA TruthInit == Init => TruthInv
  BY DEF Init, TruthInv, NetClean, BytesSpend, ReadsRow, ClaimTrue, ReadTrue, LedgerInit, NetInit,
         Mined, OwnNodeAt

LEMMA TruthStep == TypeOK /\ OnceInv /\ CoinInv /\ TruthInv /\ [Next]_vars => TruthInv'
  <1> SUFFICES ASSUME TypeOK, OnceInv, CoinInv, TruthInv, [Next]_vars PROVE TruthInv'
    OBVIOUS
  <1>1. NetClean' /\ BytesSpend' /\ ReadsRow'
    BY NetStaysClean, BytesStillSpend, ReadersHoldTheRow DEF TruthInv
  <1>2. reorgs' = 0 => (\A c \in Claims : ClaimTrue(c)') /\ (\A a \in Actors : ReadTrue(a)')
    BY ClaimsStayTrue, ReadingsStayTrue
  <1> QED BY <1>1, <1>2 DEF TruthInv

\* In every behaviour, whatever the services answer and however many passes
\* overlap: until a block is disconnected, a claim is CONFIRMED only when the
\* bytes of its row are buried as deep as retirement demands, and CONFLICTED
\* only when another mined transaction spends one of its coins
\* (authreconcile.mjs classifyAuthoritative, applyAuthoritative).
THEOREM VerdictsHold == Spec => []VerdictsAreTrue
  <1>1. TruthInv => VerdictsAreTrue
    BY DEF TruthInv, ClaimTrue, Buried, VerdictsAreTrue
  <1> QED BY <1>1, TypeCorrect, OnceInvariant, CoinInvariant, TruthInit, TruthStep, PTL DEF Spec

\* Terminal states are terminal and committed bytes are never rewritten,
\* provided the services are truthful or the per-claim lock is in force: with
\* neither, markFailedSafe, which bypasses the transition matrix
\* (claimflow.mjs), overwrites what another pass of the claim has concluded.
THEOREM TerminalStaysFinal ==
  ASSUME Honest \/ UseLock
  PROVE  Spec => TerminalIsFinal
  <1> DEFINE Final == \A c \in Claims : /\ state[c] \in Terminal => state'[c] = state[c]
                                        /\ rawTx[c] # None => rawTx'[c] = rawTx[c]
  <1>1. TypeOK /\ OnceInv /\ CoinInv /\ LockInv /\ [Next]_vars => [Final]_vars
    <2> SUFFICES ASSUME TypeOK, OnceInv, CoinInv, LockInv, [Next]_vars, NEW c \in Claims
                 PROVE  /\ state[c] \in Terminal => state'[c] = state[c]
                        /\ rawTx[c] # None => rawTx'[c] = rawTx[c]
      OBVIOUS
    <2>1. rawTx[c] # None => rawTx'[c] = rawTx[c]
      BY RowsStill DEF OnceInv, BytesAreFinal
    <2>2. ASSUME state[c] \in Terminal PROVE state'[c] = state[c]
      <3>1. ASSUME NEW r \in Claims, CreateClaim(r) PROVE state'[c] = state[c]
        BY <2>2, <3>1, InsertIs DEF Terminal, TypeOK, LedgerTypeOK
      <3>2. ASSUME NEW a \in Actors, Sign(a) PROVE state'[c] = state[c]
        BY <2>2, <3>2, SignatureIs DEF Terminal, TypeOK, LedgerTypeOK
      <3>3. ASSUME NEW a \in Actors, NEW to \in States, Concludes(a, to), c = cl[a]
            PROVE  state'[c] = state[c]
        <4>1. Accepts(c, to) => to = state[c]
          BY <2>2 DEF Accepts, TransitionAllowed, Terminal
        <4>2. ASSUME SignUnsafe(a) \/ BroadcastMismatch(a) PROVE FALSE
          <5>1. UseLock /\ pc[a] \in {"sign"} \cup Replied
            BY <4>2 DEF SignUnsafe, BroadcastMismatch
          <5> QED BY <2>2, <3>3, <5>1 DEF LockInv, PassLocked, Replied, Terminal
        <4> QED BY <3>3, <4>1, <4>2 DEF Concludes, TypeOK, LedgerTypeOK
      <3>4. ASSUME NEW a \in Actors, NEW to \in States, Concludes(a, to), c # cl[a]
            PROVE  state'[c] = state[c]
        BY <3>4 DEF Concludes, TypeOK, LedgerTypeOK
      <3> QED BY <3>1, <3>2, <3>3, <3>4, WhoWrites DEF RowsQuiet
    <2> QED BY <2>1, <2>2
  <1>2. Spec => [](TypeOK /\ OnceInv /\ CoinInv /\ LockInv)
    BY TypeCorrect, OnceInvariant, CoinInvariant, LockInit, LockStep, PTL DEF Spec
  <1> QED BY <1>1, <1>2, PTL DEF Spec, TerminalIsFinal

-------------------------------------------------------------------------------
(* What the network shows.  With truthful services, whoever has seen a     *)
(* payment has seen one that left.                                         *)
OursWereSent == \A t \in mempool \cup Mined : t \in ClaimTx => t \in sent

SightingSent(a) ==
  /\ pc[a] \in OwnNodeAt => tx[a] # None
  /\ pc[a] = "accepted" => tx[a] \in sent
  /\ pc[a] \in {"pool", "coins"} /\ (facts[a].conf >= 1 \/ facts[a].pool) => tx[a] \in sent

SentInv == OursWereSent /\ SeenWasSent /\ \A a \in Actors : SightingSent(a)

LEMMA SentGrows == TypeOK /\ OursWereSent /\ [Next]_vars => sent \subseteq sent' /\ OursWereSent'
  <1> SUFFICES ASSUME TypeOK, OursWereSent, [Next]_vars PROVE sent \subseteq sent' /\ OursWereSent'
    OBVIOUS
  <1>1. CASE MineBlock \/ DisconnectBlock
    BY <1>1 DEF MineBlock, DisconnectBlock, OursWereSent, Mined
  <1>2. CASE ForeignSpend
    <2>1. PICK op \in ForeignOps :
            /\ depth' = [t \in Mined \cup {Foreign(op)} |-> IF t \in Mined THEN depth[t] ELSE 1]
            /\ mempool' = {t \in mempool : ~Spends(t, op)}
      BY <1>2 DEF ForeignSpend
    <2>2. Foreign(op) \notin ClaimTx
      BY LedgerAssumption DEF Foreign, ClaimTx
    <2>3. Mined' = Mined \cup {Foreign(op)} /\ sent' = sent
      BY <1>2, <2>1 DEF Mined, ForeignSpend
    <2> QED BY <2>1, <2>2, <2>3 DEF OursWereSent
  <1>3. ASSUME NEW a \in Actors, Transmit(a) PROVE sent \subseteq sent' /\ OursWereSent'
    <2>0. depth' = depth
      BY <1>3 DEF Transmit
    <2>1. sent' = sent \cup ({tx[a]} \ {None})
      BY <1>3 DEF Transmit
    <2>2. \/ mempool' = mempool
          \/ tx[a] # None /\ mempool' = mempool \cup {tx[a]}
      BY <1>3 DEF Transmit
    <2> QED BY <2>0, <2>1, <2>2 DEF OursWereSent, Mined
  <1>4. CASE Evict
    BY <1>4 DEF Evict, OursWereSent, Mined
  <1>5. CASE UNCHANGED <<sent, mempool, depth>>
    BY <1>5 DEF OursWereSent, Mined
  <1>6. ASSUME NEW r \in Claims, Handler(r) PROVE UNCHANGED <<sent, mempool, depth>>
    BY <1>6 DEF Handler, Refuse, ReplayKey, ReplayEntitlement, Admit, CapReached, NoCoins, CreateClaim,
       LoseEntitlement, RetryPick, LedgerFailure, KeepWorld, netVars
  <1>7. ASSUME NEW a \in Actors, Pass(a), ~Transmit(a) PROVE UNCHANGED <<sent, mempool, depth>>
    BY <1>7 DEF Pass, Enter, Sign, SignRefused, SignFails, SignUnsafe, ReconcileSeen, ReconcileHold,
       ReconcileAbsent, ReconcileExhausted, Watch, BroadcastSeen, BroadcastAmbiguous,
       BroadcastMismatch, NotAuthoritative, GatherConfirmations, GatherMempool, ApplyVerdict,
       ApplyAbsent, ReorgQuarantine, ReorgResolve, ConfirmedHeld, KeepWorld, netVars
  <1> QED BY <1>1, <1>2, <1>3, <1>4, <1>5, <1>6, <1>7
          DEF Next, Network, NetNext, Recover, Crash, KeepWorld, netVars, vars

LEMMA SightingsStaySent ==
  ASSUME TypeOK, OnceInv, SentInv, [Next]_vars, NEW a \in Actors
  PROVE  SightingSent(a)'
  <1>0. SightingSent(a) /\ sent \subseteq sent' /\ OursWereSent
    BY SentGrows DEF SentInv
  <1>1. CASE UNCHANGED Locals(a)
    BY <1>0, <1>1 DEF Locals, SightingSent
  <1>2. CASE GatherConfirmations(a) \/ GatherMempool(a)
    <2>1. tx'[a] = tx[a] /\ tx[a] \in ClaimTx /\ pc'[a] \in {"pool", "coins"}
      BY <1>0, <1>2 DEF GatherConfirmations, GatherMempool, SightingSent, OwnNodeAt, Goto, TypeOK, ActorTypeOK
    <2>2. CASE GatherConfirmations(a)
      <3>1. PICK n \in {0} \cup {depth[t] : t \in Mined \cap {tx[a]}} :
              facts' = [facts EXCEPT ![a] = [conf |-> n, pool |-> FALSE]]
        BY <2>2 DEF GatherConfirmations
      <3>2. facts'[a].conf = n /\ ~facts'[a].pool
        BY <3>1 DEF TypeOK, ActorTypeOK
      <3>3. n >= 1 => tx[a] \in Mined
        OBVIOUS
      <3> QED BY <1>0, <2>1, <3>2, <3>3, LedgerAssumption DEF SightingSent, OursWereSent
    <2>3. CASE GatherMempool(a)
      <3>1. PICK b \in BOOLEAN : (b => tx[a] \in mempool) /\ facts' = [facts EXCEPT ![a].pool = b]
        BY <2>3 DEF GatherMempool
      <3>2. facts'[a].conf = facts[a].conf /\ facts'[a].pool = b /\ pc[a] = "pool"
        BY <2>3, <3>1 DEF GatherMempool, TypeOK, ActorTypeOK
      <3> QED BY <1>0, <2>1, <3>1, <3>2, LedgerAssumption DEF SightingSent, OursWereSent
    <2> QED BY <1>2, <2>2, <2>3
  <1>3. CASE Transmit(a)
    <2>1. sent' = sent \cup ({tx[a]} \ {None}) /\ tx' = tx
      BY <1>3 DEF Transmit, Await, KeepLocals
    <2>2. pc'[a] = "refused" \/ (pc'[a] = "accepted" /\ tx[a] # None)
      BY <1>3 DEF Transmit, Await, Goto, TypeOK, ActorTypeOK
    <2> QED BY <2>1, <2>2 DEF SightingSent, OwnNodeAt
  <1>4. CASE Stays(a) /\ ~GatherConfirmations(a) /\ ~GatherMempool(a) /\ ~Transmit(a)
    <2>1. CASE ProcessClaim(a, cl[a])
      BY <1>4, <2>1, ProcessMoves, StaysMoves DEF Parked, SightingSent, OwnNodeAt
    <2>2. CASE Enter(a) /\ ~ProcessClaim(a, cl[a])
      BY <2>2 DEF Enter, Goto, TypeOK, ActorTypeOK, SightingSent, OwnNodeAt
    <2>3. CASE Sign(a) \/ ReconcileAbsent(a)
      <3>1. pc'[a] \in Parked \cup {"recon", "send"}
        BY <2>3, FinishMoves DEF Sign, ReconcileAbsent, Await, Goto, TypeOK, ActorTypeOK
      <3> QED BY <3>1 DEF SightingSent, OwnNodeAt, Parked
    <2> QED BY <1>4, <2>1, <2>2, <2>3 DEF Stays, ApplyAbsent
  <1>5. CASE pc'[a] \in Parked
    BY <1>5 DEF SightingSent, Parked, OwnNodeAt
  <1>6. Crash => pc'[a] \in Parked
    BY DEF Crash, Parked
  <1> QED BY <1>1, <1>2, <1>3, <1>4, <1>5, <1>6, WhoMoves DEF Moves

\* A pass that reports its claim seen or confirmed holds bytes that left.
LEMMA ConcludedWasSent ==
  ASSUME Honest, TypeOK, OnceInv, SentInv, NEW a \in Actors, NEW to \in {"SEEN", "CONFIRMED"},
         Concludes(a, to), state'[cl[a]] # state[cl[a]]
  PROVE  rawTx[cl[a]] \in sent
  <1>0. /\ cl[a] \in Claims /\ tx[a] \in ClaimTx \cup {None}
        /\ OursWereSent /\ SightingSent(a)
    BY DEF Concludes, TypeOK, ActorTypeOK, SentInv
  <1>1. CASE ReconcileSeen(a)
    <2>1. tx[a] # None /\ tx[a] \in mempool \cup Mined
      BY <1>1 DEF ReconcileSeen, Answers, Truth
    <2> QED BY <1>0, <1>1, <2>1
            DEF OursWereSent, ReconcileSeen, OnceInv, PassesCarryTheBytes, PastSigning, Inside
  <1>2. CASE BroadcastSeen(a)
    BY <1>0, <1>2 DEF BroadcastSeen, SightingSent, OnceInv, PassesCarryTheBytes, PastSigning, Inside
  <1>3. CASE ApplyVerdict(a)
    <2>1. pc[a] = "coins" /\ tx[a] = rawTx[cl[a]] /\ facts[a].conf \in Nat /\ MinRetireConf \in Nat \ {0}
      BY <1>3, FaucetAssumption
         DEF ApplyVerdict, OnceInv, PassesCarryTheBytes, PastSigning, Inside, TypeOK, ActorTypeOK
    <2>2. \E unspent \in SUBSET res[a], other \in BOOLEAN :
            \/ Classify(a, unspent, other) = "CONFIRMED"
            \/ state' = [state EXCEPT ![cl[a]] = "CONFLICTED"]
            \/ Classify(a, unspent, other) = "SEEN"
            \/ state' = [state EXCEPT ![cl[a]] = "UNCERTAIN"]
      BY <1>3 DEF ApplyVerdict, ApplyTerminal, Transition
    <2>3. state'[cl[a]] = to
      BY <1>0 DEF Concludes, TypeOK, LedgerTypeOK
    <2>4. \E unspent \in SUBSET res[a], other \in BOOLEAN :
            Classify(a, unspent, other) \in {"CONFIRMED", "SEEN"}
      BY <1>0, <2>2, <2>3 DEF TypeOK, LedgerTypeOK
    <2>5. facts[a].conf >= 1 \/ facts[a].pool
      BY <2>1, <2>4 DEF Classify
    <2> QED BY <1>0, <2>1, <2>5 DEF SightingSent
  <1> QED BY <1>1, <1>2, <1>3 DEF Concludes, Verdicts

LEMMA SentInit == Init => SentInv
  BY DEF Init, SentInv, OursWereSent, SeenWasSent, SightingSent, LedgerInit, NetInit, Mined, OwnNodeAt

LEMMA SentStep == Honest /\ TypeOK /\ OnceInv /\ CoinInv /\ SentInv /\ [Next]_vars => SentInv'
  <1> SUFFICES ASSUME Honest, TypeOK, OnceInv, CoinInv, SentInv, [Next]_vars PROVE SentInv'
    OBVIOUS
  <1>1. OursWereSent' /\ sent \subseteq sent'
    BY SentGrows DEF SentInv
  <1>2. ASSUME NEW c \in Claims, state'[c] \in {"SEEN", "CONFIRMED"} PROVE rawTx'[c] \in sent'
    <2>1. CASE state'[c] = state[c]
      BY <1>1, <1>2, <2>1, RowsStill DEF SentInv, SeenWasSent, Unsigned
    <2>2. CASE state'[c] # state[c]
      <3>1. ASSUME NEW r \in Claims, CreateClaim(r) PROVE FALSE
        BY <1>2, <2>2, <3>1, InsertIs DEF TypeOK, LedgerTypeOK
      <3>2. ASSUME NEW a \in Actors, Sign(a) PROVE FALSE
        BY <1>2, <2>2, <3>2, SignatureIs DEF TypeOK, LedgerTypeOK
      <3>3. ASSUME NEW a \in Actors, NEW to \in States, Concludes(a, to)
            PROVE  rawTx'[c] \in sent'
        <4>1. c = cl[a] /\ state'[c] = to /\ rawTx' = rawTx
          BY <2>2, <3>3 DEF Concludes, TypeOK, LedgerTypeOK
        <4>2. rawTx[c] \in sent
          BY <1>2, <2>2, <3>3, <4>1, ConcludedWasSent
        <4> QED BY <1>1, <4>1, <4>2
      <3> QED BY <2>2, <3>1, <3>2, <3>3, WhoWrites DEF RowsQuiet
    <2> QED BY <2>1, <2>2
  <1>3. \A a \in Actors : SightingSent(a)'
    BY SightingsStaySent
  <1> QED BY <1>1, <1>2, <1>3 DEF SentInv, SeenWasSent

\* With a truthful explorer, signer and broadcaster, the success a client is
\* shown is real: a claim that is SEEN or CONFIRMED is one whose stored bytes
\* were handed to the network (claimflow.mjs, authreconcile.mjs).
THEOREM SuccessIsReal ==
  ASSUME Honest
  PROVE  Spec => []SeenWasSent
  <1>1. SentInv => SeenWasSent
    BY DEF SentInv
  <1>2. TypeOK /\ OnceInv /\ CoinInv /\ SentInv /\ [Next]_vars => SentInv'
    BY SentStep
  <1> QED BY <1>1, <1>2, TypeCorrect, OnceInvariant, CoinInvariant, SentInit, PTL DEF Spec

-------------------------------------------------------------------------------
\* A reservation ends in the step that writes its guard, and only for a claim
\* that the same step ends: no crash finds a signed input in neither table
\* (ledger.mjs retireToGuard, one transaction).
THEOREM ReleaseIsRetirement == Spec => ReleasedOnlyIntoGuard
  <1> DEFINE Guarded == \A op \in Outpoints :
                          resv[op] # None /\ resv'[op] = None =>
                            LET c == resv[op]
                            IN  /\ state'[c] \in {"CONFIRMED", "CONFLICTED"}
                                /\ op \in reserved[c] => guard'[op] # None
  <1>1. TypeOK /\ OnceInv /\ [Next]_vars => [Guarded]_vars
    <2> SUFFICES ASSUME TypeOK, OnceInv, [Next]_vars, NEW op \in Outpoints,
                        resv[op] # None, resv'[op] = None
                 PROVE  /\ state'[resv[op]] \in {"CONFIRMED", "CONFLICTED"}
                        /\ op \in reserved[resv[op]] => guard'[op] # None
      OBVIOUS
    <2>1. ASSUME NEW r \in Claims, CreateClaim(r) PROVE FALSE
      <3>1. PICK coins \in (SUBSET Outpoints) \ {{}} : InsertClaim(r, coins)
        BY <2>1 DEF CreateClaim
      <3> QED BY <3>1, LedgerAssumption DEF InsertClaim
    <2>2. ASSUME NEW a \in Actors, ApplyVerdict(a)
          PROVE  /\ state'[resv[op]] \in {"CONFIRMED", "CONFLICTED"}
                 /\ op \in reserved[resv[op]] => guard'[op] # None
      <3>1. cl[a] \in Claims
        BY <2>2 DEF ApplyVerdict, TypeOK, ActorTypeOK, Inside
      <3>2. PICK to \in Verdicts, why \in Reasons : ApplyTerminal(a, cl[a], to, why) /\ resv' # resv
        BY <2>2 DEF ApplyVerdict, Verdicts, Reasons
      <3>3. state' = [state EXCEPT ![cl[a]] = to] /\ RetireToGuard(cl[a], why)
        BY <3>2 DEF ApplyTerminal
      <3>4. resv[op] = cl[a]
        BY <3>3 DEF RetireToGuard
      <3>5. op \in reserved[cl[a]] => guard'[op] = [by |-> cl[a], why |-> why]
        BY <3>3 DEF RetireToGuard
      <3>6. [by |-> cl[a], why |-> why] # None
        BY <3>1, LedgerAssumption DEF GuardRow
      <3> QED BY <3>1, <3>3, <3>4, <3>5, <3>6 DEF Verdicts, TypeOK, LedgerTypeOK
    <2>3. CASE UNCHANGED resv
      BY <2>3
    <2>4. ASSUME NEW r \in Claims, Handler(r), ~CreateClaim(r) PROVE UNCHANGED resv
      BY <2>4 DEF Handler, Refuse, ReplayKey, ReplayEntitlement, Admit, CapReached, NoCoins,
         LoseEntitlement, RetryPick, LedgerFailure, ledgerVars
    <2>5. ASSUME NEW a \in Actors, Pass(a), ~ApplyVerdict(a) PROVE UNCHANGED resv
      BY <2>5 DEF Pass, Enter, Sign, SignRefused, SignFails, SignUnsafe, ReconcileSeen, ReconcileHold,
         ReconcileAbsent, ReconcileExhausted, Watch, Transmit, BroadcastSeen, BroadcastAmbiguous,
         BroadcastMismatch, NotAuthoritative, GatherConfirmations, GatherMempool, ApplyAbsent,
         ReorgQuarantine, ReorgResolve, ConfirmedHeld, ledgerVars
    <2> QED BY <2>1, <2>2, <2>3, <2>4, <2>5 DEF Next, Recover, Network, Crash, ledgerVars, vars
  <1> QED BY <1>1, TypeCorrect, OnceInvariant, PTL DEF Spec, ReleasedOnlyIntoGuard
===============================================================================
