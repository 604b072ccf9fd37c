---------------------------- MODULE WalletSession ----------------------------
(***************************************************************************)
(* One open recovery-phrase wallet in one browser page (src/session.js): the*)
(* coins it knows, the window of addresses it asks the node about, the       *)
(* counters it keeps in the browser's storage and its payments, against a    *)
(* node that answers and relays asynchronously (src/nodeapi.js) and a chain  *)
(* that moves meanwhile.  The payments are built by the rules of WalletSpend; *)
(* here a payment is the coins it spends and the change address it pays.     *)
(***************************************************************************)
EXTENDS Integers, FiniteSets, FiniteSetsExt

CONSTANTS
    WinMax,        \* win.max: addresses per chain the window never exceeds
    Range0,       \* win.range: addresses per chain asked about at first
    Margin,       \* win.margin: a coin this close to the end widens the window
    Step,         \* win.step: by how much
    Inherited,    \* coins the wallet already has on the chain when it is opened
    None,
    \* Bounds of the model.
    MaxSends,     \* payments built
    MaxIncoming,  \* payments received
    MaxHanded,    \* highest address handed out with the "next address" button
    MaxFaults     \* lost replies to a broadcast, failed scans and reloads of the page

Chains == {"recv", "change"}

(* A coin is an unspent output: the chain and index of the address it is on  *)
(* and the transaction that made it: 0 for one inherited, a payment of this  *)
(* wallet, or, beyond those, a payment to it.                                *)
Coins == Chains \X (0 .. WinMax) \X (0 .. MaxSends + MaxIncoming)
ChainOf(c) == c[1]
IndexOf(c) == c[2]
MakerOf(c) == c[3]

Payments == [id : 1 .. MaxSends, inputs : SUBSET Coins, change : (0 .. WinMax) \cup {None}]

ASSUME WindowAssumption ==
    /\ WinMax \in Nat /\ Range0 \in 1 .. WinMax /\ Margin \in Nat /\ Step \in Nat \ {0}
    /\ {MaxSends, MaxIncoming, MaxHanded, MaxFaults} \subseteq Nat
    /\ Inherited \subseteq Chains \X (0 .. WinMax - 1) \X {0}
    /\ None \notin (0 .. WinMax) \cup Payments

VARIABLES
    held, pool, mined,              \* the node: unspent outputs, mempool, payments mined
    coins, marked, scanned,         \* this.coins, those being spent, this.scanned
    range, meta, stored,            \* this.range, this.meta, and its copy in the storage
    fresh,                          \* this.spentLocal: coins spent less than the grace period ago
    sent,                           \* this.sent, with the status last shown
    phase, answer,                  \* the refresh under way: the range asked about, then the node's answer
    built, wire,                    \* the prepared payment, and where its broadcast is
    nextId, incoming, faults,
    seen, told                      \* history: addresses seen used; payments the node confirmed taking

nodeVars == <<held, pool, mined, incoming>>
coinVars == <<coins, marked, scanned, sent>>
sendVars == <<built, wire, nextId>>
askVars  == <<phase, answer>>
idxVars == <<range, meta, stored>>
vars == <<held, pool, mined, coins, marked, scanned, range, meta, stored, fresh, sent,
          phase, answer, built, wire, nextId, incoming, faults, seen, told>>

NoCounters == [ch \in Chains |-> 0]
Lesser(i, j) == IF i < j THEN i ELSE j
Greater(i, j) == IF i > j THEN i ELSE j

Init ==
    /\ held = Inherited /\ pool = {} /\ mined = {}
    /\ coins = {} /\ marked = {} /\ scanned = FALSE
    /\ range = Range0 /\ meta = NoCounters /\ stored = NoCounters
    /\ fresh = {} /\ sent = {}
    /\ phase = "idle" /\ answer = None
    /\ built = None /\ wire = "none" /\ nextId = 1
    /\ incoming = 0 /\ faults = 0
    /\ seen = {} /\ told = {}

(***************************************************************************)
(* Counters.                                                               *)
(***************************************************************************)
(* Session._hi: the highest index of a chain the known coins sit on, or -1. *)
Hi(known, ch) == Max({-1} \cup {IndexOf(c) : c \in {k \in known : ChainOf(k) = ch}})

\* Mutant: the counter of handed-out addresses is left out.
OfferedByCoins(ch) == Hi(coins, ch) + 1

(* receiveIndex and changeIndex: the address offered next. *)
Offered(ch) == Greater(meta[ch], Hi(coins, ch) + 1)

(* nextReceive: the user handed the current address out. *)
NextReceive ==
    /\ Offered("recv") < MaxHanded
    /\ meta' = [meta EXCEPT !["recv"] = Lesser(WinMax - 1, Offered("recv") + 1)]
    /\ stored' = meta'
    /\ UNCHANGED <<nodeVars, coinVars, sendVars, askVars, fresh, range, faults, seen, told>>

(***************************************************************************)
(* Refresh: one scan after another until no coin is near the window's end.  *)
(***************************************************************************)
(* The entries of the window, and POST /scan. *)
Ask ==
    /\ phase = "idle"
    /\ phase' = "asked" /\ answer' = range
    /\ UNCHANGED <<nodeVars, coinVars, sendVars, fresh, idxVars, faults, seen, told>>

InWindow(c) == IndexOf(c) < answer
BeingSpent == UNION {p.inputs : p \in pool}

(* The poll that finds the job done: the coins of the window asked about, each *)
(* with the mempool's word on it at that moment.                            *)
Answer ==
    /\ phase = "asked"
    /\ phase' = "answered"
    /\ answer' = [coins |-> {c \in held : InWindow(c)},
                  marked |-> {c \in held : InWindow(c)} \cap BeingSpent]
    /\ UNCHANGED <<nodeVars, coinVars, sendVars, fresh, idxVars, faults, seen, told>>

(* The scan fails, the node cannot be reached or 40 minutes pass. *)
AskFails ==
    /\ phase \in {"asked", "answered"} /\ faults < MaxFaults
    /\ phase' = "idle" /\ answer' = None
    /\ faults' = faults + 1
    /\ UNCHANGED <<nodeVars, coinVars, sendVars, fresh, idxVars, seen, told>>

\* Mutant: the node's word is taken for every coin.
KeptNone(found) == {}

(* _applyLocalSpends: forget what the node no longer lists or what is past   *)
(* the grace period, and mark the rest.                                      *)
KeptSpends(found) == fresh \cap found

(* _rememberUsed. *)
Remembered(found) ==
    [ch \in Chains |-> Greater(meta[ch], Lesser(WinMax - 1, Hi(found, ch) + 1))]

\* Mutant: only coins widen the window.
NearEndByCoins(found, counters) ==
    range < WinMax /\ \E c \in found : IndexOf(c) >= range - Margin

NearEnd(found, counters) ==
    /\ range < WinMax
    /\ \/ \E c \in found : IndexOf(c) >= range - Margin
       \/ \E ch \in Chains : counters[ch] >= range - Margin

\* Mutant: a coin still listed means the payment was dropped.
StatusByListing(inputs, found, spending) == IF inputs \cap found = {} THEN "confirmed" ELSE "dropped"

(* _reconcileSent. *)
StatusOf(inputs, found, spending) ==
    IF inputs \cap found = {} THEN "confirmed"
    ELSE IF (inputs \cap found) \ spending # {} THEN "dropped" ELSE "pending"

(* The answer is taken in; either the window grows and the node is asked     *)
(* again, or the payments are reconciled and the refresh ends.               *)
TakeAnswer ==
    /\ phase = "answered"
    /\ LET found    == answer.coins
           spending == answer.marked \cup KeptSpends(found)
           counters == Remembered(found)
           grow     == NearEnd(found, counters)
       IN  /\ coins' = found /\ marked' = spending /\ scanned' = TRUE
           /\ fresh' = KeptSpends(found)
           /\ meta' = counters
           /\ stored' = IF counters # meta THEN counters ELSE stored
           /\ seen' = seen \cup {<<ChainOf(c), IndexOf(c)>> : c \in found}
           /\ range' = IF grow THEN Lesser(WinMax, range + Step) ELSE range
           /\ phase' = IF grow THEN "asked" ELSE "idle"
           /\ answer' = IF grow THEN range' ELSE None
           /\ sent' = IF grow THEN sent
                      ELSE {[s EXCEPT !.status = StatusOf(s.inputs, found, spending)] : s \in sent}
    /\ UNCHANGED <<nodeVars, sendVars, told, faults>>

\* Mutant: the window is not held at win.max.
ScanDeeperUnbounded ==
    /\ range < WinMax
    /\ range' = range + 2 * Step
    /\ UNCHANGED <<nodeVars, coinVars, sendVars, askVars, fresh, meta, stored, faults, seen, told>>

(* scanDeeper. *)
ScanDeeper ==
    /\ range < WinMax
    /\ range' = Lesser(WinMax, range + 2 * Step)
    /\ UNCHANGED <<nodeVars, coinVars, sendVars, askVars, fresh, meta, stored, faults, seen, told>>

(* 120 s after a broadcast its coins are no longer kept back.  An answer is   *)
(* not that long on its way (each is one short GET).                         *)
GraceEnds ==
    /\ fresh # {} /\ phase # "answered"
    /\ fresh' = {}
    /\ UNCHANGED <<nodeVars, coinVars, sendVars, askVars, idxVars, faults, seen, told>>

(***************************************************************************)
(* Sending.                                                                *)
(***************************************************************************)
(* _pick and prepare: any selection of spendable coins, or all of them. *)
Prepare ==
    /\ built = None /\ scanned /\ nextId <= MaxSends
    /\ \E ins \in (SUBSET (coins \ marked)) \ {{}}, change \in {Offered("change"), None} :
          built' = [id |-> nextId, inputs |-> ins, change |-> change]
    /\ nextId' = nextId + 1 /\ wire' = "none"
    /\ UNCHANGED <<nodeVars, coinVars, askVars, fresh, idxVars, faults, seen, told>>

(* The user closes the confirmation. *)
Discard ==
    /\ built # None /\ wire = "none"
    /\ built' = None
    /\ UNCHANGED <<nodeVars, coinVars, askVars, fresh, idxVars, wire, nextId, faults, seen, told>>

(* api.broadcast reaches the node.  A payment signals RBF: one that spends a  *)
(* coin the mempool already spends takes the place of the other.             *)
Send ==
    /\ built # None /\ wire = "none"
    /\ IF built.inputs \subseteq held
         THEN /\ wire' = "taken"
              /\ pool' = {p \in pool : p.inputs \cap built.inputs = {}} \cup {built}
         ELSE wire' = "refused" /\ pool' = pool
    /\ UNCHANGED <<held, mined, incoming, coinVars, askVars, fresh, idxVars, built, nextId, faults, seen, told>>

(* broadcast() resumes with the reply. *)
Replied ==
    /\ wire = "taken"
    /\ fresh' = fresh \cup built.inputs
    /\ marked' = marked \cup (built.inputs \cap coins)
    /\ meta' = IF built.change = None THEN meta
               ELSE [meta EXCEPT !["change"] = Lesser(WinMax - 1, built.change + 1)]
    /\ stored' = IF built.change = None THEN stored ELSE meta'
    /\ sent' = sent \cup {[id |-> built.id, inputs |-> built.inputs, status |-> "pending"]}
    /\ told' = told \cup {built}
    /\ built' = None /\ wire' = "none"
    /\ UNCHANGED <<nodeVars, coins, scanned, askVars, range, nextId, seen, faults>>

(* broadcast() throws: the node refused, or its reply never came. *)
Threw ==
    /\ \/ wire = "refused" /\ faults' = faults
       \/ wire = "taken" /\ faults < MaxFaults /\ faults' = faults + 1
    /\ built' = None /\ wire' = "none"
    /\ UNCHANGED <<nodeVars, coinVars, askVars, fresh, idxVars, nextId, seen, told>>

(* The page is reloaded and the wallet opened again: the counters come back   *)
(* from the storage, everything else is gone.                                *)
Reload ==
    /\ faults < MaxFaults
    /\ faults' = faults + 1
    /\ meta' = [ch \in Chains |-> IF stored[ch] < WinMax THEN stored[ch] ELSE 0]
    /\ coins' = {} /\ marked' = {} /\ scanned' = FALSE /\ sent' = {}
    /\ fresh' = {} /\ range' = Range0
    /\ phase' = "idle" /\ answer' = None /\ built' = None /\ wire' = "none"
    /\ UNCHANGED <<nodeVars, stored, nextId, seen, told>>

(***************************************************************************)
(* The chain.                                                              *)
(***************************************************************************)
(* Somebody pays an address that was handed out, the one on show included. *)
PaidIn ==
    /\ incoming < MaxIncoming
    /\ incoming' = incoming + 1
    /\ \E i \in 0 .. Offered("recv") :
          held' = held \cup {<<"recv", i, MaxSends + incoming + 1>>}
    /\ UNCHANGED <<pool, mined, coinVars, sendVars, askVars, fresh, idxVars, faults, seen, told>>

Mine ==
    \E p \in pool :
        /\ pool' = pool \ {p} /\ mined' = mined \cup {p.id}
        /\ held' = (held \ p.inputs) \cup
                   (IF p.change = None THEN {} ELSE {<<"change", p.change, p.id>>})
        /\ UNCHANGED <<incoming, coinVars, sendVars, askVars, fresh, idxVars, faults, seen, told>>

Evict ==
    \E p \in pool :
        /\ pool' = pool \ {p}
        /\ UNCHANGED <<held, mined, incoming, coinVars, sendVars, askVars, fresh, idxVars, faults, seen, told>>

Next ==
    \/ Ask \/ Answer \/ AskFails \/ TakeAnswer \/ ScanDeeper \/ GraceEnds \/ NextReceive
    \/ Prepare \/ Discard \/ Send \/ Replied \/ Threw \/ Reload
    \/ PaidIn \/ Mine \/ Evict

Spec == Init /\ [][Next]_vars

(* The page refreshes on a timer, and the node answers. *)
FairSpec == Spec /\ WF_vars(Ask) /\ WF_vars(Answer) /\ WF_vars(TakeAnswer)

(***************************************************************************)
(* Properties.                                                             *)
(***************************************************************************)
TypeOK ==
    /\ held \subseteq Coins /\ pool \subseteq Payments /\ mined \subseteq 1 .. MaxSends
    /\ coins \subseteq Coins /\ marked \subseteq Coins /\ scanned \in BOOLEAN
    /\ range \in 1 .. WinMax
    /\ meta \in [Chains -> 0 .. WinMax] /\ stored \in [Chains -> 0 .. WinMax]
    /\ fresh \subseteq Coins
    /\ sent \subseteq [id : 1 .. MaxSends, inputs : SUBSET Coins,
                       status : {"pending", "confirmed", "dropped"}]
    /\ phase \in {"idle", "asked", "answered"}
    /\ phase = "asked" => answer \in 1 .. WinMax
    /\ phase = "answered" => answer.coins \subseteq Coins /\ answer.marked \subseteq answer.coins
    /\ built \in Payments \cup {None} /\ wire \in {"none", "taken", "refused"}
    /\ nextId \in 1 .. MaxSends + 1 /\ incoming \in 0 .. MaxIncoming /\ faults \in 0 .. MaxFaults
    /\ seen \subseteq Chains \X (0 .. WinMax) /\ told \subseteq Payments

(* "A stale answer can never offer a coin for spending twice" (27-30): while  *)
(* the mempool holds a payment this wallet knows it sent, none of its coins   *)
(* can be picked, whatever answer was on its way when it was sent.           *)
NeverTwiceOffered == \A p \in told \cap pool : p.inputs \cap coins \subseteq marked

(* Two payments the node confirmed taking never pay change to one address, a  *)
(* reload and a widening window between them included, short of the last ones *)
(* (changeIndex is not clamped to win.max - 1 as p2pkIndex is, 144 and 149).  *)
DistinctChange ==
    \A p, q \in told : p # q /\ p.change # None /\ p.change = q.change => p.change >= WinMax - 1

(* A payment shown as dropped is neither in the mempool nor mined. *)
DroppedIsGone ==
    \A s \in sent : s.status = "dropped" => s.id \notin mined \cup {p.id : p \in pool}

(* Once the wallet has seen a coin on an address it is never offered again     *)
(* (154-156), short of the last one of the window.                           *)
UsedStaysUsed == scanned => \A u \in seen : Offered(u[1]) > u[2] \/ u[2] >= WinMax - 1

(* "A send whose inputs have left the UTXO set is confirmed" (248). *)
ConfirmedIsMined == \A s \in sent : s.status = "confirmed" => s.id \in mined

(* Change goes to an address some scan covers; changeIndex (144) lets it go    *)
(* one past the last, where p2pkIndex (149) stops at win.max - 1.            *)
ChangeIsScanned == \A p \in told : p.change # None => p.change < WinMax

(* A coin paid to an address this wallet handed out is found, however far the  *)
(* button ran ahead of the window, unless it is spent first.                 *)
CoinsAreFound ==
    \A i \in 0 .. MaxHanded, k \in 1 .. MaxIncoming :
        LET c == <<"recv", i, MaxSends + k>>
        IN  c \in held ~> (c \in coins \/ c \notin held)
=============================================================================
