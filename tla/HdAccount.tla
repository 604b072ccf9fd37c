------------------------------ MODULE HdAccount ------------------------------
(***************************************************************************)
(* The testnet wallet's account (src/send.js, src/esplora.js): discovery of   *)
(* every used address from the recovery phrase alone, and a payment built     *)
(* from what one discovery found.  Discoveries run side by side, and each     *)
(* address is asked for at its own moment while payments come and go.        *)
(***************************************************************************)
EXTENDS Integers, FiniteSets, FiniteSetsExt

CONSTANTS
    Discoveries,    \* discoveries: a refresh of the page, a payment being built
    Gap,            \* gap: unused addresses that end a chain (20)
    MaxIndex,       \* bound: highest index paid
    MaxCoins,       \* bound: coins ever made
    MaxDiscoveries  \* bound: discoveries started by a job

Receive == 0
Change == 1
Chains == {Receive, Change}
Addr == Chains \X (0..MaxIndex)

ASSUME GapAssumption == Gap \in Nat \ {0}

VARIABLES
    used,         \* addresses that ever received (the explorer's tx_count)
    unspent,      \* the coins: [at, id]
    made,         \* coins ever made
    offeredUpTo,  \* the highest receive index offered to a payer
    job           \* [Jobs -> where a discovery or payment stands]
accountVars == <<used, unspent, made, offeredUpTo, job>>

IdleJob == [at |-> "idle", chain |-> 0, base |-> 0, was |-> [used |-> {}, coins |-> {}],
            found |-> {}, taken |-> {}, hi |-> <<-1, -1>>, ins |-> {}, runs |-> 0]
Hi(j, chain) == job[j].hi[chain + 1]
Set(j, r) == job' = [job EXCEPT ![j] = r]

(***************************************************************************)
(* The chain: payers use the addresses they were given; nobody else can pay   *)
(* one of the wallet's.                                                      *)
(***************************************************************************)
PayIn(i) ==
    /\ made < MaxCoins                                \* bound
    /\ i <= offeredUpTo
    /\ made' = made + 1
    /\ unspent' = unspent \cup {[at |-> <<Receive, i>>, id |-> made]}
    /\ used' = used \cup {<<Receive, i>>}
    /\ UNCHANGED <<offeredUpTo, job>>

(***************************************************************************)
(* discoverAccount.  A window of Gap addresses is asked for in parallel, each *)
(* for its statistics and for its coins: every answer is of some moment       *)
(* between the window's start and its end.                                   *)
(***************************************************************************)
WindowAt(chain, base) == {<<chain, i>> : i \in base..(base + Gap - 1)}
Batch(j) == WindowAt(job[j].chain, job[j].base)
CoinsAt(S, a) == {c \in S : c.at = a}
(* r at the start of its window from base on: what the first answers may say.  *)
Opened(r, base) ==
    LET w == WindowAt(r.chain, base)
    IN  [r EXCEPT !.base = base, !.was = [used |-> used \cap w, coins |-> {c \in unspent : c.at \in w}]]
CoinIds(S) == {c.id : c \in S}

Discover(j) ==
    /\ job[j].at = "idle" /\ job[j].runs < MaxDiscoveries \* bound
    /\ Set(j, Opened([IdleJob EXCEPT !.at = "scan", !.taken = CoinIds(unspent), !.runs = job[j].runs + 1], 0))
    /\ UNCHANGED <<used, unspent, made, offeredUpTo>>

\* Mutant: an address counts as used only while it holds a coin.
UsedByBalance(j, late, a) ==
    CoinsAt(IF a \in late THEN unspent ELSE job[j].was.coins, a) # {}
(* Whether an answer says the address is used: its statistics, or its coins.   *)
UsedIn(j, late, a) ==
    \/ a \in (IF a \in late THEN used ELSE job[j].was.used)
    \/ CoinsAt(IF a \in late THEN unspent ELSE job[j].was.coins, a) # {}

(* The next window starts right after the highest used address.               *)
NextBase(top) == top + 1

WindowRead(j) ==
    /\ job[j].at = "scan"
    /\ \E late \in SUBSET Batch(j) :
         LET r == job[j]
             hits == {a \in Batch(j) : UsedIn(j, late, a)}
             seen == UNION {CoinsAt(IF a \in late THEN unspent ELSE r.was.coins, a) : a \in hits}
             top == Max({a[2] : a \in hits})
         IN  IF hits # {}
             THEN Set(j, Opened([r EXCEPT !.found = @ \cup CoinIds(seen), !.hi[r.chain + 1] = top],
                                NextBase(top)))
             ELSE IF r.chain = Receive
             THEN Set(j, Opened([r EXCEPT !.chain = Change], 0))
             ELSE Set(j, [r EXCEPT !.at = "found", !.was = IdleJob.was, !.chain = 0, !.base = 0])
    /\ UNCHANGED <<used, unspent, made, offeredUpTo>>
DiscoveryFails(j) ==
    /\ job[j].at \in {"scan", "found", "built"}
    /\ Set(j, [IdleJob EXCEPT !.runs = job[j].runs])
    /\ UNCHANGED <<used, unspent, made, offeredUpTo>>

(* The page shows the next unused receive address (refreshAccount).           *)
ShowNext(j) ==
    /\ job[j].at = "found"
    /\ offeredUpTo' = Max({offeredUpTo, Hi(j, Receive) + 1})
    /\ Set(j, [IdleJob EXCEPT !.runs = job[j].runs])
    /\ UNCHANGED <<used, unspent, made>>

(***************************************************************************)
(* prepareSendHD: some of the coins of this discovery (which ones, unconfirmed *)
(* ones included or not, is the caller's and the coin selection's), and change *)
(* to the next unused change address.                                        *)
(***************************************************************************)
\* Mutant: the index of the change address follows the receive chain.
NextChangeOfReceive(j) == Hi(j, Receive) + 1
(* The next unused index of the change chain.                                 *)
NextChange(j) == Hi(j, Change) + 1

Build(j) ==
    /\ job[j].at = "found"
    /\ \E ins \in (SUBSET job[j].found) \ {{}} :
         Set(j, [job[j] EXCEPT !.at = "built", !.ins = ins, !.found = {}, !.taken = {}])
    /\ UNCHANGED <<used, unspent, made, offeredUpTo>>
(* broadcastRaw of the bytes that were shown: the network takes them while      *)
(* their coins are unspent.  change is off for a sweep.                       *)
SendBuilt(j, change) ==
    /\ job[j].at = "built"
    /\ LET ids == job[j].ins
           to == <<Change, NextChange(j)>>
       IN  /\ ids \subseteq CoinIds(unspent)
           /\ change => to \in Addr /\ made < MaxCoins     \* bound
           /\ unspent' = {c \in unspent : c.id \notin ids} \cup
                       IF change THEN {[at |-> to, id |-> made]} ELSE {}
           /\ used' = IF change THEN used \cup {to} ELSE used
           /\ made' = IF change THEN made + 1 ELSE made
    /\ Set(j, [IdleJob EXCEPT !.runs = job[j].runs])
    /\ UNCHANGED offeredUpTo

AccountInit ==
    /\ used = {} /\ unspent = {} /\ made = 0 /\ offeredUpTo = 0
    /\ job = [j \in Discoveries |-> IdleJob]
AccountNext ==
    \/ \E i \in 0..MaxIndex : PayIn(i)
    \/ \E j \in Discoveries : \/ Discover(j) \/ WindowRead(j) \/ DiscoveryFails(j) \/ ShowNext(j) \/ Build(j)
                              \/ \E change \in BOOLEAN : SendBuilt(j, change)
AccountSpec == AccountInit /\ [][AccountNext]_accountVars

(***************************************************************************)
(* Properties.                                                              *)
(***************************************************************************)
\* A discovery that ends has found every coin that was there when it started and
\* still is, although other coins came and went while it asked address after
\* address (send.js 180-183, "funds received at any rotated index are always
\* found").
EveryCoinFound ==
    \A j \in Discoveries : job[j].at = "found" =>
        CoinIds(unspent) \cap job[j].taken \subseteq job[j].found
\* Nothing becomes unrecoverable: between two used addresses of a chain there is
\* never a gap that a discovery would stop at, whichever addresses payments and
\* concurrent sends used (send.js 228-229).
NothingOutOfReach ==
    \A a \in used : a[2] >= Gap => \E b \in used : b[1] = a[1] /\ b[2] \in (a[2] - Gap)..(a[2] - 1)
\* Both: what the wallet holds can be found from its phrase.
DiscoveryFinds == EveryCoinFound /\ NothingOutOfReach
=============================================================================
