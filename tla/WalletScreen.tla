---------------------------- MODULE WalletScreen ----------------------------
(***************************************************************************)
(* The wallet screen of the mainnet page (mainnet/ui.js): one session per     *)
(* network of the open wallet, lookups that go on while another network is   *)
(* shown, the list of coins with its ticks, and the faucet's own network.     *)
(* Locking reloads the page, so a page shows one wallet.                      *)
(***************************************************************************)
EXTENDS Naturals, FiniteSets

CONSTANTS
    ScreenNets,     \* the networks of the wallet
    Home, Extra,    \* the real one; the practice networks hidden until asked for
    Faucet,         \* the practice network always offered
    NoNetwork,
    MaxCoin         \* bound: coins per network

Coins == ScreenNets \X (1..MaxCoin)
CoinsOf(n) == {n} \X (1..MaxCoin)

ASSUME ScreenAssumption ==
    /\ NoNetwork \notin ScreenNets
    /\ Home \in ScreenNets \ Extra
    /\ Faucet \in ScreenNets \ (Extra \cup {Home})

VARIABLES
    shown,        \* net, and so the session on the screen; NoNetwork before a wallet is open
    busy,         \* the sessions with a lookup in flight
    scanned,      \* the sessions that know their coins
    coins,        \* the spendable coins each session knows
    box,          \* the lookup's message: "off", "runs" or "failed"
    canRefresh,   \* the Refresh button is enabled
    rows,         \* the coins drawn with a box to tick
    ticked,       \* picked: the coins the next payment is limited to
    more,         \* more practice networks were asked for
    faucetNet     \* the network the Faucet tab pays to
screenVars == <<shown, busy, scanned, coins, box, canRefresh, rows, ticked, more, faucetNet>>
lookupVars == <<busy, box, canRefresh>>
listVars == <<rows, ticked>>
tabVars == <<more, faucetNet>>

OfferedIf(all) == IF all THEN ScreenNets ELSE ScreenNets \ Extra  \* visibleNets
Offered == OfferedIf(more)
Practice == Offered \ {Home}

(***************************************************************************)
(* renderWallet, renderCoins: the ticks of coins no longer spendable go.      *)
(***************************************************************************)
\* Mutant: the ticks outlive the coins they stand for.
DrawKeepingTicks(known) ==
    /\ rows' = known
    /\ UNCHANGED ticked

Draw(known) ==
    /\ rows' = known
    /\ ticked' = ticked \cap known

(***************************************************************************)
(* refresh, up to its await: one lookup at a time per session; a quiet one    *)
(* shows no message when the session was searched before.                    *)
(***************************************************************************)
\* Mutant: one flag for all the sessions.
MayLookUpOnce(n) == busy = {}

MayLookUp(n) == n \notin busy

Begin(n, quiet, before) ==
    /\ busy' = busy \cup {n}
    /\ canRefresh' = FALSE
    /\ box' = IF quiet /\ n \in scanned THEN before ELSE "runs"

(***************************************************************************)
(* setNetwork, with the refresh it ends with.                                *)
(***************************************************************************)
ShowNetwork(n) ==
    /\ shown' = n
    /\ rows' = IF n \in scanned THEN coins[n] ELSE {}
    /\ ticked' = {}
    /\ \/ MayLookUp(n) /\ Begin(n, n \in scanned, "off")
       \/ ~MayLookUp(n) /\ box' = "off" /\ UNCHANGED <<busy, canRefresh>>
    /\ UNCHANGED <<scanned, coins>>

StartSession == shown = NoNetwork /\ ShowNetwork(Home) /\ UNCHANGED tabVars
PickNetwork(n) == shown # NoNetwork /\ n \in Offered /\ ShowNetwork(n) /\ UNCHANGED tabVars

\* renderFaucet: a practice network on the screen is the faucet's too
FaucetOf(net, practice, chosen) ==
    IF net \in practice THEN net ELSE IF chosen \in practice THEN chosen ELSE Faucet
OpenFaucet ==
    /\ shown # NoNetwork
    /\ \E n \in Practice \cup {faucetNet} : faucetNet' = FaucetOf(shown, Practice, n)
    /\ UNCHANGED <<shown, lookupVars, scanned, coins, listVars, more>>
OpenMyWallet == shown # NoNetwork /\ ShowNetwork(faucetNet) /\ UNCHANGED tabVars

\* the switch in Settings: a network that is hidden now is left
SwitchMore ==
    LET offered == OfferedIf(~more)
        stays   == shown \in offered
    IN  /\ shown # NoNetwork
        /\ more' = ~more
        /\ \/ stays /\ UNCHANGED <<shown, lookupVars, scanned, coins, listVars>>
           \/ ~stays /\ ShowNetwork(Home)
        /\ faucetNet' = FaucetOf(IF stays THEN shown ELSE Home, offered \ {Home}, faucetNet)

(***************************************************************************)
(* The Refresh button, "search more addresses", and the quiet timer.          *)
(***************************************************************************)
Refresh(quiet) ==
    /\ shown # NoNetwork /\ MayLookUp(shown)
    /\ Begin(shown, quiet, box)
    /\ UNCHANGED <<shown, scanned, coins, listVars, tabVars>>

(***************************************************************************)
(* What a lookup tells: only the session on the screen writes to it.          *)
(***************************************************************************)
\* Mutant: a lookup writes to the screen whatever it shows.
IsShownAlways(n) == shown # NoNetwork

IsShown(n) == n = shown

Progress(n) ==
    /\ n \in busy /\ IsShown(n)
    /\ box' = "runs"
    /\ UNCHANGED <<shown, busy, canRefresh, scanned, coins, listVars, tabVars>>
\* a round of the search has read the coins, and another follows
Round(n) ==
    /\ n \in busy
    /\ \E known \in SUBSET CoinsOf(n) : coins' = [coins EXCEPT ![n] = known]
    /\ scanned' = scanned \cup {n}
    /\ UNCHANGED <<shown, lookupVars, listVars, tabVars>>
RefreshEnds(n) ==
    /\ n \in busy /\ n \in scanned
    /\ busy' = busy \ {n}
    /\ \/ IsShown(n) /\ box' = "off" /\ canRefresh' = TRUE /\ Draw(coins[shown])
       \/ ~IsShown(n) /\ UNCHANGED <<box, canRefresh, listVars>>
    /\ UNCHANGED <<shown, scanned, coins, tabVars>>
RefreshFails(n) ==
    /\ n \in busy
    /\ busy' = busy \ {n}
    /\ \/ IsShown(n) /\ box' = "failed" /\ canRefresh' = TRUE
       \/ ~IsShown(n) /\ UNCHANGED <<box, canRefresh>>
    /\ UNCHANGED <<shown, scanned, coins, listVars, tabVars>>

(***************************************************************************)
(* A box ticked, the one coin of "Spend this P2PK coin", and a payment that   *)
(* was sent, perhaps from a network no longer shown.                         *)
(***************************************************************************)
TickRow(c) ==
    /\ c \in rows
    /\ \/ ticked' = IF c \in ticked THEN ticked \ {c} ELSE ticked \cup {c}
       \/ ticked' = {c}
    /\ UNCHANGED <<shown, lookupVars, scanned, coins, rows, tabVars>>
Sent(n) ==
    /\ coins[n] # {}
    /\ \E used \in (SUBSET coins[n]) \ {{}} :
          LET known == [coins EXCEPT ![n] = @ \ used]
          IN  coins' = known /\ rows' = known[shown]
    /\ ticked' = {}
    /\ UNCHANGED <<shown, lookupVars, scanned, tabVars>>

ScreenInit ==
    /\ shown = NoNetwork /\ busy = {} /\ scanned = {}
    /\ coins = [n \in ScreenNets |-> {}]
    /\ box = "off" /\ canRefresh = TRUE
    /\ rows = {} /\ ticked = {}
    /\ more \in BOOLEAN /\ faucetNet = Faucet
ScreenNext ==
    \/ StartSession \/ OpenFaucet \/ OpenMyWallet \/ SwitchMore
    \/ \E quiet \in BOOLEAN : Refresh(quiet)
    \/ \E n \in ScreenNets : PickNetwork(n) \/ Progress(n) \/ Round(n) \/ RefreshEnds(n) \/ RefreshFails(n) \/ Sent(n)
    \/ \E c \in Coins : TickRow(c)
ScreenSpec == ScreenInit /\ [][ScreenNext]_screenVars

ScreenTypeOK ==
    /\ shown \in ScreenNets \cup {NoNetwork} /\ busy \subseteq ScreenNets /\ scanned \subseteq ScreenNets
    /\ coins \in [ScreenNets -> SUBSET Coins] /\ rows \subseteq Coins /\ ticked \subseteq Coins
    /\ box \in {"off", "runs", "failed"} /\ canRefresh \in BOOLEAN /\ more \in BOOLEAN
    /\ faucetNet \in ScreenNets

\* However lookups of several networks overlap, the screen speaks of the one it
\* shows: that network is offered, it is searched or being searched or its
\* search failed in view, a running message has a search behind it, and the
\* Refresh button comes back (refresh, setNetwork).
ScreenIsOfShown ==
    shown # NoNetwork =>
        /\ shown \in Offered /\ faucetNet \in Practice
        /\ shown \in scanned \cup busy \/ box = "failed"
        /\ box = "runs" => shown \in busy
        /\ ~canRefresh => shown \in busy

\* A tick that limits the next payment has its box on the screen: no coin of
\* another network, nor one spent since, stays ticked unseen (picked).
TickedAreDrawn == ticked \subseteq rows
=============================================================================
