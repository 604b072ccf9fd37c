----------------------------- MODULE HotAccounts -----------------------------
(***************************************************************************)
(* What the testnet wallet's page shows of one open wallet (web/ui.js): a     *)
(* balance per script type and the receive address of the open account.  The *)
(* network, the script type and the counter gen are shared by every handler; *)
(* a handler reads them when it starts and again after each await.           *)
(***************************************************************************)
EXTENDS Naturals

CONSTANTS
    HotNets, ScriptTypes,
    Nil,
    MaxGen        \* bound: refreshes started

VARIABLES
    hotNet, hotType,   \* network, scriptType
    hotPane,      \* "home" or "account"
    gen,          \* the stale-response guard
    lookups,      \* in flight: [for, net, type, gen, due]; due are the types it has yet to answer
    balances,     \* per script type, the account whose balance is stored, or Nil
    discovered,   \* per script type, the account whose discovery is stored, or Nil
    address,      \* the receive address shown: [net, type, of], or Nil
    straddled     \* history: a network or type was chosen while a lookup of another was awaited
                  \* that will store its answer all the same
accountsVars == <<hotNet, hotType, hotPane, gen, lookups, balances, discovered, address, straddled>>
storedVars == <<balances, discovered>>

(* A balance and a discovery are named by the account they were read for; of  *)
(* an address, it is the discovery whose next unused index it has.           *)
Account(n, t) == [net |-> n, type |-> t]
Shown == Account(hotNet, hotType)
MayRefresh == gen < MaxGen                             \* bound
NothingStored == [t \in ScriptTypes |-> Nil]

(* A lookup ends when every job of it has answered or failed.                *)
JobEnds(l, t) ==
    lookups' = {k \in (lookups \ {l}) \cup {[l EXCEPT !.due = @ \ {t}]} : k.due # {}}
Fails(l, t) ==
    /\ JobEnds(l, t)
    /\ UNCHANGED <<hotNet, hotType, hotPane, gen, storedVars, address, straddled>>

\* Mutant: the answer is shown whoever asked since.
FreshAlways(l) == TRUE
(* Only the newest refresh may paint.                                        *)
Fresh(l) == l.gen = gen

(***************************************************************************)
(* refreshAll: one job per type; each stores its result when it answers,      *)
(* whatever the network is by then, and one that fails leaves what is stored; *)
(* only the painting after the last one looks at gen.  setNetwork clears the  *)
(* balances, not the discoveries, and starts one.                            *)
(***************************************************************************)
Full(l) == {l.type, "p2wpkh"} \ {"p2pk"}               \* discovered, not only index 0
RefreshAll(n) ==
    /\ gen' = gen + 1
    /\ lookups' = lookups \cup
           {[for |-> "all", net |-> n, type |-> hotType, gen |-> gen + 1, due |-> ScriptTypes]}
RefreshHome ==
    /\ hotPane = "home" /\ MayRefresh
    /\ RefreshAll(hotNet)
    /\ UNCHANGED <<hotNet, hotType, hotPane, storedVars, address, straddled>>

\* Mutant: the balances of the network left are kept until the new ones come.
KeptBalances == balances
(* What setNetwork leaves of the balances.                                   *)
ClearedBalances == NothingStored

SwitchNet(n) ==
    /\ n # hotNet /\ MayRefresh
    /\ hotNet' = n /\ hotPane' = "home"
    /\ balances' = ClearedBalances
    /\ straddled' = (straddled \/ \E l \in lookups : l.for = "all" /\ l.net # n)
    /\ RefreshAll(n)
    /\ UNCHANGED <<hotType, discovered, address>>
AllAnswers(l, t) ==
    /\ l.for = "all"
    /\ JobEnds(l, t)
    /\ balances' = [balances EXCEPT ![t] = Account(l.net, t)]
    /\ discovered' = IF t \in Full(l) THEN [discovered EXCEPT ![t] = Account(l.net, t)] ELSE discovered
    /\ UNCHANGED <<hotNet, hotType, hotPane, gen, address, straddled>>

(***************************************************************************)
(* setActiveType: a type chosen on the home page, discovered if it was not,   *)
(* on whatever network; gen is not moved on.                                 *)
(***************************************************************************)
PickType(t) ==
    /\ hotPane = "home" /\ t # hotType
    /\ hotType' = t
    /\ straddled' = (straddled \/ \E l \in lookups : l.for = "account" /\ Fresh(l) /\ l.type # t)
    /\ IF t # "p2pk" /\ discovered[t] = Nil
       THEN /\ \A l \in lookups : l.for # "type"      \* bound: one of these at a time
            /\ lookups' = lookups \cup
                   {[for |-> "type", net |-> hotNet, type |-> t, gen |-> gen, due |-> {t}]}
       ELSE UNCHANGED lookups
    /\ UNCHANGED <<hotNet, hotPane, gen, storedVars, address>>
TypeAnswers(l) ==
    /\ l.for = "type"
    /\ JobEnds(l, l.type)
    /\ LET d == Account(l.net, l.type)
       IN  IF Fresh(l)
           THEN /\ balances' = [balances EXCEPT ![l.type] = d]
                /\ discovered' = [discovered EXCEPT ![l.type] = d]
           ELSE UNCHANGED storedVars
    /\ UNCHANGED <<hotNet, hotType, hotPane, gen, address, straddled>>

(***************************************************************************)
(* The account page: openAccount clears the address and refreshAccount shows  *)
(* the next unused one.                                                      *)
(***************************************************************************)
RefreshAccount(t) ==
    /\ gen' = gen + 1
    /\ lookups' = IF t = "p2pk" THEN lookups
                  ELSE lookups \cup
                       {[for |-> "account", net |-> hotNet, type |-> t, gen |-> gen + 1, due |-> {t}]}
OpenAccount(t) ==
    /\ hotPane = "home" /\ MayRefresh
    /\ hotType' = t /\ hotPane' = "account"
    /\ address' = Nil
    /\ RefreshAccount(t)
    /\ UNCHANGED <<hotNet, storedVars, straddled>>
RefreshAgain ==                                        \* the button, or the tab is focused
    /\ hotPane = "account" /\ MayRefresh
    /\ RefreshAccount(hotType)
    /\ UNCHANGED <<hotNet, hotType, hotPane, storedVars, address, straddled>>
GoHome ==
    /\ hotPane = "account"
    /\ hotPane' = "home"
    /\ UNCHANGED <<hotNet, hotType, gen, lookups, storedVars, address, straddled>>

(* An answer is stored and shown under the script type of the moment.         *)
AccountAnswers(l) ==
    /\ l.for = "account"
    /\ JobEnds(l, l.type)
    /\ LET d == Account(l.net, l.type)
       IN  IF Fresh(l)
           THEN /\ balances' = [balances EXCEPT ![hotType] = d]
                /\ discovered' = [discovered EXCEPT ![hotType] = d]
                /\ address' = IF hotType = "p2pk" THEN address
                              ELSE [net |-> hotNet, type |-> hotType, of |-> d]
           ELSE UNCHANGED <<storedVars, address>>
    /\ UNCHANGED <<hotNet, hotType, hotPane, gen, straddled>>

AccountsInit ==
    /\ hotNet \in HotNets /\ hotType = "p2wpkh" /\ hotPane = "home" /\ gen = 0
    /\ lookups = {} /\ address = Nil /\ straddled = FALSE
    /\ balances = NothingStored /\ discovered = NothingStored
AccountsNext ==
    \/ RefreshHome \/ RefreshAgain \/ GoHome
    \/ \E n \in HotNets : SwitchNet(n)
    \/ \E t \in ScriptTypes : PickType(t) \/ OpenAccount(t)
    \/ \E l \in lookups : TypeAnswers(l) \/ AccountAnswers(l)
    \/ \E l \in lookups : \E t \in l.due : AllAnswers(l, t) \/ Fails(l, t)
AccountsSpec == AccountsInit /\ [][AccountsNext]_accountsVars

(***************************************************************************)
(* Properties.                                                              *)
(***************************************************************************)
\* The receive address on the account page is one of the open account on the
\* network shown, at the next index of that account's own discovery, although
\* handlers of other accounts and networks are still waiting (ui.js 631-652).
AddressIsOfAccount ==
    hotPane = "account" /\ address # Nil =>
        address = [net |-> hotNet, type |-> hotType, of |-> Shown]
\* Each pill carries its own type's balance, on the network of the chip (ui.js
\* 476-478 and 216).  It fails: a job of refreshAll stores another network's balance
\* after setNetwork cleared them (464, 467), and one that fails keeps it (469);
\* refreshAccount stores under the type picked meanwhile (643).
BalancesAreOfShown == \A t \in ScriptTypes : balances[t] \in {Nil, Account(hotNet, t)}
\* The same, as long as neither happened: no network was chosen while a refresh of
\* another was awaited, no type while the newest refresh of another account was.
BalancesAreOfShownUnlessStraddled == ~straddled => BalancesAreOfShown
\* The active type is discovered in full on the network shown (ui.js 446-449).  It
\* fails: setNetwork keeps the discoveries (226), and a type once discovered is not
\* discovered again when it is picked (500).
DiscoveriesAreOfShownNetwork == \A t \in ScriptTypes : discovered[t] # Nil => discovered[t].net = hotNet
=============================================================================
