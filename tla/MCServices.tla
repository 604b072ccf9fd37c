------------------------------ MODULE MCServices ------------------------------
(***************************************************************************)
(* Small instances of the circuit breaker, the Nostr bot and the wallet's     *)
(* pages.  They share no variable and are explored one at a time: part names *)
(* the one that moves while the others stay as they start; x1 .. x4 are the   *)
(* variables of the payment builder.                                        *)
(***************************************************************************)
EXTENDS Breaker, NostrBot, WalletPages, HdAccount

CONSTANTS m1, m2, m3, a1, a2

VARIABLES part, x1, x2, x3, x4

spendVars == <<x1, x2, x3, x4>>
pagesVars ==
    <<signerVars, payVars, flowVars, screenVars, accountsVars, vaultVars, panelVars, priceVars,
      pageVars, lockedVars>>
servicesVars == <<part, spendVars, vars, botVars, pagesVars, accountVars>>

(***************************************************************************)
(* The instances.                                                          *)
(***************************************************************************)
MCAuthorOf == [m \in Mentions |-> IF m = m3 THEN a2 ELSE a1]
MCAuthor(m) == MCAuthorOf[m]

(* Payments: every kind of coin, amounts around dust and around the fees, and *)
(* a node that lies about the worth of a coin.                              *)
Coin(id, type, v) == [id |-> id, type |-> type, value |-> v, real |-> v]
Purses(v) ==
    {{Coin(1, t, v)} : t \in {"p2wpkh", "p2pkh", "p2pk"}} \cup
    {{Coin(1, "p2wpkh", v), Coin(2, "p2wpkh", 1000)},
     {Coin(1, "p2tr", v), Coin(2, "p2pkh", 5000), Coin(3, "p2sh-p2wpkh", 700)},
     {Coin(1, "p2pk", v), Coin(2, "p2pkh-uncompressed", 3000)},
     {Coin(1, "p2pk", v), Coin(2, "p2wpkh", 3000)},
     {[Coin(1, "p2pkh", v) EXCEPT !.real = v - 1]}, {[Coin(1, "p2wpkh", v) EXCEPT !.real = v - 1]}}
Values == {600, 700, 1135, 1150, 1240, 2500, 9000} \cup (1685 .. 1725)
Payments ==
    LET all == [kind : {"pay", "sweep", "move", "fund", "lab", "psbt"},
                coins : UNION {Purses(v) : v \in Values}, amount : {545, 1000},
                rate : {5, 10, 11}, note : {0, 10, 81}, own : BOOLEAN]
    IN  {r \in all : (r.own => r.kind = "pay") /\ (r.kind \in {"sweep", "lab"} => r.amount = 1000)}
Spend == INSTANCE WalletSpend WITH
    Requests <- Payments, None <- Nil, req <- x1, stage <- x2, tx <- x3, shown <- x4

(* Unsigned transactions: one that is right, and others wrong in one way.    *)
In(id) == [id |-> id, owner |-> <<"ours", 1>>, chain |-> 0, index |-> 0, evidence |-> "witness",
           told |-> 10000, real |-> 10000, sighash |-> "absent"]
Out(amount) == [to |-> "other", amount |-> amount]
Psbts ==
    {[ins |-> {In(1)}, outs |-> <<Out(a)>>] : a \in {11000, 9000, 8000, 7900, 5500}} \cup
    {[ins |-> {[In(1) EXCEPT !.evidence = e, !.told = t]}, outs |-> <<Out(9000)>>] :
        e \in {"previous", "forged", "nothing"}, t \in {10000, 20000}} \cup
    {[ins |-> {[In(1) EXCEPT !.told = 50000]}, outs |-> <<Out(9000), [to |-> "burn", amount |-> 31000]>>],
     [ins |-> {In(1), [In(2) EXCEPT !.chain = 1, !.index = 3]}, outs |-> <<Out(18000)>>],
     [ins |-> {In(1), [In(2) EXCEPT !.owner = <<"other", 1>>]}, outs |-> <<Out(18000)>>],
     [ins |-> {[In(1) EXCEPT !.index = 21]}, outs |-> <<Out(9000)>>],
     [ins |-> {[In(1) EXCEPT !.owner = <<"ours", 0>>]}, outs |-> <<Out(9000)>>],
     [ins |-> {[In(1) EXCEPT !.sighash = "none"]}, outs |-> <<Out(9000)>>],
     [ins |-> {[In(1) EXCEPT !.told = 1000000, !.real = 1000000]}, outs |-> <<Out(890000)>>],
     [ins |-> {}, outs |-> <<Out(9000)>>]}

(* A file of an older version that asks for its passphrase.                  *)
MCOldFiles == {[secret |-> "w1", home |-> "testnet4", asks |-> TRUE, legacy |-> TRUE]}

(* Older backups: one that names its first address, one that does not.       *)
Backup(record, home) ==
    [legacy |-> TRUE, payload |-> [kind |-> "seed", what |-> "w1", pass |-> Absent, used |-> TRUE],
     password |-> "b", home |-> home, record |-> record,
     meant |-> [kind |-> "seed", what |-> "w1", pass |-> "p"]]
MCBackups == {Backup([kind |-> "seed", what |-> "w1", pass |-> "p"], "testnet3"), Backup(Absent, "mainnet")}

(***************************************************************************)
(* One at a time.  A component that does not move starts in one way only.    *)
(***************************************************************************)
Some(S) == CHOOSE s \in S : TRUE
ServicesInit ==
    /\ part \in {"spend", "breaker", "nostr", "signer", "pay", "flows", "screen", "hot", "hd",
                "prices", "vault", "panel", "page", "held"}
    /\ Init /\ BotInit /\ AccountInit
    /\ VaultInit /\ PanelInit /\ PageInit /\ LockedInit
    /\ \/ part = "spend" /\ Spend!SpendInit
       \/ part # "spend" /\ x1 = Nil /\ x2 = Nil /\ x3 = Nil /\ x4 = Nil
    /\ SignerInit
    /\ part # "signer" => signer = "offline" /\ fields.seed = Some(SignerSeeds) /\ fields.net = Some(SignerNets)
    /\ PayInit /\ (part # "pay" => net = Some(PayNets))
    /\ FlowsInit /\ (part # "flows" => flowNet = Some(FlowNets) /\ form = Some(Forms))
    /\ ScreenInit /\ (part # "screen" => more = FALSE)
    /\ AccountsInit /\ hotNet = Some(HotNets)   \* the practice networks are alike
    /\ PriceInit /\ (part # "prices" => cur = Some(Currencies))

Elsewhere ==
    /\ UNCHANGED part
    /\ IF part = "spend" THEN TRUE ELSE UNCHANGED spendVars
    /\ IF part = "breaker" THEN TRUE ELSE UNCHANGED vars
    /\ IF part = "nostr" THEN TRUE ELSE UNCHANGED botVars
    /\ IF part = "signer" THEN TRUE ELSE UNCHANGED signerVars
    /\ IF part = "pay" THEN TRUE ELSE UNCHANGED payVars
    /\ IF part = "flows" THEN TRUE ELSE UNCHANGED flowVars
    /\ IF part = "screen" THEN TRUE ELSE UNCHANGED screenVars
    /\ IF part = "hot" THEN TRUE ELSE UNCHANGED accountsVars
    /\ IF part = "hd" THEN TRUE ELSE UNCHANGED accountVars
    /\ IF part = "prices" THEN TRUE ELSE UNCHANGED priceVars
    /\ IF part = "vault" THEN TRUE ELSE UNCHANGED vaultVars
    /\ IF part = "panel" THEN TRUE ELSE UNCHANGED panelVars
    /\ IF part = "page" THEN TRUE ELSE UNCHANGED pageVars
    /\ IF part = "held" THEN TRUE ELSE UNCHANGED lockedVars
Moves(p) == part = p /\ Elsewhere

ServicesNext ==
    \/ Moves("spend") /\ Spend!SpendNext
    \/ Moves("breaker") /\ Next
    \/ Moves("nostr") /\ BotNext
    \/ Moves("signer") /\ SignerNext
    \/ Moves("pay") /\ PayNext
    \/ Moves("flows") /\ FlowsNext
    \/ Moves("screen") /\ ScreenNext
    \/ Moves("hot") /\ AccountsNext
    \/ Moves("hd") /\ AccountNext
    \/ Moves("prices") /\ PriceNext
    \/ Moves("vault") /\ VaultNext
    \/ Moves("panel") /\ PanelNext
    \/ Moves("page") /\ PageNext
    \/ Moves("held") /\ LockedNext

ServicesSpec == ServicesInit /\ [][ServicesNext]_servicesVars

\* A wallet payment is what was shown before it was sent, at no less than the
\* rate asked for and no more than needed, and the audit of its bytes stands in
\* no honest payment's way (WalletSpend.tla); a signature over an untrusted file
\* spends coins of the seed for a sane fee (OfflineSigner.tla).
PaymentIsAsShown ==
    /\ part = "spend" => Spend!ShownIsTrue /\ Spend!CoversRate /\ Spend!NothingWasted /\ Spend!AuditAccepts
    /\ SpendIsSane
===============================================================================
