------------------------------ MODULE HotFlows ------------------------------
(***************************************************************************)
(* Spending from the testnet wallet's page (web/ui.js): a payment, a coin     *)
(* moved into a bare public key (P2PK) or out of one, and the sweep of an     *)
(* imported key.  Each builds a transaction, asks for the price, shows what   *)
(* it built on the one confirm sheet, and broadcasts it.  P2PK coins have no  *)
(* address, so the page keeps the list of them, and of the keys used, itself. *)
(***************************************************************************)
EXTENDS Naturals

CONSTANTS
    FlowNets, Forms,   \* networks; what the form can hold
    NoFlow,
    MaxKey,       \* bound: P2PK keys 0..MaxKey of this wallet
    MaxFlows      \* bound: flows started

ASSUME FlowsAssumption == NoFlow \notin Nat /\ MaxKey \in Nat

VARIABLES
    flowNet,      \* network, read again by every step
    form,         \* the destination, amount and message typed in
    flows,        \* those not over: [id, kind, at, bytes, key]
    sheetRows,    \* what the confirm sheet shows
    resolver,     \* confirmResolve: the flow its buttons answer, or NoFlow
    fundOff,      \* the fund button is disabled
    tracked,      \* per network, the P2PK coins listed in the browser: [id, key, by]
    nextKey,      \* per network, the key index of the next fund
    sent,         \* broadcasts: [bytes, shown]
    begun         \* counter (bound)
flowVars == <<flowNet, form, flows, sheetRows, resolver, fundOff, tracked, nextKey, sent, begun>>
confirmVars == <<sheetRows, resolver>>
labVars == <<tracked, nextKey>>

FlowKinds == {"pay", "fund", "spend", "sweep"}
NoSheet == resolver = NoFlow                           \* the sheet covers the page
Flow(kind, at, key) ==
    [id |-> begun + 1, kind |-> kind, at |-> at, bytes |-> form, key |-> key]
MovesFlow(f, stage) == flows' = (flows \ {f}) \cup {[f EXCEPT !.at = stage]}
EndsFlow(f) == flows' = flows \ {f}
FundButton(f) == fundOff' = (fundOff /\ f.kind # "fund")   \* enabled again when a fund ends

SwitchFlowNet(n) ==
    /\ NoSheet
    /\ flowNet' = n
    /\ UNCHANGED <<form, flows, confirmVars, fundOff, labVars, sent, begun>>
EditForm ==
    /\ NoSheet
    /\ form' \in Forms
    /\ UNCHANGED <<flowNet, flows, confirmVars, fundOff, labVars, sent, begun>>

(***************************************************************************)
(* runSend, the fund button, spendOneP2PK and sweepWif read the form at once; *)
(* the transaction is signed when its coins and rates have come.  The fund's  *)
(* index never reaches the engine, which pays to key #0.                     *)
(***************************************************************************)
StartFlow(kind) ==
    /\ NoSheet /\ begun < MaxFlows                     \* bound
    /\ kind = "fund" => ~fundOff
    /\ kind = "spend" => tracked[flowNet] # {}
    /\ flows' = flows \cup {Flow(kind, "build", 0)}
    /\ begun' = begun + 1
    /\ fundOff' = (fundOff \/ kind = "fund")
    /\ UNCHANGED <<flowNet, form, confirmVars, labVars, sent>>
BuildFails(f) ==                                       \* no coins, the explorer, a spent coin
    /\ f.at = "build"
    /\ EndsFlow(f) /\ FundButton(f)
    /\ UNCHANGED <<flowNet, form, confirmVars, labVars, sent, begun>>
Built(f) ==                                            \* then usdPrice, which never fails
    /\ f.at = "build"
    /\ MovesFlow(f, "price")
    /\ UNCHANGED <<flowNet, form, confirmVars, fundOff, labVars, sent, begun>>

(***************************************************************************)
(* confirmSheet.  A second flow's sheet replaces the first one's, which then  *)
(* waits for ever; its rows and its resolver change together.                *)
(***************************************************************************)
\* Mutant: the sheet is filled again but still answers the first flow.
SheetAnswersFirst(f) == IF NoSheet THEN f.id ELSE resolver
SheetAnswers(f) == f.id

ConfirmSheet(f) ==
    /\ f.at = "price"
    /\ MovesFlow(f, "sheet")
    /\ sheetRows' = f.bytes
    /\ resolver' = SheetAnswers(f)
    /\ UNCHANGED <<flowNet, form, fundOff, labVars, sent, begun>>
CancelFlow(f) ==                                       \* the button, or a change of pane
    /\ f.id = resolver /\ f.at = "sheet"
    /\ resolver' = NoFlow
    /\ EndsFlow(f) /\ FundButton(f)
    /\ UNCHANGED <<flowNet, form, sheetRows, labVars, sent, begun>>
Agree(f) ==                                            \* broadcastHex, on the network of now
    /\ f.id = resolver /\ f.at = "sheet"
    /\ resolver' = NoFlow
    /\ MovesFlow(f, "cast")
    /\ sent' = sent \cup {[bytes |-> f.bytes, shown |-> sheetRows]}
    /\ UNCHANGED <<flowNet, form, sheetRows, fundOff, labVars, begun>>
BroadcastFails(f) ==
    /\ f.at = "cast"
    /\ EndsFlow(f) /\ FundButton(f)
    /\ UNCHANGED <<flowNet, form, confirmVars, labVars, sent, begun>>

(***************************************************************************)
(* p2pkLoad, push and p2pkStore, with no await between them, and p2pkBumpIdx; *)
(* all under the network of the moment.                                      *)
(***************************************************************************)
\* Mutant: the counter follows the last key.
BumpIdxSets(n, key) == nextKey' = [nextKey EXCEPT ![n] = key + 1]
BumpIdx(n, key) ==
    nextKey' = [nextKey EXCEPT ![n] = IF @ > key THEN @ ELSE key + 1]
Track(f) ==
    /\ tracked' = [tracked EXCEPT ![flowNet] = @ \cup {[id |-> f.id, key |-> f.key, by |-> f.kind]}]
    /\ BumpIdx(flowNet, f.key)
Broadcast(f) ==
    /\ f.at = "cast"
    /\ EndsFlow(f)
    /\ IF f.kind = "fund" THEN Track(f) ELSE UNCHANGED labVars
    /\ UNCHANGED <<flowNet, form, confirmVars, fundOff, sent, begun>>
RefreshLab ==                                          \* 1.5 s later, or the pane is opened
    /\ fundOff' = ~fundOff                             \* there is a balance, or not
    /\ UNCHANGED <<flowNet, form, flows, confirmVars, labVars, sent, begun>>

(***************************************************************************)
(* importP2PK: a coin found again by its funding txid, whichever of the       *)
(* wallet's keys it pays.                                                    *)
(***************************************************************************)
AskImport(key) ==
    /\ NoSheet /\ begun < MaxFlows                     \* bound
    /\ flows' = flows \cup {Flow("import", "lookup", key)}
    /\ begun' = begun + 1
    /\ UNCHANGED <<flowNet, form, confirmVars, fundOff, labVars, sent>>
ImportFound(f) ==
    /\ f.at = "lookup"
    /\ EndsFlow(f)
    /\ Track(f) \/ UNCHANGED labVars                   \* "already tracked"
    /\ UNCHANGED <<flowNet, form, confirmVars, fundOff, sent, begun>>

FlowsInit ==
    /\ flowNet \in FlowNets /\ form \in Forms /\ flows = {} /\ fundOff = FALSE
    /\ sheetRows = form /\ resolver = NoFlow /\ sent = {} /\ begun = 0
    /\ tracked = [n \in FlowNets |-> {}] /\ nextKey = [n \in FlowNets |-> 0]
FlowsNext ==
    \/ \E n \in FlowNets : SwitchFlowNet(n)
    \/ EditForm \/ RefreshLab
    \/ \E kind \in FlowKinds : StartFlow(kind)
    \/ \E key \in 0..MaxKey : AskImport(key)
    \/ \E f \in flows : \/ BuildFails(f) \/ Built(f) \/ ConfirmSheet(f) \/ CancelFlow(f) \/ Agree(f)
                        \/ Broadcast(f) \/ BroadcastFails(f) \/ ImportFound(f)
FlowsSpec == FlowsInit /\ [][FlowsNext]_flowVars

(***************************************************************************)
(* Properties.                                                              *)
(***************************************************************************)
\* What is broadcast is what the sheet showed when it was agreed to, whatever was
\* typed, switched or built meanwhile, also when two flows share the sheet
\* (ui.js 907-909, "build ONCE ... broadcast the EXACT SAME BYTES").
SentWasShown == \A s \in sent : s.bytes = s.shown
\* The next P2PK key the page offers is past the key of every coin it lists, funded
\* here or recovered, in any order (ui.js 687-690, "a fresh pubkey (never reused").
NextKeyIsFresh == \A n \in FlowNets : \A c \in tracked[n] : c.key < nextKey[n]
\* No two funds pay the same key (ui.js 687-690 and 765, "never reuse
\* this key index again").
KeysAreRotated ==
    \A n \in FlowNets : \A c, d \in tracked[n] :
        c.id # d.id /\ c.by = "fund" /\ d.by = "fund" => c.key # d.key
=============================================================================
