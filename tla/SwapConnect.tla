----------------------------- MODULE SwapConnect -----------------------------
(***************************************************************************)
(* The hand-off between the swap page and the wallet: the provider injected  *)
(* into the swap page (connect/olesia-provider.js), the wallet's connect      *)
(* window (connect/index.html with connect/entry.js and connect/core.mjs) and *)
(* the signer of atomic-swap outputs (src/htlc_sign.js).  The two pages       *)
(* exchange messages; the window can be closed, reloaded or blocked at any    *)
(* moment.                                                                   *)
(***************************************************************************)
EXTENDS Integers, Sequences

CONSTANTS
    Requests,     \* what the swap page may ask: [kind], "account", "other" or "spend"
    MaxAsks,      \* bound: requests the swap page makes
    MaxWindows    \* bound: times the window is opened or reloaded

(* A "spend" also has: [network, parts, script, inputs, lock, final, redeem, refund, *)
(* secret].  parts: the witness script, coin and SIGHASH_ALL are all   *)
(* there.  script: the output is the hash of a script of the swap's template. *)
(* lock: the transaction's lock time, "zero", "refund" (the refund height) or *)
(* "other".  final: its sequence number disables the lock.  redeem, refund:   *)
(* the key is one of this wallet's first 51 on either branch.  secret: "none",*)
(* "short", "wrong" or "right".                                              *)

VARIABLES
    asked,        \* Seq of requests, their number is the id
    pending,      \* ids whose promise is open
    settled,      \* [id -> what the promise ended with]
    ready,        \* the provider has heard from the window
    popup,        \* "none", "closed" or "open": the provider's window handle
    queue,        \* ids not yet posted
    toWallet, toSwap,  \* messages posted and not yet delivered
    page,         \* the connect page
    opened        \* windows opened or reloaded so far
connectVars == <<asked, pending, settled, ready, popup, queue, toWallet, toSwap, page, opened>>

ASSUME ConnectAssumption == MaxAsks \in Nat /\ MaxWindows \in Nat

Ids == 1 .. MaxAsks
CONNECT_NETWORKS == {"testnet4", "signet"}

(***************************************************************************)
(* src/htlc_sign.js and connect/core.mjs.                                   *)
(***************************************************************************)
\* Mutant: the sequence number is not looked at.
BranchAnySequence(p) ==
    CASE p.lock = "zero" -> "redeem" [] p.lock = "refund" -> "refund" [] OTHER -> "ambiguous"
Branch(p) ==
    CASE p.lock = "zero" -> "redeem"
      [] p.lock = "refund" /\ ~p.final -> "refund"
      [] OTHER -> "ambiguous"

(* parsePsbt, parseUnsignedTx, parseHtlcScript and the checks that follow. *)
Readable(p) ==
    /\ p.network \in CONNECT_NETWORKS
    /\ p.parts /\ p.script /\ p.inputs = 1
    /\ Branch(p) # "ambiguous"

FindsKey(p) == IF Branch(p) = "redeem" THEN p.redeem ELSE p.refund     \* findWalletKey
SafeToSign(p) == Readable(p) /\ FindsKey(p) /\ (Branch(p) = "redeem" => p.secret # "none")

(* signHtlcSpend: the transaction with the witness of its branch. *)
Signs(p) == Readable(p) /\ FindsKey(p) /\ (Branch(p) = "redeem" => p.secret = "right")
SignedTx(p) ==
    [spend |-> p, key |-> IF Branch(p) = "redeem" THEN "redeem" ELSE "refund",
     reveals |-> Branch(p) = "redeem", selects |-> Branch(p) = "redeem"]

(* The swap's output on the chain accepts a witness of either branch. *)
ChainAccepts(t) ==
    IF t.selects
    THEN t.reveals /\ t.spend.secret = "right" /\ t.key = "redeem" /\ t.spend.redeem
    ELSE /\ t.key = "refund" /\ t.spend.refund
         /\ t.spend.lock = "refund" /\ ~t.spend.final

(***************************************************************************)
(* The connect page.  shown: the request on the screen, 0 for none.         *)
(***************************************************************************)
NoPage == [up |-> FALSE, listening |-> FALSE, vault |-> FALSE, unlocked |-> FALSE, current |-> 0,
           shown |-> 0, card |-> "wait", approve |-> FALSE, reject |-> FALSE]
FreshPage(vault) == [NoPage EXCEPT !.up = TRUE, !.vault = vault, !.approve = TRUE, !.reject = TRUE]

(* renderRequest: a request for the account leaves the button as it was. *)
Rendered(p, id) ==
    LET r == asked[id]
    IN  [p EXCEPT !.shown = id, !.card = "request",
                  !.approve = CASE r.kind = "account" -> @ [] r.kind = "other" -> FALSE
                                    [] OTHER -> SafeToSign(r)]

\* Mutant: a request that arrives while another is on the screen is not drawn.
RouteOnce(p, id) ==
    LET q == [p EXCEPT !.current = id]
    IN  IF ~p.unlocked THEN [q EXCEPT !.card = "lock"]
        ELSE IF p.shown # 0 THEN q ELSE Rendered(q, id)
Route(p, id) ==
    LET q == [p EXCEPT !.current = id]
    IN  IF ~p.unlocked THEN [q EXCEPT !.card = "lock"] ELSE Rendered(q, id)

(* signed: the request whose transaction the reply carries. *)
Reply(id, result) == [about |-> id, result |-> result, signed |-> 0]

(***************************************************************************)
(* The provider.                                                            *)
(***************************************************************************)
(* flush, given what the queue holds: a closed window drops what is posted. *)
Flushed(q, isOpen) ==
    /\ queue' = <<>>
    /\ toWallet' = IF isOpen THEN toWallet \o q ELSE toWallet

\* request(): openPopup, then queue and flush.
Request(r) ==
    LET id == Len(asked) + 1
        record == asked' = Append(asked, r)
    IN  /\ id <= MaxAsks
        /\ record
        /\ \/ /\ popup = "open"
              /\ pending' = pending \cup {id}
              /\ IF ready THEN Flushed(Append(queue, id), TRUE)
                 ELSE queue' = Append(queue, id) /\ UNCHANGED toWallet
              /\ UNCHANGED <<settled, ready, popup, toSwap, page, opened>>
           \/ /\ popup # "open"
              /\ opened < MaxWindows
              /\ ready' = FALSE
              /\ popup' = "open"
              /\ page' = FreshPage(page.vault)
              /\ opened' = opened + 1
              /\ pending' = pending \cup {id}
              /\ queue' = Append(queue, id)
              /\ toWallet' = <<>>
              /\ UNCHANGED <<settled, toSwap>>
           \/ /\ popup # "open"                        \* the browser blocked it
              /\ ready' = FALSE
              /\ popup' = "none"
              /\ settled' = [settled EXCEPT ![id] = Reply(id, "blocked")]
              /\ UNCHANGED <<pending, queue, toWallet, toSwap, page, opened>>

\* Mutant: replies are taken to come in the order of the requests.
AnsweredOldest(m) == CHOOSE id \in pending : \A other \in pending : id <= other
Answered(m) == m.about

(* The swap page's message handler. *)
SwapHears ==
    /\ toSwap # <<>>
    /\ toSwap' = Tail(toSwap)
    /\ LET m == Head(toSwap)
       IN  IF m.result = "ready"
           THEN /\ ready' = TRUE
                /\ IF popup = "none" THEN UNCHANGED <<queue, toWallet>>
                   ELSE Flushed(queue, popup = "open")
                /\ UNCHANGED <<pending, settled>>
           ELSE /\ IF m.about \in pending
                   THEN /\ pending' = pending \ {Answered(m)}
                        /\ settled' = [settled EXCEPT ![Answered(m)] = m]
                   ELSE UNCHANGED <<pending, settled>>
                /\ UNCHANGED <<ready, queue, toWallet>>
    /\ UNCHANGED <<asked, popup, page, opened>>

\* Mutant: only the newest request watches the window.
WatchedNewest(id) == id = Len(asked)
Watched(id) == id \in pending

(* The 700 ms poll of each open request. *)
PollSeesClosed(id) ==
    /\ Watched(id)
    /\ popup = "closed"
    /\ id \in pending
    /\ pending' = pending \ {id}
    /\ settled' = [settled EXCEPT ![id] = Reply(id, "closed")]
    /\ UNCHANGED <<asked, ready, popup, queue, toWallet, toSwap, page, opened>>

(***************************************************************************)
(* The connect window.                                                      *)
(***************************************************************************)
Load ==
    /\ page.up /\ ~page.listening
    /\ page' = [page EXCEPT !.listening = TRUE]
    /\ toSwap' = Append(toSwap, Reply(0, "ready"))
    /\ UNCHANGED <<asked, pending, settled, ready, popup, queue, toWallet, opened>>

WalletHears ==
    /\ toWallet # <<>> /\ page.up
    /\ toWallet' = Tail(toWallet)
    /\ page' = IF page.listening THEN Route(page, Head(toWallet)) ELSE page
    /\ UNCHANGED <<asked, pending, settled, ready, popup, queue, toSwap, opened>>

Unlock ==
    /\ page.card = "lock" /\ page.vault /\ ~page.unlocked
    /\ page' = Rendered([page EXCEPT !.unlocked = TRUE], page.current)
    /\ UNCHANGED <<asked, pending, settled, ready, popup, queue, toWallet, toSwap, opened>>

Approve ==
    LET id == page.current
        r == asked[id]
    IN  /\ page.card = "request" /\ page.approve
        /\ IF r.kind = "account" \/ Signs(r)
           THEN /\ page' = [page EXCEPT !.approve = FALSE, !.reject = FALSE]
                /\ toSwap' = Append(toSwap, IF r.kind = "account" THEN Reply(id, "account")
                                            ELSE [Reply(id, "signed") EXCEPT !.signed = id])
           ELSE /\ toSwap' = Append(toSwap, Reply(id, "refused"))
                /\ UNCHANGED page
        /\ Len(toSwap) < 2                        \* bound: unread replies
        /\ UNCHANGED <<asked, pending, settled, ready, popup, queue, toWallet, opened>>

Shut == /\ popup' = "closed"
        /\ page' = [NoPage EXCEPT !.vault = page.vault]
        /\ toWallet' = <<>>

Reject ==
    /\ page.card = "request" /\ page.reject
    /\ toSwap' = Append(toSwap, Reply(page.current, "rejected"))
    /\ Shut
    /\ UNCHANGED <<asked, pending, settled, ready, queue, opened>>

(* The 900 ms timer after an approval, or the user. *)
Close ==
    /\ page.up
    /\ Shut
    /\ UNCHANGED <<asked, pending, settled, ready, queue, toSwap, opened>>

ReloadWindow ==
    /\ page.up /\ page.listening /\ opened < MaxWindows
    /\ opened' = opened + 1
    /\ page' = FreshPage(page.vault)
    /\ UNCHANGED <<asked, pending, settled, ready, popup, queue, toWallet, toSwap>>

ConnectInit ==
    /\ asked = <<>> /\ pending = {} /\ settled = [id \in Ids |-> Reply(0, "open")]
    /\ ready = FALSE /\ popup = "none" /\ queue = <<>> /\ toWallet = <<>> /\ toSwap = <<>>
    /\ page \in {[NoPage EXCEPT !.vault = v] : v \in BOOLEAN} /\ opened = 0
ConnectNext ==
    \/ \E r \in Requests : Request(r)
    \/ \E id \in Ids : PollSeesClosed(id)
    \/ SwapHears \/ Load \/ WalletHears \/ Unlock \/ Approve \/ Reject \/ Close \/ ReloadWindow
ConnectSpec == ConnectInit /\ [][ConnectNext]_connectVars

(* Messages are delivered, polls and loads run, and nobody leaves the window  *)
(* open for ever.                                                            *)
ConnectFairness ==
    /\ WF_connectVars(SwapHears) /\ WF_connectVars(Load) /\ WF_connectVars(WalletHears)
    /\ WF_connectVars(Close) /\ \A id \in Ids : WF_connectVars(PollSeesClosed(id))

(***************************************************************************)
(* Properties.                                                              *)
(***************************************************************************)
Results == {"open", "ready", "blocked", "closed", "account", "signed", "refused", "rejected"}
Messages == [about : 0 .. MaxAsks, result : Results, signed : 0 .. MaxAsks]
Pages == [up : BOOLEAN, listening : BOOLEAN, vault : BOOLEAN, unlocked : BOOLEAN,
          current : 0 .. MaxAsks, shown : 0 .. MaxAsks, card : {"wait", "lock", "request"},
          approve : BOOLEAN, reject : BOOLEAN]

\* The provider and the page hold only requests that were made, and messages of
\* the protocol (olesia-provider.js 14-50, connect/index.html 74-145).
ConnectTypeOK ==
    /\ asked \in Seq(Requests) /\ Len(asked) <= MaxAsks
    /\ pending \subseteq 1 .. Len(asked)
    /\ queue \in Seq(1 .. Len(asked)) /\ toWallet \in Seq(1 .. Len(asked))
    /\ settled \in [Ids -> Messages] /\ toSwap \in Seq(Messages)
    /\ ready \in BOOLEAN /\ popup \in {"none", "closed", "open"}
    /\ page \in Pages /\ opened \in 0 .. MaxWindows

\* A promise that resolves carries the answer to its own request: the account
\* when that was asked, the transaction of the very spend it named, and that on a
\* testnet only (olesia-provider.js 18-21, connect/core.mjs 18-20).
AnswersItsRequest ==
    \A id \in Ids :
        LET s == settled[id]
        IN  /\ s.result = "account" => asked[id].kind = "account"
            /\ s.result = "signed" => s.signed = id /\ asked[id].network \in CONNECT_NETWORKS

\* A transaction handed back is one the swap's output accepts, whichever branch
\* it takes (htlc_sign.js 15-17, 180-196).
HandedIsSpendable ==
    \A id \in Ids :
        settled[id].result = "signed" => ChainAccepts(SignedTx(asked[settled[id].signed]))

\* The button approves what is on the screen: a later request replaces both
\* (connect/index.html 74-80, 94-110).
ApprovesWhatIsShown == page.card = "request" => page.shown = page.current

\* Every request ends, even when its window was closed, reloaded or replaced by
\* another one, unless the last window was blocked (olesia-provider.js 41-44).
RequestsEnd == \A id \in Ids : (id \in pending) ~> (id \notin pending \/ popup = "none")
=============================================================================
