------------------------------ MODULE WalletPay ------------------------------
(***************************************************************************)
(* Paying on the mainnet page (mainnet/ui.js): the password prompt every key  *)
(* goes through, the Send screen, the sheet that shows the signed bytes, and  *)
(* the broadcast.  The network shown can be switched at every await.         *)
(***************************************************************************)
EXTENDS Naturals, FiniteSets

CONSTANTS
    PayNets,      \* the networks of the open wallet
    Nothing,
    MaxPrompts    \* bound: prompts asked for

VARIABLES
    net,          \* the network shown
    screen,       \* "send", or "other" for every other pane
    toOwnKey,     \* p2pkFund: the Send screen pays the wallet's own P2PK output
    tickedNet,    \* picked: the network whose coins are ticked, or Nothing
    fees,         \* the network whose estimate is used; Nothing: none, or still loading
    feesAsked,    \* estimates in flight
    prompt,       \* the sheet on the screen: [id, for, net, ticked], or Nothing
    unlocking,    \* prompts whose password is being tried
    closer,       \* pwClose: the prompt that Cancel and pane() close
    confirm,      \* the confirm sheet's payment, or Nothing
    reviewing,    \* a review runs, so its button is off
    sending,      \* payments whose broadcast is under way
    promptsAsked  \* counter (bound): prompts asked for so far
payVars == <<net, screen, toOwnKey, tickedNet, fees, feesAsked, prompt, unlocking, closer, confirm,
             reviewing, sending, promptsAsked>>
formVars == <<net, screen, toOwnKey, tickedNet, fees, feesAsked>>
sheetVars == <<prompt, unlocking, closer, confirm, reviewing, sending, promptsAsked>>

PromptIds == 1..MaxPrompts
KeyUses == {"pay", "reveal", "sign"}
Prompts == [id : PromptIds, for : KeyUses, net : PayNets, ticked : PayNets \cup {Nothing}]

(***************************************************************************)
(* closePw and closeConfirm, as pane() calls them on every change of screen.  *)
(* A prompt that is trying a password ignores it, but Cancel is then dead.   *)
(***************************************************************************)
ClosePrompt ==
    /\ closer' = Nothing
    /\ prompt' = IF closer # Nothing /\ closer \notin unlocking THEN Nothing ELSE prompt
EndsReview(p) == p # Nothing /\ p.for = "pay"         \* a review that goes no further
CloseSheets ==
    /\ ClosePrompt
    /\ confirm' = Nothing
    /\ reviewing' = (reviewing /\ confirm = Nothing /\ ~(prompt' = Nothing /\ EndsReview(prompt)))
    /\ UNCHANGED <<unlocking, sending, promptsAsked>>

SetNetwork(n) ==
    /\ net' = n /\ tickedNet' = Nothing /\ toOwnKey' = FALSE
    /\ screen' = "other"
    /\ CloseSheets
    /\ UNCHANGED <<fees, feesAsked>>
LeaveSend ==
    /\ screen = "send"
    /\ screen' = "other" /\ toOwnKey' = FALSE
    /\ CloseSheets
    /\ UNCHANGED <<net, tickedNet, fees, feesAsked>>
TickCoin ==                                           \* a coin in the list is ticked or not
    /\ screen = "other"
    /\ tickedNet' \in {net, Nothing}
    /\ UNCHANGED <<net, screen, toOwnKey, fees, feesAsked, sheetVars>>

(***************************************************************************)
(* The Send screen, for an address or for the wallet's own P2PK output.  The  *)
(* estimates are asked for the network of the moment, and stored when they    *)
(* come whatever is shown then.                                              *)
(***************************************************************************)
OpenSend ==
    /\ screen = "other"
    /\ toOwnKey' \in BOOLEAN
    /\ tickedNet' = IF toOwnKey' THEN Nothing ELSE tickedNet
    /\ screen' = "send"
    /\ fees' = Nothing
    /\ feesAsked' = feesAsked \cup {net}
    /\ CloseSheets
    /\ UNCHANGED net
FeesCome(n) ==
    /\ n \in feesAsked
    /\ feesAsked' = feesAsked \ {n}
    /\ fees' \in {n, Nothing}                         \* Nothing: the estimate failed
    /\ UNCHANGED <<net, screen, toOwnKey, tickedNet, sheetVars>>

(***************************************************************************)
(* withPassword.  A second prompt takes the sheet over while the first one    *)
(* still tries its password.                                                 *)
(***************************************************************************)
AskPassword(for) ==
    /\ promptsAsked < MaxPrompts                      \* bound
    /\ prompt = Nothing \/ prompt \in unlocking
    /\ promptsAsked' = promptsAsked + 1
    /\ LET p == [id |-> promptsAsked + 1, for |-> for, net |-> net, ticked |-> tickedNet]
       IN  prompt' = p /\ closer' = p

\* Mutant: the Review button stays on while its payment is signed.
ReviewAgain ==
    /\ screen = "send" /\ ~reviewing /\ confirm = Nothing
    /\ AskPassword("pay")
    /\ UNCHANGED <<formVars, unlocking, confirm, reviewing, sending>>
ReviewPayment ==
    /\ screen = "send" /\ ~reviewing /\ confirm = Nothing
    /\ AskPassword("pay")
    /\ reviewing' = TRUE
    /\ UNCHANGED <<formVars, unlocking, confirm, sending>>
UseKey(for) ==                                        \* reveal the secret, sign a message
    /\ screen = "other"
    /\ for # "pay"
    /\ AskPassword(for)
    /\ UNCHANGED <<formVars, unlocking, confirm, reviewing, sending>>
SubmitPassword ==
    /\ prompt # Nothing /\ prompt \notin unlocking
    /\ unlocking' = unlocking \cup {prompt}
    /\ UNCHANGED <<formVars, prompt, closer, confirm, reviewing, sending, promptsAsked>>
CancelPrompt ==
    /\ prompt # Nothing
    /\ ClosePrompt
    /\ reviewing' = (reviewing /\ ~(prompt' = Nothing /\ EndsReview(prompt)))
    /\ UNCHANGED <<formVars, unlocking, confirm, sending, promptsAsked>>

FinishPrompt(p) ==                                    \* finish() clears the sheet of whoever shows it
    /\ unlocking' = unlocking \ {p}
    /\ prompt' = Nothing /\ closer' = Nothing
WrongPassword(p) ==
    /\ unlocking' = unlocking \ {p}
    /\ UNCHANGED <<formVars, prompt, closer, confirm, reviewing, sending, promptsAsked>>
KeyFails(p) ==                                        \* coin selection, a coin that fails its check
    /\ FinishPrompt(p)
    /\ reviewing' = (reviewing /\ p.for # "pay")
    /\ UNCHANGED <<formVars, confirm, sending, promptsAsked>>

\* Mutant: the network is not looked at again after the signature.
SignedUnchecked(p) ==
    /\ FinishPrompt(p)
    /\ IF p.for = "pay"
       THEN confirm' = p /\ UNCHANGED reviewing
       ELSE UNCHANGED <<confirm, reviewing>>
    /\ UNCHANGED <<formVars, sending, promptsAsked>>

(* The key was used: a payment is signed and its sheet is shown, unless the    *)
(* network was switched meanwhile.                                           *)
Signed(p) ==
    /\ FinishPrompt(p)
    /\ IF p.for = "pay"
       THEN IF p.net = net
            THEN confirm' = p /\ UNCHANGED reviewing
            ELSE reviewing' = FALSE /\ UNCHANGED confirm
       ELSE UNCHANGED <<confirm, reviewing>>
    /\ UNCHANGED <<formVars, sending, promptsAsked>>

(***************************************************************************)
(* The confirm sheet and the broadcast of the bytes it showed.               *)
(***************************************************************************)
Confirm ==
    /\ confirm # Nothing
    /\ sending' = sending \cup {confirm}
    /\ confirm' = Nothing
    /\ UNCHANGED <<formVars, prompt, unlocking, closer, reviewing, promptsAsked>>
Decline ==
    /\ confirm # Nothing
    /\ confirm' = Nothing /\ reviewing' = FALSE
    /\ UNCHANGED <<formVars, prompt, unlocking, closer, sending, promptsAsked>>
BroadcastEnds(p) ==
    /\ sending' = sending \ {p} /\ reviewing' = FALSE
    /\ \/ tickedNet' = Nothing /\ toOwnKey' = FALSE   \* sent
       \/ UNCHANGED <<tickedNet, toOwnKey>>           \* refused
    /\ UNCHANGED <<net, screen, fees, feesAsked, prompt, unlocking, closer, confirm, promptsAsked>>

PayInit ==
    /\ net \in PayNets /\ screen = "other" /\ toOwnKey = FALSE /\ tickedNet = Nothing
    /\ fees = Nothing /\ feesAsked = {} /\ prompt = Nothing /\ unlocking = {} /\ closer = Nothing
    /\ confirm = Nothing /\ reviewing = FALSE /\ sending = {} /\ promptsAsked = 0
PayNext ==
    \/ \E n \in PayNets : SetNetwork(n) \/ FeesCome(n)
    \/ LeaveSend \/ TickCoin \/ OpenSend \/ ReviewPayment \/ SubmitPassword \/ CancelPrompt \/ Confirm \/ Decline
    \/ \E for \in KeyUses : UseKey(for)
    \/ \E p \in unlocking : WrongPassword(p) \/ KeyFails(p) \/ Signed(p)
    \/ \E p \in sending : BroadcastEnds(p)
PaySpec == PayInit /\ [][PayNext]_payVars

(***************************************************************************)
(* Properties.                                                              *)
(***************************************************************************)
\* The sheet a person confirms is a payment of the network the page shows, from
\* coins of that network, however the screens and prompts changed while the
\* password was tried (ui.js 868-871, pane() closing the sheet, 73).
SheetIsOfShownNetwork ==
    confirm # Nothing => confirm.net = net /\ confirm.ticked \in {Nothing, net}
\* At most one payment is between Review and its end, so one press never pays
\* twice (ui.js 865, 889).
OnePaymentAtATime ==
    /\ (confirm # Nothing \/ sending # {}) => reviewing
    /\ Cardinality({p \in unlocking : p.for = "pay"} \cup sending \cup ({confirm} \ {Nothing})) <= 1
=============================================================================
