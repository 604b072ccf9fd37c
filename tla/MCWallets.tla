------------------------------ MODULE MCWallets -------------------------------
(***************************************************************************)
(* Small instances of the wallet's two asynchronous conversations: a session *)
(* with the node (WalletSession) and the hand-off with a swap page           *)
(* (SwapConnect).  They share no state, so a behaviour follows one of them    *)
(* and the other stays where it starts.                                     *)
(***************************************************************************)
EXTENDS WalletSession, SwapConnect

VARIABLE part

(* A wallet restored with a coin near the end of the window. *)
Restored == {<<"change", 1, 0>>}

Good == [kind |-> "spend", network |-> "signet", parts |-> TRUE, script |-> TRUE, inputs |-> 1,
         lock |-> "zero", final |-> FALSE, redeem |-> TRUE, refund |-> TRUE, secret |-> "right"]
(* An account, an unknown request, and a spend that is right or wrong in one way. *)
Asks == {[kind |-> "account"], [kind |-> "other"], Good,
         [Good EXCEPT !.secret = "none"], [Good EXCEPT !.secret = "wrong"],
         [Good EXCEPT !.lock = "refund", !.secret = "none", !.redeem = FALSE],
         [Good EXCEPT !.lock = "refund", !.final = TRUE], [Good EXCEPT !.lock = "other"],
         [Good EXCEPT !.redeem = FALSE], [Good EXCEPT !.network = "mainnet"]}

bothVars == <<part, vars, connectVars>>

BothInit ==
    /\ part \in {"session", "connect"}
    /\ Init /\ ConnectInit
    /\ part = "session" => ~page.vault

BothNext ==
    /\ UNCHANGED part
    /\ \/ part = "session" /\ Next /\ UNCHANGED connectVars
       \/ part = "connect" /\ ConnectNext /\ UNCHANGED vars

(* FairSpec of WalletSession where it runs, and ConnectFairness, which asks   *)
(* nothing of a hand-off that has not begun.                                *)
BothFairness ==
    /\ WF_vars(part = "session" /\ Ask)
    /\ WF_vars(part = "session" /\ Answer)
    /\ WF_vars(part = "session" /\ TakeAnswer)
    /\ ConnectFairness

WalletsSpec == BothInit /\ [][BothNext]_bothVars /\ BothFairness
===============================================================================
