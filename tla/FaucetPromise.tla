----------------------------- MODULE FaucetPromise -----------------------------
(***************************************************************************)
(* What the faucet promises, with no ledger, lock, worker or explorer in   *)
(* sight: for each entitlement (network, payee, day) it settles at most    *)
(* once on a payment, and only that payment ever leaves for the network,   *)
(* any number of times.                                                    *)
(***************************************************************************)
CONSTANTS Entitlements, Payments, None

VARIABLES
  committed,   \* the payment each entitlement is settled on, or None
  sent         \* payments handed to the network

promiseVars == <<committed, sent>>

Init ==
  /\ committed = [e \in Entitlements |-> None]
  /\ sent = {}

Commit(e) ==
  /\ committed[e] = None
  /\ \E p \in Payments : committed' = [committed EXCEPT ![e] = p]
  /\ UNCHANGED sent

Send(e) ==
  /\ committed[e] # None
  /\ sent' = sent \cup {committed[e]}
  /\ UNCHANGED committed

Next == \E e \in Entitlements : Commit(e) \/ Send(e)

Spec == Init /\ [][Next]_promiseVars
================================================================================
