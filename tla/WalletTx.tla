------------------------------- MODULE WalletTx -------------------------------
(***************************************************************************)
(* Transactions of the faucet's wallet, as far as the payout engine tells  *)
(* them apart: the claim paid, the outpoints spent, and a version, two     *)
(* versions being different bytes (hence txids) for one payment.           *)
(***************************************************************************)
CONSTANTS
  Claims,      \* claim identifiers
  Outpoints,   \* coins of the faucet's wallet
  Versions,    \* distinct bytes a signer may produce for one payment
  None         \* SQL NULL, and the payee of a spend that is not ours

ClaimTx == [claim : Claims, ins : SUBSET Outpoints, ver : Versions]

\* Somebody else holding the wallet's key spends one coin.
Foreign(op) == [claim |-> None, ins |-> {op}, ver |-> None]

Spends(t, op) == op \in t.ins
===============================================================================
