------------------------------ MODULE BitcoinNet ------------------------------
(***************************************************************************)
(* The Bitcoin network as the faucet meets it: a mempool, a best chain     *)
(* that can be reorganised, and other spenders of the same wallet.  None   *)
(* of it is code of this repository; it is modelled from how               *)
(* authreconcile.mjs and nodebroadcast.mjs use it.                         *)
(***************************************************************************)
EXTENDS Naturals, WalletTx

CONSTANTS
  ForeignOps,    \* coins somebody else holding the wallet may spend
  MaxDepth,      \* confirmations are counted up to this bound
  MaxReorgs      \* bound on disconnected blocks

VARIABLES
  sent,          \* history: transactions handed to a broadcaster
  mempool,
  depth,         \* confirmations of every mined transaction
  reorgs

netVars == <<sent, mempool, depth, reorgs>>

ASSUME NetAssumption ==
  /\ MaxDepth \in Nat \ {0}
  /\ MaxReorgs \in Nat
  /\ ForeignOps \subseteq Outpoints

Mined == DOMAIN depth
UnspentInChain(op) == \A t \in Mined : ~Spends(t, op)
Unspent(op) == UnspentInChain(op) /\ \A t \in mempool : ~Spends(t, op)

\* testmempoolaccept: the inputs are there, or our transaction already is.
Acceptable(t) == t \in mempool \/ \A op \in t.ins : Unspent(op)

NetTx == ClaimTx \cup {Foreign(op) : op \in Outpoints}

NetTypeOK ==
  /\ sent \subseteq ClaimTx
  /\ mempool \subseteq NetTx
  /\ depth \in [Mined -> 1 .. MaxDepth]
  /\ Mined \subseteq NetTx
  /\ reorgs \in 0 .. MaxReorgs

NetInit ==
  /\ sent = {}
  /\ mempool = {}
  /\ depth = <<>>
  /\ reorgs = 0

Deeper(n) == IF n < MaxDepth THEN n + 1 ELSE n

\* A block confirms some of the mempool and buries the rest of the chain.
MineBlock ==
  \E block \in SUBSET mempool :
    /\ depth' = [t \in Mined \cup block |-> IF t \in block THEN 1 ELSE Deeper(depth[t])]
    /\ mempool' = mempool \ block
    /\ depth' # depth
    /\ UNCHANGED <<sent, reorgs>>

\* The tip is disconnected: its transactions return to the mempool or vanish.
DisconnectBlock ==
  LET tip == {t \in Mined : depth[t] = 1}
  IN  /\ reorgs < MaxReorgs
      /\ Mined # {}
      /\ reorgs' = reorgs + 1
      /\ depth' = [t \in Mined \ tip |-> depth[t] - 1]
      /\ \E back \in SUBSET tip : mempool' = mempool \cup back
      /\ UNCHANGED sent

Evict ==
  \E t \in mempool :
    /\ mempool' = mempool \ {t}
    /\ UNCHANGED <<sent, depth, reorgs>>

\* Somebody else's spend of the same coin is mined; conflicting ones leave.
ForeignSpend ==
  \E op \in ForeignOps :
    /\ UnspentInChain(op)
    /\ depth' = [t \in Mined \cup {Foreign(op)} |-> IF t \in Mined THEN depth[t] ELSE 1]
    /\ mempool' = {t \in mempool : ~Spends(t, op)}
    /\ UNCHANGED <<sent, reorgs>>

NetNext == MineBlock \/ DisconnectBlock \/ Evict \/ ForeignSpend
===============================================================================
