------------------------------- MODULE BlockTree ------------------------------
(***************************************************************************)
(* A tree of blocks and the branch the operator's Bitcoin Core holds to be *)
(* the best one, which a branch with more work may replace.  None of it is *)
(* code of this repository; the node API and the notify bot read it by RPC.*)
(***************************************************************************)
EXTENDS Naturals

CONSTANTS
  Blocks,
  Genesis,       \* the root of the tree
  Tips,          \* bound: the blocks that may become the best one
  Parent,        \* previousblockhash
  MaxHeight,     \* bound on block heights, counted from Genesis
  Height

Heights == 0 .. MaxHeight

ASSUME TreeAssumption ==
  /\ Genesis \in Blocks /\ Tips \subseteq Blocks
  /\ Parent \in [Blocks -> Blocks] /\ Parent[Genesis] = Genesis
  /\ MaxHeight \in Nat /\ Height \in [Blocks -> Heights]
  /\ \A b \in Blocks \ {Genesis} : Height[b] = Height[Parent[b]] + 1

VARIABLE tip     \* the best block

\* The best chain, as getblockheader and getblockhash see it.
Below[b \in Blocks] == IF b = Genesis THEN {b} ELSE {b} \cup Below[Parent[b]]
BestChain == Below[tip]
BestAt(h) == {b \in Blocks : b \in BestChain /\ Height[b] = h}

\* A block, or a branch with more work, becomes the best chain.
Connect(b) ==
  /\ Height[b] > Height[tip]
  /\ tip' = b
===============================================================================
