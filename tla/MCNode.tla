-------------------------------- MODULE MCNode --------------------------------
(***************************************************************************)
(* The faucet that pays from a node of its own, and the services beside the  *)
(* node: small instances, explored one at a time.  They share no variable;   *)
(* part names the one that moves while the others stay as they start.        *)
(***************************************************************************)
EXTENDS MCFaucet, NodeServices, NotifyBot, StreetWatch

VARIABLE part

nodeServicesVars == <<queueVars, relayVars, broadcastVars, requestVars>>
nodeRunVars == <<part, vars, nodeServicesVars, notifyVars, streetVars>>

MCNoTip == [height |-> 99, hash |-> 99]

NodeInit ==
    /\ part \in {"faucet", "queue", "testnet", "broad", "node", "notify", "street"}
    /\ Init /\ NotifyInit
    /\ QueueInit /\ RelayInit /\ BroadcastInit /\ RequestsInit
    /\ StreetInit /\ (part # "street" => nodeMempool = {})

Elsewhere ==
    /\ UNCHANGED part
    /\ IF part = "faucet" THEN TRUE ELSE UNCHANGED vars
    /\ IF part = "queue" THEN TRUE ELSE UNCHANGED queueVars
    /\ IF part = "testnet" THEN TRUE ELSE UNCHANGED relayVars
    /\ IF part = "broad" THEN TRUE ELSE UNCHANGED broadcastVars
    /\ IF part = "node" THEN TRUE ELSE UNCHANGED requestVars
    /\ IF part = "notify" THEN TRUE ELSE UNCHANGED notifyVars
    /\ IF part = "street" THEN TRUE ELSE UNCHANGED streetVars
Moves(p) == part = p /\ Elsewhere

NodeNext ==
    \/ Moves("faucet") /\ Next
    \/ Moves("queue") /\ QueueNext
    \/ Moves("testnet") /\ RelayNext
    \/ Moves("broad") /\ BroadcastNext
    \/ Moves("node") /\ RequestsNext
    \/ Moves("notify") /\ NotifyNext
    \/ Moves("street") /\ StreetNext

NodeSpec == NodeInit /\ [][NodeNext]_nodeRunVars
===============================================================================
