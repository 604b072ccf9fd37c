---------------------------- MODULE NodeRequests ----------------------------
(***************************************************************************)
(* The node API's two requests that hold the node for long or change it        *)
(* (nodeapi/server.mjs): /prevtx, which may have the pruned node fetch an old  *)
(* block from a peer (fetchPrevTx), and /broadcast.  Both pass a rate limit.   *)
(***************************************************************************)
EXTENDS Naturals, FiniteSets

CONSTANTS
    PrevRequests, SendRequests, NoResponse,
    MaxRequestHits,  \* requests of one client and kind in a window
    MaxPrev,         \* /prevtx under way at once (4 in the code)
    Attempts,        \* peers asked for the block
    Polls            \* looks for the block after each

ApiCalls == PrevRequests \cup SendRequests

ASSUME RequestsAssumption ==
    IsFiniteSet(PrevRequests) /\ PrevRequests \cap SendRequests = {} /\ MaxPrev \in Nat

VARIABLES
    requestStage,    \* request -> "new", "body", "ask", "peers", "fetch", "poll", "test", "send" or "answered"
    response,        \* request -> the HTTP code it got, or NoResponse
    tries,           \* request -> [attempt, polls] of fetchPrevTx
    prevtxInflight,  \* the searches under way
    requestHits,     \* kind -> requests counted in its window
    onDisk,          \* the node has the old block
    broadcastTx      \* the node and the broadcast transaction: "absent", "mempool" or "mined"
requestVars == <<requestStage, response, tries, prevtxInflight, requestHits, onDisk, broadcastTx>>

Looking == {r \in PrevRequests : requestStage[r] \in {"ask", "peers", "fetch", "poll"}}
Kind(r) == IF r \in PrevRequests THEN "prevtx" ELSE "broadcast"
To(r, s) == requestStage' = [requestStage EXCEPT ![r] = s] /\ UNCHANGED response
Responds(r, code) == /\ requestStage' = [requestStage EXCEPT ![r] = "answered"]
                     /\ response' = [response EXCEPT ![r] = code]

(***************************************************************************)
(* gate: RateLimiter.over counts a hit, the refused ones too, and compares.   *)
(***************************************************************************)
RequestArrives(r) ==
    /\ requestStage[r] = "new"
    /\ requestHits' = [requestHits EXCEPT ![Kind(r)] = @ + 1]
    /\ \/ requestHits[Kind(r)] >= MaxRequestHits /\ Responds(r, 429)
       \/ requestHits[Kind(r)] < MaxRequestHits /\ To(r, "body")
    /\ UNCHANGED <<tries, prevtxInflight, onDisk, broadcastTx>>
WindowSlides(kind) ==
    /\ requestHits[kind] > 0
    /\ \E n \in 0..(requestHits[kind] - 1) : requestHits' = [requestHits EXCEPT ![kind] = n]
    /\ UNCHANGED <<requestStage, response, tries, prevtxInflight, onDisk, broadcastTx>>
BadBody(r) ==
    /\ requestStage[r] = "body" /\ Responds(r, 400)
    /\ UNCHANGED <<tries, prevtxInflight, requestHits, onDisk, broadcastTx>>

(***************************************************************************)
(* /prevtx: refused or counted once the body is in; counted off however the   *)
(* search for the transaction ends.                                          *)
(***************************************************************************)
\* Mutant: an answer with an error leaves the counter as it is.
CountedOffWhenFound(code) == prevtxInflight' = IF code = 200 THEN prevtxInflight - 1 ELSE prevtxInflight

CountedOff(code) == prevtxInflight' = prevtxInflight - 1

PrevBody(r) ==
    /\ r \in PrevRequests /\ requestStage[r] = "body"
    /\ \/ prevtxInflight >= MaxPrev /\ Responds(r, 503) /\ UNCHANGED prevtxInflight
       \/ prevtxInflight < MaxPrev /\ To(r, "ask") /\ prevtxInflight' = prevtxInflight + 1
    /\ tries' = [tries EXCEPT ![r] = [attempt |-> 0, polls |-> 0]]
    /\ UNCHANGED <<requestHits, onDisk, broadcastTx>>
Found(r, code) == Responds(r, code) /\ CountedOff(code) /\ UNCHANGED tries
NextPeer(r) ==
    IF tries[r].attempt < Attempts
    THEN To(r, "peers") /\ UNCHANGED <<prevtxInflight, tries>>
    ELSE Found(r, 503)

\* getrawtransaction: there, not in that block, or an error, taken for a pruned block
AskNode(r) ==
    /\ requestStage[r] = "ask"
    /\ \/ onDisk /\ \E code \in {200, 404, 502} : Found(r, code)
       \/ NextPeer(r)
       \/ \E code \in {400, 502} : Found(r, code)          \* above the tip; the node fails
    /\ UNCHANGED <<requestHits, onDisk, broadcastTx>>
\* getpeerinfo, then getblockfrompeer; a refusal moves on to the next attempt
Peers(r) ==
    /\ requestStage[r] = "peers"
    /\ \/ To(r, "fetch") /\ tries' = [tries EXCEPT ![r].attempt = @ + 1] /\ UNCHANGED prevtxInflight
       \/ \E code \in {502, 503} : Found(r, code)          \* the node fails; no such peer
    /\ UNCHANGED <<requestHits, onDisk, broadcastTx>>
Fetch(r) ==
    /\ requestStage[r] = "fetch"
    /\ \/ NextPeer(r)
       \/ To(r, "poll") /\ tries' = [tries EXCEPT ![r].polls = 0] /\ UNCHANGED prevtxInflight
    /\ UNCHANGED <<requestHits, onDisk, broadcastTx>>
PollForBlock(r) ==
    /\ requestStage[r] = "poll"
    /\ \/ onDisk /\ \E code \in {200, 404, 502} : Found(r, code)
       \/ /\ tries[r].polls + 1 < Polls
          /\ tries' = [tries EXCEPT ![r].polls = @ + 1]
          /\ UNCHANGED <<requestStage, response, prevtxInflight>>
       \/ tries[r].polls + 1 >= Polls /\ NextPeer(r)
    /\ UNCHANGED <<requestHits, onDisk, broadcastTx>>
\* the block comes from a peer, and is pruned again
Block ==
    /\ onDisk' = ~onDisk
    /\ onDisk \/ \E r \in PrevRequests : requestStage[r] = "poll"
    /\ UNCHANGED <<requestStage, response, tries, prevtxInflight, requestHits, broadcastTx>>

(***************************************************************************)
(* /broadcast: a transaction the node has already is a success.               *)
(***************************************************************************)
SendBody(r) ==
    /\ r \in SendRequests /\ requestStage[r] = "body"
    /\ To(r, "test")
    /\ UNCHANGED <<tries, prevtxInflight, requestHits, onDisk, broadcastTx>>
Test(r) ==
    /\ requestStage[r] = "test"
    /\ \/ broadcastTx = "absent" /\ To(r, "send")
       \/ broadcastTx = "absent" /\ Responds(r, 400)         \* invalid, or its fee is too low
       \/ broadcastTx # "absent" /\ Responds(r, 200)
       \/ broadcastTx = "mined" /\ Responds(r, 400)          \* and its outputs spent: inputs missing
       \/ Responds(r, 502)
    /\ UNCHANGED <<tries, prevtxInflight, requestHits, onDisk, broadcastTx>>
SendToNode(r) ==
    /\ requestStage[r] = "send"
    /\ \/ broadcastTx # "mined" /\ broadcastTx' = "mempool" /\ \E code \in {200, 502} : Responds(r, code)
       \/ Responds(r, 502) /\ UNCHANGED broadcastTx          \* mined meanwhile, or the node failed
    /\ UNCHANGED <<tries, prevtxInflight, requestHits, onDisk>>
TxMined ==
    /\ broadcastTx = "mempool" /\ broadcastTx' = "mined"
    /\ UNCHANGED <<requestStage, response, tries, prevtxInflight, requestHits, onDisk>>

RequestsInit ==
    /\ requestStage = [r \in ApiCalls |-> "new"] /\ response = [r \in ApiCalls |-> NoResponse]
    /\ tries = [r \in PrevRequests |-> [attempt |-> 0, polls |-> 0]]
    /\ prevtxInflight = 0 /\ requestHits = [k \in {"prevtx", "broadcast"} |-> 0]
    /\ onDisk = FALSE /\ broadcastTx = "absent"
RequestsNext ==
    \/ Block \/ TxMined \/ \E k \in {"prevtx", "broadcast"} : WindowSlides(k)
    \/ \E r \in ApiCalls : RequestArrives(r) \/ BadBody(r)
    \/ \E r \in PrevRequests : PrevBody(r) \/ AskNode(r) \/ Peers(r) \/ Fetch(r) \/ PollForBlock(r)
    \/ \E r \in SendRequests : SendBody(r) \/ Test(r) \/ SendToNode(r)
RequestsSpec == RequestsInit /\ [][RequestsNext]_requestVars

\* However a search for an old transaction ends, its place is free again, and
\* never more of them run than the node is meant to bear (prevtxInflight).
PrevtxPlacesComeBack ==
    /\ prevtxInflight = Cardinality(Looking)
    /\ prevtxInflight <= MaxPrev
=============================================================================
