--------------------------- MODULE BroadcastRelay ---------------------------
(***************************************************************************)
(* The stand-alone broadcast service (infra/broadcast/server.mjs): a request   *)
(* passes a rate limit and a cap on node subprocesses when it arrives; a      *)
(* broadcast then reads its body and runs two subprocesses in turn, each of   *)
(* which may fail or be cut off by its timeout after the node has acted.      *)
(***************************************************************************)
EXTENDS Naturals, FiniteSets

CONSTANTS
    Broadcasts, NoCode,
    MaxBroadcastHits,  \* LIMITS: hits in a window
    InflightMax        \* INFLIGHT_MAX

ASSUME BroadcastAssumption == IsFiniteSet(Broadcasts)

VARIABLES
    castStage,     \* request -> "new", "body", "status", "test", "send" or "answered"
    castAnswer,    \* request -> the HTTP code it got, or NoCode
    castInflight,  \* the counter
    castHits,      \* path -> requests counted in its window, the refused ones too
    nodeHolds      \* the node has the transaction
broadcastVars == <<castStage, castAnswer, castInflight, castHits, nodeHolds>>

Children == {r \in Broadcasts : castStage[r] \in {"status", "test", "send"}}

Paths == {"status", "body"}      \* GET /status, and POST /broadcast, whose body comes first
AtStage(r, s) == castStage' = [castStage EXCEPT ![r] = s] /\ UNCHANGED castAnswer
Says(r, code) == /\ castStage' = [castStage EXCEPT ![r] = "answered"]
                 /\ castAnswer' = [castAnswer EXCEPT ![r] = code]

(***************************************************************************)
(* rateLimited counts the hit before it compares; old hits leave the window.  *)
(***************************************************************************)
Limited(path) == castHits[path] + 1 > MaxBroadcastHits
HitsSlide(path) ==
    /\ castHits[path] > 0
    /\ \E n \in 0..(castHits[path] - 1) : castHits' = [castHits EXCEPT ![path] = n]
    /\ UNCHANGED <<castStage, castAnswer, castInflight, nodeHolds>>

(***************************************************************************)
(* bcli: the counter goes up with the subprocess and down however it ends.    *)
(***************************************************************************)
\* Mutant: only a subprocess that answered is counted off.
ChildEndsOnAnswer(ok) == castInflight' = IF ok THEN castInflight - 1 ELSE castInflight

ChildEnds(ok) == castInflight' = castInflight - 1

BroadcastArrives(r, path) ==
    /\ castStage[r] = "new"
    /\ castHits' = [castHits EXCEPT ![path] = @ + 1]
    /\ UNCHANGED nodeHolds
    /\ \/ Limited(path) /\ Says(r, 429) /\ UNCHANGED castInflight
       \/ ~Limited(path) /\ castInflight >= InflightMax /\ Says(r, 503) /\ UNCHANGED castInflight
       \/ /\ ~Limited(path) /\ castInflight < InflightMax
          /\ AtStage(r, path)
          /\ castInflight' = IF path = "status" THEN castInflight + 1 ELSE castInflight
StatusEnds(r) ==
    /\ castStage[r] = "status"
    /\ \E ok \in BOOLEAN : ChildEnds(ok) /\ Says(r, IF ok THEN 200 ELSE 502)
    /\ UNCHANGED <<castHits, nodeHolds>>

\* the body is in: no hexadecimal text, or on to testmempoolaccept
Body(r) ==
    /\ castStage[r] = "body"
    /\ \/ Says(r, 400) /\ UNCHANGED castInflight
       \/ AtStage(r, "test") /\ castInflight' = castInflight + 1
    /\ UNCHANGED <<castHits, nodeHolds>>
TestEnds(r) ==
    /\ castStage[r] = "test"
    /\ \/ ~nodeHolds /\ AtStage(r, "send") /\ UNCHANGED castInflight \* one ends, the next starts
       \/ nodeHolds /\ ChildEnds(TRUE) /\ Says(r, 400)          \* already in the mempool
       \/ ChildEnds(TRUE) /\ Says(r, 400)                       \* refused for another reason
       \/ ChildEnds(FALSE) /\ Says(r, 400)                      \* failed, or timed out
    /\ UNCHANGED <<castHits, nodeHolds>>
SendEnds(r) ==
    /\ castStage[r] = "send"
    /\ \/ ChildEnds(TRUE) /\ Says(r, 200) /\ nodeHolds' = TRUE
       \/ ChildEnds(FALSE) /\ Says(r, 400) /\ nodeHolds' \in {nodeHolds, TRUE} \* cut off: before or after the node took it
    /\ UNCHANGED castHits

BroadcastInit ==
    /\ castStage = [r \in Broadcasts |-> "new"] /\ castAnswer = [r \in Broadcasts |-> NoCode]
    /\ castInflight = 0 /\ castHits = [path \in Paths |-> 0] /\ nodeHolds = FALSE
BroadcastNext ==
    \/ \E path \in Paths : HitsSlide(path) \/ \E r \in Broadcasts : BroadcastArrives(r, path)
    \/ \E r \in Broadcasts : StatusEnds(r) \/ Body(r) \/ TestEnds(r) \/ SendEnds(r)
BroadcastSpec == BroadcastInit /\ [][BroadcastNext]_broadcastVars

\* The counter that turns requests away is the number of subprocesses there are,
\* whatever failed: it never sticks at the cap, and below it a client within its
\* rate is not refused (bcli and its finally).
CounterIsChildren == castInflight = Cardinality(Children)

\* The hard cap on concurrent subprocesses (server.mjs:16).  The code does not
\* keep it: the cap is read when a request arrives, the subprocesses start after
\* its body has been read.
SubprocessesCapped == Cardinality(Children) <= InflightMax
=============================================================================
