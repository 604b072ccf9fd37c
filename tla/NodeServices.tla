------------------------------ MODULE NodeServices ------------------------------
(***************************************************************************)
(* The services around the node that share something scarce among their       *)
(* callers: the one vanity search, the slots of the practice relay, the        *)
(* subprocesses of the broadcast service and the places of /prevtx.  Each      *)
(* keeps its own books; they share no variable.                              *)
(***************************************************************************)
EXTENDS VanityQueue, TestRelay, BroadcastRelay, NodeRequests

\* No place is lost or taken twice: the search that runs is the only one
\* (VanityQueue.tla), a slot that is free has nobody waiting (TestRelay.tla), and
\* the counters are those of the calls under way (BroadcastRelay.tla,
\* NodeRequests.tla).
PlacesComeBack ==
    /\ OneSearchRuns
    /\ NobodyWaitsForNothing
    /\ CounterIsChildren
    /\ PrevtxPlacesComeBack
=================================================================================
