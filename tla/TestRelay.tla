------------------------------ MODULE TestRelay ------------------------------
(***************************************************************************)
(* The practice networks' relay (EsploraBackend in nodeapi/lib.mjs): lookup   *)
(* jobs that share cached reads of a public data service, every outbound      *)
(* request through a bounded number of slots, and broadcasts that empty the   *)
(* cache.  Each read and each call ends: it answers, fails or times out.      *)
(***************************************************************************)
EXTENDS Naturals, FiniteSets, SequencesExt

CONSTANTS
    Scripts, Tip,    \* what jobs read: the coins of a script, and the tip
    RelayCalls,      \* broadcasts and previous-transaction requests
    RelayJobs,
    Concurrency,     \* slots (6 in the code)
    MaxKept          \* jobs kept at once (300 in the code)

ReadKeys == Scripts \cup {Tip}

ASSUME RelayAssumption ==
    /\ IsFiniteSet(Scripts) /\ Concurrency \in Nat
    /\ Tip \notin Scripts /\ RelayCalls \cap ReadKeys = {}

VARIABLES
    cache,          \* the keys with a fresh answer
    readsInflight,  \* the keys being read
    active,         \* the requests that hold a slot
    waiters,        \* the requests waiting for one, in order
    jobs            \* job -> [state, left]: what it still waits for; state "none" when there is no such job
relayVars == <<cache, readsInflight, active, waiters, jobs>>

NoRelayJob == [state |-> "none", left |-> {}]
Kept == {j \in RelayJobs : jobs[j].state # "none"}
JobOf(left) == [state |-> IF left = {} THEN "done" ELSE "scanning", left |-> left]

(***************************************************************************)
(* _slot: a request waits while every slot is held; one that ends, well or    *)
(* not, lets the first that waits in.                                        *)
(***************************************************************************)
Queued(asking) ==
    LET room == Concurrency - Cardinality(active)
        lets == IF Len(asking) < room THEN Len(asking) ELSE room
    IN  /\ active' = active \cup {asking[i] : i \in 1..lets}
        /\ waiters' = waiters \o SubSeq(asking, lets + 1, Len(asking))

\* Mutant: a request that failed gives its slot back and wakes nobody.
LeavesQuietly(r, failed) ==
    /\ active' = (active \ {r}) \cup {w \in {Head(waiters) : i \in DOMAIN waiters} : ~failed}
    /\ waiters' = IF waiters # <<>> /\ ~failed THEN Tail(waiters) ELSE waiters

Leaves(r, failed) ==
    /\ active' = (active \ {r}) \cup {Head(waiters) : i \in DOMAIN waiters}
    /\ waiters' = IF waiters = <<>> THEN waiters ELSE Tail(waiters)

(***************************************************************************)
(* submit: the tip and every script through _cached; a fresh answer is used,  *)
(* a read under way is shared, anything else is asked for.                   *)
(***************************************************************************)
SubmitLookup(j, scripts) ==
    LET missed == (scripts \cup {Tip}) \ cache
    IN  /\ jobs[j].state = "none"
        /\ \E old \in SUBSET Kept :                                  \* gc: jobs past their time
              /\ Cardinality(Kept \ old) < MaxKept
              /\ jobs' = [i \in RelayJobs |-> IF i = j THEN JobOf(missed) ELSE IF i \in old THEN NoRelayJob ELSE jobs[i]]
        /\ readsInflight' = readsInflight \cup missed
        /\ Queued(SetToSeq(missed \ readsInflight))
        /\ UNCHANGED cache

\* /status: the tip alone, for no job
Status ==
    /\ Tip \notin cache \cup readsInflight
    /\ readsInflight' = readsInflight \cup {Tip}
    /\ Queued(<<Tip>>)
    /\ UNCHANGED <<cache, jobs>>

(***************************************************************************)
(* A read ends: every job that shares it goes on, or fails with it.           *)
(***************************************************************************)
Waits(j, k) == jobs[j].state = "scanning" /\ k \in jobs[j].left
Answer(k) ==
    /\ k \in readsInflight \cap active
    /\ cache' = cache \cup {k}
    /\ readsInflight' = readsInflight \ {k}
    /\ jobs' = [j \in RelayJobs |-> IF Waits(j, k) THEN JobOf(jobs[j].left \ {k}) ELSE jobs[j]]
    /\ Leaves(k, FALSE)
NoAnswer(k) ==
    /\ k \in readsInflight \cap active
    /\ readsInflight' = readsInflight \ {k}
    /\ jobs' = [j \in RelayJobs |-> IF Waits(j, k) THEN [state |-> "error", left |-> {}] ELSE jobs[j]]
    /\ Leaves(k, TRUE)
    /\ UNCHANGED cache
Expire(k) ==
    /\ k \in cache
    /\ cache' = cache \ {k}
    /\ UNCHANGED <<readsInflight, active, waiters, jobs>>

(***************************************************************************)
(* broadcast and prevTx: a broadcast that was answered empties the cache.     *)
(***************************************************************************)
Call(c) ==
    /\ c \notin active /\ c \notin ToSet(waiters)
    /\ Queued(<<c>>)
    /\ UNCHANGED <<cache, readsInflight, jobs>>
Reply(c) ==
    /\ c \in active
    /\ cache' \in {{}, cache}
    /\ Leaves(c, FALSE)
    /\ UNCHANGED <<readsInflight, jobs>>
NoReply(c) ==
    /\ c \in active
    /\ Leaves(c, TRUE)
    /\ UNCHANGED <<cache, readsInflight, jobs>>

RelayInit ==
    /\ cache = {} /\ readsInflight = {} /\ active = {} /\ waiters = <<>>
    /\ jobs = [j \in RelayJobs |-> NoRelayJob]
RelayNext ==
    \/ Status
    \/ \E j \in RelayJobs, scripts \in (SUBSET Scripts) \ {{}} : SubmitLookup(j, scripts)
    \/ \E k \in ReadKeys : Answer(k) \/ NoAnswer(k) \/ Expire(k)
    \/ \E c \in RelayCalls : Call(c) \/ Reply(c) \/ NoReply(c)
RelaySpec == RelayInit /\ [][RelayNext]_relayVars

\* Nobody waits for nothing: a job that scans shares a read that holds a slot or
\* stands in line for one, and a line forms only while every slot is held, so it
\* moves on whatever fails (_slot, _cached, submit).
NobodyWaitsForNothing ==
    /\ \A j \in RelayJobs : jobs[j].state = "scanning" => jobs[j].left # {} /\ jobs[j].left \subseteq readsInflight
    /\ readsInflight \subseteq active \cup ToSet(waiters)
    /\ Cardinality(active) <= Concurrency
    /\ waiters # <<>> => Cardinality(active) = Concurrency
=============================================================================
