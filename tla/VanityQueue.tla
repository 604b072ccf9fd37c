----------------------------- MODULE VanityQueue -----------------------------
(***************************************************************************)
(* The node API's split-key vanity service (infra/nodeapi/lib.mjs and         *)
(* spawnVanity in server.mjs): one search process at a time, a FIFO queue,    *)
(* one job per client, and jobs nobody asks about any more are dropped.       *)
(***************************************************************************)
EXTENDS Naturals, Sequences, SequencesExt

CONSTANTS
    Clients,
    NoJob,
    MaxQueued,
    MaxVanityJobs  \* bound: jobs submitted

ASSUME QueueAssumption == NoJob \notin Nat

VARIABLES
    vjobs,        \* jobs by id: [client, state, stale, kept]
    vqueue,       \* ids waiting, first in first out
    vrunning,     \* this.running
    procs,        \* search processes not killed
    dying         \* killed ones whose last output may still arrive
queueVars == <<vjobs, vqueue, vrunning, procs, dying>>

Ended == {"done", "failed", "cancelled"}
JobIds == DOMAIN vjobs
Live(id) == vjobs[id].state \in {"queued", "running"}
KnownJob(id) == vjobs[id].kept

(***************************************************************************)
(* _end for a job, and the _pump that follows: the first job of the queue     *)
(* whose process starts runs, those before it fail.                          *)
(***************************************************************************)
\* Mutant: the process of a job that ends while it runs is not killed.
EndProcKeeps(id) == procs
EndProc(id) == procs \ {id}

Pumped(jobs, queue, run) ==
    IF run # NoJob \/ queue = <<>>
    THEN /\ vjobs' = jobs /\ vqueue' = queue /\ vrunning' = run
    ELSE \E k \in 0..Len(queue) :                      \* k processes fail to start
           LET failed == {queue[i] : i \in 1..k}
               next == IF k < Len(queue) THEN queue[k + 1] ELSE NoJob
           IN  /\ vjobs' = [id \in DOMAIN jobs |->
                               IF id \in failed THEN [jobs[id] EXCEPT !.state = "failed"]
                               ELSE IF id = next THEN [jobs[id] EXCEPT !.state = "running"]
                               ELSE jobs[id]]
               /\ vqueue' = SubSeq(queue, k + 2, Len(queue))
               /\ vrunning' = next
End(id, state) ==
    LET left == EndProc(id)
    IN  /\ Pumped([vjobs EXCEPT ![id].state = state], RemoveFirst(vqueue, id),
                  IF vrunning = id THEN NoJob ELSE vrunning)
        /\ procs' = left \cup ({vrunning'} \ {NoJob})
        /\ dying' = dying \cup (procs \ left)

(***************************************************************************)
(* The requests.                                                            *)
(***************************************************************************)
SubmitSearch(c) ==
    /\ Len(vjobs) < MaxVanityJobs                      \* bound
    /\ \A id \in JobIds : vjobs[id].client = c /\ KnownJob(id) => ~Live(id)
    /\ Len(vqueue) < MaxQueued
    /\ LET job == [client |-> c, state |-> "queued", stale |-> FALSE, kept |-> TRUE]
       IN  Pumped(Append(vjobs, job), Append(vqueue, Len(vjobs) + 1), vrunning)
    /\ procs' = procs \cup ({vrunning'} \ {NoJob})
    /\ UNCHANGED dying
View(id) ==
    /\ KnownJob(id) /\ vjobs[id].stale
    /\ vjobs' = [vjobs EXCEPT ![id].stale = FALSE]
    /\ UNCHANGED <<vqueue, vrunning, procs, dying>>
CancelJob(id) ==                                       \* by its own client
    /\ KnownJob(id) /\ Live(id)
    /\ End(id, "cancelled")

(***************************************************************************)
(* The process reports a match or an error; a job that has ended ignores it.  *)
(***************************************************************************)
Report(id, state) ==
    /\ id \in procs \cup dying
    /\ IF Live(id) THEN End(id, state)
       ELSE dying' = dying \ {id} /\ UNCHANGED <<vjobs, vqueue, vrunning, procs>>
TimeLimit ==                                           \* five times the expected time
    /\ vrunning # NoJob
    /\ End(vrunning, "failed")

(***************************************************************************)
(* Ten minutes without a poll, or thirty since the end: gc() goes through the *)
(* jobs one by one, and what it ends makes room for the next as it goes.     *)
(***************************************************************************)
Silence(id) ==
    /\ KnownJob(id) /\ ~vjobs[id].stale
    /\ vjobs' = [vjobs EXCEPT ![id].stale = TRUE]
    /\ UNCHANGED <<vqueue, vrunning, procs, dying>>
Gc(id) ==
    /\ KnownJob(id) /\ vjobs[id].stale
    /\ IF Live(id) THEN End(id, "cancelled")
       ELSE vjobs' = [vjobs EXCEPT ![id].kept = FALSE] /\ UNCHANGED <<vqueue, vrunning, procs, dying>>

QueueInit == vjobs = <<>> /\ vqueue = <<>> /\ vrunning = NoJob /\ procs = {} /\ dying = {}
QueueNext ==
    \/ \E c \in Clients : SubmitSearch(c)
    \/ \E id \in JobIds : \/ View(id) \/ CancelJob(id) \/ Silence(id) \/ Gc(id)
                          \/ \E state \in {"done", "failed"} : Report(id, state)
    \/ TimeLimit
QueueSpec == QueueInit /\ [][QueueNext]_queueVars

(***************************************************************************)
(* Properties.                                                              *)
(***************************************************************************)
\* One search process at most, for the job that runs, and nobody waits while none
\* does, whatever was cancelled, abandoned or failed to start (lib.mjs 651-653).
OneSearchRuns ==
    /\ procs = {vrunning} \ {NoJob}
    /\ vqueue # <<>> => vrunning # NoJob
    /\ {id \in JobIds : vjobs[id].state = "running"} = {vrunning} \ {NoJob}
    /\ \A id \in JobIds : vjobs[id].state = "queued" <=> Contains(vqueue, id)
=============================================================================
