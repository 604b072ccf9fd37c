---------------------------- MODULE NodeServiceProofs ----------------------------
(***************************************************************************)
(* The services around the node and the two bots, proved for every number of *)
(* clients, jobs, requests, slots, alerts and mentions: each has its inductive*)
(* invariant and its theorem, and the last theorem is that no place of any of*)
(* the services is lost.                                                     *)
(***************************************************************************)
EXTENDS NodeServices, NotifyBot, NostrBot, StreetWatch, FiniteSetTheorems, SequenceTheorems,
        WellFoundedInduction, TLAPS

(***************************************************************************)
(* The one vanity search and its line.                                       *)
(***************************************************************************)
JobStates == {"queued", "running"} \cup Ended
VanityJobs == [client : Clients, state : JobStates, stale : BOOLEAN, kept : BOOLEAN]

(* The jobs, the line and the one that runs agree.                           *)
Booked(list, queue, front) ==
    /\ list \in Seq(VanityJobs) /\ queue \in Seq(DOMAIN list)
    /\ \A i, j \in 1..Len(queue) : queue[i] = queue[j] => i = j
    /\ front \in DOMAIN list \cup {NoJob}
    /\ \A id \in DOMAIN list : /\ list[id].state = "queued" <=> Contains(queue, id)
                               /\ list[id].state = "running" <=> id = front
QueueInv ==
    /\ Booked(vjobs, vqueue, vrunning)
    /\ vqueue # <<>> => vrunning # NoJob
    /\ procs = {vrunning} \ {NoJob}

(* One entry of a sequence replaced.                                         *)
LEMMA EntryReplaced ==
  ASSUME NEW S, NEW s \in Seq(S), NEW i \in DOMAIN s, NEW e \in S
  PROVE  /\ [s EXCEPT ![i] = e] \in Seq(S) /\ DOMAIN [s EXCEPT ![i] = e] = DOMAIN s
         /\ \A j \in DOMAIN s : [s EXCEPT ![i] = e][j] = IF j = i THEN e ELSE s[j]
  OBVIOUS

(* The pump keeps the books, and leaves nobody in line while nothing runs.   *)
LEMMA PumpKeeps ==
  ASSUME NEW list, NEW queue, NEW front, Booked(list, queue, front),
         Pumped(list, queue, front)
  PROVE  /\ Booked(vjobs', vqueue', vrunning')
         /\ vqueue' # <<>> => vrunning' # NoJob
         /\ front # NoJob => vrunning' = front
  <1>1. CASE front # NoJob \/ queue = <<>>
    BY <1>1 DEF Pumped
  <1>2. CASE front = NoJob /\ queue # <<>>
    <2> DEFINE n == Len(queue)
               m == Len(list)
               failed(k) == {queue[i] : i \in 1..k}
               next(k) == IF k < n THEN queue[k + 1] ELSE NoJob
    <2>1. PICK k \in 0..n :
             /\ vjobs' = [id \in DOMAIN list |->
                            IF id \in failed(k) THEN [list[id] EXCEPT !.state = "failed"]
                            ELSE IF id = next(k) THEN [list[id] EXCEPT !.state = "running"]
                            ELSE list[id]]
             /\ vqueue' = SubSeq(queue, k + 2, n)
             /\ vrunning' = next(k)
      BY <1>2 DEF Pumped, n
    <2> HIDE DEF n, m
    <2>2. /\ list \in Seq(VanityJobs) /\ DOMAIN list = 1..m /\ m \in Nat
          /\ \A id \in 1..m : list[id] \in VanityJobs
          /\ queue \in Seq(1..m) /\ n = Len(queue) /\ n \in Nat /\ \A i \in 1..n : queue[i] \in 1..m
          /\ \A i, j \in 1..n : queue[i] = queue[j] => i = j
          /\ \A id \in 1..m : id # NoJob
      BY QueueAssumption DEF Booked, n, m
    <2>3. DOMAIN vjobs' = DOMAIN list /\ \A id \in DOMAIN list :
             /\ vjobs'[id] \in VanityJobs
             /\ vjobs'[id].state = IF id \in failed(k) THEN "failed" ELSE IF id = next(k) THEN "running"
                                   ELSE list[id].state
      BY <2>1, <2>2 DEF VanityJobs, JobStates, Ended
    <2>4. vjobs' \in Seq(VanityJobs)
      <3>1. vjobs' \in [1..m -> VanityJobs]
        BY <2>1, <2>2, <2>3
      <3>2. QED
        BY <3>1, <2>2, SeqDef
    <2>5. next(k) \in DOMAIN list \cup {NoJob} /\ (next(k) = NoJob => k = n)
      BY <2>2
    <2>6. vqueue' \in Seq(1..m) /\ Len(vqueue') = (IF k + 2 <= n THEN n - k - 1 ELSE 0)
          /\ \A i \in 1..Len(vqueue') : vqueue'[i] = queue[k + 1 + i] /\ k + 1 + i \in 1..n
      <3> DEFINE lo == k + 2
      <3>0. lo \in Int /\ n \in Int /\ vqueue' = SubSeq(queue, lo, n)
        BY <2>1, <2>2
      <3>1. \A i \in lo..n : queue[i] \in 1..m
        BY <2>2
      <3> HIDE DEF lo
      <3>s. /\ vqueue' \in Seq(1..m) /\ Len(vqueue') = (IF lo <= n THEN n - lo + 1 ELSE 0)
            /\ \A i \in 1..(n - lo + 1) : vqueue'[i] = queue[lo + i - 1]
        BY <3>0, <3>1, SubSeqProperties
      <3>2. /\ vqueue' \in Seq(1..m) /\ Len(vqueue') = (IF k + 2 <= n THEN n - (k + 2) + 1 ELSE 0)
            /\ \A i \in 1..(n - (k + 2) + 1) : vqueue'[i] = queue[k + 2 + i - 1]
        BY <3>s DEF lo
      <3>3. QED
        BY <2>2, <3>2
    <2>7. \A i, j \in 1..Len(vqueue') : vqueue'[i] = vqueue'[j] => i = j
      <3>1. ASSUME NEW i \in 1..Len(vqueue'), NEW j \in 1..Len(vqueue'), vqueue'[i] = vqueue'[j]
            PROVE  i = j
        <4>1. queue[k + 1 + i] = queue[k + 1 + j] /\ k + 1 + i \in 1..n /\ k + 1 + j \in 1..n
          BY <2>6, <3>1
        <4>2. k + 1 + i = k + 1 + j
          BY <4>1, <2>2
        <4>3. i \in Int /\ j \in Int
          BY <2>6
        <4>4. QED
          BY <4>2, <4>3
      <3>2. QED
        BY <3>1
    <2>8. ASSUME NEW id \in 1..m
          PROVE  /\ vjobs'[id].state = "queued" <=> Contains(vqueue', id)
                 /\ vjobs'[id].state = "running" <=> id = next(k)
      <3>1. id # NoJob
        BY <2>2
      <3>2. list[id].state # "running"
        BY <1>2, <2>2, <3>1 DEF Booked
      <3>3. CASE id \in failed(k)
        <4>1. PICK i \in 1..k : id = queue[i]
          BY <3>3
        <4>2. id # next(k)
          BY <4>1, <2>2, <3>1
        <4>3. ~ Contains(vqueue', id)
          BY <4>1, <2>2, <2>6 DEF Contains
        <4>4. QED
          BY <2>2, <2>3, <3>3, <4>2, <4>3
      <3>4. CASE id \notin failed(k) /\ id = next(k)
        <4>1. k < n /\ id = queue[k + 1]
          BY <3>1, <3>4
        <4>2. ~ Contains(vqueue', id)
          BY <4>1, <2>2, <2>6 DEF Contains
        <4>3. QED
          BY <2>2, <2>3, <3>4, <4>2
      <3>5. CASE id \notin failed(k) /\ id # next(k)
        <4>1. ASSUME NEW i \in 1..n, queue[i] = id
              PROVE  Contains(vqueue', id)
          <5>1. i > k + 1
            BY <3>5, <4>1, <2>2
          <5>2. i - k - 1 \in 1..Len(vqueue') /\ vqueue'[i - k - 1] = id
            BY <5>1, <4>1, <2>2, <2>6
          <5>3. QED
            BY <5>2 DEF Contains
        <4>2. Contains(vqueue', id) => Contains(queue, id)
          BY <2>6, <2>2 DEF Contains
        <4>3. Contains(queue, id) <=> Contains(vqueue', id)
          BY <4>1, <4>2, <2>2 DEF Contains
        <4>4. QED
          BY <2>2, <2>3, <3>2, <3>5, <4>3 DEF Booked
      <3>6. QED
        BY <3>3, <3>4, <3>5
    <2>9. vqueue' # <<>> => vrunning' # NoJob
      <3>1. next(k) = NoJob => Len(vqueue') = 0
        BY <2>2, <2>5, <2>6
      <3>2. Len(vqueue') = 0 => vqueue' = <<>>
        BY <2>6, EmptySeq
      <3>3. QED
        BY <2>1, <3>1, <3>2
    <2>10. QED
      BY <1>2, <2>1, <2>3, <2>4, <2>5, <2>6, <2>7, <2>8, <2>9, <2>2 DEF Booked
  <1>3. QED
    BY <1>1, <1>2

(* A line with one more at its end.                                          *)
LEMMA IntoLine ==
  ASSUME NEW n \in Nat, NEW queue \in Seq(1..n), \A i, j \in 1..Len(queue) : queue[i] = queue[j] => i = j
  PROVE  /\ Append(queue, n + 1) \in Seq(1..(n + 1))
         /\ \A i, j \in 1..Len(Append(queue, n + 1)) :
                Append(queue, n + 1)[i] = Append(queue, n + 1)[j] => i = j
         /\ ~ Contains(queue, n + 1) /\ Contains(Append(queue, n + 1), n + 1)
         /\ \A id \in 1..n : Contains(Append(queue, n + 1), id) <=> Contains(queue, id)
  <1> DEFINE l == Len(queue)
             q == Append(queue, n + 1)
  <1>1. l \in Nat /\ \A i \in 1..l : queue[i] \in 1..n
    OBVIOUS
  <1>2. queue \in Seq(1..(n + 1))
    BY 1..n \subseteq 1..(n + 1), SeqMonotonic
  <1>3. q \in Seq(1..(n + 1)) /\ Len(q) = l + 1 /\ q[l + 1] = n + 1 /\ \A i \in 1..l : q[i] = queue[i]
    BY <1>1, <1>2
  <1> HIDE DEF l, q
  <1>4. \A i \in 1..(l + 1) : i = l + 1 \/ i \in 1..l
    BY <1>1
  <1>5. \A i, j \in 1..Len(q) : q[i] = q[j] => i = j
    <2>1. \A i \in 1..l : q[i] # n + 1
      BY <1>1, <1>3
    <2>2. \A i, j \in 1..l : q[i] = q[j] => i = j
      BY <1>3 DEF l
    <2>3. QED
      BY <1>3, <1>4, <2>1, <2>2
  <1>6. ~ Contains(queue, n + 1)
    BY <1>1 DEF Contains, l
  <1>7. Contains(q, n + 1)
    BY <1>1, <1>3 DEF Contains
  <1>8. \A id \in 1..n : Contains(q, id) <=> Contains(queue, id)
    <2>1. SUFFICES ASSUME NEW id \in 1..n PROVE Contains(q, id) <=> Contains(queue, id)
      OBVIOUS
    <2>2. id # n + 1 /\ \A i \in 1..(l + 1) : q[i] = id => i # l + 1 /\ i \in 1..l
      BY <1>1, <1>3
    <2>3. Contains(q, id) <=> \E i \in 1..(l + 1) : q[i] = id
      BY <1>3 DEF Contains
    <2>4. Contains(queue, id) <=> \E i \in 1..l : queue[i] = id
      BY DEF Contains, l
    <2>5. \A i \in 1..l : q[i] = queue[i] /\ i \in 1..(l + 1)
      BY <1>1, <1>3
    <2>6. QED
      BY <2>2, <2>3, <2>4, <2>5
  <1>9. QED
    BY <1>3, <1>5, <1>6, <1>7, <1>8 DEF q

(* Two sequences in one.                                                     *)
LEMMA ConcatIs ==
  ASSUME NEW S, NEW a \in Seq(S), NEW b \in Seq(S), NEW q, q = a \o b
  PROVE  /\ q \in Seq(S) /\ Len(q) = Len(a) + Len(b)
         /\ \A i \in 1..(Len(a) + Len(b)) : q[i] = IF i <= Len(a) THEN a[i] ELSE b[i - Len(a)]
  OBVIOUS

(* A line without one of those in it.                                        *)
LEMMA OutOfLine ==
  ASSUME NEW S, NEW queue \in Seq(S), \A i, j \in 1..Len(queue) : queue[i] = queue[j] => i = j, NEW id
  PROVE  /\ RemoveFirst(queue, id) \in Seq(S)
         /\ \A i, j \in 1..Len(RemoveFirst(queue, id)) :
                RemoveFirst(queue, id)[i] = RemoveFirst(queue, id)[j] => i = j
         /\ \A x : Contains(RemoveFirst(queue, id), x) <=> Contains(queue, x) /\ x # id
  <1> DEFINE n == Len(queue)
             q == RemoveFirst(queue, id)
  <1>1. CASE ~ \E i \in 1..n : queue[i] = id
    BY <1>1 DEF RemoveFirst, Contains
  <1>2. CASE \E i \in 1..n : queue[i] = id
    <2>1. PICK k \in 1..n : queue[k] = id
      BY <1>2
    <2>2. {i \in 1..n : queue[i] = id} = {k}
      BY <2>1
    <2>3. Min({k}) = k
      BY DEF Min
    <2>4. q = RemoveAt(queue, k)
      BY <1>2, <2>2, <2>3 DEF RemoveFirst, SelectInSeq
    <2>5. /\ SubSeq(queue, 1, k - 1) \in Seq(S) /\ Len(SubSeq(queue, 1, k - 1)) = k - 1
          /\ \A i \in 1..(k - 1) : SubSeq(queue, 1, k - 1)[i] = queue[i]
      BY <2>1, n \in Nat
    <2>6. /\ SubSeq(queue, k + 1, n) \in Seq(S) /\ Len(SubSeq(queue, k + 1, n)) = n - k
          /\ \A i \in 1..(n - k) : SubSeq(queue, k + 1, n)[i] = queue[k + i]
      BY <2>1, n \in Nat
    <2>7. /\ q \in Seq(S) /\ Len(q) = n - 1
          /\ \A i \in 1..(n - 1) : q[i] = IF i < k THEN queue[i] ELSE queue[i + 1]
      <3>1. q = SubSeq(queue, 1, k - 1) \o SubSeq(queue, k + 1, n)
        BY <2>4 DEF RemoveAt
      <3> DEFINE a == SubSeq(queue, 1, k - 1)
                 b == SubSeq(queue, k + 1, n)
      <3>s. a \in Seq(S) /\ b \in Seq(S) /\ q = a \o b
        BY <2>5, <2>6, <3>1
      <3>u. Len(a) = k - 1 /\ Len(b) = n - k
        BY <2>5, <2>6
      <3> HIDE DEF q, a, b
      <3>t. /\ q \in Seq(S) /\ Len(q) = Len(a) + Len(b)
            /\ \A i \in 1..(Len(a) + Len(b)) : q[i] = IF i <= Len(a) THEN a[i] ELSE b[i - Len(a)]
        BY <3>s, ConcatIs
      <3>2. n \in Nat /\ Len(a) + Len(b) = n - 1
        BY <3>u, <2>1
      <3>3. ASSUME NEW i \in 1..(n - 1)
            PROVE  q[i] = IF i < k THEN queue[i] ELSE queue[i + 1]
        <4>1. i \in 1..(Len(a) + Len(b)) /\ (i < k <=> i <= Len(a)) /\ i - Len(a) = i - (k - 1)
          BY <3>2, <3>u
        <4>2. CASE i < k
          <5>1. i \in 1..(k - 1)
            BY <4>2
          <5>2. a[i] = queue[i]
            BY <5>1, <2>5 DEF a
          <5>3. QED
            BY <4>1, <4>2, <5>2, <3>t
        <4>3. CASE ~(i < k)
          <5>1. i - (k - 1) \in 1..(n - k) /\ k + (i - (k - 1)) = i + 1
            BY <4>3, <3>2
          <5>2. b[i - (k - 1)] = queue[i + 1]
            BY <5>1, <2>6 DEF b
          <5>3. QED
            BY <4>1, <4>3, <5>2, <3>t
        <4>4. QED
          BY <4>2, <4>3
      <3>4. QED
        BY <3>s, <3>t, <3>2, <3>3
    <2>8. \A i, j \in 1..Len(q) : q[i] = q[j] => i = j
      BY <2>7, n \in Nat
    <2>9. ASSUME NEW x
          PROVE  Contains(q, x) <=> Contains(queue, x) /\ x # id
      <3>1. ASSUME NEW i \in 1..Len(q), q[i] = x
            PROVE  Contains(queue, x) /\ x # id
        BY <3>1, <2>1, <2>7, n \in Nat DEF Contains
      <3>2. ASSUME NEW i \in 1..n, queue[i] = x, x # id
            PROVE  Contains(q, x)
        <4>1. CASE i < k
          BY <4>1, <3>2, <2>7, n \in Nat DEF Contains
        <4>2. CASE i > k
          <5>1. i - 1 \in 1..Len(q) /\ q[i - 1] = x
            BY <4>2, <3>2, <2>1, <2>7, n \in Nat
          <5>2. QED
            BY <5>1 DEF Contains
        <4>3. QED
          BY <4>1, <4>2, <3>2, <2>1, n \in Nat
      <3>3. QED
        BY <3>1, <3>2 DEF Contains
    <2>10. QED
      BY <2>7, <2>8, <2>9
  <1>3. QED
    BY <1>1, <1>2

(* A job that ends frees its place and stops its process.                    *)
LEMMA EndKeeps ==
  ASSUME QueueInv, NEW id \in JobIds, NEW state \in Ended, Live(id), End(id, state)
  PROVE  QueueInv'
  <1> DEFINE list == [vjobs EXCEPT ![id].state = state]
             queue == RemoveFirst(vqueue, id)
             front == IF vrunning = id THEN NoJob ELSE vrunning
  <1>1. vjobs \in Seq(VanityJobs) /\ JobIds = 1..Len(vjobs) /\ Len(vjobs) \in Nat /\ id # NoJob
    BY QueueAssumption DEF QueueInv, Booked, JobIds
  <1>2. list \in Seq(VanityJobs) /\ DOMAIN list = JobIds
        /\ \A i \in JobIds : list[i].state = IF i = id THEN state ELSE vjobs[i].state
    <2>1. [vjobs[id] EXCEPT !.state = state] \in VanityJobs
      <3>1. vjobs[id] \in VanityJobs
        BY <1>1
      <3>2. QED
        BY <3>1 DEF VanityJobs, JobStates
    <2>2. list = [vjobs EXCEPT ![id] = [vjobs[id] EXCEPT !.state = state]]
      OBVIOUS
    <2>3. QED
      BY <1>1, <2>1, <2>2, EntryReplaced DEF VanityJobs, JobIds
  <1>3. /\ queue \in Seq(JobIds)
        /\ \A i, j \in 1..Len(queue) : queue[i] = queue[j] => i = j
        /\ \A x : Contains(queue, x) <=> Contains(vqueue, x) /\ x # id
    BY OutOfLine DEF QueueInv, Booked, JobIds
  <1>4. Booked(list, queue, front)
    <2>1. front \in JobIds \cup {NoJob}
      BY DEF QueueInv, Booked, JobIds
    <2>2. \A i \in JobIds : list[i].state = "queued" <=> Contains(queue, i)
      BY <1>2, <1>3 DEF QueueInv, Booked, Ended, JobIds
    <2>3. \A i \in JobIds : list[i].state = "running" <=> i = front
      BY <1>1, <1>2, QueueAssumption DEF QueueInv, Booked, Ended, JobIds
    <2>4. QED
      BY <1>2, <1>3, <2>1, <2>2, <2>3 DEF Booked
  <1>5. /\ Booked(vjobs', vqueue', vrunning')
        /\ vqueue' # <<>> => vrunning' # NoJob
        /\ front # NoJob => vrunning' = front
    BY <1>4, PumpKeeps DEF End
  <1>6. procs' = {vrunning'} \ {NoJob}
    BY <1>1, <1>5 DEF End, EndProc, QueueInv
  <1>7. QED
    BY <1>5, <1>6 DEF QueueInv

(* A submitted job joins the line, or runs at once.                           *)
LEMMA SubmitKeeps ==
  ASSUME QueueInv, NEW c \in Clients, SubmitSearch(c)
  PROVE  QueueInv'
  <1> DEFINE n == Len(vjobs)
             job == [client |-> c, state |-> "queued", stale |-> FALSE, kept |-> TRUE]
             list == Append(vjobs, job)
             queue == Append(vqueue, n + 1)
  <1>1. vjobs \in Seq(VanityJobs) /\ JobIds = 1..n /\ n \in Nat /\ vqueue \in Seq(JobIds) /\ job \in VanityJobs
    BY DEF QueueInv, Booked, JobIds, VanityJobs, JobStates
  <1>2. list \in Seq(VanityJobs) /\ DOMAIN list = 1..(n + 1) /\ list[n + 1] = job
        /\ \A i \in 1..n : list[i] = vjobs[i]
    BY <1>1
  <1>3. /\ queue \in Seq(1..(n + 1)) /\ \A i, j \in 1..Len(queue) : queue[i] = queue[j] => i = j
        /\ ~ Contains(vqueue, n + 1) /\ Contains(queue, n + 1)
        /\ \A id \in 1..n : Contains(queue, id) <=> Contains(vqueue, id)
    <2>1. \A i, j \in 1..Len(vqueue) : vqueue[i] = vqueue[j] => i = j
      BY DEF QueueInv, Booked
    <2>2. QED
      BY <1>1, <2>1, IntoLine
  <1> HIDE DEF queue, n
  <1>7. Booked(list, queue, vrunning)
    <2>1. ASSUME NEW id \in 1..(n + 1)
          PROVE  /\ list[id].state = "queued" <=> Contains(queue, id)
                 /\ list[id].state = "running" <=> id = vrunning
      <3>1. CASE id = n + 1
        <4>1. id # vrunning
          BY <1>1, <3>1, QueueAssumption DEF QueueInv, Booked, JobIds
        <4>2. QED
          BY <3>1, <4>1, <1>2, <1>3
      <3>2. CASE id \in 1..n
        BY <3>2, <1>1, <1>2, <1>3 DEF QueueInv, Booked, JobIds
      <3>3. id = n + 1 \/ id \in 1..n
        BY <1>1
      <3>4. QED
        BY <3>1, <3>2, <3>3
    <2>2. vrunning \in 1..(n + 1) \cup {NoJob}
      BY <1>1 DEF QueueInv, Booked, JobIds
    <2>3. QED
      BY <1>2, <1>3, <2>1, <2>2 DEF Booked
  <1>8. /\ Booked(vjobs', vqueue', vrunning')
        /\ vqueue' # <<>> => vrunning' # NoJob
        /\ vrunning # NoJob => vrunning' = vrunning
    BY <1>7, PumpKeeps DEF SubmitSearch, queue, n
  <1>9. procs' = {vrunning'} \ {NoJob}
    BY <1>8 DEF SubmitSearch, QueueInv
  <1>10. QED
    BY <1>8, <1>9 DEF QueueInv

(* What a poll, a silence or a forgotten result changes is no part of it.    *)
LEMMA MarksKeep ==
  ASSUME QueueInv, UNCHANGED <<vqueue, vrunning, procs>>, vjobs' \in Seq(VanityJobs),
         DOMAIN vjobs' = JobIds, \A i \in JobIds : vjobs'[i].state = vjobs[i].state
  PROVE  QueueInv'
  BY DEF QueueInv, Booked, JobIds

(* The queue starts empty.                                                    *)
LEMMA QueueInvInit == QueueInit => QueueInv
  BY DEF QueueInit, QueueInv, Booked, Contains

(* Every request, report and sweep keeps the books of the queue.              *)
LEMMA QueueInvStep ==
  ASSUME QueueInv, [QueueNext]_queueVars
  PROVE  QueueInv'
  <1>1. vjobs \in Seq(VanityJobs) /\ DOMAIN vjobs = JobIds /\ JobIds = 1..Len(vjobs) /\ Len(vjobs) \in Nat
    BY DEF QueueInv, Booked, JobIds
  <1>2. ASSUME NEW id \in JobIds, View(id) \/ Silence(id)
        PROVE  QueueInv'
    <2>1. PICK b \in BOOLEAN : vjobs' = [vjobs EXCEPT ![id].stale = b]
      BY <1>2 DEF View, Silence
    <2>2. vjobs' \in Seq(VanityJobs) /\ DOMAIN vjobs' = JobIds /\ \A i \in JobIds : vjobs'[i].state = vjobs[i].state
      <3>1. [vjobs[id] EXCEPT !.stale = b] \in VanityJobs
        <4>1. vjobs[id] \in VanityJobs
          BY <1>1
        <4>2. QED
          BY <4>1 DEF VanityJobs
      <3>2. vjobs' = [vjobs EXCEPT ![id] = [vjobs[id] EXCEPT !.stale = b]]
        BY <2>1
      <3>3. QED
        BY <1>1, <3>1, <3>2, EntryReplaced DEF VanityJobs
    <2>3. QED
      BY <1>2, <2>2, MarksKeep DEF View, Silence
  <1>3. ASSUME NEW id \in JobIds, Gc(id)
        PROVE  QueueInv'
    <2>1. CASE Live(id)
      BY <2>1, <1>3, EndKeeps DEF Gc, Ended
    <2>2. CASE ~Live(id)
      <3>1. vjobs' \in Seq(VanityJobs) /\ DOMAIN vjobs' = JobIds /\ \A i \in JobIds : vjobs'[i].state = vjobs[i].state
        <4>1. [vjobs[id] EXCEPT !.kept = FALSE] \in VanityJobs
          <5>1. vjobs[id] \in VanityJobs
            BY <1>1
          <5>2. QED
            BY <5>1 DEF VanityJobs
        <4>2. vjobs' = [vjobs EXCEPT ![id] = [vjobs[id] EXCEPT !.kept = FALSE]]
          BY <2>2, <1>3 DEF Gc
        <4>3. QED
          BY <1>1, <4>1, <4>2, EntryReplaced DEF VanityJobs
      <3>2. QED
        BY <2>2, <1>3, <3>1, MarksKeep DEF Gc
    <2>3. QED
      BY <2>1, <2>2
  <1>4. ASSUME NEW id \in JobIds, CancelJob(id)
        PROVE  QueueInv'
    BY <1>4, EndKeeps DEF CancelJob, Ended
  <1>5. ASSUME UNCHANGED <<vjobs, vqueue, vrunning, procs>>
        PROVE  QueueInv'
    BY <1>5 DEF QueueInv, Booked
  <1>6. ASSUME NEW id \in JobIds, NEW state \in {"done", "failed"}, Report(id, state)
        PROVE  QueueInv'
    <2>1. state \in Ended
      BY DEF Ended
    <2>2. QED
      BY <1>5, <1>6, <2>1, EndKeeps DEF Report
  <1>7. ASSUME TimeLimit
        PROVE  QueueInv'
    <2>1. vrunning \in JobIds /\ vjobs[vrunning].state = "running"
      BY <1>7 DEF TimeLimit, QueueInv, Booked, JobIds
    <2>2. Live(vrunning) /\ "failed" \in Ended
      BY <2>1 DEF Live, Ended
    <2>3. QED
      BY <1>7, <2>1, <2>2, EndKeeps DEF TimeLimit
  <1>8. CASE UNCHANGED queueVars
    BY <1>5, <1>8 DEF queueVars
  <1>9. QED
    BY <1>2, <1>3, <1>4, <1>6, <1>7, <1>8, SubmitKeeps DEF QueueNext

(* One search process at most, for the job that runs, and nobody in line while *)
(* none does, for any number of clients and jobs (_pump, _end, gc).           *)
THEOREM OneSearch ==
  QueueSpec => []OneSearchRuns
  <1>1. QueueInit => QueueInv
    BY QueueInvInit
  <1>2. QueueInv /\ [QueueNext]_queueVars => QueueInv'
    BY QueueInvStep
  <1>3. QueueInv => OneSearchRuns
    <2> SUFFICES ASSUME QueueInv PROVE OneSearchRuns
      OBVIOUS
    <2>1. {id \in JobIds : vjobs[id].state = "running"} = {vrunning} \ {NoJob}
      <3>1. NoJob \notin JobIds
        BY QueueAssumption DEF QueueInv, Booked, JobIds
      <3>2. QED
        BY <3>1 DEF QueueInv, Booked, JobIds
    <2>2. QED
      BY <2>1 DEF QueueInv, Booked, OneSearchRuns, JobIds
  <1>4. QED
    BY <1>1, <1>2, <1>3, PTL DEF QueueSpec

(***************************************************************************)
(* The slots of the practice relay.                                          *)
(***************************************************************************)
Askers == ReadKeys \cup RelayCalls
Apart(s) == \A i, j \in 1..Len(s) : s[i] = s[j] => i = j
Holders == active \cup ToSet(waiters)

(* The slots and the line: all different, and a line only behind full slots. *)
Line ==
    /\ waiters \in Seq(Askers) /\ Apart(waiters)
    /\ active \subseteq Askers /\ IsFiniteSet(active) /\ active \cap ToSet(waiters) = {}
    /\ Cardinality(active) <= Concurrency
    /\ waiters # <<>> => Cardinality(active) = Concurrency
RelayInv ==
    /\ jobs \in [RelayJobs -> [state : {"none", "scanning", "done", "error"}, left : SUBSET ReadKeys]]
    /\ \A j \in RelayJobs : jobs[j].state = "scanning" => jobs[j].left # {} /\ jobs[j].left \subseteq readsInflight
    /\ cache \subseteq ReadKeys
    /\ readsInflight = Holders \cap ReadKeys
    /\ Line

(***************************************************************************)
(* Sequences without repetition.                                           *)
(***************************************************************************)
LEMMA ToSetIs == ASSUME NEW S, NEW s \in Seq(S)
                 PROVE  /\ ToSet(s) = {s[i] : i \in 1..Len(s)} /\ ToSet(s) \subseteq S
                        /\ s = <<>> <=> ToSet(s) = {}
  <1>1. DOMAIN s = 1..Len(s) /\ Len(s) \in Nat /\ \A i \in 1..Len(s) : s[i] \in S
    OBVIOUS
  <1>2. Len(s) = 0 <=> s = <<>>
    BY EmptySeq
  <1>3. ToSet(s) = {s[i] : i \in 1..Len(s)}
    BY <1>1 DEF ToSet
  <1>4. ToSet(s) \subseteq S
    BY <1>1, <1>3
  <1>5. s # <<>> => s[1] \in ToSet(s)
    BY <1>1, <1>2, <1>3
  <1>6. s = <<>> => ToSet(s) = {}
    BY <1>2, <1>3
  <1>7. QED
    BY <1>3, <1>4, <1>5, <1>6

(* A sequence without repetition starts with n different entries.             *)
LEMMA FirstCount ==
  ASSUME NEW S, NEW s \in Seq(S), Apart(s), NEW n \in 0..Len(s)
  PROVE  IsFiniteSet({s[i] : i \in 1..n}) /\ Cardinality({s[i] : i \in 1..n}) = n
  <1> DEFINE T == {s[i] : i \in 1..n}
             f == [i \in 1..n |-> s[i]]
  <1>1. Len(s) \in Nat /\ \A i \in 1..n : i \in 1..Len(s)
    OBVIOUS
  <1>2. f \in Injection(1..n, T)
    <2>1. f \in [1..n -> T]
      OBVIOUS
    <2>2. ASSUME NEW i \in 1..n, NEW j \in 1..n, f[i] = f[j] PROVE i = j
      BY <1>1, <2>2 DEF Apart
    <2>3. QED
      BY <2>1, <2>2 DEF Injection, IsInjective
  <1>3. f \in Surjection(1..n, T)
    <2>1. f \in [1..n -> T] /\ \A t \in T : \E i \in 1..n : f[i] = t
      OBVIOUS
    <2>2. QED
      BY <2>1 DEF Surjection
  <1>4. ExistsBijection(1..n, T)
    BY <1>2, <1>3 DEF ExistsBijection, Bijection
  <1>5. IsFiniteSet(1..n) /\ Cardinality(1..n) = n
    BY FS_Interval, <1>1
  <1>6. QED
    BY <1>4, <1>5, FS_Bijection

(* Two sets apart add up.                                                     *)
LEMMA DisjointCount ==
  ASSUME NEW A, NEW B, IsFiniteSet(A), IsFiniteSet(B), A \cap B = {}
  PROVE  IsFiniteSet(A \cup B) /\ Cardinality(A \cup B) = Cardinality(A) + Cardinality(B)
  <1>1. Cardinality(A \cap B) = 0
    BY FS_EmptySet
  <1>2. Cardinality(A) \in Nat /\ Cardinality(B) \in Nat
    BY FS_CardinalityType
  <1>3. IsFiniteSet(A \cup B) /\ Cardinality(A \cup B) = Cardinality(A) + Cardinality(B) - Cardinality(A \cap B)
    BY FS_Union
  <1>4. QED
    BY <1>1, <1>2, <1>3

(* A finite set in some order.                                                *)
LEMMA SeqOfSet ==
  ASSUME NEW S, IsFiniteSet(S)
  PROVE  SetToSeq(S) \in Seq(S) /\ Apart(SetToSeq(S)) /\ ToSet(SetToSeq(S)) = S
  <1> DEFINE n == Cardinality(S)
             s == SetToSeq(S)
  <1>1. n \in Nat /\ ExistsBijection(1..n, S)
    BY FS_CardinalityType
  <1>2. PICK g : g \in Bijection(1..n, S)
    BY <1>1 DEF ExistsBijection
  <1>3. g \in [1..n -> S] /\ IsInjective(g)
    BY <1>2 DEF Bijection, Injection, IsInjective
  <1>4. s \in [1..n -> S] /\ IsInjective(s)
    BY <1>3 DEF SetToSeq
  <1>5. s \in Seq(S) /\ Len(s) = n /\ DOMAIN s = 1..n
    BY <1>1, <1>4, SeqDef, LenProperties
  <1>6. Apart(s)
    BY <1>4, <1>5 DEF Apart, IsInjective
  <1>7. s \in Injection(1..n, S)
    BY <1>4 DEF Injection, IsInjective
  <1>8. IsFiniteSet(1..n) /\ Cardinality(1..n) = n
    BY FS_Interval, <1>1
  <1>9. s \in Surjection(1..n, S)
    BY <1>7, <1>8, FS_Injection
  <1>10. ToSet(s) = S
    BY <1>5, <1>9 DEF ToSet, Surjection
  <1>11. QED
    BY <1>5, <1>6, <1>10

(* Two lines of different requests, one behind the other.                     *)
LEMMA LineJoined ==
  ASSUME NEW S, NEW s \in Seq(S), NEW t \in Seq(S), Apart(s), Apart(t), ToSet(s) \cap ToSet(t) = {}
  PROVE  s \o t \in Seq(S) /\ Apart(s \o t) /\ ToSet(s \o t) = ToSet(s) \cup ToSet(t)
  <1> DEFINE m == Len(s)
             n == Len(t)
             q == s \o t
  <1>1. /\ q \in Seq(S) /\ Len(q) = m + n /\ m \in Nat /\ n \in Nat
        /\ \A i \in 1..(m + n) : q[i] = IF i <= m THEN s[i] ELSE t[i - m]
    OBVIOUS
  <1>2. ToSet(s) = {s[i] : i \in 1..m}
    BY ToSetIs
  <1>3. ToSet(t) = {t[i] : i \in 1..n}
    BY ToSetIs
  <1>4. (\A i, j \in 1..m : s[i] = s[j] => i = j) /\ (\A i, j \in 1..n : t[i] = t[j] => i = j)
    BY DEF Apart
  <1> HIDE DEF m, n, q
  <1>5. \A i \in 1..m : i \in 1..(m + n) /\ q[i] = s[i]
    BY <1>1
  <1>6. \A i \in 1..n : m + i \in 1..(m + n) /\ ~(m + i <= m) /\ (m + i) - m = i
    BY <1>1
  <1>7. \A i \in 1..n : q[m + i] = t[i]
    BY <1>1, <1>6
  <1>8. ToSet(s) = {q[i] : i \in 1..m}
    BY <1>2, <1>5
  <1>9. ToSet(t) = {q[m + i] : i \in 1..n}
    BY <1>3, <1>7
  <1>10. /\ \A i, j \in 1..m : q[i] = q[j] => i = j
         /\ \A i, j \in 1..n : q[m + i] = q[m + j] => i = j
    BY <1>4, <1>5, <1>7
  <1>11. \A k \in 1..(m + n) : k \in 1..m \/ (k - m \in 1..n /\ k = m + (k - m))
    BY <1>1
  <1>12. ASSUME NEW i \in 1..(m + n), NEW j \in 1..(m + n), q[i] = q[j] PROVE i = j
    <2>1. CASE i \in 1..m /\ j \in 1..m
      BY <1>10, <1>12, <2>1
    <2>2. CASE i \in 1..m /\ j \notin 1..m
      <3>1. q[i] \in ToSet(s) /\ q[j] \in ToSet(t)
        BY <1>8, <1>9, <1>11, <2>2
      <3>2. QED
        BY <3>1, <1>12
    <2>3. CASE i \notin 1..m /\ j \in 1..m
      <3>1. q[i] \in ToSet(t) /\ q[j] \in ToSet(s)
        BY <1>8, <1>9, <1>11, <2>3
      <3>2. QED
        BY <3>1, <1>12
    <2>4. CASE i \notin 1..m /\ j \notin 1..m
      <3>1. i - m \in 1..n /\ j - m \in 1..n /\ i = m + (i - m) /\ j = m + (j - m)
        BY <1>11, <2>4
      <3>2. i - m = j - m
        BY <1>10, <1>12, <3>1
      <3>3. QED
        BY <3>1, <3>2
    <2>5. QED
      BY <2>1, <2>2, <2>3, <2>4
  <1>13. q \in Seq(S) /\ Len(q) = m + n
    BY <1>1
  <1>14. Apart(q)
    BY <1>12, <1>13 DEF Apart
  <1>15. ToSet(q) = ToSet(s) \cup ToSet(t)
    <2>1. ToSet(q) = {q[k] : k \in 1..(m + n)}
      BY <1>13, ToSetIs
    <2>2. ASSUME NEW x \in ToSet(q) PROVE x \in ToSet(s) \cup ToSet(t)
      <3>1. PICK k \in 1..(m + n) : x = q[k]
        BY <2>1
      <3>2. QED
        BY <3>1, <1>8, <1>9, <1>11
    <2>3. ASSUME NEW x \in ToSet(s) \cup ToSet(t) PROVE x \in ToSet(q)
      BY <2>1, <1>5, <1>6, <1>8, <1>9
    <2>4. QED
      BY <2>2, <2>3
  <1>16. QED
    BY <1>13, <1>14, <1>15 DEF q

(***************************************************************************)
(* A request that ends hands its slot to the first that waits.             *)
(***************************************************************************)
LEMMA SlotFreed ==
  ASSUME Line, NEW r \in active, NEW failed, Leaves(r, failed)
  PROVE  Line' /\ Holders' = Holders \ {r}
  <1>0. /\ waiters \in Seq(Askers) /\ DOMAIN waiters = 1..Len(waiters) /\ Len(waiters) \in Nat
        /\ IsFiniteSet(active) /\ Cardinality(active) \in Nat /\ Concurrency \in Nat
    BY FS_CardinalityType, RelayAssumption DEF Line
  <1>1. /\ IsFiniteSet(active \ {r}) /\ Cardinality(active \ {r}) = Cardinality(active) - 1
    BY <1>0, FS_RemoveElement
  <1>2. CASE waiters = <<>>
    <2>1. active' = active \ {r} /\ waiters' = <<>> /\ ToSet(waiters) = {}
      BY <1>0, <1>2 DEF Leaves, ToSet
    <2>2. ToSet(waiters') = {}
      BY <2>1, <1>2
    <2>3. Cardinality(active') <= Concurrency
      BY <2>1, <1>0, <1>1 DEF Line
    <2>4. QED
      BY <1>1, <1>2, <2>1, <2>2, <2>3 DEF Line, Holders, Apart
  <1>3. CASE waiters # <<>>
    <2> DEFINE h == waiters[1]
               n == Len(waiters)
    <2>1. n > 0 /\ Head(waiters) = h /\ h \in ToSet(waiters) /\ h \in Askers
      BY <1>0, <1>3, EmptySeq DEF ToSet
    <2>2. active' = (active \ {r}) \cup {h} /\ waiters' = Tail(waiters)
      BY <1>0, <1>3, <2>1 DEF Leaves
    <2>3. /\ waiters' \in Seq(Askers) /\ Len(waiters') = n - 1 /\ DOMAIN waiters' = 1..(n - 1)
          /\ \A i \in 1..(n - 1) : waiters'[i] = waiters[i + 1]
      BY <1>0, <1>3, <2>2
    <2> HIDE DEF n
    <2>4. Apart(waiters) /\ n = Len(waiters) /\ n \in Nat
      BY <1>0 DEF Line, n
    <2>5. ToSet(waiters') = ToSet(waiters) \ {h}
      <3>1. ASSUME NEW x \in ToSet(waiters') PROVE x \in ToSet(waiters) \ {h}
        <4>1. PICK i \in 1..(n - 1) : x = waiters[i + 1]
          BY <2>3, <3>1 DEF ToSet
        <4>2. i + 1 \in 1..n /\ i + 1 # 1 /\ 1 \in 1..n
          BY <2>4, <2>1
        <4>3. waiters[i + 1] # waiters[1]
          BY <4>2, <2>4 DEF Apart
        <4>4. QED
          BY <4>1, <4>2, <4>3, <1>0, <2>4 DEF ToSet
      <3>2. ASSUME NEW x \in ToSet(waiters) \ {h} PROVE x \in ToSet(waiters')
        <4>1. PICK i \in 1..n : x = waiters[i]
          BY <1>0, <2>4 DEF ToSet
        <4>2. i # 1
          BY <4>1
        <4>3. i - 1 \in 1..(n - 1) /\ (i - 1) + 1 = i
          BY <4>2, <2>4
        <4>4. QED
          BY <4>1, <4>3, <2>3 DEF ToSet
      <3>3. QED
        BY <3>1, <3>2
    <2>6. Apart(waiters')
      <3>1. ASSUME NEW i \in 1..(n - 1), NEW j \in 1..(n - 1), waiters'[i] = waiters'[j] PROVE i = j
        <4>1. i + 1 \in 1..n /\ j + 1 \in 1..n /\ waiters[i + 1] = waiters[j + 1]
          BY <2>3, <2>4, <3>1
        <4>2. i + 1 = j + 1
          BY <4>1, <2>4 DEF Apart
        <4>3. QED
          BY <4>2
      <3>2. QED
        BY <2>3, <3>1 DEF Apart
    <2>7. h \notin active \ {r}
      BY <2>1 DEF Line
    <2>8. IsFiniteSet(active') /\ Cardinality(active') = Cardinality(active)
      <3>1. IsFiniteSet(active') /\ Cardinality(active') = Cardinality(active \ {r}) + 1
        BY <1>1, <2>2, <2>7, FS_AddElement
      <3>2. QED
        BY <3>1, <1>0, <1>1
    <2>9. Cardinality(active) = Concurrency
      BY <1>3 DEF Line
    <2>10. active' \cap ToSet(waiters') = {}
      BY <2>2, <2>5 DEF Line
    <2>11. Holders' = Holders \ {r}
      <3>1. r \notin ToSet(waiters)
        BY DEF Line
      <3>2. QED
        BY <3>1, <2>1, <2>2, <2>5 DEF Holders
    <2>12. active' \subseteq Askers
      BY <2>1, <2>2 DEF Line
    <2>13. Cardinality(active') <= Concurrency
      BY <1>0, <2>8, <2>9
    <2>14. QED
      BY <2>3, <2>6, <2>8, <2>9, <2>10, <2>11, <2>12, <2>13 DEF Line
  <1>4. QED
    BY <1>2, <1>3

(***************************************************************************)
(* Requests take the slots that are free and stand in line for the others. *)
(***************************************************************************)
LEMMA SlotsAsked ==
  ASSUME Line, NEW asking \in Seq(Askers), Apart(asking),
         ToSet(asking) \cap Holders = {}, Queued(asking)
  PROVE  Line' /\ Holders' = Holders \cup ToSet(asking)
  <1> DEFINE n == Len(asking)
             room == Concurrency - Cardinality(active)
             lets == IF n < room THEN n ELSE room
             now == {asking[i] : i \in 1..lets}
             rest == SubSeq(asking, lets + 1, n)
  <1>1. n \in Nat /\ room \in Nat /\ lets \in 0..n /\ IsFiniteSet(active) /\ Cardinality(active) \in Nat
    BY FS_CardinalityType, RelayAssumption DEF Line
  <1>2. active' = active \cup now /\ waiters' = waiters \o rest
    BY DEF Queued
  <1> HIDE DEF lets, n
  <1>3. /\ DOMAIN asking = 1..n /\ n = Len(asking)
        /\ \A i \in 1..n : asking[i] \in Askers
        /\ \A i, j \in 1..n : asking[i] = asking[j] => i = j
    BY DEF n, Apart
  <1>4. IsFiniteSet(now) /\ Cardinality(now) = lets
    <2>1. lets \in 0..Len(asking)
      BY <1>1, <1>3
    <2>2. QED
      BY <2>1, FirstCount
  <1>5. ToSet(asking) = {asking[i] : i \in 1..n}
    BY <1>3 DEF ToSet
  <1>6. now \subseteq ToSet(asking)
    BY <1>1, <1>5
  <1>7. IsFiniteSet(active') /\ Cardinality(active') = Cardinality(active) + lets
    <2>1. active \cap now = {}
      BY <1>6 DEF Holders
    <2>2. QED
      BY <1>1, <1>2, <1>4, <2>1, DisjointCount
  <1>8. Cardinality(active') <= Concurrency
    BY <1>1, <1>7, RelayAssumption DEF lets
  <1>9. /\ rest \in Seq(Askers) /\ Len(rest) = n - lets
        /\ \A i \in 1..(n - lets) : rest[i] = asking[lets + i] /\ lets + i \in 1..n
    <2> DEFINE lo == lets + 1
    <2>1. lo \in Int /\ n \in Int /\ \A i \in lo..n : asking[i] \in Askers
      BY <1>1, <1>3
    <2> HIDE DEF lo
    <2>2. /\ SubSeq(asking, lo, n) \in Seq(Askers)
          /\ Len(SubSeq(asking, lo, n)) = IF lo <= n THEN n - lo + 1 ELSE 0
          /\ \A i \in 1..(n - lo + 1) : SubSeq(asking, lo, n)[i] = asking[lo + i - 1]
      BY <2>1, SubSeqProperties
    <2>3. n - lo + 1 = n - lets /\ lets + 1 \in Nat /\ (lo <= n \/ n - lets = 0)
      BY <1>1 DEF lo
    <2>4. \A i \in 1..(n - lets) : lo + i - 1 = lets + i /\ lets + i \in 1..n
      BY <1>1 DEF lo
    <2>5. rest = SubSeq(asking, lo, n)
      BY DEF lo
    <2>6. Len(rest) = n - lets
      BY <1>1, <2>2, <2>3, <2>5
    <2> HIDE DEF rest
    <2>7. QED
      BY <2>2, <2>3, <2>4, <2>5, <2>6
  <1> HIDE DEF rest
  <1>10. ToSet(rest) = ToSet(asking) \ now
    <2>1. ToSet(rest) = {rest[i] : i \in 1..(n - lets)}
      BY <1>9, ToSetIs
    <2>2. ASSUME NEW x \in ToSet(rest) PROVE x \in ToSet(asking) \ now
      <3>1. PICK i \in 1..(n - lets) : x = asking[lets + i] /\ lets + i \in 1..n
        BY <1>9, <2>1
      <3>2. \A k \in 1..lets : k \in 1..n /\ k # lets + i
        BY <1>1
      <3>3. QED
        BY <3>1, <3>2, <1>3, <1>5
    <2>3. ASSUME NEW x \in ToSet(asking) \ now PROVE x \in ToSet(rest)
      <3>1. PICK i \in 1..n : x = asking[i]
        BY <1>5
      <3>2. i \notin 1..lets
        BY <3>1
      <3>3. i - lets \in 1..(n - lets) /\ lets + (i - lets) = i
        BY <1>1, <3>2
      <3>4. QED
        BY <3>1, <3>3, <2>1, <1>9
    <2>4. QED
      BY <2>2, <2>3
  <1>11. Apart(rest)
    <2>1. ASSUME NEW i \in 1..(n - lets), NEW j \in 1..(n - lets), rest[i] = rest[j] PROVE i = j
      <3>1. lets + i = lets + j
        BY <1>3, <1>9, <2>1
      <3>2. QED
        BY <1>1, <3>1
    <2>2. QED
      BY <1>9, <2>1 DEF Apart
  <1>12. /\ waiters' \in Seq(Askers) /\ Apart(waiters') /\ ToSet(waiters') = ToSet(waiters) \cup ToSet(rest)
    <2>1. ToSet(waiters) \cap ToSet(rest) = {}
      BY <1>10 DEF Holders
    <2>2. waiters \in Seq(Askers) /\ Apart(waiters)
      BY DEF Line
    <2>3. rest \in Seq(Askers)
      BY <1>9
    <2>4. /\ waiters \o rest \in Seq(Askers) /\ Apart(waiters \o rest)
          /\ ToSet(waiters \o rest) = ToSet(waiters) \cup ToSet(rest)
      BY <1>11, <2>1, <2>2, <2>3, LineJoined
    <2>5. QED
      BY <1>2, <2>4
  <1>13. active' \cap ToSet(waiters') = {}
    BY <1>2, <1>6, <1>10, <1>12 DEF Line, Holders
  <1>14. waiters' # <<>> => Cardinality(active') = Concurrency
    <2>1. CASE waiters # <<>>
      <3>1. room = 0
        BY <2>1, <1>1, RelayAssumption DEF Line
      <3>2. lets = 0
        BY <3>1, <1>1 DEF lets
      <3>3. QED
        BY <3>1, <3>2, <1>1, <1>7, RelayAssumption
    <2>2. CASE waiters = <<>> /\ lets = n
      <3>1. Len(rest) = 0
        BY <2>2, <1>1, <1>9
      <3>2. waiters' = <<>>
        BY <2>2, <3>1, <1>2, <1>9, EmptySeq
      <3>3. QED
        BY <3>2
    <2>3. CASE lets # n
      BY <2>3, <1>1, <1>7, RelayAssumption DEF lets
    <2>4. QED
      BY <2>1, <2>2, <2>3
  <1>15. active' \subseteq Askers
    BY <1>1, <1>2, <1>3 DEF Line
  <1>16. Holders' = Holders \cup ToSet(asking)
    BY <1>2, <1>6, <1>10, <1>12 DEF Holders
  <1>17. QED
    BY <1>7, <1>8, <1>12, <1>13, <1>14, <1>15, <1>16 DEF Line

(***************************************************************************)
(* A read that is asked for: a new one takes a place, one under way is shared. *)
(***************************************************************************)
LEMMA RelayInvInit == ASSUME RelayInit PROVE RelayInv
  <1>1. IsFiniteSet(active) /\ Cardinality(active) = 0
    BY FS_EmptySet DEF RelayInit
  <1>2. waiters = <<>> /\ waiters \in Seq(Askers) /\ Len(waiters) = 0 /\ ToSet(waiters) = {}
    BY DEF RelayInit, ToSet
  <1>3. Line
    BY <1>1, <1>2, RelayAssumption DEF Line, RelayInit, Apart
  <1>4. readsInflight = Holders \cap ReadKeys
    BY <1>2 DEF RelayInit, Holders
  <1>5. QED
    BY <1>3, <1>4 DEF RelayInv, RelayInit, NoRelayJob

(* A lookup asks for what nobody reads yet, once each.                        *)
LEMMA SubmitKeepsInv ==
  ASSUME RelayInv, NEW j \in RelayJobs, NEW scripts \in SUBSET Scripts, SubmitLookup(j, scripts)
  PROVE  RelayInv'
  <1> DEFINE missed == (scripts \cup {Tip}) \ cache
             asking == SetToSeq(missed \ readsInflight)
  <1>1. missed \subseteq ReadKeys /\ IsFiniteSet(missed \ readsInflight)
    <2>1. IsFiniteSet(scripts \cup {Tip})
      <3>1. IsFiniteSet(scripts)
        BY FS_Subset, RelayAssumption
      <3>2. QED
        BY <3>1, FS_AddElement
    <2>2. QED
      BY <2>1, FS_Subset DEF ReadKeys
  <1>2. asking \in Seq(missed \ readsInflight) /\ Apart(asking) /\ ToSet(asking) = missed \ readsInflight
    BY <1>1, SeqOfSet
  <1>3. asking \in Seq(Askers) /\ ToSet(asking) \cap Holders = {}
    <2>1. missed \ readsInflight \subseteq Askers
      BY <1>1 DEF Askers
    <2>2. asking \in Seq(Askers)
      BY <1>2, <2>1, SeqMonotonic
    <2>3. QED
      BY <1>1, <1>2, <2>2 DEF RelayInv
  <1>4. Queued(asking) /\ readsInflight' = readsInflight \cup missed /\ cache' = cache
    BY DEF SubmitLookup
  <1>5. Line'  /\ Holders' = Holders \cup ToSet(asking)
    BY <1>2, <1>3, <1>4, SlotsAsked DEF RelayInv
  <1>6. readsInflight' = Holders' \cap ReadKeys
    BY <1>1, <1>2, <1>4, <1>5 DEF RelayInv
  <1>7. PICK old \in SUBSET Kept :
           jobs' = [i \in RelayJobs |-> IF i = j THEN JobOf(missed) ELSE IF i \in old THEN NoRelayJob ELSE jobs[i]]
    BY DEF SubmitLookup
  <1>8. JobOf(missed) \in [state : {"none", "scanning", "done", "error"}, left : SUBSET ReadKeys]
    BY <1>1 DEF JobOf
  <1>9. jobs' \in [RelayJobs -> [state : {"none", "scanning", "done", "error"}, left : SUBSET ReadKeys]]
    BY <1>7, <1>8 DEF RelayInv, NoRelayJob
  <1>10. ASSUME NEW i \in RelayJobs, jobs'[i].state = "scanning"
         PROVE  jobs'[i].left # {} /\ jobs'[i].left \subseteq readsInflight'
    <2>1. CASE i = j
      BY <2>1, <1>4, <1>7, <1>10 DEF JobOf
    <2>2. CASE i # j
      <3>1. jobs'[i] = jobs[i]
        BY <2>2, <1>7, <1>10 DEF NoRelayJob
      <3>2. QED
        BY <3>1, <1>4, <1>10 DEF RelayInv
    <2>3. QED
      BY <2>1, <2>2
  <1>11. QED
    BY <1>4, <1>5, <1>6, <1>9, <1>10 DEF RelayInv

(***************************************************************************)
(* One request more: the tip for /status, or a call.                        *)
(***************************************************************************)
LEMMA OneMore ==
  ASSUME Line, NEW k \in Askers \ Holders, Queued(<<k>>)
  PROVE  Line' /\ Holders' = Holders \cup {k}
  <1>1. <<k>> \in Seq(Askers) /\ Apart(<<k>>)
    BY DEF Apart
  <1>2. ToSet(<<k>>) = {k}
    BY DEF ToSet
  <1>3. QED
    BY <1>1, <1>2, SlotsAsked

(* A read that ends leaves the jobs that shared it, and its slot.             *)
LEMMA ReadEnds ==
  ASSUME RelayInv, NEW k \in ReadKeys, Answer(k) \/ NoAnswer(k)
  PROVE  RelayInv'
  <1>1. k \in active /\ k \in readsInflight /\ readsInflight' = readsInflight \ {k} /\ cache' \subseteq ReadKeys
    BY DEF Answer, NoAnswer, RelayInv
  <1>2. Leaves(k, FALSE) \/ Leaves(k, TRUE)
    BY DEF Answer, NoAnswer
  <1>3. Line' /\ Holders' = Holders \ {k}
    BY <1>1, <1>2, SlotFreed DEF RelayInv
  <1>4. readsInflight' = Holders' \cap ReadKeys
    BY <1>1, <1>3 DEF RelayInv
  <1> DEFINE Job == [state : {"none", "scanning", "done", "error"}, left : SUBSET ReadKeys]
  <1>5. jobs \in [RelayJobs -> Job] /\ \A j \in RelayJobs : JobOf(jobs[j].left \ {k}) \in Job
    BY DEF RelayInv, JobOf
  <1>6. /\ jobs' \in [RelayJobs -> Job]
        /\ \A j \in RelayJobs : jobs'[j].state = "scanning" =>
              \/ ~Waits(j, k) /\ jobs'[j] = jobs[j]
              \/ jobs'[j].left # {} /\ Waits(j, k) /\ jobs'[j].left = jobs[j].left \ {k}
    <2>1. CASE Answer(k)
      BY <2>1, <1>5 DEF Answer, JobOf
    <2>2. CASE NoAnswer(k)
      BY <2>2, <1>5 DEF NoAnswer
    <2>3. QED
      BY <2>1, <2>2
  <1>7. ASSUME NEW j \in RelayJobs, jobs'[j].state = "scanning"
        PROVE  jobs'[j].left # {} /\ jobs'[j].left \subseteq readsInflight'
    BY <1>1, <1>6, <1>7 DEF RelayInv, Waits
  <1>8. QED
    BY <1>1, <1>3, <1>4, <1>6, <1>7 DEF RelayInv

(* Every request of the relay keeps the line in order.                        *)
LEMMA RelayInvStep == ASSUME RelayInv, [RelayNext]_relayVars PROVE RelayInv'
  <1>1. CASE Status
    <2>1. Tip \in ReadKeys /\ Tip \in Askers \ Holders
      BY <1>1 DEF Status, RelayInv, ReadKeys, Askers
    <2>2. Line' /\ Holders' = Holders \cup {Tip}
      BY <1>1, <2>1, OneMore DEF Status, RelayInv
    <2>3. QED
      BY <1>1, <2>1, <2>2 DEF Status, RelayInv
  <1>2. ASSUME NEW j \in RelayJobs, NEW scripts \in (SUBSET Scripts) \ {{}}, SubmitLookup(j, scripts) PROVE RelayInv'
    BY <1>2, SubmitKeepsInv
  <1>3. ASSUME NEW k \in ReadKeys, Answer(k) \/ NoAnswer(k) PROVE RelayInv'
    BY <1>3, ReadEnds
  <1>4. ASSUME NEW k \in ReadKeys, Expire(k) PROVE RelayInv'
    <2>1. Line' /\ Holders' = Holders
      BY <1>4 DEF Expire, RelayInv, Line, Holders
    <2>2. QED
      BY <1>4, <2>1 DEF Expire, RelayInv
  <1>5. ASSUME NEW c \in RelayCalls, Call(c) PROVE RelayInv'
    <2>1. c \in Askers \ Holders /\ c \notin ReadKeys
      BY <1>5, RelayAssumption DEF Call, Holders, Askers
    <2>2. Line' /\ Holders' = Holders \cup {c}
      BY <1>5, <2>1, OneMore DEF Call, RelayInv
    <2>3. QED
      BY <1>5, <2>1, <2>2 DEF Call, RelayInv
  <1>6. ASSUME NEW c \in RelayCalls, Reply(c) \/ NoReply(c) PROVE RelayInv'
    <2>1. c \in active /\ c \notin ReadKeys /\ (Leaves(c, FALSE) \/ Leaves(c, TRUE))
      BY <1>6, RelayAssumption DEF Reply, NoReply
    <2>2. Line' /\ Holders' = Holders \ {c}
      BY <2>1, SlotFreed DEF RelayInv
    <2>3. cache' \subseteq ReadKeys /\ readsInflight' = readsInflight /\ jobs' = jobs
      BY <1>6 DEF Reply, NoReply, RelayInv
    <2>4. QED
      BY <2>1, <2>2, <2>3 DEF RelayInv
  <1>7. CASE UNCHANGED relayVars
    BY <1>7 DEF relayVars, RelayInv, Line, Holders
  <1>8. QED
    BY <1>1, <1>2, <1>3, <1>4, <1>5, <1>6, <1>7 DEF RelayNext

(* A job that scans shares a read that holds a slot or stands in line, and a line *)
(* forms only behind full slots, for any number of scripts, jobs and slots    *)
(* (_slot, _cached, submit in nodeapi/lib.mjs).                               *)
THEOREM SlotsServe == RelaySpec => []NobodyWaitsForNothing
  <1>1. RelayInit => RelayInv
    BY RelayInvInit
  <1>2. RelayInv /\ [RelayNext]_relayVars => RelayInv'
    BY RelayInvStep
  <1>3. RelayInv => NobodyWaitsForNothing
    BY DEF RelayInv, NobodyWaitsForNothing, Line, Holders
  <1>4. QED
    BY <1>1, <1>2, <1>3, PTL DEF RelaySpec

(***************************************************************************)
(* The broadcast service.                                                    *)
(***************************************************************************)
BroadcastStages == {"new", "body", "status", "test", "send", "answered"}
BroadcastTypeOK == castStage \in [Broadcasts -> BroadcastStages] /\ castInflight \in Int
BroadcastInv == BroadcastTypeOK /\ CounterIsChildren

Running == {"status", "test", "send"}
One(yes) == IF yes THEN 1 ELSE 0

(* One request moved, and the counter by the subprocess it ended or began.   *)
LEMMA ChildMoves ==
  ASSUME BroadcastInv,
         NEW r \in Broadcasts, NEW s \in BroadcastStages, castStage' = [castStage EXCEPT ![r] = s],
         castInflight' = castInflight + One(s \in Running) - One(r \in Children)
  PROVE  BroadcastInv'
  <1>1. castStage' \in [Broadcasts -> BroadcastStages] /\ castInflight' \in Int
    BY DEF BroadcastInv, BroadcastTypeOK, One
  <1>2. Children \subseteq Broadcasts /\ IsFiniteSet(Children) /\ Cardinality(Children) = castInflight
    BY FS_Subset, BroadcastAssumption DEF Children, CounterIsChildren, BroadcastInv
  <1>3. Children' = IF s \in Running THEN Children \cup {r} ELSE Children \ {r}
    BY DEF Children, Running, BroadcastInv, BroadcastTypeOK
  <1>4. Cardinality(Children \cup {r}) = IF r \in Children THEN castInflight ELSE castInflight + 1
    BY <1>2, FS_AddElement
  <1>5. Cardinality(Children \ {r}) = IF r \in Children THEN castInflight - 1 ELSE castInflight
    BY <1>2, FS_RemoveElement
  <1>6. Cardinality(Children') = castInflight'
    BY <1>3, <1>4, <1>5, castInflight \in Int DEF BroadcastInv, BroadcastTypeOK, One
  <1>7. QED
    BY <1>1, <1>6 DEF BroadcastInv, BroadcastTypeOK, CounterIsChildren

(* No subprocess runs when the service starts.                                *)
LEMMA BroadcastInvInit == BroadcastInit => BroadcastInv
  <1> SUFFICES ASSUME BroadcastInit PROVE BroadcastInv
    OBVIOUS
  <1>1. Children = {}
    BY DEF BroadcastInit, Children
  <1>2. QED
    BY <1>1, FS_EmptySet DEF BroadcastInit, BroadcastInv, BroadcastTypeOK, BroadcastStages, CounterIsChildren

(* Every handler counts the subprocesses it starts and ends.                  *)
LEMMA BroadcastInvStep ==
  ASSUME BroadcastInv, [BroadcastNext]_broadcastVars
  PROVE  BroadcastInv'
  <1>0. castInflight \in Int /\ Running \subseteq BroadcastStages /\ "answered" \in BroadcastStages \ Running
    BY DEF BroadcastInv, BroadcastTypeOK, Running, BroadcastStages
  <1>1. ASSUME NEW r \in Broadcasts, NEW path \in Paths, BroadcastArrives(r, path)
        PROVE  BroadcastInv'
    <2>1. PICK s \in BroadcastStages : /\ castStage' = [castStage EXCEPT ![r] = s]
                                                     /\ castInflight' = castInflight + One(s \in Running)
      <3>1. CASE castStage' = [castStage EXCEPT ![r] = "answered"] /\ castInflight' = castInflight
        BY <1>0, <3>1 DEF One, BroadcastStages, Running
      <3>2. CASE castStage' = [castStage EXCEPT ![r] = path] /\ castInflight' = IF path = "status" THEN castInflight + 1 ELSE castInflight
        <4>1. path \in BroadcastStages /\ castInflight' = castInflight + One(path \in Running)
          BY <1>0, <3>2 DEF One, BroadcastStages, Running, Paths
        <4>2. QED
          BY <3>2, <4>1
      <3>3. QED
        BY <1>1, <3>1, <3>2 DEF BroadcastArrives, Says, AtStage
    <2>2. r \notin Children
      BY <1>1 DEF BroadcastArrives, Children
    <2>3. castInflight' = castInflight + One(s \in Running) - One(r \in Children)
      BY <1>0, <2>1, <2>2 DEF One
    <2>4. QED
      BY <2>1, <2>3, ChildMoves
  <1>2. ASSUME NEW r \in Broadcasts, StatusEnds(r)
        PROVE  BroadcastInv'
    <2>1. castStage' = [castStage EXCEPT ![r] = "answered"] /\ castInflight' = castInflight - 1 /\ r \in Children
      BY <1>2 DEF StatusEnds, Says, ChildEnds, Children
    <2>2. QED
      <3>1. castInflight' = castInflight + One("answered" \in Running) - One(r \in Children)
          BY <1>0, <2>1 DEF One, Running
      <3>2. QED
          BY <1>0, <2>1, <3>1, ChildMoves DEF Running
  <1>3. ASSUME NEW r \in Broadcasts, Body(r)
        PROVE  BroadcastInv'
    <2>1. r \notin Children
      BY <1>3 DEF Body, Children
    <2>2. CASE castStage' = [castStage EXCEPT ![r] = "answered"] /\ castInflight' = castInflight
      <3>1. castInflight' = castInflight + One("answered" \in Running) - One(r \in Children)
          BY <1>0, <2>1, <2>2 DEF One, Running
      <3>2. QED
          BY <1>0, <2>1, <2>2, <3>1, ChildMoves DEF Running
    <2>3. CASE castStage' = [castStage EXCEPT ![r] = "test"] /\ castInflight' = castInflight + 1
      <3>1. castInflight' = castInflight + One("test" \in Running) - One(r \in Children)
          BY <1>0, <2>1, <2>3 DEF One, Running
      <3>2. QED
          BY <1>0, <2>1, <2>3, <3>1, ChildMoves DEF Running
    <2>4. QED
      BY <1>3, <2>2, <2>3 DEF Body, Says, AtStage
  <1>4. ASSUME NEW r \in Broadcasts, TestEnds(r) \/ SendEnds(r)
        PROVE  BroadcastInv'
    <2>1. r \in Children
      BY <1>4 DEF TestEnds, SendEnds, Children
    <2>2. CASE castStage' = [castStage EXCEPT ![r] = "send"] /\ castInflight' = castInflight
      <3>1. castInflight' = castInflight + One("send" \in Running) - One(r \in Children)
          BY <1>0, <2>1, <2>2 DEF One, Running
      <3>2. QED
          BY <1>0, <2>1, <2>2, <3>1, ChildMoves DEF Running
    <2>3. CASE castStage' = [castStage EXCEPT ![r] = "answered"] /\ castInflight' = castInflight - 1
      <3>1. castInflight' = castInflight + One("answered" \in Running) - One(r \in Children)
          BY <1>0, <2>1, <2>3 DEF One, Running
      <3>2. QED
          BY <1>0, <2>1, <2>3, <3>1, ChildMoves DEF Running
    <2>4. QED
      BY <1>4, <2>2, <2>3 DEF TestEnds, SendEnds, Says, AtStage, ChildEnds
  <1>5. ASSUME UNCHANGED <<castStage, castInflight>>
        PROVE  BroadcastInv'
    BY <1>5 DEF BroadcastInv, BroadcastTypeOK, CounterIsChildren, Children
  <1>6. ASSUME NEW path \in Paths, HitsSlide(path)
        PROVE  BroadcastInv'
    BY <1>5, <1>6 DEF HitsSlide
  <1>7. CASE UNCHANGED broadcastVars
    BY <1>5, <1>7 DEF broadcastVars
  <1>8. QED
    BY <1>1, <1>2, <1>3, <1>4, <1>6, <1>7 DEF BroadcastNext

(* The counter behind the cap is the number of subprocesses there are, however *)
(* any of them ended (bcli and its finally in broadcast/server.mjs).          *)
THEOREM BroadcastCounter == BroadcastSpec => []CounterIsChildren
  <1>1. BroadcastInit => BroadcastInv
    BY BroadcastInvInit
  <1>2. BroadcastInv /\ [BroadcastNext]_broadcastVars => BroadcastInv'
    BY BroadcastInvStep
  <1>3. BroadcastInv => CounterIsChildren
    BY DEF BroadcastInv
  <1>4. QED
    BY <1>1, <1>2, <1>3, PTL DEF BroadcastSpec

(***************************************************************************)
(* The requests that hold the node: /prevtx and /broadcast.                  *)
(***************************************************************************)
RequestStages == {"new", "body", "ask", "peers", "fetch", "poll", "test", "send", "answered"}
LookStages == {"ask", "peers", "fetch", "poll"}
RequestsInv == requestStage \in [ApiCalls -> RequestStages] /\ prevtxInflight \in Nat /\ PrevtxPlacesComeBack

(* A request that moves takes a place, gives one back, or does neither.      *)
LEMMA PlaceTaken ==
  ASSUME RequestsInv, NEW r \in PrevRequests, NEW s \in LookStages, requestStage' = [requestStage EXCEPT ![r] = s],
         r \notin Looking, prevtxInflight < MaxPrev, prevtxInflight' = prevtxInflight + 1
  PROVE  RequestsInv'
  <1>1. r \in ApiCalls /\ s \in RequestStages
    BY DEF ApiCalls, LookStages, RequestStages
  <1>2. IsFiniteSet(Looking) /\ Looking' = Looking \cup {r}
    BY <1>1, FS_Subset, RequestsAssumption DEF Looking, LookStages, RequestsInv, ApiCalls
  <1>3. Cardinality(Looking') = prevtxInflight + 1
    BY <1>2, FS_AddElement DEF RequestsInv, PrevtxPlacesComeBack
  <1>4. QED
    BY <1>1, <1>3, RequestsAssumption DEF RequestsInv, PrevtxPlacesComeBack

(* A search that ends gives its place back.                                   *)
LEMMA PlaceBack ==
  ASSUME RequestsInv, NEW r \in PrevRequests, requestStage' = [requestStage EXCEPT ![r] = "answered"],
         r \in Looking, prevtxInflight' = prevtxInflight - 1
  PROVE  RequestsInv'
  <1>1. r \in ApiCalls /\ "answered" \in RequestStages
    BY DEF ApiCalls, RequestStages
  <1>2. IsFiniteSet(Looking) /\ Looking' = Looking \ {r}
    BY <1>1, FS_Subset, RequestsAssumption DEF Looking, RequestsInv, ApiCalls
  <1>3. Cardinality(Looking') = prevtxInflight - 1 /\ Cardinality(Looking') \in Nat
    BY <1>2, FS_RemoveElement, FS_Subset, FS_CardinalityType DEF RequestsInv, PrevtxPlacesComeBack
  <1>4. QED
    BY <1>1, <1>3, RequestsAssumption DEF RequestsInv, PrevtxPlacesComeBack

(* A request that goes on without a search neither takes nor gives one.       *)
LEMMA PlaceKept ==
  ASSUME RequestsInv, NEW r \in ApiCalls, NEW s \in RequestStages, requestStage' = [requestStage EXCEPT ![r] = s],
         r \in PrevRequests => (r \in Looking <=> s \in LookStages), UNCHANGED prevtxInflight
  PROVE  RequestsInv'
  <1>1. Looking' = Looking
    BY DEF Looking, LookStages, RequestsInv
  <1>2. QED
    BY <1>1 DEF RequestsInv, PrevtxPlacesComeBack

(* The stages a request passes.                                              *)
LEMMA StagesAre ==
  /\ \A s \in LookStages \cup {"new", "body", "test", "send", "answered"} : s \in RequestStages
  /\ "ask" \in LookStages /\ "peers" \in LookStages /\ "fetch" \in LookStages /\ "poll" \in LookStages
  /\ "answered" \notin LookStages /\ "body" \notin LookStages /\ "test" \notin LookStages /\ "send" \notin LookStages
  BY DEF LookStages, RequestStages

(* However a search goes on, it keeps its place or gives it back.            *)
LEMMA SearchKeeps ==
  ASSUME RequestsInv, NEW r \in PrevRequests,
         AskNode(r) \/ Peers(r) \/ Fetch(r) \/ PollForBlock(r)
  PROVE  RequestsInv'
  <1>1. r \in Looking /\ r \in ApiCalls
    BY DEF AskNode, Peers, Fetch, PollForBlock, Looking, ApiCalls
  <1>2. ASSUME NEW s \in LookStages, To(r, s), UNCHANGED prevtxInflight
        PROVE  RequestsInv'
    BY <1>1, <1>2, StagesAre, PlaceKept DEF To
  <1>3. ASSUME NEW code, Found(r, code)
        PROVE  RequestsInv'
    BY <1>1, <1>3, PlaceBack DEF Found, Responds, CountedOff
  <1>4. ASSUME NextPeer(r)
        PROVE  RequestsInv'
    BY <1>2, <1>3, <1>4, StagesAre DEF NextPeer
  <1>5. CASE AskNode(r)
    BY <1>3, <1>4, <1>5 DEF AskNode
  <1>6. CASE Peers(r)
    BY <1>2, <1>3, <1>6, StagesAre DEF Peers
  <1>7. CASE Fetch(r)
    BY <1>2, <1>4, <1>7, StagesAre DEF Fetch
  <1>8. CASE PollForBlock(r)
    <2>1. ASSUME UNCHANGED <<requestStage, prevtxInflight>>
          PROVE  RequestsInv'
      BY <2>1 DEF RequestsInv, PrevtxPlacesComeBack, Looking
    <2>2. QED
      BY <1>3, <1>4, <1>8, <2>1 DEF PollForBlock
  <1>9. QED
    BY <1>5, <1>6, <1>7, <1>8

(* No search is under way at the start.                                       *)
LEMMA RequestsInvInit == RequestsInit => RequestsInv
  <1> SUFFICES ASSUME RequestsInit PROVE RequestsInv
    OBVIOUS
  <1>1. Looking = {}
    BY DEF RequestsInit, Looking, ApiCalls
  <1>2. QED
    BY <1>1, FS_EmptySet, RequestsAssumption DEF RequestsInit, RequestsInv, RequestStages, PrevtxPlacesComeBack

(* Every handler of the node API keeps the count.                             *)
LEMMA RequestsInvStep ==
  ASSUME RequestsInv, [RequestsNext]_requestVars
  PROVE  RequestsInv'
  <1>1. ASSUME UNCHANGED <<requestStage, prevtxInflight>>
        PROVE  RequestsInv'
    BY <1>1 DEF RequestsInv, PrevtxPlacesComeBack, Looking
  <1>2. ASSUME NEW r \in ApiCalls, r \in PrevRequests => r \notin Looking, UNCHANGED prevtxInflight,
               NEW s \in {"body", "test", "send", "answered"}, requestStage' = [requestStage EXCEPT ![r] = s]
        PROVE  RequestsInv'
    <2>1. s \in RequestStages /\ s \notin LookStages
      BY StagesAre
    <2>2. QED
      BY <1>2, <2>1, PlaceKept
  <1>3. ASSUME NEW r \in ApiCalls, RequestArrives(r) \/ BadBody(r)
        PROVE  RequestsInv'
    <2>1. r \notin Looking
      BY <1>3 DEF RequestArrives, BadBody, Looking
    <2>2. QED
      BY <1>2, <1>3, <2>1 DEF RequestArrives, BadBody, Responds, To
  <1>4. ASSUME NEW r \in PrevRequests, PrevBody(r)
        PROVE  RequestsInv'
    <2>1. r \notin Looking /\ r \in ApiCalls
      BY <1>4 DEF PrevBody, Looking, ApiCalls
    <2>2. CASE requestStage' = [requestStage EXCEPT ![r] = "answered"] /\ UNCHANGED prevtxInflight
      BY <1>2, <2>1, <2>2
    <2>3. CASE requestStage' = [requestStage EXCEPT ![r] = "ask"] /\ prevtxInflight' = prevtxInflight + 1 /\ prevtxInflight < MaxPrev
      BY <2>1, <2>3, PlaceTaken, StagesAre
    <2>4. QED
      BY <1>4, <2>2, <2>3 DEF PrevBody, Responds, To
  <1>5. ASSUME NEW r \in SendRequests, SendBody(r) \/ Test(r) \/ SendToNode(r)
        PROVE  RequestsInv'
    <2>1. r \notin PrevRequests /\ r \in ApiCalls
      BY RequestsAssumption DEF ApiCalls
    <2>2. CASE SendBody(r)
      BY <1>2, <2>1, <2>2 DEF SendBody, To
    <2>3. CASE Test(r)
      BY <1>2, <2>1, <2>3 DEF Test, To, Responds
    <2>4. CASE SendToNode(r)
      BY <1>2, <2>1, <2>4 DEF SendToNode, Responds
    <2>5. QED
      BY <1>5, <2>2, <2>3, <2>4
  <1>6. ASSUME Block \/ TxMined \/ (\E k \in {"prevtx", "broadcast"} : WindowSlides(k)) \/ UNCHANGED requestVars
        PROVE  RequestsInv'
    BY <1>1, <1>6 DEF Block, TxMined, WindowSlides, requestVars
  <1>7. QED
    BY <1>3, <1>4, <1>5, <1>6, SearchKeeps DEF RequestsNext

(* The searches counted are those under way, never more than the node is meant to *)
(* bear, for any number of requests, peers and looks (prevtxInflight).        *)
THEOREM PrevtxPlaces ==
  RequestsSpec => []PrevtxPlacesComeBack
  <1>1. RequestsInit => RequestsInv
    BY RequestsInvInit
  <1>2. RequestsInv /\ [RequestsNext]_requestVars => RequestsInv'
    BY RequestsInvStep
  <1>3. RequestsInv => PrevtxPlacesComeBack
    BY DEF RequestsInv
  <1>4. QED
    BY <1>1, <1>2, <1>3, PTL DEF RequestsSpec

(***************************************************************************)
(* The last block and the mempool, as the pending page shows them.           *)
(***************************************************************************)
Lower == {s \in Nat \X Nat : s[1] < s[2]}

(* A set of naturals has a smallest member.                                   *)
LEMMA SmallestNat ==
  ASSUME NEW T \in SUBSET Nat, T # {}
  PROVE  \E n \in T : \A m \in T : n <= m
  <1>1. Lower = OpToRel(<, Nat)
    BY DEF Lower, OpToRel
  <1>2. PICK n \in T : \A m \in T : <<m, n>> \notin Lower
    BY <1>1, NatLessThanWellFounded, WFMin
  <1>3. ASSUME NEW m \in T PROVE n <= m
    <2>1. <<m, n>> \in Nat \X Nat /\ <<m, n>>[1] = m /\ <<m, n>>[2] = n
      OBVIOUS
    <2> QED BY <1>2, <2>1 DEF Lower
  <1> QED BY <1>3

Rank(places, i) == Cardinality({j \in places : j < i})
UpTo(places, n) == {j \in places : j <= n}

(* Each place has its rank, and each rank its place.                          *)
LEMMA RankExists ==
  ASSUME NEW n \in Nat, NEW places, places \subseteq 1..n, NEW k \in 1..Cardinality(places)
  PROVE  \E i \in places : Rank(places, i) = k - 1
  <1> DEFINE T == {m \in Nat : Cardinality(UpTo(places, m)) >= k}
  <1>1. IsFiniteSet(places)
    <2>1. IsFiniteSet(1..n)
      BY FS_Interval
    <2>2. QED
      BY <2>1, FS_Subset
  <1>2. \A m : IsFiniteSet(UpTo(places, m)) /\ Cardinality(UpTo(places, m)) \in Nat
    <2>1. \A m : UpTo(places, m) \subseteq places
      BY DEF UpTo
    <2>2. QED
      BY <1>1, <2>1, FS_Subset, FS_CardinalityType
  <1>3. \A i \in places : i \in Nat /\ 1 <= i /\ i <= n
    OBVIOUS
  <1>4. k \in Nat /\ 1 <= k /\ k <= Cardinality(places)
    BY <1>1, FS_CardinalityType
  <1>5. n \in T
    <2>1. UpTo(places, n) = places
      BY <1>3 DEF UpTo
    <2>2. Cardinality(UpTo(places, n)) >= k
      BY <1>4, <2>1
    <2>3. QED
      BY <2>2
  <1>6. PICK m \in T : \A l \in T : m <= l
    BY <1>5, SmallestNat
  <1>7. m \in Nat /\ Cardinality(UpTo(places, m)) >= k
    BY <1>6
  <1> HIDE DEF T
  <1>8. m # 0
    <2>1. UpTo(places, 0) = {}
      <3>1. \A i \in places : ~(i <= 0)
        BY <1>3
      <3>2. QED
        BY <3>1 DEF UpTo
    <2>2. Cardinality(UpTo(places, 0)) = 0
      BY <2>1, FS_EmptySet
    <2>3. QED
      BY <1>4, <1>7, <2>2
  <1>9. m - 1 \in Nat /\ Cardinality(UpTo(places, m - 1)) < k
    <2>1. m - 1 \in Nat /\ m - 1 \notin T
      BY <1>6, <1>7, <1>8 DEF T
    <2>2. QED
      BY <1>2, <1>4, <2>1 DEF T
  <1>orders. \A i \in places : (i <= m - 1 <=> i < m) /\ (i <= m <=> (i < m \/ i = m))
    BY <1>3, <1>7
  <1>10. m \in places
    <2>1. ASSUME m \notin places PROVE FALSE
      <3>1. UpTo(places, m) = UpTo(places, m - 1)
        BY <1>orders, <2>1 DEF UpTo
      <3>2. QED
        BY <1>2, <1>4, <1>7, <1>9, <3>1
    <2>2. QED
      BY <2>1
  <1>11. UpTo(places, m) = UpTo(places, m - 1) \cup {m} /\ m \notin UpTo(places, m - 1)
    <2>1. ~(m <= m - 1)
      BY <1>7
    <2>2. QED
      BY <1>10, <1>orders, <2>1 DEF UpTo
  <1>12. Cardinality(UpTo(places, m)) = Cardinality(UpTo(places, m - 1)) + 1
    BY <1>2, <1>11, FS_AddElement
  <1>13. Cardinality(UpTo(places, m - 1)) = k - 1
    BY <1>2, <1>4, <1>7, <1>9, <1>12
  <1>14. {j \in places : j < m} = UpTo(places, m - 1)
    BY <1>orders DEF UpTo
  <1>15. QED
    BY <1>10, <1>13, <1>14 DEF Rank

\* Entries of seq at some places, no place twice.
TakenFrom(q, seq, places) ==
    /\ \A k \in DOMAIN q : \E i \in places : q[k] = seq[i]
    /\ \A k, l \in DOMAIN q :
          k # l => \E i, j \in places : i # j /\ q[k] = seq[i] /\ q[l] = seq[j]

(* EntriesAt takes entries, each of them once.                                     *)
LEMMA KeptIs ==
  ASSUME NEW S, NEW seq \in Seq(S), NEW places, places \subseteq DOMAIN seq, NEW q, q = EntriesAt(seq, places)
  PROVE  q \in Seq(S) /\ TakenFrom(q, seq, places)
  <1> DEFINE n == Cardinality(places)
             at(k) == CHOOSE i \in places : Rank(places, i) = k - 1
  <1>1. Len(seq) \in Nat /\ DOMAIN seq = 1..Len(seq)
    BY LenProperties
  <1>2. IsFiniteSet(places) /\ n \in Nat
    <2>1. IsFiniteSet(1..Len(seq))
      BY <1>1, FS_Interval
    <2>2. QED
      BY <1>1, <2>1, FS_Subset, FS_CardinalityType
  <1>3. \A k \in 1..n : at(k) \in places /\ Rank(places, at(k)) = k - 1
    BY <1>1, RankExists
  <1>4. q = [k \in 1..n |-> seq[at(k)]]
    BY DEF EntriesAt, Rank
  <1> HIDE DEF at, n
  <1>5. \A k \in 1..n : q[k] = seq[at(k)] /\ seq[at(k)] \in S
    BY <1>1, <1>3, <1>4, ElementOfSeq
  <1>6. q \in Seq(S) /\ DOMAIN q = 1..n
    BY <1>2, <1>4, <1>5, SeqDef
  <1>7. \A k, l \in 1..n : k # l => at(k) # at(l)
    BY <1>3
  <1>8. QED
    BY <1>3, <1>5, <1>6, <1>7 DEF TakenFrom

Blocks == [height : Int, hash : Int]
OnePlaceEach(seq) == \A i, j \in DOMAIN seq : seq[i].height = seq[j].height => i = j

\* The new block in front, and one place per height still.
LEMMA BlockInFront ==
  ASSUME blocks \in Seq(Blocks), OnePlaceEach(blocks), NEW b \in Blocks,
         NEW s, s = FirstOf(WithBlock(b), KeepBlocks)
  PROVE  s \in Seq(Blocks) /\ OnePlaceEach(s) /\ s # <<>> /\ Head(s) = b
  <1> DEFINE places == {i \in DOMAIN blocks : blocks[i].height # b.height}
             k == EntriesAt(blocks, places)
             w == <<b>> \o k
             n == IF Len(w) < KeepBlocks THEN Len(w) ELSE KeepBlocks
  <1>1. s = SubSeq(w, 1, n)
    BY DEF FirstOf, WithBlock
  <1>2. k \in Seq(Blocks) /\ TakenFrom(k, blocks, places)
    <2>1. places \subseteq DOMAIN blocks /\ k = EntriesAt(blocks, places)
      OBVIOUS
    <2> HIDE DEF places, k
    <2>2. QED
      BY <2>1, KeptIs
  <1>3. \A i \in DOMAIN k : k[i].height # b.height
    BY <1>2 DEF TakenFrom
  <1>4. \A i, j \in DOMAIN k : k[i].height = k[j].height => i = j
    BY <1>2 DEF OnePlaceEach, TakenFrom
  <1> HIDE DEF places, k, n
  <1>5. Len(k) \in Nat /\ DOMAIN k = 1..Len(k)
    BY <1>2, LenProperties
  <1>6. <<b>> \in Seq(Blocks) /\ Len(<<b>>) = 1 /\ <<b>>[1] = b
    OBVIOUS
  <1>7. /\ w \in Seq(Blocks) /\ Len(w) = Len(k) + 1
        /\ w[1] = b /\ \A i \in 2..(Len(k) + 1) : w[i] = k[i - 1]
    <2>1. /\ w \in Seq(Blocks) /\ Len(w) = 1 + Len(k)
          /\ \A i \in 1..(1 + Len(k)) : w[i] = IF i <= 1 THEN <<b>>[i] ELSE k[i - 1]
      BY <1>2, <1>6, ConcatProperties
    <2>2. QED
      BY <1>5, <1>6, <2>1
  <1> HIDE DEF w
  <1>8. n \in Nat /\ 1 <= n /\ n <= Len(w)
    BY <1>5, <1>7, StreetAssumption DEF n
  <1>9. s \in Seq(Blocks) /\ Len(s) = n /\ \A i \in 1..n : s[i] = w[i]
    <2>1. \A i \in 1..n : w[i] \in Blocks /\ 1 + i - 1 = i
      BY <1>7, <1>8, ElementOfSeq
    <2>2. /\ SubSeq(w, 1, n) \in Seq(Blocks)
          /\ Len(SubSeq(w, 1, n)) = IF 1 <= n THEN n - 1 + 1 ELSE 0
          /\ \A i \in 1..(n - 1 + 1) : SubSeq(w, 1, n)[i] = w[1 + i - 1]
      BY <1>8, <2>1, SubSeqProperties
    <2>3. QED
      BY <1>1, <1>8, <2>1, <2>2
  <1>10. DOMAIN s = 1..n
    BY <1>9, LenProperties
  <1>11. s # <<>> /\ Head(s) = b
    BY <1>7, <1>8, <1>9
  <1>12. OnePlaceEach(s)
    <2>1. SUFFICES ASSUME NEW i \in 1..n, NEW j \in 1..n, s[i].height = s[j].height PROVE i = j
      BY <1>10 DEF OnePlaceEach
    <2>2. \A m \in 1..n : m # 1 => s[m] = k[m - 1] /\ m - 1 \in DOMAIN k
      BY <1>5, <1>7, <1>8, <1>9
    <2>3. s[1] = b
      BY <1>7, <1>8, <1>9
    <2>4. CASE i = 1
      BY <1>3, <2>1, <2>2, <2>3, <2>4
    <2>5. CASE j = 1
      BY <1>3, <2>1, <2>2, <2>3, <2>5
    <2>6. CASE i # 1 /\ j # 1
      <3>1. i - 1 = j - 1
        BY <1>4, <2>1, <2>2, <2>6
      <3>2. QED
        BY <3>1
    <2>7. QED
      BY <2>4, <2>5, <2>6
  <1>13. QED
    BY <1>9, <1>11, <1>12

\* The blocks are blocks, what is listed the node had, and what is asked for is
\* still waiting for its entry.
StreetInv ==
    /\ OneListingShown
    /\ nodeMempool \subseteq Txs /\ live \subseteq Txs
    /\ chain \in Blocks /\ blocks \in Seq(Blocks)
    /\ step = "read" => ToSet(want) \subseteq pending

(* Nothing is shown and nothing polled at the start.                          *)
LEMMA StreetInvInit == StreetInit => StreetInv
  <1>1. <<>> \in Seq(Blocks) /\ DOMAIN <<>> = {}
    OBVIOUS
  <1>2. DOMAIN <<>> = {}
    OBVIOUS
  <1>3. QED
    BY <1>1 DEF StreetInit, StreetInv, OneListingShown, Listed, Blocks

(* Every await of a poll keeps the listing and the blocks apart.              *)
LEMMA StreetInvStep ==
  ASSUME StreetInv, [StreetNext]_streetVars
  PROVE  StreetInv'
  <1>1. OneListingShown /\ OnePlaceEach(blocks)
    BY DEF StreetInv, OneListingShown, OnePlaceEach
  <1>2. CASE \E t \in Txs : TxArrives(t) \/ TxEvicted(t)
    BY <1>2 DEF TxArrives, TxEvicted, StreetInv, OneListingShown, Listed, bookVars
  <1>3. CASE \E h \in 0..MaxHeight : NewBest(h)
    <2>1. chain' \in Blocks
      BY <1>3 DEF NewBest, StreetInv, Blocks
    <2>2. QED
      BY <1>3, <2>1 DEF NewBest, StreetInv, OneListingShown, Listed, bookVars
  <1>4. CASE PollStreet \/ Info
    BY <1>4 DEF PollStreet, Info, StreetInv, OneListingShown, Listed, bookVars, nodeVars
  <1>5. CASE PollFails \/ AgeRead
    BY <1>5 DEF PollFails, AgeRead, StreetInv, OneListingShown, Listed, bookVars, nodeVars
  <1>6. CASE Stats
    <2>1. /\ blocks' \in Seq(Blocks) /\ OnePlaceEach(blocks') /\ blocks' # <<>> /\ Head(blocks') = chain
      BY <1>1, <1>6, BlockInFront DEF Stats, StreetInv
    <2>2. tip' = chain /\ step' = "list" /\ UNCHANGED <<nodeVars, bookVars, live, want>>
      BY <1>6 DEF Stats
    <2>3. QED
      BY <2>1, <2>2 DEF StreetInv, OneListingShown, OnePlaceEach, Listed, bookVars, nodeVars
  <1>7. CASE ListAll
    <2>1. DOMAIN entries' = nodeMempool /\ live' = nodeMempool /\ pending' = {} /\ step' = "value"
      BY <1>7 DEF ListAll
    <2>2. UNCHANGED <<nodeVars, tip, blocks>>
      BY <1>7 DEF ListAll
    <2>3. QED
      BY <2>1, <2>2 DEF StreetInv, OneListingShown, Listed, nodeVars
  <1>8. CASE ListNew
    <2>1. /\ live' = nodeMempool /\ DOMAIN entries' = Listed \cap nodeMempool
          /\ pending' = (pending \cap nodeMempool) \cup (nodeMempool \ Listed)
          /\ UNCHANGED <<nodeVars, tip, blocks>>
      BY <1>8 DEF ListNew, StillPending
    <2>2. PICK some \in SUBSET pending' : want' = SetToSeq(some)
      BY <1>8 DEF ListNew
    <2>3. some \subseteq Txs
      BY <2>1, <2>2 DEF StreetInv
    <2>4. ToSet(want') = some
      BY <2>2, <2>3, FS_Subset, SeqOfSet, StreetAssumption
    <2>5. QED
      BY <2>1, <2>2, <2>4 DEF StreetInv, OneListingShown, Listed, nodeVars
  <1>9. CASE Read
    <2> DEFINE asked == ToSet(want)
    <2>1. /\ pending' = pending \ asked
          /\ DOMAIN entries' = Listed \cup {t \in asked : t \in nodeMempool}
          /\ step' = "value" /\ UNCHANGED <<nodeVars, tip, blocks, live>>
      BY <1>9 DEF Read
    <2>2. asked \subseteq pending
      BY <1>9 DEF Read, StreetInv
    <2> HIDE DEF asked
    <2>3. QED
      BY <2>1, <2>2 DEF StreetInv, OneListingShown, Listed, nodeVars
  <1>10. CASE Value
    <2>1. /\ DOMAIN entries' = Listed /\ step' = "age"
          /\ UNCHANGED <<nodeVars, tip, blocks, pending, live>>
      BY <1>10 DEF Value
    <2>2. QED
      BY <2>1 DEF StreetInv, OneListingShown, Listed, nodeVars
  <1>11. CASE UNCHANGED streetVars
    BY <1>11 DEF streetVars, StreetInv, OneListingShown, Listed, bookVars, nodeVars
  <1>12. QED
    BY <1>2, <1>3, <1>4, <1>5, <1>6, <1>7, <1>8, <1>9, <1>10, <1>11 DEF StreetNext

(* The pending page shows each transaction of one listing once, and one block of a *)
(* height, whatever the mempool and the chain did between the awaits, for any *)
(* mempool (_poll in nodeapi/lib.mjs).                                        *)
THEOREM ShownIsOneListing ==
  StreetSpec => []OneListingShown
  <1>1. StreetInv => OneListingShown
    BY DEF StreetInv
  <1>2. StreetInv /\ [StreetNext]_streetVars => StreetInv'
    BY StreetInvStep
  <1>3. QED
    BY <1>1, <1>2, StreetInvInit, PTL DEF StreetSpec

(***************************************************************************)
(* The alerts.                                                               *)
(***************************************************************************)
SubKinds == {"addr", "price", "fee", "blocks", "feed"}
Rows == [chat : Chats, kind : SubKinds, arg : 0..1, repeat : BOOLEAN, active : BOOLEAN, hot : BOOLEAN]

(* A table in which no user is over the limit.                               *)
Capped(t) == t \in Seq(Rows) /\ \A c \in Chats : Cardinality(ActiveOf(t, c)) <= MaxSubs

NotifyInv ==
    /\ Capped(table)
    /\ inbox \in Seq(Updates) /\ handled \in Nat
    /\ told \in [(1..MaxIds) \X SeenKeys -> 0..1]
    /\ \A x \in (1..MaxIds) \X SeenKeys : told[x] = 1 => x \in seenTable

(***************************************************************************)
(* The table.                                                               *)
(***************************************************************************)
LEMMA TableIs == ASSUME NEW t \in Seq(Rows), NEW c
                 PROVE  /\ DOMAIN t = 1..Len(t) /\ Len(t) \in Nat /\ \A i \in DOMAIN t : t[i] \in Rows
                        /\ ActiveOf(t, c) \subseteq DOMAIN t /\ IsFiniteSet(ActiveOf(t, c))
  <1>1. DOMAIN t = 1..Len(t) /\ Len(t) \in Nat /\ \A i \in DOMAIN t : t[i] \in Rows
    OBVIOUS
  <1>2. ActiveOf(t, c) \subseteq DOMAIN t
    BY DEF ActiveOf
  <1>3. IsFiniteSet(DOMAIN t)
    BY <1>1, FS_Interval
  <1>4. QED
    BY <1>1, <1>2, <1>3, FS_Subset

(* A table with no more active alerts than one within the limit is within it. *)
LEMMA FewerActive ==
  ASSUME NEW t, Capped(t), NEW s \in Seq(Rows),
         \A c \in Chats : ActiveOf(s, c) \subseteq ActiveOf(t, c)
  PROVE  Capped(s)
  <1>1. ASSUME NEW c \in Chats PROVE Cardinality(ActiveOf(s, c)) <= MaxSubs
    <2> DEFINE A == ActiveOf(s, c)
               B == ActiveOf(t, c)
    <2>1. A \subseteq B /\ IsFiniteSet(B) /\ Cardinality(B) <= MaxSubs
      BY TableIs DEF Capped
    <2> HIDE DEF A, B
    <2>2. IsFiniteSet(A) /\ Cardinality(A) <= Cardinality(B)
      BY <2>1, FS_Subset
    <2>3. Cardinality(A) \in Nat /\ Cardinality(B) \in Nat
      BY <2>1, <2>2, FS_CardinalityType
    <2>4. Cardinality(A) <= MaxSubs
      BY <2>1, <2>2, <2>3, NotifyAssumption
    <2>5. QED
      BY <2>4 DEF A
  <1>2. QED
    BY <1>1 DEF Capped

(* A table rewritten row by row is a table of as many rows.                   *)
LEMMA RowsMapped ==
  ASSUME NEW t \in Seq(Rows), NEW s, DOMAIN s = DOMAIN t, \A i \in DOMAIN t : s[i] \in Rows,
         s = [i \in DOMAIN t |-> s[i]]
  PROVE  s \in Seq(Rows)
  <1>1. DOMAIN t = 1..Len(t) /\ Len(t) \in Nat
    OBVIOUS
  <1>2. s \in [1..Len(t) -> Rows]
    BY <1>1
  <1>3. QED
    BY <1>1, <1>2, SeqDef

(* Dropped alerts are no longer active, the others stay.                      *)
LEMMA DroppedIs ==
  ASSUME NEW t \in Seq(Rows), NEW ids
  PROVE  /\ Dropped(t, ids) \in Seq(Rows) /\ Len(Dropped(t, ids)) = Len(t)
         /\ \A c \in Chats : ActiveOf(Dropped(t, ids), c) = ActiveOf(t, c) \ ids
  <1> DEFINE s == Dropped(t, ids)
  <1>1. \A i \in DOMAIN t : t[i] \in Rows /\ [t[i] EXCEPT !.active = FALSE] \in Rows
    <2>1. ASSUME NEW i \in DOMAIN t PROVE t[i] \in Rows
      BY <2>1
    <2>2. QED
      BY <2>1 DEF Rows
  <1>2. /\ DOMAIN s = DOMAIN t /\ s = [i \in DOMAIN t |-> s[i]]
        /\ \A i \in DOMAIN t : s[i] = IF i \in ids THEN [t[i] EXCEPT !.active = FALSE] ELSE t[i]
    BY DEF Dropped
  <1>3. \A i \in DOMAIN t : /\ s[i] \in Rows /\ s[i].chat = t[i].chat
                            /\ s[i].active <=> t[i].active /\ i \notin ids
    BY <1>1, <1>2 DEF Rows
  <1> HIDE DEF s
  <1>4. s \in Seq(Rows)
    BY <1>2, <1>3, RowsMapped
  <1>5. DOMAIN s = 1..Len(s) /\ DOMAIN t = 1..Len(t) /\ Len(s) \in Nat /\ Len(t) \in Nat
    BY <1>4
  <1>6. Len(s) = Len(t)
    BY <1>2, <1>5
  <1>7. \A c \in Chats : ActiveOf(s, c) = ActiveOf(t, c) \ ids
    BY <1>2, <1>3 DEF ActiveOf
  <1>8. QED
    BY <1>4, <1>6, <1>7 DEF s

(* An added row adds to the alerts of its own user at most.                   *)
LEMMA AddedIs ==
  ASSUME NEW t \in Seq(Rows), NEW row \in Rows
  PROVE  /\ Added(t, row) \in Seq(Rows)
         /\ \A c \in Chats : ActiveOf(Added(t, row), c) \subseteq
                IF c = row.chat THEN ActiveOf(t, c) \cup {Len(t) + 1} ELSE ActiveOf(t, c)
  <1> DEFINE s == Added(t, row)
             n == Len(t)
  <1>1. /\ s \in Seq(Rows) /\ Len(s) = n + 1 /\ n \in Nat /\ DOMAIN s = 1..(n + 1) /\ DOMAIN t = 1..n
        /\ \A i \in 1..n : s[i] = t[i]
        /\ s[n + 1] = row
    BY DEF Added
  <1> HIDE DEF s, n
  <1>2. \A i \in DOMAIN s : (i \in DOMAIN t /\ s[i] = t[i]) \/ i = n + 1
    BY <1>1
  <1>3. ASSUME NEW c \in Chats, NEW i \in ActiveOf(s, c)
        PROVE  i \in ActiveOf(t, c) \/ (i = n + 1 /\ c = row.chat)
    BY <1>1, <1>2 DEF ActiveOf
  <1>4. QED
    BY <1>1, <1>3 DEF s, n

(* An alert that capOk let in is within the limit.                            *)
LEMMA OneMoreFits ==
  ASSUME NEW t \in Seq(Rows), Capped(t), NEW row \in Rows,
         Cardinality(ActiveOf(t, row.chat)) < MaxSubs
  PROVE  Capped(Added(t, row))
  <1> DEFINE s == Added(t, row)
  <1>1. /\ s \in Seq(Rows)
        /\ \A c \in Chats : ActiveOf(s, c) \subseteq
                IF c = row.chat THEN ActiveOf(t, c) \cup {Len(t) + 1} ELSE ActiveOf(t, c)
    BY AddedIs
  <1> HIDE DEF s
  <1>2. ASSUME NEW c \in Chats PROVE Cardinality(ActiveOf(s, c)) <= MaxSubs
    <2> DEFINE A == ActiveOf(s, c)
               B == ActiveOf(t, c)
               k == Len(t) + 1
    <2>1. IsFiniteSet(B) /\ Cardinality(B) \in Nat /\ Cardinality(B) <= MaxSubs /\ IsFiniteSet(A)
          /\ MaxSubs \in Nat
      BY <1>1, TableIs, FS_CardinalityType, NotifyAssumption DEF Capped
    <2>2. CASE c = row.chat
      <3>1. A \subseteq B \cup {k} /\ Cardinality(B) < MaxSubs
        BY <1>1, <2>2
      <3> HIDE DEF A, B, k
      <3>2. IsFiniteSet(B \cup {k}) /\ Cardinality(B \cup {k}) <= Cardinality(B) + 1
        <4>1. CASE k \in B
          <5>1. B \cup {k} = B
            BY <4>1
          <5>2. IsFiniteSet(B) /\ Cardinality(B) <= Cardinality(B) + 1
            BY <2>1
          <5>3. QED
            BY <5>1, <5>2
        <4>2. CASE k \notin B
          <5>1. IsFiniteSet(B \cup {k}) /\ Cardinality(B \cup {k}) = Cardinality(B) + 1
            BY <2>1, <4>2, FS_AddElement
          <5>2. QED
            BY <2>1, <5>1
        <4>3. QED
          BY <4>1, <4>2
      <3>3. Cardinality(A) <= Cardinality(B \cup {k}) /\ Cardinality(A) \in Nat
            /\ Cardinality(B \cup {k}) \in Nat
        BY <2>1, <3>1, <3>2, FS_Subset, FS_CardinalityType
      <3>4. Cardinality(A) <= MaxSubs
        BY <2>1, <3>1, <3>2, <3>3
      <3>5. QED
        BY <3>4 DEF A
    <2>3. CASE c # row.chat
      <3>1. A \subseteq B
        BY <1>1, <2>3
      <3> HIDE DEF A, B
      <3>2. Cardinality(A) <= Cardinality(B) /\ Cardinality(A) \in Nat
        BY <2>1, <3>1, FS_Subset, FS_CardinalityType
      <3>3. Cardinality(A) <= MaxSubs
        BY <2>1, <3>2
      <3>4. QED
        BY <3>3 DEF A
    <2>4. QED
      BY <2>2, <2>3
  <1>3. QED
    BY <1>1, <1>2 DEF Capped, s

(***************************************************************************)
(* What one update does to the table.                                       *)
(***************************************************************************)
LEMMA UpdateIs ==
  ASSUME NEW u \in Updates
  PROVE  u.chat \in Chats /\ (u.cmd = "price" => u.arg \in 0..1) /\ (u.cmd = "tapSize" => u.arg \in 0..1)
  BY DEF Updates, Update, Sides, Sizes

(* What an update does to the table: nothing, one more row behind capOk, some *)
(* dropped, or a feed in the place of another.                                *)
LEMMA TableMoves ==
  ASSUME NEW u \in Updates
  PROVE  \/ Table(u) = table
         \/ \E row \in Rows : Table(u) = AddedIfCapOk(table, row)
         \/ \E ids : Table(u) = Dropped(table, ids)
         \/ /\ FeedOf(table, u.chat) # {}
            /\ \E row \in Rows : row.chat = u.chat /\ Table(u) = Added(Dropped(table, FeedOf(table, u.chat)), row)
  <1> DEFINE c == u.chat
             T == Table(u)
  <1>1. c \in Chats /\ (u.cmd = "price" => u.arg \in 0..1) /\ (u.cmd = "tapSize" => u.arg \in 0..1)
    BY UpdateIs
  <1>2. /\ Row(c, "addr", 0, TRUE) \in Rows /\ Row(c, "price", 1, FALSE) \in Rows
        /\ Row(c, "fee", 0, TRUE) \in Rows /\ Row(c, "blocks", 0, TRUE) \in Rows
        /\ Row(c, "feed", 1, TRUE) \in Rows
        /\ \A a \in 0..1 : Row(c, "price", a, FALSE) \in Rows
                         /\ Row(c, "feed", a, TRUE) \in Rows /\ Row(c, "feed", a, TRUE).chat = c
    BY <1>1 DEF Row, Rows, SubKinds
  <1> HIDE DEF c
  <1>3. CASE u.cmd = "watch" \/ (u.cmd = "text" /\ pendingAsk[u.chat] = NoAsk)
    <2>1. T = AddedIfCapOk(table, Row(c, "addr", 0, TRUE))
      BY <1>3 DEF Table, c
    <2>2. QED
      BY <1>2, <2>1
  <1>4. CASE u.cmd = "text" /\ pendingAsk[u.chat] # NoAsk
    <2>1. T = AddedIfCapOk(table, Row(c, "price", 1, FALSE))
      BY <1>4 DEF Table, c
    <2>2. QED
      BY <1>2, <2>1
  <1>5. CASE u.cmd = "price"
    <2>1. T = AddedIfCapOk(table, Row(c, "price", u.arg, FALSE))
      BY <1>5 DEF Table, c
    <2>2. QED
      BY <1>1, <1>2, <1>5, <2>1
  <1>6. CASE u.cmd = "fee"
    <2>1. T = AddedIfCapOk(table, Row(c, "fee", 0, TRUE))
      BY <1>6 DEF Table, c
    <2>2. QED
      BY <1>2, <2>1
  <1>7. CASE u.cmd = "remove"
    BY <1>7 DEF Table
  <1>8. CASE u.cmd = "tapBlocks"
    <2>1. T = IF BlocksOf(table, c) # {} THEN Dropped(table, BlocksOf(table, c))
              ELSE AddedIfCapOk(table, Row(c, "blocks", 0, TRUE))
      BY <1>8 DEF Table, c
    <2>2. QED
      BY <1>2, <2>1
  <1>9. CASE u.cmd = "tapFeed"
    <2>1. T = IF FeedOf(table, c) # {} THEN Dropped(table, FeedOf(table, c))
              ELSE AddedIfCapOk(table, Row(c, "feed", 1, TRUE))
      BY <1>9 DEF Table, c
    <2>2. QED
      BY <1>2, <2>1
  <1>10. CASE u.cmd = "tapSize" /\ FeedOf(table, c) # {}
    <2>1. T = Added(Dropped(table, FeedOf(table, c)), Row(c, "feed", u.arg, TRUE))
      BY <1>10 DEF Table, c
    <2>2. QED
      BY <1>1, <1>2, <1>10, <2>1 DEF c
  <1>11. CASE /\ u.cmd \notin {"watch", "text", "price", "fee", "remove", "tapBlocks", "tapFeed"}
              /\ ~(u.cmd = "tapSize" /\ FeedOf(table, c) # {})
    <2>1. T = table
      BY <1>11 DEF Table, c
    <2>2. QED
      BY <2>1
  <1>12. QED
    BY <1>3, <1>4, <1>5, <1>6, <1>7, <1>8, <1>9, <1>10, <1>11

(* Every update leaves each user within the limit, a new feed size too: it is *)
(* stored unchecked, but only after the old feed is dropped (setFeedMin).     *)
LEMMA TableCapped ==
  ASSUME Capped(table), NEW u \in Updates
  PROVE  Capped(Table(u))
  <1>0. table \in Seq(Rows)
    BY DEF Capped
  <1>1. CASE Table(u) = table
    BY <1>1
  <1>2. ASSUME NEW row \in Rows, Table(u) = AddedIfCapOk(table, row) PROVE Capped(Table(u))
    <2>1. CASE CapOk(table, row.chat)
      BY <1>0, <1>2, <2>1, OneMoreFits DEF AddedIfCapOk, CapOk
    <2>2. CASE ~CapOk(table, row.chat)
      BY <1>2, <2>2 DEF AddedIfCapOk
    <2>3. QED
      BY <2>1, <2>2
  <1>3. ASSUME NEW ids PROVE Capped(Dropped(table, ids))
    <2>1. /\ Dropped(table, ids) \in Seq(Rows)
          /\ \A c \in Chats : ActiveOf(Dropped(table, ids), c) \subseteq ActiveOf(table, c)
      BY <1>0, DroppedIs
    <2>2. QED
      BY <2>1, FewerActive
  <1>4. ASSUME FeedOf(table, u.chat) # {}, NEW row \in Rows, row.chat = u.chat,
               Table(u) = Added(Dropped(table, FeedOf(table, u.chat)), row)
        PROVE  Capped(Table(u))
    <2> DEFINE c == u.chat
               gone == FeedOf(table, c)
               t == Dropped(table, gone)
               A == ActiveOf(t, c)
               B == ActiveOf(table, c)
    <2>1. c \in Chats
      BY UpdateIs
    <2>2. t \in Seq(Rows) /\ Capped(t) /\ A = B \ gone
      BY <1>0, <1>3, <2>1, DroppedIs
    <2>3. gone \subseteq B /\ gone # {}
      BY <1>4 DEF FeedOf
    <2>4. IsFiniteSet(B) /\ IsFiniteSet(A) /\ Cardinality(B) <= MaxSubs
      BY <1>0, <2>1, <2>2, TableIs DEF Capped
    <2> HIDE DEF A, B, gone, t, c
    <2>5. Cardinality(A) < Cardinality(B)
      <3>1. A \subseteq B /\ A # B
        BY <2>2, <2>3
      <3>2. Cardinality(A) <= Cardinality(B) /\ Cardinality(A) # Cardinality(B)
        BY <2>4, <3>1, FS_Subset
      <3>3. Cardinality(A) \in Nat /\ Cardinality(B) \in Nat
        BY <2>4, FS_CardinalityType
      <3>4. QED
        BY <3>2, <3>3
    <2>6. Cardinality(A) < MaxSubs
      <3>1. Cardinality(A) \in Nat /\ Cardinality(B) \in Nat
        BY <2>4, FS_CardinalityType
      <3>2. QED
        BY <2>4, <2>5, <3>1, NotifyAssumption
    <2>7. Cardinality(ActiveOf(t, row.chat)) < MaxSubs
      BY <1>4, <2>6 DEF A, c
    <2>8. Capped(Added(t, row))
      BY <2>2, <2>7, OneMoreFits
    <2>9. QED
      BY <1>4, <2>8 DEF t, gone, c
  <1>5. QED
    BY <1>1, <1>2, <1>3, <1>4, TableMoves

(***************************************************************************)
(* Messages.                                                                *)
(***************************************************************************)
LEMMA TellsOnce ==
  ASSUME NotifyInv, NEW ids, NEW key, Tell(NewTo(ids, key), key)
  PROVE  /\ told' \in [(1..MaxIds) \X SeenKeys -> 0..1]
         /\ \A x \in (1..MaxIds) \X SeenKeys : told'[x] = 1 => x \in seenTable'
  <1> DEFINE Box == (1..MaxIds) \X SeenKeys
             new == NewTo(ids, key)
  <1>1. told \in [Box -> 0..1] /\ \A x \in Box : told[x] = 1 => x \in seenTable
    BY DEF NotifyInv
  <1>2. /\ seenTable' = seenTable \cup {<<i, key>> : i \in new}
        /\ told' = [x \in Box |-> IF x[2] = key /\ x[1] \in Heard(new) THEN told[x] + 1 ELSE told[x]]
    BY <1>1 DEF Tell
  <1>3. ASSUME NEW x \in Box, x[2] = key, x[1] \in Heard(new) PROVE x \in seenTable' /\ told[x] = 0
    <2>1. x = <<x[1], x[2]>> /\ x[1] \in new
      BY <1>3 DEF Heard
    <2>2. x \notin seenTable
      BY <1>3, <2>1 DEF NewTo
    <2>3. QED
      BY <1>1, <1>2, <1>3, <2>1, <2>2
  <1> HIDE DEF new, Box
  <1>4. ASSUME NEW x \in Box PROVE told'[x] \in 0..1 /\ (told'[x] = 1 => x \in seenTable')
    <2>1. CASE x[2] = key /\ x[1] \in Heard(new)
      BY <1>2, <1>3, <2>1
    <2>2. CASE ~(x[2] = key /\ x[1] \in Heard(new))
      BY <1>1, <1>2, <2>2
    <2>3. QED
      BY <2>1, <2>2
  <1>5. told' = [x \in Box |-> told'[x]]
    BY <1>2
  <1>6. told' \in [Box -> 0..1]
    BY <1>4, <1>5
  <1>7. QED
    BY <1>4, <1>6 DEF Box

(* The tables are empty at the start.                                         *)
LEMMA NotifyInvInit == ASSUME NotifyInit PROVE NotifyInv
  <1>1. table = <<>> /\ table \in Seq(Rows)
    BY DEF NotifyInit
  <1>2. ASSUME NEW c \in Chats PROVE Cardinality(ActiveOf(table, c)) <= MaxSubs
    <2>1. ActiveOf(table, c) = {}
      BY <1>1 DEF ActiveOf
    <2>2. Cardinality(ActiveOf(table, c)) = 0
      BY <2>1, FS_EmptySet
    <2>3. QED
      BY <2>2, NotifyAssumption
  <1>3. inbox = <<>> /\ inbox \in Seq(Updates) /\ handled \in Nat
    BY DEF NotifyInit
  <1>4. told \in [(1..MaxIds) \X SeenKeys -> 0..1] /\ \A x \in (1..MaxIds) \X SeenKeys : told[x] # 1
    BY DEF NotifyInit
  <1>5. QED
    BY <1>1, <1>2, <1>3, <1>4 DEF NotifyInv, Capped

(* An alert that cools or heats is as active as it was.                       *)
LEMMA HotChanged ==
  ASSUME Capped(table), NEW ids, NEW heat \in BOOLEAN,
         table' = [i \in DOMAIN table |-> IF i \in ids THEN [table[i] EXCEPT !.hot = heat] ELSE table[i]]
  PROVE  Capped(table')
  <1>0. table \in Seq(Rows)
    BY DEF Capped
  <1>1. \A i \in DOMAIN table : table[i] \in Rows /\ [table[i] EXCEPT !.hot = heat] \in Rows
    <2>1. ASSUME NEW i \in DOMAIN table PROVE table[i] \in Rows
      BY <1>0, <2>1
    <2>2. QED
      BY <2>1 DEF Rows
  <1>2. /\ DOMAIN table' = DOMAIN table /\ table' = [i \in DOMAIN table |-> table'[i]]
        /\ \A i \in DOMAIN table : /\ table'[i] \in Rows
                                   /\ table'[i].chat = table[i].chat /\ table'[i].active = table[i].active
    BY <1>1 DEF Rows
  <1>3. table' \in Seq(Rows)
    BY <1>0, <1>2, RowsMapped
  <1>4. \A c \in Chats : ActiveOf(table', c) \subseteq ActiveOf(table, c)
    BY <1>2 DEF ActiveOf
  <1>5. QED
    BY <1>3, <1>4, FewerActive

(* Updates, posts, runs of the watchers and restarts keep the tables sound.   *)
LEMMA NotifyInvStep == ASSUME NotifyInv, [NotifyNext]_notifyVars PROVE NotifyInv'
  <1>0. Capped(table) /\ table \in Seq(Rows) /\ inbox \in Seq(Updates) /\ handled \in Nat
    BY DEF NotifyInv, Capped
  <1>a. ASSUME UNCHANGED <<inbox, handled, told, seenTable>>, Capped(table') PROVE NotifyInv'
    BY <1>a DEF NotifyInv
  <1>b. ASSUME UNCHANGED <<inbox, handled, told, seenTable>>, table' = table PROVE NotifyInv'
    BY <1>0, <1>a, <1>b
  <1>1. ASSUME NEW u \in Updates, TypesUpdate(u) PROVE NotifyInv'
    <2>1. inbox' \in Seq(Updates) /\ UNCHANGED <<table, handled, told, seenTable>>
      BY <1>0, <1>1 DEF TypesUpdate
    <2>2. QED
      BY <1>0, <2>1 DEF NotifyInv
  <1>2. CASE HandleUpdate
    <2> DEFINE u == inbox[handled + 1]
    <2>1. u \in Updates
      <3>1. handled + 1 \in 1..Len(inbox)
        BY <1>0, <1>2 DEF HandleUpdate
      <3>2. QED
        BY <1>0, <3>1
    <2>2. table' = Table(u) /\ handled' = handled + 1 /\ UNCHANGED <<inbox, told, seenTable>>
      BY <1>2 DEF HandleUpdate
    <2> HIDE DEF u
    <2>3. Capped(table')
      BY <1>0, <2>1, <2>2, TableCapped
    <2>4. handled' \in Nat
      BY <1>0, <2>2
    <2>5. QED
      BY <2>2, <2>3, <2>4 DEF NotifyInv
  <1>3. CASE GetUpdates
    <2>1. inbox' = SubSeq(inbox, handled + 1, Len(inbox)) /\ handled' = 0 /\ UNCHANGED <<table, told, seenTable>>
      BY <1>3 DEF GetUpdates
    <2>2. inbox' \in Seq(Updates)
      <3>1. \A i \in (handled + 1)..Len(inbox) : inbox[i] \in Updates
        BY <1>0
      <3>2. handled + 1 \in Int /\ Len(inbox) \in Int
        BY <1>0
      <3>3. QED
        BY <2>1, <3>1, <3>2, SubSeqProperties
    <2>3. QED
      BY <1>0, <2>1, <2>2 DEF NotifyInv
  <1>4. CASE WorldMoves
    BY <1>4, <1>b DEF WorldMoves
  <1>5. CASE ProcessRestarts
    <2>1. handled' = 0 /\ UNCHANGED <<table, inbox, told, seenTable>>
      BY <1>5 DEF ProcessRestarts
    <2>2. QED
      BY <1>0, <2>1 DEF NotifyInv
  <1>6. ASSUME NEW c \in Chats, MuteEnds(c) PROVE NotifyInv'
    BY <1>6, <1>b DEF MuteEnds
  <1>7. ASSUME NEW n \in 1..MaxPosts, NEW size \in Sizes, Posted(n, size) PROVE NotifyInv'
    <2>1. PICK ids, key : Tell(NewTo(ids, key), key)
      BY <1>7 DEF Posted
    <2>2. UNCHANGED <<table, inbox, handled>>
      BY <1>7 DEF Posted
    <2>3. QED
      BY <1>0, <2>1, <2>2, TellsOnce DEF NotifyInv
  <1>8. ASSUME NEW r \in Runs, Minute(r) \/ Unanswered(r) PROVE NotifyInv'
    BY <1>8, <1>b DEF Minute, Unanswered
  <1>9. ASSUME NEW r \in Runs, PriceRead(r) PROVE NotifyInv'
    <2>1. PICK ids : table' = Dropped(table, ids)
      BY <1>9 DEF PriceRead
    <2>2. /\ table' \in Seq(Rows)
          /\ \A c \in Chats : ActiveOf(table', c) \subseteq ActiveOf(table, c)
      BY <1>0, <2>1, DroppedIs
    <2>3. Capped(table')
      BY <1>0, <2>2, FewerActive
    <2>4. UNCHANGED <<inbox, handled, told, seenTable>>
      BY <1>9 DEF PriceRead
    <2>5. QED
      BY <1>a, <2>3, <2>4
  <1>10. ASSUME NEW r \in Runs, FeeRead(r) PROVE NotifyInv'
    <2>1. UNCHANGED <<inbox, handled, told, seenTable>>
      BY <1>10 DEF FeeRead
    <2>2. CASE world.cheap
      <3>1. table' = [i \in DOMAIN table |-> IF i \in run[r].cold THEN [table[i] EXCEPT !.hot = TRUE] ELSE table[i]]
        BY <1>10, <2>2 DEF FeeRead, RowIds
      <3>2. Capped(table')
        BY <1>0, <3>1, HotChanged
      <3>3. QED
        BY <1>a, <2>1, <3>2
    <2>3. CASE ~world.cheap
      BY <1>10, <1>b, <2>1, <2>3 DEF FeeRead
    <2>4. QED
      BY <2>2, <2>3
  <1>11. ASSUME NEW r \in Runs, TipRead(r) PROVE NotifyInv'
    <2>1. UNCHANGED <<table, inbox, handled>>
      BY <1>11 DEF TipRead
    <2>2. CASE UNCHANGED <<seenTable, told>>
      BY <1>b, <2>1, <2>2
    <2>3. ASSUME NEW ids, NEW key, Tell(NewTo(ids, key), key) PROVE NotifyInv'
      BY <1>0, <2>1, <2>3, TellsOnce DEF NotifyInv
    <2>4. QED
      BY <1>11, <2>2, <2>3 DEF TipRead
  <1>12. ASSUME NEW i \in 1..MaxIds, Cools(i) PROVE NotifyInv'
    <2>1. i \in DOMAIN table /\ table' = [table EXCEPT ![i].hot = FALSE] /\ UNCHANGED <<inbox, handled, told, seenTable>>
      BY <1>12 DEF Cools, RowIds
    <2>2. table' = [k \in DOMAIN table |-> IF k \in {i} THEN [table[k] EXCEPT !.hot = FALSE] ELSE table[k]]
      BY <1>0, <2>1
    <2>3. Capped(table')
      BY <1>0, <2>2, HotChanged
    <2>4. QED
      BY <1>a, <2>1, <2>3
  <1>13. CASE UNCHANGED notifyVars
    BY <1>13, <1>b DEF notifyVars
  <1>14. QED
    BY <1>1, <1>2, <1>3, <1>4, <1>5, <1>6, <1>7, <1>8, <1>9, <1>10, <1>11, <1>12, <1>13 DEF NotifyNext

(* Nobody is told the same thing twice or holds more alerts than the limit, for *)
(* any number of users, overlapping runs and restarts (dispatch, capOk).      *)
THEOREM AlertsOnce == NotifySpec => []AlertsSound
  <1>1. NotifyInit => NotifyInv
    BY NotifyInvInit
  <1>2. NotifyInv /\ [NotifyNext]_notifyVars => NotifyInv'
    BY NotifyInvStep
  <1>3. NotifyInv => AlertsSound
    BY DEF NotifyInv, AlertsSound, ToldOnce, CapIsKept, Capped
  <1>4. QED
    BY <1>1, <1>2, <1>3, PTL DEF NotifySpec

(***************************************************************************)
(* The Nostr bot: a mention is on disk before it is paid.                    *)
(***************************************************************************)
BotTypeOK ==
    /\ seen \subseteq Mentions /\ claiming \subseteq Mentions
    /\ disk \in [seen : SUBSET Mentions, claimed : SUBSET Authors]
    /\ claimed \subseteq Authors
    /\ paid \in [Mentions -> Nat]
    /\ up \in BOOLEAN /\ healthy \in BOOLEAN
\* Whatever may still be paid was recorded on disk first, and was not paid yet;
\* while the bot works, memory knows all that the disk knows.
Recorded ==
    /\ claiming \subseteq disk.seen
    /\ \A m \in Mentions : paid[m] > 0 => m \in disk.seen
    /\ \A m \in claiming : paid[m] = 0
    /\ up /\ healthy => disk.seen \subseteq seen
    /\ claiming # {} => up /\ healthy
BotInv == BotTypeOK /\ Recorded /\ MentionPaysOnce

(* A payment of mentions not paid yet, all of them on disk.                  *)
LEMMA PaysKeeps ==
  ASSUME BotTypeOK, Recorded, MentionPaysOnce,
         NEW ms \in SUBSET claiming, Pays(ms)
  PROVE  /\ paid' \in [Mentions -> Nat]
         /\ \A m \in Mentions : paid'[m] <= 1
         /\ \A m \in Mentions : paid'[m] > 0 => m \in disk.seen
         /\ \A m \in claiming \ ms : paid'[m] = 0
  <1>1. \A m \in Mentions : paid'[m] = IF m \in ms THEN paid[m] + 1 ELSE paid[m]
    BY DEF Pays
  <1>2. \A m \in ms : paid[m] = 0 /\ m \in disk.seen
    BY DEF Recorded
  <1>3. \A m \in Mentions : paid[m] \in Nat /\ paid[m] <= 1
    BY DEF BotTypeOK, MentionPaysOnce
  <1>4. paid' \in [Mentions -> Nat]
    BY <1>3 DEF Pays
  <1>5. \A m \in Mentions : paid'[m] <= 1
    BY <1>1, <1>2, <1>3
  <1>6. \A m \in Mentions : paid'[m] > 0 => m \in disk.seen
    BY <1>1, <1>2 DEF Recorded
  <1>7. \A m \in claiming \ ms : paid'[m] = 0
    BY <1>1 DEF Recorded, BotTypeOK
  <1>8. QED
    BY <1>4, <1>5, <1>6, <1>7

(* Nothing is seen or paid when the bot is new.                               *)
LEMMA BotInvInit == BotInit => BotInv
  BY DEF BotInit, BotInv, BotTypeOK, Recorded, MentionPaysOnce, File

(* A mention handled is on disk before it can be paid, or nothing happens.    *)
LEMMA HandleKeeps ==
  ASSUME BotInv, NEW m \in Mentions, Handle(m)
  PROVE  BotInv'
  <1>1. m \notin seen /\ m \notin disk.seen /\ up /\ healthy
    BY DEF Handle, BotInv, Recorded
  <1>2. CASE seen' = seen \cup {m} /\ disk' = File(seen', claimed)
    <2>1. seen' \subseteq Mentions /\ disk'.seen = seen' /\ disk.seen \subseteq disk'.seen
      BY <1>1, <1>2 DEF BotInv, BotTypeOK, Recorded, File
    <2>2. claiming' \subseteq claiming \cup {m} /\ claiming' \subseteq Mentions
      BY DEF Handle, BotInv, BotTypeOK
    <2>3. BotTypeOK'
      BY <1>2, <2>1, <2>2 DEF Handle, BotInv, BotTypeOK, File
    <2>4. paid[m] = 0
      BY <1>1 DEF BotInv, BotTypeOK, Recorded
    <2>5. Recorded'
      BY <1>1, <2>1, <2>2, <2>4 DEF Handle, BotInv, Recorded
    <2>6. QED
      BY <2>3, <2>5 DEF Handle, BotInv, MentionPaysOnce
  <1>3. CASE UNCHANGED <<seen, disk>>
    <2>1. UNCHANGED <<claiming, claimed, healthy, up, paid>>
      BY <1>1, <1>3 DEF Handle
    <2>2. QED
      BY <1>3, <2>1 DEF BotInv, BotTypeOK, Recorded, MentionPaysOnce
  <1>4. QED
    BY <1>2, <1>3 DEF Handle, MarkSeenDurable

(* An answer of the faucet, or its loss, ends a claim that was recorded.      *)
LEMMA AnsweredKeeps ==
  ASSUME BotInv, NEW m \in Mentions, Answered(m)
  PROVE  BotInv'
  <1>1. m \in claiming /\ claiming' = claiming \ {m} /\ up /\ UNCHANGED <<seen, healthy, up>>
    BY DEF Answered
  <1>2. claimed' \subseteq Authors /\ disk'.seen \subseteq Mentions
        /\ disk' \in [seen : SUBSET Mentions, claimed : SUBSET Authors]
    BY AuthorAssumption DEF Answered, File, BotInv, BotTypeOK
  <1>3. disk.seen \subseteq disk'.seen /\ disk'.seen \subseteq seen
    BY <1>1 DEF Answered, File, BotInv, Recorded
  <1>4. \/ Pays({m})
        \/ paid' = paid
    BY DEF Answered
  <1>5. /\ paid' \in [Mentions -> Nat]
        /\ \A x \in Mentions : paid'[x] <= 1
        /\ \A x \in Mentions : paid'[x] > 0 => x \in disk.seen
        /\ \A x \in claiming \ {m} : paid'[x] = 0
    <2>1. CASE Pays({m})
      BY <1>1, <2>1, PaysKeeps DEF BotInv
    <2>2. CASE paid' = paid
      BY <2>2 DEF BotInv, BotTypeOK, Recorded, MentionPaysOnce
    <2>3. QED
      BY <1>4, <2>1, <2>2
  <1>6. BotTypeOK'
    BY <1>1, <1>2, <1>5 DEF BotInv, BotTypeOK
  <1>7. Recorded'
    BY <1>1, <1>3, <1>5 DEF BotInv, Recorded
  <1>8. QED
    BY <1>5, <1>6, <1>7 DEF BotInv, MentionPaysOnce

(* A crash may leave requests that still pay; they were all recorded.         *)
LEMMA CrashKeeps ==
  ASSUME BotInv, Crash
  PROVE  BotInv'
  <1>1. PICK late \in SUBSET claiming : Pays(late)
    BY DEF Crash
  <1>2. /\ paid' \in [Mentions -> Nat]
        /\ \A x \in Mentions : paid'[x] <= 1
        /\ \A x \in Mentions : paid'[x] > 0 => x \in disk.seen
    BY <1>1, PaysKeeps DEF BotInv
  <1>3. claiming' = {} /\ up' = FALSE /\ UNCHANGED <<seen, claimed, disk, healthy>>
    BY DEF Crash
  <1>4. BotTypeOK'
    BY <1>2, <1>3 DEF BotInv, BotTypeOK
  <1>5. Recorded'
    BY <1>2, <1>3 DEF Recorded
  <1>6. QED
    BY <1>2, <1>4, <1>5 DEF BotInv, MentionPaysOnce

(* A restart reads the file, or does not work at all.                         *)
LEMMA RestartKeeps ==
  ASSUME BotInv, BotRestart
  PROVE  BotInv'
  <1>1. ~up /\ claiming = {} /\ UNCHANGED <<disk, claiming, paid>>
    BY DEF BotRestart, BotInv, Recorded
  <1>2. \/ healthy' = TRUE /\ seen' = disk.seen /\ claimed' = disk.claimed
        \/ healthy' = FALSE /\ seen' = {} /\ claimed' = {}
    BY DEF BotRestart
  <1>3. BotTypeOK'
    BY <1>1, <1>2 DEF BotRestart, BotInv, BotTypeOK
  <1>4. Recorded'
    BY <1>1, <1>2 DEF BotInv, Recorded
  <1>5. QED
    BY <1>1, <1>3, <1>4 DEF BotInv, MentionPaysOnce

(* Each action of the bot keeps every claim recorded.                         *)
LEMMA BotInvNext == BotInv /\ [BotNext]_botVars => BotInv'
  <1> SUFFICES ASSUME BotInv, [BotNext]_botVars PROVE BotInv'
    OBVIOUS
  <1>1. ASSUME NEW m \in Mentions, Post(m) PROVE BotInv'
    BY <1>1 DEF Post, BotInv, BotTypeOK, Recorded, MentionPaysOnce
  <1>2. ASSUME NEW m \in Mentions, Age(m) PROVE BotInv'
    BY <1>2 DEF Age, BotInv, BotTypeOK, Recorded, MentionPaysOnce
  <1>3. ASSUME NEW m \in Mentions, Handle(m) PROVE BotInv'
    BY <1>3, HandleKeeps
  <1>4. ASSUME NEW m \in Mentions, Answered(m) PROVE BotInv'
    BY <1>4, AnsweredKeeps
  <1>5. ASSUME NEW a \in Authors, DayPasses(a) PROVE BotInv'
    <2>1. disk'.seen = disk.seen /\ disk' \in [seen : SUBSET Mentions, claimed : SUBSET Authors]
      BY <1>5 DEF DayPasses, BotInv, BotTypeOK
    <2>2. claimed' \subseteq Authors /\ UNCHANGED <<seen, healthy, up, claiming, paid>>
      BY <1>5 DEF DayPasses, BotInv, BotTypeOK
    <2>3. QED
      BY <2>1, <2>2 DEF BotInv, BotTypeOK, Recorded, MentionPaysOnce
  <1>6. ASSUME Persist PROVE BotInv'
    <2>1. disk'.seen = seen /\ disk' \in [seen : SUBSET Mentions, claimed : SUBSET Authors]
      BY <1>6 DEF Persist, File, BotInv, BotTypeOK
    <2>2. disk.seen \subseteq seen /\ UNCHANGED <<seen, claimed, healthy, up, claiming, paid>>
      BY <1>6 DEF Persist, BotInv, Recorded
    <2>3. QED
      BY <2>1, <2>2 DEF BotInv, BotTypeOK, Recorded, MentionPaysOnce
  <1>7. ASSUME Crash PROVE BotInv'
    BY <1>7, CrashKeeps
  <1>8. ASSUME BotRestart PROVE BotInv'
    BY <1>8, RestartKeeps
  <1>9. ASSUME UNCHANGED botVars PROVE BotInv'
    BY <1>9 DEF botVars, BotInv, BotTypeOK, Recorded, MentionPaysOnce
  <1>10. QED
    BY <1>1, <1>2, <1>3, <1>4, <1>5, <1>6, <1>7, <1>8, <1>9 DEF BotNext

\* A mention is paid at most once: it is on disk before the faucet is asked, and
\* the bot works only with a memory that holds what the disk holds.
THEOREM MentionsArePaidOnce == BotSpec => []MentionPaysOnce
  <1>1. BotInv => MentionPaysOnce
    BY DEF BotInv
  <1>2. BotInv /\ [BotNext]_botVars => BotInv'
    BY BotInvNext
  <1>3. QED
    BY <1>1, <1>2, BotInvInit, PTL DEF BotSpec

(* No place is lost or taken twice, in any behaviour of the four services.     *)
THEOREM PlacesAreKept ==
  QueueSpec /\ RelaySpec /\ BroadcastSpec /\ RequestsSpec => []PlacesComeBack
  <1>1. OneSearchRuns /\ NobodyWaitsForNothing /\ CounterIsChildren /\ PrevtxPlacesComeBack
          => PlacesComeBack
    BY DEF PlacesComeBack
  <1>2. QED
    BY <1>1, OneSearch, SlotsServe, BroadcastCounter, PrevtxPlaces, PTL
===============================================================================
