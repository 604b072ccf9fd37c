------------------------------- MODULE UtxoScan -------------------------------
(***************************************************************************)
(* The UTXO-set scan manager of the node API (infra/nodeapi/lib.mjs,       *)
(* ScanManager) with the handlers that call it (server.mjs): POST /scan,   *)
(* GET /scan/<id> and POST /broadcast.                                     *)
(*                                                                         *)
(* Node runs one thread, so an action is the code between two awaits.      *)
(* What awaits: a scan of the whole UTXO set (one at a time, serving every *)
(* job queued before it), the follow pass that brings cached entries up to *)
(* the tip block by block (one at a time, its promise shared by everyone   *)
(* who asks meanwhile), and the mempool questions of a poll.  Meanwhile    *)
(* blocks arrive and the best chain may be reorganised.                    *)
(*                                                                         *)
(* A cached entry is an object that a follow pass and polls may still hold *)
(* after the table has dropped or replaced it, so objects live in a heap   *)
(* and the table holds references; an object nobody refers to is gone.     *)
(***************************************************************************)
EXTENDS BlockTree, FiniteSets, Sequences

(***************************************************************************)
(* The operator's Bitcoin Core as the node API meets it: the block tree,   *)
(* the UTXO set of every block, and the coins its mempool spends.  None of *)
(* it is code of this repository; it is modelled from the RPCs that        *)
(* infra/nodeapi/lib.mjs and server.mjs call.                              *)
(***************************************************************************)
CONSTANTS
  Coins,         \* outpoints
  Spent,         \* outpoints a block's transactions consume
  Created,       \* outpoints they add and that outlive the block
  UtxoAt         \* the UTXO set as of a block

ASSUME NodeAssumption ==
  /\ {Spent, Created, UtxoAt} \subseteq [Blocks -> SUBSET Coins]
  /\ \A b \in Blocks \ {Genesis} :
       UtxoAt[b] = (UtxoAt[Parent[b]] \ Spent[b]) \cup Created[b]

VARIABLE pending \* coins spent by the mempool

nodeVars == <<tip, pending>>

NodeTypeOK == tip \in Blocks /\ pending \subseteq Coins

NodeInit == tip = Genesis /\ pending = {}

\* gettxout with the mempool taken into account.
Unspent(c) == c \in UtxoAt[tip] \ pending

\* The mempool keeps what the new best chain leaves unspent.
NewTip ==
  \E b \in Tips :
    /\ Connect(b)
    /\ pending' = pending \cap UtxoAt[b]

\* sendrawtransaction of a transaction that spends c.
Accept(c) ==
  /\ Unspent(c)
  /\ pending' = pending \cup {c}
  /\ UNCHANGED tip

(***************************************************************************)
(* The scan manager.                                                       *)
(***************************************************************************)
CONSTANTS
  None,
  Scripts,
  Wallets,      \* script sets, the keys of the entry table
  ScriptsOf,    \* the scripts of each
  ScriptOf,     \* the script each coin is locked to
  Jobs,         \* POST /scan requests and the jobs they make
  WalletOf,     \* the script set each asks for
  Polls,        \* clients polling GET /scan/<id>
  Senders,      \* clients sending a transaction to POST /broadcast
  SpendOf,      \* the coin each one's transaction spends
  Crowds,       \* bound: the sets of them that take part together
  Gens,         \* names for the objects of one script set
  MaxUnion,     \* maxUnion: scripts per scan
  MaxCoins,     \* maxCoins: coins per entry
  MaxJobs,      \* maxJobs
  MaxLag        \* blocks an entry may catch up before a rescan is cheaper (36)

\* Cached entries, mempool answers, and the objects that hold both.
Objects == Wallets \X Gens
Entry == [coins : SUBSET Coins, block : Blocks]
Answer == [coins : SUBSET Coins, block : Blocks, gone : SUBSET Coins]
Object == [entry : Entry, live : Answer \cup {None}]

ASSUME ScanAssumption ==
  /\ ScriptsOf \in [Wallets -> SUBSET Scripts]
  /\ ScriptOf \in [Coins -> Scripts]
  /\ WalletOf \in [Jobs -> Wallets]
  /\ Jobs \cap Polls = {} /\ (Jobs \cup Polls) \cap Senders = {}
  /\ None \notin Blocks \cup Jobs \cup Objects \cup Entry \cup Answer \cup Object
  /\ {MaxUnion, MaxCoins, MaxJobs, MaxLag} \subseteq Nat
  /\ IsFiniteSet(Scripts) /\ IsFiniteSet(Coins)
  /\ SpendOf \in [Senders -> Coins]
  /\ Crowds \subseteq SUBSET (Jobs \cup Polls \cup Senders)

VARIABLES
  job,       \* the state of each job, "none" before it is made or once it is deleted
  at,        \* the await each handler is parked at
  queue,     \* job ids waiting for a scan
  batch,     \* jobs of the running scan
  scanning,
  snap,      \* the block the node is scanning at
  entries,   \* the entry table: the object of each script set, or None
  heap,      \* the objects
  follower,  \* the follow pass: "off", or the RPC it is parked at
  goal,      \* the tip it read
  todo,      \* the stale objects it still has to bring up
  current,   \* the one it is bringing up
  fetched,   \* blocks it has read, by height
  poll,      \* the job a client polls
  ref,       \* the object its poll holds
  asked,     \* utxos and entry.bestblock as _liveness was called with them
  left,      \* coins gettxout has not answered for yet
  gone,      \* coins it found spent
  relayed    \* history: coins spent by an answered POST /broadcast

jobVars == <<job, queue, batch, scanning, snap>>
tableVars == <<entries, heap>>
followVars == <<follower, goal, todo, current, fetched>>
pollVars == <<poll, ref, asked, left, gone>>
vars == <<nodeVars, jobVars, at, tableVars, followVars, pollVars, relayed>>

Handlers == Jobs \cup Polls \cup Senders
CoinsOf(w) == {c \in Coins : ScriptOf[c] \in ScriptsOf[w]}

JobTypeOK ==
  /\ job \in [Jobs -> {"none", "queued", "scanning", "done", "error"}]
  /\ queue \in Seq(Jobs)
  /\ batch \subseteq Jobs
  /\ scanning \in BOOLEAN
  /\ snap \in Blocks \cup {None}

TableTypeOK ==
  /\ entries \in [Wallets -> Objects \cup {None}]
  /\ heap \in [Objects -> Object \cup {None}]

FollowTypeOK ==
  /\ follower \in {"off", "tip", "check", "block"}
  /\ goal \in Blocks \cup {None}
  /\ todo \subseteq Objects
  /\ current \in Objects \cup {None}
  /\ fetched \in [Heights -> Blocks \cup {None}]

PollTypeOK ==
  /\ poll \in [Polls -> Jobs \cup {None}]
  /\ ref \in [Polls -> Objects \cup {None}]
  /\ asked \in [Polls -> Entry \cup {None}]
  /\ left \in [Polls -> SUBSET Coins]
  /\ gone \in [Polls -> SUBSET Coins]

AtTypeOK ==
  /\ at \in [Handlers -> {"new", "follow", "back", "live", "sent", "over"}]
  /\ relayed \subseteq Coins

TypeOK ==
  NodeTypeOK /\ JobTypeOK /\ TableTypeOK /\ FollowTypeOK /\ PollTypeOK /\ AtTypeOK

Init ==
  /\ NodeInit
  /\ job = [j \in Jobs |-> "none"]
  /\ \E crowd \in Crowds : at = [h \in Handlers |-> IF h \in crowd THEN "new" ELSE "over"]
  /\ queue = <<>>
  /\ batch = {}
  /\ scanning = FALSE
  /\ snap = None
  /\ entries = [w \in Wallets |-> None]
  /\ heap = [o \in Objects |-> None]
  /\ follower = "off"
  /\ goal = None
  /\ todo = {}
  /\ current = None
  /\ fetched = [h \in Heights |-> None]
  /\ poll = [p \in Polls |-> None]
  /\ ref = [p \in Polls |-> None]
  /\ asked = [p \in Polls |-> None]
  /\ left = [p \in Polls |-> {}]
  /\ gone = [p \in Polls |-> {}]
  /\ relayed = {}

-------------------------------------------------------------------------------
(***************************************************************************)
(* Objects                                                                 *)
(***************************************************************************)
\* Everything that refers to an object, once the step is taken.
Referenced == {entries[w] : w \in Wallets} \cup todo \cup {ref[p] : p \in Polls}

\* The heap becomes h, less the objects the step leaves without a reference.
SetHeap(h) == heap' = [o \in Objects |-> IF o \in Referenced' THEN h[o] ELSE None]

\* The object a script set's scan makes.
Fresh(w) == CHOOSE o \in {w} \X Gens : heap[o] = None

-------------------------------------------------------------------------------
(***************************************************************************)
(* The scan cycle                                                          *)
(***************************************************************************)
Union(js) == UNION {ScriptsOf[WalletOf[j]] : j \in js}
FirstJobs(q, n) == {q[i] : i \in 1 .. n}

\* Mutant: the batch is the whole queue.
FrontAll(q, n) == n = Len(q)

\* One scan takes the first n jobs: the front one, and each further one whose
\* scripts still fit.
Front(q, n) ==
  /\ \A i \in 2 .. n :
       Cardinality(Union(FirstJobs(q, i - 1)))
         + Cardinality(ScriptsOf[WalletOf[q[i]]]) <= MaxUnion
  /\ n < Len(q) =>
       Cardinality(Union(FirstJobs(q, n)))
         + Cardinality(ScriptsOf[WalletOf[q[n + 1]]]) > MaxUnion

StartCycle(q, js) ==
  \E n \in 1 .. Len(q) :
    /\ Front(q, n)
    /\ batch' = FirstJobs(q, n)
    /\ queue' = SubSeq(q, n + 1, Len(q))
    /\ job' = [j \in Jobs |-> IF j \in FirstJobs(q, n) THEN "scanning" ELSE js[j]]
    /\ scanning' = TRUE /\ snap' = None

\* Mutant: a cycle is started only for a queue that was empty before.
KickFirst(q, js, running) ==
  IF running \/ Len(q) # 1
    THEN /\ queue' = q /\ job' = js /\ scanning' = running
         /\ batch' = (IF running THEN batch ELSE {})
         /\ snap' = (IF running THEN snap ELSE None)
    ELSE StartCycle(q, js)

\* _kick with the queue q and the job states js: a waiting queue starts the
\* next cycle, unless one is running.
Kick(q, js, running) ==
  IF running \/ q = <<>>
    THEN /\ queue' = q /\ job' = js /\ scanning' = running
         /\ batch' = (IF running THEN batch ELSE {})
         /\ snap' = (IF running THEN snap ELSE None)
    ELSE StartCycle(q, js)

\* gc: of the finished jobs and the entries, those that aged out or exceed a
\* limit.
GcJobs(js) ==
  {[j \in Jobs |-> IF j \in out THEN "none" ELSE js[j]] :
     out \in SUBSET {j \in Jobs : js[j] \in {"done", "error"}}}
GcTable(table) ==
  {[w \in Wallets |-> IF w \in out THEN None ELSE table[w]] : out \in SUBSET Wallets}

\* scantxoutset starts: the node answers for the block that is best now.
ScanStarts ==
  /\ scanning /\ snap = None
  /\ snap' = tip
  /\ UNCHANGED <<nodeVars, job, queue, batch, scanning, at, tableVars, followVars, pollVars, relayed>>

\* Mutant: the cap is one off.
TooManyByOne(coins) == Cardinality(coins) > MaxCoins + 1

TooMany(coins) == Cardinality(coins) > MaxCoins

ScannedCoins(w) == UtxoAt[snap] \cap CoinsOf(w)

\* The result is split per job; then gc, and the next cycle.
ScanDone ==
  LET ws == {w \in {WalletOf[j] : j \in batch} : ~TooMany(ScannedCoins(w))}
      table == [w \in Wallets |-> IF w \in ws THEN Fresh(w) ELSE entries[w]]
      made == [o \in Objects |->
                 IF o[1] \in ws /\ o = Fresh(o[1])
                   THEN [entry |-> [coins |-> ScannedCoins(o[1]), block |-> snap], live |-> None]
                   ELSE heap[o]]
      js == [j \in Jobs |-> IF j \notin batch THEN job[j]
                             ELSE IF WalletOf[j] \in ws THEN "done" ELSE "error"]
  IN /\ scanning /\ snap # None
     /\ \A w \in ws : \E o \in {w} \X Gens : heap[o] = None
     /\ entries' \in GcTable(table)
     /\ \E kept \in GcJobs(js) : Kick(queue, kept, FALSE)
     /\ UNCHANGED <<nodeVars, at, followVars, pollVars, relayed>>
     /\ SetHeap(made)

\* Mutant: a failed scan leaves its jobs as they are.
ScanFailsQuietly ==
  /\ scanning
  /\ entries' \in GcTable(entries)
  /\ \E kept \in GcJobs(job) : Kick(queue, kept, FALSE)
  /\ UNCHANGED <<nodeVars, at, followVars, pollVars, relayed>>
  /\ SetHeap(heap)

\* The RPC fails or times out, or the node aborted the scan.
ScanFails ==
  LET js == [j \in Jobs |-> IF j \in batch THEN "error" ELSE job[j]]
  IN /\ scanning
     /\ entries' \in GcTable(entries)
     /\ \E kept \in GcJobs(js) : Kick(queue, kept, FALSE)
     /\ UNCHANGED <<nodeVars, at, followVars, pollVars, relayed>>
     /\ SetHeap(heap)

\* The minute timer's gc.
Gc ==
  /\ entries' \in GcTable(entries)
  /\ job' \in GcJobs(job)
  /\ UNCHANGED <<nodeVars, queue, batch, scanning, snap, at, followVars, pollVars, relayed>>
  /\ SetHeap(heap)

-------------------------------------------------------------------------------
(***************************************************************************)
(* The follow pass                                                         *)
(***************************************************************************)
\* follow(): joins the running pass, or starts one; with an empty table it is
\* over at once.  The caller h awaits it.
Follow(h) ==
  IF follower = "off" /\ \A w \in Wallets : entries[w] = None
    THEN at' = [at EXCEPT ![h] = "back"] /\ UNCHANGED followVars
    ELSE /\ at' = [at EXCEPT ![h] = "follow"]
         /\ follower' = (IF follower = "off" THEN "tip" ELSE follower)
         /\ UNCHANGED <<goal, todo, current, fetched>>

\* The pass ends: everyone who awaits it goes on, whether it threw or not.
FollowEnds ==
  /\ follower' = "off" /\ goal' = None /\ todo' = {} /\ current' = None
  /\ fetched' = [h \in Heights |-> None]
  /\ at' = [h \in Handlers |-> IF at[h] = "follow" THEN "back" ELSE at[h]]

\* On to the next stale object, with the blocks read so far.
FollowNext(rest, blocks) ==
  IF rest = {}
    THEN FollowEnds
    ELSE /\ follower' = "check" /\ todo' = rest
         /\ current' \in rest
         /\ fetched' = blocks
         /\ UNCHANGED <<goal, at>>

\* getbestblockhash: the entries that are not at the tip are stale.
FollowTip ==
  LET stale == {entries[w] : w \in {v \in Wallets :
                  entries[v] # None /\ heap[entries[v]].entry.block # tip}}
  IN /\ follower = "tip"
     /\ IF stale = {}
          THEN FollowEnds
          ELSE /\ follower' = "check" /\ goal' = tip /\ todo' = stale
               /\ current' \in stale
               /\ UNCHANGED <<fetched, at>>
     /\ UNCHANGED <<nodeVars, jobVars, tableVars, pollVars, relayed>>

FollowTipFails ==
  /\ follower = "tip"
  /\ FollowEnds
  /\ UNCHANGED <<nodeVars, jobVars, tableVars, pollVars, relayed>>

\* getblockheader, of the entry's block and of the tip.
FollowCheck ==
  LET e == heap[current].entry
  IN /\ follower = "check"
     /\ e.block \in BestChain
     /\ Height[goal] <= Height[e.block] + MaxLag
     /\ IF Height[e.block] < Height[goal]
          THEN follower' = "block" /\ UNCHANGED <<goal, todo, current, fetched, at>>
          ELSE FollowNext(todo \ {current}, fetched)
     /\ entries' = entries
     /\ UNCHANGED <<nodeVars, jobVars, pollVars, relayed>>
     /\ SetHeap(heap)

\* Mutant: any block of the next height continues the entry's.
ContinuesByHeight(b, e) == Height[b] = Height[e.block] + 1

\* previousblockhash is the entry's bestblock.
Continues(b, e) == Parent[b] = e.block

\* A block's transactions applied to an entry.
Applied(w, e, b) ==
  [coins |-> (e.coins \ Spent[b]) \cup (Created[b] \cap CoinsOf(w)), block |-> b]

\* The next block, read once per pass: the one now at that height, which
\* must continue the entry's.  An entry over the coin cap leaves the table.
FollowBlock ==
  LET w == current[1]
      e == heap[current].entry
      h == Height[e.block] + 1
  IN /\ follower = "block"
     /\ \E b \in (IF fetched[h] # None THEN {fetched[h]} ELSE BestAt(h)) :
          LET grown == Applied(w, e, b)
              over == TooMany(grown.coins)
              blocks == [fetched EXCEPT ![h] = b]
          IN /\ Continues(b, e)
             /\ entries' = (IF over THEN [entries EXCEPT ![w] = None] ELSE entries)
             /\ IF over \/ h = Height[goal]
                  THEN FollowNext(todo \ {current}, blocks)
                  ELSE /\ fetched' = blocks
                       /\ UNCHANGED <<follower, goal, todo, current, at>>
             /\ UNCHANGED <<nodeVars, jobVars, pollVars, relayed>>
             /\ SetHeap([heap EXCEPT ![current].entry = grown])

\* A check fails or an RPC does: the key leaves the table, whatever object it
\* leads to by now.
FollowDrops ==
  /\ follower \in {"check", "block"}
  /\ entries' = [entries EXCEPT ![current[1]] = None]
  /\ FollowNext(todo \ {current}, fetched)
  /\ UNCHANGED <<nodeVars, jobVars, pollVars, relayed>>
  /\ SetHeap(heap)

-------------------------------------------------------------------------------
(***************************************************************************)
(* POST /scan                                                              *)
(***************************************************************************)
Present(js) == {j \in Jobs : js[j] # "none"}

\* Room for a job: gc runs only when the table of jobs is full.
Room ==
  IF Cardinality(Present(job)) >= MaxJobs
    THEN GcJobs(job) \X GcTable(entries)
    ELSE {<<job, entries>>}

\* The job is made and queued, unless an entry may serve it: then its handler
\* awaits follow().
Submit(j) ==
  /\ at[j] = "new"
  /\ \E room \in Room, force \in BOOLEAN :
       LET js == [room[1] EXCEPT ![j] = "queued"]
       IN /\ entries' = room[2]
          /\ IF Cardinality(Present(room[1])) >= MaxJobs
               THEN /\ at' = [at EXCEPT ![j] = "over"]
                    /\ job' = room[1]
                    /\ UNCHANGED <<queue, batch, scanning, snap, followVars>>
               ELSE IF room[2][WalletOf[j]] # None /\ ~force
               THEN /\ job' = js
                    /\ UNCHANGED <<queue, batch, scanning, snap>>
                    /\ Follow(j)
               ELSE /\ Kick(Append(queue, j), js, scanning)
                    /\ at' = [at EXCEPT ![j] = "over"]
                    /\ UNCHANGED followVars
  /\ UNCHANGED <<nodeVars, pollVars, relayed>>
  /\ SetHeap(heap)

\* After follow(), also one that threw: an entry still there serves the job.
Resubmit(j) ==
  /\ at[j] = "back"
  /\ at' = [at EXCEPT ![j] = "over"]
  /\ IF entries[WalletOf[j]] # None
       THEN /\ job' = [job EXCEPT ![j] = "done"]
            /\ UNCHANGED <<queue, batch, scanning, snap>>
       ELSE Kick(Append(queue, j), job, scanning)
  /\ UNCHANGED <<nodeVars, tableVars, followVars, pollVars, relayed>>

-------------------------------------------------------------------------------
(***************************************************************************)
(* GET /scan/<id>.  A job that is not done is answered at once and nothing *)
(* changes.                                                                *)
(***************************************************************************)
PollDoneJob(p) ==
  /\ at[p] = "new"
  /\ \E j \in Jobs : job[j] = "done" /\ poll' = [poll EXCEPT ![p] = j]
  /\ Follow(p)
  /\ UNCHANGED <<nodeVars, jobVars, tableVars, ref, asked, left, gone, relayed>>

\* The reply is sent and the handler's locals are gone.
Reply(p) ==
  /\ at' = [at EXCEPT ![p] = "new"]
  /\ poll' = [poll EXCEPT ![p] = None]
  /\ ref' = [ref EXCEPT ![p] = None]
  /\ asked' = [asked EXCEPT ![p] = None]
  /\ left' = [left EXCEPT ![p] = {}]
  /\ gone' = [gone EXCEPT ![p] = {}]

Held(p) == entries[WalletOf[poll[p]]]

\* The entry went away: scan result expired.
PollExpired(p) ==
  /\ at[p] = "back" /\ Held(p) = None
  /\ Reply(p)
  /\ UNCHANGED <<nodeVars, jobVars, tableVars, followVars, relayed>>

\* Mutant: the stamp is the number of coins alone.
ReusableByCount(obj) ==
  obj.live # None /\ Cardinality(obj.live.coins) = Cardinality(obj.entry.coins)

\* liveStamp: the entry's block and its number of coins.
Reusable(obj) ==
  /\ obj.live # None
  /\ obj.live.block = obj.entry.block
  /\ Cardinality(obj.live.coins) = Cardinality(obj.entry.coins)

\* Answers of the last few seconds are reused, coin by coin in the same order.
PollReuses(p) ==
  /\ at[p] = "back" /\ Held(p) # None
  /\ Reusable(heap[Held(p)])
  /\ Reply(p)
  /\ UNCHANGED <<nodeVars, jobVars, tableVars, followVars, relayed>>

\* _liveness asks the node about every coin.
PollAsks(p) ==
  /\ at[p] = "back" /\ Held(p) # None
  /\ at' = [at EXCEPT ![p] = "live"]
  /\ ref' = [ref EXCEPT ![p] = Held(p)]
  /\ asked' = [asked EXCEPT ![p] = heap[Held(p)].entry]
  /\ left' = [left EXCEPT ![p] = heap[Held(p)].entry.coins]
  /\ UNCHANGED <<nodeVars, jobVars, tableVars, followVars, poll, gone, relayed>>

\* gettxout of one coin; an error counts as unspent.
TxOut(p, c) ==
  /\ at[p] = "live" /\ c \in left[p]
  /\ left' = [left EXCEPT ![p] = @ \ {c}]
  /\ \/ ~Unspent(c) /\ gone' = [gone EXCEPT ![p] = @ \cup {c}]
     \/ UNCHANGED gone
  /\ UNCHANGED <<nodeVars, jobVars, at, tableVars, followVars, poll, ref, asked, relayed>>

\* Mutant: the object keeps the coins where the answers belong.
PollKeepsCoins(p) ==
  /\ at[p] = "live" /\ left[p] = {}
  /\ Reply(p)
  /\ UNCHANGED <<nodeVars, jobVars, entries, followVars, relayed>>
  /\ SetHeap([heap EXCEPT ![ref[p]].live = asked[p]])

\* All answered: the object keeps the answers, and the poll replies.
PollReplies(p) ==
  /\ at[p] = "live" /\ left[p] = {}
  /\ Reply(p)
  /\ UNCHANGED <<nodeVars, jobVars, entries, followVars, relayed>>
  /\ SetHeap([heap EXCEPT ![ref[p]].live =
       [coins |-> asked[p].coins, block |-> asked[p].block, gone |-> gone[p]]])

-------------------------------------------------------------------------------
(***************************************************************************)
(* POST /broadcast of a transaction that spends one coin                   *)
(***************************************************************************)
Relay(x) ==
  /\ at[x] = "new"
  /\ Accept(SpendOf[x])
  /\ at' = [at EXCEPT ![x] = "sent"]
  /\ UNCHANGED <<jobVars, tableVars, followVars, pollVars, relayed>>

\* sendrawtransaction answered, or the node already had it: invalidateLive,
\* then the reply.
RelayAnswered(x) ==
  /\ at[x] = "sent" \/ (at[x] = "new" /\ SpendOf[x] \in pending)
  /\ heap' = [o \in Objects |->
                IF \E w \in Wallets : entries[w] = o
                  THEN [heap[o] EXCEPT !.live = None] ELSE heap[o]]
  /\ at' = [at EXCEPT ![x] = "over"]
  /\ relayed' = relayed \cup {SpendOf[x]}
  /\ UNCHANGED <<nodeVars, jobVars, entries, followVars, pollVars>>

Network == NewTip /\ UNCHANGED <<jobVars, at, tableVars, followVars, pollVars, relayed>>

Next ==
  \/ ScanStarts \/ ScanDone \/ ScanFails \/ Gc
  \/ FollowTip \/ FollowTipFails \/ FollowCheck \/ FollowBlock \/ FollowDrops
  \/ \E j \in Jobs : Submit(j) \/ Resubmit(j)
  \/ \E p \in Polls :
       \/ PollDoneJob(p) \/ PollExpired(p) \/ PollReuses(p) \/ PollAsks(p)
       \/ (\E c \in Coins : TxOut(p, c)) \/ PollReplies(p)
  \/ \E x \in Senders : Relay(x) \/ RelayAnswered(x)
  \/ Network

Spec == Init /\ [][Next]_vars

-------------------------------------------------------------------------------
(***************************************************************************)
(* Properties                                                              *)
(***************************************************************************)
\* Whatever branch an entry came from, however often it was followed, and
\* whoever holds it: its coins are exactly the UTXO set of its scripts as of
\* the block it names.
ExactAt(w, e) == e.coins = UtxoAt[e.block] \cap CoinsOf(w)
EntryExact ==
  /\ \A w \in Wallets : entries[w] # None => entries[w][1] = w /\ heap[entries[w]] # None
  /\ \A o \in Objects : heap[o] # None => ExactAt(o[1], heap[o].entry)

\* Cached mempool answers are matched to coins by position: whenever the stamp
\* lets a poll reuse them, they are about the coins the entry has now.
LiveAligned ==
  \A o \in Objects :
    heap[o] # None /\ Reusable(heap[o]) => heap[o].live.coins = heap[o].entry.coins

\* Every job is somewhere: awaiting follow, once in the queue, in the running
\* batch, or finished; and a waiting queue means a cycle is running.
JobBooks ==
  /\ \A j \in Jobs : (job[j] = "scanning") <=> j \in batch
  /\ scanning <=> batch # {}
  /\ queue # <<>> => scanning
  /\ \A i \in 1 .. Len(queue) : job[queue[i]] = "queued" /\ at[queue[i]] = "over"
  /\ \A i, k \in 1 .. Len(queue) : queue[i] = queue[k] => i = k
  /\ \A j \in Jobs :
       CASE at[j] = "new" -> job[j] = "none"
         [] at[j] \in {"follow", "back"} -> job[j] = "queued"
         [] OTHER -> job[j] = "queued" => \E i \in 1 .. Len(queue) : queue[i] = j

\* No entry the table serves holds more coins than a poll may ask the node
\* about, whether a scan made it or blocks made it grow.
CapKept ==
  \A w \in Wallets : entries[w] # None => Cardinality(heap[entries[w]].entry.coins) <= MaxCoins

\* A scan of several jobs keeps to the size limit.
UnionBounded == Cardinality(batch) > 1 => Cardinality(Union(batch)) <= MaxUnion

\* Whatever fails or is queued meanwhile, no job is lost or scanned twice, no
\* batch outgrows one scan, and no entry outgrows the cap (_cycle, _kick, follow).
JobsAreKept == JobBooks /\ UnionBounded /\ CapKept

\* "A transaction was just relayed: cached mempool answers may now be wrong,
\* drop them", so that its coins "show as mempool-spent on the next poll": no
\* answer a poll may reuse predates a broadcast that was answered.
FreshAfterRelay ==
  \A w \in Wallets :
    LET obj == heap[entries[w]]
    IN entries[w] # None /\ Reusable(obj)
         => relayed \cap pending \cap obj.live.coins \subseteq obj.live.gone

(***************************************************************************)
(* RPCs answer or time out, and a handler goes on once its await is over.  *)
(***************************************************************************)
FollowStep == FollowTip \/ FollowTipFails \/ FollowCheck \/ FollowBlock \/ FollowDrops
FairSpec ==
  /\ Spec
  /\ WF_vars(ScanStarts \/ ScanDone \/ ScanFails)
  /\ WF_vars(FollowStep)
  /\ WF_vars(\E j \in Jobs : Resubmit(j))

\* Every submitted job ends: with an entry, an error, or deleted after one of
\* them; no wake-up of the queue is missed and no wait is forever.
JobsEnd ==
  \A j \in Jobs : job[j] \in {"queued", "scanning"} ~> job[j] \in {"done", "error", "none"}

===============================================================================
