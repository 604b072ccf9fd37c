---------------------------- MODULE UtxoScanProofs ----------------------------
(***************************************************************************)
(* For every chain, every set of clients and every bound: the types of the *)
(* scan manager, and that whatever it caches is exact.                     *)
(*                                                                         *)
(* EntryExact is not inductive: a follow pass and polls act on objects the *)
(* table may have dropped, and write back coins they read before an await. *)
(* ScanInv adds what they rely on: objects that somebody refers to are not *)
(* swept, answers and locals are exact for the block they name, and a pass *)
(* about to read a block has one to read below its goal.                   *)
(***************************************************************************)
EXTENDS UtxoScan, TLAPS, FiniteSetTheorems, SequenceTheorems

Keyed == \A w \in Wallets : entries[w] # None => entries[w] \in {w} \X Gens

\* An object and the answers it keeps belong to its script set.
ObjectExact(o, obj) ==
  /\ ExactAt(o[1], obj.entry)
  /\ obj.live # None => ExactAt(o[1], obj.live)

HeapOK ==
  /\ \A o \in Referenced : o # None => heap[o] # None
  /\ \A o \in Objects : heap[o] # None => ObjectExact(o, heap[o])

FollowOK ==
  /\ follower \in {"check", "block"} => current \in todo /\ goal \in Blocks
  /\ follower = "block" => Height[heap[current].entry.block] < Height[goal]
  /\ \A h \in Heights : fetched[h] # None => Height[fetched[h]] = h

PollOK ==
  \A p \in Polls :
    /\ at[p] \in {"follow", "back"} => poll[p] \in Jobs
    /\ at[p] = "live" => /\ ref[p] \in Objects /\ asked[p] \in Entry
                         /\ ExactAt(ref[p][1], asked[p])

ScanInv == TypeOK /\ Keyed /\ HeapOK /\ FollowOK /\ PollOK

-------------------------------------------------------------------------------
(***************************************************************************)
(* The heap                                                                *)
(***************************************************************************)

\* Sweeping keeps what is referenced, and what is left keeps its contents.
LEMMA Sweep ==
  ASSUME NEW h \in [Objects -> Object \cup {None}], SetHeap(h),
         \A o \in Referenced' : o # None => o \in Objects /\ h[o] # None,
         \A o \in Objects : h[o] # None => ObjectExact(o, h[o])
  PROVE  /\ heap' \in [Objects -> Object \cup {None}]
         /\ \A o \in Referenced' : o # None => heap'[o] = h[o]
         /\ HeapOK'
  <1>1. heap' = [o \in Objects |-> IF o \in Referenced' THEN h[o] ELSE None]
    BY DEF SetHeap
  <1>2. \A o \in Objects : heap'[o] = (IF o \in Referenced' THEN h[o] ELSE None)
    BY <1>1
  <1>3. heap' \in [Objects -> Object \cup {None}]
    <2>1. \A o \in Objects : (IF o \in Referenced' THEN h[o] ELSE None) \in Object \cup {None}
      OBVIOUS
    <2>2. QED
      BY <1>1, <2>1
  <1>4. \A o \in Referenced' : o # None => heap'[o] = h[o]
    BY <1>2
  <1>5. HeapOK'
    BY <1>2, <1>4 DEF HeapOK, ObjectExact, ExactAt, CoinsOf
  <1>6. QED
    BY <1>3, <1>4, <1>5

\* A step that adds no reference sweeps the heap and changes nothing else in it.
LEMMA Swept ==
  ASSUME ScanInv, SetHeap(heap), Referenced' \subseteq Referenced \cup {None}
  PROVE  /\ heap' \in [Objects -> Object \cup {None}]
         /\ HeapOK'
         /\ \A o \in Referenced' : o # None => heap'[o] = heap[o]
  <1>1. heap \in [Objects -> Object \cup {None}] /\ HeapOK
    BY DEF ScanInv, TypeOK, TableTypeOK
  <1>2. Referenced \subseteq Objects \cup {None}
    BY DEF ScanInv, TypeOK, TableTypeOK, FollowTypeOK, PollTypeOK, Referenced
  <1>3. \A o \in Referenced' : o # None => o \in Objects /\ heap[o] # None
    BY <1>1, <1>2 DEF HeapOK
  <1>4. \A o \in Objects : heap[o] # None => ObjectExact(o, heap[o])
    BY <1>1 DEF HeapOK
  <1>5. QED
    BY <1>1, <1>3, <1>4, Sweep

\* A step that leaves tables, pass and polls alone.
LEMMA Still ==
  ASSUME ScanInv, NodeTypeOK', JobTypeOK', AtTypeOK',
         UNCHANGED <<tableVars, followVars, pollVars>>,
         \A p \in Polls : at'[p] = at[p]
  PROVE  ScanInv'
  <1>1. TableTypeOK' /\ FollowTypeOK' /\ PollTypeOK'
    BY DEF ScanInv, TypeOK, TableTypeOK, FollowTypeOK, PollTypeOK, tableVars, followVars, pollVars
  <1>2. Referenced' = Referenced
    BY DEF Referenced, tableVars, followVars, pollVars
  <1>3. Keyed' /\ HeapOK'
    BY <1>2 DEF ScanInv, Keyed, HeapOK, ObjectExact, ExactAt, CoinsOf, tableVars
  <1>4. FollowOK'
    BY DEF ScanInv, FollowOK, tableVars, followVars
  <1>5. PollOK'
    BY DEF ScanInv, PollOK, pollVars, ExactAt, CoinsOf
  <1>6. QED
    BY <1>1, <1>3, <1>4, <1>5 DEF ScanInv, TypeOK

\* The pass does not notice a step that keeps its objects.
LEMMA PassKept ==
  ASSUME ScanInv, UNCHANGED followVars, \A o \in todo : heap'[o].entry = heap[o].entry
  PROVE  FollowTypeOK' /\ FollowOK'
  <1>1. FollowTypeOK'
    BY DEF ScanInv, TypeOK, FollowTypeOK, followVars
  <1>2. FollowOK'
    BY DEF ScanInv, FollowOK, followVars
  <1>3. QED
    BY <1>1, <1>2

\* Polls do not notice a step that keeps their locals and awaits.
LEMMA PollsKept ==
  ASSUME ScanInv, UNCHANGED pollVars,
         \A p \in Polls : \/ at'[p] = at[p]
                          \/ at[p] = "follow" /\ at'[p] = "back"
  PROVE  PollTypeOK' /\ PollOK'
  <1>1. PollTypeOK'
    BY DEF ScanInv, TypeOK, PollTypeOK, pollVars
  <1>2. PollOK'
    BY DEF ScanInv, PollOK, pollVars, ExactAt, CoinsOf
  <1>3. QED
    BY <1>1, <1>2

-------------------------------------------------------------------------------
(***************************************************************************)
(* Jobs                                                                    *)
(***************************************************************************)
JobStates == {"none", "queued", "scanning", "done", "error"}

LEMMA KickTyped ==
  ASSUME JobTypeOK, NEW q \in Seq(Jobs), NEW js \in [Jobs -> JobStates], NEW running \in BOOLEAN,
         Kick(q, js, running)
  PROVE  JobTypeOK'
  <1>1. CASE running \/ q = <<>>
    BY <1>1 DEF Kick, JobTypeOK, JobStates
  <1>2. CASE ~(running \/ q = <<>>)
    <2>1. PICK n \in 1 .. Len(q) :
            /\ batch' = FirstJobs(q, n)
            /\ queue' = SubSeq(q, n + 1, Len(q))
            /\ job' = [j \in Jobs |-> IF j \in FirstJobs(q, n) THEN "scanning" ELSE js[j]]
            /\ scanning' = TRUE /\ snap' = None
      BY <1>2 DEF Kick, StartCycle
    <2>2. Len(q) \in Nat /\ \A i \in 1 .. Len(q) : q[i] \in Jobs
      OBVIOUS
    <2>3. batch' \subseteq Jobs
      BY <2>1, <2>2 DEF FirstJobs
    <2>4. queue' \in Seq(Jobs)
      BY <2>1, <2>2, SubSeqProperties
    <2>5. job' \in [Jobs -> JobStates]
      BY <2>1 DEF JobStates
    <2>6. QED
      BY <2>1, <2>3, <2>4, <2>5 DEF JobTypeOK, JobStates
  <1>3. QED
    BY <1>1, <1>2

LEMMA GcTyped ==
  /\ \A js \in [Jobs -> JobStates] : GcJobs(js) \subseteq [Jobs -> JobStates]
  /\ \A table \in [Wallets -> Objects \cup {None}] : \A kept \in GcTable(table) :
       /\ kept \in [Wallets -> Objects \cup {None}]
       /\ \A w \in Wallets : kept[w] \in {table[w], None}
  BY DEF GcJobs, GcTable, JobStates

-------------------------------------------------------------------------------
(***************************************************************************)
(* The follow pass                                                         *)
(***************************************************************************)

\* A handler that awaits the pass.
LEMMA JoinOK ==
  ASSUME ScanInv, NEW h \in Handlers, Follow(h),
         \A o \in todo : heap'[o].entry = heap[o].entry
  PROVE  /\ FollowTypeOK' /\ FollowOK' /\ todo' = todo
         /\ \E to \in {"follow", "back"} : at' = [at EXCEPT ![h] = to]
  <1>1. CASE follower = "off" /\ \A w \in Wallets : entries[w] = None
    <2>1. at' = [at EXCEPT ![h] = "back"] /\ UNCHANGED followVars
      BY <1>1 DEF Follow
    <2>2. QED
      BY <2>1, PassKept DEF followVars
  <1>2. CASE ~(follower = "off" /\ \A w \in Wallets : entries[w] = None)
    <2>1. /\ at' = [at EXCEPT ![h] = "follow"]
          /\ follower' = (IF follower = "off" THEN "tip" ELSE follower)
          /\ UNCHANGED <<goal, todo, current, fetched>>
      BY <1>2 DEF Follow
    <2>2. FollowTypeOK'
      BY <2>1 DEF ScanInv, TypeOK, FollowTypeOK
    <2>3. FollowOK'
      BY <2>1 DEF ScanInv, FollowOK
    <2>4. QED
      BY <2>1, <2>2, <2>3
  <1>3. QED
    BY <1>1, <1>2

LEMMA EndOK ==
  ASSUME ScanInv, FollowEnds, UNCHANGED pollVars
  PROVE  /\ FollowTypeOK' /\ FollowOK' /\ PollTypeOK' /\ PollOK'
         /\ at' \in [Handlers -> {"new", "follow", "back", "live", "sent", "over"}]
         /\ todo' = {}
  <1>1. at \in [Handlers -> {"new", "follow", "back", "live", "sent", "over"}]
    BY DEF ScanInv, TypeOK, AtTypeOK
  <1>2. FollowTypeOK' /\ FollowOK'
    BY DEF FollowEnds, FollowTypeOK, FollowOK
  <1>3. \A p \in Polls : at'[p] = at[p] \/ (at[p] = "follow" /\ at'[p] = "back")
    BY DEF FollowEnds, Handlers
  <1>4. QED
    BY <1>1, <1>2, <1>3, PollsKept DEF FollowEnds

\* The blocks read so far, each at its height.
Blocklist(blocks) ==
  /\ blocks \in [Heights -> Blocks \cup {None}]
  /\ \A h \in Heights : blocks[h] # None => Height[blocks[h]] = h

LEMMA NextOK ==
  ASSUME ScanInv, goal \in Blocks, UNCHANGED pollVars,
         NEW rest, rest \subseteq Objects, NEW blocks, Blocklist(blocks), FollowNext(rest, blocks)
  PROVE  /\ FollowTypeOK' /\ FollowOK' /\ PollTypeOK' /\ PollOK'
         /\ at' \in [Handlers -> {"new", "follow", "back", "live", "sent", "over"}]
         /\ todo' = rest
  <1>1. CASE rest = {}
    BY <1>1, EndOK DEF FollowNext
  <1>2. CASE rest # {}
    <2>1. /\ follower' = "check" /\ todo' = rest /\ current' \in rest
          /\ fetched' = blocks /\ UNCHANGED <<goal, at>>
      BY <1>2 DEF FollowNext
    <2>2. FollowTypeOK' /\ FollowOK'
      BY <2>1 DEF FollowTypeOK, FollowOK, Blocklist
    <2>3. PollTypeOK' /\ PollOK'
      BY <2>1, PollsKept
    <2>4. QED
      BY <2>1, <2>2, <2>3 DEF ScanInv, TypeOK, AtTypeOK
  <1>3. QED
    BY <1>1, <1>2

\* What a step of the pass starts from.
LEMMA PassFacts ==
  ASSUME ScanInv, follower \in {"check", "block"}
  PROVE  /\ goal \in Blocks /\ current \in todo /\ todo \subseteq Objects /\ current \in Objects
         /\ heap[current] \in Object /\ ObjectExact(current, heap[current])
         /\ current[1] \in Wallets
         /\ Blocklist(fetched)
  <1>1. goal \in Blocks /\ current \in todo /\ todo \subseteq Objects /\ current \in Objects
    BY DEF ScanInv, FollowOK, TypeOK, FollowTypeOK
  <1>2. current \in Referenced /\ current # None
    BY <1>1, ScanAssumption DEF Referenced
  <1>3. heap[current] \in Object /\ ObjectExact(current, heap[current])
    BY <1>1, <1>2 DEF ScanInv, HeapOK, TypeOK, TableTypeOK
  <1>4. Blocklist(fetched)
    BY DEF ScanInv, FollowOK, TypeOK, FollowTypeOK, Blocklist
  <1>5. QED
    BY <1>1, <1>3, <1>4 DEF Objects

LEMMA TipStep ==
  ASSUME ScanInv, FollowTip \/ FollowTipFails
  PROVE  ScanInv'
  <1>1. UNCHANGED <<nodeVars, jobVars, tableVars, pollVars, relayed>>
    BY DEF FollowTip, FollowTipFails
  <1>2. NodeTypeOK' /\ JobTypeOK' /\ TableTypeOK'
    BY <1>1 DEF ScanInv, TypeOK, NodeTypeOK, JobTypeOK, TableTypeOK, nodeVars, jobVars, tableVars
  <1>3. Keyed'
    BY <1>1 DEF ScanInv, Keyed, tableVars
  <1>4. todo' \subseteq {entries[w] : w \in {v \in Wallets : entries[v] # None}}
        => HeapOK'
    BY <1>1 DEF ScanInv, HeapOK, Referenced, ObjectExact, ExactAt, CoinsOf, tableVars, pollVars
  <1>5. CASE FollowEnds
    BY <1>1, <1>2, <1>3, <1>4, <1>5, EndOK DEF ScanInv, TypeOK, AtTypeOK
  <1>6. CASE ~FollowEnds
    <2> DEFINE stale == {entries[w] : w \in {v \in Wallets :
                           entries[v] # None /\ heap[entries[v]].entry.block # tip}}
    <2>1. /\ follower' = "check" /\ goal' = tip /\ todo' = stale
          /\ current' \in stale /\ UNCHANGED <<fetched, at>>
      BY <1>6 DEF FollowTip, FollowTipFails
    <2>2. stale \subseteq Objects
      BY DEF ScanInv, TypeOK, TableTypeOK
    <2>3. stale \subseteq {entries[w] : w \in {v \in Wallets : entries[v] # None}}
      OBVIOUS
    <2>4. tip \in Blocks
      BY DEF ScanInv, TypeOK, NodeTypeOK
    <2> HIDE DEF stale
    <2>5. FollowTypeOK' /\ FollowOK'
      BY <2>1, <2>2, <2>4 DEF ScanInv, TypeOK, FollowTypeOK, FollowOK
    <2>6. PollTypeOK' /\ PollOK'
      BY <1>1, <2>1, PollsKept
    <2>7. AtTypeOK'
      BY <1>1, <2>1 DEF ScanInv, TypeOK, AtTypeOK
    <2>8. QED
      BY <1>2, <1>3, <1>4, <2>1, <2>3, <2>5, <2>6, <2>7 DEF ScanInv, TypeOK
  <1>7. QED
    BY <1>5, <1>6


\* A step of the pass that leaves the objects' contents alone.
LEMMA PassGoesOn ==
  ASSUME ScanInv, follower \in {"check", "block"}, FollowNext(todo \ {current}, fetched),
         SetHeap(heap), UNCHANGED <<nodeVars, jobVars, pollVars, relayed>>,
         \A w \in Wallets : entries'[w] \in {entries[w], None},
         entries' \in [Wallets -> Objects \cup {None}]
  PROVE  ScanInv'
  <1>1. /\ goal \in Blocks /\ todo \ {current} \subseteq Objects /\ Blocklist(fetched)
    BY PassFacts
  <1>2. UNCHANGED pollVars
    OBVIOUS
  <1>3. /\ FollowTypeOK' /\ FollowOK' /\ PollTypeOK' /\ PollOK'
        /\ at' \in [Handlers -> {"new", "follow", "back", "live", "sent", "over"}]
        /\ todo' = todo \ {current}
    BY <1>1, <1>2, NextOK
  <1>4. Referenced' \subseteq Referenced \cup {None}
    BY <1>3 DEF Referenced, pollVars
  <1>5. heap' \in [Objects -> Object \cup {None}] /\ HeapOK'
    BY <1>4, Swept
  <1>6. NodeTypeOK' /\ JobTypeOK' /\ AtTypeOK'
    BY <1>3 DEF ScanInv, TypeOK, NodeTypeOK, JobTypeOK, AtTypeOK, nodeVars, jobVars
  <1>7. Keyed'
    BY DEF ScanInv, Keyed
  <1>8. QED
    BY <1>3, <1>5, <1>6, <1>7 DEF ScanInv, TypeOK, TableTypeOK

LEMMA CheckStep ==
  ASSUME ScanInv, FollowCheck
  PROVE  ScanInv'
  <1>1. /\ follower = "check" /\ UNCHANGED <<nodeVars, jobVars, pollVars, relayed>>
        /\ SetHeap(heap) /\ entries' = entries
    BY DEF FollowCheck
  <1>2. CASE Height[heap[current].entry.block] < Height[goal]
    <2>1. follower' = "block" /\ UNCHANGED <<goal, todo, current, fetched, at>>
      BY <1>2 DEF FollowCheck
    <2>2. Referenced' = Referenced
      BY <1>1, <2>1 DEF Referenced, pollVars
    <2>3. /\ heap' \in [Objects -> Object \cup {None}] /\ HeapOK'
          /\ \A o \in Referenced' : o # None => heap'[o] = heap[o]
      BY <1>1, <2>2, Swept
    <2>4. current \in todo /\ current \in Objects
      BY <1>1, PassFacts
    <2>5. heap'[current] = heap[current]
      BY <2>2, <2>3, <2>4, ScanAssumption DEF Referenced
    <2>6. FollowTypeOK'
      BY <2>1 DEF ScanInv, TypeOK, FollowTypeOK
    <2>7. FollowOK'
      BY <1>1, <1>2, <2>1, <2>5 DEF ScanInv, FollowOK
    <2>8. PollTypeOK' /\ PollOK'
      BY <1>1, <2>1, PollsKept
    <2>9. NodeTypeOK' /\ JobTypeOK' /\ AtTypeOK' /\ Keyed'
      BY <1>1, <2>1 DEF ScanInv, TypeOK, NodeTypeOK, JobTypeOK, AtTypeOK, Keyed, nodeVars, jobVars
    <2>10. TableTypeOK'
      BY <1>1, <2>3 DEF ScanInv, TypeOK, TableTypeOK
    <2>11. QED
      BY <2>3, <2>6, <2>7, <2>8, <2>9, <2>10 DEF ScanInv, TypeOK
  <1>3. CASE ~(Height[heap[current].entry.block] < Height[goal])
    <2>1. FollowNext(todo \ {current}, fetched)
      BY <1>3 DEF FollowCheck
    <2>2. entries' \in [Wallets -> Objects \cup {None}]
      BY <1>1 DEF ScanInv, TypeOK, TableTypeOK
    <2>3. QED
      BY <1>1, <2>1, <2>2, PassGoesOn
  <1>4. QED
    BY <1>2, <1>3

LEMMA DropStep ==
  ASSUME ScanInv, FollowDrops
  PROVE  ScanInv'
  <1>1. /\ follower \in {"check", "block"} /\ UNCHANGED <<nodeVars, jobVars, pollVars, relayed>>
        /\ SetHeap(heap) /\ entries' = [entries EXCEPT ![current[1]] = None]
        /\ FollowNext(todo \ {current}, fetched)
    BY DEF FollowDrops
  <1>2. entries \in [Wallets -> Objects \cup {None}]
    BY DEF ScanInv, TypeOK, TableTypeOK
  <1>3. /\ entries' \in [Wallets -> Objects \cup {None}]
        /\ \A w \in Wallets : entries'[w] \in {entries[w], None}
    BY <1>1, <1>2
  <1>4. QED
    BY <1>1, <1>3, PassGoesOn

\* The block that continues an entry makes it exact as of that block.
LEMMA AppliedExact ==
  ASSUME NEW w \in Wallets, NEW e \in Entry, ExactAt(w, e), NEW b \in Blocks \ {Genesis},
         Continues(b, e)
  PROVE  Applied(w, e, b) \in Entry /\ ExactAt(w, Applied(w, e, b))
  <1>1. UtxoAt[b] = (UtxoAt[e.block] \ Spent[b]) \cup Created[b]
    BY TreeAssumption, NodeAssumption DEF Continues
  <1>2. e.coins \subseteq Coins /\ Created[b] \subseteq Coins
    BY TreeAssumption, NodeAssumption DEF Entry
  <1>3. Applied(w, e, b).coins = (e.coins \ Spent[b]) \cup (Created[b] \cap CoinsOf(w))
    BY DEF Applied
  <1>4. Applied(w, e, b).coins = UtxoAt[Applied(w, e, b).block] \cap CoinsOf(w)
    BY <1>1, <1>3 DEF ExactAt, Applied
  <1>5. QED
    BY <1>2, <1>4 DEF ExactAt, Applied, Entry

LEMMA BlockStep ==
  ASSUME ScanInv, FollowBlock
  PROVE  ScanInv'
  <1> DEFINE w == current[1]
             e == heap[current].entry
             h == Height[e.block] + 1
  <1>1. follower = "block"
    BY DEF FollowBlock
  <1>2. /\ goal \in Blocks /\ current \in todo /\ todo \subseteq Objects /\ current \in Objects
        /\ heap[current] \in Object /\ ObjectExact(current, heap[current])
        /\ w \in Wallets /\ Blocklist(fetched)
    BY <1>1, PassFacts
  <1>3. e \in Entry /\ ExactAt(w, e) /\ heap[current].live \in Answer \cup {None}
    BY <1>2 DEF Object, ObjectExact
  <1>4. h \in Heights /\ h <= Height[goal] /\ Height[e.block] \in Nat
    <2>1. Height[e.block] < Height[goal]
      BY <1>1 DEF ScanInv, FollowOK
    <2>2. Height[e.block] \in 0 .. MaxHeight /\ Height[goal] \in 0 .. MaxHeight /\ MaxHeight \in Nat
      BY <1>2, <1>3, TreeAssumption, NodeAssumption DEF Entry, Heights
    <2>3. QED
      BY <2>1, <2>2 DEF Heights
  <1>5. PICK b \in (IF fetched[h] # None THEN {fetched[h]} ELSE BestAt(h)) :
          /\ Continues(b, e)
          /\ entries' = (IF TooMany(Applied(w, e, b).coins)
                           THEN [entries EXCEPT ![w] = None] ELSE entries)
          /\ IF TooMany(Applied(w, e, b).coins) \/ h = Height[goal]
               THEN FollowNext(todo \ {current}, [fetched EXCEPT ![h] = b])
               ELSE /\ fetched' = [fetched EXCEPT ![h] = b]
                    /\ UNCHANGED <<follower, goal, todo, current, at>>
          /\ UNCHANGED <<nodeVars, jobVars, pollVars, relayed>>
          /\ SetHeap([heap EXCEPT ![current].entry = Applied(w, e, b)])
    BY DEF FollowBlock
  <1>6. b \in Blocks /\ Height[b] = h
    BY <1>2, <1>4, <1>5 DEF Blocklist, BestAt
  <1>7. b # Genesis
    <2>1. Parent[b] = e.block
      BY <1>5 DEF Continues
    <2>2. b = Genesis => Height[b] = Height[e.block]
      BY <2>1, TreeAssumption, NodeAssumption
    <2>3. QED
      BY <1>4, <1>6, <2>2
  <1> DEFINE grown == Applied(w, e, b)
             made == [heap EXCEPT ![current].entry = grown]
             blocks == [fetched EXCEPT ![h] = b]
  <1>8. grown \in Entry /\ ExactAt(w, grown) /\ grown.block = b
    BY <1>2, <1>3, <1>5, <1>6, <1>7, AppliedExact DEF Applied
  <1>9. Blocklist(blocks)
    BY <1>2, <1>4, <1>6 DEF Blocklist
  <1>10. /\ heap \in [Objects -> Object \cup {None}]
         /\ \A o \in Objects : heap[o] # None => ObjectExact(o, heap[o])
         /\ \A o \in Referenced : o # None => heap[o] # None
    BY DEF ScanInv, HeapOK, TypeOK, TableTypeOK
  <1>11. /\ [heap[current] EXCEPT !.entry = grown] \in Object
         /\ [heap[current] EXCEPT !.entry = grown].live = heap[current].live
         /\ [heap[current] EXCEPT !.entry = grown].entry = grown
    BY <1>2, <1>8 DEF Object
  <1>12. /\ made \in [Objects -> Object \cup {None}]
         /\ made[current] = [heap[current] EXCEPT !.entry = grown]
         /\ \A o \in Objects \ {current} : made[o] = heap[o]
    BY <1>2, <1>10, <1>11
  <1> HIDE DEF grown, made, blocks, w, e, h
  <1>13. \A o \in Objects : made[o] # None => ObjectExact(o, made[o])
    <2>1. ObjectExact(current, made[current])
      BY <1>2, <1>8, <1>11, <1>12 DEF ObjectExact, w
    <2>2. QED
      BY <1>10, <1>12, <2>1
  <1>14. made[current] # None
    BY <1>11, <1>12, ScanAssumption
  <1>15. /\ entries' \in [Wallets -> Objects \cup {None}]
         /\ \A v \in Wallets : entries'[v] \in {entries[v], None}
    BY <1>5 DEF ScanInv, TypeOK, TableTypeOK, grown
  <1>16. UNCHANGED pollVars /\ UNCHANGED <<nodeVars, jobVars, relayed>>
    BY <1>5
  <1>17. todo' \subseteq todo => HeapOK' /\ TableTypeOK'
                                  /\ \A o \in Referenced' : o # None => heap'[o] = made[o]
    <2> SUFFICES ASSUME todo' \subseteq todo
                 PROVE  HeapOK' /\ TableTypeOK'
                         /\ \A o \in Referenced' : o # None => heap'[o] = made[o]
      OBVIOUS
    <2>1. Referenced' \subseteq Referenced \cup {None}
      BY <1>15, <1>16 DEF Referenced, pollVars
    <2>2. Referenced \subseteq Objects \cup {None}
      BY DEF ScanInv, TypeOK, TableTypeOK, FollowTypeOK, PollTypeOK, Referenced
    <2>3. \A o \in Referenced' : o # None => o \in Objects /\ made[o] # None
      BY <1>10, <1>12, <1>14, <2>1, <2>2
    <2>4. SetHeap(made)
      BY <1>5 DEF made, grown
    <2>5. QED
      BY <1>12, <1>13, <1>15, <2>3, <2>4, Sweep DEF TableTypeOK
  <1>18. NodeTypeOK' /\ JobTypeOK' /\ Keyed'
    BY <1>15, <1>16 DEF ScanInv, TypeOK, NodeTypeOK, JobTypeOK, Keyed, nodeVars, jobVars
  <1>19. CASE TooMany(grown.coins) \/ h = Height[goal]
    <2>1. FollowNext(todo \ {current}, blocks)
      BY <1>5, <1>19 DEF grown, blocks
    <2>2. todo \ {current} \subseteq Objects
      BY <1>2
    <2>3. /\ FollowTypeOK' /\ FollowOK' /\ PollTypeOK' /\ PollOK'
          /\ at' \in [Handlers -> {"new", "follow", "back", "live", "sent", "over"}]
          /\ todo' = todo \ {current}
      BY <1>2, <1>9, <1>16, <2>1, <2>2, NextOK
    <2>4. AtTypeOK'
      BY <1>16, <2>3 DEF ScanInv, TypeOK, AtTypeOK
    <2>5. QED
      BY <1>17, <1>18, <2>3, <2>4 DEF ScanInv, TypeOK
  <1>20. CASE ~(TooMany(grown.coins) \/ h = Height[goal])
    <2>1. fetched' = blocks /\ UNCHANGED <<follower, goal, todo, current, at>>
      BY <1>5, <1>20 DEF grown, blocks
    <2>2. /\ HeapOK' /\ TableTypeOK' /\ heap'[current] = made[current]
      BY <1>2, <1>17, <2>1, ScanAssumption DEF Referenced
    <2>3. Height[b] < Height[goal]
      BY <1>2, <1>4, <1>6, <1>20, TreeAssumption, NodeAssumption DEF Heights, h
    <2>4. heap'[current].entry.block = b
      BY <1>8, <1>11, <1>12, <2>2
    <2>5. FollowTypeOK'
      BY <1>9, <2>1 DEF ScanInv, TypeOK, FollowTypeOK, Blocklist
    <2>6. FollowOK'
      BY <1>2, <1>9, <2>1, <2>3, <2>4 DEF ScanInv, FollowOK, Blocklist
    <2>7. PollTypeOK' /\ PollOK'
      BY <1>16, <2>1, PollsKept
    <2>8. AtTypeOK'
      BY <1>16, <2>1 DEF ScanInv, TypeOK, AtTypeOK
    <2>9. QED
      BY <1>18, <2>2, <2>5, <2>6, <2>7, <2>8 DEF ScanInv, TypeOK
  <1>21. QED
    BY <1>19, <1>20

-------------------------------------------------------------------------------
(***************************************************************************)
(* The scan cycle                                                          *)
(***************************************************************************)

LEMMA StillSteps ==
  ASSUME ScanInv, ScanStarts \/ Network \/ (\E x \in Senders : Relay(x))
  PROVE  ScanInv'
  <1>1. /\ UNCHANGED <<tableVars, followVars, pollVars>>
        /\ JobTypeOK' /\ AtTypeOK' /\ \A p \in Polls : at'[p] = at[p]
    BY ScanAssumption DEF ScanStarts, Network, Relay, ScanInv, TypeOK, JobTypeOK, AtTypeOK,
       NodeTypeOK, jobVars, nodeVars, Handlers
  <1>2. NodeTypeOK'
    BY TreeAssumption, NodeAssumption, ScanAssumption
    DEF ScanStarts, Network, Relay, NewTip, Connect, Accept, ScanInv, TypeOK, NodeTypeOK, nodeVars
  <1>3. QED
    BY <1>1, <1>2, Still

\* The cycle's end and the timer: jobs and table change, no reference is added.
LEMMA GcStep ==
  ASSUME ScanInv, entries' \in GcTable(entries), JobTypeOK', SetHeap(heap),
         UNCHANGED <<nodeVars, at, followVars, pollVars, relayed>>
  PROVE  ScanInv'
  <1>1. /\ entries' \in [Wallets -> Objects \cup {None}]
        /\ \A w \in Wallets : entries'[w] \in {entries[w], None}
    BY GcTyped DEF ScanInv, TypeOK, TableTypeOK
  <1>2. Referenced' \subseteq Referenced \cup {None}
    BY <1>1 DEF Referenced, followVars, pollVars
  <1>3. /\ heap' \in [Objects -> Object \cup {None}] /\ HeapOK'
        /\ \A o \in Referenced' : o # None => heap'[o] = heap[o]
    BY <1>2, Swept
  <1>4. todo' = todo /\ todo \subseteq Objects
    BY DEF followVars, ScanInv, TypeOK, FollowTypeOK
  <1>5. \A o \in todo : heap'[o].entry = heap[o].entry
    BY <1>3, <1>4, ScanAssumption DEF Referenced
  <1>6. FollowTypeOK' /\ FollowOK'
    BY <1>5, PassKept
  <1>7. PollTypeOK' /\ PollOK'
    BY PollsKept
  <1>8. NodeTypeOK' /\ AtTypeOK' /\ Keyed'
    BY <1>1 DEF ScanInv, TypeOK, NodeTypeOK, AtTypeOK, Keyed, nodeVars
  <1>9. QED
    BY <1>1, <1>3, <1>6, <1>7, <1>8 DEF ScanInv, TypeOK, TableTypeOK

LEMMA FailStep ==
  ASSUME ScanInv, ScanFails \/ Gc
  PROVE  ScanInv'
  <1>1. JobTypeOK /\ queue \in Seq(Jobs) /\ job \in [Jobs -> JobStates]
    BY DEF ScanInv, TypeOK, JobTypeOK, JobStates
  <1>2. CASE ScanFails
    <2> DEFINE js == [j \in Jobs |-> IF j \in batch THEN "error" ELSE job[j]]
    <2>1. js \in [Jobs -> JobStates]
      BY <1>1 DEF JobStates
    <2>2. PICK kept \in GcJobs(js) : Kick(queue, kept, FALSE)
      BY <1>2 DEF ScanFails
    <2>3. kept \in [Jobs -> JobStates]
      BY <2>1, <2>2, GcTyped
    <2>4. JobTypeOK'
      BY <1>1, <2>2, <2>3, KickTyped
    <2>5. QED
      BY <1>2, <2>4, GcStep DEF ScanFails
  <1>3. CASE Gc
    <2>1. job' \in [Jobs -> JobStates]
      BY <1>1, <1>3, GcTyped DEF Gc
    <2>2. JobTypeOK'
      BY <1>1, <1>3, <2>1 DEF Gc, JobTypeOK, JobStates
    <2>3. QED
      BY <1>3, <2>2, GcStep DEF Gc
  <1>4. QED
    BY <1>2, <1>3

LEMMA DoneStep ==
  ASSUME ScanInv, ScanDone
  PROVE  ScanInv'
  <1> DEFINE ws == {w \in {WalletOf[j] : j \in batch} : ~TooMany(ScannedCoins(w))}
             table == [w \in Wallets |-> IF w \in ws THEN Fresh(w) ELSE entries[w]]
             scanned(w) == [entry |-> [coins |-> ScannedCoins(w), block |-> snap], live |-> None]
             made == [o \in Objects |->
                        IF o[1] \in ws /\ o = Fresh(o[1]) THEN scanned(o[1]) ELSE heap[o]]
             js == [j \in Jobs |-> IF j \notin batch THEN job[j]
                                    ELSE IF WalletOf[j] \in ws THEN "done" ELSE "error"]
  <1>1. /\ snap # None /\ UNCHANGED <<nodeVars, at, followVars, pollVars, relayed>>
        /\ \A w \in ws : \E o \in {w} \X Gens : heap[o] = None
        /\ entries' \in GcTable(table)
        /\ SetHeap(made)
        /\ \E kept \in GcJobs(js) : Kick(queue, kept, FALSE)
    BY DEF ScanDone
  <1>2. ws \subseteq Wallets
    BY ScanAssumption DEF ScanInv, TypeOK, JobTypeOK
  <1>3. JobTypeOK'
    <2>1. JobTypeOK /\ queue \in Seq(Jobs) /\ job \in [Jobs -> JobStates]
      BY DEF ScanInv, TypeOK, JobTypeOK, JobStates
    <2> HIDE DEF ws
    <2>2. js \in [Jobs -> JobStates]
      BY <2>1 DEF JobStates
    <2>3. PICK kept \in GcJobs(js) : Kick(queue, kept, FALSE)
      BY <1>1
    <2>4. kept \in [Jobs -> JobStates]
      BY <2>2, <2>3, GcTyped
    <2>5. QED
      BY <2>1, <2>3, <2>4, KickTyped
  <1> HIDE DEF js, ws
  <1>4. \A w \in ws : /\ Fresh(w) \in {w} \X Gens /\ heap[Fresh(w)] = None
                      /\ Fresh(w) \in Objects /\ Fresh(w)[1] = w
    BY <1>1, <1>2 DEF Fresh, Objects
  <1>5. \A w \in Wallets : /\ scanned(w) \in Object
                           /\ ExactAt(w, scanned(w).entry) /\ scanned(w).live = None
    <2>1. snap \in Blocks
      BY <1>1 DEF ScanInv, TypeOK, JobTypeOK
    <2>2. \A w \in Wallets : ScannedCoins(w) \subseteq Coins
      BY <2>1, TreeAssumption, NodeAssumption DEF ScannedCoins, CoinsOf
    <2>3. \A w \in Wallets : [coins |-> ScannedCoins(w), block |-> snap] \in Entry
      BY <2>1, <2>2 DEF Entry
    <2>4. \A w \in Wallets : scanned(w) \in Object
      BY <2>3 DEF Object
    <2>5. \A w \in Wallets : ExactAt(w, scanned(w).entry) /\ scanned(w).live = None
      BY DEF ExactAt, ScannedCoins, CoinsOf
    <2>6. QED
      BY <2>4, <2>5
  <1>6. /\ heap \in [Objects -> Object \cup {None}] /\ entries \in [Wallets -> Objects \cup {None}]
        /\ \A o \in Objects : heap[o] # None => ObjectExact(o, heap[o])
        /\ \A o \in Referenced : o # None => heap[o] # None
        /\ Referenced \subseteq Objects \cup {None}
    BY DEF ScanInv, HeapOK, TypeOK, TableTypeOK, FollowTypeOK, PollTypeOK, Referenced
  <1>7. \A o \in Objects : made[o] = IF o[1] \in ws /\ o = Fresh(o[1]) THEN scanned(o[1])
                                     ELSE heap[o]
    OBVIOUS
  <1>8. \A o \in Objects : heap[o] # None => made[o] = heap[o]
    BY <1>4, <1>7
  <1>9. \A w \in ws : made[Fresh(w)] = scanned(w)
    BY <1>4, <1>7
  <1>10. made \in [Objects -> Object \cup {None}]
    <2>1. \A o \in Objects : (IF o[1] \in ws /\ o = Fresh(o[1]) THEN scanned(o[1]) ELSE heap[o])
                               \in Object \cup {None}
      BY <1>2, <1>5, <1>6
    <2> HIDE DEF scanned
    <2>2. QED
      BY <2>1
  <1>11. \A o \in Objects : made[o] # None => ObjectExact(o, made[o])
    <2> HIDE DEF scanned, made
    <2>1. \A o \in Objects : o[1] \in ws => ObjectExact(o, scanned(o[1]))
      BY <1>2, <1>5 DEF ObjectExact
    <2>2. ASSUME NEW o \in Objects, made[o] # None
          PROVE  ObjectExact(o, made[o])
      <3>1. CASE o[1] \in ws /\ o = Fresh(o[1])
        <4>1. made[o] = scanned(o[1])
          BY <1>7, <3>1
        <4>2. QED
          BY <2>1, <3>1, <4>1
      <3>2. CASE ~(o[1] \in ws /\ o = Fresh(o[1]))
        <4>1. made[o] = heap[o]
          BY <1>7, <3>2
        <4>2. QED
          BY <1>6, <2>2, <4>1
      <3>3. QED
        BY <3>1, <3>2
    <2>3. QED
      BY <2>2
  <1> HIDE DEF made, scanned
  <1>12. \A w \in ws : made[Fresh(w)] # None
    <2>1. None \notin Object
      BY ScanAssumption
    <2>2. QED
      BY <1>2, <1>5, <1>9, <2>1
  <1>13. /\ entries' \in [Wallets -> Objects \cup {None}]
         /\ \A w \in Wallets : entries'[w] \in {table[w], None}
    <2>1. table \in [Wallets -> Objects \cup {None}]
      BY <1>4, <1>6
    <2> HIDE DEF table
    <2>2. QED
      BY <1>1, <2>1, GcTyped
  <1>14. \A w \in Wallets : \/ entries'[w] \in {entries[w], None}
                            \/ w \in ws /\ entries'[w] = Fresh(w)
    BY <1>13
  <1>15. \A o \in Referenced' : o # None => o \in Objects /\ made[o] # None
    <2>1. \A o \in Referenced' : o \in Referenced \cup {None} \/ (\E w \in ws : o = Fresh(w))
      BY <1>1, <1>14 DEF Referenced, followVars, pollVars
    <2>2. QED
      BY <1>4, <1>6, <1>8, <1>12, <2>1
  <1>16. /\ heap' \in [Objects -> Object \cup {None}] /\ HeapOK'
         /\ \A o \in Referenced' : o # None => heap'[o] = made[o]
    BY <1>1, <1>10, <1>11, <1>15, Sweep
  <1>17. \A o \in todo : heap'[o].entry = heap[o].entry
    <2>1. todo' = todo /\ todo \subseteq Objects
      BY <1>1 DEF followVars, ScanInv, TypeOK, FollowTypeOK
    <2>2. QED
      BY <1>6, <1>8, <1>16, <2>1, ScanAssumption DEF Referenced
  <1>18. FollowTypeOK' /\ FollowOK' /\ PollTypeOK' /\ PollOK'
    BY <1>1, <1>17, PassKept, PollsKept
  <1>19. NodeTypeOK' /\ AtTypeOK'
    BY <1>1 DEF ScanInv, TypeOK, NodeTypeOK, AtTypeOK, nodeVars
  <1>20. Keyed'
    BY <1>4, <1>14 DEF ScanInv, Keyed
  <1>21. QED
    BY <1>3, <1>13, <1>16, <1>18, <1>19, <1>20 DEF ScanInv, TypeOK, TableTypeOK

-------------------------------------------------------------------------------
(***************************************************************************)
(* POST /scan                                                              *)
(***************************************************************************)

LEMMA ResubmitStep ==
  ASSUME ScanInv, NEW j \in Jobs, Resubmit(j)
  PROVE  ScanInv'
  <1>1. /\ at' = [at EXCEPT ![j] = "over"]
        /\ UNCHANGED <<nodeVars, tableVars, followVars, pollVars, relayed>>
    BY DEF Resubmit
  <1>2. JobTypeOK /\ queue \in Seq(Jobs) /\ job \in [Jobs -> JobStates] /\ scanning \in BOOLEAN
    BY DEF ScanInv, TypeOK, JobTypeOK, JobStates
  <1>3. JobTypeOK'
    <2>1. CASE entries[WalletOf[j]] # None
      BY <1>2, <2>1 DEF Resubmit, JobTypeOK
    <2>2. CASE entries[WalletOf[j]] = None
      <3>1. Append(queue, j) \in Seq(Jobs) /\ Kick(Append(queue, j), job, scanning)
        BY <1>2, <2>2 DEF Resubmit
      <3>2. QED
        BY <1>2, <3>1, KickTyped
    <2>3. QED
      BY <2>1, <2>2
  <1>4. NodeTypeOK' /\ AtTypeOK' /\ \A p \in Polls : at'[p] = at[p]
    BY <1>1, ScanAssumption DEF ScanInv, TypeOK, NodeTypeOK, AtTypeOK, nodeVars, Handlers
  <1>5. QED
    BY <1>1, <1>3, <1>4, Still

LEMMA SubmitStep ==
  ASSUME ScanInv, NEW j \in Jobs, Submit(j)
  PROVE  ScanInv'
  <1>1. UNCHANGED <<nodeVars, pollVars, relayed>> /\ SetHeap(heap) /\ at[j] = "new"
    BY DEF Submit
  <1>2. JobTypeOK /\ queue \in Seq(Jobs) /\ job \in [Jobs -> JobStates] /\ scanning \in BOOLEAN
        /\ entries \in [Wallets -> Objects \cup {None}]
        /\ at \in [Handlers -> {"new", "follow", "back", "live", "sent", "over"}]
        /\ j \in Handlers
    BY DEF ScanInv, TypeOK, JobTypeOK, JobStates, TableTypeOK, AtTypeOK, Handlers
  <1>3. PICK room \in Room, force \in BOOLEAN :
          LET js == [room[1] EXCEPT ![j] = "queued"]
          IN /\ entries' = room[2]
             /\ IF Cardinality(Present(room[1])) >= MaxJobs
                  THEN /\ at' = [at EXCEPT ![j] = "over"]
                       /\ job' = room[1]
                       /\ UNCHANGED <<queue, batch, scanning, snap, followVars>>
                  ELSE IF room[2][WalletOf[j]] # None /\ ~force
                  THEN /\ job' = js
                       /\ UNCHANGED <<queue, batch, scanning, snap>>
                       /\ Follow(j)
                  ELSE /\ Kick(Append(queue, j), js, scanning)
                       /\ at' = [at EXCEPT ![j] = "over"]
                       /\ UNCHANGED followVars
    BY DEF Submit
  <1>4. /\ room[1] \in [Jobs -> JobStates]
        /\ room[2] \in [Wallets -> Objects \cup {None}]
        /\ \A w \in Wallets : room[2][w] \in {entries[w], None}
    <2>1. CASE room \in GcJobs(job) \X GcTable(entries)
      BY <1>2, <2>1, GcTyped
    <2>2. CASE room = <<job, entries>>
      BY <1>2, <2>2
    <2>3. QED
      BY <2>1, <2>2 DEF Room
  <1>5. [room[1] EXCEPT ![j] = "queued"] \in [Jobs -> JobStates]
    BY <1>4 DEF JobStates
  <1>6. Append(queue, j) \in Seq(Jobs)
    BY <1>2
  <1>7. /\ entries' \in [Wallets -> Objects \cup {None}] /\ Keyed'
        /\ \A w \in Wallets : entries'[w] \in {entries[w], None}
    BY <1>3, <1>4 DEF ScanInv, Keyed
  \* What every branch leaves to show: the heap, once todo is known unchanged.
  <1>8. todo' = todo => /\ heap' \in [Objects -> Object \cup {None}] /\ HeapOK'
                        /\ \A o \in todo : heap'[o] = heap[o]
    <2> SUFFICES ASSUME todo' = todo
                 PROVE  /\ heap' \in [Objects -> Object \cup {None}] /\ HeapOK'
                        /\ \A o \in todo : heap'[o] = heap[o]
      OBVIOUS
    <2>1. Referenced' \subseteq Referenced \cup {None}
      BY <1>1, <1>7 DEF Referenced, pollVars
    <2>2. todo \subseteq Objects
      BY DEF ScanInv, TypeOK, FollowTypeOK
    <2>3. /\ heap' \in [Objects -> Object \cup {None}] /\ HeapOK'
          /\ \A o \in Referenced' : o # None => heap'[o] = heap[o]
      BY <1>1, <2>1, Swept
    <2>4. \A o \in todo : o \in Referenced' /\ o # None
      BY <2>2, ScanAssumption DEF Referenced
    <2>5. QED
      BY <2>3, <2>4
  <1>9. JobTypeOK' /\ FollowTypeOK' /\ FollowOK' /\ todo' = todo
        /\ \E to \in {"follow", "back", "over"} : at' = [at EXCEPT ![j] = to]
    <2>1. CASE Cardinality(Present(room[1])) >= MaxJobs
      <3>1. /\ at' = [at EXCEPT ![j] = "over"] /\ job' = room[1]
            /\ UNCHANGED <<queue, batch, scanning, snap, followVars>>
        BY <1>3, <2>1
      <3>2. JobTypeOK'
        BY <1>2, <1>4, <3>1 DEF JobTypeOK, JobStates
      <3>3. todo' = todo
        BY <3>1 DEF followVars
      <3>4. QED
        BY <1>8, <3>1, <3>2, <3>3, PassKept
    <2>2. CASE /\ ~(Cardinality(Present(room[1])) >= MaxJobs)
               /\ room[2][WalletOf[j]] # None /\ ~force
      <3>1. /\ job' = [room[1] EXCEPT ![j] = "queued"]
            /\ UNCHANGED <<queue, batch, scanning, snap>> /\ Follow(j)
        BY <1>3, <2>2
      <3>2. JobTypeOK'
        BY <1>2, <1>5, <3>1 DEF JobTypeOK, JobStates
      <3>3. todo' = todo
        BY <3>1 DEF Follow, followVars
      <3>4. QED
        BY <1>2, <1>8, <3>1, <3>2, <3>3, JoinOK
    <2>3. CASE /\ ~(Cardinality(Present(room[1])) >= MaxJobs)
               /\ ~(room[2][WalletOf[j]] # None /\ ~force)
      <3>1. /\ Kick(Append(queue, j), [room[1] EXCEPT ![j] = "queued"], scanning)
            /\ at' = [at EXCEPT ![j] = "over"] /\ UNCHANGED followVars
        BY <1>3, <2>3
      <3>2. JobTypeOK'
        BY <1>2, <1>5, <1>6, <3>1, KickTyped
      <3>3. todo' = todo
        BY <3>1 DEF followVars
      <3>4. QED
        BY <1>8, <3>1, <3>2, <3>3, PassKept
    <2>4. QED
      BY <2>1, <2>2, <2>3
  <1>10. heap' \in [Objects -> Object \cup {None}] /\ HeapOK'
    BY <1>8, <1>9
  <1>11. \A p \in Polls : at'[p] = at[p]
    BY <1>2, <1>9, ScanAssumption DEF Handlers
  <1>12. PollTypeOK' /\ PollOK'
    BY <1>1, <1>11, PollsKept
  <1>13. AtTypeOK' /\ NodeTypeOK'
    BY <1>1, <1>2, <1>9 DEF ScanInv, TypeOK, AtTypeOK, NodeTypeOK, nodeVars
  <1>14. QED
    BY <1>7, <1>9, <1>10, <1>12, <1>13 DEF ScanInv, TypeOK, TableTypeOK

-------------------------------------------------------------------------------
(***************************************************************************)
(* GET /scan/<id> and POST /broadcast                                      *)
(***************************************************************************)

LEMMA PollDoneStep ==
  ASSUME ScanInv, NEW p \in Polls, PollDoneJob(p)
  PROVE  ScanInv'
  <1>1. PICK j \in Jobs : poll' = [poll EXCEPT ![p] = j]
    BY DEF PollDoneJob
  <1>2. /\ Follow(p) /\ at[p] = "new"
        /\ UNCHANGED <<nodeVars, jobVars, tableVars, ref, asked, left, gone, relayed>>
    BY DEF PollDoneJob
  <1>3. p \in Handlers /\ UNCHANGED heap
    BY <1>2 DEF Handlers, tableVars
  <1>4. /\ FollowTypeOK' /\ FollowOK' /\ todo' = todo
        /\ \E to \in {"follow", "back"} : at' = [at EXCEPT ![p] = to]
    BY <1>2, <1>3, JoinOK
  <1>5. AtTypeOK' /\ NodeTypeOK' /\ JobTypeOK' /\ TableTypeOK' /\ Keyed'
    BY <1>2, <1>3, <1>4
    DEF ScanInv, TypeOK, AtTypeOK, NodeTypeOK, JobTypeOK, TableTypeOK, Keyed,
        nodeVars, jobVars, tableVars
  <1>6. Referenced' = Referenced
    BY <1>2, <1>4 DEF Referenced, tableVars
  <1>7. HeapOK'
    BY <1>2, <1>6 DEF ScanInv, HeapOK, ObjectExact, ExactAt, CoinsOf, tableVars
  <1>8. PollTypeOK'
    BY <1>1, <1>2 DEF ScanInv, TypeOK, PollTypeOK
  <1>9. PollOK'
    <2>1. poll'[p] \in Jobs /\ at'[p] \in {"follow", "back"}
      BY <1>1, <1>3, <1>4 DEF ScanInv, TypeOK, PollTypeOK, AtTypeOK
    <2>2. \A q \in Polls \ {p} : poll'[q] = poll[q] /\ at'[q] = at[q]
      BY <1>1, <1>4 DEF ScanInv, TypeOK, PollTypeOK, AtTypeOK, Handlers
    <2>3. ref' = ref /\ asked' = asked
      BY <1>2
    <2>4. QED
      BY <2>1, <2>2, <2>3 DEF ScanInv, PollOK, ExactAt, CoinsOf
  <1>10. QED
    BY <1>4, <1>5, <1>7, <1>8, <1>9 DEF ScanInv, TypeOK

\* A poll's reply ends what its handler held.
LEMMA ReplyOK ==
  ASSUME ScanInv, NEW p \in Polls, Reply(p)
  PROVE  /\ PollTypeOK' /\ PollOK'
         /\ at' \in [Handlers -> {"new", "follow", "back", "live", "sent", "over"}]
         /\ \A q \in Polls : ref'[q] \in {ref[q], None}
  <1>1. at \in [Handlers -> {"new", "follow", "back", "live", "sent", "over"}] /\ PollTypeOK
    BY DEF ScanInv, TypeOK, AtTypeOK
  <1>2. /\ PollTypeOK' /\ \A q \in Polls : ref'[q] \in {ref[q], None}
        /\ at' \in [Handlers -> {"new", "follow", "back", "live", "sent", "over"}]
    BY <1>1 DEF Reply, PollTypeOK
  <1>3. at'[p] = "new"
    BY <1>1 DEF Reply, Handlers
  <1>4. \A q \in Polls \ {p} : at'[q] = at[q] /\ poll'[q] = poll[q] /\ ref'[q] = ref[q]
                               /\ asked'[q] = asked[q]
    BY <1>1 DEF Reply, Handlers, PollTypeOK
  <1>5. PollOK'
    BY <1>3, <1>4 DEF ScanInv, PollOK, ExactAt, CoinsOf
  <1>6. QED
    BY <1>2, <1>5

LEMMA PollBackStep ==
  ASSUME ScanInv, NEW p \in Polls, PollExpired(p) \/ PollReuses(p)
  PROVE  ScanInv'
  <1>1. Reply(p) /\ UNCHANGED <<nodeVars, jobVars, tableVars, followVars, relayed>>
    BY DEF PollExpired, PollReuses
  <1>2. /\ PollTypeOK' /\ PollOK'
        /\ at' \in [Handlers -> {"new", "follow", "back", "live", "sent", "over"}]
        /\ \A q \in Polls : ref'[q] \in {ref[q], None}
    BY <1>1, ReplyOK
  <1>3. Referenced' \subseteq Referenced \cup {None}
    BY <1>1, <1>2 DEF Referenced, tableVars, followVars
  <1>4. HeapOK'
    BY <1>1, <1>3 DEF ScanInv, HeapOK, ObjectExact, ExactAt, CoinsOf, tableVars
  <1>5. FollowTypeOK' /\ FollowOK'
    BY <1>1, PassKept DEF tableVars
  <1>6. AtTypeOK' /\ NodeTypeOK' /\ JobTypeOK' /\ TableTypeOK' /\ Keyed'
    BY <1>1, <1>2
    DEF ScanInv, TypeOK, AtTypeOK, NodeTypeOK, JobTypeOK, TableTypeOK, Keyed,
        nodeVars, jobVars, tableVars
  <1>7. QED
    BY <1>2, <1>4, <1>5, <1>6 DEF ScanInv, TypeOK

LEMMA PollAsksStep ==
  ASSUME ScanInv, NEW p \in Polls, PollAsks(p)
  PROVE  ScanInv'
  <1> DEFINE o == Held(p)
  <1>1. /\ at[p] = "back" /\ o # None /\ at' = [at EXCEPT ![p] = "live"]
        /\ ref' = [ref EXCEPT ![p] = o] /\ asked' = [asked EXCEPT ![p] = heap[o].entry]
        /\ left' = [left EXCEPT ![p] = heap[o].entry.coins]
        /\ UNCHANGED <<nodeVars, jobVars, tableVars, followVars, poll, gone, relayed>>
    BY DEF PollAsks
  <1>2. WalletOf[poll[p]] \in Wallets
    BY <1>1, ScanAssumption DEF ScanInv, PollOK
  <1>3. o \in Objects /\ o \in Referenced
    BY <1>1, <1>2 DEF Held, Referenced, ScanInv, TypeOK, TableTypeOK
  <1>4. heap[o] \in Object /\ ExactAt(o[1], heap[o].entry)
    BY <1>1, <1>3 DEF ScanInv, HeapOK, ObjectExact, TypeOK, TableTypeOK
  <1>5. heap[o].entry \in Entry /\ heap[o].entry.coins \subseteq Coins
    BY <1>4 DEF Object, Entry
  <1> HIDE DEF o
  <1>6. /\ at \in [Handlers -> {"new", "follow", "back", "live", "sent", "over"}]
        /\ PollTypeOK /\ p \in Handlers
    BY DEF ScanInv, TypeOK, AtTypeOK, Handlers
  <1>7. PollTypeOK'
    BY <1>1, <1>3, <1>5, <1>6 DEF PollTypeOK
  <1>8. PollOK'
    <2>1. /\ at'[p] = "live" /\ ref'[p] = o /\ asked'[p] = heap[o].entry
          /\ \A q \in Polls \ {p} : at'[q] = at[q] /\ ref'[q] = ref[q] /\ asked'[q] = asked[q]
      BY <1>1, <1>6 DEF PollTypeOK, Handlers
    <2>2. poll' = poll
      BY <1>1
    <2>3. QED
      BY <1>3, <1>4, <1>5, <2>1, <2>2 DEF ScanInv, PollOK, ExactAt, CoinsOf
  <1>9. Referenced' \subseteq Referenced
    BY <1>1, <1>3, <1>6 DEF Referenced, PollTypeOK, tableVars, followVars
  <1>10. HeapOK'
    BY <1>1, <1>9 DEF ScanInv, HeapOK, ObjectExact, ExactAt, CoinsOf, tableVars
  <1>11. FollowTypeOK' /\ FollowOK'
    BY <1>1, PassKept DEF tableVars
  <1>12. AtTypeOK' /\ NodeTypeOK' /\ JobTypeOK' /\ TableTypeOK' /\ Keyed'
    BY <1>1, <1>6
    DEF ScanInv, TypeOK, AtTypeOK, NodeTypeOK, JobTypeOK, TableTypeOK, Keyed,
        nodeVars, jobVars, tableVars
  <1>13. QED
    BY <1>7, <1>8, <1>10, <1>11, <1>12 DEF ScanInv, TypeOK

LEMMA TxOutStep ==
  ASSUME ScanInv, NEW p \in Polls, NEW c \in Coins, TxOut(p, c)
  PROVE  ScanInv'
  <1>1. /\ UNCHANGED <<nodeVars, jobVars, at, tableVars, followVars, poll, ref, asked, relayed>>
        /\ left' = [left EXCEPT ![p] = @ \ {c}]
        /\ gone' = [gone EXCEPT ![p] = @ \cup {c}] \/ gone' = gone
    BY DEF TxOut
  <1>2. PollTypeOK'
    BY <1>1 DEF ScanInv, TypeOK, PollTypeOK
  <1>3. PollOK'
    BY <1>1 DEF ScanInv, PollOK, ExactAt, CoinsOf
  <1>4. Referenced' = Referenced
    BY <1>1 DEF Referenced, tableVars, followVars
  <1>5. HeapOK' /\ Keyed'
    BY <1>1, <1>4 DEF ScanInv, HeapOK, Keyed, ObjectExact, ExactAt, CoinsOf, tableVars
  <1>6. FollowTypeOK' /\ FollowOK'
    BY <1>1, PassKept DEF tableVars
  <1>7. AtTypeOK' /\ NodeTypeOK' /\ JobTypeOK' /\ TableTypeOK'
    BY <1>1
    DEF ScanInv, TypeOK, AtTypeOK, NodeTypeOK, JobTypeOK, TableTypeOK, nodeVars, jobVars, tableVars
  <1>8. QED
    BY <1>2, <1>3, <1>5, <1>6, <1>7 DEF ScanInv, TypeOK

LEMMA PollRepliesStep ==
  ASSUME ScanInv, NEW p \in Polls, PollReplies(p)
  PROVE  ScanInv'
  <1> DEFINE o == ref[p]
             answer == [coins |-> asked[p].coins, block |-> asked[p].block, gone |-> gone[p]]
             made == [heap EXCEPT ![o].live = answer]
  <1>1. /\ at[p] = "live" /\ Reply(p) /\ SetHeap(made)
        /\ UNCHANGED <<nodeVars, jobVars, entries, followVars, relayed>>
    BY DEF PollReplies
  <1>2. o \in Objects /\ asked[p] \in Entry /\ ExactAt(o[1], asked[p])
    BY <1>1 DEF ScanInv, PollOK
  <1>3. /\ heap \in [Objects -> Object \cup {None}]
        /\ \A v \in Objects : heap[v] # None => ObjectExact(v, heap[v])
        /\ \A v \in Referenced : v # None => heap[v] # None
        /\ Referenced \subseteq Objects \cup {None}
    BY DEF ScanInv, HeapOK, TypeOK, TableTypeOK, FollowTypeOK, PollTypeOK, Referenced
  <1>4. heap[o] \in Object /\ heap[o] # None
    BY <1>2, <1>3, ScanAssumption DEF Referenced
  <1>5. answer \in Answer /\ ExactAt(o[1], answer)
    BY <1>2 DEF Answer, Entry, ExactAt, ScanInv, TypeOK, PollTypeOK
  <1> HIDE DEF answer
  <1>6. /\ [heap[o] EXCEPT !.live = answer] \in Object
        /\ [heap[o] EXCEPT !.live = answer].live = answer
        /\ [heap[o] EXCEPT !.live = answer].entry = heap[o].entry
    BY <1>4, <1>5 DEF Object
  <1>7. /\ made \in [Objects -> Object \cup {None}]
        /\ made[o] = [heap[o] EXCEPT !.live = answer]
        /\ \A v \in Objects \ {o} : made[v] = heap[v]
    BY <1>2, <1>3, <1>6
  <1> HIDE DEF o, made
  <1>8. None \notin Object
    BY ScanAssumption
  <1>9. /\ \A v \in Objects : made[v] # None => ObjectExact(v, made[v])
        /\ \A v \in Objects : heap[v] # None => made[v] # None /\ made[v].entry = heap[v].entry
    <2>1. ObjectExact(o, made[o])
      BY <1>2, <1>3, <1>4, <1>5, <1>6, <1>7 DEF ObjectExact
    <2>2. QED
      BY <1>3, <1>6, <1>7, <1>8, <2>1
  <1>10. /\ PollTypeOK' /\ PollOK'
         /\ at' \in [Handlers -> {"new", "follow", "back", "live", "sent", "over"}]
         /\ \A q \in Polls : ref'[q] \in {ref[q], None}
    BY <1>1, ReplyOK
  <1>11. Referenced' \subseteq Referenced \cup {None}
    BY <1>1, <1>10 DEF Referenced, followVars
  <1>12. \A v \in Referenced' : v # None => v \in Objects /\ heap[v] # None /\ made[v] # None
    BY <1>3, <1>9, <1>11
  <1>13. /\ heap' \in [Objects -> Object \cup {None}] /\ HeapOK'
         /\ \A v \in Referenced' : v # None => heap'[v] = made[v]
    BY <1>1, <1>7, <1>9, <1>12, Sweep
  <1>14. \A v \in todo : heap'[v].entry = heap[v].entry
    <2>1. todo' = todo /\ todo \subseteq Objects
      BY <1>1 DEF followVars, ScanInv, TypeOK, FollowTypeOK
    <2>2. \A v \in todo : v \in Referenced' /\ v # None /\ v \in Objects
      BY <2>1, ScanAssumption DEF Referenced
    <2>3. QED
      BY <1>9, <1>12, <1>13, <2>2
  <1>15. FollowTypeOK' /\ FollowOK'
    BY <1>1, <1>14, PassKept
  <1>16. AtTypeOK' /\ NodeTypeOK' /\ JobTypeOK' /\ TableTypeOK' /\ Keyed'
    BY <1>1, <1>10, <1>13
    DEF ScanInv, TypeOK, AtTypeOK, NodeTypeOK, JobTypeOK, TableTypeOK, Keyed, nodeVars, jobVars
  <1>17. QED
    BY <1>10, <1>13, <1>15, <1>16 DEF ScanInv, TypeOK

LEMMA RelayAnsweredStep ==
  ASSUME ScanInv, NEW x \in Senders, RelayAnswered(x)
  PROVE  ScanInv'
  <1> DEFINE served(o) == \E w \in Wallets : entries[w] = o
  <1>1. /\ heap' = [o \in Objects |->
                      IF served(o) THEN [heap[o] EXCEPT !.live = None] ELSE heap[o]]
        /\ at' = [at EXCEPT ![x] = "over"] /\ relayed' = relayed \cup {SpendOf[x]}
        /\ UNCHANGED <<nodeVars, jobVars, entries, followVars, pollVars>>
    BY DEF RelayAnswered
  <1>2. /\ heap \in [Objects -> Object \cup {None}]
        /\ \A o \in Objects : heap[o] # None => ObjectExact(o, heap[o])
        /\ \A o \in Referenced : o # None => heap[o] # None
    BY DEF ScanInv, HeapOK, TypeOK, TableTypeOK
  <1>3. \A o \in Objects : served(o) => heap[o] \in Object
    BY <1>2, ScanAssumption DEF Referenced
  <1>4. \A o \in Objects :
          LET cleared == [heap[o] EXCEPT !.live = None]
          IN served(o) => /\ cleared \in Object /\ cleared.live = None
                          /\ cleared.entry = heap[o].entry
    BY <1>3 DEF Object
  <1> HIDE DEF served
  <1>5. heap' \in [Objects -> Object \cup {None}]
    <2>1. \A o \in Objects : (IF served(o) THEN [heap[o] EXCEPT !.live = None] ELSE heap[o])
                               \in Object \cup {None}
      BY <1>2, <1>4
    <2>2. QED
      BY <1>1, <2>1
  <1>6. None \notin Object
    BY ScanAssumption
  <1>7. \A o \in Objects : heap[o] # None =>
          heap'[o] # None /\ heap'[o].entry = heap[o].entry /\ heap'[o].live \in {heap[o].live, None}
    <2>1. ASSUME NEW o \in Objects, heap[o] # None
          PROVE  heap'[o] # None /\ heap'[o].entry = heap[o].entry
                   /\ heap'[o].live \in {heap[o].live, None}
      <3>1. CASE served(o)
        <4>1. heap'[o] = [heap[o] EXCEPT !.live = None]
          BY <1>1, <3>1
        <4>2. QED
          BY <1>4, <1>6, <3>1, <4>1
      <3>2. CASE ~served(o)
        BY <1>1, <2>1, <3>2
      <3>3. QED
        BY <3>1, <3>2
    <2>2. QED
      BY <2>1
  <1>8. \A o \in Objects : heap'[o] # None => heap[o] # None
    BY <1>1, <1>3, <1>6
  <1>9. Referenced' = Referenced /\ Referenced \subseteq Objects \cup {None}
    BY <1>1
    DEF Referenced, followVars, pollVars, ScanInv, TypeOK, TableTypeOK, FollowTypeOK, PollTypeOK
  <1>10. HeapOK'
    <2>1. \A o \in Objects : heap'[o] # None => ObjectExact(o, heap'[o])
      BY <1>2, <1>7, <1>8 DEF ObjectExact, ExactAt, CoinsOf
    <2>2. \A o \in Referenced' : o # None => heap'[o] # None
      BY <1>2, <1>7, <1>9
    <2>3. QED
      BY <2>1, <2>2 DEF HeapOK, ObjectExact, ExactAt, CoinsOf
  <1>11. FollowTypeOK' /\ FollowOK'
    <2>1. \A o \in todo : o \in Objects /\ heap[o] # None
      BY <1>2, ScanAssumption DEF Referenced, ScanInv, TypeOK, FollowTypeOK
    <2>2. QED
      BY <1>1, <1>7, <2>1, PassKept
  <1>12. /\ at \in [Handlers -> {"new", "follow", "back", "live", "sent", "over"}]
         /\ SpendOf[x] \in Coins /\ x \notin Polls
    BY ScanAssumption DEF ScanInv, TypeOK, AtTypeOK
  <1>13. PollTypeOK' /\ PollOK'
    BY <1>1, <1>12, PollsKept DEF Handlers
  <1>14. AtTypeOK' /\ NodeTypeOK' /\ JobTypeOK' /\ Keyed'
    BY <1>1, <1>12
    DEF ScanInv, TypeOK, AtTypeOK, NodeTypeOK, JobTypeOK, Keyed, nodeVars, jobVars
  <1>15. TableTypeOK'
    BY <1>1, <1>5 DEF ScanInv, TypeOK, TableTypeOK
  <1>16. QED
    BY <1>10, <1>11, <1>13, <1>14, <1>15 DEF ScanInv, TypeOK

-------------------------------------------------------------------------------
(***************************************************************************)
(* The books of the jobs: a job that waits is in the queue once, the batch *)
(* is what is being scanned, and it fits one scan.                         *)
(***************************************************************************)

\* JobBooks of a queue, job states, awaits and a batch given, but for the wake-up.
Books(q, js, a, bs, running) ==
  /\ \A j \in Jobs : (js[j] = "scanning") <=> j \in bs
  /\ running <=> bs # {}
  /\ \A i \in 1 .. Len(q) : js[q[i]] = "queued" /\ a[q[i]] = "over"
  /\ \A i, k \in 1 .. Len(q) : q[i] = q[k] => i = k
  /\ \A j \in Jobs :
       /\ a[j] = "new" => js[j] = "none"
       /\ a[j] \in {"follow", "back"} => js[j] = "queued"
       /\ a[j] \notin {"new", "follow", "back"} /\ js[j] = "queued" => \E i \in 1 .. Len(q) : q[i] = j

LEMMA BooksAre == JobBooks <=> Books(queue, job, at, batch, scanning) /\ (queue # <<>> => scanning)
  <1>1. \A j \in Jobs :
          (CASE at[j] = "new" -> job[j] = "none"
             [] at[j] \in {"follow", "back"} -> job[j] = "queued"
             [] OTHER -> job[j] = "queued" => \E i \in 1 .. Len(queue) : queue[i] = j)
          <=> /\ at[j] = "new" => job[j] = "none"
              /\ at[j] \in {"follow", "back"} => job[j] = "queued"
              /\ at[j] \notin {"new", "follow", "back"} /\ job[j] = "queued"
                   => \E i \in 1 .. Len(queue) : queue[i] = j
    <2> TAKE j \in Jobs
    <2> DEFINE In == \E i \in 1 .. Len(queue) : queue[i] = j
    <2> HIDE DEF In
    <2>1. (CASE at[j] = "new" -> job[j] = "none"
             [] at[j] \in {"follow", "back"} -> job[j] = "queued"
             [] OTHER -> job[j] = "queued" => In)
          <=> /\ at[j] = "new" => job[j] = "none"
              /\ at[j] \in {"follow", "back"} => job[j] = "queued"
              /\ at[j] \notin {"new", "follow", "back"} /\ job[j] = "queued" => In
      OBVIOUS
    <2> QED BY <2>1 DEF In
  <1> QED BY <1>1 DEF JobBooks, Books

\* ... and likewise after a step.
LEMMA BooksAreNext ==
  JobBooks' <=> Books(queue', job', at', batch', scanning') /\ (queue' # <<>> => scanning')
  <1>1. \A j \in Jobs :
          (CASE at'[j] = "new" -> job'[j] = "none"
             [] at'[j] \in {"follow", "back"} -> job'[j] = "queued"
             [] OTHER -> job'[j] = "queued" => \E i \in 1 .. Len(queue') : queue'[i] = j)
          <=> /\ at'[j] = "new" => job'[j] = "none"
              /\ at'[j] \in {"follow", "back"} => job'[j] = "queued"
              /\ at'[j] \notin {"new", "follow", "back"} /\ job'[j] = "queued"
                   => \E i \in 1 .. Len(queue') : queue'[i] = j
    <2> TAKE j \in Jobs
    <2> DEFINE In == \E i \in 1 .. Len(queue') : queue'[i] = j
    <2> HIDE DEF In
    <2>1. (CASE at'[j] = "new" -> job'[j] = "none"
             [] at'[j] \in {"follow", "back"} -> job'[j] = "queued"
             [] OTHER -> job'[j] = "queued" => In)
          <=> /\ at'[j] = "new" => job'[j] = "none"
              /\ at'[j] \in {"follow", "back"} => job'[j] = "queued"
              /\ at'[j] \notin {"new", "follow", "back"} /\ job'[j] = "queued" => In
      OBVIOUS
    <2> QED BY <2>1 DEF In
  <1> QED BY <1>1 DEF JobBooks, Books

LEMMA ScriptsAreFew ==
  ASSUME NEW js \in SUBSET Jobs
  PROVE  /\ IsFiniteSet(Union(js)) /\ \A j \in Jobs : IsFiniteSet(ScriptsOf[WalletOf[j]])
         /\ \A j \in Jobs : Union(js \cup {j}) = Union(js) \cup ScriptsOf[WalletOf[j]]
  <1>1. \A j \in Jobs : ScriptsOf[WalletOf[j]] \in SUBSET Scripts
    BY ScanAssumption
  <1>2. Union(js) \in SUBSET Scripts
    BY <1>1 DEF Union
  <1>3. \A j \in Jobs : Union(js \cup {j}) = Union(js) \cup ScriptsOf[WalletOf[j]]
    BY DEF Union
  <1> QED BY <1>1, <1>2, <1>3, ScanAssumption, FS_Subset

\* The front of a queue fits one scan, or is a single job.
LEMMA FrontFits ==
  ASSUME NEW q \in Seq(Jobs), NEW n \in 1 .. Len(q), Front(q, n),
         Cardinality(FirstJobs(q, n)) > 1
  PROVE  Cardinality(Union(FirstJobs(q, n))) <= MaxUnion
  <1>1. Len(q) \in Nat /\ \A i \in 1 .. Len(q) : q[i] \in Jobs
    OBVIOUS
  <1>2. n # 1
    <2> SUFFICES ASSUME n = 1 PROVE FALSE
      OBVIOUS
    <2>1. FirstJobs(q, n) = {q[1]}
      BY DEF FirstJobs
    <2>2. Cardinality(FirstJobs(q, n)) = 1
      BY <2>1, FS_Singleton
    <2> QED BY <2>2
  <1> DEFINE A == FirstJobs(q, n - 1)
             B == ScriptsOf[WalletOf[q[n]]]
  <1>3. Cardinality(Union(A)) + Cardinality(B) <= MaxUnion
    BY <1>1, <1>2 DEF Front
  <1>4. A \subseteq Jobs /\ q[n] \in Jobs /\ FirstJobs(q, n) = A \cup {q[n]}
    BY <1>1, <1>2 DEF FirstJobs
  <1>5. /\ IsFiniteSet(Union(A)) /\ IsFiniteSet(B)
        /\ Union(FirstJobs(q, n)) = Union(A) \cup B
    BY <1>4, ScriptsAreFew
  <1> HIDE DEF A, B
  <1>6. Cardinality(Union(A) \cup B) = Cardinality(Union(A)) + Cardinality(B) - Cardinality(Union(A) \cap B)
    BY <1>5, FS_Union
  <1>7. IsFiniteSet(Union(A) \cap B)
    BY <1>5, FS_Subset
  <1>8. /\ Cardinality(Union(A)) \in Nat /\ Cardinality(B) \in Nat
        /\ Cardinality(Union(A) \cap B) \in Nat /\ MaxUnion \in Nat
    BY <1>5, <1>7, FS_CardinalityType, ScanAssumption
  <1> QED BY <1>3, <1>5, <1>6, <1>8

LEMMA KickBooks ==
  ASSUME NEW q \in Seq(Jobs), NEW js \in [Jobs -> JobStates], NEW running \in BOOLEAN,
         UnionBounded, Kick(q, js, running),
         Books(q, js, at', IF running THEN batch ELSE {}, running)
  PROVE  JobBooks' /\ UnionBounded'
  <1> SUFFICES /\ Books(queue', job', at', batch', scanning')
               /\ queue' # <<>> => scanning'
               /\ UnionBounded'
    BY BooksAreNext
  <1>1. CASE running \/ q = <<>>
    <2>1. /\ queue' = q /\ job' = js /\ scanning' = running
          /\ batch' = (IF running THEN batch ELSE {})
      BY <1>1 DEF Kick
    <2>2. UnionBounded'
      <3>1. CASE running
        BY <2>1, <3>1 DEF UnionBounded
      <3>2. CASE ~running
        BY <2>1, <3>2, FS_EmptySet DEF UnionBounded
      <3> QED BY <3>1, <3>2
    <2> QED BY <1>1, <2>1, <2>2
  <1>2. CASE ~(running \/ q = <<>>)
    <2>1. PICK n \in 1 .. Len(q) :
            /\ Front(q, n)
            /\ batch' = FirstJobs(q, n)
            /\ queue' = SubSeq(q, n + 1, Len(q))
            /\ job' = [j \in Jobs |-> IF j \in FirstJobs(q, n) THEN "scanning" ELSE js[j]]
            /\ scanning' = TRUE
      BY <1>2 DEF Kick, StartCycle
    <2>2. /\ Len(q) \in Nat /\ \A i \in 1 .. Len(q) : q[i] \in Jobs
          /\ Len(queue') = Len(q) - n
          /\ \A i \in 1 .. Len(queue') : queue'[i] = q[n + i]
      BY <2>1
    <2> DEFINE first == FirstJobs(q, n)
    <2>3. first = {q[i] : i \in 1 .. n}
      BY DEF FirstJobs
    <2>4. first \subseteq Jobs /\ q[1] \in first
      BY <2>2, <2>3
    <2> HIDE DEF first
    <2>5. \A j \in Jobs : job'[j] = IF j \in first THEN "scanning" ELSE js[j]
      BY <2>1 DEF first
    <2>6. /\ \A j \in Jobs : js[j] # "scanning"
          /\ \A i \in 1 .. Len(q) : js[q[i]] = "queued" /\ at'[q[i]] = "over"
          /\ \A i, k \in 1 .. Len(q) : q[i] = q[k] => i = k
          /\ \A j \in Jobs :
               /\ at'[j] = "new" => js[j] = "none"
               /\ at'[j] \in {"follow", "back"} => js[j] = "queued"
               /\ at'[j] \notin {"new", "follow", "back"} /\ js[j] = "queued"
                    => \E i \in 1 .. Len(q) : q[i] = j
      BY <1>2 DEF Books
    <2>7. \A j \in Jobs : (job'[j] = "scanning") <=> j \in batch'
      BY <2>1, <2>5, <2>6 DEF first
    <2>8. scanning' <=> batch' # {}
      BY <2>1, <2>4 DEF first
    <2>9. \A i \in 1 .. Len(queue') : job'[queue'[i]] = "queued" /\ at'[queue'[i]] = "over"
      <3> TAKE i \in 1 .. Len(queue')
      <3>1. n + i \in 1 .. Len(q) /\ queue'[i] = q[n + i]
        BY <2>1, <2>2
      <3>2. q[n + i] \notin first
        BY <2>2, <2>3, <2>6, <3>1
      <3> QED BY <2>2, <2>5, <2>6, <3>1, <3>2
    <2>10. \A i, k \in 1 .. Len(queue') : queue'[i] = queue'[k] => i = k
      <3> TAKE i, k \in 1 .. Len(queue')
      <3>1. /\ n + i \in 1 .. Len(q) /\ queue'[i] = q[n + i]
            /\ n + k \in 1 .. Len(q) /\ queue'[k] = q[n + k]
        BY <2>1, <2>2
      <3>2. SUFFICES ASSUME q[n + i] = q[n + k] PROVE i = k
        BY <3>1
      <3>3. n + i = n + k
        BY <2>6, <3>1, <3>2
      <3> QED BY <2>1, <3>3
    <2>11. ASSUME NEW j \in Jobs
           PROVE  /\ at'[j] = "new" => job'[j] = "none"
                  /\ at'[j] \in {"follow", "back"} => job'[j] = "queued"
                  /\ at'[j] \notin {"new", "follow", "back"} /\ job'[j] = "queued"
                       => \E i \in 1 .. Len(queue') : queue'[i] = j
      <3>1. j \in first => at'[j] = "over"
        BY <2>2, <2>3, <2>6
      <3>2. ASSUME at'[j] \notin {"new", "follow", "back"}, job'[j] = "queued"
            PROVE  \E i \in 1 .. Len(queue') : queue'[i] = j
        <4>1. j \notin first /\ js[j] = "queued"
          BY <2>5, <3>2
        <4>2. PICK i \in 1 .. Len(q) : q[i] = j
          BY <2>6, <3>2, <4>1
        <4>3. ~(i <= n)
          BY <2>3, <4>1, <4>2
        <4>4. i - n \in 1 .. Len(queue') /\ n + (i - n) = i
          BY <2>2, <4>3
        <4> QED BY <2>2, <4>2, <4>4
      <3> QED BY <2>5, <2>6, <3>1, <3>2
    <2>12. Books(queue', job', at', batch', scanning')
      BY <2>7, <2>8, <2>9, <2>10, <2>11 DEF Books
    <2>13. UnionBounded'
      BY <2>1, FrontFits DEF UnionBounded, Union
    <2> QED BY <2>1, <2>12, <2>13
  <1> QED BY <1>1, <1>2

\* What a cycle that ends, or gc, makes of the job states: a job of the batch
\* is finished, a finished one may be deleted, every other is as it was.
LEMMA GcSpares ==
  ASSUME NEW js \in [Jobs -> JobStates], NEW kept \in GcJobs(js)
  PROVE  /\ kept \in [Jobs -> JobStates]
         /\ \A j \in Jobs : kept[j] = js[j] \/ (js[j] \in {"done", "error"} /\ kept[j] = "none")
  BY DEF GcJobs, JobStates

LEMMA CycleEndsBooks ==
  ASSUME TypeOK, JobBooks, UnionBounded, NEW js \in [Jobs -> JobStates], NEW kept \in GcJobs(js),
         \A j \in Jobs : IF j \in batch THEN js[j] \in {"done", "error"} ELSE js[j] = job[j],
         Kick(queue, kept, FALSE), at' = at
  PROVE  JobBooks' /\ UnionBounded'
  <1>1. queue \in Seq(Jobs) /\ Len(queue) \in Nat /\ \A i \in 1 .. Len(queue) : queue[i] \in Jobs
    BY DEF TypeOK, JobTypeOK
  <1>2. kept \in [Jobs -> JobStates]
    BY GcSpares
  <1>3. \A j \in Jobs : IF j \in batch THEN kept[j] \in {"done", "error", "none"}
                        ELSE \/ kept[j] = job[j]
                             \/ job[j] \in {"done", "error"} /\ kept[j] = "none"
    BY GcSpares
  <1>4. Books(queue, job, at, batch, scanning)
    BY BooksAre
  <1>5. Books(queue, kept, at, {}, FALSE)
    BY <1>1, <1>3, <1>4 DEF Books
  <1> QED BY <1>1, <1>2, <1>5, KickBooks

\* Steps of everybody else: awaits of a pass end, and no job notices.
LEMMA BooksUnnoticed ==
  ASSUME TypeOK, JobBooks, UnionBounded, UNCHANGED <<job, queue, batch, scanning>>,
         \A j \in Jobs : at'[j] = at[j] \/ (at[j] = "follow" /\ at'[j] = "back")
  PROVE  JobBooks' /\ UnionBounded'
  <1>1. queue \in Seq(Jobs) /\ \A i \in 1 .. Len(queue) : queue[i] \in Jobs
    BY DEF TypeOK, JobTypeOK
  <1>2. Books(queue, job, at, batch, scanning) /\ (queue # <<>> => scanning)
    BY BooksAre
  <1>3. Books(queue', job', at', batch', scanning')
    BY <1>1, <1>2 DEF Books
  <1> QED BY <1>2, <1>3, BooksAreNext DEF UnionBounded, Union

LEMMA SubmitBooks ==
  ASSUME ScanInv, JobBooks, UnionBounded, NEW j \in Jobs, Submit(j)
  PROVE  JobBooks' /\ UnionBounded'
  <1>1. /\ queue \in Seq(Jobs) /\ Len(queue) \in Nat /\ \A i \in 1 .. Len(queue) : queue[i] \in Jobs
        /\ job \in [Jobs -> JobStates] /\ scanning \in BOOLEAN /\ j \in Handlers
        /\ at \in [Handlers -> {"new", "follow", "back", "live", "sent", "over"}]
    BY DEF ScanInv, TypeOK, JobTypeOK, JobStates, AtTypeOK, Handlers
  <1>2. Books(queue, job, at, batch, scanning) /\ (queue # <<>> => scanning)
    BY BooksAre
  <1>3. at[j] = "new" /\ job[j] = "none" /\ \A i \in 1 .. Len(queue) : queue[i] # j
    BY <1>2 DEF Submit, Books
  <1>4. PICK room \in Room, force \in BOOLEAN :
          LET js == [room[1] EXCEPT ![j] = "queued"]
          IN /\ entries' = room[2]
             /\ IF Cardinality(Present(room[1])) >= MaxJobs
                  THEN /\ at' = [at EXCEPT ![j] = "over"]
                       /\ job' = room[1]
                       /\ UNCHANGED <<queue, batch, scanning, snap, followVars>>
                  ELSE IF room[2][WalletOf[j]] # None /\ ~force
                  THEN /\ job' = js
                       /\ UNCHANGED <<queue, batch, scanning, snap>>
                       /\ Follow(j)
                  ELSE /\ Kick(Append(queue, j), js, scanning)
                       /\ at' = [at EXCEPT ![j] = "over"]
                       /\ UNCHANGED followVars
    BY DEF Submit
  <1> DEFINE kept == room[1]
             js == [kept EXCEPT ![j] = "queued"]
  <1>5. /\ kept \in [Jobs -> JobStates]
        /\ \A k \in Jobs : kept[k] = job[k] \/ (job[k] \in {"done", "error"} /\ kept[k] = "none")
    <2>1. CASE room \in GcJobs(job) \X GcTable(entries)
      <3>1. kept \in GcJobs(job)
        BY <2>1
      <3> QED BY <1>1, <3>1, GcSpares
    <2>2. CASE room = <<job, entries>>
      BY <1>1, <2>2
    <2> QED BY <2>1, <2>2 DEF Room
  <1> HIDE DEF kept
  <1>6. /\ js \in [Jobs -> JobStates] /\ js[j] = "queued"
        /\ \A k \in Jobs \ {j} : js[k] = kept[k]
    BY <1>5 DEF JobStates
  <1> HIDE DEF js
  <1>7. \/ /\ at' = [at EXCEPT ![j] = "over"] /\ job' = kept /\ UNCHANGED <<queue, batch, scanning>>
        \/ /\ \E to \in {"follow", "back"} : at' = [at EXCEPT ![j] = to]
           /\ job' = js /\ UNCHANGED <<queue, batch, scanning>>
        \/ /\ at' = [at EXCEPT ![j] = "over"] /\ Kick(Append(queue, j), js, scanning)
    BY <1>4, Zenon DEF kept, js, Follow
  <1>8. CASE /\ at' = [at EXCEPT ![j] = "over"] /\ job' = kept /\ UNCHANGED <<queue, batch, scanning>>
    <2>1. at'[j] = "over" /\ \A k \in Jobs \ {j} : at'[k] = at[k]
      BY <1>1, <1>8 DEF Handlers
    <2>2. kept[j] = "none"
      BY <1>3, <1>5
    <2>3. Books(queue', job', at', batch', scanning')
      BY <1>1, <1>2, <1>3, <1>5, <1>8, <2>1, <2>2 DEF Books
    <2> QED BY <1>2, <1>8, <2>3, BooksAreNext DEF UnionBounded, Union
  <1>9. CASE /\ \E to \in {"follow", "back"} : at' = [at EXCEPT ![j] = to]
             /\ job' = js /\ UNCHANGED <<queue, batch, scanning>>
    <2>1. at'[j] \in {"follow", "back"} /\ \A k \in Jobs \ {j} : at'[k] = at[k]
      BY <1>1, <1>9 DEF Handlers
    <2>2. Books(queue', job', at', batch', scanning')
      BY <1>1, <1>2, <1>3, <1>5, <1>6, <1>9, <2>1 DEF Books
    <2> QED BY <1>2, <1>9, <2>2, BooksAreNext DEF UnionBounded, Union
  <1>10. CASE at' = [at EXCEPT ![j] = "over"] /\ Kick(Append(queue, j), js, scanning)
    <2>1. at'[j] = "over" /\ \A k \in Jobs \ {j} : at'[k] = at[k]
      BY <1>1, <1>10 DEF Handlers
    <2> DEFINE q == Append(queue, j)
    <2>2. /\ q \in Seq(Jobs) /\ Len(q) = Len(queue) + 1 /\ q[Len(queue) + 1] = j
          /\ \A i \in 1 .. Len(queue) : q[i] = queue[i]
      BY <1>1
    <2> HIDE DEF q
    <2>3. Books(q, js, at', IF scanning THEN batch ELSE {}, scanning)
      <3>1. (IF scanning THEN batch ELSE {}) = batch
        BY <1>2 DEF Books
      <3>2. \A i \in 1 .. Len(q) : i \in 1 .. Len(queue) \/ i = Len(queue) + 1
        BY <1>1, <2>2
      <3>3. \A k \in Jobs : (js[k] = "scanning") <=> k \in batch
        BY <1>2, <1>3, <1>5, <1>6 DEF Books
      <3>4. \A i \in 1 .. Len(q) : js[q[i]] = "queued" /\ at'[q[i]] = "over"
        BY <1>1, <1>2, <1>3, <1>5, <1>6, <2>1, <2>2, <3>2 DEF Books
      <3>5. \A i, k \in 1 .. Len(q) : q[i] = q[k] => i = k
        BY <1>1, <1>2, <1>3, <2>2, <3>2 DEF Books
      <3>6. \A k \in Jobs \ {j} : (\E i \in 1 .. Len(queue) : queue[i] = k) => \E i \in 1 .. Len(q) : q[i] = k
        BY <1>1, <2>2
      <3>7. \E i \in 1 .. Len(q) : q[i] = j
        BY <1>1, <2>2
      <3>8. \A k \in Jobs :
              /\ at'[k] = "new" => js[k] = "none"
              /\ at'[k] \in {"follow", "back"} => js[k] = "queued"
              /\ at'[k] \notin {"new", "follow", "back"} /\ js[k] = "queued"
                   => \E i \in 1 .. Len(q) : q[i] = k
        BY <1>2, <1>5, <1>6, <2>1, <3>6, <3>7 DEF Books
      <3> QED BY <1>2, <3>1, <3>3, <3>4, <3>5, <3>8 DEF Books
    <2> QED BY <1>1, <1>6, <1>10, <2>2, <2>3, KickBooks DEF q
  <1> QED BY <1>7, <1>8, <1>9, <1>10

LEMMA ResubmitBooks ==
  ASSUME ScanInv, JobBooks, UnionBounded, NEW j \in Jobs, Resubmit(j)
  PROVE  JobBooks' /\ UnionBounded'
  <1>1. /\ queue \in Seq(Jobs) /\ Len(queue) \in Nat /\ \A i \in 1 .. Len(queue) : queue[i] \in Jobs
        /\ job \in [Jobs -> JobStates] /\ scanning \in BOOLEAN /\ j \in Handlers
        /\ at \in [Handlers -> {"new", "follow", "back", "live", "sent", "over"}]
    BY DEF ScanInv, TypeOK, JobTypeOK, JobStates, AtTypeOK, Handlers
  <1>2. Books(queue, job, at, batch, scanning) /\ (queue # <<>> => scanning)
    BY BooksAre
  <1>3. /\ at[j] = "back" /\ job[j] = "queued" /\ \A i \in 1 .. Len(queue) : queue[i] # j
        /\ at' = [at EXCEPT ![j] = "over"]
    BY <1>2 DEF Resubmit, Books
  <1>4. at'[j] = "over" /\ \A k \in Jobs \ {j} : at'[k] = at[k]
    BY <1>1, <1>3 DEF Handlers
  <1>5. CASE entries[WalletOf[j]] # None
    <2>1. job' = [job EXCEPT ![j] = "done"] /\ UNCHANGED <<queue, batch, scanning>>
      BY <1>5 DEF Resubmit
    <2>2. job'[j] = "done" /\ \A k \in Jobs \ {j} : job'[k] = job[k]
      BY <1>1, <2>1
    <2>3. Books(queue', job', at', batch', scanning')
      BY <1>1, <1>2, <1>3, <1>4, <2>1, <2>2 DEF Books
    <2> QED BY <1>2, <2>1, <2>3, BooksAreNext DEF UnionBounded, Union
  <1>6. CASE entries[WalletOf[j]] = None
    <2> DEFINE q == Append(queue, j)
    <2>1. Kick(q, job, scanning)
      BY <1>6 DEF Resubmit
    <2>2. /\ q \in Seq(Jobs) /\ Len(q) = Len(queue) + 1 /\ q[Len(queue) + 1] = j
          /\ \A i \in 1 .. Len(queue) : q[i] = queue[i]
      BY <1>1
    <2> HIDE DEF q
    <2>3. Books(q, job, at', IF scanning THEN batch ELSE {}, scanning)
      <3>1. (IF scanning THEN batch ELSE {}) = batch
        BY <1>2 DEF Books
      <3>2. \A i \in 1 .. Len(q) : i \in 1 .. Len(queue) \/ i = Len(queue) + 1
        BY <1>1, <2>2
      <3>4. \A i \in 1 .. Len(q) : job[q[i]] = "queued" /\ at'[q[i]] = "over"
        BY <1>1, <1>2, <1>3, <1>4, <2>2, <3>2 DEF Books
      <3>5. \A i, k \in 1 .. Len(q) : q[i] = q[k] => i = k
        BY <1>1, <1>2, <1>3, <2>2, <3>2 DEF Books
      <3>6. \A k \in Jobs \ {j} : (\E i \in 1 .. Len(queue) : queue[i] = k) => \E i \in 1 .. Len(q) : q[i] = k
        BY <1>1, <2>2
      <3>7. \E i \in 1 .. Len(q) : q[i] = j
        BY <1>1, <2>2
      <3>8. \A k \in Jobs :
              /\ at'[k] = "new" => job[k] = "none"
              /\ at'[k] \in {"follow", "back"} => job[k] = "queued"
              /\ at'[k] \notin {"new", "follow", "back"} /\ job[k] = "queued"
                   => \E i \in 1 .. Len(q) : q[i] = k
        BY <1>2, <1>4, <3>6, <3>7 DEF Books
      <3> QED BY <1>2, <3>1, <3>4, <3>5, <3>8 DEF Books
    <2> QED BY <1>1, <2>1, <2>2, <2>3, KickBooks
  <1> QED BY <1>5, <1>6

LEMMA BooksStep ==
  ASSUME ScanInv, JobBooks, UnionBounded, [Next]_vars
  PROVE  JobBooks' /\ UnionBounded'
  <1>1. /\ TypeOK /\ job \in [Jobs -> JobStates]
        /\ at \in [Handlers -> {"new", "follow", "back", "live", "sent", "over"}]
        /\ Jobs \subseteq Handlers
    BY DEF ScanInv, TypeOK, JobTypeOK, JobStates, AtTypeOK, Handlers
  <1>2. CASE ScanDone
    <2> DEFINE ws == {w \in {WalletOf[j] : j \in batch} : ~TooMany(ScannedCoins(w))}
               js == [j \in Jobs |-> IF j \notin batch THEN job[j]
                                      ELSE IF WalletOf[j] \in ws THEN "done" ELSE "error"]
    <2>1. (\E kept \in GcJobs(js) : Kick(queue, kept, FALSE)) /\ at' = at
      BY <1>2 DEF ScanDone
    <2> HIDE DEF ws
    <2>2. /\ js \in [Jobs -> JobStates]
          /\ \A j \in Jobs : IF j \in batch THEN js[j] \in {"done", "error"} ELSE js[j] = job[j]
      BY <1>1 DEF JobStates
    <2> HIDE DEF js
    <2> QED BY <1>1, <2>1, <2>2, CycleEndsBooks
  <1>3. CASE ScanFails
    <2> DEFINE js == [j \in Jobs |-> IF j \in batch THEN "error" ELSE job[j]]
    <2>1. (\E kept \in GcJobs(js) : Kick(queue, kept, FALSE)) /\ at' = at
      BY <1>3 DEF ScanFails
    <2>2. /\ js \in [Jobs -> JobStates]
          /\ \A j \in Jobs : IF j \in batch THEN js[j] \in {"done", "error"} ELSE js[j] = job[j]
      BY <1>1 DEF JobStates
    <2> HIDE DEF js
    <2> QED BY <1>1, <2>1, <2>2, CycleEndsBooks
  <1>4. CASE Gc
    <2>1. job' \in GcJobs(job) /\ UNCHANGED <<queue, batch, scanning, at>>
      BY <1>4 DEF Gc
    <2>2. \A j \in Jobs : job'[j] = job[j] \/ (job[j] \in {"done", "error"} /\ job'[j] = "none")
      BY <1>1, <2>1, GcSpares
    <2>3. queue \in Seq(Jobs) /\ \A i \in 1 .. Len(queue) : queue[i] \in Jobs
      BY <1>1 DEF TypeOK, JobTypeOK
    <2>4. Books(queue, job, at, batch, scanning) /\ (queue # <<>> => scanning)
      BY BooksAre
    <2>5. Books(queue', job', at', batch', scanning')
      BY <2>1, <2>2, <2>3, <2>4 DEF Books
    <2> QED BY <2>1, <2>4, <2>5, BooksAreNext DEF UnionBounded, Union
  <1>5. ASSUME NEW j \in Jobs, Submit(j) \/ Resubmit(j)
        PROVE  JobBooks' /\ UnionBounded'
    BY <1>5, SubmitBooks, ResubmitBooks
  <1>6. CASE FollowTip \/ FollowTipFails \/ FollowCheck \/ FollowBlock \/ FollowDrops
    <2>1. UNCHANGED <<job, queue, batch, scanning>>
      BY <1>6 DEF FollowTip, FollowTipFails, FollowCheck, FollowBlock, FollowDrops, jobVars
    <2>2. at' = at \/ FollowEnds
      BY <1>6 DEF FollowTip, FollowTipFails, FollowCheck, FollowBlock, FollowDrops, FollowNext
    <2>3. \A j \in Jobs : at'[j] = at[j] \/ (at[j] = "follow" /\ at'[j] = "back")
      BY <1>1, <2>2 DEF FollowEnds
    <2> QED BY <1>1, <2>1, <2>3, BooksUnnoticed
  <1>7. ASSUME NEW p \in Polls,
               \/ PollDoneJob(p) \/ PollExpired(p) \/ PollReuses(p) \/ PollAsks(p)
               \/ (\E c \in Coins : TxOut(p, c)) \/ PollReplies(p)
        PROVE  JobBooks' /\ UnionBounded'
    <2>1. UNCHANGED <<job, queue, batch, scanning>>
      BY <1>7 DEF PollDoneJob, PollExpired, PollReuses, PollAsks, TxOut, PollReplies, jobVars
    <2>2. at' = at \/ \E to : at' = [at EXCEPT ![p] = to]
      BY <1>7 DEF PollDoneJob, PollExpired, PollReuses, PollAsks, TxOut, PollReplies, Reply, Follow
    <2>3. \A j \in Jobs : at'[j] = at[j]
      BY <1>1, <2>2, ScanAssumption
    <2> QED BY <1>1, <2>1, <2>3, BooksUnnoticed
  <1>8. ASSUME NEW x \in Senders, Relay(x) \/ RelayAnswered(x)
        PROVE  JobBooks' /\ UnionBounded'
    <2>1. UNCHANGED <<job, queue, batch, scanning>> /\ \E to : at' = [at EXCEPT ![x] = to]
      BY <1>8 DEF Relay, RelayAnswered, jobVars
    <2>2. \A j \in Jobs : at'[j] = at[j]
      BY <1>1, <2>1, ScanAssumption
    <2> QED BY <1>1, <2>1, <2>2, BooksUnnoticed
  <1>9. CASE ScanStarts \/ Network \/ UNCHANGED vars
    BY <1>1, <1>9, BooksUnnoticed DEF ScanStarts, Network, vars, jobVars
  <1> QED BY <1>2, <1>3, <1>4, <1>5, <1>6, <1>7, <1>8, <1>9 DEF Next

-------------------------------------------------------------------------------
(***************************************************************************)
(* The cap: an object the table serves stays within it.  One it no longer  *)
(* serves may outgrow it while a pass or a poll still holds it.            *)
(***************************************************************************)
LEMMA CoinsAreFinite ==
  /\ MaxCoins \in Nat
  /\ \A cs \in SUBSET Coins : Cardinality(cs) \in Nat /\ (TooMany(cs) \/ Cardinality(cs) <= MaxCoins)
  BY ScanAssumption, FS_Subset, FS_CardinalityType DEF TooMany

\* A step that gives the table no object, and none of its own more coins.
LEMMA CapUnnoticed ==
  ASSUME CapKept, \A w \in Wallets : entries'[w] # None =>
                    entries'[w] = entries[w] /\ heap'[entries'[w]].entry = heap[entries[w]].entry
  PROVE  CapKept'
  BY DEF CapKept

LEMMA SweptCap ==
  ASSUME ScanInv, CapKept, SetHeap(heap), \A w \in Wallets : entries'[w] \in {entries[w], None}
  PROVE  CapKept'
  <1>1. \A w \in Wallets : entries'[w] # None => entries'[w] \in Objects /\ entries'[w] \in Referenced'
    BY DEF ScanInv, TypeOK, TableTypeOK, Referenced
  <1>2. \A w \in Wallets : entries'[w] # None => heap'[entries'[w]] = heap[entries'[w]]
    BY <1>1 DEF SetHeap
  <1> QED BY <1>2, CapUnnoticed

LEMMA CapStep ==
  ASSUME ScanInv, CapKept, [Next]_vars
  PROVE  CapKept'
  <1>1. /\ entries \in [Wallets -> Objects \cup {None}] /\ heap \in [Objects -> Object \cup {None}]
        /\ \A w \in Wallets : entries[w] # None => /\ entries[w] \in Objects /\ entries[w][1] = w
                                                   /\ heap[entries[w]] \in Object
    BY ScanAssumption DEF ScanInv, TypeOK, TableTypeOK, Keyed, HeapOK, Referenced
  <1>2. CASE ScanDone
    <2> DEFINE ws == {w \in {WalletOf[j] : j \in batch} : ~TooMany(ScannedCoins(w))}
               table == [w \in Wallets |-> IF w \in ws THEN Fresh(w) ELSE entries[w]]
               scanned(w) == [entry |-> [coins |-> ScannedCoins(w), block |-> snap], live |-> None]
               made == [o \in Objects |->
                          IF o[1] \in ws /\ o = Fresh(o[1]) THEN scanned(o[1]) ELSE heap[o]]
    <2>1. /\ snap # None /\ \A w \in ws : \E o \in {w} \X Gens : heap[o] = None
          /\ entries' \in GcTable(table) /\ SetHeap(made)
      BY <1>2 DEF ScanDone
    <2>2. ws \subseteq Wallets
      BY ScanAssumption DEF ScanInv, TypeOK, JobTypeOK
    <2>3. \A w \in ws : Cardinality(ScannedCoins(w)) <= MaxCoins
      <3>1. snap \in Blocks
        BY <2>1 DEF ScanInv, TypeOK, JobTypeOK
      <3>2. \A w \in ws : ScannedCoins(w) \in SUBSET Coins
        BY <3>1, NodeAssumption DEF ScannedCoins, CoinsOf
      <3> QED BY <3>2, CoinsAreFinite
    <2> HIDE DEF ws
    <2>4. \A w \in ws : Fresh(w) \in {w} \X Gens /\ Fresh(w) \in Objects /\ Fresh(w)[1] = w
      BY <2>1, <2>2 DEF Fresh, Objects
    <2>5. /\ table \in [Wallets -> Objects \cup {None}]
          /\ \A w \in Wallets : entries'[w] \in {table[w], None}
      <3>1. table \in [Wallets -> Objects \cup {None}]
        BY <1>1, <2>4
      <3> HIDE DEF table
      <3> QED BY <2>1, <3>1, GcTyped
    <2>6. \A o \in Objects : made[o] = IF o[1] \in ws /\ o = Fresh(o[1]) THEN scanned(o[1]) ELSE heap[o]
      OBVIOUS
    <2>7. \A w \in Wallets : scanned(w).entry.coins = ScannedCoins(w)
      OBVIOUS
    <2> HIDE DEF made, scanned
    <2>8. ASSUME NEW w \in Wallets, entries'[w] # None
          PROVE  Cardinality(heap'[entries'[w]].entry.coins) <= MaxCoins
      <3>1. entries'[w] = table[w]
        BY <2>5, <2>8
      <3>2. entries'[w] \in Objects /\ entries'[w] \in Referenced'
        BY <2>5, <2>8, <3>1 DEF Referenced
      <3>3. heap'[entries'[w]] = made[entries'[w]]
        BY <2>1, <3>2 DEF SetHeap
      <3>4. CASE w \in ws
        <4>1. entries'[w] = Fresh(w)
          BY <3>1, <3>4
        <4>2. made[Fresh(w)] = scanned(w)
          BY <2>4, <2>6, <3>4
        <4> QED BY <2>3, <2>7, <3>3, <3>4, <4>1, <4>2
      <3>5. CASE w \notin ws
        <4>1. entries'[w] = entries[w] /\ entries[w][1] = w
          BY <1>1, <2>8, <3>1, <3>5
        <4>2. made[entries[w]] = heap[entries[w]]
          BY <2>6, <3>2, <3>5, <4>1
        <4> QED BY <2>8, <3>3, <4>1, <4>2 DEF CapKept
      <3> QED BY <3>4, <3>5
    <2> QED BY <2>8 DEF CapKept
  <1>3. CASE ScanFails \/ Gc
    <2>1. entries' \in GcTable(entries) /\ SetHeap(heap)
      BY <1>3 DEF ScanFails, Gc
    <2> QED BY <1>1, <2>1, GcTyped, SweptCap
  <1>4. CASE FollowBlock
    <2> DEFINE w == current[1]
               e == heap[current].entry
               h == Height[e.block] + 1
    <2>1. /\ current \in Objects /\ heap[current] \in Object /\ w \in Wallets
      BY <1>4, PassFacts DEF FollowBlock
    <2>2. PICK b \in (IF fetched[h] # None THEN {fetched[h]} ELSE BestAt(h)) :
            /\ entries' = (IF TooMany(Applied(w, e, b).coins)
                             THEN [entries EXCEPT ![w] = None] ELSE entries)
            /\ SetHeap([heap EXCEPT ![current].entry = Applied(w, e, b)])
      BY <1>4 DEF FollowBlock
    <2> DEFINE grown == Applied(w, e, b)
               made == [heap EXCEPT ![current].entry = grown]
    <2>3. b \in Blocks
      <3>1. h \in Heights
        <4>1. Height[e.block] < Height[goal] /\ goal \in Blocks
          BY <1>4 DEF FollowBlock, ScanInv, FollowOK
        <4>2. e.block \in Blocks
          BY <2>1 DEF Object, Entry
        <4>3. Height[e.block] \in 0 .. MaxHeight /\ Height[goal] \in 0 .. MaxHeight /\ MaxHeight \in Nat
          BY <4>1, <4>2, TreeAssumption DEF Heights
        <4> QED BY <4>1, <4>3 DEF Heights
      <3> QED BY <2>2, <3>1 DEF ScanInv, TypeOK, FollowTypeOK, BestAt
    <2>4. grown.coins \in SUBSET Coins
      BY <2>1, <2>3, NodeAssumption DEF Applied, Object, Entry
    <2>5. TooMany(grown.coins) \/ Cardinality(grown.coins) <= MaxCoins
      BY <2>4, CoinsAreFinite
    <2> HIDE DEF grown, w, e, h
    <2>6. /\ made[current].entry = grown
          /\ \A o \in Objects \ {current} : made[o] = heap[o]
      BY <1>1, <2>1 DEF Object
    <2> HIDE DEF made
    <2>7. SetHeap(made) /\ entries' = (IF TooMany(grown.coins) THEN [entries EXCEPT ![w] = None] ELSE entries)
      BY <2>2 DEF grown, made
    <2>8. ASSUME NEW v \in Wallets, entries'[v] # None
          PROVE  Cardinality(heap'[entries'[v]].entry.coins) <= MaxCoins
      <3>1. entries'[v] = entries[v] /\ entries[v] \in Objects /\ entries[v] # None
        BY <1>1, <2>7, <2>8
      <3>2. heap'[entries[v]] = made[entries[v]]
        BY <2>7, <3>1 DEF SetHeap, Referenced
      <3>3. CASE entries[v] = current
        <4>1. v = w
          BY <1>1, <3>1, <3>3 DEF w
        <4>2. ~TooMany(grown.coins)
          BY <1>1, <2>7, <2>8, <4>1
        <4> QED BY <2>5, <2>6, <3>1, <3>2, <3>3, <4>2
      <3>4. CASE entries[v] # current
        BY <2>6, <3>1, <3>2, <3>4 DEF CapKept
      <3> QED BY <3>3, <3>4
    <2> QED BY <2>8 DEF CapKept
  <1>5. CASE FollowCheck \/ FollowDrops
    <2>1. SetHeap(heap) /\ entries' \in {entries, [entries EXCEPT ![current[1]] = None]}
      BY <1>5 DEF FollowCheck, FollowDrops
    <2> QED BY <1>1, <2>1, SweptCap
  <1>6. ASSUME NEW j \in Jobs, Submit(j)
        PROVE  CapKept'
    <2>1. PICK room \in Room : entries' = room[2] /\ SetHeap(heap)
      BY <1>6 DEF Submit
    <2>2. room[2] = entries \/ room[2] \in GcTable(entries)
      BY <2>1 DEF Room
    <2> QED BY <1>1, <2>1, <2>2, GcTyped, SweptCap
  <1>7. ASSUME NEW p \in Polls, PollReplies(p)
        PROVE  CapKept'
    <2> DEFINE answer == [coins |-> asked[p].coins, block |-> asked[p].block, gone |-> gone[p]]
               made == [heap EXCEPT ![ref[p]].live = answer]
    <2>1. SetHeap(made) /\ entries' = entries
      BY <1>7 DEF PollReplies
    <2> HIDE DEF answer
    <2>2. \A w \in Wallets : entries[w] # None => made[entries[w]].entry = heap[entries[w]].entry
      <3> TAKE w \in Wallets
      <3>1. CASE entries[w] # None /\ entries[w] = ref[p]
        <4>1. heap[entries[w]] \in Object /\ made[entries[w]] = [heap[entries[w]] EXCEPT !.live = answer]
          BY <1>1, <3>1
        <4> QED BY <4>1 DEF Object
      <3>2. CASE entries[w] # None /\ entries[w] # ref[p]
        BY <1>1, <3>2
      <3> QED BY <3>1, <3>2
    <2> HIDE DEF made
    <2>3. \A w \in Wallets : entries[w] # None => heap'[entries[w]] = made[entries[w]]
      BY <1>1, <2>1 DEF SetHeap, Referenced
    <2> QED BY <2>1, <2>2, <2>3, CapUnnoticed
  <1>8. ASSUME NEW x \in Senders, RelayAnswered(x)
        PROVE  CapKept'
    <2>1. /\ heap' = [o \in Objects |->
                        IF \E w \in Wallets : entries[w] = o
                          THEN [heap[o] EXCEPT !.live = None] ELSE heap[o]]
          /\ entries' = entries
      BY <1>8 DEF RelayAnswered
    <2>2. ASSUME NEW w \in Wallets, entries[w] # None
          PROVE  heap'[entries[w]].entry = heap[entries[w]].entry
      <3>1. heap[entries[w]] \in Object /\ heap'[entries[w]] = [heap[entries[w]] EXCEPT !.live = None]
        BY <1>1, <2>1, <2>2
      <3> QED BY <3>1 DEF Object
    <2> QED BY <2>1, <2>2, CapUnnoticed
  <1>9. CASE UNCHANGED tableVars
    BY <1>9, CapUnnoticed DEF tableVars
  <1>10. CASE ScanStarts \/ FollowTip \/ FollowTipFails \/ (\E j \in Jobs : Resubmit(j))
              \/ (\E p \in Polls : \/ PollDoneJob(p) \/ PollExpired(p) \/ PollReuses(p) \/ PollAsks(p)
                                   \/ \E c \in Coins : TxOut(p, c))
              \/ (\E x \in Senders : Relay(x)) \/ Network \/ UNCHANGED vars
    <2>1. UNCHANGED tableVars
      BY <1>10 DEF ScanStarts, FollowTip, FollowTipFails, Resubmit, PollDoneJob, PollExpired, PollReuses,
         PollAsks, TxOut, Relay, Network, vars
    <2> QED BY <1>9, <2>1
  <1> QED BY <1>2, <1>3, <1>4, <1>5, <1>6, <1>7, <1>8, <1>10 DEF Next

-------------------------------------------------------------------------------
(***************************************************************************)
(* The invariant and what follows from it                                  *)
(***************************************************************************)

LEMMA InitScanInv == Init => ScanInv
  <1> SUFFICES ASSUME Init
               PROVE  ScanInv
    OBVIOUS
  <1>1. NodeTypeOK /\ JobTypeOK /\ TableTypeOK /\ FollowTypeOK /\ PollTypeOK
    <2>1. NodeTypeOK
      BY TreeAssumption, NodeAssumption DEF Init, NodeInit, NodeTypeOK
    <2>2. JobTypeOK
      <3>1. queue = <<>> /\ batch = {} /\ scanning = FALSE /\ snap = None
        BY DEF Init
      <3>2. job \in [Jobs -> {"none", "queued", "scanning", "done", "error"}]
        BY DEF Init
      <3>3. queue \in Seq(Jobs)
        BY <3>1
      <3>4. QED
        BY <3>1, <3>2, <3>3 DEF JobTypeOK
    <2>3. TableTypeOK
      BY DEF Init, TableTypeOK
    <2>4. FollowTypeOK
      BY DEF Init, FollowTypeOK
    <2>5. PollTypeOK
      BY DEF Init, PollTypeOK
    <2>6. QED
      BY <2>1, <2>2, <2>3, <2>4, <2>5
  <1>2. AtTypeOK /\ \A p \in Polls : at[p] \in {"new", "over"}
    BY DEF Init, AtTypeOK, Handlers
  <1>3. Keyed /\ HeapOK
    BY DEF Init, Keyed, HeapOK, Referenced
  <1>4. FollowOK /\ PollOK
    BY <1>2 DEF Init, FollowOK, PollOK
  <1>5. QED
    BY <1>1, <1>2, <1>3, <1>4 DEF ScanInv, TypeOK

LEMMA NextScanInv == ScanInv /\ [Next]_vars => ScanInv'
  <1> SUFFICES ASSUME ScanInv, [Next]_vars
               PROVE  ScanInv'
    OBVIOUS
  <1>1. CASE ScanStarts \/ Network \/ (\E x \in Senders : Relay(x))
    BY <1>1, StillSteps
  <1>2. CASE ScanDone
    BY <1>2, DoneStep
  <1>3. CASE ScanFails \/ Gc
    BY <1>3, FailStep
  <1>4. CASE FollowTip \/ FollowTipFails
    BY <1>4, TipStep
  <1>5. CASE FollowCheck
    BY <1>5, CheckStep
  <1>6. CASE FollowBlock
    BY <1>6, BlockStep
  <1>7. CASE FollowDrops
    BY <1>7, DropStep
  <1>8. ASSUME NEW j \in Jobs, Submit(j) \/ Resubmit(j)
        PROVE  ScanInv'
    BY <1>8, SubmitStep, ResubmitStep
  <1>9. ASSUME NEW p \in Polls,
               \/ PollDoneJob(p) \/ PollExpired(p) \/ PollReuses(p) \/ PollAsks(p)
               \/ (\E c \in Coins : TxOut(p, c)) \/ PollReplies(p)
        PROVE  ScanInv'
    BY <1>9, PollDoneStep, PollBackStep, PollAsksStep, TxOutStep, PollRepliesStep
  <1>10. ASSUME NEW x \in Senders, RelayAnswered(x)
         PROVE  ScanInv'
    BY <1>10, RelayAnsweredStep
  <1>11. CASE UNCHANGED vars
    <2>1. /\ UNCHANGED <<nodeVars, jobVars, at, relayed>>
          /\ UNCHANGED <<tableVars, followVars, pollVars>>
      BY <1>11 DEF vars
    <2>2. NodeTypeOK' /\ JobTypeOK' /\ AtTypeOK'
      BY <2>1 DEF ScanInv, TypeOK, NodeTypeOK, JobTypeOK, AtTypeOK, nodeVars, jobVars
    <2>3. QED
      BY <2>1, <2>2, Still
  <1>12. QED
    BY <1>1, <1>2, <1>3, <1>4, <1>5, <1>6, <1>7, <1>8, <1>9, <1>10, <1>11 DEF Next

LEMMA ScanInvariant == Spec => []ScanInv
  <1>1. Init => ScanInv
    BY InitScanInv
  <1>2. ScanInv /\ [Next]_vars => ScanInv'
    BY NextScanInv
  <1>3. QED
    BY <1>1, <1>2, PTL DEF Spec

\* The scan manager's state is always well typed: in particular every object
\* a handler or a pass holds is one of the heap's.
THEOREM ScanTypeCorrect == Spec => []TypeOK
  <1>1. ScanInv => TypeOK
    BY DEF ScanInv
  <1>2. QED
    BY <1>1, ScanInvariant, PTL

\* A cached entry, whichever branch it came from, however many blocks it was
\* followed over and whoever still holds it, has exactly the coins its scripts
\* own as of the block it names (_follow's and _cycle's entries).
THEOREM EntriesAreExact == Spec => []EntryExact
  <1>1. ScanInv => EntryExact
    <2> SUFFICES ASSUME ScanInv
                 PROVE  EntryExact
      OBVIOUS
    <2>1. ASSUME NEW w \in Wallets, entries[w] # None
          PROVE  entries[w][1] = w /\ heap[entries[w]] # None
      BY <2>1 DEF ScanInv, Keyed, HeapOK, Referenced
    <2>2. \A o \in Objects : heap[o] # None => ExactAt(o[1], heap[o].entry)
      BY DEF ScanInv, HeapOK, ObjectExact
    <2>3. QED
      BY <2>1, <2>2 DEF EntryExact
  <1>2. QED
    BY <1>1, ScanInvariant, PTL

\* Answers about the mempool are kept by position and reused by their stamp
\* (_liveness, liveStamp): whenever the stamp matches, they are about exactly
\* the coins the entry has, even if blocks came and went while they were asked.
THEOREM AnswersAligned == Spec => []LiveAligned
  <1>1. ScanInv => LiveAligned
    BY DEF ScanInv, HeapOK, ObjectExact, ExactAt, LiveAligned, Reusable
  <1>2. QED
    BY <1>1, ScanInvariant, PTL

\* Whatever fails or is queued meanwhile, no job is lost or scanned twice, no
\* batch of several jobs outgrows one scan, and no entry the table serves holds
\* more coins than a poll may ask about (_cycle, _kick, gc and follow).
THEOREM JobsAreNeverLost == Spec => []JobsAreKept
  <1>1. Init => JobsAreKept
    <2> SUFFICES ASSUME Init
                 PROVE  JobsAreKept
      OBVIOUS
    <2>1. Books(queue, job, at, batch, scanning) /\ queue = <<>>
      BY DEF Init, Books, Handlers
    <2>2. JobBooks
      BY <2>1, BooksAre
    <2>3. UnionBounded
      BY FS_EmptySet DEF Init, UnionBounded
    <2>4. CapKept
      BY DEF Init, CapKept
    <2> QED BY <2>2, <2>3, <2>4 DEF JobsAreKept
  <1>2. ScanInv /\ JobsAreKept /\ [Next]_vars => JobsAreKept'
    BY BooksStep, CapStep DEF JobsAreKept
  <1>3. QED
    BY <1>1, <1>2, ScanInvariant, PTL DEF Spec

===============================================================================
