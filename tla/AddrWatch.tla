------------------------------- MODULE AddrWatch ------------------------------
(***************************************************************************)
(* The notify bot's watch over addresses: the 60-second timer and          *)
(* watchAddresses (bot.mjs), one scan pass (addrwatch.mjs), the window of  *)
(* recent block hashes that finds reorganisations (chaintracker.mjs), and  *)
(* the node RPCs a pass awaits (node.mjs).                                 *)
(*                                                                         *)
(* An action is the code between two awaits, so blocks arrive, the mempool *)
(* changes, the process restarts and, because the timer does not wait for  *)
(* a pass to end, other passes run between any two of them.  tracked and   *)
(* notified are SQLite tables; a row of notified is added in the step that *)
(* sends the alert and removed in the step that sends its reversal, so it  *)
(* is what the user was last told.                                         *)
(***************************************************************************)
EXTENDS BlockTree, Integers

CONSTANTS
  None,
  Txs,
  TxsOf,         \* the watched transactions a block carries
  Alerts,        \* (subscription, txid, direction): what makes two alerts the same
  TxOf,          \* the transaction of each
  MinConf,       \* MIN_NOTIFY_CONFIRMATIONS
  MaxTrack,      \* heights the window keeps
  Passes,        \* bound: calls of runWatchers that may be under way together
  MaxFails,      \* bound: RPCs that fail
  MaxRestarts    \* bound: restarts of the bot

ASSUME WatchAssumption ==
  /\ TxsOf \in [Blocks -> SUBSET Txs]
  /\ TxOf \in [Alerts -> Txs]
  \* A transaction is in one block of a branch.
  /\ \A b \in Blocks : \A c, d \in Below[b] : TxsOf[c] \cap TxsOf[d] # {} => c = d
  /\ Height[Genesis] = 0
  /\ MinConf \in Nat \ {0} /\ MaxTrack \in Nat /\ MaxTrack > MinConf
  /\ {MaxFails, MaxRestarts} \subseteq Nat
  /\ None \notin Blocks \cup Alerts \cup Int

VARIABLES
  mempool,       \* watched transactions in the node's mempool
  tracked,       \* scan_blocks: the hash recorded for each height
  lastScanned,
  notified,      \* addr_notified: the height each alert was sent for
  pass,          \* the passes under way
  fails, restarts,
  buried,        \* history: blocks that were once MinConf deep
  upset          \* history: what has disturbed a pass

botVars == <<tracked, lastScanned, notified, pass>>
boundVars == <<fails, restarts>>
vars == <<tip, mempool, botVars, boundVars, buried, upset>>

\* A pass: the RPC it awaits and the locals that live across the await.
Pass ==
  [at : {"idle", "tip", "probe", "hash", "block", "mempool", "recheck"},
   tip : Heights \cup {None},         \* getblockcount, read once
   probes : SUBSET Heights,           \* heights _detectReorg still has to compare
   reorg : BOOLEAN,
   next : Heights \cup {None},        \* the height to scan or to look into
   hash : Blocks \cup {None},
   orphaned : SUBSET Alerts,          \* alerts of orphaned heights, not yet dealt with
   seen : SUBSET Alerts,              \* reSeen
   check : Alerts \cup {None}]

Idle ==
  [at |-> "idle", tip |-> None, probes |-> {}, reorg |-> FALSE, next |-> None,
   hash |-> None, orphaned |-> {}, seen |-> {}, check |-> None]

TypeOK ==
  /\ tip \in Blocks
  /\ mempool \subseteq Txs
  /\ tracked \in [Heights -> Blocks \cup {None}]
  /\ lastScanned \in Heights \cup {-1, None}
  /\ notified \in [Alerts -> Heights \cup {None}]
  /\ pass \in [Passes -> Pass]
  /\ fails \in 0 .. MaxFails /\ restarts \in 0 .. MaxRestarts
  /\ buried \subseteq Blocks
  /\ upset \subseteq {"overlap", "moved", "deep"}

BuriedUnder(b) == {c \in Blocks : c \in Below[b] /\ Height[c] + MinConf <= Height[b] + 1}
Confirmed(b) == UNION {TxsOf[c] : c \in Below[b]}

Init ==
  /\ tip \in Tips \cup {Genesis}
  /\ mempool = {}
  /\ tracked = [h \in Heights |-> None]
  /\ lastScanned = None
  /\ notified = [a \in Alerts |-> None]
  /\ pass = [p \in Passes |-> Idle]
  /\ fails = 0 /\ restarts = 0
  /\ buried = BuriedUnder(tip)
  /\ upset = {}

-------------------------------------------------------------------------------
(* The node.                                                               *)

\* A pass that has read the chain and is not over.
Busy(p) == pass[p].at \notin {"idle", "tip"}

\* A transaction of an orphaned block may return to the mempool or be lost,
\* and one of the mempool may be mined.
NewTip ==
  \E b \in Tips :
    /\ Connect(b)
    /\ mempool' \in SUBSET (Txs \ Confirmed(b))
    /\ buried' = buried \cup BuriedUnder(b)
    /\ upset' = upset \cup {u \in {"moved"} : \E p \in Passes : Busy(p)}
    /\ UNCHANGED <<botVars, boundVars>>

\* A transaction is broadcast, replaced or evicted.
MempoolMoves ==
  /\ mempool' \in SUBSET (Txs \ Confirmed(tip))
  /\ UNCHANGED <<tip, botVars, boundVars, buried, upset>>

Fail == fails < MaxFails /\ fails' = fails + 1
NoFail == UNCHANGED fails

-------------------------------------------------------------------------------
(* ChainTracker.                                                           *)

Tracked == {h \in Heights : tracked[h] # None}
\* Mutant: one confirmation is enough.
SafeTipEarly(height) == height

\* The newest height that is deep enough to notify.
SafeTip(height) == height - (MinConf - 1)

\* The newest of a set of heights, if it has one.
Newest(hs) == {h \in hs : \A k \in hs : k <= h}

\* Forget a set of heights.
Forget(hs) == [h \in Heights |-> IF h \in hs THEN None ELSE tracked[h]]

\* Mutant: the window keeps one height too many.
RecordLoosely(h, b) ==
  LET last == IF lastScanned = None \/ h > lastScanned THEN h ELSE lastScanned IN
  /\ lastScanned' = last
  /\ tracked' = [k \in Heights |-> IF k < last - MaxTrack THEN None
                                   ELSE IF k = h THEN b ELSE tracked[k]]

\* record: the newest height wins, and the window keeps MaxTrack of them.
Record(h, b) ==
  LET last == IF lastScanned = None \/ h > lastScanned THEN h ELSE lastScanned IN
  /\ lastScanned' = last
  /\ tracked' = [k \in Heights |-> IF k <= last - MaxTrack THEN None
                                   ELSE IF k = h THEN b ELSE tracked[k]]

\* Adopt the safe tip and notify nothing older.
Rebaseline(height) ==
  lastScanned' = IF SafeTip(height) < 0 THEN -1 ELSE SafeTip(height)

-------------------------------------------------------------------------------
(* A pass goes on: to the next orphaned alert that has not reappeared, to  *)
(* the next block, or to its end.                                          *)

Goes(p, state) == pass' = [pass EXCEPT ![p] = state]

NextCheck(p, state, left) ==
  \/ left = {} /\ Goes(p, Idle)
  \/ \E a \in left :
       Goes(p, [state EXCEPT !.at = "mempool", !.check = a, !.orphaned = left,
                             !.seen = {}, !.next = None, !.hash = None])

\* Mutant: the safe tip itself is not scanned.
ScanShort(p, state, h) ==
  IF h < SafeTip(state.tip)
  THEN Goes(p, [state EXCEPT !.at = "hash", !.next = h, !.hash = None])
  ELSE NextCheck(p, state, state.orphaned \ state.seen)

Scan(p, state, h) ==
  IF h <= SafeTip(state.tip)
  THEN Goes(p, [state EXCEPT !.at = "hash", !.next = h, !.hash = None])
  ELSE NextCheck(p, state, state.orphaned \ state.seen)

\* The timer: runWatchers calls watchAddresses whether or not the last call is over.
Start(p) ==
  /\ pass[p] = Idle
  /\ Goes(p, [Idle EXCEPT !.at = "tip"])
  /\ upset' = upset \cup {u \in {"overlap"} : \E q \in Passes : pass[q] # Idle}
  /\ UNCHANGED <<tip, mempool, tracked, lastScanned, notified, boundVars, buried>>

TipFails(p) ==
  /\ pass[p].at = "tip"
  /\ Fail
  /\ Goes(p, Idle)
  /\ UNCHANGED <<tip, mempool, tracked, lastScanned, notified, restarts, buried, upset>>

\* Mutant: blocks are counted from one.
BlockCountFromOne == Height[tip] + 1

\* getblockcount: the height of the best block.
BlockCount == Height[tip]

\* plan: the first run adopts the safe tip; with an empty window there is
\* nothing to compare; otherwise the newest height is compared first.
TipKnown(p) ==
  LET state == [pass[p] EXCEPT !.tip = BlockCount] IN
  /\ pass[p].at = "tip"
  /\ NoFail
  /\ \/ /\ lastScanned = None
        /\ Rebaseline(BlockCount)
        /\ Goes(p, Idle)
     \/ /\ lastScanned # None
        /\ IF Tracked = {} THEN Scan(p, state, lastScanned + 1)
           ELSE Goes(p, [state EXCEPT !.at = "probe", !.probes = Tracked])
        /\ UNCHANGED lastScanned
  /\ UNCHANGED <<tip, mempool, tracked, notified, restarts, buried, upset>>

\* After a reorganisation, the heights above the ancestor are orphaned.
Orphaned(p, h) == {k \in Tracked : pass[p].reorg /\ k > h}

\* Mutant: scanning is not rolled back.
ResumesAbove(p, h) == lastScanned

\* And scanning resumes there.
Resumes(p, h) == IF pass[p].reorg THEN h ELSE lastScanned

\* The ancestor is found: forget the heights above it, keep their alerts for
\* later, and scan again from there.
ProbeMatches(p) ==
  /\ pass[p].at = "probe"
  /\ NoFail
  /\ \E h \in Newest(pass[p].probes) :
       LET lost == Orphaned(p, h)
           state == [pass[p] EXCEPT !.probes = {}, !.reorg = FALSE,
                                    !.orphaned = {a \in Alerts : notified[a] \in lost}] IN
       /\ tracked[h] \in BestAt(h)
       /\ tracked' = Forget(lost)
       /\ lastScanned' = Resumes(p, h)
       /\ Scan(p, state, Resumes(p, h) + 1)
  /\ UNCHANGED <<tip, mempool, notified, restarts, buried, upset>>

\* Another hash, or no answer: the height counts as orphaned.  When none is
\* left the fork is below the window, and the tracker starts anew.
ProbeDiffers(p) ==
  /\ pass[p].at = "probe"
  /\ \E h \in Newest(pass[p].probes) :
       LET left == pass[p].probes \ {h} IN
       /\ \/ tracked[h] \notin BestAt(h) /\ NoFail
          \/ Fail
       /\ \/ /\ left # {}
             /\ Goes(p, [pass[p] EXCEPT !.probes = left, !.reorg = TRUE])
             /\ UNCHANGED <<tracked, lastScanned, upset>>
          \/ /\ left = {}
             /\ tracked' = Forget(Heights)
             /\ Rebaseline(pass[p].tip)
             /\ upset' = upset \cup {"deep"}
             /\ Goes(p, Idle)
  /\ UNCHANGED <<tip, mempool, notified, restarts, buried>>

HashKnown(p) ==
  /\ pass[p].at = "hash"
  /\ \E b \in BestAt(pass[p].next) :
       Goes(p, [pass[p] EXCEPT !.at = "block", !.hash = b])
  /\ UNCHANGED <<tip, mempool, tracked, lastScanned, notified, boundVars, buried, upset>>

\* The block is recorded, then every hit: one the user has not been told of
\* is announced, one he has been told of only moves to this height.
BlockRead(p) ==
  LET h == pass[p].next
      hits == {a \in Alerts : TxOf[a] \in TxsOf[pass[p].hash]} IN
  /\ pass[p].at = "block"
  /\ Record(h, pass[p].hash)
  /\ notified' = [a \in Alerts |-> IF a \in hits THEN h ELSE notified[a]]
  /\ Scan(p, [pass[p] EXCEPT !.seen = @ \cup hits], h + 1)
  /\ UNCHANGED <<tip, mempool, boundVars, buried, upset>>

\* scanBlock throws and watchAddresses logs it: what the pass had found is dropped.
ScanFails(p) ==
  /\ pass[p].at \in {"hash", "block"}
  /\ Fail
  /\ Goes(p, Idle)
  /\ UNCHANGED <<tip, mempool, tracked, lastScanned, notified, restarts, buried, upset>>

\* stillPresent, first half: in the mempool, the alert stays as it is.
StillPooled(p) ==
  /\ pass[p].at = "mempool"
  /\ TxOf[pass[p].check] \in mempool
  /\ NextCheck(p, pass[p], pass[p].orphaned \ {pass[p].check})
  /\ UNCHANGED <<tip, mempool, tracked, lastScanned, notified, boundVars, buried, upset>>

\* Mutant: only the block below the tip is looked into.
NotPooledBelow(p) ==
  /\ pass[p].at = "mempool"
  /\ \/ TxOf[pass[p].check] \notin mempool /\ NoFail
     \/ Fail
  /\ Goes(p, [pass[p] EXCEPT !.at = "recheck", !.next = pass[p].tip - 1])
  /\ UNCHANGED <<tip, mempool, tracked, lastScanned, notified, restarts, buried, upset>>

\* A failed question counts as no.
NotPooled(p) ==
  /\ pass[p].at = "mempool"
  /\ \/ TxOf[pass[p].check] \notin mempool /\ NoFail
     \/ Fail
  /\ Goes(p, [pass[p] EXCEPT !.at = "recheck", !.next = pass[p].tip])
  /\ UNCHANGED <<tip, mempool, tracked, lastScanned, notified, restarts, buried, upset>>

\* Second half: the blocks too fresh to have been scanned.
Mined(p) == \E b \in BestAt(pass[p].next) : TxOf[pass[p].check] \in TxsOf[b]

StillMined(p) ==
  /\ pass[p].at = "recheck"
  /\ Mined(p)
  /\ NextCheck(p, pass[p], pass[p].orphaned \ {pass[p].check})
  /\ UNCHANGED <<tip, mempool, tracked, lastScanned, notified, boundVars, buried, upset>>

\* The last of them read, the user is told that the payment is gone.
NotMined(p) ==
  LET below == pass[p].next - 1 IN
  /\ pass[p].at = "recheck"
  /\ \/ ~Mined(p) /\ NoFail
     \/ Fail
  /\ IF below > pass[p].tip - MinConf /\ below >= 0
     THEN /\ Goes(p, [pass[p] EXCEPT !.next = below])
          /\ UNCHANGED notified
     ELSE /\ notified' = [notified EXCEPT ![pass[p].check] = None]
          /\ NextCheck(p, pass[p], pass[p].orphaned \ {pass[p].check})
  /\ UNCHANGED <<tip, mempool, tracked, lastScanned, restarts, buried, upset>>

\* The process ends and starts again on its tables.
Restart ==
  /\ restarts < MaxRestarts
  /\ restarts' = restarts + 1
  /\ pass' = [p \in Passes |-> Idle]
  /\ \/ Tracked = {} /\ lastScanned' = None
     \/ lastScanned' \in Newest(Tracked)
  /\ UNCHANGED <<tip, mempool, tracked, notified, fails, buried, upset>>

Answered(p) ==
  \/ TipKnown(p) \/ ProbeMatches(p) \/ ProbeDiffers(p)
  \/ HashKnown(p) \/ BlockRead(p)
  \/ StillPooled(p) \/ NotPooled(p) \/ StillMined(p) \/ NotMined(p)

Next ==
  \/ NewTip \/ MempoolMoves \/ Restart
  \/ \E p \in Passes : Start(p) \/ Answered(p) \/ TipFails(p) \/ ScanFails(p)

Spec == Init /\ [][Next]_vars

\* setInterval fires for ever, and fetch answers or gives up.
FairSpec ==
  /\ Spec
  /\ WF_vars(\E p \in Passes : Start(p))
  /\ \A p \in Passes : WF_vars(Answered(p))

-------------------------------------------------------------------------------
(* Properties.                                                             *)

\* chaintracker.mjs: "only releases blocks for notification once they are
\* buried at least minConf deep".  Whatever the chain does between the RPCs of
\* a pass, a recorded block and the block behind an alert were once that deep.
BuriedOnly ==
  /\ \A h \in Tracked : tracked[h] \in buried /\ Height[tracked[h]] = h
  /\ \A a \in Alerts : notified[a] # None =>
       \E b \in buried : Height[b] = notified[a] /\ TxOf[a] \in TxsOf[b]

\* The window never holds more than MaxTrack heights, nor one above
\* lastScanned, also when passes roll it back and record into it by turns.
WindowBounded ==
  \A h \in Tracked : lastScanned # None /\ h <= lastScanned /\ h > lastScanned - MaxTrack

\* While passes do not overlap and the chain moves only between them, the
\* window is one branch without a gap up to lastScanned, and every watched
\* transaction of its blocks has been announced: reorganisations, RPC failures
\* and restarts at any point of a pass skip no block of it.
WindowIsBranch ==
  upset \subseteq {"deep"} =>
    \A h \in Tracked :
      /\ h < lastScanned =>
           /\ h + 1 \in Tracked
           /\ Parent[tracked[h + 1]] = tracked[h]
      /\ \A a \in Alerts : TxOf[a] \in TxsOf[tracked[h]] => notified[a] # None

\* addrwatch.mjs, invariant 3: a payment is reversed "only once its
\* disappearance is established".  Under the same conditions, and while no RPC
\* has failed, the transaction of a reversed alert is in no block of the best chain.
ReversedIsGone ==
  [][ \A a \in Alerts :
        /\ notified[a] # None /\ notified'[a] = None
        /\ upset \subseteq {"deep"} /\ fails = 0
        => TxOf[a] \notin Confirmed(tip) ]_vars

\* Scanning reaches the safe tip again and again, whatever deep reorganisation,
\* failure or restart came before.  It need not stay there: two passes that
\* overlap for ever can roll each other back for ever.
CatchesUp == []<>(lastScanned # None /\ lastScanned >= SafeTip(Height[tip]))

\* addrwatch.mjs: alerts of orphaned blocks "that do NOT reappear on the
\* canonical branch are surfaced as an explicit 'reorged out' event, never
\* silently wrong".  A payment that has left chain and mempool for good is
\* reversed in the end, in runs that give the passes no excuse.
NeverSilentlyWrong ==
  \A a \in Alerts :
    (/\ [](upset = {})
     /\ <>[](TxOf[a] \notin Confirmed(tip) \cup mempool))
    => []<>(notified[a] = None)
===============================================================================
