--------------------------- MODULE AddrWatchProofs ---------------------------
(***************************************************************************)
(* Proofs about the notify bot's address watch, for every block tree,      *)
(* number of overlapping passes, confirmation depth and window size.       *)
(*                                                                         *)
(* The invariant is the types, the two properties, and what a pass may     *)
(* rely on across its awaits: the tip it read is not above the node's, it  *)
(* scans only heights that were deep enough under that tip, and the block  *)
(* it is reading was once that deep.                                       *)
(***************************************************************************)
EXTENDS AddrWatch, TLAPS, WellFoundedInduction

PassOK(s) ==
  /\ s.tip # None => s.tip <= Height[tip]
  /\ s.at \notin {"idle", "tip"} => s.tip # None /\ lastScanned # None
  /\ s.at \in {"hash", "block"} => s.next # None /\ s.next <= SafeTip(s.tip)
  /\ s.at = "block" => s.hash \in buried /\ Height[s.hash] = s.next
  /\ s.at \in {"mempool", "recheck"} => s.check # None
  /\ s.at = "recheck" => s.next # None

WatchInv ==
  /\ TypeOK
  /\ BuriedUnder(tip) \subseteq buried
  /\ BuriedOnly
  /\ WindowBounded
  /\ \A p \in Passes : PassOK(pass[p])

\* The places a pass can be in once it goes on.
GoesOn(s, last) ==
  \/ s = Idle
  \/ /\ s.at = "hash" /\ s.next \in Heights /\ s.next <= SafeTip(s.tip)
     /\ s.tip = last
  \/ /\ s.at = "mempool" /\ s.check \in Alerts
     /\ s.tip = last

LEMMA IdleType == Idle \in Pass
  BY DEF Idle, Pass

LEMMA TipHeight ==
  ASSUME tip \in Blocks
  PROVE  /\ Height[tip] \in Heights
         /\ \A h \in Heights : h \in Nat /\ h <= MaxHeight
  BY TreeAssumption DEF Heights

\* To the next check, or to the end of the pass.
LEMMA NextCheckGoes ==
  ASSUME NEW p \in Passes, NEW state \in Pass, NEW left \in SUBSET Alerts,
         state.tip \in Heights, NextCheck(p, state, left)
  PROVE  \E s \in Pass : Goes(p, s) /\ GoesOn(s, state.tip)
  <1>1. CASE left = {} /\ Goes(p, Idle)
    BY <1>1, IdleType DEF GoesOn
  <1>2. ASSUME NEW a \in left,
               Goes(p, [state EXCEPT !.at = "mempool", !.check = a, !.orphaned = left,
                                     !.seen = {}, !.next = None, !.hash = None])
        PROVE  \E s \in Pass : Goes(p, s) /\ GoesOn(s, state.tip)
    <2> DEFINE s == [state EXCEPT !.at = "mempool", !.check = a, !.orphaned = left,
                                  !.seen = {}, !.next = None, !.hash = None]
    <2>1. s \in Pass
      BY DEF Pass
    <2>2. GoesOn(s, state.tip)
      BY DEF Pass, GoesOn
    <2> QED BY <1>2, <2>1, <2>2
  <1> QED BY <1>1, <1>2 DEF NextCheck

\* To the next block, or to the checks.
LEMMA ScanGoes ==
  ASSUME NEW p \in Passes, NEW state \in Pass, NEW h \in Nat,
         state.tip \in Heights, Scan(p, state, h)
  PROVE  \E s \in Pass : Goes(p, s) /\ GoesOn(s, state.tip)
  <1>1. CASE h <= SafeTip(state.tip)
    <2> DEFINE s == [state EXCEPT !.at = "hash", !.next = h, !.hash = None]
    <2>1. h \in Heights
      BY <1>1, TreeAssumption, WatchAssumption DEF SafeTip, Heights
    <2>2. s \in Pass
      BY <2>1 DEF Pass
    <2>3. GoesOn(s, state.tip)
      BY <1>1, <2>1 DEF Pass, GoesOn
    <2>4. Goes(p, s)
      BY <1>1 DEF Scan
    <2> QED BY <2>2, <2>3, <2>4
  <1>2. CASE ~(h <= SafeTip(state.tip))
    <2>1. NextCheck(p, state, state.orphaned \ state.seen)
      BY <1>2 DEF Scan
    <2>2. state.orphaned \ state.seen \in SUBSET Alerts
      BY DEF Pass
    <2> QED BY <2>1, <2>2, NextCheckGoes
  <1> QED BY <1>1, <1>2

\* A pass that does not move keeps what it relies on.
LEMMA PassKept ==
  ASSUME WatchInv, TypeOK', NEW q \in Passes, pass'[q] = pass[q],
         Height[tip] <= Height[tip'], buried \subseteq buried',
         lastScanned # None => lastScanned' # None
  PROVE  PassOK(pass[q])'
  <1>1. pass[q] \in Pass /\ PassOK(pass[q])
    BY DEF WatchInv, TypeOK
  <1>2. Height[tip] \in Nat /\ Height[tip'] \in Nat
    BY TreeAssumption, TipHeight DEF WatchInv, TypeOK, Heights
  <1>3. pass[q].tip # None => pass[q].tip \in Nat
    BY <1>1 DEF Pass, Heights
  <1> QED BY <1>1, <1>2, <1>3, SMT DEF PassOK, SafeTip

\* A pass that goes on after a step relies on nothing that is not there.
LEMMA GoesOnOK ==
  ASSUME WatchInv, TypeOK', NEW p \in Passes, NEW s \in Pass, NEW top \in Heights,
         Goes(p, s), GoesOn(s, top), top <= Height[tip'],
         Height[tip] <= Height[tip'], buried \subseteq buried',
         lastScanned # None => lastScanned' # None,
         s = Idle \/ lastScanned' # None
  PROVE  \A q \in Passes : PassOK(pass[q])'
  <1> SUFFICES ASSUME NEW q \in Passes PROVE PassOK(pass[q])'
    OBVIOUS
  <1>1. pass' = [pass EXCEPT ![p] = s] /\ pass \in [Passes -> Pass]
    BY DEF Goes, WatchInv, TypeOK
  <1>2. CASE q # p
    BY <1>1, <1>2, PassKept
  <1>3. CASE q = p
    <2>1. pass'[q] = s
      BY <1>1, <1>3
    <2>2. CASE s = Idle
      BY <2>1, <2>2, WatchAssumption DEF PassOK, Idle
    <2>3. CASE s # Idle
      <3>1. lastScanned' # None /\ s.tip = top /\ top # None
        BY <2>3, WatchAssumption DEF GoesOn, Heights
      <3>2. s.next \in Heights => s.next # None
        BY WatchAssumption DEF Heights
      <3>3. s.check \in Alerts => s.check # None
        BY WatchAssumption
      <3> QED BY <2>1, <2>3, <3>1, <3>2, <3>3 DEF PassOK, GoesOn, SafeTip
    <2> QED BY <2>2, <2>3
  <1> QED BY <1>2, <1>3

\* Typing of a step that moves one pass.
LEMMA GoesType ==
  ASSUME pass \in [Passes -> Pass], NEW p \in Passes, NEW s \in Pass, Goes(p, s)
  PROVE  pass' \in [Passes -> Pass]
  BY DEF Goes

\* The node's reading of the safe tip: deep enough now, so once deep enough.
LEMMA ReadIsBuried ==
  ASSUME WatchInv, NEW top \in Heights, top <= Height[tip],
         NEW h \in Heights, h <= SafeTip(top), NEW b \in BestAt(h)
  PROVE  b \in buried /\ b \in Blocks /\ Height[b] = h
  <1>1. b \in Blocks /\ b \in Below[tip] /\ Height[b] = h
    BY DEF BestAt, BestChain
  <1>2. Height[b] + MinConf <= Height[tip] + 1
    BY <1>1, TreeAssumption, WatchAssumption DEF SafeTip, Heights, WatchInv, TypeOK
  <1> QED BY <1>1, <1>2 DEF WatchInv, BuriedUnder

\* The safe tip of a height the node had is a height or -1.
LEMMA BaselineType ==
  ASSUME NEW h \in Heights, Rebaseline(h)
  PROVE  lastScanned' \in Heights \cup {-1} /\ lastScanned' # None
  BY TreeAssumption, WatchAssumption DEF Rebaseline, SafeTip, Heights

\* What the window and the alerts say of the chain survives a step that leaves them.
LEMMA BooksKept ==
  ASSUME WatchInv, UNCHANGED <<tracked, lastScanned, notified>>, buried \subseteq buried'
  PROVE  BuriedOnly' /\ WindowBounded'
  BY DEF WatchInv, BuriedOnly, WindowBounded, Tracked

\* Forgetting heights keeps the rest of the window.
LEMMA ForgetKeeps ==
  ASSUME WatchInv, NEW hs, tracked' = Forget(hs), UNCHANGED <<notified, buried>>
  PROVE  /\ tracked' \in [Heights -> Blocks \cup {None}]
         /\ Tracked' = Tracked \ hs
         /\ BuriedOnly'
  <1>1. tracked \in [Heights -> Blocks \cup {None}]
    BY DEF WatchInv, TypeOK
  <1>2. tracked' \in [Heights -> Blocks \cup {None}]
    BY <1>1 DEF Forget
  <1>3. \A h \in Heights : tracked'[h] = IF h \in hs THEN None ELSE tracked[h]
    BY DEF Forget
  <1>4. Tracked' = Tracked \ hs
    BY <1>3 DEF Tracked
  <1>5. BuriedOnly'
    BY <1>3, <1>4 DEF WatchInv, BuriedOnly, Tracked
  <1> QED BY <1>2, <1>4, <1>5

LEMMA NewTipKeeps ==
  ASSUME WatchInv, NewTip
  PROVE  WatchInv'
  <1>1. PICK b \in Tips :
          /\ Height[b] > Height[tip] /\ tip' = b
          /\ mempool' \in SUBSET (Txs \ Confirmed(b))
          /\ buried' = buried \cup BuriedUnder(b)
          /\ upset' = upset \cup {u \in {"moved"} : \E p \in Passes : Busy(p)}
          /\ UNCHANGED <<botVars, boundVars>>
    BY DEF NewTip, Connect
  <1>2. TypeOK'
    BY <1>1, TreeAssumption DEF WatchInv, TypeOK, botVars, boundVars, BuriedUnder
  <1>3. BuriedUnder(tip)' \subseteq buried'
    BY <1>1 DEF BuriedUnder
  <1>4. BuriedOnly' /\ WindowBounded'
    BY <1>1, BooksKept DEF botVars
  <1>5. Height[tip] <= Height[tip']
    BY <1>1, TreeAssumption DEF WatchInv, TypeOK, Heights
  <1>6. \A q \in Passes : PassOK(pass[q])'
    BY <1>1, <1>2, <1>5, PassKept DEF botVars
  <1> QED BY <1>2, <1>3, <1>4, <1>6 DEF WatchInv

LEMMA MempoolKeeps ==
  ASSUME WatchInv, MempoolMoves
  PROVE  WatchInv'
  <1>1. UNCHANGED <<tip, botVars, boundVars, buried, upset>> /\ mempool' \subseteq Txs
    BY DEF MempoolMoves
  <1> QED BY <1>1 DEF WatchInv, TypeOK, botVars, boundVars, BuriedOnly, WindowBounded, Tracked,
             BuriedUnder, PassOK

LEMMA Lowers ==
  ASSUME NEW h \in Int, NEW x \in Int, NEW y \in Int, NEW k \in Int, x <= y, h > y - k
  PROVE  h > x - k
  OBVIOUS

LEMMA RestartKeeps ==
  ASSUME WatchInv, Restart
  PROVE  WatchInv'
  <1>1. /\ restarts < MaxRestarts /\ restarts' = restarts + 1
        /\ pass' = [p \in Passes |-> Idle]
        /\ UNCHANGED <<tip, mempool, tracked, notified, fails, buried, upset>>
    BY DEF Restart
  <1>2. lastScanned' \in Heights \cup {-1, None}
    BY DEF Restart, Newest, Tracked
  <1>3. TypeOK'
    BY <1>1, <1>2, IdleType, WatchAssumption DEF WatchInv, TypeOK
  <1>4. BuriedUnder(tip)' \subseteq buried' /\ BuriedOnly'
    BY <1>1 DEF WatchInv, BuriedUnder, BuriedOnly, Tracked
  <1>5. ASSUME NEW h \in Tracked
        PROVE  lastScanned' # None /\ h <= lastScanned' /\ h > lastScanned' - MaxTrack
    <2>1. lastScanned' \in Newest(Tracked)
      BY <1>5 DEF Restart
    <2>2. lastScanned' \in Tracked /\ h <= lastScanned'
      BY <2>1 DEF Newest
    <2>3. lastScanned' <= lastScanned /\ h > lastScanned - MaxTrack /\ lastScanned # None
      BY <2>2 DEF WatchInv, WindowBounded
    <2>4. lastScanned' \in Int /\ h \in Int /\ lastScanned \in Int /\ MaxTrack \in Int
      BY <2>2, <2>3, TreeAssumption, WatchAssumption DEF Tracked, Heights, WatchInv, TypeOK
    <2>5. lastScanned' # None
      BY <2>4, WatchAssumption
    <2>6. h > lastScanned' - MaxTrack
      BY <2>3, <2>4, Lowers
    <2> QED BY <2>2, <2>5, <2>6
  <1>6. WindowBounded'
    BY <1>1, <1>5 DEF WindowBounded, Tracked
  <1>7. \A q \in Passes : PassOK(pass[q])'
    BY <1>1, WatchAssumption DEF PassOK, Idle
  <1> QED BY <1>3, <1>4, <1>6, <1>7 DEF WatchInv

LEMMA StartKeeps ==
  ASSUME WatchInv, NEW p \in Passes, Start(p)
  PROVE  WatchInv'
  <1> DEFINE s == [Idle EXCEPT !.at = "tip"]
  <1>1. /\ Goes(p, s)
        /\ upset' = upset \cup {u \in {"overlap"} : \E q \in Passes : pass[q] # Idle}
        /\ UNCHANGED <<tip, mempool, tracked, lastScanned, notified, boundVars, buried>>
    BY DEF Start
  <1>2. s \in Pass /\ s.at = "tip" /\ s.tip = None
    BY IdleType DEF Pass, Idle
  <1> HIDE DEF s
  <1>3. pass' \in [Passes -> Pass]
    BY <1>1, <1>2, GoesType DEF WatchInv, TypeOK
  <1>4. TypeOK'
    BY <1>1, <1>3 DEF WatchInv, TypeOK, boundVars
  <1>5. BuriedUnder(tip)' \subseteq buried' /\ BuriedOnly' /\ WindowBounded'
    BY <1>1, BooksKept DEF WatchInv, BuriedUnder
  <1>6. ASSUME NEW q \in Passes PROVE PassOK(pass[q])'
    <2>1. pass'[q] = IF q = p THEN s ELSE pass[q]
      BY <1>1 DEF Goes, WatchInv, TypeOK
    <2>2. CASE q = p
      BY <2>1, <2>2, <1>2 DEF PassOK
    <2>3. CASE q # p
      <3>1. Height[tip] <= Height[tip']
        BY <1>1, TipHeight DEF WatchInv, TypeOK, Heights
      <3> QED BY <2>1, <2>3, <1>1, <1>4, <3>1, PassKept
    <2> QED BY <2>2, <2>3
  <1> QED BY <1>4, <1>5, <1>6 DEF WatchInv

\* A step after which a pass goes on, and that leaves the node and the tables alone.
LEMMA MoveKeeps ==
  ASSUME WatchInv, NEW p \in Passes, NEW s \in Pass, NEW top \in Heights,
         Goes(p, s), GoesOn(s, top), top <= Height[tip], s = Idle \/ lastScanned # None,
         UNCHANGED <<tip, mempool, tracked, lastScanned, notified, restarts, buried, upset>>,
         fails' \in 0 .. MaxFails
  PROVE  WatchInv'
  <1>1. pass' \in [Passes -> Pass]
    BY GoesType DEF WatchInv, TypeOK
  <1>2. TypeOK'
    BY <1>1 DEF WatchInv, TypeOK
  <1>3. BuriedUnder(tip)' \subseteq buried' /\ BuriedOnly' /\ WindowBounded'
    BY BooksKept DEF WatchInv, BuriedUnder
  <1>4. Height[tip] <= Height[tip']
    BY TipHeight DEF WatchInv, TypeOK, Heights
  <1>5. \A q \in Passes : PassOK(pass[q])'
    BY <1>2, <1>4, GoesOnOK
  <1> QED BY <1>2, <1>3, <1>5 DEF WatchInv

\* The bound on failing RPCs.
LEMMA FailType ==
  ASSUME TypeOK, Fail \/ NoFail
  PROVE  fails' \in 0 .. MaxFails
  BY WatchAssumption DEF TypeOK, Fail, NoFail

LEMMA GiveUpKeeps ==
  ASSUME WatchInv, NEW p \in Passes, TipFails(p) \/ ScanFails(p)
  PROVE  WatchInv'
  <1>1. /\ Fail /\ Goes(p, Idle)
        /\ UNCHANGED <<tip, mempool, tracked, lastScanned, notified, restarts, buried, upset>>
    BY DEF TipFails, ScanFails
  <1>2. fails' \in 0 .. MaxFails /\ Height[tip] \in Heights /\ Height[tip] <= Height[tip]
    BY <1>1, FailType, TipHeight DEF WatchInv, TypeOK, Heights
  <1> QED BY <1>1, <1>2, IdleType, MoveKeeps DEF GoesOn

\* What a pass knows once it has read the tip.
LEMMA PassTip ==
  ASSUME WatchInv, NEW p \in Passes, pass[p].at \notin {"idle", "tip"}
  PROVE  /\ pass[p] \in Pass /\ PassOK(pass[p])
         /\ pass[p].tip \in Heights /\ pass[p].tip <= Height[tip]
         /\ lastScanned \in Heights \cup {-1} /\ lastScanned # None
  BY WatchAssumption DEF WatchInv, TypeOK, PassOK, Pass

LEMMA StillThereKeeps ==
  ASSUME WatchInv, NEW p \in Passes, StillPooled(p) \/ StillMined(p)
  PROVE  WatchInv'
  <1>1. /\ pass[p].at \notin {"idle", "tip"}
        /\ NextCheck(p, pass[p], pass[p].orphaned \ {pass[p].check})
        /\ UNCHANGED <<tip, mempool, tracked, lastScanned, notified, boundVars, buried, upset>>
    BY DEF StillPooled, StillMined
  <1>2. pass[p].orphaned \ {pass[p].check} \in SUBSET Alerts
    BY <1>1, PassTip DEF Pass
  <1>3. PICK s \in Pass : Goes(p, s) /\ GoesOn(s, pass[p].tip)
    BY <1>1, <1>2, PassTip, NextCheckGoes
  <1>4. fails' \in 0 .. MaxFails
    BY <1>1 DEF boundVars, WatchInv, TypeOK
  <1> QED BY <1>1, <1>3, <1>4, PassTip, MoveKeeps DEF boundVars

LEMMA HashKeeps ==
  ASSUME WatchInv, NEW p \in Passes, HashKnown(p)
  PROVE  WatchInv'
  <1>1. PICK b \in BestAt(pass[p].next) :
          /\ pass[p].at = "hash"
          /\ Goes(p, [pass[p] EXCEPT !.at = "block", !.hash = b])
          /\ UNCHANGED <<tip, mempool, tracked, lastScanned, notified, boundVars, buried, upset>>
    BY DEF HashKnown
  <1> DEFINE s == [pass[p] EXCEPT !.at = "block", !.hash = b]
  <1>2. pass[p] \in Pass /\ pass[p].tip \in Heights /\ pass[p].tip <= Height[tip]
        /\ lastScanned # None /\ PassOK(pass[p])
    BY <1>1, PassTip
  <1>3. pass[p].next \in Heights /\ pass[p].next <= SafeTip(pass[p].tip)
    BY <1>1, <1>2 DEF PassOK, Pass
  <1>4. b \in buried /\ b \in Blocks /\ Height[b] = pass[p].next
    BY <1>2, <1>3, ReadIsBuried
  <1>5. s \in Pass /\ s.at = "block" /\ s.hash = b /\ s.tip = pass[p].tip /\ s.next = pass[p].next
    BY <1>2, <1>4 DEF Pass
  <1>6. Goes(p, s)
    BY <1>1
  <1> HIDE DEF s
  <1>7. pass' \in [Passes -> Pass]
    BY <1>5, <1>6, GoesType DEF WatchInv, TypeOK
  <1>8. TypeOK'
    BY <1>1, <1>7 DEF WatchInv, TypeOK, boundVars
  <1>9. BuriedUnder(tip)' \subseteq buried' /\ BuriedOnly' /\ WindowBounded'
    BY <1>1, BooksKept DEF WatchInv, BuriedUnder
  <1>10. ASSUME NEW q \in Passes PROVE PassOK(pass[q])'
    <2>1. pass'[q] = IF q = p THEN s ELSE pass[q]
      BY <1>6 DEF Goes, WatchInv, TypeOK
    <2>2. CASE q = p
      <3>1. s.tip # None /\ s.next # None
        BY <1>2, <1>3, <1>5, WatchAssumption DEF Heights
      <3> QED BY <1>1, <1>2, <1>3, <1>4, <1>5, <2>1, <2>2, <3>1 DEF PassOK, SafeTip
    <2>3. CASE q # p
      <3>1. Height[tip] <= Height[tip']
        BY <1>1, TipHeight DEF WatchInv, TypeOK, Heights
      <3> QED BY <2>1, <2>3, <1>1, <1>8, <3>1, PassKept
    <2> QED BY <2>2, <2>3
  <1> QED BY <1>8, <1>9, <1>10 DEF WatchInv

LEMMA TipKnownKeeps ==
  ASSUME WatchInv, NEW p \in Passes, TipKnown(p)
  PROVE  WatchInv'
  <1> DEFINE state == [pass[p] EXCEPT !.tip = BlockCount]
  <1>1. /\ pass[p].at = "tip" /\ NoFail
        /\ \/ /\ lastScanned = None
              /\ Rebaseline(BlockCount)
              /\ Goes(p, Idle)
           \/ /\ lastScanned # None
              /\ IF Tracked = {} THEN Scan(p, state, lastScanned + 1)
                 ELSE Goes(p, [state EXCEPT !.at = "probe", !.probes = Tracked])
              /\ UNCHANGED lastScanned
        /\ UNCHANGED <<tip, mempool, tracked, notified, restarts, buried, upset>>
    BY DEF TipKnown
  <1>2. BlockCount \in Heights /\ BlockCount <= Height[tip] /\ Height[tip] <= Height[tip]
    BY TipHeight DEF BlockCount, WatchInv, TypeOK, Heights
  <1>3. fails' \in 0 .. MaxFails
    BY <1>1, FailType DEF WatchInv, TypeOK
  <1>4. CASE lastScanned = None
    <2>1. Rebaseline(BlockCount) /\ Goes(p, Idle)
      BY <1>1, <1>4
    <2>2. lastScanned' \in Heights \cup {-1} /\ lastScanned' # None
      BY <2>1, <1>2, BaselineType
    <2>3. pass' \in [Passes -> Pass]
      BY <2>1, IdleType, GoesType DEF WatchInv, TypeOK
    <2>4. TypeOK'
      BY <1>1, <1>3, <2>2, <2>3 DEF WatchInv, TypeOK
    <2>5. Tracked = {}
      BY <1>4 DEF WatchInv, WindowBounded
    <2>6. BuriedUnder(tip)' \subseteq buried' /\ BuriedOnly' /\ WindowBounded'
      BY <1>1, <2>5 DEF WatchInv, BuriedUnder, BuriedOnly, WindowBounded, Tracked
    <2>7. Height[tip] <= Height[tip']
      BY <1>1, <1>2
    <2>8. \A q \in Passes : PassOK(pass[q])'
      BY <1>1, <1>2, <2>1, <2>2, <2>4, <2>7, IdleType, GoesOnOK DEF GoesOn
    <2> QED BY <2>4, <2>6, <2>8 DEF WatchInv
  <1>5. CASE lastScanned # None
    <2>1. /\ IF Tracked = {} THEN Scan(p, state, lastScanned + 1)
             ELSE Goes(p, [state EXCEPT !.at = "probe", !.probes = Tracked])
          /\ UNCHANGED lastScanned
      BY <1>1, <1>5
    <2>2. state \in Pass /\ state.tip = BlockCount
      BY <1>2 DEF WatchInv, TypeOK, Pass
    <2>3. CASE Tracked = {}
      <3>1. lastScanned + 1 \in Nat
        BY <1>5, TreeAssumption DEF WatchInv, TypeOK, Heights
      <3>2. Scan(p, state, lastScanned + 1)
        BY <2>1, <2>3
      <3> HIDE DEF state
      <3>3. PICK s \in Pass : Goes(p, s) /\ GoesOn(s, state.tip)
        BY <1>2, <2>2, <3>1, <3>2, ScanGoes
      <3> QED BY <1>1, <1>2, <1>3, <1>5, <2>1, <2>2, <3>3, MoveKeeps
    <2>4. CASE Tracked # {}
      <3> DEFINE s == [state EXCEPT !.at = "probe", !.probes = Tracked]
      <3>1. Goes(p, s)
        BY <2>1, <2>4
      <3>2. s \in Pass /\ s.at = "probe" /\ s.tip = BlockCount
        BY <2>2 DEF Pass, Tracked
      <3> HIDE DEF s
      <3>3. pass' \in [Passes -> Pass]
        BY <3>1, <3>2, GoesType DEF WatchInv, TypeOK
      <3>4. TypeOK'
        BY <1>1, <1>3, <2>1, <3>3 DEF WatchInv, TypeOK
      <3>5. BuriedUnder(tip)' \subseteq buried' /\ BuriedOnly' /\ WindowBounded'
        BY <1>1, <2>1, BooksKept DEF WatchInv, BuriedUnder
      <3>6. ASSUME NEW q \in Passes PROVE PassOK(pass[q])'
        <4>1. pass'[q] = IF q = p THEN s ELSE pass[q]
          BY <3>1 DEF Goes, WatchInv, TypeOK
        <4>2. CASE q = p
          <5>1. s.tip # None
            BY <1>2, <3>2, WatchAssumption DEF Heights
          <5> QED BY <1>1, <1>2, <1>5, <2>1, <3>2, <4>1, <4>2, <5>1 DEF PassOK
        <4>3. CASE q # p
          BY <4>1, <4>3, <1>1, <1>2, <2>1, <3>4, PassKept
        <4> QED BY <4>2, <4>3
      <3> QED BY <3>4, <3>5, <3>6 DEF WatchInv
    <2> QED BY <2>3, <2>4
  <1> QED BY <1>4, <1>5

LEMMA ProbeMatchesKeeps ==
  ASSUME WatchInv, NEW p \in Passes, ProbeMatches(p)
  PROVE  WatchInv'
  <1>1. PICK h \in Newest(pass[p].probes) :
          /\ tracked[h] \in BestAt(h)
          /\ tracked' = Forget(Orphaned(p, h))
          /\ lastScanned' = Resumes(p, h)
          /\ Scan(p, [pass[p] EXCEPT !.probes = {}, !.reorg = FALSE,
                        !.orphaned = {a \in Alerts : notified[a] \in Orphaned(p, h)}],
                  Resumes(p, h) + 1)
    BY DEF ProbeMatches
  <1>2. /\ pass[p].at = "probe" /\ NoFail
        /\ UNCHANGED <<tip, mempool, notified, restarts, buried, upset>>
    BY DEF ProbeMatches
  <1> DEFINE state == [pass[p] EXCEPT !.probes = {}, !.reorg = FALSE,
                         !.orphaned = {a \in Alerts : notified[a] \in Orphaned(p, h)}]
  <1>3. /\ pass[p] \in Pass
        /\ pass[p].tip \in Heights /\ pass[p].tip <= Height[tip]
        /\ lastScanned \in Heights \cup {-1} /\ lastScanned # None
    BY <1>2, PassTip
  <1>4. state \in Pass /\ state.tip = pass[p].tip
    BY <1>3 DEF Pass
  <1>5. h \in Heights /\ h \in Tracked
    BY <1>1, <1>3, WatchAssumption DEF Newest, Pass, BestAt, Tracked
  <1>6. Resumes(p, h) \in Heights \cup {-1} /\ Resumes(p, h) # None
    BY <1>3, <1>5, WatchAssumption DEF Resumes, Heights
  <1>7. Resumes(p, h) + 1 \in Nat
    BY <1>6, TreeAssumption DEF Heights
  <1>8. Scan(p, state, Resumes(p, h) + 1)
    BY <1>1
  <1> HIDE DEF state
  <1>9. PICK s \in Pass : Goes(p, s) /\ GoesOn(s, state.tip)
    BY <1>3, <1>4, <1>7, <1>8, ScanGoes
  <1>10. pass' \in [Passes -> Pass] /\ fails' \in 0 .. MaxFails
    BY <1>2, <1>9, GoesType, FailType DEF WatchInv, TypeOK
  <1>11. /\ tracked' \in [Heights -> Blocks \cup {None}]
         /\ Tracked' = Tracked \ Orphaned(p, h)
         /\ BuriedOnly'
    BY <1>1, <1>2, ForgetKeeps
  <1>12. TypeOK'
    BY <1>1, <1>2, <1>6, <1>10, <1>11 DEF WatchInv, TypeOK
  <1>13. ASSUME NEW k \in Tracked'
         PROVE  lastScanned' # None /\ k <= lastScanned' /\ k > lastScanned' - MaxTrack
    <2>1. k \in Tracked /\ k <= lastScanned /\ k > lastScanned - MaxTrack
      BY <1>11 DEF WatchInv, WindowBounded
    <2>2. k \in Int /\ h \in Int /\ lastScanned \in Int /\ MaxTrack \in Int
      BY <1>3, <1>5, <2>1, TreeAssumption, WatchAssumption DEF Heights, Tracked
    <2>3. CASE pass[p].reorg
      <3>1. lastScanned' = h /\ h <= lastScanned
        BY <1>1, <1>5, <2>3 DEF Resumes, WatchInv, WindowBounded
      <3>2. ~(k > h)
        BY <1>11, <2>1, <2>3 DEF Orphaned
      <3>3. k <= h
        BY <2>2, <3>2
      <3>4. k > h - MaxTrack
        BY <2>1, <2>2, <3>1, Lowers
      <3> QED BY <3>1, <3>3, <3>4, <1>1, <1>6
    <2>4. CASE ~pass[p].reorg
      <3>1. lastScanned' = lastScanned
        BY <1>1, <2>4 DEF Resumes
      <3> QED BY <1>3, <2>1, <3>1
    <2> QED BY <2>3, <2>4
  <1>14. WindowBounded'
    BY <1>13 DEF WindowBounded
  <1>15. Height[tip] <= Height[tip'] /\ pass[p].tip <= Height[tip']
    BY <1>2, <1>3, TipHeight DEF WatchInv, TypeOK, Heights
  <1>16. \A q \in Passes : PassOK(pass[q])'
    BY <1>1, <1>2, <1>3, <1>4, <1>6, <1>9, <1>12, <1>15, GoesOnOK
  <1>17. BuriedUnder(tip)' \subseteq buried'
    BY <1>2 DEF WatchInv, BuriedUnder
  <1> QED BY <1>11, <1>12, <1>14, <1>16, <1>17 DEF WatchInv

LEMMA ProbeDiffersKeeps ==
  ASSUME WatchInv, NEW p \in Passes, ProbeDiffers(p)
  PROVE  WatchInv'
  <1>1. PICK h \in Newest(pass[p].probes) :
          LET left == pass[p].probes \ {h} IN
          /\ Fail \/ NoFail
          /\ \/ /\ left # {}
                /\ Goes(p, [pass[p] EXCEPT !.probes = left, !.reorg = TRUE])
                /\ UNCHANGED <<tracked, lastScanned, upset>>
             \/ /\ left = {}
                /\ tracked' = Forget(Heights)
                /\ Rebaseline(pass[p].tip)
                /\ upset' = upset \cup {"deep"}
                /\ Goes(p, Idle)
    BY DEF ProbeDiffers
  <1>2. /\ pass[p].at = "probe"
        /\ UNCHANGED <<tip, mempool, notified, restarts, buried>>
    BY DEF ProbeDiffers
  <1>3. /\ pass[p] \in Pass /\ PassOK(pass[p])
        /\ pass[p].tip \in Heights /\ pass[p].tip <= Height[tip]
        /\ lastScanned \in Heights \cup {-1} /\ lastScanned # None
    BY <1>2, PassTip
  <1>4. fails' \in 0 .. MaxFails
    BY <1>1, FailType DEF WatchInv, TypeOK
  <1>5. Height[tip] <= Height[tip'] /\ pass[p].tip <= Height[tip']
    BY <1>2, <1>3, TipHeight DEF WatchInv, TypeOK, Heights
  <1>6. BuriedUnder(tip)' \subseteq buried'
    BY <1>2 DEF WatchInv, BuriedUnder
  <1> DEFINE left == pass[p].probes \ {h}
             s == [pass[p] EXCEPT !.probes = left, !.reorg = TRUE]
  <1>7. CASE left # {}
    <2>1. Goes(p, s) /\ UNCHANGED <<tracked, lastScanned, upset>>
      BY <1>1, <1>7
    <2>2. s \in Pass /\ s.at = "probe" /\ s.tip = pass[p].tip
      BY <1>2, <1>3 DEF Pass
    <2> HIDE DEF s
    <2>3. pass' \in [Passes -> Pass]
      BY <2>1, <2>2, GoesType DEF WatchInv, TypeOK
    <2>4. TypeOK'
      BY <1>2, <1>4, <2>1, <2>3 DEF WatchInv, TypeOK
    <2>5. BuriedOnly' /\ WindowBounded'
      BY <1>2, <2>1, BooksKept
    <2>6. ASSUME NEW q \in Passes PROVE PassOK(pass[q])'
      <3>1. pass'[q] = IF q = p THEN s ELSE pass[q]
        BY <2>1 DEF Goes, WatchInv, TypeOK
      <3>2. CASE q = p
        <4>1. s.tip # None
          BY <1>3, <2>2, WatchAssumption DEF Heights
        <4> QED BY <1>3, <1>5, <2>1, <2>2, <3>1, <3>2, <4>1 DEF PassOK
      <3>3. CASE q # p
        BY <1>2, <1>5, <2>1, <2>4, <3>1, <3>3, PassKept
      <3> QED BY <3>2, <3>3
    <2> QED BY <1>6, <2>4, <2>5, <2>6 DEF WatchInv
  <1>8. CASE left = {}
    <2>1. /\ tracked' = Forget(Heights) /\ Rebaseline(pass[p].tip)
          /\ upset' = upset \cup {"deep"} /\ Goes(p, Idle)
      BY <1>1, <1>8
    <2>2. /\ tracked' \in [Heights -> Blocks \cup {None}]
          /\ Tracked' = Tracked \ Heights
          /\ BuriedOnly'
      BY <1>2, <2>1, ForgetKeeps
    <2>3. Tracked' = {}
      BY <2>2 DEF Tracked
    <2>4. lastScanned' \in Heights \cup {-1} /\ lastScanned' # None
      BY <1>3, <2>1, BaselineType
    <2>5. pass' \in [Passes -> Pass]
      BY <2>1, IdleType, GoesType DEF WatchInv, TypeOK
    <2>6. TypeOK'
      BY <1>2, <1>4, <2>1, <2>2, <2>4, <2>5 DEF WatchInv, TypeOK
    <2>7. WindowBounded'
      BY <2>3 DEF WindowBounded
    <2>8. \A q \in Passes : PassOK(pass[q])'
      BY <1>2, <1>3, <1>5, <2>1, <2>4, <2>6, IdleType, GoesOnOK DEF GoesOn
    <2> QED BY <1>6, <2>2, <2>6, <2>7, <2>8 DEF WatchInv
  <1> QED BY <1>7, <1>8

\* Recording a block that was once deep enough.
LEMMA RecordKeeps ==
  ASSUME WatchInv, NEW h \in Heights, NEW b \in buried, Height[b] = h,
         lastScanned # None, Record(h, b)
  PROVE  /\ tracked' \in [Heights -> Blocks \cup {None}]
         /\ lastScanned' \in Heights
         /\ \A k \in Tracked' : tracked'[k] \in buried /\ Height[tracked'[k]] = k
         /\ WindowBounded'
  <1> DEFINE last == IF lastScanned = None \/ h > lastScanned THEN h ELSE lastScanned
  <1>1. /\ lastScanned' = last
        /\ tracked' = [k \in Heights |-> IF k <= last - MaxTrack THEN None
                                         ELSE IF k = h THEN b ELSE tracked[k]]
    BY DEF Record
  <1>2. tracked \in [Heights -> Blocks \cup {None}] /\ b \in Blocks /\ b # None
        /\ lastScanned \in Heights \cup {-1}
    BY WatchAssumption DEF WatchInv, TypeOK
  <1>3. last \in Heights /\ h <= last /\ lastScanned <= last
    BY <1>2, TreeAssumption DEF Heights
  <1> HIDE DEF last
  <1>4. \A k \in Heights : tracked'[k] = IF k <= last - MaxTrack THEN None
                                         ELSE IF k = h THEN b ELSE tracked[k]
    BY <1>1
  <1>5. tracked' \in [Heights -> Blocks \cup {None}]
    BY <1>1, <1>2
  <1>6. ASSUME NEW k \in Tracked'
        PROVE  /\ k \in Heights /\ ~(k <= last - MaxTrack)
               /\ k = h \/ k \in Tracked
               /\ tracked'[k] = IF k = h THEN b ELSE tracked[k]
    BY <1>4 DEF Tracked
  <1>7. ASSUME NEW k \in Tracked'
        PROVE  tracked'[k] \in buried /\ Height[tracked'[k]] = k
    BY <1>6 DEF WatchInv, BuriedOnly
  <1>8. ASSUME NEW k \in Tracked'
        PROVE  lastScanned' # None /\ k <= lastScanned' /\ k > lastScanned' - MaxTrack
    <2>1. k \in Int /\ last \in Int /\ MaxTrack \in Int /\ lastScanned \in Int
      BY <1>2, <1>3, <1>6, TreeAssumption, WatchAssumption DEF Heights
    <2>2. k > last - MaxTrack
      BY <1>6, <2>1
    <2>3. k <= last
      <3>1. CASE k = h
        BY <1>3, <3>1
      <3>2. CASE k \in Tracked
        <4>1. k <= lastScanned
          BY <3>2 DEF WatchInv, WindowBounded
        <4> QED BY <1>3, <2>1, <4>1
      <3> QED BY <1>6, <3>1, <3>2
    <2>4. last # None
      BY <2>1, WatchAssumption
    <2> QED BY <1>1, <2>2, <2>3, <2>4
  <1> QED BY <1>1, <1>3, <1>5, <1>7, <1>8 DEF WindowBounded

LEMMA BlockReadKeeps ==
  ASSUME WatchInv, NEW p \in Passes, BlockRead(p)
  PROVE  WatchInv'
  <1> DEFINE h == pass[p].next
             b == pass[p].hash
             hits == {a \in Alerts : TxOf[a] \in TxsOf[b]}
             state == [pass[p] EXCEPT !.seen = @ \cup hits]
  <1>1. /\ pass[p].at = "block"
        /\ Record(h, b)
        /\ notified' = [a \in Alerts |-> IF a \in hits THEN h ELSE notified[a]]
        /\ Scan(p, state, h + 1)
        /\ UNCHANGED <<tip, mempool, boundVars, buried, upset>>
    BY DEF BlockRead
  <1>2. /\ pass[p] \in Pass /\ PassOK(pass[p])
        /\ pass[p].tip \in Heights /\ pass[p].tip <= Height[tip]
        /\ lastScanned # None
    BY <1>1, PassTip
  <1>3. h \in Heights /\ b \in buried /\ Height[b] = h
    BY <1>1, <1>2 DEF PassOK, Pass
  <1>4. state \in Pass /\ state.tip = pass[p].tip
    BY <1>2 DEF Pass
  <1>5. h + 1 \in Nat
    BY <1>3, TreeAssumption DEF Heights
  <1> HIDE DEF state
  <1>6. PICK s \in Pass : Goes(p, s) /\ GoesOn(s, state.tip)
    BY <1>1, <1>2, <1>4, <1>5, ScanGoes
  <1> HIDE DEF h, b
  <1>7. /\ tracked' \in [Heights -> Blocks \cup {None}]
        /\ lastScanned' \in Heights
        /\ \A k \in Tracked' : tracked'[k] \in buried /\ Height[tracked'[k]] = k
        /\ WindowBounded'
    BY <1>1, <1>2, <1>3, RecordKeeps
  <1>8. lastScanned' # None
    BY <1>7, WatchAssumption DEF Heights
  <1>9. pass' \in [Passes -> Pass]
    BY <1>6, GoesType DEF WatchInv, TypeOK
  <1>10. notified' \in [Alerts -> Heights \cup {None}]
    BY <1>1, <1>3 DEF WatchInv, TypeOK
  <1>11. TypeOK'
    BY <1>1, <1>7, <1>9, <1>10 DEF WatchInv, TypeOK, boundVars
  <1>12. ASSUME NEW a \in Alerts, notified'[a] # None
         PROVE  \E c \in buried : Height[c] = notified'[a] /\ TxOf[a] \in TxsOf[c]
    <2>1. CASE a \in hits
      BY <1>1, <1>3, <2>1
    <2>2. CASE a \notin hits
      BY <1>1, <1>12, <2>2 DEF WatchInv, BuriedOnly
    <2> QED BY <2>1, <2>2
  <1>13. BuriedOnly'
    BY <1>1, <1>7, <1>12 DEF BuriedOnly
  <1>14. Height[tip] <= Height[tip'] /\ pass[p].tip <= Height[tip']
    BY <1>1, <1>2, TipHeight DEF WatchInv, TypeOK, Heights
  <1>15. \A q \in Passes : PassOK(pass[q])'
    BY <1>1, <1>2, <1>4, <1>6, <1>8, <1>11, <1>14, GoesOnOK
  <1>16. BuriedUnder(tip)' \subseteq buried'
    BY <1>1 DEF WatchInv, BuriedUnder
  <1> QED BY <1>7, <1>11, <1>13, <1>15, <1>16 DEF WatchInv

\* A pass looks into a block, or into the next one below.
LEMMA RecheckKeeps ==
  ASSUME WatchInv, NEW p \in Passes, NEW h \in Heights, NEW s \in Pass, Goes(p, s),
         pass[p].at \in {"mempool", "recheck"},
         s.at = "recheck", s.tip = pass[p].tip, s.next = h, s.check = pass[p].check,
         fails' \in 0 .. MaxFails,
         UNCHANGED <<tip, mempool, tracked, lastScanned, notified, restarts, buried, upset>>
  PROVE  WatchInv'
  <1>1. /\ PassOK(pass[p]) /\ lastScanned # None
        /\ pass[p].tip \in Heights /\ pass[p].tip <= Height[tip]
    BY PassTip
  <1>2. pass' \in [Passes -> Pass]
    BY GoesType DEF WatchInv, TypeOK
  <1>3. TypeOK'
    BY <1>2 DEF WatchInv, TypeOK
  <1>4. BuriedUnder(tip)' \subseteq buried' /\ BuriedOnly' /\ WindowBounded'
    BY BooksKept DEF WatchInv, BuriedUnder
  <1>5. ASSUME NEW q \in Passes PROVE PassOK(pass[q])'
    <2>1. pass'[q] = IF q = p THEN s ELSE pass[q]
      BY DEF Goes, WatchInv, TypeOK
    <2>2. CASE q = p
      <3>1. s.tip # None /\ s.next # None
        BY <1>1, WatchAssumption DEF Heights
      <3> QED BY <1>1, <2>1, <2>2, <3>1 DEF PassOK
    <2>3. CASE q # p
      <3>1. Height[tip] <= Height[tip']
        BY TipHeight DEF WatchInv, TypeOK, Heights
      <3> QED BY <1>3, <2>1, <2>3, <3>1, PassKept
    <2> QED BY <2>2, <2>3
  <1> QED BY <1>3, <1>4, <1>5 DEF WatchInv

LEMMA NotPooledKeeps ==
  ASSUME WatchInv, NEW p \in Passes, NotPooled(p)
  PROVE  WatchInv'
  <1> DEFINE s == [pass[p] EXCEPT !.at = "recheck", !.next = pass[p].tip]
  <1>1. /\ pass[p].at = "mempool" /\ (Fail \/ NoFail) /\ Goes(p, s)
        /\ UNCHANGED <<tip, mempool, tracked, lastScanned, notified, restarts, buried, upset>>
    BY DEF NotPooled
  <1>2. pass[p] \in Pass /\ pass[p].tip \in Heights
    BY <1>1, PassTip
  <1>3. /\ s \in Pass /\ s.at = "recheck" /\ s.tip = pass[p].tip
        /\ s.next = pass[p].tip /\ s.check = pass[p].check
    BY <1>2 DEF Pass
  <1>4. fails' \in 0 .. MaxFails
    BY <1>1, FailType DEF WatchInv, TypeOK
  <1> HIDE DEF s
  <1> QED BY <1>1, <1>2, <1>3, <1>4, RecheckKeeps

LEMMA NotMinedKeeps ==
  ASSUME WatchInv, NEW p \in Passes, NotMined(p)
  PROVE  WatchInv'
  <1> DEFINE below == pass[p].next - 1
             a == pass[p].check
             s == [pass[p] EXCEPT !.next = below]
  <1>1. /\ pass[p].at = "recheck" /\ (Fail \/ NoFail)
        /\ IF below > pass[p].tip - MinConf /\ below >= 0
           THEN Goes(p, s) /\ UNCHANGED notified
           ELSE /\ notified' = [notified EXCEPT ![a] = None]
                /\ NextCheck(p, pass[p], pass[p].orphaned \ {a})
        /\ UNCHANGED <<tip, mempool, tracked, lastScanned, restarts, buried, upset>>
    BY DEF NotMined
  <1>2. /\ pass[p] \in Pass /\ PassOK(pass[p])
        /\ pass[p].tip \in Heights /\ pass[p].tip <= Height[tip] /\ lastScanned # None
    BY <1>1, PassTip
  <1>3. pass[p].next \in Heights /\ a \in Alerts
    BY <1>1, <1>2 DEF PassOK, Pass
  <1>4. fails' \in 0 .. MaxFails
    BY <1>1, FailType DEF WatchInv, TypeOK
  <1>5. CASE below > pass[p].tip - MinConf /\ below >= 0
    <2>1. Goes(p, s) /\ UNCHANGED notified
      BY <1>1, <1>5
    <2>2. below \in Heights
      BY <1>3, <1>5, TreeAssumption DEF Heights
    <2>3. /\ s \in Pass /\ s.at = "recheck" /\ s.tip = pass[p].tip
          /\ s.next = below /\ s.check = a
      BY <1>1, <1>2, <2>2 DEF Pass
    <2> HIDE DEF s, below
    <2> QED BY <1>1, <1>4, <2>1, <2>2, <2>3, RecheckKeeps
  <1>6. CASE ~(below > pass[p].tip - MinConf /\ below >= 0)
    <2>1. /\ notified' = [notified EXCEPT ![a] = None]
          /\ NextCheck(p, pass[p], pass[p].orphaned \ {a})
      BY <1>1, <1>6
    <2>2. pass[p].orphaned \ {a} \in SUBSET Alerts
      BY <1>2 DEF Pass
    <2>3. PICK t \in Pass : Goes(p, t) /\ GoesOn(t, pass[p].tip)
      BY <1>2, <2>1, <2>2, NextCheckGoes
    <2>4. pass' \in [Passes -> Pass]
      BY <2>3, GoesType DEF WatchInv, TypeOK
    <2>5. notified' \in [Alerts -> Heights \cup {None}]
      BY <2>1 DEF WatchInv, TypeOK
    <2>6. TypeOK'
      BY <1>1, <1>4, <2>4, <2>5 DEF WatchInv, TypeOK
    <2>7. \A c \in Alerts : notified'[c] # None => notified'[c] = notified[c]
      BY <2>1 DEF WatchInv, TypeOK
    <2>8. BuriedOnly' /\ WindowBounded' /\ BuriedUnder(tip)' \subseteq buried'
      BY <1>1, <2>7 DEF WatchInv, BuriedOnly, WindowBounded, BuriedUnder, Tracked
    <2>9. Height[tip] <= Height[tip'] /\ pass[p].tip <= Height[tip']
      BY <1>1, <1>2, TipHeight DEF WatchInv, TypeOK, Heights
    <2>10. \A q \in Passes : PassOK(pass[q])'
      BY <1>1, <1>2, <2>3, <2>6, <2>9, GoesOnOK
    <2> QED BY <2>6, <2>8, <2>10 DEF WatchInv
  <1> QED BY <1>5, <1>6

LEMMA WatchInit == Init => WatchInv
  <1> SUFFICES ASSUME Init PROVE WatchInv
    OBVIOUS
  <1>1. tip \in Blocks /\ buried = BuriedUnder(tip) /\ buried \subseteq Blocks
    BY TreeAssumption DEF Init, BuriedUnder
  <1>2. pass \in [Passes -> Pass] /\ \A p \in Passes : pass[p] = Idle
    BY IdleType DEF Init
  <1>3. TypeOK
    BY <1>1, <1>2, WatchAssumption DEF Init, TypeOK
  <1>4. Tracked = {} /\ \A a \in Alerts : notified[a] = None
    BY DEF Init, Tracked
  <1>5. \A p \in Passes : PassOK(pass[p])
    BY <1>2 DEF PassOK, Idle
  <1> QED BY <1>1, <1>3, <1>4, <1>5 DEF WatchInv, BuriedOnly, WindowBounded

LEMMA WatchStep == WatchInv /\ [Next]_vars => WatchInv'
  <1> SUFFICES ASSUME WatchInv, [Next]_vars PROVE WatchInv'
    OBVIOUS
  <1>1. CASE NewTip
    BY <1>1, NewTipKeeps
  <1>2. CASE MempoolMoves
    BY <1>2, MempoolKeeps
  <1>3. CASE Restart
    BY <1>3, RestartKeeps
  <1>4. ASSUME NEW p \in Passes, Start(p) PROVE WatchInv'
    BY <1>4, StartKeeps
  <1>5. ASSUME NEW p \in Passes, Answered(p) PROVE WatchInv'
    BY <1>5, TipKnownKeeps, ProbeMatchesKeeps, ProbeDiffersKeeps, HashKeeps, BlockReadKeeps,
       StillThereKeeps, NotPooledKeeps, NotMinedKeeps DEF Answered
  <1>6. ASSUME NEW p \in Passes, TipFails(p) \/ ScanFails(p) PROVE WatchInv'
    BY <1>6, GiveUpKeeps
  <1>7. CASE UNCHANGED vars
    BY <1>7 DEF WatchInv, TypeOK, vars, botVars, boundVars, BuriedOnly, WindowBounded, Tracked,
       BuriedUnder, PassOK
  <1> QED BY <1>1, <1>2, <1>3, <1>4, <1>5, <1>6, <1>7 DEF Next

LEMMA WatchInvariant == Spec => []WatchInv
  BY WatchInit, WatchStep, PTL DEF Spec

\* The types of the tables, of the tracker and of every pass hold in every
\* reachable state (chaintracker.mjs, addrwatch.mjs).
THEOREM WatchTypeCorrect == Spec => []TypeOK
  <1>1. WatchInv => TypeOK
    BY DEF WatchInv
  <1> QED BY <1>1, WatchInvariant, PTL

\* Every recorded block, and the block behind every alert, was once MinConf
\* deep on the best chain (chaintracker.mjs, plan and record; addrwatch.mjs).
THEOREM AlertsWereBuried == Spec => []BuriedOnly
  <1>1. WatchInv => BuriedOnly
    BY DEF WatchInv
  <1> QED BY <1>1, WatchInvariant, PTL

\* The window stays within MaxTrack heights at and below lastScanned
\* (chaintracker.mjs, record).
THEOREM WindowStaysBounded == Spec => []WindowBounded
  <1>1. WatchInv => WindowBounded
    BY DEF WatchInv
  <1> QED BY <1>1, WatchInvariant, PTL

(***************************************************************************)
(* The second part: while passes do not overlap and the chain moves only    *)
(* between them, the window is one branch, every payment of its blocks was  *)
(* announced, and a payment is reversed only when no block of the best      *)
(* chain holds it.                                                         *)
(*                                                                         *)
(* The invariant follows a pass through its awaits.  While it probes, it has *)
(* compared every height above those left; once it scans, all that is        *)
(* recorded is on the best chain and every orphaned alert it has not seen    *)
(* again is about a transaction that is nowhere in the scanned part; while   *)
(* it checks, that holds of the unscanned part too, as far as it has looked. *)
(***************************************************************************)

(***************************************************************************)
(* Branches of the block tree.                                             *)
(***************************************************************************)

\* The blocks that every set closed under Parent holds with b: b's branch.
Branch == [b \in Blocks |->
  {c \in Blocks : \A U \in SUBSET Blocks : b \in U /\ (\A x \in U : Parent[x] \in U) => c \in U}]

\* The order of the natural numbers, as the relation the induction library reads.
Less == {ss \in Nat \X Nat : ss[1] < ss[2]}

\* A non-empty set of natural numbers has a least one.
LEMMA Least ==
  ASSUME NEW T \in SUBSET Nat, T # {}
  PROVE  \E n \in T : \A m \in T : n <= m
  <1>1. IsWellFoundedOn(Less, Nat)
    <2>1. Less = OpToRel(<, Nat)
      BY DEF Less, OpToRel
    <2> QED BY <2>1, NatLessThanWellFounded
  <1>2. \A n, m \in T : <<m, n>> \notin Less => n <= m
    BY DEF Less
  <1>3. PICK n \in T : \A m \in T : ~(<<m, n>> \in Less)
    BY <1>1, WFMin
  <1> QED BY <1>2, <1>3

\* A non-empty set of blocks has a lowest one.
LEMMA LowestBlock ==
  ASSUME NEW S \in SUBSET Blocks, S # {}
  PROVE  \E b \in S : \A c \in S : Height[b] <= Height[c]
  <1> DEFINE T == {Height[b] : b \in S}
  <1>1. T \in SUBSET Nat /\ T # {} /\ \A b \in S : Height[b] \in T
    BY TreeAssumption DEF Heights
  <1> HIDE DEF T
  <1>2. PICK n \in T : \A m \in T : n <= m
    BY <1>1, Least
  <1>3. PICK b \in S : n = Height[b]
    BY DEF T
  <1> QED BY <1>1, <1>2, <1>3

LEMMA BranchClosed ==
  ASSUME NEW b \in Blocks
  PROVE  /\ Branch[b] \subseteq Blocks /\ b \in Branch[b]
         /\ \A c \in Branch[b] : Parent[c] \in Branch[b]
  BY TreeAssumption DEF Branch

LEMMA BranchLeast ==
  ASSUME NEW b \in Blocks, NEW U \in SUBSET Blocks, b \in U, \A x \in U : Parent[x] \in U
  PROVE  Branch[b] \subseteq U
  BY DEF Branch

LEMMA BranchIs ==
  ASSUME NEW b \in Blocks
  PROVE  Branch[b] = IF b = Genesis THEN {b} ELSE {b} \cup Branch[Parent[b]]
  <1>1. Parent[b] \in Blocks
    BY TreeAssumption
  <1>2. Branch[b] \subseteq {b} \cup Branch[Parent[b]]
    <2> DEFINE U == {b} \cup Branch[Parent[b]]
    <2>1. U \in SUBSET Blocks /\ b \in U /\ \A x \in U : Parent[x] \in U
      BY <1>1, BranchClosed
    <2> HIDE DEF U
    <2>2. Branch[b] \subseteq U
      BY <2>1, BranchLeast
    <2> QED BY <2>2 DEF U
  <1>3. Branch[Parent[b]] \subseteq Branch[b]
    BY <1>1, BranchClosed, BranchLeast
  <1>4. Branch[Genesis] \subseteq {Genesis}
    <2> DEFINE U == {Genesis}
    <2>1. Genesis \in Blocks /\ U \in SUBSET Blocks /\ \A x \in U : Parent[x] \in U
      BY TreeAssumption
    <2>2. Genesis \in U
      OBVIOUS
    <2> HIDE DEF U
    <2>3. Branch[Genesis] \subseteq U
      BY <2>1, <2>2, BranchLeast
    <2> QED BY <2>3 DEF U
  <1> QED BY <1>2, <1>3, <1>4, BranchClosed

\* The recursion of Below ends: it is the branch.
LEMMA BelowIsBranch == \A b \in Blocks : Below[b] = Branch[b]
  <1>1. Branch = [b \in Blocks |-> IF b = Genesis THEN {b} ELSE {b} \cup Branch[Parent[b]]]
    BY BranchIs DEF Branch
  <1>2. Below = [b \in Blocks |-> IF b = Genesis THEN {b} ELSE {b} \cup Below[Parent[b]]]
    BY <1>1 DEF Below
  <1> DEFINE S == {b \in Blocks : Below[b] # Branch[b]}
  <1>3. SUFFICES ASSUME S # {} PROVE FALSE
    OBVIOUS
  <1>4. PICK b \in S : \A c \in S : Height[b] <= Height[c]
    BY <1>3, LowestBlock
  <1>5. CASE b = Genesis
    BY <1>2, <1>4, <1>5, BranchIs
  <1>6. CASE b # Genesis
    <2>1. Parent[b] \in Blocks /\ Height[b] = Height[Parent[b]] + 1 /\ Height[Parent[b]] \in Nat
      BY <1>6, TreeAssumption DEF Heights
    <2>2. Parent[b] \notin S
      BY <1>4, <2>1
    <2>3. Below[Parent[b]] = Branch[Parent[b]] /\ b \in Blocks
      BY <2>1, <2>2
    <2>4. Below[b] = {b} \cup Below[Parent[b]]
      BY <1>2, <1>6, <2>3
    <2>5. Branch[b] = {b} \cup Branch[Parent[b]]
      BY <1>6, <2>3, BranchIs
    <2> QED BY <2>3, <2>4, <2>5
  <1> QED BY <1>5, <1>6

LEMMA ParentLower ==
  ASSUME NEW b \in Blocks
  PROVE  /\ Parent[b] \in Blocks /\ Height[b] \in Nat /\ Height[Parent[b]] \in Nat
         /\ Height[Parent[b]] <= Height[b]
         /\ b # Genesis => Height[b] = Height[Parent[b]] + 1
  BY TreeAssumption DEF Heights

\* What a branch is: blocks, closed under Parent, none above the block it ends in.
LEMMA BelowBasics ==
  ASSUME NEW b \in Blocks
  PROVE  /\ Below[b] \subseteq Blocks /\ b \in Below[b]
         /\ \A c \in Below[b] : /\ Parent[c] \in Below[b] /\ Below[c] \subseteq Below[b]
                                /\ Height[c] <= Height[b]
                                /\ Height[c] = Height[b] => c = b
         /\ b # Genesis => Below[b] = {b} \cup Below[Parent[b]]
  <1>1. Below[b] = Branch[b] /\ Parent[b] \in Blocks /\ Below[Parent[b]] = Branch[Parent[b]]
    BY BelowIsBranch, TreeAssumption
  <1>2. ASSUME NEW c \in Branch[b]
        PROVE  Below[c] \subseteq Branch[b]
    BY BelowIsBranch, BranchClosed, BranchLeast
  <1>3. Branch[b] \subseteq {c \in Blocks : c = b \/ Height[c] < Height[b]}
    <2> DEFINE U == {c \in Blocks : c = b \/ Height[c] < Height[b]}
    <2>1. \A x \in U : Parent[x] \in U
      BY ParentLower, TreeAssumption
    <2> QED BY <2>1, BranchLeast
  <1>4. \A c \in Branch[b] : Height[c] <= Height[b] /\ (Height[c] = Height[b] => c = b)
    BY <1>3, ParentLower
  <1> QED BY <1>1, <1>2, <1>4, BranchClosed, BranchIs

\* A branch is a line: of two of its blocks the lower one is below the other.
LEMMA BelowLinear ==
  ASSUME NEW b \in Blocks, NEW c \in Below[b], NEW d \in Below[b], Height[c] <= Height[d]
  PROVE  c \in Below[d]
  <1>1. c \in Blocks /\ d \in Blocks
    BY BelowBasics
  <1> DEFINE U == {x \in Below[b] : x \in Below[d] \/ d \in Below[x]}
  <1>2. Below[b] \subseteq U
    <2>1. b \in U /\ U \subseteq Blocks
      BY BelowBasics
    <2>2. ASSUME NEW x \in U PROVE Parent[x] \in U
      <3>1. x \in Blocks /\ Parent[x] \in Below[b]
        BY BelowBasics
      <3>2. CASE x \in Below[d]
        BY <1>1, <3>1, <3>2, BelowBasics
      <3>3. CASE d \in Below[x]
        BY <1>1, <3>1, <3>3, BelowBasics, TreeAssumption
      <3> QED BY <3>2, <3>3
    <2> HIDE DEF U
    <2> QED BY <2>1, <2>2, BelowIsBranch, BranchLeast
  <1>3. c \in Below[d] \/ d \in Below[c]
    BY <1>2
  <1>4. d \in Below[c] => Height[d] <= Height[c] /\ (Height[d] = Height[c] => d = c)
    BY <1>1, BelowBasics
  <1>5. Height[c] \in Nat /\ Height[d] \in Nat
    BY <1>1, ParentLower
  <1> QED BY <1>1, <1>3, <1>4, <1>5, BelowBasics

(***************************************************************************)
(* The invariant.                                                          *)
(***************************************************************************)
Calm == upset \subseteq {"deep"}

\* What was once MinConf deep is not above the safe tip.
DeepEnough == \A b \in buried : Height[b] <= SafeTip(Height[tip])

Alone == \A p, q \in Passes : pass[p] # Idle /\ pass[q] # Idle => p = q

\* The window is a stretch of one branch and ends in lastScanned.
OneBranch ==
  /\ Tracked # {} => lastScanned \in Tracked
  /\ \A h \in Tracked :
       h < lastScanned => h + 1 \in Tracked /\ Parent[tracked[h + 1]] = tracked[h]

\* Each payment of a recorded block was announced for that height.
Announced ==
  \A h \in Tracked, a \in Alerts : TxOf[a] \in TxsOf[tracked[h]] => notified[a] = h

\* An alert for a height of the window, or above it, is about no transaction
\* of the blocks below the window.
NothingOlder ==
  \A h \in Tracked, a \in Alerts :
    notified[a] # None /\ notified[a] >= h =>
      \A c \in Below[tracked[h]] : Height[c] \notin Tracked => TxOf[a] \notin TxsOf[c]

\* With an empty window, no alert is for a height still to be scanned.
NothingNewer ==
  Tracked = {} /\ lastScanned # None =>
    \A a \in Alerts : notified[a] # None => notified[a] <= lastScanned

WindowOK == OneBranch /\ Announced /\ NothingOlder /\ NothingNewer

\* No scanned block of the best chain holds the transaction of an alert.
Gone(a) == \A c \in BestChain : Height[c] <= lastScanned => TxOf[a] \notin TxsOf[c]

OnBest == \A h \in Tracked : tracked[h] \in BestAt(h)

Probing(s) ==
  /\ s.probes \subseteq Tracked /\ s.probes # {}
  /\ ~s.reorg => s.probes = Tracked
  /\ \A h \in Tracked \ s.probes, k \in s.probes : k < h

Scanning(s) ==
  /\ s.at \in {"hash", "block"} => s.next = lastScanned + 1
  /\ s.at = "block" => s.hash \in BestAt(s.next)
  /\ OnBest
  /\ \A a \in s.orphaned \ s.seen : Gone(a)

Checking(s) ==
  /\ s.seen = {} /\ s.check \in s.orphaned
  /\ lastScanned >= SafeTip(s.tip)
  /\ s.at = "recheck" /\ fails = 0 =>
       \A c \in BestChain : Height[c] > s.next => TxOf[s.check] \notin TxsOf[c]

PassCalm(s) ==
  /\ s.at \in {"idle", "tip", "probe"} => s.orphaned = {} /\ s.seen = {}
  /\ s.at \notin {"idle", "tip"} => s.tip = Height[tip]
  /\ s.at = "probe" => Probing(s)
  /\ s.at \in {"hash", "block", "mempool", "recheck"} => Scanning(s)
  /\ s.at \in {"mempool", "recheck"} => Checking(s)

CalmState == Alone /\ WindowOK /\ \A p \in Passes : PassCalm(pass[p])
CalmInv == DeepEnough /\ (Calm => CalmState)

LEMMA CalmTypes ==
  ASSUME WatchInv
  PROVE  /\ tip \in Blocks /\ Height[tip] \in Nat /\ BestChain \subseteq Blocks
         /\ MinConf \in Nat /\ MinConf >= 1 /\ MaxTrack \in Nat /\ MaxTrack > MinConf
         /\ lastScanned # None => lastScanned \in Int /\ lastScanned >= -1
         /\ \A a \in Alerts : notified[a] # None => notified[a] \in Nat
         /\ \A h \in Tracked : /\ h \in Nat /\ h \in Heights /\ tracked[h] \in Blocks
                               /\ Height[tracked[h]] = h
                               /\ lastScanned # None /\ h <= lastScanned
                               /\ h > lastScanned - MaxTrack
  <1>1. TypeOK /\ BuriedOnly /\ WindowBounded
    BY DEF WatchInv
  <1>2. tip \in Blocks /\ Height[tip] \in Nat
    BY <1>1, ParentLower DEF TypeOK
  <1>3. BestChain \subseteq Blocks
    BY <1>2, BelowBasics DEF BestChain
  <1>4. /\ MinConf \in Nat /\ MinConf >= 1 /\ MaxTrack \in Nat /\ MaxTrack > MinConf
        /\ Heights \subseteq Nat
    BY WatchAssumption DEF Heights
  <1>5. lastScanned # None => lastScanned \in Int /\ lastScanned >= -1
    BY <1>1, <1>4 DEF TypeOK
  <1>6. \A a \in Alerts : notified[a] # None => notified[a] \in Nat
    BY <1>1, <1>4 DEF TypeOK
  <1>7. \A h \in Tracked : /\ h \in Nat /\ h \in Heights /\ tracked[h] \in Blocks
                           /\ Height[tracked[h]] = h
                           /\ lastScanned # None /\ h <= lastScanned
                           /\ h > lastScanned - MaxTrack
    <2> SUFFICES ASSUME NEW h \in Tracked
                 PROVE  /\ h \in Nat /\ h \in Heights /\ tracked[h] \in Blocks
                        /\ Height[tracked[h]] = h
                        /\ lastScanned # None /\ h <= lastScanned
                        /\ h > lastScanned - MaxTrack
      OBVIOUS
    <2>1. h \in Heights /\ h \in Nat /\ tracked[h] \in Blocks
      BY <1>1, <1>4 DEF Tracked, TypeOK
    <2> QED BY <1>1, <2>1 DEF BuriedOnly, WindowBounded
  <1> QED BY <1>2, <1>3, <1>4, <1>5, <1>6, <1>7

\* A block of the best chain is known by its height.
LEMMA BestIsOne ==
  ASSUME WatchInv, NEW c \in BestChain, NEW d \in BestChain, Height[c] = Height[d]
  PROVE  c = d
  <1>1. tip \in Blocks /\ c \in Blocks /\ d \in Blocks /\ Height[c] \in Nat
    BY CalmTypes, ParentLower
  <1>2. Height[c] <= Height[d]
    BY <1>1
  <1>3. c \in Below[d]
    BY <1>1, <1>2, BelowLinear DEF BestChain
  <1> QED BY <1>1, <1>3, BelowBasics

\* A transaction is in one block of a branch.
LEMMA TxIsOnce ==
  ASSUME NEW b \in Blocks, NEW c \in Below[b], NEW d \in Below[b], NEW x,
         x \in TxsOf[c], x \in TxsOf[d]
  PROVE  c = d
  BY WatchAssumption

LEMMA IdleCalm == PassCalm(Idle)'
  BY DEF PassCalm, Idle

\* One pass moves, and it was the only one.
LEMMA MovesCalm ==
  ASSUME WatchInv, Alone, NEW p \in Passes, pass[p] # Idle,
         NEW s \in Pass, Goes(p, s), PassCalm(s)'
  PROVE  Alone' /\ \A q \in Passes : PassCalm(pass[q])'
  <1>1. \A q \in Passes : pass'[q] = IF q = p THEN s ELSE pass[q]
    BY DEF Goes, WatchInv, TypeOK
  <1>2. \A q \in Passes \ {p} : pass'[q] = Idle
    BY <1>1 DEF Alone
  <1>3. Alone'
    BY <1>2 DEF Alone
  <1>4. ASSUME NEW q \in Passes PROVE PassCalm(pass[q])'
    <2>1. CASE q = p
      <3>1. pass'[q] = s
        BY <1>1, <2>1
      <3> QED BY <3>1 DEF PassCalm, Probing, Scanning, Checking
    <2>2. CASE q # p
      <3>1. pass'[q] = Idle
        BY <1>2, <2>2
      <3> QED BY <3>1, IdleCalm DEF PassCalm, Idle
    <2> QED BY <2>1, <2>2
  <1> QED BY <1>3, <1>4

LEMMA EndsCalm ==
  ASSUME WatchInv, Alone, NEW p \in Passes, pass[p] # Idle, Goes(p, Idle)
  PROVE  Alone' /\ \A q \in Passes : PassCalm(pass[q])'
  BY IdleCalm, IdleType, MovesCalm

\* The window after a step that leaves it alone.
LEMMA WindowKept ==
  ASSUME WindowOK, UNCHANGED <<tracked, lastScanned, notified>>
  PROVE  WindowOK'
  BY DEF WindowOK, OneBranch, Announced, NothingOlder, NothingNewer, Tracked

\* What a pass that has read the tip can rely on.
LEMMA CalmPass ==
  ASSUME WatchInv, CalmState, NEW p \in Passes, pass[p].at \notin {"idle", "tip"}
  PROVE  /\ Alone /\ WindowOK /\ PassCalm(pass[p]) /\ PassOK(pass[p])
         /\ pass[p] \in Pass /\ pass[p] # Idle
         /\ pass[p].tip = Height[tip] /\ pass[p].tip \in Heights
         /\ lastScanned # None /\ lastScanned \in Int
  <1>1. Alone /\ WindowOK /\ PassCalm(pass[p])
    BY DEF CalmState
  <1>2. pass[p] # Idle
    BY DEF Idle
  <1> QED BY <1>1, <1>2, PassTip, CalmTypes DEF PassCalm

\* To the next check, or to the end.
LEMMA NextCheckCalm ==
  ASSUME WatchInv, Alone, NEW p \in Passes, pass[p] # Idle,
         NEW state \in Pass, NEW left \in SUBSET Alerts, NextCheck(p, state, left),
         UNCHANGED tip, state.tip = Height[tip], lastScanned' >= SafeTip(state.tip),
         OnBest', \A a \in left : Gone(a)'
  PROVE  Alone' /\ \A q \in Passes : PassCalm(pass[q])'
  <1>1. CASE left = {} /\ Goes(p, Idle)
    BY <1>1, EndsCalm
  <1>2. ASSUME NEW a \in left,
               Goes(p, [state EXCEPT !.at = "mempool", !.check = a, !.orphaned = left,
                                     !.seen = {}, !.next = None, !.hash = None])
        PROVE  Alone' /\ \A q \in Passes : PassCalm(pass[q])'
    <2>1. PICK s : s = [state EXCEPT !.at = "mempool", !.check = a, !.orphaned = left,
                                     !.seen = {}, !.next = None, !.hash = None]
      OBVIOUS
    <2>2. s \in Pass /\ Goes(p, s)
      BY <1>2, <2>1 DEF Pass
    <2>3. /\ s.at = "mempool" /\ s.check = a /\ s.orphaned = left /\ s.seen = {}
          /\ s.tip = state.tip
      BY <2>1 DEF Pass
    <2>4. PassCalm(s)'
      BY <2>3 DEF PassCalm, Scanning, Checking
    <2> QED BY <2>2, <2>4, MovesCalm
  <1> QED BY <1>1, <1>2 DEF NextCheck

\* To the next block, to the checks, or to the end.
LEMMA ScanCalm ==
  ASSUME WatchInv, Alone, NEW p \in Passes, pass[p] # Idle,
         NEW state \in Pass, NEW h \in Nat, Scan(p, state, h),
         UNCHANGED tip, state.tip = Height[tip], lastScanned' \in Int, h = lastScanned' + 1,
         OnBest', \A a \in state.orphaned \ state.seen : Gone(a)'
  PROVE  Alone' /\ \A q \in Passes : PassCalm(pass[q])'
  <1>1. SafeTip(state.tip) \in Int
    BY CalmTypes DEF SafeTip
  <1>2. CASE h <= SafeTip(state.tip)
    <2>1. PICK s : s = [state EXCEPT !.at = "hash", !.next = h, !.hash = None]
      OBVIOUS
    <2>2. h \in Heights
      BY <1>2, TreeAssumption, CalmTypes DEF SafeTip, Heights, WatchInv, TypeOK
    <2>3. s \in Pass /\ Goes(p, s)
      BY <1>2, <2>1, <2>2 DEF Pass, Scan
    <2>4. /\ s.at = "hash" /\ s.next = h /\ s.orphaned = state.orphaned /\ s.seen = state.seen
          /\ s.tip = state.tip
      BY <2>1 DEF Pass
    <2>5. PassCalm(s)'
      BY <2>4 DEF PassCalm, Scanning
    <2> QED BY <2>3, <2>5, MovesCalm
  <1>3. CASE ~(h <= SafeTip(state.tip))
    <2>1. NextCheck(p, state, state.orphaned \ state.seen)
      BY <1>3 DEF Scan
    <2>2. state.orphaned \ state.seen \in SUBSET Alerts
      BY DEF Pass
    <2>3. lastScanned' >= SafeTip(state.tip)
      BY <1>1, <1>3
    <2> QED BY <2>1, <2>2, <2>3, NextCheckCalm
  <1> QED BY <1>2, <1>3

(***************************************************************************)
(* The steps.                                                              *)
(***************************************************************************)
LEMMA UpsetGrows == [Next]_vars /\ Calm' => Calm
  <1> SUFFICES ASSUME [Next]_vars PROVE upset \subseteq upset'
    BY DEF Calm
  <1>1. CASE NewTip
    BY <1>1 DEF NewTip
  <1>2. CASE MempoolMoves \/ Restart
    BY <1>2 DEF MempoolMoves, Restart
  <1>3. ASSUME NEW p \in Passes, Start(p) PROVE upset \subseteq upset'
    BY <1>3 DEF Start
  <1>4. ASSUME NEW p \in Passes, ProbeDiffers(p) PROVE upset \subseteq upset'
    BY <1>4 DEF ProbeDiffers
  <1>5. ASSUME NEW p \in Passes, Answered(p) \/ TipFails(p) \/ ScanFails(p)
        PROVE  upset \subseteq upset'
    BY <1>4, <1>5 DEF Answered, TipFails, ScanFails, TipKnown, ProbeMatches, HashKnown,
       BlockRead, StillPooled, NotPooled, StillMined, NotMined
  <1>6. CASE UNCHANGED vars
    BY <1>6 DEF vars
  <1> QED BY <1>1, <1>2, <1>3, <1>5, <1>6 DEF Next

LEMMA NodeStill ==
  ASSUME [Next]_vars, ~NewTip
  PROVE  UNCHANGED <<tip, buried>>
  <1>1. CASE MempoolMoves \/ Restart
    BY <1>1 DEF MempoolMoves, Restart
  <1>2. ASSUME NEW p \in Passes, Start(p) PROVE UNCHANGED <<tip, buried>>
    BY <1>2 DEF Start
  <1>3. ASSUME NEW p \in Passes, ProbeDiffers(p) \/ ProbeMatches(p)
        PROVE UNCHANGED <<tip, buried>>
    BY <1>3 DEF ProbeDiffers, ProbeMatches
  <1>4. ASSUME NEW p \in Passes, Answered(p) \/ TipFails(p) \/ ScanFails(p)
        PROVE  UNCHANGED <<tip, buried>>
    BY <1>3, <1>4 DEF Answered, TipFails, ScanFails, TipKnown, HashKnown,
       BlockRead, StillPooled, NotPooled, StillMined, NotMined
  <1>5. CASE UNCHANGED vars
    BY <1>5 DEF vars
  <1> QED BY <1>1, <1>2, <1>4, <1>5 DEF Next

LEMMA DeepStep == WatchInv /\ DeepEnough /\ [Next]_vars => DeepEnough'
  <1> SUFFICES ASSUME WatchInv, DeepEnough, [Next]_vars PROVE DeepEnough'
    OBVIOUS
  <1>1. CASE NewTip
    <2>1. PICK b \in Tips : /\ Height[b] > Height[tip] /\ tip' = b
                            /\ buried' = buried \cup BuriedUnder(b)
      BY <1>1 DEF NewTip, Connect
    <2>2. b \in Blocks /\ Height[b] \in Nat /\ Height[tip] \in Nat /\ MinConf \in Nat
      BY TreeAssumption, CalmTypes, ParentLower
    <2>3. ASSUME NEW c \in buried' PROVE Height[c] <= SafeTip(Height[tip'])
      <3>1. c \in Blocks /\ Height[c] \in Nat
        BY <2>1, ParentLower DEF BuriedUnder, WatchInv, TypeOK
      <3>2. CASE c \in buried
        <4>1. Height[c] <= SafeTip(Height[tip])
          BY <3>2 DEF DeepEnough
        <4> QED BY <2>1, <2>2, <3>1, <4>1 DEF SafeTip
      <3>3. CASE c \in BuriedUnder(b)
        BY <2>1, <2>2, <3>1, <3>3 DEF SafeTip, BuriedUnder
      <3> QED BY <2>1, <3>2, <3>3
    <2> QED BY <2>3 DEF DeepEnough
  <1>2. CASE ~NewTip
    BY <1>2, NodeStill DEF DeepEnough, SafeTip
  <1> QED BY <1>1, <1>2

\* The chain moves: no pass was looking.
LEMMA NewTipCalm ==
  ASSUME WatchInv, CalmState, Calm', NewTip
  PROVE  CalmState'
  <1>1. /\ upset' = upset \cup {u \in {"moved"} : \E p \in Passes : Busy(p)}
        /\ UNCHANGED <<botVars, boundVars>>
    BY DEF NewTip
  <1>2. \A p \in Passes : pass[p].at \in {"idle", "tip"}
    BY <1>1 DEF Calm, Busy
  <1>3. \A p \in Passes : PassCalm(pass[p])'
    BY <1>1, <1>2 DEF CalmState, PassCalm, botVars
  <1> QED BY <1>1, <1>3, WindowKept DEF CalmState, Alone, botVars

LEMMA MempoolCalm ==
  ASSUME CalmState, MempoolMoves
  PROVE  CalmState'
  <1>1. UNCHANGED <<tip, botVars, boundVars>>
    BY DEF MempoolMoves
  <1>2. WindowOK'
    BY <1>1, WindowKept DEF CalmState, botVars
  <1> QED BY <1>1, <1>2 DEF CalmState, Alone, PassCalm, Probing, Scanning, Checking, Gone, OnBest,
       Tracked, BestAt, BestChain, botVars, boundVars

LEMMA RestartCalm ==
  ASSUME WatchInv, CalmState, Restart
  PROVE  CalmState'
  <1>1. /\ pass' = [p \in Passes |-> Idle]
        /\ UNCHANGED <<tracked, notified>>
        /\ \/ Tracked = {} /\ lastScanned' = None
           \/ lastScanned' \in Newest(Tracked)
    BY DEF Restart
  <1>2. Alone' /\ \A p \in Passes : PassCalm(pass[p])'
    BY <1>1 DEF Alone, PassCalm, Idle
  <1>3. CASE Tracked = {} /\ lastScanned' = None
    <2>1. Tracked' = {}
      BY <1>1, <1>3 DEF Tracked
    <2>2. WindowOK'
      BY <1>3, <2>1 DEF WindowOK, OneBranch, Announced, NothingOlder, NothingNewer
    <2> QED BY <1>2, <2>2 DEF CalmState
  <1>4. CASE lastScanned' \in Newest(Tracked)
    <2>1. lastScanned' \in Tracked /\ lastScanned \in Tracked /\ lastScanned <= lastScanned'
      BY <1>4 DEF Newest, CalmState, WindowOK, OneBranch
    <2>2. lastScanned' <= lastScanned /\ lastScanned \in Nat /\ lastScanned' \in Nat
      BY <2>1, CalmTypes
    <2>3. lastScanned' = lastScanned
      BY <2>1, <2>2
    <2>4. WindowOK'
      BY <1>1, <2>3, WindowKept DEF CalmState
    <2> QED BY <1>2, <2>4 DEF CalmState
  <1> QED BY <1>1, <1>3, <1>4

\* The timer fires: no other pass is under way.
LEMMA StartCalm ==
  ASSUME WatchInv, CalmState, Calm', NEW p \in Passes, Start(p)
  PROVE  CalmState'
  <1>1. /\ Goes(p, [Idle EXCEPT !.at = "tip"])
        /\ upset' = upset \cup {u \in {"overlap"} : \E q \in Passes : pass[q] # Idle}
        /\ UNCHANGED <<tip, tracked, lastScanned, notified>>
    BY DEF Start
  <1>2. \A q \in Passes : pass[q] = Idle
    BY <1>1 DEF Calm
  <1>3. \A q \in Passes : pass'[q] = IF q = p THEN [Idle EXCEPT !.at = "tip"] ELSE Idle
    BY <1>1, <1>2 DEF Goes, WatchInv, TypeOK
  <1>4. Alone'
    BY <1>3 DEF Alone
  <1>5. ASSUME NEW q \in Passes PROVE PassCalm(pass[q])'
    BY <1>3 DEF PassCalm, Idle
  <1>6. WindowOK'
    BY <1>1, WindowKept DEF CalmState
  <1> QED BY <1>4, <1>5, <1>6 DEF CalmState

\* A pass gives up.
LEMMA GiveUpCalm ==
  ASSUME WatchInv, CalmState, NEW p \in Passes, TipFails(p) \/ ScanFails(p)
  PROVE  CalmState'
  <1>1. /\ pass[p] # Idle /\ Goes(p, Idle)
        /\ UNCHANGED <<tracked, lastScanned, notified>>
    BY DEF TipFails, ScanFails, Idle
  <1>2. WindowOK'
    BY <1>1, WindowKept DEF CalmState
  <1> QED BY <1>1, <1>2, EndsCalm DEF CalmState

LEMMA BaselineIs ==
  ASSUME WatchInv, Rebaseline(Height[tip])
  PROVE  lastScanned' \in Int /\ lastScanned' >= SafeTip(Height[tip])
  BY CalmTypes DEF Rebaseline, SafeTip

\* Starting anew: no alert is for a height above the safe tip.
LEMMA AnewCalm ==
  ASSUME WatchInv, DeepEnough, Rebaseline(Height[tip]), Tracked' = {}, UNCHANGED notified
  PROVE  WindowOK'
  <1>1. ASSUME NEW a \in Alerts, notified'[a] # None
        PROVE  notified'[a] <= lastScanned'
    <2>1. PICK b \in buried : Height[b] = notified[a]
      BY <1>1 DEF WatchInv, BuriedOnly
    <2>2. notified[a] <= SafeTip(Height[tip]) /\ notified[a] \in Nat
      BY <1>1, <2>1, CalmTypes DEF DeepEnough
    <2> QED BY <2>2, BaselineIs, CalmTypes DEF SafeTip
  <1> QED BY <1>1 DEF WindowOK, OneBranch, Announced, NothingOlder, NothingNewer

LEMMA TipKnownCalm ==
  ASSUME WatchInv, DeepEnough, CalmState, NEW p \in Passes, TipKnown(p)
  PROVE  CalmState'
  <1>1. /\ pass[p].at = "tip"
        /\ \/ /\ lastScanned = None
              /\ Rebaseline(BlockCount)
              /\ Goes(p, Idle)
           \/ /\ lastScanned # None
              /\ IF Tracked = {}
                 THEN Scan(p, [pass[p] EXCEPT !.tip = BlockCount], lastScanned + 1)
                 ELSE Goes(p, [pass[p] EXCEPT !.tip = BlockCount, !.at = "probe",
                                              !.probes = Tracked])
              /\ UNCHANGED lastScanned
        /\ UNCHANGED <<tip, tracked, notified>>
    BY DEF TipKnown
  <1>2. /\ pass[p] \in Pass /\ pass[p] # Idle /\ Alone
        /\ pass[p].orphaned = {} /\ pass[p].seen = {}
    BY <1>1 DEF WatchInv, TypeOK, Idle, CalmState, PassCalm
  <1>3. BlockCount = Height[tip] /\ Height[tip] \in Heights
    BY TipHeight DEF BlockCount, WatchInv, TypeOK
  <1>4. CASE lastScanned = None
    <2>1. Rebaseline(Height[tip]) /\ Goes(p, Idle)
      BY <1>1, <1>3, <1>4
    <2>2. Tracked' = {}
      BY <1>1, <1>4, CalmTypes DEF Tracked
    <2>3. WindowOK'
      BY <1>1, <2>1, <2>2, AnewCalm
    <2> QED BY <1>2, <2>1, <2>3, EndsCalm DEF CalmState
  <1>5. CASE lastScanned # None
    <2>1. WindowOK'
      BY <1>1, <1>5, WindowKept DEF CalmState
    <2>2. CASE Tracked = {}
      <3>1. PICK state : state = [pass[p] EXCEPT !.tip = BlockCount]
        OBVIOUS
      <3>2. /\ state \in Pass /\ state.tip = Height[tip]
            /\ state.orphaned = {} /\ state.seen = {}
        BY <1>2, <1>3, <3>1 DEF Pass
      <3>3. Scan(p, state, lastScanned + 1) /\ UNCHANGED lastScanned
        BY <1>1, <1>5, <2>2, <3>1
      <3>4. PICK h : h = lastScanned + 1
        OBVIOUS
      <3>5. h \in Nat /\ lastScanned' \in Int /\ h = lastScanned' + 1
        BY <1>5, <3>3, <3>4, CalmTypes
      <3>6. OnBest'
        BY <1>1, <2>2 DEF OnBest, Tracked
      <3>7. Alone' /\ \A q \in Passes : PassCalm(pass[q])'
        BY <1>1, <1>2, <3>2, <3>3, <3>4, <3>5, <3>6, ScanCalm
      <3> QED BY <2>1, <3>7 DEF CalmState
    <2>3. CASE Tracked # {}
      <3>1. PICK s : s = [pass[p] EXCEPT !.tip = BlockCount, !.at = "probe", !.probes = Tracked]
        OBVIOUS
      <3>2. /\ s \in Pass /\ s.at = "probe" /\ s.probes = Tracked /\ s.tip = Height[tip]
            /\ s.orphaned = {} /\ s.seen = {}
        BY <1>2, <1>3, <3>1 DEF Pass, Tracked
      <3>3. Goes(p, s) /\ Tracked' = Tracked
        BY <1>1, <1>5, <2>3, <3>1 DEF Tracked
      <3>4. PassCalm(s)'
        BY <1>1, <2>3, <3>2, <3>3 DEF PassCalm, Probing
      <3>5. Alone' /\ \A q \in Passes : PassCalm(pass[q])'
        BY <1>2, <3>2, <3>3, <3>4, MovesCalm
      <3> QED BY <2>1, <3>5 DEF CalmState
    <2> QED BY <2>2, <2>3
  <1> QED BY <1>4, <1>5

\* Downwards from a height of the window, the window is its branch.
LEMMA WindowDown ==
  ASSUME WatchInv, OneBranch, NEW h \in Tracked, NEW k \in Tracked, k <= h
  PROVE  tracked[k] \in Below[tracked[h]]
  <1> DEFINE S == {j \in Tracked : j <= h /\ tracked[j] \notin Below[tracked[h]]}
             T == {n \in Nat : \E j \in S : n = h - j}
  <1>1. SUFFICES ASSUME S # {} PROVE FALSE
    OBVIOUS
  <1>2. T # {} /\ T \in SUBSET Nat
    <2>1. PICK j \in S : TRUE
      BY <1>1
    <2>2. h - j \in T
      BY <2>1, CalmTypes
    <2> QED BY <2>2
  <1> HIDE DEF T
  <1>3. PICK n \in T : \A m \in T : n <= m
    BY <1>2, Least
  <1>4. PICK j \in S : n = h - j
    BY <1>3 DEF T
  <1>5. /\ j \in Nat /\ h \in Nat /\ j <= h /\ j \in Tracked /\ lastScanned \in Int
        /\ h <= lastScanned /\ tracked[h] \in Blocks
    BY <1>4, CalmTypes
  <1>6. j # h
    BY <1>4, <1>5, BelowBasics
  <1>7. j + 1 \in Tracked /\ Parent[tracked[j + 1]] = tracked[j] /\ j + 1 <= h
    BY <1>5, <1>6 DEF OneBranch
  <1>8. j + 1 \notin S
    <2> SUFFICES ASSUME j + 1 \in S PROVE FALSE
      OBVIOUS
    <2>1. h - (j + 1) \in T
      BY <1>5, <1>7 DEF T
    <2>2. n <= h - (j + 1)
      BY <1>3, <2>1
    <2> QED BY <1>4, <1>5, <2>2
  <1>9. tracked[j + 1] \in Below[tracked[h]]
    BY <1>7, <1>8
  <1> QED BY <1>4, <1>5, <1>7, <1>9, BelowBasics

\* On the best chain, a block of a height of the window is the recorded one.
LEMMA TrackedIsBest ==
  ASSUME WatchInv, OnBest, NEW c \in BestChain, Height[c] \in Tracked
  PROVE  c = tracked[Height[c]]
  BY BestIsOne DEF OnBest, BestAt

\* What the ancestor found leaves of the window.
LEMMA AncestorKeeps ==
  ASSUME WatchInv, CalmState, NEW p \in Passes, pass[p].at = "probe",
         NEW h \in Newest(pass[p].probes)
  PROVE  /\ h \in Tracked /\ Resumes(p, h) = h
         /\ Tracked \ Orphaned(p, h) = {k \in Tracked : k <= h}
         /\ \A k \in Orphaned(p, h) : k \in Tracked /\ k > h
  <1>1. WindowOK /\ Probing(pass[p]) /\ lastScanned \in Int
    BY CalmPass DEF PassCalm
  <1>2. h \in Tracked /\ h \in pass[p].probes /\ \A k \in pass[p].probes : k <= h
    BY <1>1 DEF Newest, Probing
  <1>3. \A k \in Tracked : k \in Nat /\ k <= lastScanned
    BY CalmTypes
  <1>4. CASE pass[p].reorg
    BY <1>2, <1>3, <1>4 DEF Orphaned, Resumes
  <1>5. CASE ~pass[p].reorg
    <2>1. lastScanned \in Tracked /\ pass[p].probes = Tracked
      BY <1>1, <1>2, <1>5 DEF WindowOK, OneBranch, Probing
    <2>2. lastScanned <= h /\ h <= lastScanned /\ h \in Nat
      BY <1>2, <1>3, <2>1
    <2>3. h = lastScanned
      BY <1>1, <2>2
    <2> QED BY <1>2, <1>3, <1>5, <2>3 DEF Orphaned, Resumes
  <1> QED BY <1>4, <1>5

LEMMA ProbeMatchesCalm ==
  ASSUME WatchInv, CalmState, NEW p \in Passes, ProbeMatches(p)
  PROVE  CalmState'
  <1>1. PICK h \in Newest(pass[p].probes) :
          /\ tracked[h] \in BestAt(h)
          /\ tracked' = Forget(Orphaned(p, h))
          /\ lastScanned' = Resumes(p, h)
          /\ Scan(p, [pass[p] EXCEPT !.probes = {}, !.reorg = FALSE,
                        !.orphaned = {a \in Alerts : notified[a] \in Orphaned(p, h)}],
                  Resumes(p, h) + 1)
    BY DEF ProbeMatches
  <1>2. /\ pass[p].at = "probe"
        /\ UNCHANGED <<tip, notified, buried>>
    BY DEF ProbeMatches
  <1>3. /\ Alone /\ WindowOK /\ PassCalm(pass[p]) /\ pass[p] \in Pass /\ pass[p] # Idle
        /\ pass[p].tip = Height[tip] /\ lastScanned # None /\ lastScanned \in Int
    BY <1>2, CalmPass
  <1>4. /\ h \in Tracked /\ lastScanned' = h
        /\ Tracked \ Orphaned(p, h) = {k \in Tracked : k <= h}
        /\ \A k \in Orphaned(p, h) : k \in Tracked /\ k > h
    BY <1>1, <1>2, AncestorKeeps
  <1>5. Tracked' = {k \in Tracked : k <= h}
    BY <1>1, <1>2, <1>4, ForgetKeeps
  <1>6. \A k \in Tracked' : tracked'[k] = tracked[k] /\ k \in Tracked /\ k <= h
    <2> SUFFICES ASSUME NEW k \in Tracked'
                 PROVE  tracked'[k] = tracked[k] /\ k \in Tracked /\ k <= h
      OBVIOUS
    <2>1. k \in Tracked /\ k <= h /\ k \in Heights /\ k \notin Orphaned(p, h)
      BY <1>4, <1>5, CalmTypes
    <2> QED BY <1>1, <2>1 DEF Forget
  <1>7. /\ h \in Nat /\ h <= lastScanned /\ tracked[h] \in BestChain /\ tip \in Blocks
        /\ \A k \in Tracked : k \in Nat /\ tracked[k] \in Blocks /\ Height[tracked[k]] = k
        /\ BestChain' = BestChain
    BY <1>1, <1>2, <1>4, CalmTypes DEF BestAt, BestChain
  <1>8. OnBest'
    <2>1. \A k \in Tracked' : tracked[k] \in Below[tracked[h]]
      BY <1>3, <1>4, <1>6, WindowDown DEF WindowOK
    <2>2. Below[tracked[h]] \subseteq BestChain
      BY <1>7, BelowBasics DEF BestChain
    <2>3. \A k \in Tracked' : tracked[k] \in BestChain
      BY <2>1, <2>2
    <2> QED BY <1>6, <1>7, <2>3 DEF OnBest, BestAt
  <1>9. WindowOK'
    <2>1. OneBranch'
      <3>1. h \in Tracked'
        BY <1>4, <1>5, <1>7
      <3>2. ASSUME NEW k \in Tracked', k < h
            PROVE  k + 1 \in Tracked' /\ Parent[tracked'[k + 1]] = tracked'[k]
        <4>1. k \in Tracked /\ k \in Nat /\ k < lastScanned
          BY <1>3, <1>6, <1>7, <3>2
        <4>2. k + 1 \in Tracked /\ Parent[tracked[k + 1]] = tracked[k]
          BY <1>3, <4>1 DEF WindowOK, OneBranch
        <4>3. k + 1 \in Tracked'
          BY <1>5, <1>7, <3>2, <4>1, <4>2
        <4> QED BY <1>6, <4>2, <4>3
      <3> QED BY <1>4, <3>1, <3>2 DEF OneBranch
    <2>2. Announced'
      BY <1>2, <1>3, <1>6 DEF WindowOK, Announced
    <2>3. NothingOlder'
      <3> SUFFICES ASSUME NEW k \in Tracked', NEW a \in Alerts, notified[a] # None,
                          notified[a] >= k, NEW c \in Below[tracked[k]],
                          Height[c] \notin Tracked'
                   PROVE  TxOf[a] \notin TxsOf[c]
        BY <1>2, <1>6 DEF NothingOlder
      <3>1. k \in Tracked /\ k <= h /\ k \in Nat /\ tracked[k] \in Blocks /\ Height[tracked[k]] = k
        BY <1>6, <1>7
      <3>2. c \in Blocks /\ Height[c] <= k /\ Height[c] \in Nat
        BY <3>1, BelowBasics, ParentLower
      <3>3. Height[c] \notin Tracked
        BY <1>5, <1>7, <3>1, <3>2
      <3> QED BY <1>3, <3>1, <3>3 DEF WindowOK, NothingOlder
    <2>4. NothingNewer'
      BY <1>4, <1>5, <1>7 DEF NothingNewer
    <2> QED BY <2>1, <2>2, <2>3, <2>4 DEF WindowOK
  <1>10. ASSUME NEW a \in Alerts, notified[a] \in Orphaned(p, h)
         PROVE  Gone(a)'
    <2>1. notified[a] \in Nat /\ notified[a] > h /\ notified[a] # None
      <3>1. notified[a] \in Tracked /\ notified[a] > h
        BY <1>4, <1>10
      <3>2. notified[a] \in Int
        BY <1>7, <3>1
      <3> QED BY <1>7, <3>1, <3>2, WatchAssumption
    <2> SUFFICES ASSUME NEW c \in BestChain, Height[c] <= h
                 PROVE  TxOf[a] \notin TxsOf[c]
      BY <1>2, <1>4 DEF Gone, BestChain
    <2>2. c \in Blocks /\ Height[c] \in Nat
      BY CalmTypes, ParentLower
    <2>3. c \in Below[tracked[h]]
      BY <1>4, <1>7, BelowLinear DEF BestChain
    <2>4. CASE Height[c] \in Tracked
      <3>1. Height[c] \in Tracked'
        BY <1>5, <2>4
      <3>2. c \in BestChain'
        BY <1>7
      <3>3. tracked[Height[c]] \in BestChain
        BY <1>6, <1>7, <1>8, <3>1 DEF OnBest, BestAt
      <3>4. c = tracked[Height[c]]
        BY <1>7, <2>4, <3>3, BestIsOne
      <3>5. TxOf[a] \in TxsOf[c] => notified[a] = Height[c]
        BY <1>3, <2>4, <3>4 DEF WindowOK, Announced
      <3> QED BY <1>7, <2>1, <2>2, <3>5
    <2>5. CASE Height[c] \notin Tracked
      BY <1>3, <1>4, <1>7, <2>1, <2>3, <2>5 DEF WindowOK, NothingOlder
    <2> QED BY <2>4, <2>5
  <1>11. PICK state : state = [pass[p] EXCEPT !.probes = {}, !.reorg = FALSE,
                        !.orphaned = {a \in Alerts : notified[a] \in Orphaned(p, h)}]
    OBVIOUS
  <1>12. /\ state \in Pass /\ state.tip = Height[tip]
         /\ state.orphaned = {a \in Alerts : notified[a] \in Orphaned(p, h)}
    BY <1>3, <1>11 DEF Pass
  <1>13. Scan(p, state, h + 1)
    BY <1>1, <1>4, <1>11
  <1>14. h + 1 \in Nat /\ h + 1 = lastScanned' + 1 /\ lastScanned' \in Int
    BY <1>4, <1>7
  <1>15. \A a \in state.orphaned \ state.seen : Gone(a)'
    BY <1>10, <1>12
  <1>16. Alone' /\ \A q \in Passes : PassCalm(pass[q])'
    BY <1>2, <1>3, <1>8, <1>12, <1>13, <1>14, <1>15, ScanCalm
  <1> QED BY <1>9, <1>16 DEF CalmState

LEMMA ProbeDiffersCalm ==
  ASSUME WatchInv, DeepEnough, CalmState, NEW p \in Passes, ProbeDiffers(p)
  PROVE  CalmState'
  <1>1. PICK h \in Newest(pass[p].probes) :
          \/ /\ pass[p].probes \ {h} # {}
             /\ Goes(p, [pass[p] EXCEPT !.probes = pass[p].probes \ {h}, !.reorg = TRUE])
             /\ UNCHANGED <<tracked, lastScanned>>
          \/ /\ pass[p].probes \ {h} = {}
             /\ tracked' = Forget(Heights)
             /\ Rebaseline(pass[p].tip)
             /\ Goes(p, Idle)
    BY DEF ProbeDiffers
  <1>2. /\ pass[p].at = "probe"
        /\ UNCHANGED <<tip, notified, buried>>
    BY DEF ProbeDiffers
  <1>3. /\ Alone /\ WindowOK /\ PassCalm(pass[p]) /\ pass[p] \in Pass /\ pass[p] # Idle
        /\ pass[p].tip = Height[tip]
    BY <1>2, CalmPass
  <1>4. CASE /\ pass[p].probes \ {h} # {}
             /\ Goes(p, [pass[p] EXCEPT !.probes = pass[p].probes \ {h}, !.reorg = TRUE])
             /\ UNCHANGED <<tracked, lastScanned>>
    <2>1. PICK s : s = [pass[p] EXCEPT !.probes = pass[p].probes \ {h}, !.reorg = TRUE]
      OBVIOUS
    <2>2. /\ s \in Pass /\ s.at = "probe" /\ s.probes = pass[p].probes \ {h} /\ s.reorg
          /\ s.tip = pass[p].tip /\ s.orphaned = pass[p].orphaned /\ s.seen = pass[p].seen
      BY <1>2, <1>3, <2>1 DEF Pass
    <2>3. Probing(pass[p]) /\ pass[p].orphaned = {} /\ pass[p].seen = {}
      BY <1>2, <1>3 DEF PassCalm
    <2>4. \A k \in Tracked \ s.probes, j \in s.probes : j < k
      <3> SUFFICES ASSUME NEW k \in Tracked \ s.probes, NEW j \in s.probes PROVE j < k
        OBVIOUS
      <3>1. CASE k \notin pass[p].probes
        BY <2>2, <2>3, <3>1 DEF Probing
      <3>2. CASE k \in pass[p].probes
        <4>1. k = h /\ j # h /\ j <= h /\ j \in Tracked
          BY <2>2, <2>3, <3>2 DEF Newest, Probing
        <4> QED BY <4>1, CalmTypes
      <3> QED BY <3>1, <3>2
    <2>5. Tracked' = Tracked
      BY <1>4 DEF Tracked
    <2>6. PassCalm(s)'
      BY <1>2, <1>3, <1>4, <2>2, <2>3, <2>4, <2>5 DEF PassCalm, Probing
    <2>7. Alone' /\ \A q \in Passes : PassCalm(pass[q])'
      BY <1>3, <1>4, <2>1, <2>2, <2>6, MovesCalm
    <2> QED BY <1>2, <1>3, <1>4, <2>7, WindowKept DEF CalmState
  <1>5. CASE /\ pass[p].probes \ {h} = {}
             /\ tracked' = Forget(Heights)
             /\ Rebaseline(pass[p].tip)
             /\ Goes(p, Idle)
    <2>1. Tracked' = {}
      BY <1>5 DEF Forget, Tracked
    <2>2. Alone' /\ \A q \in Passes : PassCalm(pass[q])'
      BY <1>3, <1>5, EndsCalm
    <2> QED BY <1>2, <1>3, <1>5, <2>1, <2>2, AnewCalm DEF CalmState
  <1> QED BY <1>1, <1>4, <1>5

LEMMA HashCalm ==
  ASSUME WatchInv, CalmState, NEW p \in Passes, HashKnown(p)
  PROVE  CalmState'
  <1>1. PICK b \in BestAt(pass[p].next) :
          /\ pass[p].at = "hash"
          /\ Goes(p, [pass[p] EXCEPT !.at = "block", !.hash = b])
          /\ UNCHANGED <<tip, tracked, lastScanned, notified>>
    BY DEF HashKnown
  <1>2. /\ Alone /\ WindowOK /\ PassCalm(pass[p]) /\ pass[p] \in Pass /\ pass[p] # Idle
    BY <1>1, CalmPass
  <1>3. PICK s : s = [pass[p] EXCEPT !.at = "block", !.hash = b]
    OBVIOUS
  <1>4. /\ s \in Pass /\ s.at = "block" /\ s.hash = b /\ s.next = pass[p].next
        /\ s.tip = pass[p].tip /\ s.orphaned = pass[p].orphaned /\ s.seen = pass[p].seen
    BY <1>2, <1>3 DEF Pass, BestAt
  <1>5. PassCalm(s)'
    BY <1>1, <1>2, <1>4 DEF PassCalm, Scanning, OnBest, Tracked, Gone, BestAt, BestChain
  <1> QED BY <1>1, <1>2, <1>3, <1>4, <1>5, MovesCalm, WindowKept DEF CalmState

\* The window after a block of the best chain is recorded on top of it.
LEMMA RecordIs ==
  ASSUME WatchInv, lastScanned # None, NEW n \in Heights, n = lastScanned + 1,
         NEW b \in Blocks, Record(n, b)
  PROVE  /\ lastScanned' = n /\ n \in Tracked' /\ n \notin Tracked
         /\ Tracked' = {k \in Tracked : k > n - MaxTrack} \cup {n}
         /\ tracked'[n] = b
         /\ \A k \in Tracked' \ {n} : tracked'[k] = tracked[k]
  <1>1. /\ lastScanned \in Int /\ MaxTrack \in Nat /\ MaxTrack > 1 /\ n \in Nat
        /\ b # None /\ \A k \in Heights : k \in Nat
    BY CalmTypes, WatchAssumption DEF Heights
  <1>2. /\ lastScanned' = n
        /\ tracked' = [k \in Heights |-> IF k <= n - MaxTrack THEN None
                                         ELSE IF k = n THEN b ELSE tracked[k]]
    BY <1>1 DEF Record
  <1>3. ~(n <= n - MaxTrack)
    BY <1>1
  <1>4. tracked'[n] = b
    BY <1>2, <1>3
  <1>5. n \notin Tracked
    BY <1>1, CalmTypes
  <1>6. ASSUME NEW k \in Heights, k # n
        PROVE  tracked'[k] = IF k > n - MaxTrack THEN tracked[k] ELSE None
    BY <1>1, <1>2, <1>6
  <1>7. \A k \in Heights : k \in Tracked' <=> k = n \/ (k \in Tracked /\ k > n - MaxTrack)
    BY <1>1, <1>4, <1>6 DEF Tracked
  <1>8. Tracked' \subseteq Heights /\ Tracked \subseteq Heights
    BY DEF Tracked
  <1>9. Tracked' = {k \in Tracked : k > n - MaxTrack} \cup {n}
    BY <1>7, <1>8
  <1> QED BY <1>1, <1>2, <1>4, <1>5, <1>6, <1>8, <1>9

LEMMA BlockReadCalm ==
  ASSUME WatchInv, CalmState, NEW p \in Passes, BlockRead(p)
  PROVE  CalmState'
  <1> DEFINE hits == {a \in Alerts : TxOf[a] \in TxsOf[pass[p].hash]}
  <1>1. /\ pass[p].at = "block"
        /\ Record(pass[p].next, pass[p].hash)
        /\ notified' = [a \in Alerts |-> IF a \in hits THEN pass[p].next ELSE notified[a]]
        /\ Scan(p, [pass[p] EXCEPT !.seen = @ \cup hits], pass[p].next + 1)
        /\ UNCHANGED tip
    BY DEF BlockRead
  <1>2. /\ Alone /\ WindowOK /\ PassCalm(pass[p]) /\ PassOK(pass[p])
        /\ pass[p] \in Pass /\ pass[p] # Idle
        /\ pass[p].tip = Height[tip] /\ lastScanned # None /\ lastScanned \in Int
    BY <1>1, CalmPass
  <1>3. PICK n, b : n = pass[p].next /\ b = pass[p].hash
    OBVIOUS
  <1>4. /\ n = lastScanned + 1 /\ b \in BestChain /\ Height[b] = n /\ b \in Blocks
        /\ OnBest /\ \A a \in pass[p].orphaned \ pass[p].seen : Gone(a)
    BY <1>1, <1>2, <1>3 DEF PassCalm, Scanning, BestAt
  <1>5. n \in Heights /\ n \in Nat /\ tip \in Blocks /\ BestChain' = BestChain /\ MaxTrack \in Nat
        /\ MaxTrack > 1
    BY <1>1, <1>4, ParentLower, TreeAssumption, CalmTypes DEF BestChain
  <1>6. /\ lastScanned' = n /\ n \in Tracked' /\ n \notin Tracked
        /\ Tracked' = {k \in Tracked : k > n - MaxTrack} \cup {n}
        /\ tracked'[n] = b
        /\ \A k \in Tracked' \ {n} : tracked'[k] = tracked[k]
    BY <1>1, <1>2, <1>3, <1>4, <1>5, RecordIs
  <1>7. \A k \in Tracked : /\ k \in Nat /\ k <= lastScanned /\ k < n
                           /\ tracked[k] \in BestChain /\ tracked[k] \in Blocks
                           /\ Height[tracked[k]] = k
    BY <1>2, <1>4, CalmTypes DEF OnBest, BestAt
  <1>8. \A a \in Alerts : notified'[a] = IF a \in hits THEN n ELSE notified[a]
    BY <1>1, <1>3
  <1>9. \A a \in Alerts : a \in hits <=> TxOf[a] \in TxsOf[b]
    BY <1>3
  <1>10. PICK state : state = [pass[p] EXCEPT !.seen = @ \cup hits]
    OBVIOUS
  <1> HIDE DEF hits
  <1>11. OnBest'
    <2> SUFFICES ASSUME NEW k \in Tracked' PROVE tracked'[k] \in BestChain /\ Height[tracked'[k]] = k
                                                 /\ tracked'[k] \in Blocks
      BY <1>5 DEF OnBest, BestAt
    <2>1. CASE k = n
      BY <1>4, <1>6, <2>1
    <2>2. CASE k # n
      BY <1>6, <1>7, <2>2
    <2> QED BY <2>1, <2>2
  \* The block recorded last is the parent of this one.
  <1>12. ASSUME lastScanned \in Tracked
         PROVE  Parent[b] = tracked[lastScanned] /\ b # Genesis
    <2>1. lastScanned \in Nat /\ Height[tracked[lastScanned]] = lastScanned
      BY <1>7, <1>12
    <2>2. b # Genesis
      BY <1>2, <1>4, <2>1, WatchAssumption
    <2>3. Height[Parent[b]] = lastScanned /\ Parent[b] \in BestChain
      BY <1>2, <1>4, <1>5, <2>2, ParentLower, BelowBasics DEF BestChain
    <2> QED BY <1>7, <1>12, <2>1, <2>2, <2>3, BestIsOne
  <1>13. OneBranch'
    <2> SUFFICES ASSUME NEW k \in Tracked', k < n
                 PROVE  k + 1 \in Tracked' /\ Parent[tracked'[k + 1]] = tracked'[k]
      BY <1>6 DEF OneBranch
    <2>1. k \in Tracked /\ k \in Nat /\ k <= lastScanned /\ k > n - MaxTrack
          /\ tracked'[k] = tracked[k]
      BY <1>5, <1>6, <1>7
    <2>2. CASE k < lastScanned
      <3>1. k + 1 \in Tracked /\ Parent[tracked[k + 1]] = tracked[k]
        BY <1>2, <2>1, <2>2 DEF WindowOK, OneBranch
      <3>2. k + 1 # n /\ k + 1 > n - MaxTrack
        BY <1>2, <1>4, <1>5, <2>1, <2>2
      <3> QED BY <1>6, <2>1, <3>1, <3>2
    <2>3. CASE ~(k < lastScanned)
      <3>1. k = lastScanned /\ k + 1 = n
        BY <1>2, <1>4, <2>1, <2>3
      <3> QED BY <1>6, <1>12, <2>1, <3>1
    <2> QED BY <2>2, <2>3
  <1>14. Announced'
    <2> SUFFICES ASSUME NEW k \in Tracked', NEW a \in Alerts, TxOf[a] \in TxsOf[tracked'[k]]
                 PROVE  notified'[a] = k
      BY DEF Announced
    <2>1. CASE k = n
      BY <1>6, <1>8, <1>9, <2>1
    <2>2. CASE k # n
      <3>1. k \in Tracked /\ tracked'[k] = tracked[k]
        BY <1>6, <2>2
      <3>2. notified[a] = k
        BY <1>2, <3>1 DEF WindowOK, Announced
      <3>3. tracked[k] # b
        BY <1>4, <1>7, <2>2, <3>1
      <3>4. TxOf[a] \notin TxsOf[b]
        BY <1>4, <1>5, <1>7, <3>1, <3>3, TxIsOnce DEF BestChain
      <3> QED BY <1>8, <1>9, <3>2, <3>4
    <2> QED BY <2>1, <2>2
  <1>15. NothingOlder'
    <2> SUFFICES ASSUME NEW k \in Tracked', NEW a \in Alerts, notified'[a] # None,
                        notified'[a] >= k, NEW c \in Below[tracked'[k]],
                        Height[c] \notin Tracked', TxOf[a] \in TxsOf[c]
                 PROVE  FALSE
      BY DEF NothingOlder
    <2>1. tracked'[k] \in Blocks /\ tracked'[k] \in BestChain
      BY <1>4, <1>6, <1>7
    <2>2. c \in BestChain /\ c \in Blocks /\ Height[c] \in Nat
      BY <1>5, <2>1, BelowBasics, ParentLower DEF BestChain
    <2>3. c # b
      BY <1>4, <1>6
    <2>4. notified'[a] = notified[a] /\ notified[a] \in Nat
      <3>1. a \notin hits
        BY <1>4, <1>5, <1>9, <2>2, <2>3, TxIsOnce DEF BestChain
      <3> QED BY <1>8, <3>1, CalmTypes
    <2>5. CASE Tracked = {}
      <3>1. k = n
        BY <1>6, <2>5
      <3>2. notified[a] <= lastScanned
        BY <1>2, <2>4, <2>5 DEF WindowOK, NothingNewer
      <3> QED BY <1>2, <1>4, <2>4, <3>1, <3>2
    <2>6. CASE Tracked # {}
      <3>1. lastScanned \in Tracked
        BY <1>2, <2>6 DEF WindowOK, OneBranch
      <3>2. \E j \in Tracked : /\ j <= k /\ j > n - MaxTrack /\ c \in Below[tracked[j]]
        <4>1. CASE k = n
          <5>1. c \in Below[Parent[b]]
            BY <1>4, <1>6, <1>12, <2>3, <3>1, <4>1, BelowBasics
          <5>2. lastScanned <= k /\ lastScanned > n - MaxTrack
            BY <1>2, <1>4, <1>5, <4>1
          <5> QED BY <1>12, <3>1, <5>1, <5>2
        <4>2. CASE k # n
          BY <1>6, <1>7, <4>2
        <4> QED BY <4>1, <4>2
      <3>3. PICK j \in Tracked : j <= k /\ j > n - MaxTrack /\ c \in Below[tracked[j]]
        BY <3>2
      <3>4. j \in Nat /\ k \in Nat /\ notified[a] >= j /\ notified[a] # None
        BY <1>5, <1>6, <1>7, <2>4, <3>3
      <3>5. Height[c] \in Tracked
        BY <1>2, <3>4, <3>3 DEF WindowOK, NothingOlder
      <3>6. c = tracked[Height[c]]
        BY <1>4, <2>2, <3>5, TrackedIsBest
      <3>7. notified[a] = Height[c]
        BY <1>2, <3>5, <3>6 DEF WindowOK, Announced
      <3>8. ~(Height[c] > n - MaxTrack)
        BY <1>6, <3>5
      <3> QED BY <1>5, <2>2, <3>3, <3>4, <3>7, <3>8
    <2> QED BY <2>5, <2>6
  <1>16. WindowOK'
    BY <1>6, <1>13, <1>14, <1>15 DEF WindowOK, NothingNewer
  <1>17. /\ state \in Pass /\ state.tip = Height[tip]
         /\ state.orphaned = pass[p].orphaned /\ state.seen = pass[p].seen \cup hits
    BY <1>2, <1>10 DEF Pass, hits
  <1>18. ASSUME NEW a \in state.orphaned \ state.seen PROVE Gone(a)'
    <2>1. Gone(a) /\ a \notin hits /\ a \in Alerts
      BY <1>2, <1>4, <1>17 DEF Pass
    <2> SUFFICES ASSUME NEW c \in BestChain, Height[c] <= n PROVE TxOf[a] \notin TxsOf[c]
      BY <1>5, <1>6 DEF Gone
    <2>2. CASE Height[c] = n
      BY <1>4, <1>9, <2>1, <2>2, BestIsOne
    <2>3. CASE Height[c] # n
      <3>1. Height[c] \in Nat
        BY CalmTypes, ParentLower
      <3>2. Height[c] <= lastScanned
        BY <1>2, <1>4, <2>3, <3>1
      <3> QED BY <2>1, <3>2 DEF Gone
    <2> QED BY <2>2, <2>3
  <1>19. /\ Scan(p, state, n + 1) /\ n + 1 \in Nat /\ n + 1 = lastScanned' + 1
         /\ lastScanned' \in Int
    BY <1>1, <1>3, <1>5, <1>6, <1>10
  <1>20. Alone' /\ \A q \in Passes : PassCalm(pass[q])'
    BY <1>1, <1>2, <1>11, <1>17, <1>18, <1>19, ScanCalm
  <1> QED BY <1>16, <1>20 DEF CalmState

\* A pass that checks can rely on this of the alert it asks about.
LEMMA CheckIs ==
  ASSUME WatchInv, CalmState, NEW p \in Passes, pass[p].at \in {"mempool", "recheck"}
  PROVE  /\ pass[p].check \in Alerts /\ Gone(pass[p].check)
         /\ pass[p].orphaned \in SUBSET Alerts
         /\ \A a \in pass[p].orphaned : Gone(a)
         /\ lastScanned >= SafeTip(pass[p].tip) /\ OnBest
         /\ pass[p].at = "recheck" => pass[p].next \in Heights
  <1>1. /\ PassCalm(pass[p]) /\ PassOK(pass[p]) /\ pass[p] \in Pass
    BY CalmPass
  <1>2. Scanning(pass[p]) /\ Checking(pass[p])
    BY <1>1 DEF PassCalm
  <1>3. pass[p].orphaned \in SUBSET Alerts /\ pass[p].seen = {}
    BY <1>1, <1>2 DEF Pass, Checking
  <1>4. \A a \in pass[p].orphaned : Gone(a)
    BY <1>2, <1>3 DEF Scanning
  <1>5. pass[p].at = "recheck" => pass[p].next \in Heights
    BY <1>1 DEF PassOK, Pass
  <1> QED BY <1>2, <1>3, <1>4, <1>5 DEF Checking, Scanning

\* The alert is dealt with, and the pass asks about the next one.
LEMMA CheckedCalm ==
  ASSUME WatchInv, CalmState, NEW p \in Passes, pass[p].at \in {"mempool", "recheck"},
         NextCheck(p, pass[p], pass[p].orphaned \ {pass[p].check}),
         UNCHANGED <<tip, tracked, lastScanned>>
  PROVE  Alone' /\ \A q \in Passes : PassCalm(pass[q])'
  <1>1. /\ Alone /\ pass[p] \in Pass /\ pass[p] # Idle /\ pass[p].tip = Height[tip]
    BY CalmPass
  <1>2. PICK left : left = pass[p].orphaned \ {pass[p].check}
    OBVIOUS
  <1>3. left \in SUBSET Alerts /\ \A a \in left : Gone(a)
    BY <1>2, CheckIs
  <1>4. \A a \in left : Gone(a)'
    BY <1>3 DEF Gone, BestChain
  <1>5. OnBest'
    BY CheckIs DEF OnBest, Tracked, BestAt, BestChain
  <1>6. lastScanned' >= SafeTip(pass[p].tip)
    BY CheckIs
  <1>7. NextCheck(p, pass[p], left)
    BY <1>2
  <1> QED BY <1>1, <1>3, <1>4, <1>5, <1>6, <1>7, NextCheckCalm

LEMMA StillThereCalm ==
  ASSUME WatchInv, CalmState, NEW p \in Passes, StillPooled(p) \/ StillMined(p)
  PROVE  CalmState'
  <1>1. /\ pass[p].at \in {"mempool", "recheck"}
        /\ NextCheck(p, pass[p], pass[p].orphaned \ {pass[p].check})
        /\ UNCHANGED <<tip, tracked, lastScanned, notified>>
    BY DEF StillPooled, StillMined
  <1>2. WindowOK'
    BY <1>1, WindowKept DEF CalmState
  <1> QED BY <1>1, <1>2, CheckedCalm DEF CalmState

\* The pass looks into a block for the alert it asks about, having looked
\* into all above it.
LEMMA LooksCalm ==
  ASSUME WatchInv, CalmState, NEW p \in Passes, pass[p].at \in {"mempool", "recheck"},
         NEW h \in Heights, Goes(p, [pass[p] EXCEPT !.at = "recheck", !.next = h]),
         UNCHANGED <<tip, tracked, lastScanned, notified>>,
         fails' = 0 => \A c \in BestChain : Height[c] > h => TxOf[pass[p].check] \notin TxsOf[c]
  PROVE  CalmState'
  <1>1. /\ Alone /\ WindowOK /\ PassCalm(pass[p]) /\ pass[p] \in Pass /\ pass[p] # Idle
    BY CalmPass
  <1>2. PICK s : s = [pass[p] EXCEPT !.at = "recheck", !.next = h]
    OBVIOUS
  <1>3. /\ s \in Pass /\ s.at = "recheck" /\ s.next = h /\ s.check = pass[p].check
        /\ s.tip = pass[p].tip /\ s.orphaned = pass[p].orphaned /\ s.seen = pass[p].seen
    BY <1>1, <1>2 DEF Pass
  <1>4. Scanning(pass[p]) /\ Checking(pass[p]) /\ pass[p].tip = Height[tip]
    BY <1>1 DEF PassCalm
  <1>5. Scanning(s)'
    BY <1>3, <1>4 DEF Scanning, OnBest, Tracked, Gone, BestAt, BestChain
  <1>6. Checking(s)'
    BY <1>3, <1>4 DEF Checking, BestChain
  <1>7. PassCalm(s)'
    BY <1>3, <1>4, <1>5, <1>6 DEF PassCalm
  <1>8. WindowOK'
    BY <1>1, WindowKept
  <1> QED BY <1>1, <1>2, <1>3, <1>7, <1>8, MovesCalm DEF CalmState

LEMMA NotPooledCalm ==
  ASSUME WatchInv, CalmState, NEW p \in Passes, NotPooled(p)
  PROVE  CalmState'
  <1>1. /\ pass[p].at = "mempool"
        /\ Goes(p, [pass[p] EXCEPT !.at = "recheck", !.next = pass[p].tip])
        /\ UNCHANGED <<tip, tracked, lastScanned, notified>>
    BY DEF NotPooled
  <1>2. PICK h : h = pass[p].tip
    OBVIOUS
  <1>3. h \in Heights /\ h = Height[tip] /\ tip \in Blocks
    BY <1>1, <1>2, CalmPass, CalmTypes
  <1>4. \A c \in BestChain : ~(Height[c] > h)
    BY <1>3, BelowBasics, ParentLower DEF BestChain
  <1>5. Goes(p, [pass[p] EXCEPT !.at = "recheck", !.next = h])
    BY <1>1, <1>2
  <1> QED BY <1>1, <1>3, <1>4, <1>5, LooksCalm

\* The row of the alert is removed: it was about no block of the window.
LEMMA ReversedKeeps ==
  ASSUME WatchInv, WindowOK, OnBest, NEW a \in Alerts, Gone(a),
         notified' = [notified EXCEPT ![a] = None], UNCHANGED <<tracked, lastScanned>>
  PROVE  WindowOK'
  <1>1. Tracked' = Tracked
    BY DEF Tracked
  <1>2. \A b \in Alerts : notified'[b] = IF b = a THEN None ELSE notified[b]
    BY DEF WatchInv, TypeOK
  <1>3. ASSUME NEW h \in Tracked PROVE TxOf[a] \notin TxsOf[tracked[h]]
    BY CalmTypes DEF OnBest, BestAt, Gone
  <1>4. Announced'
    BY <1>1, <1>2, <1>3 DEF WindowOK, Announced
  <1>5. OneBranch' /\ NothingOlder' /\ NothingNewer'
    BY <1>1, <1>2 DEF WindowOK, OneBranch, NothingOlder, NothingNewer
  <1> QED BY <1>4, <1>5 DEF WindowOK

\* What one look into a block says while no RPC has failed.
LEMMA LookedInto ==
  ASSUME WatchInv, CalmState, NEW p \in Passes, NotMined(p), fails' = 0,
         NEW c \in BestChain, Height[c] > pass[p].next - 1
  PROVE  TxOf[pass[p].check] \notin TxsOf[c]
  <1>1. /\ pass[p].at = "recheck" /\ ((~Mined(p) /\ NoFail) \/ Fail)
    BY DEF NotMined
  <1>2. fails \in Nat
    BY WatchAssumption DEF WatchInv, TypeOK
  <1>3. ~Mined(p) /\ fails = 0
    BY <1>1, <1>2 DEF Fail, NoFail
  <1>4. pass[p].next \in Nat /\ c \in Blocks /\ Height[c] \in Nat
    BY <1>1, CheckIs, CalmTypes, ParentLower DEF Heights
  <1>5. CASE Height[c] = pass[p].next
    BY <1>3, <1>4, <1>5 DEF Mined, BestAt
  <1>6. CASE Height[c] # pass[p].next
    <2>1. Height[c] > pass[p].next
      BY <1>4, <1>6
    <2> QED BY <1>1, <1>3, <2>1, CalmPass DEF PassCalm, Checking
  <1> QED BY <1>5, <1>6

LEMMA NotMinedCalm ==
  ASSUME WatchInv, CalmState, NEW p \in Passes, NotMined(p)
  PROVE  CalmState'
  <1>1. /\ pass[p].at = "recheck"
        /\ IF pass[p].next - 1 > pass[p].tip - MinConf /\ pass[p].next - 1 >= 0
           THEN /\ Goes(p, [pass[p] EXCEPT !.next = pass[p].next - 1])
                /\ UNCHANGED notified
           ELSE /\ notified' = [notified EXCEPT ![pass[p].check] = None]
                /\ NextCheck(p, pass[p], pass[p].orphaned \ {pass[p].check})
        /\ UNCHANGED <<tip, tracked, lastScanned>>
    BY DEF NotMined
  <1>2. CASE pass[p].next - 1 > pass[p].tip - MinConf /\ pass[p].next - 1 >= 0
    <2>1. PICK h : h = pass[p].next - 1
      OBVIOUS
    <2>2. h \in Heights
      BY <1>1, <1>2, <2>1, CheckIs, TreeAssumption DEF Heights
    <2>3. Goes(p, [pass[p] EXCEPT !.at = "recheck", !.next = h]) /\ UNCHANGED notified
      <3>1. pass[p] \in Pass
        BY <1>1, CalmPass
      <3>2. [pass[p] EXCEPT !.at = "recheck", !.next = h] = [pass[p] EXCEPT !.next = h]
        BY <1>1, <3>1 DEF Pass
      <3> QED BY <1>1, <1>2, <2>1, <3>2
    <2>4. fails' = 0 =>
            \A c \in BestChain : Height[c] > h => TxOf[pass[p].check] \notin TxsOf[c]
      BY <2>1, LookedInto
    <2> QED BY <1>1, <2>2, <2>3, <2>4, LooksCalm
  <1>3. CASE ~(pass[p].next - 1 > pass[p].tip - MinConf /\ pass[p].next - 1 >= 0)
    <2>1. /\ notified' = [notified EXCEPT ![pass[p].check] = None]
          /\ NextCheck(p, pass[p], pass[p].orphaned \ {pass[p].check})
      BY <1>1, <1>3
    <2>2. WindowOK'
      BY <1>1, <2>1, CheckIs, ReversedKeeps DEF CalmState
    <2> QED BY <1>1, <2>1, <2>2, CheckedCalm DEF CalmState
  <1> QED BY <1>2, <1>3

LEMMA CalmInit == Init => CalmInv
  <1> SUFFICES ASSUME Init PROVE CalmInv
    OBVIOUS
  <1>1. tip \in Blocks /\ Height[tip] \in Nat /\ MinConf \in Nat /\ buried = BuriedUnder(tip)
    BY TreeAssumption, WatchAssumption, ParentLower DEF Init
  <1>2. DeepEnough
    <2>1. \A b \in Blocks : Height[b] \in Nat
      BY ParentLower
    <2>2. ASSUME NEW b \in buried PROVE Height[b] <= SafeTip(Height[tip])
      <3>1. b \in Blocks /\ Height[b] + MinConf <= Height[tip] + 1
        BY <1>1, <2>2 DEF BuriedUnder
      <3> QED BY <1>1, <2>1, <3>1 DEF SafeTip
    <2> QED BY <2>2 DEF DeepEnough
  <1>3. Tracked = {} /\ lastScanned = None
    BY DEF Init, Tracked
  <1>4. \A p \in Passes : pass[p] = Idle
    BY DEF Init
  <1>5. Alone /\ \A p \in Passes : PassCalm(pass[p])
    <2>1. PassCalm(Idle)
      BY DEF PassCalm, Idle
    <2> QED BY <1>4, <2>1 DEF Alone
  <1>6. WindowOK
    BY <1>3 DEF WindowOK, OneBranch, Announced, NothingOlder, NothingNewer
  <1> QED BY <1>2, <1>5, <1>6 DEF CalmInv, CalmState

LEMMA CalmStep == WatchInv /\ CalmInv /\ [Next]_vars => CalmInv'
  <1> SUFFICES ASSUME WatchInv, CalmInv, [Next]_vars PROVE CalmInv'
    OBVIOUS
  <1>1. DeepEnough /\ DeepEnough'
    BY DeepStep DEF CalmInv
  <1>2. SUFFICES ASSUME Calm' PROVE CalmState'
    BY <1>1 DEF CalmInv
  <1>3. CalmState
    BY <1>2, UpsetGrows DEF CalmInv
  <1>4. CASE NewTip
    BY <1>2, <1>3, <1>4, NewTipCalm
  <1>5. CASE MempoolMoves
    BY <1>3, <1>5, MempoolCalm
  <1>6. CASE Restart
    BY <1>3, <1>6, RestartCalm
  <1>7. ASSUME NEW p \in Passes, Start(p) PROVE CalmState'
    BY <1>2, <1>3, <1>7, StartCalm
  <1>8. ASSUME NEW p \in Passes, Answered(p) PROVE CalmState'
    BY <1>1, <1>3, <1>8, TipKnownCalm, ProbeMatchesCalm, ProbeDiffersCalm, HashCalm,
       BlockReadCalm, StillThereCalm, NotPooledCalm, NotMinedCalm DEF Answered
  <1>9. ASSUME NEW p \in Passes, TipFails(p) \/ ScanFails(p) PROVE CalmState'
    BY <1>3, <1>9, GiveUpCalm
  <1>10. CASE UNCHANGED vars
    <2>1. UNCHANGED <<tip, mempool, tracked, lastScanned, notified, pass, fails>>
      BY <1>10 DEF vars, botVars, boundVars
    <2>2. WindowOK'
      BY <1>3, <2>1, WindowKept DEF CalmState
    <2> QED BY <1>3, <2>1, <2>2 DEF CalmState, Alone, PassCalm, Probing, Scanning, Checking, Gone,
         OnBest, Tracked, BestAt, BestChain
  <1> QED BY <1>4, <1>5, <1>6, <1>7, <1>8, <1>9, <1>10 DEF Next

LEMMA CalmInvariant == Spec => [](WatchInv /\ CalmInv)
  BY WatchInit, WatchStep, CalmInit, CalmStep, PTL DEF Spec

\* While passes do not overlap and the chain moves only between them, the
\* window is one branch without a gap, and every watched transaction of its
\* blocks was announced, whatever deep reorganisations, RPC failures and
\* restarts came before (chaintracker.mjs, plan and record; addrwatch.mjs).
THEOREM WindowStaysABranch == Spec => []WindowIsBranch
  <1>1. ASSUME WatchInv, CalmInv PROVE WindowIsBranch
    <2> SUFFICES ASSUME Calm PROVE \A h \in Tracked :
                   /\ h < lastScanned => /\ h + 1 \in Tracked
                                         /\ Parent[tracked[h + 1]] = tracked[h]
                   /\ \A a \in Alerts : TxOf[a] \in TxsOf[tracked[h]] => notified[a] # None
      BY DEF WindowIsBranch, Calm
    <2>1. OneBranch /\ Announced
      BY <1>1 DEF CalmInv, CalmState, WindowOK
    <2>2. \A h \in Tracked : h # None
      BY <1>1, CalmTypes, WatchAssumption
    <2> QED BY <2>1, <2>2 DEF OneBranch, Announced
  <1> QED BY <1>1, CalmInvariant, PTL

\* Only the last look of a check removes the row of an alert.
LEMMA ReversalIsChecked ==
  ASSUME WatchInv, [Next]_vars, NEW a \in Alerts, notified[a] # None, notified'[a] = None
  PROVE  \E p \in Passes :
           /\ NotMined(p) /\ a = pass[p].check
           /\ ~(pass[p].next - 1 > pass[p].tip - MinConf /\ pass[p].next - 1 >= 0)
  <1>1. notified' # notified
    OBVIOUS
  <1>2. ~(NewTip \/ MempoolMoves \/ Restart \/ UNCHANGED vars)
    BY <1>1 DEF NewTip, MempoolMoves, Restart, vars, botVars
  <1>3. PICK p \in Passes : Start(p) \/ Answered(p) \/ TipFails(p) \/ ScanFails(p)
    BY <1>2 DEF Next
  <1>4. ~(Start(p) \/ TipFails(p) \/ ScanFails(p))
    BY <1>1 DEF Start, TipFails, ScanFails
  <1>5. ~(TipKnown(p) \/ ProbeMatches(p) \/ ProbeDiffers(p) \/ HashKnown(p))
    BY <1>1 DEF TipKnown, ProbeMatches, ProbeDiffers, HashKnown
  <1>6. ~(StillPooled(p) \/ NotPooled(p) \/ StillMined(p))
    BY <1>1 DEF StillPooled, NotPooled, StillMined
  <1>7. ASSUME BlockRead(p) PROVE FALSE
    <2>1. /\ pass[p].at = "block"
          /\ notified'[a] = pass[p].next \/ notified'[a] = notified[a]
      BY <1>7 DEF BlockRead
    <2>2. pass[p].next # None
      BY <2>1, PassTip DEF PassOK
    <2> QED BY <2>1, <2>2
  <1>8. NotMined(p)
    BY <1>3, <1>4, <1>5, <1>6, <1>7 DEF Answered
  <1>9. ~(pass[p].next - 1 > pass[p].tip - MinConf /\ pass[p].next - 1 >= 0)
    BY <1>1, <1>8 DEF NotMined
  <1>10. notified' = [notified EXCEPT ![pass[p].check] = None]
    BY <1>8, <1>9 DEF NotMined
  <1>11. a = pass[p].check
    BY <1>10 DEF WatchInv, TypeOK
  <1> QED BY <1>8, <1>9, <1>11

\* A payment is reversed only when no block of the best chain holds it, while
\* passes do not overlap, the chain moves only between them and no RPC has
\* failed (addrwatch.mjs, stillPresent and the orphaned alerts).
THEOREM ReversalsAreTrue == Spec => ReversedIsGone
  <1> DEFINE Reversal ==
        \A a \in Alerts :
          /\ notified[a] # None /\ notified'[a] = None
          /\ upset \subseteq {"deep"} /\ fails = 0
          => TxOf[a] \notin Confirmed(tip)
  <1>1. ASSUME WatchInv, CalmInv, [Next]_vars PROVE Reversal
    <2> SUFFICES ASSUME NEW a \in Alerts, notified[a] # None, notified'[a] = None, Calm, fails = 0,
                        NEW c \in BestChain
                 PROVE  TxOf[a] \notin TxsOf[c]
      BY DEF Calm, Confirmed, BestChain
    <2>1. PICK p \in Passes :
            /\ NotMined(p) /\ a = pass[p].check
            /\ ~(pass[p].next - 1 > pass[p].tip - MinConf /\ pass[p].next - 1 >= 0)
      BY <1>1, ReversalIsChecked
    <2>2. CalmState /\ DeepEnough /\ pass[p].at = "recheck"
      BY <1>1, <2>1 DEF CalmInv, NotMined
    <2>3. /\ Gone(a) /\ lastScanned >= SafeTip(pass[p].tip) /\ pass[p].next \in Nat
      BY <1>1, <2>1, <2>2, CheckIs DEF Heights
    <2>4. /\ pass[p].tip = Height[tip] /\ Height[tip] \in Nat /\ MinConf \in Nat
          /\ lastScanned \in Int /\ PassCalm(pass[p])
      BY <1>1, <2>2, CalmPass, CalmTypes
    <2>5. c \in Blocks /\ Height[c] \in Nat
      BY <1>1, CalmTypes, ParentLower
    <2>6. SafeTip(pass[p].tip) >= 0
      <3>1. PICK b \in buried : Height[b] = notified[a]
        BY <1>1 DEF WatchInv, BuriedOnly
      <3>2. notified[a] <= SafeTip(Height[tip]) /\ notified[a] \in Nat
        BY <1>1, <2>2, <3>1, CalmTypes DEF DeepEnough
      <3> QED BY <2>4, <3>2 DEF SafeTip
    <2>7. CASE Height[c] > pass[p].next
      BY <2>1, <2>2, <2>4, <2>7 DEF PassCalm, Checking
    <2>8. CASE ~(Height[c] > pass[p].next)
      <3>1. Height[c] <= lastScanned
        BY <2>1, <2>3, <2>4, <2>5, <2>6, <2>8 DEF SafeTip
      <3> QED BY <2>3, <3>1 DEF Gone
    <2> QED BY <2>7, <2>8
  <1>2. WatchInv /\ CalmInv /\ [Next]_vars => [Reversal]_vars
    BY <1>1
  <1> QED BY <1>2, CalmInvariant, PTL DEF Spec, ReversedIsGone
===============================================================================
