---------------------------- MODULE WalletProofs ----------------------------
(***************************************************************************)
(* An open wallet session, proved for every window, margin and bound: no   *)
(* coin of a payment the node took is offered again while the payment may  *)
(* confirm, change goes to a new address each time, and a payment shown as *)
(* dropped is gone.                                                        *)
(*                                                                         *)
(* The inductive invariant SessionInv says why: names of payments are not  *)
(* reused, a coin is made once, an answer on its way is mended by the      *)
(* coins kept back, and a counter in memory or in the storage has left     *)
(* every change address told to the node behind.                           *)
(***************************************************************************)
EXTENDS WalletSession, SwapConnect, TLAPS, WellFoundedInduction, SequenceTheorems

(* The highest index of a finite set of coins. *)
Lower == {s \in Nat \X Nat : s[1] < s[2]}

LEMMA SmallestNat ==
  ASSUME NEW T \in SUBSET Nat, T # {}
  PROVE  \E n \in T : \A m \in T : n <= m
  <1>1. Lower = OpToRel(<, Nat)
    BY DEF Lower, OpToRel
  <1>2. PICK n \in T : \A m \in T : <<m, n>> \notin Lower
    BY <1>1, NatLessThanWellFounded, WFMin
  <1>3. ASSUME NEW m \in T PROVE n <= m
    <2>1. <<m, n>> \in Nat \X Nat /\ <<m, n>>[1] = m /\ <<m, n>>[2] = n
      OBVIOUS
    <2> QED BY <1>2, <2>1 DEF Lower
  <1> QED BY <1>3

LEMMA MaxIs ==
  ASSUME NEW S \in SUBSET Int, S # {}, NEW top \in Int, \A x \in S : x <= top
  PROVE  Max(S) \in S /\ \A x \in S : x <= Max(S)
  <1> DEFINE T == {n \in Nat : \E x \in S : n = top - x}
  <1>1. PICK x0 \in S : TRUE
    OBVIOUS
  <1>2. top - x0 \in T
    OBVIOUS
  <1>3. PICK n \in T : \A m \in T : n <= m
    BY <1>2, SmallestNat
  <1>4. PICK x \in S : n = top - x
    BY <1>3
  <1>5. ASSUME NEW y \in S PROVE y <= x
    <2>1. top - y \in T
      OBVIOUS
    <2> QED BY <1>3, <1>4, <2>1
  <1> QED BY <1>5 DEF Max

LEMMA HiIs ==
  ASSUME NEW K \in SUBSET Coins, NEW ch \in Chains, NEW top \in Int, top >= -1,
         \A c \in K : IndexOf(c) <= top
  PROVE  Hi(K, ch) \in -1 .. top /\ \A c \in K : ChainOf(c) = ch => IndexOf(c) <= Hi(K, ch)
  <1> DEFINE S == {-1} \cup {IndexOf(c) : c \in {k \in K : ChainOf(k) = ch}}
  <1>1. \A c \in K : IndexOf(c) \in Nat
    BY WindowAssumption DEF Coins, IndexOf
  <1>2. S \in SUBSET Int /\ S # {} /\ \A x \in S : x <= top /\ x >= -1
    BY <1>1
  <1>3. Max(S) \in S /\ \A x \in S : x <= Max(S)
    BY <1>2, MaxIs
  <1>4. Hi(K, ch) = Max(S)
    BY DEF Hi
  <1> HIDE DEF S
  <1>5. Hi(K, ch) \in -1 .. top
    <2>1. Max(S) \in Int /\ Max(S) <= top /\ Max(S) >= -1
      BY <1>2, <1>3
    <2> QED BY <1>4, <2>1
  <1>6. \A c \in K : ChainOf(c) = ch => IndexOf(c) \in S
    BY DEF S
  <1> QED BY <1>3, <1>4, <1>5, <1>6

-------------------------------------------------------------------------------
(* The invariant.                                                          *)
(* A coin that has been made: inherited, or by a payment mined, or paid in. *)
Born(c) ==
    /\ MakerOf(c) \in 1 .. MaxSends => MakerOf(c) \in mined
    /\ MakerOf(c) > MaxSends => MakerOf(c) <= MaxSends + incoming

(* Payment i is neither in the mempool nor mined. *)
Gone(i) == i \notin mined /\ \A p \in pool : p.id # i

(* What the session knows lies inside the largest window, and a broadcast has *)
(* something to send.                                                        *)
Reach ==
    /\ wire # "none" => built # None
    /\ \A c \in coins : IndexOf(c) < WinMax
    /\ phase = "answered" => \A c \in answer.coins : IndexOf(c) < WinMax
    /\ \A ch \in Chains : meta[ch] < WinMax /\ stored[ch] < WinMax

(* Every coin anybody holds, lists or spends has been made. *)
Births ==
    /\ \A c \in held \cup coins \cup fresh : Born(c)
    /\ phase = "answered" => \A c \in answer.coins : Born(c)
    /\ built # None => \A c \in built.inputs : Born(c)
    /\ \A p \in pool \cup sent : \A c \in p.inputs : Born(c)

(* The numbers of payments are not reused, and a prepared one is new. *)
Names ==
    /\ \A p \in pool \cup told \cup sent : p.id < nextId
    /\ \A i \in mined : i < nextId /\ \A p \in pool : p.id # i
    /\ \A p, q \in pool : p.id = q.id => p = q
    /\ \A s \in sent, p \in pool : p.id = s.id => p.inputs = s.inputs
    /\ built # None =>
         /\ built.id < nextId
         /\ \A p \in told \cup sent : p.id # built.id
         /\ IF wire = "taken" THEN \A p \in pool : p.id = built.id => p = built
                              ELSE Gone(built.id)

(* What a mined payment of the session spends is spent. *)
Consumed ==
    /\ \A s \in sent : s.id \in mined => s.inputs \cap held = {}
    /\ built # None /\ built.id \in mined => built.inputs \cap held = {}

(* NeverTwiceOffered, and an answer on its way will not break it: what it     *)
(* does not mark is kept back.                                              *)
KeptBack ==
    /\ NeverTwiceOffered
    /\ phase = "answered" =>
         \A p \in told \cap pool : p.inputs \cap answer.coins \subseteq answer.marked \cup fresh

(* DroppedIsGone, and likewise. *)
DropsAreTrue ==
    /\ DroppedIsGone
    /\ phase = "answered" =>
         \A s \in sent : ~(s.inputs \cap answer.coins \subseteq answer.marked \cup fresh) => Gone(s.id)

\* A counter that has left the change address of p behind.
Past(n, p) == p.change # None => n >= Lesser(WinMax - 1, p.change + 1)

(* DistinctChange, and why: the counters, and the payment being built, are     *)
(* past every change address told to the node.                              *)
Advanced ==
    /\ DistinctChange
    /\ \A p \in told : /\ Past(meta["change"], p) /\ Past(stored["change"], p)
                       /\ built # None /\ built.change # None => Past(built.change, p)

SessionInv ==
    TypeOK /\ Reach /\ Births /\ Names /\ Consumed /\ KeptBack /\ DropsAreTrue /\ Advanced

-------------------------------------------------------------------------------
LEMMA Window == /\ WinMax \in Nat /\ WinMax >= 1 /\ WinMax - 1 \in Nat /\ Range0 \in 1 .. WinMax
                /\ Margin \in Nat /\ Step \in Nat \ {0}
                /\ MaxSends \in Nat /\ MaxIncoming \in Nat
  BY WindowAssumption

LEMMA OfferedIs ==
  ASSUME TypeOK, Reach, NEW ch \in Chains
  PROVE  Offered(ch) \in 0 .. WinMax /\ Offered(ch) >= meta[ch] /\ Offered(ch) >= Hi(coins, ch) + 1
  <1>1. \A c \in coins : IndexOf(c) <= WinMax - 1
    BY Window DEF TypeOK, Reach, Coins, IndexOf
  <1>2. Hi(coins, ch) \in -1 .. WinMax - 1
    <2>1. coins \in SUBSET Coins /\ WinMax - 1 \in Int /\ WinMax - 1 >= -1
      BY Window DEF TypeOK
    <2> QED BY <1>1, <2>1, HiIs
  <1> QED BY <1>2, Window DEF Offered, Greater, TypeOK, Reach

LEMMA RememberedIs ==
  ASSUME TypeOK, Reach, phase = "answered"
  PROVE  /\ Remembered(answer.coins) \in [Chains -> 0 .. WinMax - 1]
         /\ \A ch \in Chains : Remembered(answer.coins)[ch] >= meta[ch]
  <1>1. \A c \in answer.coins : IndexOf(c) <= WinMax - 1
    BY Window DEF TypeOK, Reach, Coins, IndexOf
  <1>2. \A ch \in Chains : Hi(answer.coins, ch) \in -1 .. WinMax - 1
    <2>1. answer.coins \in SUBSET Coins /\ WinMax - 1 \in Int /\ WinMax - 1 >= -1
      BY Window DEF TypeOK
    <2> QED BY <1>1, <2>1, HiIs
  <1>3. ASSUME NEW ch \in Chains
        PROVE  /\ Greater(meta[ch], Lesser(WinMax - 1, Hi(answer.coins, ch) + 1)) \in 0 .. WinMax - 1
               /\ Greater(meta[ch], Lesser(WinMax - 1, Hi(answer.coins, ch) + 1)) >= meta[ch]
    BY <1>2, <1>3, Window DEF Greater, Lesser, TypeOK, Reach
  <1> QED BY <1>3 DEF Remembered

LEMMA SessionInit == Init => SessionInv
  <1> SUFFICES ASSUME Init PROVE SessionInv
    OBVIOUS
  <1>1. TypeOK
    <2>1. held \subseteq Coins
      <3>1. (0 .. WinMax - 1) \subseteq 0 .. WinMax /\ {0} \subseteq 0 .. MaxSends + MaxIncoming
        BY Window
      <3> QED BY <3>1, WindowAssumption DEF Init, Coins
    <2>2. meta \in [Chains -> 0 .. WinMax] /\ stored \in [Chains -> 0 .. WinMax]
      BY Window DEF Init, NoCounters
    <2>3. 1 \in 1 .. MaxSends + 1 /\ 0 \in 0 .. MaxIncoming /\ 0 \in 0 .. MaxFaults
      BY WindowAssumption
    <2> QED BY <2>1, <2>2, <2>3, Window DEF Init, TypeOK
  <1>2. Reach
    BY Window DEF Init, Reach, NoCounters, Chains
  <1>3. Births
    BY Window, WindowAssumption DEF Init, Births, Born, MakerOf
  <1>4. Names /\ Consumed /\ KeptBack /\ DropsAreTrue /\ Advanced
    BY DEF Init, Names, Consumed, KeptBack, DropsAreTrue, Advanced, NeverTwiceOffered, DroppedIsGone, DistinctChange
  <1> QED BY <1>1, <1>2, <1>3, <1>4 DEF SessionInv

LEMMA TypeStep == TypeOK /\ Reach /\ [Next]_vars => TypeOK' /\ Reach'
  <1> SUFFICES ASSUME TypeOK, Reach, [Next]_vars PROVE TypeOK' /\ Reach'
    OBVIOUS
  <1> USE DEF nodeVars, coinVars, sendVars, askVars, idxVars
  <1>1. CASE UNCHANGED vars
    BY <1>1 DEF TypeOK, Reach, vars
  <1>2. CASE Ask
    BY <1>2 DEF Ask, TypeOK, Reach
  <1>3. CASE Answer
    <2>1. answer \in 1 .. WinMax
      BY <1>3 DEF Answer, TypeOK
    <2>2. answer' = [coins |-> {c \in held : InWindow(c)}, marked |-> {c \in held : InWindow(c)} \cap BeingSpent]
      BY <1>3 DEF Answer
    <2>3. \A c \in answer'.coins : IndexOf(c) < WinMax
      BY <2>1, <2>2, Window DEF InWindow, TypeOK, Coins, IndexOf
    <2>4. answer'.coins \subseteq Coins /\ answer'.marked \subseteq answer'.coins
      BY <2>2 DEF TypeOK
    <2> QED BY <1>3, <2>3, <2>4 DEF Answer, TypeOK, Reach
  <1>4. CASE AskFails
    BY <1>4, Window, WindowAssumption DEF AskFails, TypeOK, Reach
  <1>5. CASE TakeAnswer
    <2> DEFINE found == answer.coins
               counters == Remembered(found)
    <2>1. counters \in [Chains -> 0 .. WinMax - 1]
      BY <1>5, RememberedIs DEF TakeAnswer
    <2>2. /\ coins' = found /\ marked' = answer.marked \cup KeptSpends(found) /\ scanned' = TRUE
          /\ fresh' = KeptSpends(found) /\ meta' = counters /\ stored' \in {counters, stored}
          /\ seen' = seen \cup {<<ChainOf(c), IndexOf(c)>> : c \in found}
          /\ range' \in {Lesser(WinMax, range + Step), range}
          /\ phase' \in {"asked", "idle"} /\ (phase' = "asked" => answer' = range')
          /\ sent' = sent \/ sent' = {[s EXCEPT !.status = StatusOf(s.inputs, found, marked')] : s \in sent}
          /\ UNCHANGED <<held, pool, mined, incoming, built, wire, nextId, told, faults>>
      BY <1>5 DEF TakeAnswer
    <2>3. \A c \in found : c \in Coins /\ IndexOf(c) < WinMax
      BY <1>5 DEF TakeAnswer, TypeOK, Reach
    <2>4. marked' \subseteq Coins /\ fresh' \subseteq Coins
      BY <1>5, <2>2, <2>3 DEF KeptSpends, TypeOK, TakeAnswer
    <2>5. \A c \in found : <<ChainOf(c), IndexOf(c)>> \in Chains \X (0 .. WinMax)
      BY <2>3 DEF Coins, ChainOf, IndexOf
    <2>6. range' \in 1 .. WinMax
      BY <2>2, Window DEF TypeOK, Lesser
    <2>7. sent' \subseteq [id : 1 .. MaxSends, inputs : SUBSET Coins, status : {"pending", "confirmed", "dropped"}]
      <3>1. \A s \in sent : StatusOf(s.inputs, found, marked') \in {"pending", "confirmed", "dropped"}
        BY DEF StatusOf
      <3>2. \A s \in sent : s \in [id : 1 .. MaxSends, inputs : SUBSET Coins,
                                    status : {"pending", "confirmed", "dropped"}]
        BY DEF TypeOK
      <3>3. ASSUME NEW s \in sent
            PROVE  [s EXCEPT !.status = StatusOf(s.inputs, found, marked')]
                     \in [id : 1 .. MaxSends, inputs : SUBSET Coins, status : {"pending", "confirmed", "dropped"}]
        <4> DEFINE st == StatusOf(s.inputs, found, marked')
        <4>1. st \in {"pending", "confirmed", "dropped"}
          BY <3>1
        <4> HIDE DEF st
        <4>2. [s EXCEPT !.status = st] \in [id : 1 .. MaxSends, inputs : SUBSET Coins,
                                            status : {"pending", "confirmed", "dropped"}]
          BY <3>2, <4>1
        <4> QED BY <4>2 DEF st
      <3>4. CASE sent' = sent
        BY <3>2, <3>4
      <3>5. CASE sent' = {[s EXCEPT !.status = StatusOf(s.inputs, found, marked')] : s \in sent}
        <4> SUFFICES ASSUME NEW x \in sent'
                     PROVE  x \in [id : 1 .. MaxSends, inputs : SUBSET Coins,
                                   status : {"pending", "confirmed", "dropped"}]
          OBVIOUS
        <4>1. PICK s \in sent : x = [s EXCEPT !.status = StatusOf(s.inputs, found, marked')]
          BY <3>5, Zenon
        <4> QED BY <3>3, <4>1, Zenon
      <3> QED BY <2>2, <3>4, <3>5
    <2>8. meta' \in [Chains -> 0 .. WinMax] /\ stored' \in [Chains -> 0 .. WinMax]
      BY <2>1, <2>2, Window DEF TypeOK
    <2>9. \A ch \in Chains : meta'[ch] < WinMax /\ stored'[ch] < WinMax
      BY <2>1, <2>2, Window DEF Reach
    <2> HIDE DEF found, counters
    <2>10. TypeOK'
      BY <2>2, <2>3, <2>4, <2>5, <2>6, <2>7, <2>8 DEF TypeOK
    <2> QED BY <2>2, <2>3, <2>9, <2>10 DEF Reach
  <1>6. CASE ScanDeeper
    <2>1. range' \in 1 .. WinMax
      BY <1>6, Window DEF ScanDeeper, Lesser, TypeOK
    <2> QED BY <1>6, <2>1 DEF ScanDeeper, TypeOK, Reach
  <1>7. CASE GraceEnds
    BY <1>7 DEF GraceEnds, TypeOK, Reach
  <1>8. CASE NextReceive
    <2>1. Lesser(WinMax - 1, Offered("recv") + 1) \in 0 .. WinMax - 1
      BY OfferedIs, Window DEF Lesser, Chains
    <2>2. meta' \in [Chains -> 0 .. WinMax] /\ \A ch \in Chains : meta'[ch] < WinMax
      <3> DEFINE n == Lesser(WinMax - 1, Offered("recv") + 1)
      <3>1. meta' = [meta EXCEPT !["recv"] = n] /\ n \in 0 .. WinMax - 1
        BY <1>8, <2>1 DEF NextReceive
      <3> HIDE DEF n
      <3> QED BY <3>1, Window DEF TypeOK, Reach, Chains
    <2> QED BY <1>8, <2>2 DEF NextReceive, TypeOK, Reach
  <1>9. CASE Prepare
    <2>1. PICK ins \in (SUBSET (coins \ marked)) \ {{}}, change \in {Offered("change"), None} :
            built' = [id |-> nextId, inputs |-> ins, change |-> change]
      BY <1>9 DEF Prepare
    <2>2. change \in (0 .. WinMax) \cup {None} /\ ins \in SUBSET Coins
      BY <2>1, OfferedIs DEF Chains, TypeOK
    <2>3. nextId \in 1 .. MaxSends /\ nextId' \in 1 .. MaxSends + 1
      BY <1>9, Window DEF Prepare, TypeOK
    <2>4. built' \in Payments
      BY <2>1, <2>2, <2>3 DEF Payments
    <2> QED BY <1>9, <2>3, <2>4 DEF Prepare, TypeOK, Reach
  <1>10. CASE Discard
    BY <1>10 DEF Discard, TypeOK, Reach
  <1>11. CASE Send
    <2>1. pool' \subseteq Payments /\ wire' \in {"none", "taken", "refused"}
      BY <1>11 DEF Send, TypeOK
    <2> QED BY <1>11, <2>1 DEF Send, TypeOK, Reach
  <1>12. CASE Replied
    <2>1. built \in Payments
      BY <1>12 DEF Replied, TypeOK, Reach
    <2>2. built.inputs \subseteq Coins /\ built.id \in 1 .. MaxSends
      BY <2>1 DEF Payments
    <2>3. [id |-> built.id, inputs |-> built.inputs, status |-> "pending"]
            \in [id : 1 .. MaxSends, inputs : SUBSET Coins, status : {"pending", "confirmed", "dropped"}]
      BY <2>2
    <2>4. meta' \in [Chains -> 0 .. WinMax] /\ \A ch \in Chains : meta'[ch] < WinMax
      <3> DEFINE n == Lesser(WinMax - 1, built.change + 1)
      <3>1. built.change # None => built.change \in 0 .. WinMax
        BY <2>1 DEF Payments
      <3>2. built.change # None => n \in 0 .. WinMax - 1
        BY <3>1, Window DEF Lesser
      <3>3. meta' = meta \/ (built.change # None /\ meta' = [meta EXCEPT !["change"] = n])
        BY <1>12 DEF Replied
      <3> HIDE DEF n
      <3> QED BY <3>2, <3>3, Window DEF TypeOK, Reach
    <2>5. stored' \in {stored, meta'}
      BY <1>12 DEF Replied
    <2>6. /\ fresh' = fresh \cup built.inputs /\ marked' = marked \cup (built.inputs \cap coins)
          /\ sent' = sent \cup {[id |-> built.id, inputs |-> built.inputs, status |-> "pending"]}
          /\ told' = told \cup {built} /\ built' = None /\ wire' = "none"
          /\ UNCHANGED <<nodeVars, coins, scanned, askVars, range, nextId, seen, faults>>
      BY <1>12 DEF Replied
    <2>7. TypeOK'
      BY <2>1, <2>2, <2>3, <2>4, <2>5, <2>6 DEF TypeOK
    <2>8. Reach'
      BY <2>4, <2>5, <2>6 DEF Reach
    <2> QED BY <2>7, <2>8
  <1>13. CASE Threw
    BY <1>13, Window, WindowAssumption DEF Threw, TypeOK, Reach
  <1>14. CASE Reload
    <2>1. \A ch \in Chains : (IF stored[ch] < WinMax THEN stored[ch] ELSE 0) \in 0 .. WinMax - 1
      BY Window DEF TypeOK, Reach
    <2>2. meta' \in [Chains -> 0 .. WinMax] /\ \A ch \in Chains : meta'[ch] < WinMax
      BY <1>14, <2>1, Window DEF Reload
    <2>3. faults' \in 0 .. MaxFaults
      BY <1>14, WindowAssumption DEF Reload, TypeOK
    <2>4. TypeOK'
      BY <1>14, <2>2, <2>3, Window DEF Reload, TypeOK
    <2>5. Reach'
      BY <1>14, <2>2 DEF Reload, Reach
    <2> QED BY <2>4, <2>5
  <1>15. CASE PaidIn
    <2>1. PICK i \in 0 .. Offered("recv") : held' = held \cup {<<"recv", i, MaxSends + incoming + 1>>}
      BY <1>15 DEF PaidIn
    <2>2. i \in 0 .. WinMax /\ MaxSends + incoming + 1 \in 0 .. MaxSends + MaxIncoming /\ incoming' \in 0 .. MaxIncoming
      BY <1>15, <2>1, OfferedIs, Window DEF PaidIn, TypeOK, Chains
    <2>3. held' \subseteq Coins
      BY <2>1, <2>2 DEF Coins, Chains, TypeOK
    <2> QED BY <1>15, <2>2, <2>3 DEF PaidIn, TypeOK, Reach
  <1>16. CASE Mine
    <2>1. PICK p \in pool : /\ pool' = pool \ {p} /\ mined' = mined \cup {p.id}
                            /\ held' = (held \ p.inputs) \cup
                                 (IF p.change = None THEN {} ELSE {<<"change", p.change, p.id>>})
      BY <1>16 DEF Mine
    <2>2. p \in Payments
      BY DEF TypeOK
    <2>3. mined' \subseteq 1 .. MaxSends
      BY <2>1, <2>2 DEF Payments, TypeOK
    <2>4. p.change # None => <<"change", p.change, p.id>> \in Coins
      BY <2>2, Window DEF Payments, Coins, Chains
    <2>5. held' \subseteq Coins
      BY <2>1, <2>4 DEF TypeOK
    <2> QED BY <1>16, <2>1, <2>3, <2>5 DEF Mine, TypeOK, Reach
  <1>17. CASE Evict
    BY <1>17 DEF Evict, TypeOK, Reach
  <1> QED BY <1>1, <1>2, <1>3, <1>4, <1>5, <1>6, <1>7, <1>8, <1>9, <1>10, <1>11, <1>12, <1>13, <1>14,
             <1>15, <1>16, <1>17 DEF Next

-------------------------------------------------------------------------------
(* A payment keeps its number and its coins when an answer is taken in; a new *)
(* status is the one reconciled.                                             *)
LEMMA SentAfterAnswer ==
  ASSUME TypeOK, TakeAnswer, NEW x \in sent'
  PROVE  \E s \in sent : /\ x.id = s.id /\ x.inputs = s.inputs
                         /\ \/ x = s
                            \/ x.status = StatusOf(s.inputs, answer.coins, answer.marked \cup KeptSpends(answer.coins))
  <1> DEFINE st(s) == StatusOf(s.inputs, answer.coins, answer.marked \cup KeptSpends(answer.coins))
  <1>1. sent' = sent \/ sent' = {[s EXCEPT !.status = st(s)] : s \in sent}
    BY Zenon DEF TakeAnswer
  <1>2. CASE sent' = sent
    BY <1>2
  <1>3. CASE sent' = {[s EXCEPT !.status = st(s)] : s \in sent}
    <2>1. PICK s \in sent : x = [s EXCEPT !.status = st(s)]
      BY <1>3, Zenon
    <2>2. s \in [id : 1 .. MaxSends, inputs : SUBSET Coins, status : {"pending", "confirmed", "dropped"}]
      BY DEF TypeOK
    <2> DEFINE v == st(s)
    <2>3. x = [s EXCEPT !.status = v]
      BY <2>1
    <2> HIDE DEF v, st
    <2>4. x.id = s.id /\ x.inputs = s.inputs /\ x.status = v
      BY <2>2, <2>3
    <2> QED BY <2>4, Zenon DEF v, st
  <1> QED BY <1>1, <1>2, <1>3

(* Nothing is unmade. *)
LEMMA BornStays ==
  ASSUME TypeOK, [Next]_vars, NEW c \in Coins, Born(c)
  PROVE  Born(c)'
  <1>1. mined \subseteq mined' /\ incoming' >= incoming
    BY WindowAssumption DEF TypeOK, Next, vars, Ask, Answer, AskFails, TakeAnswer, ScanDeeper, GraceEnds, NextReceive,
       Prepare, Discard, Send, Replied, Threw, Reload, PaidIn, Mine, Evict, nodeVars
  <1>2. MakerOf(c) \in Int
    BY Window DEF Coins, MakerOf
  <1>3. incoming \in Int /\ incoming' \in Int
    BY WindowAssumption DEF TypeOK, Next, vars, Ask, Answer, AskFails, TakeAnswer, ScanDeeper, GraceEnds, NextReceive,
       Prepare, Discard, Send, Replied, Threw, Reload, PaidIn, Mine, Evict, nodeVars
  <1> QED BY <1>1, <1>2, <1>3, Window DEF Born

(* The steps that touch neither coins nor payments. *)
LEMMA QuietSteps ==
  ASSUME UNCHANGED vars \/ Ask \/ ScanDeeper \/ NextReceive
  PROVE  /\ UNCHANGED <<held, pool, mined, incoming, coins, marked, scanned, sent, fresh, built, wire, nextId, told>>
         /\ (phase' = phase /\ answer' = answer) \/ phase' = "asked"
  BY DEF vars, Ask, ScanDeeper, NextReceive, nodeVars, coinVars, sendVars, askVars

LEMMA BirthsStep ==
  ASSUME TypeOK, Reach, Births, [Next]_vars
  PROVE  Births'
  <1> USE DEF nodeVars, coinVars, sendVars, askVars, idxVars
  <1>0. /\ held \cup coins \cup fresh \subseteq Coins
        /\ phase = "answered" => answer.coins \subseteq Coins
        /\ built # None => built.inputs \subseteq Coins
        /\ \A p \in pool \cup sent : p.inputs \subseteq Coins
    BY DEF TypeOK, Payments
  <1>b. \A c \in Coins : Born(c) => Born(c)'
    BY BornStays
  <1>1. CASE UNCHANGED vars \/ Ask \/ ScanDeeper \/ NextReceive
    BY <1>0, <1>1, <1>b, QuietSteps DEF Births
  <1>2. CASE Answer
    <2>1. phase' = "answered" /\ answer'.coins \subseteq held
      BY <1>2 DEF Answer
    <2> QED BY <1>0, <1>2, <1>b, <2>1 DEF Births, Answer
  <1>3. CASE AskFails
    BY <1>0, <1>3, <1>b DEF Births, AskFails
  <1>4. CASE TakeAnswer
    <2>1. /\ coins' = answer.coins /\ fresh' \subseteq fresh /\ phase = "answered" /\ phase' # "answered"
          /\ UNCHANGED <<held, pool, built>>
      BY <1>4 DEF TakeAnswer, KeptSpends
    <2>2. \A x \in sent' : \E s \in sent : x.inputs = s.inputs
      BY <1>4, SentAfterAnswer
    <2> QED BY <1>0, <1>b, <2>1, <2>2 DEF Births
  <1>5. CASE GraceEnds
    BY <1>0, <1>5, <1>b DEF Births, GraceEnds
  <1>6. CASE Prepare
    <2>1. built'.inputs \subseteq coins
      BY <1>6 DEF Prepare
    <2> QED BY <1>0, <1>6, <1>b, <2>1 DEF Births, Prepare
  <1>7. CASE Discard \/ Threw
    BY <1>0, <1>7, <1>b DEF Births, Discard, Threw
  <1>8. CASE Send
    <2>1. pool' \subseteq pool \cup {built} /\ built # None
      BY <1>8 DEF Send
    <2> QED BY <1>0, <1>8, <1>b, <2>1 DEF Births, Send
  <1>9. CASE Replied
    <2>1. built # None
      BY <1>9 DEF Replied, Reach
    <2>2. \A s \in sent' : s \in sent \/ s.inputs = built.inputs
      BY <1>9 DEF Replied
    <2> QED BY <1>0, <1>9, <1>b, <2>1, <2>2 DEF Births, Replied
  <1>10. CASE Reload
    BY <1>0, <1>10, <1>b DEF Births, Reload
  <1>11. CASE PaidIn
    <2>1. PICK i \in 0 .. Offered("recv") : held' = held \cup {<<"recv", i, MaxSends + incoming + 1>>}
      BY <1>11 DEF PaidIn
    <2>2. PICK c : c = <<"recv", i, MaxSends + incoming + 1>>
      OBVIOUS
    <2>3. MakerOf(c) = MaxSends + incoming + 1 /\ incoming' = incoming + 1
      BY <1>11, <2>2 DEF PaidIn, MakerOf
    <2>4. Born(c)'
      BY <2>3, Window DEF Born, TypeOK
    <2>5. held' = held \cup {c}
      BY <2>1, <2>2
    <2> QED BY <1>0, <1>11, <1>b, <2>4, <2>5 DEF Births, PaidIn
  <1>12. CASE Mine
    <2>1. PICK p \in pool : /\ pool' = pool \ {p} /\ mined' = mined \cup {p.id}
                            /\ held' = (held \ p.inputs) \cup
                                 (IF p.change = None THEN {} ELSE {<<"change", p.change, p.id>>})
      BY <1>12 DEF Mine
    <2>2. Born(<<"change", p.change, p.id>>)'
      BY <2>1, Window DEF Born, MakerOf, TypeOK, Payments
    <2>3. \A c \in held' : c \in held \/ c = <<"change", p.change, p.id>>
      BY <2>1
    <2> QED BY <1>0, <1>12, <1>b, <2>1, <2>2, <2>3 DEF Births, Mine
  <1>13. CASE Evict
    BY <1>0, <1>13, <1>b DEF Births, Evict
  <1> QED BY <1>1, <1>2, <1>3, <1>4, <1>5, <1>6, <1>7, <1>8, <1>9, <1>10, <1>11, <1>12, <1>13 DEF Next

LEMMA NamesStep ==
  ASSUME TypeOK, Reach, Names, [Next]_vars
  PROVE  Names'
  <1> USE DEF nodeVars, coinVars, sendVars, askVars, idxVars
  <1>0. /\ nextId \in Int /\ mined \subseteq Int
        /\ \A p \in pool \cup told \cup sent : p.id \in Int
        /\ built # None => built.id \in Int
    BY Window DEF TypeOK, Payments
  <1>1. CASE UNCHANGED vars \/ Ask \/ ScanDeeper \/ NextReceive
    BY <1>1, QuietSteps DEF Names, Gone
  <1>2. CASE Answer \/ AskFails \/ GraceEnds
    BY <1>2 DEF Names, Gone, Answer, AskFails, GraceEnds
  <1>3. CASE TakeAnswer
    <2>1. UNCHANGED <<pool, mined, built, wire, nextId, told>>
      BY <1>3 DEF TakeAnswer
    <2>2. \A x \in sent' : \E s \in sent : x.id = s.id /\ x.inputs = s.inputs
      BY <1>3, SentAfterAnswer
    <2> QED BY <2>1, <2>2 DEF Names, Gone
  <1>4. CASE Prepare
    <2>1. /\ built'.id = nextId /\ nextId' = nextId + 1 /\ wire' = "none"
          /\ UNCHANGED <<pool, mined, sent, told>>
      BY <1>4 DEF Prepare
    <2>2. Gone(nextId) /\ \A p \in told \cup sent : p.id # nextId
      BY <1>0 DEF Names, Gone
    <2> QED BY <1>0, <2>1, <2>2 DEF Names, Gone
  <1>5. CASE Discard \/ Threw
    BY <1>5 DEF Names, Gone, Discard, Threw
  <1>6. CASE Send
    <2>1. /\ built # None /\ wire = "none" /\ Gone(built.id)
          /\ UNCHANGED <<mined, sent, told, built, nextId>>
      BY <1>6 DEF Send, Names
    <2>2. CASE wire' = "taken"
      <3>1. pool' \subseteq pool \cup {built}
        BY <1>6 DEF Send
      <3> QED BY <2>1, <2>2, <3>1 DEF Names, Gone
    <2>3. CASE wire' # "taken"
      BY <1>6, <2>1, <2>3 DEF Send, Names, Gone
    <2> QED BY <2>2, <2>3
  <1>7. CASE Replied
    <2>1. built # None /\ wire = "taken"
      BY <1>7 DEF Replied, Reach
    <2>2. /\ sent' = sent \cup {[id |-> built.id, inputs |-> built.inputs, status |-> "pending"]}
          /\ told' = told \cup {built} /\ built' = None
          /\ UNCHANGED <<pool, mined, nextId>>
      BY <1>7 DEF Replied
    <2>3. \A s \in sent' : s \in sent \/ (s.id = built.id /\ s.inputs = built.inputs)
      BY <2>2
    <2> QED BY <2>1, <2>2, <2>3 DEF Names
  <1>8. CASE Reload
    BY <1>8 DEF Names, Reload
  <1>9. CASE PaidIn
    BY <1>9 DEF Names, Gone, PaidIn
  <1>10. CASE Mine
    <2>1. PICK p \in pool : pool' = pool \ {p} /\ mined' = mined \cup {p.id}
      BY <1>10 DEF Mine
    <2>2. UNCHANGED <<sent, told, built, wire, nextId>>
      BY <1>10 DEF Mine
    <2> QED BY <2>1, <2>2 DEF Names, Gone
  <1>11. CASE Evict
    BY <1>11 DEF Names, Gone, Evict
  <1> QED BY <1>1, <1>2, <1>3, <1>4, <1>5, <1>6, <1>7, <1>8, <1>9, <1>10, <1>11 DEF Next

(* A coin being made now is not one a payment already spends. *)
LEMMA NewCoinIsNew ==
  ASSUME TypeOK, Births, Names, NEW c,
         \/ MakerOf(c) = MaxSends + incoming + 1
         \/ \E p \in pool : MakerOf(c) = p.id
  PROVE  /\ ~Born(c)
         /\ built # None => c \notin built.inputs
         /\ \A p \in pool \cup sent : c \notin p.inputs
  <1>1. CASE MakerOf(c) = MaxSends + incoming + 1
    <2>1. ~Born(c)
      BY <1>1, Window DEF Born, TypeOK
    <2> QED BY <2>1 DEF Births
  <1>2. CASE \E p \in pool : MakerOf(c) = p.id
    <2>1. ~Born(c)
      BY <1>2 DEF Born, Names, TypeOK, Payments
    <2> QED BY <2>1 DEF Births
  <1> QED BY <1>1, <1>2

LEMMA ConsumedStep ==
  ASSUME TypeOK, Reach, Births, Names, Consumed, [Next]_vars
  PROVE  Consumed'
  <1> USE DEF nodeVars, coinVars, sendVars, askVars, idxVars
  <1>1. CASE UNCHANGED vars \/ Ask \/ ScanDeeper \/ NextReceive
    BY <1>1, QuietSteps DEF Consumed
  <1>2. CASE Answer \/ AskFails \/ GraceEnds \/ Discard \/ Threw \/ Send \/ Evict
    BY <1>2 DEF Consumed, Answer, AskFails, GraceEnds, Discard, Threw, Send, Evict
  <1>3. CASE TakeAnswer
    <2>1. UNCHANGED <<held, mined, built>>
      BY <1>3 DEF TakeAnswer
    <2>2. \A x \in sent' : \E s \in sent : x.id = s.id /\ x.inputs = s.inputs
      BY <1>3, SentAfterAnswer
    <2> QED BY <2>1, <2>2 DEF Consumed
  <1>4. CASE Prepare
    <2>1. built'.id = nextId /\ UNCHANGED <<held, mined, sent>>
      BY <1>4 DEF Prepare
    <2>2. nextId \notin mined
      BY Window DEF Names, TypeOK
    <2> QED BY <2>1, <2>2 DEF Consumed
  <1>5. CASE Replied
    <2>1. built # None
      BY <1>5 DEF Replied, Reach
    <2>2. /\ sent' = sent \cup {[id |-> built.id, inputs |-> built.inputs, status |-> "pending"]}
          /\ built' = None /\ UNCHANGED <<held, mined>>
      BY <1>5 DEF Replied
    <2>3. \A s \in sent' : s \in sent \/ (s.id = built.id /\ s.inputs = built.inputs)
      BY <2>2
    <2> QED BY <2>1, <2>2, <2>3 DEF Consumed
  <1>6. CASE Reload
    BY <1>6 DEF Consumed, Reload
  <1>7. CASE PaidIn
    <2>1. PICK i \in 0 .. Offered("recv") : held' = held \cup {<<"recv", i, MaxSends + incoming + 1>>}
      BY <1>7 DEF PaidIn
    <2> DEFINE c == <<"recv", i, MaxSends + incoming + 1>>
    <2>2. MakerOf(c) = MaxSends + incoming + 1
      BY DEF MakerOf
    <2> HIDE DEF c
    <2>3. (built # None => c \notin built.inputs) /\ \A s \in sent : c \notin s.inputs
      BY <2>2, NewCoinIsNew
    <2>4. held' = held \cup {c}
      BY <2>1 DEF c
    <2> QED BY <1>7, <2>3, <2>4 DEF Consumed, PaidIn
  <1>8. CASE Mine
    <2>1. PICK p \in pool : /\ pool' = pool \ {p} /\ mined' = mined \cup {p.id}
                            /\ held' = (held \ p.inputs) \cup
                                 (IF p.change = None THEN {} ELSE {<<"change", p.change, p.id>>})
      BY <1>8 DEF Mine
    <2>2. UNCHANGED <<sent, built, wire>>
      BY <1>8 DEF Mine
    <2> DEFINE c == <<"change", p.change, p.id>>
    <2>3. MakerOf(c) = p.id
      BY DEF MakerOf
    <2> HIDE DEF c
    <2>4. (built # None => c \notin built.inputs) /\ \A s \in sent : c \notin s.inputs
      BY <2>3, NewCoinIsNew
    <2>5. held' \subseteq (held \ p.inputs) \cup {c}
      BY <2>1 DEF c
    <2>6. ASSUME NEW s \in sent, s.id \in mined' PROVE s.inputs \cap held' = {}
      <3>1. s.id = p.id => s.inputs = p.inputs
        BY DEF Names
      <3> QED BY <2>1, <2>4, <2>5, <2>6, <3>1 DEF Consumed
    <2>7. ASSUME built # None, built.id \in mined' PROVE built.inputs \cap held' = {}
      <3>1. built.id = p.id => built = p
        BY <2>7 DEF Names, Gone
      <3> QED BY <2>1, <2>4, <2>5, <2>7, <3>1 DEF Consumed
    <2> QED BY <2>2, <2>6, <2>7 DEF Consumed
  <1> QED BY <1>1, <1>2, <1>3, <1>4, <1>5, <1>6, <1>7, <1>8 DEF Next

LEMMA KeptStep ==
  ASSUME TypeOK, Reach, Names, KeptBack, [Next]_vars
  PROVE  KeptBack'
  <1> USE DEF nodeVars, coinVars, sendVars, askVars, idxVars, NeverTwiceOffered
  <1>1. CASE UNCHANGED vars \/ Ask \/ ScanDeeper \/ NextReceive
    BY <1>1, QuietSteps DEF KeptBack
  <1>2. CASE Answer
    <2>1. /\ answer'.coins = {c \in held : InWindow(c)}
          /\ answer'.marked = {c \in held : InWindow(c)} \cap BeingSpent
          /\ UNCHANGED <<pool, coins, marked, fresh, told>>
      BY <1>2 DEF Answer
    <2>2. \A p \in pool : p.inputs \subseteq BeingSpent
      BY DEF BeingSpent
    <2>3. \A p \in told \cap pool : p.inputs \cap answer'.coins \subseteq answer'.marked
      BY <2>1, <2>2
    <2> QED BY <2>1, <2>3 DEF KeptBack
  <1>3. CASE AskFails \/ Prepare \/ Discard \/ Threw \/ PaidIn
    BY <1>3 DEF KeptBack, AskFails, Prepare, Discard, Threw, PaidIn
  <1>4. CASE TakeAnswer
    <2>1. /\ phase = "answered" /\ phase' # "answered"
          /\ coins' = answer.coins
          /\ marked' = answer.marked \cup (fresh \cap answer.coins)
          /\ UNCHANGED <<pool, told>>
      BY <1>4 DEF TakeAnswer, KeptSpends
    <2> QED BY <2>1 DEF KeptBack
  <1>5. CASE GraceEnds
    BY <1>5 DEF KeptBack, GraceEnds
  <1>6. CASE Send
    <2>1. pool' \subseteq pool \cup {built} /\ built # None /\ UNCHANGED <<told, coins, marked, fresh, phase, answer>>
      BY <1>6 DEF Send
    <2>2. told' \cap pool' \subseteq told \cap pool
      BY <2>1 DEF Names
    <2> QED BY <2>1, <2>2 DEF KeptBack
  <1>7. CASE Replied
    <2>1. /\ fresh' = fresh \cup built.inputs /\ marked' = marked \cup (built.inputs \cap coins)
          /\ told' = told \cup {built}
          /\ UNCHANGED <<pool, coins, phase, answer>>
      BY <1>7 DEF Replied
    <2> QED BY <2>1 DEF KeptBack
  <1>8. CASE Reload
    BY <1>8 DEF KeptBack, Reload
  <1>9. CASE Mine \/ Evict
    <2>1. pool' \subseteq pool /\ UNCHANGED <<told, coins, marked, fresh, phase, answer>>
      BY <1>9 DEF Mine, Evict
    <2> QED BY <2>1 DEF KeptBack
  <1> QED BY <1>1, <1>2, <1>3, <1>4, <1>5, <1>6, <1>7, <1>8, <1>9 DEF Next

LEMMA DropsStep ==
  ASSUME TypeOK, Reach, Names, Consumed, DropsAreTrue, [Next]_vars
  PROVE  DropsAreTrue'
  <1> USE DEF nodeVars, coinVars, sendVars, askVars, idxVars
  <1> DEFINE Bad(s) == ~(s.inputs \cap answer.coins \subseteq answer.marked \cup fresh)
  <1>a. /\ \A s \in sent : s.status = "dropped" => Gone(s.id)
        /\ phase = "answered" => \A s \in sent : Bad(s) => Gone(s.id)
    BY DEF DropsAreTrue, DroppedIsGone, Gone
  <1>b. SUFFICES /\ \A s \in sent' : s.status = "dropped" => Gone(s.id)'
                 /\ phase' = "answered" => \A s \in sent' : Bad(s)' => Gone(s.id)'
    BY DEF DropsAreTrue, DroppedIsGone, Gone
  <1>c. \A s \in sent : Gone(s.id) => Gone(s.id)'
    <2>1. CASE UNCHANGED <<pool, mined>>
      BY <2>1 DEF Gone
    <2>2. CASE Send
      <3>1. pool' \subseteq pool \cup {built} /\ built # None /\ mined' = mined
        BY <2>2 DEF Send
      <3> QED BY <3>1 DEF Gone, Names
    <2>3. CASE Mine
      <3>1. PICK p \in pool : pool' = pool \ {p} /\ mined' = mined \cup {p.id}
        BY <2>3 DEF Mine
      <3> QED BY <3>1 DEF Gone
    <2>4. CASE Evict
      BY <2>4 DEF Evict, Gone
    <2>5. UNCHANGED <<pool, mined>> \/ Send \/ Mine \/ Evict
      BY DEF Next, vars, Ask, Answer, AskFails, TakeAnswer, ScanDeeper, GraceEnds, NextReceive,
         Prepare, Discard, Replied, Threw, Reload, PaidIn
    <2> QED BY <2>1, <2>2, <2>3, <2>4, <2>5
  <1>1. CASE UNCHANGED vars \/ Ask \/ ScanDeeper \/ NextReceive
    BY <1>1, <1>a, <1>c, QuietSteps
  <1>2. CASE Answer
    <2>1. /\ answer'.coins \subseteq held
          /\ answer'.marked = answer'.coins \cap BeingSpent
          /\ UNCHANGED <<pool, mined, sent, fresh>>
      BY <1>2 DEF Answer
    <2>2. ASSUME NEW s \in sent, Bad(s)' PROVE Gone(s.id)
      <3>1. PICK c \in s.inputs : c \in held /\ c \notin BeingSpent
        BY <2>1, <2>2
      <3>2. s.id \notin mined
        BY <3>1 DEF Consumed
      <3>3. \A p \in pool : p.id # s.id
        BY <3>1 DEF Names, BeingSpent
      <3> QED BY <3>2, <3>3 DEF Gone
    <2> QED BY <1>a, <1>c, <2>1, <2>2
  <1>3. CASE AskFails \/ Prepare \/ Discard \/ Threw \/ PaidIn \/ Send \/ Mine \/ Evict
    <2>1. UNCHANGED <<sent, fresh>> /\ (phase' = "answered" => UNCHANGED <<phase, answer>>)
      BY <1>3 DEF AskFails, Prepare, Discard, Threw, PaidIn, Send, Mine, Evict
    <2> QED BY <1>a, <1>c, <2>1
  <1>4. CASE TakeAnswer
    <2> DEFINE spending == answer.marked \cup KeptSpends(answer.coins)
    <2>1. phase = "answered" /\ phase' # "answered"
      BY <1>4 DEF TakeAnswer
    <2>2. ASSUME NEW x \in sent', x.status = "dropped" PROVE Gone(x.id)'
      <3>1. PICK s \in sent : /\ x.id = s.id
                              /\ x = s \/ x.status = StatusOf(s.inputs, answer.coins, spending)
        BY <1>4, SentAfterAnswer
      <3>2. CASE x = s
        BY <1>a, <1>c, <2>2, <3>2
      <3>3. CASE x.status = StatusOf(s.inputs, answer.coins, spending)
        <4>1. (s.inputs \cap answer.coins) \ spending # {}
          BY <2>2, <3>3 DEF StatusOf
        <4>2. Bad(s)
          BY <4>1 DEF KeptSpends
        <4> QED BY <1>a, <1>c, <2>1, <3>1, <4>2
      <3> QED BY <3>1, <3>2, <3>3
    <2> QED BY <2>1, <2>2
  <1>5. CASE GraceEnds
    BY <1>5, <1>a, <1>c DEF GraceEnds
  <1>6. CASE Replied
    <2>1. /\ fresh' = fresh \cup built.inputs
          /\ sent' = sent \cup {[id |-> built.id, inputs |-> built.inputs, status |-> "pending"]}
          /\ UNCHANGED <<phase, answer>>
      BY <1>6 DEF Replied
    <2>2. \A s \in sent' : s \in sent \/ (s.status = "pending" /\ s.inputs = built.inputs)
      BY <2>1
    <2> QED BY <1>a, <1>c, <2>1, <2>2
  <1>7. CASE Reload
    BY <1>7 DEF Reload
  <1> QED BY <1>1, <1>2, <1>3, <1>4, <1>5, <1>6, <1>7 DEF Next

LEMMA AdvancedStep ==
  ASSUME TypeOK, Reach, Advanced, [Next]_vars
  PROVE  Advanced'
  <1> USE DEF nodeVars, coinVars, sendVars, askVars, idxVars
  <1>0. /\ \A p \in told : p.change # None => p.change \in 0 .. WinMax
        /\ built # None /\ built.change # None => built.change \in 0 .. WinMax
        /\ meta["change"] \in 0 .. WinMax /\ stored["change"] \in 0 .. WinMax /\ "change" \in Chains
    BY DEF TypeOK, Payments, Chains
  <1>1. CASE /\ UNCHANGED <<told, stored>> /\ (built' # None => built' = built)
             /\ meta'["change"] \in {meta["change"], stored["change"]}
    BY <1>1 DEF Advanced, DistinctChange, Past
  <1>2. CASE TakeAnswer
    <2> DEFINE counters == Remembered(answer.coins)
    <2>1. counters["change"] >= meta["change"] /\ counters["change"] \in Int
      BY <1>0, <1>2, RememberedIs, Window DEF TakeAnswer
    <2>2. meta' = counters /\ stored' \in {counters, stored} /\ UNCHANGED <<told, built>>
      BY <1>2 DEF TakeAnswer
    <2> HIDE DEF counters
    <2> QED BY <1>0, <2>1, <2>2, Window DEF Advanced, DistinctChange, Past, Lesser
  <1>3. CASE NextReceive
    <2>1. meta'["change"] = meta["change"] /\ stored' = meta' /\ UNCHANGED <<told, built>>
      BY <1>3 DEF NextReceive, TypeOK, Chains
    <2> QED BY <2>1 DEF Advanced, DistinctChange, Past
  <1>4. CASE Prepare
    <2>1. UNCHANGED <<told, meta, stored>> /\ (built'.change = None \/ built'.change = Offered("change"))
      BY <1>4 DEF Prepare
    <2>2. Offered("change") >= meta["change"] /\ Offered("change") \in Int
      BY <1>0, OfferedIs
    <2> QED BY <1>0, <2>1, <2>2, Window DEF Advanced, DistinctChange, Past, Lesser
  <1>5. CASE Replied
    <2>1. built # None
      BY <1>5 DEF Replied, Reach
    <2>2. told' = told \cup {built} /\ built' = None
      BY <1>5 DEF Replied
    <2>3. CASE built.change = None
      BY <1>5, <2>1, <2>2, <2>3 DEF Replied, Advanced, DistinctChange, Past
    <2>4. CASE built.change # None
      <3> DEFINE n == Lesser(WinMax - 1, built.change + 1)
      <3>1. meta'["change"] = n /\ stored' = meta'
        BY <1>5, <2>4 DEF Replied, TypeOK, Chains
      <3>2. \A q \in told : q.change # None => built.change >= Lesser(WinMax - 1, q.change + 1)
        BY <2>1, <2>4 DEF Advanced, Past
      <3>3. \A q \in told : q.change # None => n >= Lesser(WinMax - 1, q.change + 1)
        BY <1>0, <2>1, <2>4, <3>2, Window DEF Lesser
      <3>4. \A q \in told : q.change # None /\ q.change = built.change => built.change >= WinMax - 1
        BY <1>0, <2>1, <2>4, <3>2, Window DEF Lesser
      <3>5. n >= n
        BY <1>0, <2>1, <2>4, Window DEF Lesser
      <3> HIDE DEF n
      <3>6. \A q \in told' : Past(n, q)
        BY <2>2, <3>3, <3>5 DEF Past, n
      <3>7. DistinctChange'
        BY <2>2, <3>4 DEF DistinctChange, Advanced
      <3> QED BY <2>2, <3>1, <3>6, <3>7 DEF Advanced, Past
    <2> QED BY <2>3, <2>4
  <1>6. CASE Reload
    <2>1. meta'["change"] = stored["change"]
      BY <1>0, <1>6 DEF Reload, Reach
    <2> QED BY <1>1, <1>6, <2>1 DEF Reload
  <1>7. CASE UNCHANGED vars \/ Ask \/ Answer \/ AskFails \/ ScanDeeper \/ GraceEnds \/ Discard \/ Send
             \/ Threw \/ PaidIn \/ Mine \/ Evict
    <2>1. UNCHANGED <<told, meta, stored>> /\ (built' # None => built' = built)
      BY <1>7 DEF vars, Ask, Answer, AskFails, ScanDeeper, GraceEnds, Discard, Send, Threw, PaidIn, Mine, Evict
    <2> QED BY <1>1, <2>1
  <1> QED BY <1>2, <1>3, <1>4, <1>5, <1>6, <1>7 DEF Next

-------------------------------------------------------------------------------
LEMMA SessionInductive == Spec => []SessionInv
  <1>1. Init => SessionInv
    BY SessionInit
  <1>2. SessionInv /\ [Next]_vars => SessionInv'
    BY TypeStep, BirthsStep, NamesStep, ConsumedStep, KeptStep, DropsStep, AdvancedStep DEF SessionInv
  <1> QED BY <1>1, <1>2, PTL DEF Spec

(* The variables keep their types, the counters in the window among them: for *)
(* every window, margin, step and set of coins the wallet starts with.       *)
THEOREM SessionTypeCorrect == Spec => []TypeOK
  <1>1. SessionInv => TypeOK
    BY DEF SessionInv
  <1> QED BY <1>1, SessionInductive, PTL

(* While the mempool holds a payment this wallet knows it sent, none of its   *)
(* coins can be picked again, whatever answer was on its way (session.js:27). *)
THEOREM NothingOfferedTwice == Spec => []NeverTwiceOffered
  <1>1. SessionInv => NeverTwiceOffered
    BY DEF SessionInv, KeptBack
  <1> QED BY <1>1, SessionInductive, PTL

(* No two payments the node took pay change to one address, reloads and scans *)
(* in between included, short of the window's last addresses (session.js:144).*)
THEOREM ChangeIsFresh == Spec => []DistinctChange
  <1>1. SessionInv => DistinctChange
    BY DEF SessionInv, Advanced
  <1> QED BY <1>1, SessionInductive, PTL

(* A payment shown as dropped is neither in the mempool nor mined, however     *)
(* old the answer that said so (session.js:253).                             *)
THEOREM DroppedForGood == Spec => []DroppedIsGone
  <1>1. SessionInv => DroppedIsGone
    BY DEF SessionInv, DropsAreTrue
  <1> QED BY <1>1, SessionInductive, PTL

(***************************************************************************)
(* Proofs about the hand-off between the swap page and the wallet, for any  *)
(* requests, any number of them and any number of windows.                 *)
(*                                                                         *)
(* The invariant says that a message is true from the moment it is posted,  *)
(* whoever is shown, closed or reloaded while it travels: an account answers *)
(* a request for one, and a signature is for the very spend it names, which  *)
(* passed the signer's checks.  Requests are only ever added, so what a      *)
(* message says stays true, and a promise ends with a message about itself.  *)
(***************************************************************************)
Made == 1 .. Len(asked)

\* What a reply claims is so.
IsTrue(m) ==
    /\ m.result = "account" => m.about \in Made /\ asked[m.about].kind = "account"
    /\ m.result = "signed" => /\ m.about \in Made /\ m.signed = m.about
                              /\ Signs(asked[m.about])

\* The screen names a request that was made, and the buttons are about it.
PageKnows ==
    /\ page.card # "wait" => page.current \in Made
    /\ ApprovesWhatIsShown

MessagesAreTrue == \A i \in 1 .. Len(toSwap) : IsTrue(toSwap[i])

PromisesAreTrue ==
    \A id \in Ids :
        /\ IsTrue(settled[id])
        /\ settled[id].result \in {"account", "signed"} => settled[id].about = id

ConnectInv == ConnectTypeOK /\ PageKnows /\ MessagesAreTrue /\ PromisesAreTrue

(***************************************************************************)
(* Helpers.                                                                *)
(***************************************************************************)

\* A message of the protocol.
LEMMA ReplyType ==
    ASSUME NEW id \in 0 .. MaxAsks, NEW result \in Results
    PROVE  /\ Reply(id, result) \in Messages
           /\ Reply(id, result).about = id /\ Reply(id, result).result = result
    BY ConnectAssumption DEF Reply, Messages

\* Appending to a sequence of messages that are true one that is true.
LEMMA PostTrue ==
    ASSUME ConnectInv, NEW m \in Messages, IsTrue(m)
    PROVE  LET t == Append(toSwap, m)
           IN  t \in Seq(Messages) /\ \A i \in 1 .. Len(t) : IsTrue(t[i])
    <1> USE DEF ConnectInv, ConnectTypeOK, MessagesAreTrue
    <1>1. toSwap \in Seq(Messages)
        OBVIOUS
    <1>2. \A i \in 1 .. Len(Append(toSwap, m)) :
              Append(toSwap, m)[i] = IF i <= Len(toSwap) THEN toSwap[i] ELSE m
        BY <1>1
    <1>3. Append(toSwap, m) \in Seq(Messages) /\ Len(Append(toSwap, m)) = Len(toSwap) + 1
        BY <1>1
    <1>4. ASSUME NEW i \in 1 .. Len(Append(toSwap, m))
          PROVE  IsTrue(Append(toSwap, m)[i])
        <2>1. CASE i <= Len(toSwap)
            <3>1. i \in 1 .. Len(toSwap) /\ Append(toSwap, m)[i] = toSwap[i]
                BY <1>2, <1>4, <2>1
            <3> QED BY <3>1
        <2>2. CASE ~(i <= Len(toSwap))
            BY <1>2, <1>4, <2>2
        <2> QED BY <2>1, <2>2
    <1> QED BY <1>3, <1>4

\* A blank page is a page, with nothing on its screen.
LEMMA BlankPages ==
    ASSUME NEW v \in BOOLEAN
    PROVE  /\ [NoPage EXCEPT !.vault = v] \in Pages /\ FreshPage(v) \in Pages
           /\ [NoPage EXCEPT !.vault = v].card = "wait" /\ FreshPage(v).card = "wait"
    <1>1. NoPage \in Pages /\ NoPage.card = "wait"
        BY ConnectAssumption DEF NoPage, Pages
    <1>2. [NoPage EXCEPT !.vault = v] \in Pages /\ [NoPage EXCEPT !.vault = v].card = "wait"
        BY <1>1 DEF Pages
    <1> DEFINE p1 == [NoPage EXCEPT !.up = TRUE]
               p2 == [p1 EXCEPT !.vault = v]
               p3 == [p2 EXCEPT !.approve = TRUE]
               p4 == [p3 EXCEPT !.reject = TRUE]
    <1>3. p1 \in Pages /\ p1.card = "wait"
        BY <1>1 DEF Pages
    <1>4. p2 \in Pages /\ p2.card = "wait"
        <2> HIDE DEF p1
        <2> QED BY <1>3 DEF Pages
    <1>5. p3 \in Pages /\ p3.card = "wait"
        <2> HIDE DEF p2
        <2> QED BY <1>4 DEF Pages
    <1>6. p4 \in Pages /\ p4.card = "wait"
        <2> HIDE DEF p3
        <2> QED BY <1>5 DEF Pages
    <1>7. FreshPage(v) = p4
        BY DEF FreshPage
    <1> QED BY <1>2, <1>6, <1>7

\* Drawing a request that was made shows that request.
LEMMA Drawn ==
    ASSUME NEW p \in Pages, NEW id \in Ids
    PROVE  /\ Rendered(p, id) \in Pages
           /\ Rendered(p, id).card = "request" /\ Rendered(p, id).shown = id
           /\ Rendered(p, id).current = p.current
    <1> DEFINE b == CASE asked[id].kind = "account" -> p.approve
                      [] asked[id].kind = "other" -> FALSE
                      [] OTHER -> SafeToSign(asked[id])
    <1>1. SafeToSign(asked[id]) \in BOOLEAN
        BY DEF SafeToSign
    <1>2. b \in BOOLEAN
        BY <1>1 DEF Pages
    <1>3. Rendered(p, id) = [p EXCEPT !.shown = id, !.card = "request", !.approve = b]
        BY DEF Rendered
    <1> HIDE DEF b
    <1> DEFINE p1 == [p EXCEPT !.shown = id]
               p2 == [p1 EXCEPT !.card = "request"]
               p3 == [p2 EXCEPT !.approve = b]
    <1>4. p1 \in Pages /\ p1.shown = id /\ p1.current = p.current
        BY ConnectAssumption DEF Pages, Ids
    <1>5. p2 \in Pages /\ p2.card = "request" /\ p2.shown = id /\ p2.current = p.current
        <2> HIDE DEF p1
        <2> QED BY <1>4 DEF Pages
    <1>6. p3 \in Pages /\ p3.card = "request" /\ p3.shown = id /\ p3.current = p.current
        <2> HIDE DEF p2
        <2> QED BY <1>2, <1>5 DEF Pages
    <1>7. Rendered(p, id) = p3
        BY <1>3
    <1> HIDE DEF p3
    <1> QED BY <1>6, <1>7

\* What a routed request leaves on the page.
LEMMA Routed ==
    ASSUME ConnectInv, NEW id \in Made
    PROVE  /\ Route(page, id) \in Pages
           /\ Route(page, id).current = id
           /\ Route(page, id).card = "request" => Route(page, id).shown = id
    <1> DEFINE q == [page EXCEPT !.current = id]
    <1>1. id \in Ids /\ id \in 0 .. MaxAsks
        BY ConnectAssumption DEF ConnectInv, ConnectTypeOK, Made, Ids
    <1>2. q \in Pages /\ q.current = id
        BY <1>1 DEF ConnectInv, ConnectTypeOK, Pages
    <1>3. CASE ~page.unlocked
        <2>1. Route(page, id) = [q EXCEPT !.card = "lock"]
            BY <1>3 DEF Route
        <2> QED BY <1>2, <2>1 DEF Pages
    <1>4. CASE page.unlocked
        <2>1. Route(page, id) = Rendered(q, id)
            BY <1>4 DEF Route
        <2> HIDE DEF q
        <2> QED BY <1>1, <1>2, <2>1, Drawn
    <1> QED BY <1>3, <1>4

\* The invariant at the start.
LEMMA StartIsTrue == ConnectInit => ConnectInv
    <1> SUFFICES ASSUME ConnectInit PROVE ConnectInv
        OBVIOUS
    <1> USE ConnectAssumption DEF ConnectInit
    <1>1. Len(asked) = 0 /\ Made = {} /\ asked \in Seq(Requests)
        BY DEF Made
    <1>2. /\ queue \in Seq(1 .. Len(asked)) /\ toWallet \in Seq(1 .. Len(asked))
          /\ toSwap \in Seq(Messages)
        OBVIOUS
    <1>3. Reply(0, "open") \in Messages /\ Reply(0, "open").result = "open"
        BY ReplyType DEF Results
    <1>4. settled \in [Ids -> Messages] /\ PromisesAreTrue
        BY <1>3 DEF PromisesAreTrue, IsTrue
    <1>5. page \in Pages /\ page.card = "wait"
        BY BlankPages
    <1>6. ConnectTypeOK
        <2>1. asked \in Seq(Requests) /\ Len(asked) <= MaxAsks /\ opened \in 0 .. MaxWindows
            BY <1>1
        <2>2. /\ pending \subseteq 1 .. Len(asked)
              /\ ready \in BOOLEAN /\ popup \in {"none", "closed", "open"}
            OBVIOUS
        <2> QED BY ONLY <1>2, <1>4, <1>5, <2>1, <2>2 DEF ConnectTypeOK
    <1>7. PageKnows /\ MessagesAreTrue
        BY <1>5 DEF PageKnows, ApprovesWhatIsShown, MessagesAreTrue
    <1> QED BY <1>4, <1>6, <1>7 DEF ConnectInv

\* A message is taken from the front of a sequence of true ones.
LEMMA TakeTrue ==
    ASSUME ConnectInv, toSwap # <<>>
    PROVE  /\ Head(toSwap) \in Messages /\ IsTrue(Head(toSwap))
           /\ Tail(toSwap) \in Seq(Messages)
           /\ \A i \in 1 .. Len(Tail(toSwap)) : IsTrue(Tail(toSwap)[i])
    <1> USE DEF ConnectInv, ConnectTypeOK, MessagesAreTrue
    <1>1. Head(toSwap) = toSwap[1] /\ Len(toSwap) >= 1 /\ Head(toSwap) \in Messages
        OBVIOUS
    <1>2. /\ Tail(toSwap) \in Seq(Messages) /\ Len(Tail(toSwap)) = Len(toSwap) - 1
          /\ \A i \in 1 .. Len(Tail(toSwap)) : Tail(toSwap)[i] = toSwap[i + 1]
        BY <1>1
    <1>3. IsTrue(Head(toSwap))
        BY <1>1
    <1>4. ASSUME NEW i \in 1 .. Len(Tail(toSwap))
          PROVE  IsTrue(Tail(toSwap)[i])
        <2>1. i + 1 \in 1 .. Len(toSwap) /\ Tail(toSwap)[i] = toSwap[i + 1]
            BY <1>1, <1>2
        <2> QED BY <2>1
    <1> QED BY <1>1, <1>2, <1>3, <1>4

(***************************************************************************)
(* A new request: everything said before stays said of the same requests.   *)
(***************************************************************************)
LEMMA RequestKeeps ==
    ASSUME ConnectInv, NEW r \in Requests, Request(r)
    PROVE  ConnectInv'
    <1> USE ConnectAssumption
    <1> DEFINE id == Len(asked) + 1
    <1>0. ConnectTypeOK /\ PageKnows /\ MessagesAreTrue /\ PromisesAreTrue
        BY DEF ConnectInv
    <1>1. Len(asked) \in Nat /\ id \in Ids /\ id \in 0 .. MaxAsks
        BY <1>0 DEF ConnectTypeOK, Request, Ids
    <1>2. /\ asked' = Append(asked, r) /\ asked' \in Seq(Requests)
          /\ Len(asked') = id /\ Len(asked') <= MaxAsks
        BY <1>0 DEF ConnectTypeOK, Request
    <1>3. \A k \in Made : k \in Made' /\ asked'[k] = asked[k]
        BY <1>0, <1>1, <1>2 DEF Made, ConnectTypeOK
    <1>4. Made' = 1 .. id /\ id \in Made' /\ Made \subseteq Made'
        BY <1>1, <1>2, <1>3 DEF Made
    <1>5. ASSUME NEW m, IsTrue(m)
          PROVE  IsTrue(m)'
        BY <1>3, <1>5 DEF IsTrue
    <1>6. toSwap' = toSwap /\ MessagesAreTrue'
        <2>1. toSwap' = toSwap
            BY DEF Request, Flushed
        <2> QED BY <1>0, <1>5, <2>1 DEF MessagesAreTrue
    <1>7. queue \in Seq(Made) /\ toWallet \in Seq(Made) /\ pending \subseteq Made
        BY <1>0 DEF ConnectTypeOK, Made
    <1>8. queue \in Seq(Made') /\ toWallet \in Seq(Made') /\ pending \subseteq Made'
        <2> DEFINE M == Made'
        <2>1. Made \subseteq M
            BY <1>4
        <2> HIDE DEF M
        <2>2. queue \in Seq(M) /\ toWallet \in Seq(M)
            BY <1>7, <2>1, SeqMonotonic
        <2> QED BY <1>7, <2>1, <2>2 DEF M
    <1>9. Append(queue, id) \in Seq(Made') /\ toWallet \o Append(queue, id) \in Seq(Made')
        BY <1>4, <1>8
    <1>10. <<>> \in Seq(Made')
        OBVIOUS
    <1>11. /\ queue' \in Seq(Made') /\ toWallet' \in Seq(Made')
           /\ pending' \subseteq Made'
        BY <1>1, <1>4, <1>8, <1>9, <1>10 DEF Request, Flushed
    <1>12. page' \in Pages /\ PageKnows'
        <2>1. CASE page' = page
            <3>1. page.card # "wait" => page.current \in Made'
                BY <1>0, <1>4 DEF PageKnows
            <3> QED BY <1>0, <2>1, <3>1 DEF PageKnows, ConnectTypeOK, ApprovesWhatIsShown
        <2>2. CASE page' = FreshPage(page.vault)
            <3>1. page.vault \in BOOLEAN
                BY <1>0 DEF ConnectTypeOK, Pages
            <3> QED BY <2>2, <3>1, BlankPages DEF PageKnows, ApprovesWhatIsShown
        <2> QED BY <2>1, <2>2 DEF Request
    <1>13. settled' \in [Ids -> Messages] /\ PromisesAreTrue'
        <2>2. CASE settled' = settled
            <3>1. ASSUME NEW i \in Ids
                  PROVE  IsTrue(settled[i])'
                <4>1. PICK m : m = settled[i]
                    OBVIOUS
                <4>2. IsTrue(m)'
                    BY <1>0, <1>5, <3>1, <4>1 DEF PromisesAreTrue
                <4> QED BY <2>2, <4>1, <4>2
            <3> QED BY <1>0, <2>2, <3>1 DEF PromisesAreTrue, ConnectTypeOK
        <2>3. CASE settled' = [settled EXCEPT ![id] = Reply(id, "blocked")]
            <3>1. Reply(id, "blocked") \in Messages /\ Reply(id, "blocked").result = "blocked"
                BY <1>1, ReplyType DEF Results
            <3>2. settled' \in [Ids -> Messages]
                BY <1>0, <2>3, <3>1 DEF ConnectTypeOK
            <3>3. ASSUME NEW i \in Ids
                  PROVE  /\ IsTrue(settled[i])'
                         /\ settled'[i].result \in {"account", "signed"} => settled'[i].about = i
                <4>1. CASE i = id
                    BY <1>0, <1>1, <2>3, <3>1, <4>1 DEF IsTrue, ConnectTypeOK
                <4>2. CASE i # id
                    <5>1. PICK m : m = settled[i]
                        OBVIOUS
                    <5>2. IsTrue(m)' /\ settled'[i] = m
                        BY <1>0, <1>5, <2>3, <3>3, <4>2, <5>1 DEF PromisesAreTrue, ConnectTypeOK
                    <5>3. m.result \in {"account", "signed"} => m.about = i
                        BY <1>0, <3>3, <5>1 DEF PromisesAreTrue
                    <5> QED BY <5>2, <5>3
                <4> QED BY <4>1, <4>2
            <3> QED BY <3>2, <3>3 DEF PromisesAreTrue
        <2> QED BY <2>2, <2>3 DEF Request
    <1>14. ready' \in BOOLEAN /\ popup' \in {"none", "closed", "open"} /\ opened' \in 0 .. MaxWindows
        <2>1. /\ ready \in BOOLEAN /\ popup \in {"none", "closed", "open"}
              /\ opened \in 0 .. MaxWindows
            BY <1>0 DEF ConnectTypeOK
        <2>2. /\ ready' = ready \/ ready' = FALSE
              /\ popup' = popup \/ popup' = "open" \/ popup' = "none"
              /\ opened' = opened \/ (opened < MaxWindows /\ opened' = opened + 1)
            BY DEF Request
        <2>3. opened' \in 0 .. MaxWindows
            BY <2>1, <2>2
        <2> QED BY <2>1, <2>2, <2>3
    <1>15. ConnectTypeOK'
        BY <1>2, <1>6, <1>0, <1>11, <1>12, <1>13, <1>14 DEF ConnectTypeOK, Made
    <1> QED BY <1>6, <1>12, <1>13, <1>15 DEF ConnectInv

(***************************************************************************)
(* Steps that leave the requests alone.                                     *)
(***************************************************************************)

\* Truth depends on the requests alone.
LEMMA StaysTrue ==
    ASSUME asked' = asked
    PROVE  /\ Made' = Made
           /\ toSwap' = toSwap /\ MessagesAreTrue => MessagesAreTrue'
           /\ settled' = settled /\ PromisesAreTrue => PromisesAreTrue'
    BY DEF Made, IsTrue, MessagesAreTrue, PromisesAreTrue

\* A promise settled with a true message about itself.
LEMMA Settles ==
    ASSUME ConnectInv, asked' = asked, NEW id \in Ids, NEW m \in Messages, IsTrue(m),
           m.result \in {"account", "signed"} => m.about = id,
           settled' = [settled EXCEPT ![id] = m]
    PROVE  settled' \in [Ids -> Messages] /\ PromisesAreTrue'
    <1>1. settled \in [Ids -> Messages] /\ PromisesAreTrue
        BY DEF ConnectInv, ConnectTypeOK
    <1>2. settled' \in [Ids -> Messages]
        BY <1>1
    <1>3. ASSUME NEW i \in Ids
          PROVE  /\ IsTrue(settled[i])'
                 /\ settled'[i].result \in {"account", "signed"} => settled'[i].about = i
        <2>1. PICK n : n = settled'[i]
            OBVIOUS
        <2>2. IsTrue(n) /\ (n.result \in {"account", "signed"} => n.about = i)
            BY <1>1, <1>3, <2>1 DEF PromisesAreTrue
        <2>3. IsTrue(n)'
            BY <2>2 DEF IsTrue, Made
        <2> QED BY <2>1, <2>2, <2>3
    <1> QED BY <1>2, <1>3 DEF PromisesAreTrue

\* A true message posted to the swap page.
LEMMA Posts ==
    ASSUME ConnectInv, asked' = asked, NEW m \in Messages, IsTrue(m),
           toSwap' = Append(toSwap, m)
    PROVE  toSwap' \in Seq(Messages) /\ MessagesAreTrue'
    <1>1. toSwap' \in Seq(Messages) /\ \A i \in 1 .. Len(toSwap') : IsTrue(toSwap'[i])
        BY PostTrue
    <1>2. ASSUME NEW i \in 1 .. Len(toSwap')
          PROVE  IsTrue(toSwap[i])'
        <2>1. PICK n : n = toSwap'[i]
            OBVIOUS
        <2>2. IsTrue(n)'
            BY <1>1, <1>2, <2>1 DEF IsTrue, Made
        <2> QED BY <2>1, <2>2
    <1> QED BY <1>1, <1>2 DEF MessagesAreTrue

\* The swap page takes a message: it settles the promise the message is about.
LEMMA SwapHearsKeeps ==
    ASSUME ConnectInv, SwapHears
    PROVE  ConnectInv'
    <1> USE ConnectAssumption
    <1> DEFINE m == Head(toSwap)
    <1>0. ConnectTypeOK /\ PageKnows /\ MessagesAreTrue /\ PromisesAreTrue
        BY DEF ConnectInv
    <1>1. /\ toSwap # <<>> /\ toSwap' = Tail(toSwap)
          /\ asked' = asked /\ popup' = popup /\ page' = page /\ opened' = opened
        BY DEF SwapHears
    <1>2. /\ m \in Messages /\ IsTrue(m) /\ toSwap' \in Seq(Messages)
          /\ \A i \in 1 .. Len(toSwap') : IsTrue(toSwap'[i])
        BY <1>1, TakeTrue
    <1>3. MessagesAreTrue'
        <2>1. ASSUME NEW i \in 1 .. Len(toSwap')
              PROVE  IsTrue(toSwap[i])'
            <3>1. PICK n : n = toSwap'[i]
                OBVIOUS
            <3>2. IsTrue(n)'
                BY <1>1, <1>2, <2>1, <3>1 DEF IsTrue, Made
            <3> QED BY <3>1, <3>2
        <2> QED BY <2>1 DEF MessagesAreTrue
    <1>4. /\ queue' \in Seq(Made) /\ toWallet' \in Seq(Made) /\ ready' \in BOOLEAN
          /\ pending' \subseteq Made
          /\ settled' \in [Ids -> Messages] /\ PromisesAreTrue'
        <2>0. /\ queue \in Seq(Made) /\ toWallet \in Seq(Made) /\ ready \in BOOLEAN
              /\ pending \subseteq Made /\ settled \in [Ids -> Messages]
              /\ toWallet \o queue \in Seq(Made) /\ <<>> \in Seq(Made)
            BY <1>0 DEF ConnectTypeOK, Made
        <2>1. CASE m.result = "ready"
            <3>1. ready' = TRUE /\ pending' = pending /\ settled' = settled
                BY <2>1 DEF SwapHears
            <3>2. queue' \in Seq(Made) /\ toWallet' \in Seq(Made)
                BY <2>0, <2>1 DEF SwapHears, Flushed
            <3> QED BY <1>0, <1>1, <2>0, <3>1, <3>2, StaysTrue
        <2>2. CASE m.result # "ready" /\ m.about \in pending
            <3>1. /\ pending' = pending \ {m.about} /\ settled' = [settled EXCEPT ![m.about] = m]
                  /\ ready' = ready /\ queue' = queue /\ toWallet' = toWallet
                BY <2>2 DEF SwapHears, Answered
            <3>2. m.about \in Ids
                <4>1. pending \subseteq 1 .. Len(asked) /\ Len(asked) \in Nat /\ Len(asked) <= MaxAsks
                    BY <1>0 DEF ConnectTypeOK
                <4>2. m.about \in 1 .. Len(asked)
                    BY <2>2, <4>1
                <4> HIDE DEF m
                <4> QED BY <4>1, <4>2 DEF Ids
            <3>3. settled' \in [Ids -> Messages] /\ PromisesAreTrue'
                BY <1>1, <1>2, <3>1, <3>2, Settles
            <3> QED BY <2>0, <3>1, <3>3
        <2>3. CASE m.result # "ready" /\ m.about \notin pending
            <3>1. UNCHANGED <<pending, settled, ready, queue, toWallet>>
                BY <2>3 DEF SwapHears
            <3> QED BY <1>0, <1>1, <2>0, <3>1, StaysTrue
        <2> QED BY <2>1, <2>2, <2>3
    <1>5. ConnectTypeOK'
        BY <1>0, <1>1, <1>2, <1>4 DEF ConnectTypeOK, Made
    <1>6. PageKnows'
        BY <1>0, <1>1 DEF PageKnows, ApprovesWhatIsShown, Made
    <1> QED BY <1>3, <1>4, <1>5, <1>6 DEF ConnectInv

\* A promise ended by the poll of its window.
LEMMA PollKeeps ==
    ASSUME ConnectInv, NEW id \in Ids, PollSeesClosed(id)
    PROVE  ConnectInv'
    <1> USE ConnectAssumption
    <1>0. ConnectTypeOK /\ PageKnows /\ MessagesAreTrue /\ PromisesAreTrue
        BY DEF ConnectInv
    <1>1. /\ pending' = pending \ {id} /\ settled' = [settled EXCEPT ![id] = Reply(id, "closed")]
          /\ UNCHANGED <<asked, ready, popup, queue, toWallet, toSwap, page, opened>>
        BY DEF PollSeesClosed
    <1>2. Reply(id, "closed") \in Messages /\ Reply(id, "closed").result = "closed"
        BY ReplyType DEF Results, Ids
    <1>3. settled' \in [Ids -> Messages] /\ PromisesAreTrue'
        BY <1>1, <1>2, Settles DEF IsTrue
    <1>4. ConnectTypeOK'
        BY <1>0, <1>1, <1>3 DEF ConnectTypeOK
    <1>5. PageKnows' /\ MessagesAreTrue'
        BY <1>0, <1>1, StaysTrue DEF PageKnows, ApprovesWhatIsShown, Made
    <1> QED BY <1>3, <1>4, <1>5 DEF ConnectInv

\* What the steps of the window itself must show: the page stays a page that
\* knows its request, and what is posted is true.
LEMMA WindowKeeps ==
    ASSUME ConnectInv,
           UNCHANGED <<asked, pending, settled, ready, queue>>,
           popup' \in {"none", "closed", "open"}, opened' \in 0 .. MaxWindows,
           toWallet' \in Seq(Made), page' \in Pages, PageKnows',
           toSwap' \in Seq(Messages), MessagesAreTrue'
    PROVE  ConnectInv'
    <1>0. ConnectTypeOK /\ PromisesAreTrue
        BY DEF ConnectInv
    <1>1. PromisesAreTrue'
        BY <1>0, StaysTrue
    <1>2. ConnectTypeOK'
        BY <1>0 DEF ConnectTypeOK, Made
    <1> QED BY <1>1, <1>2 DEF ConnectInv

LEMMA PageStepsKeep ==
    ASSUME ConnectInv, Load \/ WalletHears \/ Unlock \/ ReloadWindow
    PROVE  ConnectInv'
    <1> USE ConnectAssumption
    <1>0. /\ ConnectTypeOK /\ PageKnows /\ MessagesAreTrue
          /\ toWallet \in Seq(Made) /\ page \in Pages /\ toSwap \in Seq(Messages)
          /\ popup \in {"none", "closed", "open"} /\ opened \in 0 .. MaxWindows
        BY DEF ConnectInv, ConnectTypeOK, Made
    <1>1. CASE Load
        <2>1. /\ page' = [page EXCEPT !.listening = TRUE]
              /\ toSwap' = Append(toSwap, Reply(0, "ready"))
              /\ UNCHANGED <<asked, pending, settled, ready, popup, queue, toWallet, opened>>
            BY <1>1 DEF Load
        <2>2. page' \in Pages /\ PageKnows'
            BY <1>0, <2>1 DEF Pages, PageKnows, ApprovesWhatIsShown, Made
        <2>3. Reply(0, "ready") \in Messages /\ IsTrue(Reply(0, "ready"))
            BY ReplyType DEF Results, IsTrue
        <2>4. toSwap' \in Seq(Messages) /\ MessagesAreTrue'
            BY <2>1, <2>3, Posts
        <2> QED BY <1>0, <2>1, <2>2, <2>4, WindowKeeps
    <1>2. CASE WalletHears
        <2>1. /\ toWallet # <<>> /\ toWallet' = Tail(toWallet)
              /\ page' = IF page.listening THEN Route(page, Head(toWallet)) ELSE page
              /\ UNCHANGED <<asked, pending, settled, ready, popup, queue, toSwap, opened>>
            BY <1>2 DEF WalletHears
        <2>2. Head(toWallet) \in Made /\ toWallet' \in Seq(Made)
            BY <1>0, <2>1
        <2>3. page' \in Pages /\ PageKnows'
            <3>1. CASE page.listening
                BY <2>1, <2>2, <3>1, Routed DEF PageKnows, ApprovesWhatIsShown, Made
            <3>2. CASE ~page.listening
                BY <1>0, <2>1, <3>2 DEF PageKnows, ApprovesWhatIsShown, Made
            <3> QED BY <3>1, <3>2
        <2> QED BY <1>0, <2>1, <2>2, <2>3, StaysTrue, WindowKeeps
    <1>3. CASE Unlock
        <2> DEFINE p == [page EXCEPT !.unlocked = TRUE]
        <2>1. /\ page.card = "lock" /\ page' = Rendered(p, page.current)
              /\ UNCHANGED <<asked, pending, settled, ready, popup, queue, toWallet, toSwap, opened>>
            BY <1>3 DEF Unlock
        <2>2. page.current \in Made /\ page.current \in Ids
            BY <1>0, <2>1 DEF PageKnows, ConnectTypeOK, Made, Ids
        <2>3. p \in Pages /\ p.current = page.current
            BY <1>0 DEF Pages
        <2> HIDE DEF p
        <2>4. /\ page' \in Pages /\ page'.shown = page.current
              /\ page'.current = page.current
            BY <2>1, <2>2, <2>3, Drawn
        <2>5. PageKnows'
            BY <2>1, <2>2, <2>4 DEF PageKnows, ApprovesWhatIsShown, Made
        <2> QED BY <1>0, <2>1, <2>4, <2>5, StaysTrue, WindowKeeps
    <1>4. CASE ReloadWindow
        <2>1. /\ opened' = opened + 1 /\ opened < MaxWindows /\ page' = FreshPage(page.vault)
              /\ UNCHANGED <<asked, pending, settled, ready, popup, queue, toWallet, toSwap>>
            BY <1>4 DEF ReloadWindow
        <2>2. page.vault \in BOOLEAN
            BY <1>0 DEF Pages
        <2>3. page' \in Pages /\ PageKnows'
            BY <2>1, <2>2, BlankPages DEF PageKnows, ApprovesWhatIsShown
        <2>4. opened' \in 0 .. MaxWindows
            BY <1>0, <2>1
        <2> QED BY <1>0, <2>1, <2>3, <2>4, StaysTrue, WindowKeeps
    <1> QED BY <1>1, <1>2, <1>3, <1>4

\* Approval posts the account, or the signature of the request on the screen
\* once it passed the signer's checks.
LEMMA ApproveKeeps ==
    ASSUME ConnectInv, Approve
    PROVE  ConnectInv'
    <1> USE ConnectAssumption
    <1> DEFINE id == page.current
               r == asked[id]
    <1>0. /\ ConnectTypeOK /\ PageKnows /\ MessagesAreTrue
          /\ toWallet \in Seq(Made) /\ page \in Pages /\ toSwap \in Seq(Messages)
          /\ popup \in {"none", "closed", "open"} /\ opened \in 0 .. MaxWindows
        BY DEF ConnectInv, ConnectTypeOK, Made
    <1>1. /\ page.card = "request"
          /\ UNCHANGED <<asked, pending, settled, ready, popup, queue, toWallet, opened>>
        BY DEF Approve
    <1>2. id \in Made /\ id \in 0 .. MaxAsks
        BY <1>0, <1>1 DEF PageKnows, ConnectTypeOK, Made
    <1>3. page' \in Pages /\ PageKnows'
        <2>1. page' = page \/ page' = [page EXCEPT !.approve = FALSE, !.reject = FALSE]
            BY DEF Approve
        <2> QED BY <1>0, <1>1, <2>1 DEF PageKnows, ApprovesWhatIsShown, Made, Pages
    <1>4. toSwap' \in Seq(Messages) /\ MessagesAreTrue'
        <2>1. CASE r.kind = "account"
            <3>1. toSwap' = Append(toSwap, Reply(id, "account"))
                BY <2>1 DEF Approve
            <3>2. Reply(id, "account") \in Messages /\ IsTrue(Reply(id, "account"))
                BY <1>2, <2>1, ReplyType DEF Results, IsTrue
            <3> QED BY <1>1, <3>1, <3>2, Posts
        <2>2. CASE r.kind # "account" /\ Signs(r)
            <3> DEFINE m == [Reply(id, "signed") EXCEPT !.signed = id]
            <3>1. toSwap' = Append(toSwap, m)
                BY <2>2 DEF Approve
            <3>2. /\ m \in Messages /\ m.about = id /\ m.signed = id
                  /\ m.result = "signed"
                BY <1>2 DEF Results, Messages, Reply
            <3>3. IsTrue(m)
                BY <1>2, <2>2, <3>2 DEF IsTrue
            <3> HIDE DEF m
            <3> QED BY <1>1, <3>1, <3>2, <3>3, Posts
        <2>3. CASE r.kind # "account" /\ ~Signs(r)
            <3>1. toSwap' = Append(toSwap, Reply(id, "refused"))
                BY <2>3 DEF Approve
            <3>2. Reply(id, "refused") \in Messages /\ IsTrue(Reply(id, "refused"))
                BY <1>2, ReplyType DEF Results, IsTrue
            <3> QED BY <1>1, <3>1, <3>2, Posts
        <2> QED BY <2>1, <2>2, <2>3
    <1> QED BY <1>0, <1>1, <1>3, <1>4, WindowKeeps

\* The window goes away, with or without a last word.
LEMMA ShutKeeps ==
    ASSUME ConnectInv, Reject \/ Close
    PROVE  ConnectInv'
    <1> USE ConnectAssumption
    <1>0. /\ ConnectTypeOK /\ PageKnows /\ MessagesAreTrue
          /\ page \in Pages /\ toSwap \in Seq(Messages)
          /\ popup \in {"none", "closed", "open"} /\ opened \in 0 .. MaxWindows
        BY DEF ConnectInv, ConnectTypeOK
    <1>1. /\ popup' = "closed" /\ page' = [NoPage EXCEPT !.vault = page.vault] /\ toWallet' = <<>>
          /\ UNCHANGED <<asked, pending, settled, ready, queue, opened>>
        BY DEF Reject, Close, Shut
    <1>2. page' \in Pages /\ PageKnows'
        <2>1. page.vault \in BOOLEAN
            BY <1>0 DEF Pages
        <2> QED BY <1>1, <2>1, BlankPages DEF PageKnows, ApprovesWhatIsShown
    <1>3. toSwap' \in Seq(Messages) /\ MessagesAreTrue'
        <2>1. CASE Close
            BY <1>0, <1>1, <2>1, StaysTrue DEF Close
        <2>2. CASE Reject
            <3>1. page.current \in 0 .. MaxAsks
                BY <1>0 DEF Pages
            <3>2. /\ Reply(page.current, "rejected") \in Messages
                  /\ IsTrue(Reply(page.current, "rejected"))
                BY <3>1, ReplyType DEF Results, IsTrue
            <3> QED BY <1>1, <2>2, <3>2, Posts DEF Reject
        <2> QED BY <2>1, <2>2
    <1>4. toWallet' \in Seq(Made)
        BY <1>1
    <1> QED BY <1>0, <1>1, <1>2, <1>3, <1>4, WindowKeeps

LEMMA ConnectInvariant == ConnectSpec => []ConnectInv
    <1>1. ConnectInit => ConnectInv
        BY StartIsTrue
    <1>2. ConnectInv /\ [ConnectNext]_connectVars => ConnectInv'
        <2> SUFFICES ASSUME ConnectInv, [ConnectNext]_connectVars
                     PROVE  ConnectInv'
            OBVIOUS
        <2>1. ASSUME NEW r \in Requests, Request(r) PROVE ConnectInv'
            BY <2>1, RequestKeeps
        <2>2. ASSUME NEW id \in Ids, PollSeesClosed(id) PROVE ConnectInv'
            BY <2>2, PollKeeps
        <2>3. CASE SwapHears
            BY <2>3, SwapHearsKeeps
        <2>4. CASE Load \/ WalletHears \/ Unlock \/ ReloadWindow
            BY <2>4, PageStepsKeep
        <2>5. CASE Approve
            BY <2>5, ApproveKeeps
        <2>6. CASE Reject \/ Close
            BY <2>6, ShutKeeps
        <2>7. CASE UNCHANGED connectVars
            BY <2>7 DEF connectVars, ConnectInv, ConnectTypeOK, PageKnows, ApprovesWhatIsShown,
                        MessagesAreTrue, PromisesAreTrue, IsTrue, Made
        <2> QED BY <2>1, <2>2, <2>3, <2>4, <2>5, <2>6, <2>7 DEF ConnectNext
    <1> QED BY <1>1, <1>2, PTL DEF ConnectSpec

(***************************************************************************)
(* The theorems.                                                           *)
(***************************************************************************)

\* What the signer signs, the swap's output accepts: the branch it chooses by the
\* lock time is one whose conditions the transaction meets (htlc_sign.js 168-217
\* against 136-140).
LEMMA SignedIsAccepted ==
    ASSUME NEW p, Signs(p)
    PROVE  ChainAccepts(SignedTx(p)) /\ p.network \in CONNECT_NETWORKS
    <1>1. Branch(p) \in {"redeem", "refund"} /\ p.network \in CONNECT_NETWORKS
        BY DEF Signs, Readable, Branch
    <1>2. CASE Branch(p) = "redeem"
        <2>1. p.redeem /\ p.secret = "right"
            BY <1>2 DEF Signs, FindsKey
        <2> QED BY <1>1, <1>2, <2>1 DEF ChainAccepts, SignedTx
    <1>3. CASE Branch(p) = "refund"
        <2>1. p.refund /\ p.lock = "refund" /\ ~p.final
            BY <1>3 DEF Signs, FindsKey, Branch
        <2> QED BY <1>1, <1>3, <2>1 DEF ChainAccepts, SignedTx
    <1> QED BY <1>1, <1>2, <1>3

\* Every reachable state of the hand-off has the declared types.
THEOREM ConnectTypeCorrect == ConnectSpec => []ConnectTypeOK
    <1>1. ConnectInv => ConnectTypeOK
        BY DEF ConnectInv
    <1> QED BY <1>1, ConnectInvariant, PTL

\* Whatever windows close, reload or overtake each other, a promise resolves with
\* the answer to its own request, and a signature is for a testnet.
THEOREM AnswersAreOwn == ConnectSpec => []AnswersItsRequest
    <1>1. ConnectInv => AnswersItsRequest
        <2> SUFFICES ASSUME ConnectInv, NEW id \in Ids
                     PROVE  /\ settled[id].result = "account" => asked[id].kind = "account"
                            /\ settled[id].result = "signed" =>
                                   /\ settled[id].signed = id
                                   /\ asked[id].network \in CONNECT_NETWORKS
            BY DEF AnswersItsRequest
        <2>1. /\ IsTrue(settled[id])
              /\ settled[id].result \in {"account", "signed"} => settled[id].about = id
            BY DEF ConnectInv, PromisesAreTrue
        <2> QED BY <2>1, SignedIsAccepted DEF IsTrue
    <1> QED BY <1>1, ConnectInvariant, PTL

\* A signature that reaches the swap page makes a transaction the swap's output
\* accepts.
THEOREM SignaturesSpend == ConnectSpec => []HandedIsSpendable
    <1>1. ConnectInv => HandedIsSpendable
        <2> SUFFICES ASSUME ConnectInv, NEW id \in Ids, settled[id].result = "signed"
                     PROVE  ChainAccepts(SignedTx(asked[settled[id].signed]))
            BY DEF HandedIsSpendable
        <2>1. IsTrue(settled[id])
            BY DEF ConnectInv, PromisesAreTrue
        <2>2. Signs(asked[settled[id].signed])
            BY <2>1 DEF IsTrue
        <2> QED BY <2>2, SignedIsAccepted
    <1> QED BY <1>1, ConnectInvariant, PTL

\* The button approves the request on the screen.
THEOREM ButtonIsAboutTheScreen == ConnectSpec => []ApprovesWhatIsShown
    <1>1. ConnectInv => ApprovesWhatIsShown
        BY DEF ConnectInv, PageKnows
    <1> QED BY <1>1, ConnectInvariant, PTL
===============================================================================
