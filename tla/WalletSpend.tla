----------------------------- MODULE WalletSpend -----------------------------
(***************************************************************************)
(* How the wallet turns a request into a signed transaction: the builders of *)
(* src/tx.js, src/legacy_sign.js and src/p2pk_fund.js, and src/account.js     *)
(* which chooses one, checks the node's word on old-format coins first and   *)
(* audits the bytes last.  A script is what the rules tell apart: the         *)
(* destination, the change address, the data output.  Amounts, sizes and fee *)
(* rates are the code's own numbers (a rate in tenths of a satoshi).          *)
(***************************************************************************)
EXTENDS Integers, FiniteSets, Sequences, SequencesExt, FiniteSetsExt

CONSTANTS
    Requests,    \* what the user asks: [kind, coins, amount, rate, note, own]
    None

(* kind: "pay", "sweep", "move" (into one of the wallet's own bare public     *)
(* keys), and the testnet page's "fund" and "lab" (into and out of one) and   *)
(* "psbt" (unsigned, for the offline signer).                                *)
(* coins: records [id, type, value, real], the amount the node reports and    *)
(* the one on the chain.  note: the message's bytes.  own: the destination is *)
(* the change address itself.                                                *)

VARIABLES req, stage, tx, shown
spendVars == <<req, stage, tx, shown>>

SegwitTypes == {"p2wpkh", "p2tr", "p2sh-p2wpkh"}
IsRaw(c) == c.type \in {"p2pk", "p2pkh-uncompressed"}      \* entry.group = "raw"
NeedsPrev(c) == c.type \notin SegwitTypes

MAX_FEERATE == 5000
MIN_OUTPUT_SAT == 546
FUND_CHANGE_MIN == 294
OP_RETURN_MAX == 80

Lesser(i, j) == IF i < j THEN i ELSE j
CeilDiv(a, b) == (a + b - 1) \div b
\* Mutant: the rate is rounded down.
RateFloor == req.rate \div 10

Rate == CeilDiv(req.rate, 10)                  \* assertFeeRate rounds up

ValueOf(S) == MapThenSumSet(LAMBDA c : c.value, S)
RealOf(S) == MapThenSumSet(LAMBDA c : c.real, S)
OutSum(outs) == FoldLeft(LAMBDA sum, o : sum + o.amount, 0, outs)

Pay(amount) == <<[to |-> "dest", amount |-> amount]>>
Change(amount) == <<[to |-> "change", amount |-> amount]>>
Data == IF req.note = 0 THEN <<>> ELSE <<[to |-> "data", amount |-> 0]>>

(* Bytes of an output: value, length and script (22 bytes for an address of   *)
(* the wallet, 35 for a bare public key, a push of the note otherwise).      *)
OutBytes(o) ==
    CASE o.to = "data" -> 11 + req.note + (IF req.note > 75 THEN 1 ELSE 0)
      [] o.to = "dest" /\ req.kind \in {"move", "fund"} -> 44
      [] OTHER -> 31

(* Weight units of an input with a 72-byte signature. *)
InWeight(c) ==
    CASE c.type = "p2tr" -> 230 [] c.type = "p2wpkh" -> 272 [] c.type = "p2sh-p2wpkh" -> 364
      [] c.type = "p2pkh" -> 593 [] c.type = "p2pk" -> 456 [] OTHER -> 720

VSize(ins, outs) ==
    LET overhead == IF \A c \in ins : IsRaw(c) THEN 40 ELSE 42
    IN  CeilDiv(overhead + MapThenSumSet(InWeight, ins)
                         + 4 * FoldLeft(LAMBDA n, o : n + OutBytes(o), 0, outs), 4)

Fee(t) == ValueOf(t.ins) - OutSum(t.outs)               \* actualFee
Tx(ins, outs) == [ins |-> ins, outs |-> outs]

(***************************************************************************)
(* The builders.  Each gives the set of transactions it may return.         *)
(***************************************************************************)
(* btc.selectUTXO, strategy 'default': some coins that cover the outputs and  *)
(* the fee, change when it is not dust, outputs in the order of BIP-69.      *)
Selections(coins, outs, rate) ==
    LET sorted(s) == SortSeq(s, LAMBDA o, p : o.amount < p.amount)
        left(T) == ValueOf(T) - OutSum(outs)
        change(T) == left(T) - rate * VSize(T, outs \o Change(0))
    IN  {Tx(T, sorted(IF change(T) >= MIN_OUTPUT_SAT THEN outs \o Change(change(T)) ELSE outs)) :
            T \in {U \in (SUBSET coins) \ {{}} : left(U) >= rate * VSize(U, outs)}}

(* buildSignedTx; buildSignedTxMulti, for coins of several keys; and the       *)
(* unsigned payment of buildUnsignedPSBT.                                    *)
SignedTx == Selections(req.coins, Pay(req.amount) \o Data, Rate)
SignedTxMulti == SignedTx
UnsignedTx == SignedTx

(* What selectUTXO reports as the fee of an unsigned payment: a change output  *)
(* it left out is counted as if it were there.                               *)
ReportedFee(t) ==
    IF \E i \in DOMAIN t.outs : t.outs[i].to = "change" THEN Fee(t)
    ELSE Lesser(Fee(t), Rate * VSize(t.ins, t.outs \o Change(0)))

(* buildSweepTx, and buildSweepTxMulti for coins of several keys: every coin,  *)
(* one output takes the rest.                                                *)
SweepTx ==
    LET sent == ValueOf(req.coins) - Rate * VSize(req.coins, Data \o Pay(0))
    IN  IF sent < MIN_OUTPUT_SAT THEN {} ELSE {Tx(req.coins, Data \o Pay(sent))}
SweepTxMulti == SweepTx

(* buildRawScriptTx: the largest coins first, the fee settled on the real      *)
(* size of what was built, twice at most.                                    *)
Largest(k) ==
    CHOOSE T \in SUBSET req.coins :
        Cardinality(T) = k /\ \A c \in T, d \in req.coins \ T : c.value >= d.value

InputVb(c) ==
    CASE c.type = "p2wpkh" -> 68 [] c.type = "p2tr" -> 58 [] c.type = "p2sh-p2wpkh" -> 91
      [] c.type = "p2pk" -> 114 [] OTHER -> 148

FirstGuess(k) ==
    11 + MapThenSumSet(InputVb, Largest(k)) + 44
       + (IF req.note = 0 THEN 0 ELSE 9 + req.note) + 31

Draft(k, fee) ==
    LET change == ValueOf(Largest(k)) - req.amount - fee
    IN  IF change < 0 THEN None
        ELSE Tx(Largest(k), Pay(req.amount) \o Data \o
                            (IF change >= MIN_OUTPUT_SAT THEN Change(change) ELSE <<>>))

Settle(k, t) ==
    IF t = None THEN None
    ELSE LET want == Rate * VSize(t.ins, t.outs)
         IN  IF Fee(t) >= want /\ Fee(t) - want <= MIN_OUTPUT_SAT + 2 * Rate THEN t
             ELSE Draft(k, want)

RawScriptTx ==
    LET attempt(k) == Settle(k, Settle(k, Draft(k, Rate * FirstGuess(k))))
        enough == {k \in 1 .. Cardinality(req.coins) : attempt(k) # None}
    IN  IF enough = {} THEN {} ELSE {attempt(Min(enough))}

(* buildLegacyTx: every coin of an old-format key. *)
LegacyTx ==
    LET total == ValueOf(req.coins)
        feeFor(outs) == Rate * VSize(req.coins, outs)
        swept == total - feeFor(Pay(0) \o Data)
        change == total - req.amount - feeFor(Pay(0) \o Change(0) \o Data)
    IN  IF req.kind = "sweep"
          THEN IF swept < MIN_OUTPUT_SAT THEN {} ELSE {Tx(req.coins, Pay(swept) \o Data)}
        ELSE IF change >= MIN_OUTPUT_SAT
          THEN {Tx(req.coins, Pay(req.amount) \o Change(change) \o Data)}
        ELSE IF total - req.amount < feeFor(Pay(0) \o Data) THEN {}
        ELSE {Tx(req.coins, Pay(req.amount) \o Data)}

(* selectFundCoins: the smallest coin that is enough, else the smallest coins  *)
(* until they are; and buildFundP2PK.                                        *)
FundFee(n) == Rate * (11 + 68 * n + 44 + 31)
FundCoins ==
    LET covers(T) == ValueOf(T) >= req.amount + FundFee(Cardinality(T))
        singles == {T \in {{c} : c \in req.coins} : covers(T)}
        smallest(k) == CHOOSE T \in SUBSET req.coins :
                           Cardinality(T) = k /\ \A c \in T, d \in req.coins \ T : c.value <= d.value
        counts == {k \in 1 .. Cardinality(req.coins) : covers(smallest(k))}
    IN  IF singles # {} THEN CHOOSE T \in singles : \A U \in singles : ValueOf(T) <= ValueOf(U)
        ELSE IF counts = {} THEN {} ELSE smallest(Min(counts))

FundTx ==
    LET change == ValueOf(FundCoins) - req.amount - FundFee(Cardinality(FundCoins))
    IN  IF FundCoins = {} THEN {}
        ELSE {Tx(FundCoins, Pay(req.amount) \o (IF change >= FUND_CHANGE_MIN THEN Change(change) ELSE <<>>))}

\* Mutant: the rest is paid out however little it is.
LabTxDust ==
    LET sent == ValueOf(req.coins) - Rate * VSize(req.coins, Pay(0) \o Data)
    IN  IF sent <= 0 THEN {} ELSE {Tx(req.coins, Pay(sent) \o Data)}

(* buildSpendP2PK: one coin of a bare public key, whole. *)
LabTx ==
    LET sent == ValueOf(req.coins) - Rate * VSize(req.coins, Pay(0) \o Data)
    IN  IF sent < MIN_OUTPUT_SAT THEN {} ELSE {Tx(req.coins, Pay(sent) \o Data)}

(***************************************************************************)
(* buildSpend: refuse, check the old coins, build, audit.                   *)
(***************************************************************************)
SpendInit == req \in Requests /\ stage = "asked" /\ tx = None /\ shown = None

(* assertFeeRate, assertRecipientAmount, opReturnScript and the group rules. *)
Valid ==
    /\ req.rate >= 10 /\ req.rate <= 10 * MAX_FEERATE
    /\ req.note <= OP_RETURN_MAX
    /\ req.coins # {}
    /\ \A c, d \in req.coins : IsRaw(c) = IsRaw(d)
    /\ req.kind \in {"pay", "move", "fund", "psbt"} => req.amount >= MIN_OUTPUT_SAT
    /\ req.kind \in {"fund", "psbt"} => \A c \in req.coins : c.type = "p2wpkh"
    /\ req.kind = "lab" => \E c \in req.coins : req.coins = {c} /\ c.type = "p2pk"

To(s) == stage' = s /\ UNCHANGED <<req, tx, shown>>

Refuse == stage = "asked" /\ ~Valid /\ To("refused")

\* Mutant: the node's amounts are taken as they are.
TrustPrevouts == stage = "asked" /\ Valid /\ To("checked")

(* verifyPrevout: the amount of a coin whose signature does not commit to it   *)
(* is the previous transaction's, or nothing is signed.                      *)
VerifyPrevouts ==
    /\ stage = "asked" /\ Valid
    /\ IF \A c \in req.coins : NeedsPrev(c) => c.value = c.real THEN To("checked") ELSE To("refused")

Unaudited == {"fund", "lab", "psbt"}

Drafts ==
    IF req.kind \in Unaudited
      THEN CASE req.kind = "fund" -> FundTx [] req.kind = "lab" -> LabTx [] req.kind = "psbt" -> UnsignedTx
    ELSE IF \E c \in req.coins : IsRaw(c) THEN LegacyTx
    ELSE CASE req.kind = "move" -> RawScriptTx [] req.kind = "sweep" -> SweepTxMulti
           [] req.kind = "pay" -> SignedTxMulti

Build ==
    /\ stage = "checked"
    /\ \/ \E t \in Drafts : tx' = t /\ stage' = "built"
       \/ Drafts = {} /\ stage' = "refused" /\ tx' = tx
    /\ UNCHANGED <<req, shown>>

(* auditBuiltTx: the final bytes, output by output.  An output on the script   *)
(* asked for is the payment; when that is the change address too, the first  *)
(* that has the amount asked or comes last.                                  *)
Script(o) == IF req.own /\ o.to = "dest" THEN "change" ELSE o.to
DestScript == IF req.own THEN "change" ELSE "dest"

Read ==
    LET one(a, i) ==
          LET o == tx.outs[i]
              isDest == /\ Script(o) = DestScript
                        /\ req.own => /\ a.count = 0
                                      /\ req.kind = "sweep" \/ o.amount = req.amount \/ i = Len(tx.outs)
          IN  CASE Script(o) = "data" -> [a EXCEPT !.data = @ + 1]
                [] Script(o) # "data" /\ isDest -> [a EXCEPT !.sent = @ + o.amount, !.count = @ + 1]
                [] Script(o) = "change" /\ ~isDest /\ req.kind # "sweep" -> [a EXCEPT !.change = @ + o.amount]
                [] OTHER -> [a EXCEPT !.stray = TRUE]
    IN  FoldLeftDomain(one, [sent |-> 0, change |-> 0, count |-> 0, data |-> 0, stray |-> FALSE], tx.outs)

\* Mutant: no data output is ever expected.
AuditPassesNoNote(a) == ~a.stray /\ a.count = 1 /\ a.data = 0

AuditPasses(a) ==
    /\ ~a.stray /\ a.count = 1
    /\ a.data = Len(Data)
    /\ req.kind # "sweep" => a.sent = req.amount
    /\ Fee(tx) > 0 /\ Fee(tx) <= MAX_FEERATE * VSize(tx.ins, tx.outs) + MIN_OUTPUT_SAT

(* Only the mainnet wallet audits; the testnet page shows the builder's word, *)
(* the library's for an unsigned payment.                                    *)
Audit ==
    /\ stage = "built"
    /\ LET a == Read IN
       IF req.kind \in Unaudited \/ AuditPasses(a)
         THEN /\ stage' = "shown"
              /\ shown' = [sent |-> a.sent, fee |-> IF req.kind = "psbt" THEN ReportedFee(tx) ELSE Fee(tx)]
         ELSE stage' = "unaudited" /\ shown' = shown
    /\ UNCHANGED <<req, tx>>

SpendNext == Refuse \/ VerifyPrevouts \/ Build \/ Audit

(***************************************************************************)
(* Properties.                                                             *)
(***************************************************************************)
Received(to) == OutSum(SelectSeq(tx.outs, LAMBDA o : o.to = to))

(* A node that lied about a SegWit amount makes a signature no node accepts. *)
Relayable == \A c \in tx.ins : c.type \in SegwitTypes => c.value = c.real

(* What is shown before sending is what the chain will do: the payment, the    *)
(* fee, and every other satoshi back on the change address, for every coin   *)
(* mix and whatever amounts the node reported.  (An unsigned payment is shown   *)
(* again, from its own bytes, by the signer.)                                *)
ShownIsTrue ==
    stage = "shown" /\ Relayable /\ req.kind # "psbt" =>
        /\ shown.sent = Received("dest")
        /\ shown.fee = RealOf(tx.ins) - OutSum(tx.outs)
        /\ Received("dest") + Received("change") + shown.fee = RealOf(tx.ins)

(* The audit never stands in the way of what the builders build, a payment to  *)
(* the change address itself included.                                       *)
AuditAccepts == stage # "unaudited"

(* No transaction pays less than the rate the user chose, one moved into a     *)
(* bare public key aside (MoveCoversRate).                                   *)
CoversRate ==
    stage = "shown" /\ req.kind # "move" => 10 * Fee(tx) >= req.rate * VSize(tx.ins, tx.outs)

(* "The fee is settled by rebuilding once with the real size" (181-182). *)
MoveCoversRate ==
    stage = "shown" /\ req.kind = "move" => 10 * Fee(tx) >= req.rate * VSize(tx.ins, tx.outs)

(* Nothing above the rate is paid but the room of a change output left out and *)
(* what was too little for one, and no output is dust.                       *)
NothingWasted ==
    stage = "shown" =>
        /\ Fee(tx) < Rate * (VSize(tx.ins, tx.outs) + 35) + MIN_OUTPUT_SAT
        /\ \A i \in DOMAIN tx.outs : tx.outs[i].to # "data" =>
              tx.outs[i].amount >= IF req.kind = "fund" THEN FUND_CHANGE_MIN ELSE MIN_OUTPUT_SAT
=============================================================================
