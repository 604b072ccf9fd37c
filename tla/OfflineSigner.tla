---------------------------- MODULE OfflineSigner ----------------------------
(***************************************************************************)
(* The air gap.  An online half builds an unsigned transaction (src/psbt.js,  *)
(* src/send.js), a file carries it across, and the offline page               *)
(* (signer/index.html over signer/core.mjs) reviews and signs it; the testnet *)
(* page has a signer of its own (signUnsigned of src/send.js).  The file is   *)
(* not trusted: what it says of amounts may be false.                        *)
(***************************************************************************)
EXTENDS Integers, FiniteSets, Sequences, FiniteSetsExt

CONSTANTS
    SignerSeeds,  \* the recovery phrases somebody may type
    Files,        \* the unsigned transactions a file may hold: [ins, outs]
    NoFile        \* an empty field

(* ins: a set of [id, owner, chain, index, evidence, told, real, sighash].      *)
(* owner: the seed and coin type of the key the input's script pays; chain,    *)
(* index: the key's place.  evidence: "witness" (an amount and a script),      *)
(* "previous" (the transaction it comes from), "forged" (another one) or       *)
(* "nothing".  told: the amount the file says, real: the chain's.              *)
(* outs: [to, amount], to is "other", "own" or "burn", a sequence.            *)

VARIABLES
    signer,      \* which of the two pages signs: "offline" or "testnet"
    fields,      \* [seed, net, psbt]: the page's inputs; on the testnet page the wallet
                 \* open, the network shown and the input pasted into
    reading,     \* the file being read, NoFile for none
    lastReview,  \* what the review card or the sheet was made from, <<>> for none
    signed       \* what the page shows as signed: [by, reviewed, fields], <<>> for none
signerVars == <<signer, fields, reading, lastReview, signed>>

SignerNets == {"mainnet", "testnet4"}
CoinType(net) == IF net = "mainnet" THEN 0 ELSE 1
GAP == 20
MAX_FEERATE_SANITY == 1000

(***************************************************************************)
(* describePSBT.                                                            *)
(***************************************************************************)
KnownInput(i) == i.evidence \in {"witness", "previous"} \* the fingerprint matched

AmountOf(i) == IF i.evidence = "previous" THEN i.real ELSE i.told
IsMine(i, f) == KnownInput(i) /\ i.owner = <<f.seed, CoinType(f.net)>> /\ i.index <= GAP

Total(S, amount(_)) == FoldSet(LAMBDA i, sum : sum + amount(i), 0, S)
InTotal(p) == Total(p.ins, AmountOf)
OutTotal(p) == Total(DOMAIN p.outs, LAMBDA k : p.outs[k].amount)
FeeKnown(p) == \A i \in p.ins : KnownInput(i)
FeeOf(p) == InTotal(p) - OutTotal(p)
EstVsize(p) == (105 + 680 * Cardinality(p.ins) + 310 * Len(p.outs) + 9) \div 10

(***************************************************************************)
(* reviewPSBT, signPSBT, signUnsigned.                                      *)
(***************************************************************************)
\* Mutant: the fee is held against what is sent.
FeeIsSaneOfOutputs(p) == FeeKnown(p) /\ FeeOf(p) >= 0 /\ FeeOf(p) <= OutTotal(p)
FeeIsSane(p) ==
    /\ FeeKnown(p) /\ FeeOf(p) >= 0
    /\ InTotal(p) > 0 => 5 * FeeOf(p) <= InTotal(p)

AllMine(f) == f.psbt.ins # {} /\ \A i \in f.psbt.ins : IsMine(i, f)
(* The rate is compared after rounding to a tenth. *)
SafeToSign(f) ==
    /\ AllMine(f)
    /\ FeeIsSane(f.psbt)
    /\ 20 * FeeOf(f.psbt) < (20 * MAX_FEERATE_SANITY + 1) * EstVsize(f.psbt)
    /\ \A i \in f.psbt.ins : i.sighash \in {"absent", "all"}

(* The testnet page signs with one key of the receive branch: an input of     *)
(* another address leaves finalize() to throw.                               *)
SignsAt(f, index) ==
    /\ AllMine(f) /\ FeeIsSane(f.psbt)
    /\ \A i \in f.psbt.ins : i.chain = 0 /\ i.index = index /\ i.sighash \in {"absent", "all"}

(***************************************************************************)
(* The offline page.  The review card is on the screen while lastReview is   *)
(* set, the signed card while signed is.                                    *)
(***************************************************************************)
Invalidated == lastReview' = <<>> /\ signed' = <<>>
NewSecretOrNetwork ==
    \/ \E s \in SignerSeeds : fields' = [fields EXCEPT !.seed = s]  \* typed, generated, or opened
    \/ \E n \in SignerNets : fields' = [fields EXCEPT !.net = n]
NewInput == \E p \in Files : fields' = [fields EXCEPT !.psbt = p]

Edit ==
    /\ signer = "offline"
    /\ NewSecretOrNetwork \/ NewInput
    /\ Invalidated
    /\ UNCHANGED <<signer, reading>>

PickFile ==
    /\ signer = "offline"
    /\ \E p \in Files : reading' = p
    /\ UNCHANGED <<signer, fields, lastReview, signed>>

FileArrives ==
    /\ reading # NoFile
    /\ fields' = [fields EXCEPT !.psbt = reading]
    /\ reading' = NoFile
    /\ Invalidated
    /\ UNCHANGED signer

ReviewFields ==
    /\ signer = "offline" /\ fields.psbt # NoFile
    /\ lastReview' = <<fields>> /\ signed' = <<>>
    /\ UNCHANGED <<signer, fields, reading>>

Sign ==
    /\ signer = "offline"
    /\ lastReview # <<>> /\ SafeToSign(lastReview[1])
    /\ signed' = <<[by |-> "offline", reviewed |-> lastReview[1], fields |-> lastReview[1]]>>
    /\ UNCHANGED <<signer, fields, reading, lastReview>>

(***************************************************************************)
(* The testnet page.  The sheet shows what it read of the input; the wallet,  *)
(* the network and the passphrase are read again after it was agreed to, the *)
(* input is not.  Opening a wallet or switching the network shows the home   *)
(* pane, which cancels the sheet; a payment's sheet takes its place.         *)
(***************************************************************************)
\* Mutant: the sheet stays open when another pane is shown.
SheetStays == lastReview' = lastReview
(* closeConfirm(false) of showPane.                                          *)
SheetCloses == lastReview' = <<>>

OpenOrSwitch ==
    /\ signer = "testnet"
    /\ NewSecretOrNetwork
    /\ SheetCloses
    /\ UNCHANGED <<signer, reading, signed>>
Paste ==
    /\ signer = "testnet"
    /\ NewInput
    /\ UNCHANGED <<signer, reading, lastReview, signed>>
SignAsked ==
    /\ signer = "testnet" /\ fields.psbt # NoFile
    /\ lastReview' = <<fields>>
    /\ UNCHANGED <<signer, fields, reading, signed>>
SignUnsigned ==
    /\ signer = "testnet" /\ lastReview # <<>>
    /\ lastReview' = <<>>
    /\ LET f == [fields EXCEPT !.psbt = lastReview[1].psbt]
       IN  signed' = IF SignsAt(f, 0)
                     THEN <<[by |-> "testnet", reviewed |-> lastReview[1], fields |-> f]>>
                     ELSE signed
    /\ UNCHANGED <<signer, fields, reading>>
SheetDismissed ==
    /\ signer = "testnet" /\ lastReview # <<>>
    /\ lastReview' = <<>>
    /\ UNCHANGED <<signer, fields, reading, signed>>

SignerInit ==
    /\ signer \in {"offline", "testnet"}
    /\ fields \in [seed : SignerSeeds, net : SignerNets, psbt : {NoFile}]
    /\ reading = NoFile /\ lastReview = <<>> /\ signed = <<>>
SignerNext ==
    \/ Edit \/ PickFile \/ FileArrives \/ ReviewFields \/ Sign
    \/ OpenOrSwitch \/ Paste \/ SignAsked \/ SignUnsigned \/ SheetDismissed
SignerSpec == SignerInit /\ [][SignerNext]_signerVars

(***************************************************************************)
(* Properties.                                                              *)
(***************************************************************************)
\* On the offline page a review or a signature on the screen is about what the
\* fields hold now: no edit and no late file leaves one standing over other bytes
\* (index.html 81-99, 136-138).  On the testnet page the sheet is of the wallet and
\* the network on the screen, and what is signed is what it showed, although both
\* are read again after it (web/ui.js 1072-1075 and 1095-1097).
CardsAreLive ==
    /\ lastReview # <<>> =>
           lastReview[1] = IF signer = "offline" THEN fields
                           ELSE [fields EXCEPT !.psbt = lastReview[1].psbt]
    /\ signed # <<>> =>
           /\ signed[1].fields = signed[1].reviewed
           /\ signer = "offline" => signed[1].fields = fields

(* The signature of a witness input commits to the amount it was told: the     *)
(* chain accepts the spend only if every one was the coin's own.             *)
ChainAccepts(f) == \A i \in f.psbt.ins :
    AmountOf(i) = i.real /\ i.owner[1] = f.seed

\* Whatever the file claims, a signed transaction the chain accepts spends this
\* seed's coins only, pays between nothing and a fifth of them in fees, and, from
\* the offline page, at most a thousand satoshis a byte by the estimate
\* (signer/core.mjs 7-11, send.js 354-368).
SpendIsSane ==
    signed # <<>> =>
        LET f == signed[1].fields
            paid == Total(f.psbt.ins, LAMBDA i : i.real) - OutTotal(f.psbt)
        IN  /\ FeeKnown(f.psbt)
            /\ ChainAccepts(f) =>
                   /\ \A i \in f.psbt.ins : i.owner = <<f.seed, CoinType(f.net)>>
                   /\ paid >= 0 /\ 5 * paid <= Total(f.psbt.ins, LAMBDA i : i.real)
                   /\ signed[1].by = "offline" => paid <= (MAX_FEERATE_SANITY + 1) * EstVsize(f.psbt)
=============================================================================
