---------------------------- MODULE PageProofs ----------------------------
(***************************************************************************)
(* The pages of the wallets, proved for every set of networks, coins, files and*)
(* forms and any number of prompts, flows, lookups and searches: each page has its*)
(* inductive invariant and its theorem, and the last two theorems are about them*)
(* together.                                                                 *)
(***************************************************************************)
EXTENDS WalletPages, HdAccount, FiniteSetTheorems, WellFoundedInduction, TLAPS

(***************************************************************************)
(* The offline signer: what is on its cards is what is in its fields.        *)
(***************************************************************************)
(* Whatever changes a field of the offline page takes its cards away, and      *)
(* whatever changes the wallet or the network of the other page its sheet.   *)
CardsInv ==
    /\ CardsAreLive
    /\ signer = "testnet" => reading = NoFile
    /\ fields = [seed |-> fields.seed, net |-> fields.net, psbt |-> fields.psbt]

LEMMA CardsStep == ASSUME CardsInv, [SignerNext]_signerVars PROVE CardsInv'
  <1> DEFINE Fields(f) == f = [seed |-> f.seed, net |-> f.net, psbt |-> f.psbt]
  <1>0. /\ NewInput \/ (\E p : fields' = [fields EXCEPT !.psbt = p]) => Fields(fields')
        /\ NewSecretOrNetwork => Fields(fields')
    BY DEF NewInput, NewSecretOrNetwork, CardsInv
  <1>1. CASE Edit \/ FileArrives
    BY <1>0, <1>1 DEF Edit, FileArrives, Invalidated, CardsInv, CardsAreLive
  <1>2. CASE PickFile
    BY <1>2 DEF PickFile, CardsInv, CardsAreLive
  <1>3. CASE ReviewFields
    BY <1>3 DEF ReviewFields, CardsInv, CardsAreLive
  <1>4. CASE Sign
    BY <1>4 DEF Sign, CardsInv, CardsAreLive
  <1>5. CASE OpenOrSwitch
    BY <1>0, <1>5 DEF OpenOrSwitch, SheetCloses, CardsInv, CardsAreLive
  <1>6. CASE Paste
    <2>1. PICK p \in Files : fields' = [fields EXCEPT !.psbt = p]
      BY <1>6 DEF Paste, NewInput
    <2>2. \A q : [fields' EXCEPT !.psbt = q] = [fields EXCEPT !.psbt = q]
      BY <2>1
    <2>3. QED
      BY <1>0, <1>6, <2>2 DEF Paste, CardsInv, CardsAreLive
  <1>7. CASE SignAsked
    BY <1>7 DEF SignAsked, CardsInv, CardsAreLive
  <1>8. CASE SignUnsigned
    <2>1. [fields EXCEPT !.psbt = lastReview[1].psbt] = lastReview[1]
      BY <1>8 DEF SignUnsigned, CardsInv, CardsAreLive
    <2>2. QED
      BY <1>8, <2>1 DEF SignUnsigned, CardsInv, CardsAreLive
  <1>9. CASE SheetDismissed
    BY <1>9 DEF SheetDismissed, CardsInv, CardsAreLive
  <1>10. CASE UNCHANGED signerVars
    BY <1>10 DEF signerVars, CardsInv, CardsAreLive
  <1>11. QED
    BY <1>1, <1>2, <1>3, <1>4, <1>5, <1>6, <1>7, <1>8, <1>9, <1>10 DEF SignerNext

(* A review or a signature on the offline page is of the fields as they are, and *)
(* what the testnet page signs is what its sheet showed, for any file and phrase *)
(* (signer/index.html, web/ui.js).                                            *)
THEOREM CardsLive == SignerSpec => []CardsAreLive
  <1>1. SignerInit => CardsInv
    BY DEF SignerInit, CardsInv, CardsAreLive
  <1>2. CardsInv /\ [SignerNext]_signerVars => CardsInv'
    BY CardsStep
  <1>3. CardsInv => CardsAreLive
    BY DEF CardsInv
  <1>4. QED
    BY <1>1, <1>2, <1>3, PTL DEF SignerSpec

(***************************************************************************)
(* The seed of the testnet page.                                             *)
(***************************************************************************)
(* Under the lock screen the page has just been loaded: no sheet is open and   *)
(* no handler but an unlocking one waits.                                    *)
VaultInv ==
    /\ SeedStaysCovered /\ locked \in BOOLEAN /\ watch \in BOOLEAN
    /\ locked => pinSheet = NoSeed /\ \A w \in waits : w.for = "unlock"

LEMMA VaultInvInit == ASSUME VaultInit PROVE VaultInv
  BY DEF VaultInit, VaultInv, SeedStaysCovered

(* A click finds the page uncovered.                                          *)
LEMMA ClickKeeps ==
  ASSUME VaultInv, Click, locked' = locked, watch' \in {watch} \cup BOOLEAN, UNCHANGED viewVars \/ backup' = "closed",
         backup' # "closed" => UNCHANGED <<vPane, source, watch>>
  PROVE  VaultInv'
  BY DEF Click, VaultInv, SeedStaysCovered, viewVars

(* A pane that is shown hides the words and closes the viewer.                *)
LEMMA PaneCloses == ASSUME NEW p, NEW src, ShowPane(p, src) PROVE backup' = "closed" /\ words' = NoSeed
  BY DEF ShowPane

LEMMA VaultInvStep == ASSUME VaultInv, [VaultNext]_vaultVars PROVE VaultInv'
  <1>1. ASSUME NEW p \in Panes, Navigate(p) PROVE VaultInv'
    BY <1>1, ClickKeeps, PaneCloses DEF Navigate, walletVars
  <1>2. CASE SwitchNetwork
    BY <1>2, ClickKeeps, PaneCloses DEF SwitchNetwork, walletVars
  <1>3. CASE Generate \/ BackToGenerate \/ Wizard \/ SwitchWallet
    BY <1>3, ClickKeeps, PaneCloses DEF Generate, BackToGenerate, Wizard, WizardStep, SwitchWallet, walletVars
  <1>4. CASE Skip
    BY <1>4, ClickKeeps, PaneCloses DEF Skip, OpenCreated, Open
  <1>5. ASSUME NEW seed \in VaultSeeds, NEW isXpub \in BOOLEAN, Import(seed, isXpub) PROVE VaultInv'
    BY <1>5, ClickKeeps, PaneCloses DEF Import, Open
  <1>6. CASE ImportFile \/ (\E for \in {"create", "keep"} : AskPin(for)) \/ (\E secret \in Secrets : Reveal(secret))
    BY <1>6, ClickKeeps DEF ImportFile, AskPin, Reveal, walletVars
  <1>7. CASE ToggleBackup
    BY <1>7 DEF ToggleBackup, Click, VaultInv, SeedStaysCovered, walletVars
  <1>8. CASE Hold
    BY <1>8 DEF Hold, Click, VaultInv, SeedStaysCovered, walletVars
  <1>9. CASE HideWords \/ PinCancel
    BY <1>9 DEF HideWords, PinCancel, VaultInv, SeedStaysCovered, walletVars, viewVars
  <1>10. ASSUME NEW secret \in Secrets, PinEntry(secret) PROVE VaultInv'
    BY <1>10 DEF PinEntry, VaultInv, SeedStaysCovered, walletVars, viewVars
  <1>11. ASSUME NEW secret \in Secrets, Unlock(secret) PROVE VaultInv'
    BY <1>11 DEF Unlock, Wait, VaultInv, SeedStaysCovered, walletVars, viewVars
  <1>12. CASE Forget
    <2>1. (backup' = "closed" /\ words' = NoSeed) \/ UNCHANGED <<vPane, backup, words>>
      BY <1>12, PaneCloses DEF Forget, viewVars
    <2>2. /\ UNCHANGED <<wiz, source, watch, pinSheet, waits>> /\ locked' \in BOOLEAN /\ (locked' => locked)
      BY <1>12 DEF Forget, walletVars, VaultInv
    <2>3. QED
      BY <2>1, <2>2 DEF VaultInv, SeedStaysCovered
  <1>13. CASE Lock
    BY <1>13 DEF Lock, Click, VaultInv, SeedStaysCovered
  <1>14. ASSUME NEW w \in waits, Save(w) \/ FileOpened(w) \/ Revealed(w) PROVE VaultInv'
    <2>0. locked => w.for = "unlock"
      BY DEF VaultInv
    <2>1. locked' = locked /\ ~locked
      BY <1>14, <2>0 DEF Save, FileOpened, Revealed
    <2>2. CASE Save(w)
      <3>1. (backup' = "closed" /\ watch' \in BOOLEAN) \/ UNCHANGED <<vPane, source, watch, backup>>
        BY <2>2, PaneCloses DEF Save, OpenCreated, Open, walletVars, viewVars
      <3>2. QED
        BY <2>1, <3>1 DEF VaultInv, SeedStaysCovered
    <2>3. CASE FileOpened(w)
      <3>1. (backup' = "closed" /\ watch' \in BOOLEAN) \/ UNCHANGED <<vPane, source, watch, backup>>
        BY <2>3, PaneCloses DEF FileOpened, Open, walletVars, viewVars
      <3>2. QED
        BY <2>1, <3>1 DEF VaultInv, SeedStaysCovered
    <2>4. CASE Revealed(w)
      BY <2>1, <2>4 DEF Revealed, VaultInv, SeedStaysCovered, walletVars
    <2>5. QED
      BY <1>14, <2>2, <2>3, <2>4
  <1>15. ASSUME NEW w \in waits, Unlocked(w) PROVE VaultInv'
    <2>1. waits' \subseteq waits /\ pinSheet' = pinSheet
      BY <1>15 DEF Unlocked, Done
    <2>2. CASE Unseals(w.secret)
      <3>1. locked' = FALSE /\ backup' = "closed" /\ watch' = FALSE
        BY <1>15, <2>2, PaneCloses DEF Unlocked, Open
      <3>2. QED
        BY <3>1 DEF VaultInv, SeedStaysCovered
    <2>3. CASE ~Unseals(w.secret)
      BY <1>15, <2>1, <2>3 DEF Unlocked, VaultInv, SeedStaysCovered, walletVars, viewVars
    <2>4. QED
      BY <2>2, <2>3
  <1>16. CASE UNCHANGED vaultVars
    BY <1>16 DEF vaultVars, walletVars, viewVars, VaultInv, SeedStaysCovered
  <1>17. QED
    BY <1>1, <1>2, <1>3, <1>4, <1>5, <1>6, <1>7, <1>8, <1>9, <1>10, <1>11, <1>12, <1>13, <1>14, <1>15, <1>16
       DEF VaultNext

(* Nothing of a seed is left under the lock screen, and the backup viewer is open *)
(* in the settings of a wallet with its seed only, whichever saves, files, unlocks *)
(* and reveals were waiting (web/ui.js, lock and showPane).                   *)
THEOREM SeedIsCovered == VaultSpec => []SeedStaysCovered
  <1>1. VaultInit => VaultInv
    BY VaultInvInit
  <1>2. VaultInv /\ [VaultNext]_vaultVars => VaultInv'
    BY VaultInvStep
  <1>3. VaultInv => SeedStaysCovered
    BY DEF VaultInv
  <1>4. QED
    BY <1>1, <1>2, <1>3, PTL DEF VaultSpec

(***************************************************************************)
(* The vanity search of the mainnet page.                                    *)
(***************************************************************************)
(* A search is begun in its pane, without a key, and given up on leaving it.  *)
PanelInv ==
    /\ panel # "vanity" => vRun = NoRun
    /\ UnsavedKeyHoldsForm /\ formOff \in BOOLEAN

LEMMA PanelInvInit == ASSUME PanelInit PROVE PanelInv
  BY DEF PanelInit, PanelInv, UnsavedKeyHoldsForm

LEMMA PanelInvStep == ASSUME PanelInv, [PanelNext]_panelVars PROVE PanelInv'
  <1>1. CASE Enter
    BY <1>1 DEF Enter, ForgetFound, PanelInv, UnsavedKeyHoldsForm
  <1>2. CASE LeavePanel \/ Paper
    BY <1>2 DEF LeavePanel, Paper, StopRun, ForgetFound, PanelInv, UnsavedKeyHoldsForm
  <1>3. CASE Stop
    BY <1>3 DEF Stop, StopRun, panelScreenVars, PanelInv, UnsavedKeyHoldsForm
  <1>4. CASE SaveFound \/ SaveBack \/ Disarm
    BY <1>4 DEF SaveFound, SaveBack, Disarm, PanelInv, UnsavedKeyHoldsForm
  <1>5. CASE Saved
    BY <1>5 DEF Saved, ForgetFound, PanelInv, UnsavedKeyHoldsForm
  <1>6. CASE Discard
    BY <1>6 DEF Discard, ForgetFound, PanelInv, UnsavedKeyHoldsForm
  <1>7. ASSUME NEW kind \in SearchKinds, StartSearch(kind) PROVE PanelInv'
    BY <1>7 DEF StartSearch, PanelInv, UnsavedKeyHoldsForm
  <1>8. ASSUME NEW r \in searches, WorkerFinds(r) \/ ServerFinds(r) PROVE PanelInv'
    BY <1>8 DEF WorkerFinds, ServerFinds, SettleRun, ShowFound, panelScreenVars, PanelInv, UnsavedKeyHoldsForm
  <1>9. ASSUME NEW r \in searches, WorkerFails(r) \/ ServerFails(r) PROVE PanelInv'
    BY <1>9 DEF WorkerFails, ServerFails, SettleRun, FormAfterRun, panelScreenVars, PanelInv, UnsavedKeyHoldsForm
  <1>10. ASSUME NEW r \in searches, Submitted(r) PROVE PanelInv'
    BY <1>10 DEF Submitted, panelScreenVars, PanelInv, UnsavedKeyHoldsForm
  <1>11. CASE UNCHANGED panelVars
    BY <1>11 DEF panelVars, PanelInv, UnsavedKeyHoldsForm
  <1>12. QED
    BY <1>1, <1>2, <1>3, <1>4, <1>5, <1>6, <1>7, <1>8, <1>9, <1>10, <1>11 DEF PanelNext

(* While a found key is unsaved the form stays locked and no run is at the buttons, *)
(* however many searches were given up and end later (mainnet/ui.js).         *)
THEOREM KeyHoldsForm == PanelSpec => []UnsavedKeyHoldsForm
  <1>1. PanelInit => PanelInv
    BY PanelInvInit
  <1>2. PanelInv /\ [PanelNext]_panelVars => PanelInv'
    BY PanelInvStep
  <1>3. PanelInv => UnsavedKeyHoldsForm
    BY DEF PanelInv
  <1>4. QED
    BY <1>1, <1>2, <1>3, PTL DEF PanelSpec

(***************************************************************************)
(* The accounts of the testnet wallet.                                       *)
(***************************************************************************)
(* While an account is open, the newest refresh is of that account; unless a   *)
(* choice straddled one, what will be stored is of the network shown.        *)
OfShown(l) ==
    /\ l.for = "all" => l.net = hotNet
    /\ l.for = "type" /\ l.gen = gen => l.net = hotNet
    /\ l.for = "account" /\ l.gen = gen => l.net = hotNet /\ l.type = hotType
OfOpen(l) == l.for = "account" /\ l.gen = gen => l.net = hotNet /\ l.type = hotType
IsLookup(l) == l = [for |-> l.for, net |-> l.net, type |-> l.type, gen |-> l.gen, due |-> l.due]
LookupsInv ==
    /\ gen \in Nat
    /\ \A l \in lookups : IsLookup(l) /\ l.gen \in 0..gen
    /\ hotPane = "account" => \A l \in lookups : OfOpen(l)
    /\ ~straddled => \A l \in lookups : OfShown(l)
AccountsInv ==
    /\ LookupsInv
    /\ straddled \in BOOLEAN /\ DOMAIN balances = ScriptTypes
    /\ AddressIsOfAccount /\ BalancesAreOfShownUnlessStraddled

(* Nothing is asked for and nothing shown when the page starts.               *)
LEMMA AccountsInvInit == ASSUME AccountsInit PROVE AccountsInv
  BY DEF AccountsInit, AccountsInv, LookupsInv, AddressIsOfAccount, BalancesAreOfShownUnlessStraddled,
         BalancesAreOfShown, NothingStored

(* A job that ends leaves its lookup what it is.                             *)
LEMMA JobEndKeeps ==
  ASSUME LookupsInv, NEW l \in lookups, NEW t, JobEnds(l, t)
  PROVE  \A k \in lookups' : /\ IsLookup(k)
                             /\ \E m \in lookups : /\ k.for = m.for /\ k.net = m.net
                                                   /\ k.type = m.type /\ k.gen = m.gen
  <1> DEFINE n == [l EXCEPT !.due = @ \ {t}]
  <1>1. l = [for |-> l.for, net |-> l.net, type |-> l.type, gen |-> l.gen, due |-> l.due]
    BY DEF LookupsInv, IsLookup
  <1>2. n = [for |-> l.for, net |-> l.net, type |-> l.type, gen |-> l.gen, due |-> l.due \ {t}]
    BY <1>1
  <1>3. IsLookup(n) /\ n.for = l.for /\ n.net = l.net /\ n.type = l.type /\ n.gen = l.gen
    BY <1>2 DEF IsLookup
  <1>4. lookups' \subseteq lookups \cup {n}
    BY DEF JobEnds
  <1> HIDE DEF n
  <1>5. QED
    BY <1>3, <1>4 DEF LookupsInv

(* So an answer disturbs no lookup, and what else it does is checked apart.   *)
LEMMA AnswerKeeps ==
  ASSUME LookupsInv, NEW l \in lookups, NEW t, JobEnds(l, t),
         UNCHANGED <<hotNet, hotType, hotPane, gen, straddled>>
  PROVE  LookupsInv'
  BY JobEndKeeps DEF LookupsInv, OfOpen, OfShown

(* A refresh that begins is the newest, of the network shown, and of the      *)
(* account that is open.                                                     *)
LEMMA NewRefresh ==
  ASSUME LookupsInv, NEW l, IsLookup(l), l.gen = gen + 1, gen' = gen + 1, lookups' \subseteq lookups \cup {l},
         l.for \in {"all", "account"}, l.net = hotNet', l.for = "account" => l.type = hotType',
         ~straddled' => ~straddled /\ \A k \in lookups : k.for = "all" => k.net = hotNet'
  PROVE  LookupsInv'
  <1>1. gen \in Nat /\ \A k \in lookups : k.gen \in 0..(gen + 1) /\ k.gen # gen + 1 /\ IsLookup(k)
    BY DEF LookupsInv
  <1>2. gen' \in Nat /\ \A k \in lookups' : IsLookup(k) /\ k.gen \in 0..gen'
    BY <1>1
  <1>3. \A k \in lookups' : OfOpen(k)'
    BY <1>1 DEF OfOpen
  <1>4. ~straddled' => \A k \in lookups' : OfShown(k)'
    BY <1>1 DEF OfShown
  <1>5. QED
    BY <1>2, <1>3, <1>4 DEF LookupsInv

(* No handler lets an older answer paint.                                     *)
LEMMA LookupsInvStep == ASSUME LookupsInv, straddled \in BOOLEAN, [AccountsNext]_accountsVars PROVE LookupsInv'
  <1>0. gen \in Nat
    BY DEF LookupsInv
  <1>1. ASSUME NEW n, RefreshAll(n), n = hotNet', UNCHANGED hotType,
               ~straddled' => ~straddled /\ \A k \in lookups : k.for = "all" => k.net = hotNet'
        PROVE  LookupsInv'
    <2> DEFINE l == [for |-> "all", net |-> n, type |-> hotType, gen |-> gen + 1, due |-> ScriptTypes]
    <2>1. gen' = gen + 1 /\ lookups' = lookups \cup {l}
      BY <1>1 DEF RefreshAll
    <2>2. IsLookup(l) /\ l.gen = gen + 1 /\ l.for = "all" /\ l.net = hotNet'
      BY <1>1 DEF IsLookup
    <2> HIDE DEF l
    <2>3. QED
      BY <1>1, <2>1, <2>2, NewRefresh
  <1>2. CASE RefreshHome
    BY <1>1, <1>2 DEF RefreshHome, LookupsInv, OfShown
  <1>3. ASSUME NEW n \in HotNets, SwitchNet(n) PROVE LookupsInv'
    <2>1. ~straddled' => ~straddled /\ \A k \in lookups : k.for = "all" => k.net = hotNet'
      BY <1>3 DEF SwitchNet
    <2>2. QED
      BY <1>1, <1>3, <2>1 DEF SwitchNet
  <1>4. ASSUME NEW t, RefreshAccount(t), t = hotType', UNCHANGED <<hotNet, straddled>> PROVE LookupsInv'
    <2> DEFINE l == [for |-> "account", net |-> hotNet, type |-> t, gen |-> gen + 1, due |-> {t}]
    <2>1. gen' = gen + 1 /\ lookups' \subseteq lookups \cup {l}
      BY <1>4 DEF RefreshAccount
    <2>2. IsLookup(l) /\ l.gen = gen + 1 /\ l.for = "account" /\ l.net = hotNet' /\ l.type = hotType'
      BY <1>4 DEF IsLookup
    <2>3. ~straddled' => ~straddled /\ \A k \in lookups : k.for = "all" => k.net = hotNet'
      BY <1>4 DEF LookupsInv, OfShown
    <2> HIDE DEF l
    <2>4. QED
      BY <2>1, <2>2, <2>3, NewRefresh
  <1>5. CASE RefreshAgain
    BY <1>4, <1>5 DEF RefreshAgain
  <1>6. ASSUME NEW t \in ScriptTypes, OpenAccount(t) PROVE LookupsInv'
    BY <1>4, <1>6 DEF OpenAccount
  <1>7. CASE GoHome
    BY <1>7 DEF GoHome, LookupsInv, OfOpen, OfShown
  <1>8. ASSUME NEW t \in ScriptTypes, PickType(t) PROVE LookupsInv'
    <2> DEFINE l == [for |-> "type", net |-> hotNet, type |-> t, gen |-> gen, due |-> {t}]
    <2>1. /\ lookups' \subseteq lookups \cup {l} /\ UNCHANGED <<hotNet, hotPane, gen>>
          /\ hotPane = "home" /\ hotType' = t
          /\ ~straddled' => ~straddled /\ \A k \in lookups : k.for = "account" /\ k.gen = gen => k.type = t
      BY <1>8 DEF PickType, Fresh
    <2>2. IsLookup(l) /\ l.for = "type" /\ l.net = hotNet /\ l.gen = gen
      BY DEF IsLookup
    <2> HIDE DEF l
    <2>3. \A k \in lookups' : IsLookup(k) /\ k.gen \in 0..gen'
      BY <1>0, <2>1, <2>2 DEF LookupsInv
    <2>4. ~straddled' => \A k \in lookups' : OfShown(k)'
      BY <2>1, <2>2 DEF LookupsInv, OfShown
    <2>5. QED
      BY <1>0, <2>1, <2>3, <2>4 DEF LookupsInv
  <1>9. ASSUME NEW l \in lookups, NEW t,
               TypeAnswers(l) \/ AccountAnswers(l) \/ AllAnswers(l, t) \/ Fails(l, t)
        PROVE  LookupsInv'
    <2>1. UNCHANGED <<hotNet, hotType, hotPane, gen, straddled>>
      BY <1>9 DEF TypeAnswers, AccountAnswers, AllAnswers, Fails
    <2>2. JobEnds(l, l.type) \/ JobEnds(l, t)
      BY <1>9 DEF TypeAnswers, AccountAnswers, AllAnswers, Fails
    <2>3. QED
      BY <2>1, <2>2, AnswerKeeps
  <1>10. CASE UNCHANGED accountsVars
    BY <1>10 DEF accountsVars, LookupsInv, OfOpen, OfShown
  <1>11. QED
    BY <1>2, <1>3, <1>5, <1>6, <1>7, <1>8, <1>9, <1>10 DEF AccountsNext

(* What is stored is of the network shown and of its type, unless a choice    *)
(* straddled the lookup.                                                     *)
LEMMA StoresShown ==
  ASSUME AccountsInv, NEW t, balances' = [balances EXCEPT ![t] = Account(hotNet, t)] \/ balances' = balances,
         UNCHANGED <<hotNet, straddled>>
  PROVE  DOMAIN balances' = ScriptTypes /\ BalancesAreOfShownUnlessStraddled'
  BY DEF AccountsInv, BalancesAreOfShownUnlessStraddled, BalancesAreOfShown, Account

LEMMA AccountsInvStep == ASSUME AccountsInv, [AccountsNext]_accountsVars PROVE AccountsInv'
  <1>0. LookupsInv' /\ gen \in Nat
    BY LookupsInvStep DEF AccountsInv, LookupsInv
  <1>1. CASE UNCHANGED <<hotNet, hotType, address, balances, straddled>> /\ hotPane' \in {hotPane, "home"}
    BY <1>0, <1>1 DEF AccountsInv, AddressIsOfAccount, BalancesAreOfShownUnlessStraddled, BalancesAreOfShown,
                Shown, Account
  <1>2. CASE RefreshHome \/ RefreshAgain \/ GoHome \/ (\E l \in lookups : \E t \in l.due : Fails(l, t))
             \/ UNCHANGED accountsVars
    BY <1>1, <1>2 DEF RefreshHome, RefreshAgain, GoHome, Fails, accountsVars, storedVars
  <1>3. ASSUME NEW n \in HotNets, SwitchNet(n) PROVE AccountsInv'
    <2>1. hotPane' = "home" /\ balances' = NothingStored /\ straddled' \in BOOLEAN
      BY <1>3 DEF SwitchNet, ClearedBalances, AccountsInv
    <2>2. QED
      BY <1>0, <2>1 DEF AccountsInv, AddressIsOfAccount, BalancesAreOfShownUnlessStraddled, BalancesAreOfShown,
                  NothingStored
  <1>4. ASSUME NEW t \in ScriptTypes, PickType(t) PROVE AccountsInv'
    <2>1. /\ hotPane' = "home" /\ UNCHANGED <<hotNet, balances>>
          /\ straddled' \in BOOLEAN /\ (~straddled' => ~straddled)
      BY <1>4 DEF PickType, storedVars, AccountsInv
    <2>2. QED
      BY <1>0, <2>1 DEF AccountsInv, AddressIsOfAccount, BalancesAreOfShownUnlessStraddled, BalancesAreOfShown, Account
  <1>5. ASSUME NEW t \in ScriptTypes, OpenAccount(t) PROVE AccountsInv'
    <2>1. address' = Nil /\ UNCHANGED <<hotNet, balances, straddled>>
      BY <1>5 DEF OpenAccount, storedVars
    <2>2. QED
      BY <1>0, <2>1 DEF AccountsInv, AddressIsOfAccount, BalancesAreOfShownUnlessStraddled, BalancesAreOfShown, Account
  <1>6. ASSUME NEW l \in lookups, NEW t, l.for = "account" => t = hotType, UNCHANGED <<hotNet, hotType, hotPane, straddled>>,
               \/ balances' = balances
               \/ /\ OfShown(l) \/ straddled
                  /\ l.for = "account" => Fresh(l)
                  /\ balances' = [balances EXCEPT ![t] = Account(l.net, IF l.for = "account" THEN l.type ELSE t)]
                  /\ l.for = "type" => Fresh(l)
                  /\ l.for \in {"all", "type", "account"}
        PROVE  DOMAIN balances' = ScriptTypes /\ BalancesAreOfShownUnlessStraddled'
    <2>1. CASE straddled
      BY <1>6, <2>1 DEF AccountsInv, BalancesAreOfShownUnlessStraddled
    <2>2. CASE balances' = balances
      BY <1>6, <2>2, StoresShown
    <2>3. CASE ~straddled /\ balances' # balances
      <3>1. l.net = hotNet /\ (l.for = "account" => l.type = hotType)
        BY <1>6, <2>3 DEF OfShown, Fresh
      <3>2. balances' = [balances EXCEPT ![t] = Account(hotNet, t)]
        BY <1>6, <2>3, <3>1
      <3>3. QED
        BY <1>6, <3>2, StoresShown
    <2>4. QED
      BY <2>1, <2>2, <2>3
  <1>7. ASSUME NEW l \in lookups, NEW t \in l.due, AllAnswers(l, t) PROVE AccountsInv'
    <2>1. /\ UNCHANGED <<hotNet, hotType, hotPane, straddled, address>> /\ l.for = "all"
          /\ balances' = [balances EXCEPT ![t] = Account(l.net, t)]
      BY <1>7 DEF AllAnswers
    <2>2. OfShown(l) \/ straddled
      BY DEF AccountsInv, LookupsInv
    <2>3. DOMAIN balances' = ScriptTypes /\ BalancesAreOfShownUnlessStraddled'
      BY <1>6, <2>1, <2>2
    <2>4. QED
      BY <1>0, <2>1, <2>3 DEF AccountsInv, AddressIsOfAccount, Shown, Account
  <1>8. ASSUME NEW l \in lookups, TypeAnswers(l) PROVE AccountsInv'
    <2>1. /\ UNCHANGED <<hotNet, hotType, hotPane, straddled, address>> /\ l.for = "type"
          /\ \/ Fresh(l) /\ balances' = [balances EXCEPT ![l.type] = Account(l.net, l.type)]
             \/ balances' = balances
      BY <1>8 DEF TypeAnswers, storedVars
    <2>2. OfShown(l) \/ straddled
      BY DEF AccountsInv, LookupsInv
    <2>3. DOMAIN balances' = ScriptTypes /\ BalancesAreOfShownUnlessStraddled'
      BY <1>6, <2>1, <2>2
    <2>4. QED
      BY <1>0, <2>1, <2>3 DEF AccountsInv, AddressIsOfAccount, Shown, Account
  <1>9. ASSUME NEW l \in lookups, AccountAnswers(l) PROVE AccountsInv'
    <2>1. /\ l.for = "account" /\ UNCHANGED <<hotNet, hotType, hotPane, straddled>>
          /\ \/ Fresh(l) /\ balances' = [balances EXCEPT ![hotType] = Account(l.net, l.type)]
             \/ balances' = balances
      BY <1>9 DEF AccountAnswers, storedVars
    <2>2. OfShown(l) \/ straddled
      BY DEF AccountsInv, LookupsInv
    <2>3. DOMAIN balances' = ScriptTypes /\ BalancesAreOfShownUnlessStraddled'
      BY <1>6, <2>1, <2>2
    <2>4. AddressIsOfAccount'
      <3>1. CASE Fresh(l) /\ hotPane = "account"
        <4>1. l.net = hotNet /\ l.type = hotType
          BY <2>1, <3>1 DEF Fresh, AccountsInv, LookupsInv, OfOpen
        <4>2. address' \in {address, [net |-> hotNet, type |-> hotType, of |-> Account(l.net, l.type)]}
          BY <1>9, <3>1 DEF AccountAnswers
        <4>3. QED
          BY <2>1, <4>1, <4>2 DEF AccountsInv, AddressIsOfAccount, Shown, Account
      <3>2. CASE ~Fresh(l) \/ hotPane # "account"
        BY <1>9, <2>1, <3>2 DEF AccountAnswers, AccountsInv, AddressIsOfAccount, Shown, Account
      <3>3. QED
        BY <3>1, <3>2
    <2>5. QED
      BY <1>0, <2>1, <2>3, <2>4 DEF AccountsInv
  <1>10. QED
    BY <1>2, <1>3, <1>4, <1>5, <1>7, <1>8, <1>9 DEF AccountsNext

(* The receive address on the account page is one of the open account, and the  *)
(* balances are of their type on the network shown unless a choice straddled a   *)
(* lookup, for every set of networks and script types and any number of refreshes *)
(* (refreshAll, refreshAccount, setActiveType).                               *)
THEOREM AccountsSound == AccountsSpec => [](AddressIsOfAccount /\ BalancesAreOfShownUnlessStraddled)
  <1>1. AccountsInit => AccountsInv
    BY AccountsInvInit
  <1>2. AccountsInv /\ [AccountsNext]_accountsVars => AccountsInv'
    BY AccountsInvStep
  <1>3. AccountsInv => AddressIsOfAccount /\ BalancesAreOfShownUnlessStraddled
    BY DEF AccountsInv
  <1>4. QED
    BY <1>1, <1>2, <1>3, PTL DEF AccountsSpec

(***************************************************************************)
(* The screen of the mainnet page and its lookups.                           *)
(***************************************************************************)
ScreenInv ==
    /\ more \in BOOLEAN /\ faucetNet \in Practice /\ shown \in Offered \cup {NoNetwork}
    /\ shown # NoNetwork =>
        /\ shown \in scanned \cup busy \/ box = "failed"
        /\ box = "runs" => shown \in busy
        /\ ~canRefresh => shown \in busy
    /\ box \in {"off", "runs", "failed"}
    /\ shown = NoNetwork => busy = {}
    /\ TickedAreDrawn

(* The faucet offered is a practice network among those offered.              *)
LEMMA Practices == ASSUME NEW all, NEW n, NEW chosen
                   PROVE  FaucetOf(n, OfferedIf(all) \ {Home}, chosen) \in OfferedIf(all) \ {Home}
  BY ScreenAssumption DEF FaucetOf, OfferedIf

(* A network that is shown is searched, or being searched.                    *)
LEMMA ShowKeeps ==
  ASSUME ScreenInv, NEW n \in ScreenNets, ShowNetwork(n)
  PROVE  /\ shown' = n /\ n \in busy' /\ box' \in {"off", "runs"} /\ TickedAreDrawn'
  <1>1. shown' = n /\ ticked' = {}
    BY DEF ShowNetwork
  <1>2. CASE MayLookUp(n) /\ Begin(n, n \in scanned, "off")
    BY <1>1, <1>2 DEF Begin, TickedAreDrawn
  <1>3. CASE ~MayLookUp(n) /\ box' = "off" /\ UNCHANGED <<busy, canRefresh>>
    BY <1>1, <1>3 DEF MayLookUp, TickedAreDrawn
  <1>4. QED
    BY <1>2, <1>3 DEF ShowNetwork

(* No session is open at the start.                                           *)
LEMMA ScreenInvInit == ASSUME ScreenInit PROVE ScreenInv
  BY ScreenAssumption DEF ScreenInit, ScreenInv, Practice, Offered, OfferedIf, TickedAreDrawn

(* Every handler keeps the screen of the network it shows.                    *)
LEMMA ScreenInvStep == ASSUME ScreenInv, [ScreenNext]_screenVars PROVE ScreenInv'
  <1>0. Offered \subseteq ScreenNets /\ Home \in Offered /\ Practice \subseteq Offered
    BY ScreenAssumption DEF Offered, OfferedIf, Practice
  <1>1. ASSUME NEW n \in Offered, ShowNetwork(n), UNCHANGED tabVars PROVE ScreenInv'
    <2>1. shown' = n /\ n \in busy' /\ box' \in {"off", "runs"} /\ TickedAreDrawn'
      BY <1>0, <1>1, ShowKeeps
    <2>2. n # NoNetwork
      BY <1>0, <1>1, ScreenAssumption
    <2>3. more' = more /\ faucetNet' = faucetNet
      BY <1>1 DEF tabVars
    <2>4. QED
      BY <2>1, <2>2, <2>3 DEF ScreenInv, Offered, Practice
  <1>2. CASE StartSession
    BY <1>0, <1>1, <1>2 DEF StartSession
  <1>3. CASE OpenMyWallet
    BY <1>0, <1>1, <1>3 DEF OpenMyWallet, ScreenInv
  <1>4. ASSUME NEW n \in ScreenNets, PickNetwork(n) PROVE ScreenInv'
    BY <1>1, <1>4 DEF PickNetwork
  <1>5. CASE OpenFaucet
    <2>1. faucetNet' \in Practice /\ UNCHANGED <<shown, busy, box, canRefresh, scanned, coins, rows, ticked, more>>
      BY <1>5, Practices DEF OpenFaucet, lookupVars, listVars, Practice, Offered
    <2>2. QED
      BY <2>1 DEF ScreenInv, Practice, Offered, TickedAreDrawn
  <1>6. CASE SwitchMore
    <2> DEFINE offered == OfferedIf(~more)
    <2>1. more' = ~more /\ more' \in BOOLEAN /\ Offered' = offered /\ Practice' = offered \ {Home} /\ shown # NoNetwork
      BY <1>6 DEF SwitchMore, Offered, Practice, ScreenInv
    <2>2. faucetNet' \in Practice'
      BY <1>6, <2>1, Practices DEF SwitchMore
    <2>3. CASE shown \in offered /\ UNCHANGED <<shown, lookupVars, scanned, coins, listVars>>
      BY <2>1, <2>2, <2>3 DEF ScreenInv, lookupVars, listVars, TickedAreDrawn
    <2>4. CASE ShowNetwork(Home)
      <3>1. shown' = Home /\ Home \in busy' /\ box' \in {"off", "runs"} /\ TickedAreDrawn'
        BY <2>4, ShowKeeps, ScreenAssumption
      <3>2. Home \in Offered' /\ Home # NoNetwork
        BY <2>1, ScreenAssumption DEF OfferedIf
      <3>3. QED
        BY <2>1, <2>2, <3>1, <3>2 DEF ScreenInv
    <2>5. QED
      BY <1>6, <2>3, <2>4 DEF SwitchMore
  <1>7. ASSUME NEW quiet \in BOOLEAN, Refresh(quiet) PROVE ScreenInv'
    BY <1>7 DEF Refresh, Begin, ScreenInv, Offered, Practice, TickedAreDrawn, listVars, tabVars
  <1>8. ASSUME NEW n \in ScreenNets, Progress(n) PROVE ScreenInv'
    BY <1>8 DEF Progress, IsShown, ScreenInv, Offered, Practice, TickedAreDrawn, listVars, tabVars
  <1>9. ASSUME NEW n \in ScreenNets, Round(n) PROVE ScreenInv'
    BY <1>9 DEF Round, lookupVars, ScreenInv, Offered, Practice, TickedAreDrawn, listVars, tabVars
  <1>10. ASSUME NEW n \in ScreenNets, RefreshEnds(n) PROVE ScreenInv'
    BY <1>10 DEF RefreshEnds, IsShown, Draw, ScreenInv, Offered, Practice, TickedAreDrawn, listVars, tabVars
  <1>11. ASSUME NEW n \in ScreenNets, RefreshFails(n) PROVE ScreenInv'
    BY <1>11 DEF RefreshFails, IsShown, ScreenInv, Offered, Practice, TickedAreDrawn, listVars, tabVars
  <1>12. ASSUME NEW n \in ScreenNets, Sent(n) PROVE ScreenInv'
    BY <1>12 DEF Sent, lookupVars, ScreenInv, Offered, Practice, TickedAreDrawn, tabVars
  <1>13. ASSUME NEW c \in Coins, TickRow(c) PROVE ScreenInv'
    BY <1>13 DEF TickRow, lookupVars, ScreenInv, Offered, Practice, TickedAreDrawn, tabVars
  <1>14. CASE UNCHANGED screenVars
    BY <1>14 DEF screenVars, ScreenInv, Offered, Practice, TickedAreDrawn
  <1>15. QED
    BY <1>2, <1>3, <1>4, <1>5, <1>6, <1>7, <1>8, <1>9, <1>10, <1>11, <1>12, <1>13, <1>14 DEF ScreenNext

(* The screen speaks of the network it shows and no tick stays unseen, for any *)
(* networks and coins, however many lookups overlap (refresh, setNetwork).    *)
THEOREM ScreenSound == ScreenSpec => [](ScreenIsOfShown /\ TickedAreDrawn)
  <1>1. ScreenInit => ScreenInv
    BY ScreenInvInit
  <1>2. ScreenInv /\ [ScreenNext]_screenVars => ScreenInv'
    BY ScreenInvStep
  <1>3. ScreenInv => ScreenIsOfShown /\ TickedAreDrawn
    BY DEF ScreenInv, ScreenIsOfShown
  <1>4. QED
    BY <1>1, <1>2, <1>3, PTL DEF ScreenSpec

(***************************************************************************)
(* The price.                                                                *)
(***************************************************************************)
Quotes == [Currencies -> Nat \cup {NoPrice}]

(* No quote the feed holds is older than the feed takes it to be, what a fetch *)
(* finds is new, and what the page shows was recent when it was handed on.     *)
PriceInv ==
    /\ value \in Quotes \cup {NoPrice} /\ at \in Nat
    /\ value # NoPrice => \A c \in Currencies : value[c] # NoPrice => value[c] <= at
    /\ fetched \in [Currencies -> {0, NoPrice}] \cup {NoPrice}
    /\ asks \in [Asks -> {"idle", "sent", "waits"}]
    /\ quotes \in Quotes \cup {NoPrice}
    /\ PricesWereRecent

(* A quote that is handed on is no older than MaxStale.                       *)
LEMMA HandedIsRecent ==
  ASSUME NEW v \in Quotes \cup {NoPrice}, NEW age \in Nat,
         v # NoPrice => \A c \in Currencies : v[c] # NoPrice => v[c] <= age
  PROVE  /\ Handed(v, age) \in Quotes \cup {NoPrice}
         /\ Handed(v, age) # NoPrice => \A c \in Currencies : Handed(v, age)[c] # NoPrice => Handed(v, age)[c] <= MaxStale
  <1>1. CASE v = NoPrice \/ age > MaxStale
    BY <1>1 DEF Handed
  <1>2. CASE v # NoPrice /\ ~(age > MaxStale)
    <2>1. v \in Quotes /\ Handed(v, age) = v /\ age <= MaxStale
      BY <1>2, PriceAssumption DEF Handed
    <2>2. ASSUME NEW c \in Currencies, v[c] # NoPrice PROVE v[c] <= MaxStale
      <3>1. v[c] \in Nat /\ v[c] <= age
        BY <1>2, <2>1, <2>2 DEF Quotes
      <3>2. QED
        BY <2>1, <3>1, PriceAssumption
    <2>3. QED
      BY <2>1, <2>2
  <1>3. QED
    BY <1>1, <1>2

(* The feed starts with no quote.                                             *)
LEMMA PriceInvInit == ASSUME PriceInit PROVE PriceInv
  BY DEF PriceInit, PriceInv, PricesWereRecent, Waiting

(* Fetches, failures and time keep the ages of the quotes.                    *)
LEMMA PriceInvStep == ASSUME PriceInv, [PriceNext]_priceVars PROVE PriceInv'
  <1>0. /\ value \in Quotes \cup {NoPrice} /\ at \in Nat /\ quotes \in Quotes \cup {NoPrice}
        /\ fetched \in [Currencies -> {0, NoPrice}] \cup {NoPrice} /\ asks \in [Asks -> {"idle", "sent", "waits"}]
        /\ NoPrice \notin Quotes /\ NoPrice \notin Nat
    BY PriceAssumption DEF PriceInv, Quotes
  <1>1. CASE Fetched
    <2> DEFINE got == fetched # NoQuote
               now == IF got THEN fetched ELSE value
               age == AtAfter(got)
    <2>1. fetched \in [Currencies -> {0, NoPrice}] /\ value' = now /\ at' = age /\ fetched' = NoPrice
      BY <1>0, <1>1 DEF Fetched
    <2>2. now \in Quotes \cup {NoPrice} /\ age \in Nat
      BY <1>0, <2>1 DEF Quotes, AtAfter
    <2>3. now # NoPrice => \A c \in Currencies : now[c] # NoPrice => now[c] <= age
      BY <2>1 DEF AtAfter, PriceInv
    <2>4. quotes' = IF Waiting = {} THEN quotes ELSE Handed(now, age)
      BY <1>1 DEF Fetched
    <2>5. /\ quotes' \in Quotes \cup {NoPrice}
          /\ quotes' # NoPrice => \A c \in Currencies : quotes'[c] # NoPrice => quotes'[c] <= MaxStale
      <3> HIDE DEF now, age
      <3>1. CASE Waiting = {}
        BY <2>4, <3>1 DEF PriceInv, PricesWereRecent
      <3>2. CASE Waiting # {}
        BY <2>2, <2>3, <2>4, <3>2, HandedIsRecent
      <3>3. QED
        BY <3>1, <3>2
    <2>6. asks' \in [Asks -> {"idle", "sent", "waits"}] /\ Waiting' = {}
      BY <1>0, <1>1 DEF Fetched, Waiting
    <2> HIDE DEF now, age
    <2>7. QED
      BY <2>1, <2>2, <2>3, <2>5, <2>6 DEF PriceInv, PricesWereRecent
  <1>2. CASE NextCurrency
    BY <1>2 DEF NextCurrency, PriceInv, PricesWereRecent, Waiting
  <1>3. CASE Time
    <2>1. value \in Quotes /\ value' = AllOlder(value) /\ at' = Older(at)
          /\ UNCHANGED <<fetched, asks, quotes, cur>>
      BY <1>0, <1>3 DEF Time
    <2>2. at' \in Nat /\ value' \in Quotes
      BY <1>0, <2>1 DEF Older, AllOlder, Quotes
    <2>3. ASSUME NEW c \in Currencies, value'[c] # NoPrice PROVE value'[c] <= at'
      <3>1. value[c] # NoPrice /\ value[c] \in Nat /\ value[c] <= at /\ value'[c] = Older(value[c])
        BY <1>0, <2>1, <2>3 DEF AllOlder, Quotes, PriceInv
      <3>2. QED
        BY <1>0, <2>1, <3>1, PriceAssumption DEF Older
    <2>4. QED
      BY <2>1, <2>2, <2>3 DEF PriceInv, PricesWereRecent, Waiting
  <1>4. ASSUME NEW c \in Currencies, Quote(c) PROVE PriceInv'
    <2>1. fetched \in [Currencies -> {0, NoPrice}] /\ fetched' = [fetched EXCEPT ![c] = 0]
          /\ UNCHANGED <<value, at, asks, quotes, cur>>
      BY <1>0, <1>4 DEF Quote
    <2>2. fetched' \in [Currencies -> {0, NoPrice}]
      BY <2>1
    <2>3. fetched' # NoPrice
      BY <1>0, <2>2 DEF Quotes
    <2>4. QED
      BY <2>1, <2>2, <2>3 DEF PriceInv, PricesWereRecent, Waiting
  <1>5. ASSUME NEW a \in Asks, AskPrice(a) PROVE PriceInv'
    BY <1>5 DEF AskPrice, PriceInv, PricesWereRecent, Waiting
  <1>6. ASSUME NEW a \in Asks, PriceFails(a) PROVE PriceInv'
    BY <1>6 DEF PriceFails, PriceInv, PricesWereRecent, Waiting
  <1>7. ASSUME NEW a \in Asks, Get(a) PROVE PriceInv'
    <2>1. CASE FreshQuote
      <3>1. /\ asks' = [asks EXCEPT ![a] = "idle"] /\ quotes' = Handed(value, at)
            /\ UNCHANGED <<value, at, cur, fetched>>
        BY <1>7, <2>1 DEF Get
      <3>2. /\ quotes' \in Quotes \cup {NoPrice}
            /\ quotes' # NoPrice => \A c \in Currencies : quotes'[c] # NoPrice => quotes'[c] <= MaxStale
        BY <1>0, <3>1, HandedIsRecent DEF PriceInv
      <3>3. Waiting' \subseteq Waiting /\ asks' \in [Asks -> {"idle", "sent", "waits"}]
        BY <1>0, <3>1 DEF Waiting
      <3>4. QED
        BY <3>1, <3>2, <3>3 DEF PriceInv, PricesWereRecent
    <2>2. CASE ~FreshQuote
      <3>1. /\ asks' = [asks EXCEPT ![a] = "waits"]
            /\ fetched' = IF fetched = NoPrice THEN NoQuote ELSE fetched
            /\ UNCHANGED <<value, at, cur, quotes>>
        BY <1>7, <2>2 DEF Get
      <3>2. NoQuote \in [Currencies -> {0, NoPrice}] /\ NoQuote \in Quotes
        BY DEF NoQuote, Quotes
      <3>3. fetched' \in [Currencies -> {0, NoPrice}] \cup {NoPrice} /\ fetched' # NoPrice
        BY <1>0, <3>1, <3>2
      <3>4. asks' \in [Asks -> {"idle", "sent", "waits"}]
        BY <1>0, <3>1
      <3>5. QED
        BY <3>1, <3>3, <3>4 DEF PriceInv, PricesWereRecent
    <2>3. QED
      BY <2>1, <2>2
  <1>8. CASE UNCHANGED priceVars
    BY <1>8 DEF priceVars, PriceInv, PricesWereRecent, Waiting
  <1>9. QED
    BY <1>1, <1>2, <1>3, <1>4, <1>5, <1>6, <1>7, <1>8 DEF PriceNext

(* A price on the page was read no longer than MaxStale before it was handed on, *)
(* whatever the providers and the requests did (PriceFeed.get, priceTick).    *)
THEOREM PricesRecent == PriceSpec => []PricesWereRecent
  <1>1. PriceInit => PriceInv
    BY PriceInvInit
  <1>2. PriceInv /\ [PriceNext]_priceVars => PriceInv'
    BY PriceInvStep
  <1>3. PriceInv => PricesWereRecent
    BY DEF PriceInv
  <1>4. QED
    BY <1>1, <1>2, <1>3, PTL DEF PriceSpec

(***************************************************************************)
(* Paying on the mainnet page.                                               *)
(***************************************************************************)
(* A payment from Review to its end: at its prompt, at its sheet, or sent.   *)
Asking == {p \in {prompt} \cup unlocking : EndsReview(p)}
Showing == {confirm} \ {Nothing}
PayInv ==
    /\ Nothing \notin unlocking
    /\ tickedNet \in {net, Nothing} /\ closer \in {Nothing, prompt}
    /\ \A p \in {prompt} \cup unlocking : p # Nothing => p.ticked \in {Nothing, p.net}
    /\ SheetIsOfShownNetwork
    /\ \A p \in Showing \cup sending : p.for = "pay"
    /\ \A p, q \in Asking \cup Showing \cup sending : p = q
    /\ Asking # {} => Showing \cup sending = {}
    /\ Showing # {} => sending = {}
    /\ Asking \cup Showing \cup sending # {} => reviewing

(* A set whose members are all the same one has at most one.                  *)
LEMMA AtMostOne == ASSUME NEW S, \A p, q \in S : p = q PROVE Cardinality(S) <= 1
  <1>1. CASE S = {}
    <2>1. Cardinality(S) = 0
      BY <1>1, FS_EmptySet
    <2>2. QED
      BY <2>1
  <1>2. CASE S # {}
    <2>1. PICK p : p \in S
      BY <1>2
    <2>2. S = {p}
      BY <2>1
    <2>3. Cardinality(S) = 1
      BY <2>2, FS_Singleton
    <2>4. QED
      BY <2>3
  <1>3. QED
    BY <1>1, <1>2

(* pane() and its like leave no sheet, and no payment before its broadcast    *)
(* but the one whose password is being tried.                                *)
LEMMA SheetsClosed ==
  ASSUME PayInv, CloseSheets
  PROVE  /\ confirm' = Nothing /\ unlocking' = unlocking /\ sending' = sending
         /\ prompt' \in {prompt, Nothing}
         /\ Asking' \subseteq Asking
         /\ Asking' \cup sending # {} => reviewing'
  <1>1. /\ confirm' = Nothing /\ unlocking' = unlocking /\ sending' = sending
        /\ prompt' \in {prompt, Nothing}
        /\ prompt' = Nothing /\ prompt # Nothing => closer # Nothing /\ closer \notin unlocking
        /\ reviewing' = (reviewing /\ confirm = Nothing /\ ~(prompt' = Nothing /\ EndsReview(prompt)))
    BY DEF CloseSheets, ClosePrompt
  <1>2. Asking' \subseteq Asking
    BY <1>1 DEF Asking, EndsReview
  <1>3. ASSUME NEW p \in Asking' PROVE reviewing'
    <2>1. p \in Asking /\ reviewing /\ confirm = Nothing
      BY <1>2, <1>3 DEF PayInv, Showing
    <2>2. ASSUME prompt' = Nothing, EndsReview(prompt) PROVE FALSE
      <3>1. prompt \in Asking /\ prompt # Nothing
        BY <2>2 DEF Asking, EndsReview
      <3>2. p = prompt
        BY <2>1, <3>1 DEF PayInv
      <3>3. p \in unlocking
        BY <1>1, <1>3, <2>2, <3>1, <3>2 DEF Asking
      <3>4. closer = prompt
        BY <1>1, <2>2, <3>1 DEF PayInv
      <3>5. QED
        BY <1>1, <2>2, <3>1, <3>2, <3>3, <3>4
    <2>3. QED
      BY <1>1, <2>1, <2>2
  <1>4. ASSUME sending # {} PROVE reviewing'
    <2>1. Asking = {} /\ confirm = Nothing /\ reviewing
      BY <1>4 DEF PayInv, Showing
    <2>2. ~EndsReview(prompt)
      BY <2>1 DEF Asking
    <2>3. QED
      BY <1>1, <2>1, <2>2
  <1>5. QED
    BY <1>1, <1>2, <1>3, <1>4

(* The form and the sheets: what a change of screen leaves.                  *)
LEMMA ScreenChanges ==
  ASSUME PayInv, CloseSheets, tickedNet' \in {net', Nothing}
  PROVE  PayInv'
  <1>1. /\ confirm' = Nothing /\ unlocking' = unlocking /\ sending' = sending
        /\ prompt' \in {prompt, Nothing} /\ Asking' \subseteq Asking
        /\ Asking' \cup sending # {} => reviewing'
    BY SheetsClosed
  <1>2. closer' = Nothing
    BY DEF CloseSheets, ClosePrompt
  <1>3. Showing' = {} /\ SheetIsOfShownNetwork'
    BY <1>1 DEF Showing, SheetIsOfShownNetwork
  <1>4. \A p \in {prompt'} \cup unlocking' : p # Nothing => p.ticked \in {Nothing, p.net}
    BY <1>1 DEF PayInv
  <1>5. QED
    BY <1>1, <1>2, <1>3, <1>4 DEF PayInv

(* Nothing is asked for when the page starts.                                 *)
LEMMA PayInvInit == ASSUME PayInit PROVE PayInv
  BY DEF PayInit, PayInv, SheetIsOfShownNetwork, Asking, Showing, EndsReview

(* A prompt that is asked for: of a payment only when none is under way.     *)
LEMMA Asked ==
  ASSUME PayInv, NEW for \in KeyUses, AskPassword(for), for = "pay" => ~reviewing /\ reviewing',
         for # "pay" => reviewing' = reviewing,
         UNCHANGED <<formVars, unlocking, confirm, sending>>
  PROVE  PayInv'
  <1> DEFINE p == [id |-> promptsAsked + 1, for |-> for, net |-> net, ticked |-> tickedNet]
  <1>1. prompt' = p /\ closer' = p /\ prompt \in {Nothing} \cup unlocking
    BY DEF AskPassword
  <1>2. p.for = for /\ p.net = net /\ p.ticked = tickedNet
    OBVIOUS
  <1>3. UNCHANGED <<net, tickedNet, unlocking, confirm, sending>>
    BY DEF formVars
  <1> HIDE DEF p
  <1>4. SheetIsOfShownNetwork' /\ Showing' = Showing
    BY <1>3 DEF PayInv, SheetIsOfShownNetwork, Showing
  <1>5. \A q \in {prompt'} \cup unlocking' : q # Nothing => q.ticked \in {Nothing, q.net}
    BY <1>1, <1>2, <1>3 DEF PayInv
  <1>6. CASE for = "pay"
    <2>1. Asking = {} /\ Showing = {} /\ sending = {}
      BY <1>6 DEF PayInv
    <2>2. Asking' \subseteq {p}
      BY <1>1, <1>3, <2>1 DEF Asking
    <2>3. QED
      BY <1>1, <1>3, <1>4, <1>5, <1>6, <2>1, <2>2 DEF PayInv
  <1>7. CASE for # "pay"
    <2>1. Asking' \subseteq Asking
      BY <1>1, <1>2, <1>3, <1>7 DEF Asking, EndsReview
    <2>2. QED
      BY <1>1, <1>3, <1>4, <1>5, <1>7, <2>1 DEF PayInv
  <1>8. QED
    BY <1>6, <1>7

(* A prompt that ends: its key was used, or could not be.                    *)
LEMMA Finished ==
  ASSUME PayInv, NEW p \in unlocking, FinishPrompt(p)
  PROVE  /\ closer' = Nothing /\ unlocking' = unlocking \ {p} /\ prompt' = Nothing
         /\ Asking' \subseteq Asking \ {p}
         /\ \A q \in {prompt'} \cup unlocking' : q # Nothing => q.ticked \in {Nothing, q.net}
  BY DEF FinishPrompt, Asking, EndsReview, PayInv

(* A signature that comes back opens the sheet of the network shown, or none. *)
LEMMA SignedKeepsInv == ASSUME PayInv, NEW p \in unlocking, Signed(p) PROVE PayInv'
  <1>1. FinishPrompt(p) /\ UNCHANGED <<net, tickedNet, sending>>
    BY DEF Signed, formVars
  <1>2. /\ closer' = Nothing /\ unlocking' = unlocking \ {p} /\ prompt' = Nothing
        /\ Asking' \subseteq Asking \ {p} /\ Nothing \notin unlocking'
        /\ \A q \in {prompt'} \cup unlocking' : q # Nothing => q.ticked \in {Nothing, q.net}
    BY <1>1, Finished DEF PayInv
  <1>3. CASE p.for = "pay"
    <2>1. p \in Asking /\ p # Nothing
      BY <1>3 DEF Asking, EndsReview, PayInv
    <2>2. Asking' = {} /\ sending = {} /\ Showing = {} /\ reviewing
      BY <1>2, <2>1 DEF PayInv
    <2>3. CASE p.net = net
      <3>1. confirm' = p /\ reviewing' = reviewing /\ sending' = {}
        BY <1>1, <1>3, <2>2, <2>3 DEF Signed
      <3>2. SheetIsOfShownNetwork' /\ Showing' = {p}
        BY <1>1, <2>1, <2>3, <3>1 DEF SheetIsOfShownNetwork, PayInv, Showing
      <3>3. tickedNet' \in {net', Nothing} /\ closer' \in {Nothing, prompt'}
        BY <1>1, <1>2 DEF PayInv
      <3>4. QED
        BY <1>2, <1>3, <2>2, <3>1, <3>2, <3>3 DEF PayInv
    <2>4. CASE p.net # net
      <3>1. confirm' = confirm
        BY <1>3, <2>4 DEF Signed
      <3>2. SheetIsOfShownNetwork' /\ Showing' = {}
        BY <1>1, <2>2, <3>1 DEF SheetIsOfShownNetwork, PayInv, Showing
      <3>3. QED
        BY <1>1, <1>2, <2>2, <3>2 DEF PayInv
    <2>5. QED
      BY <2>3, <2>4
  <1>4. CASE p.for # "pay"
    <2>1. confirm' = confirm /\ reviewing' = reviewing
      BY <1>4 DEF Signed
    <2>2. SheetIsOfShownNetwork' /\ Showing' = Showing
      BY <1>1, <2>1 DEF SheetIsOfShownNetwork, PayInv, Showing
    <2>3. QED
      BY <1>1, <1>2, <2>1, <2>2 DEF PayInv
  <1>5. QED
    BY <1>3, <1>4

(* Prompts, sheets and switches of network keep the one payment apart.        *)
LEMMA PayInvStep == ASSUME PayInv, [PayNext]_payVars PROVE PayInv'
  <1>1. ASSUME NEW n \in PayNets, SetNetwork(n) PROVE PayInv'
    <2>1. CloseSheets /\ tickedNet' \in {net', Nothing}
      BY <1>1 DEF SetNetwork
    <2>2. QED
      BY <2>1, ScreenChanges
  <1>2. ASSUME NEW n \in PayNets, FeesCome(n) PROVE PayInv'
    BY <1>2 DEF FeesCome, sheetVars, PayInv, SheetIsOfShownNetwork, Asking, Showing
  <1>3. CASE LeaveSend
    <2>1. CloseSheets /\ tickedNet' \in {net', Nothing}
      BY <1>3 DEF LeaveSend, PayInv
    <2>2. QED
      BY <2>1, ScreenChanges
  <1>4. CASE TickCoin
    BY <1>4 DEF TickCoin, sheetVars, PayInv, SheetIsOfShownNetwork, Asking, Showing
  <1>5. CASE OpenSend
    <2>1. CloseSheets /\ tickedNet' \in {net', Nothing}
      BY <1>5 DEF OpenSend, PayInv
    <2>2. QED
      BY <2>1, ScreenChanges
  <1>6. CASE ReviewPayment
    <2>1. "pay" \in KeyUses
      BY DEF KeyUses
    <2>2. QED
      BY <1>6, <2>1, Asked DEF ReviewPayment
  <1>7. CASE SubmitPassword
    <2>1. Asking' \subseteq Asking /\ UNCHANGED <<net, tickedNet, prompt, closer, confirm, reviewing, sending>>
      BY <1>7 DEF SubmitPassword, Asking, formVars
    <2>2. Nothing \notin unlocking' /\ {prompt'} \cup unlocking' \subseteq {prompt} \cup unlocking
      BY <1>7 DEF SubmitPassword, PayInv
    <2>3. QED
      BY <2>1, <2>2 DEF PayInv, SheetIsOfShownNetwork, Showing
  <1>8. CASE CancelPrompt
    <2>1. /\ UNCHANGED <<net, tickedNet, unlocking, confirm, sending>>
          /\ closer' = Nothing /\ prompt' \in {prompt, Nothing}
          /\ prompt' = Nothing => closer # Nothing /\ closer \notin unlocking
          /\ reviewing' = (reviewing /\ ~(prompt' = Nothing /\ EndsReview(prompt)))
      BY <1>8 DEF CancelPrompt, ClosePrompt, formVars
    <2>2. Asking' \subseteq Asking
      BY <2>1 DEF Asking, EndsReview
    <2>3. ASSUME prompt' = Nothing, EndsReview(prompt) PROVE Asking' = {} /\ Showing = {} /\ sending = {}
      <3>1. prompt \in Asking /\ prompt # Nothing
        BY <2>3 DEF Asking, EndsReview
      <3>2. prompt \notin unlocking
        BY <2>1, <2>3, <3>1 DEF PayInv
      <3>3. prompt \notin Asking'
        BY <2>1, <2>3, <3>1, <3>2 DEF Asking
      <3>4. QED
        BY <2>2, <3>1, <3>3 DEF PayInv
    <2>4. Asking' \cup Showing \cup sending # {} => reviewing'
      BY <2>1, <2>2, <2>3 DEF PayInv
    <2>5. Showing' = Showing /\ SheetIsOfShownNetwork'
      BY <2>1 DEF Showing, PayInv, SheetIsOfShownNetwork
    <2>6. QED
      BY <2>1, <2>2, <2>4, <2>5 DEF PayInv
  <1>9. CASE Confirm
    <2>1. /\ UNCHANGED <<net, tickedNet, prompt, unlocking, closer, reviewing>>
          /\ confirm # Nothing /\ confirm' = Nothing /\ sending' = sending \cup {confirm}
      BY <1>9 DEF Confirm, formVars
    <2>2. confirm \in Showing /\ Asking = {} /\ sending = {} /\ reviewing
      BY <2>1 DEF Showing, PayInv
    <2>3. Asking' = {} /\ Showing' = {} /\ sending' = {confirm}
      BY <2>1, <2>2 DEF Asking, Showing
    <2>4. QED
      BY <2>1, <2>2, <2>3 DEF PayInv, SheetIsOfShownNetwork
  <1>10. CASE Decline
    <2>1. /\ UNCHANGED <<net, tickedNet, prompt, unlocking, closer, sending>>
          /\ confirm # Nothing /\ confirm' = Nothing
      BY <1>10 DEF Decline, formVars
    <2>2. confirm \in Showing /\ Asking = {} /\ sending = {}
      BY <2>1 DEF Showing, PayInv
    <2>3. Asking' = {} /\ Showing' = {} /\ sending' = {}
      BY <2>1, <2>2 DEF Asking, Showing
    <2>4. QED
      BY <2>1, <2>3 DEF PayInv, SheetIsOfShownNetwork
  <1>11. ASSUME NEW for \in KeyUses, UseKey(for) PROVE PayInv'
    BY <1>11, Asked DEF UseKey
  <1>12. ASSUME NEW p \in unlocking, WrongPassword(p) PROVE PayInv'
    <2>1. Asking' \subseteq Asking /\ UNCHANGED <<net, tickedNet, prompt, closer, confirm, reviewing, sending>>
      BY <1>12 DEF WrongPassword, Asking, formVars
    <2>2. Nothing \notin unlocking' /\ {prompt'} \cup unlocking' \subseteq {prompt} \cup unlocking
      BY <1>12 DEF WrongPassword, PayInv
    <2>3. QED
      BY <2>1, <2>2 DEF PayInv, SheetIsOfShownNetwork, Showing
  <1>13. ASSUME NEW p \in unlocking, KeyFails(p) PROVE PayInv'
    <2>1. FinishPrompt(p) /\ UNCHANGED <<net, tickedNet, confirm, sending>> /\ reviewing' = (reviewing /\ p.for # "pay")
      BY <1>13 DEF KeyFails, formVars
    <2>2. /\ closer' = Nothing /\ unlocking' = unlocking \ {p} /\ prompt' = Nothing
          /\ Asking' \subseteq Asking \ {p}
          /\ \A q \in {prompt'} \cup unlocking' : q # Nothing => q.ticked \in {Nothing, q.net}
      BY <2>1, Finished
    <2>3. Showing' = Showing /\ SheetIsOfShownNetwork'
      BY <2>1 DEF Showing, PayInv, SheetIsOfShownNetwork
    <2>4. CASE p.for = "pay"
      <3>1. p \in Asking
        BY <2>4 DEF Asking, EndsReview, PayInv
      <3>2. Asking' = {} /\ Showing = {} /\ sending = {}
        BY <2>2, <3>1 DEF PayInv
      <3>3. QED
        BY <2>1, <2>2, <2>3, <3>2 DEF PayInv
    <2>5. CASE p.for # "pay"
      BY <2>1, <2>2, <2>3, <2>5 DEF PayInv
    <2>6. QED
      BY <2>4, <2>5
  <1>14. ASSUME NEW p \in unlocking, Signed(p) PROVE PayInv'
    BY <1>14, SignedKeepsInv
  <1>15. ASSUME NEW p \in sending, BroadcastEnds(p) PROVE PayInv'
    <2>1. /\ UNCHANGED <<net, prompt, unlocking, closer, confirm>> /\ tickedNet' \in {tickedNet, Nothing}
          /\ sending' = sending \ {p}
      BY <1>15 DEF BroadcastEnds
    <2>2. Asking = {} /\ Showing = {} /\ sending' = {}
      BY <2>1 DEF PayInv
    <2>3. Asking' = {} /\ Showing' = {}
      BY <2>1, <2>2 DEF Asking, Showing
    <2>4. QED
      BY <2>1, <2>2, <2>3 DEF PayInv, SheetIsOfShownNetwork
  <1>16. CASE UNCHANGED payVars
    BY <1>16 DEF payVars, PayInv, SheetIsOfShownNetwork, Asking, Showing
  <1>17. QED
    BY <1>1, <1>2, <1>3, <1>4, <1>5, <1>6, <1>7, <1>8, <1>9, <1>10, <1>11, <1>12, <1>13, <1>14, <1>15, <1>16
       DEF PayNext

(* What the invariant says of the sheet and of the payments under way.        *)
LEMMA PayInvMeans == ASSUME PayInv PROVE SheetIsOfShownNetwork /\ OnePaymentAtATime
  <1> DEFINE T == {p \in unlocking : p.for = "pay"} \cup sending \cup ({confirm} \ {Nothing})
  <1>1. T \subseteq Asking \cup Showing \cup sending
    BY DEF PayInv, Asking, Showing, EndsReview
  <1>2. \A p, q \in T : p = q
    BY <1>1 DEF PayInv
  <1>3. Cardinality(T) <= 1
    BY <1>2, AtMostOne
  <1>4. QED
    BY <1>3 DEF PayInv, OnePaymentAtATime, Showing

(* The sheet is of the network on the screen and at most one payment is between *)
(* Review and its end, for any networks and prompts (withPassword, the Send screen *)
(* of mainnet/ui.js).                                                         *)
THEOREM PaymentsSound == PaySpec => [](SheetIsOfShownNetwork /\ OnePaymentAtATime)
  <1>1. PayInit => PayInv
    BY PayInvInit
  <1>2. PayInv /\ [PayNext]_payVars => PayInv'
    BY PayInvStep
  <1>3. PayInv => SheetIsOfShownNetwork /\ OnePaymentAtATime
    BY PayInvMeans
  <1>4. QED
    BY <1>1, <1>2, <1>3, PTL DEF PaySpec

(***************************************************************************)
(* Spending from the testnet wallet.                                         *)
(***************************************************************************)
(* The flows that are not over, by number: a sheet answers one of them, and   *)
(* shows that one's bytes.                                                   *)
FlowsApart(some) == \A f, g \in some : f.id = g.id => f = g
FlowRecords == [id : Nat, kind : FlowKinds \cup {"import"}, at : {"build", "price", "sheet", "cast", "lookup"},
                bytes : Forms, key : Nat]
FlowsInv ==
    /\ flowNet \in FlowNets /\ begun \in Nat /\ form \in Forms
    /\ flows \subseteq FlowRecords /\ \A f \in flows : f.id <= begun
    /\ FlowsApart(flows)
    /\ resolver \in Nat \cup {NoFlow}
    /\ \A f \in flows : f.at = "sheet" /\ f.id = resolver => f.bytes = sheetRows
    /\ nextKey \in [FlowNets -> Nat]
    /\ DOMAIN tracked = FlowNets /\ \A n \in FlowNets : \A c \in tracked[n] : c.key \in Nat
    /\ SentWasShown /\ NextKeyIsFresh

FlowStages == {"build", "price", "sheet", "cast", "lookup"}

(* What each kind of step does to the set of flows.                          *)
LEMMA FlowMoves ==
  ASSUME FlowsInv, NEW f \in flows, NEW stage \in FlowStages, MovesFlow(f, stage)
  PROVE  /\ flows' \subseteq FlowRecords /\ FlowsApart(flows') /\ \A g \in flows' : g.id <= begun
         /\ \A g \in flows' : g \in flows \/ (g.id = f.id /\ g.bytes = f.bytes /\ g.at = stage)
         /\ \A g \in flows' : g.id = f.id => g.bytes = f.bytes /\ g.at = stage
  <1> DEFINE m == [f EXCEPT !.at = stage]
  <1>1. f \in FlowRecords
    BY DEF FlowsInv
  <1>2. m \in FlowRecords /\ m.id = f.id /\ m.bytes = f.bytes /\ m.at = stage
    BY <1>1 DEF FlowRecords, FlowStages
  <1>3. flows' = (flows \ {f}) \cup {m}
    BY DEF MovesFlow
  <1> HIDE DEF m
  <1>4. \A g \in flows : g.id = f.id => g = f
    BY DEF FlowsInv, FlowsApart
  <1>5. QED
    BY <1>2, <1>3, <1>4 DEF FlowsInv, FlowsApart

(* A flow that ends leaves the others as they were.                           *)
LEMMA FlowEnds ==
  ASSUME FlowsInv, NEW f, EndsFlow(f)
  PROVE  flows' \subseteq flows /\ flows' \subseteq FlowRecords /\ FlowsApart(flows') /\ \A g \in flows' : g.id <= begun
  BY DEF EndsFlow, FlowsInv, FlowsApart

(* A flow that begins has a number of its own.                                *)
LEMMA FlowBegins ==
  ASSUME FlowsInv, NEW kind \in FlowKinds \cup {"import"}, NEW stage \in FlowStages, NEW key \in Nat,
         flows' = flows \cup {Flow(kind, stage, key)}, begun' = begun + 1
  PROVE  /\ flows' \subseteq FlowRecords /\ FlowsApart(flows') /\ begun' \in Nat
         /\ \A g \in flows' : g.id <= begun' /\ (g \in flows \/ g.at = stage)
  <1> DEFINE m == Flow(kind, stage, key)
  <1>1. begun \in Nat /\ begun + 1 \in Nat
    BY DEF FlowsInv
  <1>2. m \in FlowRecords /\ m.id = begun + 1 /\ m.at = stage
    BY <1>1 DEF Flow, FlowRecords, FlowsInv, FlowStages
  <1> HIDE DEF m
  <1>3. \A g \in flows : g.id \in Nat /\ g.id <= begun
    BY DEF FlowsInv, FlowRecords
  <1>4. \A g \in flows : g.id # begun + 1 /\ g.id <= begun + 1
    BY <1>1, <1>3
  <1>5. flows' = flows \cup {m}
    BY DEF m
  <1>6. QED
    BY <1>1, <1>2, <1>4, <1>5 DEF FlowsInv, FlowsApart

(* A coin put on the list moves the counter past its key.                     *)
LEMMA CoinTracked ==
  ASSUME FlowsInv, NEW f \in flows, Track(f)
  PROVE  /\ nextKey' \in [FlowNets -> Nat]
         /\ DOMAIN tracked' = FlowNets /\ \A n \in FlowNets : \A c \in tracked'[n] : c.key \in Nat
         /\ NextKeyIsFresh'
  <1> DEFINE coin == [id |-> f.id, key |-> f.key, by |-> f.kind]
  <1>1. flowNet \in FlowNets /\ f.key \in Nat /\ coin.key = f.key
    BY DEF FlowsInv, FlowRecords
  <1>2. tracked' = [tracked EXCEPT ![flowNet] = @ \cup {coin}]
    BY DEF Track
  <1> HIDE DEF coin
  <1>3. /\ DOMAIN tracked' = FlowNets
        /\ \A n \in FlowNets : \A c \in tracked'[n] : c \in tracked[n] \/ (n = flowNet /\ c = coin)
    BY <1>2 DEF FlowsInv
  <1>4. nextKey' = [nextKey EXCEPT ![flowNet] = IF @ > f.key THEN @ ELSE f.key + 1]
    BY DEF Track, BumpIdx
  <1>5. nextKey \in [FlowNets -> Nat]
    BY DEF FlowsInv
  <1>6. /\ nextKey' \in [FlowNets -> Nat] /\ nextKey'[flowNet] > f.key
        /\ \A n \in FlowNets : nextKey'[n] >= nextKey[n]
    BY <1>1, <1>4, <1>5
  <1>7. ASSUME NEW n \in FlowNets, NEW c \in tracked'[n] PROVE c.key \in Nat /\ c.key < nextKey'[n]
    <2>1. CASE c \in tracked[n]
      <3>1. c.key \in Nat /\ c.key < nextKey[n] /\ nextKey[n] \in Nat /\ nextKey'[n] \in Nat
        BY <1>5, <1>6, <2>1 DEF FlowsInv, NextKeyIsFresh
      <3>2. QED
        BY <1>6, <3>1
    <2>2. CASE n = flowNet /\ c = coin
      BY <1>1, <1>6, <2>2
    <2>3. QED
      BY <1>3, <2>1, <2>2
  <1>8. QED
    BY <1>3, <1>6, <1>7 DEF NextKeyIsFresh

(* No flow is under way when the page starts.                                 *)
LEMMA FlowsInvInit == ASSUME FlowsInit PROVE FlowsInv
  BY DEF FlowsInit, FlowsInv, FlowsApart, SentWasShown, NextKeyIsFresh

(* Each step of a flow keeps the numbers, the sheet and the keys together.    *)
LEMMA FlowsInvStep == ASSUME FlowsInv, [FlowsNext]_flowVars PROVE FlowsInv'
  <1>1. ASSUME NEW n \in FlowNets, SwitchFlowNet(n) PROVE FlowsInv'
    BY <1>1 DEF SwitchFlowNet, FlowsInv, FlowsApart, SentWasShown, NextKeyIsFresh, confirmVars, labVars
  <1>2. CASE EditForm
    BY <1>2 DEF EditForm, FlowsInv, FlowsApart, SentWasShown, NextKeyIsFresh, confirmVars, labVars
  <1>3. CASE RefreshLab
    BY <1>3 DEF RefreshLab, FlowsInv, FlowsApart, SentWasShown, NextKeyIsFresh, confirmVars, labVars
  <1>4. ASSUME NEW kind \in FlowKinds, StartFlow(kind) PROVE FlowsInv'
    <2>1. /\ flows' = flows \cup {Flow(kind, "build", 0)} /\ begun' = begun + 1
          /\ UNCHANGED <<flowNet, form, resolver, sheetRows, tracked, nextKey, sent>>
      BY <1>4 DEF StartFlow, confirmVars, labVars
    <2>2. "build" \in FlowStages /\ kind \in FlowKinds \cup {"import"} /\ 0 \in Nat
      BY DEF FlowStages
    <2>3. /\ flows' \subseteq FlowRecords /\ FlowsApart(flows') /\ begun' \in Nat
          /\ \A g \in flows' : g.id <= begun' /\ (g \in flows \/ g.at = "build")
      BY <2>1, <2>2, FlowBegins
    <2>4. QED
      BY <2>1, <2>3 DEF FlowsInv, SentWasShown, NextKeyIsFresh
  <1>5. ASSUME NEW key \in 0..MaxKey, AskImport(key) PROVE FlowsInv'
    <2>1. /\ flows' = flows \cup {Flow("import", "lookup", key)} /\ begun' = begun + 1
          /\ UNCHANGED <<flowNet, form, resolver, sheetRows, tracked, nextKey, sent>>
      BY <1>5 DEF AskImport, confirmVars, labVars
    <2>2. "lookup" \in FlowStages /\ "import" \in FlowKinds \cup {"import"} /\ key \in Nat
      BY FlowsAssumption DEF FlowStages
    <2>3. /\ flows' \subseteq FlowRecords /\ FlowsApart(flows') /\ begun' \in Nat
          /\ \A g \in flows' : g.id <= begun' /\ (g \in flows \/ g.at = "lookup")
      BY <2>1, <2>2, FlowBegins
    <2>4. QED
      BY <2>1, <2>3 DEF FlowsInv, SentWasShown, NextKeyIsFresh
  <1>6. ASSUME NEW f \in flows, BuildFails(f) \/ BroadcastFails(f) PROVE FlowsInv'
    <2>1. EndsFlow(f) /\ UNCHANGED <<flowNet, form, sheetRows, resolver, tracked, nextKey, sent, begun>>
      BY <1>6 DEF BuildFails, BroadcastFails, confirmVars, labVars
    <2>2. flows' \subseteq flows /\ flows' \subseteq FlowRecords /\ FlowsApart(flows') /\ \A g \in flows' : g.id <= begun
      BY <2>1, FlowEnds
    <2>3. QED
      BY <2>1, <2>2 DEF FlowsInv, SentWasShown, NextKeyIsFresh
  <1>7. ASSUME NEW f \in flows, Built(f) PROVE FlowsInv'
    <2>1. MovesFlow(f, "price") /\ UNCHANGED <<flowNet, form, sheetRows, resolver, tracked, nextKey, sent, begun>>
      BY <1>7 DEF Built, confirmVars, labVars
    <2>2. "price" \in FlowStages
      BY DEF FlowStages
    <2>3. /\ flows' \subseteq FlowRecords /\ FlowsApart(flows') /\ \A g \in flows' : g.id <= begun
          /\ \A g \in flows' : g \in flows \/ (g.id = f.id /\ g.bytes = f.bytes /\ g.at = "price")
      BY <2>1, <2>2, FlowMoves
    <2>4. QED
      BY <2>1, <2>3 DEF FlowsInv, SentWasShown, NextKeyIsFresh
  <1>8. ASSUME NEW f \in flows, ConfirmSheet(f) PROVE FlowsInv'
    <2>1. /\ MovesFlow(f, "sheet") /\ sheetRows' = f.bytes /\ resolver' = f.id
          /\ UNCHANGED <<flowNet, form, tracked, nextKey, sent, begun>>
      BY <1>8 DEF ConfirmSheet, SheetAnswers, labVars
    <2>2. "sheet" \in FlowStages
      BY DEF FlowStages
    <2>3. /\ flows' \subseteq FlowRecords /\ FlowsApart(flows') /\ \A g \in flows' : g.id <= begun
          /\ \A g \in flows' : g.id = f.id => g.bytes = f.bytes
      BY <2>1, <2>2, FlowMoves
    <2>4. f.id \in Nat
      BY DEF FlowsInv, FlowRecords
    <2>5. QED
      BY <2>1, <2>3, <2>4 DEF FlowsInv, SentWasShown, NextKeyIsFresh
  <1>9. ASSUME NEW f \in flows, CancelFlow(f) PROVE FlowsInv'
    <2>1. EndsFlow(f) /\ resolver' = NoFlow /\ UNCHANGED <<flowNet, form, sheetRows, tracked, nextKey, sent, begun>>
      BY <1>9 DEF CancelFlow, labVars
    <2>2. flows' \subseteq FlowRecords /\ FlowsApart(flows') /\ \A g \in flows' : g.id <= begun
      BY <2>1, FlowEnds
    <2>3. \A g \in flows' : g.id # NoFlow
      BY <2>2, FlowsAssumption DEF FlowRecords
    <2>4. QED
      BY <2>1, <2>2, <2>3 DEF FlowsInv, SentWasShown, NextKeyIsFresh
  <1>10. ASSUME NEW f \in flows, Agree(f) PROVE FlowsInv'
    <2>1. /\ MovesFlow(f, "cast") /\ resolver' = NoFlow /\ sent' = sent \cup {[bytes |-> f.bytes, shown |-> sheetRows]}
          /\ f.bytes = sheetRows /\ UNCHANGED <<flowNet, form, sheetRows, tracked, nextKey, begun>>
      BY <1>10 DEF Agree, labVars, FlowsInv
    <2>2. "cast" \in FlowStages
      BY DEF FlowStages
    <2>3. flows' \subseteq FlowRecords /\ FlowsApart(flows') /\ \A g \in flows' : g.id <= begun
      BY <2>1, <2>2, FlowMoves
    <2>4. \A g \in flows' : g.id # NoFlow
      BY <2>3, FlowsAssumption DEF FlowRecords
    <2>5. SentWasShown'
      BY <2>1 DEF FlowsInv, SentWasShown
    <2>6. QED
      BY <2>1, <2>3, <2>4, <2>5 DEF FlowsInv, NextKeyIsFresh
  <1>11. ASSUME NEW f \in flows, Broadcast(f) \/ ImportFound(f) PROVE FlowsInv'
    <2>1. /\ EndsFlow(f) /\ UNCHANGED <<flowNet, form, sheetRows, resolver, sent, begun>>
          /\ Track(f) \/ UNCHANGED <<tracked, nextKey>>
      BY <1>11 DEF Broadcast, ImportFound, confirmVars, labVars
    <2>2. flows' \subseteq flows /\ flows' \subseteq FlowRecords /\ FlowsApart(flows') /\ \A g \in flows' : g.id <= begun
      BY <2>1, FlowEnds
    <2>3. /\ nextKey' \in [FlowNets -> Nat] /\ NextKeyIsFresh'
          /\ DOMAIN tracked' = FlowNets /\ \A n \in FlowNets : \A c \in tracked'[n] : c.key \in Nat
      <3>1. CASE Track(f)
        BY <3>1, CoinTracked
      <3>2. CASE UNCHANGED <<tracked, nextKey>>
        BY <3>2 DEF FlowsInv, NextKeyIsFresh
      <3>3. QED
        BY <2>1, <3>1, <3>2
    <2>4. QED
      BY <2>1, <2>2, <2>3 DEF FlowsInv, SentWasShown
  <1>12. CASE UNCHANGED flowVars
    BY <1>12 DEF flowVars, confirmVars, labVars, FlowsInv, FlowsApart, SentWasShown, NextKeyIsFresh
  <1>13. QED
    BY <1>1, <1>2, <1>3, <1>4, <1>5, <1>6, <1>7, <1>8, <1>9, <1>10, <1>11, <1>12 DEF FlowsNext

(* What the hot wallet broadcasts is what its sheet showed, and the next key it *)
(* offers is past every key it lists, for any number of flows sharing the sheet *)
(* (confirmSheet, p2pkBumpIdx in web/ui.js).                                  *)
THEOREM FlowsSound == FlowsSpec => [](SentWasShown /\ NextKeyIsFresh)
  <1>1. FlowsInit => FlowsInv
    BY FlowsInvInit
  <1>2. FlowsInv /\ [FlowsNext]_flowVars => FlowsInv'
    BY FlowsInvStep
  <1>3. FlowsInv => SentWasShown /\ NextKeyIsFresh
    BY DEF FlowsInv
  <1>4. QED
    BY <1>1, <1>2, <1>3, PTL DEF FlowsSpec

(***************************************************************************)
(* A secret of the mainnet page and its file.                                *)
(***************************************************************************)
\* A file a wallet may be opened from.
GoodFile(f) == ~f.legacy /\ (f.secret \in PageKeys => f.home = "mainnet")

\* Files are right or of the older format; a seal is right; a handler that goes on
\* to lock a wallet has its file in the current format.
PageInv ==
    /\ \A f \in downloaded : f.legacy \/ GoodFile(f)
    /\ \A j \in saves : /\ j = [sec |-> j.sec, home |-> j.home]
                        /\ j.home # NoSecret => (j.sec \in PageKeys => j.home = "mainnet")
    /\ opening # NoSecret => opening.file \in downloaded /\ (opening.at = "lock" => ~opening.file.legacy)
    /\ wallet # NoSecret => wallet \in downloaded /\ GoodFile(wallet)
    /\ ready # NoSecret => ready \in downloaded /\ GoodFile(ready)

(* Nothing is open, made or found when the page is loaded.                    *)
LEMMA PageInvInit == PageInit => PageInv
  BY PageAssumption DEF PageInit, PageInv, GoodFile

(* A step that leaves the files and the handlers alone, and at most drops the  *)
(* wallets.                                                                  *)
LEMMA QuietStep ==
  ASSUME PageInv, UNCHANGED <<downloaded, saves>>, opening' \in {opening, NoSecret},
         wallet' \in {wallet, ready, NoSecret}, ready' \in {ready, NoSecret}
  PROVE  PageInv'
  BY DEF PageInv, GoodFile

(* Every handler, before and after each of its awaits, keeps the files right. *)
LEMMA PageInvStep ==
  ASSUME PageInv, [PageNext]_pageVars
  PROVE  PageInv'
  <1>1. CASE Back \/ Tab \/ StartCreate \/ Regenerate \/ Checked \/ StartImport \/ StartOpen
    BY <1>1, QuietStep
       DEF Back, Tab, StartCreate, Regenerate, Checked, StartImport, StartOpen, OpenSave, Go,
           saveVars, secretVars, paperVars
  <1>2. CASE (\E s \in Seeds : GeneratePhrase(s)) \/ (\E s \in Seeds \cup PageKeys : ImportSecret(s))
    BY <1>2, QuietStep DEF GeneratePhrase, ImportSecret, OpenSave, Go, saveVars, secretVars, paperVars
  <1>3. CASE VanityOpen \/ VanityDiscard \/ VanitySave \/ PaperOpen \/ PaperShown \/ PaperSave
             \/ (\E k \in PageKeys : VanityFound(k) \/ PaperShow(k))
    BY <1>3, QuietStep
       DEF VanityOpen, VanityDiscard, VanitySave, PaperOpen, PaperShown, PaperSave, VanityFound,
           PaperShow, OpenSave, Go, saveVars, secretVars, paperVars
  <1>4. CASE BackFromSave \/ SaveOpen \/ OpenFails
    BY <1>4, QuietStep DEF BackFromSave, SaveOpen, OpenFails, OpensWallet, Go, saveVars, secretVars, paperVars
  <1>5. CASE LockPage
    BY <1>5 DEF LockPage, PageInv
  <1>6. CASE SaveGo
    <2>1. saves' = saves \cup {[sec |-> Saving, home |-> NoSecret]}
          /\ UNCHANGED <<downloaded, opening, wallet, ready>>
      BY <1>6 DEF SaveGo, saveVars
    <2>2. QED
      BY <2>1 DEF PageInv, GoodFile
  <1>7. ASSUME NEW j \in saves, SaveSeal(j) PROVE PageInv'
    <2> DEFINE k == [j EXCEPT !.home = IF j.sec \in PageKeys THEN "mainnet" ELSE makeNet]
    <2>1. saves' = (saves \ {j}) \cup {k} /\ UNCHANGED <<downloaded, opening, wallet, ready>>
      BY <1>7 DEF SaveSeal, saveVars
    <2>2. j = [sec |-> j.sec, home |-> j.home]
      BY DEF PageInv
    <2>3. k = [sec |-> j.sec, home |-> IF j.sec \in PageKeys THEN "mainnet" ELSE makeNet]
      BY <2>2
    <2> HIDE DEF k
    <2>4. QED
      BY <2>1, <2>3 DEF PageInv, GoodFile
  <1>8. ASSUME NEW j \in saves, SaveDone(j) PROVE PageInv'
    <2> DEFINE f == FileOf(j.sec, j.home)
    <2>1. ready' = f /\ downloaded' = downloaded \cup {f} /\ saves' = saves \ {j} /\ UNCHANGED <<opening, wallet>>
      BY <1>8 DEF SaveDone, paperVars
    <2>2. GoodFile(f)
      BY <1>8 DEF SaveDone, PageInv, GoodFile, FileOf
    <2> HIDE DEF f
    <2>3. QED
      BY <2>1, <2>2 DEF PageInv, GoodFile
  <1>9. ASSUME NEW j \in saves, SaveFails(j) PROVE PageInv'
    <2>1. saves' = saves \ {j} /\ UNCHANGED <<downloaded, opening, wallet, ready>>
      BY <1>9 DEF SaveFails, saveVars
    <2>2. QED
      BY <2>1 DEF PageInv, GoodFile
  <1>10. ASSUME NEW f \in downloaded, Decrypted(f), UNCHANGED <<wallet, downloaded, saves>> PROVE PageInv'
    <2>1. \/ opening' = NoSecret /\ ready' \in {ready, NoSecret}
          \/ ~f.legacy /\ opening' = [at |-> "lock", file |-> f] /\ ready' = ready
      BY <1>10 DEF Decrypted, OpenSave, saveVars
    <2>2. QED
      BY <1>10, <2>1 DEF PageInv, GoodFile
  <1>11. ASSUME NEW f \in downloaded, OpenGo(f) PROVE PageInv'
    <2>1. CASE opening' = [at |-> "decrypt", file |-> f] /\ UNCHANGED ready
      BY <1>11, <2>1 DEF OpenGo, PageInv, GoodFile
    <2>2. CASE Decrypted(f)
      BY <1>10, <1>11, <2>2 DEF OpenGo
    <2>3. QED
      BY <1>11, <2>1, <2>2 DEF OpenGo, saveVars
  <1>12. CASE OpenDecrypted
    BY <1>10, <1>12 DEF OpenDecrypted, PageInv
  <1>13. CASE OpenLocked
    <2>1. /\ opening # NoSecret /\ opening.at = "lock" /\ opening' = NoSecret
          /\ wallet' = opening.file /\ UNCHANGED <<downloaded, saves, ready>>
      BY <1>13 DEF OpenLocked, OpensWallet
    <2>2. QED
      BY <2>1 DEF PageInv, GoodFile
  <1>14. CASE UNCHANGED pageVars
    BY <1>14, QuietStep DEF pageVars
  <1>15. QED
    BY <1>1, <1>2, <1>3, <1>4, <1>5, <1>6, <1>7, <1>8, <1>9, <1>11, <1>12, <1>13, <1>14 DEF PageNext

(* The wallet that is open, or about to be, has its file downloaded, for any  *)
(* phrases, keys and older files, however the save and open handlers interleave *)
(* (s_go, o_go in mainnet/ui.js).                                             *)
THEOREM WalletsHaveFiles ==
  PageSpec => []OpenHasItsFile
  <1>1. PageInv => OpenHasItsFile
    BY DEF PageInv, OpenHasItsFile, GoodFile
  <1>2. PageInv /\ [PageNext]_pageVars => PageInv'
    BY PageInvStep
  <1>3. QED
    BY <1>1, <1>2, PageInvInit, PTL DEF PageSpec

(***************************************************************************)
(* What a file and its password give back.                                   *)
(***************************************************************************)
Payloads(secret) == {Payload(secret, TRUE), Payload(secret, FALSE)}
\* A file in the current format holds, or asks for, the secret it was made of.
MadeOf(f) ==
    /\ f.meant \in AllSecrets
    /\ f.record = IF f.meant.kind = "seed" THEN f.meant ELSE Absent
    /\ f.payload \in Payloads(f.meant)
\* What the open wallet is held as is its file's secret, on every network.
HeldWell ==
    /\ MadeOf(held.file)
    /\ held.pubs = [n \in Networks(held.file.meant, held.file.home) |-> Describe(held.file.meant, n)]
    /\ held.vault.password = held.file.password
    /\ SecretOf(held.vault.payload) = held.file.meant
LockedInv ==
    /\ \A f \in files : f \in Backups \/ (MadeOf(f) /\ ~f.legacy)
    /\ pendingSecret # Absent => pendingSecret.secret \in AllSecrets /\ pendingSecret.meant = pendingSecret.secret /\ held = Absent
    /\ held # Absent => HeldWell
    /\ answer # Absent => held # Absent /\ PasswordGetsTheSecret

(* The secret of a file that does not ask for a passphrase.                   *)
LEMMA SecretBack ==
  ASSUME NEW s \in AllSecrets, NEW q \in Payloads(s)
  PROVE  /\ FileIsEnough(s, q) => SecretOf(q) = s
         /\ q = Payload(s, TRUE) => SecretOf(q) = s
         /\ q.used <=> s.pass # ""
         /\ q.pass = Absent => s.kind = "seed" /\ s.pass # ""
         /\ q.pass # Absent => FileIsEnough(s, q)
         /\ q.kind = s.kind /\ q.what = s.what
  <1>1. Absent # "" /\ Absent \notin Passes
    BY LockedAssumption
  <1>2. /\ s = [kind |-> s.kind, what |-> s.what, pass |-> s.pass]
        /\ s.kind \in {"seed", "wif"} /\ (s.kind = "wif" => s.pass = "") /\ s.pass # Absent
    BY <1>1 DEF AllSecrets
  <1>3. /\ q.kind = s.kind /\ q.what = s.what /\ q.used = (s.pass # "")
        /\ q.pass = s.pass \/ (q.pass = Absent /\ s.pass # "")
        /\ q = Payload(s, TRUE) => q.pass = s.pass
    <2>1. CASE q = Payload(s, TRUE)
      BY <2>1 DEF Payload
    <2>2. CASE q = Payload(s, FALSE)
      <3>1. q.kind = s.kind /\ q.what = s.what /\ q.used = (s.pass # "")
            /\ q.pass = IF s.pass = "" THEN s.pass ELSE Absent
        BY <2>2 DEF Payload
      <3>2. ASSUME q = Payload(s, TRUE) PROVE q.pass = s.pass
        BY <3>2 DEF Payload
      <3>3. QED
        BY <3>1, <3>2
    <2>3. QED
      BY <2>1, <2>2 DEF Payloads
  <1>4. SecretOf(q) = [kind |-> s.kind, what |-> s.what, pass |-> IF q.pass = Absent THEN "" ELSE q.pass]
    BY <1>3 DEF SecretOf
  <1>5. FileIsEnough(s, q) <=> s.kind = "wif" \/ s.pass = "" \/ q.pass = s.pass
    BY DEF FileIsEnough
  <1>6. FileIsEnough(s, q) => q.pass = s.pass
    BY <1>2, <1>3, <1>5
  <1>7. q.pass = s.pass => SecretOf(q) = s
    BY <1>1, <1>2, <1>4
  <1>8. QED
    BY <1>1, <1>2, <1>3, <1>5, <1>6, <1>7

(* A wallet locked with its own file.                                        *)
LEMMA LockedWell ==
  ASSUME NEW s \in AllSecrets, NEW f, NEW password, MadeOf(f), f.meant = s,
         f.password = password, held' = LockWallet(s, password, f)
  PROVE  HeldWell'
  <1>1. f.payload \in Payloads(s)
    BY DEF MadeOf
  <1>2. held'.file = f /\ held'.pubs = [n \in Networks(s, f.home) |-> Describe(s, n)]
    BY DEF LockWallet
  <1>3. CASE FileIsEnough(s, f.payload)
    <2>1. held'.vault = f
      BY <1>3 DEF LockWallet
    <2>2. SecretOf(f.payload) = s
      BY <1>1, <1>3, SecretBack
    <2>3. QED
      BY <1>2, <2>1, <2>2 DEF HeldWell, MadeOf
  <1>4. CASE ~FileIsEnough(s, f.payload)
    <2>1. held'.vault.password = password /\ held'.vault.payload = Payload(s, TRUE)
      BY <1>4 DEF LockWallet, Sealed
    <2>2. SecretOf(Payload(s, TRUE)) = s
      BY SecretBack DEF Payloads
    <2>3. QED
      BY <1>2, <2>1, <2>2 DEF HeldWell, MadeOf
  <1>5. QED
    BY <1>3, <1>4

(* Only older backups are there, nothing is open.                             *)
LEMMA LockedInvInit == LockedInit => LockedInv
  BY DEF LockedInit, LockedInv

(* A file opens as the secret it was made of, or is saved anew.               *)
LEMMA OpenKeeps ==
  ASSUME LockedInv, NEW f \in files, NEW typed \in Passes \cup {""}, OpenFile(f, typed)
  PROVE  LockedInv'
  <1> DEFINE s == Candidate(f, typed)
  <1>1. held = Absent /\ pendingSecret = Absent /\ answer = Absent /\ Accepted(f, typed)
        /\ files' = files /\ answer' = answer
    BY DEF OpenFile, LockedInv
  <1>2. CASE f \in Backups
    <2>1. s \in AllSecrets
      <3>1. CASE AsksPassphrase(f)
        <4>1. SecretOf(f.payload) \in AllSecrets /\ f.payload.kind = "seed"
          BY <1>2, <3>1, LockedAssumption
        <4>2. f.payload.what \in Phrases
          BY <4>1 DEF SecretOf, AllSecrets
        <4>3. QED
          BY <3>1, <4>2 DEF Candidate, Seed, AllSecrets
      <3>2. CASE ~AsksPassphrase(f)
        BY <1>2, <3>2, LockedAssumption DEF Candidate
      <3>3. QED
        BY <3>1, <3>2
    <2>2. f.record # Absent => f.meant = s
      BY <1>1, <1>2, LockedAssumption DEF Accepted, Candidate
    <2>3. f.legacy
      BY <1>2, LockedAssumption
    <2>4. /\ pendingSecret' = [secret |-> s, home |-> IF f.home = "mainnet" THEN "mainnet" ELSE PRACTICE_HOME,
                         meant |-> IF f.record = Absent THEN s ELSE f.meant]
          /\ held' = held
      BY <2>3 DEF OpenFile
    <2>5. QED
      BY <1>1, <2>1, <2>2, <2>4 DEF LockedInv, MadeOf
  <1>3. CASE MadeOf(f) /\ ~f.legacy
    <2>1. f.payload \in Payloads(f.meant)
      BY <1>3 DEF MadeOf
    <2>2. f.meant \in AllSecrets
      BY <1>3 DEF MadeOf
    <2>3. s = f.meant
      <3>1. CASE AsksPassphrase(f)
        <4>1. f.meant.kind = "seed"
          BY <2>1, <2>2, <3>1, SecretBack DEF AsksPassphrase
        <4>2. f.record = f.meant
          BY <1>3, <4>1 DEF MadeOf
        <4>3. f.record \in {Absent, s} /\ f.meant # Absent
          BY <1>1, <2>2, <3>1, LockedAssumption DEF Accepted
        <4>4. QED
          BY <4>2, <4>3
      <3>2. CASE ~AsksPassphrase(f)
        <4>1. f.payload.pass # Absent
          BY <2>1, <2>2, <3>2, SecretBack DEF AsksPassphrase
        <4>2. FileIsEnough(f.meant, f.payload)
          BY <2>1, <2>2, <4>1, SecretBack
        <4>3. QED
          BY <2>1, <2>2, <3>2, <4>2, SecretBack DEF Candidate
      <3>3. QED
        BY <3>1, <3>2
    <2>4. held' = LockWallet(s, f.password, f) /\ pendingSecret' = pendingSecret
      BY <1>3 DEF OpenFile
    <2>5. HeldWell'
      BY <1>3, <2>2, <2>3, <2>4, LockedWell
    <2>6. QED
      BY <1>1, <2>4, <2>5 DEF LockedInv, MadeOf
  <1>4. QED
    BY <1>2, <1>3 DEF LockedInv

(* A file that is saved holds its secret, with its passphrase or without.     *)
LEMMA SaveKeeps ==
  ASSUME LockedInv, NEW store \in BOOLEAN, NEW password \in Passwords,
         SaveFile(store, password)
  PROVE  LockedInv'
  <1> DEFINE s == pendingSecret.secret
             f == Sealed(Payload(s, store), password, pendingSecret.home,
                         IF s.kind = "seed" THEN s ELSE Absent, pendingSecret.meant)
  <1>1. s \in AllSecrets /\ pendingSecret.meant = s /\ held = Absent /\ answer = Absent
    BY DEF SaveFile, LockedInv
  <1>2. files' = files \cup {f} /\ held' = LockWallet(s, password, f) /\ pendingSecret' = Absent
        /\ answer' = answer
    BY DEF SaveFile
  <1>3. MadeOf(f) /\ ~f.legacy /\ f.meant = s /\ f.password = password
    <2>1. Payload(s, store) \in Payloads(s)
      <3>1. CASE store = TRUE
        BY <3>1 DEF Payloads
      <3>2. CASE store = FALSE
        BY <3>2 DEF Payloads
      <3>3. QED
        BY <3>1, <3>2
    <2>2. QED
      BY <1>1, <2>1 DEF MadeOf, Sealed
  <1> HIDE DEF f, s
  <1>4. HeldWell'
    BY <1>1, <1>2, <1>3, LockedWell
  <1>5. QED
    BY <1>1, <1>2, <1>3, <1>4 DEF LockedInv, MadeOf

(* A password gets out the secret, or nothing.                                *)
LEMMA UseKeeps ==
  ASSUME LockedInv, held # Absent,
         NEW n \in DOMAIN held.pubs, NEW password \in Passwords, Use(n, password)
  PROVE  LockedInv'
  <1>1. HeldWell /\ UNCHANGED <<files, pendingSecret, held>>
    BY DEF Use, LockedInv
  <1>2. Describe(held.file.meant, n) = held.pubs[n]
    BY <1>1 DEF HeldWell
  <1>3. PasswordGets(n, password) = IF password = held.file.password THEN held.file.meant ELSE Absent
    BY <1>1, <1>2 DEF PasswordGets, HeldWell
  <1>4. answer'.password = password /\ answer'.got = PasswordGets(n, password)
    BY DEF Use
  <1>5. PasswordGetsTheSecret'
    BY <1>1, <1>3, <1>4 DEF PasswordGetsTheSecret
  <1>6. QED
    BY <1>1, <1>5 DEF LockedInv, HeldWell, MadeOf

(* Every handler keeps the open wallet that of its file.                      *)
LEMMA LockedInvStep ==
  ASSUME LockedInv, [LockedNext]_lockedVars
  PROVE  LockedInv'
  <1>1. ASSUME NEW s \in AllSecrets, NEW home, Make(s, home) PROVE LockedInv'
    BY <1>1 DEF Make, LockedInv, HeldWell, MadeOf, PasswordGetsTheSecret
  <1>2. CASE Leave
    BY <1>2 DEF Leave, LockedInv, MadeOf
  <1>3. CASE UNCHANGED lockedVars
    BY <1>3 DEF lockedVars, LockedInv, HeldWell, MadeOf, PasswordGetsTheSecret
  <1>4. QED
    BY <1>1, <1>2, <1>3, OpenKeeps, SaveKeeps, UseKeeps DEF LockedNext

(* The password of the file an open wallet came from gets out the secret that *)
(* was saved, and no other password gets anything, for any phrases, passphrases, *)
(* keys and older backups (locked.js, account.js).                            *)
THEOREM PasswordsGetSecrets ==
  LockedSpec => []PasswordGetsTheSecret
  <1>1. LockedInv => PasswordGetsTheSecret
    BY DEF LockedInv, PasswordGetsTheSecret
  <1>2. LockedInv /\ [LockedNext]_lockedVars => LockedInv'
    BY LockedInvStep
  <1>3. QED
    BY <1>1, <1>2, LockedInvInit, PTL DEF LockedSpec

(***************************************************************************)
(* The account of the testnet wallet, found from its phrase.                 *)
(***************************************************************************)
Lower == {s \in Nat \X Nat : s[1] < s[2]}

(* A set of naturals has a smallest member.                                   *)
LEMMA SmallestNat ==
  ASSUME NEW T \in SUBSET Nat, T # {}
  PROVE  \E n \in T : \A m \in T : n <= m
  <1>1. Lower = OpToRel(<, Nat)
    BY DEF Lower, OpToRel
  <1>2. PICK n \in T : \A m \in T : <<m, n>> \notin Lower
    BY <1>1, NatLessThanWellFounded, WFMin
  <1>3. ASSUME NEW m \in T PROVE n <= m
    <2>1. <<m, n>> \in Nat \X Nat /\ <<m, n>>[1] = m /\ <<m, n>>[2] = n
      OBVIOUS
    <2> QED BY <1>2, <2>1 DEF Lower
  <1> QED BY <1>3

(* A set of integers with a bound has a greatest member.                      *)
LEMMA MaxIs ==
  ASSUME NEW S \in SUBSET Int, S # {}, NEW top \in Int, \A x \in S : x <= top
  PROVE  Max(S) \in S /\ \A x \in S : x <= Max(S)
  <1> DEFINE T == {n \in Nat : \E x \in S : n = top - x}
  <1>1. PICK x0 \in S : TRUE
    OBVIOUS
  <1>2. top - x0 \in T
    OBVIOUS
  <1>3. PICK n \in T : \A m \in T : n <= m
    BY <1>2, SmallestNat
  <1>4. PICK x \in S : n = top - x
    BY <1>3
  <1>5. ASSUME NEW y \in S PROVE y <= x
    <2>1. top - y \in T
      OBVIOUS
    <2> QED BY <1>3, <1>4, <2>1
  <1> QED BY <1>5 DEF Max

Places == Chains \X Nat
CoinRecords == [at : Places, id : Nat]
FirstAnswers == [used : SUBSET Places, coins : SUBSET CoinRecords]
JobRecords ==
    [at : {"idle", "scan", "found", "built"}, chain : Chains, base : Nat, was : FirstAnswers,
     found : SUBSET Nat, taken : SUBSET Nat, hi : [1..2 -> Int], ins : SUBSET Nat, runs : Nat]
AccountTypeOK ==
    /\ used \subseteq Places
    /\ unspent \subseteq CoinRecords
    /\ made \in Nat /\ offeredUpTo \in Nat
    /\ job \in [Discoveries -> JobRecords]
CoinsAreOfUsed == \A k \in unspent : k.at \in used /\ k.id < made

\* U the used addresses, K the coins: an address at i would be found, a used one of
\* its chain being at most a gap below.
Near(U, c, i) == i >= Gap => \E b \in U : b[1] = c /\ b[2] \in (i - Gap)..(i - 1)
\* Every address of a chain up to n would be, and the one below n was used.
Linked(U, c, n) ==
    /\ n = 0 \/ <<c, n - 1>> \in U
    /\ \A i \in 0..n : Near(U, c, i)

\* The coins of a discovery's start that are still there.
Old(K, r) == {k \in K : k.id \in r.taken}
\* What a discovery knows.
Scanning(r, U, K) ==
    /\ r.base = r.hi[r.chain + 1] + 1
    /\ r.chain = Receive => r.hi[Change + 1] = -1
    /\ r.was.used \subseteq U \cap WindowAt(r.chain, r.base)
    /\ \A k \in r.was.coins : k.at \in U
    /\ \A k \in Old(K, r) :
          /\ k.at[1] = r.chain /\ k.at[2] >= r.base => r.was.used # {}
          /\ k.at \in WindowAt(r.chain, r.base) => k \in r.was.coins
          /\ k.at[1] = r.chain /\ k.at[2] < r.base => k.id \in r.found
          /\ k.at[1] = Receive /\ r.chain = Change => k.id \in r.found
JobInv(r, U, K, n) ==
    /\ \A c \in Chains : r.hi[c + 1] + 1 \in Nat /\ Linked(U, c, r.hi[c + 1] + 1)
    /\ \A t \in r.taken : t < n
    /\ r.at = "scan" => Scanning(r, U, K)
    /\ r.at = "found" => \A k \in Old(K, r) : k.id \in r.found
AccountInv ==
    /\ AccountTypeOK /\ CoinsAreOfUsed /\ NothingOutOfReach
    /\ \A i \in 0..offeredUpTo : Near(used, Receive, i)
    /\ \A j \in Discoveries : JobInv(job[j], used, unspent, made)

(* More used addresses leave none out of reach.                               *)
LEMMA NearStays ==
  ASSUME NEW c, NEW i, NEW U, NEW W, U \subseteq W, Near(U, c, i)
  PROVE  Near(W, c, i)
  BY DEF Near

(* What is known stays known while addresses are used and new coins come.     *)
LEMMA JobStays ==
  ASSUME NEW r \in JobRecords, NEW U, NEW W, NEW K, NEW L, NEW n \in Nat, NEW m \in Nat,
         JobInv(r, U, K, n), n <= m, U \subseteq W, \A k \in L : k \in K \/ k.id >= n
  PROVE  JobInv(r, W, L, m)
  <1>1. \A t \in r.taken : t < n /\ t < m /\ t \in Nat
    BY DEF JobInv, JobRecords
  <1>2. Old(L, r) \subseteq Old(K, r)
    BY <1>1 DEF Old
  <1>3. \A c \in Chains : r.hi[c + 1] + 1 \in Nat /\ Linked(W, c, r.hi[c + 1] + 1)
    BY NearStays DEF JobInv, Linked
  <1>4. r.at = "scan" => Scanning(r, W, L)
    BY <1>2 DEF JobInv, Scanning
  <1>5. r.at = "found" => \A k \in Old(L, r) : k.id \in r.found
    BY <1>2 DEF JobInv
  <1>6. QED
    BY <1>1, <1>3, <1>4, <1>5 DEF JobInv

(* From a coin beyond a window's start, steps of at most a gap lead down into  *)
(* the window.                                                               *)
LEMMA WindowSees ==
  ASSUME AccountTypeOK, NothingOutOfReach, NEW c \in Chains, NEW base \in Nat,
         NEW i \in Nat, i >= base, <<c, i>> \in used
  PROVE  \E m \in base..(base + Gap - 1) : <<c, m>> \in used
  <1> DEFINE T == {n \in Nat : n >= base /\ <<c, n>> \in used}
  <1>1. i \in T
    OBVIOUS
  <1>2. PICK m \in T : \A n \in T : m <= n
    BY <1>1, SmallestNat
  <1>3. CASE m < base + Gap
    BY <1>2, <1>3, GapAssumption
  <1>4. CASE m >= base + Gap
    <2>1. Gap \in Nat /\ Gap > 0 /\ <<c, m>>[1] = c /\ <<c, m>>[2] = m /\ m >= Gap
      BY <1>4, GapAssumption
    <2>2. PICK b \in used : b[1] = c /\ b[2] \in (m - Gap)..(m - 1)
      BY <1>2, <2>1 DEF NothingOutOfReach
    <2>3. b = <<c, b[2]>> /\ b[2] \in Nat
      BY <2>2 DEF AccountTypeOK, Places
    <2>4. b[2] \in T /\ b[2] < m
      BY <1>4, <2>1, <2>2, <2>3
    <2>5. QED
      BY <1>2, <2>4
  <1>5. QED
    BY <1>3, <1>4, GapAssumption

\* What is known of q, the discovery r at the start of its window from base on.
Starts(q, r, base) ==
    /\ q \in JobRecords
    /\ q.at = r.at /\ q.chain = r.chain /\ q.base = base /\ q.found = r.found
    /\ q.taken = r.taken /\ q.hi = r.hi
    /\ q.was.used \subseteq used \cap WindowAt(r.chain, base)
    /\ \A k \in q.was.coins : k.at \in used
    /\ \A k \in unspent :
          /\ k.at[1] = r.chain /\ k.at[2] >= base => q.was.used # {}
          /\ k.at \in WindowAt(r.chain, base) => k \in q.was.coins

(* A window at its start.                                                     *)
LEMMA OpenedIs ==
  ASSUME AccountTypeOK, CoinsAreOfUsed, NothingOutOfReach,
         NEW r \in JobRecords, NEW base \in Nat, NEW q, q = Opened(r, base)
  PROVE  Starts(q, r, base)
  <1> DEFINE w == WindowAt(r.chain, base)
             u == used \cap w
             o == {k \in unspent : k.at \in w}
  <1>1. q = [r EXCEPT !.base = base, !.was = [used |-> u, coins |-> o]]
    BY DEF Opened
  <1>2. u \subseteq Places /\ o \subseteq CoinRecords
    BY DEF AccountTypeOK
  <1>3. \A k \in unspent : k.at[1] = r.chain /\ k.at[2] >= base => u # {}
    <2>1. SUFFICES ASSUME NEW k \in unspent, k.at[1] = r.chain, k.at[2] >= base PROVE u # {}
      OBVIOUS
    <2>2. k.at = <<r.chain, k.at[2]>> /\ k.at[2] \in Nat /\ k.at \in used /\ r.chain \in Chains
      BY <2>1 DEF CoinsAreOfUsed, AccountTypeOK, CoinRecords, Places, JobRecords
    <2>3. PICK m \in base..(base + Gap - 1) : <<r.chain, m>> \in used
      BY <2>1, <2>2, WindowSees
    <2>4. <<r.chain, m>> \in w
      BY <2>3 DEF WindowAt
    <2>5. QED
      BY <2>3, <2>4
  <1>4. \A k \in o : k.at \in used
    BY DEF CoinsAreOfUsed
  <1> HIDE DEF w, u, o
  <1>5. q \in JobRecords
    <2> DEFINE first == [used |-> u, coins |-> o]
    <2>1. first \in FirstAnswers
      BY <1>2 DEF FirstAnswers
    <2>2. q = [r EXCEPT !.base = base, !.was = first]
      BY <1>1
    <2> HIDE DEF first
    <2>3. QED
      BY <2>1, <2>2 DEF JobRecords
  <1>6. /\ q.at = r.at /\ q.chain = r.chain /\ q.base = base /\ q.found = r.found
        /\ q.taken = r.taken /\ q.hi = r.hi /\ q.was.used = u /\ q.was.coins = o
    BY <1>1 DEF JobRecords
  <1>7. QED
    BY <1>3, <1>4, <1>5, <1>6 DEF w, u, o, Starts

\* The addresses a window's answers call used, and the coins they tell of.
Answers(j, late) == {a \in Batch(j) : UsedIn(j, late, a)}
SeenOf(j, late) == UNION {CoinsAt(IF a \in late THEN unspent ELSE job[j].was.coins, a) : a \in Answers(j, late)}

(* The answers for a window: all of them of used addresses, and the coins of   *)
(* the start that are still there among them; no hit, no coin further up.     *)
LEMMA AnswersAre ==
  ASSUME AccountInv, NEW j \in Discoveries, job[j].at = "scan", NEW late \in SUBSET Batch(j)
  PROVE  /\ Answers(j, late) \subseteq used \cap Batch(j)
         /\ SeenOf(j, late) \subseteq CoinRecords
         /\ \A k \in Old(unspent, job[j]) :
               k.at \in Batch(j) => k.at \in Answers(j, late) /\ k \in SeenOf(j, late)
         /\ job[j].was.used # {} => Answers(j, late) # {}
  <1> DEFINE r == job[j]
             From(a) == IF a \in late THEN unspent ELSE r.was.coins
  <1>1. r \in JobRecords /\ Scanning(r, used, unspent) /\ CoinsAreOfUsed /\ AccountTypeOK
    BY DEF AccountInv, AccountTypeOK, JobInv
  <1>2. r.was.coins \subseteq CoinRecords /\ unspent \subseteq CoinRecords
    BY <1>1 DEF JobRecords, FirstAnswers, AccountTypeOK
  <1>3. \A a : From(a) \subseteq CoinRecords /\ \A k \in From(a) : k.at \in used
    BY <1>1, <1>2 DEF Scanning, CoinsAreOfUsed
  <1>4. \A a : UsedIn(j, late, a) <=> a \in (IF a \in late THEN used ELSE r.was.used)
                                       \/ \E k \in From(a) : k.at = a
    BY DEF UsedIn, CoinsAt
  <1>5. \A a : UsedIn(j, late, a) => a \in used
    BY <1>1, <1>3, <1>4 DEF Scanning
  <1>6. SeenOf(j, late) = UNION {CoinsAt(From(a), a) : a \in Answers(j, late)}
    BY DEF SeenOf
  <1> HIDE DEF From
  <1>7. SeenOf(j, late) \subseteq CoinRecords
    BY <1>3, <1>6 DEF CoinsAt
  <1>8. ASSUME NEW k \in Old(unspent, r), k.at \in Batch(j)
        PROVE  k.at \in Answers(j, late) /\ k \in SeenOf(j, late)
    <2>1. k \in unspent /\ k \in r.was.coins
      BY <1>1, <1>8 DEF Scanning, Old, Batch
    <2>2. k \in From(k.at)
      BY <2>1 DEF From
    <2>3. k.at \in Answers(j, late)
      BY <1>4, <1>8, <2>2 DEF Answers
    <2>4. k \in CoinsAt(From(k.at), k.at)
      BY <2>2 DEF CoinsAt
    <2>5. QED
      BY <1>6, <2>3, <2>4
  <1>9. ASSUME r.was.used # {} PROVE Answers(j, late) # {}
    <2>1. PICK a \in r.was.used : TRUE
      BY <1>9
    <2>2. a \in used /\ a \in Batch(j)
      BY <1>1 DEF Scanning, Batch
    <2>3. UsedIn(j, late, a)
      BY <1>4, <2>1, <2>2
    <2>4. QED
      BY <2>2, <2>3 DEF Answers
  <1>10. QED
    BY <1>5, <1>7, <1>8, <1>9 DEF Answers

(* One discovery's step: the others are where they were.                      *)
LEMMA AlongTheOthers ==
  ASSUME AccountInv, NEW j \in Discoveries, NEW r \in JobRecords, Set(j, r), made' \in Nat,
         JobInv(r, used', unspent', made'), made <= made', used \subseteq used',
         \A k \in unspent' : k \in unspent \/ k.id >= made
  PROVE  job' \in [Discoveries -> JobRecords] /\ \A i \in Discoveries : JobInv(job'[i], used', unspent', made')
  <1>1. job \in [Discoveries -> JobRecords] /\ made \in Nat /\ \A i \in Discoveries : JobInv(job[i], used, unspent, made)
    BY DEF AccountInv, AccountTypeOK
  <1>2. job' = [job EXCEPT ![j] = r] /\ job' \in [Discoveries -> JobRecords]
    BY <1>1 DEF Set
  <1>3. ASSUME NEW i \in Discoveries PROVE JobInv(job'[i], used', unspent', made')
    <2>1. CASE i = j
      BY <1>1, <1>2, <2>1
    <2>2. CASE i # j
      <3>1. job'[i] = job[i] /\ job[i] \in JobRecords
        BY <1>1, <1>2, <2>2
      <3>2. JobInv(job[i], used', unspent', made')
        BY <1>1, <3>1, JobStays
      <3>3. QED
        BY <3>1, <3>2
    <2>3. QED
      BY <2>1, <2>2
  <1>4. QED
    BY <1>2, <1>3

(* A step of a discovery alone: nothing of the wallet moves.                  *)
LEMMA NothingMoves ==
  ASSUME AccountInv, NEW j \in Discoveries, NEW r \in JobRecords, Set(j, r),
         JobInv(r, used, unspent, made), UNCHANGED <<used, unspent, made>>,
         offeredUpTo' \in Nat, \A i \in 0..offeredUpTo' : Near(used, Receive, i)
  PROVE  AccountInv'
  <1>1. made \in Nat /\ AccountTypeOK
    BY DEF AccountInv, AccountTypeOK
  <1>2. job' \in [Discoveries -> JobRecords] /\ \A i \in Discoveries : JobInv(job'[i], used', unspent', made')
    BY <1>1, AlongTheOthers
  <1>3. AccountTypeOK'
    BY <1>1, <1>2 DEF AccountTypeOK
  <1>4. CoinsAreOfUsed' /\ NothingOutOfReach'
    BY DEF AccountInv, CoinsAreOfUsed, NothingOutOfReach
  <1>5. QED
    BY <1>2, <1>3, <1>4 DEF AccountInv

(* A discovery that is not under way knows nothing to be wrong about.         *)
LEMMA IdleIs ==
  ASSUME NEW U, NEW K, NEW n, NEW r,
         r.at = "idle", r.hi = <<-1, -1>>, r.taken = {}
  PROVE  JobInv(r, U, K, n)
  <1>1. \A c \in Chains : r.hi[c + 1] + 1 = 0
    BY DEF Chains, Receive, Change
  <1>2. \A c \in Chains : Linked(U, c, 0)
    BY GapAssumption DEF Linked, Near
  <1>3. QED
    BY <1>1, <1>2 DEF JobInv

(* The wallet starts unused.                                                  *)
LEMMA InitOK ==
  ASSUME AccountInit
  PROVE  AccountInv
  <1>1. IdleJob \in JobRecords
    BY DEF IdleJob, JobRecords, FirstAnswers, Chains, Receive, Change
  <1>2. AccountTypeOK
    BY <1>1 DEF AccountInit, AccountTypeOK
  <1>3. \A j \in Discoveries : JobInv(job[j], used, unspent, made)
    BY IdleIs DEF AccountInit, IdleJob
  <1>4. CoinsAreOfUsed /\ NothingOutOfReach /\ \A i \in 0..offeredUpTo : Near(used, Receive, i)
    BY GapAssumption DEF AccountInit, CoinsAreOfUsed, NothingOutOfReach, Near
  <1>5. QED
    BY <1>2, <1>3, <1>4 DEF AccountInv

(* A discovery that fails starts again from nothing.                          *)
LEMMA FailsOK ==
  ASSUME AccountInv, NEW j \in Discoveries, DiscoveryFails(j)
  PROVE  AccountInv'
  <1> DEFINE r == [IdleJob EXCEPT !.runs = job[j].runs]
  <1>1. r \in JobRecords
    BY DEF AccountInv, AccountTypeOK, IdleJob, JobRecords, FirstAnswers, Chains, Receive, Change
  <1>2. JobInv(r, used, unspent, made)
    BY IdleIs DEF IdleJob
  <1>3. Set(j, r) /\ UNCHANGED <<used, unspent, made, offeredUpTo>>
    BY DEF DiscoveryFails
  <1> HIDE DEF r
  <1>4. QED
    BY <1>1, <1>2, <1>3, NothingMoves DEF AccountInv, AccountTypeOK

(* A payment is built from what a discovery found.                            *)
LEMMA BuildOK ==
  ASSUME AccountInv, NEW j \in Discoveries, Build(j)
  PROVE  AccountInv'
  <1>1. job[j] \in JobRecords /\ JobInv(job[j], used, unspent, made)
    BY DEF AccountInv, AccountTypeOK
  <1>2. PICK ins \in (SUBSET job[j].found) \ {{}} :
          Set(j, [job[j] EXCEPT !.at = "built", !.ins = ins, !.found = {}, !.taken = {}])
    BY DEF Build
  <1> DEFINE r == [job[j] EXCEPT !.at = "built", !.ins = ins, !.found = {}, !.taken = {}]
  <1>3. r \in JobRecords
    BY <1>1 DEF JobRecords
  <1>4. r.at = "built" /\ r.taken = {} /\ r.hi = job[j].hi
    BY <1>1 DEF JobRecords
  <1>5. Set(j, r)
    BY <1>2
  <1> HIDE DEF r
  <1>6. JobInv(r, used, unspent, made)
    BY <1>1, <1>4 DEF JobInv
  <1>7. QED
    BY <1>3, <1>5, <1>6, NothingMoves DEF AccountInv, AccountTypeOK, Build

(* The address that is shown next is within the gap.                          *)
LEMMA ShowOK ==
  ASSUME AccountInv, NEW j \in Discoveries, ShowNext(j)
  PROVE  AccountInv'
  <1> DEFINE r == [IdleJob EXCEPT !.runs = job[j].runs]
             n == Hi(j, Receive) + 1
  <1>1. r \in JobRecords
    BY DEF AccountInv, AccountTypeOK, IdleJob, JobRecords, FirstAnswers, Chains, Receive, Change
  <1>2. JobInv(r, used, unspent, made)
    BY IdleIs DEF IdleJob
  <1>3. Set(j, r) /\ UNCHANGED <<used, unspent, made>> /\ offeredUpTo' = Max({offeredUpTo, n})
    BY DEF ShowNext
  <1>4. n \in Nat /\ \A i \in 0..n : Near(used, Receive, i)
    BY DEF AccountInv, JobInv, Linked, Hi, Chains
  <1> HIDE DEF r, n
  <1>5. offeredUpTo \in Nat /\ \A i \in 0..offeredUpTo : Near(used, Receive, i)
    BY DEF AccountInv, AccountTypeOK
  <1>6. offeredUpTo' = offeredUpTo \/ offeredUpTo' = n
    <2>1. PICK top \in Nat : \A x \in {offeredUpTo, n} : x <= top
      <3>1. offeredUpTo <= offeredUpTo + n /\ n <= offeredUpTo + n /\ offeredUpTo + n \in Nat
        BY <1>4, <1>5
      <3>2. QED
        BY <3>1
    <2>2. QED
      BY <1>3, <1>4, <1>5, <2>1, MaxIs
  <1>7. QED
    BY <1>1, <1>2, <1>3, <1>4, <1>5, <1>6, NothingMoves

(* A discovery starts with the first window of the receive chain.             *)
LEMMA DiscoverOK ==
  ASSUME AccountInv, NEW j \in Discoveries, Discover(j)
  PROVE  AccountInv'
  <1> DEFINE m == [IdleJob EXCEPT !.at = "scan", !.taken = CoinIds(unspent), !.runs = job[j].runs + 1]
             r == Opened(m, 0)
  <1>1. AccountTypeOK /\ CoinsAreOfUsed /\ NothingOutOfReach /\ job[j] \in JobRecords
    BY DEF AccountInv, AccountTypeOK
  <1>2. CoinIds(unspent) \subseteq Nat /\ \A t \in CoinIds(unspent) : t < made
    BY <1>1 DEF CoinIds, AccountTypeOK, CoinRecords, CoinsAreOfUsed
  <1>3. m \in JobRecords
    <2>1. IdleJob \in JobRecords
      BY DEF IdleJob, JobRecords, FirstAnswers, Chains, Receive, Change
    <2>2. job[j].runs + 1 \in Nat
      BY <1>1 DEF JobRecords
    <2>3. QED
      BY <1>2, <2>1, <2>2 DEF JobRecords
  <1>4. m.at = "scan" /\ m.chain = Receive /\ m.hi = <<-1, -1>> /\ m.taken = CoinIds(unspent)
    BY DEF IdleJob, Receive
  <1>5. Set(j, r) /\ UNCHANGED <<used, unspent, made, offeredUpTo>>
    BY DEF Discover
  <1> HIDE DEF m
  <1>6. /\ r \in JobRecords
        /\ r.at = "scan" /\ r.chain = Receive /\ r.base = 0 /\ r.taken = CoinIds(unspent)
        /\ r.hi = <<-1, -1>>
        /\ r.was.used \subseteq used \cap WindowAt(Receive, 0)
        /\ \A k \in r.was.coins : k.at \in used
        /\ \A k \in unspent : /\ k.at[1] = Receive /\ k.at[2] >= 0 => r.was.used # {}
                              /\ k.at \in WindowAt(Receive, 0) => k \in r.was.coins
    <2>1. r = Opened(m, 0) /\ 0 \in Nat
      OBVIOUS
    <2> HIDE DEF r
    <2>2. Starts(r, m, 0)
      BY <1>1, <1>3, <2>1, OpenedIs
    <2>3. QED
      BY <1>4, <2>2 DEF Starts
  <1> HIDE DEF r
  <1>7. Scanning(r, used, unspent)
    <2>1. \A k \in Old(unspent, r) : k \in unspent /\ k.at[2] \in Nat
      BY <1>1 DEF Old, AccountTypeOK, CoinRecords, Places
    <2>2. r.hi[r.chain + 1] + 1 = 0 /\ r.hi[Change + 1] = -1
      BY <1>6 DEF Receive, Change
    <2>3. QED
      BY <1>6, <2>1, <2>2 DEF Scanning, Receive, Change
  <1>8. \A c \in Chains : r.hi[c + 1] + 1 = 0
    BY <1>6 DEF Chains, Receive, Change
  <1>9. \A c \in Chains : Linked(used, c, 0)
    BY GapAssumption DEF Linked, Near
  <1>10. JobInv(r, used, unspent, made)
    BY <1>2, <1>6, <1>7, <1>8, <1>9 DEF JobInv
  <1>11. QED
    BY <1>5, <1>6, <1>10, NothingMoves DEF AccountInv, AccountTypeOK

(* The highest of a window's hits: the chain is linked up to the next window.  *)
LEMMA TopIs ==
  ASSUME NEW c \in Chains, NEW base \in Nat, Linked(used, c, base),
         NEW hits, hits \subseteq used \cap WindowAt(c, base), hits # {},
         NEW top, top = Max({a[2] : a \in hits})
  PROVE  top \in base..(base + Gap - 1) /\ Linked(used, c, top + 1)
  <1> DEFINE S == {a[2] : a \in hits}
  <1>1. \A a \in hits : a \in used /\ a[2] \in base..(base + Gap - 1) /\ a = <<c, a[2]>>
    BY DEF WindowAt
  <1>2. S \subseteq Int /\ S # {} /\ base + Gap - 1 \in Int /\ \A x \in S : x <= base + Gap - 1
    BY <1>1, GapAssumption
  <1>3. top = Max(S)
    OBVIOUS
  <1>4. top \in S /\ \A x \in S : x <= top
    <2> HIDE DEF S
    <2> QED BY <1>2, <1>3, MaxIs
  <1>5. top \in base..(base + Gap - 1) /\ <<c, top>> \in used
    BY <1>1, <1>4
  <1>6. top \in Nat
    BY <1>5
  <1>7. ASSUME NEW i \in 0..(top + 1) PROVE Near(used, c, i)
    <2>1. CASE i <= base
      BY <2>1 DEF Linked
    <2>2. CASE i > base /\ i < base + Gap
      <3>1. SUFFICES ASSUME i >= Gap PROVE \E b \in used : b[1] = c /\ b[2] \in (i - Gap)..(i - 1)
        BY DEF Near
      <3>2. base # 0
        BY <2>2, <3>1, GapAssumption
      <3>3. <<c, base - 1>> \in used
        BY <3>2 DEF Linked
      <3>4. base - 1 \in (i - Gap)..(i - 1)
        BY <2>2, GapAssumption
      <3>5. QED
        BY <3>3, <3>4
    <2>3. CASE i >= base + Gap
      <3>1. top = i - 1 /\ top \in (i - Gap)..(i - 1)
        BY <1>5, <2>3, GapAssumption
      <3>2. QED
        BY <1>5, <3>1 DEF Near
    <2>4. QED
      BY <2>1, <2>2, <2>3, GapAssumption
  <1>8. Linked(used, c, top + 1)
    <2>1. (top + 1) - 1 = top
      BY <1>6
    <2>2. <<c, (top + 1) - 1>> \in used
      BY <1>5, <2>1
    <2>3. QED
      BY <1>7, <2>2 DEF Linked
  <1>9. QED
    BY <1>5, <1>8

Raised(h, c, top) == [h EXCEPT ![c + 1] = top]
(* The highest indices, one of them raised.                                   *)
LEMMA RaisedType ==
  ASSUME NEW c, NEW h \in [1..2 -> Int], NEW top \in Nat
  PROVE  Raised(h, c, top) \in [1..2 -> Int]
  <1>1. Raised(h, c, top) = [n \in 1..2 |-> IF n = c + 1 THEN top ELSE h[n]]
    BY DEF Raised
  <1>2. \A n \in 1..2 : (IF n = c + 1 THEN top ELSE h[n]) \in Int
    OBVIOUS
  <1>3. QED
    BY <1>1, <1>2

MovedOnly(g, h, c, top) == g[c + 1] = top /\ \A d \in Chains : d # c => g[d + 1] = h[d + 1]
(* Only the index of its own chain is raised.                                 *)
LEMMA HiMoves ==
  ASSUME NEW c \in Chains, NEW h \in [1..2 -> Int], NEW top, NEW g, g = Raised(h, c, top)
  PROVE  MovedOnly(g, h, c, top)
  <1>1. c + 1 \in 1..2
    BY DEF Chains, Receive, Change
  <1>2. g[c + 1] = top /\ \A n \in 1..2 : n # c + 1 => g[n] = h[n]
    BY <1>1 DEF Raised
  <1>3. \A d \in Chains : d + 1 \in 1..2 /\ (d # c => d + 1 # c + 1)
    BY DEF Chains, Receive, Change
  <1>4. QED
    BY <1>2, <1>3 DEF MovedOnly

(* Where a discovery goes after a window with a hit: o is what it knew, m with *)
(* the window's answers.                                                     *)
LEMMA HitOK ==
  ASSUME AccountTypeOK, CoinsAreOfUsed, NothingOutOfReach,
         NEW o \in JobRecords, JobInv(o, used, unspent, made), o.at = "scan",
         NEW hits, hits \subseteq used \cap WindowAt(o.chain, o.base), hits # {},
         NEW top, top = Max({a[2] : a \in hits}), NEW ids,
         \A k \in Old(unspent, o) : k.at \in WindowAt(o.chain, o.base) => k.id \in ids,
         NEW m \in JobRecords, m.at = "scan", m.chain = o.chain, m.found = o.found \cup ids,
         m.taken = o.taken, m.hi = Raised(o.hi, o.chain, top),
         NEW r, r = Opened(m, top + 1)
  PROVE  r \in JobRecords /\ JobInv(r, used, unspent, made)
  <1>1. Scanning(o, used, unspent)
    BY DEF JobInv
  <1>2. /\ o.chain \in Chains /\ o.base \in Nat /\ o.hi \in [1..2 -> Int] /\ o.found \subseteq Nat
        /\ o.base = o.hi[o.chain + 1] + 1
    BY <1>1 DEF JobRecords, Scanning
  <1>3. Linked(used, o.chain, o.base)
    BY <1>2 DEF JobInv
  <1>4. top \in o.base..(o.base + Gap - 1) /\ Linked(used, o.chain, top + 1)
    BY <1>2, <1>3, TopIs, Z3T(30)
  <1>5. top + 1 \in Nat
    BY <1>2, <1>4
  <1>6. o.chain + 1 \in 1..2
    BY <1>2 DEF Chains, Receive, Change
  <1>11. /\ r \in JobRecords
         /\ r.at = "scan" /\ r.chain = o.chain /\ r.base = top + 1
         /\ r.found = o.found \cup ids /\ r.taken = o.taken /\ r.hi = m.hi
         /\ r.was.used \subseteq used \cap WindowAt(o.chain, top + 1)
         /\ \A k \in r.was.coins : k.at \in used
         /\ \A k \in unspent : /\ k.at[1] = o.chain /\ k.at[2] >= top + 1 => r.was.used # {}
                               /\ k.at \in WindowAt(o.chain, top + 1) => k \in r.was.coins
    <2>1. Starts(r, m, top + 1)
      BY <1>5, OpenedIs
    <2>2. QED
      BY <2>1 DEF Starts
  <1>12. \A k \in Old(unspent, o) : k.at[1] = o.chain /\ k.at[2] < top + 1 => k.id \in r.found
    <2>1. SUFFICES ASSUME NEW k \in Old(unspent, o), k.at[1] = o.chain, k.at[2] < top + 1
                   PROVE  k.id \in r.found
      OBVIOUS
    <2>2. k.at = <<o.chain, k.at[2]>> /\ k.at[2] \in Nat
      BY <2>1 DEF Old, AccountTypeOK, CoinRecords, Places
    <2>3. CASE k.at[2] < o.base
      BY <1>1, <1>11, <2>1, <2>3 DEF Scanning
    <2>4. CASE k.at[2] >= o.base
      <3>1. k.at[2] \in o.base..(o.base + Gap - 1)
        BY <1>2, <1>4, <2>1, <2>2, <2>4, GapAssumption
      <3>2. k.at \in WindowAt(o.chain, o.base)
        BY <2>2, <3>1 DEF WindowAt
      <3>3. QED
        BY <1>11, <3>2
    <2>5. QED
      BY <1>2, <2>2, <2>3, <2>4
  <1>13. Old(unspent, r) = Old(unspent, o)
    BY <1>11 DEF Old
  <1>14. r.hi[o.chain + 1] = top /\ \A c \in Chains : c # o.chain => r.hi[c + 1] = o.hi[c + 1]
    <2>1. r.hi = Raised(o.hi, o.chain, top)
      BY <1>11
    <2>2. o.chain \in Chains /\ o.hi \in [1..2 -> Int]
      BY <1>2
    <2>3. MovedOnly(r.hi, o.hi, o.chain, top)
      BY <2>1, <2>2, HiMoves
    <2>4. QED
      BY <2>3 DEF MovedOnly
  <1>15. r.chain = Receive => r.hi[Change + 1] = -1
    <2>1. o.chain = Receive => Change \in Chains /\ Change # o.chain /\ o.hi[Change + 1] = -1
      BY <1>1 DEF Scanning, Chains, Receive, Change
    <2>2. QED
      BY <1>11, <1>14, <2>1
  <1>16. \A k \in Old(unspent, o) : k.at[1] = Receive /\ o.chain = Change => k.id \in r.found
    BY <1>1, <1>11 DEF Scanning
  <1>17. Scanning(r, used, unspent)
    BY <1>11, <1>12, <1>13, <1>14, <1>15, <1>16 DEF Scanning, Old
  <1>18. \A c \in Chains : r.hi[c + 1] + 1 \in Nat /\ Linked(used, c, r.hi[c + 1] + 1)
    <2>1. SUFFICES ASSUME NEW c \in Chains PROVE r.hi[c + 1] + 1 \in Nat /\ Linked(used, c, r.hi[c + 1] + 1)
      OBVIOUS
    <2>2. CASE c = o.chain
      BY <1>4, <1>5, <1>14, <2>2
    <2>3. CASE c # o.chain
      BY <1>14, <2>3 DEF JobInv
    <2>4. QED
      BY <2>2, <2>3
  <1>19. \A t \in r.taken : t < made
    BY <1>11 DEF JobInv
  <1>20. QED
    BY <1>11, <1>17, <1>18, <1>19 DEF JobInv

\* What a window's answers leave of a job: with hits, without, at the very end.
WithHits(o, top, ids) == [o EXCEPT !.found = o.found \cup ids, !.hi = Raised(o.hi, o.chain, top)]
Turned(o) == [o EXCEPT !.chain = Change]
Ended(o) == [o EXCEPT !.at = "found", !.was = IdleJob.was, !.chain = 0, !.base = 0]

(* A discovery that knows the answers of one more window.                     *)
LEMMA WithHitsIs ==
  ASSUME NEW o \in JobRecords, NEW top \in Nat, NEW ids \in SUBSET Nat, NEW m, m = WithHits(o, top, ids)
  PROVE  /\ m \in JobRecords /\ m.at = o.at /\ m.chain = o.chain /\ m.found = o.found \cup ids
         /\ m.taken = o.taken /\ m.hi = Raised(o.hi, o.chain, top)
  <1> DEFINE foundNow == o.found \cup ids
             tops == Raised(o.hi, o.chain, top)
  <1>1. foundNow \subseteq Nat /\ tops \in [1..2 -> Int]
    <2>1. o.hi \in [1..2 -> Int] /\ o.found \subseteq Nat
      BY DEF JobRecords
    <2>2. foundNow \subseteq Nat
      BY <2>1
    <2>3. tops \in [1..2 -> Int]
      BY <2>1, RaisedType
    <2>4. QED
      BY <2>2, <2>3
  <1>2. m = [o EXCEPT !.found = foundNow, !.hi = tops]
    BY DEF WithHits
  <1> HIDE DEF foundNow, tops
  <1>3. m \in JobRecords /\ m.at = o.at /\ m.chain = o.chain /\ m.found = foundNow /\ m.taken = o.taken /\ m.hi = tops
    BY <1>1, <1>2 DEF JobRecords
  <1>4. QED
    BY <1>3 DEF foundNow, tops

(* A discovery at its end keeps what it found.                                *)
LEMMA EndedIs ==
  ASSUME NEW o \in JobRecords, NEW r, r = Ended(o)
  PROVE  r \in JobRecords /\ r.at = "found" /\ r.found = o.found /\ r.taken = o.taken /\ r.hi = o.hi
  <1> DEFINE none == IdleJob.was
  <1>1. none \in FirstAnswers /\ 0 \in Chains
    BY DEF FirstAnswers, IdleJob, Chains, Receive
  <1>2. r = [o EXCEPT !.at = "found", !.was = none, !.chain = 0, !.base = 0]
    BY DEF Ended
  <1> HIDE DEF none
  <1>3. r \in JobRecords
    <2>1. r = [at |-> "found", chain |-> 0, base |-> 0, was |-> none, found |-> o.found,
               taken |-> o.taken, hi |-> o.hi, ins |-> o.ins, runs |-> o.runs]
      BY <1>2 DEF JobRecords
    <2>2. /\ o.found \in SUBSET Nat /\ o.taken \in SUBSET Nat /\ o.hi \in [1..2 -> Int]
          /\ o.ins \in SUBSET Nat /\ o.runs \in Nat
      BY DEF JobRecords
    <2>3. QED
      BY <1>1, <2>1, <2>2 DEF JobRecords
  <1>4. r.at = "found" /\ r.found = o.found /\ r.taken = o.taken /\ r.hi = o.hi
    BY <1>2 DEF JobRecords
  <1>5. QED
    BY <1>3, <1>4

(* Where it goes after a window without one.                                  *)
LEMMA MissOK ==
  ASSUME AccountTypeOK, CoinsAreOfUsed, NothingOutOfReach,
         NEW o \in JobRecords, JobInv(o, used, unspent, made), o.at = "scan", o.was.used = {},
         NEW r, r = IF o.chain = Receive THEN Opened(Turned(o), 0) ELSE Ended(o)
  PROVE  r \in JobRecords /\ JobInv(r, used, unspent, made)
  <1>1. Scanning(o, used, unspent) /\ o.chain \in Chains /\ o.base \in Nat
    BY DEF JobInv, JobRecords
  <1>2. \A k \in Old(unspent, o) : k.at[1] \in Chains /\ k.at[2] \in Nat
    BY DEF Old, AccountTypeOK, CoinRecords, Places
  <1>3. \A k \in Old(unspent, o) : k.at[1] = o.chain => k.id \in o.found
    <2>1. \A k \in Old(unspent, o) : k.at[1] = o.chain => k.at[2] < o.base
      BY <1>1, <1>2 DEF Scanning
    <2>2. QED
      BY <1>1, <2>1 DEF Scanning
  <1>4. CASE o.chain = Receive
    <2> DEFINE m == Turned(o)
    <2>1. /\ m \in JobRecords /\ m.at = "scan" /\ m.chain = Change /\ m.found = o.found
          /\ m.taken = o.taken /\ m.hi = o.hi
      BY DEF Turned, JobRecords, Chains
    <2>2. r = Opened(m, 0)
      BY <1>4
    <2> HIDE DEF m
    <2>3. Starts(r, m, 0)
      BY <2>1, <2>2, OpenedIs
    <2>4. /\ r \in JobRecords /\ r.at = "scan" /\ r.chain = Change /\ r.base = 0
          /\ r.found = o.found /\ r.taken = o.taken /\ r.hi = o.hi
          /\ r.was.used \subseteq used \cap WindowAt(Change, 0)
          /\ \A k \in r.was.coins : k.at \in used
          /\ \A k \in unspent : /\ k.at[1] = Change /\ k.at[2] >= 0 => r.was.used # {}
                                /\ k.at \in WindowAt(Change, 0) => k \in r.was.coins
      BY <2>1, <2>3 DEF Starts
    <2>5. r.hi[Change + 1] = -1 /\ r.hi[Change + 1] + 1 = 0
      BY <1>1, <1>4, <2>4 DEF Scanning
    <2>6. Old(unspent, r) = Old(unspent, o) /\ Old(unspent, o) \subseteq unspent
      BY <2>4 DEF Old
    <2>7. Scanning(r, used, unspent)
      BY <1>2, <1>3, <1>4, <2>4, <2>5, <2>6 DEF Scanning
    <2>8. QED
      BY <2>4, <2>6, <2>7 DEF JobInv
  <1>5. CASE o.chain = Change
    <2>1. r = Ended(o)
      BY <1>5 DEF Receive, Change
    <2>2. /\ r \in JobRecords /\ r.at = "found" /\ r.found = o.found /\ r.taken = o.taken /\ r.hi = o.hi
      BY <2>1, EndedIs
    <2>3. \A k \in Old(unspent, o) : k.id \in o.found
      BY <1>1, <1>2, <1>3, <1>5 DEF Scanning, Chains
    <2>4. QED
      BY <2>2, <2>3 DEF JobInv, Old
  <1>6. QED
    BY <1>1, <1>4, <1>5 DEF Chains

(* A window that was read, however its answers fell.                          *)
LEMMA WindowOK ==
  ASSUME AccountInv, NEW j \in Discoveries, WindowRead(j)
  PROVE  AccountInv'
  <1>1. PICK late \in SUBSET Batch(j) :
          IF Answers(j, late) # {}
          THEN Set(j, Opened([job[j] EXCEPT !.found = @ \cup CoinIds(SeenOf(j, late)),
                                            !.hi[job[j].chain + 1] = Max({a[2] : a \in Answers(j, late)})],
                             Max({a[2] : a \in Answers(j, late)}) + 1))
          ELSE IF job[j].chain = Receive
          THEN Set(j, Opened([job[j] EXCEPT !.chain = Change], 0))
          ELSE Set(j, [job[j] EXCEPT !.at = "found", !.was = IdleJob.was, !.chain = 0, !.base = 0])
    BY DEF WindowRead, Answers, SeenOf, NextBase
  <1>2. job[j].at = "scan" /\ UNCHANGED <<used, unspent, made, offeredUpTo>>
    BY DEF WindowRead
  <1>3. /\ Answers(j, late) \subseteq used \cap Batch(j)
        /\ SeenOf(j, late) \subseteq CoinRecords
        /\ \A k \in Old(unspent, job[j]) : k.at \in Batch(j) => k \in SeenOf(j, late)
        /\ job[j].was.used # {} => Answers(j, late) # {}
    BY <1>2, AnswersAre
  <1> DEFINE hits == Answers(j, late)
             top == Max({a[2] : a \in hits})
             ids == CoinIds(SeenOf(j, late))
             m == WithHits(job[j], top, ids)
  <1>4. job[j] \in JobRecords /\ JobInv(job[j], used, unspent, made)
    BY DEF AccountInv, AccountTypeOK
  <1>5. AccountTypeOK /\ CoinsAreOfUsed /\ NothingOutOfReach
    BY DEF AccountInv
  <1>6. ids \subseteq Nat /\ \A k \in Old(unspent, job[j]) : k.at \in Batch(j) => k.id \in ids
    BY <1>3 DEF CoinIds, CoinRecords
  <1>7. hits # {} => Set(j, Opened(m, top + 1))
    <2>1. m = [job[j] EXCEPT !.found = @ \cup ids, !.hi[job[j].chain + 1] = top]
      BY <1>4 DEF WithHits, Raised, JobRecords
    <2>2. QED
      BY <1>1, <2>1
  <1>8. hits = {} => Set(j, IF job[j].chain = Receive THEN Opened(Turned(job[j]), 0) ELSE Ended(job[j]))
    BY <1>1 DEF Turned, Ended
  <1>9. hits \subseteq used \cap WindowAt(job[j].chain, job[j].base) /\ top = Max({a[2] : a \in hits})
    BY <1>3 DEF Batch
  <1>10. \A k \in Old(unspent, job[j]) : k.at \in WindowAt(job[j].chain, job[j].base) => k.id \in ids
    BY <1>6 DEF Batch
  <1>11. hits = {} => job[j].was.used = {}
    BY <1>3
  <1> HIDE DEF hits, top, ids
  <1>12. \E r \in JobRecords : Set(j, r) /\ JobInv(r, used, unspent, made)
    <2>1. CASE hits = {}
      <3> DEFINE r == IF job[j].chain = Receive THEN Opened(Turned(job[j]), 0) ELSE Ended(job[j])
      <3>1. Set(j, r)
        BY <1>8, <2>1
      <3>2. r \in JobRecords /\ JobInv(r, used, unspent, made)
        BY <1>2, <1>4, <1>5, <1>11, <2>1, MissOK
      <3>3. QED
        BY <3>1, <3>2
    <2>2. CASE hits # {}
      <3>1. job[j].chain \in Chains /\ job[j].base \in Nat /\ Linked(used, job[j].chain, job[j].base)
        BY <1>2, <1>4 DEF JobRecords, JobInv, Scanning
      <3>2. top \in Nat
        BY <1>9, <2>2, <3>1, TopIs, Z3T(30), GapAssumption
      <3>3. /\ m \in JobRecords /\ m.at = "scan" /\ m.chain = job[j].chain /\ m.found = job[j].found \cup ids
            /\ m.taken = job[j].taken /\ m.hi = Raised(job[j].hi, job[j].chain, top)
        BY <1>2, <1>4, <1>6, <3>2, WithHitsIs
      <3> DEFINE r == Opened(m, top + 1)
      <3>4. Set(j, r)
        BY <1>7, <2>2
      <3> HIDE DEF m
      <3>5. r \in JobRecords /\ JobInv(r, used, unspent, made)
        BY <1>2, <1>4, <1>5, <1>9, <1>10, <2>2, <3>3, HitOK, Z3T(60)
      <3>6. QED
        BY <3>4, <3>5
    <2>3. QED
      BY <2>1, <2>2
  <1>13. QED
    BY <1>2, <1>12, NothingMoves DEF AccountInv, AccountTypeOK

(* A coin comes to an address of a chain at n, where a discovery looks: what   *)
(* is gone may be gone, the wallet is as it was elsewhere.                    *)
LEMMA CoinComes ==
  ASSUME AccountInv, NEW c \in Chains, NEW n \in Nat, Near(used, c, n),
         used' = used \cup {<<c, n>>}, made' = made + 1, offeredUpTo' = offeredUpTo,
         unspent' \subseteq unspent \cup {[at |-> <<c, n>>, id |-> made]}
  PROVE  /\ used' \subseteq Places /\ unspent' \subseteq CoinRecords /\ made' \in Nat /\ made <= made'
         /\ CoinsAreOfUsed' /\ NothingOutOfReach'
         /\ \A i \in 0..offeredUpTo' : Near(used', Receive, i)
         /\ \A k \in unspent' : k \in unspent \/ k.id >= made
  <1> DEFINE to == <<c, n>>
             new == [at |-> to, id |-> made]
  <1>1. to \in Places /\ to[1] = c /\ to[2] = n
    BY DEF Places
  <1>2. made \in Nat /\ used \subseteq Places /\ unspent \subseteq CoinRecords /\ offeredUpTo \in Nat
    BY DEF AccountInv, AccountTypeOK
  <1>3. new \in CoinRecords /\ new.at = to /\ new.id = made
    BY <1>1, <1>2 DEF CoinRecords
  <1>4. used' = used \cup {to} /\ unspent' \subseteq unspent \cup {new}
    OBVIOUS
  <1> HIDE DEF to, new
  <1>5. used' \subseteq Places /\ unspent' \subseteq CoinRecords /\ made' \in Nat /\ made <= made'
    BY <1>1, <1>2, <1>3, <1>4
  <1>6. \A k \in unspent' : k \in unspent \/ k.id >= made
    BY <1>2, <1>3, <1>4
  <1>7. CoinsAreOfUsed'
    <2>1. SUFFICES ASSUME NEW k \in unspent' PROVE k.at \in used' /\ k.id < made'
      BY DEF CoinsAreOfUsed
    <2>2. CASE k = new
      BY <1>2, <1>3, <1>4, <2>2
    <2>3. CASE k \in unspent
      <3>1. k.at \in used /\ k.id < made /\ k.id \in Nat
        BY <1>2, <2>3 DEF AccountInv, CoinsAreOfUsed, CoinRecords
      <3>2. QED
        BY <1>2, <1>4, <3>1
    <2>4. QED
      BY <1>4, <2>2, <2>3
  <1>8. NothingOutOfReach'
    <2>1. SUFFICES ASSUME NEW a \in used', a[2] >= Gap
                   PROVE  \E b \in used' : b[1] = a[1] /\ b[2] \in (a[2] - Gap)..(a[2] - 1)
      BY DEF NothingOutOfReach
    <2>2. CASE a = to
      BY <1>1, <1>4, <2>1, <2>2 DEF Near
    <2>3. CASE a \in used
      BY <1>4, <2>1, <2>3 DEF AccountInv, NothingOutOfReach
    <2>4. QED
      BY <1>4, <2>2, <2>3
  <1>9. \A i \in 0..offeredUpTo' : Near(used', Receive, i)
    BY <1>4, NearStays DEF AccountInv
  <1>10. QED
    BY <1>5, <1>6, <1>7, <1>8, <1>9

(* A payment comes in at an address that was shown.                           *)
LEMMA PayInOK ==
  ASSUME AccountInv, NEW i \in 0..MaxIndex, i \in Nat, PayIn(i)
  PROVE  AccountInv'
  <1>1. Near(used, Receive, i) /\ Receive \in Chains
    BY DEF PayIn, AccountInv, AccountTypeOK, Chains
  <1>2. /\ used' = used \cup {<<Receive, i>>} /\ made' = made + 1 /\ offeredUpTo' = offeredUpTo /\ job' = job
        /\ unspent' \subseteq unspent \cup {[at |-> <<Receive, i>>, id |-> made]}
    BY DEF PayIn
  <1>3. /\ used' \subseteq Places /\ unspent' \subseteq CoinRecords /\ made' \in Nat /\ made <= made'
        /\ CoinsAreOfUsed' /\ NothingOutOfReach'
        /\ \A n \in 0..offeredUpTo' : Near(used', Receive, n)
        /\ \A k \in unspent' : k \in unspent \/ k.id >= made
    BY <1>1, <1>2, CoinComes
  <1>4. AccountTypeOK'
    BY <1>2, <1>3 DEF AccountInv, AccountTypeOK
  <1>5. ASSUME NEW j \in Discoveries PROVE JobInv(job'[j], used', unspent', made')
    <2>1. job'[j] = job[j] /\ job[j] \in JobRecords /\ JobInv(job[j], used, unspent, made)
      BY <1>2 DEF AccountInv, AccountTypeOK
    <2>2. made \in Nat /\ used \subseteq used'
      BY <1>2 DEF AccountInv, AccountTypeOK
    <2>3. JobInv(job[j], used', unspent', made')
      BY <1>3, <2>1, <2>2, JobStays
    <2>4. QED
      BY <2>1, <2>3
  <1>6. QED
    BY <1>3, <1>4, <1>5 DEF AccountInv

(* A payment goes out, its change to the next address of its discovery.       *)
LEMMA SendOK ==
  ASSUME AccountInv, NEW j \in Discoveries, NEW change \in BOOLEAN, SendBuilt(j, change)
  PROVE  AccountInv'
  <1> DEFINE r == [IdleJob EXCEPT !.runs = job[j].runs]
             n == job[j].hi[Change + 1] + 1
  <1>1. r \in JobRecords
    BY DEF AccountInv, AccountTypeOK, IdleJob, JobRecords, FirstAnswers, Chains, Receive, Change
  <1>2. JobInv(r, used', unspent', made')
    BY IdleIs DEF IdleJob
  <1>3. Set(j, r) /\ offeredUpTo' = offeredUpTo
    BY DEF SendBuilt
  <1>4. Change \in Chains /\ n \in Nat /\ Near(used, Change, n)
    <2>1. Change \in Chains /\ JobInv(job[j], used, unspent, made)
      BY DEF AccountInv, Chains
    <2>2. n \in Nat /\ Linked(used, Change, n)
      BY <2>1 DEF JobInv
    <2> HIDE DEF n
    <2>3. n \in 0..n
      BY <2>2
    <2>4. QED
      BY <2>1, <2>2, <2>3 DEF Linked
  <1>5. /\ made \in Nat /\ used \subseteq Places /\ unspent \subseteq CoinRecords /\ offeredUpTo \in Nat
        /\ CoinsAreOfUsed /\ NothingOutOfReach /\ \A i \in 0..offeredUpTo : Near(used, Receive, i)
    BY DEF AccountInv, AccountTypeOK
  <1>6. CASE change
    <2>1. /\ used' = used \cup {<<Change, n>>} /\ made' = made + 1
          /\ unspent' \subseteq unspent \cup {[at |-> <<Change, n>>, id |-> made]}
      BY <1>6 DEF SendBuilt, NextChange, Hi
    <2> HIDE DEF r, n
    <2>2. /\ used' \subseteq Places /\ unspent' \subseteq CoinRecords /\ made' \in Nat /\ made <= made'
          /\ CoinsAreOfUsed' /\ NothingOutOfReach'
          /\ \A i \in 0..offeredUpTo' : Near(used', Receive, i)
          /\ \A k \in unspent' : k \in unspent \/ k.id >= made
      BY <1>3, <1>4, <2>1, CoinComes
    <2>3. job' \in [Discoveries -> JobRecords] /\ \A i \in Discoveries : JobInv(job'[i], used', unspent', made')
      BY <1>1, <1>2, <1>3, <2>1, <2>2, AlongTheOthers
    <2>4. AccountTypeOK'
      BY <1>3, <1>5, <2>2, <2>3 DEF AccountTypeOK
    <2>5. QED
      BY <2>2, <2>3, <2>4 DEF AccountInv
  <1>7. CASE ~change
    <2>1. used' = used /\ made' = made /\ unspent' \subseteq unspent
      BY <1>7 DEF SendBuilt
    <2> HIDE DEF r, n
    <2>2. job' \in [Discoveries -> JobRecords] /\ \A i \in Discoveries : JobInv(job'[i], used', unspent', made')
      BY <1>1, <1>2, <1>3, <1>5, <2>1, AlongTheOthers
    <2>3. AccountTypeOK'
      BY <1>3, <1>5, <2>1, <2>2 DEF AccountTypeOK
    <2>4. CoinsAreOfUsed' /\ NothingOutOfReach' /\ \A i \in 0..offeredUpTo' : Near(used', Receive, i)
      BY <1>3, <1>5, <2>1 DEF CoinsAreOfUsed, NothingOutOfReach
    <2>5. QED
      BY <2>2, <2>3, <2>4 DEF AccountInv
  <1>8. QED
    BY <1>6, <1>7

(* Each step keeps the invariant of the account.                              *)
LEMMA StepOK ==
  ASSUME AccountInv, [AccountNext]_accountVars
  PROVE  AccountInv'
  <1>1. CASE UNCHANGED accountVars
    BY <1>1 DEF accountVars, AccountInv, AccountTypeOK, CoinsAreOfUsed, NothingOutOfReach
  <1>2. CASE \E i \in 0..MaxIndex : PayIn(i)
    <2>1. PICK i \in 0..MaxIndex : PayIn(i)
      BY <1>2
    <2>2. i \in Int /\ 0 <= i
      OBVIOUS
    <2>3. QED
      BY <2>1, <2>2, PayInOK
  <1>3. ASSUME NEW j \in Discoveries,
               \/ Discover(j) \/ WindowRead(j) \/ DiscoveryFails(j) \/ ShowNext(j) \/ Build(j)
               \/ \E change \in BOOLEAN : SendBuilt(j, change)
        PROVE  AccountInv'
    BY <1>3, DiscoverOK, WindowOK, FailsOK, ShowOK, BuildOK, SendOK
  <1>4. QED
    BY <1>1, <1>2, <1>3 DEF AccountNext

(* What the invariant says at the end of a discovery.                         *)
LEMMA FindsFollows ==
  ASSUME AccountInv
  PROVE  DiscoveryFinds
  <1>1. ASSUME NEW j \in Discoveries, job[j].at = "found" PROVE CoinIds(unspent) \cap job[j].taken \subseteq job[j].found
    BY <1>1 DEF AccountInv, JobInv, Old, CoinIds
  <1>2. QED
    BY <1>1 DEF AccountInv, DiscoveryFinds, EveryCoinFound

(* A discovery from the recovery phrase finds every coin that stays, and no   *)
(* address in use is ever past a gap, for any gap, any number of discoveries and *)
(* payments and any order of the answers (discoverAccount, prepareSendHD in send.js). *)
THEOREM WalletIsFound ==
  AccountSpec => []DiscoveryFinds
  <1>1. AccountInit => AccountInv
    BY InitOK
  <1>2. AccountInv /\ [AccountNext]_accountVars => AccountInv'
    BY StepOK
  <1>3. AccountInv => DiscoveryFinds
    BY FindsFollows
  <1>4. QED
    BY <1>1, <1>2, <1>3, PTL DEF AccountSpec

(***************************************************************************)
(* The pages together.                                                     *)
(***************************************************************************)
(* What is signed or sent is what was confirmed, on every page.               *)
THEOREM WhatIsSignedWasShown == SignerSpec /\ PaySpec /\ FlowsSpec => []SignedWasShown
  <1>1. CardsAreLive /\ (SheetIsOfShownNetwork /\ OnePaymentAtATime) /\ (SentWasShown /\ NextKeyIsFresh)
          => SignedWasShown
    BY DEF SignedWasShown
  <1>2. QED
    BY <1>1, CardsLive, PaymentsSound, FlowsSound, PTL

(* A late answer is not taken for another's: the mainnet page's coins, the testnet *)
(* page's address, its balances unless a choice straddled a lookup, and prices. *)
THEOREM LateAnswersAreTold == ScreenSpec /\ AccountsSpec /\ PriceSpec => []AnswersAreOfAsked
  <1>1. (ScreenIsOfShown /\ TickedAreDrawn) /\ (AddressIsOfAccount /\ BalancesAreOfShownUnlessStraddled)
        /\ PricesWereRecent => AnswersAreOfAsked
    BY DEF AnswersAreOfAsked
  <1>2. QED
    BY <1>1, ScreenSound, AccountsSound, PricesRecent, PTL

(* An open wallet has a file, and its password gets back what the file was     *)
(* made of.                                                                  *)
THEOREM WalletsCanBeReopened == PageSpec /\ LockedSpec => []OpenWalletHasItsFile
  <1>1. OpenHasItsFile /\ PasswordGetsTheSecret => OpenWalletHasItsFile
    BY DEF OpenWalletHasItsFile
  <1>2. QED
    BY <1>1, WalletsHaveFiles, PasswordsGetSecrets, PTL
===============================================================================
