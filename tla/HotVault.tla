------------------------------ MODULE HotVault ------------------------------
(***************************************************************************)
(* Opening and keeping a wallet in the testnet wallet's page (web/ui.js, with *)
(* vault.js): the create wizard, imports, the seed saved in the browser under *)
(* a PIN or passphrase, the unlock screen and the backup viewer.  The page    *)
(* waits 30 ms before each slow key derivation, so that its message is        *)
(* painted; a click can fall into that wait.                                 *)
(***************************************************************************)
EXTENDS Naturals

CONSTANTS
    VaultSeeds,   \* wallets
    NoSeed        \* the empty string

VARIABLES
    vNet,         \* network: "practice" or "mainnet", which share the seed
    vPane,        \* the pane shown
    wiz,          \* wizMnemonic
    source,       \* the wallet open, or NoSeed
    watch,        \* mode: an xpub, without its seed
    vault,        \* what the browser keeps: [seed, secret], or NoSeed
    locked,       \* the unlock screen covers the page
    armed,        \* forget was pressed once
    pinSheet,     \* [for, strict, first], or NoSeed
    waits,        \* handlers in their 30 ms
    clicked,      \* bound: a click already fell into this wait
    backup,       \* the backup viewer: "closed", or open with its "pin" or "hold" gate
    words         \* the words filled into it, or NoSeed
vaultVars == <<vNet, vPane, wiz, source, watch, vault, locked, armed, pinSheet, waits, clicked,
               backup, words>>
walletVars == <<wiz, source, watch>>
viewVars == <<backup, words>>

Secrets == {"pin", "phrase"}                           \* only the phrase meetsMainnetBar
Strong(secret) == secret = "phrase"
WalletPanes == {"home", "send"}
Panes == WalletPanes \cup {"welcome", "create1", "create2", "create3", "create4", "import", "settings"}

(* A click on the page: nothing covers it, and one at most during a wait.    *)
Click ==
    /\ pinSheet = NoSeed /\ ~locked
    /\ ~clicked
    /\ clicked' = (waits # {})
Wait(for, secret) == waits' = waits \cup {[for |-> for, secret |-> secret]}
Done(w) ==
    /\ waits' = waits \ {w}
    /\ clicked' = (clicked /\ waits' # {})

\* Mutant: only the pane changes, and the viewer stays as it was.
ShowPaneOnly(p, src) ==
    /\ vPane' = IF src = NoSeed /\ p \in WalletPanes THEN "welcome" ELSE p
    /\ UNCHANGED viewVars
(* showPane never leaves the words on the screen.                            *)
ShowPane(p, src) ==
    /\ vPane' = IF src = NoSeed /\ p \in WalletPanes THEN "welcome" ELSE p
    /\ backup' = "closed" /\ words' = NoSeed
Open(seed, isXpub) ==                                  \* and initWallet
    /\ source' = seed /\ watch' = isXpub
    /\ ShowPane("home", seed)

Navigate(p) ==
    /\ Click
    /\ p \in WalletPanes \cup {"settings", "welcome", "import", "create1"}
    /\ p \in {"welcome", "import", "create1"} => vPane \in {"welcome", "import", "create1"}
    /\ ShowPane(p, source)
    /\ UNCHANGED <<vNet, walletVars, vault, locked, armed, pinSheet, waits>>
SwitchNetwork ==
    /\ Click
    /\ vNet' = IF vNet = "mainnet" THEN "practice" ELSE "mainnet"
    /\ IF source # NoSeed THEN ShowPane("home", source) ELSE UNCHANGED <<vPane, viewVars>>
    /\ UNCHANGED <<walletVars, vault, locked, armed, pinSheet, waits>>

(***************************************************************************)
(* The wizard: generate, write down, the quiz, then save or skip.            *)
(***************************************************************************)
Generate ==
    /\ Click /\ vPane = "create1"
    /\ wiz' \in VaultSeeds
    /\ ShowPane("create2", source)
    /\ UNCHANGED <<vNet, source, watch, vault, locked, armed, pinSheet, waits>>
BackToGenerate ==
    /\ Click /\ vPane = "create2"
    /\ wiz' = NoSeed
    /\ ShowPane("create1", source)
    /\ UNCHANGED <<vNet, source, watch, vault, locked, armed, pinSheet, waits>>
WizardStep(from, to) ==
    /\ Click /\ vPane = from
    /\ ShowPane(to, source)
    /\ UNCHANGED <<vNet, walletVars, vault, locked, armed, pinSheet, waits>>
Wizard ==
    \/ WizardStep("create2", "create3")                \* written down
    \/ WizardStep("create3", "create2")
    \/ WizardStep("create3", "create4")                \* the quiz is right
OpenCreated == wiz' = NoSeed /\ Open(wiz, FALSE)
Skip ==
    /\ Click /\ vPane = "create4"
    /\ OpenCreated
    /\ UNCHANGED <<vNet, vault, locked, armed, pinSheet, waits>>

Import(seed, isXpub) ==                                \* loadFromInput
    /\ Click /\ vPane = "import"
    /\ Open(seed, isXpub)
    /\ UNCHANGED <<vNet, wiz, vault, locked, armed, pinSheet, waits>>
ImportFile ==                                          \* a cold generator's backup file
    /\ Click /\ vPane = "import"
    /\ Wait("file", "phrase")
    /\ UNCHANGED <<vNet, vPane, walletVars, vault, locked, armed, pinSheet, viewVars>>
FileOpened(w) ==                                       \* or it asks for its passphrase, or fails
    /\ w.for = "file"
    /\ Done(w)
    /\ \/ \E seed \in VaultSeeds : Open(seed, FALSE) /\ UNCHANGED wiz
       \/ UNCHANGED <<vPane, walletVars, viewVars>>
    /\ UNCHANGED <<vNet, vault, locked, armed, pinSheet>>
SwitchWallet ==                                        \* "Switch wallet?", confirmed
    /\ Click /\ vPane = "settings"
    /\ source' = NoSeed /\ watch' = FALSE
    /\ ShowPane("welcome", NoSeed)
    /\ UNCHANGED <<vNet, wiz, vault, locked, armed, pinSheet, waits>>

(***************************************************************************)
(* The set-a-PIN sheet: typed twice; for mainnet a weak secret is refused at  *)
(* the first entry.                                                          *)
(***************************************************************************)
AskPin(for) ==
    /\ Click
    /\ \/ for = "create" /\ vPane = "create4"
       \/ for = "keep" /\ vPane = "settings" /\ source # NoSeed /\ ~watch
    /\ pinSheet' = [for |-> for, strict |-> vNet = "mainnet", first |-> NoSeed]
    /\ UNCHANGED <<vNet, vPane, walletVars, vault, locked, armed, waits, viewVars>>
PinEntry(secret) ==
    /\ pinSheet # NoSeed
    /\ LET p == pinSheet
       IN  \/ /\ p.first = NoSeed
              /\ p.strict => Strong(secret)
              /\ pinSheet' = [p EXCEPT !.first = secret]
              /\ UNCHANGED waits
           \/ /\ p.first \notin {NoSeed, secret}       \* they did not match
              /\ pinSheet' = [p EXCEPT !.first = NoSeed]
              /\ UNCHANGED waits
           \/ /\ p.first = secret
              /\ pinSheet' = NoSeed
              /\ Wait(p.for, secret)
    /\ UNCHANGED <<vNet, vPane, walletVars, vault, locked, armed, clicked, viewVars>>
PinCancel ==
    /\ pinSheet # NoSeed
    /\ pinSheet' = NoSeed
    /\ UNCHANGED <<vNet, vPane, walletVars, vault, locked, armed, waits, clicked, viewVars>>

(* vault.save on mainnet requires a strong secret, whatever the sheet asked.  *)
Seals(secret) == vNet = "mainnet" => Strong(secret)

(* The wallet, the words and the network are read after the wait.            *)
Save(w) ==
    /\ w.for \in {"create", "keep"}
    /\ Done(w)
    /\ LET seed == IF w.for = "create" THEN wiz ELSE source
       IN  IF Seals(w.secret)
           THEN /\ vault' = [seed |-> seed, secret |-> w.secret]
                /\ IF w.for = "create" THEN OpenCreated
                   ELSE UNCHANGED <<vPane, walletVars, viewVars>>
           ELSE UNCHANGED <<vault, vPane, walletVars, viewVars>>
    /\ UNCHANGED <<vNet, locked, armed, pinSheet>>

(***************************************************************************)
(* Forgetting takes two presses, on the unlock screen or in the settings.     *)
(***************************************************************************)
Forget ==
    /\ pinSheet = NoSeed /\ ~clicked
    /\ locked \/ vPane = "settings"
    /\ clicked' = (waits # {})
    /\ armed' = ~armed
    /\ IF armed
       THEN /\ vault' = NoSeed /\ locked' = FALSE
            /\ IF source = NoSeed THEN ShowPane("welcome", source) ELSE UNCHANGED <<vPane, viewVars>>
       ELSE UNCHANGED <<vault, locked, vPane, viewVars>>
    /\ UNCHANGED <<vNet, walletVars, pinSheet, waits>>

Unlock(secret) ==
    /\ locked
    /\ \A w \in waits : w.for # "unlock"               \* unlocking
    /\ Wait("unlock", secret)
    /\ UNCHANGED <<vNet, vPane, walletVars, vault, locked, armed, pinSheet, clicked, viewVars>>
Unseals(secret) == vault # NoSeed /\ vault.secret = secret
Unlocked(w) ==
    /\ w.for = "unlock"
    /\ Done(w)
    /\ IF Unseals(w.secret)
       THEN Open(vault.seed, FALSE) /\ locked' = FALSE /\ UNCHANGED wiz
       ELSE UNCHANGED <<vPane, walletVars, viewVars, locked>>
    /\ UNCHANGED <<vNet, vault, armed, pinSheet>>
\* Mutant: the lock screen is shown over the page, whose handlers go on.
LockInPlace ==
    /\ Click
    /\ source # NoSeed
    /\ vPane' = "welcome" /\ wiz' = NoSeed /\ source' = NoSeed /\ watch' = FALSE
    /\ vNet' = "practice" /\ armed' = FALSE
    /\ backup' = "closed" /\ words' = NoSeed
    /\ locked' = (vault # NoSeed)
    /\ UNCHANGED <<vault, pinSheet, waits>>
(* The page is loaded anew: its handlers end, only what the browser keeps stays. *)
Lock ==                                                \* location.reload()
    /\ Click
    /\ source # NoSeed
    /\ vPane' = "welcome" /\ wiz' = NoSeed /\ source' = NoSeed /\ watch' = FALSE
    /\ vNet' = "practice" /\ waits' = {} /\ armed' = FALSE
    /\ backup' = "closed" /\ words' = NoSeed
    /\ locked' = (vault # NoSeed)
    /\ UNCHANGED <<vault, pinSheet>>

(***************************************************************************)
(* The backup viewer, behind the PIN if a wallet is saved, else behind a      *)
(* press held for 1.5 s.                                                     *)
(***************************************************************************)
ToggleBackup ==
    /\ Click /\ vPane = "settings"
    /\ ~watch /\ source # NoSeed
    /\ backup' = IF backup # "closed" THEN "closed" ELSE IF vault # NoSeed THEN "pin" ELSE "hold"
    /\ words' = IF backup # "closed" THEN NoSeed ELSE words
    /\ UNCHANGED <<vNet, vPane, walletVars, vault, locked, armed, pinSheet, waits>>
Reveal(secret) ==
    /\ Click /\ backup = "pin"
    /\ Wait("reveal", secret)
    /\ UNCHANGED <<vNet, vPane, walletVars, vault, locked, armed, pinSheet, viewVars>>
Revealed(w) ==
    /\ w.for = "reveal"
    /\ Done(w)
    /\ words' = IF Unseals(w.secret) THEN vault.seed ELSE words
    /\ UNCHANGED <<vNet, vPane, walletVars, vault, locked, armed, pinSheet, backup>>
Hold ==
    /\ Click /\ backup = "hold"
    /\ words' = source
    /\ UNCHANGED <<vNet, vPane, walletVars, vault, locked, armed, pinSheet, waits, backup>>
HideWords ==                                           \* the button, or 60 s
    /\ words # NoSeed
    /\ words' = NoSeed
    /\ UNCHANGED <<vNet, vPane, walletVars, vault, locked, armed, pinSheet, waits, clicked, backup>>

VaultInit ==
    /\ vNet = "practice" /\ vPane = "welcome" /\ wiz = NoSeed /\ source = NoSeed /\ watch = FALSE
    /\ vault = NoSeed /\ locked = FALSE /\ armed = FALSE /\ pinSheet = NoSeed /\ waits = {}
    /\ clicked = FALSE /\ backup = "closed" /\ words = NoSeed
VaultNext ==
    \/ SwitchNetwork \/ Generate \/ BackToGenerate \/ Wizard \/ Skip \/ ImportFile \/ SwitchWallet
    \/ PinCancel \/ Forget \/ Lock \/ ToggleBackup \/ Hold \/ HideWords
    \/ \E p \in Panes : Navigate(p)
    \/ \E seed \in VaultSeeds, isXpub \in BOOLEAN : Import(seed, isXpub)
    \/ \E for \in {"create", "keep"} : AskPin(for)
    \/ \E secret \in Secrets : PinEntry(secret) \/ Unlock(secret) \/ Reveal(secret)
    \/ \E w \in waits : Save(w) \/ Unlocked(w) \/ FileOpened(w) \/ Revealed(w)
VaultSpec == VaultInit /\ [][VaultNext]_vaultVars

(***************************************************************************)
(* Properties.                                                              *)
(***************************************************************************)
\* Under the lock screen there is no wallet, no phrase and no word (ui.js 439, "hard
\* reset clears the seed from memory"), and the backup viewer is open only in the
\* settings of a wallet that has its seed (ui.js 169, "never leave the seed on
\* screen"), whichever handlers were in their 30 ms: saving, opening a file,
\* unlocking or revealing.
SeedStaysCovered ==
    /\ locked => source = NoSeed /\ wiz = NoSeed /\ words = NoSeed
    /\ backup # "closed" => vPane = "settings" /\ source # NoSeed /\ ~watch
\* A seed used on mainnet is behind a strong secret (ui.js 83, "a mainnet seed must
\* not persist behind a weak PIN"; entry.js 109).  It fails: only vault.save looks at
\* the network, and the wallet saved under a PIN on a practice network stays saved
\* when setNetwork moves it to mainnet (ui.js 224-227).
MainnetSeedIsStrong ==
    vNet = "mainnet" /\ source # NoSeed /\ vault # NoSeed => (source = vault.seed => Strong(vault.secret))
\* What the browser keeps is a wallet (ui.js 1045, "saved encrypted on this device").
\* It fails: Skip, or "Switch wallet", in the 30 ms of a save empties the words it
\* then encrypts (ui.js 322, 326, 1034, 1044).
SavedIsAWallet == vault # NoSeed => vault.seed \in VaultSeeds
\* The words the backup viewer shows are those of the wallet that is open
\* (assemble.mjs 577, "view your words"; ui.js 1203-1207 prints the open wallet's
\* fingerprint next to them).
BackupIsOfOpenWallet ==
    vPane = "settings" /\ backup # "closed" /\ words # NoSeed => words = source
=============================================================================
