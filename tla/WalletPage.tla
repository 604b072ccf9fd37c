----------------------------- MODULE WalletPage ------------------------------
(***************************************************************************)
(* The mainnet page's custody of a secret (mainnet/ui.js): a wallet is made,  *)
(* imported, found (vanity) or printed (paper), saved to an encrypted file,   *)
(* and opened.  Handlers stop at an await (scrypt takes seconds) and go on    *)
(* whatever the person did meanwhile, so each stretch between two awaits is a *)
(* step of its own.  Payments are in WalletPay.                              *)
(***************************************************************************)
EXTENDS Integers, FiniteSets

CONSTANTS
    Seeds,        \* recovery phrases: made, typed or in a file
    PageKeys,     \* single private keys: found, printed or typed
    OldFiles,     \* files made before: [secret, home, asks, legacy]
    NoSecret,
    MaxSaves      \* bound: saves under way at once

(* A file: asks, its passphrase is not inside; legacy, the older format.      *)

ASSUME PageAssumption ==
    \A f \in OldFiles : f.legacy \/ (f.secret \in PageKeys => f.home = "mainnet")

VARIABLES
    pane,                \* the screen
    wallet,              \* the file the open wallet is held as
    draft, makeNet,      \* the phrase being made and the network it is for
    unsaved,             \* a secret waiting for its file
    saveMode, done,      \* "create", "import" or "convert"; the file is written
    ready,               \* the locked wallet "Open my wallet" opens
    downloaded,          \* the files downloaded
    saves,               \* s_go handlers at an await: [sec, home], home NoSecret before the seal
    opened,              \* a decrypted file waiting for its passphrase
    opening,             \* the o_go handler at an await: [at, file]
    foundKey,            \* the key a vanity search has found (VanityPanel has the search)
    paperKey, paperWait  \* the printed key; its QR codes are being drawn
pageVars == <<pane, wallet, draft, makeNet, unsaved, saveMode, done, ready, downloaded, saves,
              opened, opening, foundKey, paperKey, paperWait>>

saveVars == <<saveMode, done, ready>>
secretVars == <<draft, unsaved, makeNet>>
paperVars == <<paperKey, paperWait>>

FileOf(sec, home) == [secret |-> sec, home |-> home, asks |-> FALSE, legacy |-> FALSE]

(***************************************************************************)
(* pane(name) and what it drops, given the wallet, the key found and the    *)
(* decrypted file as the caller leaves them.                                 *)
(***************************************************************************)
NeedsWallet == {"wallet", "settings"}
Go(name, w, v, o) ==
    LET p == IF name \in NeedsWallet /\ w = NoSecret THEN "welcome" ELSE name
    IN  /\ pane' = p
        /\ opened' = IF p = "open" THEN o ELSE NoSecret
        /\ foundKey' = IF p \in {"vanity", "save"} THEN v ELSE NoSecret
        /\ paperKey' = IF p \in {"paper", "save"} THEN paperKey ELSE NoSecret

OpenSave(mode) ==
    /\ saveMode' = mode /\ done' = FALSE /\ ready' = NoSecret
    /\ Go("save", wallet, foundKey, NoSecret)

(* startSession: the wallet is open and shown. *)
OpensWallet(file) ==
    /\ wallet' = file
    /\ draft' = NoSecret /\ unsaved' = NoSecret
    /\ Go("wallet", file, foundKey, NoSecret)

(***************************************************************************)
(* Getting about.                                                           *)
(***************************************************************************)
Back ==
    /\ pane \in {"create1", "import", "open", "vanity", "paper"}
    /\ Go(IF pane \in {"vanity", "paper"} /\ wallet # NoSecret THEN "settings" ELSE "welcome",
          wallet, foundKey, opened)
    /\ UNCHANGED <<wallet, secretVars, saveVars, downloaded, saves, opening, paperWait>>

Tab ==          \* the tab bar, and the network button of the header
    /\ wallet # NoSecret
    /\ \E name \in NeedsWallet : Go(name, wallet, foundKey, opened)
    /\ UNCHANGED <<wallet, secretVars, saveVars, downloaded, saves, opening, paperWait>>

LockPage ==     \* the button, the idle timer, a reload
    /\ pane # "welcome" \/ wallet # NoSecret
    /\ pane' = "welcome" /\ wallet' = NoSecret /\ draft' = NoSecret /\ unsaved' = NoSecret
    /\ makeNet' = "mainnet" /\ saveMode' = "create" /\ done' = FALSE /\ ready' = NoSecret
    /\ saves' = {} /\ opened' = NoSecret /\ opening' = NoSecret
    /\ foundKey' = NoSecret /\ paperKey' = NoSecret /\ paperWait' = FALSE
    /\ UNCHANGED downloaded

(***************************************************************************)
(* Create and import.                                                       *)
(***************************************************************************)
StartCreate ==
    /\ pane = "welcome"
    /\ draft' = NoSecret /\ makeNet' \in {"mainnet", "testnet4"}
    /\ Go("create1", wallet, foundKey, opened)
    /\ UNCHANGED <<wallet, unsaved, saveVars, downloaded, saves, opening, paperWait>>
GeneratePhrase(s) ==
    /\ pane = "create1"
    /\ draft' = s
    /\ Go("create2", wallet, foundKey, opened)
    /\ UNCHANGED <<wallet, unsaved, makeNet, saveVars, downloaded, saves, opening, paperWait>>
Regenerate ==                                          \* back from the words
    /\ pane = "create2"
    /\ draft' = NoSecret /\ makeNet' = "mainnet"
    /\ Go("create1", wallet, foundKey, opened)
    /\ UNCHANGED <<wallet, unsaved, saveVars, downloaded, saves, opening, paperWait>>
Checked ==                                             \* the words were typed back
    /\ pane = "create2" /\ draft # NoSecret
    /\ OpenSave("create")
    /\ UNCHANGED <<wallet, secretVars, downloaded, saves, opening, paperWait>>

StartImport ==
    /\ pane = "welcome"
    /\ makeNet' \in {"mainnet", "testnet4"}
    /\ Go("import", wallet, foundKey, opened)
    /\ UNCHANGED <<wallet, draft, unsaved, saveVars, downloaded, saves, opening, paperWait>>
ImportSecret(s) ==
    /\ pane = "import"
    /\ unsaved' = s
    /\ OpenSave("import")
    /\ UNCHANGED <<wallet, draft, makeNet, downloaded, saves, opening, paperWait>>

(***************************************************************************)
(* Save.  Typing in a password field enables the button again, so a second   *)
(* save may start while one runs.                                            *)
(***************************************************************************)
Saving == IF saveMode = "create" THEN draft ELSE unsaved
SaveGo ==
    /\ pane = "save" /\ ~done
    /\ Cardinality(saves) < MaxSaves                   \* bound
    /\ Saving # NoSecret
    /\ saves' = saves \cup {[sec |-> Saving, home |-> NoSecret]}
    /\ UNCHANGED <<pane, wallet, secretVars, saveVars, downloaded, opened, opening, foundKey, paperVars>>
SaveSeal(j) ==                                         \* the network is read after an await
    /\ j.home = NoSecret
    /\ saves' = (saves \ {j}) \cup {[j EXCEPT !.home = IF j.sec \in PageKeys THEN "mainnet" ELSE makeNet]}
    /\ UNCHANGED <<pane, wallet, secretVars, saveVars, downloaded, opened, opening, foundKey, paperVars>>
SaveDone(j) ==
    /\ j.home # NoSecret
    /\ LET f == FileOf(j.sec, j.home)
       IN  ready' = f /\ downloaded' = downloaded \cup {f}
    /\ saves' = saves \ {j}
    /\ draft' = NoSecret /\ unsaved' = NoSecret
    /\ done' = TRUE
    /\ foundKey' = NoSecret
    /\ UNCHANGED <<pane, wallet, makeNet, saveMode, opened, opening, paperVars>>
SaveFails(j) ==
    /\ saves' = saves \ {j}
    /\ UNCHANGED <<pane, wallet, secretVars, saveVars, downloaded, opened, opening, foundKey, paperVars>>
BackFromSave ==
    /\ pane = "save" /\ ~done
    /\ draft' = NoSecret /\ unsaved' = NoSecret /\ ready' = NoSecret
    /\ Go(IF unsaved # NoSecret /\ unsaved = foundKey THEN "vanity" ELSE "welcome",
          wallet, foundKey, opened)
    /\ UNCHANGED <<wallet, makeNet, saveMode, done, downloaded, saves, opening, paperWait>>
SaveOpen ==
    /\ pane = "save" /\ done /\ ready # NoSecret
    /\ ready' = NoSecret
    /\ OpensWallet(ready)
    /\ UNCHANGED <<makeNet, saveMode, done, downloaded, saves, opening, paperWait>>

(***************************************************************************)
(* Open.  asked: the passphrase row is on the screen.                       *)
(***************************************************************************)
StartOpen ==
    /\ pane = "welcome"
    /\ Go("open", wallet, foundKey, NoSecret)
    /\ UNCHANGED <<wallet, secretVars, saveVars, downloaded, saves, opening, paperWait>>

\* Mutant: an older backup is opened as it is, without a new file.
OpenedAsIs(f) ==
    IF f.asks /\ opened = NoSecret
    THEN /\ opened' = f /\ opening' = NoSecret
         /\ UNCHANGED <<pane, foundKey, paperKey, unsaved, makeNet, saveVars>>
    ELSE /\ opening' = [at |-> "lock", file |-> f]
         /\ opened' = f
         /\ UNCHANGED <<pane, foundKey, paperKey, unsaved, makeNet, saveVars>>
(* What o_go does with a decrypted file: wait for its passphrase, have an      *)
(* older backup saved anew, or go on to lock it.                             *)
Decrypted(f) ==
    IF f.asks /\ opened = NoSecret
    THEN /\ opened' = f /\ opening' = NoSecret
         /\ UNCHANGED <<pane, foundKey, paperKey, unsaved, makeNet, saveVars>>
    ELSE IF f.legacy
    THEN /\ opening' = NoSecret
         /\ unsaved' = f.secret
         /\ makeNet' = IF f.home = "mainnet" THEN "mainnet" ELSE "testnet4"
         /\ OpenSave("convert")
    ELSE /\ opening' = [at |-> "lock", file |-> f]
         /\ opened' = f
         /\ UNCHANGED <<pane, foundKey, paperKey, unsaved, makeNet, saveVars>>

OpenGo(f) ==
    /\ pane = "open" /\ opening = NoSecret
    /\ \/ /\ opened = NoSecret
          /\ opening' = [at |-> "decrypt", file |-> f]
          /\ UNCHANGED <<pane, opened, foundKey, paperKey, unsaved, makeNet, saveVars>>
       \/ opened = f /\ Decrypted(f)
    /\ UNCHANGED <<wallet, draft, downloaded, saves, paperWait>>
OpenDecrypted ==
    /\ opening # NoSecret /\ opening.at = "decrypt"
    /\ Decrypted(opening.file)
    /\ UNCHANGED <<wallet, draft, downloaded, saves, paperWait>>
OpenLocked ==
    /\ opening # NoSecret /\ opening.at = "lock"
    /\ opening' = NoSecret
    /\ OpensWallet(opening.file)
    /\ UNCHANGED <<makeNet, saveMode, done, ready, downloaded, saves, paperWait>>
OpenFails ==                                  \* a wrong password or passphrase
    /\ opening # NoSecret
    /\ opening' = NoSecret
    /\ UNCHANGED <<pane, wallet, secretVars, saveVars, downloaded, saves, opened, foundKey, paperVars>>

(***************************************************************************)
(* Vanity and paper.                                                        *)
(***************************************************************************)
VanityOpen ==
    /\ pane \in {"welcome", "settings"}
    /\ Go("vanity", wallet, NoSecret, opened)
    /\ UNCHANGED <<wallet, secretVars, saveVars, downloaded, saves, opening, paperWait>>
VanityFound(k) ==
    /\ pane \in {"vanity", "save"} /\ foundKey = NoSecret
    /\ foundKey' = k
    /\ UNCHANGED <<pane, wallet, secretVars, saveVars, downloaded, saves, opened, opening, paperVars>>
VanityDiscard ==
    /\ pane = "vanity" /\ foundKey # NoSecret
    /\ foundKey' = NoSecret
    /\ UNCHANGED <<pane, wallet, secretVars, saveVars, downloaded, saves, opened, opening, paperVars>>
VanitySave ==
    /\ pane = "vanity" /\ foundKey # NoSecret
    /\ unsaved' = foundKey
    /\ OpenSave("import")
    /\ UNCHANGED <<wallet, draft, makeNet, downloaded, saves, opening, paperWait>>

PaperOpen ==
    /\ pane \in {"welcome", "settings"}
    /\ Go("paper", wallet, foundKey, opened)
    /\ UNCHANGED <<wallet, secretVars, saveVars, downloaded, saves, opening, paperWait>>
PaperShow(k) ==                               \* a fresh key, or the one that was found
    /\ ~paperWait
    /\ \/ pane = "paper" /\ UNCHANGED foundKey
       \/ pane = "vanity" /\ foundKey = k /\ foundKey' = NoSecret
    /\ paperKey' = k /\ paperWait' = TRUE
    /\ UNCHANGED <<pane, wallet, secretVars, saveVars, downloaded, saves, opened, opening>>
PaperShown ==                                 \* its QR codes are drawn
    /\ paperWait
    /\ paperWait' = FALSE
    /\ Go("paper", wallet, foundKey, opened)
    /\ UNCHANGED <<wallet, secretVars, saveVars, downloaded, saves, opening>>
PaperSave ==
    /\ pane = "paper" /\ paperKey # NoSecret
    /\ unsaved' = paperKey
    /\ OpenSave("import")
    /\ UNCHANGED <<wallet, draft, makeNet, downloaded, saves, opening, paperWait>>

PageInit ==
    /\ pane = "welcome" /\ wallet = NoSecret /\ draft = NoSecret /\ makeNet = "mainnet"
    /\ unsaved = NoSecret /\ saveMode = "create" /\ done = FALSE /\ ready = NoSecret
    /\ downloaded = OldFiles /\ saves = {} /\ opened = NoSecret
    /\ opening = NoSecret /\ foundKey = NoSecret /\ paperKey = NoSecret /\ paperWait = FALSE
PageNext ==
    \/ Back \/ Tab \/ LockPage \/ StartCreate \/ Regenerate \/ Checked \/ StartImport \/ StartOpen
    \/ \E s \in Seeds : GeneratePhrase(s)
    \/ \E s \in Seeds \cup PageKeys : ImportSecret(s)
    \/ SaveGo \/ BackFromSave \/ SaveOpen
    \/ \E j \in saves : SaveSeal(j) \/ SaveDone(j) \/ SaveFails(j)
    \/ \E f \in downloaded : OpenGo(f)
    \/ OpenDecrypted \/ OpenLocked \/ OpenFails
    \/ VanityOpen \/ VanityDiscard \/ VanitySave \/ PaperOpen \/ PaperShown \/ PaperSave
    \/ \E k \in PageKeys : VanityFound(k) \/ PaperShow(k)
PageSpec == PageInit /\ [][PageNext]_pageVars

(***************************************************************************)
(* Properties.                                                              *)
(***************************************************************************)
\* The open wallet, and the one "Open my wallet" would open, is always one whose
\* encrypted file in the current format was handed out, for the network it was
\* made for, however the save and open handlers interleave (ui.js 318-320, 399).
OpenHasItsFile ==
    \A w \in {wallet, ready} \ {NoSecret} :
        w \in downloaded /\ ~w.legacy /\ (w.secret \in PageKeys => w.home = "mainnet")

\* Leaving the save step keeps nothing: no file appears of a wallet that was
\* abandoned (ui.js 338, "nothing was saved, nothing is kept").
AbandonedIsNotSaved ==
    [][\A f \in downloaded' \ downloaded : pane = "save" /\ f.secret = Saving]_pageVars
=============================================================================
