---------------------------- MODULE LockedWallet -----------------------------
(***************************************************************************)
(* The mainnet page's wallet at rest and open: what a file holds of a secret  *)
(* (src/walletfile.js, the older src/coldbackup.js), what an open wallet is   *)
(* held as (src/locked.js: public descriptions, and the secret encrypted),    *)
(* and what a password gets out of it (src/account.js).  A recovery phrase    *)
(* may have a passphrase, which the file holds or the user types each time.   *)
(* Encryption opens with its password only; identifiers derived by hashing    *)
(* are taken to be distinct.  Handlers are whole here: WalletPage has what     *)
(* happens between their awaits.                                             *)
(***************************************************************************)
EXTENDS Naturals, FiniteSets

CONSTANTS
    Phrases, Passes, LockedKeys,  \* recovery phrases, passphrases (not ""), single private keys
    Passwords,
    PracticeNets,                 \* PRACTICE: the practice networks
    Backups,                      \* files of the older format
    Absent,
    MaxFiles                      \* bound: files on disk

PRACTICE_HOME == "testnet4"

VARIABLES
    files,          \* the user's files
    pendingSecret,  \* a secret waiting for its file: [secret, home, meant]
    held,           \* the open wallet: [pubs, vault, file]
    answer          \* what the last password typed got: [net, password, got]
lockedVars == <<files, pendingSecret, held, answer>>

Seed(words, pass) == [kind |-> "seed", what |-> words, pass |-> pass]
AllSecrets == [kind : {"seed"}, what : Phrases, pass : Passes \cup {""}]
           \cup [kind : {"wif"}, what : LockedKeys, pass : {""}]

(***************************************************************************)
(* Files.  In a payload pass is Absent when the file does not hold it;        *)
(* record is the secret whose fingerprint, or first address, the file names,  *)
(* Absent if none.  meant is the secret its maker had (a history field).      *)
(***************************************************************************)
Payload(secret, storePass) ==
    [kind |-> secret.kind, what |-> secret.what,
     pass |-> IF secret.pass = "" \/ storePass THEN secret.pass ELSE Absent,
     used |-> secret.pass # ""]
Sealed(payload, password, home, record, meant) ==
    [legacy |-> FALSE, payload |-> payload, password |-> password, home |-> home,
     record |-> record, meant |-> meant]

AsksPassphrase(f) == f.payload.used /\ f.payload.pass = Absent
SecretOf(payload) ==
    [kind |-> payload.kind, what |-> payload.what,
     pass |-> IF payload.pass = Absent THEN "" ELSE payload.pass]
(* The secret o_go takes a file to hold, the passphrase as it was typed.      *)
Candidate(f, typed) ==
    IF AsksPassphrase(f) THEN Seed(f.payload.what, typed) ELSE SecretOf(f.payload)
Accepted(f, typed) ==
    AsksPassphrase(f) => typed # "" /\ f.record \in {Absent, Candidate(f, typed)}

ASSUME LockedAssumption ==
    /\ Absent \notin Passes \cup {""} /\ Absent \notin AllSecrets
    /\ \A f \in Backups :
          /\ f.legacy
          /\ SecretOf(f.payload) \in AllSecrets
          /\ AsksPassphrase(f) => f.payload.kind = "seed"
          /\ f.record # Absent =>
                f.record = f.meant /\ (~AsksPassphrase(f) => SecretOf(f.payload) = f.meant)

(***************************************************************************)
(* The locked form.                                                         *)
(***************************************************************************)
Describe(secret, net) == [id |-> secret, net |-> net]

Networks(secret, home) ==
    IF home = PRACTICE_HOME \/ secret.kind = "wif" THEN {home} ELSE {home} \cup PracticeNets
\* Mutant: the file alone always serves as the vault.
FileIsEnoughAlways(secret, payload) == TRUE
FileIsEnough(secret, payload) ==
    secret.kind = "wif" \/ secret.pass = "" \/ payload.pass = secret.pass
LockWallet(secret, password, f) ==
    [pubs |-> [n \in Networks(secret, f.home) |-> Describe(secret, n)],
     vault |-> IF FileIsEnough(secret, f.payload) THEN f
               ELSE Sealed(Payload(secret, TRUE), password, f.home, f.record, f.meant),
     file |-> f]

(* The secret a password gets for network n; Absent when it is the wrong      *)
(* password, or the secret is another wallet's.                              *)
PasswordGets(n, password) ==
    LET secret == SecretOf(held.vault.payload)
    IN  IF password = held.vault.password /\ Describe(secret, n) = held.pubs[n]
        THEN secret ELSE Absent

(***************************************************************************)
(* Actions.                                                                 *)
(***************************************************************************)
(* Created, imported, found or printed; a single key is mainnet's.           *)
Make(secret, home) ==
    /\ held = Absent /\ pendingSecret = Absent
    /\ secret.kind = "wif" => home = "mainnet"
    /\ pendingSecret' = [secret |-> secret, home |-> home, meant |-> secret]
    /\ UNCHANGED <<files, held, answer>>

SaveFile(storePass, password) ==
    /\ pendingSecret # Absent
    /\ Cardinality(files) < MaxFiles                   \* bound
    /\ LET payload == Payload(pendingSecret.secret, storePass)
           record == IF pendingSecret.secret.kind = "seed" THEN pendingSecret.secret ELSE Absent
           f == Sealed(payload, password, pendingSecret.home, record, pendingSecret.meant)
       IN  /\ files' = files \cup {f}
           /\ held' = LockWallet(pendingSecret.secret, password, f)
    /\ pendingSecret' = Absent
    /\ UNCHANGED answer

OpenFile(f, typed) ==                                  \* its password was right
    /\ held = Absent /\ pendingSecret = Absent
    /\ Accepted(f, typed)
    /\ LET secret == Candidate(f, typed)
       IN  IF f.legacy                                 \* saved anew before it is used
           THEN /\ pendingSecret' =
                     [secret |-> secret,
                      home |-> IF f.home = "mainnet" THEN "mainnet" ELSE PRACTICE_HOME,
                      meant |-> IF f.record = Absent THEN secret ELSE f.meant]
                /\ UNCHANGED held
           ELSE /\ held' = LockWallet(secret, f.password, f)
                /\ UNCHANGED pendingSecret
    /\ UNCHANGED <<files, answer>>

Use(n, password) ==                                    \* pay, sign a message, show the words
    /\ held # Absent /\ n \in DOMAIN held.pubs
    /\ answer' = [net |-> n, password |-> password, got |-> PasswordGets(n, password)]
    /\ UNCHANGED <<files, pendingSecret, held>>

Leave ==                                               \* lock, or the page is closed
    /\ held # Absent \/ pendingSecret # Absent
    /\ pendingSecret' = Absent /\ held' = Absent /\ answer' = Absent
    /\ UNCHANGED files

LockedInit == files = Backups /\ pendingSecret = Absent /\ held = Absent /\ answer = Absent
LockedNext ==
    \/ \E s \in AllSecrets, home \in {"mainnet", PRACTICE_HOME} : Make(s, home)
    \/ \E store \in BOOLEAN, p \in Passwords : SaveFile(store, p)
    \/ \E f \in files, typed \in Passes \cup {""} : OpenFile(f, typed)
    \/ held # Absent /\ \E n \in DOMAIN held.pubs, p \in Passwords : Use(n, p)
    \/ Leave
LockedSpec == LockedInit /\ [][LockedNext]_lockedVars

(***************************************************************************)
(* Properties.                                                              *)
(***************************************************************************)
\* On every network of an open wallet, the password of the file it came from
\* gets out the very secret that was saved, its passphrase included, and no
\* other password gets anything: a wrong passphrase never opens another wallet,
\* and a file without its passphrase still signs while open (locked.js 5-12,
\* 17-21; account.js 238-239).
PasswordGetsTheSecret ==
    answer # Absent =>
        answer.got = IF answer.password = held.file.password THEN held.file.meant ELSE Absent
=============================================================================
