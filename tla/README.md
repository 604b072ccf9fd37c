# BTC_Wallet: specifications, model checking and proofs

This directory specifies the parts of the repository in which several things
happen at once or in an order nobody chose: the faucet that pays real coins, the
node API that scans the UTXO set for wallets, the bots, the wallet's sessions with
the node, and the wallet pages whose handlers wait for slow cryptography and the
network while the person goes on clicking. Each part has a TLA+ module translated
from its source and a small instance that TLC checks exhaustively, and all of them but
the payment builder have theorems about every instance that TLAPS proves.

`PROJECT.json` lists the components, the runs, the source lines behind every
definition (`map`), for each property a plausible bug that breaks it
(`mutants`), the disagreements found between code and comments (`findings`) and
what is hard to test in this code (`hazards`).

To check a run: `tlc -config FaucetPayments.cfg MCFaucet`. To check the proofs of a
module: `tlapm FaucetOnce.tla`.

## 1. The system

The repository is a set of Node.js services around one Bitcoin Core, and browser
wallets. All services are single-threaded JavaScript. That decides what can
interleave: the code between two `await`s is atomic, and anything else (another
request, a timer, a block, a crash) can happen at an `await`. Every module here
takes exactly that as its grain: **an action is the code between two awaits**.

| Component | State it keeps | Operations | Talks to |
|---|---|---|---|
| Faucet claim ledger `packages/bitcoin/faucet/ledger.mjs` | SQLite: claims, reservations, quarantine | createAuthorised, transition, markSigned, markBroadcasting, retireToGuard, quarantineOutpoints, setGuardReason | called by the payout engine |
| Faucet payout engine `server.mjs`, `recovery.mjs`, `advance.mjs`, `claimflow.mjs`, `authreconcile.mjs`, `nodebroadcast.mjs`, `claimlock.mjs` | handlers in flight, per-claim promise chain, ledgerHealthy | POST /claim, the 30 s recovery worker, one pass over one claim | ledger, breaker, signer, explorer, own node |
| Velocity circuit breaker `breaker.mjs` | window of payouts and rejects in memory, latch file | authorize, settle, fail, recordReject, reloadState, `breaker.mjs reset` | handlers, the administrator's process, service restarts |
| Faucet dashboard and telemetry | read only | status page, event log | ledger |
| Node API: UTXO-set scans `infra/nodeapi/lib.mjs`, `server.mjs` | jobs, queue, table of cached entries, mempool answers | POST /scan, GET /scan/id, POST /broadcast, the scan cycle, follow, gc | Bitcoin Core RPC |
| Node API: vanity queue `lib.mjs` | FIFO of jobs, one search process | submit, poll, cancel, abandon, time limit | child process |
| Node API: practice-network relay, price, street view, rate limits | shared reads, slots, quotes, the mempool seen, counters | lookup jobs, broadcasts, /prevtx, polls | public data services, Bitcoin Core |
| Broadcast relay `infra/broadcast/server.mjs` | rate limit, subprocess counter | status, test, send | Bitcoin Core |
| Notify bot `packages/bitcoin/notify` | SQLite: alerts, seen marks, scan_blocks, addr_notified; values asked for | commands and buttons, address watch, price, fee and block watchers, feed intake | Bitcoin Core RPC, Telegram |
| Nostr faucet bot `packages/bitcoin/nostr` | seen events, last claim per account, state file | handle a mention | relays, faucet /claim |
| Wallet session `src/session.js` | coins, marks of spent coins, window, counters, sends | refresh, receive, prepare, broadcast | node API |
| Vaults and files `src/vault.js`, `walletfile.js`, `locked.js`, `coldbackup.js` | encrypted secret in the browser or in a file; the open wallet's locked form | seal, open, unlock | pages |
| Wallet transactions `src/tx.js`, `account.js`, `send.js`, `psbt.js`, `p2pk_fund.js`, `legacy_sign.js`, `htlc_sign.js` | none | selection, fees, change, audit, discovery | session, pages |
| Mainnet page `mainnet/ui.js`, `entry.js` | pane, secret being made, prompt, confirm sheet, lookups, vanity search | create, import, save, open, pay, search | session, node API |
| Testnet page `web/ui.js`, `entry.js` | wizard, vault, accounts, P2PK lab, confirm sheet | create, unlock, refresh, pay, move, sweep | explorer |
| Connect provider and window `connect/`; offline signer `signer/` | promises and queue across two windows; reviewed fields | request, approve, close; review, sign | swap page |
| Wallet keys, addresses, messages; build and static pages; dashboard; legacy page | none of the system's | | |

What makes each part hard, and what makes it correct:

* **Faucet.** A request handler and the recovery worker may advance the same
  claim at once; the process may die between any two awaits; a broadcast's reply
  may be lost; the external explorer may be wrong; a reorganisation may undo a
  confirmed payment. Correct means: at most one transaction ever leaves for a
  (network, payee, day); what leaves was stored first; no coin of an outstanding
  payment is ever offered to another one; verdicts are true; nothing stays
  mid-flight.
* **Breaker.** Requests authorise before they know what they cost and settle
  after awaits; an administrator's process edits the latch file meanwhile.
  Correct means: the limits hold for every window of time, and a trip ends only
  when somebody asked.
* **Node API scans.** One scan serves all queued jobs, one follow pass serves all
  callers, entries are shared objects that outlive their table slot, and blocks
  and reorganisations come between RPCs. Correct means: a cached entry is exactly
  the UTXO set as of the block it names, cached mempool answers are about the
  coins they are shown with, and every job ends.
* **Notify bot.** Passes can overlap, an RPC can fail, and the chain can be
  reorganised in mid-pass. Correct means: nobody is told of a block that was not
  buried, what was reversed is reported, scanning always catches up.
* **Wallet session.** A scan takes minutes; its answer may be older than a payment
  made meanwhile, a reply to a broadcast may be lost, and the page may be reloaded
  at any moment. Correct means: no coin is offered twice, no two payments share a
  change address, what is shown as dropped is gone, and what was paid to an
  address handed out is found.
* **Payments.** Fees are settled by rebuilding; old-format coins depend on the
  node's word. Correct means: the transaction is the one shown, covers the rate
  asked for and wastes nothing.
* **Pages.** Every handler reads shared variables, waits (scrypt, network) and
  reads or writes them again. Correct means: what is signed was on the sheet, an
  answer that comes late is not taken for another's, an open wallet can be opened
  again from its file, a seed is off the screen when its page is left or locked, and a
  key that was found is not lost.
* **Swap hand-off.** Two windows exchange messages and either can vanish. Correct
  means: every request ends, and with its own answer.
* **Bots and relays.** Deliveries repeat, runs overlap, restarts replay. Correct
  means: nobody is paid or told twice, and every place taken is given back.

## 2. Modules

```
WalletTx <- ClaimLedger <- Faucet <- MCFaucet           FaucetPromise (abstract)
         <- BitcoinNet  <-        <- FaucetOnce <- FaucetCustody        (proofs)
BlockTree <- UtxoScan <- MCUtxoScan, UtxoScanProofs
          <- AddrWatch <- MCAddrWatch, AddrWatchProofs
WalletSession, SwapConnect <- MCWallets, WalletProofs
Breaker <- BreakerProofs
VanityQueue, TestRelay, BroadcastRelay, NodeRequests <- NodeServices
OfflineSigner, WalletPay, HotFlows, WalletScreen, HotAccounts, HotVault,
    VanityPanel, PriceFeed, WalletPage, LockedWallet <- WalletPages
NodeServices, StreetWatch, NotifyBot, NostrBot <- NodeServiceProofs
WalletPages, HdAccount                         <- PageProofs
MCFaucet, NodeServices, StreetWatch, NotifyBot <- MCNode
Breaker, NostrBot, WalletPages, HdAccount      <- MCServices (with an instance of WalletSpend)
```

`NodeServices` and `WalletPages` put components side by side that share no variable, and
define what a caller of the services, or a person at the pages, relies on: each such
property is a conjunction of invariants of the components (section 3). The components'
names are chosen so that one module can extend all of them: the theorems and the runs
are then about the same definitions.

`MCNode`, `MCServices` and `MCWallets` put independent components into one run. A variable
`part` says which component a behaviour is about and never changes; its steps are
that module's steps and nothing of the others moves. So the run explores the sum of
the components' state graphs, not their product, and every property is checked in all of
it. The properties themselves are in the components' modules.

`BitcoinNet`, `BlockTree` and the first section of `UtxoScan` are the environment: Bitcoin
as this code meets it, modelled from the RPCs the code calls and marked external in the
map. They may do whatever Bitcoin can do within the named bounds.

### Faucet (`WalletTx`, `ClaimLedger`, `BitcoinNet`, `Faucet`, `FaucetPromise`)

`ClaimLedger` has one variable per table or column the engine's control depends
on (`state`, `rawTx`, `reserved`, `attempts`, `resv`, `guard`) and one operator
per ledger method. SQLite with `synchronous = FULL` makes each method atomic and
durable, so its operator is a conjunct of the step that calls it. A claim is
named after the request that creates it.

`Faucet` has a program counter per actor, naming the await it is parked at
(listed at the head of the module), and the locals that live across the await
(`tx`, `res`, `avoid`, `listing`, `facts`). The actors are the request handlers
and the worker; `Handler(r)` is POST /claim up to its pass, `Pass(a)` is one
pass over one claim, which handlers and worker share. A recovery round is
`Recover` choosing a claim again and again. `Crash` loses every actor's place and
keeps the ledger and the network.

Abstractions: a transaction is (claim, inputs, version), where the version stands
for whatever a signer may change from one call to the next; the adversarial
explorer, signer and broadcaster (`Honest = FALSE`) answer anything their types
allow; `chain.authoritative` is FALSE as in both adapters of the source, so
authority comes only from the own node (`OwnNode`). The three groups of RPCs of
`gatherFacts` are separate steps; the coins' readings are taken together with
`applyAuthoritative`. The breaker's verdict is a reason of `Refuse`.

`FaucetPromise` is the whole promise without mechanism: an entitlement is settled
once on a payment, and only that is sent. `KeepsPromise` is the refinement, with
`committed` read off the ledger's stored bytes.

### Velocity breaker (`Breaker`)

`authorize`, `settle`, `fail`, `recordReject` and `reloadState` have no await, so
each is one step. What interleaves is the handler between authorise and settle
(`pc = "creating"`), the administrator's reset of the file followed by SIGHUP,
restarts, and the clock. Sats, UTXOs and fee are limits of one shape and appear
as one sum, `units`. A handler that throws while it creates its claim simply
stays "creating": that is the token leak of `server.mjs:258`.

### Node API scans (`BlockTree`, `UtxoScan`)

JavaScript objects are shared by reference: the table, a follow pass and polls may
hold the same entry, and the table may replace it meanwhile. Objects therefore
live in a `heap`, the table holds references, and an object nobody refers to
disappears (`SetHeap`). `ScanStarts`, `ScanDone`, `ScanFails` are `_cycle` and
`_scanWithRetry`; `FollowTip`, `FollowCheck`, `FollowBlock` are `follow` parked at
its RPCs; `Submit`, `Resubmit` are POST /scan; `PollAsks`, `TxOut`, `PollReplies`
are a poll parked between `gettxout` calls; `Relay`, `RelayAnswered` are POST
/broadcast.

Abstractions: a block's effect on the UTXO set is its net effect; `getblockhash`
and `getblock` of one block are one step; the order in which a follow pass takes
stale entries is any order; ages (TTL of answers, of jobs and of entries) elapse
at any time; a poll that changes nothing is left out.

### Notify bot's address watch (`BlockTree`, `AddrWatch`)

The variables are the bot's tables (`tracked` is scan_blocks, `notified` is
addr_notified), `lastScanned`, and for every call of `watchAddresses` under way
the RPC it awaits with the locals that live across it. The timer does not wait
for the last call, so several passes exist and share one tracker. `TipKnown`,
`ProbeMatches`, `ProbeDiffers` are `plan` with `_detectReorg`; `HashKnown`,
`BlockRead` are the scan loop; `StillPooled`, `NotPooled`, `StillMined`,
`NotMined` are `stillPresent` and the reversal.

A row of `notified` is added in the step that sends the alert and removed in the
step that sends its reversal; so it is what the user was last told. Delivery by
Telegram, and a crash between two statements of one step, are left out. Orphaned
alerts are looked into in any order. The two RPCs that read one unburied block are
one step, the two that scan a buried block are two. `buried` and `upset` are
history variables: the blocks that were ever deep enough, and what has disturbed
the passes so far.

### Nostr bot (`NostrBot`)

Any relay delivers any posted mention any number of times, and again after a
restart. `seen`, `claimed` and their copy on disk are separate variables, because a
write can fail: `handle` goes on only once the seen mark is on disk. The faucet
call is the one await. The trimming of seen marks to the newest 4000 is left out.

### Wallet session (`WalletSession`)

The session of `src/session.js` with its window of addresses, against a node whose
scan is asked, answered and taken in three steps, so that payments, receipts and
reloads fall between them; a broadcast may be taken and its reply lost. A scan answers
for the window it was asked about, though "scan deeper" may widen it meanwhile. A coin is an
address and the payment that made it, this wallet's or a stranger's. What a reload keeps is what `localStorage`
keeps (`stored`). `GraceEnds` is the 120 s after which a spent mark no longer
outweighs the node's listing; it does not fall while a finished scan's answer is on its
way, i.e. that one short GET is assumed to take less. One page with the wallet open, no
reorganisation, and one budget `MaxFaults` for lost replies, failed scans and reloads.

### Payments (`WalletSpend`, `HdAccount`, `OfflineSigner`)

`WalletSpend` computes with the code's own sizes, dust limits and rates: one
operator per builder (`pay`, `sweep`, `move` into a bare public key, the testnet
page's `fund` and `lab`, `psbt`), the check of previous transactions, and the audit of
the final bytes. A coin carries the amount the node reports and the real one.
`HdAccount` is gap discovery address by address while payments come and go, and
payments that take the next change address of a discovery that may be old.
`OfflineSigner` is the air-gapped page's fields, review and signature over a file that
may claim any amounts, and the testnet page's own signer, which shows a sheet, waits
for the answer and then reads the wallet and the network again: its sheet is safe because
everything that changes either shows another pane, and that cancels it (`SheetCloses`). A
sheet that takes another's place is a dismissal of the first.

### Keeping a secret (`LockedWallet`, `WalletPage`, `HotVault`)

`LockedWallet` says what a file holds of a secret and what an open wallet is held as:
public descriptions per network and one ciphertext, the file itself when that is
enough to sign, a second one with the passphrase when it is not. Its handlers are
whole steps; `WalletPage` has the same handlers cut at their awaits (scrypt takes
seconds), with everything the person may do meanwhile, and `pane()` with what it
drops. `HotVault` is the testnet page: wizard, PIN, lock screen, backup viewer, with
mainnet and one practice network to switch between; at most one click falls into a 30 ms
wait (`clicked`). What a save, an opened file, an unlocking or a revealed backup finds
after its wait is not what it started from; three properties stated there fail by that or
by a switch of network (section 5).

### The pages at work (`WalletPay`, `WalletScreen`, `VanityPanel`, `HotAccounts`, `HotFlows`)

`WalletPay` is the password prompt, the Send screen, the confirm sheet and the
broadcast, with the network switched at any await. `WalletScreen` is one session per
network, the lookups in flight and what each draws when it ends; a page shows one
wallet, since locking reloads it. `VanityPanel` is the search in workers or on the server,
the messages that arrive after Stop, and the one key found. `HotAccounts` holds,
for each script type, whose balance and whose discovery is stored, and the receive address
shown. Every lookup keeps the network and type it was asked for and answers one type at a
time; an answer is stored under the network and type of the moment, as the code does, and
only some of them look at the guard `gen` first. A balance is named by the account it was
read for, so one that is shown for another account can be told. It is one open wallet:
opening another on the same page is left out. `HotFlows` is the four flows that share one
confirm sheet, and the list of P2PK coins.

### Swap hand-off (`SwapConnect`)

The provider in the swap page, the wallet's window and the messages between them,
delivered in order per direction; the window may be closed, reloaded or blocked, and
each request polls it. The signer's choice of branch (`Branch`) is judged by an
independent reading of the script (`ChainAccepts`).

### Services (`NotifyBot`, `VanityQueue`, `TestRelay`, `StreetWatch`, `PriceFeed`, `NodeRequests`, `BroadcastRelay`)

`NotifyBot` handles updates one at a time, the last one again after a restart, and lets runs of
the watchers overlap, each with the alerts it read before its await; an alert's
cool-down does not end while a run holds that alert. `VanityQueue` separates a
search process from its death, because its last output may still arrive. `TestRelay`
hands a slot over in the step that frees it, as the microtask queue does. `StreetWatch`
is one poll, an await after another, over a mempool and a chain that move. In
`PriceFeed` no unit of time passes during one fetch. `NodeRequests` and
`BroadcastRelay` follow each request through its awaits, every one of which may fail
or time out after the node has acted.

## 3. Runs

| Run | Instance | What it shows |
|---|---|---|
| Payments | 3 requests of two payees, one coin and one key shared, a signer that may sign two versions, **lock off**, lying services, daily cap 1, 2 broadcasts, 1 crash | at most one payment, write-ahead, advisory explorer, disjoint payments, refinement of `FaucetPromise` |
| Node | a faucet with its own node: 1 coin, a foreign spend of it, 2 reorganisation steps, 1 crash; the node API's services: 2 or 3 callers of each, caps of 1 or 2; the street view: 2 transactions, 2 blocks; the notify bot: 1 user, 2 overlapping runs, 1 restart | reservation to guard without a gap, true verdicts, final states; no place lost, one listing shown, nobody told twice |
| Live | honest services, own node, 2 reorganisation steps, 1 crash, fairness | no claim stays mid-flight |
| Guard | 2 payees, 1 coin, own node, truthful services (a listing may be as old as its call) | **violation**: a guarded coin is reserved |
| Stuck | one request, fairness | **violation**: a failed signer strands the claim |
| BadConfig | invalid limits | **violation**: reset and SIGHUP resume an unlimited breaker |
| Scans | 6 blocks in two branches, 3 coins, 2 script sets; {2 jobs, poll, broadcast} and {3 jobs} | exact entries, aligned answers, job books and caps, every job ends |
| Relayed | as Scans with a poll and a broadcast | **violation**: outdated mempool answers return |
| Alerts | 10 blocks in three branches, one payment on two of them, 2 confirmations, window 3, 2 passes, 1 failed RPC, 1 restart, fairness | buried alerts, single-branch window, justified reversals, catching up |
| Deferred | the same tree, one pass, no failure, no restart, fairness | **violation**: a deferred reversal is forgotten |
| Wallets | a session with 2 payments, 1 receipt, a window of 4, an inherited coin and 1 fault; a swap page with 2 requests and 2 windows; fairness | coins and change addresses used once, honest status, every payment found; every request ends with its own answer |
| Services | the breaker, the Nostr bot, the payment builder, discovery and the ten components of `WalletPages`, one at a time | their safety, under overlap, late answers and crashes |

Some properties of `Node`, `Services` and `Scans` gather those of several modules that say one thing:

| Property | is the conjunction of |
|---|---|
| `JobsAreKept` | `JobBooks`, `UnionBounded`, `CapKept` (UtxoScan) |
| `PaymentIsAsShown` | `ShownIsTrue`, `CoversRate`, `NothingWasted`, `AuditAccepts` (WalletSpend), `SpendIsSane` (OfflineSigner) |
| `SignedWasShown` | `CardsAreLive` (OfflineSigner), `SheetIsOfShownNetwork`, `OnePaymentAtATime` (WalletPay), `SentWasShown`, `NextKeyIsFresh` (HotFlows) |
| `OpenWalletHasItsFile` | `OpenHasItsFile` (WalletPage), `PasswordGetsTheSecret` (LockedWallet) |
| `DiscoveryFinds` | `EveryCoinFound`, `NothingOutOfReach` (HdAccount) |
| `AlertsSound` | `ToldOnce`, `CapIsKept` (NotifyBot) |
| `AnswersAreOfAsked` | `ScreenIsOfShown`, `TickedAreDrawn` (WalletScreen), `AddressIsOfAccount`, `BalancesAreOfShownUnlessStraddled` (HotAccounts), `PricesWereRecent` (PriceFeed) |
| `PlacesComeBack` | `OneSearchRuns` (VanityQueue), `NobodyWaitsForNothing` (TestRelay), `CounterIsChildren` (BroadcastRelay), `PrevtxPlacesComeBack` (NodeRequests) |

### Bounds, and why they are enough

* **Faucet.** A race needs two actors on one claim: two handlers and the worker
  give three. Two signer versions are enough to make two payments out of one
  claim, and two claims to double-spend one coin. The daily cap of 1 lets the cap
  and the entitlement race meet. `MaxBroadcasts` 2 separates "attempt left" from
  "exhausted" (the code's 3 adds a repetition); 2 confirmations is the code's own
  value and `MaxDepth` stops counting there, since nothing reads more. Two attempts
  at picking coins (`Node`) separate "again" from "give up"; `Live` has one, since a request
  that found no coins has no claim to strand. Crashes:
  one is enough to stop at every await, and after it the recovery starts from an
  arbitrary durable state. Counter bounds are guards on the environment and on
  retries, and never on a step the code must be able to take.
* **Breaker.** Limits of 1 and 2 reached by 3 requests put every comparison at
  its edge; the window of 1 tick with a clock to 2 has entries inside, on and
  past it; actual costs lie below and above the estimate.
* **Scans.** Branch b overtakes branch a by more than one block, a coin is
  replaced by another (equal count, different coins), a branch restores a spent
  coin, and an entry can be one block, three blocks or a branch behind. Two
  generations of an object are what a pass and the table can hold of one key.
  `MaxCoins` 1 and `MaxUnion` 2 make caps and batches bite. `Crowds` bounds which
  clients take part together; `Tips` which blocks may become the best one.
* **Alerts.** The tree has a fork within the window and one below it, a branch
  that carries the payment again at another height, and one that never does; the
  window of 3 with 2 confirmations is the smallest in which a fork may be inside,
  at the edge or below. Two passes is overlap; one failure may hit any RPC.
* **Wallets.** A window of 4 that starts at 2 widens and reaches its end; the coin
  inherited at change index 1 sits within the margin. Two payments are needed to
  share a change address, a receipt beyond the first window to be missed. Two requests
  on two windows overtake, replace and lose each other.
* **Node and Services.** `Values` has every amount around the dust limit and around the fees
  of one input with and without change, at rates above and below a whole satoshi.
  Two networks, two flows, two lookups or two runs are what can overtake each other;
  three where a third state matters (an extra practice network, a third search). The two
  practice networks of `HotAccounts` are alike, so its behaviours start on one of them; two
  refreshes and the lookup of a chosen type are in flight at once. `Services` is the largest
  instance, about 2.1 million states in all.
  Rates, queues and caps are set to 1 or 2 so that they are reached. A reorganisation of
  two steps can undo a confirmation and redo it; the practice network's relay has more
  reads than slots. Beyond these instances the theorems of section 6 hold for all bounds.

Deadlock checking is on for the watch and off elsewhere: requests, jobs and the
clock are finite there and the system comes to rest.

### Fairness

* Faucet: the 30 s interval always runs again and visits every unfinished claim
  (strong fairness per claim, since the worker is busy in between); the lock is a FIFO
  chain of promises (strong fairness of `Enter`); an awaited call returns or
  times out (weak fairness of a pass). Clients, crashes and the network owe nothing.
* Scans: RPCs answer or time out, and code whose await is over goes on (weak
  fairness of the scan cycle, of follow and of `Resubmit`). New requests, blocks and
  garbage collection are not fair.
* Watch: `setInterval` fires again (weak fairness of some `Start`), an RPC
  answers or fails (weak fairness of each pass). Blocks and the mempool are not fair.
* Session: the page refreshes every two minutes, and a scan is answered and its
  answer taken (weak fairness of `Ask`, `Answer`, `TakeAnswer`). Failed scans and
  reloads are bounded; payments and blocks owe nothing.
* Hand-off: messages between open windows arrive, a window loads, `setInterval`
  polls (weak fairness of `SwapHears`, `WalletHears`, `Load`, `PollSeesClosed`), and
  the person does not leave a window open for ever (weak fairness of `Close`): a
  request nobody answers ends only by that. Approving owes nothing.

## 4. Properties worth knowing

* `AtMostOnePayment` holds **without the per-claim lock**, with a signer that
  signs differently each time and an explorer that lies, as `claimlock.mjs`
  claims. `OnceInv` says why: an entitlement has one row, bytes are stored only on
  leaving AUTHORISED and never replaced, and a pass that may send carries its row's bytes.
* `DisjointPayments` holds where no coin is ever retired, i.e. with no own node.
  With one, a coin that became a guard during the await can be promised again:
  that is the finding `GuardedNotReserved`.
* `VerdictsAreTrue` is about states without a reorganisation so far; with one,
  CONFIRMED is history and the guard's reason says so.
* `LatchDurable` and `NoAutoResume` are about writes that succeed and a valid
  configuration; with `SavesFail = TRUE` the first does not hold, which the code accepts.
* `EntryExact` holds although a pass reads the chain with separate RPCs and shares
  blocks by height between entries: the parent comparison of each block saves it.
* `WindowIsBranch` and `ReversedIsGone` are conditional: passes did not overlap
  and the chain moved only between passes. Both conditions are needed. A newer
  block recorded from the new branch hides orphaned heights below it from
  `_detectReorg`, and overlapping passes leave gaps. For the same reason
  `CatchesUp` says again and again, not for good: two passes that overlap for ever
  can roll each other back for ever.
* `NeverTwiceOffered` needs the marks of `session.js:27`: an answer to a scan asked
  before a payment lists its inputs as spendable.
* `DistinctChange` and `CoinsAreFound` stop at the last address of the window, where
  the code clamps the counters on purpose (`session.js:243`). `changeIndex` itself is not
  clamped: once the counter has reached the last address, later payments take that
  one or the one past it.
* `TerminalIsFinal` needs truthful services or the per-claim lock. With neither,
  `markFailedSafe` (`claimflow.mjs`), which bypasses the transition matrix, can overwrite
  what another pass of the same claim has concluded.
* `MentionPaysOnce` holds although a write may fail, because `handle` pays only
  after the mark is on disk; it does not bound what one account gets (below).
* `PaymentIsAsShown` is about what the chain does with the bytes, not about the
  code's own bookkeeping: sums are taken over real amounts, and for inputs whose
  amount the node lied about only those count that could be relayed.
* `BalancesAreOfShownUnlessStraddled` (in `AnswersAreOfAsked`) is what is left of "each pill
  carries its own balance" (`web/ui.js:476-478`): it holds in every behaviour in which no
  network was chosen while a refresh of another was awaited, and no script type while the
  newest refresh of another account was. Without that condition it fails, by two orders
  that section 5 names. The receive address needs no such condition.
* `UnsavedKeyHoldsForm` says what the `finally` of a vanity search gets right when it runs
  late: behind a found key it changes nothing. What it gets wrong behind a search that
  still runs is in section 5.
* `SeedStaysCovered` rests on the lock screen being a reload, which ends every handler,
  and on `showPane` closing the backup viewer: a handler that fills the viewer after its
  30 ms fills it hidden.
* `ToldOnce` (in `AlertsSound`) counts messages per alert and occasion over restarts and overlapping
  runs: the insertion of the seen mark decides, not the earlier look.

## 5. Findings

1. `GuardedNotReserved`: coin selection reads held coins before an await, and
   only live reservations are re-checked at commit (`server.mjs:106`, against
   `ledger.mjs:100-101`). Needs a UTXO listing older than the spend it lists.
2. `AuthorisedCompletes`: a signer that throws once strands its claim
   (`claimflow.mjs:56`, against `recovery.mjs:2-3`).
3. `BadConfigStaysTripped`: reset and SIGHUP resume a breaker whose limits are
   invalid (`breaker.mjs:177`, against `breaker.mjs:75-76` and `:165`).
4. `FreshAfterRelay`: a poll in flight stores outdated mempool answers after a
   broadcast dropped them (`lib.mjs:298`, against `lib.mjs:302` and `server.mjs:303`).
5. `NeverSilentlyWrong`: a reversal deferred because the payment is back in the
   mempool is never looked at again (`addrwatch.mjs:50`, against `addrwatch.mjs:6-7`).

Further disagreements with a comment or the docs are stated as properties of
their modules, each with the line it is about, but have no run of their own:

| Property | Module | Where it fails |
|---|---|---|
| `UsedStaysUsed` | WalletSession | the clamp of `session.js:243` offers a used address again beyond a gap |
| `ChangeIsScanned` | WalletSession | change may go to index `win.max`, which no scan covers (`session.js:144`, against `:149`) |
| `ConfirmedIsMined` | WalletSession | inputs that left the UTXO set may have been spent by another device (`session.js:253`) |
| `MoveCoversRate` | WalletSpend | the second rebuild of `tx.js:214-218` is not measured again |
| `AbandonedIsNotSaved` | WalletPage | a save that was left while it encrypts still downloads its file (`ui.js:338`) |
| `SearchHoldsForm`, `StopReachesIt` | VanityPanel | a search stopped at the server ends later; its `finally` frees the form and clears `vRun` under the search that runs by then (`ui.js:1056-1057`, against `:932`), and Stop does nothing (`:1060`, `:1100`) |
| `KeyIsNotReplaced` | VanityPanel | that search finds its key and replaces one that is unsaved (`ui.js:1062`, against `:1101-1103`) |
| `KeyLeavesWithScreen`, `StartComesBack` | VanityPanel | a key found while the pane is left survives (`ui.js:896`); a search stopped in the browser never settles, so its Start button stays away (`entry.js:195`, `ui.js:1096`) |
| `MainnetSeedIsStrong` | HotVault | a wallet saved under a PIN on a practice network stays so on mainnet: only `vault.save` looks at the network (`web/ui.js:224-227`, against `:83` and `entry.js:109`) |
| `SavedIsAWallet` | HotVault | Skip or "Switch wallet" in the 30 ms of a save empties the words it then encrypts (`web/ui.js:326`, `:1034`, `:1044`) |
| `BackupIsOfOpenWallet` | HotVault | the backup viewer fills with the words of the wallet before (`web/ui.js:1218`) |
| `BalancesAreOfShown` | HotAccounts | a lookup of another network stores after `setNetwork` cleared the balances, and a failed newer one keeps that (`web/ui.js:464`, `:467`, `:469`); `refreshAccount` stores under the type picked meanwhile (`:643`, against `:476-478`) |
| `DiscoveriesAreOfShownNetwork` | HotAccounts | `setNetwork` keeps the discoveries (`web/ui.js:226`), and a type once discovered is not discovered again (`:500`, against `:446-449`) |
| `KeysAreRotated` | HotFlows | `web/entry.js:144` does not pass the key index on |
| `AccountPaysOnce` | NostrBot | two mentions of one account pass the 24 h check together (`bot.mjs:62`, against `:3`) |
| `SubprocessesCapped` | BroadcastRelay | a request is counted before its body is read (`server.mjs:61`, against `:16`) |

## 6. Theorems

Every theorem is for all values of the constants that satisfy the named
assumptions (`LedgerAssumption`, `FaucetAssumption`, `BreakerAssumption`,
`TreeAssumption`, `NodeAssumption`, `ScanAssumption`, `WatchAssumption`,
`WindowAssumption`, `ConnectAssumption`, `QueueAssumption`, `RelayAssumption`,
`BroadcastAssumption`, `RequestsAssumption`, `StreetAssumption`, `NotifyAssumption`,
`AuthorAssumption`, `PanelAssumption`, `ScreenAssumption`, `PriceAssumption`,
`FlowsAssumption`, `PageAssumption`, `LockedAssumption`, `GapAssumption`). Most say only
what kind of thing each constant is and how trees and UTXO sets are built; TLC evaluates
them in every run of their modules. These say something about the world:

* a transaction is in one block of a branch (`WatchAssumption`, Bitcoin's rule);
* scripts, coins, requests and the transactions of a mempool are finitely many
  (`ScanAssumption`, `RelayAssumption`, `BroadcastAssumption`, `RequestsAssumption`,
  `StreetAssumption`: the code counts them);
* what a wallet inherits lies within its window (`WindowAssumption`), a gap is one address
  at least (`GapAssumption`), the street view keeps one block at least (`StreetAssumption`);
* a mention has an author (`AuthorAssumption`: the signed event names its key);
* the files a person brings along are of the older format, or were made by this page
  (`PageAssumption`); a backup of the older format that records which wallet it is records
  the right one (`LockedAssumption`). Without the latter a hand-made file could
  be believed about its own contents, which is not what the code promises.

What a theorem assumes beyond that stands in its statement: `SuccessIsReal` truthful
services, `TerminalStaysFinal` truthful services or the lock, `NeverAutoResumes` and
`LatchSurvives` what `Breaker` says of writes and the configuration.

| Module | Theorems | Argument |
|---|---|---|
| FaucetOnce | `TypeCorrect` | `TypeOK` is inductive; one lemma per group of actions |
| | `OnceInvariant`, `WriteAheadAlways`, `PaidAtMostOnce` | `OnceInv` (with `TypeOK`) is inductive. `AtMostOnePayment` alone is not: a pass parked before its send with other bytes would break it. Most steps are *calm*: they commit no bytes and take no claim back, and calm steps keep what is said of every other actor |
| | `FaucetKeepsPromise` | under `OnceInv`, `Sign` is `Commit`, `Transmit` is `Send` or a resend, everything else stutters |
| FaucetCustody | `CoinInvariant`, `CoinsStayHeld`, `LateSigningIsSafe`, `ExplorerIsAdvisory`, `PaymentsAreDisjoint` | `CoinInv`: a coin of a row is that row's until it is guarded, guards stay, and bytes spend exactly their row's coins |
| | `VerdictsHold` | `TruthInv`: until a block is disconnected, what a pass has read (depth, other spender) only becomes truer before it is applied, so a verdict is true when written and stays so |
| | `TerminalStaysFinal` | with the lock, `LockInv`: a claim has one pass, so what it read of the row is the row; with truthful services no answer leads to the step that could overwrite |
| | `SuccessIsReal` | `SentInv`: a truthful explorer or node knows only bytes that were handed to it |
| | `ReleaseIsRetirement` | a property of each step: `retireToGuard` is the only one that frees, and it guards and ends in the same transaction |
| BreakerProofs | `BreakerTypeCorrect`, `VelocityLimited`, `BurstsTrip`, `LatchSurvives`, `NeverAutoResumes` | `VelocityInv`: every payout granted in the window is still in the list that `authorize` counts; `LatchInv` and `BurstInv` tie latch, file and rejects |
| | `TokensStayOwn` | `TokenInv`: no identifier in the window or with a handler is above the counter, so a new one is nobody else's, whatever a reset or reload in between forgets |
| UtxoScanProofs | `ScanTypeCorrect`, `EntriesAreExact`, `AnswersAligned` | `ScanInv`: types, objects keyed by their script set, every object exact for its block (`HeapOK`), what a follow pass has checked about its object (`FollowOK`), what a poll holds (`PollOK`) |
| | `JobsAreNeverLost` | `Books`: the queue holds each waiting job once and nothing else, the batch is what is being scanned, a cycle runs exactly while there is a batch; and every object the table serves is within the cap, though one it dropped may outgrow it |
| AddrWatchProofs | `WatchTypeCorrect`, `AlertsWereBuried`, `WindowStaysBounded` | `WatchInv`: a hash a pass holds was read below its tip and is buried (`PassOK`), so recording it keeps `BuriedOnly` wherever the chain has gone |
| | `WindowStaysABranch`, `ReversalsAreTrue` | an invariant that follows the one pass through its awaits: which heights it has compared, that what it recorded since is on the best chain, and where the transactions of orphaned alerts cannot be. A branch is the least set closed under `Parent`, which is what the recursive `Below` computes |
| WalletProofs | `SessionTypeCorrect` | `TypeOK`, with the highest index of a finite set of coins |
| | `NothingOfferedTwice`, `DroppedForGood` | `SessionInv`: a coin is made once and spent coins do not come back; an answer on its way, mended by the coins kept back, marks every coin of a payment in the mempool. `NeverTwiceOffered` alone breaks at `TakeAnswer` |
| | `ChangeIsFresh` | `SessionInv`: every change address told to the node is behind the counter in memory *and* the one in the storage, or is the last; a reply lost before the counter was written is a payment not told |
| | `ConnectTypeCorrect`, `AnswersAreOwn`, `SignaturesSpend`, `ButtonIsAboutTheScreen` | `ConnectInv`: a message is true when posted and stays true, since requests are only added; a promise ends with a message about itself; and what passes `signHtlcSpend` is accepted on the branch it chose (`SignedIsAccepted`) |
| NodeServiceProofs | `OneSearch` | `QueueInv`: the job list, the line and the one running agree (`Booked`), a line forms only behind a running job, and the processes are that of the running job |
| | `SlotsServe` | `RelayInv`: a line forms only while every slot is taken (`Line`), and a read somebody shares is held or waiting in it |
| | `BroadcastCounter`, `PrevtxPlaces` | the property with its types (`BroadcastInv`, `RequestsInv`); cardinalities of finite sets under one more and one less |
| | `ShownIsOneListing` | `StreetInv`: the transactions listed when a poll began cover what is waiting, read or shown until the next one begins |
| | `AlertsOnce` | `NotifyInv`: no user is over the limit in the table, and what was told is marked as seen, on disk, first |
| | `MentionsArePaidOnce` | a mention being claimed is marked on disk and unpaid, a paid one is marked on disk, and memory never holds less than the disk while the process runs with its file read (`Recorded`): so no delivery starts a second claim |
| | `PlacesAreKept` | the four above that speak of places, together |
| PageProofs | `CardsLive` | `CardsInv`: the property, and that no file is being read on the testnet page |
| | `SeedIsCovered` | `VaultInv`: under the lock screen no sheet is open and no handler but an unlocking one waits, so none that resumes can uncover anything |
| | `KeyHoldsForm` | `PanelInv`: the property, and outside its pane no run is at the buttons, so going back to a key finds none |
| | `AccountsSound` | `LookupsInv`: while an account is open, the newest refresh is of that account, and while nothing was straddled every lookup that will store is of the network shown (`AccountsInv` adds the property) |
| | `ScreenSound` | `ScreenInv`: the session shown knows its coins or is being looked up, and its box and button say which |
| | `PricesRecent` | `PriceInv`: no quote is older than the feed takes it to be |
| | `PaymentsSound` | `PayInv`: one payment from Review to its end is at one of its prompt, its sheet or its broadcast, and `reviewing` stands as long as it is |
| | `FlowsSound` | `FlowsInv`: flows are told apart by number; the one whose sheet is open has the bytes shown |
| | `WalletsHaveFiles` | `PageInv`: files are right or old, and a handler past its conversion has a file in the current format |
| | `PasswordsGetSecrets` | `LockedInv`: the held wallet has its file's secret described on every network and its passphrase locked when the file lacks it (`HeldWell`) |
| | `WalletIsFound` | `AccountInv`: every used address is `Near` an earlier one, so a discovery that has seen a gap has linked all addresses below (`Linked`), and what it counted it found (`JobInv`) |
| | `WhatIsSignedWasShown`, `LateAnswersAreTold`, `WalletsCanBeReopened` | what a person at the pages relies on, from the theorems above |

The type invariants and the inductive invariants (`TypeOK`, `OnceInv`, `CoinInv`,
`TruthInv`, `VelocityInv`, `LatchInv`, `TokenInv`, `ScanInv`, `WatchInv`, `SessionInv`,
`ConnectInv`, and those of NodeServiceProofs and PageProofs)
are proved and therefore no property of a run; TLC checked each of them on the small
instances before its proof.

The provers cannot apply an induction theorem to a predicate. Where a proof needs
induction it takes a least element instead: a non-empty set of natural numbers has one
(`Least` in AddrWatchProofs, `SmallestNat` in the others, from the library's
well-foundedness of `<`), so the lowest block that breaks a claim about branches, the largest
index of a set of coins, or the first address out of reach can be picked. And what the
street view drops from its lists is described by the rank of what stays (`EntriesAt`),
since a filter defined by a fold cannot be opened.

## 7. Only model-checked, and not modelled

Model-checked only:

* liveness (`NeverParked`, `JobsEnd`, `CatchesUp`, `CoinsAreFound`, `RequestsEnd`),
  which the prover does not do;
* `PaymentIsAsShown`: what `WalletSpend` and `OfflineSigner` compute are sums of folds over the inputs chosen,
  so every fact about them is an induction over data.

Left out of what is modelled: amounts and scripts in the faucet (beyond the breaker's
units); the human check and the IP limit (reasons of `Refuse`); the wording of
replies; the ledger's readers for the dashboard; the daily digest and failed
deliveries of the notify bot; a second tab on the same storage; another wallet
opened over the balances of the first on the testnet page; reorganisations under
a wallet session; HTTP routing; the pages' language, message and tools panes.

Not modelled at all: key derivation, encodings, signatures, encryption (pure
functions over bytes); bundling and static pages (I/O); dashboards (displays); the
legacy root page, which nothing links to the rest.

## 8. Plan

Done, in this order: the payout engine with its ledger and the abstract promise;
the breaker; the UTXO-set scans; the address watch; the Nostr bot; the node API's
other services and the broadcast relay; the wallet session, payments, discovery, the
hand-off and the offline signer; the pages; the notify bot's commands and watchers; the proofs
about all of them. To do:

1. An abstract specification of a payment (chosen, shown, sent) that `WalletPay` and
   `HotFlows` both refine.
2. The notify bot's delivery, with messages lost and sent twice.
