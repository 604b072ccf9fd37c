------------------------------ MODULE NostrBot ------------------------------
(***************************************************************************)
(* The Nostr faucet bot (packages/bitcoin/nostr): mentions come from several  *)
(* relays, any number of times, and again after each reconnect; the bot marks *)
(* one as consumed on disk, asks the faucet to pay, and replies.             *)
(***************************************************************************)
EXTENDS Naturals

CONSTANTS
    Mentions,     \* events that mention the bot with an address, signatures valid
    Authors,
    AuthorOf(_),
    MaxBotCrashes, MaxFaults   \* bounds: restarts; failed writes and payments

ASSUME AuthorAssumption == \A m \in Mentions : AuthorOf(m) \in Authors

VARIABLES
    posted,       \* mentions the relays hold, no older than the subscription's since
    seen,         \* store.seen
    claimed,      \* store.claims: authors paid in the last 24 h
    disk,         \* the state file: [seen, claimed]
    healthy,      \* the state file was read
    up,           \* the process runs
    claiming,     \* mentions whose faucet call is under way
    paid,         \* how many times the faucet paid each mention
    botCrashes, faults        \* counters (bounds)
botVars == <<posted, seen, claimed, disk, healthy, up, claiming, paid, botCrashes, faults>>
budget == <<botCrashes, faults>>

File(s, c) == [seen |-> s, claimed |-> c]

Post(m) ==
    /\ m \notin posted
    /\ posted' = posted \cup {m}
    /\ UNCHANGED <<seen, claimed, disk, healthy, up, claiming, paid, budget>>
Age(m) ==                                              \* older than a restart's since
    /\ m \in posted /\ ~up
    /\ posted' = posted \ {m}
    /\ UNCHANGED <<seen, claimed, disk, healthy, up, claiming, paid, budget>>

(***************************************************************************)
(* handle, up to the faucet call: no await before it.  markSeenDurable keeps  *)
(* the id only if the file was written.                                      *)
(***************************************************************************)
\* Mutant: consumed in memory, written with the claim.
MarkSeenLater(m) == seen' = seen \cup {m} /\ UNCHANGED <<disk, faults>>
MarkSeenDurable(m) ==
    \/ /\ seen' = seen \cup {m}
       /\ disk' = File(seen', claimed)
       /\ UNCHANGED faults
    \/ /\ faults < MaxFaults                           \* bound
       /\ faults' = faults + 1
       /\ UNCHANGED <<seen, disk>>
Handle(m) ==
    /\ up /\ healthy
    /\ m \in posted \ seen
    /\ MarkSeenDurable(m)
    /\ claiming' = IF m \in seen' /\ AuthorOf(m) \notin claimed THEN claiming \cup {m} ELSE claiming
    /\ UNCHANGED <<posted, claimed, healthy, up, paid, botCrashes>>

(***************************************************************************)
(* The faucet pays or refuses, then the answer arrives, or the call fails     *)
(* although it may have paid; setClaim keeps the time if the write fails.     *)
(***************************************************************************)
Pays(ms) == paid' = [m \in Mentions |-> IF m \in ms THEN paid[m] + 1 ELSE paid[m]]
Answered(m) ==
    /\ up /\ m \in claiming
    /\ claiming' = claiming \ {m}
    /\ \/ /\ Pays({m})
          /\ claimed' = claimed \cup {AuthorOf(m)}
          /\ \/ disk' = File(seen, claimed') /\ UNCHANGED faults
             \/ faults < MaxFaults /\ faults' = faults + 1 /\ UNCHANGED disk
       \/ /\ faults < MaxFaults /\ faults' = faults + 1   \* refused, or the answer is lost
          /\ Pays({m}) \/ UNCHANGED paid
          /\ UNCHANGED <<claimed, disk>>
    /\ UNCHANGED <<posted, seen, healthy, up, botCrashes>>
DayPasses(a) ==
    /\ a \in claimed \cup disk.claimed
    /\ claimed' = claimed \ {a}
    /\ disk' = [disk EXCEPT !.claimed = @ \ {a}]
    /\ UNCHANGED <<posted, seen, healthy, up, claiming, paid, budget>>
Persist ==                                             \* every minute and on SIGTERM
    /\ up /\ healthy
    /\ disk' = File(seen, claimed) /\ disk' # disk
    /\ UNCHANGED <<posted, seen, claimed, healthy, up, claiming, paid, budget>>

(***************************************************************************)
(* A crash: the faucet may still pay what was asked.  A file that cannot be   *)
(* read leaves the bot refusing everything, until it is removed by hand.      *)
(***************************************************************************)
Crash ==
    /\ up /\ botCrashes < MaxBotCrashes                \* bound
    /\ botCrashes' = botCrashes + 1
    /\ up' = FALSE
    /\ \E late \in SUBSET claiming : Pays(late)
    /\ claiming' = {}
    /\ UNCHANGED <<posted, seen, claimed, disk, healthy, faults>>
BotRestart ==
    /\ ~up
    /\ up' = TRUE
    /\ \/ /\ healthy' = TRUE
          /\ seen' = disk.seen /\ claimed' = disk.claimed
          /\ UNCHANGED faults
       \/ /\ faults < MaxFaults /\ faults' = faults + 1
          /\ healthy' = FALSE
          /\ seen' = {} /\ claimed' = {}
    /\ UNCHANGED <<posted, disk, claiming, paid, botCrashes>>

BotInit ==
    /\ posted = {} /\ seen = {} /\ claimed = {} /\ disk = File({}, {}) /\ healthy = TRUE /\ up = TRUE
    /\ claiming = {} /\ paid = [m \in Mentions |-> 0] /\ botCrashes = 0 /\ faults = 0
BotNext ==
    \/ \E m \in Mentions : Post(m) \/ Age(m) \/ Handle(m) \/ Answered(m)
    \/ \E a \in Authors : DayPasses(a)
    \/ Persist \/ Crash \/ BotRestart
BotSpec == BotInit /\ [][BotNext]_botVars

(***************************************************************************)
(* Properties.                                                              *)
(***************************************************************************)
\* A mention is paid at most once, whatever the relays deliver again, wherever the
\* process dies and whichever write fails (dedup.mjs 3-6, bot.mjs 67-69).
MentionPaysOnce == \A m \in Mentions : paid[m] <= 1
\* Two mentions of one account are not paid while its last payment is less than a
\* day old (bot.mjs 3, "one claim per Nostr account per 24h").
AccountPaysOnce ==
    [][\A m \in Mentions : paid'[m] > paid[m] => AuthorOf(m) \notin claimed]_botVars
=============================================================================
