------------------------------ MODULE NotifyBot ------------------------------
(***************************************************************************)
(* The chat bot around the address watcher: what users ask for by message  *)
(* or by tapping (notify/bot.mjs), the table of alerts, the feed intake    *)
(* and the price, fee and block watchers.  Updates are handled one at a    *)
(* time, but a restart makes Telegram deliver again whatever the next      *)
(* getUpdates had not confirmed; the watchers run every minute whether or  *)
(* not the last run has ended, and each reads its alerts before it awaits. *)
(* The address watcher itself is AddrWatch.                                *)
(***************************************************************************)
EXTENDS Integers, FiniteSets, Sequences, FiniteSetsExt

CONSTANTS Chats,        \* users
          NoAsk,        \* no value asked for
          Runs,         \* runs of the watchers that may be under way together
          MaxSubs,      \* MAX_SUBS_PER_USER
          MaxIds, MaxUpdates, MaxTip, MaxPosts, MaxMoves, MaxBotRestarts

ASSUME NotifyAssumption == MaxSubs \in Nat

VARIABLES table,               \* [id -> row] the subs table, rows in order of insertion
          seenTable,           \* the seen table: <<id, key>>
          muted,               \* chats whose mute_until is ahead
          pendingAsk,          \* [chat -> the value a button asked for] pending, in memory
          inbox,               \* updates Telegram holds, oldest first
          handled,             \* how many of them the bot has handled since its last getUpdates
          run,                 \* [run -> where it is and the alerts it read]
          world,               \* [price, cheap, tip] the exchange, the fee estimate, the chain
          lastPrice, lastTip,  \* in memory; -1 before the first reading
          told,                \* [<<id, key>> -> how many messages] what was dispatched
          spent                \* [updates, posts, moves, crashes] against the bounds

notifyVars == <<table, seenTable, muted, pendingAsk, inbox, handled, run, world,
                lastPrice, lastTip, told, spent>>

Watchers == <<"price", "fee", "blocks">>
Sizes == 0..1          \* a feed event's size, and the filter 0 (all) or 1 (large)
Sides == 0..1          \* a price alert: 0 below, 1 above
RowIds == DOMAIN table
SeenKeys == ({"event"} \X (1..MaxPosts) \X Sizes) \cup ({"tip"} \X (0..MaxTip) \X {0})

(* A row of subs: `arg` is the side of a price alert or the filter of a    *)
(* feed; `hot` is a last_fired less than six hours ago.                    *)
Row(c, kind, arg, repeat) ==
  [chat |-> c, kind |-> kind, arg |-> arg, repeat |-> repeat, active |-> TRUE, hot |-> FALSE]

Active(t, kind) == {i \in DOMAIN t : t[i].active /\ t[i].kind = kind}
ActiveOf(t, c) == {i \in DOMAIN t : t[i].active /\ t[i].chat = c}
CapOk(t, c) == Cardinality(ActiveOf(t, c)) < MaxSubs
Added(t, row) == Append(t, row)
Dropped(t, ids) == [i \in DOMAIN t |-> IF i \in ids THEN [t[i] EXCEPT !.active = FALSE] ELSE t[i]]
AddedIfCapOk(t, row) == IF CapOk(t, row.chat) THEN Added(t, row) ELSE t

AtRest == [at |-> 0, ids |-> {}, cold |-> {}]

NotifyInit ==
  /\ table = <<>> /\ seenTable = {} /\ muted = {} /\ pendingAsk = [c \in Chats |-> NoAsk]
  /\ inbox = <<>> /\ handled = 0
  /\ run = [r \in Runs |-> AtRest]
  /\ world = [price |-> 0, cheap |-> FALSE, tip |-> 0]
  /\ lastPrice = -1 /\ lastTip = -1
  /\ told = [x \in (1..MaxIds) \X SeenKeys |-> 0]
  /\ spent = [updates |-> 0, posts |-> 0, moves |-> 0, crashes |-> 0]

(***************************************************************************)
(* Updates.                                                                *)
(***************************************************************************)
Update(c, cmd, arg) == [chat |-> c, cmd |-> cmd, arg |-> arg]
Updates ==
  {Update(c, cmd, 0) : c \in Chats, cmd \in {"watch", "fee", "mute", "ask", "text", "tapBlocks", "tapFeed"}}
    \cup {Update(c, "price", a) : c \in Chats, a \in Sides}
    \cup {Update(c, "remove", a) : c \in Chats, a \in 1..MaxIds}
    \cup {Update(c, "tapSize", a) : c \in Chats, a \in Sizes}

TypesUpdate(u) ==
  /\ spent.updates < MaxUpdates
  /\ spent' = [spent EXCEPT !.updates = @ + 1]
  /\ inbox' = Append(inbox, u)
  /\ UNCHANGED <<table, seenTable, muted, pendingAsk, handled, run, world, lastPrice, lastTip, told>>

(* What one update leaves in the table.  A free text is the value a button *)
(* asked for (a price target here), and otherwise an address to watch.     *)
FeedOf(t, c) == Active(t, "feed") \cap ActiveOf(t, c)
BlocksOf(t, c) == Active(t, "blocks") \cap ActiveOf(t, c)

Table(u) ==
  LET c == u.chat
  IN CASE u.cmd = "watch" \/ (u.cmd = "text" /\ pendingAsk[c] = NoAsk)
            -> AddedIfCapOk(table, Row(c, "addr", 0, TRUE))
       [] u.cmd = "text" /\ pendingAsk[c] # NoAsk
            -> AddedIfCapOk(table, Row(c, "price", 1, FALSE))
       [] u.cmd = "price" -> AddedIfCapOk(table, Row(c, "price", u.arg, FALSE))
       [] u.cmd = "fee" -> AddedIfCapOk(table, Row(c, "fee", 0, TRUE))
       [] u.cmd = "remove" -> Dropped(table, {u.arg} \cap ActiveOf(table, c))
       [] u.cmd = "tapBlocks"
            -> IF BlocksOf(table, c) # {} THEN Dropped(table, BlocksOf(table, c))
               ELSE AddedIfCapOk(table, Row(c, "blocks", 0, TRUE))
       [] u.cmd = "tapFeed"
            -> IF FeedOf(table, c) # {} THEN Dropped(table, FeedOf(table, c))
               ELSE AddedIfCapOk(table, Row(c, "feed", 1, TRUE))
       [] u.cmd = "tapSize" /\ FeedOf(table, c) # {}
            -> Added(Dropped(table, FeedOf(table, c)), Row(c, "feed", u.arg, TRUE))
       [] OTHER -> table

HandleUpdate ==
  /\ handled < Len(inbox)
  /\ LET u == inbox[handled + 1] IN
       /\ Len(Table(u)) <= MaxIds
       /\ table' = Table(u)
       /\ muted' = IF u.cmd = "mute" THEN muted \cup {u.chat} ELSE muted
       /\ pendingAsk' = CASE u.cmd = "ask" -> [pendingAsk EXCEPT ![u.chat] = "price"]
                          [] u.cmd = "text" -> [pendingAsk EXCEPT ![u.chat] = NoAsk]
                          [] OTHER -> pendingAsk
  /\ handled' = handled + 1
  /\ UNCHANGED <<seenTable, inbox, run, world, lastPrice, lastTip, told, spent>>

(* The next getUpdates carries the offset: Telegram forgets what it covers.*)
GetUpdates ==
  /\ handled > 0
  /\ inbox' = SubSeq(inbox, handled + 1, Len(inbox))
  /\ handled' = 0
  /\ UNCHANGED <<table, seenTable, muted, pendingAsk, run, world, lastPrice, lastTip, told, spent>>

MuteEnds(c) ==
  /\ c \in muted
  /\ muted' = muted \ {c}
  /\ UNCHANGED <<table, seenTable, pendingAsk, inbox, handled, run, world, lastPrice, lastTip, told, spent>>

(***************************************************************************)
(* Messages to the alerts in `ids`: marked as seen first, and sent only to *)
(* a chat that is not muted.                                               *)
(***************************************************************************)
\* Mutant: the seen table is not consulted.
NewToAll(ids, key) == ids

NewTo(ids, key) == {i \in ids : <<i, key>> \notin seenTable}
Heard(ids) == {i \in ids : table[i].chat \notin muted}

Tell(ids, key) ==
  /\ seenTable' = seenTable \cup {<<i, key>> : i \in ids}
  /\ told' = [x \in DOMAIN told |->
                IF x[2] = key /\ x[1] \in Heard(ids) THEN told[x] + 1 ELSE told[x]]

(* A detector posts an event, or posts it again because the first answer   *)
(* was lost: the filter, then seen, then dispatch, in one go.              *)
Posted(n, size) ==
  /\ spent.posts < MaxPosts + 1
  /\ n <= spent.posts + 1
  /\ spent' = [spent EXCEPT !.posts = @ + 1]
  /\ LET key == <<"event", n, size>>
         ids == {i \in Active(table, "feed") : table[i].arg <= size}
     IN Tell(NewTo(ids, key), key)
  /\ UNCHANGED <<table, muted, pendingAsk, inbox, handled, run, world, lastPrice, lastTip>>

(***************************************************************************)
(* The watchers.  A run goes through them in order; each reads its alerts, *)
(* awaits one reading of the world and judges the alerts it had read.      *)
(***************************************************************************)
Reads(n, t) ==
  LET later == {m \in n + 1..Len(Watchers) : Active(t, Watchers[m]) # {}}
  IN IF later = {} THEN AtRest
     ELSE LET ids == Active(t, Watchers[Min(later)])
          IN [at |-> Min(later), ids |-> ids, cold |-> {i \in ids : ~t[i].hot}]

Minute(r) ==
  /\ run[r] = AtRest
  /\ Reads(0, table) # AtRest
  /\ run' = [run EXCEPT ![r] = Reads(0, table)]
  /\ UNCHANGED <<table, seenTable, muted, pendingAsk, inbox, handled, world, lastPrice, lastTip, told, spent>>

AtWatcher(r, watcher) == run[r].at # 0 /\ Watchers[run[r].at] = watcher
GoesOn(r, t) == run' = [run EXCEPT ![r] = Reads(run[r].at, t)]

(* No answer from the exchange or the node: the watcher returns.           *)
Unanswered(r) ==
  /\ run[r] # AtRest
  /\ GoesOn(r, table)
  /\ UNCHANGED <<table, seenTable, muted, pendingAsk, inbox, handled, world, lastPrice, lastTip, told, spent>>

(* An alert fires when the price is on its side and was not at the last    *)
(* reading; a one-shot alert is then dropped.                              *)
Crossed(i) == world.price = table[i].arg /\ lastPrice # table[i].arg

PriceRead(r) ==
  /\ AtWatcher(r, "price")
  /\ LET fired == {i \in run[r].ids : Crossed(i)}
     IN table' = Dropped(table, {i \in fired : ~table[i].repeat})
  /\ lastPrice' = world.price
  /\ GoesOn(r, table')
  /\ UNCHANGED <<seenTable, muted, pendingAsk, inbox, handled, world, lastTip, told, spent>>

FeeRead(r) ==
  /\ AtWatcher(r, "fee")
  /\ table' = IF world.cheap
              THEN [i \in RowIds |-> IF i \in run[r].cold THEN [table[i] EXCEPT !.hot = TRUE] ELSE table[i]]
              ELSE table
  /\ GoesOn(r, table')
  /\ UNCHANGED <<seenTable, muted, pendingAsk, inbox, handled, world, lastPrice, lastTip, told, spent>>

TipRead(r) ==
  /\ AtWatcher(r, "blocks")
  /\ LET key == <<"tip", world.tip, 0>>
     IN IF lastTip = -1 \/ world.tip <= lastTip THEN UNCHANGED <<seenTable, told>>
        ELSE Tell(NewTo(run[r].ids, key), key)
  /\ lastTip' = world.tip
  /\ GoesOn(r, table)
  /\ UNCHANGED <<table, muted, pendingAsk, inbox, handled, world, lastPrice, spent>>

(* Six hours pass for an alert no run is holding.                          *)
Cools(i) ==
  /\ i \in RowIds /\ table[i].hot
  /\ \A r \in Runs : i \notin run[r].ids
  /\ table' = [table EXCEPT ![i].hot = FALSE]
  /\ UNCHANGED <<seenTable, muted, pendingAsk, inbox, handled, run, world, lastPrice, lastTip, told, spent>>

(* The price, the fees and the tip move; a tip may fall back in a reorg.   *)
WorldMoves ==
  /\ spent.moves < MaxMoves
  /\ spent' = [spent EXCEPT !.moves = @ + 1]
  /\ \/ world' = [world EXCEPT !.price = 1 - @]
     \/ world' = [world EXCEPT !.cheap = ~@]
     \/ \E h \in {world.tip - 1, world.tip + 1} \cap (0..MaxTip) : world' = [world EXCEPT !.tip = h]
  /\ UNCHANGED <<table, seenTable, muted, pendingAsk, inbox, handled, run, lastPrice, lastTip, told>>

(* The process restarts: the tables survive, its memory does not, and the  *)
(* updates it had not confirmed come again.                                *)
ProcessRestarts ==
  /\ spent.crashes < MaxBotRestarts
  /\ spent' = [spent EXCEPT !.crashes = @ + 1]
  /\ pendingAsk' = [c \in Chats |-> NoAsk]
  /\ handled' = 0
  /\ run' = [r \in Runs |-> AtRest]
  /\ lastPrice' = -1 /\ lastTip' = -1
  /\ UNCHANGED <<table, seenTable, muted, inbox, world, told>>

NotifyNext ==
  \/ \E u \in Updates : TypesUpdate(u)
  \/ HandleUpdate \/ GetUpdates \/ WorldMoves \/ ProcessRestarts
  \/ \E c \in Chats : MuteEnds(c)
  \/ \E n \in 1..MaxPosts, size \in Sizes : Posted(n, size)
  \/ \E r \in Runs : Minute(r) \/ Unanswered(r) \/ PriceRead(r) \/ FeeRead(r) \/ TipRead(r)
  \/ \E i \in 1..MaxIds : Cools(i)

NotifySpec == NotifyInit /\ [][NotifyNext]_notifyVars

(* One message for one thing: no alert tells its user of the same feed     *)
(* event or of the same block height twice, although detectors post again, *)
(* the tip falls back and climbs again, runs overlap and the bot restarts  *)
(* in between (deliverEvent, watchBlocks and the seen table).              *)
ToldOnce == \A x \in DOMAIN told : told[x] <= 1

(* No user ever holds more alerts than the limit, although every command   *)
(* checks it in its own place, a new feed size is stored without checking  *)
(* and a restart runs the last commands again (capOk, setFeedMin).         *)
CapIsKept == \A c \in Chats : Cardinality(ActiveOf(table, c)) <= MaxSubs

(* Both: what a user of the bot relies on.                                *)
AlertsSound == ToldOnce /\ CapIsKept
==============================================================================
