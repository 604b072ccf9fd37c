----------------------------- MODULE StreetWatch -----------------------------
(***************************************************************************)
(* The node API's view of the last block and of the mempool (StreetWatch in   *)
(* nodeapi/lib.mjs): one poll at a time, each an await after another, with a  *)
(* mempool and a chain that move between the awaits and calls that may fail.  *)
(***************************************************************************)
EXTENDS Naturals, FiniteSetsExt, SequencesExt

CONSTANTS
    Txs,              \* transactions, numbers in the order of their fee rates
    NoTip,
    Room,             \* transactions a block has room for
    EntriesPerPoll,   \* entriesPerPoll
    ValuePerPoll,     \* valuePerPoll
    KeepArrivals,     \* keepArrivals
    KeepBlocks,       \* blocks remembered (6 in the code)
    MaxHeight,        \* bound: heights above the first
    MaxBlocks         \* bound: blocks found by the network

ASSUME StreetAssumption == IsFiniteSet(Txs) /\ KeepBlocks \in Nat \ {0}

VARIABLES
    nodeMempool, chain,  \* the node: its mempool, and its best block [height, hash]
    tip,                 \* the block shown, or NoTip
    blocks,              \* the blocks shown, newest first
    entries,             \* txid -> its value: "unread", "known" or "failed"
    pending,             \* listed, entry not read yet
    arrivals,            \* the newest arrivals: [tx, value, age], newest first
    step,                \* the await the poll is at, or "idle"
    live,                \* the listing of this poll
    want                 \* what the batch in flight asks for
streetVars == <<nodeMempool, chain, tip, blocks, entries, pending, arrivals, step, live, want>>
nodeVars == <<nodeMempool, chain>>
bookVars == <<entries, pending, arrivals>>

Listed == DOMAIN entries

(***************************************************************************)
(* The node.  A block takes transactions; a reorganisation may keep or lower  *)
(* the height for a while.                                                   *)
(***************************************************************************)
TxArrives(t) ==
    /\ t \notin nodeMempool
    /\ nodeMempool' = nodeMempool \cup {t}
    /\ UNCHANGED <<chain, tip, blocks, bookVars, step, live, want>>
TxEvicted(t) ==
    /\ t \in nodeMempool
    /\ nodeMempool' = nodeMempool \ {t}
    /\ UNCHANGED <<chain, tip, blocks, bookVars, step, live, want>>
NewBest(height) ==
    /\ chain.hash < MaxBlocks /\ height <= MaxHeight
    /\ height \in {chain.height + 1, chain.height} \cup {h \in {chain.height - 1} : chain.height > 0}
    /\ chain' = [height |-> height, hash |-> chain.hash + 1]
    /\ UNCHANGED <<nodeMempool, tip, blocks, bookVars, step, live, want>>

(***************************************************************************)
(* poll and the awaits of _poll.                                            *)
(***************************************************************************)
PollStreet ==
    /\ step = "idle"
    /\ step' = "info"
    /\ UNCHANGED <<nodeVars, tip, blocks, bookVars, live, want>>
PollFails ==
    /\ step # "idle"
    /\ step' = "idle" /\ want' = <<>>
    /\ UNCHANGED <<nodeVars, tip, blocks, bookVars, live>>

Info ==
    /\ step = "info"
    /\ step' = IF tip = NoTip \/ tip.height # chain.height THEN "stats" ELSE "list"
    /\ UNCHANGED <<nodeVars, tip, blocks, bookVars, live, want>>

\* Mutant: the new block is put in front of all the others.
WithBlockKept(b) == <<b>> \o blocks

\* The entries of seq at these places, in their order.
EntriesAt(seq, places) ==
    [k \in 1..Cardinality(places) |->
        seq[CHOOSE i \in places : Cardinality({j \in places : j < i}) = k - 1]]
WithBlock(b) == <<b>> \o EntriesAt(blocks, {i \in DOMAIN blocks : blocks[i].height # b.height})

FirstOf(seq, n) == SubSeq(seq, 1, IF Len(seq) < n THEN Len(seq) ELSE n)

Stats ==
    /\ step = "stats"
    /\ tip' = chain                              \* getblockstats, by height
    /\ blocks' = FirstOf(WithBlock(chain), KeepBlocks)
    /\ step' = "list"
    /\ UNCHANGED <<nodeVars, bookVars, live, want>>

\* The candidates for the next block, and what is read of them and of the arrivals.
Candidates(known) == {t \in known : Cardinality({u \in known : u > t}) < Room}
ToValue(values, news) ==
    LET unread == {t \in DOMAIN values : values[t] = "unread"}
        fresh  == {t \in unread : \E i \in DOMAIN news : news[i].tx = t}
        rest   == (Candidates(DOMAIN values) \cap unread) \ fresh
    IN  FirstOf(SetToSortSeq(fresh, >) \o SetToSortSeq(rest, >), ValuePerPoll)

(***************************************************************************)
(* getrawmempool: everything at once while nothing is known; later only the   *)
(* ids, compared with the books.                                            *)
(***************************************************************************)
\* Mutant: a transaction waiting for its entry is not dropped when it leaves.
StillPendingAll(listed) == pending

StillPending(listed) == pending \cap listed

ListAll ==
    /\ step = "list" /\ Listed = {} /\ pending = {}
    /\ entries' = [t \in nodeMempool |-> "unread"]
    /\ live' = nodeMempool
    /\ step' = "value" /\ want' = ToValue(entries', arrivals)
    /\ UNCHANGED <<nodeVars, tip, blocks, pending, arrivals>>
ListNew ==
    /\ step = "list" /\ Listed \cup pending # {}
    /\ live' = nodeMempool
    /\ entries' = [t \in Listed \cap nodeMempool |-> entries[t]]
    /\ pending' = StillPending(nodeMempool) \cup (nodeMempool \ Listed)
    /\ \E some \in SUBSET pending' :
          /\ Cardinality(some) = IF Cardinality(pending') < EntriesPerPoll THEN Cardinality(pending')
                                 ELSE EntriesPerPoll
          /\ want' = SetToSeq(some)
    /\ step' = "read"
    /\ UNCHANGED <<nodeVars, tip, blocks, arrivals>>

\* getmempoolentry for each: one that has left meanwhile has no entry
Read ==
    /\ step = "read"
    /\ LET found == {t \in ToSet(want) : t \in nodeMempool}
           news  == Reverse(SelectSeq(want, LAMBDA t : t \in found))
       IN  /\ pending' = pending \ ToSet(want)
           /\ entries' = [t \in Listed \cup found |-> IF t \in found THEN "unread" ELSE entries[t]]
           /\ arrivals' = FirstOf([i \in DOMAIN news |-> [tx |-> news[i], value |-> "unread", age |-> "unread"]]
                                     \o arrivals, KeepArrivals)
           /\ want' = ToValue(entries', arrivals')
    /\ step' = "value"
    /\ UNCHANGED <<nodeVars, tip, blocks, live>>

\* getrawtransaction for each; the newest arrival of a transaction learns its inputs
Value ==
    /\ step = "value"
    /\ LET values == [t \in Listed |-> IF t \notin ToSet(want) THEN entries[t]
                                       ELSE IF t \in nodeMempool THEN "known" ELSE "failed"]
           Newest(i) == \A j \in 1..(i - 1) : arrivals[j].tx # arrivals[i].tx
           Learns(i) == LET t == arrivals[i].tx IN t \in ToSet(want) \cap Listed /\ values[t] = "known" /\ Newest(i)
       IN  /\ entries' = values
           /\ arrivals' = [i \in DOMAIN arrivals |->
                 [arrivals[i] EXCEPT
                    !.value = IF arrivals[i].tx \in Listed /\ values[arrivals[i].tx] = "known" THEN "known" ELSE @,
                    !.age = IF Learns(i) /\ @ = "unread" THEN "inputs" ELSE @]]
    /\ step' = "age" /\ want' = <<>>
    /\ UNCHANGED <<nodeVars, tip, blocks, pending, live>>

\* gettxout for the inputs: a height, or "looked, could not tell"
AgeRead ==
    /\ step = "age"
    /\ \E told \in SUBSET {i \in DOMAIN arrivals : arrivals[i].age = "inputs"} :
          arrivals' = [i \in DOMAIN arrivals |->
             [arrivals[i] EXCEPT !.age = IF i \in told THEN "known" ELSE IF @ = "inputs" THEN "failed" ELSE @]]
    /\ step' = "idle"
    /\ UNCHANGED <<nodeVars, tip, blocks, entries, pending, live, want>>

StreetInit ==
    /\ nodeMempool \in SUBSET Txs /\ chain = [height |-> 1, hash |-> 0]
    /\ tip = NoTip /\ blocks = <<>>
    /\ entries = <<>> /\ pending = {} /\ arrivals = <<>>
    /\ step = "idle" /\ live = {} /\ want = <<>>
StreetNext ==
    \/ PollStreet \/ Info \/ Stats \/ ListAll \/ ListNew \/ Read \/ Value \/ AgeRead \/ PollFails
    \/ \E t \in Txs : TxArrives(t) \/ TxEvicted(t)
    \/ \E h \in 0..MaxHeight : NewBest(h)
StreetSpec == StreetInit /\ [][StreetNext]_streetVars

\* What is shown is one listing and one chain, whatever failed on the way: no
\* transaction is counted that the last listing lacks, none twice, and the
\* blocks, with the tip in front, have one place per height (_poll).
OneListingShown ==
    /\ Listed \cup pending \subseteq live /\ Listed \cap pending = {}
    /\ \A i, j \in DOMAIN blocks : blocks[i].height = blocks[j].height => i = j
    /\ tip # NoTip => blocks # <<>> /\ Head(blocks) = tip
=============================================================================
