------------------------------ MODULE PriceFeed ------------------------------
(***************************************************************************)
(* The market price: the node API's feed, which asks two providers and keeps   *)
(* an answer for a while (PriceFeed in nodeapi/lib.mjs), and the mainnet      *)
(* page's chip, which asks the feed every minute (priceTick).                 *)
(***************************************************************************)
EXTENDS Naturals, FiniteSets

CONSTANTS
    Currencies, NoPrice,
    Asks,          \* the page's requests that may overlap
    TTL,           \* ttl: an answer this young is not asked for again
    MaxStale       \* maxStale: an answer older than this is not handed on

ASSUME PriceAssumption ==
    /\ NoPrice \notin Nat /\ NoPrice \notin [Currencies -> Nat \cup {NoPrice}]
    /\ TTL \in Nat /\ MaxStale \in Nat

VARIABLES
    value,      \* the feed's quotes, currency -> how long ago it was read, or NoPrice
    at,         \* how old the feed takes them to be
    fetched,    \* the quotes of the fetch under way, or NoPrice when none is
    asks,       \* request -> "idle", "sent" or "waits": at the feed, for the fetch
    quotes,     \* what the page shows, with the ages it was handed on with, or NoPrice
    cur         \* the currency shown
priceVars == <<value, at, fetched, asks, quotes, cur>>

NoQuote == [c \in Currencies |-> NoPrice]
Older(age) == IF age > MaxStale THEN age ELSE age + 1
AllOlder(q) == [c \in Currencies |-> IF q[c] = NoPrice THEN NoPrice ELSE Older(q[c])]
Waiting == {a \in Asks : asks[a] = "waits"}

(***************************************************************************)
(* priceTick and priceRender: the answer replaces what is shown, a failure    *)
(* clears it.                                                               *)
(***************************************************************************)
AskPrice(a) ==
    /\ asks[a] = "idle"
    /\ asks' = [asks EXCEPT ![a] = "sent"]
    /\ UNCHANGED <<value, at, fetched, quotes, cur>>
PriceFails(a) ==
    /\ asks[a] # "idle"
    /\ asks' = [asks EXCEPT ![a] = "idle"] /\ quotes' = NoPrice
    /\ UNCHANGED <<value, at, fetched, cur>>
NextCurrency ==
    /\ quotes # NoPrice /\ quotes[cur] # NoPrice   \* the chip is hidden otherwise
    /\ \E c \in Currencies : quotes[c] # NoPrice /\ c # cur /\ cur' = c
    /\ UNCHANGED <<value, at, fetched, asks, quotes>>

(***************************************************************************)
(* get: a fresh answer at once, else the answer of the fetch under way; an    *)
(* answer that is too old is none.                                          *)
(***************************************************************************)
Handed(v, age) == IF v = NoPrice \/ age > MaxStale THEN NoPrice ELSE v
FreshQuote == value # NoPrice /\ at < TTL
Get(a) ==
    /\ asks[a] = "sent"
    /\ \/ /\ FreshQuote
          /\ asks' = [asks EXCEPT ![a] = "idle"] /\ quotes' = Handed(value, at)
          /\ UNCHANGED fetched
       \/ /\ ~FreshQuote
          /\ asks' = [asks EXCEPT ![a] = "waits"]
          /\ fetched' = IF fetched = NoPrice THEN NoQuote ELSE fetched
          /\ UNCHANGED quotes
    /\ UNCHANGED <<value, at, cur>>

(***************************************************************************)
(* _fetch: each currency from the first provider or else from the second.     *)
(***************************************************************************)
Quote(c) ==
    /\ fetched # NoPrice /\ fetched[c] = NoPrice
    /\ fetched' = [fetched EXCEPT ![c] = 0]
    /\ UNCHANGED <<value, at, asks, quotes, cur>>

\* Mutant: a fetch that found nothing is taken for one that did.
AtAfterAny(found) == 0

AtAfter(found) == IF found THEN 0 ELSE at

Fetched ==
    LET found == fetched # NoQuote
        now   == IF found THEN fetched ELSE value
    IN  /\ fetched # NoPrice
        /\ value' = now /\ at' = AtAfter(found)
        /\ fetched' = NoPrice
        /\ asks' = [a \in Asks |-> IF asks[a] = "waits" THEN "idle" ELSE asks[a]]
        /\ quotes' = IF Waiting = {} THEN quotes ELSE Handed(now, AtAfter(found))
        /\ UNCHANGED cur

\* A fetch ends within its timeouts, so no unit of time passes during one.
Time ==
    /\ value # NoPrice /\ fetched = NoPrice
    /\ value' = AllOlder(value) /\ at' = Older(at)
    /\ UNCHANGED <<fetched, asks, quotes, cur>>

PriceInit ==
    /\ value = NoPrice /\ at = 0 /\ fetched = NoPrice
    /\ asks = [a \in Asks |-> "idle"]
    /\ quotes = NoPrice /\ cur \in Currencies
PriceNext ==
    \/ Fetched \/ NextCurrency \/ Time
    \/ \E c \in Currencies : Quote(c)
    \/ \E a \in Asks : AskPrice(a) \/ PriceFails(a) \/ Get(a)
PriceSpec == PriceInit /\ [][PriceNext]_priceVars

\* A price on the page was read from a provider no longer than MaxStale before it
\* was handed on, however often the providers failed since, and a request that
\* waits has a fetch to wait for (get).
PricesWereRecent ==
    /\ quotes # NoPrice => \A c \in Currencies : quotes[c] # NoPrice => quotes[c] <= MaxStale
    /\ Waiting # {} => fetched # NoPrice
=============================================================================
