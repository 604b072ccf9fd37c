-------------------------------- MODULE Breaker --------------------------------
(***************************************************************************)
(* The faucet's velocity circuit breaker                                   *)
(* (packages/bitcoin/faucet/breaker.mjs) with its three users: the /claim  *)
(* handlers that authorise, settle and fail payouts (server.mjs), the      *)
(* admin's `breaker.mjs reset` process followed by SIGHUP, and the service *)
(* manager that restarts the faucet.  The latch file is all they share.    *)
(*                                                                         *)
(* authorize, settle, fail, recordReject and reloadState contain no await, *)
(* so each is one step.  The clock is a tick counter that never runs back; *)
(* then dropping old entries from the front of a list and filtering it by  *)
(* age are the same.  Sats, UTXOs and fee are three sums of one shape; the *)
(* model keeps one, "units".                                               *)
(***************************************************************************)
EXTENDS Naturals, FiniteSets, FiniteSetsExt

CONSTANTS
  Requests,      \* calls of /claim
  Addresses,
  Window,        \* windowMs, in ticks
  MaxClaims, MaxAddrs, MaxUnits, MaxFailures,   \* the limits
  Estimate,      \* units a payout reserves when authorised
  Actuals,       \* units a payout may turn out to cost
  ConfigOK,      \* validateLimits finds every limit a positive integer
  SavesFail,     \* _save may fail, which it swallows
  MaxNow, MaxRestarts   \* bounds on the clock and on restarts

ASSUME BreakerAssumption ==
  /\ Window \in Nat \ {0}
  /\ MaxClaims \in Nat \ {0} /\ MaxAddrs \in Nat \ {0}
  /\ MaxUnits \in Nat \ {0} /\ MaxFailures \in Nat \ {0}
  /\ Estimate \in Nat /\ Actuals \subseteq Nat
  /\ ConfigOK \in BOOLEAN /\ SavesFail \in BOOLEAN
  /\ MaxNow \in Nat /\ MaxRestarts \in Nat

VARIABLES
  now,
  payouts,    \* the window of payouts
  rejects,    \* the window of rejected and failed claims
  tripped,
  file,       \* the latch file: none, clear, tripped, or malformed
  seq,
  pc,         \* each handler: new, creating its claim, done
  token,      \* the token authorize gave it
  granted,    \* history: payouts authorised since the last reset or restart
  asked,      \* history: an admin reset since the breaker last tripped
  restarts

windowVars == <<payouts, rejects, seq, granted>>
handlerVars == <<pc, token>>
vars == <<now, windowVars, tripped, file, handlerVars, asked, restarts>>

Payout == [token : Nat, at : Nat, address : Addresses, units : Nat,
           state : {"pending", "ok", "failed"}]

TypeOK ==
  /\ now \in 0 .. MaxNow
  /\ payouts \subseteq Payout /\ IsFiniteSet(payouts)
  /\ rejects \subseteq [by : Requests, at : Nat] /\ IsFiniteSet(rejects)
  /\ tripped \in BOOLEAN
  /\ file \in {"none", "clear", "tripped", "corrupt"}
  /\ seq \in Nat
  /\ pc \in [Requests -> {"new", "creating", "done"}]
  /\ token \in [Requests -> Nat]
  /\ granted \subseteq [token : Nat, at : Nat, address : Addresses]
  /\ asked \in BOOLEAN
  /\ restarts \in 0 .. MaxRestarts

Init ==
  /\ now = 0
  /\ payouts = {} /\ rejects = {} /\ seq = 0 /\ granted = {}
  /\ tripped = ~ConfigOK
  /\ file = "none"
  /\ pc = [r \in Requests |-> "new"]
  /\ token = [r \in Requests |-> 0]
  /\ asked = FALSE
  /\ restarts = 0

-------------------------------------------------------------------------------
\* A limit that is not a number makes "metric > limit" false; a bad
\* configuration is taken to spoil every limit.
Exceeds(metric, limit) == ConfigOK /\ metric > limit

\* Mutant: an entry exactly as old as the window is dropped.
PruneEarly(s) == {p \in s : p.at + Window > now}

\* _prune
Prune(s) == {p \in s : p.at + Window >= now}

Units(s) == MapThenSumSet(LAMBDA p : IF p.state = "failed" THEN 0 ELSE p.units, s)

\* metrics() with the payout being considered folded in, against the limits.
Breach(s, address) ==
  \/ Exceeds(Cardinality(s) + 1, MaxClaims)
  \/ Exceeds(Cardinality({p.address : p \in s} \cup {address}), MaxAddrs)
  \/ Exceeds(Units(s) + Estimate, MaxUnits)

\* Mutant: the trip is not written to the latch file.
TripUnsaved == tripped' = TRUE /\ asked' = FALSE /\ UNCHANGED file

\* _doTrip: latch in memory, then the atomic best-effort write.
Trip ==
  /\ tripped' = TRUE
  /\ asked' = FALSE
  /\ file' = "tripped" \/ (SavesFail /\ UNCHANGED file)

\* recordReject on top of the rejects in the window.
RecordReject(r) ==
  /\ rejects' = Prune(rejects) \cup {[by |-> r, at |-> now]}
  /\ IF ~tripped /\ Exceeds(Cardinality(rejects'), MaxFailures)
       THEN Trip
       ELSE UNCHANGED <<tripped, file, asked>>

-------------------------------------------------------------------------------
(***************************************************************************)
(* The /claim handler                                                      *)
(***************************************************************************)

\* rej(): bad input, the human check, the IP limit, the daily cap.
Reject(r) ==
  /\ pc[r] = "new"
  /\ pc' = [pc EXCEPT ![r] = "done"]
  /\ payouts' = Prune(payouts)
  /\ RecordReject(r)
  /\ UNCHANGED <<now, seq, granted, token, restarts>>

\* authorize: denied without a reject, tripped, or reserved.
Denied(r) ==
  /\ pc[r] = "new" /\ tripped
  /\ pc' = [pc EXCEPT ![r] = "done"]
  /\ payouts' = Prune(payouts)
  /\ rejects' = Prune(rejects)
  /\ UNCHANGED <<now, seq, granted, tripped, file, token, asked, restarts>>

TripOnClaim(r) ==
  /\ pc[r] = "new" /\ ~tripped
  /\ \E address \in Addresses : Breach(Prune(payouts), address)
  /\ Trip
  /\ pc' = [pc EXCEPT ![r] = "done"]
  /\ payouts' = Prune(payouts)
  /\ rejects' = Prune(rejects)
  /\ UNCHANGED <<now, seq, granted, token, restarts>>

Authorize(r) ==
  /\ pc[r] = "new" /\ ~tripped
  /\ \E address \in Addresses :
       /\ ~Breach(Prune(payouts), address)
       /\ payouts' = Prune(payouts) \cup
            {[token |-> seq + 1, at |-> now, address |-> address,
              units |-> Estimate, state |-> "pending"]}
       /\ granted' = granted \cup {[token |-> seq + 1, at |-> now, address |-> address]}
  /\ rejects' = Prune(rejects)
  /\ seq' = seq + 1
  /\ token' = [token EXCEPT ![r] = seq + 1]
  /\ pc' = [pc EXCEPT ![r] = "creating"]
  /\ UNCHANGED <<now, tripped, file, asked, restarts>>

\* The entry of token k, if the window still has it, with its payout's outcome.
Outcome(p, units, state) ==
  [token |-> p.token, at |-> p.at, address |-> p.address, units |-> units, state |-> state]

Record(s, k, units, state) == {IF p.token = k THEN Outcome(p, units, state) ELSE p : p \in s}

\* Mutant: the difference to the estimate is stored for the actual.
SettleByDelta(r) ==
  /\ pc[r] = "creating"
  /\ \E units \in Actuals :
       payouts' = {IF p.token = token[r] THEN Outcome(p, units - p.units, "ok") ELSE p
                     : p \in payouts}
  /\ pc' = [pc EXCEPT ![r] = "done"]
  /\ UNCHANGED <<now, rejects, seq, granted, tripped, file, token, asked, restarts>>

\* settle: actuals replace the estimate, unless a reset forgot the token.
Settle(r) ==
  /\ pc[r] = "creating"
  /\ \E units \in Actuals : payouts' = Record(payouts, token[r], units, "ok")
  /\ pc' = [pc EXCEPT ![r] = "done"]
  /\ UNCHANGED <<now, rejects, seq, granted, tripped, file, token, asked, restarts>>

\* fail: nothing was dispensed, and it counts as a reject.
Fail(r) ==
  /\ pc[r] = "creating"
  /\ payouts' = Prune(Record(payouts, token[r], 0, "failed"))
  /\ RecordReject(r)
  /\ pc' = [pc EXCEPT ![r] = "done"]
  /\ UNCHANGED <<now, seq, granted, token, restarts>>

-------------------------------------------------------------------------------
(***************************************************************************)
(* The admin, the service manager, the disk                                *)
(***************************************************************************)
\* Mutant: only tripped: true counts, so a malformed latch reads as clear.
LoadedLoosely(before) == IF file = "none" THEN before ELSE file = "tripped"

\* What _load makes of the latch file, over the value so far.
Loaded(before) ==
  CASE file = "none" -> before
    [] file \in {"tripped", "corrupt"} -> TRUE
    [] file = "clear" -> FALSE

\* `breaker.mjs reset` is a process of its own, built with the default limits,
\* so its configuration is valid whatever the faucet's is.
AdminReset ==
  /\ file' = "clear"
  /\ asked' = TRUE
  /\ UNCHANGED <<now, windowVars, tripped, handlerVars, restarts>>

\* Mutant: the reset drops the latch but keeps the window.
ReloadKeepingWindow ==
  /\ tripped' = Loaded(tripped)
  /\ asked' = (asked /\ (tripped \/ ~tripped'))
  /\ UNCHANGED <<now, windowVars, file, handlerVars, restarts>>

\* Mutant: the reset restarts the token counter as well.
ReloadResettingSeq ==
  /\ tripped' = Loaded(tripped)
  /\ asked' = (asked /\ (tripped \/ ~tripped'))
  /\ IF tripped /\ ~tripped'
       THEN payouts' = {} /\ rejects' = {} /\ granted' = {} /\ seq' = 0
       ELSE UNCHANGED <<payouts, rejects, granted, seq>>
  /\ UNCHANGED <<now, file, handlerVars, restarts>>

\* SIGHUP: reloadState.
Reload ==
  /\ tripped' = Loaded(tripped)
  /\ asked' = (asked /\ (tripped \/ ~tripped'))
  /\ IF tripped /\ ~tripped'
       THEN payouts' = {} /\ rejects' = {} /\ granted' = {}
       ELSE UNCHANGED <<payouts, rejects, granted>>
  /\ UNCHANGED <<now, seq, file, handlerVars, restarts>>

\* The process dies and is started again: an empty window, the latch from disk.
Restart ==
  /\ restarts < MaxRestarts
  /\ restarts' = restarts + 1
  /\ payouts' = {} /\ rejects' = {} /\ seq' = 0 /\ granted' = {}
  /\ tripped' = (Loaded(FALSE) \/ ~ConfigOK)
  /\ asked' = (asked /\ (tripped \/ ~tripped'))
  /\ pc' = [r \in Requests |-> IF pc[r] = "creating" THEN "done" ELSE pc[r]]
  /\ UNCHANGED <<now, file, token>>

\* The latch file is damaged by something else than _save, which is atomic.
Damage ==
  /\ file # "none"
  /\ file' = "corrupt"
  /\ UNCHANGED <<now, windowVars, tripped, handlerVars, asked, restarts>>

Tick ==
  /\ now < MaxNow
  /\ now' = now + 1
  /\ UNCHANGED <<windowVars, tripped, file, handlerVars, asked, restarts>>

Next ==
  \/ \E r \in Requests :
       Reject(r) \/ Denied(r) \/ TripOnClaim(r) \/ Authorize(r) \/ Settle(r) \/ Fail(r)
  \/ AdminReset \/ Reload \/ Restart \/ Damage \/ Tick

Spec == Init /\ [][Next]_vars

-------------------------------------------------------------------------------
(***************************************************************************)
(* Properties                                                              *)
(***************************************************************************)

\* Between resets, no window of time holds more authorised payouts, or more
\* distinct payees, than the limits, although a failed payout gives back its
\* units and a settled one changes them (authorize: check and reserve).
InWindow == {g \in granted : g.at + Window >= now}
WindowRespected ==
  ConfigOK => /\ Cardinality(InWindow) <= MaxClaims
              /\ Cardinality({g.address : g \in InWindow}) <= MaxAddrs

\* A burst of failures in the window means the breaker is open: neither a
\* reload nor a reset leaves a closed breaker over an exceeded limit.
FailureBurstTrips ==
  ConfigOK => (Cardinality(Prune(rejects)) > MaxFailures => tripped)

\* However resets and reloads overlap with claims in progress, a handler that
\* settles or fails its payout touches no other handler's.
TokensAreOwn ==
  \A r \in Requests : pc[r] = "creating" =>
    /\ \A s \in Requests \ {r} : pc[s] = "creating" => token[s] # token[r]
    /\ \A p \in payouts : p.token = token[r] => p.state = "pending"

\* A trip is on disk before anything else happens, so no crash closes the
\* breaker: only an admin's reset takes the latch off ("a trip persists
\* across restarts (no auto-resume)").
LatchDurable == tripped /\ ConfigOK => file \in {"tripped", "corrupt"} \/ asked

\* "It never auto-resumes: recovery requires an explicit admin reset".
NoAutoResume == [][tripped /\ ~tripped' => asked]_vars

\* "start TRIPPED rather than silently run with a disabled metric.  Cleared
\* only by fixing the config": a bad configuration authorises nothing.
BadConfigStaysTripped == ~ConfigOK => tripped
===============================================================================
