----------------------------- MODULE BreakerProofs -----------------------------
(***************************************************************************)
(* Theorems about the velocity breaker, for all limits, windows, handlers, *)
(* resets, reloads, restarts and latch files.                              *)
(***************************************************************************)
EXTENDS Breaker, FiniteSetTheorems, TLAPS

(* A set that a function maps a finite set onto is no larger. *)
LEMMA ImageBound ==
  ASSUME NEW S, NEW T, IsFiniteSet(S), NEW f \in [S -> T], \A t \in T : \E s \in S : f[s] = t
  PROVE  IsFiniteSet(T) /\ Cardinality(T) <= Cardinality(S)
  <1>1. f \in Surjection(S, T)
    BY DEF Surjection
  <1>2. QED
    BY <1>1, FS_Surjection

LEMMA PruneBound ==
  ASSUME NEW s, IsFiniteSet(s)
  PROVE  /\ Prune(s) \subseteq s /\ IsFiniteSet(Prune(s))
         /\ Cardinality(Prune(s)) \in Nat /\ Cardinality(s) \in Nat
         /\ Cardinality(Prune(s)) <= Cardinality(s)
  BY FS_Subset, FS_CardinalityType DEF Prune

(* settle and fail rewrite one entry: the window does not grow. *)
SamePayout(p, q) == q.token = p.token /\ q.at = p.at /\ q.address = p.address

LEMMA RecordBound ==
  ASSUME NEW s \in SUBSET Payout, IsFiniteSet(s), NEW k, NEW u \in Nat, NEW st \in {"ok", "failed"}
  PROVE  /\ Record(s, k, u, st) \subseteq Payout
         /\ IsFiniteSet(Record(s, k, u, st))
         /\ Cardinality(Record(s, k, u, st)) <= Cardinality(s)
         /\ \A p \in s : \E q \in Record(s, k, u, st) : SamePayout(p, q)
         /\ \A q \in Record(s, k, u, st) : \E p \in s : SamePayout(p, q)
  <1> DEFINE f == [p \in s |-> IF p.token = k THEN Outcome(p, u, st) ELSE p]
             t == Record(s, k, u, st)
  <1>1. \A p \in s : f[p] \in Payout /\ f[p] \in t /\ SamePayout(p, f[p])
    BY DEF Payout, Outcome, Record, SamePayout
  <1>2. f \in [s -> t] /\ \A q \in t : \E p \in s : f[p] = q
    BY DEF Record
  <1> HIDE DEF f, t
  <1>3. IsFiniteSet(t) /\ Cardinality(t) <= Cardinality(s)
    BY <1>2, ImageBound
  <1>4. t \subseteq Payout
    BY <1>1, <1>2
  <1>5. \A p \in s : \E q \in t : SamePayout(p, q)
    BY <1>1
  <1>6. \A q \in t : \E p \in s : SamePayout(p, q)
    BY <1>1, <1>2
  <1>7. QED
    BY <1>3, <1>4, <1>5, <1>6 DEF t

-------------------------------------------------------------------------------
LEMMA TypeInit == Init => TypeOK
  <1> SUFFICES ASSUME Init PROVE TypeOK
    OBVIOUS
  <1>1. tripped \in BOOLEAN
    BY Zenon DEF Init
  <1>2. IsFiniteSet(payouts) /\ IsFiniteSet(rejects)
    BY FS_EmptySet DEF Init
  <1>3. now \in 0 .. MaxNow /\ restarts \in 0 .. MaxRestarts /\ seq \in Nat
    BY BreakerAssumption DEF Init
  <1>4. pc \in [Requests -> {"new", "creating", "done"}] /\ token \in [Requests -> Nat]
    BY DEF Init
  <1>5. QED
    BY <1>1, <1>2, <1>3, <1>4 DEF Init, TypeOK

LEMMA TripType ==
  ASSUME TypeOK, Trip
  PROVE  tripped' \in BOOLEAN /\ asked' \in BOOLEAN /\ file' \in {"none", "clear", "tripped", "corrupt"}
  BY DEF TypeOK, Trip

LEMMA RejectType ==
  ASSUME TypeOK, NEW r \in Requests, RecordReject(r)
  PROVE  /\ rejects' \subseteq [by : Requests, at : Nat] /\ IsFiniteSet(rejects')
         /\ tripped' \in BOOLEAN /\ asked' \in BOOLEAN
         /\ file' \in {"none", "clear", "tripped", "corrupt"}
  <1>1. rejects' \subseteq [by : Requests, at : Nat] /\ IsFiniteSet(rejects')
    <2>1. Prune(rejects) \subseteq [by : Requests, at : Nat] /\ IsFiniteSet(Prune(rejects))
      BY PruneBound DEF TypeOK
    <2>2. [by |-> r, at |-> now] \in [by : Requests, at : Nat]
      BY BreakerAssumption DEF TypeOK
    <2>3. QED
      BY <2>1, <2>2, FS_AddElement DEF RecordReject
  <1>2. QED
    BY <1>1, TripType DEF RecordReject, TypeOK

LEMMA TypeStep == TypeOK /\ [Next]_vars => TypeOK'
  <1> SUFFICES ASSUME TypeOK, [Next]_vars PROVE TypeOK'
    OBVIOUS
  <1> USE BreakerAssumption DEF TypeOK
  <1>0. /\ Prune(payouts) \subseteq Payout /\ IsFiniteSet(Prune(payouts))
        /\ Prune(rejects) \subseteq [by : Requests, at : Nat] /\ IsFiniteSet(Prune(rejects))
    BY PruneBound
  <1>1. ASSUME NEW r \in Requests, Reject(r) PROVE TypeOK'
    BY <1>0, <1>1, RejectType DEF Reject
  <1>2. ASSUME NEW r \in Requests, Denied(r) \/ TripOnClaim(r) PROVE TypeOK'
    BY <1>0, <1>2, TripType DEF Denied, TripOnClaim
  <1>3. ASSUME NEW r \in Requests, Authorize(r) PROVE TypeOK'
    <2>1. PICK address \in Addresses :
            /\ payouts' = Prune(payouts) \cup
                 {[token |-> seq + 1, at |-> now, address |-> address,
                   units |-> Estimate, state |-> "pending"]}
            /\ granted' = granted \cup {[token |-> seq + 1, at |-> now, address |-> address]}
      BY <1>3 DEF Authorize
    <2> DEFINE new == [token |-> seq + 1, at |-> now, address |-> address,
                       units |-> Estimate, state |-> "pending"]
    <2>4. new \in Payout
      BY DEF Payout
    <2>5. payouts' = Prune(payouts) \cup {new}
      BY <2>1
    <2> HIDE DEF new
    <2>2. payouts' \subseteq Payout /\ IsFiniteSet(payouts')
      BY <1>0, <2>4, <2>5, FS_AddElement
    <2>3. QED
      BY <1>0, <1>3, <2>1, <2>2 DEF Authorize
  <1>4. ASSUME NEW r \in Requests, Settle(r) PROVE TypeOK'
    <2>1. PICK units \in Actuals : payouts' = Record(payouts, token[r], units, "ok")
      BY <1>4 DEF Settle
    <2>2. units \in Nat /\ payouts \in SUBSET Payout /\ IsFiniteSet(payouts)
      OBVIOUS
    <2>3. payouts' \subseteq Payout /\ IsFiniteSet(payouts')
      BY <2>1, <2>2, RecordBound
    <2>4. QED
      BY <1>4, <2>3 DEF Settle
  <1>5. ASSUME NEW r \in Requests, Fail(r) PROVE TypeOK'
    <2> DEFINE t == Record(payouts, token[r], 0, "failed")
    <2>1. t \subseteq Payout /\ IsFiniteSet(t)
      BY RecordBound
    <2>2. Prune(t) \subseteq Payout /\ IsFiniteSet(Prune(t))
      BY <2>1, PruneBound
    <2>3. payouts' = Prune(t)
      BY <1>5 DEF Fail
    <2>4. QED
      BY <1>5, <2>2, <2>3, RejectType DEF Fail
  <1>6. CASE AdminReset \/ Damage \/ Tick
    <2>1. CASE AdminReset
      BY <2>1 DEF AdminReset, windowVars, handlerVars
    <2>2. CASE Damage
      BY <2>2 DEF Damage, windowVars, handlerVars
    <2>3. CASE Tick
      BY <2>3 DEF Tick, windowVars, handlerVars
    <2>4. QED
      BY <1>6, <2>1, <2>2, <2>3
  <1>7. CASE Reload
    BY <1>7, FS_EmptySet DEF Reload, Loaded, handlerVars
  <1>8. CASE Restart
    <2>1. tripped' \in BOOLEAN
      BY <1>8, Zenon DEF Restart
    <2>2. asked' \in BOOLEAN
      BY <1>8, Zenon DEF Restart
    <2>3. pc' \in [Requests -> {"new", "creating", "done"}]
      BY <1>8 DEF Restart
    <2>4. /\ payouts' = {} /\ rejects' = {} /\ seq' = 0 /\ granted' = {}
          /\ restarts' \in 0 .. MaxRestarts /\ now' = now /\ file' = file /\ token' = token
      BY <1>8 DEF Restart
    <2>5. QED
      BY <2>1, <2>2, <2>3, <2>4, FS_EmptySet
  <1>9. CASE UNCHANGED vars
    BY <1>9 DEF vars, windowVars, handlerVars
  <1>10. QED
    BY <1>1, <1>2, <1>3, <1>4, <1>5, <1>6, <1>7, <1>8, <1>9 DEF Next

(* Type correctness of the breaker (breaker.mjs). *)
THEOREM BreakerTypeCorrect == Spec => []TypeOK
  <1>1. QED
    BY TypeInit, TypeStep, PTL DEF Spec

-------------------------------------------------------------------------------
(***************************************************************************)
(* The latch: with a disk that takes the write, a valid configuration and  *)
(* an admin who did not ask, an open breaker is open on disk as well.      *)
(***************************************************************************)
LatchInv == ~SavesFail => LatchDurable

LEMMA LatchInit == Init => LatchInv
  BY Zenon DEF Init, LatchInv, LatchDurable

LEMMA TripLatches ==
  ASSUME TypeOK, LatchInv, NEW r, RecordReject(r) \/ Trip
  PROVE  LatchInv'
  <1>1. CASE Trip
    BY <1>1 DEF LatchInv, LatchDurable, Trip
  <1>2. CASE UNCHANGED <<tripped, file, asked>>
    BY <1>2 DEF LatchInv, LatchDurable
  <1>3. QED
    BY <1>1, <1>2 DEF RecordReject

LEMMA LatchStep == TypeOK /\ LatchInv /\ [Next]_vars => LatchInv'
  <1> SUFFICES ASSUME TypeOK, LatchInv, [Next]_vars PROVE LatchInv'
    OBVIOUS
  <1>1. ASSUME NEW r \in Requests, Reject(r) \/ TripOnClaim(r) \/ Fail(r) PROVE LatchInv'
    BY <1>1, TripLatches DEF Reject, TripOnClaim, Fail
  <1>2. ASSUME NEW r \in Requests, Denied(r) \/ Authorize(r) \/ Settle(r) PROVE LatchInv'
    BY <1>2 DEF LatchInv, LatchDurable, Denied, Authorize, Settle
  <1>3. CASE AdminReset \/ Damage \/ Tick \/ UNCHANGED vars
    BY <1>3 DEF LatchInv, LatchDurable, AdminReset, Damage, Tick, vars
  <1>4. CASE Reload
    BY <1>4 DEF LatchInv, LatchDurable, Reload, Loaded, TypeOK
  <1>5. CASE Restart
    <2>1. ASSUME tripped', ConfigOK PROVE file \in {"tripped", "corrupt"}
      <3>1. Loaded(FALSE)
        BY <1>5, <2>1, Zenon DEF Restart
      <3>2. QED
        BY <3>1 DEF Loaded, TypeOK
    <2>2. file' = file
      BY <1>5 DEF Restart
    <2>3. QED
      BY <2>1, <2>2 DEF LatchInv, LatchDurable
  <1>6. QED
    BY <1>1, <1>2, <1>3, <1>4, <1>5 DEF Next

(* Only an admin's reset takes the latch off the disk (_doTrip writes before *)
(* anything else runs), if the write does not fail.                          *)
THEOREM LatchSurvives == Spec => [](~SavesFail => LatchDurable)
  <1>1. Init => TypeOK /\ LatchInv
    BY TypeInit, LatchInit
  <1>2. TypeOK /\ LatchInv /\ [Next]_vars => (TypeOK /\ LatchInv)'
    BY TypeStep, LatchStep
  <1>3. TypeOK /\ LatchInv => (~SavesFail => LatchDurable)
    BY DEF LatchInv
  <1>4. QED
    BY <1>1, <1>2, <1>3, PTL DEF Spec

LEMMA ResumeIsAsked ==
  ASSUME ConfigOK, ~SavesFail, TypeOK, LatchInv, [Next]_vars, tripped, ~tripped'
  PROVE  asked
  <1>1. ASSUME NEW r \in Requests,
               Reject(r) \/ Denied(r) \/ TripOnClaim(r) \/ Authorize(r) \/ Settle(r) \/ Fail(r)
        PROVE FALSE
    BY <1>1 DEF Reject, Denied, TripOnClaim, Authorize, Settle, Fail, RecordReject, Trip
  <1>2. CASE Reload \/ Restart
    <2>1. file \notin {"tripped", "corrupt"}
      <3>1. CASE Reload
        BY <3>1 DEF Reload, Loaded
      <3>2. CASE Restart
        <4>1. ~Loaded(FALSE)
          BY <3>2, Zenon DEF Restart
        <4>2. QED
          BY <4>1 DEF Loaded
      <3>3. QED
        BY <1>2, <3>1, <3>2
    <2>2. QED
      BY <2>1 DEF LatchInv, LatchDurable
  <1>3. ~(AdminReset \/ Damage \/ Tick \/ UNCHANGED vars)
    BY DEF AdminReset, Damage, Tick, vars
  <1>4. QED
    BY <1>1, <1>2, <1>3 DEF Next

(* "It never auto-resumes": an open breaker closes, by reload or by restart, *)
(* only when an admin asked for it.                                          *)
THEOREM NeverAutoResumes ==
  ASSUME ConfigOK, ~SavesFail
  PROVE  Spec => NoAutoResume
  <1>1. Init => TypeOK /\ LatchInv
    BY TypeInit, LatchInit
  <1>2. TypeOK /\ LatchInv /\ [Next]_vars => (TypeOK /\ LatchInv)'
    BY TypeStep, LatchStep
  <1>3. TypeOK /\ LatchInv /\ [Next]_vars => [tripped /\ ~tripped' => asked]_vars
    BY ResumeIsAsked
  <1>4. QED
    BY <1>1, <1>2, <1>3, PTL DEF Spec, NoAutoResume

-------------------------------------------------------------------------------
(***************************************************************************)
(* Failures: a closed breaker never keeps more rejects than the limit.     *)
(***************************************************************************)
BurstInv == ConfigOK => (Cardinality(rejects) > MaxFailures => tripped)

LEMMA BurstInit == Init => BurstInv
  BY BreakerAssumption, FS_EmptySet DEF Init, BurstInv

LEMMA RejectBursts ==
  ASSUME TypeOK, BurstInv, NEW r, RecordReject(r)
  PROVE  BurstInv'
  <1>1. CASE Trip
    BY <1>1, Zenon DEF Trip, BurstInv
  <1>2. CASE tripped /\ UNCHANGED <<tripped, file, asked>>
    BY <1>2 DEF BurstInv
  <1>3. CASE ~Exceeds(Cardinality(rejects'), MaxFailures)
    BY <1>3 DEF BurstInv, Exceeds
  <1>4. QED
    BY <1>1, <1>2, <1>3 DEF RecordReject

LEMMA BurstStep == TypeOK /\ BurstInv /\ [Next]_vars => BurstInv'
  <1> SUFFICES ASSUME TypeOK, BurstInv, [Next]_vars PROVE BurstInv'
    OBVIOUS
  <1>0. /\ Cardinality(Prune(rejects)) \in Nat /\ Cardinality(rejects) \in Nat
        /\ Cardinality(Prune(rejects)) <= Cardinality(rejects)
        /\ Cardinality({}) = 0
    BY PruneBound, FS_EmptySet DEF TypeOK
  <1>1. ASSUME NEW r \in Requests, Reject(r) \/ Fail(r) PROVE BurstInv'
    BY <1>1, RejectBursts DEF Reject, Fail
  <1>2. ASSUME NEW r \in Requests, Denied(r) \/ TripOnClaim(r) PROVE BurstInv'
    BY <1>2 DEF BurstInv, Denied, TripOnClaim, Trip
  <1>3. ASSUME NEW r \in Requests, Authorize(r) PROVE BurstInv'
    BY <1>0, <1>3, BreakerAssumption DEF BurstInv, Authorize
  <1>4. ASSUME NEW r \in Requests, Settle(r) PROVE BurstInv'
    BY <1>4 DEF BurstInv, Settle
  <1>5. CASE AdminReset \/ Damage \/ Tick \/ UNCHANGED vars
    BY <1>5 DEF BurstInv, AdminReset, Damage, Tick, vars, windowVars
  <1>6. CASE Reload \/ Restart
    <2>1. rejects' = {} \/ tripped' \/ (~tripped /\ rejects' = rejects)
      BY <1>6, Zenon DEF Reload, Restart
    <2>2. QED
      BY <1>0, <2>1, BreakerAssumption DEF BurstInv
  <1>7. QED
    BY <1>1, <1>2, <1>3, <1>4, <1>5, <1>6 DEF Next

(* A burst of failed and rejected claims in the window has opened the breaker *)
(* (recordReject, reloadState).                                               *)
THEOREM BurstsTrip == Spec => []FailureBurstTrips
  <1>1. Init => TypeOK /\ BurstInv
    BY TypeInit, BurstInit
  <1>2. TypeOK /\ BurstInv /\ [Next]_vars => (TypeOK /\ BurstInv)'
    BY TypeStep, BurstStep
  <1>3. TypeOK /\ BurstInv => FailureBurstTrips
    BY BreakerAssumption, PruneBound DEF BurstInv, FailureBurstTrips, TypeOK
  <1>4. QED
    BY <1>1, <1>2, <1>3, PTL DEF Spec

-------------------------------------------------------------------------------
(***************************************************************************)
(* Velocity: the window of payouts is within the limits, and every payout  *)
(* authorised within the window of time is still in it, whatever settle,   *)
(* fail and _prune did since.                                              *)
(***************************************************************************)
Addrs(s) == {p.address : p \in s}
Within(s) == Cardinality(s) <= MaxClaims /\ Cardinality(Addrs(s)) <= MaxAddrs
Kept(g, s) == \E p \in s : SamePayout(g, p)
VelocityInv ==
  ConfigOK => /\ Within(payouts)
              /\ \A g \in InWindow : Kept(g, payouts)

LEMMA AddrsFinite ==
  ASSUME NEW s, IsFiniteSet(s)
  PROVE  IsFiniteSet(Addrs(s)) /\ Cardinality(Addrs(s)) \in Nat /\ Cardinality(s) \in Nat
  <1> DEFINE f == [p \in s |-> p.address]
             t == Addrs(s)
  <1>1. f \in [s -> t] /\ \A a \in t : \E p \in s : f[p] = a
    BY DEF Addrs
  <1> HIDE DEF f, t
  <1>2. IsFiniteSet(t)
    BY <1>1, ImageBound
  <1>3. QED
    BY <1>2, FS_CardinalityType DEF t

LEMMA WithinSubset ==
  ASSUME NEW s, IsFiniteSet(s), NEW t \in SUBSET s, Within(s)
  PROVE  Within(t)
  <1>1. Addrs(t) \subseteq Addrs(s)
    BY DEF Addrs
  <1>2. /\ Cardinality(t) \in Nat /\ Cardinality(t) <= Cardinality(s)
        /\ Cardinality(Addrs(t)) \in Nat /\ Cardinality(Addrs(t)) <= Cardinality(Addrs(s))
        /\ Cardinality(s) \in Nat /\ Cardinality(Addrs(s)) \in Nat
    BY <1>1, AddrsFinite, FS_Subset, FS_CardinalityType
  <1>3. QED
    BY <1>2, BreakerAssumption DEF Within

LEMMA WithinRecord ==
  ASSUME NEW s \in SUBSET Payout, IsFiniteSet(s), Within(s),
         NEW k, NEW u \in Nat, NEW st \in {"ok", "failed"}
  PROVE  Within(Record(s, k, u, st))
  <1> DEFINE t == Record(s, k, u, st)
  <1>1. /\ IsFiniteSet(t) /\ Cardinality(t) <= Cardinality(s)
        /\ \A p \in s : \E q \in t : SamePayout(p, q)
        /\ \A q \in t : \E p \in s : SamePayout(p, q)
    BY RecordBound
  <1> HIDE DEF t
  <1>2. Addrs(t) = Addrs(s)
    BY <1>1 DEF Addrs, SamePayout
  <1>3. Cardinality(t) \in Nat /\ Cardinality(s) \in Nat
    BY <1>1, FS_CardinalityType
  <1>4. Within(t)
    BY <1>1, <1>2, <1>3, BreakerAssumption DEF Within
  <1>5. QED
    BY <1>4 DEF t

(* What is kept stays kept: records are rewritten in place, and _prune drops *)
(* only what is past the window.                                             *)
LEMMA KeptRecord ==
  ASSUME NEW s \in SUBSET Payout, IsFiniteSet(s), NEW g, Kept(g, s),
         NEW k, NEW u \in Nat, NEW st \in {"ok", "failed"}
  PROVE  Kept(g, Record(s, k, u, st))
  <1>1. PICK p \in s : SamePayout(g, p)
    BY DEF Kept
  <1>2. PICK q \in Record(s, k, u, st) : SamePayout(p, q)
    BY RecordBound
  <1>3. QED
    BY <1>1, <1>2 DEF Kept, SamePayout

LEMMA KeptPrune ==
  ASSUME NEW s, NEW g \in InWindow, Kept(g, s)
  PROVE  Kept(g, Prune(s))
  BY DEF Kept, SamePayout, Prune, InWindow

LEMMA VelocityInit == Init => VelocityInv
  <1>1. Cardinality({}) = 0 /\ Addrs({}) = {}
    BY FS_EmptySet DEF Addrs
  <1>2. QED
    BY <1>1, BreakerAssumption DEF Init, VelocityInv, Within, InWindow

(* A step that authorises nothing, and leaves the window within a pruned or *)
(* rewritten form of itself, keeps the invariant.                           *)
LEMMA VelocityQuiet ==
  ASSUME TypeOK, VelocityInv, now' = now, granted' = granted,
         NEW s \in SUBSET Payout, IsFiniteSet(s), ConfigOK => Within(s),
         ConfigOK => \A g \in InWindow : Kept(g, s),
         payouts' = s \/ payouts' = Prune(s)
  PROVE  VelocityInv'
  <1> SUFFICES ASSUME ConfigOK PROVE VelocityInv'
    BY DEF VelocityInv
  <1>1. InWindow' = InWindow
    BY DEF InWindow
  <1>2. Within(payouts')
    BY PruneBound, WithinSubset
  <1>3. \A g \in InWindow : Kept(g, payouts')
    BY KeptPrune
  <1>4. QED
    BY <1>1, <1>2, <1>3 DEF VelocityInv, Within, Kept, Addrs

LEMMA VelocityAuthorize ==
  ASSUME TypeOK, VelocityInv, NEW r \in Requests, Authorize(r)
  PROVE  VelocityInv'
  <1> SUFFICES ASSUME ConfigOK PROVE VelocityInv'
    BY DEF VelocityInv
  <1>1. PICK address \in Addresses :
          /\ ~Breach(Prune(payouts), address)
          /\ payouts' = Prune(payouts) \cup
               {[token |-> seq + 1, at |-> now, address |-> address,
                 units |-> Estimate, state |-> "pending"]}
          /\ granted' = granted \cup {[token |-> seq + 1, at |-> now, address |-> address]}
    BY DEF Authorize
  <1> DEFINE s == Prune(payouts)
             p == [token |-> seq + 1, at |-> now, address |-> address,
                   units |-> Estimate, state |-> "pending"]
             h == [token |-> seq + 1, at |-> now, address |-> address]
  <1>2. IsFiniteSet(s) /\ Cardinality(s) \in Nat /\ Cardinality(s) + 1 \in Nat
    BY PruneBound DEF TypeOK
  <1>3. ~(Cardinality(s) + 1 > MaxClaims) /\ ~(Cardinality(Addrs(s) \cup {address}) > MaxAddrs)
    BY <1>1 DEF Breach, Exceeds, Addrs
  <1>4. p.address = address /\ SamePayout(h, p)
    BY DEF SamePayout
  <1>5. payouts' = s \cup {p} /\ granted' = granted \cup {h} /\ now' = now
    BY <1>1 DEF Authorize
  <1> HIDE DEF s, p, h
  <1>6. Cardinality(s \cup {p}) \in Nat /\ Cardinality(s \cup {p}) <= Cardinality(s) + 1
    <2>1. /\ IsFiniteSet(s \cup {p})
          /\ Cardinality(s \cup {p}) = Cardinality(s) \/ Cardinality(s \cup {p}) = Cardinality(s) + 1
      BY <1>2, FS_AddElement
    <2>2. QED
      BY <1>2, <2>1
  <1>7. Addrs(s \cup {p}) = Addrs(s) \cup {address}
    BY <1>4 DEF Addrs
  <1>8. Cardinality(Addrs(s) \cup {address}) \in Nat
    BY <1>2, AddrsFinite, FS_AddElement, FS_CardinalityType
  <1>9. Within(payouts')
    <2>1. Cardinality(s \cup {p}) <= MaxClaims
      BY <1>2, <1>3, <1>6, BreakerAssumption
    <2>2. Cardinality(Addrs(s) \cup {address}) <= MaxAddrs
      BY <1>3, <1>8, BreakerAssumption
    <2>3. QED
      BY <1>5, <1>7, <2>1, <2>2 DEF Within
  <1>10. \A g \in InWindow : Kept(g, s)
    BY KeptPrune DEF s, VelocityInv
  <1>11. InWindow' \subseteq InWindow \cup {h}
    BY <1>5 DEF InWindow
  <1>12. \A g \in InWindow' : Kept(g, payouts')
    BY <1>4, <1>5, <1>10, <1>11 DEF Kept
  <1>13. QED
    BY <1>9, <1>12 DEF VelocityInv, Within, Kept, Addrs

LEMMA VelocityStep == TypeOK /\ VelocityInv /\ [Next]_vars => VelocityInv'
  <1> SUFFICES ASSUME TypeOK, VelocityInv, [Next]_vars PROVE VelocityInv'
    OBVIOUS
  <1>0. /\ payouts \in SUBSET Payout /\ IsFiniteSet(payouts)
        /\ ConfigOK => Within(payouts) /\ \A g \in InWindow : Kept(g, payouts)
    BY DEF TypeOK, VelocityInv
  <1>1. ASSUME NEW r \in Requests, Reject(r) \/ Denied(r) \/ TripOnClaim(r) PROVE VelocityInv'
    <2>1. now' = now /\ granted' = granted /\ payouts' = Prune(payouts)
      BY <1>1 DEF Reject, Denied, TripOnClaim
    <2>2. QED
      BY <1>0, <2>1, VelocityQuiet
  <1>2. ASSUME NEW r \in Requests, Authorize(r) PROVE VelocityInv'
    BY <1>2, VelocityAuthorize
  <1>3. ASSUME NEW r \in Requests, Settle(r) \/ Fail(r) PROVE VelocityInv'
    <2>1. PICK units \in Nat, st \in {"ok", "failed"} :
            \/ payouts' = Record(payouts, token[r], units, st)
            \/ payouts' = Prune(Record(payouts, token[r], units, st))
      BY <1>3, BreakerAssumption DEF Settle, Fail
    <2> DEFINE s == Record(payouts, token[r], units, st)
    <2>2. s \subseteq Payout /\ IsFiniteSet(s)
      BY <1>0, RecordBound
    <2>3. ConfigOK => Within(s) /\ \A g \in InWindow : Kept(g, s)
      BY <1>0, WithinRecord, KeptRecord
    <2>4. now' = now /\ granted' = granted
      BY <1>3 DEF Settle, Fail
    <2> HIDE DEF s
    <2>5. payouts' = s \/ payouts' = Prune(s)
      BY <2>1 DEF s
    <2>6. QED
      BY <2>2, <2>3, <2>4, <2>5, VelocityQuiet
  <1>4. CASE AdminReset \/ Damage \/ UNCHANGED vars
    <2>1. now' = now /\ granted' = granted /\ payouts' = payouts
      BY <1>4 DEF AdminReset, Damage, vars, windowVars
    <2>2. QED
      BY <1>0, <2>1, VelocityQuiet
  <1>5. CASE Tick
    <2>1. payouts' = payouts /\ granted' = granted /\ now' = now + 1 /\ now \in Nat
      BY <1>5, BreakerAssumption DEF Tick, windowVars, TypeOK
    <2>2. InWindow' \subseteq InWindow
      BY <2>1, BreakerAssumption DEF InWindow, TypeOK
    <2>3. QED
      BY <1>0, <2>1, <2>2 DEF VelocityInv, Within, Kept, Addrs
  <1>6. CASE Reload \/ Restart
    <2>1. CASE payouts' = {} /\ granted' = {}
      <3>1. Cardinality({}) = 0 /\ Addrs({}) = {}
        BY FS_EmptySet DEF Addrs
      <3>2. QED
        BY <2>1, <3>1, BreakerAssumption DEF VelocityInv, Within, InWindow, Addrs
    <2>2. CASE payouts' = payouts /\ granted' = granted /\ now' = now
      BY <1>0, <2>2, VelocityQuiet
    <2>3. QED
      BY <1>6, <2>1, <2>2 DEF Reload, Restart
  <1>7. QED
    BY <1>1, <1>2, <1>3, <1>4, <1>5, <1>6 DEF Next

LEMMA VelocityBounds ==
  ASSUME TypeOK, VelocityInv
  PROVE  WindowRespected
  <1> SUFFICES ASSUME ConfigOK PROVE WindowRespected
    BY DEF WindowRespected
  <1>1. /\ IsFiniteSet(payouts) /\ Within(payouts)
        /\ \A g \in InWindow : Kept(g, payouts)
    BY DEF TypeOK, VelocityInv
  <1> DEFINE f == [g \in InWindow |-> CHOOSE p \in payouts : SamePayout(g, p)]
  <1>2. \A g \in InWindow : f[g] \in payouts /\ SamePayout(g, f[g])
    BY <1>1 DEF Kept
  <1>3. f \in [InWindow -> payouts]
    BY <1>2
  <1> HIDE DEF f
  <1>4. \A g, h \in InWindow : f[g] = f[h] => g = h
    BY <1>2 DEF SamePayout, InWindow, TypeOK
  <1>5. f \in Injection(InWindow, payouts)
    BY <1>3, <1>4 DEF Injection, IsInjective
  <1>6. IsFiniteSet(InWindow) /\ Cardinality(InWindow) <= Cardinality(payouts)
    BY <1>1, <1>5, FS_Injection
  <1>7. Addrs(InWindow) \subseteq Addrs(payouts)
    BY <1>2 DEF SamePayout, Addrs
  <1>8. /\ Cardinality(InWindow) \in Nat /\ Cardinality(payouts) \in Nat
        /\ Cardinality(Addrs(InWindow)) \in Nat /\ Cardinality(Addrs(payouts)) \in Nat
        /\ Cardinality(Addrs(InWindow)) <= Cardinality(Addrs(payouts))
    BY <1>1, <1>6, <1>7, AddrsFinite, FS_Subset
  <1>9. QED
    BY <1>1, <1>6, <1>8, BreakerAssumption DEF WindowRespected, Within, Addrs

(* authorize checks and reserves in one step, so no window of time holds more *)
(* authorised payouts or payees than the limits, however the handlers settle, *)
(* fail, are reset or restarted.                                              *)
THEOREM VelocityLimited == Spec => []WindowRespected
  <1>1. Init => TypeOK /\ VelocityInv
    BY TypeInit, VelocityInit
  <1>2. TypeOK /\ VelocityInv /\ [Next]_vars => (TypeOK /\ VelocityInv)'
    BY TypeStep, VelocityStep
  <1>3. TypeOK /\ VelocityInv => WindowRespected
    BY VelocityBounds
  <1>4. QED
    BY <1>1, <1>2, <1>3, PTL DEF Spec

-------------------------------------------------------------------------------
(* Tokens are counted up, through resets too (only a restart begins again, and *)
(* no handler survives one): a payout's token, and that of a handler at work,  *)
(* are behind the counter.                                                     *)
TokenInv ==
  /\ \A p \in payouts : p.token <= seq
  /\ \A r \in Requests : pc[r] = "creating" => token[r] <= seq
  /\ TokensAreOwn

LEMMA TokenInit == Init => TokenInv
  BY DEF Init, TokenInv, TokensAreOwn

(* Entries that leave the window, and handlers that end, take no token.        *)
LEMMA TokenKept ==
  ASSUME TokenInv, payouts' \subseteq payouts, seq' = seq, token' = token,
         \A r \in Requests : pc'[r] = "creating" => pc[r] = "creating"
  PROVE  TokenInv'
  <1>1. \A p \in payouts' : p.token <= seq'
    BY DEF TokenInv
  <1>2. \A r \in Requests : pc'[r] = "creating" => token'[r] <= seq'
    BY DEF TokenInv
  <1>3. ASSUME NEW r \in Requests, pc'[r] = "creating"
        PROVE  /\ \A s \in Requests \ {r} : pc'[s] = "creating" => token'[s] # token'[r]
               /\ \A p \in payouts' : p.token = token'[r] => p.state = "pending"
    BY <1>3 DEF TokenInv, TokensAreOwn
  <1>4. TokensAreOwn'
    BY <1>3 DEF TokensAreOwn
  <1>5. QED
    BY <1>1, <1>2, <1>4 DEF TokenInv

(* authorize gives a token nobody has.                                         *)
LEMMA TokenGiven ==
  ASSUME TypeOK, TokenInv, NEW r \in Requests, Authorize(r)
  PROVE  TokenInv'
  <1>1. /\ seq \in Nat /\ seq' = seq + 1
        /\ pc \in [Requests -> {"new", "creating", "done"}] /\ token \in [Requests -> Nat]
        /\ payouts \subseteq Payout /\ \A p \in payouts : p.token \in Nat
    BY DEF TypeOK, Payout, Authorize
  <1>2. \A s \in Requests : /\ pc'[s] = "creating" => pc[s] = "creating" \/ s = r
                            /\ token'[s] = IF s = r THEN seq + 1 ELSE token[s]
    BY <1>1 DEF Authorize
  <1>3. PICK address \in Addresses :
           payouts' = Prune(payouts) \cup
             {[token |-> seq + 1, at |-> now, address |-> address, units |-> Estimate, state |-> "pending"]}
    BY DEF Authorize
  <1> DEFINE new == [token |-> seq + 1, at |-> now, address |-> address,
                     units |-> Estimate, state |-> "pending"]
  <1>new. new.token = seq + 1 /\ new.state = "pending"
    OBVIOUS
  <1>4. \A p \in payouts' : p \in payouts \/ p = new
    BY <1>3 DEF Prune
  <1> HIDE DEF new
  <1>5. pc[r] # "creating"
    BY DEF Authorize
  <1>6. \A p \in payouts' : p.token <= seq'
    BY <1>1, <1>new, <1>4 DEF TokenInv
  <1>7. \A s \in Requests : pc'[s] = "creating" => token'[s] <= seq'
    BY <1>1, <1>2 DEF TokenInv
  <1>8. \A s \in Requests : pc'[s] = "creating" => s = r \/ (pc[s] = "creating" /\ token[s] <= seq /\ token[s] \in Nat)
    BY <1>1, <1>2 DEF TokenInv
  <1>9. ASSUME NEW s \in Requests, NEW t \in Requests \ {s}, pc'[s] = "creating", pc'[t] = "creating"
        PROVE  token'[t] # token'[s]
    <2>1. CASE s = r \/ t = r
      BY <1>1, <1>2, <1>8, <1>9, <2>1
    <2>2. CASE s # r /\ t # r
      BY <1>2, <1>9, <2>2 DEF TokenInv, TokensAreOwn
    <2>3. QED
      BY <2>1, <2>2
  <1>10. ASSUME NEW s \in Requests, NEW p \in payouts', pc'[s] = "creating", p.token = token'[s]
         PROVE  p.state = "pending"
    <2>1. CASE p = new
      BY <1>new, <2>1
    <2>2. CASE p \in payouts
      <3>1. p.token \in Nat /\ p.token <= seq
        BY <1>1, <2>2 DEF TokenInv
      <3>2. s # r
        BY <1>1, <1>2, <1>10, <3>1
      <3>3. QED
        BY <1>2, <1>10, <2>2, <3>2 DEF TokenInv, TokensAreOwn
    <2>3. QED
      BY <1>4, <2>1, <2>2
  <1>11. TokensAreOwn'
    BY <1>9, <1>10 DEF TokensAreOwn
  <1>12. QED
    BY <1>6, <1>7, <1>11 DEF TokenInv

(* settle and fail rewrite the entry of their own token, which no other handler *)
(* at work has.                                                                *)
LEMMA TokenUsed ==
  ASSUME TypeOK, TokenInv, NEW r \in Requests, NEW u, NEW st, pc[r] = "creating",
         payouts' \subseteq Record(payouts, token[r], u, st),
         pc' = [pc EXCEPT ![r] = "done"], seq' = seq, token' = token
  PROVE  TokenInv'
  <1>1. pc \in [Requests -> {"new", "creating", "done"}]
    BY DEF TypeOK
  <1>2. \A s \in Requests : pc'[s] = "creating" => pc[s] = "creating" /\ s # r
    BY <1>1
  <1>3. \A q \in payouts' : \E p \in payouts : q.token = p.token /\ (p.token = token[r] \/ q = p)
    BY DEF Record, Outcome
  <1>4. \A q \in payouts' : q.token <= seq'
    BY <1>3 DEF TokenInv
  <1>5. ASSUME NEW s \in Requests, pc'[s] = "creating", NEW q \in payouts', q.token = token'[s]
        PROVE  q.state = "pending"
    <2>1. token[s] # token[r] /\ pc[s] = "creating"
      BY <1>2, <1>5 DEF TokenInv, TokensAreOwn
    <2>2. q \in payouts
      BY <1>3, <1>5, <2>1
    <2>3. QED
      BY <1>5, <2>1, <2>2 DEF TokenInv, TokensAreOwn
  <1>6. \A s \in Requests : pc'[s] = "creating" =>
           \A t \in Requests \ {s} : pc'[t] = "creating" => token'[t] # token'[s]
    BY <1>2 DEF TokenInv, TokensAreOwn
  <1>7. TokensAreOwn'
    BY <1>5, <1>6 DEF TokensAreOwn
  <1>8. QED
    BY <1>2, <1>4, <1>7 DEF TokenInv

(* Every step of the breaker, the administrator and the service manager.       *)
LEMMA TokenStep == TypeOK /\ TokenInv /\ [Next]_vars => TokenInv'
  <1> SUFFICES ASSUME TypeOK, TokenInv, [Next]_vars PROVE TokenInv'
    OBVIOUS
  <1>1. Prune(payouts) \subseteq payouts /\ pc \in [Requests -> {"new", "creating", "done"}]
    BY DEF Prune, TypeOK
  <1>2. CASE UNCHANGED vars
    BY <1>2, TokenKept DEF vars, windowVars, handlerVars
  <1>3. ASSUME NEW r \in Requests, Reject(r) \/ Denied(r) \/ TripOnClaim(r) PROVE TokenInv'
    <2>1. \A s \in Requests : pc'[s] = "creating" => pc[s] = "creating"
      BY <1>1, <1>3 DEF Reject, Denied, TripOnClaim
    <2>2. payouts' \subseteq payouts /\ seq' = seq /\ token' = token
      BY <1>1, <1>3 DEF Reject, Denied, TripOnClaim
    <2>3. QED
      BY <2>1, <2>2, TokenKept
  <1>4. ASSUME NEW r \in Requests, Authorize(r) PROVE TokenInv'
    BY <1>4, TokenGiven
  <1>5. ASSUME NEW r \in Requests, Settle(r) PROVE TokenInv'
    <2>1. PICK u \in Actuals : payouts' = Record(payouts, token[r], u, "ok")
      BY <1>5 DEF Settle
    <2>2. pc[r] = "creating" /\ pc' = [pc EXCEPT ![r] = "done"] /\ seq' = seq /\ token' = token
      BY <1>5 DEF Settle
    <2>3. QED
      BY <2>1, <2>2, TokenUsed
  <1>6. ASSUME NEW r \in Requests, Fail(r) PROVE TokenInv'
    <2>1. payouts' \subseteq Record(payouts, token[r], 0, "failed")
      BY <1>6 DEF Fail, Prune
    <2>2. pc[r] = "creating" /\ pc' = [pc EXCEPT ![r] = "done"] /\ seq' = seq /\ token' = token
      BY <1>6 DEF Fail
    <2>3. QED
      BY <2>1, <2>2, TokenUsed
  <1>7. CASE Restart
    <2>1. \A r \in Requests : pc'[r] # "creating"
      BY <1>1, <1>7 DEF Restart
    <2>2. payouts' = {}
      BY <1>7 DEF Restart
    <2>3. QED
      BY <2>1, <2>2 DEF TokenInv, TokensAreOwn
  <1>8. CASE AdminReset \/ Reload \/ Damage \/ Tick
    <2>1. payouts' \subseteq payouts /\ seq' = seq /\ token' = token /\ pc' = pc
      BY <1>8 DEF AdminReset, Reload, Damage, Tick, windowVars, handlerVars
    <2>2. QED
      BY <2>1, TokenKept
  <1>9. QED
    BY <1>2, <1>3, <1>4, <1>5, <1>6, <1>7, <1>8 DEF Next

(* However resets and reloads overlap with claims in progress, settle and fail *)
(* of one handler touch no other handler's payout (_seq in breaker.mjs survives *)
(* a reload, where the window does not).                                       *)
THEOREM TokensStayOwn == Spec => []TokensAreOwn
  <1>1. TokenInv => TokensAreOwn
    BY DEF TokenInv
  <1>2. QED
    BY <1>1, TypeInit, TypeStep, TokenInit, TokenStep, PTL DEF Spec
===============================================================================
