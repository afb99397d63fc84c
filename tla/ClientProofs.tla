----------------------------- MODULE ClientProofs -----------------------------
(***************************************************************************)
(* The parts of clients and relayers that share state between calls under  *)
(* way, for all sets of calls, routes, users and messages: circuit         *)
(* breakers, transaction locks, route fallback and the EVM executor.       *)
(***************************************************************************)
EXTENDS CircuitBreaker, TransactionLocks, FallbackExecutor, EvmExecutor,
        FiniteSetTheorems, WellFoundedInduction, TLAPS

------------------------------------------------------------------------------
\* CircuitBreaker: the counters of a breaker describe its current period and
\* nothing before.

CountersAreCurrent(b, h) ==
    /\ b.state = "closed" =>
           b.consecutiveFailures <= h.failures \/ h.failures >= FailureThreshold
    /\ b.state = "open" =>
           b.halfOpenSuccesses = 0 /\ b.cooldown + h.waited >= ResetTimeout
    /\ b.state = "half_open" =>
           b.halfOpenSuccesses <= h.successes \/ h.successes >= HalfOpenSuccessThreshold

ClosedHasNoSuccesses(b) == b.state = "closed" => b.halfOpenSuccesses = 0

Good(b, h) ==
    b \in Breaker /\ h \in Period /\ CountersAreCurrent(b, h) /\ ClosedHasNoSuccesses(b)

\* A call that finds b in period h may leave it as c.
MayBecome(b, h, c) ==
    /\ b.state = "closed" /\ c.state = "open" => h.failures + 1 >= FailureThreshold
    /\ b.state = "open" => c.state = "open"
    /\ b.state = "half_open" /\ c.state = "closed" =>
           h.successes + 1 >= HalfOpenSuccessThreshold
    /\ b.state = "closed" => c.state # "half_open"

\* What follows when b becomes c: h goes on as g, or another period begins.
After(b, c, g) == IF c.state = b.state THEN g ELSE NewPeriod(FALSE)

LEMMA NewIsGood ==
    ASSUME NEW byReset \in BOOLEAN
    PROVE  Good(NewBreaker, NewPeriod(byReset))
BY BreakerAssumption DEF Good, NewBreaker, NewPeriod, Breaker, Period, CountersAreCurrent,
       ClosedHasNoSuccesses

\* recordSuccess, once the state has been read.
LEMMA SuccessFacts ==
    ASSUME NEW b, NEW h, Good(b, h)
    PROVE  /\ Good(RecordSuccess(b), After(b, RecordSuccess(b), CountSuccess(h)))
           /\ MayBecome(b, h, RecordSuccess(b))
<1> USE BreakerAssumption DEF Good, Breaker, Period, CountersAreCurrent, ClosedHasNoSuccesses,
       MayBecome, After, CountSuccess, NewPeriod, UpTo, Counting, Counted
<1>1. CASE b.state = "half_open" /\ b.halfOpenSuccesses + 1 >= HalfOpenSuccessThreshold
    BY <1>1 DEF RecordSuccess, CloseBreaker
<1>2. CASE b.state = "half_open" /\ ~(b.halfOpenSuccesses + 1 >= HalfOpenSuccessThreshold)
    BY <1>2 DEF RecordSuccess
<1>3. CASE b.state # "half_open"
    BY <1>3 DEF RecordSuccess
<1> QED
    BY <1>1, <1>2, <1>3

\* recordFailure, once the state has been read.
LEMMA FailureFacts ==
    ASSUME NEW b, NEW h, Good(b, h)
    PROVE  /\ Good(RecordFailure(b), After(b, RecordFailure(b), CountFailure(h)))
           /\ MayBecome(b, h, RecordFailure(b))
<1> USE BreakerAssumption DEF Good, Breaker, Period, CountersAreCurrent, ClosedHasNoSuccesses,
       MayBecome, After, CountFailure, NewPeriod, UpTo, Counting, Counted
<1>1. CASE b.state = "half_open"
    BY <1>1 DEF RecordFailure, Trip
<1>2. CASE b.state # "half_open" /\ b.consecutiveFailures + 1 >= FailureThreshold
    BY <1>2 DEF RecordFailure, Trip
<1>3. CASE b.state # "half_open" /\ ~(b.consecutiveFailures + 1 >= FailureThreshold)
    BY <1>3 DEF RecordFailure
<1> QED
    BY <1>1, <1>2, <1>3

LEMMA GetStateFacts ==
    ASSUME NEW b, NEW h, Good(b, h)
    PROVE  /\ Good(GetState(b), IF CooledDown(b) THEN NewPeriod(FALSE) ELSE h)
           /\ CooledDown(b) => GetState(b).state = "half_open" /\ h.waited >= ResetTimeout
           /\ ~CooledDown(b) => GetState(b) = b
BY BreakerAssumption DEF Good, Breaker, Period, CountersAreCurrent, ClosedHasNoSuccesses,
       GetState, CooledDown, NewPeriod

LEMMA TickFacts ==
    ASSUME NEW b, NEW h, Good(b, h)
    PROVE  LET c == [b EXCEPT !.cooldown = Elapsed(@)]
               g == IF b.cooldown > 0 THEN [h EXCEPT !.waited = UpTo(ResetTimeout, @ + 1)] ELSE h
           IN  Good(c, g) /\ c.state = b.state
BY BreakerAssumption DEF Good, Breaker, Period, CountersAreCurrent, ClosedHasNoSuccesses,
       Elapsed, UpTo

AllGood == \A p \in Provider : Good(breakers[p], period[p])

PeriodInv ==
    /\ breakers \in [Provider -> Breaker] /\ period \in [Provider -> Period]
    /\ AllGood

\* The step of a provider p, for the rest of them.
LEMMA OneMoves ==
    ASSUME PeriodInv, NEW p \in Provider, NEW b, NEW h, Good(b, h),
           breakers' = [breakers EXCEPT ![p] = b], period' = [period EXCEPT ![p] = h],
           h.byReset \/ Earned(p, breakers[p].state, b.state)
    PROVE  /\ PeriodInv'
           /\ \A q \in Provider :
                 period'[q].byReset \/ Earned(q, breakers[q].state, breakers'[q].state)
<1>1. PeriodInv'
    BY DEF PeriodInv, AllGood, Good
<1>2. \A q \in Provider : Earned(q, breakers[q].state, breakers[q].state)
    BY DEF Earned, PeriodInv, Breaker
<1>3. ASSUME NEW q \in Provider
      PROVE  period'[q].byReset \/ Earned(q, breakers[q].state, breakers'[q].state)
  <2>1. CASE q = p
      BY <2>1 DEF PeriodInv
  <2>2. CASE q # p
      BY <2>2, <1>2 DEF PeriodInv
  <2> QED
      BY <2>1, <2>2
<1> QED
    BY <1>1, <1>3

\* What the state was before it was read, against what the call made of it.
LEMMA OutcomeFacts ==
    ASSUME PeriodInv, NEW p \in Provider, NEW b, NEW h, Outcome(p, b, h),
           Good(b, After(GetState(breakers[p]), b, h)),
           MayBecome(GetState(breakers[p]), Here(p), b)
    PROVE  /\ PeriodInv'
           /\ \A q \in Provider :
                 period'[q].byReset \/ Earned(q, breakers[q].state, breakers'[q].state)
<1> DEFINE read == GetState(breakers[p])
<1>1. Good(breakers[p], period[p])
    BY DEF PeriodInv, AllGood
<1>2. Earned(p, breakers[p].state, b.state)
  <2>1. CASE CooledDown(breakers[p])
    <3>1. read.state = "half_open" /\ period[p].waited >= ResetTimeout /\ breakers[p].state = "open"
        BY <2>1, <1>1, GetStateFacts DEF CooledDown
    <3>2. Here(p).successes = 0
        BY <2>1 DEF Here, NewPeriod
    <3>3. b.state = "closed" => HalfOpenSuccessThreshold = 1
        BY <3>1, <3>2, BreakerAssumption DEF MayBecome
    <3> QED
        BY <3>1, <3>3 DEF Earned
  <2>2. CASE ~CooledDown(breakers[p])
    <3>1. read = breakers[p] /\ Here(p) = period[p]
        BY <2>2, <1>1, GetStateFacts DEF Here
    <3> QED
        BY <3>1, <1>1 DEF MayBecome, Earned, Good, Breaker
  <2> QED
      BY <2>1, <2>2
<1> QED
    BY <1>2, OneMoves DEF Outcome, After

LEMMA StepFacts ==
    ASSUME PeriodInv, [BreakerNext]_breakerVars
    PROVE  /\ PeriodInv'
           /\ [\A p \in Provider :
                  period'[p].byReset \/ Earned(p, breakers[p].state, breakers'[p].state)]_breakerVars
<1>a. ASSUME NEW p \in Provider
      PROVE  Good(GetState(breakers[p]), Here(p))
    BY GetStateFacts DEF PeriodInv, AllGood, Here
<1>1. ASSUME NEW p \in Provider, ReportSuccess(p)
      PROVE  /\ PeriodInv'
             /\ \A q \in Provider :
                   period'[q].byReset \/ Earned(q, breakers[q].state, breakers'[q].state)
    BY <1>1, <1>a, SuccessFacts, OutcomeFacts DEF ReportSuccess
<1>2. ASSUME NEW p \in Provider, ReportFailure(p)
      PROVE  /\ PeriodInv'
             /\ \A q \in Provider :
                   period'[q].byReset \/ Earned(q, breakers[q].state, breakers'[q].state)
    BY <1>2, <1>a, FailureFacts, OutcomeFacts DEF ReportFailure
<1>3. ASSUME NEW p \in Provider, IsAvailable(p)
      PROVE  /\ PeriodInv'
             /\ \A q \in Provider :
                   period'[q].byReset \/ Earned(q, breakers[q].state, breakers'[q].state)
  <2>1. MayBecome(GetState(breakers[p]), Here(p), GetState(breakers[p]))
      BY DEF MayBecome
  <2> QED
      BY <2>1, <1>3, <1>a, OutcomeFacts DEF IsAvailable, After
<1>4. ASSUME NEW p \in Provider, ResetProvider(p)
      PROVE  /\ PeriodInv'
             /\ \A q \in Provider :
                   period'[q].byReset \/ Earned(q, breakers[q].state, breakers'[q].state)
  <2>1. Good(NewBreaker, NewPeriod(TRUE)) /\ NewPeriod(TRUE).byReset
      BY NewIsGood DEF NewPeriod
  <2> QED
      BY <2>1, <1>4, OneMoves DEF ResetProvider
<1>5. CASE BreakerTick
  <2>1. ASSUME NEW p \in Provider
        PROVE  Good(breakers'[p], period'[p]) /\ breakers'[p].state = breakers[p].state
      BY <1>5, TickFacts DEF BreakerTick, PeriodInv, AllGood
  <2>2. PeriodInv'
      BY <1>5, <2>1 DEF BreakerTick, PeriodInv, AllGood, Good
  <2>3. \A p \in Provider : Earned(p, breakers[p].state, breakers'[p].state)
      BY <2>1 DEF Earned, PeriodInv, Breaker
  <2> QED
      BY <2>2, <2>3
<1>6. CASE UNCHANGED breakerVars
    BY <1>6 DEF breakerVars, PeriodInv, AllGood
<1> QED
    BY <1>1, <1>2, <1>3, <1>4, <1>5, <1>6 DEF BreakerNext

LEMMA PeriodInvInit == BreakerInit => PeriodInv
BY NewIsGood DEF BreakerInit, PeriodInv, AllGood, Good

\* The counters and the clock of every breaker stay within their types.
THEOREM BreakerTypes == BreakerSpec => []BreakerTypeOK
<1>1. PeriodInv => BreakerTypeOK
    BY DEF PeriodInv, BreakerTypeOK
<1>2. PeriodInv /\ [BreakerNext]_breakerVars => PeriodInv'
    BY StepFacts
<1> QED
    BY <1>1, <1>2, PeriodInvInit, PTL DEF BreakerSpec

\* Whatever the thresholds and the cooldown, and however late outcomes are
\* reported, recordSuccess, recordFailure and getState change a breaker's
\* state only for what happened since it last changed.
THEOREM OnlyEarnedTransitions == BreakerSpec => TransitionsAreEarned
<1>1. PeriodInv /\ [BreakerNext]_breakerVars => PeriodInv'
    BY StepFacts
<1>2. PeriodInv /\ [BreakerNext]_breakerVars =>
          [\A p \in Provider :
              period'[p].byReset \/ Earned(p, breakers[p].state, breakers'[p].state)]_breakerVars
    BY StepFacts
<1> QED
    BY <1>1, <1>2, PeriodInvInit, PTL DEF BreakerSpec, TransitionsAreEarned
------------------------------------------------------------------------------
\* TransactionLocks: the locks and the sets of their owners.

\* What the two maps are to each other, for the maps that a method has half
\* way as well as for those it leaves.
Match(ls, sets) ==
    /\ DOMAIN ls \subseteq Id /\ \A id \in DOMAIN ls : ls[id] \in Nat
    /\ DOMAIN sets \subseteq User
    /\ \A id \in DOMAIN ls : \E u \in DOMAIN sets : id \in sets[u]
    /\ \A u \in DOMAIN sets :
          /\ sets[u] # {} /\ sets[u] \subseteq DOMAIN ls
          /\ IsFiniteSet(sets[u]) /\ Cardinality(sets[u]) <= MaxLocks
    /\ \A u, w \in DOMAIN sets : sets[u] \cap sets[w] # {} => u = w

LockInv == Match(locks, userLocks)

LEMMA LockInvImplies == LockInv => LockTypeOK /\ OwnersMatchLocks
BY DEF LockInv, Match, LockTypeOK, OwnersMatchLocks

\* Removing any locks, held or expired, from both maps keeps them matched.
LEMMA RemoveMatches ==
    ASSUME LockInv, NEW ids
    PROVE  Match(Unlocked(ids), Disowned(ids))
<1> DEFINE ls == Unlocked(ids)
           sets == Disowned(ids)
<1> USE DEF LockInv
<1>1. /\ DOMAIN ls = DOMAIN locks \ ids
      /\ \A id \in DOMAIN ls : ls[id] = locks[id]
    BY DEF Unlocked
<1>2. /\ DOMAIN sets = {w \in DOMAIN userLocks : ~(userLocks[w] \subseteq ids)}
      /\ \A u \in DOMAIN sets : sets[u] = userLocks[u] \ ids
    BY DEF Disowned
<1> HIDE DEF ls, sets
<1>3. DOMAIN ls \subseteq Id /\ DOMAIN sets \subseteq User /\ \A id \in DOMAIN ls : ls[id] \in Nat
    BY <1>1, <1>2 DEF Match
<1>4. ASSUME NEW id \in DOMAIN ls PROVE \E u \in DOMAIN sets : id \in sets[u]
  <2>1. PICK u \in DOMAIN userLocks : id \in userLocks[u]
      BY <1>1 DEF Match
  <2>2. u \in DOMAIN sets /\ id \in sets[u]
      BY <1>1, <1>2, <2>1
  <2> QED BY <2>2
<1>5. ASSUME NEW u \in DOMAIN sets
      PROVE  /\ sets[u] # {} /\ sets[u] \subseteq DOMAIN ls
             /\ IsFiniteSet(sets[u]) /\ Cardinality(sets[u]) <= MaxLocks
  <2>1. /\ u \in DOMAIN userLocks /\ sets[u] = userLocks[u] \ ids /\ sets[u] # {}
        /\ sets[u] \subseteq userLocks[u]
      BY <1>2
  <2>2. /\ userLocks[u] \subseteq DOMAIN locks
        /\ IsFiniteSet(userLocks[u]) /\ Cardinality(userLocks[u]) <= MaxLocks
      BY <2>1 DEF Match
  <2>3. IsFiniteSet(sets[u]) /\ Cardinality(sets[u]) <= Cardinality(userLocks[u])
      BY <2>1, <2>2, FS_Subset
  <2>4. Cardinality(sets[u]) \in Nat /\ Cardinality(userLocks[u]) \in Nat
      BY <2>2, <2>3, FS_CardinalityType
  <2>5. sets[u] \subseteq DOMAIN ls
      BY <1>1, <2>1, <2>2
  <2> QED BY <2>1, <2>2, <2>3, <2>4, <2>5, LockAssumption
<1>6. \A u, w \in DOMAIN sets : sets[u] \cap sets[w] # {} => u = w
    BY <1>2 DEF Match
<1> QED BY <1>3, <1>4, <1>5, <1>6 DEF Match, ls, sets

LEMMA RemoveKeepsInv == ASSUME LockInv, NEW ids, Remove(ids) PROVE LockInv'
BY RemoveMatches DEF Remove, LockInv

\* A lock is granted only for an id that no map holds any more, to a user
\* below the limit.
LEMMA GrantedInv ==
    ASSUME LockInv, NEW id \in Id, NEW u \in User, NEW ttl \in Ttl, AcquireGranted(id, u, ttl)
    PROVE  LockInv'
<1> DEFINE left == Unlocked(Dropped(id, u))
           sets == Disowned(Dropped(id, u))
           own == Owned(sets, u)
<1>1. Match(left, sets)
    BY RemoveMatches
<1>2. id \notin DOMAIN left
  <2>1. id \in DOMAIN locks => id \in Dropped(id, u)
      BY DEF AcquireGranted, Held, Expired, Dropped, LockInv, Match
  <2> QED BY <2>1 DEF Unlocked
<1>3. ~IsFull(sets, u) /\ ttl \in Nat
    BY LockAssumption DEF AcquireGranted
<1>4. /\ locks' = [i \in DOMAIN left \cup {id} |-> IF i = id THEN ttl ELSE left[i]]
      /\ userLocks' = [w \in DOMAIN sets \cup {u} |->
                          IF w = u THEN Owned(sets, u) \cup {id} ELSE sets[w]]
    BY DEF AcquireGranted
<1> HIDE DEF left, sets, own
<1>5. \A w \in DOMAIN sets : id \notin sets[w]
    BY <1>1, <1>2 DEF Match
<1>6. own = (IF u \in DOMAIN sets THEN sets[u] ELSE {}) /\ Owned(sets, u) = own
    BY DEF own, Owned
<1>7. /\ IsFiniteSet(own \cup {id}) /\ Cardinality(own \cup {id}) <= MaxLocks
      /\ own \subseteq DOMAIN left /\ id \notin own
  <2>1. IsFiniteSet(own) /\ own \subseteq DOMAIN left /\ id \notin own
      BY <1>1, <1>2, <1>6, FS_EmptySet DEF Match
  <2>2. Cardinality(own) \in Nat /\ ~(Cardinality(own) >= MaxLocks)
      BY <1>3, <1>6, <2>1, FS_CardinalityType DEF IsFull
  <2>3. IsFiniteSet(own \cup {id}) /\ Cardinality(own \cup {id}) = Cardinality(own) + 1
      BY <2>1, FS_AddElement
  <2> QED BY <2>1, <2>2, <2>3, LockAssumption
<1>8. /\ DOMAIN locks' = DOMAIN left \cup {id}
      /\ \A i \in DOMAIN locks' : locks'[i] = IF i = id THEN ttl ELSE left[i]
    BY <1>4
<1>9. /\ DOMAIN userLocks' = DOMAIN sets \cup {u}
      /\ \A w \in DOMAIN userLocks' :
            userLocks'[w] = IF w = u THEN own \cup {id} ELSE sets[w]
    BY <1>4, <1>6
<1>10. /\ DOMAIN locks' \subseteq Id /\ \A i \in DOMAIN locks' : locks'[i] \in Nat
       /\ DOMAIN userLocks' \subseteq User
    BY <1>1, <1>3, <1>8, <1>9 DEF Match
<1>11. ASSUME NEW i \in DOMAIN locks' PROVE \E w \in DOMAIN userLocks' : i \in userLocks'[w]
  <2>1. CASE i = id
      BY <1>9, <2>1
  <2>2. CASE i # id
    <3>1. PICK w \in DOMAIN sets : i \in sets[w]
        BY <1>1, <1>8, <2>2 DEF Match
    <3>2. w \in DOMAIN userLocks' /\ i \in userLocks'[w]
        BY <1>6, <1>9, <3>1
    <3> QED BY <3>2
  <2> QED BY <2>1, <2>2
<1>12. ASSUME NEW w \in DOMAIN userLocks'
       PROVE  /\ userLocks'[w] # {} /\ userLocks'[w] \subseteq DOMAIN locks'
              /\ IsFiniteSet(userLocks'[w]) /\ Cardinality(userLocks'[w]) <= MaxLocks
  <2>1. CASE w = u
      BY <1>7, <1>8, <1>9, <2>1
  <2>2. CASE w # u
      BY <1>1, <1>8, <1>9, <2>2 DEF Match
  <2> QED BY <2>1, <2>2
<1>13. \A v, w \in DOMAIN userLocks' : userLocks'[v] \cap userLocks'[w] # {} => v = w
    BY <1>1, <1>5, <1>6, <1>9 DEF Match
<1> QED BY <1>10, <1>11, <1>12, <1>13 DEF LockInv, Match

LEMMA LockInvNext == LockInv /\ [LockNext]_lockVars => LockInv'
<1> SUFFICES ASSUME LockInv, [LockNext]_lockVars PROVE LockInv'
    OBVIOUS
<1>1. CASE \E id \in Id, u \in User : AcquireRefused(id, u)
    BY <1>1, RemoveKeepsInv DEF AcquireRefused
<1>2. CASE \E id \in Id, u \in User : \E ttl \in Ttl : AcquireGranted(id, u, ttl)
    BY <1>2, GrantedInv
<1>3. CASE \E id \in Id : ReleaseLock(id) \/ IsLocked(id)
    BY <1>3, RemoveKeepsInv DEF ReleaseLock, IsLocked
<1>4. CASE \E u \in User : CanUserSubmit(u)
    BY <1>4, RemoveKeepsInv DEF CanUserSubmit
<1>5. CASE CleanupAllExpiredLocks
    BY <1>5, RemoveKeepsInv DEF CleanupAllExpiredLocks
<1>6. CASE ClearLocks
    BY <1>6 DEF ClearLocks, LockInv, Match
<1>7. CASE LockTick
  <2>1. DOMAIN locks' = DOMAIN locks /\ userLocks' = userLocks
      BY <1>7 DEF LockTick
  <2>2. \A id \in DOMAIN locks : locks'[id] \in Nat
      BY <1>7 DEF LockTick, Expired, LockInv, Match
  <2> QED BY <2>1, <2>2 DEF LockInv, Match
<1>8. CASE UNCHANGED lockVars
    BY <1>8 DEF lockVars, LockInv, Match
<1> QED BY <1>1, <1>2, <1>3, <1>4, <1>5, <1>6, <1>7, <1>8 DEF LockNext

\* For any number of users and locks, any limit and any lifetimes, the two
\* maps tell one story after every method, a refused one included: no lock
\* escapes its owner's limit and none uses it up after it is gone.
THEOREM LocksMatchOwners == LockSpec => []OwnersMatchLocks
<1>1. LockInit => LockInv
    BY DEF LockInit, LockInv, Match
<1> QED BY <1>1, LockInvNext, LockInvImplies, PTL DEF LockSpec
------------------------------------------------------------------------------
\* FallbackExecutor: executions of a route that run at the same time.

Runners(r) == {c \in Call : <<c, r>> \in running}
Announcers(r) == {c \in Call : Announcing(c, r)}

CallOK(k) ==
    /\ k.phase \in {"announcing", "executing", "completing", "delay"} =>
          k.ranked \in Rankings /\ k.maxAttempts \in 0..Cardinality(Route)
    /\ k.phase \in {"announcing", "executing", "completing"} => k.attempt \in 1..k.maxAttempts
    /\ k.phase = "executing" => k.left + Lag >= 0

\* An entry as old as the wait of a call that still waits for the route: it
\* does not look stale, as that call's timer comes first.
Covered(r) ==
    /\ r \in DOMAIN activeExecutions
    /\ \E c \in Call : Awaits(c, r) /\ activeExecutions[r] + calls[c].left <= timeout

\* What keeps one more execution of the route from being announced.
Guarded(r) == r \in failedRoutes \/ Announcers(r) # {} \/ Covered(r)

Room(r) == Cardinality(Runners(r)) <= disturbances

RouteOK(r) ==
    /\ IsFiniteSet(Runners(r)) /\ IsFiniteSet(Announcers(r))
    /\ Cardinality(Runners(r)) + Cardinality(Announcers(r)) <= 1 + disturbances
    /\ Guarded(r) \/ Room(r)

FallbackInv ==
    /\ FallbackTypeOK
    /\ \A c \in Call : CallOK(calls[c])
    /\ \A r \in Route : RouteOK(r)

\* Among numbers there is a least.
LEMMA LeastNatural ==
    ASSUME NEW T \in SUBSET Nat, T # {}
    PROVE  \E x \in T : \A y \in T : x <= y
<1> DEFINE R == StrictSubsetOrdering(Nat)
           F == FiniteSubsetsOf(Nat)
           D == {0..x : x \in T}
<1>1. ASSUME NEW x \in T PROVE 0..x \in F
    BY FS_Interval, x \in Int, 0 \in Int DEF FiniteSubsetsOf
<1>2. IsWellFoundedOn(R, F)
    BY FS_StrictSubsetOrderingWellFounded
<1>3. D \subseteq F /\ D # {}
    BY <1>1
<1>4. PICK d \in D : \A e \in D : <<e, d>> \notin R
  <2> HIDE DEF D, F, R
  <2> QED BY <1>2, <1>3, WFMin
<1>5. PICK x \in T : d = 0..x
    OBVIOUS
<1>6. ASSUME NEW y \in T, y < x PROVE FALSE
  <2>1. 0..y \subseteq 0..x /\ 0..y # 0..x
      BY <1>6
  <2>2. <<0..y, d>> \in R
      BY <2>1, <1>5 DEF StrictSubsetOrdering
  <2> QED BY <1>4, <2>2
<1> QED BY <1>6

LEMMA FirstFacts == ASSUME NEW S \in SUBSET Nat, S # {} PROVE First(S) \in S
BY LeastNatural DEF First

\* An entry whose call still waits is not stale, as a timer is late by its
\* time at most.
LEMMA CoveredIsActive ==
    ASSUME FallbackInv, NEW r, Covered(r)
    PROVE  IsExecutionActive(r)
<1>1. PICK c \in Call : Awaits(c, r) /\ activeExecutions[r] + calls[c].left <= timeout
    BY DEF Covered
<1>2. calls[c].left \in Int /\ calls[c].left + Lag >= 0
    BY <1>1 DEF Awaits, FallbackInv, FallbackTypeOK, CallOK, CallState
<1>3. r \in DOMAIN activeExecutions /\ activeExecutions[r] \in Nat
    BY DEF Covered, FallbackInv, FallbackTypeOK
<1>4. timeout \in Nat /\ Lag \in Nat /\ Lag <= timeout
    BY FallbackAssumption DEF FallbackInv, FallbackTypeOK
<1>5. activeExecutions[r] <= 2 * timeout
    BY <1>1, <1>2, <1>3, <1>4
<1> QED BY <1>3, <1>5 DEF IsExecutionActive

LEMMA CoveredKept ==
    ASSUME NEW r, Covered(r), r \in DOMAIN activeExecutions',
           activeExecutions'[r] = activeExecutions[r], timeout' = timeout,
           \A b \in Call : Awaits(b, r) => calls'[b] = calls[b]
    PROVE  Covered(r)'
<1>1. PICK c \in Call : Awaits(c, r) /\ activeExecutions[r] + calls[c].left <= timeout
    BY DEF Covered
<1>2. calls'[c] = calls[c]
    BY <1>1
<1> QED BY <1>1, <1>2 DEF Covered, Awaits, Current

LEMMA RouteFacts ==
    ASSUME FallbackInv, NEW r \in Route
    PROVE  /\ IsFiniteSet(Runners(r)) /\ IsFiniteSet(Announcers(r))
           /\ Cardinality(Runners(r)) \in Nat /\ Cardinality(Announcers(r)) \in Nat
           /\ disturbances \in Nat
           /\ Cardinality(Runners(r)) + Cardinality(Announcers(r)) <= 1 + disturbances
           /\ Guarded(r) \/ Room(r)
<1>1. RouteOK(r) /\ disturbances \in Nat
    BY FallbackAssumption DEF FallbackInv, FallbackTypeOK
<1>2. Cardinality(Runners(r)) \in Nat /\ Cardinality(Announcers(r)) \in Nat
    BY <1>1, FS_CardinalityType DEF RouteOK
<1> QED BY <1>1, <1>2 DEF RouteOK

LEMMA FewerRunners ==
    ASSUME FallbackInv, NEW r \in Route, Runners(r)' \subseteq Runners(r)
    PROVE  /\ IsFiniteSet(Runners(r)') /\ Cardinality(Runners(r)') \in Nat
           /\ Cardinality(Runners(r)') <= Cardinality(Runners(r))
           /\ Runners(r)' # Runners(r) => Cardinality(Runners(r)') + 1 <= Cardinality(Runners(r))
<1>1. IsFiniteSet(Runners(r))
    BY RouteFacts
<1>2. IsFiniteSet(Runners(r)') /\ Cardinality(Runners(r)') <= Cardinality(Runners(r))
    BY <1>1, FS_Subset
<1>3. Cardinality(Runners(r)') \in Nat /\ Cardinality(Runners(r)) \in Nat
    BY <1>1, <1>2, FS_CardinalityType
<1>4. ASSUME Runners(r)' # Runners(r)
      PROVE  Cardinality(Runners(r)') + 1 <= Cardinality(Runners(r))
  <2>1. PICK c : c \in Runners(r) /\ c \notin Runners(r)'
      BY <1>4
  <2>2. /\ IsFiniteSet(Runners(r) \ {c})
        /\ Cardinality(Runners(r) \ {c}) = Cardinality(Runners(r)) - 1
      BY <1>1, <2>1, FS_RemoveElement
  <2>3. Runners(r)' \subseteq Runners(r) \ {c}
      BY <2>1
  <2>4. Cardinality(Runners(r)') <= Cardinality(Runners(r) \ {c})
      BY <2>2, <2>3, FS_Subset
  <2> QED BY <1>3, <2>2, <2>4
<1> QED BY <1>2, <1>3, <1>4

\* A route where nothing begins stays as it should be.
LEMMA RouteKept ==
    ASSUME FallbackInv, NEW r \in Route, disturbances' = disturbances,
           Runners(r)' \subseteq Runners(r), Announcers(r)' \subseteq Announcers(r),
           Guarded(r) => Guarded(r)' \/ Room(r)'
    PROVE  RouteOK(r)'
<1>1. /\ IsFiniteSet(Runners(r)') /\ Cardinality(Runners(r)') \in Nat
      /\ Cardinality(Runners(r)') <= Cardinality(Runners(r))
    BY FewerRunners
<1>2. /\ IsFiniteSet(Announcers(r)') /\ Cardinality(Announcers(r)') \in Nat
      /\ Cardinality(Announcers(r)') <= Cardinality(Announcers(r))
    BY RouteFacts, FS_Subset, FS_CardinalityType
<1>3. Room(r) => Room(r)'
    BY <1>1, RouteFacts DEF Room
<1> QED BY <1>1, <1>2, <1>3, RouteFacts DEF RouteOK

\* A disturbance leaves room for one more on every route.
LEMMA RouteDisturbed ==
    ASSUME FallbackInv, NEW r \in Route, disturbances' = disturbances + 1,
           Runners(r)' \subseteq Runners(r), Announcers(r)' \subseteq Announcers(r)
    PROVE  RouteOK(r)'
<1>1. /\ IsFiniteSet(Runners(r)') /\ Cardinality(Runners(r)') \in Nat
      /\ Cardinality(Runners(r)') <= Cardinality(Runners(r))
    BY FewerRunners
<1>2. /\ IsFiniteSet(Announcers(r)') /\ Cardinality(Announcers(r)') \in Nat
      /\ Cardinality(Announcers(r)') <= Cardinality(Announcers(r))
    BY RouteFacts, FS_Subset, FS_CardinalityType
<1>3. Room(r)'
    BY <1>1, RouteFacts DEF Room
<1> QED BY <1>1, <1>2, <1>3, RouteFacts DEF RouteOK

LEMMA CurrentIsRoute ==
    ASSUME NEW k, CallOK(k), k.phase \in {"announcing", "executing", "completing"}
    PROVE  k.ranked[k.attempt] \in Route
<1>1. k.ranked \in [1..Cardinality(Route) -> Route] /\ k.attempt \in 1..Cardinality(Route)
    BY FallbackAssumption, FS_CardinalityType DEF CallOK, Rankings
<1> QED BY <1>1

Moved(k, phase, left) == [k EXCEPT !.phase = phase, !.left = left]

LEMMA MovedFacts ==
    ASSUME NEW k \in CallState, NEW p \in Phases, NEW t \in Int
    PROVE  /\ Moved(k, p, t) \in CallState
           /\ Moved(k, p, t).phase = p /\ Moved(k, p, t).left = t
           /\ Moved(k, p, t).ranked = k.ranked /\ Moved(k, p, t).attempt = k.attempt
           /\ Moved(k, p, t).maxAttempts = k.maxAttempts
<1>1. Moved(k, p, t) \in CallState
    BY DEF CallState, Moved
<1>2. Moved(k, p, t).phase = p /\ Moved(k, p, t).left = t
    BY DEF CallState, Moved
<1>3. Moved(k, p, t).ranked = k.ranked /\ Moved(k, p, t).attempt = k.attempt
    BY DEF CallState, Moved
<1>4. Moved(k, p, t).maxAttempts = k.maxAttempts
    BY DEF CallState, Moved
<1> QED BY <1>1, <1>2, <1>3, <1>4

LEMMA LocalFacts ==
    /\ Local("done") \in CallState /\ CallOK(Local("done")) /\ Local("done").phase = "done"
    /\ Local("idle") \in CallState /\ CallOK(Local("idle"))
BY DEF Local, CallOK, CallState, Phases

\* One call's record changes to a proper one.
LEMMA CallChanges ==
    ASSUME FallbackInv, NEW c \in Call, NEW next \in CallState, CallOK(next),
           calls' = [calls EXCEPT ![c] = next]
    PROVE  /\ calls' \in [Call -> CallState] /\ \A b \in Call : CallOK(calls'[b])
           /\ calls'[c] = next /\ \A b \in Call : b # c => calls'[b] = calls[b]
BY DEF FallbackInv, FallbackTypeOK

\* A call that no longer announces its route.
LEMMA NoNewAnnouncer ==
    ASSUME NEW c \in Call, calls'[c].phase # "announcing",
           \A b \in Call : b # c => calls'[b] = calls[b], NEW r
    PROVE  Announcers(r)' \subseteq Announcers(r) \ {c}
BY DEF Announcers, Announcing, Current
------------------------------------------------------------------------------
Announced(k, i) == [k EXCEPT !.phase = "announcing", !.attempt = i]

LEMMA AnnouncedFacts ==
    ASSUME NEW k \in CallState, NEW i \in Nat
    PROVE  /\ Announced(k, i) \in CallState
           /\ Announced(k, i).phase = "announcing" /\ Announced(k, i).attempt = i
           /\ Announced(k, i).ranked = k.ranked
           /\ Announced(k, i).maxAttempts = k.maxAttempts
BY DEF CallState, Phases, Announced

\* A call goes on to announce its next route, or ends: the route is neither
\* failed nor active, so it has room unless a callback that announces it made
\* the call.
LEMMA ProceedInv ==
    ASSUME FallbackInv, NEW c \in Call, NEW call, NEW n \in Nat \ {0},
           calls[c].phase \in {"idle", "delay"},
           call \in CallState, call.ranked \in Rankings, call.maxAttempts \in 0..Cardinality(Route),
           Proceed(c, call, n), UNCHANGED <<timeout, failedRoutes, running>>,
           \/ Disturb
           \/ disturbances' = disturbances /\ \A b \in Call : calls[b].phase # "announcing"
    PROVE  FallbackInv'
<1> DEFINE U == Untried(call, n)
           first == First(U)
<1>0. PICK i : i = first
    OBVIOUS
<1>1. PICK r : r = call.ranked[i]
    OBVIOUS
<1>2. /\ disturbances' \in 0..MaxDisturbances
      /\ disturbances' = disturbances \/ disturbances' = disturbances + 1
    BY FallbackAssumption DEF Disturb, FallbackInv, FallbackTypeOK
<1>3. \A q : ~Awaits(c, q)
    BY DEF Awaits
<1>4. \A q : Runners(q)' = Runners(q)
    BY DEF Runners
<1>5. CASE U = {} \/ IsExecutionActive(r)
  <2>1. /\ calls' = [calls EXCEPT ![c] = Local("done")]
        /\ UNCHANGED <<activeExecutions, callbacks>>
      BY <1>0, <1>1, <1>5 DEF Proceed
  <2>2. /\ calls' \in [Call -> CallState] /\ \A b \in Call : CallOK(calls'[b])
        /\ calls'[c].phase = "done" /\ \A b \in Call : b # c => calls'[b] = calls[b]
      BY <2>1, CallChanges, LocalFacts
  <2>3. ASSUME NEW q \in Route PROVE RouteOK(q)'
    <3>1. Announcers(q)' = Announcers(q)
        BY <2>2 DEF Announcers, Announcing, Current
    <3>2. Covered(q) => Covered(q)'
        BY <1>3, <2>1, <2>2, CoveredKept DEF Covered
    <3>3. Guarded(q) => Guarded(q)'
        BY <3>1, <3>2 DEF Guarded
    <3> QED BY <1>2, <1>4, <3>1, <3>3, RouteKept, RouteDisturbed
  <2> QED BY <1>2, <2>1, <2>2, <2>3 DEF FallbackInv, FallbackTypeOK
<1>6. CASE U # {} /\ ~IsExecutionActive(r)
  <2> DEFINE next == Announced(call, i)
  <2>1. /\ calls' = [calls EXCEPT ![c] = next]
        /\ activeExecutions' = Ended(r)
        /\ callbacks' = <<c>> \o callbacks
      BY <1>0, <1>1, <1>6 DEF Proceed, Announced
  <2>2. i \in n..call.maxAttempts /\ r \notin failedRoutes
    <3>1. U \subseteq Nat
        BY DEF Untried, CallState
    <3>2. i \in U
      <4> HIDE DEF U
      <4> QED BY <1>0, <1>6, <3>1, FirstFacts
    <3> QED BY <1>1, <3>2 DEF Untried
  <2>3. i \in 1..call.maxAttempts /\ i \in Nat
      BY <2>2 DEF CallState
  <2>4. next \in CallState /\ next.phase = "announcing" /\ next.attempt = i
        /\ next.ranked = call.ranked /\ next.maxAttempts = call.maxAttempts
      BY <2>3, AnnouncedFacts
  <2> HIDE DEF next
  <2>5. CallOK(next)
      BY <2>3, <2>4 DEF CallOK
  <2>6. r \in Route
      BY <1>1, <2>4, <2>5, CurrentIsRoute
  <2>7. /\ calls' \in [Call -> CallState] /\ \A b \in Call : CallOK(calls'[b])
        /\ calls'[c] = next /\ \A b \in Call : b # c => calls'[b] = calls[b]
      BY <2>1, <2>4, <2>5, CallChanges
  <2>8. /\ DOMAIN activeExecutions' = DOMAIN activeExecutions \ {r}
        /\ \A q \in DOMAIN activeExecutions' : activeExecutions'[q] = activeExecutions[q]
      BY <2>1 DEF Ended
  <2>9. callbacks' \in Seq(Call)
      BY <2>1 DEF FallbackInv, FallbackTypeOK
  <2>10. ASSUME NEW q \in Route, q # r PROVE RouteOK(q)'
    <3>1. Announcers(q)' = Announcers(q)
        BY <1>1, <2>4, <2>7, <2>10 DEF Announcers, Announcing, Current
    <3>2. Covered(q) => Covered(q)'
        BY <1>3, <2>7, <2>8, <2>10, CoveredKept DEF Covered
    <3>3. Guarded(q) => Guarded(q)'
        BY <3>1, <3>2 DEF Guarded
    <3> QED BY <1>2, <1>4, <3>1, <3>3, RouteKept, RouteDisturbed
  <2>11. RouteOK(r)'
    <3>1. Announcers(r)' = Announcers(r) \cup {c} /\ c \notin Announcers(r)
        BY <1>1, <2>4, <2>7 DEF Announcers, Announcing, Current
    <3>2. /\ IsFiniteSet(Announcers(r)')
          /\ Cardinality(Announcers(r)') = Cardinality(Announcers(r)) + 1
        BY <2>6, <3>1, RouteFacts, FS_AddElement
    <3>3. Cardinality(Runners(r)) + Cardinality(Announcers(r)) <= disturbances'
      <4>1. CASE Disturb
          BY <2>6, <4>1, RouteFacts DEF Disturb
      <4>2. CASE disturbances' = disturbances /\ \A b \in Call : calls[b].phase # "announcing"
        <5>1. Announcers(r) = {}
            BY <4>2 DEF Announcers, Announcing
        <5>2. ~Guarded(r)
            BY <1>6, <2>2, <5>1, CoveredIsActive DEF Guarded
        <5>3. Cardinality(Announcers(r)) = 0
            BY <5>1, FS_EmptySet
        <5> QED BY <2>6, <4>2, <5>2, <5>3, RouteFacts DEF Room
      <4> QED BY <4>1, <4>2
    <3>4. Guarded(r)'
        BY <3>1 DEF Guarded
    <3>5. /\ IsFiniteSet(Runners(r)')
          /\ Cardinality(Runners(r)') + Cardinality(Announcers(r)') <= 1 + disturbances'
        BY <1>2, <1>4, <2>6, <3>2, <3>3, RouteFacts
    <3> QED BY <3>2, <3>4, <3>5 DEF RouteOK
  <2> QED BY <1>2, <2>7, <2>8, <2>9, <2>10, <2>11 DEF FallbackInv, FallbackTypeOK
<1> QED BY <1>5, <1>6

Begun(k, ranked, n) == [k EXCEPT !.ranked = ranked, !.maxAttempts = n]

LEMMA BegunFacts ==
    ASSUME NEW k \in CallState, NEW ranked \in Rankings, NEW n \in Nat
    PROVE  /\ Begun(k, ranked, n) \in CallState
           /\ Begun(k, ranked, n).ranked = ranked /\ Begun(k, ranked, n).maxAttempts = n
BY DEF CallState, Begun

LEMMA ExecuteInv ==
    ASSUME FallbackInv, NEW c \in Call, NEW ranked \in Rankings, NEW attempts \in MaxAttempts,
           ExecuteWithFallback(c, ranked, attempts)
    PROVE  FallbackInv'
<1> DEFINE most == Least(attempts, Len(ranked))
           call == Begun(Local("idle"), ranked, most)
<1>1. Cardinality(Route) \in Nat /\ attempts \in Nat
    BY FallbackAssumption, FS_CardinalityType
<1>2. Len(ranked) = Cardinality(Route)
    BY <1>1 DEF Rankings
<1>3. most \in 0..Cardinality(Route)
    BY <1>1, <1>2 DEF Least
<1>4. /\ calls[c].phase \in {"idle", "delay"} /\ Proceed(c, call, 1)
      /\ UNCHANGED <<timeout, failedRoutes, running>>
      /\ \/ Disturb
         \/ disturbances' = disturbances /\ \A b \in Call : calls[b].phase # "announcing"
    BY DEF ExecuteWithFallback, Begun
<1> HIDE DEF most
<1>5. Local("idle") \in CallState /\ most \in Nat
    BY <1>1, <1>3, LocalFacts
<1>6. call \in CallState /\ call.ranked \in Rankings /\ call.maxAttempts \in 0..Cardinality(Route)
    BY <1>3, <1>5, BegunFacts
<1>7. 1 \in Nat \ {0}
    OBVIOUS
<1> HIDE DEF call
<1> QED BY <1>4, <1>6, <1>7, ProceedInv

LEMMA AfterDelayInv ==
    ASSUME FallbackInv, NEW c \in Call, AfterDelay(c)
    PROVE  FallbackInv'
<1> DEFINE call == calls[c]
           n == calls[c].attempt + 1
<1>1. calls[c].phase = "delay" /\ CallOK(calls[c]) /\ calls[c] \in CallState
    BY DEF AfterDelay, FallbackInv, FallbackTypeOK
<1>2. calls[c].ranked \in Rankings /\ calls[c].maxAttempts \in 0..Cardinality(Route)
    BY <1>1 DEF CallOK
<1>3. n \in Nat \ {0}
    BY <1>1 DEF CallState
<1>4. /\ Proceed(c, call, n) /\ UNCHANGED <<timeout, failedRoutes, running, disturbances>>
      /\ \A b \in Call : calls[b].phase # "announcing"
    BY DEF AfterDelay, Quiet
<1>5. /\ call \in CallState /\ call.ranked \in Rankings /\ call.maxAttempts \in 0..Cardinality(Route)
      /\ calls[c].phase \in {"idle", "delay"}
    BY <1>1, <1>2
<1> HIDE DEF n, call
<1> QED BY <1>3, <1>4, <1>5, ProceedInv

LEMMA ReturnFacts == ASSUME FallbackInv, NEW c, Return(c) PROVE callbacks' \in Seq(Call)
BY DEF FallbackInv, FallbackTypeOK, Return

\* The announced execution begins: its entry is new, and as old as its wait.
LEMMA StartInv ==
    ASSUME FallbackInv, NEW c \in Call, StartExecution(c)
    PROVE  FallbackInv'
<1> DEFINE next == Moved(calls[c], "executing", timeout)
<1>1. PICK r : r = Current(c)
    OBVIOUS
<1>2. /\ calls[c].phase = "announcing" /\ calls' = [calls EXCEPT ![c] = next]
      /\ activeExecutions' = Started(r) /\ running' = running \cup {<<c, r>>}
      /\ UNCHANGED <<timeout, failedRoutes, disturbances>> /\ callbacks' \in Seq(Call)
    BY <1>1, ReturnFacts DEF StartExecution, Moved
<1>3. /\ calls[c] \in CallState /\ CallOK(calls[c]) /\ timeout \in Timeouts
      /\ timeout \in Nat /\ Lag \in Nat
    BY FallbackAssumption DEF FallbackInv, FallbackTypeOK
<1>4. /\ next \in CallState /\ next.phase = "executing" /\ next.left = timeout
      /\ next.ranked = calls[c].ranked /\ next.attempt = calls[c].attempt
      /\ next.maxAttempts = calls[c].maxAttempts
    BY <1>3, MovedFacts DEF Phases
<1> HIDE DEF next
<1>5. CallOK(next)
    BY <1>2, <1>3, <1>4 DEF CallOK
<1>6. r \in Route
    BY <1>1, <1>2, <1>3, CurrentIsRoute DEF Current
<1>7. /\ calls' \in [Call -> CallState] /\ \A b \in Call : CallOK(calls'[b])
      /\ calls'[c] = next /\ \A b \in Call : b # c => calls'[b] = calls[b]
    BY <1>2, <1>4, <1>5, CallChanges
<1>8. /\ DOMAIN activeExecutions' = DOMAIN activeExecutions \cup {r}
      /\ activeExecutions'[r] = 0
      /\ \A q \in DOMAIN activeExecutions : q # r => activeExecutions'[q] = activeExecutions[q]
    BY <1>2 DEF Started
<1>9. ASSUME NEW q \in Route, q # r PROVE RouteOK(q)'
  <2>1. Runners(q)' = Runners(q)
      BY <1>2, <1>9 DEF Runners
  <2>2. Announcers(q)' = Announcers(q)
      BY <1>1, <1>4, <1>7, <1>9 DEF Announcers, Announcing, Current
  <2>3. \A b \in Call : Awaits(b, q) => calls'[b] = calls[b]
      BY <1>2, <1>7 DEF Awaits
  <2>4. Covered(q) => Covered(q)'
      BY <1>2, <1>8, <1>9, <2>3, CoveredKept DEF Covered
  <2>5. Guarded(q) => Guarded(q)'
      BY <1>2, <2>2, <2>4 DEF Guarded
  <2> QED BY <1>2, <2>1, <2>2, <2>5, RouteKept
<1>10. RouteOK(r)'
  <2>1. c \in Announcers(r) /\ Announcers(r)' = Announcers(r) \ {c}
      BY <1>1, <1>2, <1>4, <1>7 DEF Announcers, Announcing, Current
  <2>2. Runners(r)' = Runners(r) \cup {c}
      BY <1>2 DEF Runners
  <2>3. /\ IsFiniteSet(Announcers(r)')
        /\ Cardinality(Announcers(r)') = Cardinality(Announcers(r)) - 1
      BY <1>6, <2>1, RouteFacts, FS_RemoveElement
  <2>4. /\ IsFiniteSet(Runners(r)')
        /\ \/ Cardinality(Runners(r)') = Cardinality(Runners(r))
           \/ Cardinality(Runners(r)') = Cardinality(Runners(r)) + 1
      BY <1>6, <2>2, RouteFacts, FS_AddElement
  <2>5. Cardinality(Runners(r)') + Cardinality(Announcers(r)') <= 1 + disturbances'
      BY <1>2, <1>6, <2>3, <2>4, RouteFacts
  <2>6. Covered(r)'
    <3>1. Awaits(c, r)'
        BY <1>1, <1>4, <1>7 DEF Awaits, Current
    <3>2. activeExecutions'[r] + calls'[c].left <= timeout'
        BY <1>2, <1>3, <1>4, <1>7, <1>8
    <3> QED BY <1>8, <3>1, <3>2 DEF Covered
  <2> QED BY <2>3, <2>4, <2>5, <2>6 DEF RouteOK, Guarded
<1>11. /\ DOMAIN activeExecutions' \subseteq Route
       /\ \A q \in DOMAIN activeExecutions' : activeExecutions'[q] \in Nat
    BY <1>6, <1>8 DEF FallbackInv, FallbackTypeOK
<1>12. running' \subseteq Call \X Route
    BY <1>2, <1>6 DEF FallbackInv, FallbackTypeOK
<1> QED BY <1>2, <1>7, <1>9, <1>10, <1>11, <1>12 DEF FallbackInv, FallbackTypeOK

\* A call ends while its callback runs: one that announced leaves room.
LEMMA EndsInCallbackInv ==
    ASSUME FallbackInv, NEW c \in Call, AnnouncementThrows(c) \/ CompletedReturns(c)
    PROVE  FallbackInv'
<1>1. /\ calls[c].phase \in {"announcing", "completing"}
      /\ calls' = [calls EXCEPT ![c] = Local("done")] /\ callbacks' \in Seq(Call)
      /\ UNCHANGED <<timeout, activeExecutions, failedRoutes, running, disturbances>>
    BY ReturnFacts DEF AnnouncementThrows, CompletedReturns
<1>2. /\ calls' \in [Call -> CallState] /\ \A b \in Call : CallOK(calls'[b])
      /\ calls'[c].phase = "done" /\ \A b \in Call : b # c => calls'[b] = calls[b]
    BY <1>1, CallChanges, LocalFacts
<1>3. ASSUME NEW r \in Route PROVE RouteOK(r)'
  <2>1. Announcers(r)' \subseteq Announcers(r) /\ Runners(r)' = Runners(r)
      BY <1>1, <1>2, NoNewAnnouncer DEF Runners
  <2>2. Announcers(r) # {} => Room(r)'
    <3>1. Announcers(r) # {} => Cardinality(Announcers(r)) >= 1
        BY RouteFacts, FS_EmptySet
    <3> QED BY <1>1, <2>1, <3>1, RouteFacts DEF Room
  <2>3. \A b \in Call : Awaits(b, r) => calls'[b] = calls[b]
      BY <1>1, <1>2 DEF Awaits
  <2>4. Covered(r) => Covered(r)'
      BY <1>1, <2>3, CoveredKept DEF Covered
  <2>5. Guarded(r) => Guarded(r)' \/ Room(r)'
      BY <1>1, <2>2, <2>4 DEF Guarded
  <2> QED BY <1>1, <2>1, <2>5, RouteKept
<1> QED BY <1>1, <1>2, <1>3 DEF FallbackInv, FallbackTypeOK

\* A call stops waiting for its route and drops the route's entry, or its
\* callback throws after it did: the route has failed, or an execution fewer.
LEMMA WaitEnds ==
    ASSUME FallbackInv, NEW c \in Call, calls[c].phase \in {"executing", "completing"},
           NEW q, q = Current(c),
           NEW next \in CallState, CallOK(next), next.phase \notin {"announcing", "executing"},
           calls' = [calls EXCEPT ![c] = next],
           activeExecutions' = Ended(q),
           UNCHANGED <<timeout, disturbances>>, callbacks' \in Seq(Call),
           failedRoutes \subseteq failedRoutes', failedRoutes' \subseteq failedRoutes \cup {q},
           running' \subseteq running,
           q \in failedRoutes' \/ <<c, q>> \in running \ running'
    PROVE  FallbackInv'
<1>1. /\ calls' \in [Call -> CallState] /\ \A b \in Call : CallOK(calls'[b])
      /\ calls'[c] = next /\ \A b \in Call : b # c => calls'[b] = calls[b]
    BY CallChanges
<1>2. /\ DOMAIN activeExecutions' = DOMAIN activeExecutions \ {q}
      /\ \A r \in DOMAIN activeExecutions' : activeExecutions'[r] = activeExecutions[r]
    BY DEF Ended
<1>3. q \in Route
    BY CurrentIsRoute DEF FallbackInv, Current
<1>4. ASSUME NEW r \in Route PROVE RouteOK(r)'
  <2>1. Announcers(r)' \subseteq Announcers(r) /\ Announcers(r) \subseteq Announcers(r)'
      BY <1>1 DEF Announcers, Announcing, Current
  <2>2. Runners(r)' \subseteq Runners(r)
      BY DEF Runners
  <2>3. Covered(r) /\ r # q => Covered(r)'
    <3>1. \A b \in Call : Awaits(b, r) /\ r # q => calls'[b] = calls[b]
        BY <1>1 DEF Awaits
    <3> QED BY <1>2, <3>1, CoveredKept DEF Covered
  <2>4. r = q /\ q \notin failedRoutes' => Room(r)'
    <3>1. SUFFICES ASSUME r = q, q \notin failedRoutes' PROVE Room(r)'
        OBVIOUS
    <3>2. c \in Runners(r) /\ c \notin Runners(r)'
        BY <3>1 DEF Runners
    <3>3. Cardinality(Runners(r)') + 1 <= Cardinality(Runners(r)) /\ Cardinality(Runners(r)') \in Nat
        BY <2>2, <3>2, FewerRunners
    <3> QED BY <3>3, RouteFacts DEF Room
  <2>5. Guarded(r) => Guarded(r)' \/ Room(r)'
      BY <2>1, <2>3, <2>4 DEF Guarded
  <2> QED BY <2>1, <2>2, <2>5, RouteKept
<1> QED BY <1>1, <1>2, <1>3, <1>4 DEF FallbackInv, FallbackTypeOK

LEMMA FailureInv ==
    ASSUME FallbackInv, NEW c \in Call, calls[c].phase \in {"executing", "completing"},
           HandleRouteFailure(c), running' \subseteq running, callbacks' \in Seq(Call)
    PROVE  FallbackInv'
<1> DEFINE waiting == Moved(calls[c], "delay", 0)
<1>1. PICK q : q = Current(c)
    OBVIOUS
<1>2. calls[c] \in CallState /\ CallOK(calls[c])
    BY DEF FallbackInv, FallbackTypeOK
<1>3. /\ waiting \in CallState /\ waiting.phase = "delay" /\ waiting.ranked = calls[c].ranked
      /\ waiting.maxAttempts = calls[c].maxAttempts
    BY <1>2, MovedFacts DEF Phases
<1>4. PICK next : /\ next = waiting \/ next = Local("done")
                  /\ calls' = [calls EXCEPT ![c] = next]
    BY DEF HandleRouteFailure, Moved
<1> HIDE DEF waiting
<1>5. next \in CallState /\ CallOK(next) /\ next.phase \notin {"announcing", "executing"}
    BY <1>2, <1>3, <1>4, LocalFacts DEF CallOK
<1>6. /\ activeExecutions' = Ended(q) /\ failedRoutes' = failedRoutes \cup {q}
      /\ UNCHANGED <<timeout, disturbances>>
    BY <1>1 DEF HandleRouteFailure, FailedAfter
<1>7. /\ failedRoutes \subseteq failedRoutes' /\ failedRoutes' \subseteq failedRoutes \cup {q}
      /\ q \in failedRoutes'
    BY <1>6
<1> QED BY <1>1, <1>4, <1>5, <1>6, <1>7, WaitEnds

LEMMA SucceedsInv ==
    ASSUME FallbackInv, NEW c \in Call, NEW r \in Route, RouteSucceeds(c, r)
    PROVE  FallbackInv'
<1> DEFINE next == Moved(calls[c], "completing", 0)
<1>1. /\ calls[c].phase = "executing" /\ r = Current(c)
      /\ <<c, r>> \in running \ running' /\ running' \subseteq running
      /\ activeExecutions' = Ended(r) /\ calls' = [calls EXCEPT ![c] = next]
      /\ callbacks' = <<c>> \o callbacks
      /\ UNCHANGED <<timeout, failedRoutes, disturbances>>
    BY DEF RouteSucceeds, Awaits, Moved
<1>2. calls[c] \in CallState /\ CallOK(calls[c])
    BY DEF FallbackInv, FallbackTypeOK
<1>3. /\ next \in CallState /\ next.phase = "completing" /\ next.ranked = calls[c].ranked
      /\ next.attempt = calls[c].attempt /\ next.maxAttempts = calls[c].maxAttempts
    BY <1>2, MovedFacts DEF Phases
<1> HIDE DEF next
<1>4. CallOK(next)
    BY <1>1, <1>2, <1>3 DEF CallOK
<1>5. callbacks' \in Seq(Call)
    BY <1>1 DEF FallbackInv, FallbackTypeOK
<1> QED BY <1>1, <1>3, <1>4, <1>5, WaitEnds

LEMMA SettlesLateInv ==
    ASSUME FallbackInv, NEW c \in Call, NEW r \in Route, SettlesLate(c, r)
    PROVE  FallbackInv'
<1>1. /\ running' \subseteq running
      /\ UNCHANGED <<timeout, activeExecutions, failedRoutes, calls, callbacks, disturbances>>
    BY DEF SettlesLate
<1>2. ASSUME NEW q \in Route PROVE RouteOK(q)'
  <2>1. Runners(q)' \subseteq Runners(q) /\ Announcers(q)' = Announcers(q)
      BY <1>1 DEF Runners, Announcers, Announcing, Current
  <2>2. Guarded(q)' <=> Guarded(q)
      BY <1>1, <2>1 DEF Guarded, Covered, Awaits, Current
  <2> QED BY <1>1, <2>1, <2>2, RouteKept
<1> QED BY <1>1, <1>2 DEF FallbackInv, FallbackTypeOK

\* reset, and an update to a lower timeout, leave room everywhere.
LEMMA DisturbInv ==
    ASSUME FallbackInv, Disturb, timeout' \in Timeouts, failedRoutes' \subseteq failedRoutes,
           activeExecutions' = activeExecutions \/ DOMAIN activeExecutions' = {},
           UNCHANGED <<calls, callbacks, running>>
    PROVE  FallbackInv'
<1>1. disturbances' = disturbances + 1 /\ disturbances' \in 0..MaxDisturbances
    BY FallbackAssumption DEF Disturb, FallbackInv, FallbackTypeOK
<1>2. ASSUME NEW r \in Route PROVE RouteOK(r)'
  <2>1. Runners(r)' = Runners(r) /\ Announcers(r)' = Announcers(r)
      BY DEF Runners, Announcers, Announcing, Current
  <2> QED BY <1>1, <2>1, RouteDisturbed
<1> QED BY <1>1, <1>2 DEF FallbackInv, FallbackTypeOK

LEMMA UpdateConfigInv ==
    ASSUME FallbackInv, NEW t \in Timeouts, UpdateConfig(t)
    PROVE  FallbackInv'
<1>1. timeout' = t /\ UNCHANGED <<activeExecutions, failedRoutes, calls, callbacks, running>>
    BY DEF UpdateConfig
<1>2. CASE Disturb
    BY <1>1, <1>2, DisturbInv
<1>3. CASE ~(t < timeout) /\ disturbances' = disturbances
  <2>1. timeout \in Nat /\ t \in Nat
      BY FallbackAssumption DEF FallbackInv, FallbackTypeOK
  <2>2. ASSUME NEW r \in Route PROVE RouteOK(r)'
    <3>1. Runners(r)' = Runners(r) /\ Announcers(r)' = Announcers(r)
        BY <1>1 DEF Runners, Announcers, Announcing, Current
    <3>2. ASSUME Covered(r) PROVE Covered(r)'
      <4>1. PICK c \in Call : Awaits(c, r) /\ activeExecutions[r] + calls[c].left <= timeout
          BY <3>2 DEF Covered
      <4>2. activeExecutions[r] + calls[c].left \in Int
          BY <3>2 DEF Covered, FallbackInv, FallbackTypeOK, CallState
      <4>3. activeExecutions[r] + calls[c].left <= t
          BY <1>3, <2>1, <4>1, <4>2
      <4> QED BY <1>1, <3>2, <4>1, <4>3 DEF Covered, Awaits, Current
    <3>3. Guarded(r) => Guarded(r)'
        BY <1>1, <3>1, <3>2 DEF Guarded
    <3> QED BY <1>3, <3>1, <3>3, RouteKept
  <2> QED BY <1>1, <1>3, <2>2 DEF FallbackInv, FallbackTypeOK
<1> QED BY <1>2, <1>3 DEF UpdateConfig

TickedCall(k) == [k EXCEPT !.left = @ - 1]

LEMMA TickedFacts ==
    ASSUME NEW k \in CallState
    PROVE  /\ TickedCall(k) \in CallState /\ TickedCall(k).left = k.left - 1
           /\ TickedCall(k).phase = k.phase /\ TickedCall(k).attempt = k.attempt
           /\ TickedCall(k).ranked = k.ranked /\ TickedCall(k).maxAttempts = k.maxAttempts
<1>1. k.left - 1 \in Int
    BY DEF CallState
<1>2. TickedCall(k) \in CallState
    BY <1>1 DEF CallState, TickedCall
<1>3. TickedCall(k).left = k.left - 1 /\ TickedCall(k).phase = k.phase
    BY DEF CallState, TickedCall
<1>4. TickedCall(k).ranked = k.ranked
    BY DEF CallState, TickedCall
<1>5. TickedCall(k).attempt = k.attempt
    BY DEF CallState, TickedCall
<1>6. TickedCall(k).maxAttempts = k.maxAttempts
    BY DEF CallState, TickedCall
<1> QED BY <1>2, <1>3, <1>4, <1>5, <1>6

\* An entry and the wait it stands for age together.
LEMMA FallbackTickInv == ASSUME FallbackInv, FallbackTick PROVE FallbackInv'
<1>1. \A c \in Call : calls[c] \in CallState /\ CallOK(calls[c])
    BY DEF FallbackInv, FallbackTypeOK
<1>2. \A c \in Call : calls'[c] = IF calls[c].phase = "executing" THEN TickedCall(calls[c]) ELSE calls[c]
    BY DEF FallbackTick, TickedCall
<1>3. \A c \in Call : calls[c].phase = "executing" => calls[c].left > -Lag
    BY DEF FallbackTick
<1>4. ASSUME NEW c \in Call PROVE calls'[c] \in CallState /\ CallOK(calls'[c])
  <2>1. CASE calls[c].phase = "executing"
    <3> DEFINE k == calls[c]
               next == TickedCall(k)
    <3>1. k \in CallState /\ CallOK(k) /\ k.phase = "executing"
        BY <1>1, <2>1
    <3>2. /\ next \in CallState /\ next.left = k.left - 1
          /\ next.phase = k.phase /\ next.attempt = k.attempt
          /\ next.ranked = k.ranked /\ next.maxAttempts = k.maxAttempts
        BY <3>1, TickedFacts
    <3>3. k.left \in Int /\ k.left > -Lag /\ Lag \in Nat
        BY <1>3, <2>1, <3>1, FallbackAssumption DEF CallState
    <3>4. calls'[c] = next
        BY <1>2, <2>1
    <3> HIDE DEF next, k
    <3>5. next.left + Lag >= 0
        BY <3>2, <3>3
    <3>6. CallOK(next)
        BY <3>1, <3>2, <3>5 DEF CallOK
    <3> QED BY <3>2, <3>4, <3>6
  <2>2. CASE calls[c].phase # "executing"
      BY <1>1, <1>2, <2>2
  <2> QED BY <2>1, <2>2
<1>5. calls' \in [Call -> CallState]
    BY <1>4 DEF FallbackTick
<1>6. UNCHANGED <<timeout, failedRoutes, callbacks, running, disturbances>>
    BY DEF FallbackTick
<1>7. /\ DOMAIN activeExecutions' = DOMAIN activeExecutions
      /\ \A r \in DOMAIN activeExecutions : /\ activeExecutions'[r] = activeExecutions[r] + 1
                                            /\ activeExecutions'[r] \in Nat
    BY DEF FallbackTick, FallbackInv, FallbackTypeOK
<1>8. \A c \in Call : /\ calls'[c].phase = calls[c].phase
                      /\ calls'[c].ranked = calls[c].ranked
                      /\ calls'[c].attempt = calls[c].attempt
    BY <1>1, <1>2, TickedFacts
<1>9. ASSUME NEW r \in Route PROVE RouteOK(r)'
  <2>1. Runners(r)' = Runners(r) /\ Announcers(r)' = Announcers(r)
      BY <1>6, <1>8 DEF Runners, Announcers, Announcing, Current
  <2>2. ASSUME Covered(r) PROVE Covered(r)'
    <3>1. PICK c \in Call : Awaits(c, r) /\ activeExecutions[r] + calls[c].left <= timeout
        BY <2>2 DEF Covered
    <3>2. Awaits(c, r)'
        BY <1>8, <3>1 DEF Awaits, Current
    <3>3. calls'[c].left = calls[c].left - 1 /\ calls[c].left \in Int
        BY <1>1, <1>2, <3>1, TickedFacts DEF Awaits, CallState
    <3>4. r \in DOMAIN activeExecutions /\ activeExecutions[r] \in Nat
        BY <2>2 DEF Covered, FallbackInv, FallbackTypeOK
    <3>5. activeExecutions'[r] + calls'[c].left = activeExecutions[r] + calls[c].left
      <4> DEFINE a == activeExecutions[r]
                 b == calls[c].left
      <4>1. activeExecutions'[r] = a + 1 /\ calls'[c].left = b - 1
          BY <1>7, <3>3, <3>4
      <4>2. a \in Nat /\ b \in Int
          BY <3>3, <3>4
      <4> HIDE DEF a, b
      <4>3. (a + 1) + (b - 1) = a + b
          BY <4>2
      <4> QED BY <4>1, <4>3 DEF a, b
    <3> QED BY <1>6, <1>7, <3>1, <3>2, <3>4, <3>5 DEF Covered
  <2>3. Guarded(r) => Guarded(r)'
      BY <1>6, <2>1, <2>2 DEF Guarded
  <2> QED BY <1>6, <2>1, <2>3, RouteKept
<1> QED BY <1>4, <1>5, <1>6, <1>7, <1>9 DEF FallbackInv, FallbackTypeOK

LEMMA FallbackInvInit == FallbackInit => FallbackInv
<1> SUFFICES ASSUME FallbackInit PROVE FallbackInv
    OBVIOUS
<1>1. \A c \in Call : calls[c] \in CallState /\ CallOK(calls[c]) /\ calls[c].phase = "idle"
    BY LocalFacts DEF FallbackInit, Local
<1>2. FallbackTypeOK
    BY LocalFacts, FallbackAssumption DEF FallbackInit, FallbackTypeOK
<1>3. ASSUME NEW r \in Route PROVE RouteOK(r)
  <2>1. Runners(r) = {} /\ Announcers(r) = {}
      BY <1>1 DEF FallbackInit, Runners, Announcers, Announcing
  <2>2. IsFiniteSet({}) /\ Cardinality({}) = 0 /\ disturbances = 0
      BY FS_EmptySet DEF FallbackInit
  <2>3. /\ IsFiniteSet(Runners(r)) /\ Cardinality(Runners(r)) = 0
        /\ IsFiniteSet(Announcers(r)) /\ Cardinality(Announcers(r)) = 0
      BY <2>1, <2>2
  <2> QED BY <2>2, <2>3 DEF RouteOK, Room
<1> QED BY <1>1, <1>2, <1>3 DEF FallbackInv

LEMMA FallbackInvNext == FallbackInv /\ [FallbackNext]_fallbackVars => FallbackInv'
<1> SUFFICES ASSUME FallbackInv, [FallbackNext]_fallbackVars PROVE FallbackInv'
    OBVIOUS
<1>0. callbacks \in Seq(Call)
    BY DEF FallbackInv, FallbackTypeOK
<1>1. ASSUME NEW c \in Call, NEW ranked \in Rankings, NEW n \in MaxAttempts,
             ExecuteWithFallback(c, ranked, n)
      PROVE  FallbackInv'
    BY <1>1, ExecuteInv
<1>2. ASSUME NEW c \in Call, StartExecution(c) PROVE FallbackInv'
    BY <1>2, StartInv
<1>3. ASSUME NEW c \in Call, AnnouncementThrows(c) \/ CompletedReturns(c) PROVE FallbackInv'
    BY <1>3, EndsInCallbackInv
<1>4. ASSUME NEW c \in Call, CompletedThrows(c) PROVE FallbackInv'
    BY <1>4, FailureInv, ReturnFacts DEF CompletedThrows
<1>5. ASSUME NEW c \in Call, AfterDelay(c) PROVE FallbackInv'
    BY <1>5, AfterDelayInv
<1>6. ASSUME NEW c \in Call, TimesOut(c) PROVE FallbackInv'
    BY <1>0, <1>6, FailureInv DEF TimesOut
<1>7. ASSUME NEW c \in Call, NEW r \in Route, RouteSucceeds(c, r) PROVE FallbackInv'
    BY <1>7, SucceedsInv
<1>8. ASSUME NEW c \in Call, NEW r \in Route, RouteFails(c, r) PROVE FallbackInv'
    BY <1>0, <1>8, FailureInv DEF RouteFails, Awaits
<1>9. ASSUME NEW c \in Call, NEW r \in Route, SettlesLate(c, r) PROVE FallbackInv'
    BY <1>9, SettlesLateInv
<1>10. CASE Reset
  <2>1. timeout' \in Timeouts /\ failedRoutes' \subseteq failedRoutes /\ DOMAIN activeExecutions' = {}
      BY <1>10 DEF Reset, FallbackInv, FallbackTypeOK
  <2> QED BY <1>10, <2>1, DisturbInv DEF Reset
<1>11. ASSUME NEW t \in Timeouts, UpdateConfig(t) PROVE FallbackInv'
    BY <1>11, UpdateConfigInv
<1>12. CASE FallbackTick
    BY <1>12, FallbackTickInv
<1>13. CASE UNCHANGED fallbackVars
  <2>1. UNCHANGED <<timeout, activeExecutions, failedRoutes, calls, callbacks, running, disturbances>>
      BY <1>13 DEF fallbackVars
  <2>2. ASSUME NEW r \in Route PROVE RouteOK(r)'
    <3>1. Runners(r)' = Runners(r) /\ Announcers(r)' = Announcers(r)
        BY <2>1 DEF Runners, Announcers, Announcing, Current
    <3>2. Guarded(r)' <=> Guarded(r)
        BY <2>1, <3>1 DEF Guarded, Covered, Awaits, Current
    <3> QED BY <2>1, <3>1, <3>2, RouteKept
  <2> QED BY <2>1, <2>2 DEF FallbackInv, FallbackTypeOK
<1> QED BY <1>1, <1>2, <1>3, <1>4, <1>5, <1>6, <1>7, <1>8, <1>9, <1>10, <1>11, <1>12, <1>13
        DEF FallbackNext

\* For any number of calls, routes and attempts, any timeouts and updates of
\* them, and timers late by their time at most, a route is executed by one
\* call at a time, executions that have timed out counted; each reset, each
\* update to a lower timeout and each call made while a route is announced
\* lets one more begin: a check that passes finds room for its execution.
THEOREM FallbackExecutesOnce == FallbackSpec => []OneExecutionPerRoute
<1>1. FallbackInv => OneExecutionPerRoute
  <2>1. ASSUME FallbackInv, NEW r \in Route PROVE Cardinality(Runners(r)) <= 1 + disturbances
      BY <2>1, RouteFacts
  <2> QED BY <2>1 DEF Runners, OneExecutionPerRoute
<1> QED BY <1>1, FallbackInvInit, FallbackInvNext, PTL DEF FallbackSpec

\* Every record and every failure names a route, and every execution a call
\* that began it (activeExecutions and failedRoutes).
THEOREM FallbackTypes == FallbackSpec => []FallbackTypeOK
<1>1. FallbackInv => FallbackTypeOK
    BY DEF FallbackInv
<1> QED BY <1>1, FallbackInvInit, FallbackInvNext, PTL DEF FallbackSpec
------------------------------------------------------------------------------
\* EvmExecutor: the transactions of a message and the nonces of the executor.

Execution == [phase: Phase, nonce: Nat, price: Nat]

Sent(m) == {n \in DOMAIN pool : pool[n].message = m}

LateOf(m) == {r \in late : r.message = m}

\* Whether the execution may still give the node a transaction by itself.
SlotOf(e) == IF e.phase \in {"idle", "posted", "refused"} THEN 1 ELSE 0

Accepted == {m \in Message : executions[m].phase = "accepted"}

ExecutorOK ==
    /\ nonce \in Nat /\ currentGasPrice \in Nat
    /\ executions \in [Message -> Execution] /\ timeouts \in [Message -> Nat]
    /\ disturbed \in BOOLEAN
    /\ DOMAIN pool \subseteq Nat /\ late \subseteq Request
    /\ IsFiniteSet(DOMAIN pool) /\ IsFiniteSet(late) /\ IsFiniteSet(Accepted)

\* What the node has, what may still reach it and what may yet be posted.
TimeoutsPay == \A m \in Message :
    Cardinality(Sent(m)) + Cardinality(LateOf(m)) + SlotOf(executions[m]) <= 1 + timeouts[m]

\* The account's nonces are taken up to k, and every accepted submission that
\* the executor has not counted has taken one of them.
TakenUpTo(k) ==
    /\ DOMAIN pool = 0..(k - 1)
    /\ nonce + Cardinality(Accepted) <= k
    /\ \A m \in Message : executions[m].phase = "posted" => executions[m].nonce <= k
    /\ \A r \in late : r.nonce <= k

CountsTaken == ~disturbed => \E k \in Nat : TakenUpTo(k)

EvmInv == ExecutorOK /\ TimeoutsPay /\ CountsTaken

LEMMA CountFacts ==
    ASSUME ExecutorOK, NEW m \in Message
    PROVE  /\ IsFiniteSet(Sent(m)) /\ Cardinality(Sent(m)) \in Nat
           /\ IsFiniteSet(LateOf(m)) /\ Cardinality(LateOf(m)) \in Nat
           /\ timeouts[m] \in Nat /\ SlotOf(executions[m]) \in 0..1
<1>1. Sent(m) \subseteq DOMAIN pool /\ LateOf(m) \subseteq late
    BY DEF Sent, LateOf
<1>2. IsFiniteSet(Sent(m)) /\ IsFiniteSet(LateOf(m))
    BY <1>1, FS_Subset DEF ExecutorOK
<1> QED BY <1>2, FS_CardinalityType DEF ExecutorOK, SlotOf

LEMMA GrowsByOne ==
    ASSUME NEW S, IsFiniteSet(S), NEW x
    PROVE  /\ IsFiniteSet(S \cup {x}) /\ Cardinality(S) \in Nat
           /\ Cardinality(S \cup {x}) \in Nat /\ Cardinality(S \cup {x}) <= Cardinality(S) + 1
<1>1. /\ IsFiniteSet(S \cup {x})
      /\ \/ Cardinality(S \cup {x}) = Cardinality(S)
         \/ Cardinality(S \cup {x}) = Cardinality(S) + 1
    BY FS_AddElement
<1>2. Cardinality(S) \in Nat /\ Cardinality(S \cup {x}) \in Nat
    BY <1>1, FS_CardinalityType
<1> QED BY <1>1, <1>2

\* A step of one execution that gives the node nothing.  It frees as many
\* slots as it fills, where a timeout pays for one.
Move(m, e, dt, dl) ==
    /\ executions' = [executions EXCEPT ![m] = e]
    /\ UNCHANGED <<pool, disturbed>>
    /\ currentGasPrice' \in Nat
    /\ nonce' = nonce \/ (nonce' = nonce + 1 /\ In(m, {"accepted"}))
    /\ timeouts' \in [Message -> Nat] /\ timeouts'[m] = timeouts[m] + dt
    /\ \A q \in Message : q # m => timeouts'[q] = timeouts[q]
    /\ late' = (IF dl = 1 THEN late \cup {RequestOf(m)} ELSE late)
    /\ dl = 1 => In(m, {"posted"})
    /\ SlotOf(e) + dl <= SlotOf(executions[m]) + dt
    /\ e.phase # "accepted" /\ (e.phase = "posted" => e.nonce = nonce)

LEMMA MoveInv ==
    ASSUME EvmInv, NEW m \in Message, NEW e \in Execution, NEW dt \in 0..1, NEW dl \in 0..1,
           Move(m, e, dt, dl)
    PROVE  EvmInv'
<1> USE DEF Move
<1>0. ExecutorOK /\ TimeoutsPay /\ CountsTaken /\ nonce \in Nat
    BY DEF EvmInv, ExecutorOK
<1>1. /\ executions' \in [Message -> Execution] /\ executions'[m] = e
      /\ \A q \in Message : q # m => executions'[q] = executions[q]
    BY <1>0 DEF ExecutorOK
<1>2. RequestOf(m) \in Request /\ RequestOf(m).message = m /\ RequestOf(m).nonce = executions[m].nonce
    BY <1>0 DEF RequestOf, Request, ExecutorOK, Execution
<1>3. late' \subseteq Request /\ IsFiniteSet(late')
    BY <1>0, <1>2, FS_AddElement DEF ExecutorOK
<1>4. Accepted' \subseteq Accepted /\ m \notin Accepted'
    BY <1>1 DEF Accepted
<1>5. /\ IsFiniteSet(Accepted') /\ Cardinality(Accepted) \in Nat /\ Cardinality(Accepted') \in Nat
      /\ Cardinality(Accepted') <= Cardinality(Accepted)
      /\ In(m, {"accepted"}) => Cardinality(Accepted') + 1 <= Cardinality(Accepted)
  <2>1. IsFiniteSet(Accepted)
      BY <1>0 DEF ExecutorOK
  <2>2. IsFiniteSet(Accepted') /\ Cardinality(Accepted') <= Cardinality(Accepted)
      BY <1>4, <2>1, FS_Subset
  <2>3. Cardinality(Accepted) \in Nat /\ Cardinality(Accepted') \in Nat
      BY <2>1, <2>2, FS_CardinalityType
  <2>4. ASSUME In(m, {"accepted"}) PROVE Cardinality(Accepted') + 1 <= Cardinality(Accepted)
    <3>1. m \in Accepted
        BY <2>4 DEF In, Accepted
    <3>2. IsFiniteSet(Accepted \ {m}) /\ Cardinality(Accepted \ {m}) = Cardinality(Accepted) - 1
        BY <2>1, <3>1, FS_RemoveElement
    <3>3. Accepted' \subseteq Accepted \ {m}
        BY <1>4
    <3>4. Cardinality(Accepted') <= Cardinality(Accepted \ {m})
        BY <3>2, <3>3, FS_Subset
    <3> QED BY <2>3, <3>2, <3>4
  <2> QED BY <2>2, <2>3, <2>4
<1>6. nonce' \in Nat
    BY <1>0
<1>7. ExecutorOK'
    BY <1>0, <1>1, <1>3, <1>5, <1>6 DEF ExecutorOK
<1>8. ASSUME NEW q \in Message
      PROVE  Cardinality(Sent(q)') + Cardinality(LateOf(q)') + SlotOf(executions'[q]) <= 1 + timeouts'[q]
  <2>1. /\ IsFiniteSet(LateOf(q)) /\ Cardinality(LateOf(q)) \in Nat
        /\ Cardinality(Sent(q)) \in Nat
        /\ timeouts[q] \in Nat /\ SlotOf(executions[q]) \in 0..1
      BY <1>0, CountFacts
  <2>2. Sent(q)' = Sent(q)
      BY DEF Sent
  <2>3. Cardinality(Sent(q)) + Cardinality(LateOf(q)) + SlotOf(executions[q]) <= 1 + timeouts[q]
      BY <1>0 DEF TimeoutsPay
  <2>4. CASE q # m
    <3>1. LateOf(q)' = LateOf(q)
        BY <1>2, <2>4 DEF LateOf
    <3>2. executions'[q] = executions[q] /\ timeouts'[q] = timeouts[q]
        BY <1>1, <2>4
    <3> QED BY <2>2, <2>3, <3>1, <3>2
  <2>5. CASE q = m
    <3>1. Cardinality(LateOf(q)') \in Nat /\ Cardinality(LateOf(q)') <= Cardinality(LateOf(q)) + dl
      <4>1. CASE dl = 1
        <5>1. LateOf(q)' = LateOf(q) \cup {RequestOf(m)}
            BY <1>2, <2>5, <4>1 DEF LateOf
        <5> QED BY <2>1, <4>1, <5>1, GrowsByOne
      <4>2. CASE dl = 0
        <5>1. LateOf(q)' = LateOf(q)
            BY <4>2 DEF LateOf
        <5> QED BY <2>1, <4>2, <5>1
      <4> QED BY <4>1, <4>2
    <3> DEFINE s == Cardinality(Sent(q))
               l == Cardinality(LateOf(q))
               l2 == Cardinality(LateOf(q)')
               a == SlotOf(executions[q])
               b == SlotOf(executions'[q])
    <3>2. /\ s + l + a <= 1 + timeouts[q] /\ b + dl <= a + dt /\ l2 <= l + dl
          /\ Cardinality(Sent(q)') = s /\ timeouts'[q] = timeouts[q] + dt
        BY <1>1, <2>2, <2>3, <2>5, <3>1
    <3>3. /\ s \in Nat /\ l \in Nat /\ l2 \in Nat /\ a \in Int /\ b \in Int /\ timeouts[q] \in Nat
        BY <2>1, <3>1 DEF SlotOf
    <3> HIDE DEF s, l, l2, a, b
    <3>4. s + l2 + b <= 1 + (timeouts[q] + dt)
        BY <3>2, <3>3
    <3> QED BY <3>2, <3>4 DEF l2, b
  <2> QED BY <2>4, <2>5
<1>9. TimeoutsPay'
    BY <1>8 DEF TimeoutsPay
<1>10. ASSUME NEW k \in Nat, TakenUpTo(k) PROVE TakenUpTo(k)'
  <2>1. nonce' + Cardinality(Accepted') <= k /\ nonce <= k
      BY <1>0, <1>5, <1>10 DEF TakenUpTo
  <2>2. \A q \in Message : executions'[q].phase = "posted" => executions'[q].nonce <= k
      BY <1>1, <1>10, <2>1 DEF TakenUpTo
  <2>3. \A r \in late' : r.nonce <= k
      BY <1>2, <1>10 DEF TakenUpTo, In
  <2> QED BY <1>10, <2>1, <2>2, <2>3 DEF TakenUpTo
<1>11. CountsTaken'
    BY <1>0, <1>10 DEF CountsTaken
<1> QED BY <1>7, <1>9, <1>11 DEF EvmInv

LEMMA BecomesFacts ==
    ASSUME ExecutorOK, NEW m \in Message, NEW ph \in Phase, Becomes(m, ph)
    PROVE  \E e \in Execution : /\ executions' = [executions EXCEPT ![m] = e]
                                /\ e.phase = ph /\ e.nonce = executions[m].nonce
<1> DEFINE e == [executions[m] EXCEPT !.phase = ph]
<1>1. executions[m] \in Execution
    BY DEF ExecutorOK
<1>2. e \in Execution
    BY <1>1 DEF Execution
<1>3. e.phase = ph
    BY <1>1 DEF Execution
<1>4. e.nonce = executions[m].nonce
    BY <1>1 DEF Execution
<1>5. executions' = [executions EXCEPT ![m] = e]
    BY DEF Becomes
<1> HIDE DEF e
<1> QED BY <1>2, <1>3, <1>4, <1>5

LEMMA PostFacts ==
    ASSUME ExecutorOK, NEW m \in Message, NEW price \in Nat, Post(m, price)
    PROVE  \E e \in Execution : /\ executions' = [executions EXCEPT ![m] = e]
                                /\ e.phase = "posted" /\ e.nonce = nonce
<1> DEFINE e == [phase |-> "posted", nonce |-> nonce, price |-> price]
<1>1. e \in Execution /\ e.phase = "posted" /\ e.nonce = nonce
    BY DEF ExecutorOK, Execution, Phase
<1>2. executions' = [executions EXCEPT ![m] = e]
    BY DEF Post
<1> HIDE DEF e
<1> QED BY <1>1, <1>2

LEMMA RepriceFacts ==
    ASSUME ExecutorOK, NEW m \in Message, RepriceOrFail(m)
    PROVE  /\ currentGasPrice' \in Nat
           /\ \E e \in Execution : /\ executions' = [executions EXCEPT ![m] = e]
                                   /\ e.phase \in {"posted", "failed"}
                                   /\ e.phase = "posted" => e.nonce = nonce
<1>1. CASE bumpCount < MaxBumps /\ currentGasPrice' = Bumped /\ Post(m, Bumped)
  <2> DEFINE raised == currentGasPrice * (100 + BumpPercentage)
  <2>1. raised \in Nat
      BY EvmAssumption DEF ExecutorOK
  <2>2. raised \div 100 \in Nat
    <3> HIDE DEF raised
    <3> QED BY <2>1
  <2>3. Bumped \in Nat
    <3> DEFINE price == raised \div 100
    <3>1. Bumped = IF price < MaxGasPrice THEN price ELSE MaxGasPrice
        BY DEF Bumped
    <3> HIDE DEF price, raised
    <3> QED BY <2>2, <3>1, EvmAssumption DEF price
  <2> QED BY <1>1, <2>3, PostFacts
<1>2. CASE Becomes(m, "failed") /\ UNCHANGED <<bumpCount, currentGasPrice>>
  <2>1. "failed" \in Phase
      BY DEF Phase
  <2>2. PICK e \in Execution : executions' = [executions EXCEPT ![m] = e] /\ e.phase = "failed"
      BY <1>2, <2>1, BecomesFacts
  <2> QED BY <1>2, <2>2 DEF ExecutorOK
<1> QED BY <1>1, <1>2 DEF RepriceOrFail

\* The steps that fit MoveInv without a timeout.
QuietMove(m, e) ==
    /\ executions' = [executions EXCEPT ![m] = e]
    /\ UNCHANGED <<pool, disturbed, late, timeouts>>
    /\ currentGasPrice' \in Nat
    /\ nonce' = nonce \/ (nonce' = nonce + 1 /\ In(m, {"accepted"}))
    /\ SlotOf(e) <= SlotOf(executions[m])
    /\ e.phase # "accepted" /\ (e.phase = "posted" => e.nonce = nonce)

LEMMA QuietMoveInv ==
    ASSUME EvmInv, NEW m \in Message, NEW e \in Execution, QuietMove(m, e)
    PROVE  EvmInv'
<1> USE DEF QuietMove
<1>1. timeouts \in [Message -> Nat] /\ timeouts[m] \in Nat
    BY DEF EvmInv, ExecutorOK
<1>2. 0 \in 0..1 /\ timeouts[m] = timeouts[m] + 0
    BY <1>1
<1>3. SlotOf(e) + 0 <= SlotOf(executions[m]) + 0
    BY DEF SlotOf
<1>4. late' = (IF 0 = 1 THEN late \cup {RequestOf(m)} ELSE late)
      /\ (0 = 1 => In(m, {"posted"}))
      /\ timeouts' \in [Message -> Nat] /\ timeouts'[m] = timeouts[m] + 0
      /\ \A q \in Message : q # m => timeouts'[q] = timeouts[q]
    BY <1>1, <1>2
<1>5. Move(m, e, 0, 0)
    BY <1>3, <1>4 DEF Move
<1> QED BY <1>2, <1>5, MoveInv

LEMMA ExecutionInv ==
    ASSUME EvmInv, NEW m \in Message,
           \/ Execute(m) \/ NodeRefuses(m) \/ Submitted(m)
           \/ SubmissionRefused(m) \/ Confirmed(m) \/ OtherError(m)
    PROVE  EvmInv'
<1>0. ExecutorOK /\ currentGasPrice \in Nat
    BY DEF EvmInv, ExecutorOK
<1> USE DEF executorVars, nodeVars
<1>1. CASE Execute(m)
  <2>1. /\ Post(m, currentGasPrice) /\ executions[m].phase = "idle"
        /\ UNCHANGED <<nonce, currentGasPrice, pool, disturbed, late, timeouts>>
      BY <1>1 DEF Execute, In
  <2>2. PICK e \in Execution : executions' = [executions EXCEPT ![m] = e]
                               /\ e.phase = "posted" /\ e.nonce = nonce
      BY <1>0, <2>1, PostFacts
  <2>3. SlotOf(e) <= SlotOf(executions[m]) /\ e.phase # "accepted"
      BY <2>1, <2>2 DEF SlotOf
  <2>4. currentGasPrice' \in Nat /\ (e.phase = "posted" => e.nonce = nonce)
      BY <1>0, <2>1, <2>2, <2>3
  <2>5. nonce' = nonce \/ (nonce' = nonce + 1 /\ In(m, {"accepted"}))
      BY <2>1
  <2>6. UNCHANGED <<pool, disturbed, late, timeouts>>
      BY <2>1
  <2>7. QuietMove(m, e)
      BY <2>2, <2>3, <2>4, <2>5, <2>6 DEF QuietMove
  <2> QED BY <2>7, QuietMoveInv
<1>2. CASE NodeRefuses(m)
  <2>1. /\ Becomes(m, "refused") /\ executions[m].phase = "posted" /\ "refused" \in Phase
        /\ UNCHANGED <<nonce, currentGasPrice, pool, disturbed, late, timeouts>>
      BY <1>2 DEF NodeRefuses, In, Phase
  <2>2. PICK e \in Execution : executions' = [executions EXCEPT ![m] = e] /\ e.phase = "refused"
      BY <1>0, <2>1, BecomesFacts
  <2>3. SlotOf(e) <= SlotOf(executions[m]) /\ e.phase # "accepted" /\ e.phase # "posted"
      BY <2>1, <2>2 DEF SlotOf
  <2>4. currentGasPrice' \in Nat /\ (e.phase = "posted" => e.nonce = nonce)
      BY <1>0, <2>1, <2>2, <2>3
  <2>5. nonce' = nonce \/ (nonce' = nonce + 1 /\ In(m, {"accepted"}))
      BY <2>1
  <2>6. UNCHANGED <<pool, disturbed, late, timeouts>>
      BY <2>1
  <2>7. QuietMove(m, e)
      BY <2>2, <2>3, <2>4, <2>5, <2>6 DEF QuietMove
  <2> QED BY <2>7, QuietMoveInv
<1>3. CASE Submitted(m)
  <2>1. /\ Becomes(m, "confirming") /\ In(m, {"accepted"}) /\ "confirming" \in Phase
        /\ nonce' = nonce + 1
        /\ UNCHANGED <<currentGasPrice, pool, disturbed, late, timeouts>>
      BY <1>3 DEF Submitted, Phase
  <2>2. PICK e \in Execution : executions' = [executions EXCEPT ![m] = e] /\ e.phase = "confirming"
      BY <1>0, <2>1, BecomesFacts
  <2>3. SlotOf(e) <= SlotOf(executions[m]) /\ e.phase # "accepted" /\ e.phase # "posted"
      BY <2>2 DEF SlotOf
  <2>4. currentGasPrice' \in Nat /\ (e.phase = "posted" => e.nonce = nonce)
      BY <1>0, <2>1, <2>2, <2>3
  <2>5. nonce' = nonce \/ (nonce' = nonce + 1 /\ In(m, {"accepted"}))
      BY <2>1
  <2>6. UNCHANGED <<pool, disturbed, late, timeouts>>
      BY <2>1
  <2>7. QuietMove(m, e)
      BY <2>2, <2>3, <2>4, <2>5, <2>6 DEF QuietMove
  <2> QED BY <2>7, QuietMoveInv
<1>4. CASE SubmissionRefused(m)
  <2>1. /\ RepriceOrFail(m) /\ executions[m].phase = "refused"
        /\ UNCHANGED <<nonce, pool, disturbed, late, timeouts>>
      BY <1>4 DEF SubmissionRefused, In
  <2>2. /\ currentGasPrice' \in Nat
        /\ \E e \in Execution : /\ executions' = [executions EXCEPT ![m] = e]
                                /\ e.phase \in {"posted", "failed"}
                                /\ e.phase = "posted" => e.nonce = nonce
      BY <1>0, <2>1, RepriceFacts
  <2>3. PICK e \in Execution : /\ executions' = [executions EXCEPT ![m] = e]
                               /\ e.phase \in {"posted", "failed"}
                               /\ e.phase = "posted" => e.nonce = nonce
      BY <2>2
  <2>4. SlotOf(e) <= SlotOf(executions[m]) /\ e.phase # "accepted"
      BY <2>1, <2>3 DEF SlotOf
  <2>5. nonce' = nonce \/ (nonce' = nonce + 1 /\ In(m, {"accepted"}))
      BY <2>1
  <2>6. UNCHANGED <<pool, disturbed, late, timeouts>>
      BY <2>1
  <2>7. QuietMove(m, e)
      BY <2>2, <2>3, <2>4, <2>5, <2>6 DEF QuietMove
  <2> QED BY <2>7, QuietMoveInv
<1>5. CASE Confirmed(m)
  <2>1. /\ Becomes(m, "succeeded") /\ "succeeded" \in Phase
        /\ UNCHANGED <<nonce, currentGasPrice, pool, disturbed, late, timeouts>>
      BY <1>5 DEF Confirmed, Phase
  <2>2. PICK e \in Execution : executions' = [executions EXCEPT ![m] = e] /\ e.phase = "succeeded"
      BY <1>0, <2>1, BecomesFacts
  <2>3. SlotOf(e) <= SlotOf(executions[m]) /\ e.phase # "accepted" /\ e.phase # "posted"
      BY <2>2 DEF SlotOf
  <2>4. currentGasPrice' \in Nat /\ (e.phase = "posted" => e.nonce = nonce)
      BY <1>0, <2>1, <2>2, <2>3
  <2>5. nonce' = nonce \/ (nonce' = nonce + 1 /\ In(m, {"accepted"}))
      BY <2>1
  <2>6. UNCHANGED <<pool, disturbed, late, timeouts>>
      BY <2>1
  <2>7. QuietMove(m, e)
      BY <2>2, <2>3, <2>4, <2>5, <2>6 DEF QuietMove
  <2> QED BY <2>7, QuietMoveInv
<1>6. CASE OtherError(m)
  <2>1. /\ Becomes(m, "failed") /\ "failed" \in Phase
        /\ UNCHANGED <<nonce, currentGasPrice, pool, disturbed, late, timeouts>>
      BY <1>6 DEF OtherError, Phase
  <2>2. PICK e \in Execution : executions' = [executions EXCEPT ![m] = e] /\ e.phase = "failed"
      BY <1>0, <2>1, BecomesFacts
  <2>3. SlotOf(e) <= SlotOf(executions[m]) /\ e.phase # "accepted" /\ e.phase # "posted"
      BY <2>2 DEF SlotOf
  <2>4. currentGasPrice' \in Nat /\ (e.phase = "posted" => e.nonce = nonce)
      BY <1>0, <2>1, <2>2, <2>3
  <2>5. nonce' = nonce \/ (nonce' = nonce + 1 /\ In(m, {"accepted"}))
      BY <2>1
  <2>6. UNCHANGED <<pool, disturbed, late, timeouts>>
      BY <2>1
  <2>7. QuietMove(m, e)
      BY <2>2, <2>3, <2>4, <2>5, <2>6 DEF QuietMove
  <2> QED BY <2>7, QuietMoveInv
<1> QED BY <1>1, <1>2, <1>3, <1>4, <1>5, <1>6

LEMMA TimesOutInv ==
    ASSUME EvmInv, NEW m \in Message, TimesOutWaiting(m)
    PROVE  EvmInv'
<1> DEFINE dl == IF In(m, {"posted"}) THEN 1 ELSE 0
<1>0. ExecutorOK /\ timeouts \in [Message -> Nat]
    BY DEF EvmInv, ExecutorOK
<1>1. /\ timeouts' = [timeouts EXCEPT ![m] = @ + 1] /\ RepriceOrFail(m)
      /\ UNCHANGED <<nonce, pool, disturbed>>
      /\ late' = (IF In(m, {"posted"}) THEN late \cup {RequestOf(m)} ELSE late)
    BY DEF TimesOutWaiting
<1>2. /\ timeouts' \in [Message -> Nat] /\ timeouts'[m] = timeouts[m] + 1
      /\ \A q \in Message : q # m => timeouts'[q] = timeouts[q]
    BY <1>0, <1>1
<1>3. /\ currentGasPrice' \in Nat
      /\ \E e \in Execution : /\ executions' = [executions EXCEPT ![m] = e]
                              /\ e.phase \in {"posted", "failed"}
                              /\ e.phase = "posted" => e.nonce = nonce
    BY <1>0, <1>1, RepriceFacts
<1>4. PICK e \in Execution : /\ executions' = [executions EXCEPT ![m] = e]
                             /\ e.phase \in {"posted", "failed"}
                             /\ e.phase = "posted" => e.nonce = nonce
    BY <1>3
<1>5. /\ dl \in 0..1 /\ 1 \in 0..1
      /\ dl = 1 => In(m, {"posted"})
      /\ late' = (IF dl = 1 THEN late \cup {RequestOf(m)} ELSE late)
    BY <1>1
<1>6. SlotOf(e) + dl <= SlotOf(executions[m]) + 1 /\ e.phase # "accepted"
  <2>1. CASE In(m, {"posted"})
      BY <1>4, <2>1 DEF SlotOf, In
  <2>2. CASE ~In(m, {"posted"})
      BY <1>4, <2>2 DEF SlotOf, In
  <2> QED BY <2>1, <2>2
<1> HIDE DEF dl
<1>7. PICK d \in 0..1 : d = dl
    BY <1>5
<1>8. /\ d = 1 => In(m, {"posted"})
      /\ late' = (IF d = 1 THEN late \cup {RequestOf(m)} ELSE late)
    BY <1>5, <1>7
<1>9. SlotOf(e) + d <= SlotOf(executions[m]) + 1 /\ e.phase # "accepted"
    BY <1>6, <1>7
<1>10. nonce' = nonce \/ (nonce' = nonce + 1 /\ In(m, {"accepted"}))
    BY <1>1
<1>11. UNCHANGED <<pool, disturbed>>
    BY <1>1
<1>12. Move(m, e, 1, d)
    BY <1>2, <1>3, <1>4, <1>8, <1>9, <1>10, <1>11 DEF Move
<1> QED BY <1>5, <1>12, MoveInv

\* A transaction the node takes: one more of its message at most, and, as
\* long as nothing is disturbed, at the first nonce that is free.
LEMMA PlaceFacts ==
    ASSUME ExecutorOK, NEW r \in Request, Place(r)
    PROVE  /\ DOMAIN pool' \subseteq Nat /\ IsFiniteSet(DOMAIN pool')
           /\ disturbed' \in BOOLEAN
           /\ \A q \in Message : Cardinality(Sent(q)') \in Nat
           /\ Cardinality(Sent(r.message)') <= Cardinality(Sent(r.message)) + 1
           /\ \A q \in Message : q # r.message => Cardinality(Sent(q)') <= Cardinality(Sent(q))
           /\ ~disturbed' => ~disturbed
           /\ \A k \in Nat : (~disturbed' /\ DOMAIN pool = 0..(k - 1) /\ r.nonce <= k) =>
                                 (r.nonce = k /\ DOMAIN pool' = 0..k)
<1>1. r.nonce \in Nat /\ r.message \in Message
    BY DEF Request
<1>2. /\ DOMAIN pool' = DOMAIN pool \cup {r.nonce}
      /\ \A n \in DOMAIN pool' :
            pool'[n] = IF n = r.nonce THEN [message |-> r.message, price |-> r.price] ELSE pool[n]
    BY DEF Place
<1>3. disturbed' = (disturbed \/ r.nonce \in DOMAIN pool)
    BY DEF Place
<1>4. DOMAIN pool' \subseteq Nat /\ IsFiniteSet(DOMAIN pool')
    BY <1>1, <1>2, FS_AddElement DEF ExecutorOK
<1>5. Sent(r.message)' \subseteq Sent(r.message) \cup {r.nonce}
    BY <1>2 DEF Sent
<1>6. ASSUME NEW q \in Message, q # r.message PROVE Sent(q)' \subseteq Sent(q)
    BY <1>2, <1>6 DEF Sent
<1>7. ASSUME NEW q \in Message
      PROVE  /\ IsFiniteSet(Sent(q)) /\ IsFiniteSet(Sent(q)')
             /\ Cardinality(Sent(q)) \in Nat /\ Cardinality(Sent(q)') \in Nat
  <2>1. Sent(q) \subseteq DOMAIN pool /\ Sent(q)' \subseteq DOMAIN pool'
      BY DEF Sent
  <2>2. IsFiniteSet(Sent(q)) /\ IsFiniteSet(Sent(q)')
      BY <1>4, <2>1, FS_Subset DEF ExecutorOK
  <2> QED BY <2>2, FS_CardinalityType
<1>8. Cardinality(Sent(r.message)') <= Cardinality(Sent(r.message)) + 1
  <2> DEFINE before == Sent(r.message)
             after == Sent(r.message)'
  <2>1. IsFiniteSet(before) /\ Cardinality(after) \in Nat /\ after \subseteq before \cup {r.nonce}
      BY <1>1, <1>5, <1>7
  <2> HIDE DEF before, after
  <2>2. /\ IsFiniteSet(before \cup {r.nonce}) /\ Cardinality(before) \in Nat
        /\ Cardinality(before \cup {r.nonce}) \in Nat
        /\ Cardinality(before \cup {r.nonce}) <= Cardinality(before) + 1
      BY <2>1, GrowsByOne
  <2>3. Cardinality(after) <= Cardinality(before \cup {r.nonce})
      BY <2>1, <2>2, FS_Subset
  <2>4. Cardinality(after) <= Cardinality(before) + 1
      BY <2>1, <2>2, <2>3
  <2> QED BY <2>4 DEF before, after
<1>9. ASSUME NEW q \in Message, q # r.message PROVE Cardinality(Sent(q)') <= Cardinality(Sent(q))
    BY <1>6, <1>7, <1>9, FS_Subset
<1>10. disturbed' \in BOOLEAN /\ (~disturbed' => ~disturbed /\ r.nonce \notin DOMAIN pool)
    BY <1>3 DEF ExecutorOK
<1>11. ASSUME NEW k \in Nat, ~disturbed', DOMAIN pool = 0..(k - 1), r.nonce <= k
       PROVE  r.nonce = k /\ DOMAIN pool' = 0..k
  <2>1. r.nonce \notin 0..(k - 1)
      BY <1>10, <1>11
  <2>2. r.nonce = k
      BY <1>1, <1>11, <2>1
  <2>3. 0..k = 0..(k - 1) \cup {k}
      OBVIOUS
  <2> QED BY <1>2, <1>11, <2>2, <2>3
<1> QED BY <1>4, <1>7, <1>8, <1>9, <1>10, <1>11

LEMMA NodeTakesInv ==
    ASSUME EvmInv, NEW m \in Message, NodeTakes(m)
    PROVE  EvmInv'
<1>0. ExecutorOK /\ TimeoutsPay /\ CountsTaken /\ nonce \in Nat
    BY DEF EvmInv, ExecutorOK
<1>1. /\ executions[m].phase = "posted" /\ Place(RequestOf(m)) /\ Becomes(m, "accepted")
      /\ UNCHANGED <<nonce, currentGasPrice, late, timeouts>>
    BY DEF NodeTakes, In, executorVars
<1>2. "accepted" \in Phase
    BY DEF Phase
<1>3. PICK e \in Execution : executions' = [executions EXCEPT ![m] = e] /\ e.phase = "accepted"
    BY <1>0, <1>1, <1>2, BecomesFacts
<1>4. /\ executions' \in [Message -> Execution] /\ executions'[m] = e
      /\ \A q \in Message : q # m => executions'[q] = executions[q]
    BY <1>0, <1>3 DEF ExecutorOK
<1>5. PICK r \in Request : r = RequestOf(m) /\ r.message = m /\ r.nonce = executions[m].nonce
  <2>1. executions[m].nonce \in Nat /\ executions[m].price \in Nat
      BY <1>0 DEF ExecutorOK, Execution
  <2>2. RequestOf(m) \in Request /\ RequestOf(m).message = m /\ RequestOf(m).nonce = executions[m].nonce
      BY <2>1 DEF RequestOf, Request
  <2> QED BY <2>2
<1>6. Place(r)
    BY <1>1, <1>5
<1>7. /\ DOMAIN pool' \subseteq Nat /\ IsFiniteSet(DOMAIN pool')
      /\ disturbed' \in BOOLEAN
      /\ \A q \in Message : Cardinality(Sent(q)') \in Nat
      /\ Cardinality(Sent(r.message)') <= Cardinality(Sent(r.message)) + 1
      /\ \A q \in Message : q # r.message => Cardinality(Sent(q)') <= Cardinality(Sent(q))
      /\ ~disturbed' => ~disturbed
      /\ \A k \in Nat : (~disturbed' /\ DOMAIN pool = 0..(k - 1) /\ r.nonce <= k) =>
                            (r.nonce = k /\ DOMAIN pool' = 0..k)
    BY <1>0, <1>6, PlaceFacts
<1>8. Accepted' = Accepted \cup {m}
    BY <1>3, <1>4 DEF Accepted
<1>9. /\ IsFiniteSet(Accepted') /\ Cardinality(Accepted) \in Nat /\ Cardinality(Accepted') \in Nat
      /\ Cardinality(Accepted') <= Cardinality(Accepted) + 1
    BY <1>0, <1>8, GrowsByOne DEF ExecutorOK
<1>10. ExecutorOK'
    BY <1>0, <1>1, <1>4, <1>7, <1>9 DEF ExecutorOK
<1>11. ASSUME NEW q \in Message
       PROVE  Cardinality(Sent(q)') + Cardinality(LateOf(q)') + SlotOf(executions'[q]) <= 1 + timeouts'[q]
  <2>1. /\ Cardinality(LateOf(q)) \in Nat /\ Cardinality(Sent(q)) \in Nat
        /\ timeouts[q] \in Nat /\ SlotOf(executions[q]) \in 0..1
      BY <1>0, CountFacts
  <2>2. LateOf(q)' = LateOf(q) /\ timeouts' = timeouts
      BY <1>1 DEF LateOf
  <2>3. Cardinality(Sent(q)) + Cardinality(LateOf(q)) + SlotOf(executions[q]) <= 1 + timeouts[q]
      BY <1>0 DEF TimeoutsPay
  <2>4. Cardinality(Sent(q)') + SlotOf(executions'[q]) <= Cardinality(Sent(q)) + SlotOf(executions[q])
        /\ SlotOf(executions'[q]) \in 0..1
    <3>1. CASE q # m
        BY <1>4, <1>5, <1>7, <2>1, <3>1
    <3>2. CASE q = m
      <4>1. SlotOf(executions'[q]) = 0 /\ SlotOf(executions[q]) = 1
          BY <1>1, <1>3, <1>4, <3>2 DEF SlotOf
      <4>2. Cardinality(Sent(q)') <= Cardinality(Sent(q)) + 1
          BY <1>5, <1>7, <3>2
      <4> QED BY <1>7, <2>1, <4>1, <4>2
    <3> QED BY <3>1, <3>2
  <2> DEFINE s == Cardinality(Sent(q))
             s2 == Cardinality(Sent(q)')
             l == Cardinality(LateOf(q))
             a == SlotOf(executions[q])
             b == SlotOf(executions'[q])
  <2>5. s \in Nat /\ s2 \in Nat /\ l \in Nat /\ a \in Int /\ b \in Int /\ timeouts[q] \in Nat
      BY <1>7, <2>1, <2>4
  <2>6. s + l + a <= 1 + timeouts[q] /\ s2 + b <= s + a
      BY <2>3, <2>4
  <2> HIDE DEF s, s2, l, a, b
  <2>7. s2 + l + b <= 1 + timeouts[q]
      BY <2>5, <2>6
  <2> QED BY <2>2, <2>7 DEF s2, l, b
<1>12. TimeoutsPay'
    BY <1>11 DEF TimeoutsPay
<1>13. ASSUME NEW k \in Nat, TakenUpTo(k), ~disturbed' PROVE TakenUpTo(k + 1)'
  <2>1. r.nonce <= k /\ DOMAIN pool = 0..(k - 1) /\ nonce + Cardinality(Accepted) <= k
      BY <1>1, <1>5, <1>13 DEF TakenUpTo
  <2>2. DOMAIN pool' = 0..((k + 1) - 1)
      BY <1>7, <1>13, <2>1
  <2>3. nonce' + Cardinality(Accepted') <= k + 1
      BY <1>0, <1>1, <1>9, <2>1
  <2>4. ASSUME NEW q \in Message, executions'[q].phase = "posted" PROVE executions'[q].nonce <= k + 1
    <3>1. q # m
        BY <1>3, <1>4, <2>4
    <3>2. executions[q].nonce <= k /\ executions[q].nonce \in Nat
        BY <1>0, <1>4, <1>13, <2>4, <3>1 DEF TakenUpTo, ExecutorOK, Execution
    <3> QED BY <1>4, <3>1, <3>2
  <2>5. ASSUME NEW z \in late' PROVE z.nonce <= k + 1
    <3>1. z.nonce <= k /\ z.nonce \in Nat
        BY <1>0, <1>1, <1>13, <2>5 DEF TakenUpTo, ExecutorOK, Request
    <3> QED BY <3>1
  <2> QED BY <2>2, <2>3, <2>4, <2>5 DEF TakenUpTo
<1>14. CountsTaken'
  <2> SUFFICES ASSUME ~disturbed' PROVE \E j \in Nat : TakenUpTo(j)'
      BY DEF CountsTaken
  <2>1. PICK k \in Nat : TakenUpTo(k)
      BY <1>0, <1>7 DEF CountsTaken
  <2>2. PICK j \in Nat : j = k + 1
      OBVIOUS
  <2>3. TakenUpTo(j)'
      BY <1>13, <2>1, <2>2
  <2> QED BY <2>3
<1> QED BY <1>10, <1>12, <1>14 DEF EvmInv

LEMMA TakesLateInv ==
    ASSUME EvmInv, NEW r \in late, TakesLate(r)
    PROVE  EvmInv'
<1>0. ExecutorOK /\ TimeoutsPay /\ CountsTaken /\ nonce \in Nat
    BY DEF EvmInv, ExecutorOK
<1>1. /\ late' = late \ {r} /\ UNCHANGED <<nonce, currentGasPrice, executions, timeouts>>
      /\ Place(r) \/ UNCHANGED <<pool, disturbed>>
    BY DEF TakesLate, executorVars
<1>2. r \in Request /\ r.message \in Message /\ r.nonce \in Nat
    BY <1>0 DEF ExecutorOK, Request
<1>3. Accepted' = Accepted
    BY <1>1 DEF Accepted
<1>4. late' \subseteq late /\ IsFiniteSet(late')
    BY <1>0, <1>1, FS_Subset DEF ExecutorOK
<1>5. /\ DOMAIN pool' \subseteq Nat /\ IsFiniteSet(DOMAIN pool') /\ disturbed' \in BOOLEAN
      /\ \A q \in Message : Cardinality(Sent(q)') \in Nat
      /\ Cardinality(Sent(r.message)') <= Cardinality(Sent(r.message)) + 1
      /\ \A q \in Message : q # r.message => Cardinality(Sent(q)') <= Cardinality(Sent(q))
      /\ ~disturbed' => ~disturbed
  <2>1. CASE Place(r)
      BY <1>0, <1>2, <2>1, PlaceFacts
  <2>2. CASE UNCHANGED <<pool, disturbed>>
    <3>1. \A q \in Message : Sent(q)' = Sent(q)
        BY <2>2 DEF Sent
    <3>2. \A q \in Message : Cardinality(Sent(q)) \in Nat
        BY <1>0, CountFacts
    <3> QED BY <1>0, <1>2, <2>2, <3>1, <3>2 DEF ExecutorOK
  <2> QED BY <1>1, <2>1, <2>2
<1>6. ExecutorOK'
    BY <1>0, <1>1, <1>3, <1>4, <1>5 DEF ExecutorOK
<1>7. ASSUME NEW q \in Message
      PROVE  Cardinality(Sent(q)') + Cardinality(LateOf(q)') + SlotOf(executions'[q]) <= 1 + timeouts'[q]
  <2>1. /\ IsFiniteSet(LateOf(q)) /\ Cardinality(LateOf(q)) \in Nat /\ Cardinality(Sent(q)) \in Nat
        /\ timeouts[q] \in Nat /\ SlotOf(executions[q]) \in 0..1
      BY <1>0, CountFacts
  <2>2. Cardinality(Sent(q)) + Cardinality(LateOf(q)) + SlotOf(executions[q]) <= 1 + timeouts[q]
      BY <1>0 DEF TimeoutsPay
  <2>3. /\ Cardinality(LateOf(q)') \in Nat
        /\ Cardinality(Sent(q)') + Cardinality(LateOf(q)') <= Cardinality(Sent(q)) + Cardinality(LateOf(q))
    <3>1. CASE q # r.message
      <4>1. LateOf(q)' = LateOf(q)
          BY <1>1, <3>1 DEF LateOf
      <4> QED BY <1>5, <2>1, <3>1, <4>1
    <3>2. CASE q = r.message
      <4>1. LateOf(q)' = LateOf(q) \ {r} /\ r \in LateOf(q)
          BY <1>1, <3>2 DEF LateOf
      <4>2. IsFiniteSet(LateOf(q) \ {r}) /\ Cardinality(LateOf(q) \ {r}) = Cardinality(LateOf(q)) - 1
          BY <2>1, <4>1, FS_RemoveElement
      <4>3. Cardinality(LateOf(q)') = Cardinality(LateOf(q)) - 1 /\ Cardinality(LateOf(q)') \in Nat
          BY <4>1, <4>2, FS_CardinalityType
      <4>4. Cardinality(Sent(q)') <= Cardinality(Sent(q)) + 1 /\ Cardinality(Sent(q)') \in Nat
          BY <1>5, <3>2
      <4> QED BY <2>1, <4>3, <4>4
    <3> QED BY <3>1, <3>2
  <2> DEFINE s == Cardinality(Sent(q))
             s2 == Cardinality(Sent(q)')
             l == Cardinality(LateOf(q))
             l2 == Cardinality(LateOf(q)')
             a == SlotOf(executions[q])
  <2>4. s \in Nat /\ s2 \in Nat /\ l \in Nat /\ l2 \in Nat /\ a \in Int /\ timeouts[q] \in Nat
      BY <1>5, <2>1, <2>3
  <2>5. s + l + a <= 1 + timeouts[q] /\ s2 + l2 <= s + l
      BY <2>2, <2>3
  <2> HIDE DEF s, s2, l, l2, a
  <2>6. s2 + l2 + a <= 1 + timeouts[q]
      BY <2>4, <2>5
  <2> QED BY <1>1, <2>6 DEF s2, l2, a
<1>8. TimeoutsPay'
    BY <1>7 DEF TimeoutsPay
<1>9. ASSUME NEW k \in Nat, TakenUpTo(k), ~disturbed'
      PROVE  \E j \in Nat : TakenUpTo(j)'
  <2>1. /\ DOMAIN pool = 0..(k - 1) /\ nonce + Cardinality(Accepted) <= k
        /\ Cardinality(Accepted) \in Nat
        /\ \A z \in late : z.nonce <= k /\ z.nonce \in Nat
        /\ \A q \in Message : executions[q].phase = "posted" => executions[q].nonce <= k
        /\ \A q \in Message : executions[q].nonce \in Nat
      BY <1>0, <1>9, FS_CardinalityType DEF TakenUpTo, ExecutorOK, Request, Execution
  <2>2. CASE UNCHANGED <<pool, disturbed>>
    <3>1. TakenUpTo(k)'
        BY <1>1, <1>3, <2>1, <2>2 DEF TakenUpTo
    <3> QED BY <3>1
  <2>3. CASE Place(r)
    <3>1. DOMAIN pool' = 0..k
        BY <1>0, <1>2, <1>9, <2>1, <2>3, PlaceFacts
    <3>2. PICK j \in Nat : j = k + 1
        OBVIOUS
    <3>3. DOMAIN pool' = 0..(j - 1)
        BY <3>1, <3>2
    <3>4. nonce' + Cardinality(Accepted') <= j
        BY <1>0, <1>1, <1>3, <2>1, <3>2
    <3>5. \A z \in late' : z.nonce <= j
        BY <1>4, <2>1, <3>2
    <3>6. \A q \in Message : executions'[q].phase = "posted" => executions'[q].nonce <= j
      <4> SUFFICES ASSUME NEW q \in Message, executions[q].phase = "posted"
                   PROVE  executions[q].nonce <= j
          BY <1>1
      <4>1. executions[q].nonce <= k /\ executions[q].nonce \in Nat
          BY <2>1
      <4> QED BY <3>2, <4>1
    <3>7. TakenUpTo(j)'
        BY <3>3, <3>4, <3>5, <3>6 DEF TakenUpTo
    <3> QED BY <3>7
  <2> QED BY <1>1, <2>2, <2>3
<1>10. CountsTaken'
    BY <1>0, <1>5, <1>9 DEF CountsTaken
<1> QED BY <1>6, <1>8, <1>10 DEF EvmInv

\* What getTransactionCount answers: the first nonce without a transaction.
LEMMA NextNonceFacts ==
    ASSUME ExecutorOK
    PROVE  /\ NextNonce \in Nat
           /\ \A k \in Nat : DOMAIN pool = 0..(k - 1) => NextNonce = k
<1> DEFINE top == Cardinality(DOMAIN pool)
           Lowest(n) == n \notin DOMAIN pool /\ \A j \in 0..(n - 1) : j \in DOMAIN pool
           Free == {n \in 0..top : n \notin DOMAIN pool}
<1>1. IsFiniteSet(DOMAIN pool) /\ top \in Nat
    BY FS_CardinalityType DEF ExecutorOK
<1>2. IsFiniteSet(0..top) /\ Cardinality(0..top) = top + 1
  <2> HIDE DEF top
  <2> QED BY <1>1, FS_Interval
<1>3. \E n \in 0..top : n \notin DOMAIN pool
  <2> SUFFICES ASSUME 0..top \subseteq DOMAIN pool PROVE FALSE
      OBVIOUS
  <2>1. Cardinality(0..top) <= Cardinality(DOMAIN pool)
      BY <1>1, FS_Subset
  <2>2. top + 1 <= top
      BY <1>2, <2>1
  <2> HIDE DEF top
  <2> QED BY <1>1, <2>2
<1>4. PICK n \in Free : \A j \in Free : n <= j
  <2>1. Free \subseteq Nat /\ Free # {}
    <3> HIDE DEF top
    <3> QED BY <1>1, <1>3
  <2> HIDE DEF Free
  <2> QED BY <2>1, LeastNatural
<1>5. n \in 0..top /\ Lowest(n)
  <2>1. n \in 0..top /\ n \notin DOMAIN pool
      OBVIOUS
  <2>2. ASSUME NEW j \in 0..(n - 1), j \notin DOMAIN pool PROVE FALSE
    <3>1. j \in 0..top /\ j < n
      <4> HIDE DEF top, Free
      <4> QED BY <1>1, <2>1
    <3>2. j \in Free
        BY <2>2, <3>1
    <3>3. n <= j
        BY <1>4, <3>2
    <3> HIDE DEF top, Free
    <3> QED BY <1>1, <2>1, <3>1, <3>3
  <2> QED BY <2>1, <2>2
<1>6. NextNonce \in 0..top /\ Lowest(NextNonce)
    BY <1>5 DEF NextNonce
<1>7. NextNonce \in Nat
  <2> HIDE DEF top
  <2> QED BY <1>1, <1>6
<1>8. ASSUME NEW k \in Nat, DOMAIN pool = 0..(k - 1) PROVE NextNonce = k
  <2>1. NextNonce \notin 0..(k - 1) /\ \A j \in 0..(NextNonce - 1) : j \in 0..(k - 1)
      BY <1>6, <1>8
  <2>2. PICK x \in Nat : x = NextNonce
      BY <1>7
  <2>3. x \notin 0..(k - 1) /\ \A j \in 0..(x - 1) : j \in 0..(k - 1)
      BY <2>1, <2>2
  <2>4. x >= k
      BY <2>3
  <2>5. CASE x > k
    <3>1. k \in 0..(x - 1)
        BY <2>5
    <3> QED BY <2>3, <3>1
  <2> QED BY <2>2, <2>4, <2>5
<1> QED BY <1>7, <1>8

LEMMA UpdateNonceInv == ASSUME EvmInv, UpdateNonce PROVE EvmInv'
<1>0. ExecutorOK /\ TimeoutsPay /\ CountsTaken
    BY DEF EvmInv
<1>1. /\ nonce' = NextNonce
      /\ disturbed' = (disturbed \/ \E m \in Message : In(m, {"accepted"}))
      /\ UNCHANGED <<currentGasPrice, executions, pool, late, timeouts>>
    BY DEF UpdateNonce, nodeVars
<1>2. Accepted' = Accepted /\ (\A m \in Message : Sent(m)' = Sent(m) /\ LateOf(m)' = LateOf(m))
    BY <1>1 DEF Accepted, Sent, LateOf
<1>3. NextNonce \in Nat
    BY <1>0, NextNonceFacts
<1>4. disturbed' \in BOOLEAN /\ (~disturbed' => ~disturbed /\ Accepted = {})
    BY <1>0, <1>1 DEF In, Accepted, ExecutorOK
<1>5. ExecutorOK'
    BY <1>0, <1>1, <1>2, <1>3, <1>4 DEF ExecutorOK
<1>6. TimeoutsPay'
    BY <1>0, <1>1, <1>2 DEF TimeoutsPay
<1>7. ASSUME NEW k \in Nat, TakenUpTo(k), ~disturbed' PROVE TakenUpTo(k)'
  <2>1. nonce' = k
      BY <1>0, <1>1, <1>7, NextNonceFacts DEF TakenUpTo
  <2>2. Cardinality(Accepted') = 0
      BY <1>2, <1>4, <1>7, FS_EmptySet
  <2>3. nonce' + Cardinality(Accepted') <= k
      BY <2>1, <2>2
  <2> QED BY <1>1, <1>7, <2>3 DEF TakenUpTo
<1>8. CountsTaken'
    BY <1>0, <1>4, <1>7 DEF CountsTaken
<1> QED BY <1>5, <1>6, <1>8 DEF EvmInv

LEMMA EvmInvInit == ASSUME EvmInit PROVE EvmInv
<1>1. /\ nonce = 0 /\ currentGasPrice = InitialGasPrice
      /\ executions = [m \in Message |-> [phase |-> "idle", nonce |-> 0, price |-> 0]]
      /\ DOMAIN pool = {} /\ late = {}
      /\ timeouts = [m \in Message |-> 0] /\ disturbed = FALSE
    BY DEF EvmInit
<1>2. IsFiniteSet({}) /\ Cardinality({}) = 0
    BY FS_EmptySet
<1>3. Accepted = {}
    BY <1>1 DEF Accepted
<1>4. ExecutorOK
    BY <1>1, <1>2, <1>3, EvmAssumption DEF ExecutorOK, Execution, Phase
<1>5. ASSUME NEW m \in Message
      PROVE  Cardinality(Sent(m)) + Cardinality(LateOf(m)) + SlotOf(executions[m]) <= 1 + timeouts[m]
  <2>1. Sent(m) = {} /\ LateOf(m) = {} /\ SlotOf(executions[m]) \in 0..1 /\ timeouts[m] = 0
      BY <1>1 DEF Sent, LateOf, SlotOf
  <2> QED BY <1>2, <2>1
<1>6. TakenUpTo(0)
    BY <1>1, <1>2, <1>3 DEF TakenUpTo
<1> QED BY <1>4, <1>5, <1>6 DEF EvmInv, TimeoutsPay, CountsTaken

LEMMA EvmInvNext == EvmInv /\ [EvmNext]_evmVars => EvmInv'
<1> SUFFICES ASSUME EvmInv, [EvmNext]_evmVars PROVE EvmInv'
    OBVIOUS
<1>1. ASSUME NEW m \in Message,
             \/ Execute(m) \/ NodeRefuses(m) \/ Submitted(m)
             \/ SubmissionRefused(m) \/ Confirmed(m) \/ OtherError(m)
      PROVE  EvmInv'
    BY <1>1, ExecutionInv
<1>2. ASSUME NEW m \in Message, NodeTakes(m) PROVE EvmInv'
    BY <1>2, NodeTakesInv
<1>3. ASSUME NEW m \in Message, TimesOutWaiting(m) PROVE EvmInv'
    BY <1>3, TimesOutInv
<1>4. ASSUME NEW r \in late, TakesLate(r) PROVE EvmInv'
    BY <1>4, TakesLateInv
<1>5. CASE UpdateNonce
    BY <1>5, UpdateNonceInv
<1>6. CASE Mine \/ UNCHANGED evmVars
  <2>1. UNCHANGED <<nonce, currentGasPrice, executions, pool, late, timeouts, disturbed>>
      BY <1>6 DEF Mine, evmVars, executorVars, nodeVars
  <2>2. Accepted' = Accepted /\ (\A m \in Message : Sent(m)' = Sent(m) /\ LateOf(m)' = LateOf(m))
      BY <2>1 DEF Accepted, Sent, LateOf
  <2>3. ExecutorOK' /\ TimeoutsPay'
      BY <2>1, <2>2 DEF EvmInv, ExecutorOK, TimeoutsPay
  <2>4. \A k \in Nat : TakenUpTo(k) => TakenUpTo(k)'
      BY <2>1, <2>2 DEF TakenUpTo
  <2>5. CountsTaken'
      BY <2>1, <2>4 DEF EvmInv, CountsTaken
  <2> QED BY <2>3, <2>5 DEF EvmInv
<1> QED BY <1>1, <1>2, <1>3, <1>4, <1>5, <1>6 DEF EvmNext

\* For any number of executions on one executor, any gas prices and any order
\* of answers, late ones and losses included, each second transaction of a
\* message has been paid for by a timeout: what an execution may still give
\* the node, what is under way unwaited and what the node has never exceed
\* one more than the timeouts.
THEOREM EvmTwiceOnlyAfterTimeout == EvmSpec => []TwiceOnlyAfterTimeout
<1>1. ASSUME EvmInv, NEW m \in Message
      PROVE  Cardinality({n \in DOMAIN pool : pool[n].message = m}) <= 1 + timeouts[m]
  <2> DEFINE s == Cardinality(Sent(m))
             l == Cardinality(LateOf(m))
             a == SlotOf(executions[m])
  <2>1. s \in Nat /\ l \in Nat /\ a \in 0..1 /\ timeouts[m] \in Nat
      BY <1>1, CountFacts DEF EvmInv
  <2>2. s + l + a <= 1 + timeouts[m]
      BY <1>1 DEF EvmInv, TimeoutsPay
  <2>3. s <= 1 + timeouts[m]
    <3> HIDE DEF s, l, a
    <3> QED BY <2>1, <2>2
  <2> QED BY <2>3 DEF Sent
<1>2. EvmInv => TwiceOnlyAfterTimeout
    BY <1>1 DEF TwiceOnlyAfterTimeout
<1>3. EvmInit => EvmInv
    BY EvmInvInit
<1> QED BY <1>2, <1>3, EvmInvNext, PTL DEF EvmSpec

\* For the same executors and nodes, the executor's nonce is at most the
\* account's until the pool loses a place or updateNonce is called between a
\* submission and its answer: until then the node's nonces are taken without
\* a gap, and each accepted submission that has not been counted holds one.
THEOREM EvmAheadOnlyIfDisturbed == EvmSpec => []AheadOnlyIfDisturbed
<1>1. ASSUME EvmInv, ~disturbed PROVE ~(nonce > NextNonce)
  <2>1. PICK k \in Nat : TakenUpTo(k)
      BY <1>1 DEF EvmInv, CountsTaken
  <2>2. NextNonce = k
      BY <1>1, <2>1, NextNonceFacts DEF EvmInv, TakenUpTo
  <2>3. nonce \in Nat /\ Cardinality(Accepted) \in Nat /\ nonce + Cardinality(Accepted) <= k
      BY <1>1, <2>1, FS_CardinalityType DEF EvmInv, ExecutorOK, TakenUpTo
  <2> QED BY <2>2, <2>3
<1>2. EvmInv => AheadOnlyIfDisturbed
    BY <1>1 DEF AheadOnlyIfDisturbed
<1>3. EvmInit => EvmInv
    BY EvmInvInit
<1> QED BY <1>2, <1>3, EvmInvNext, PTL DEF EvmSpec

\* What EvmTypeOK says and EvmInv does not.
EvmBounds ==
    /\ currentGasPrice <= MaxGasPrice
    /\ bumpCount \in 0..MaxBumps
    /\ mined \in Nat
    /\ \A n \in DOMAIN pool : pool[n] \in [message: Message, price: Nat]

LEMMA RepriceBounds ==
    ASSUME ExecutorOK, EvmBounds, NEW m \in Message, RepriceOrFail(m)
    PROVE  currentGasPrice' <= MaxGasPrice /\ bumpCount' \in 0..MaxBumps
<1>1. CASE bumpCount < MaxBumps /\ bumpCount' = bumpCount + 1 /\ currentGasPrice' = Bumped
  <2>1. bumpCount' \in 0..MaxBumps
      BY <1>1, EvmAssumption DEF EvmBounds
  <2> DEFINE raised == currentGasPrice * (100 + BumpPercentage)
             price == raised \div 100
  <2>2. raised \in Nat
      BY EvmAssumption DEF ExecutorOK
  <2>3. price \in Nat
    <3> HIDE DEF raised
    <3> QED BY <2>2
  <2>4. Bumped = IF price < MaxGasPrice THEN price ELSE MaxGasPrice
      BY DEF Bumped
  <2> HIDE DEF price
  <2> QED BY <1>1, <2>1, <2>3, <2>4, EvmAssumption
<1>2. CASE UNCHANGED <<bumpCount, currentGasPrice>>
    BY <1>2 DEF EvmBounds
<1> QED BY <1>1, <1>2 DEF RepriceOrFail

LEMMA PlaceBounds ==
    ASSUME EvmBounds, NEW r \in Request, Place(r)
    PROVE  \A n \in DOMAIN pool' : pool'[n] \in [message: Message, price: Nat]
BY DEF EvmBounds, Place, Request

LEMMA EvmBoundsNext == EvmInv /\ EvmBounds /\ [EvmNext]_evmVars => EvmBounds'
<1> SUFFICES ASSUME EvmInv, EvmBounds, [EvmNext]_evmVars PROVE EvmBounds'
    OBVIOUS
<1>0. ExecutorOK
    BY DEF EvmInv
<1> USE DEF executorVars, nodeVars
<1>1. ASSUME NEW m \in Message,
             \/ Execute(m) \/ NodeRefuses(m) \/ Submitted(m) \/ OtherError(m)
      PROVE  EvmBounds'
    BY <1>1 DEF Execute, NodeRefuses, Submitted, OtherError, EvmBounds
<1>2. ASSUME NEW m \in Message, NodeTakes(m) PROVE EvmBounds'
  <2>1. RequestOf(m) \in Request
      BY <1>0 DEF ExecutorOK, Execution, RequestOf, Request
  <2>2. Place(RequestOf(m)) /\ UNCHANGED <<currentGasPrice, bumpCount, mined>>
      BY <1>2 DEF NodeTakes
  <2> QED BY <2>1, <2>2, PlaceBounds DEF EvmBounds
<1>3. ASSUME NEW m \in Message, SubmissionRefused(m) \/ TimesOutWaiting(m) PROVE EvmBounds'
  <2>1. RepriceOrFail(m) /\ UNCHANGED <<pool, mined>>
      BY <1>3 DEF SubmissionRefused, TimesOutWaiting
  <2> QED BY <1>0, <2>1, RepriceBounds DEF EvmBounds
<1>4. ASSUME NEW m \in Message, Confirmed(m) PROVE EvmBounds'
    BY <1>4, EvmAssumption DEF Confirmed, EvmBounds
<1>5. ASSUME NEW r \in late, TakesLate(r) PROVE EvmBounds'
  <2>1. r \in Request
      BY <1>0 DEF ExecutorOK
  <2>2. (Place(r) \/ UNCHANGED pool) /\ UNCHANGED <<currentGasPrice, bumpCount, mined>>
      BY <1>5 DEF TakesLate
  <2> QED BY <2>1, <2>2, PlaceBounds DEF EvmBounds
<1>6. CASE Mine
    BY <1>6 DEF Mine, EvmBounds
<1>7. CASE UpdateNonce
    BY <1>7 DEF UpdateNonce, EvmBounds
<1>8. CASE UNCHANGED evmVars
    BY <1>8 DEF evmVars, EvmBounds
<1> QED BY <1>1, <1>2, <1>3, <1>4, <1>5, <1>6, <1>7, <1>8 DEF EvmNext

\* The price stays below its limit however often it is raised, and the count
\* of bumps below its own, if the configuration begins there: the constructor
\* does not compare the two prices (handleReprice).
THEOREM EvmTypes == ASSUME InitialGasPrice <= MaxGasPrice PROVE EvmSpec => []EvmTypeOK
<1>1. EvmInv /\ EvmBounds => EvmTypeOK
    BY EvmAssumption DEF EvmInv, ExecutorOK, Execution, EvmBounds, EvmTypeOK
<1>2. EvmInit => EvmInv /\ EvmBounds
  <2>1. EvmInit => EvmBounds
      BY EvmAssumption DEF EvmInit, EvmBounds
  <2> QED BY <2>1, EvmInvInit
<1>3. EvmInv /\ EvmBounds /\ [EvmNext]_evmVars => (EvmInv /\ EvmBounds)'
    BY EvmInvNext, EvmBoundsNext
<1> QED BY <1>1, <1>2, <1>3, PTL DEF EvmSpec
==============================================================================
