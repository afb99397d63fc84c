---------------------------- MODULE CircuitBreaker ----------------------------
(***************************************************************************)
(* src/providers/circuit-breaker/stellar/                                  *)
(* stellar-provider-circuit-breaker.ts: one breaker per provider.          *)
(*                                                                         *)
(* Every method runs without yielding.  Outcomes are reported at any time, *)
(* also those of requests sent before the breaker opened.  A breaker that  *)
(* the registry has not created yet behaves as a new one.  The clock is    *)
(* kept as the part of the cooldown that is left.                          *)
(***************************************************************************)
EXTENDS Integers

CONSTANTS
    Provider,
    FailureThreshold,          \* failureThreshold
    ResetTimeout,              \* resetTimeoutMs, in ticks
    HalfOpenSuccessThreshold,  \* halfOpenSuccessThreshold
    MaxFailures                \* bound: consecutiveFailures

ASSUME BreakerAssumption ==
    /\ FailureThreshold \in Nat \ {0} /\ ResetTimeout \in Nat
    /\ HalfOpenSuccessThreshold \in Nat \ {0} /\ MaxFailures \in Nat

VARIABLES
    breakers,  \* provider -> CircuitBreaker
    period     \* provider -> what happened since the state of its breaker changed

breakerVars == <<breakers, period>>

Breaker == [state: {"closed", "open", "half_open"}, consecutiveFailures: Nat,
            halfOpenSuccesses: Nat, cooldown: 0..ResetTimeout]

\* Outcomes of one kind in a row, counted up to what ends a period.
Period == [failures: 0..FailureThreshold, successes: 0..HalfOpenSuccessThreshold,
           waited: 0..ResetTimeout, byReset: BOOLEAN]

BreakerTypeOK ==
    /\ breakers \in [Provider -> Breaker]
    /\ period \in [Provider -> Period]
------------------------------------------------------------------------------
NewBreaker == [state |-> "closed", consecutiveFailures |-> 0,
               halfOpenSuccesses |-> 0, cooldown |-> 0]

NewPeriod(byReset) == [failures |-> 0, successes |-> 0, waited |-> 0, byReset |-> byReset]

UpTo(limit, n) == IF n < limit THEN n ELSE limit

CooledDown(b) == b.state = "open" /\ b.cooldown = 0

GetState(b) == IF CooledDown(b) THEN [b EXCEPT !.state = "half_open"] ELSE b

Counting(b, failures, successes) ==
    [state |-> b.state, consecutiveFailures |-> failures,
     halfOpenSuccesses |-> successes, cooldown |-> b.cooldown]

Trip(b) ==
    [state |-> "open", consecutiveFailures |-> b.consecutiveFailures,
     halfOpenSuccesses |-> b.halfOpenSuccesses, cooldown |-> ResetTimeout]

\* Mutant: the failures are kept.
CloseWithFailures(b) == [Counting(b, b.consecutiveFailures, 0) EXCEPT !.state = "closed"]

\* The failures counted before it opened are forgotten with the successes.
CloseBreaker(b) == [Counting(b, 0, 0) EXCEPT !.state = "closed"]

RecordSuccess(b) ==
    IF b.state # "half_open" THEN Counting(b, 0, 0)
    ELSE IF b.halfOpenSuccesses + 1 >= HalfOpenSuccessThreshold THEN CloseBreaker(b)
    ELSE Counting(b, b.consecutiveFailures, b.halfOpenSuccesses + 1)

\* In the open state failures count as well, and may trip it once more.
RecordFailure(b) ==
    LET failures == b.consecutiveFailures + 1 IN
    IF b.state = "half_open" THEN Trip(Counting(b, b.consecutiveFailures, 0))
    ELSE IF failures >= FailureThreshold THEN Trip(Counting(b, failures, b.halfOpenSuccesses))
    ELSE Counting(b, failures, b.halfOpenSuccesses)

\* Each call reads the state first, which may end the open period.
Here(p) == IF CooledDown(breakers[p]) THEN NewPeriod(FALSE) ELSE period[p]

Counted(h, failures, successes) ==
    [failures |-> failures, successes |-> successes, waited |-> h.waited, byReset |-> h.byReset]

CountSuccess(h) == Counted(h, 0, UpTo(HalfOpenSuccessThreshold, h.successes + 1))

CountFailure(h) == Counted(h, UpTo(FailureThreshold, h.failures + 1), 0)

\* p's breaker becomes b, and its period, if that goes on, h.
Outcome(p, b, h) ==
    /\ breakers' = [breakers EXCEPT ![p] = b]
    /\ period' = [period EXCEPT ![p] =
           IF b.state = GetState(breakers[p]).state THEN h ELSE NewPeriod(FALSE)]

ReportSuccess(p) ==
    Outcome(p, RecordSuccess(GetState(breakers[p])), CountSuccess(Here(p)))

ReportFailure(p) ==
    /\ breakers[p].consecutiveFailures < MaxFailures
    /\ Outcome(p, RecordFailure(GetState(breakers[p])), CountFailure(Here(p)))

IsAvailable(p) == Outcome(p, GetState(breakers[p]), Here(p))

ResetProvider(p) ==
    /\ breakers' = [breakers EXCEPT ![p] = NewBreaker]
    /\ period' = [period EXCEPT ![p] = NewPeriod(TRUE)]

Elapsed(n) == IF n > 0 THEN n - 1 ELSE 0

BreakerTick ==
    /\ breakers' = [p \in Provider |->
           [breakers[p] EXCEPT !.cooldown = Elapsed(@)]]
    /\ period' = [p \in Provider |->
           IF breakers[p].cooldown > 0 THEN [period[p] EXCEPT !.waited = UpTo(ResetTimeout, @ + 1)]
           ELSE period[p]]

BreakerInit ==
    /\ breakers = [p \in Provider |-> NewBreaker]
    /\ period = [p \in Provider |-> NewPeriod(FALSE)]

BreakerNext ==
    \/ \E p \in Provider :
          ReportSuccess(p) \/ ReportFailure(p) \/ IsAvailable(p) \/ ResetProvider(p)
    \/ BreakerTick

BreakerSpec == BreakerInit /\ [][BreakerNext]_breakerVars
------------------------------------------------------------------------------
\* What the current period has seen before the step that may end it.
Earned(p, from, to) ==
    CASE from = "closed" /\ to = "open" -> period[p].failures + 1 >= FailureThreshold
      [] from = "open" /\ to # "open" ->
             /\ period[p].waited >= ResetTimeout
             /\ to = "closed" => HalfOpenSuccessThreshold = 1
      [] from = "half_open" /\ to = "closed" ->
             period[p].successes + 1 >= HalfOpenSuccessThreshold
      [] from = "closed" /\ to = "half_open" -> FALSE
      [] OTHER -> TRUE

\* A breaker that nobody resets opens on a full streak of failures reported
\* while it was closed, leaves that state after a full cooldown, and closes
\* on a full streak of successes reported while it was half open: no count
\* survives from an earlier period, whatever late outcomes were reported in
\* between (the counters of recordSuccess and recordFailure, lines 115-147).
TransitionsAreEarned ==
    [][\A p \in Provider :
          period'[p].byReset \/ Earned(p, breakers[p].state, breakers'[p].state)]_breakerVars
==============================================================================
