--------------------------- MODULE FallbackExecutor ---------------------------
(***************************************************************************)
(* packages/utils/src/fallback-executor.ts: calls of executeWithFallback   *)
(* on one executor, each trying the routes of its ranking in turn.         *)
(*                                                                         *)
(* An action is what runs between two awaits, or up to a status callback   *)
(* after which the executor's state is changed again: while onStatusChange *)
(* runs nothing else does, but it may itself call the executor.  The       *)
(* promise of a route that has timed out is abandoned, not cancelled: its  *)
(* execution runs on.  Time passes in ticks.  The ranking is any order of  *)
(* routes; messages and the status texts are left out.                     *)
(***************************************************************************)
EXTENDS Integers, Sequences, FiniteSets

CONSTANTS
    Call,         \* calls of executeWithFallback
    Route,        \* route ids
    MaxAttempts,  \* values of config.maxFallbackAttempts
    Timeouts,     \* values of config.executionTimeout, in ticks
    Lag,          \* the event loop's delay of a timer, at most
    MaxDisturbances  \* bound: on disturbances

ASSUME FallbackAssumption ==
    /\ IsFiniteSet(Route)
    /\ MaxAttempts \subseteq Nat \ {0} /\ Timeouts \subseteq Nat \ {0}
    /\ Lag \in Nat /\ MaxDisturbances \in Nat
    \* A timer fires within twice its time.
    /\ \A t \in Timeouts : Lag <= t

VARIABLES
    timeout,           \* config.executionTimeout
    activeExecutions,  \* Map: route -> ticks since startTime
    failedRoutes,
    calls,             \* call -> its local state, see CallState
    callbacks,         \* the calls whose onStatusChange runs, the innermost first
    running,           \* <<call, route>> whose executeFn has not settled
    disturbances       \* how often its users have called reset, lowered the timeout,
                       \* or called it from the callback that announces a route

fallbackVars == <<timeout, activeExecutions, failedRoutes, calls, callbacks, running,
                  disturbances>>

Rankings == {r \in [1..Cardinality(Route) -> Route] : \A i, j \in DOMAIN r : r[i] = r[j] => i = j}

\* A call is announcing in the callback of line 227, completing in that of
\* line 245.  left is what the timer of an execution has left, or how late it
\* is.
Phases == {"idle", "announcing", "executing", "completing", "delay", "done"}

CallState == [phase: Phases, ranked: Rankings \cup {<<>>},
              attempt: Nat, maxAttempts: Nat, left: Int]

FallbackTypeOK ==
    /\ timeout \in Timeouts
    /\ DOMAIN activeExecutions \subseteq Route /\ \A r \in DOMAIN activeExecutions : activeExecutions[r] \in Nat
    /\ failedRoutes \subseteq Route
    /\ calls \in [Call -> CallState]
    /\ callbacks \in Seq(Call)
    /\ running \subseteq Call \X Route
    /\ disturbances \in 0..MaxDisturbances
------------------------------------------------------------------------------
Local(phase) == [phase |-> phase, ranked |-> <<>>, attempt |-> 0, maxAttempts |-> 0, left |-> 0]

Least(a, b) == IF a <= b THEN a ELSE b

Current(c) == calls[c].ranked[calls[c].attempt]

Announcing(c, r) == calls[c].phase = "announcing" /\ Current(c) = r

Awaits(c, r) == calls[c].phase = "executing" /\ Current(c) = r

\* No callback runs, so the event loop may take its next task.
Quiet == \A c \in Call : calls[c].phase \notin {"announcing", "completing"}

\* isExecutionActive: an entry older than twice the timeout is stale.
IsExecutionActive(r) == r \in DOMAIN activeExecutions /\ activeExecutions[r] <= 2 * timeout

Started(r) == [x \in DOMAIN activeExecutions \cup {r} |-> IF x = r THEN 0 ELSE activeExecutions[x]]
Ended(r) == [x \in DOMAIN activeExecutions \ {r} |-> activeExecutions[x]]

Untried(call, n) == {i \in n..call.maxAttempts : call.ranked[i] \notin failedRoutes}

First(S) == CHOOSE i \in S : \A j \in S : i <= j

\* The loop from attempt n on, up to its callback: failed routes are skipped,
\* and the first other one is announced unless it is already executed, a
\* stale entry of it being deleted; in that case, and when none is left, the
\* call throws.
Proceed(c, call, n) ==
    LET i == First(Untried(call, n))
        r == call.ranked[i]
    IN IF Untried(call, n) = {} \/ IsExecutionActive(r)
       THEN /\ calls' = [calls EXCEPT ![c] = Local("done")]
            /\ UNCHANGED <<activeExecutions, callbacks>>
       ELSE /\ calls' = [calls EXCEPT ![c] = [call EXCEPT !.phase = "announcing", !.attempt = i]]
            /\ activeExecutions' = Ended(r)
            /\ callbacks' = <<c>> \o callbacks

Disturb == disturbances < MaxDisturbances /\ disturbances' = disturbances + 1

\* The ranking and the number of attempts are settled when the call begins.
ExecuteWithFallback(c, ranked, attempts) ==
    /\ calls[c].phase = "idle"
    /\ IF \E b \in Call : calls[b].phase = "announcing"
       THEN Disturb
       ELSE UNCHANGED disturbances
    /\ Proceed(c, [Local("idle") EXCEPT !.ranked = ranked,
                       !.maxAttempts = Least(attempts, Len(ranked))], 1)
    /\ UNCHANGED <<timeout, failedRoutes, running>>

AfterDelay(c) ==
    /\ Quiet
    /\ calls[c].phase = "delay"
    /\ Proceed(c, calls[c], calls[c].attempt + 1)
    /\ UNCHANGED <<timeout, failedRoutes, running, disturbances>>

Return(c) ==
    /\ callbacks # <<>> /\ c = Head(callbacks)
    /\ callbacks' = Tail(callbacks)

\* markExecutionActive and the start of executeFn, when the callback returns.
StartExecution(c) ==
    /\ calls[c].phase = "announcing" /\ Return(c)
    /\ calls' = [calls EXCEPT ![c] = [@ EXCEPT !.phase = "executing", !.left = timeout]]
    /\ activeExecutions' = Started(Current(c))
    /\ running' = running \cup {<<c, Current(c)>>}
    /\ UNCHANGED <<timeout, failedRoutes, disturbances>>

\* The callback is outside the try block.
AnnouncementThrows(c) ==
    /\ calls[c].phase = "announcing" /\ Return(c)
    /\ calls' = [calls EXCEPT ![c] = Local("done")]
    /\ UNCHANGED <<timeout, activeExecutions, failedRoutes, running, disturbances>>

\* Mutant: a failed route is not remembered.
FailedForgotten(r) == failedRoutes

FailedAfter(r) == failedRoutes \cup {r}

\* handleRouteFailure, and the wait before the next attempt if there is one
\* and the callback of line 266 does not throw.
HandleRouteFailure(c) ==
    /\ activeExecutions' = Ended(Current(c))
    /\ failedRoutes' = FailedAfter(Current(c))
    /\ \/ /\ calls[c].attempt < calls[c].maxAttempts
          /\ calls' = [calls EXCEPT ![c] = [@ EXCEPT !.phase = "delay", !.left = 0]]
       \/ calls' = [calls EXCEPT ![c] = Local("done")]
    /\ UNCHANGED <<timeout, disturbances>>

RouteSucceeds(c, r) ==
    /\ Quiet
    /\ <<c, r>> \in running /\ Awaits(c, r)
    /\ running' = running \ {<<c, r>>}
    /\ activeExecutions' = Ended(r)
    /\ calls' = [calls EXCEPT ![c] = [@ EXCEPT !.phase = "completing", !.left = 0]]
    /\ callbacks' = <<c>> \o callbacks
    /\ UNCHANGED <<timeout, failedRoutes, disturbances>>

CompletedReturns(c) ==
    /\ calls[c].phase = "completing" /\ Return(c)
    /\ calls' = [calls EXCEPT ![c] = Local("done")]
    /\ UNCHANGED <<timeout, activeExecutions, failedRoutes, running, disturbances>>

\* This callback is inside the try block: the route counts as failed.
CompletedThrows(c) ==
    /\ calls[c].phase = "completing" /\ Return(c)
    /\ HandleRouteFailure(c)
    /\ UNCHANGED running

RouteFails(c, r) ==
    /\ Quiet
    /\ <<c, r>> \in running /\ Awaits(c, r)
    /\ running' = running \ {<<c, r>>}
    /\ HandleRouteFailure(c)
    /\ UNCHANGED callbacks

TimesOut(c) ==
    /\ Quiet
    /\ calls[c].phase = "executing" /\ calls[c].left <= 0
    /\ HandleRouteFailure(c)
    /\ UNCHANGED <<callbacks, running>>

SettlesLate(c, r) ==
    /\ Quiet
    /\ <<c, r>> \in running /\ ~Awaits(c, r)
    /\ running' = running \ {<<c, r>>}
    /\ UNCHANGED <<timeout, activeExecutions, failedRoutes, calls, callbacks, disturbances>>

Reset ==
    /\ Disturb
    /\ failedRoutes' = {}
    /\ activeExecutions' = [r \in {} |-> 0]
    /\ UNCHANGED <<timeout, calls, callbacks, running>>

\* The one setting that a call under way reads again.
UpdateConfig(t) ==
    /\ timeout' = t
    /\ IF t < timeout THEN Disturb ELSE UNCHANGED disturbances
    /\ UNCHANGED <<activeExecutions, failedRoutes, calls, callbacks, running>>

FallbackTick ==
    /\ \A c \in Call : calls[c].phase = "executing" => calls[c].left > -Lag
    /\ calls' = [c \in Call |-> IF calls[c].phase = "executing"
                                THEN [calls[c] EXCEPT !.left = @ - 1] ELSE calls[c]]
    /\ activeExecutions' = [r \in DOMAIN activeExecutions |-> activeExecutions[r] + 1]
    /\ UNCHANGED <<timeout, failedRoutes, callbacks, running, disturbances>>

FallbackInit ==
    /\ timeout \in Timeouts
    /\ activeExecutions = [r \in {} |-> 0]
    /\ failedRoutes = {}
    /\ calls = [c \in Call |-> Local("idle")]
    /\ callbacks = <<>>
    /\ running = {}
    /\ disturbances = 0

FallbackNext ==
    \/ \E c \in Call :
          \/ \E ranked \in Rankings, n \in MaxAttempts : ExecuteWithFallback(c, ranked, n)
          \/ StartExecution(c) \/ AnnouncementThrows(c)
          \/ CompletedReturns(c) \/ CompletedThrows(c)
          \/ AfterDelay(c) \/ TimesOut(c)
          \/ \E r \in Route : RouteSucceeds(c, r) \/ RouteFails(c, r) \/ SettlesLate(c, r)
    \/ Reset
    \/ \E t \in Timeouts : UpdateConfig(t)
    \/ FallbackTick

FallbackSpec == FallbackInit /\ [][FallbackNext]_fallbackVars
------------------------------------------------------------------------------
\* A route is executed by one call at a time, counting the executions that
\* have timed out and still run, whatever order calls, timers, late results
\* and failures come in.  Each reset, each update to a lower timeout (a live
\* entry may then look stale, line 330) and each call made from the callback
\* between the check and the mark (lines 217 to 235) lets at most one more
\* execution of a route begin beside them, and nothing else does.  Two at once
\* are two transfers.
OneExecutionPerRoute ==
    \A r \in Route :
        Cardinality({c \in Call : <<c, r>> \in running}) <= 1 + disturbances
==============================================================================
