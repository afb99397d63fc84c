---------------------------- MODULE DisputeMonitor ----------------------------
(***************************************************************************)
(* packages/analyzers/src/optimistic/challenge-monitor.ts, watching the    *)
(* proposals of OptimisticDispute on one clock.                            *)
(*                                                                         *)
(* A watcher hands each proposal, possibly more than once, to              *)
(* trackAssertion, which waits for the canonical root before it looks at   *)
(* the clock; the rest of each method runs without yielding.  The polls of *)
(* checkPendingAssertions are at most PollEvery seconds apart: the code    *)
(* asks to be called "on a schedule" and leaves it to the caller.          *)
(***************************************************************************)
EXTENDS OptimisticDispute

CONSTANTS
    AlertNum, AlertDen,  \* alertRemainingFraction = AlertNum / AlertDen
    PollEvery,           \* seconds between two polls, at most
    MaxObserved,         \* bound: calls of trackAssertion for one proposal
    MaxTime              \* bound: the last timestamp

ASSUME MonitorAssumption ==
    /\ AlertNum \in Nat /\ AlertDen \in Nat \ {0}
    /\ PollEvery \in Nat \ {0}
    /\ PollEvery * AlertDen <= AlertNum * ChallengePeriod
    /\ MaxObserved \in Nat /\ MaxTime \in Nat

VARIABLES
    tracked,     \* id -> alerted, for the assertions in the Map
    resolving,   \* id -> calls of trackAssertion that await their root
    lastPoll,    \* the time of the last checkPendingAssertions
    \* What the properties need of the past
    observed,    \* id -> calls of trackAssertion
    inTime,      \* ids whose root was known before the window closed
    warned       \* ids that an alert named while they could be disputed

monitorVars == <<tracked, resolving, lastPoll, observed, inTime, warned>>
watchVars == <<disputeVars, monitorVars>>

WatchTypeOK ==
    /\ DisputeTypeOK
    /\ DOMAIN tracked \subseteq ProposalId
    /\ \A id \in DOMAIN tracked : tracked[id] \in BOOLEAN /\ ~proposals[id].canonical
    /\ resolving \in [ProposalId -> 0..MaxObserved]
    /\ observed \in [ProposalId -> 0..MaxObserved]
    /\ lastPoll \in Genesis..now
    /\ inTime \subseteq ProposalId
    /\ warned \subseteq ProposalId
------------------------------------------------------------------------------
Remaining(id) == Deadline(id) - now

WindowClosed(id) == Remaining(id) <= 0

\* Mutant: the end of the zone is left out.
InAlertZoneLate(id) == Remaining(id) * AlertDen < AlertNum * ChallengePeriod

InAlertZone(id) == Remaining(id) * AlertDen <= AlertNum * ChallengePeriod

Alerts(map, id) == ~WindowClosed(id) /\ ~map[id] /\ InAlertZone(id)

\* evaluateAssertion for each of ids: one that has expired leaves the map,
\* one that has come into the alert zone is announced and marked.
Evaluate(map, ids) ==
    /\ tracked' = [id \in {i \in DOMAIN map : i \notin ids \/ ~WindowClosed(i)} |->
                      map[id] \/ (id \in ids /\ Alerts(map, id))]
    /\ warned' = warned \cup {id \in ids : Alerts(map, id) /\ Disputable(id)}

\* trackAssertion up to its await.
TrackAssertion(id) ==
    /\ id < nextProposalId /\ observed[id] < MaxObserved
    /\ observed' = [observed EXCEPT ![id] = @ + 1]
    /\ resolving' = [resolving EXCEPT ![id] = @ + 1]
    /\ UNCHANGED <<tracked, lastPoll, inTime, warned>>

\* tracked.set: watched anew, also when it has been before.
Watched(id) == [i \in DOMAIN tracked \cup {id} |-> i # id /\ tracked[i]]

RootKnown(id) ==
    /\ resolving[id] > 0
    /\ resolving' = [resolving EXCEPT ![id] = @ - 1]
    /\ \/ /\ proposals[id].canonical
          /\ UNCHANGED <<tracked, inTime, warned>>
       \/ /\ ~proposals[id].canonical
          /\ inTime' = IF WindowClosed(id) THEN inTime ELSE inTime \cup {id}
          /\ Evaluate(Watched(id), {id})
    /\ UNCHANGED <<lastPoll, observed>>

\* The resolver rejects, and trackAssertion with it.
RootUnavailable(id) ==
    /\ resolving[id] > 0
    /\ resolving' = [resolving EXCEPT ![id] = @ - 1]
    /\ UNCHANGED <<tracked, lastPoll, observed, inTime, warned>>

\* The caller knows that a fraud proof has been submitted.
UntrackAssertion(id) ==
    /\ proposals[id].disputed /\ id \in DOMAIN tracked
    /\ tracked' = [i \in DOMAIN tracked \ {id} |-> tracked[i]]
    /\ UNCHANGED <<resolving, lastPoll, observed, inTime, warned>>

CheckPendingAssertions ==
    /\ lastPoll # now
    /\ lastPoll' = now
    /\ Evaluate(tracked, DOMAIN tracked)
    /\ UNCHANGED <<resolving, observed, inTime>>

MonitorStep ==
    \/ \E id \in ProposalId :
          \/ TrackAssertion(id)
          \/ RootKnown(id)
          \/ RootUnavailable(id)
          \/ UntrackAssertion(id)
    \/ CheckPendingAssertions

WatchTick ==
    /\ now < MaxTime /\ now < lastPoll + PollEvery
    /\ NewBlock

WatchInit ==
    /\ DisputeInit
    /\ tracked = [id \in {} |-> FALSE]
    /\ resolving = [id \in ProposalId |-> 0]
    /\ lastPoll = Genesis
    /\ observed = [id \in ProposalId |-> 0]
    /\ inTime = {}
    /\ warned = {}

WatchNext ==
    \/ EngineStep /\ UNCHANGED monitorVars
    \/ WatchTick /\ UNCHANGED monitorVars
    \/ MonitorStep /\ UNCHANGED disputeVars

WatchSpec == WatchInit /\ [][WatchNext]_watchVars
------------------------------------------------------------------------------
\* An invalid state root whose canonical root the monitor learnt while the
\* window was open is never finalised unannounced: an alert has named it
\* when a dispute was still possible, whatever the order of polls, late
\* roots, repeated observations and disputes (evaluateAssertion, lines
\* 176-213, against finalizeState).
FraudIsAnnounced ==
    \A id \in inTime : proposals[id].finalized => id \in warned
==============================================================================
