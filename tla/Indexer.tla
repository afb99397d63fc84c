------------------------------- MODULE Indexer -------------------------------
(***************************************************************************)
(* The indexer of one source chain: a ReorgDetector whose events drive a   *)
(* FinalityTracker, as their headers and reorg-detector.spec.ts wire them: *)
(* 'reorg' calls handleReorg and 'block' calls advanceHead, both before    *)
(* processBlock returns.                                                   *)
(*                                                                         *)
(* The code around the two classes is not in the repository.  It is        *)
(* modelled as the detector asks for ("every block your indexer processes, *)
(* in height order"): a subscription that, whenever the canonical tip      *)
(* moves, queues the blocks of the new chain above the fork point, and a   *)
(* loop that takes one block at a time, has it processed, and quarantines  *)
(* the messages of its logs before it takes the next.  Beside it runs the  *)
(* head-tracking loop that finality-tracker.ts:14-15 names: it polls the   *)
(* chain's height and calls advanceHead too.                               *)
(***************************************************************************)
EXTENDS BlockTree, FiniteSets

CONSTANTS
    MessageId,
    LogsIn,                 \* block -> ids of the messages it carries
    Start,                  \* a final block, the first one indexed
    RequiredConfirmations,
    HistoryDepth,
    MaxReorgDepth,          \* how many blocks a re-org may take off the chain
    HeadLead                \* how far a polled head may run ahead of the indexed blocks

ASSUME IndexerAssumption ==
    /\ Start \in Block
    /\ LogsIn \in [Block -> SUBSET MessageId]
    /\ \A a, b \in Block : a # b /\ IsAncestor(a, b) => LogsIn[a] \cap LogsIn[b] = {}
    /\ RequiredConfirmations \in Nat \ {0} /\ MaxReorgDepth \in Nat /\ HeadLead \in Nat
    \* A head that is polled counts confirmations of blocks not indexed yet.
    /\ MaxReorgDepth + HeadLead < RequiredConfirmations
    /\ HistoryDepth \in Nat \ {0} /\ HistoryDepth >= MaxReorgDepth

SourceChain == 1

LogMessage(id, b) == [id |-> id, chain |-> SourceChain, height |-> Height(b), block |-> b]

Logs(b) == {LogMessage(id, b) : id \in LogsIn[b]}

VARIABLES
    tip,                                           \* the canonical tip
    feed,                                          \* blocks on their way to the indexer
    logs,                                          \* messages of the last block to quarantine
    last,                                          \* the last block processed
    highest,                                       \* the height of the highest one
    relayed,                                       \* id -> how often it was released
    history, order, event,                         \* the detector's
    required, heads, quarantine, index, emitted    \* the tracker's

detectorVars == <<history, order, event>>
trackerVars  == <<required, heads, quarantine, index, emitted>>
vars == <<tip, feed, logs, last, highest, relayed, detectorVars, trackerVars>>

Detector == INSTANCE ReorgDetector WITH TolerateUnknownParent <- FALSE

Tracker == INSTANCE FinalityTracker WITH
    Message    <- UNION {Logs(b) : b \in Block},
    Chain      <- {SourceChain},
    Required   <- [c \in {SourceChain} |-> RequiredConfirmations],
    HeadHeight <- {Height(b) : b \in Block},
    Depths     <- {}

TypeOK ==
    /\ tip \in Block
    /\ feed \in Seq(Block)
    /\ logs \subseteq UNION {Logs(b) : b \in Block}
    /\ last \in Block \cup {<<>>}
    /\ highest \in Nat
    /\ relayed \in [MessageId -> Nat]
    /\ Detector!TypeOK
    /\ Tracker!TypeOK

Init ==
    /\ tip = Start
    /\ feed = <<Start>>
    /\ logs = {}
    /\ last = <<>>
    /\ highest = Height(Start) - 1
    /\ relayed = [id \in MessageId |-> 0]
    /\ Detector!Init
    /\ Tracker!Init

\* The chain grows or switches to a longer fork, no deeper than MaxReorgDepth
\* below its tip and never below Start.
CanReorgTo(b) ==
    /\ Height(b) > Height(tip)
    /\ Height(tip) - ForkHeight(tip, b) <= MaxReorgDepth
    /\ ForkHeight(tip, b) >= Height(Start)

\* The subscription delivers every block of the new chain above the fork point.
MoveTip(b) ==
    /\ CanReorgTo(b)
    /\ tip' = b
    /\ feed' = feed \o PathAbove(b, ForkHeight(tip, b))
    /\ UNCHANGED <<logs, last, highest, relayed, detectorVars, trackerVars>>

InvalidatedHeights == {Height(x) : x \in event'.invalidated}

\* The listeners: on('reorg', handleReorg) and on('block', advanceHead).
NotifyTracker(b) ==
    CASE event'.type = "reorg" ->
            Tracker!HandleReorg(SourceChain, InvalidatedHeights)
      [] event'.type \in {"block", "tolerated"} ->
            Tracker!AdvanceHead(SourceChain, Height(b))
      [] OTHER ->
            emitted' = {} /\ UNCHANGED <<required, heads, quarantine, index>>

\* Mutant: counts a rollback as a release taken back.
TakeBackRollbacks ==
    relayed' = [id \in MessageId |->
                   relayed[id] - Cardinality({e \in emitted' : /\ e.type = "rolledBack"
                                                               /\ e.entry.message.id = id})]

CountReleases ==
    relayed' = [id \in MessageId |->
                   relayed[id] + Cardinality({e \in emitted' : /\ e.type = "released"
                                                               /\ e.entry.message.id = id})]

\* A block that is accepted has its logs read.
LogsFound(b) == IF event'.type \in {"block", "reorg", "tolerated"} THEN Logs(b) ELSE {}

\* The loop takes the next block: processBlock and its listeners.
IndexBlock ==
    /\ feed # <<>>
    /\ logs = {}
    /\ Detector!ProcessBlock(Head(feed))
    /\ NotifyTracker(Head(feed))
    /\ CountReleases
    /\ feed' = Tail(feed)
    /\ last' = Head(feed)
    /\ highest' = IF Height(Head(feed)) > highest THEN Height(Head(feed)) ELSE highest
    /\ logs' = LogsFound(Head(feed))
    /\ UNCHANGED tip

\* A message found in the logs of the block is quarantined.
ObserveLog(m) ==
    /\ m \in logs
    /\ Tracker!QuarantineMessage(m)
    /\ CountReleases
    /\ logs' = logs \ {m}
    /\ UNCHANGED <<tip, feed, last, highest, detectorVars>>

\* Mutant: the head-tracking loop does not look at the indexer.
AnyHead == 1..Height(tip)

\* The chain's height at some time up to now.
PolledHead == {h \in 1..Height(tip) : h <= highest + HeadLead}

\* The head-tracking loop's call of advanceHead.
PollHead(h) ==
    /\ h \in PolledHead
    /\ Tracker!AdvanceHead(SourceChain, h)
    /\ CountReleases
    /\ UNCHANGED <<tip, feed, logs, last, highest, detectorVars>>

Next ==
    \/ \E b \in Block : MoveTip(b)
    \/ IndexBlock
    \/ \E m \in logs : ObserveLog(m)
    \/ \E h \in PolledHead : PollHead(h)

\* The chain and the head-tracking loop owe nothing; the indexer's loop runs while it has work.
Fairness == WF_vars(IndexBlock) /\ WF_vars(\E m \in logs : ObserveLog(m))

Spec == Init /\ [][Next]_vars /\ Fairness
------------------------------------------------------------------------------
(* Properties *)

\* The detector's history is one chain: everything recorded is the last block
\* processed or an ancestor of it, with the last block on top.  A re-org rolls
\* back all of the stale fork and nothing below the fork point.
HistoryIsOneChain ==
    last # <<>> =>
        /\ \A b \in Detector!Recorded : IsAncestor(b, last)
        /\ DOMAIN history = (Height(last) - Cardinality(DOMAIN history) + 1)..Height(last)

\* A subscription that queues every block above the fork point never trips
\* the detector's continuity check (reorg-detector.ts:232-250), however the
\* chain forks and however far behind the indexer is.
NeverRefused == event.type \notin {"refused", "redelivered"}

\* The quarantine follows the chain indexed so far, through any re-orgs: no
\* message of a stale block stays in it (handleReorg, finality-tracker.ts:
\* 219-223), and every message of the chain is pending at the block that
\* carries it or was released, also one that has come back in another block.
QuarantineFollowsChain ==
    /\ \A id \in DOMAIN quarantine : IsAncestor(quarantine[id].message.block, last)
    /\ last # <<>> =>
           \A n \in Height(Start)..Height(last) :
               \A m \in Logs(SubSeq(last, 1, n)) \ logs :
                   \/ m.id \in DOMAIN quarantine /\ quarantine[m.id].message = m
                   \/ relayed[m.id] > 0

\* The indexer implements FinalRelay: nothing is released twice, and nothing
\* is released before its block is final, although the blocks of a re-org and
\* the head it is compared with reach the tracker late.
Relay == INSTANCE FinalRelay
ImplementsFinalRelay == Relay!Spec

\* A message whose block has its confirmations is eventually released.
FinalMessagesAreRelayed ==
    \A id \in MessageId :
        (\E b \in Relay!FinalOn(tip) : id \in LogsIn[b]) ~> relayed[id] = 1
==============================================================================
