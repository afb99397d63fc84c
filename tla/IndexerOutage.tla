---------------------------- MODULE IndexerOutage ----------------------------
(***************************************************************************)
(* The indexer behind libs/indexer/src/websocket-reconnector.ts: the       *)
(* subscription may drop, which loses the blocks on their way, and after   *)
(* the reconnection 'backfill' names the blocks to fetch, from the one     *)
(* after the last processed to the tip at that moment.                     *)
(***************************************************************************)
EXTENDS Indexer

VARIABLE connected

outageVars == <<vars, connected>>

OutageInit == Init /\ connected = TRUE

\* The socket closes (handleDrop); what it had not delivered is gone.
Disconnect ==
    /\ connected
    /\ connected' = FALSE
    /\ feed' = <<>>
    /\ UNCHANGED <<tip, logs, last, highest, relayed, detectorVars, trackerVars>>

\* The new socket opens (handleOpen) and backfillMissedRange computes the
\* range; the caller fetches those heights from the canonical chain.
Reconnect ==
    /\ ~connected
    /\ connected' = TRUE
    /\ feed' = PathAbove(tip, Height(last))
    /\ UNCHANGED <<tip, logs, last, highest, relayed, detectorVars, trackerVars>>

\* The canonical chain moves on while the connection is down: nothing of it
\* is delivered.
MoveTipUnseen(b) ==
    /\ ~connected
    /\ CanReorgTo(b)
    /\ tip' = b
    /\ UNCHANGED <<feed, logs, last, highest, relayed, detectorVars, trackerVars, connected>>

OutageNext ==
    \/ Disconnect
    \/ Reconnect
    \/ \E b \in Block : MoveTipUnseen(b)
    \/ /\ connected
       /\ \E b \in Block : MoveTip(b)
       /\ UNCHANGED connected
    \/ /\ \/ IndexBlock
          \/ \E m \in logs : ObserveLog(m)
          \/ \E h \in PolledHead : PollHead(h)
       /\ UNCHANGED connected

OutageSpec == OutageInit /\ [][OutageNext]_outageVars
------------------------------------------------------------------------------
(* Properties *)

\* A reorg event tells exactly which blocks are invalid, from the fork point
\* up (reorg-detector.ts:18-21): what the history keeps below the block that
\* revealed the re-org is on that block's chain.
ReorgReportsWholeFork ==
    event.type = "reorg" =>
        \A b \in Detector!Recorded : IsAncestor(b, event.block)
==============================================================================
