----------------------------- MODULE FinalRelay -----------------------------
(***************************************************************************)
(* What the indexer promises to the relayer it feeds                       *)
(* (libs/indexer/src/finality-tracker.ts:6-9): a message is handed over at *)
(* most once, and only while the block that carries it is on the canonical *)
(* chain under the required number of confirmations, itself included.      *)
(***************************************************************************)
EXTENDS BlockTree

CONSTANTS
    MessageId,
    LogsIn,                \* block -> ids of the messages it carries
    RequiredConfirmations,
    Start                  \* the block the indexer starts from

VARIABLES
    tip,      \* the canonical tip
    relayed   \* message id -> how often it has been handed over

vars == <<tip, relayed>>

Init ==
    /\ tip = Start
    /\ relayed = [id \in MessageId |-> 0]

\* The blocks of the canonical chain that are deep enough.
FinalOn(t) == {SubSeq(t, 1, n) : n \in Height(Start)..(Height(t) - RequiredConfirmations + 1)}

ChainMoves ==
    /\ tip' \in Block
    /\ UNCHANGED relayed

Relay(ids) ==
    /\ \A id \in ids :
          /\ relayed[id] = 0
          /\ \E b \in FinalOn(tip) : id \in LogsIn[b]
    /\ relayed' = [id \in MessageId |-> IF id \in ids THEN 1 ELSE relayed[id]]
    /\ UNCHANGED tip

Next == ChainMoves \/ \E ids \in SUBSET MessageId : Relay(ids)

Spec == Init /\ [][Next]_vars
==============================================================================
