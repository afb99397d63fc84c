---------------------------- MODULE ReorgDetector ----------------------------
(***************************************************************************)
(* libs/indexer/src/reorg-detector.ts: the bounded history of the headers  *)
(* a chain's indexer has processed, and the detection of re-orgs and       *)
(* continuity breaks as new headers arrive.  One instance serves one       *)
(* chain; a header of another chain is refused before anything changes.    *)
(*                                                                         *)
(* processBlock runs to completion on the event loop, so each of its paths *)
(* is one action.  The event a call emits is left in "event" for the       *)
(* listeners, which Node's EventEmitter calls before processBlock returns. *)
(***************************************************************************)
EXTENDS BlockTree, FiniteSets

CONSTANTS
    HistoryDepth,          \* capacity of the history buffer
    TolerateUnknownParent  \* the option of the same name

ASSUME DetectorAssumption ==
    /\ HistoryDepth \in Nat \ {0}
    /\ TolerateUnknownParent \in BOOLEAN

VARIABLES
    history,  \* BlockHistoryBuffer.byHeight: recorded height -> block
    order,    \* BlockHistoryBuffer.order: recorded heights, oldest insertion first
    event     \* what the last processBlock emitted or threw

vars == <<history, order, event>>

EventType == {"none", "redelivered", "block", "reorg", "refused", "tolerated"}

Event == [type: EventType, block: Block \cup {<<>>}, ancestor: Int,
          invalidated: SUBSET Block]

TypeOK ==
    /\ DOMAIN history \subseteq {Height(b) : b \in Block}
    /\ \A h \in DOMAIN history : history[h] \in Block
    /\ order \in Seq(DOMAIN history)
    /\ event \in Event
------------------------------------------------------------------------------
(* BlockHistoryBuffer.  byHash holds exactly the blocks of byHeight, since *)
(* set and the removals always update both, so it needs no variable.       *)

EmptyHistory == [h \in {} |-> <<>>]

Recorded == {history[h] : h \in DOMAIN history}

HighestHeight == IF order = <<>> THEN -1 ELSE order[Len(order)]

WithoutHeights(hist, hs) == [h \in DOMAIN hist \ hs |-> hist[h]]

\* Mutants: the buffer keeps one block too many; it evicts when it is full.
ExcessLate(n) == IF n > HistoryDepth + 1 THEN n - HistoryDepth - 1 ELSE 0
ExcessEarly(n) == IF n >= HistoryDepth THEN 1 ELSE 0

\* evictIfNeeded: how many of n queued heights are shifted out.
Excess(n) == IF n > HistoryDepth THEN n - HistoryDepth ELSE 0

\* set: push a new height, then evict the oldest insertions.
Put(hist, ord, b) ==
    LET pushed  == IF Height(b) \in DOMAIN hist THEN ord ELSE Append(ord, Height(b))
        excess  == Excess(Len(pushed))
        evicted == {pushed[i] : i \in 1..excess}
        stored  == [h \in DOMAIN hist \cup {Height(b)} |->
                       IF h = Height(b) THEN b ELSE hist[h]]
    IN  /\ order' = SubSeq(pushed, excess + 1, Len(pushed))
        /\ history' = WithoutHeights(stored, evicted)

\* Mutant: invalidates the fork's first height only.
HeightOnly(n) == {h \in DOMAIN history : h = n}

\* invalidateFrom: what is recorded at height n or above goes.
HeightsFrom(n) == {h \in DOMAIN history : h >= n}

\* order.filter: what is queued at these positions, in the same order.
QueuedAt(positions) ==
    [k \in 1..Cardinality(positions) |->
        order[CHOOSE i \in positions : Cardinality({j \in positions : j <= i}) = k]]

\* Mutant: the filter keeps the first invalidated height.
OrderUpTo(n) == QueuedAt({i \in 1..Len(order) : order[i] <= n})

OrderBelow(n) == QueuedAt({i \in 1..Len(order) : order[i] < n})
------------------------------------------------------------------------------
(* processBlock *)

Emit(type, b, ancestor, invalidated) ==
    event' = [type |-> type, block |-> b, ancestor |-> ancestor, invalidated |-> invalidated]

ParentRecorded(b) == Height(b) - 1 \in DOMAIN history

ParentMatches(b) == ParentRecorded(b) /\ history[Height(b) - 1] = Parent(b)

\* Mutant: takes the parent's height for the common ancestor in every case.
AncestorIsParentHeight(b) == Height(b) - 1

\* The height at which handleReorg's walk stops.  The walk starts at the
\* parent's height; when the block recorded there is another one it moves one
\* height down and takes the hash to look for from its own record there, so
\* the next comparison finds what it has just read, or nothing.
CommonAncestorHeight(b) ==
    IF ParentRecorded(b) /\ ~ParentMatches(b) THEN Height(b) - 2 ELSE Height(b) - 1

RollbackFrom(b) == CommonAncestorHeight(b) + 1

\* The second invalidateFrom of handleReorg never runs: the first one starts
\* at or below the triggering height.
HandleReorg(b) ==
    LET heights == HeightsFrom(RollbackFrom(b))
    IN  /\ Put(WithoutHeights(history, heights), OrderBelow(RollbackFrom(b)), b)
        /\ Emit("reorg", b, CommonAncestorHeight(b), {history[h] : h \in heights})

\* Mutant: overwrites the block at this height as if nothing had happened.
OverwriteMutation(b) ==
    /\ Height(b) \in DOMAIN history
    /\ history[Height(b)] # b
    /\ Put(history, order, b)
    /\ Emit("block", b, -1, {})

\* Case 1: another block is recorded at this height.
HashMutation(b) ==
    /\ Height(b) \in DOMAIN history
    /\ history[Height(b)] # b
    /\ HandleReorg(b)

\* Case 2: this block is recorded already.
Redelivery(b) ==
    /\ Height(b) \in DOMAIN history
    /\ history[Height(b)] = b
    /\ Emit("redelivered", b, -1, {})
    /\ UNCHANGED <<history, order>>

\* Case 3: the block recorded at the parent's height is not its parent.
ParentMismatch(b) ==
    /\ Height(b) \notin DOMAIN history
    /\ ParentRecorded(b)
    /\ ~ParentMatches(b)
    /\ HandleReorg(b)

\* Case 3: the parent is recorded, or nothing is.
Extension(b) ==
    /\ Height(b) \notin DOMAIN history
    /\ ParentMatches(b) \/ DOMAIN history = {} \/ (~ParentRecorded(b) /\ Parent(b) \in Recorded)
    /\ Put(history, order, b)
    /\ Emit("block", b, -1, {})

\* Case 3: history holds neither the parent nor another block at its height.
\* The strict detector throws; the tolerant one records the block and goes on.
ContinuityBreak(b) ==
    /\ Height(b) \notin DOMAIN history
    /\ DOMAIN history # {}
    /\ ~ParentRecorded(b)
    /\ Parent(b) \notin Recorded
    /\ IF TolerateUnknownParent
       THEN Put(history, order, b) /\ Emit("tolerated", b, -1, {})
       ELSE UNCHANGED <<history, order>> /\ Emit("refused", b, -1, {})

ProcessBlock(b) ==
    \/ HashMutation(b)
    \/ Redelivery(b)
    \/ ParentMismatch(b)
    \/ Extension(b)
    \/ ContinuityBreak(b)

Init ==
    /\ history = EmptyHistory
    /\ order = <<>>
    /\ event = [type |-> "none", block |-> <<>>, ancestor |-> -1, invalidated |-> {}]

Next == \E b \in Block : ProcessBlock(b)

Spec == Init /\ [][Next]_vars
------------------------------------------------------------------------------
(* Properties *)

\* Whatever is fed, in whatever order, the two maps and the eviction queue of
\* the buffer agree: each recorded height is queued exactly once, holds a
\* block of that height, and the capacity holds (BlockHistoryBuffer).
BufferConsistent ==
    /\ {order[i] : i \in 1..Len(order)} = DOMAIN history
    /\ \A i, j \in 1..Len(order) : order[i] = order[j] => i = j
    /\ \A h \in DOMAIN history : Height(history[h]) = h
    /\ Len(order) <= HistoryDepth

\* The loop of handleReorg (reorg-detector.ts:271-290), one iteration per
\* call: looking for a hash at a height, the height at which it stops.
Search == [height: Int, hash: Block \cup {<<>>}]

Found(s) == s.height < 0 \/ s.height \notin DOMAIN history \/ history[s.height] = s.hash

\* The next height down, and the hash on record there.
Lower(s) ==
    LET a == s.height - 1
    IN  [height |-> a, hash |-> IF a \in DOMAIN history THEN history[a] ELSE s.hash]

Walk[s \in Search] == IF Found(s) THEN s.height ELSE Walk[Lower(s)]

\* The loop never walks further than one block: CommonAncestorHeight is where
\* it stops, for every block that may come next.
WalkStopsAtOnce ==
    \A b \in Block :
        Walk[[height |-> Height(b) - 1, hash |-> Parent(b)]] = CommonAncestorHeight(b)

\* A block leaves the history only by being named in the event of that call
\* or by being the oldest insertion of a full buffer: nothing that was indexed
\* is dropped without a word to the listeners, and no event names a block that
\* was not recorded.
RemovalsAreReported ==
    [][ LET gone == Recorded \ Recorded'
        IN  /\ event'.invalidated \subseteq gone
            /\ \A b \in gone \ event'.invalidated :
                   Len(order) = HistoryDepth /\ Height(b) = order[1] ]_vars

\* A break that is tolerated is treated as a re-org of the whole buffer
\* (the option's documentation, reorg-detector.ts:64-68).
ToleratedBreakClearsHistory ==
    event.type = "tolerated" => Recorded = {event.block}
==============================================================================
