---------------------------- MODULE MessageQueue ----------------------------
(***************************************************************************)
(* apps/relayer-service/src/queue/message-queue.ts: the relayer's queue of *)
(* messages, between the callers of enqueue and the executors that take a  *)
(* message with dequeue and report its outcome with complete.              *)
(*                                                                         *)
(* Every method runs without yielding (complete is async but never waits), *)
(* so each is one action.  A queue item is an object that several maps may *)
(* hold at once and that is changed in place, so items have an identity:   *)
(* <<id, n>> is the item of the n-th enqueue of id.  A message's status    *)
(* and lastError are written and never read; they are left out.            *)
(*                                                                         *)
(* Time: nextRetryAt is kept as the time still to wait, which Tick counts  *)
(* down, and queuedAt as its rank; two calls may fall into one millisecond.*)
(***************************************************************************)
EXTENDS Integers, Sequences, FiniteSets

CONSTANTS
    Id,            \* message ids
    MaxRetries,    \* config.maxRetries
    RetryDelay,    \* config.retryDelayMs, in ticks
    Concurrency,   \* config.concurrency
    MaxEnqueues,   \* bound: id -> how often it is offered
    MaxRequeues    \* bound: how often one failed id is retried by hand

ASSUME QueueAssumption ==
    /\ MaxRetries \in Nat \ {0} /\ RetryDelay \in Nat
    /\ Concurrency \in Nat \ {0}
    /\ MaxEnqueues \in [Id -> Nat] /\ MaxRequeues \in Nat

VARIABLES
    items,       \* the heap: item -> [queuedAt, wait, attempts]
    queue,       \* Map queue: its items in insertion order
    processing,  \* Set processing: ids
    failed,      \* Map failed: id -> item
    completed,   \* Map completed: id -> success of the last result
    stamp,       \* the latest queuedAt
    \* The callers
    accepted,    \* id -> how often enqueue took it
    requeued,    \* id -> how often retryFailed or retryAllFailed took it
    succeeded,   \* id -> how often complete reported its success
    inFlight     \* id -> executors that hold it and have not reported yet

vars == <<items, queue, processing, failed, completed, stamp,
          accepted, requeued, succeeded, inFlight>>

Attributes == [queuedAt: Nat, wait: Nat, attempts: Nat]

TypeOK ==
    /\ \A x \in DOMAIN items : x[1] \in Id /\ x[2] \in 1..MaxEnqueues[x[1]]
    /\ \A x \in DOMAIN items : items[x] \in Attributes
    /\ queue \in Seq(DOMAIN items)
    /\ processing \subseteq Id
    /\ DOMAIN failed \subseteq Id
    /\ \A id \in DOMAIN failed : failed[id] \in DOMAIN items
    /\ DOMAIN completed \subseteq Id
    /\ \A id \in DOMAIN completed : completed[id] \in BOOLEAN
    /\ stamp \in Nat
    /\ accepted \in [Id -> Nat]
    /\ requeued \in [Id -> Nat]
    /\ succeeded \in [Id -> Nat]
    /\ inFlight \in [Id -> Nat]
------------------------------------------------------------------------------
Empty == [x \in {} |-> 0]

Queued == {queue[i][1] : i \in 1..Len(queue)}

\* Map.set: a key that is present keeps its place, a new one goes last.
Store(q, x) ==
    IF \E i \in 1..Len(q) : q[i][1] = x[1]
    THEN [i \in 1..Len(q) |-> IF q[i][1] = x[1] THEN x ELSE q[i]]
    ELSE Append(q, x)

With(f, k, v) == [x \in DOMAIN f \cup {k} |-> IF x = k THEN v ELSE f[x]]

\* Mutant: the entry stays.
StillWith(f, k) == f

Without(f, k) == [x \in DOMAIN f \ {k} |-> f[x]]

\* enqueue: an id is a duplicate only while it is in the queue.  At queuedAt
\* the item may share its millisecond with the enqueue before.
EnqueueDuplicate(id) ==
    /\ id \in Queued
    /\ UNCHANGED vars

EnqueueNew(id) ==
    LET item == <<id, accepted[id] + 1>>
    IN  /\ accepted[id] < MaxEnqueues[id]
        /\ id \notin Queued
        /\ stamp' \in {stamp, stamp + 1}
        /\ items' = With(items, item, [queuedAt |-> stamp', wait |-> 0, attempts |-> 0])
        /\ queue' = Store(queue, item)
        /\ accepted' = [accepted EXCEPT ![id] = @ + 1]
        /\ UNCHANGED <<processing, failed, completed, requeued, succeeded, inFlight>>

\* dequeue's scan: the first of the items with the smallest queuedAt among
\* those whose nextRetryAt has come.
Due(i) == items[queue[i]].wait = 0

Oldest(i) ==
    /\ Due(i)
    /\ \A j \in 1..Len(queue) : Due(j) =>
          \/ items[queue[i]].queuedAt < items[queue[j]].queuedAt
          \/ items[queue[i]].queuedAt = items[queue[j]].queuedAt /\ i <= j

\* Mutant: dequeue leaves the item in the queue.
QueueWith(i) == queue

QueueWithout(i) == SubSeq(queue, 1, i - 1) \o SubSeq(queue, i + 1, Len(queue))

Dequeue ==
    /\ Cardinality(processing) < Concurrency
    /\ \E i \in 1..Len(queue) :
          LET id == queue[i][1]
          IN  /\ Oldest(i)
              /\ queue' = QueueWithout(i)
              /\ processing' = processing \cup {id}
              /\ inFlight' = [inFlight EXCEPT ![id] = @ + 1]
    /\ UNCHANGED <<items, failed, completed, stamp, accepted, requeued, succeeded>>

\* Mutant: gives the slot back only after a success.
SlotsAfterSuccess(id, success) == IF success THEN processing \ {id} ELSE processing

SlotsAfter(id, success) == processing \ {id}

\* Every outcome ends the processing and is recorded as completed.
Report(id, success) ==
    /\ inFlight[id] > 0
    /\ inFlight' = [inFlight EXCEPT ![id] = @ - 1]
    /\ processing' = SlotsAfter(id, success)
    /\ completed' = With(completed, id, success)
    /\ succeeded' = IF success THEN [succeeded EXCEPT ![id] = @ + 1] ELSE succeeded
    /\ UNCHANGED <<stamp, accepted, requeued>>

CompleteSuccess(id) ==
    /\ Report(id, TRUE)
    /\ UNCHANGED <<items, queue, failed>>

\* getMessage: the item that the queue, else the failed map, holds under id.
Holds(id) == id \in Queued \cup DOMAIN failed

ItemOf(id) ==
    IF id \in Queued THEN queue[CHOOSE i \in 1..Len(queue) : queue[i][1] = id] ELSE failed[id]

\* A failure finds no item: dequeue took it out of the queue.
CompleteFailureUnknown(id) ==
    /\ Report(id, FALSE)
    /\ ~Holds(id)
    /\ UNCHANGED <<items, queue, failed>>

\* Mutant: counts the first retry as attempt zero.
BackoffFromZero(attempts) == RetryDelay * (attempts - 2)

Backoff(attempts) == RetryDelay * 2^(attempts - 1)

\* A failure finds an item of the same id and charges the attempt to it.
CompleteFailureKnown(id) ==
    LET item     == ItemOf(id)
        attempts == items[item].attempts + 1
    IN  /\ Report(id, FALSE)
        /\ Holds(id)
        /\ IF attempts < MaxRetries
           THEN /\ items' = [items EXCEPT ![item].attempts = attempts,
                                          ![item].wait = Backoff(attempts)]
                /\ queue' = Store(queue, item)
                /\ UNCHANGED failed
           ELSE /\ items' = [items EXCEPT ![item].attempts = attempts]
                /\ failed' = With(failed, id, item)
                /\ UNCHANGED queue

Reset(xs) ==
    items' = [x \in DOMAIN items |->
                 IF x \in xs THEN [items[x] EXCEPT !.attempts = 0, !.wait = 0] ELSE items[x]]

RetryFailed(id) ==
    /\ id \in DOMAIN failed
    /\ requeued[id] < MaxRequeues
    /\ Reset({failed[id]})
    /\ queue' = Store(queue, failed[id])
    /\ failed' = Without(failed, id)
    /\ requeued' = [requeued EXCEPT ![id] = @ + 1]
    /\ UNCHANGED <<processing, completed, stamp, accepted, succeeded, inFlight>>

Orderings(S) ==
    {s \in [1..Cardinality(S) -> S] : \A i, j \in DOMAIN s : s[i] = s[j] => i = j}

\* The failed items follow the queued ones in the order in which they failed,
\* which is left open here.
RetryAllFailed ==
    /\ DOMAIN failed # {}
    /\ \A id \in DOMAIN failed : requeued[id] < MaxRequeues
    /\ Reset({failed[id] : id \in DOMAIN failed})
    /\ \E ids \in Orderings(DOMAIN failed \ Queued) :
          queue' = [i \in 1..Len(queue) |->
                       IF queue[i][1] \in DOMAIN failed THEN failed[queue[i][1]] ELSE queue[i]]
                   \o [k \in 1..Len(ids) |-> failed[ids[k]]]
    /\ failed' = Empty
    /\ requeued' = [id \in Id |-> IF id \in DOMAIN failed THEN requeued[id] + 1 ELSE requeued[id]]
    /\ UNCHANGED <<processing, completed, stamp, accepted, succeeded, inFlight>>

\* The executors that hold a message know nothing of it.
Clear ==
    /\ queue' = <<>>
    /\ processing' = {}
    /\ failed' = Empty
    /\ completed' = Empty
    /\ UNCHANGED <<items, stamp, accepted, requeued, succeeded, inFlight>>

\* Date.now() moves on.
Tick ==
    /\ \E x \in DOMAIN items : items[x].wait > 0
    /\ items' = [x \in DOMAIN items |->
                    [items[x] EXCEPT !.wait = IF @ > 0 THEN @ - 1 ELSE 0]]
    /\ UNCHANGED <<queue, processing, failed, completed, stamp,
                   accepted, requeued, succeeded, inFlight>>

Init ==
    /\ items = Empty
    /\ queue = <<>>
    /\ processing = {}
    /\ failed = Empty
    /\ completed = Empty
    /\ stamp = 0
    /\ accepted = [id \in Id |-> 0]
    /\ requeued = [id \in Id |-> 0]
    /\ succeeded = [id \in Id |-> 0]
    /\ inFlight = [id \in Id |-> 0]

Complete(id) == CompleteSuccess(id) \/ CompleteFailureUnknown(id) \/ CompleteFailureKnown(id)

Next ==
    \/ \E id \in Id : EnqueueDuplicate(id) \/ EnqueueNew(id)
    \/ Dequeue
    \/ \E id \in Id : Complete(id)
    \/ \E id \in Id : RetryFailed(id)
    \/ RetryAllFailed
    \/ Clear
    \/ Tick

\* The relayer polls the queue, every executor reports, and time passes.
Fairness == WF_vars(Dequeue) /\ WF_vars(Tick) /\ \A id \in Id : WF_vars(Complete(id))

Spec == Init /\ [][Next]_vars /\ Fairness
------------------------------------------------------------------------------
(* Properties *)

\* Where the queue keeps a message: at most once in queue and in failed each.
Kept(id) ==
    (IF id \in Queued THEN 1 ELSE 0) + (IF id \in DOMAIN failed THEN 1 ELSE 0)

\* A message that enqueue took n times is at no time executed, waiting for an
\* execution, failed and done more than n times in all: ids offered again
\* while they execute, failures charged to a newer item of the same id, items
\* that are queued and failed at once, and retries never multiply the work.
WorkNeverMultiplies ==
    \A id \in Id : succeeded[id] + inFlight[id] + Kept(id) <= accepted[id]

\* A slot of the concurrency limit is held only while an executor of that
\* message is at work, so the slots can never all be lost.
SlotsAreInUse == \A id \in processing : inFlight[id] > 0

\* The failed map holds exhausted items only: none that still has a retry.
FailedAreExhausted == \A id \in DOMAIN failed : items[failed[id]].attempts >= MaxRetries

\* Whatever is queued leaves the queue: backoff, ties and retries starve none.
QueuedMessagesLeave == \A id \in Id : id \in Queued ~> id \notin Queued

\* A message whose execution failed is kept for a retry, or as failed
\* (queue/__tests__/message-queue.spec.ts:86-101 and 103-129).
FailedMessageIsKept ==
    [][ \A id \in DOMAIN completed' :
            inFlight'[id] < inFlight[id] /\ ~completed'[id] =>
                id \in Queued' \cup DOMAIN failed' ]_vars
==============================================================================
