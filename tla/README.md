# BridgeWise: specifications of its indexer, relayer, monitors and contracts

BridgeWise aggregates bridges between EVM chains and Stellar/Soroban. The
repository is a monorepo of TypeScript services and libraries, Solidity and
Soroban contracts, and front ends. This directory holds TLA+ specifications of
the parts that keep state: the source-chain indexer, the relayer, client-side
coordination and the smaller contracts. All are model-checked with TLC. The safety
properties of every one of them, and that the indexer implements its abstract
specification, are also proved with TLAPS, for every value of the constants.
Paths below are relative to the repository.

## Inventory

| Part | Code | State | Hard behaviour | What makes it correct |
|---|---|---|---|---|
| Re-org detector | `libs/indexer/src/reorg-detector.ts` | bounded map height -> block, insertion order | blocks out of order, forks, gaps, eviction | the history is one chain; everything dropped is reported |
| Finality tracker | `libs/indexer/src/finality-tracker.ts` | quarantine, index by chain and height, heads, configuration | late logs, re-orgs under a stale head, several chains | released once, only when final; never stuck |
| Indexer | the two, wired by their events | the feed between chain and detector | re-orgs while earlier blocks are still queued | implements "relayed at most once and only when final" |
| Subscription reconnector | `libs/indexer/src/websocket-reconnector.ts` | socket, attempt, timer | stop/start races, drops, backfill | one socket; no block is missed |
| Relayer message queue | `apps/relayer-service/src/queue/message-queue.ts` | queue, processing, failed, completed, all sharing item objects | ids offered again while being executed, retries, exhaustion | no message is lost or multiplied; no slot leaks |
| Executors | `apps/relayer-service/src/executors/*.ts` | nonce, gas price, bump count, shared by executions | concurrent sends over one nonce, repricing after a timeout | a message is sent twice only after a timeout; no gap in the nonces |
| Optimistic disputes | `contracts/optimistic/OptimisticDisputeEngine.sol`, `packages/analyzers/src/optimistic/challenge-monitor.ts` | proposals and collateral; watched assertions | the window's two ends, roots that arrive late, ids never proposed | one proposal's collateral is paid out once; no fraud known in time is finalised unannounced |
| Validators | `contracts/validator/ValidatorSetManager.sol`, `contracts/slashing/ValidatorSlasher.sol` | active and pending set; stakes and the active list | replaced proposals, unstaking below a minimum that moves, renewed registration | the set in force has waited its own delay; stakes are backed |
| Liquidity | `contracts/liquidity/LiquidityRebalancer.sol`, `contracts/vault/PackedLiquidityManager.sol`, `apps/contracts/liquidity/RebalancingVault.sol` | packed reserves, shares | fixed widths, sentinel values, roundings | nothing is created; shares are covered |
| Execution and refunds | `contracts/execution/*.sol`, `contracts/relayer/GasRefundVault.sol` | escrowed failures, claimable amounts, refunds | repeated executions of one message | escrowed tokens belong to one message |
| Replay protection | `contracts/bridge/NonceBitmap.sol`, `contracts/bridge/PackedNonceRegistry.sol` | bitmaps, packed nonces | word boundaries | a nonce is used once |
| Fallback and locks | `packages/utils/src/fallback-executor.ts`, `libs/ui-components/src/transaction-lock-manager.ts` | active executions, failed routes; locks with expiry | timeouts racing answers; expiry found out by seven paths | one execution of a route at a time; the two maps agree |
| Stellar services | `src/providers`, `src/transfers`, and about ninety more directories under `src/` | breakers, transfer states | late outcomes | a breaker's state is earned in its own period |
| Gateway, pricing, verifiers, user interfaces | `contracts/bridge/BridgeGateway.sol`, route search, light clients, `apps/*` | | | see "Not modelled" |

The parts meet as follows. Source-chain blocks reach the indexer through the
reconnector; the detector's `block` and `reorg` events drive the tracker; the
messages it releases are what a relayer queues; executors take them from the
queue and report back. Only the first of these connections (detector to
tracker) is wired in the repository, in `reorg-detector.spec.ts:31-36`; the
queue is not called by any other file. The monitor watches the proposals of the
dispute engine; the message receiver owns its escrow. The other parts share
neither state nor calls.

## Modules

| Module | Models |
|---|---|
| `BlockTree` | block headers with all forks; a block is the path that leads to it, so equal paths are equal hashes |
| `ReorgDetector` | `processBlock`, one action per path, and `BlockHistoryBuffer` |
| `DetectorProofs` | theorems about `ReorgDetector` |
| `FinalityTracker` | `setChainConfig`, `quarantineMessage`, `advanceHead`, `handleReorg` |
| `FinalityTrackerProofs` | theorems about `FinalityTracker` |
| `Indexer` | an instance of each, composed with a chain and a subscription |
| `FinalRelay` | the abstract promise that `Indexer` implements |
| `IndexerProofs` | theorems about `Indexer`, among them that it does |
| `WebSocketReconnector` | `start`, `stop`, `establishConnection`, `handleOpen`, drops, the timer, the backfill |
| `ReconnectorProofs` | theorems about `WebSocketReconnector` |
| `IndexerOutage` | `Indexer` with a connection that drops and is backfilled |
| `MessageQueue` | every method of the queue, its callers and its executors |
| `MessageQueueProofs` | theorems about `MessageQueue` |
| `OptimisticDispute` | the dispute engine: proposing, disputing, finalising, and the token's refusals |
| `DisputeMonitor` | the challenge monitor on the engine's clock |
| `ValidatorSlasher` | registration, deposits, withdrawals, slashing, the minimum |
| `ValidatorSetManager` | proposing and activating a set of validators |
| `TransactionLocks` | acquiring, releasing, and every path that finds a lock expired |
| `FallbackExecutor` | concurrent calls of `executeWithFallback`, `reset`, `updateConfig` |
| `CircuitBreaker` | the breakers of a registry |
| `EvmExecutor` | concurrent executions of messages, `updateNonce`, and the node's account |
| `ClientProofs` | theorems about `TransactionLocks`, `FallbackExecutor`, `CircuitBreaker`, `EvmExecutor` |
| `LiquidityRebalancer` | configuration, reports of reserves, single and batched moves |
| `MessageEscrow` | the receiver and the escrow it owns |
| `PackedPool` | a pool of the packed liquidity manager |
| `ContractProofs` | theorems about `ValidatorSlasher`, `ValidatorSetManager`, the three contracts above, and the dispute engine with its monitor |
| `MCParts` | the ten components above, one per behaviour |
| `PartsProofs` | theorems about `MCParts` |
| `MC*` | instances for TLC |

**Atomicity.** Detector, tracker and queue are synchronous code on Node's event loop
(`MessageQueue.complete` is `async` but awaits nothing), so an operation is one
action, including the events it emits. `Indexer` runs the detector's listeners
in the action of `processBlock`, where `EventEmitter` runs them. A call that
throws before it changes anything is not an action, except the strict
detector's continuity break, which is kept because `NeverRefused` is about it.
In the contracts a transaction is one action, whose guard is the negation of
what makes it revert. In the asynchronous classes (reconnector, monitor,
fallback executor, EVM executor) an action is what runs between two awaits, in the
fallback executor also what runs up to a status callback or after it.

**ReorgDetector.** `history` and `order` are `byHeight` and `order`; `byHash`
always holds the same blocks and is the set `Recorded`. `handleReorg`'s walk
never goes further than one block, because its second comparison is of a record
with itself; `CommonAncestorHeight` says where it stops and `WalkStopsAtOnce`
compares that with the loop, which is the recursive function `Search`. Blocks are closed
under taking the parent (`BlockAssumption`): a header names a block that exists.

**FinalityTracker.** `quarantine`, `heads` and `required` are the maps; `index`
is `byChainAndBlock` as a set of triples. Chain, height and id decide
everything; payloads and timestamps do not appear. `advanceHead`'s loop over
the index is one set comprehension: each message is counted and released on its
own. `quarantineMessage` of a message that is final at once puts it in and takes
it out again, which the action does in one step. Listeners that call back into the tracker
are not modelled; one for `rolledBack` that quarantines a message at the very height that is being
rolled back would lose its index entry (line 236).

**Indexer.** The code that feeds the detector is not in the repository; the
environment is what the detector's comments ask for. `MoveTip` lets the
canonical tip move to a higher block whose fork point is at most
`MaxReorgDepth` below; the blocks above the fork point join `feed`. `IndexBlock`
takes the first of them; `ObserveLog` quarantines its messages one by one before
the next block. The chain may move any number of times before the indexer
catches up. `PollHead` is the "head-tracking loop" of finality-tracker.ts:14-15: it calls
`advanceHead` with a height the chain has reached, at any time, at most `HeadLead` above the
highest block indexed (`highest`). That bound is a condition on the caller, which the code
neither states nor checks: a head further ahead counts as confirmations blocks that the
detector has not seen, and a message can be released before the re-org that removes it
(the mutant `AnyHead`). Assumptions on constants: `MaxReorgDepth` and `HeadLead`
together are below `RequiredConfirmations`, and `MaxReorgDepth` is at most `HistoryDepth`
("must exceed your deepest expected re-org").

**IndexerOutage.** A drop loses the feed; the reconnection fetches from the
block after the last processed one to the tip, the range that
`backfillMissedRange` computes; what leads to the drop and to the reconnection is the business of the
next module.

**WebSocketReconnector.** An action is one turn of the event loop: a call of
`start` or `stop`, the settling of an awaited `connect()`, an event of a socket, a
timer, or the answer to a backfill's two reads, which may be a failure. Every connection has a `phase` of
its own, because several can exist when `start` and `stop` race; `socket` is
`this.socket`, and `handleDrop` clears it whichever connection dropped. Delays are
left out: a timer may fire at any time. `held` says whether `reconnectTimer`
refers to a pending timer; an earlier one still pending is among the `orphans`.
The last variables are the chain and a listener that processes blocks in order.
Two constants describe the environment: with `PatientRestart` the caller starts
again only when nothing the last `stop` left behind is still to come, with
`LateReads` `getLastProcessedBlock` answers with the value at the time of its
answer.

**MessageQueue.** Items are objects that `queue` and `failed` may both hold, so
they have an identity (`<<id, n>>`) and a heap. `accepted`, `requeued`,
`succeeded` and `inFlight` belong to the callers. Time is what is left to wait.
`message.status`, `lastError` and the emitted events are not read by the queue
and are left out. Listeners that call back into the queue are not modelled.

**OptimisticDispute.** Of a state root only whether it is the canonical one is
kept, which the contract cannot see. A Solidity mapping answers for every id, so
every action is tried with ids that were never proposed: their record is blank and
their deadline long past (`Genesis > ChallengePeriod`, as on any chain in use).
What keeps them from taking collateral is the token, which refuses
`address(0)` as receiver.

**DisputeMonitor.** `trackAssertion` awaits the canonical root (`resolving`) and
reads the clock after it; several calls for one assertion may wait, and the last
answer watches it anew. `checkPendingAssertions` has to be called "on a
schedule"; `PollEvery` is the longest interval, and the assumption ties it to the
alert zone: a poll must fall into it. The caller untracks what has been disputed.
`WatchSpec` runs the engine under it, so the clock and the deadline are the
engine's; the monitor's window ends at the deadline, the engine's one second after it,
which errs on the safe side.

**ValidatorSlasher.** `held` is the contract's balance, `unowned` what it holds in
nobody's stake: slashed remainders, and what a validator had left when
it registers again (the new record overwrites it). `activeValidators` is
the list itself, removal moving its last entry.

**ValidatorSetManager.** Every action of the proposer, with lists that repeat
members or have a bad quorum. `latest` remembers the newest proposal for the property.

**TransactionLocks.** A lock is the time it has left. Expiry changes nothing until a
call finds it, so acquiring, asking, submitting and the sweep each have an action that
edits both maps as that method does.

**FallbackExecutor.** Calls share `activeExecutions` and `failedRoutes`; each has its
place in its ranking. A timed-out route stays in `running` until its promise settles.
`onStatusChange` is called between the check for an active execution (line 217) and its
mark (235), and again after a success (245). It may call any method of the executor, so
these two calls end an action: the call is `announcing` or `completing` until the
callback returns or throws. `callbacks` is the stack of the callbacks that run. While
there is one, no timer fires and no promise settles (`Quiet`). After the other two calls of
it (266, 283) the executor only waits or throws, so what such a callback does is the same
done a moment later. The timeout is read again by a call under way, so `UpdateConfig`
is an action, from any value to any other. A timer fires at most `Lag` after its time,
and the assumption is that this is no more than its time: a record is forgotten after
twice the timeout (330), hence not before the timer of its call, if the timeout is the same.
`disturbances` counts what may let an execution begin beside another one: calls of
`reset`, updates to a lower timeout, and calls of `executeWithFallback` that are made while a
route is announced.

**CircuitBreaker.** `breakers` are the counters of the code. `period` restates,
independently of them, what has been reported since the state last changed. The clock is
what is left of the cooldown. A failure that trips an open breaker once more starts the
code's cooldown again; `waited` goes on from the first trip, from which the property counts.

**EvmExecutor.** `nonce`, `currentGasPrice` and `bumpCount` are shared by the
executions and read when a request is posted. The node keeps one transaction per nonce,
replaces one that is not mined for a price `PoolBump` percent higher, and handles
a request also after the client has stopped waiting (`late`). Waiting for a
receipt is one phase with a timeout at any time.

**LiquidityRebalancer.** The packed word is unpacked; its widths remain. The
assembly returns a pair of sentinel values for an overflow and skips the second write
when the credited reserve is the largest there is: both are modelled
(`Overflows`, `Credited`). A batch has up to `MaxBatch` steps, each of which meets what
the one before it has left (`AfterSteps`).

**MessageEscrow.** The receiver keeps no state of its own. The target's call may fail
at any time, also for a message that has been escrowed or claimed before. A token only moves
balances: one that calls its receiver back could enter `escrowTokens` between its transfer (line 73)
and its record (75).

**PackedPool.** Reserves, fee and shares with their widths. `wiped` records what a
renewed `initializePool`, which anyone may call, sets to zero.

## Runs

| Run | Shows | Instance |
|---|---|---|
| `finality_tracker` | any order of the tracker's operations | two chains, one without configuration at first; three ids, one of them in two blocks of its chain, one on both chains; heads and re-orgs at heights 1..3; depths 1..3 |
| `reorg_detector` | any order of any blocks, redelivered at will, tolerant mode | every block of a binary tree up to height 3 and two of height 4; capacity 3, so that eviction, gaps and both re-org paths meet |
| `indexer` | refinement of `FinalRelay`, liveness | seven branches with forks up to two deep, ids that reappear at other heights; capacity 2 = `MaxReorgDepth`, heads polled one block ahead, four confirmations, the tightest values the assumption allows |
| `reconnector` | always exactly one way up; `stop` is final; backfills leave no gap unless one fails with an error; it reconnects or says that it gave up | three connections, two attempts, chain up to height 3, two waiting backfills; patient restarts, early reads |
| `message_queue` | the queue's accounting and its liveness | one id offered three times, one once; two slots, two attempts, one manual retry each |
| `parts` | the ten components without common state: collateral and alerts, stakes and the active list, rotation, locks, routes, breakers, nonces, reserves, escrow, shares | below |
| `tolerated_break` | a continuity break that is tolerated is no re-org | as `reorg_detector` |
| `indexer_outage` | a re-org after an outage is reported one block short | one fork, two deep |
| `queue_retry` | a failed message is lost | as `message_queue` |
| `restart_race` | two live connections | as `reconnector`, with a `start` at any time after `stop` |
| `late_read` | a missed block is not named | as `reconnector`, with late reads |
| `claimed_is_claimable` | a claimed amount stays claimable | two messages of one recipient |

`parts` lets a behaviour choose one component and run that one alone. They do
not interact, so running them side by side would only multiply states that no property
tells apart; together they stay one question with one instance each:

| Component | Instance | Why it is enough |
|---|---|---|
| disputes, monitor | two proposals, one id never proposed, period 3, zone 2/3, polls 2 apart, two observations each | the tightest interval the assumption allows; one proposal's collateral could pay for another's |
| slasher | three validators, amounts 4 and 10, minima 5 and 10, 38 in all | a withdrawal can leave a validator above one minimum and below the other; three entries in a list whose middle is removed |
| validator set | two members, lists up to two, delay 2, five ticks | a proposal replaced during its delay, and a second rotation |
| locks | three ids, two users, limit two, lifetimes 1 and 2 | a user at the limit with an expired and a live lock |
| fallback | three calls, two routes, two attempts, timeouts 1 and 3, timers one tick late, one disturbance | a third call while one has timed out and another runs; 3 to 1 makes a record look stale under a call that waits; each of the three disturbances alone lets a second execution begin, and a third call may try for one more |
| breakers | two providers, thresholds 2, cooldown 2 | late outcomes in each state, interrupted streaks |
| executor | two messages, one bump, price 100 of at most 115 | a bump that is enough for a replacement, then one cut off by the limit |
| rebalancer | two chains (also from one to itself), reserves up to 3, batches of up to two | every reserve up to the width and its two sentinels; a step that meets what another has left |
| escrow | three messages, two recipients, two tokens | one message's tokens could pay for another's |
| pool | two accounts, reserves up to 3, shares up to 7, fees none, half and above the whole | odd shares, rounded fees, a wiped pool |

`indexer` and `parts` do not check deadlock: the block tree is finite, so an indexer
that has caught up has nothing left to do, and the components of `parts`
stop when their bounded clock, funds or ids are used up. `claimed_is_claimable`
ends when everything is claimed.

The bounds are enough for what the properties tell apart: two chains to mix up,
two blocks for one id, a re-org inside and above the depth of a pending
message, a second re-org before the first is indexed, a full buffer, a message
carried by blocks of several branches, an id executed twice at once, an item
queued and failed at once. A third connection is the one in the way when a second
replaces a first that has not closed yet; three blocks are one before, one during
and one after an outage; with two attempts there are a last one and one before it.
`MaxEnqueues`, `MaxRequeues`, `Connection`, `MaxHead` and `MaxReads` are bounds
that the code does not have; so are `MaxProposals`, `MaxObserved`, `MaxTime`,
`MaxFunds`, `MaxSize`, `MaxBatch`, `MaxClock`, `MaxDisturbances`, `MaxFailures`, `MaxTotal` and
`MaxPoolInits`.

The widths of packed fields (`MaxReserve`, `PoolLimit`, `ShareLimit`) are constants, so
that the proofs are about the real ones. Where a property adds up over accounts,
validators, chains, messages or routes, their set is finite but of any size: the
contracts and the executor only ever touch finitely many.

**Fairness.** `Indexer`: weak fairness of `IndexBlock` and of `ObserveLog`, the
indexer's own loop; nothing is asked of the chain, nor of the polling loop. `MessageQueue`: the relayer
keeps polling (`pollIntervalMs`), every executor reports, and the clock moves.
A queue that is cleared also counts as left. `WebSocketReconnector`: timers fire,
`connect()` settles, the reads of a backfill are answered, and a socket that was
asked for opens or closes, as an event loop and a transport with a timeout do;
nobody has to call `start` or `stop`, and no connection has to open. `parts` asks
for no fairness; that the monitor is polled in time is a bound on its clock
(`WatchTick`), since an alert after the window is worth nothing.

## What the violation runs show

1. `reorg-detector.ts:66-68` documents a tolerated break as a re-org of the
   whole buffer; lines 245-257 only record the block.
2. `reorg-detector.ts:18-20` promises the fork point; the walk (271-290) stops
   after one block. With a gapless feed that is enough (`HistoryIsOneChain`
   holds), because the first block of the new fork replaces the lowest stale
   one. After an outage the backfill starts above the last processed height, and
   a stale block stays recorded with its messages pending.
3. `message-queue.spec.ts:86-129` expects a failed message to be queued again;
   `dequeue` has removed it from the map in which `complete` looks it up
   (message-queue.ts:63, 78, 167-173), so it is lost. It is found only if the
   same id was enqueued again meanwhile, or had failed before.
4. `websocket-reconnector.ts:151` discards a connection when start and stop raced.
   The check (line 150) is of `stopped`, which a second `start` has reset: both
   connections stay, and `stop` can close only the one `this.socket` refers to.
5. `websocket-reconnector.ts:8-10` promises the range that was missed. The last
   processed height is read after `open`; if a block of the new subscription is
   processed before an asynchronous read answers, the range starts above the gap.
6. `FallbackEscrow.sol:26` documents `claimable` as the "total claimable amount per
   token" and line 107 returns it as "claimable balance". `escrowTokens` adds to it
   (line 81), `claimEscrowedTokens` (98-102) never takes off: what has been paid is
   still reported as claimable. No payment depends on it (`EscrowIsBacked` holds).

## Observations without a run

The models contain this behaviour; no document of the repository says otherwise
sharply enough for a run of its own.

- `ValidatorSetManager.isValidator` reads the active set only; `OVERLAP_WINDOW` is
  stored and never used.
- The monitor considers the window closed at the deadline; the engine accepts a
  dispute in that second.
- `TransactionLockManager.releaseLock` takes no owner: a holder whose lock has
  expired releases the lock of its successor.
- Lowering the timeout of a `FallbackRouteExecutor` from 45000 to 20000 (both are presets
  of the file, 455-480) more than 40 seconds into an execution makes its record look
  abandoned (line 330), and calling `executeWithFallback` from `onStatusChange` passes
  the check of line 217 before the mark of line 235: either starts a route that is still
  being executed a second time. `OneExecutionPerRoute` counts both, and `reset`.
- An execution that fails while its id has been queued anew charges the attempt to the newer item.
- A route that times out, or whose `completed` listener throws, counts as failed while
  its transfer goes on or has succeeded; the next route makes a second one.
- A validator that unstakes below the minimum and registers again loses the
  remainder: the new record overwrites it and the contract keeps it.
- A success of one execution resets `bumpCount` for all others; a replaced transaction
  is waited for until the timeout; a replacement leaves the nonce one ahead.
- A move whose destination reaches exactly 2^128 - 1 debits the source and credits
  nothing (LiquidityRebalancer.sol:345, 361). `TotalCoversReserves` is an
  inequality for that reason: an equality is violated there.
- `initializePool` may be called by anyone at any time and sets the reserves to zero.
- Anyone may claim an escrow, and half a share is lost when an odd number is removed.

## Proofs

`FinalityTrackerProofs` proves the type invariant and the four other properties
of the run `finality_tracker` for all messages, chains, heights and depths,
under `TrackerAssumption` (messages are records whose chain is a chain and whose
height is a natural number; depths set at run time are positive; head heights
are natural numbers).

The index and the quarantine agree (`IndexMatchesQuarantine`), but that is not
inductive: taking one message's slot out of the index could take the slot of
another one if two entries had messages with the same id. `IInv` adds
`KeyedById`, each entry is filed under its own message's id. From it,
`IndexedExactly` and `IndexedAll` say that a look-up by chain and heights finds
exactly the pending messages there, and `CountedFacts` what `advanceHead` does
to the entries. The invariant is proved action by action (`*IInv`), the action
properties from it: `Removals` covers `LeavesWithCause`, `NextOverdue` covers
`OverdueOnlyByConfig`. `OperationIsolated` covers `ChainsAreIsolated`: what a call for one
chain looks up in the index is found under that chain (`IndexedExactly`), so the depth, the head,
the entries and the slots of any other chain are the same after it.

`MessageQueueProofs` proves the three invariants of the queue for all ids, limits
and delays, under `QueueAssumption` (of which only
`MaxRetries \in Nat` is used). They are proved together, because they are not inductive one by
one. `WorkNeverMultiplies` needs that an id has one place in the queue, so that taking it
out leaves none there, and that a failure never puts into the queue what `failed` holds
already; this is `FailedAreExhausted`, which in turn depends on the identity of items: a failure
may be charged to the very object that `failed` holds, and that object stays exhausted. `IInv` adds that an
id has one item in the queue (`QueueInHeap`), that an item in `failed` is filed
under its own id, so that resetting it leaves the others alone (`FailedInHeap`),
and that the items of the heap are older than the next one (`HeapIsFresh`).
`StoreFacts`, `RemovalFacts` and `RetryAllFacts` say what `Map.set`, `Map.delete`
and `retryAllFailed` do to the queue. `QueueTypeCorrect` proves the types, with
the bounds of attempts and callers that the invariant does not need (`Typed`). It
states as a hypothesis that a power of two is a natural number, since the provers know
nothing of exponentiation, in which the backoff is computed.

`DetectorProofs` proves the four properties of the run `reorg_detector` for all trees of
blocks and all capacities, in both modes.
`DetectorInv` says that the order names every recorded height once and that a block is
recorded at its own height. Filtering the order is the hard part:
`RankFacts` numbers the positions that remain, and from it `QueuedAtFacts` derives that the
filtered order has the same members as the filtered history. `WalkStopsAtOnce` is about a
loop, and so about a recursive function; `WalkEquation` shows that the recursion has a solution
in closed form, because the hash that the loop takes from its own record is the one it
compares with next.

`IndexerProofs` proves, under `IndexerAssumption`, the four invariants of the run `indexer`
and `IndexerRefinesFinalRelay`, for all trees, forks, logs and depths. Nothing
of this is inductive by itself, since what the detector meets is decided by the
feed. `FeedInv` describes the feed: each block follows on an ancestor of the one
before it (`FeedLeadsToTip`); a re-org leaves the chain from the highest block so far, by at
most `MaxReorgDepth` (`ForksAreShallow`); so two blocks of the feed agree on everything
deeper (`DeepBlocksAgree`). `HistoryInv` says that the history is a segment of
the chain of the last indexed block that reaches down to `HistoryDepth` below the
highest one or to the start: therefore a fork's parent is always recorded, and the strict
detector never refuses (`ForkIsRecorded`). `RelayInv` accounts for each log
of that chain, which is waiting, about to be quarantined, or relayed, and for each
pending or relayed message, which is on that chain at the depth that goes with
it. The detector and the tracker enter through instances of `DetectorProofs` and
`FinalityTrackerProofs`: their theorems are used, not repeated. The refinement is proved step by
step: indexing a block relays what has become final on the chain
and takes nothing back (`NothingTakenBack`), and what is final there is final on the tip's chain
too, by `DeepBlocksAgree`. A polled head is one more source of heads (`HeadOnPath` treats it and
the detector's blocks alike): `HeadInv` bounds it by `highest` and `HeadLead`, and what it
has confirmed is therefore still below anything a re-org of the allowed depth takes off.

`ReconnectorProofs` proves the types, and with `PatientRestart` that exactly one way up exists,
that `stop` is final, that the status `connected` is true and, without
`LateReads`, that every missed block is named: for any number of connections, attempts and
backfills. The two hypotheses are the settings of the run `reconnector`; the runs
`restart_race` and `late_read` show that each one is needed. `LifeInv` says
which of four states a running client is in (`OneWay`), that no timer is ever
orphaned, and that nothing is closing while it runs. `FeedInv` says where the blocks are that
have not been reported: above everything processed, where the next backfill will find
them, or above what a waiting backfill has read (`Named`); while a connection is open, those
that are not named are on their way.
What remains without the patience is proved of every behaviour from `RaceInv`: a
running reconnector never comes to rest before it has given up and `this.socket` is never a
connection that is gone (`ReconnectorNeverStalls`); no connection that comes up after
`stop` is kept (`ReconnectorAddsNoneAfterStop`). A second connection, an orphaned timer
or a missed block are then possible.

`ContractProofs` is about contracts that owe a sum. It begins with sums over finite sets: what
one entry more, less or changed does to them (`SumSplit`, `TotalChange`, `TotalExtend`).
The community modules define a sum as a fold, which recurses through the
subsets of its domain; as induction takes an operator as parameter, `SumExists` takes a smallest
subset for which the claim fails instead (`SmallestSubset`). Then:
- `RotationIsTimelocked`, from `PendingIsLatest`: what is pending is the newest proposal with
  its own clock.
- `ActiveListIsExact` and `StakesAreBacked`, from each other: removal moves the last entry of
  the list, which keeps the rest only if no validator is listed twice (`RemoveFacts`).
- `TotalCoversReserves`: `MoveFacts` is about one move with its two sentinels, `BatchFacts`
  lifts it to batches of any length.
- `EscrowIsBacked`, for any number of messages and tokens: a claim pays one entry, and
  what the others are owed is the sum without it.
- `SharesAreCovered`, for all widths and fees: half of the shares, rounded down, comes out
  of each reserve (`HalfFacts`), and a swap leaves the sum of both at least as large
  (`FeeFacts`); what a renewed initialisation takes is in `wiped`.

Its last section proves, under `DisputeAssumption` and, for the monitor,
`MonitorAssumption`, that the engine's collateral is exactly that of the open
proposals (`Collateral`), that a watched engine is an engine (`WatchImplementsDispute`) and
that no fraud the monitor knew of in time is finalised unannounced (`NoSilentFraud`),
for all accounts, periods, alert fractions and intervals. `CollateralIsBacked` alone
is not inductive, because an id that was never proposed could be settled for it:
`BlankBeyond` says that those are blank, so that a dispute comes too late and
a finalisation would pay `address(0)`; the rest is counting
(`ProposeStateBacked`, `SettleBacked`). For the monitor, `StillWatched` says why a known
fraud is not lost: it has been announced, is disputed, or is tracked with a
deadline beyond the next poll. `ZoneIsLong` derives from the assumption that what a poll
leaves outside the zone will be polled again in time; `TickKeepsWatch` and
`EngineKeepsWatch` preserve it when time passes and when the engine moves.

`ClientProofs` is about the four components of one process that several calls share:
- `TransitionsAreEarned` and the breakers' types, from `Good`: the counters of a breaker count
  nothing from before its period, a closed breaker has no successes, and an open one's
  cooldown and what has been waited add up.
- `OwnersMatchLocks`: `Match` relates the two maps also half way through a method, where
  one has been edited and the other not yet; it is inductive because a user whose
  last lock goes leaves the map.
- `OneExecutionPerRoute`, for any timeouts, any updates of them and any nesting of callbacks,
  from `FallbackInv`. A route is `Guarded` if it has failed, is being announced, or has
  a record that is as old as the wait of the call that made it (`Covered`); such a record does not
  look abandoned, since that call's timer comes first (`CoveredIsActive`). Where
  nothing guards a route there is `Room`: no more executions than disturbances. What is
  announced has passed the check, so it found room; a call made from the callback, a
  reset and a lower timeout may remove a guard, and count as a disturbance each.
- `TwiceOnlyAfterTimeout`, from `TimeoutsPay`: the transactions of a message, the requests that
  may still reach the node, and the one it may yet post are at most one more than
  its timeouts. `AheadOnlyIfDisturbed`, from `CountsTaken`: as long as nothing disturbed the
  count, the account's nonces are taken without a gap, and each accepted submission that
  the executor has not counted holds one of them.

`PartsProofs` carries these results over to `MCParts`, the specification of the run `parts`:
each of its steps is a step or a stutter of every component (`PartsMove`), so the whole implements
the ten specifications (`PartsImplementComponents`), and what is proved of one alone
holds there. `PartsTypeCorrect` collects the types from the components' theorems, which
give them directly (`SetTypes`, `FallbackTypes`, `EvmTypes`, `BreakerTypes`,
`WatchTypeCorrectness`) or as part of an inductive invariant. Its hypothesis, that the initial
gas price is not above the limit, is met by the defaults of the code and not checked by
the constructor (evm-executor.ts:28-36).

Only model-checked:
- liveness (`QueuedMessagesLeave`, `FinalMessagesAreRelayed`, `ReconnectsOrGivesUp`): the
  installed provers prove neither fairness nor `ENABLED`;
- what the violation runs show, which are counterexamples, and `IndexerOutage`.

Induction over data is out of reach as a rule of inference, since the library's theorems take an
operator as parameter. What needed one here (sums, batches, fork points, the least free
nonce) is proved with a least counterexample instead, which `WFMin` provides.

## Not modelled

- `contracts/bridge/BridgeGateway.sol` holds both sides of an unfinished merge and
  does not compile. `RebalancingVault.sol` imports a path of OpenZeppelin 4 and calls
  the `Ownable` of version 5, so no version builds it. `SorobanRpcQueue` does not
  type-check against the throttler it uses.
- Nonce bitmaps and registries, gas vaults and the transfer state machine's table: reads
  and writes of one bit, counter or entry, without a sequence of steps that could go wrong.
- The Soroban executor, which has the shape of the EVM executor.
- Cryptographic verifiers and light clients in assembly, floating-point pricing
  and route search, caches, rankings, reports and user interfaces, which are most of
  the repository's lines; logging and metrics. `snapshot` and the getters of the
  modelled classes change nothing.

## Plan

Not done yet, in the order of what it would say about the system:

1. `IndexerOutage` on top of `WebSocketReconnector` (it now has a drop and a
   backfill of its own); a restart that reads logs again as a further environment of
   `Indexer`.
2. `EvmExecutor` composed with `MessageQueue` (the relayer), and the Soroban executor.
3. Theorems about these compositions.
