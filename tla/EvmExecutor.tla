----------------------------- MODULE EvmExecutor -----------------------------
(***************************************************************************)
(* apps/relayer-service/src/executors/evm-executor.ts: executions of       *)
(* messages that share one executor's nonce and gas price, and the node's  *)
(* account they submit transactions to.                                    *)
(*                                                                         *)
(* An action of the executor is what runs between two awaits.  The node    *)
(* may handle a request and lose the answer, or handle it after the client *)
(* has given up.  How deep a mined transaction lies is left out: it may    *)
(* count as confirmed at any time.  getTransactionStatus changes nothing.  *)
(***************************************************************************)
EXTENDS Integers, FiniteSets

CONSTANTS
    Message,
    InitialGasPrice, MaxGasPrice, BumpPercentage, MaxBumps,  \* gasRepricing
    PoolBump  \* percentage by which the node wants a replacement to pay more

ASSUME EvmAssumption ==
    /\ InitialGasPrice \in Nat /\ MaxGasPrice \in Nat /\ BumpPercentage \in Nat
    /\ MaxBumps \in Nat /\ PoolBump \in Nat

VARIABLES
    nonce, currentGasPrice, bumpCount,
    executions,  \* message -> where its execute is, and what it has sent
    \* The node
    pool,        \* nonce -> [message, price] of the transaction it has there
    mined,       \* the transactions with lower nonces are on the chain
    late,        \* requests under way that nobody waits for
    \* What the properties need of the past
    timeouts,    \* message -> how often a request of its execution timed out
    disturbed    \* see AheadOnlyIfDisturbed

executorVars == <<nonce, currentGasPrice, bumpCount>>
nodeVars == <<pool, mined, late>>
evmVars == <<executorVars, executions, nodeVars, timeouts, disturbed>>

Request == [message: Message, nonce: Nat, price: Nat]

\* posted: the node has not seen it; accepted, refused: so will the answer be.
Phase == {"idle", "posted", "accepted", "refused", "confirming", "succeeded", "failed"}

EvmTypeOK ==
    /\ nonce \in Nat /\ currentGasPrice \in 0..MaxGasPrice /\ bumpCount \in 0..MaxBumps
    /\ executions \in [Message -> [phase: Phase, nonce: Nat, price: Nat]]
    /\ DOMAIN pool \subseteq Nat /\ mined \in Nat
    /\ \A n \in DOMAIN pool : pool[n] \in [message: Message, price: Nat]
    /\ late \subseteq Request
    /\ timeouts \in [Message -> Nat]
    /\ disturbed \in BOOLEAN
------------------------------------------------------------------------------
In(m, phases) == executions[m].phase \in phases

Becomes(m, phase) == executions' = [executions EXCEPT ![m].phase = phase]

RequestOf(m) == [message |-> m, nonce |-> executions[m].nonce, price |-> executions[m].price]

\* The nonce and the price are read when the request is posted.
Post(m, price) ==
    executions' = [executions EXCEPT ![m] = [phase |-> "posted", nonce |-> nonce, price |-> price]]

Execute(m) ==
    /\ In(m, {"idle"})
    /\ Post(m, currentGasPrice)
    /\ UNCHANGED <<executorVars, nodeVars, timeouts, disturbed>>

\* Mutant: no upper limit.
BumpedPastMax == (currentGasPrice * (100 + BumpPercentage)) \div 100

Bumped ==
    LET price == (currentGasPrice * (100 + BumpPercentage)) \div 100
    IN  IF price < MaxGasPrice THEN price ELSE MaxGasPrice

\* shouldReprice for an error it takes for a stuck transaction, then
\* handleReprice and execute again, up to its post.
RepriceOrFail(m) ==
    \/ /\ bumpCount < MaxBumps
       /\ bumpCount' = bumpCount + 1
       /\ currentGasPrice' = Bumped
       /\ Post(m, Bumped)
    \/ /\ bumpCount >= MaxBumps
       /\ Becomes(m, "failed")
       /\ UNCHANGED <<bumpCount, currentGasPrice>>

\* The node has no transaction with that nonce, or one that is not mined and
\* pays less.
Takes(r) ==
    r.nonce \in DOMAIN pool =>
        r.nonce >= mined /\ r.price * 100 >= pool[r.nonce].price * (100 + PoolBump)

Place(r) ==
    /\ pool' = [n \in DOMAIN pool \cup {r.nonce} |->
                   IF n = r.nonce THEN [message |-> r.message, price |-> r.price] ELSE pool[n]]
    /\ disturbed' = (disturbed \/ r.nonce \in DOMAIN pool)

NodeTakes(m) ==
    /\ In(m, {"posted"}) /\ Takes(RequestOf(m))
    /\ Place(RequestOf(m))
    /\ Becomes(m, "accepted")
    /\ UNCHANGED <<executorVars, mined, late, timeouts>>

NodeRefuses(m) ==
    /\ In(m, {"posted"}) /\ ~Takes(RequestOf(m))
    /\ Becomes(m, "refused")
    /\ UNCHANGED <<executorVars, nodeVars, timeouts, disturbed>>

TakesLate(r) ==
    /\ r \in late
    /\ late' = late \ {r}
    /\ \/ Takes(r) /\ Place(r)
       \/ ~Takes(r) /\ UNCHANGED <<pool, disturbed>>
    /\ UNCHANGED <<executorVars, executions, mined, timeouts>>

Mine ==
    /\ mined \in DOMAIN pool
    /\ mined' = mined + 1
    /\ UNCHANGED <<executorVars, executions, pool, late, timeouts, disturbed>>

Submitted(m) ==
    /\ In(m, {"accepted"})
    /\ nonce' = nonce + 1
    /\ Becomes(m, "confirming")
    /\ UNCHANGED <<currentGasPrice, bumpCount, nodeVars, timeouts, disturbed>>

\* Mutant: the nonce is counted before the answer is looked at.
RefusedButCounted(m) ==
    /\ In(m, {"refused"})
    /\ nonce' = nonce + 1
    /\ RepriceOrFail(m)
    /\ UNCHANGED <<nodeVars, timeouts, disturbed>>

\* "nonce too low", "already known" or "underpriced".
SubmissionRefused(m) ==
    /\ In(m, {"refused"})
    /\ RepriceOrFail(m)
    /\ UNCHANGED <<nonce, nodeVars, timeouts, disturbed>>

TimesOutWaiting(m) ==
    /\ In(m, {"posted", "accepted", "refused", "confirming"})
    /\ timeouts' = [timeouts EXCEPT ![m] = @ + 1]
    /\ late' = IF In(m, {"posted"}) THEN late \cup {RequestOf(m)} ELSE late
    /\ RepriceOrFail(m)
    /\ UNCHANGED <<nonce, pool, mined, disturbed>>

Mined(m) ==
    /\ executions[m].nonce < mined
    /\ pool[executions[m].nonce] = [message |-> m, price |-> executions[m].price]

\* A transaction that has been replaced has no receipt, and is waited for
\* until a request times out or fails.
Confirmed(m) ==
    /\ In(m, {"confirming"}) /\ Mined(m)
    /\ bumpCount' = 0
    /\ Becomes(m, "succeeded")
    /\ UNCHANGED <<nonce, currentGasPrice, nodeVars, timeouts, disturbed>>

\* Mutant: every error is taken for a stuck transaction.
AnyErrorReprices(m) ==
    /\ In(m, {"posted", "confirming"})
    /\ RepriceOrFail(m)
    /\ UNCHANGED <<nonce, nodeVars, timeouts, disturbed>>

\* Another error: of the submission, which then has not been accepted, or of
\* a request for the receipt or the block number.
OtherError(m) ==
    /\ In(m, {"posted", "confirming"})
    /\ Becomes(m, "failed")
    /\ UNCHANGED <<executorVars, nodeVars, timeouts, disturbed>>

NextNonce == CHOOSE n \in 0..Cardinality(DOMAIN pool) :
    n \notin DOMAIN pool /\ \A k \in 0..(n - 1) : k \in DOMAIN pool

\* The caller passes the account's next nonce.
UpdateNonce ==
    /\ nonce' = NextNonce
    /\ disturbed' = (disturbed \/ \E m \in Message : In(m, {"accepted"}))
    /\ UNCHANGED <<currentGasPrice, bumpCount, executions, nodeVars, timeouts>>

EvmInit ==
    /\ nonce = 0 /\ currentGasPrice = InitialGasPrice /\ bumpCount = 0
    /\ executions = [m \in Message |-> [phase |-> "idle", nonce |-> 0, price |-> 0]]
    /\ pool = [n \in {} |-> 0] /\ mined = 0 /\ late = {}
    /\ timeouts = [m \in Message |-> 0] /\ disturbed = FALSE

EvmNext ==
    \/ \E m \in Message :
          \/ Execute(m)
          \/ NodeTakes(m) \/ NodeRefuses(m)
          \/ Submitted(m) \/ SubmissionRefused(m) \/ TimesOutWaiting(m)
          \/ Confirmed(m) \/ OtherError(m)
    \/ \E r \in late : TakesLate(r)
    \/ Mine
    \/ UpdateNonce

EvmSpec == EvmInit /\ [][EvmNext]_evmVars
------------------------------------------------------------------------------
\* A message has a second transaction with the node, which will execute it a
\* second time, only after a request of its execution timed out, once for
\* each time: refusals and lost places in the pool are retried without
\* harm (shouldReprice, lines 195-208, and the nonces of line 122).
TwiceOnlyAfterTimeout ==
    \A m \in Message :
        Cardinality({n \in DOMAIN pool : pool[n].message = m}) <= 1 + timeouts[m]

\* The executor's nonce runs ahead of the account's, which holds up every
\* later transaction, only if one execution has taken another's place in the
\* pool or updateNonce was called between a submission and its answer:
\* however many executions read the same nonce before one of them counts it
\* (lines 122 and 140).
AheadOnlyIfDisturbed == nonce > NextNonce => disturbed
==============================================================================
