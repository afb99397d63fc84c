-------------------------- MODULE LiquidityRebalancer --------------------------
(***************************************************************************)
(* contracts/liquidity/LiquidityRebalancer.sol: reserves of chains, packed *)
(* into words, the total of them, and moves between them.                  *)
(*                                                                         *)
(* A transaction is one action, whose guard is the negation of its errors. *)
(* The router is called last and its refusal is not an error: a move holds *)
(* even if nothing is sent.  Events are left out, bridgeRouter too.        *)
(***************************************************************************)
EXTENDS Integers, Sequences, FiniteSets, Functions

CONSTANTS
    Chain,
    MaxReserve,  \* the largest reserve: 2^128 - 1
    BPS,         \* basis points of the whole: 10 000
    Targets,     \* targetRatioBps
    Bounds,      \* imbalanceBoundBps
    MaxTotal,    \* bound: totalReserves
    MaxBatch     \* bound: the length of a batch

ASSUME RebalancerAssumption ==
    /\ IsFiniteSet(Chain)
    /\ MaxReserve \in Nat \ {0} /\ BPS \in Nat \ {0} /\ MaxTotal \in Nat /\ MaxBatch \in Nat
    /\ Targets \subseteq 1..BPS /\ Bounds \subseteq 1..BPS

VARIABLES
    chainData,        \* chain -> its unpacked word
    connectedChains,  \* the chains in the order they were configured in
    totalReserves

rebalancerVars == <<chainData, connectedChains, totalReserves>>

ChainData == [reserve: 0..MaxReserve, target: 0..BPS, bound: 0..BPS, active: BOOLEAN]

RebalancerTypeOK ==
    /\ chainData \in [Chain -> ChainData]
    /\ connectedChains \in Seq(Chain)
    /\ totalReserves \in Nat
------------------------------------------------------------------------------
ConfigureChain(c, target, bound) ==
    /\ chainData' = [chainData EXCEPT ![c] =
           [reserve |-> @.reserve, target |-> target, bound |-> bound, active |-> TRUE]]
    /\ connectedChains' = IF chainData[c].active THEN connectedChains
                          ELSE Append(connectedChains, c)
    /\ UNCHANGED totalReserves

\* The difference is taken first, and a checked subtraction.
UpdateReserve(c, reserve) ==
    LET rest == totalReserves - chainData[c].reserve IN
    /\ chainData[c].active
    /\ rest >= 0 /\ rest + reserve <= MaxTotal
    /\ chainData' = [chainData EXCEPT ![c].reserve = reserve]
    /\ totalReserves' = rest + reserve
    /\ UNCHANGED connectedChains

CurrentRatioBps(data, c) ==
    IF totalReserves = 0 THEN 0 ELSE (data[c].reserve * BPS) \div totalReserves

Distance(a, b) == IF a >= b THEN a - b ELSE b - a

SkewBps(data, c) == Distance(CurrentRatioBps(data, c), data[c].target)

IsImbalanced(data, c) == data[c].active /\ SkewBps(data, c) > data[c].bound

WithReserve(data, c, reserve) == [data EXCEPT ![c].reserve = reserve]

\* The destination is read after the source has been written, and is not
\* written when its reserve would be the largest there is.
Credited(data, to, amount) ==
    LET reserve == data[to].reserve + amount
    IN  IF reserve = MaxReserve THEN data ELSE WithReserve(data, to, reserve)

Debited(data, from, amount) == WithReserve(data, from, data[from].reserve - amount)

\* Mutant: the destination is read before the source is written.
MoveFromStaleRead(data, from, to, amount) ==
    WithReserve(Debited(data, from, amount), to, data[to].reserve + amount)

MoveLiquidity(data, from, to, amount) == Credited(Debited(data, from, amount), to, amount)

\* A destination that would not fit into its bits is reported by a pair of
\* values, which a move that fits may come to as well.
Overflows(source, destination) ==
    \/ destination > MaxReserve
    \/ destination = MaxReserve /\ source = MaxReserve - 1

\* What executeRebalance and _moveLiquidity demand.
CanMove(data, from, to, amount) ==
    LET debited == Debited(data, from, amount) IN
    /\ amount > 0
    /\ IsImbalanced(data, from) \/ IsImbalanced(data, to)
    /\ data[from].active /\ data[to].active
    /\ amount <= data[from].reserve
    /\ ~Overflows(debited[from].reserve, debited[to].reserve + amount)

ExecuteRebalance(from, to, amount) ==
    /\ CanMove(chainData, from, to, amount)
    /\ chainData' = MoveLiquidity(chainData, from, to, amount)
    /\ UNCHANGED <<connectedChains, totalReserves>>

Steps == [from: Chain, to: Chain, amount: 1..MaxReserve]

\* The reserves that the first i steps leave.
AfterSteps(steps) ==
    LET after[i \in 0..Len(steps)] ==
            IF i = 0 THEN chainData
            ELSE MoveLiquidity(after[i - 1], steps[i].from, steps[i].to, steps[i].amount)
    IN  after

\* Each step meets the reserves that the one before has left; one that
\* reverts takes the whole batch back.
ExecuteRebalanceBatch(steps) ==
    /\ \A i \in 1..Len(steps) :
          CanMove(AfterSteps(steps)[i - 1], steps[i].from, steps[i].to, steps[i].amount)
    /\ chainData' = AfterSteps(steps)[Len(steps)]
    /\ UNCHANGED <<connectedChains, totalReserves>>

RebalancerInit ==
    /\ chainData = [c \in Chain |-> [reserve |-> 0, target |-> 0, bound |-> 0, active |-> FALSE]]
    /\ connectedChains = <<>>
    /\ totalReserves = 0

RebalancerNext ==
    \/ \E c \in Chain :
          \/ \E target \in Targets, bound \in Bounds : ConfigureChain(c, target, bound)
          \/ \E reserve \in 0..MaxReserve : UpdateReserve(c, reserve)
    \/ \E s \in Steps : ExecuteRebalance(s.from, s.to, s.amount)
    \/ \E n \in 1..MaxBatch : \E steps \in [1..n -> Steps] : ExecuteRebalanceBatch(steps)

RebalancerSpec == RebalancerInit /\ [][RebalancerNext]_rebalancerVars
------------------------------------------------------------------------------
SumOfReserves(data) == SumFunction([c \in Chain |-> data[c].reserve])

\* No sequence of reports and moves makes reserves out of nothing: the total
\* covers the reserves of all chains, so that a report's subtraction cannot
\* underflow and no chain has more than the whole (_moveLiquidity, lines
\* 297-364, also from a chain to itself; updateReserve, line 155).
TotalCoversReserves == SumOfReserves(chainData) <= totalReserves
================================================================================
