------------------------------ MODULE PackedPool ------------------------------
(***************************************************************************)
(* contracts/vault/PackedLiquidityManager.sol: a pool of two reserves      *)
(* packed into one word, and the shares of its users.                      *)
(*                                                                         *)
(* Pools do not share anything, so there is one.  A transaction is one     *)
(* action; its checks are the guard.  Sums are taken in 256 bits and are   *)
(* compared with the width of their field before they are packed.  The     *)
(* fees of a position are never written.                                   *)
(***************************************************************************)
EXTENDS Integers, FiniteSets, Functions

CONSTANTS
    Account,
    PoolLimit,   \* the largest reserve: 2^112 - 1
    ShareLimit,  \* the most shares of a position: 2^128 - 1
    FeeBase,     \* a fee of 100%: 10 000
    FeeRate,     \* values of feeRate
    MaxPoolInits \* bound: calls of initializePool after the first addLiquidity

ASSUME PoolAssumption ==
    /\ IsFiniteSet(Account)
    /\ PoolLimit \in Nat /\ ShareLimit \in Nat /\ FeeBase \in Nat \ {0}
    /\ FeeRate \subseteq Nat /\ 0 \in FeeRate /\ MaxPoolInits \in Nat

VARIABLES
    reserves,       \* 0 and 1 -> reserve0 and reserve1
    feeRate,
    userPositions,  \* account -> liquidityShares
    wiped,          \* reserves that initializePool has set to 0
    inits           \* how often it has

poolVars == <<reserves, feeRate, userPositions, wiped, inits>>

PoolTypeOK ==
    /\ reserves \in [0..1 -> 0..PoolLimit]
    /\ feeRate \in FeeRate
    /\ userPositions \in [Account -> 0..ShareLimit]
    /\ wiped \in Nat /\ inits \in 0..MaxPoolInits
------------------------------------------------------------------------------
\* Anyone may, also for a pool in use: its reserves are overwritten.
InitializePool(rate) ==
    /\ inits' = IF reserves = [i \in 0..1 |-> 0] THEN inits ELSE inits + 1
    /\ inits' <= MaxPoolInits
    /\ reserves' = [i \in 0..1 |-> 0]
    /\ feeRate' = rate
    /\ wiped' = wiped + reserves[0] + reserves[1]
    /\ UNCHANGED userPositions

AddLiquidity(a, amount0, amount1) ==
    /\ reserves[0] + amount0 <= PoolLimit /\ reserves[1] + amount1 <= PoolLimit
    /\ userPositions[a] + amount0 + amount1 <= ShareLimit
    /\ reserves' = [i \in 0..1 |-> reserves[i] + IF i = 0 THEN amount0 ELSE amount1]
    /\ userPositions' = [userPositions EXCEPT ![a] = @ + amount0 + amount1]
    /\ UNCHANGED <<feeRate, wiped, inits>>

\* Mutant: the half is rounded up.
HalfUp(shares) == (shares + 1) \div 2

Half(shares) == shares \div 2

\* Half of the shares from each side, whatever the reserves are by then; of
\* an odd number one is lost.
RemoveLiquidity(a, shares) ==
    /\ shares <= userPositions[a]
    /\ \A i \in 0..1 : Half(shares) <= reserves[i]
    /\ reserves' = [i \in 0..1 |-> reserves[i] - Half(shares)]
    /\ userPositions' = [userPositions EXCEPT ![a] = @ - shares]
    /\ UNCHANGED <<feeRate, wiped, inits>>

AfterFee(amountIn) == amountIn - (amountIn * feeRate) \div FeeBase

\* A fee above 100% wraps around to more than any reserve.
BridgeSwap(in, amountIn) ==
    LET amountOut == AfterFee(amountIn) IN
    /\ amountOut \in 0..reserves[1 - in]
    /\ reserves[in] + amountIn <= PoolLimit
    /\ reserves' = [i \in 0..1 |-> IF i = in THEN reserves[i] + amountIn
                                   ELSE reserves[i] - amountOut]
    /\ UNCHANGED <<feeRate, userPositions, wiped, inits>>

PoolInit ==
    /\ reserves = [i \in 0..1 |-> 0]
    /\ feeRate = 0
    /\ userPositions = [a \in Account |-> 0]
    /\ wiped = 0 /\ inits = 0

PoolNext ==
    \/ \E rate \in FeeRate : InitializePool(rate)
    \/ \E a \in Account :
          \/ \E x, y \in 0..PoolLimit : AddLiquidity(a, x, y)
          \/ \E shares \in 0..ShareLimit : RemoveLiquidity(a, shares)
    \/ \E in \in 0..1, x \in 0..PoolLimit : BridgeSwap(in, x)

PoolSpec == PoolInit /\ [][PoolNext]_poolVars
------------------------------------------------------------------------------
SharesOfAll == SumFunction(userPositions)

\* The two reserves together cover the shares of all users, but for what a
\* renewed initialisation has wiped: the roundings of fees and of odd halves
\* go to the pool in any sequence of swaps, deposits and withdrawals
\* (removeLiquidity and bridgeSwap).
SharesAreCovered == reserves[0] + reserves[1] + wiped >= SharesOfAll
================================================================================
