------------------------------- MODULE MCParts -------------------------------
(***************************************************************************)
(* The components that share neither state nor calls, checked in one run:  *)
(* a behaviour chooses one of them and is a behaviour of that one, the     *)
(* others stay as they begin.  Interleaving them would add no state that   *)
(* any of their properties could tell apart.                               *)
(***************************************************************************)
EXTENDS DisputeMonitor, ValidatorSlasher, ValidatorSetManager, TransactionLocks,
        FallbackExecutor, CircuitBreaker, EvmExecutor, LiquidityRebalancer,
        MessageEscrow, PackedPool

VARIABLE part

Parts == {"watch", "slasher", "set", "locks", "fallback", "breaker", "evm", "rebalancer",
          "escrow", "pool"}

partsVars == <<part, watchVars, slasherVars, setVars, lockVars,
               fallbackVars, breakerVars, evmVars, rebalancerVars,
               escrowVars, poolVars>>

PartsInit ==
    /\ part \in Parts
    /\ WatchInit /\ SlasherInit /\ SetInit /\ LockInit
    /\ FallbackInit /\ BreakerInit /\ EvmInit /\ RebalancerInit
    /\ EscrowInit /\ PoolInit
    \* The others begin in one state.
    /\ part # "slasher" => minStake = CHOOSE x \in MinStake : TRUE
    /\ part # "fallback" => timeout = CHOOSE t \in Timeouts : TRUE

PartsNext ==
    /\ UNCHANGED part
    /\ \/ part = "watch" /\ WatchNext
       \/ part # "watch" /\ UNCHANGED watchVars
    /\ \/ part = "slasher" /\ SlasherNext
       \/ part # "slasher" /\ UNCHANGED slasherVars
    /\ \/ part = "set" /\ SetNext
       \/ part # "set" /\ UNCHANGED setVars
    /\ \/ part = "locks" /\ LockNext
       \/ part # "locks" /\ UNCHANGED lockVars
    /\ \/ part = "fallback" /\ FallbackNext
       \/ part # "fallback" /\ UNCHANGED fallbackVars
    /\ \/ part = "breaker" /\ BreakerNext
       \/ part # "breaker" /\ UNCHANGED breakerVars
    /\ \/ part = "evm" /\ EvmNext
       \/ part # "evm" /\ UNCHANGED evmVars
    /\ \/ part = "rebalancer" /\ RebalancerNext
       \/ part # "rebalancer" /\ UNCHANGED rebalancerVars
    /\ \/ part = "escrow" /\ EscrowNext
       \/ part # "escrow" /\ UNCHANGED escrowVars
    /\ \/ part = "pool" /\ PoolNext
       \/ part # "pool" /\ UNCHANGED poolVars

PartsSpec == PartsInit /\ [][PartsNext]_partsVars

PartsTypeOK ==
    /\ WatchTypeOK /\ SlasherTypeOK /\ SetTypeOK /\ LockTypeOK
    /\ FallbackTypeOK /\ BreakerTypeOK /\ EvmTypeOK /\ RebalancerTypeOK
    /\ EscrowTypeOK /\ PoolTypeOK
==============================================================================
