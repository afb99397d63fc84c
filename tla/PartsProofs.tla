----------------------------- MODULE PartsProofs -----------------------------
(***************************************************************************)
(* The components that MCParts puts side by side, for all values of their  *)
(* constants: none of them can tell the others from a pause of its own, so *)
(* what is proved of a component alone holds of the whole.                 *)
(***************************************************************************)
EXTENDS MCParts, ContractProofs, ClientProofs

\* Every part begins as itself.
LEMMA PartsBegin ==
    ASSUME PartsInit
    PROVE  /\ WatchInit /\ SlasherInit /\ SetInit /\ LockInit
           /\ FallbackInit /\ BreakerInit /\ EvmInit /\ RebalancerInit
           /\ EscrowInit /\ PoolInit
BY DEF PartsInit

\* A step of the whole is a step or a stutter of every part.
LEMMA PartsMove ==
    ASSUME [PartsNext]_partsVars
    PROVE  /\ [WatchNext]_watchVars /\ [SlasherNext]_slasherVars
           /\ [SetNext]_setVars /\ [LockNext]_lockVars
           /\ [FallbackNext]_fallbackVars /\ [BreakerNext]_breakerVars
           /\ [EvmNext]_evmVars /\ [RebalancerNext]_rebalancerVars
           /\ [EscrowNext]_escrowVars /\ [PoolNext]_poolVars
<1>1. CASE PartsNext
    BY <1>1 DEF PartsNext
<1>2. CASE UNCHANGED partsVars
    BY <1>2 DEF partsVars
<1> QED BY <1>1, <1>2

\* MCParts implements each of its components: a behaviour in which one of them
\* moves and the others rest is a behaviour of every one of them.  Each theorem
\* about a component is thereby one about the whole.
THEOREM PartsImplementComponents ==
    PartsSpec => /\ WatchSpec /\ SlasherSpec /\ SetSpec /\ LockSpec
                 /\ FallbackSpec /\ BreakerSpec /\ EvmSpec /\ RebalancerSpec
                 /\ EscrowSpec /\ PoolSpec
<1>1. PartsSpec => WatchSpec
    BY PartsBegin, PartsMove, PTL DEF PartsSpec, WatchSpec
<1>2. PartsSpec => SlasherSpec
    BY PartsBegin, PartsMove, PTL DEF PartsSpec, SlasherSpec
<1>3. PartsSpec => SetSpec
    BY PartsBegin, PartsMove, PTL DEF PartsSpec, SetSpec
<1>4. PartsSpec => LockSpec
    BY PartsBegin, PartsMove, PTL DEF PartsSpec, LockSpec
<1>5. PartsSpec => FallbackSpec
    BY PartsBegin, PartsMove, PTL DEF PartsSpec, FallbackSpec
<1>6. PartsSpec => BreakerSpec
    BY PartsBegin, PartsMove, PTL DEF PartsSpec, BreakerSpec
<1>7. PartsSpec => EvmSpec
    BY PartsBegin, PartsMove, PTL DEF PartsSpec, EvmSpec
<1>8. PartsSpec => RebalancerSpec
    BY PartsBegin, PartsMove, PTL DEF PartsSpec, RebalancerSpec
<1>9. PartsSpec => EscrowSpec
    BY PartsBegin, PartsMove, PTL DEF PartsSpec, EscrowSpec
<1>10. PartsSpec => PoolSpec
    BY PartsBegin, PartsMove, PTL DEF PartsSpec, PoolSpec
<1> QED BY <1>1, <1>2, <1>3, <1>4, <1>5, <1>6, <1>7, <1>8, <1>9, <1>10, PTL

\* The types of locks, stakes, reserves, escrows and shares come with the
\* invariants that they are part of.
LEMMA InvariantsType ==
    /\ LockSpec => []LockTypeOK
    /\ SlasherSpec => []SlasherTypeOK
    /\ RebalancerSpec => []RebalancerTypeOK
    /\ EscrowSpec => []EscrowTypeOK
    /\ PoolSpec => []PoolTypeOK
<1>1. LockSpec => []LockTypeOK
  <2>1. LockInit => LockInv
      BY DEF LockInit, LockInv, Match
  <2> QED BY <2>1, LockInvNext, LockInvImplies, PTL DEF LockSpec
<1>2. SlasherSpec => []SlasherTypeOK
  <2>1. SlasherInv => SlasherTypeOK
      BY DEF SlasherInv
  <2> QED BY <2>1, SlasherInvAlways, PTL
<1>3. RebalancerSpec => []RebalancerTypeOK
  <2>1. RebalancerInv => RebalancerTypeOK
      BY DEF RebalancerInv
  <2> QED BY <2>1, RebalancerInvInit, RebalancerInvNext, PTL DEF RebalancerSpec
<1>4. EscrowSpec => []EscrowTypeOK
  <2>1. EscrowInv => EscrowTypeOK
      BY DEF EscrowInv
  <2> QED BY <2>1, EscrowInvInit, EscrowInvNext, PTL DEF EscrowSpec
<1>5. PoolSpec => []PoolTypeOK
  <2>1. PoolInv => PoolTypeOK
      BY DEF PoolInv
  <2> QED BY <2>1, PoolInvInit, PoolInvNext, PTL DEF PoolSpec
<1> QED BY <1>1, <1>2, <1>3, <1>4, <1>5

\* The state of every component keeps its types, if the initial gas price is
\* within the limit, which evm-executor.ts:28-36 does not check.
THEOREM PartsTypeCorrect ==
    ASSUME InitialGasPrice <= MaxGasPrice
    PROVE  PartsSpec => []PartsTypeOK
<1>1. EvmSpec => []EvmTypeOK
    BY EvmTypes
<1>2. /\ WatchTypeOK /\ SlasherTypeOK /\ SetTypeOK /\ LockTypeOK
      /\ FallbackTypeOK /\ BreakerTypeOK /\ EvmTypeOK /\ RebalancerTypeOK
      /\ EscrowTypeOK /\ PoolTypeOK
      => PartsTypeOK
    BY DEF PartsTypeOK
<1> QED BY <1>1, <1>2, PartsImplementComponents, WatchTypeCorrectness, SetTypes,
           FallbackTypes, BreakerTypes, InvariantsType, PTL
==============================================================================
