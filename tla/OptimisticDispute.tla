-------------------------- MODULE OptimisticDispute --------------------------
(***************************************************************************)
(* contracts/optimistic/OptimisticDisputeEngine.sol: proposals of state    *)
(* roots, each with one unit of collateral that a challenger wins within   *)
(* the challenge period and the proposer gets back after it.               *)
(*                                                                         *)
(* A transaction is one action, whose guard is what its requires and the   *)
(* token demand: a call that reverts changes nothing.  Of a state root only *)
(* its being canonical matters, which the contract cannot see.  The mapping *)
(* answers for every id, with a blank record for one never proposed.       *)
(***************************************************************************)
EXTENDS Integers, FiniteSets

CONSTANTS
    Address,          \* accounts
    Zero,             \* address(0)
    ChallengePeriod,  \* challengePeriod
    Genesis,          \* the first block.timestamp
    MaxProposals      \* bound: proposals made

ASSUME DisputeAssumption ==
    /\ Zero \notin Address
    /\ ChallengePeriod \in Nat /\ Genesis \in Nat
    /\ Genesis > ChallengePeriod
    /\ MaxProposals \in Nat

VARIABLES
    now,             \* block.timestamp
    proposals,       \* id -> Proposal
    nextProposalId,
    balance,         \* collateral the engine holds
    payouts          \* id -> transfers of collateral made for it

disputeVars == <<now, proposals, nextProposalId, balance, payouts>>

ProposalId == 0..MaxProposals
Proposal == [proposer: Address \cup {Zero}, canonical: BOOLEAN,
             timestamp: Nat, finalized: BOOLEAN, disputed: BOOLEAN]

DisputeTypeOK ==
    /\ now \in Nat
    /\ proposals \in [ProposalId -> Proposal]
    /\ nextProposalId \in 0..MaxProposals
    /\ balance \in Nat
    /\ payouts \in [ProposalId -> Nat]
------------------------------------------------------------------------------
Blank == [proposer |-> Zero, canonical |-> FALSE, timestamp |-> 0,
          finalized |-> FALSE, disputed |-> FALSE]

Deadline(id) == proposals[id].timestamp + ChallengePeriod

Settled(id) == proposals[id].finalized \/ proposals[id].disputed

\* The second at the deadline belongs to the challengers.
WithinPeriod(id) == now <= Deadline(id)

Disputable(id) == ~Settled(id) /\ WithinPeriod(id)

\* Mutant: a token that lets address(0) be paid.
CanTransferAnywhere(to) == balance >= 1

\* The token (OpenZeppelin's ERC20) refuses transfers to address(0) and
\* transfers beyond the sender's balance.
CanTransfer(to) == to # Zero /\ balance >= 1

ProposeState(sender, canonical) ==
    /\ nextProposalId < MaxProposals
    /\ balance' = balance + 1
    /\ proposals' = [proposals EXCEPT ![nextProposalId] =
           [proposer |-> sender, canonical |-> canonical, timestamp |-> now,
            finalized |-> FALSE, disputed |-> FALSE]]
    /\ nextProposalId' = nextProposalId + 1
    /\ UNCHANGED <<now, payouts>>

PayOut(to, id) ==
    /\ CanTransfer(to)
    /\ balance' = balance - 1
    /\ payouts' = [payouts EXCEPT ![id] = @ + 1]

DisputeState(sender, id) ==
    /\ Disputable(id)
    /\ proposals' = [proposals EXCEPT ![id].disputed = TRUE]
    /\ PayOut(sender, id)
    /\ UNCHANGED <<now, nextProposalId>>

Finalizable(id) == ~Settled(id) /\ ~WithinPeriod(id)

FinalizeState(id) ==
    /\ Finalizable(id)
    /\ proposals' = [proposals EXCEPT ![id].finalized = TRUE]
    /\ PayOut(proposals[id].proposer, id)
    /\ UNCHANGED <<now, nextProposalId>>

EngineStep ==
    \/ \E a \in Address, c \in BOOLEAN : ProposeState(a, c)
    \/ \E a \in Address, id \in ProposalId : DisputeState(a, id)
    \/ \E id \in ProposalId : FinalizeState(id)

NewBlock ==
    /\ now' = now + 1
    /\ UNCHANGED <<proposals, nextProposalId, balance, payouts>>

DisputeInit ==
    /\ now = Genesis
    /\ proposals = [id \in ProposalId |-> Blank]
    /\ nextProposalId = 0
    /\ balance = 0
    /\ payouts = [id \in ProposalId |-> 0]

DisputeNext == EngineStep \/ NewBlock

DisputeSpec == DisputeInit /\ [][DisputeNext]_disputeVars
------------------------------------------------------------------------------
Open == {id \in 0..(nextProposalId - 1) : ~Settled(id)}

\* The engine holds one unit of collateral for each proposal that is still
\* open, and has paid exactly one unit for each settled one: however
\* proposals, disputes and finalisations interleave, also of ids that were
\* never proposed, one proposal's collateral never pays for another's
\* (safeTransfer at lines 36, 62 and 76).
CollateralIsBacked ==
    /\ balance = Cardinality(Open)
    /\ \A id \in ProposalId : payouts[id] = IF Settled(id) THEN 1 ELSE 0
==============================================================================
