-------------------------- MODULE ValidatorSlasher --------------------------
(***************************************************************************)
(* contracts/slashing/ValidatorSlasher.sol: stakes of validators, the list *)
(* of the active ones, and the slashing of equivocations.                  *)
(*                                                                         *)
(* A transaction is one action, whose guard is the negation of its errors. *)
(* The functions are nonReentrant, and a payment that fails reverts the    *)
(* whole call.  A signature is what recovers to its signer, so the proof   *)
(* of an equivocation is left to any validator that signed twice.          *)
(***************************************************************************)
EXTENDS Integers, Sequences, FiniteSets, Functions

CONSTANTS
    Validator,  \* addresses
    Value,      \* amounts of wei sent or withdrawn
    MinStake,   \* values of minStake
    MaxFunds    \* bound: all that is ever sent to the contract

ASSUME SlasherAssumption ==
    /\ IsFiniteSet(Validator)
    /\ Value \subseteq Nat \ {0} /\ MinStake \subseteq Nat /\ MaxFunds \in Nat

VARIABLES
    validators,        \* address -> ValidatorInfo
    activeValidators,  \* the list of active addresses
    minStake,
    held,           \* the contract's wei
    sent,              \* all that has been sent to it
    unowned            \* what it holds that is in nobody's stake

slasherVars == <<validators, activeValidators, minStake, held, sent, unowned>>

ValidatorInfo == [stake: Nat, isActive: BOOLEAN, isSlashed: BOOLEAN]

SlasherTypeOK ==
    /\ validators \in [Validator -> ValidatorInfo]
    /\ activeValidators \in Seq(Validator)
    /\ minStake \in MinStake
    /\ held \in Nat /\ sent \in Nat /\ unowned \in Nat
------------------------------------------------------------------------------
Receive(value) ==
    /\ sent + value <= MaxFunds
    /\ sent' = sent + value
    /\ held' = held + value

\* Mutant: an active validator may register again.
CanRegisterAgain(v) == ~validators[v].isSlashed

CanRegister(v) == ~validators[v].isSlashed /\ ~validators[v].isActive

\* The new record replaces the old one, and with it what a validator had
\* left in the contract after unstaking below the minimum.
RegisterValidator(v, value) ==
    /\ CanRegister(v) /\ value >= minStake
    /\ Receive(value)
    /\ validators' = [validators EXCEPT
           ![v] = [stake |-> value, isActive |-> TRUE, isSlashed |-> FALSE]]
    /\ activeValidators' = Append(activeValidators, v)
    /\ unowned' = unowned + validators[v].stake
    /\ UNCHANGED minStake

DepositStake(v, value) ==
    /\ validators[v].isActive /\ ~validators[v].isSlashed
    /\ Receive(value)
    /\ validators' = [validators EXCEPT ![v].stake = @ + value]
    /\ UNCHANGED <<activeValidators, minStake, unowned>>

\* The last entry takes the place of the removed one.
RemoveFromActiveSet(list, v) ==
    IF \E i \in 1..Len(list) : list[i] = v
    THEN LET i == CHOOSE j \in 1..Len(list) :
                     list[j] = v /\ \A k \in 1..(j - 1) : list[k] # v
         IN  SubSeq([list EXCEPT ![i] = list[Len(list)]], 1, Len(list) - 1)
    ELSE list

StaysActive(left) == left >= minStake

Unstake(v, amount) ==
    LET left == validators[v].stake - amount IN
    /\ validators[v].isActive /\ ~validators[v].isSlashed
    /\ left >= 0
    /\ validators' = [validators EXCEPT ![v].stake = left,
                                        ![v].isActive = StaysActive(left)]
    /\ activeValidators' = IF StaysActive(left) THEN activeValidators
                           ELSE RemoveFromActiveSet(activeValidators, v)
    /\ held' = held - amount
    /\ UNCHANGED <<minStake, sent, unowned>>

Reward(slashed) == (slashed * 10) \div 100

\* Mutant: the slashed validator keeps its stake on record.
ReportKeepingStake(v) ==
    LET slashed == validators[v].stake IN
    /\ validators[v].isActive /\ ~validators[v].isSlashed
    /\ validators' = [validators EXCEPT ![v].isActive = FALSE, ![v].isSlashed = TRUE]
    /\ activeValidators' = RemoveFromActiveSet(activeValidators, v)
    /\ held' = held - Reward(slashed)
    /\ unowned' = unowned + slashed - Reward(slashed)
    /\ UNCHANGED <<minStake, sent>>

ReportEquivocation(v) ==
    LET slashed == validators[v].stake IN
    /\ validators[v].isActive /\ ~validators[v].isSlashed
    /\ validators' = [validators EXCEPT
           ![v] = [stake |-> 0, isActive |-> FALSE, isSlashed |-> TRUE]]
    /\ activeValidators' = RemoveFromActiveSet(activeValidators, v)
    /\ held' = held - Reward(slashed)
    /\ unowned' = unowned + slashed - Reward(slashed)
    /\ UNCHANGED <<minStake, sent>>

UpdateMinStake(value) ==
    /\ minStake' = value
    /\ UNCHANGED <<validators, activeValidators, held, sent, unowned>>

SlasherInit ==
    /\ validators = [v \in Validator |->
                        [stake |-> 0, isActive |-> FALSE, isSlashed |-> FALSE]]
    /\ activeValidators = <<>>
    /\ minStake \in MinStake
    /\ held = 0 /\ sent = 0 /\ unowned = 0

SlasherNext ==
    \/ \E v \in Validator, x \in Value :
          RegisterValidator(v, x) \/ DepositStake(v, x) \/ Unstake(v, x)
    \/ \E v \in Validator : ReportEquivocation(v)
    \/ \E x \in MinStake : UpdateMinStake(x)

SlasherSpec == SlasherInit /\ [][SlasherNext]_slasherVars
------------------------------------------------------------------------------
\* The list that outsiders read names exactly the active validators, each
\* once, whatever the order of registrations, withdrawals below a minimum
\* that changes, slashings and renewed registrations (_removeFromActiveSet
\* removes the first occurrence only, lines 156-165).
ActiveListIsExact ==
    /\ \A i, j \in 1..Len(activeValidators) :
          activeValidators[i] = activeValidators[j] => i = j
    /\ \A v \in Validator :
          validators[v].isActive <=> \E i \in 1..Len(activeValidators) : activeValidators[i] = v

\* The contract can pay back every stake at any time, and what it holds
\* beyond the stakes is what slashing and renewed registrations took from
\* validators: no sequence of calls pays one validator with the stake of
\* another (registerValidator, unstake and reportEquivocation, lines 58-154).
StakesAreBacked == held = SumFunction([v \in Validator |-> validators[v].stake]) + unowned
==============================================================================
