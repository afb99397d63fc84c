------------------------- MODULE ValidatorSetManager -------------------------
(***************************************************************************)
(* contracts/validator/ValidatorSetManager.sol: a proposed set of          *)
(* validators becomes active after a delay.                                *)
(*                                                                         *)
(* Calls come from the account that holds PROPOSER_ROLE.  isValidator      *)
(* reads the active list only: OVERLAP_WINDOW is stored and never used.    *)
(***************************************************************************)
EXTENDS Integers, Sequences

CONSTANTS
    Member,
    EpochDelay,  \* EPOCH_DELAY
    MaxSize,     \* bound: length of a proposed list
    MaxClock     \* bound: the last block.timestamp

ASSUME SetManagerAssumption == {EpochDelay, MaxSize, MaxClock} \subseteq Nat

VARIABLES
    clock,            \* block.timestamp
    activeSet, activeThreshold,
    pendingValidators, pendingThreshold, pendingActiveAt,
    hasPendingProposal,
    latest            \* the latest proposal and its time, and whether it was activated

pending == <<pendingValidators, pendingThreshold, pendingActiveAt, hasPendingProposal>>
active == <<activeSet, activeThreshold>>
setVars == <<clock, active, pending, latest>>

Lists == UNION {[1..n -> Member] : n \in 0..MaxSize}

SetTypeOK ==
    /\ clock \in Nat
    /\ activeSet \in Lists /\ activeThreshold \in 0..Len(activeSet)
    /\ pendingValidators \in Lists /\ pendingThreshold \in 0..Len(pendingValidators)
    /\ pendingActiveAt \in Nat /\ hasPendingProposal \in BOOLEAN
    /\ latest \in [validators: Lists, threshold: Nat, at: Nat, used: BOOLEAN]
------------------------------------------------------------------------------
ValidQuorum(list, threshold) == threshold > 0 /\ threshold <= Len(list)

\* Mutant: a proposal that replaces another one takes over its clock.
ActiveAtFirst == IF hasPendingProposal THEN pendingActiveAt ELSE clock + EpochDelay

ActiveAt == clock + EpochDelay

\* A pending proposal is replaced, and the delay starts again.
ProposeValidatorSet(list, threshold) ==
    /\ list # <<>> /\ ValidQuorum(list, threshold)
    /\ pendingValidators' = list
    /\ pendingThreshold' = threshold
    /\ pendingActiveAt' = ActiveAt
    /\ hasPendingProposal' = TRUE
    /\ latest' = [validators |-> list, threshold |-> threshold, at |-> clock, used |-> FALSE]
    /\ UNCHANGED <<clock, active>>

ActivateValidatorSet ==
    /\ hasPendingProposal /\ clock >= pendingActiveAt
    /\ activeSet' = pendingValidators
    /\ activeThreshold' = pendingThreshold
    /\ pendingValidators' = <<>>
    /\ pendingThreshold' = 0
    /\ hasPendingProposal' = FALSE
    /\ pendingActiveAt' = 0
    /\ latest' = [latest EXCEPT !.used = TRUE]
    /\ UNCHANGED clock

SetTick ==
    /\ clock < MaxClock
    /\ clock' = clock + 1
    /\ UNCHANGED <<active, pending, latest>>

SetInit ==
    /\ clock = 0
    /\ activeSet = <<>> /\ activeThreshold = 0
    /\ pendingValidators = <<>> /\ pendingThreshold = 0
    /\ pendingActiveAt = 0 /\ hasPendingProposal = FALSE
    /\ latest = [validators |-> <<>>, threshold |-> 0, at |-> 0, used |-> TRUE]

SetNext ==
    \/ \E list \in Lists, k \in 0..(MaxSize + 1) : ProposeValidatorSet(list, k)
    \/ ActivateValidatorSet
    \/ SetTick

SetSpec == SetInit /\ [][SetNext]_setVars
------------------------------------------------------------------------------
\* The active set and its threshold only ever change to those of the latest
\* proposal, after that very proposal has waited its whole delay, and once:
\* an earlier proposal's delay does not count for the one that replaces it
\* (pendingActiveAt, lines 114 and 123).
RotationIsTimelocked ==
    [][active' # active =>
          /\ active' = <<latest.validators, latest.threshold>>
          /\ clock >= latest.at + EpochDelay
          /\ ~latest.used]_setVars
==============================================================================
