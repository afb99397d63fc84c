----------------------------- MODULE MessageEscrow -----------------------------
(***************************************************************************)
(* contracts/execution/MessageReceiverCore.sol with FallbackEscrow.sol,    *)
(* which it owns: the tokens of a message whose call fails wait in escrow. *)
(*                                                                         *)
(* A transaction is one action.  A call that succeeds leaves nothing here, *)
(* and an entry without an amount is as good as none, so amounts are       *)
(* positive.  The core keeps nothing and remembers no message: a message   *)
(* may be executed any number of times.                                    *)
(***************************************************************************)
EXTENDS Integers, FiniteSets, Functions

CONSTANTS MessageId, Recipient, Token, EscrowAmount

ASSUME EscrowAssumption == IsFiniteSet(MessageId) /\ EscrowAmount \subseteq Nat \ {0}

VARIABLES
    escrows,            \* message id -> EscrowEntry, for those with an amount
    claimable,          \* recipient -> token -> amount
    recipientMessages,  \* recipient -> message ids
    tokensHeld          \* token -> the escrow's balance

escrowVars == <<escrows, claimable, recipientMessages, tokensHeld>>

EscrowEntry == [amount: EscrowAmount, token: Token, claimed: BOOLEAN]

EscrowTypeOK ==
    /\ DOMAIN escrows \subseteq MessageId
    /\ \A id \in DOMAIN escrows : escrows[id] \in EscrowEntry
    /\ claimable \in [Recipient -> [Token -> Nat]]
    /\ recipientMessages \in [Recipient -> SUBSET MessageId]
    /\ tokensHeld \in [Token -> Nat]
------------------------------------------------------------------------------
\* Mutant: an id is not looked up before its entry is written.
MayEscrowAgain(id) == id \in MessageId

\* AlreadyEscrowed: also if it has been claimed.
MayEscrow(id) == id \notin DOMAIN escrows

\* executeMessage when the target's call fails; a refused escrow reverts it.
DivertToEscrow(id, r, t, amount) ==
    /\ MayEscrow(id)
    /\ escrows' = [i \in DOMAIN escrows \cup {id} |->
           IF i = id THEN [amount |-> amount, token |-> t, claimed |-> FALSE] ELSE escrows[i]]
    /\ claimable' = [claimable EXCEPT ![r][t] = @ + amount]
    /\ recipientMessages' = [recipientMessages EXCEPT ![r] = @ \cup {id}]
    /\ tokensHeld' = [tokensHeld EXCEPT ![t] = @ + amount]

\* Anyone may claim; what the recipient can claim is not reduced.
ClaimEscrowedTokens(id) ==
    /\ id \in DOMAIN escrows /\ ~escrows[id].claimed
    /\ tokensHeld[escrows[id].token] >= escrows[id].amount
    /\ escrows' = [escrows EXCEPT ![id].claimed = TRUE]
    /\ tokensHeld' = [tokensHeld EXCEPT ![escrows[id].token] = @ - escrows[id].amount]
    /\ UNCHANGED <<claimable, recipientMessages>>

EscrowInit ==
    /\ escrows = [id \in {} |-> 0]
    /\ claimable = [r \in Recipient |-> [t \in Token |-> 0]]
    /\ recipientMessages = [r \in Recipient |-> {}]
    /\ tokensHeld = [t \in Token |-> 0]

EscrowNext ==
    \E id \in MessageId :
        \/ \E r \in Recipient, t \in Token, x \in EscrowAmount : DivertToEscrow(id, r, t, x)
        \/ ClaimEscrowedTokens(id)

EscrowSpec == EscrowInit /\ [][EscrowNext]_escrowVars
------------------------------------------------------------------------------
Owed(ids, t) ==
    SumFunction([id \in {i \in ids : escrows[i].token = t /\ ~escrows[i].claimed}
                    |-> escrows[id].amount])

\* The escrow holds of each token exactly what is still to be claimed, for
\* any order of failed executions, repeated ones and claims: no message is
\* paid with the tokens of another (escrowTokens and claimEscrowedTokens).
EscrowIsBacked == \A t \in Token : tokensHeld[t] = Owed(DOMAIN escrows, t)

\* "Mapping from recipient address to total claimable amount per token"
\* (FallbackEscrow.sol:26), which "Check claimable balance" returns (line
\* 107).  A claim leaves it as it is.
ClaimableIsOwed ==
    \A r \in Recipient, t \in Token : claimable[r][t] = Owed(recipientMessages[r], t)
================================================================================
