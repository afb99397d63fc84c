SPECIFICATION EscrowSpec
CONSTANTS
    MessageId = {x1, x2}
    Recipient = {y1}
    Token = {k1}
    EscrowAmount = {1, 2}
INVARIANT ClaimableIsOwed
CHECK_DEADLOCK FALSE
