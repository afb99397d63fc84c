--------------------------- MODULE MCMessageQueue ---------------------------
(* One id is offered three times, so that two executions of it may fail    *)
(* while a third item of it is queued; the other competes for the slots.   *)
EXTENDS MessageQueue, TLC

CONSTANTS m1, m2

MCMaxEnqueues == m1 :> 3 @@ m2 :> 1
==============================================================================
