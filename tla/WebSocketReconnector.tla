------------------------- MODULE WebSocketReconnector -------------------------
(***************************************************************************)
(* libs/indexer/src/websocket-reconnector.ts: a subscription that is       *)
(* reopened when it drops, and that names the blocks missed meanwhile.     *)
(*                                                                         *)
(* One action per turn of the event loop: the calls start and stop, the    *)
(* settling of an awaited connect(), the events of a socket, a timer, and  *)
(* the answer of the two reads of a backfill.  Delays are left out: a      *)
(* timer may fire at any time.  reconnectTimer refers to the latest timer  *)
(* only; one that was pending before it is an orphan, which stop cannot    *)
(* cancel and which clears the reference when it fires.                    *)
(***************************************************************************)
EXTENDS Integers, Sequences, FiniteSets

CONSTANTS
    Connection,     \* bound: connections that may exist at a time
    MaxAttempts,    \* options.maxAttempts
    PatientRestart, \* start is called only when the last stop has settled
    LateReads,      \* getLastProcessedBlock may answer with a later height
    MaxHead,        \* bound: the height the chain may reach
    MaxReads        \* bound: backfills that may be waiting for their reads

ASSUME ReconnectorAssumption ==
    /\ 0 \notin Connection /\ IsFiniteSet(Connection)
    /\ MaxAttempts \in Nat /\ MaxHead \in Nat /\ MaxReads \in Nat
    /\ PatientRestart \in BOOLEAN /\ LateReads \in BOOLEAN

VARIABLES
    phase,      \* connection -> where it is
    socket,     \* this.socket, 0 for null
    stopped,
    attempt,
    held,       \* whether reconnectTimer refers to a pending timer
    orphans,    \* how many other timers are pending
    exhausted,  \* 'exhausted' was the last word since start
    \* The chain and the listener
    head,       \* the chain's tip
    inTransit,  \* heights on their way through the open socket
    processed,  \* getLastProcessedBlock()
    reported,   \* heights delivered as messages or named by a backfill
    base,       \* heights above it are to be reported: those since the first
                \* 'open' or since the last 'error' of a backfill
    reads       \* processed at the beginning of each waiting backfill

lifeVars == <<phase, socket, stopped, attempt, held, orphans, exhausted>>
feedVars == <<head, inTransit, processed, reported, base, reads>>
vars == <<lifeVars, feedVars>>

\* connecting: connect() is awaited.  attached: the listeners are in place.
\* open: 'open' has come.  closing: stop has closed it, 'close' is to come.
Phase == {"none", "connecting", "attached", "open", "closing"}

TypeOK ==
    /\ phase \in [Connection -> Phase]
    /\ socket \in Connection \cup {0}
    /\ stopped \in BOOLEAN /\ held \in BOOLEAN /\ exhausted \in BOOLEAN
    /\ attempt \in 0..MaxAttempts
    /\ orphans \in Nat
    /\ head \in 0..MaxHead /\ base \in 0..head /\ processed \in 0..head
    /\ inTransit \subseteq 1..head
    /\ reported \subseteq 1..head
    /\ reads \in Seq(0..head)

In(phases) == {c \in Connection : phase[c] \in phases}

Live == In({"attached", "open"})

\* Everything the last stop left behind is over.
Settled == In({"connecting", "closing"}) = {}

HeightMax(S) == CHOOSE h \in S : \A k \in S : h >= k
------------------------------------------------------------------------------
(* The reconnector *)

\* establishConnection, up to its await.
Connect(p) == \E c \in {d \in Connection : p[d] = "none"} : phase' = [p EXCEPT ![c] = "connecting"]

Start ==
    /\ stopped
    /\ PatientRestart => Settled
    /\ stopped' = FALSE
    /\ attempt' = 0
    /\ exhausted' = FALSE
    /\ Connect(phase)
    /\ base' = head
    /\ UNCHANGED <<socket, held, orphans, head, inTransit, processed, reported, reads>>

\* Mutant: forgets the timer.
StillHeld == held

\* The timer that stop leaves behind.
HeldAfterStop == FALSE

Stop ==
    /\ ~stopped
    /\ stopped' = TRUE
    /\ held' = HeldAfterStop
    /\ phase' = IF socket = 0 THEN phase ELSE [phase EXCEPT ![socket] = "closing"]
    /\ socket' = 0
    /\ inTransit' = IF In({"open"}) \subseteq {socket} THEN {} ELSE inTransit
    /\ UNCHANGED <<attempt, orphans, exhausted, head, processed, reported, base, reads>>

\* Mutant: gives up one attempt late.
ExhaustedLate == attempt > MaxAttempts

Exhausted == attempt >= MaxAttempts

\* Mutant: does not count the attempt.
SameAttempt == attempt

NextAttempt == attempt + 1

ScheduleReconnect ==
    IF Exhausted
    THEN exhausted' = TRUE /\ UNCHANGED <<attempt, held, orphans>>
    ELSE /\ attempt' = NextAttempt
         /\ held' = TRUE
         /\ orphans' = IF held THEN orphans + 1 ELSE orphans
         /\ UNCHANGED exhausted

\* Mutant: remembers the connection that dropped.
SocketKept == socket

\* Whichever connection dropped, it is this.socket that is forgotten.
SocketAfterDrop == 0

HandleDrop(c) ==
    /\ phase' = [phase EXCEPT ![c] = "none"]
    /\ socket' = SocketAfterDrop
    /\ IF stopped THEN UNCHANGED <<attempt, held, orphans, exhausted>> ELSE ScheduleReconnect
    /\ inTransit' = IF In({"open"}) \subseteq {c} THEN {} ELSE inTransit
    /\ UNCHANGED <<stopped, head, processed, reported, base, reads>>

ConnectFails(c) == phase[c] = "connecting" /\ HandleDrop(c)

Closes(c) == phase[c] \in {"attached", "open", "closing"} /\ HandleDrop(c)

\* Mutant: keeps a connection that comes up after stop.
NeverDiscarded == FALSE

\* start and stop raced.
Discarded == stopped

ConnectResolves(c) ==
    /\ phase[c] = "connecting"
    /\ IF Discarded
       THEN phase' = [phase EXCEPT ![c] = "none"] /\ UNCHANGED socket
       ELSE phase' = [phase EXCEPT ![c] = "attached"] /\ socket' = c
    /\ UNCHANGED <<stopped, attempt, held, orphans, exhausted, feedVars>>

\* handleOpen; backfillMissedRange begins its reads when this was a reconnection.
Opens(c) ==
    /\ phase[c] = "attached"
    /\ phase' = [phase EXCEPT ![c] = "open"]
    /\ attempt' = 0
    /\ IF attempt > 0
       THEN Len(reads) < MaxReads /\ reads' = Append(reads, processed) /\ UNCHANGED base
       ELSE base' = head /\ UNCHANGED reads
    /\ UNCHANGED <<socket, stopped, held, orphans, exhausted, head, inTransit, processed, reported>>

\* The timer that reconnectTimer refers to, or an orphan: it clears the
\* reference in either case and connects, stopped or not.
TimerFires ==
    /\ held \/ orphans > 0
    /\ orphans' \in (IF held THEN {orphans} ELSE {}) \cup
                    (IF orphans > 0 THEN {IF held THEN orphans ELSE orphans - 1} ELSE {})
    /\ held' = FALSE
    /\ Connect(phase)
    /\ UNCHANGED <<socket, stopped, attempt, exhausted, feedVars>>

\* Mutant: the range starts at the block after the next.
FromAfterNext(from) == from + 2

FirstMissed(from) == from + 1

Without(i) == SubSeq(reads, 1, i - 1) \o SubSeq(reads, i + 1, Len(reads))

\* Both reads have answered: getLatestBlock with the tip, getLastProcessedBlock
\* with its value when it was called or, if it may answer late, with the one
\* it has now.  The listener may have replayed the range at once.
Backfill ==
    /\ reads # <<>>
    /\ \E i \in 1..Len(reads) :
       \E from \in {reads[i]} \cup (IF LateReads THEN {processed} ELSE {}) :
          /\ reads' = Without(i)
          /\ IF head <= from
             THEN UNCHANGED <<reported, processed>>
             ELSE /\ reported' = reported \cup FirstMissed(from)..head
                  /\ processed' \in {processed, head}
    /\ UNCHANGED <<lifeVars, head, inTransit, base>>

\* A read fails: 'error' tells the listener, and nothing is named.
BackfillFails ==
    /\ \E i \in 1..Len(reads) : reads' = Without(i)
    /\ base' = head
    /\ UNCHANGED <<lifeVars, head, inTransit, processed, reported>>
------------------------------------------------------------------------------
(* The chain, and the messages of the socket *)

\* An open subscription carries the new block.
NewBlock ==
    /\ head < MaxHead
    /\ head' = head + 1
    /\ inTransit' = IF In({"open"}) = {} THEN inTransit ELSE inTransit \cup {head + 1}
    /\ UNCHANGED <<lifeVars, processed, reported, base, reads>>

\* Blocks arrive in order and are processed as they arrive.
Message ==
    /\ inTransit # {}
    /\ \E h \in inTransit :
          /\ \A k \in inTransit : h <= k
          /\ inTransit' = inTransit \ {h}
          /\ reported' = reported \cup {h}
          /\ processed' = HeightMax({processed, h})
    /\ UNCHANGED <<lifeVars, head, base, reads>>
------------------------------------------------------------------------------
Init ==
    /\ phase = [c \in Connection |-> "none"]
    /\ socket = 0 /\ stopped = TRUE /\ attempt = 0
    /\ held = FALSE /\ orphans = 0 /\ exhausted = FALSE
    /\ head = 0 /\ inTransit = {} /\ processed = 0 /\ reported = {} /\ base = 0
    /\ reads = <<>>

Settles(c) == ConnectFails(c) \/ ConnectResolves(c)

Proceeds(c) == Opens(c) \/ Closes(c)

Next ==
    \/ Start \/ Stop
    \/ \E c \in Connection : Settles(c) \/ Proceeds(c)
    \/ TimerFires
    \/ Backfill \/ BackfillFails
    \/ NewBlock
    \/ Message

\* Timers fire, connect() settles, and a socket that was asked for opens or
\* closes; nobody has to call start or stop.
Fairness ==
    /\ WF_vars(TimerFires) /\ WF_vars(Backfill \/ BackfillFails)
    /\ \A c \in Connection : WF_vars(Settles(c)) /\ WF_vars(phase[c] # "open" /\ Proceeds(c))

Spec == Init /\ [][Next]_vars /\ Fairness
------------------------------------------------------------------------------
(* Properties *)

\* While it runs the reconnector does exactly one thing: it awaits a
\* connection, has one, or waits for its timer; only when it has given up does
\* it do nothing.  It neither gets stuck nor connects twice.
ExactlyOneWayUp ==
    ~stopped =>
        Cardinality(In({"connecting"})) + Cardinality(Live) + orphans + (IF held THEN 1 ELSE 0)
            = IF exhausted THEN 0 ELSE 1

\* stop closes the connection and cancels the reconnection: afterwards no
\* socket is listened to and no timer is pending, and a connection that is
\* still being made is discarded when it is there (websocket-reconnector.ts:130).
StopIsFinal == stopped => Live = {} /\ ~held /\ orphans = 0

\* isConnected tells the truth: this.socket is the live connection, if any.
ConnectedIsTrue == Live = (IF socket = 0 THEN {} ELSE {socket})

\* A block that a running subscription did not deliver because of a drop is
\* named by a backfill, or the backfill has failed with an error: when the
\* connection is open again and no backfill is waiting, nothing that was to be
\* reported is missing.
MissedBlocksAreNamed ==
    ~stopped /\ In({"open"}) # {} /\ reads = <<>> =>
        (base + 1)..head \subseteq reported \cup inTransit

\* A running reconnector gets a connection, or says that it has given up.
ReconnectsOrGivesUp == ~stopped ~> (In({"open"}) # {} \/ exhausted \/ stopped)

\* There is never a second live connection beside the first, whenever start
\* and stop are called ("start()/stop() raced; discard the connection we just
\* opened", websocket-reconnector.ts:151, and start's "Safe to call again
\* after `stop()`", line 123).
OneLiveConnection == Cardinality(Live) <= 1
==============================================================================
