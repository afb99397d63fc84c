--------------------------- MODULE FinalityTracker ---------------------------
(***************************************************************************)
(* libs/indexer/src/finality-tracker.ts: cross-chain messages observed on  *)
(* a source chain are quarantined until their block is deep enough, and    *)
(* rolled back when a re-org invalidates it.                               *)
(*                                                                         *)
(* Every operation is synchronous, so each is one action.  The events it   *)
(* emits are left in "emitted".  A call that throws (no configuration for  *)
(* the chain, a depth that is not positive) changes nothing and is not an  *)
(* action.  An entry's status is "pending" for as long as it is in the     *)
(* quarantine: release and rollback delete it in the same call.            *)
(***************************************************************************)
EXTENDS Integers

CONSTANTS
    Message,   \* [id, chain, height, block]: block is its block's hash
    Chain,     \* chain ids
    Required,  \* the constructor's configs: chain -> requiredConfirmations, 0 for none
    HeadHeight, \* the heights that may be reported as a head or invalidated
    Depths     \* the requiredConfirmations that may be set at run time

ASSUME TrackerAssumption ==
    /\ \A m \in Message :
          /\ m.chain \in Chain /\ m.height \in Nat
          /\ m = [id |-> m.id, chain |-> m.chain, height |-> m.height, block |-> m.block]
    /\ Required \in [Chain -> Nat]
    /\ HeadHeight \subseteq Nat
    /\ Depths \subseteq Nat \ {0}

VARIABLES
    required,    \* configs: chain -> requiredConfirmations, 0 without a config
    heads,       \* chain -> latest head height, -1 before the first
    quarantine,  \* message id -> [message, confirmations]
    index,       \* byChainAndBlock, as a set of <<chain, height, id>>
    emitted      \* the events of the last call

vars == <<required, heads, quarantine, index, emitted>>

Id == {m.id : m \in Message}

Entry == [message: Message, confirmations: Int]

TypeOK ==
    /\ required \in [Chain -> Nat]
    /\ heads \in [Chain -> Int] /\ \A c \in Chain : heads[c] >= -1
    /\ DOMAIN quarantine \subseteq Id
    /\ \A id \in DOMAIN quarantine : quarantine[id] \in Entry
    /\ index \subseteq Chain \X Nat \X Id
    /\ emitted \subseteq [type: {"quarantined", "released", "rolledBack"}, entry: Entry]

Configured(c) == required[c] > 0

Slot(m) == <<m.chain, m.height, m.id>>

Depth(m, head) == head - m.height + 1

\* Mutant: an event carries the bare message.
MessageEvent(type, entries) == {[type |-> type, entry |-> e.message] : e \in entries}

Event(type, entries) == {[type |-> type, entry |-> e] : e \in entries}

\* Mutant: announces the end of the entries but keeps them.
KeepIds(q, ids) == q

WithoutIds(q, ids) == [id \in DOMAIN q \ ids |-> q[id]]

\* Mutant: deindexes nothing.
DeindexNone(q, ids) == index

\* deindexMessage, for each of the messages.
Deindexed(q, ids) == index \ {Slot(q[id].message) : id \in ids}

\* release: the entry leaves the quarantine and the index.
Drop(q, ids) ==
    /\ quarantine' = WithoutIds(q, ids)
    /\ index' = Deindexed(q, ids)

SetChainConfig(c, n) ==
    /\ required' = [required EXCEPT ![c] = n]
    /\ emitted' = {}
    /\ UNCHANGED <<heads, quarantine, index>>

\* An id that is already quarantined, whatever its block, changes nothing.
QuarantineAgain(m) ==
    /\ Configured(m.chain)
    /\ m.id \in DOMAIN quarantine
    /\ emitted' = {}
    /\ UNCHANGED <<required, heads, quarantine, index>>

\* Mutants: releases one confirmation early, or one late.
FinalEarly(entry) == entry.confirmations + 1 >= required[entry.message.chain]
FinalLate(entry) == entry.confirmations > required[entry.message.chain]

\* The test that tryRelease and advanceHead share.
Final(entry) == entry.confirmations >= required[entry.message.chain]

\* Mutant: only a head releases, quarantineMessage never does.
NotYetFinal(entry) == FALSE

FinalAtOnce(entry) == Final(entry)

\* A new message is final at once when the head is deep enough above it.
QuarantineNew(m) ==
    LET depth == Depth(m, heads[m.chain])
        entry == [message |-> m, confirmations |-> IF depth > 0 THEN depth ELSE 0]
    IN  /\ Configured(m.chain)
        /\ m.id \notin DOMAIN quarantine
        /\ IF FinalAtOnce(entry)
           THEN /\ emitted' = Event("quarantined", {entry}) \cup Event("released", {entry})
                /\ index' = index \ {Slot(m)}
                /\ UNCHANGED quarantine
           ELSE /\ emitted' = Event("quarantined", {entry})
                /\ index' = index \cup {Slot(m)}
                /\ quarantine' = [id \in DOMAIN quarantine \cup {m.id} |->
                                     IF id = m.id THEN entry ELSE quarantine[id]]
        /\ UNCHANGED <<required, heads>>

QuarantineMessage(m) == QuarantineAgain(m) \/ QuarantineNew(m)

\* The pending messages that the index holds for chain c at the heights hs.
Indexed(c, hs) ==
    {id \in DOMAIN quarantine : \E h \in hs : <<c, h, id>> \in index}

Heights(c) == {s[2] : s \in {t \in index : t[1] = c}}

\* A head below the last one is reported as a warning and ignored.
IgnoreLowerHead(c, h) ==
    /\ Configured(c)
    /\ h < heads[c]
    /\ emitted' = {}
    /\ UNCHANGED <<required, heads, quarantine, index>>

Counted(c, h) ==
    [id \in DOMAIN quarantine |->
        IF id \in Indexed(c, Heights(c))
        THEN [quarantine[id] EXCEPT !.confirmations = Depth(quarantine[id].message, h)]
        ELSE quarantine[id]]

RaiseHead(c, h) ==
    LET counted == Counted(c, h)
        final   == {id \in Indexed(c, Heights(c)) : Final(counted[id])}
    IN  /\ Configured(c)
        /\ h >= heads[c]
        /\ heads' = [heads EXCEPT ![c] = h]
        /\ Drop(counted, final)
        /\ emitted' = Event("released", {counted[id] : id \in final})
        /\ UNCHANGED required

AdvanceHead(c, h) == IgnoreLowerHead(c, h) \/ RaiseHead(c, h)

\* Mutant: looks the heights up on every chain.
AnchoredAnywhere(c, hs) == UNION {Indexed(d, hs) : d \in Chain}

\* The messages that a re-org of chain c invalidates.
Anchored(c, hs) == Indexed(c, hs)

\* Nothing is recorded about the re-org itself, and the head stays.
HandleReorg(c, invalidatedHeights) ==
    LET lost == Anchored(c, invalidatedHeights)
    IN  /\ quarantine' = WithoutIds(quarantine, lost)
        /\ index' = {s \in index : ~(s[1] = c /\ s[2] \in invalidatedHeights)}
        /\ emitted' = Event("rolledBack", {quarantine[id] : id \in lost})
        /\ UNCHANGED <<required, heads>>

Init ==
    /\ required = Required
    /\ heads = [c \in Chain |-> -1]
    /\ quarantine = [id \in {} |-> <<>>]
    /\ index = {}
    /\ emitted = {}

Next ==
    \/ \E c \in Chain, n \in Depths : SetChainConfig(c, n)
    \/ \E m \in Message : QuarantineMessage(m)
    \/ \E c \in Chain, h \in HeadHeight : AdvanceHead(c, h)
    \/ \E c \in Chain, hs \in SUBSET HeadHeight : HandleReorg(c, hs)

Spec == Init /\ [][Next]_vars
------------------------------------------------------------------------------
(* Properties *)

\* The index names each quarantined message once, at its own block, and
\* nothing else: advanceHead and handleReorg find every message they must
\* (finality-tracker.ts:204, 228) and no message that is gone.
IndexMatchesQuarantine ==
    index = {Slot(quarantine[id].message) : id \in DOMAIN quarantine}

Overdue(id) ==
    LET m == quarantine[id].message
    IN  Depth(m, heads[m.chain]) >= required[m.chain]

\* A message is never left waiting at a depth that is final: it is overdue
\* only from a change of its chain's configuration, which releases nothing,
\* to the next head (quarantineMessage's and advanceHead's releases).
StaysOverdue(id) ==
    /\ id \in DOMAIN quarantine
    /\ Overdue(id)
    /\ heads'[quarantine[id].message.chain] = heads[quarantine[id].message.chain]

OverdueOnlyByConfig ==
    [][ required' = required =>
            \A id \in DOMAIN quarantine' : Overdue(id)' => StaysOverdue(id) ]_vars

\* No message leaves the quarantine silently or for two reasons: either it
\* is announced as released, at the depth its chain requires under the head
\* the tracker has just been told, or it is announced as rolled back.
HasCause(m) ==
    LET announced(type) == \E e \in emitted' : e.type = type /\ e.entry.message = m
    IN  /\ announced("released") # announced("rolledBack")
        /\ announced("released") => Depth(m, heads'[m.chain]) >= required'[m.chain]

LeavesWithCause ==
    [][ \A id \in DOMAIN quarantine \ DOMAIN quarantine' :
            HasCause(quarantine[id].message) ]_vars

\* A call that concerns chain c, whatever comes of it.
OperationOn(c) ==
    \/ \E n \in Depths : SetChainConfig(c, n)
    \/ \E m \in Message : m.chain = c /\ QuarantineMessage(m)
    \/ \E h \in HeadHeight : AdvanceHead(c, h)
    \/ \E hs \in SUBSET HeadHeight : HandleReorg(c, hs)

WaitingOn(c) == {id \in DOMAIN quarantine : quarantine[id].message.chain = c}

\* All that the tracker holds of chain c, in its four maps.
StateOf(c) ==
    [required |-> required[c],
     head     |-> heads[c],
     entries  |-> [id \in WaitingOn(c) |-> quarantine[id]],
     slots    |-> {s \in index : s[1] = c}]

\* A configuration, message, head or re-org of one chain changes nothing the
\* tracker holds of another chain, and announces messages of its own chain
\* only, although the chains share ids, heights and the maps
\* (finality-tracker.ts:184, 224).
ChainsAreIsolated ==
    [][ \A c \in Chain : OperationOn(c) =>
            /\ \A d \in Chain \ {c} : StateOf(d)' = StateOf(d)
            /\ \A e \in emitted' : e.entry.message.chain = c ]_vars
==============================================================================
