------------------------ MODULE FinalityTrackerProofs ------------------------
(***************************************************************************)
(* Theorems of FinalityTracker, for every set of messages, chains, heights *)
(* and configurations.                                                     *)
(*                                                                         *)
(* The index and the quarantine agree only because an entry is kept under  *)
(* its own message's id: without that, taking one message's slot out of    *)
(* the index could take another message's.  IInv adds it to the invariants *)
(* of the runs, and is inductive.                                          *)
(***************************************************************************)
EXTENDS FinalityTracker, TLAPS

\* Each entry of the quarantine is filed under the id of its message.
KeyedById == \A id \in DOMAIN quarantine : quarantine[id].message.id = id

IInv == TypeOK /\ KeyedById /\ IndexMatchesQuarantine
------------------------------------------------------------------------------
(* Lemmas about the operators *)

\* A message is a record with these four fields.
LEMMA MessageFields ==
    ASSUME NEW m \in Message
    PROVE  /\ m.chain \in Chain /\ m.height \in Nat /\ m.id \in Id
           /\ Slot(m) = <<m.chain, m.height, m.id>>
           /\ Slot(m) \in Chain \X Nat \X Id
BY TrackerAssumption DEF Id, Slot

\* The index holds a message's chain and height, so a look-up by chain and
\* heights finds exactly the pending messages of that chain at those heights
\* (finality-tracker.ts:204 and 228).
LEMMA IndexedExactly ==
    ASSUME IInv, NEW c \in Chain, NEW hs
    PROVE  Indexed(c, hs) = {id \in DOMAIN quarantine :
                                /\ quarantine[id].message.chain = c
                                /\ quarantine[id].message.height \in hs}
<1> USE DEF IInv
<1>1. ASSUME NEW id \in DOMAIN quarantine, NEW h
      PROVE  <<c, h, id>> \in index <=> /\ quarantine[id].message.chain = c
                                        /\ quarantine[id].message.height = h
    BY DEF IndexMatchesQuarantine, KeyedById, Slot
<1> QED BY <1>1 DEF Indexed

\* The heights of a chain in the index are those of its pending messages.
LEMMA IndexedAll ==
    ASSUME IInv, NEW c \in Chain
    PROVE  Indexed(c, Heights(c)) = {id \in DOMAIN quarantine : quarantine[id].message.chain = c}
<1>1. ASSUME NEW id \in DOMAIN quarantine, quarantine[id].message.chain = c
      PROVE  quarantine[id].message.height \in Heights(c)
    <2>1. Slot(quarantine[id].message) \in index
        BY DEF IInv, IndexMatchesQuarantine
    <2>2. Slot(quarantine[id].message) = <<c, quarantine[id].message.height, id>>
        BY <1>1 DEF IInv, KeyedById, Slot
    <2> QED BY <2>1, <2>2 DEF Heights
<1> QED BY <1>1, IndexedExactly

\* Counting confirmations changes the entries of one chain, and their
\* confirmations only (advanceHead, finality-tracker.ts:200-209).
LEMMA CountedFacts ==
    ASSUME IInv, NEW c \in Chain, NEW h \in Nat
    PROVE  /\ DOMAIN Counted(c, h) = DOMAIN quarantine
           /\ \A id \in DOMAIN quarantine :
                 /\ Counted(c, h)[id] \in Entry
                 /\ Counted(c, h)[id].message = quarantine[id].message
                 /\ quarantine[id].message.chain = c =>
                       Counted(c, h)[id].confirmations = Depth(quarantine[id].message, h)
                 /\ quarantine[id].message.chain # c => Counted(c, h)[id] = quarantine[id]
<1>1. DOMAIN Counted(c, h) = DOMAIN quarantine
    BY DEF Counted
<1>2. ASSUME NEW id \in DOMAIN quarantine
      PROVE  /\ Counted(c, h)[id] \in Entry
             /\ Counted(c, h)[id].message = quarantine[id].message
             /\ quarantine[id].message.chain = c =>
                   Counted(c, h)[id].confirmations = Depth(quarantine[id].message, h)
             /\ quarantine[id].message.chain # c => Counted(c, h)[id] = quarantine[id]
    <2>1. quarantine[id] \in Entry /\ quarantine[id].message \in Message
        BY DEF IInv, TypeOK, Entry
    <2>2. Depth(quarantine[id].message, h) \in Int
        BY <2>1, MessageFields DEF Depth
    <2>3. CASE quarantine[id].message.chain = c
        <3>1. Counted(c, h)[id] =
                 [quarantine[id] EXCEPT !.confirmations = Depth(quarantine[id].message, h)]
            BY <2>3, IndexedAll DEF Counted
        <3> QED BY <2>1, <2>2, <2>3, <3>1 DEF Entry
    <2>4. CASE quarantine[id].message.chain # c
        BY <2>1, <2>4, IndexedAll DEF Counted
    <2> QED BY <2>3, <2>4
<1> QED BY <1>1, <1>2

\* The events of one call's entries.
LEMMA EventFacts ==
    ASSUME NEW type, NEW entries
    PROVE  /\ \A e \in entries : [type |-> type, entry |-> e] \in Event(type, entries)
           /\ \A e \in Event(type, entries) : e.type = type /\ e.entry \in entries
BY DEF Event

\* The entry of a new message.
LEMMA NewEntryFacts ==
    ASSUME TypeOK, NEW m \in Message,
           NEW entry,
           entry = [message |-> m,
                    confirmations |-> IF Depth(m, heads[m.chain]) > 0
                                      THEN Depth(m, heads[m.chain]) ELSE 0]
    PROVE  /\ entry \in Entry
           /\ entry.message = m
           /\ Depth(m, heads[m.chain]) \in Int
           /\ ~Final(entry) => ~(Depth(m, heads[m.chain]) >= required[m.chain])
<1>1. m.chain \in Chain /\ m.height \in Nat
    BY MessageFields
<1>2. heads[m.chain] \in Int /\ required[m.chain] \in Nat
    BY <1>1 DEF TypeOK
<1>3. Depth(m, heads[m.chain]) \in Int
    BY <1>1, <1>2 DEF Depth
<1> QED BY <1>1, <1>2, <1>3 DEF Entry, Final
------------------------------------------------------------------------------
(* The inductive invariant *)

LEMMA InitIInv == Init => IInv
<1> SUFFICES ASSUME Init PROVE IInv
    OBVIOUS
<1>1. TypeOK
    BY TrackerAssumption DEF Init, TypeOK
<1>2. KeyedById /\ IndexMatchesQuarantine
    BY DEF Init, KeyedById, IndexMatchesQuarantine
<1> QED BY <1>1, <1>2 DEF IInv

LEMMA SetChainConfigIInv ==
    ASSUME IInv, NEW c \in Chain, NEW n \in Depths, SetChainConfig(c, n)
    PROVE  IInv'
<1>1. TypeOK'
    BY TrackerAssumption DEF IInv, TypeOK, SetChainConfig
<1>2. KeyedById' /\ IndexMatchesQuarantine'
    BY DEF IInv, SetChainConfig, KeyedById, IndexMatchesQuarantine
<1> QED BY <1>1, <1>2 DEF IInv

LEMMA QuarantineNewIInv ==
    ASSUME IInv, NEW m \in Message, QuarantineNew(m)
    PROVE  IInv'
<1> DEFINE depth == Depth(m, heads[m.chain])
           entry == [message |-> m, confirmations |-> IF depth > 0 THEN depth ELSE 0]
<1>1. entry \in Entry /\ entry.message = m
    BY NewEntryFacts DEF IInv
<1>2. m.id \in Id /\ m.id \notin DOMAIN quarantine /\ Slot(m) \in Chain \X Nat \X Id
    BY MessageFields DEF QuarantineNew
<1>3. Slot(m) \notin index
    BY <1>2 DEF IInv, IndexMatchesQuarantine, KeyedById, Slot
<1>4. CASE FinalAtOnce(entry)
    <2>1. /\ emitted' = Event("quarantined", {entry}) \cup Event("released", {entry})
          /\ index' = index \ {Slot(m)}
          /\ UNCHANGED <<required, heads, quarantine>>
        BY <1>4 DEF QuarantineNew
    <2>2. index' = index
        BY <1>3, <2>1
    <2>3. emitted' \subseteq [type: {"quarantined", "released", "rolledBack"}, entry: Entry]
        BY <1>1, <2>1 DEF Event
    <2>4. TypeOK'
        BY <2>1, <2>2, <2>3 DEF IInv, TypeOK
    <2>5. KeyedById' /\ IndexMatchesQuarantine'
        BY <2>1, <2>2 DEF IInv, KeyedById, IndexMatchesQuarantine
    <2> QED BY <2>4, <2>5 DEF IInv
<1>5. CASE ~FinalAtOnce(entry)
    <2>1. /\ emitted' = Event("quarantined", {entry})
          /\ index' = index \cup {Slot(m)}
          /\ quarantine' = [id \in DOMAIN quarantine \cup {m.id} |->
                               IF id = m.id THEN entry ELSE quarantine[id]]
          /\ UNCHANGED <<required, heads>>
        BY <1>5 DEF QuarantineNew
    <2>2. emitted' \subseteq [type: {"quarantined", "released", "rolledBack"}, entry: Entry]
        BY <1>1, <2>1 DEF Event
    <2>3. /\ DOMAIN quarantine' = DOMAIN quarantine \cup {m.id}
          /\ quarantine'[m.id] = entry
          /\ \A id \in DOMAIN quarantine : quarantine'[id] = quarantine[id]
        BY <1>2, <2>1
    <2>4. TypeOK'
        BY <1>1, <1>2, <2>1, <2>2, <2>3 DEF IInv, TypeOK
    <2>5. KeyedById'
        BY <1>1, <2>3 DEF IInv, KeyedById
    <2>6. IndexMatchesQuarantine'
        <3>1. index = {Slot(quarantine[id].message) : id \in DOMAIN quarantine}
            BY DEF IInv, IndexMatchesQuarantine
        <3>2. Slot(quarantine'[m.id].message) = Slot(m)
            BY <1>1, <2>3
        <3>3. \A id \in DOMAIN quarantine :
                 Slot(quarantine'[id].message) = Slot(quarantine[id].message)
            BY <2>3
        <3>4. index' = index \cup {Slot(m)} /\ DOMAIN quarantine' = DOMAIN quarantine \cup {m.id}
            BY <2>1, <2>3
        <3>5. ASSUME NEW s PROVE s \in index' <=> \E id \in DOMAIN quarantine' :
                                                      s = Slot(quarantine'[id].message)
            BY <3>1, <3>2, <3>3, <3>4, Zenon
        <3> QED BY <3>5, Zenon DEF IndexMatchesQuarantine, Slot
    <2> QED BY <2>4, <2>5, <2>6 DEF IInv
<1> QED BY <1>4, <1>5

\* What is dropped from the quarantine and from the index matches.
LEMMA RaiseHeadIInv ==
    ASSUME IInv, NEW c \in Chain, NEW h \in HeadHeight, RaiseHead(c, h)
    PROVE  IInv'
<1> DEFINE counted == Counted(c, h)
           final == {id \in Indexed(c, Heights(c)) : Final(counted[id])}
<1>0. h \in Nat
    BY TrackerAssumption
<1>1. /\ heads' = [heads EXCEPT ![c] = h]
      /\ h >= heads[c]
      /\ quarantine' = [id \in DOMAIN counted \ final |-> counted[id]]
      /\ index' = index \ {Slot(counted[id].message) : id \in final}
      /\ emitted' = Event("released", {counted[id] : id \in final})
      /\ required' = required
    BY DEF RaiseHead, Drop, WithoutIds, Deindexed
<1>2. /\ DOMAIN counted = DOMAIN quarantine
      /\ \A id \in DOMAIN quarantine :
            /\ counted[id] \in Entry
            /\ counted[id].message = quarantine[id].message
    BY <1>0, CountedFacts
<1>3. final \subseteq DOMAIN quarantine
    BY DEF Indexed
<1>4. /\ DOMAIN quarantine' = DOMAIN quarantine \ final
      /\ \A id \in DOMAIN quarantine' : quarantine'[id] = counted[id]
    BY <1>1, <1>2
<1> HIDE DEF counted, final
<1>5. emitted' \subseteq [type: {"quarantined", "released", "rolledBack"}, entry: Entry]
    BY <1>1, <1>2, <1>3 DEF Event
<1>6. heads' \in [Chain -> Int] /\ \A d \in Chain : heads'[d] >= -1
    BY <1>0, <1>1 DEF IInv, TypeOK
<1>7. TypeOK'
    BY <1>1, <1>2, <1>4, <1>5, <1>6 DEF IInv, TypeOK
<1>8. KeyedById'
    BY <1>2, <1>4 DEF IInv, KeyedById
<1>9. IndexMatchesQuarantine'
    <2>1. {Slot(counted[id].message) : id \in final} = {Slot(quarantine[id].message) : id \in final}
        BY <1>2, <1>3
    <2>2. \A i, j \in DOMAIN quarantine :
             Slot(quarantine[i].message) = Slot(quarantine[j].message) => i = j
        BY DEF IInv, KeyedById, Slot
    <2>3. index' = {Slot(quarantine[id].message) : id \in DOMAIN quarantine \ final}
        BY <1>1, <1>3, <2>1, <2>2 DEF IInv, IndexMatchesQuarantine
    <2> QED BY <1>2, <1>4, <2>3 DEF IndexMatchesQuarantine
<1> QED BY <1>7, <1>8, <1>9 DEF IInv

LEMMA HandleReorgIInv ==
    ASSUME IInv, NEW c \in Chain, NEW hs \in SUBSET HeadHeight, HandleReorg(c, hs)
    PROVE  IInv'
<1> DEFINE lost == Indexed(c, hs)
<1>1. /\ quarantine' = [id \in DOMAIN quarantine \ lost |-> quarantine[id]]
      /\ index' = {s \in index : ~(s[1] = c /\ s[2] \in hs)}
      /\ emitted' = Event("rolledBack", {quarantine[id] : id \in lost})
      /\ required' = required /\ heads' = heads
    BY DEF HandleReorg, Anchored, WithoutIds
<1>2. lost = {id \in DOMAIN quarantine : /\ quarantine[id].message.chain = c
                                         /\ quarantine[id].message.height \in hs}
    BY IndexedExactly
<1> HIDE DEF lost
<1>3. /\ DOMAIN quarantine' = DOMAIN quarantine \ lost
      /\ \A id \in DOMAIN quarantine' : quarantine'[id] = quarantine[id]
    BY <1>1
<1>4. emitted' \subseteq [type: {"quarantined", "released", "rolledBack"}, entry: Entry]
    BY <1>1, <1>2 DEF IInv, TypeOK, Event
<1>5. TypeOK'
    BY <1>1, <1>3, <1>4 DEF IInv, TypeOK
<1>6. KeyedById'
    BY <1>3 DEF IInv, KeyedById
<1>7. IndexMatchesQuarantine'
    <2>1. \A id \in DOMAIN quarantine :
             LET s == Slot(quarantine[id].message)
             IN  s[1] = quarantine[id].message.chain /\ s[2] = quarantine[id].message.height
        BY DEF Slot
    <2>2. index' = {Slot(quarantine[id].message) : id \in DOMAIN quarantine \ lost}
        BY <1>1, <1>2, <2>1 DEF IInv, IndexMatchesQuarantine
    <2> QED BY <1>3, <2>2 DEF IndexMatchesQuarantine
<1> QED BY <1>5, <1>6, <1>7 DEF IInv

\* A step that changes nothing but the events keeps the invariant.
LEMMA QuietIInv ==
    ASSUME IInv, UNCHANGED <<required, heads, quarantine, index>>,
           emitted' = {} \/ emitted' = emitted
    PROVE  IInv'
BY DEF IInv, TypeOK, KeyedById, IndexMatchesQuarantine

LEMMA NextIInv == IInv /\ [Next]_vars => IInv'
<1> SUFFICES ASSUME IInv, [Next]_vars PROVE IInv'
    OBVIOUS
<1>1. ASSUME NEW c \in Chain, NEW n \in Depths, SetChainConfig(c, n) PROVE IInv'
    BY <1>1, SetChainConfigIInv
<1>2. ASSUME NEW m \in Message, QuarantineMessage(m) PROVE IInv'
    BY <1>2, QuarantineNewIInv, QuietIInv DEF QuarantineMessage, QuarantineAgain
<1>3. ASSUME NEW c \in Chain, NEW h \in HeadHeight, AdvanceHead(c, h) PROVE IInv'
    BY <1>3, RaiseHeadIInv, QuietIInv DEF AdvanceHead, IgnoreLowerHead
<1>4. ASSUME NEW c \in Chain, NEW hs \in SUBSET HeadHeight, HandleReorg(c, hs) PROVE IInv'
    BY <1>4, HandleReorgIInv
<1>5. CASE UNCHANGED vars
    BY <1>5, QuietIInv DEF vars
<1> QED BY <1>1, <1>2, <1>3, <1>4, <1>5 DEF Next

\* The inductive invariant holds in every reachable state.
THEOREM Invariance == Spec => []IInv
<1>1. Init => IInv
    BY InitIInv
<1>2. IInv /\ [Next]_vars => IInv'
    BY NextIInv
<1> QED BY <1>1, <1>2, PTL DEF Spec

\* Type correctness, for the state and the events of finality-tracker.ts.
THEOREM TypeCorrectness == Spec => []TypeOK
<1>1. IInv => TypeOK
    BY DEF IInv
<1> QED BY <1>1, Invariance, PTL

\* byChainAndBlock names exactly the quarantined messages: advanceHead and
\* handleReorg find all they must, on every chain, after any calls.
THEOREM IndexIsExact == Spec => []IndexMatchesQuarantine
<1>1. IInv => IndexMatchesQuarantine
    BY DEF IInv
<1> QED BY <1>1, Invariance, PTL
------------------------------------------------------------------------------
(* The action properties *)

\* Only advanceHead and handleReorg take messages out of the quarantine, and
\* each announces what it takes.
LEMMA Removals ==
    ASSUME IInv, Next, NEW id \in DOMAIN quarantine, id \notin DOMAIN quarantine'
    PROVE  HasCause(quarantine[id].message)
<1> DEFINE m == quarantine[id].message
<1>0. m \in Message /\ m.id = id
    BY DEF IInv, TypeOK, Entry, KeyedById
<1>1. ASSUME NEW c \in Chain, NEW n \in Depths, SetChainConfig(c, n) PROVE FALSE
    BY <1>1 DEF SetChainConfig
<1>2. ASSUME NEW x \in Message, QuarantineMessage(x) PROVE FALSE
    <2>1. CASE QuarantineAgain(x)
        BY <2>1 DEF QuarantineAgain
    <2>2. CASE QuarantineNew(x)
        BY <2>2 DEF QuarantineNew
    <2> QED BY <1>2, <2>1, <2>2 DEF QuarantineMessage
<1>3. ASSUME NEW c \in Chain, NEW h \in HeadHeight, AdvanceHead(c, h)
      PROVE  HasCause(m)
    <2> DEFINE counted == Counted(c, h)
               final == {i \in Indexed(c, Heights(c)) : Final(counted[i])}
    <2>0. h \in Nat
        BY TrackerAssumption
    <2>1. RaiseHead(c, h)
        BY <1>3 DEF AdvanceHead, IgnoreLowerHead
    <2>2. /\ heads' = [heads EXCEPT ![c] = h]
          /\ quarantine' = [i \in DOMAIN counted \ final |-> counted[i]]
          /\ emitted' = Event("released", {counted[i] : i \in final})
          /\ required' = required
        BY <2>1 DEF RaiseHead, Drop, WithoutIds, Deindexed
    <2>3. /\ DOMAIN counted = DOMAIN quarantine
          /\ \A i \in DOMAIN quarantine :
                /\ counted[i].message = quarantine[i].message
                /\ quarantine[i].message.chain = c =>
                      counted[i].confirmations = Depth(quarantine[i].message, h)
        BY <2>0, CountedFacts
    <2>4. final \subseteq {i \in DOMAIN quarantine : quarantine[i].message.chain = c}
        BY IndexedAll
    <2>5. \A i \in final : Final(counted[i])
        OBVIOUS
    <2> HIDE DEF counted, final
    <2>6. DOMAIN quarantine \ DOMAIN quarantine' = final
        BY <2>2, <2>3, <2>4
    <2>7. m.chain = c /\ id \in final
        BY <2>4, <2>6
    <2>8. /\ \E e \in emitted' : e.type = "released" /\ e.entry.message = m
          /\ ~ \E e \in emitted' : e.type = "rolledBack" /\ e.entry.message = m
        <3> DEFINE e == [type |-> "released", entry |-> counted[id]]
        <3>1. counted[id] \in {counted[i] : i \in final}
            BY <2>3, <2>7
        <3>2. e \in emitted' /\ \A x \in emitted' : x.type = "released"
            BY <3>1, <2>2, EventFacts
        <3>3. e.type = "released" /\ e.entry.message = m
            BY <2>3, <2>7
        <3> QED BY <3>2, <3>3
    <2>9. Depth(m, h) >= required[c]
        BY <2>3, <2>5, <2>7 DEF Final
    <2>10. heads'[c] = h
        BY <2>2 DEF IInv, TypeOK
    <2> QED BY <2>2, <2>7, <2>8, <2>9, <2>10 DEF HasCause
<1>4. ASSUME NEW c \in Chain, NEW hs \in SUBSET HeadHeight, HandleReorg(c, hs)
      PROVE  HasCause(m)
    <2> DEFINE lost == Indexed(c, hs)
    <2>1. /\ quarantine' = [i \in DOMAIN quarantine \ lost |-> quarantine[i]]
          /\ emitted' = Event("rolledBack", {quarantine[i] : i \in lost})
        BY <1>4 DEF HandleReorg, Anchored, WithoutIds
    <2>2. lost \subseteq {i \in DOMAIN quarantine : quarantine[i].message.chain = c}
        BY IndexedExactly
    <2> HIDE DEF lost
    <2>3. DOMAIN quarantine \ DOMAIN quarantine' = lost
        BY <2>1, <2>2
    <2>4. /\ \E e \in emitted' : e.type = "rolledBack" /\ e.entry.message = m
          /\ ~ \E e \in emitted' : e.type = "released" /\ e.entry.message = m
        <3> DEFINE e == [type |-> "rolledBack", entry |-> quarantine[id]]
        <3>1. quarantine[id] \in {quarantine[i] : i \in lost}
            BY <2>3
        <3>2. e \in emitted' /\ \A x \in emitted' : x.type = "rolledBack"
            BY <3>1, <2>1, EventFacts
        <3>3. e.type = "rolledBack" /\ e.entry.message = m
            BY <2>3
        <3> QED BY <3>2, <3>3
    <2> QED BY <2>4 DEF HasCause
<1> QED BY <1>1, <1>2, <1>3, <1>4 DEF Next

\* A message leaves the quarantine announced, for one reason, and as released
\* only at the depth its chain requires (finality-tracker.ts:286-320).
THEOREM ReleasesAndRollbacksAreAnnounced == Spec => LeavesWithCause
<1>1. IInv /\ [Next]_vars =>
         [ \A id \in DOMAIN quarantine \ DOMAIN quarantine' :
              HasCause(quarantine[id].message) ]_vars
    BY Removals
<1> QED BY <1>1, Invariance, PTL DEF Spec, LeavesWithCause

\* What the tracker holds of a chain is its depth, its head and its waiting
\* messages: the slots of the index follow from these.
LEMMA SameStateOf ==
    ASSUME IInv, IInv', NEW d \in Chain,
           required'[d] = required[d], heads'[d] = heads[d],
           WaitingOn(d)' = WaitingOn(d),
           \A id \in WaitingOn(d) : quarantine'[id] = quarantine[id]
    PROVE  StateOf(d)' = StateOf(d)
<1>1. {s \in index : s[1] = d} = {Slot(quarantine[id].message) : id \in WaitingOn(d)}
    BY DEF IInv, IndexMatchesQuarantine, WaitingOn, Slot
<1>2. {s \in index' : s[1] = d} = {Slot(quarantine'[id].message) : id \in WaitingOn(d)'}
    BY DEF IInv, IndexMatchesQuarantine, WaitingOn, Slot
<1>3. {Slot(quarantine'[id].message) : id \in WaitingOn(d)'}
         = {Slot(quarantine[id].message) : id \in WaitingOn(d)}
    OBVIOUS
<1>4. [id \in WaitingOn(d)' |-> quarantine'[id]] = [id \in WaitingOn(d) |-> quarantine[id]]
    OBVIOUS
<1> QED BY <1>1, <1>2, <1>3, <1>4 DEF StateOf

\* A call that leaves the four maps alone.
LEMMA NothingHeldChanges ==
    ASSUME UNCHANGED <<required, heads, quarantine, index>>, NEW d
    PROVE  StateOf(d)' = StateOf(d)
BY DEF StateOf, WaitingOn

LEMMA QuarantineNewIsolated ==
    ASSUME IInv, IInv', NEW m \in Message, QuarantineNew(m)
    PROVE  /\ \A d \in Chain \ {m.chain} : StateOf(d)' = StateOf(d)
           /\ \A e \in emitted' : e.entry.message = m
<1> DEFINE depth == Depth(m, heads[m.chain])
           entry == [message |-> m, confirmations |-> IF depth > 0 THEN depth ELSE 0]
<1>1. entry.message = m
    OBVIOUS
<1>2. /\ emitted' \subseteq Event("quarantined", {entry}) \cup Event("released", {entry})
      /\ required' = required /\ heads' = heads
      /\ m.id \notin DOMAIN quarantine
      /\ \/ quarantine' = quarantine
         \/ quarantine' = [id \in DOMAIN quarantine \cup {m.id} |->
                              IF id = m.id THEN entry ELSE quarantine[id]]
    BY DEF QuarantineNew
<1> HIDE DEF entry
<1>3. \A e \in emitted' : e.entry.message = m
    BY <1>1, <1>2, EventFacts
<1>4. ASSUME NEW d \in Chain, d # m.chain
      PROVE  StateOf(d)' = StateOf(d)
    <2>1. /\ WaitingOn(d)' = WaitingOn(d)
          /\ \A id \in WaitingOn(d) : quarantine'[id] = quarantine[id]
        BY <1>1, <1>2, <1>4 DEF WaitingOn
    <2> QED BY <1>2, <2>1, SameStateOf
<1> QED BY <1>3, <1>4

LEMMA RaiseHeadIsolated ==
    ASSUME IInv, IInv', NEW c \in Chain, NEW h \in HeadHeight, RaiseHead(c, h)
    PROVE  /\ \A d \in Chain \ {c} : StateOf(d)' = StateOf(d)
           /\ \A e \in emitted' : e.entry.message.chain = c
<1> DEFINE counted == Counted(c, h)
           final == {i \in Indexed(c, Heights(c)) : Final(counted[i])}
<1>0. h \in Nat
    BY TrackerAssumption
<1>1. /\ heads' = [heads EXCEPT ![c] = h] /\ required' = required
      /\ quarantine' = [i \in DOMAIN counted \ final |-> counted[i]]
      /\ emitted' = Event("released", {counted[i] : i \in final})
    BY DEF RaiseHead, Drop, WithoutIds
<1>2. /\ DOMAIN counted = DOMAIN quarantine
      /\ \A i \in DOMAIN quarantine :
            /\ counted[i].message = quarantine[i].message
            /\ quarantine[i].message.chain # c => counted[i] = quarantine[i]
    BY <1>0, CountedFacts
<1>3. final \subseteq {i \in DOMAIN quarantine : quarantine[i].message.chain = c}
    BY IndexedAll
<1> HIDE DEF counted, final
<1>4. \A e \in emitted' : e.entry.message.chain = c
    BY <1>1, <1>2, <1>3, EventFacts
<1>5. ASSUME NEW d \in Chain, d # c
      PROVE  StateOf(d)' = StateOf(d)
    <2>1. heads'[d] = heads[d]
        BY <1>1, <1>5 DEF IInv, TypeOK
    <2>2. /\ WaitingOn(d)' = WaitingOn(d)
          /\ \A id \in WaitingOn(d) : quarantine'[id] = quarantine[id]
        BY <1>1, <1>2, <1>3, <1>5 DEF WaitingOn
    <2> QED BY <1>1, <2>1, <2>2, SameStateOf
<1> QED BY <1>4, <1>5

LEMMA HandleReorgIsolated ==
    ASSUME IInv, IInv', NEW c \in Chain, NEW hs \in SUBSET HeadHeight, HandleReorg(c, hs)
    PROVE  /\ \A d \in Chain \ {c} : StateOf(d)' = StateOf(d)
           /\ \A e \in emitted' : e.entry.message.chain = c
<1> DEFINE lost == Indexed(c, hs)
<1>1. /\ required' = required /\ heads' = heads
      /\ quarantine' = [i \in DOMAIN quarantine \ lost |-> quarantine[i]]
      /\ emitted' = Event("rolledBack", {quarantine[i] : i \in lost})
    BY DEF HandleReorg, Anchored, WithoutIds
<1>2. lost \subseteq {i \in DOMAIN quarantine : quarantine[i].message.chain = c}
    BY IndexedExactly
<1> HIDE DEF lost
<1>3. \A e \in emitted' : e.entry.message.chain = c
    BY <1>1, <1>2, EventFacts
<1>4. ASSUME NEW d \in Chain, d # c
      PROVE  StateOf(d)' = StateOf(d)
    <2>1. /\ WaitingOn(d)' = WaitingOn(d)
          /\ \A id \in WaitingOn(d) : quarantine'[id] = quarantine[id]
        BY <1>1, <1>2, <1>4 DEF WaitingOn
    <2> QED BY <1>1, <2>1, SameStateOf
<1> QED BY <1>3, <1>4

LEMMA OperationIsolated ==
    ASSUME IInv, IInv', NEW c \in Chain, OperationOn(c)
    PROVE  /\ \A d \in Chain \ {c} : StateOf(d)' = StateOf(d)
           /\ \A e \in emitted' : e.entry.message.chain = c
<1> DEFINE Isolated == /\ \A d \in Chain \ {c} : StateOf(d)' = StateOf(d)
                       /\ \A e \in emitted' : e.entry.message.chain = c
<1>1. ASSUME NEW n \in Depths, SetChainConfig(c, n) PROVE Isolated
    <2>1. /\ required' = [required EXCEPT ![c] = n]
          /\ emitted' = {} /\ heads' = heads /\ quarantine' = quarantine
        BY <1>1 DEF SetChainConfig
    <2>2. ASSUME NEW d \in Chain, d # c PROVE StateOf(d)' = StateOf(d)
        <3>1. required'[d] = required[d]
            BY <2>1, <2>2 DEF IInv, TypeOK
        <3>2. WaitingOn(d)' = WaitingOn(d)
            BY <2>1 DEF WaitingOn
        <3> QED BY <2>1, <3>1, <3>2, SameStateOf
    <2> QED BY <2>1, <2>2
<1>2. ASSUME NEW m \in Message, m.chain = c, QuarantineMessage(m) PROVE Isolated
    <2>1. CASE QuarantineAgain(m)
        BY <2>1, NothingHeldChanges DEF QuarantineAgain
    <2>2. CASE QuarantineNew(m)
        BY <1>2, <2>2, QuarantineNewIsolated
    <2> QED BY <1>2, <2>1, <2>2 DEF QuarantineMessage
<1>3. ASSUME NEW h \in HeadHeight, AdvanceHead(c, h) PROVE Isolated
    <2>1. CASE IgnoreLowerHead(c, h)
        BY <2>1, NothingHeldChanges DEF IgnoreLowerHead
    <2>2. CASE RaiseHead(c, h)
        BY <2>2, RaiseHeadIsolated
    <2> QED BY <1>3, <2>1, <2>2 DEF AdvanceHead
<1>4. ASSUME NEW hs \in SUBSET HeadHeight, HandleReorg(c, hs) PROVE Isolated
    BY <1>4, HandleReorgIsolated
<1> QED BY <1>1, <1>2, <1>3, <1>4 DEF OperationOn

\* A call for one chain changes nothing the tracker holds of another chain and
\* announces messages of its own chain only.
THEOREM ChainIsolation == Spec => ChainsAreIsolated
<1>1. IInv /\ IInv' /\ [Next]_vars =>
         [ \A c \in Chain : OperationOn(c) =>
              /\ \A d \in Chain \ {c} : StateOf(d)' = StateOf(d)
              /\ \A e \in emitted' : e.entry.message.chain = c ]_vars
    BY OperationIsolated
<1> QED BY <1>1, Invariance, PTL DEF Spec, ChainsAreIsolated

\* A message whose entry, head and depth are as before was overdue before.
LEMMA OverdueBefore ==
    ASSUME NEW id \in DOMAIN quarantine, quarantine'[id] = quarantine[id],
           required' = required,
           heads'[quarantine[id].message.chain] = heads[quarantine[id].message.chain],
           Overdue(id)'
    PROVE  StaysOverdue(id)
BY DEF Overdue, StaysOverdue

LEMMA QuarantineNewOverdue ==
    ASSUME IInv, NEW m \in Message, QuarantineNew(m),
           NEW id \in DOMAIN quarantine', Overdue(id)'
    PROVE  StaysOverdue(id)
<1> DEFINE depth == Depth(m, heads[m.chain])
           entry == [message |-> m, confirmations |-> IF depth > 0 THEN depth ELSE 0]
<1>1. required' = required /\ heads' = heads
    BY DEF QuarantineNew
<1>2. CASE FinalAtOnce(entry)
    BY <1>1, <1>2, OverdueBefore DEF QuarantineNew
<1>3. CASE ~FinalAtOnce(entry)
    <2>1. quarantine' = [i \in DOMAIN quarantine \cup {m.id} |->
                            IF i = m.id THEN entry ELSE quarantine[i]]
        BY <1>3 DEF QuarantineNew
    <2>2. CASE id = m.id
        <3>1. ~(depth >= required[m.chain])
            BY <1>3, NewEntryFacts DEF IInv, FinalAtOnce
        <3>2. quarantine'[id].message = m
            BY <2>1, <2>2
        <3> QED BY <1>1, <3>1, <3>2 DEF Overdue
    <2>3. CASE id # m.id
        BY <1>1, <2>1, <2>3, OverdueBefore
    <2> QED BY <2>2, <2>3
<1> QED BY <1>2, <1>3

\* advanceHead releases every message of its chain that is deep enough.
LEMMA RaiseHeadOverdue ==
    ASSUME IInv, NEW c \in Chain, NEW h \in HeadHeight, RaiseHead(c, h),
           NEW id \in DOMAIN quarantine', Overdue(id)'
    PROVE  StaysOverdue(id)
<1> DEFINE counted == Counted(c, h)
           final == {i \in Indexed(c, Heights(c)) : Final(counted[i])}
           m == quarantine[id].message
<1>0. h \in Nat
    BY TrackerAssumption
<1>1. /\ heads' = [heads EXCEPT ![c] = h]
      /\ quarantine' = [i \in DOMAIN counted \ final |-> counted[i]]
      /\ required' = required
    BY DEF RaiseHead, Drop, WithoutIds
<1>2. /\ DOMAIN counted = DOMAIN quarantine
      /\ \A i \in DOMAIN quarantine :
            /\ counted[i].message = quarantine[i].message
            /\ quarantine[i].message.chain = c =>
                  counted[i].confirmations = Depth(quarantine[i].message, h)
            /\ quarantine[i].message.chain # c => counted[i] = quarantine[i]
    BY <1>0, CountedFacts
<1>3. final = {i \in DOMAIN quarantine : quarantine[i].message.chain = c /\ Final(counted[i])}
    BY IndexedAll
<1> HIDE DEF counted, final
<1>4. id \in DOMAIN quarantine /\ id \notin final /\ quarantine'[id] = counted[id]
    BY <1>1, <1>2
<1>5. \A d \in Chain : heads'[d] = IF d = c THEN h ELSE heads[d]
    BY <1>1 DEF IInv, TypeOK
<1>6. m.chain \in Chain
    BY <1>4, MessageFields DEF IInv, TypeOK, Entry
<1>7. CASE m.chain = c
    <2>1. ~(Depth(m, h) >= required[c])
        BY <1>2, <1>3, <1>4, <1>7 DEF Final
    <2> QED BY <1>1, <1>2, <1>4, <1>5, <1>7, <2>1 DEF Overdue
<1>8. CASE m.chain # c
    BY <1>1, <1>2, <1>4, <1>5, <1>6, <1>8, OverdueBefore
<1> QED BY <1>7, <1>8

LEMMA NextOverdue ==
    ASSUME IInv, Next, required' = required, NEW id \in DOMAIN quarantine', Overdue(id)'
    PROVE  StaysOverdue(id)
<1>1. ASSUME NEW c \in Chain, NEW n \in Depths, SetChainConfig(c, n) PROVE StaysOverdue(id)
    BY <1>1, OverdueBefore DEF SetChainConfig
<1>2. ASSUME NEW m \in Message, QuarantineMessage(m) PROVE StaysOverdue(id)
    BY <1>2, QuarantineNewOverdue, OverdueBefore DEF QuarantineMessage, QuarantineAgain
<1>3. ASSUME NEW c \in Chain, NEW h \in HeadHeight, AdvanceHead(c, h) PROVE StaysOverdue(id)
    BY <1>3, RaiseHeadOverdue, OverdueBefore DEF AdvanceHead, IgnoreLowerHead
<1>4. ASSUME NEW c \in Chain, NEW hs \in SUBSET HeadHeight, HandleReorg(c, hs)
      PROVE  StaysOverdue(id)
    <2>1. /\ id \in DOMAIN quarantine /\ quarantine'[id] = quarantine[id]
          /\ heads' = heads
        BY <1>4 DEF HandleReorg, WithoutIds
    <2> QED BY <2>1, OverdueBefore
<1> QED BY <1>1, <1>2, <1>3, <1>4 DEF Next

\* A message waits at a final depth only between a change of its chain's
\* configuration and the next head (finality-tracker.ts:130-137, 200-215).
THEOREM OnlyConfigMakesOverdue == Spec => OverdueOnlyByConfig
<1>1. IInv /\ [Next]_vars =>
         [ required' = required =>
              \A id \in DOMAIN quarantine' : Overdue(id)' => StaysOverdue(id) ]_vars
    BY NextOverdue
<1> QED BY <1>1, Invariance, PTL DEF Spec, OverdueOnlyByConfig
------------------------------------------------------------------------------
(* What one call does to the quarantine, and what it hands over *)

\* The release events of message id.
Released(id) == {e \in emitted : e.type = "released" /\ e.entry.message.id = id}

\* quarantineMessage of a new message hands over that message or keeps it.
LEMMA QuarantineNewFacts ==
    ASSUME IInv, NEW m \in Message, QuarantineNew(m)
    PROVE  /\ UNCHANGED <<required, heads>>
           /\ \A id : id # m.id => Released(id)' = {}
           /\ \/ /\ Depth(m, heads[m.chain]) >= required[m.chain]
                 /\ quarantine' = quarantine
                 /\ \E e : Released(m.id)' = {e}
              \/ /\ ~(Depth(m, heads[m.chain]) >= required[m.chain])
                 /\ Released(m.id)' = {}
                 /\ DOMAIN quarantine' = DOMAIN quarantine \cup {m.id}
                 /\ quarantine'[m.id].message = m
                 /\ \A id \in DOMAIN quarantine : quarantine'[id] = quarantine[id]
<1> DEFINE depth == Depth(m, heads[m.chain])
           entry == [message |-> m, confirmations |-> IF depth > 0 THEN depth ELSE 0]
<1>1. /\ entry \in Entry /\ entry.message = m /\ depth \in Int
      /\ entry.confirmations = (IF depth > 0 THEN depth ELSE 0)
      /\ required[m.chain] \in Nat
    BY NewEntryFacts, MessageFields DEF IInv, TypeOK
<1>2. UNCHANGED <<required, heads>> /\ m.id \notin DOMAIN quarantine /\ required[m.chain] > 0
    BY DEF QuarantineNew, Configured
<1>3. CASE FinalAtOnce(entry)
  <2>1. /\ emitted' = Event("quarantined", {entry}) \cup Event("released", {entry})
        /\ quarantine' = quarantine
      BY <1>3 DEF QuarantineNew
  <2>2. \A e \in emitted' : e = [type |-> "quarantined", entry |-> entry]
                         \/ e = [type |-> "released", entry |-> entry]
      BY <2>1 DEF Event
  <2>3. [type |-> "released", entry |-> entry] \in emitted'
      BY <2>1 DEF Event
  <2> HIDE DEF entry
  <2>4. Released(m.id)' = {[type |-> "released", entry |-> entry]}
      BY <2>2, <2>3, <1>1 DEF Released
  <2>5. \A id : id # m.id => Released(id)' = {}
      BY <2>2, <1>1 DEF Released
  <2>6. depth >= required[m.chain]
      BY <1>1, <1>2, <1>3 DEF FinalAtOnce, Final
  <2> HIDE DEF depth
  <2> QED BY <1>2, <2>1, <2>4, <2>5, <2>6 DEF depth
<1>4. CASE ~FinalAtOnce(entry)
  <2>1. /\ emitted' = Event("quarantined", {entry})
        /\ quarantine' = [id \in DOMAIN quarantine \cup {m.id} |->
                             IF id = m.id THEN entry ELSE quarantine[id]]
      BY <1>4 DEF QuarantineNew
  <2>2. \A id : Released(id)' = {}
      BY <2>1 DEF Event, Released
  <2>3. ~(depth >= required[m.chain])
      BY <1>1, <1>4 DEF FinalAtOnce, Final
  <2> HIDE DEF entry, depth
  <2>4. /\ DOMAIN quarantine' = DOMAIN quarantine \cup {m.id}
        /\ quarantine'[m.id] = entry
        /\ \A id \in DOMAIN quarantine : quarantine'[id] = quarantine[id]
      BY <2>1, <1>2
  <2> QED BY <1>1, <1>2, <2>2, <2>3, <2>4 DEF depth
<1> QED BY <1>3, <1>4

\* What advanceHead(c, h) releases.
Ripe(c, h) == {id \in DOMAIN quarantine : /\ quarantine[id].message.chain = c
                                          /\ Depth(quarantine[id].message, h) >= required[c]}

\* A head hands over each message of its chain that is deep enough once, and
\* touches no other.
LEMMA RaiseHeadFacts ==
    ASSUME IInv, NEW c \in Chain, NEW h \in HeadHeight, RaiseHead(c, h)
    PROVE  /\ heads' = [heads EXCEPT ![c] = h] /\ required' = required /\ h >= heads[c]
           /\ DOMAIN quarantine' = DOMAIN quarantine \ Ripe(c, h)
           /\ \A id \in DOMAIN quarantine' : quarantine'[id].message = quarantine[id].message
           /\ \A id \in Ripe(c, h) : \E e : Released(id)' = {e}
           /\ \A id : id \notin Ripe(c, h) => Released(id)' = {}
<1> DEFINE counted == Counted(c, h)
           final == {id \in Indexed(c, Heights(c)) : Final(counted[id])}
<1>0. h \in Nat
    BY TrackerAssumption
<1>1. /\ heads' = [heads EXCEPT ![c] = h] /\ required' = required /\ h >= heads[c]
      /\ quarantine' = [id \in DOMAIN counted \ final |-> counted[id]]
      /\ emitted' = Event("released", {counted[id] : id \in final})
    BY DEF RaiseHead, Drop, WithoutIds
<1>2. /\ DOMAIN counted = DOMAIN quarantine
      /\ \A id \in DOMAIN quarantine :
            /\ counted[id].message = quarantine[id].message
            /\ quarantine[id].message.chain = c =>
                  counted[id].confirmations = Depth(quarantine[id].message, h)
    BY <1>0, CountedFacts
<1>3. final = Ripe(c, h)
    BY <1>2, IndexedAll DEF Final, Ripe
<1>4. \A id \in DOMAIN quarantine : counted[id].message.id = id
    BY <1>2 DEF IInv, KeyedById
<1> HIDE DEF counted, final
<1>5. /\ DOMAIN quarantine' = DOMAIN quarantine \ final
      /\ \A id \in DOMAIN quarantine' : quarantine'[id].message = quarantine[id].message
    BY <1>1, <1>2
<1>6. /\ \A e \in emitted' : \E id \in final : e = [type |-> "released", entry |-> counted[id]]
      /\ \A id \in final : [type |-> "released", entry |-> counted[id]] \in emitted'
    BY <1>1 DEF Event
<1>7. final \subseteq DOMAIN quarantine
    BY <1>3 DEF Ripe
<1>8. ASSUME NEW id \in final
      PROVE  Released(id)' = {[type |-> "released", entry |-> counted[id]]}
    BY <1>4, <1>6, <1>7 DEF Released
<1>9. ASSUME NEW id, id \notin final PROVE Released(id)' = {}
    BY <1>4, <1>6, <1>7, <1>9 DEF Released
<1> QED BY <1>1, <1>3, <1>5, <1>8, <1>9

\* A re-org takes out the messages of its chain at the invalidated heights,
\* and hands nothing over.
LEMMA HandleReorgFacts ==
    ASSUME IInv, NEW c \in Chain, NEW hs \in SUBSET HeadHeight, HandleReorg(c, hs)
    PROVE  /\ UNCHANGED <<required, heads>>
           /\ DOMAIN quarantine' = {id \in DOMAIN quarantine :
                                       ~(/\ quarantine[id].message.chain = c
                                         /\ quarantine[id].message.height \in hs)}
           /\ \A id \in DOMAIN quarantine' : quarantine'[id] = quarantine[id]
           /\ \A id : Released(id)' = {}
<1>1. /\ quarantine' = [id \in DOMAIN quarantine \ Indexed(c, hs) |-> quarantine[id]]
      /\ emitted' = Event("rolledBack", {quarantine[id] : id \in Indexed(c, hs)})
      /\ UNCHANGED <<required, heads>>
    BY DEF HandleReorg, Anchored, WithoutIds
<1>2. \A id : Released(id)' = {}
    BY <1>1 DEF Event, Released
<1>3. /\ DOMAIN quarantine' = DOMAIN quarantine \ Indexed(c, hs)
      /\ \A id \in DOMAIN quarantine' : quarantine'[id] = quarantine[id]
    BY <1>1
<1> QED BY <1>1, <1>2, <1>3, IndexedExactly
==============================================================================
