-------------------------- MODULE ReconnectorProofs --------------------------
(***************************************************************************)
(* Theorems of WebSocketReconnector, for any number of connections,        *)
(* attempts and backfills and a chain of any length.                       *)
(*                                                                         *)
(* Under the caller's patience no timer is ever orphaned and no connection *)
(* closes while another is running, which makes the ways up one of four.   *)
(* That no missed block is forgotten rests on where the blocks not yet     *)
(* reported lie: above what has been processed, or above what a backfill   *)
(* read (websocket-reconnector.ts:185-203 and 254-282).                    *)
(***************************************************************************)
EXTENDS WebSocketReconnector, SequenceTheorems, FiniteSetTheorems, TLAPS

LifeTypes ==
    /\ phase \in [Connection -> Phase]
    /\ socket \in Connection \cup {0}
    /\ stopped \in BOOLEAN /\ held \in BOOLEAN /\ exhausted \in BOOLEAN
    /\ attempt \in 0..MaxAttempts
    /\ orphans \in Nat

FeedTypes ==
    /\ head \in 0..MaxHead /\ base \in 0..head /\ processed \in 0..head
    /\ inTransit \subseteq 1..head
    /\ reported \subseteq 1..head
    /\ reads \in Seq(0..head)

Quiet == ~held /\ In({"connecting"}) = {}

\* It awaits one connection, has one, waits for its timer or has given up.
OneWay ==
    \/ ~exhausted /\ ~held /\ socket = 0 /\ \E c \in Connection : In({"connecting"}) = {c}
    \/ ~exhausted /\ Quiet /\ socket # 0
    \/ ~exhausted /\ held /\ socket = 0 /\ In({"connecting"}) = {}
    \/ exhausted /\ Quiet /\ socket = 0

LifeInv ==
    /\ LifeTypes
    /\ ConnectedIsTrue
    /\ orphans = 0
    /\ stopped => socket = 0 /\ ~held
    /\ ~stopped => In({"closing"}) = {} /\ OneWay

ReadsAreOld == \A i \in 1..Len(reads) : reads[i] <= processed

\* A block that is to be reported and has not been.
Unreported == (base + 1)..head \ reported

Named(h) == \E i \in 1..Len(reads) : reads[i] < h

FeedInv ==
    /\ FeedTypes
    /\ ReadsAreOld
    /\ inTransit # {} => In({"open"}) # {}
    /\ \A h \in inTransit \ reported : h > processed
    /\ \A h \in Unreported : h > processed \/ Named(h)
    /\ In({"open"}) # {} => \A h \in Unreported : h \in inTransit \/ Named(h)
------------------------------------------------------------------------------
(* Lemmas about the operators *)

LEMMA HeightMaxFacts ==
    ASSUME NEW a \in Nat, NEW b \in Nat
    PROVE  HeightMax({a, b}) = IF a >= b THEN a ELSE b
<1> DEFINE top == IF a >= b THEN a ELSE b
           Highest(h) == \A k \in {a, b} : h >= k
<1>1. top \in {a, b} /\ Highest(top)
    OBVIOUS
<1>2. ASSUME NEW h \in {a, b}, Highest(h) PROVE h = top
    BY <1>2
<1>3. HeightMax({a, b}) \in {a, b} /\ Highest(HeightMax({a, b}))
    BY <1>1 DEF HeightMax
<1> QED BY <1>2, <1>3

\* A backfill that has been dealt with leaves the others.
LEMMA WithoutFacts ==
    ASSUME NEW S, reads \in Seq(S), NEW i \in 1..Len(reads)
    PROVE  /\ Without(i) \in Seq(S)
           /\ \A k \in 1..Len(Without(i)) : \E j \in 1..Len(reads) : Without(i)[k] = reads[j]
           /\ \A j \in 1..Len(reads) : j # i => \E k \in 1..Len(Without(i)) : Without(i)[k] = reads[j]
<1> DEFINE front == SubSeq(reads, 1, i - 1)
           back == SubSeq(reads, i + 1, Len(reads))
           rest == front \o back
           From(k) == IF k < i THEN k ELSE k + 1
<1>0. Len(reads) \in Nat /\ \A k \in 1..Len(reads) : reads[k] \in S
    BY LenProperties, ElementOfSeq
<1>1. /\ front \in Seq(S) /\ Len(front) = i - 1
      /\ \A k \in 1..i - 1 : front[k] = reads[k]
    <2>1. 1 \in Int /\ i - 1 \in Int /\ \A k \in 1..i - 1 : reads[k] \in S
        BY <1>0
    <2>2. /\ front \in Seq(S)
          /\ Len(front) = IF 1 <= i - 1 THEN (i - 1) - 1 + 1 ELSE 0
          /\ \A k \in 1..(i - 1) - 1 + 1 : front[k] = reads[1 + k - 1]
        BY <2>1, SubSeqProperties
    <2> HIDE DEF front
    <2> QED BY <1>0, <2>2
<1>2. /\ back \in Seq(S) /\ Len(back) = Len(reads) - i
      /\ \A k \in 1..Len(reads) - i : back[k] = reads[i + k]
    <2>1. i + 1 \in Int /\ Len(reads) \in Int /\ \A k \in i + 1..Len(reads) : reads[k] \in S
        BY <1>0
    <2>2. /\ back \in Seq(S)
          /\ Len(back) = IF i + 1 <= Len(reads) THEN Len(reads) - (i + 1) + 1 ELSE 0
          /\ \A k \in 1..Len(reads) - (i + 1) + 1 : back[k] = reads[i + 1 + k - 1]
        BY <2>1, SubSeqProperties
    <2> HIDE DEF back
    <2> QED BY <1>0, <2>2
<1>3. /\ rest \in Seq(S)
      /\ Len(rest) = Len(front) + Len(back)
      /\ \A k \in 1..Len(front) + Len(back) :
            rest[k] = IF k <= Len(front) THEN front[k] ELSE back[k - Len(front)]
    BY <1>1, <1>2, ConcatProperties
<1>6. Without(i) = rest
    BY DEF Without
<1> HIDE DEF front, back, rest
<1>7. /\ Len(rest) = Len(reads) - 1
      /\ \A k \in 1..Len(rest) : From(k) \in 1..Len(reads) /\ rest[k] = reads[From(k)]
    BY <1>0, <1>1, <1>2, <1>3
<1>4. ASSUME NEW k \in 1..Len(rest) PROVE \E j \in 1..Len(reads) : rest[k] = reads[j]
  <2> HIDE DEF From
  <2> QED BY <1>7
<1>5. ASSUME NEW j \in 1..Len(reads), j # i PROVE \E k \in 1..Len(rest) : rest[k] = reads[j]
  <2>1. PICK k \in 1..Len(rest) : j = From(k)
    <3>1. CASE j < i
        BY <1>0, <1>7, <3>1
    <3>2. CASE j > i
      <4>1. j - 1 \in 1..Len(rest) /\ j = From(j - 1)
          BY <1>0, <1>7, <3>2
      <4> QED BY <4>1
    <3> QED BY <1>0, <1>5, <3>1, <3>2
  <2> QED BY <1>7, <2>1
<1> QED BY <1>3, <1>4, <1>5, <1>6

\* One connection moves.
Moved(set, c, isIn) == IF isIn THEN set \cup {c} ELSE set \ {c}

LEMMA MoveFacts ==
    ASSUME LifeTypes, NEW c \in Connection, NEW p \in Phase, phase' = [phase EXCEPT ![c] = p]
    PROVE  /\ Live' = Moved(Live, c, p \in {"attached", "open"})
           /\ In({"connecting"})' = Moved(In({"connecting"}), c, p = "connecting")
           /\ In({"closing"})' = Moved(In({"closing"}), c, p = "closing")
           /\ In({"open"})' = Moved(In({"open"}), c, p = "open")
<1>1. phase'[c] = p /\ \A d \in Connection : d # c => phase'[d] = phase[d]
    BY DEF LifeTypes
<1>2. Live' = Moved(Live, c, p \in {"attached", "open"})
    BY <1>1 DEF In, Live, Moved
<1>3. In({"connecting"})' = Moved(In({"connecting"}), c, p = "connecting")
    BY <1>1 DEF In, Moved
<1>4. In({"closing"})' = Moved(In({"closing"}), c, p = "closing")
    BY <1>1 DEF In, Moved
<1>5. In({"open"})' = Moved(In({"open"}), c, p = "open")
    BY <1>1 DEF In, Moved
<1> QED BY <1>2, <1>3, <1>4, <1>5

------------------------------------------------------------------------------
(* Types *)

LEMMA ConnectTypes ==
    ASSUME NEW p \in [Connection -> Phase], Connect(p)
    PROVE  phase' \in [Connection -> Phase]
BY DEF Connect, Phase

LEMMA LifeTypesNext == LifeTypes /\ [Next]_vars => LifeTypes'
<1> SUFFICES ASSUME LifeTypes, [Next]_vars PROVE LifeTypes'
    OBVIOUS
<1> USE ReconnectorAssumption DEF LifeTypes, Phase
<1>1. CASE Start
  <2>1. phase' \in [Connection -> Phase]
      BY <1>1, ConnectTypes DEF Start
  <2>2. stopped' \in BOOLEAN /\ held' \in BOOLEAN /\ exhausted' \in BOOLEAN
      BY <1>1 DEF Start
  <2>3. attempt' \in 0..MaxAttempts
      BY <1>1 DEF Start
  <2>4. socket' \in Connection \cup {0} /\ orphans' \in Nat
      BY <1>1 DEF Start
  <2> QED BY <2>1, <2>2, <2>3, <2>4
<1>2. CASE Stop
    BY <1>2 DEF Stop, HeldAfterStop
<1>3. ASSUME NEW c \in Connection, HandleDrop(c) PROVE LifeTypes'
  <2>1. phase' \in [Connection -> Phase] /\ socket' = 0 /\ UNCHANGED stopped
      BY <1>3 DEF HandleDrop, SocketAfterDrop
  <2>2. CASE UNCHANGED <<attempt, held, orphans, exhausted>>
      BY <2>1, <2>2
  <2>3. CASE ScheduleReconnect
    <3>1. CASE Exhausted
        BY <2>1, <2>3, <3>1 DEF ScheduleReconnect
    <3>2. CASE ~Exhausted
      <4>1. held' = TRUE /\ UNCHANGED exhausted
          BY <2>3, <3>2 DEF ScheduleReconnect
      <4>2. attempt' \in 0..MaxAttempts
          BY <2>3, <3>2 DEF ScheduleReconnect, Exhausted, NextAttempt
      <4>3. orphans' \in Nat
          BY <2>3, <3>2 DEF ScheduleReconnect
      <4> QED BY <2>1, <4>1, <4>2, <4>3
    <3> QED BY <3>1, <3>2
  <2> QED BY <1>3, <2>2, <2>3 DEF HandleDrop
<1>4. ASSUME NEW c \in Connection, ConnectResolves(c) PROVE LifeTypes'
    BY <1>4 DEF ConnectResolves
<1>5. ASSUME NEW c \in Connection, Opens(c) PROVE LifeTypes'
    BY <1>5 DEF Opens
<1>6. CASE TimerFires
  <2>1. phase' \in [Connection -> Phase]
      BY <1>6, ConnectTypes DEF TimerFires
  <2>2. orphans' \in Nat
      BY <1>6 DEF TimerFires
  <2> QED BY <1>6, <2>1, <2>2 DEF TimerFires
<1>7. CASE Backfill \/ BackfillFails \/ NewBlock \/ Message \/ UNCHANGED vars
  <2>1. UNCHANGED lifeVars
      BY <1>7 DEF Backfill, BackfillFails, NewBlock, Message, vars
  <2> QED BY <2>1 DEF lifeVars
<1> QED BY <1>1, <1>2, <1>3, <1>4, <1>5, <1>6, <1>7
        DEF Next, Settles, Proceeds, ConnectFails, Closes

LEMMA GrowingSeq ==
    ASSUME NEW n \in Nat, NEW m \in Nat, n <= m, NEW s \in Seq(0..n)
    PROVE  s \in Seq(0..m)
<1>1. 0..n \subseteq 0..m
    OBVIOUS
<1>2. Len(s) \in Nat /\ s \in [1..Len(s) -> 0..n]
    BY LenProperties
<1>3. s \in [1..Len(s) -> 0..m]
    BY <1>1, <1>2
<1> QED BY <1>2, <1>3, SeqDef

\* The answer to the i-th waiting backfill.
Answered(i, from) ==
    /\ reads' = Without(i)
    /\ IF head <= from
       THEN UNCHANGED <<reported, processed>>
       ELSE /\ reported' = reported \cup FirstMissed(from)..head
            /\ processed' \in {processed, head}

LEMMA FeedTypesNext == LifeTypes /\ FeedTypes /\ [Next]_vars => FeedTypes'
<1> SUFFICES ASSUME LifeTypes, FeedTypes, [Next]_vars PROVE FeedTypes'
    OBVIOUS
<1>0. /\ head \in Nat /\ head <= MaxHead /\ base \in 0..head /\ processed \in 0..head
      /\ inTransit \subseteq 1..head /\ reported \subseteq 1..head /\ reads \in Seq(0..head)
      /\ MaxHead \in Nat
    BY ReconnectorAssumption DEF FeedTypes
<1>1. ASSUME head' = head, base' \in 0..head, processed' \in 0..head,
             inTransit' \subseteq 1..head, reported' \subseteq 1..head, reads' \in Seq(0..head)
      PROVE  FeedTypes'
    BY <1>0, <1>1 DEF FeedTypes
<1>2. CASE Start \/ Stop \/ (\E c \in Connection : HandleDrop(c) \/ ConnectResolves(c))
           \/ TimerFires \/ UNCHANGED vars
  <2>1. /\ inTransit' = {} \/ inTransit' = inTransit
        /\ base' = base \/ base' = head
        /\ UNCHANGED <<head, processed, reported, reads>>
      BY <1>2 DEF Start, Stop, HandleDrop, ConnectResolves, TimerFires, feedVars, vars
  <2>2. base' \in 0..head
      BY <1>0, <2>1
  <2>3. inTransit' \subseteq 1..head
      BY <1>0, <2>1
  <2> QED BY <1>0, <1>1, <2>1, <2>2, <2>3
<1>3. ASSUME NEW c \in Connection, Opens(c) PROVE FeedTypes'
  <2>1. /\ base' = base \/ base' = head
        /\ reads' = reads \/ reads' = Append(reads, processed)
        /\ UNCHANGED <<head, processed, reported, inTransit>>
      BY <1>3 DEF Opens
  <2>2. base' \in 0..head
      BY <1>0, <2>1
  <2>3. Append(reads, processed) \in Seq(0..head)
      BY <1>0, AppendProperties
  <2>4. reads' \in Seq(0..head)
      BY <1>0, <2>1, <2>3
  <2> QED BY <1>0, <1>1, <2>1, <2>2, <2>4
<1>4. CASE Backfill
  <2>0. PICK i \in 1..Len(reads) :
            \E from \in {reads[i]} \cup (IF LateReads THEN {processed} ELSE {}) : Answered(i, from)
      BY <1>4 DEF Backfill, Answered
  <2>1. PICK from \in {reads[i]} \cup (IF LateReads THEN {processed} ELSE {}) : Answered(i, from)
      BY <2>0
  <2>2. UNCHANGED <<head, inTransit, base>>
      BY <1>4 DEF Backfill
  <2>3. reads' \in Seq(0..head)
      BY <1>0, <2>1, WithoutFacts DEF Answered
  <2>4. from \in 0..head
      BY <1>0, <2>1, ElementOfSeq
  <2>5. processed' = processed \/ processed' = head
      BY <2>1 DEF Answered
  <2>6. reported' = reported \/ reported' = reported \cup (from + 1)..head
      BY <2>1 DEF Answered, FirstMissed
  <2>7. (from + 1)..head \subseteq 1..head
      BY <1>0, <2>4
  <2>8. reported' \subseteq 1..head
      BY <1>0, <2>6, <2>7
  <2>9. processed' \in 0..head
      BY <1>0, <2>5
  <2> QED BY <1>0, <1>1, <2>2, <2>3, <2>8, <2>9
<1>5. CASE BackfillFails
  <2>1. PICK i \in 1..Len(reads) : reads' = Without(i)
      BY <1>5 DEF BackfillFails
  <2>2. base' = head /\ UNCHANGED <<head, inTransit, processed, reported>>
      BY <1>5 DEF BackfillFails
  <2>3. reads' \in Seq(0..head)
      BY <1>0, <2>1, WithoutFacts
  <2> QED BY <1>0, <2>2, <2>3 DEF FeedTypes
<1>6. CASE NewBlock
  <2>1. /\ head' = head + 1 /\ head < MaxHead
        /\ inTransit' \subseteq inTransit \cup {head + 1}
        /\ UNCHANGED <<processed, reported, base, reads>>
      BY <1>6 DEF NewBlock
  <2>2. reads \in Seq(0..(head + 1))
      BY <1>0, GrowingSeq
  <2> QED BY <1>0, <2>1, <2>2 DEF FeedTypes
<1>7. CASE Message
  <2>1. PICK h \in inTransit : /\ inTransit' = inTransit \ {h}
                               /\ reported' = reported \cup {h}
                               /\ processed' = HeightMax({processed, h})
      BY <1>7 DEF Message
  <2>2. UNCHANGED <<head, base, reads>>
      BY <1>7 DEF Message
  <2>3. h \in 1..head /\ processed \in Nat /\ h \in Nat
      BY <1>0
  <2>4. processed' = IF processed >= h THEN processed ELSE h
      BY <2>1, <2>3, HeightMaxFacts
  <2> QED BY <1>0, <2>1, <2>2, <2>3, <2>4 DEF FeedTypes
<1> QED BY <1>2, <1>3, <1>4, <1>5, <1>6, <1>7
        DEF Next, Settles, Proceeds, ConnectFails, Closes

LEMMA TypesInit == Init => LifeTypes /\ FeedTypes
<1> SUFFICES ASSUME Init PROVE LifeTypes /\ FeedTypes
    OBVIOUS
<1>1. LifeTypes
  <2>1. phase \in [Connection -> Phase]
      BY DEF Init, Phase
  <2>2. stopped \in BOOLEAN /\ held \in BOOLEAN /\ exhausted \in BOOLEAN
      BY DEF Init
  <2>3. attempt \in 0..MaxAttempts /\ orphans \in Nat /\ socket \in Connection \cup {0}
      BY ReconnectorAssumption DEF Init
  <2> QED BY <2>1, <2>2, <2>3 DEF LifeTypes
<1>2. <<>> \in Seq(0..head)
    BY EmptySeq
<1>3. FeedTypes
    BY ReconnectorAssumption, <1>2 DEF Init, FeedTypes
<1> QED BY <1>1, <1>3

\* For any constants, patience or not: every value has its type, and the
\* listener is never told of a block that the chain does not have.
THEOREM ReconnectorTypeCorrect == Spec => []TypeOK
<1>1. LifeTypes /\ FeedTypes /\ [Next]_vars => (LifeTypes /\ FeedTypes)'
    BY LifeTypesNext, FeedTypesNext
<1>2. LifeTypes /\ FeedTypes => TypeOK
    BY DEF LifeTypes, FeedTypes, TypeOK
<1> QED BY TypesInit, <1>1, <1>2, PTL DEF Spec
------------------------------------------------------------------------------
(* The ways up *)

\* The sets of connections a step leaves, where one connection moves.
LEMMA ConnectFacts ==
    ASSUME LifeTypes, Connect(phase)
    PROVE  /\ \E c \in Connection : In({"connecting"})' = In({"connecting"}) \cup {c}
           /\ Live' = Live /\ In({"closing"})' = In({"closing"}) /\ In({"open"})' = In({"open"})
<1>1. PICK c \in Connection : phase[c] = "none" /\ phase' = [phase EXCEPT ![c] = "connecting"]
    BY DEF Connect
<1>2. phase'[c] = "connecting" /\ \A d \in Connection : d # c => phase'[d] = phase[d]
    BY <1>1 DEF LifeTypes
<1> QED BY <1>1, <1>2 DEF In, Live

LEMMA StartLife == ASSUME PatientRestart, LifeInv, Start PROVE LifeTypes' => LifeInv'
<1>1. /\ socket = 0 /\ ~held /\ orphans = 0 /\ ConnectedIsTrue /\ LifeTypes
      /\ In({"connecting", "closing"}) = {}
    BY DEF LifeInv, Start, Settled
<1>2. In({"connecting"}) = {} /\ In({"closing"}) = {}
    BY <1>1 DEF In
<1>3. Connect(phase) /\ stopped' = FALSE /\ exhausted' = FALSE /\ UNCHANGED <<socket, held, orphans>>
    BY DEF Start
<1>4. /\ \E c \in Connection : In({"connecting"})' = {c}
      /\ Live' = Live /\ In({"closing"})' = {}
    BY <1>1, <1>2, <1>3, ConnectFacts
<1>5. ConnectedIsTrue'
    BY <1>1, <1>3, <1>4 DEF ConnectedIsTrue
<1>6. OneWay'
    BY <1>1, <1>3, <1>4 DEF OneWay
<1> QED BY <1>1, <1>3, <1>4, <1>5, <1>6 DEF LifeInv

LEMMA StopLife == ASSUME LifeInv, Stop PROVE LifeTypes' => LifeInv'
<1>1. LifeTypes /\ ConnectedIsTrue /\ orphans = 0
    BY DEF LifeInv
<1>2. stopped' = TRUE /\ held' = FALSE /\ socket' = 0 /\ UNCHANGED orphans
    BY DEF Stop, HeldAfterStop
<1>3. phase' = IF socket = 0 THEN phase ELSE [phase EXCEPT ![socket] = "closing"]
    BY DEF Stop
<1>4. Live' = {}
  <2>1. CASE socket = 0
      BY <1>1, <1>3, <2>1 DEF ConnectedIsTrue, Live, In
  <2>2. CASE socket # 0
    <3>1. socket \in Connection /\ Live = {socket} /\ "closing" \in Phase
        BY <1>1, <2>2 DEF ConnectedIsTrue, LifeTypes, Phase
    <3>2. Live' = Live \ {socket}
        BY <1>1, <1>3, <2>2, <3>1, MoveFacts DEF Moved
    <3> QED BY <3>1, <3>2
  <2> QED BY <2>1, <2>2
<1> QED BY <1>1, <1>2, <1>4 DEF LifeInv, ConnectedIsTrue

LEMMA DropLife ==
    ASSUME LifeInv, NEW c \in Connection, HandleDrop(c),
           phase[c] \in {"connecting", "attached", "open", "closing"}
    PROVE  LifeTypes' => LifeInv'
<1>1. LifeTypes /\ ConnectedIsTrue /\ orphans = 0
    BY DEF LifeInv
<1>2. /\ phase' = [phase EXCEPT ![c] = "none"] /\ socket' = 0 /\ UNCHANGED stopped
      /\ IF stopped THEN UNCHANGED <<attempt, held, orphans, exhausted>> ELSE ScheduleReconnect
    BY DEF HandleDrop, SocketAfterDrop
<1>3. "none" \in Phase
    BY DEF Phase
<1>4. /\ Live' = Live \ {c} /\ In({"closing"})' = In({"closing"}) \ {c}
      /\ In({"connecting"})' = In({"connecting"}) \ {c}
    BY <1>1, <1>2, <1>3, MoveFacts DEF Moved
<1>5. CASE stopped
  <2>1. Live' = {}
      BY <1>1, <1>4, <1>5 DEF LifeInv, ConnectedIsTrue
  <2> QED BY <1>1, <1>2, <1>5, <2>1 DEF LifeInv, ConnectedIsTrue
<1>6. CASE ~stopped
  <2>1. In({"closing"}) = {} /\ OneWay /\ socket \in Connection \cup {0}
      BY <1>6 DEF LifeInv, LifeTypes
  <2>2. c \in In({"connecting"}) \/ c \in Live
      BY <2>1 DEF In, Live
  <2>3. ~held /\ ~exhausted /\ Live \subseteq {c} /\ In({"connecting"}) \subseteq {c}
    <3>1. CASE c \in In({"connecting"})
      <4>1. ~exhausted /\ ~held /\ socket = 0 /\ \E d \in Connection : In({"connecting"}) = {d}
          BY <2>1, <3>1 DEF OneWay, Quiet
      <4> QED BY <1>1, <3>1, <4>1 DEF ConnectedIsTrue
    <3>2. CASE c \in Live
      <4>1. socket # 0 /\ Live = {c}
          BY <1>1, <3>2 DEF ConnectedIsTrue
      <4> QED BY <2>1, <4>1 DEF OneWay, Quiet
    <3> QED BY <2>2, <3>1, <3>2
  <2>4. Live' = {} /\ In({"connecting"})' = {} /\ In({"closing"})' = {}
      BY <1>4, <2>1, <2>3
  <2>5. orphans' = 0 /\ ((held' /\ ~exhausted') \/ (~held' /\ exhausted'))
      BY <1>1, <1>2, <1>6, <2>3 DEF ScheduleReconnect
  <2>6. OneWay'
      BY <1>2, <2>4, <2>5 DEF OneWay, Quiet
  <2> QED BY <1>2, <1>6, <2>4, <2>5, <2>6 DEF LifeInv, ConnectedIsTrue
<1> QED BY <1>5, <1>6

LEMMA ResolveLife ==
    ASSUME LifeInv, NEW c \in Connection, ConnectResolves(c)
    PROVE  LifeTypes' => LifeInv'
<1>1. LifeTypes /\ ConnectedIsTrue /\ orphans = 0 /\ c \in In({"connecting"})
    BY DEF LifeInv, ConnectResolves, In
<1>2. UNCHANGED <<stopped, held, orphans, exhausted>>
    BY DEF ConnectResolves
<1>3. "none" \in Phase /\ "attached" \in Phase
    BY DEF Phase
<1>4. CASE stopped
  <2>1. phase' = [phase EXCEPT ![c] = "none"] /\ UNCHANGED socket
      BY <1>4 DEF ConnectResolves, Discarded
  <2>2. Live' = Live \ {c} /\ Live = {} /\ socket = 0
      BY <1>1, <1>3, <1>4, <2>1, MoveFacts DEF Moved, LifeInv, ConnectedIsTrue
  <2> QED BY <1>1, <1>2, <1>4, <2>1, <2>2 DEF LifeInv, ConnectedIsTrue
<1>5. CASE ~stopped
  <2>1. phase' = [phase EXCEPT ![c] = "attached"] /\ socket' = c
      BY <1>5 DEF ConnectResolves, Discarded
  <2>2. /\ Live' = Live \cup {c} /\ In({"connecting"})' = In({"connecting"}) \ {c}
        /\ In({"closing"})' = In({"closing"}) \ {c}
      BY <1>1, <1>3, <2>1, MoveFacts DEF Moved
  <2>3. In({"closing"}) = {} /\ OneWay
      BY <1>5 DEF LifeInv
  <2>4. ~exhausted /\ ~held /\ socket = 0 /\ \E d \in Connection : In({"connecting"}) = {d}
      BY <1>1, <2>3 DEF OneWay, Quiet
  <2>5. c # 0
      BY ReconnectorAssumption
  <2>6. Live' = {c} /\ In({"connecting"})' = {} /\ In({"closing"})' = {}
      BY <1>1, <2>2, <2>3, <2>4 DEF ConnectedIsTrue
  <2>7. ConnectedIsTrue'
      BY <2>1, <2>5, <2>6 DEF ConnectedIsTrue
  <2>8. OneWay'
      BY <1>2, <2>1, <2>4, <2>5, <2>6 DEF OneWay, Quiet
  <2> QED BY <1>1, <1>2, <1>5, <2>6, <2>7, <2>8 DEF LifeInv
<1> QED BY <1>4, <1>5

LEMMA OpensLife ==
    ASSUME LifeInv, NEW c \in Connection, Opens(c)
    PROVE  LifeTypes' => LifeInv'
<1>1. /\ LifeTypes /\ c \in Live /\ phase' = [phase EXCEPT ![c] = "open"] /\ "open" \in Phase
      /\ UNCHANGED <<socket, stopped, held, orphans, exhausted>>
    BY DEF LifeInv, Opens, Live, In, Phase
<1>2. /\ Live' = Live \cup {c} /\ In({"connecting"})' = In({"connecting"}) \ {c}
      /\ In({"closing"})' = In({"closing"}) \ {c}
    BY <1>1, MoveFacts DEF Moved
<1>3. c \notin In({"connecting"}) /\ c \notin In({"closing"})
    BY DEF Opens, In
<1>4. Live' = Live /\ In({"connecting"})' = In({"connecting"}) /\ In({"closing"})' = In({"closing"})
    BY <1>1, <1>2, <1>3
<1> QED BY <1>1, <1>4 DEF LifeInv, ConnectedIsTrue, OneWay, Quiet

LEMMA TimerLife == ASSUME LifeInv, TimerFires PROVE LifeTypes' => LifeInv'
<1>1. LifeTypes /\ ConnectedIsTrue /\ orphans = 0 /\ held /\ ~stopped
    BY DEF LifeInv, TimerFires
<1>2. /\ Connect(phase) /\ held' = FALSE /\ orphans' = 0
      /\ UNCHANGED <<socket, stopped, exhausted>>
    BY <1>1 DEF TimerFires
<1>3. In({"closing"}) = {} /\ ~exhausted /\ socket = 0 /\ In({"connecting"}) = {}
    BY <1>1 DEF LifeInv, OneWay, Quiet
<1>4. /\ \E c \in Connection : In({"connecting"})' = {c}
      /\ Live' = Live /\ In({"closing"})' = {}
    BY <1>1, <1>2, <1>3, ConnectFacts
<1> QED BY <1>1, <1>2, <1>3, <1>4 DEF LifeInv, ConnectedIsTrue, OneWay

LEMMA LifeInvNext == ASSUME PatientRestart PROVE LifeInv /\ [Next]_vars => LifeInv'
<1> SUFFICES ASSUME LifeInv, [Next]_vars PROVE LifeInv'
    OBVIOUS
<1>0. LifeTypes'
    BY LifeTypesNext DEF LifeInv
<1>1. CASE Start
    BY <1>0, <1>1, StartLife
<1>2. CASE Stop
    BY <1>0, <1>2, StopLife
<1>3. ASSUME NEW c \in Connection, ConnectFails(c) \/ Closes(c) PROVE LifeInv'
    BY <1>0, <1>3, DropLife DEF ConnectFails, Closes
<1>4. ASSUME NEW c \in Connection, ConnectResolves(c) PROVE LifeInv'
    BY <1>0, <1>4, ResolveLife
<1>5. ASSUME NEW c \in Connection, Opens(c) PROVE LifeInv'
    BY <1>0, <1>5, OpensLife
<1>6. CASE TimerFires
    BY <1>0, <1>6, TimerLife
<1>7. CASE Backfill \/ BackfillFails \/ NewBlock \/ Message \/ UNCHANGED vars
  <2>1. UNCHANGED lifeVars
      BY <1>7 DEF Backfill, BackfillFails, NewBlock, Message, vars
  <2> QED BY <1>0, <2>1 DEF lifeVars, LifeInv, ConnectedIsTrue, OneWay, Quiet, Live, In
<1> QED BY <1>1, <1>2, <1>3, <1>4, <1>5, <1>6, <1>7 DEF Next, Settles, Proceeds

LEMMA LifeInvInit == Init => LifeInv
<1> SUFFICES ASSUME Init PROVE LifeInv
    OBVIOUS
<1>1. LifeTypes
    BY TypesInit
<1> QED BY <1>1 DEF Init, LifeInv, ConnectedIsTrue, Live, In

\* If start is called only when the last stop has settled: a running
\* reconnector awaits one connection, has one or waits for one timer, until it
\* gives up.
THEOREM ReconnectorOneWayUp == ASSUME PatientRestart PROVE Spec => []ExactlyOneWayUp
<1>1. ASSUME LifeInv, ~stopped
      PROVE  Cardinality(In({"connecting"})) + Cardinality(Live) + orphans + (IF held THEN 1 ELSE 0)
                 = IF exhausted THEN 0 ELSE 1
  <2>0. OneWay /\ orphans = 0 /\ Live = (IF socket = 0 THEN {} ELSE {socket})
      BY <1>1 DEF LifeInv, ConnectedIsTrue
  <2>1. Cardinality({}) = 0 /\ \A x : Cardinality({x}) = 1
      BY FS_EmptySet, FS_Singleton
  <2>2. CASE ~exhausted /\ ~held /\ socket = 0 /\ \E c \in Connection : In({"connecting"}) = {c}
    <3>1. Cardinality(In({"connecting"})) = 1 /\ Cardinality(Live) = 0
        BY <2>0, <2>1, <2>2
    <3> QED BY <2>0, <2>2, <3>1
  <2>3. CASE ~exhausted /\ Quiet /\ socket # 0
    <3>1. Cardinality(In({"connecting"})) = 0 /\ Cardinality(Live) = 1
        BY <2>0, <2>1, <2>3 DEF Quiet
    <3> QED BY <2>0, <2>3, <3>1 DEF Quiet
  <2>4. CASE In({"connecting"}) = {} /\ socket = 0 /\ ((~exhausted /\ held) \/ (exhausted /\ ~held))
    <3>1. Cardinality(In({"connecting"})) = 0 /\ Cardinality(Live) = 0
        BY <2>0, <2>1, <2>4
    <3> QED BY <2>0, <2>4, <3>1
  <2> QED BY <2>0, <2>2, <2>3, <2>4 DEF OneWay, Quiet
<1>2. LifeInv => ExactlyOneWayUp
    BY <1>1 DEF ExactlyOneWayUp
<1>3. LifeInv /\ [Next]_vars => LifeInv'
    BY LifeInvNext
<1> QED BY <1>2, <1>3, LifeInvInit, PTL DEF Spec

\* Under the same patience nothing that stop left behind is listened to or
\* reconnects.
THEOREM ReconnectorStopIsFinal == ASSUME PatientRestart PROVE Spec => []StopIsFinal
<1>1. LifeInv => StopIsFinal
    BY DEF LifeInv, ConnectedIsTrue, StopIsFinal
<1>2. LifeInv /\ [Next]_vars => LifeInv'
    BY LifeInvNext
<1> QED BY <1>1, <1>2, LifeInvInit, PTL DEF Spec

\* Under the same patience isConnected tells the truth: this.socket is the
\* live connection, whichever connections dropped before.
THEOREM ReconnectorConnectedIsTrue == ASSUME PatientRestart PROVE Spec => []ConnectedIsTrue
<1>1. LifeInv => ConnectedIsTrue
    BY DEF LifeInv
<1>2. LifeInv /\ [Next]_vars => LifeInv'
    BY LifeInvNext
<1> QED BY <1>1, <1>2, LifeInvInit, PTL DEF Spec
------------------------------------------------------------------------------
(* What the caller's patience is not needed for *)

\* A running reconnector that has not given up awaits a connection, has one or
\* waits for a timer, perhaps several at a time.
NeverStalls == ~stopped /\ ~exhausted => In({"connecting"}) # {} \/ Live # {} \/ held \/ orphans > 0

\* this.socket is a connection that is there.
SocketIsLive == socket # 0 => socket \in Live

RaceInv == LifeTypes /\ NeverStalls /\ SocketIsLive

\* While it is stopped no connection is added to those it listens to.
AddsNoneAfterStop == stopped => Live' \subseteq Live

LEMMA RaceStep ==
    ASSUME RaceInv, [Next]_vars
    PROVE  RaceInv' /\ AddsNoneAfterStop
<1>0. LifeTypes /\ NeverStalls /\ SocketIsLive /\ LifeTypes'
    BY LifeTypesNext DEF RaceInv
<1>1. ASSUME NeverStalls', SocketIsLive', AddsNoneAfterStop PROVE RaceInv' /\ AddsNoneAfterStop
    BY <1>0, <1>1 DEF RaceInv
<1>2. Phase = {"none", "connecting", "attached", "open", "closing"}
    BY DEF Phase
<1>3. CASE Start \/ TimerFires
  <2>1. Connect(phase) /\ UNCHANGED socket
      BY <1>3 DEF Start, TimerFires
  <2>2. In({"connecting"})' # {} /\ Live' = Live
      BY <1>0, <2>1, ConnectFacts
  <2>3. NeverStalls'
      BY <2>2 DEF NeverStalls
  <2>4. SocketIsLive'
      BY <1>0, <2>1, <2>2 DEF SocketIsLive
  <2> QED BY <1>1, <2>2, <2>3, <2>4 DEF AddsNoneAfterStop
<1>4. CASE Stop
    BY <1>1, <1>4 DEF Stop, NeverStalls, SocketIsLive, AddsNoneAfterStop
<1>5. ASSUME NEW c \in Connection, HandleDrop(c) PROVE RaceInv' /\ AddsNoneAfterStop
  <2>1. phase' = [phase EXCEPT ![c] = "none"] /\ socket' = 0 /\ UNCHANGED stopped
      BY <1>5 DEF HandleDrop, SocketAfterDrop
  <2>2. Live' = Live \ {c}
      BY <1>0, <1>2, <2>1, MoveFacts DEF Moved
  <2>3. ~stopped => exhausted' \/ held'
      BY <1>5 DEF HandleDrop, ScheduleReconnect
  <2>4. NeverStalls'
      BY <2>1, <2>3 DEF NeverStalls
  <2>5. SocketIsLive'
      BY <2>1 DEF SocketIsLive
  <2> QED BY <1>1, <2>2, <2>4, <2>5 DEF AddsNoneAfterStop
<1>6. ASSUME NEW c \in Connection, ConnectResolves(c) PROVE RaceInv' /\ AddsNoneAfterStop
  <2>1. c \notin Live /\ UNCHANGED stopped
      BY <1>6 DEF ConnectResolves, Live, In
  <2>2. CASE stopped
    <3>1. phase' = [phase EXCEPT ![c] = "none"] /\ UNCHANGED socket
        BY <1>6, <2>2 DEF ConnectResolves, Discarded
    <3>2. Live' = Live \ {c}
        BY <1>0, <1>2, <3>1, MoveFacts DEF Moved
    <3>3. Live' = Live
        BY <2>1, <3>2
    <3>4. SocketIsLive'
        BY <1>0, <3>1, <3>3 DEF SocketIsLive
    <3> QED BY <1>1, <2>1, <2>2, <3>3, <3>4 DEF NeverStalls, AddsNoneAfterStop
  <2>3. CASE ~stopped
    <3>1. phase' = [phase EXCEPT ![c] = "attached"] /\ socket' = c
        BY <1>6, <2>3 DEF ConnectResolves, Discarded
    <3>2. Live' = Live \cup {c}
        BY <1>0, <1>2, <3>1, MoveFacts DEF Moved
    <3>3. NeverStalls' /\ SocketIsLive'
        BY <3>1, <3>2 DEF NeverStalls, SocketIsLive
    <3> QED BY <1>1, <2>3, <3>3 DEF AddsNoneAfterStop
  <2> QED BY <2>2, <2>3
<1>7. ASSUME NEW c \in Connection, Opens(c) PROVE RaceInv' /\ AddsNoneAfterStop
  <2>1. c \in Live /\ phase' = [phase EXCEPT ![c] = "open"] /\ UNCHANGED socket
      BY <1>7 DEF Opens, Live, In
  <2>2. Live' = Live
    <3>1. Live' = Live \cup {c}
        BY <1>0, <1>2, <2>1, MoveFacts DEF Moved
    <3> QED BY <2>1, <3>1
  <2>3. NeverStalls'
      BY <2>1, <2>2 DEF NeverStalls
  <2>4. SocketIsLive'
      BY <1>0, <2>1, <2>2 DEF SocketIsLive
  <2> QED BY <1>1, <2>2, <2>3, <2>4 DEF AddsNoneAfterStop
<1>8. CASE Backfill \/ BackfillFails \/ NewBlock \/ Message \/ UNCHANGED vars
  <2>1. UNCHANGED lifeVars
      BY <1>8 DEF Backfill, BackfillFails, NewBlock, Message, vars
  <2> QED BY <1>0, <1>1, <2>1 DEF lifeVars, NeverStalls, SocketIsLive, AddsNoneAfterStop, Live, In
<1> QED BY <1>3, <1>4, <1>5, <1>6, <1>7, <1>8 DEF Next, Settles, Proceeds, ConnectFails, Closes

LEMMA RaceInvInit == Init => RaceInv
<1> SUFFICES ASSUME Init PROVE RaceInv
    OBVIOUS
<1>1. LifeTypes
    BY TypesInit
<1> QED BY <1>1 DEF Init, RaceInv, NeverStalls, SocketIsLive

\* However start and stop race and whichever orphaned timers fire: a running
\* reconnector never comes to rest before it has given up, and this.socket never
\* refers to a connection that is gone (websocket-reconnector.ts:123-204).
THEOREM ReconnectorNeverStalls == Spec => [](NeverStalls /\ SocketIsLive)
<1>1. RaceInv => NeverStalls /\ SocketIsLive
    BY DEF RaceInv
<1>2. RaceInv /\ [Next]_vars => RaceInv'
    BY RaceStep
<1> QED BY <1>1, <1>2, RaceInvInit, PTL DEF Spec

\* However start and stop race: a connection that comes up while the reconnector
\* is stopped is discarded (websocket-reconnector.ts:150-154); only those that were
\* there when it was stopped may go on, which the run restart_race shows.
THEOREM ReconnectorAddsNoneAfterStop == Spec => [][AddsNoneAfterStop]_vars
<1>1. RaceInv /\ [Next]_vars => RaceInv' /\ AddsNoneAfterStop
    BY RaceStep
<1> QED BY <1>1, RaceInvInit, PTL DEF Spec
------------------------------------------------------------------------------
(* The missed blocks *)

\* The rest of FeedInv follows where no block is unreported.
LEMMA NothingUnreported ==
    ASSUME FeedTypes', base' = head', ReadsAreOld',
           inTransit' # {} => In({"open"})' # {},
           \A h \in inTransit' \ reported' : h > processed'
    PROVE  FeedInv'
<1>1. head' \in Nat /\ base' \in Int
    BY DEF FeedTypes
<1>2. Unreported' = {}
    BY <1>1 DEF Unreported
<1> QED BY <1>2 DEF FeedInv

LEMMA OpenIsSocket ==
    ASSUME LifeInv
    PROVE  /\ In({"open"}) \subseteq Live
           /\ \A c, d \in Live : c = d
           /\ In({"open"}) # {} => In({"open"}) = Live
BY DEF LifeInv, ConnectedIsTrue, In, Live

\* A step that loses what was in transit, or leaves it where it was, and
\* leaves the rest.
LEMMA LosingFeed ==
    ASSUME FeedInv, FeedTypes',
           UNCHANGED <<head, processed, reported, base, reads>>,
           inTransit' = {} \/ inTransit' = inTransit,
           \/ In({"open"})' = In({"open"}) /\ inTransit' = inTransit
           \/ In({"open"})' = {} /\ inTransit' = {}
    PROVE  FeedInv'
<1>1. ReadsAreOld' /\ Unreported' = Unreported /\ \A h : Named(h)' <=> Named(h)
    BY DEF FeedInv, ReadsAreOld, Unreported, Named
<1> QED BY <1>1 DEF FeedInv

LEMMA MovesFeed ==
    ASSUME LifeInv, FeedInv, FeedTypes',
           \/ Stop \/ TimerFires
           \/ \E c \in Connection : ConnectFails(c) \/ Closes(c) \/ ConnectResolves(c)
    PROVE  FeedInv'
<1>1. UNCHANGED <<head, processed, reported, base, reads>>
    BY DEF Stop, ConnectFails, Closes, HandleDrop, ConnectResolves, TimerFires, feedVars
<1>2. LifeTypes /\ ConnectedIsTrue /\ In({"open"}) \subseteq Live /\ \A c, d \in Live : c = d
    BY OpenIsSocket DEF LifeInv
<1>3. (inTransit # {} => In({"open"}) # {}) /\ Phase = {"none", "connecting", "attached", "open", "closing"}
    BY DEF FeedInv, Phase
<1>4. CASE Stop
  <2>1. In({"open"}) \subseteq {socket}
      BY <1>2 DEF ConnectedIsTrue
  <2>2. inTransit' = {}
      BY <1>4, <2>1 DEF Stop
  <2>3. In({"open"})' = {}
    <3>1. CASE socket = 0
        BY <1>2, <1>4, <3>1 DEF Stop, ConnectedIsTrue, In
    <3>2. CASE socket # 0
      <4>1. socket \in Connection /\ "closing" \in Phase /\ phase' = [phase EXCEPT ![socket] = "closing"]
          BY <1>2, <1>3, <1>4, <3>2 DEF Stop, LifeTypes
      <4>2. In({"open"})' = In({"open"}) \ {socket}
          BY <1>2, <4>1, MoveFacts DEF Moved
      <4> QED BY <2>1, <4>2
    <3> QED BY <3>1, <3>2
  <2> QED BY <1>1, <2>2, <2>3, LosingFeed
<1>5. CASE TimerFires
  <2>1. In({"open"})' = In({"open"}) /\ inTransit' = inTransit
      BY <1>2, <1>5, ConnectFacts DEF TimerFires, feedVars
  <2> QED BY <1>1, <2>1, LosingFeed
<1>6. ASSUME NEW c \in Connection, HandleDrop(c) PROVE FeedInv'
  <2>1. phase' = [phase EXCEPT ![c] = "none"] /\ "none" \in Phase
      BY <1>3, <1>6 DEF HandleDrop
  <2>2. In({"open"})' = In({"open"}) \ {c}
      BY <1>2, <2>1, MoveFacts DEF Moved
  <2>3. CASE In({"open"}) \subseteq {c}
    <3>1. inTransit' = {} /\ In({"open"})' = {}
        BY <1>6, <2>2, <2>3 DEF HandleDrop
    <3> QED BY <1>1, <3>1, LosingFeed
  <2>4. CASE ~(In({"open"}) \subseteq {c})
    <3>1. inTransit' = inTransit
        BY <1>6, <2>4 DEF HandleDrop
    <3>2. c \notin In({"open"})
        BY <1>2, <2>4
    <3>3. In({"open"})' = In({"open"})
        BY <2>2, <3>2
    <3> QED BY <1>1, <3>1, <3>3, LosingFeed
  <2> QED BY <2>3, <2>4
<1>7. ASSUME NEW c \in Connection, ConnectResolves(c) PROVE FeedInv'
  <2>1. /\ c \notin In({"open"}) /\ "none" \in Phase /\ "attached" \in Phase /\ inTransit' = inTransit
        /\ phase' = [phase EXCEPT ![c] = "none"] \/ phase' = [phase EXCEPT ![c] = "attached"]
      BY <1>3, <1>7 DEF ConnectResolves, In, feedVars
  <2>2. In({"open"})' = In({"open"}) \ {c}
      BY <1>2, <2>1, MoveFacts DEF Moved
  <2>3. In({"open"})' = In({"open"})
      BY <2>1, <2>2
  <2> QED BY <1>1, <2>1, <2>3, LosingFeed
<1> QED BY <1>4, <1>5, <1>6, <1>7 DEF ConnectFails, Closes

LEMMA StartFeed == ASSUME LifeTypes, FeedInv, Start, FeedTypes' PROVE FeedInv'
<1>1. base' = head /\ UNCHANGED <<head, inTransit, processed, reported, reads>> /\ Connect(phase)
    BY DEF Start
<1>2. In({"open"})' = In({"open"})
    BY <1>1, ConnectFacts
<1>3. base' = head' /\ ReadsAreOld' /\ (inTransit' # {} => In({"open"})' # {})
      /\ \A h \in inTransit' \ reported' : h > processed'
    BY <1>1, <1>2 DEF FeedInv, ReadsAreOld
<1> QED BY <1>3, NothingUnreported

LEMMA OpensFeed ==
    ASSUME LifeInv, FeedInv, FeedTypes', NEW c \in Connection, Opens(c)
    PROVE  FeedInv'
<1>1. /\ phase[c] = "attached" /\ phase' = [phase EXCEPT ![c] = "open"]
      /\ UNCHANGED <<head, processed, reported, inTransit>> /\ "open" \in Phase /\ LifeTypes
    BY DEF Opens, LifeInv, Phase
<1>2. c \in Live /\ c \notin In({"open"}) /\ In({"open"})' # {}
    BY <1>1, MoveFacts DEF In, Live, Moved
<1>3. inTransit = {}
    BY <1>2, OpenIsSocket DEF FeedInv
<1>4. reads \in Seq(0..head) /\ processed \in Nat /\ ReadsAreOld /\ Len(reads) \in Nat
    BY LenProperties DEF FeedInv, FeedTypes
<1>5. CASE base' = head /\ UNCHANGED reads
  <2>1. base' = head' /\ ReadsAreOld' /\ inTransit' = {}
      BY <1>1, <1>3, <1>4, <1>5 DEF ReadsAreOld
  <2> QED BY <2>1, NothingUnreported
<1>6. CASE reads' = Append(reads, processed) /\ UNCHANGED base
  <2>1. /\ Len(reads') = Len(reads) + 1 /\ reads'[Len(reads) + 1] = processed
        /\ \A i \in 1..Len(reads) : reads'[i] = reads[i]
      BY <1>4, <1>6, AppendProperties
  <2>2. ReadsAreOld'
    <3> SUFFICES ASSUME NEW i \in 1..Len(reads') PROVE reads'[i] <= processed
        BY <1>1 DEF ReadsAreOld
    <3>1. i \in 1..Len(reads) \/ i = Len(reads) + 1
        BY <1>4, <2>1
    <3> QED BY <1>4, <2>1, <3>1 DEF ReadsAreOld
  <2>3. Unreported' = Unreported
      BY <1>1, <1>6 DEF Unreported
  <2>4. ASSUME NEW h \in Unreported PROVE \E i \in 1..Len(reads') : reads'[i] < h
    <3>1. h > processed \/ \E i \in 1..Len(reads) : reads[i] < h
        BY DEF FeedInv, Named
    <3>2. CASE h > processed
      <4>1. Len(reads) + 1 \in 1..Len(reads') /\ reads'[Len(reads) + 1] < h
        <5>1. h \in Int
            BY DEF Unreported, FeedInv, FeedTypes
        <5> QED BY <1>4, <2>1, <3>2, <5>1
      <4> QED BY <4>1
    <3>3. CASE \E i \in 1..Len(reads) : reads[i] < h
      <4>1. PICK i \in 1..Len(reads) : reads[i] < h
          BY <3>3
      <4>2. i \in 1..Len(reads') /\ reads'[i] < h
          BY <1>4, <2>1, <4>1
      <4> QED BY <4>2
    <3> QED BY <3>1, <3>2, <3>3
  <2>5. \A h \in Unreported' : Named(h)'
      BY <2>3, <2>4 DEF Named
  <2> QED BY <1>1, <1>3, <2>2, <2>5 DEF FeedInv
<1> QED BY <1>5, <1>6 DEF Opens

LEMMA FailsFeed == ASSUME FeedInv, FeedTypes', BackfillFails PROVE FeedInv'
<1>1. PICK i \in 1..Len(reads) : reads' = Without(i)
    BY DEF BackfillFails
<1>2. base' = head /\ UNCHANGED <<lifeVars, head, inTransit, processed, reported>>
    BY DEF BackfillFails
<1>3. \A k \in 1..Len(reads') : \E j \in 1..Len(reads) : reads'[k] = reads[j]
    BY <1>1, WithoutFacts DEF FeedInv, FeedTypes
<1>4. ReadsAreOld'
    BY <1>2, <1>3 DEF FeedInv, ReadsAreOld
<1>5. In({"open"})' = In({"open"})
    BY <1>2 DEF lifeVars, In
<1>6. base' = head' /\ (inTransit' # {} => In({"open"})' # {})
      /\ \A h \in inTransit' \ reported' : h > processed'
    BY <1>2, <1>5 DEF FeedInv
<1> QED BY <1>4, <1>6, NothingUnreported

\* A backfill names what its own read covers, and the others keep theirs.
LEMMA BackfillFeed == ASSUME ~LateReads, FeedInv, FeedTypes', Backfill PROVE FeedInv'
<1>0. /\ head \in Nat /\ base \in 0..head /\ processed \in 0..head /\ reads \in Seq(0..head)
      /\ inTransit \subseteq 1..head /\ ReadsAreOld /\ Len(reads) \in Nat
    BY LenProperties DEF FeedInv, FeedTypes
<1>1. PICK i \in 1..Len(reads) : Answered(i, reads[i])
    BY DEF Backfill, Answered
<1>2. UNCHANGED <<lifeVars, head, inTransit, base>>
    BY DEF Backfill
<1>3. reads[i] \in 0..head /\ reads[i] <= processed
    BY <1>0, ElementOfSeq DEF ReadsAreOld
<1>4. /\ \A k \in 1..Len(reads') : \E j \in 1..Len(reads) : reads'[k] = reads[j]
      /\ \A j \in 1..Len(reads) : j # i => \E k \in 1..Len(reads') : reads'[k] = reads[j]
    BY <1>0, <1>1, WithoutFacts DEF Answered
<1>5. processed' = processed \/ processed' = head
    BY <1>1 DEF Answered
<1>6. processed' \in Nat /\ processed <= processed'
    BY <1>0, <1>5
<1>7. ReadsAreOld'
  <2> SUFFICES ASSUME NEW k \in 1..Len(reads') PROVE reads'[k] <= processed'
      BY DEF ReadsAreOld
  <2>1. PICK j \in 1..Len(reads) : reads'[k] = reads[j]
      BY <1>4
  <2>2. reads[j] \in 0..head /\ reads[j] <= processed
      BY <1>0, ElementOfSeq DEF ReadsAreOld
  <2> QED BY <1>0, <1>6, <2>1, <2>2
<1>8. ASSUME NEW h \in 1..head, h \notin reported' PROVE h \notin reported /\ h <= reads[i]
  <2>1. CASE head <= reads[i]
      BY <1>0, <1>1, <1>3, <1>8, <2>1 DEF Answered
  <2>2. CASE ~(head <= reads[i])
    <3>1. reported' = reported \cup (reads[i] + 1)..head
        BY <1>1, <2>2 DEF Answered, FirstMissed
    <3>2. h \notin reported /\ h \notin (reads[i] + 1)..head
        BY <1>8, <3>1
    <3> QED BY <1>0, <1>3, <3>2
  <2> QED BY <2>1, <2>2
<1>9. inTransit' \ reported' = {}
  <2> SUFFICES ASSUME NEW h \in inTransit', h \notin reported' PROVE FALSE
      OBVIOUS
  <2>1. h \in inTransit /\ h \in 1..head
      BY <1>0, <1>2
  <2>2. h \notin reported /\ h <= reads[i]
      BY <1>8, <2>1
  <2>3. h > processed
      BY <2>1, <2>2 DEF FeedInv
  <2> QED BY <1>0, <1>3, <2>1, <2>2, <2>3
<1>10. ASSUME NEW h \in Unreported' PROVE Named(h)'
  <2>1. h \in (base + 1)..head /\ h \notin reported' /\ h \in 1..head
      BY <1>0, <1>2 DEF Unreported
  <2>2. h \notin reported /\ h <= reads[i]
      BY <1>8, <2>1
  <2>3. h > processed \/ Named(h)
      BY <2>1, <2>2 DEF FeedInv, Unreported
  <2>4. PICK j \in 1..Len(reads) : reads[j] < h
      BY <1>0, <1>3, <2>1, <2>2, <2>3 DEF Named
  <2>5. j # i
      BY <1>0, <1>3, <2>1, <2>2, <2>4
  <2>6. PICK k \in 1..Len(reads') : reads'[k] = reads[j]
      BY <1>4, <2>5
  <2> QED BY <2>4, <2>6 DEF Named
<1>11. In({"open"})' = In({"open"})
    BY <1>2 DEF lifeVars, In
<1> QED BY <1>2, <1>7, <1>9, <1>10, <1>11 DEF FeedInv

LEMMA NewBlockFeed == ASSUME FeedInv, FeedTypes', NewBlock PROVE FeedInv'
<1>0. /\ head \in Nat /\ base \in 0..head /\ processed \in 0..head
      /\ inTransit \subseteq 1..head /\ reported \subseteq 1..head
    BY DEF FeedInv, FeedTypes
<1>1. head' = head + 1 /\ UNCHANGED <<lifeVars, processed, reported, base, reads>>
    BY DEF NewBlock
<1>2. In({"open"})' = In({"open"}) /\ ReadsAreOld' /\ \A h : Named(h)' <=> Named(h)
    BY <1>1 DEF lifeVars, In, ReadsAreOld, Named, FeedInv
<1>3. head + 1 > processed
    BY <1>0
<1>4. Unreported' \subseteq Unreported \cup {head + 1}
    BY <1>0, <1>1 DEF Unreported
<1>5. CASE In({"open"}) = {}
  <2>1. inTransit' = inTransit
      BY <1>5 DEF NewBlock
  <2>2. \A h \in Unreported' : h > processed \/ Named(h)
      BY <1>3, <1>4 DEF FeedInv
  <2> QED BY <1>1, <1>2, <1>5, <2>1, <2>2 DEF FeedInv
<1>6. CASE In({"open"}) # {}
  <2>1. inTransit' = inTransit \cup {head + 1}
      BY <1>6 DEF NewBlock
  <2>2. \A h \in Unreported' : h > processed \/ Named(h)
      BY <1>3, <1>4 DEF FeedInv
  <2>3. \A h \in Unreported' : h \in inTransit' \/ Named(h)
      BY <1>4, <1>6, <2>1 DEF FeedInv
  <2>4. \A h \in inTransit' \ reported' : h > processed'
      BY <1>1, <1>3, <2>1 DEF FeedInv
  <2> QED BY <1>1, <1>2, <1>6, <2>2, <2>3, <2>4 DEF FeedInv
<1> QED BY <1>5, <1>6

LEMMA MessageFeed == ASSUME FeedInv, FeedTypes', Message PROVE FeedInv'
<1>0. /\ head \in Nat /\ base \in 0..head /\ processed \in 0..head /\ reads \in Seq(0..head)
      /\ inTransit \subseteq 1..head /\ In({"open"}) # {} /\ ReadsAreOld
    BY DEF FeedInv, FeedTypes, Message
<1>1. PICK h \in inTransit : /\ \A k \in inTransit : h <= k
                             /\ inTransit' = inTransit \ {h}
                             /\ reported' = reported \cup {h}
                             /\ processed' = HeightMax({processed, h})
    BY DEF Message
<1>2. UNCHANGED <<lifeVars, head, base, reads>>
    BY DEF Message
<1>3. h \in Nat /\ processed \in Nat
    BY <1>0
<1>4. processed' = IF processed >= h THEN processed ELSE h
    BY <1>1, <1>3, HeightMaxFacts
<1>5. processed' \in Nat /\ processed <= processed'
    BY <1>3, <1>4
<1>6. In({"open"})' = In({"open"}) /\ \A x : Named(x)' <=> Named(x)
    BY <1>2 DEF lifeVars, In, Named
<1>7. ReadsAreOld'
  <2> SUFFICES ASSUME NEW k \in 1..Len(reads) PROVE reads[k] <= processed'
      BY <1>2 DEF ReadsAreOld
  <2>1. reads[k] \in 0..head /\ reads[k] <= processed
      BY <1>0, ElementOfSeq DEF ReadsAreOld
  <2> QED BY <1>0, <1>3, <1>5, <2>1
<1>8. ASSUME NEW x \in inTransit', x \notin reported' PROVE x > processed'
  <2>1. x \in inTransit /\ x \notin reported /\ x # h /\ x \in Nat
      BY <1>0, <1>1, <1>8
  <2>2. x > processed /\ h <= x
      BY <1>1, <2>1 DEF FeedInv
  <2> QED BY <1>3, <1>4, <2>1, <2>2
<1>9. ASSUME NEW x \in Unreported' PROVE x \in inTransit' \/ Named(x)
  <2>1. x \in Unreported /\ x # h
      BY <1>1, <1>2 DEF Unreported
  <2>2. x \in inTransit \/ Named(x)
      BY <1>0, <2>1 DEF FeedInv
  <2> QED BY <1>1, <2>1, <2>2
<1>10. ASSUME NEW x \in Unreported' PROVE x > processed' \/ Named(x)
    BY <1>8, <1>9 DEF Unreported
<1> QED BY <1>0, <1>6, <1>7, <1>8, <1>9, <1>10 DEF FeedInv

LEMMA FeedInvNext ==
    ASSUME PatientRestart, ~LateReads
    PROVE  LifeInv /\ FeedInv /\ [Next]_vars => FeedInv'
<1> SUFFICES ASSUME LifeInv, FeedInv, [Next]_vars PROVE FeedInv'
    OBVIOUS
<1>0. FeedTypes' /\ LifeTypes
    BY FeedTypesNext DEF LifeInv, FeedInv
<1>1. CASE Start
    BY <1>0, <1>1, StartFeed
<1>2. CASE \/ Stop \/ TimerFires
           \/ \E c \in Connection : ConnectFails(c) \/ Closes(c) \/ ConnectResolves(c)
    BY <1>0, <1>2, MovesFeed
<1>3. ASSUME NEW c \in Connection, Opens(c) PROVE FeedInv'
    BY <1>0, <1>3, OpensFeed
<1>4. CASE Backfill
    BY <1>0, <1>4, BackfillFeed
<1>5. CASE BackfillFails
    BY <1>0, <1>5, FailsFeed
<1>6. CASE NewBlock
    BY <1>0, <1>6, NewBlockFeed
<1>7. CASE Message
    BY <1>0, <1>7, MessageFeed
<1>8. CASE UNCHANGED vars
    BY <1>0, <1>8 DEF vars, lifeVars, feedVars, FeedInv, ReadsAreOld, Unreported, Named, In
<1> QED BY <1>1, <1>2, <1>3, <1>4, <1>5, <1>6, <1>7, <1>8 DEF Next, Settles, Proceeds

LEMMA FeedInvInit == Init => FeedInv
<1> SUFFICES ASSUME Init PROVE FeedInv
    OBVIOUS
<1>1. FeedTypes
    BY TypesInit
<1>2. head = 0 /\ base = 0 /\ reads = <<>> /\ inTransit = {}
    BY DEF Init
<1>3. Unreported = {} /\ ReadsAreOld
    BY <1>2, EmptySeq DEF Unreported, ReadsAreOld
<1> QED BY <1>1, <1>2, <1>3 DEF FeedInv

\* If stops are waited for and getLastProcessedBlock answers with the height
\* of the moment it is called: however often the connection drops and however
\* many backfills wait, a block that no subscription delivered is named, or
\* an error says that it may not be.
THEOREM ReconnectorMissedBlocksAreNamed ==
    ASSUME PatientRestart, ~LateReads PROVE Spec => []MissedBlocksAreNamed
<1>1. FeedInv => MissedBlocksAreNamed
  <2> SUFFICES ASSUME FeedInv, In({"open"}) # {}, reads = <<>>, NEW h \in (base + 1)..head
               PROVE  h \in reported \cup inTransit
      BY DEF MissedBlocksAreNamed
  <2>1. ~Named(h)
      BY EmptySeq DEF Named
  <2> QED BY <2>1 DEF FeedInv, Unreported
<1>2. LifeInv /\ FeedInv /\ [Next]_vars => (LifeInv /\ FeedInv)'
    BY LifeInvNext, FeedInvNext
<1> QED BY <1>1, <1>2, LifeInvInit, FeedInvInit, PTL DEF Spec
==============================================================================
