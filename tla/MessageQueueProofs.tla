------------------------ MODULE MessageQueueProofs ------------------------
(***************************************************************************)
(* Theorems of MessageQueue, for any ids, retries, delays and slots.       *)
(*                                                                         *)
(* That the queue never multiplies a message rests on its maps holding one *)
(* item for each id: an id that had two items in the queue could be taken  *)
(* out again after one was. That a failed item stays exhausted needs the   *)
(* identity of the items, which queue and failed may share                 *)
(* (message-queue.ts:80-95 and 167-173).                                   *)
(***************************************************************************)
EXTENDS MessageQueue, SequenceTheorems, FiniteSetTheorems, TLAPS

Item == Id \X Nat

Keys(q) == {q[i][1] : i \in 1..Len(q)}

OneItemEach(q) == \A i, j \in 1..Len(q) : q[i][1] = q[j][1] => i = j

\* Items are counted up to accepted, and have the fields of a queue item; what
\* is left to wait is of no concern here.
HeapIsFresh ==
    \A x \in DOMAIN items :
        /\ x \in Item /\ x[2] <= accepted[x[1]]
        /\ DOMAIN items[x] = {"queuedAt", "wait", "attempts"}
        /\ items[x].attempts \in Nat

QueueInHeap ==
    /\ queue \in Seq(Item)
    /\ \A i \in 1..Len(queue) : queue[i] \in DOMAIN items
    /\ OneItemEach(queue)

FailedInHeap ==
    /\ DOMAIN failed \subseteq Id
    /\ IsFiniteSet(DOMAIN failed)
    /\ \A id \in DOMAIN failed : failed[id] \in DOMAIN items /\ failed[id][1] = id

CountersOK ==
    /\ processing \subseteq Id
    /\ accepted \in [Id -> Nat] /\ requeued \in [Id -> Nat]
    /\ succeeded \in [Id -> Nat] /\ inFlight \in [Id -> Nat]

IInv ==
    /\ HeapIsFresh /\ QueueInHeap /\ FailedInHeap /\ CountersOK
    /\ FailedAreExhausted /\ WorkNeverMultiplies /\ SlotsAreInUse
------------------------------------------------------------------------------
(* Lemmas about the queue *)

\* Map.set in insertion order: one entry per key is kept, and the only new
\* key is that of the item stored.
LEMMA StoreFacts ==
    ASSUME NEW q \in Seq(Item), NEW x \in Item
    PROVE  /\ Store(q, x) \in Seq(Item)
           /\ \A i \in 1..Len(Store(q, x)) :
                 Store(q, x)[i] = x \/ \E j \in 1..Len(q) : Store(q, x)[i] = q[j]
           /\ Keys(Store(q, x)) = Keys(q) \cup {x[1]}
           /\ OneItemEach(q) => OneItemEach(Store(q, x))
<1> DEFINE s == Store(q, x)
<1>0. Len(q) \in Nat /\ \A i \in 1..Len(q) : q[i] \in Item
    BY LenProperties, ElementOfSeq
<1>1. CASE \E i \in 1..Len(q) : q[i][1] = x[1]
    <2>1. s = [i \in 1..Len(q) |-> IF q[i][1] = x[1] THEN x ELSE q[i]]
        BY <1>1 DEF Store
    <2>2. s \in [1..Len(q) -> Item]
        BY <1>0, <2>1
    <2>3. s \in Seq(Item) /\ Len(s) = Len(q)
        BY <1>0, <2>2, SeqDef, LenProperties
    <2>4. \A i \in 1..Len(q) : s[i] = (IF q[i][1] = x[1] THEN x ELSE q[i]) /\ s[i][1] = q[i][1]
        BY <2>1
    <2> HIDE DEF s
    <2>5. Keys(s) = Keys(q) \cup {x[1]}
        BY <1>1, <2>3, <2>4 DEF Keys
    <2>6. OneItemEach(q) => OneItemEach(s)
        BY <2>3, <2>4 DEF OneItemEach
    <2> QED BY <2>3, <2>4, <2>5, <2>6 DEF s
<1>2. CASE ~ \E i \in 1..Len(q) : q[i][1] = x[1]
    <2>1. s = Append(q, x)
        BY <1>2 DEF Store
    <2>2. /\ s \in Seq(Item) /\ Len(s) = Len(q) + 1
          /\ \A i \in 1..Len(q) : s[i] = q[i]
          /\ s[Len(q) + 1] = x
        BY <2>1, AppendProperties
    <2> HIDE DEF s
    <2>3. \A i \in 1..Len(s) : i \in 1..Len(q) \/ i = Len(q) + 1
        BY <1>0, <2>2
    <2>4. Keys(s) = Keys(q) \cup {x[1]}
        <3>1. Len(q) + 1 \in 1..Len(s) /\ \A i \in 1..Len(q) : i \in 1..Len(s)
            BY <1>0, <2>2
        <3> QED BY <2>2, <2>3, <3>1 DEF Keys
    <2>5. OneItemEach(q) => OneItemEach(s)
        BY <1>2, <2>2, <2>3 DEF OneItemEach
    <2> QED BY <2>2, <2>3, <2>4, <2>5 DEF s
<1> QED BY <1>1, <1>2

\* dequeue's Map.delete: the other items stay, in their order.
LEMMA RemovalFacts ==
    ASSUME queue \in Seq(Item), OneItemEach(queue), NEW i \in 1..Len(queue)
    PROVE  /\ QueueWithout(i) \in Seq(Item)
           /\ \A k \in 1..Len(QueueWithout(i)) : \E j \in 1..Len(queue) : QueueWithout(i)[k] = queue[j]
           /\ Keys(QueueWithout(i)) = Keys(queue) \ {queue[i][1]}
           /\ OneItemEach(QueueWithout(i))
<1> DEFINE front == SubSeq(queue, 1, i - 1)
           back == SubSeq(queue, i + 1, Len(queue))
           rest == front \o back
           From(k) == IF k < i THEN k ELSE k + 1
<1>0. Len(queue) \in Nat /\ \A k \in 1..Len(queue) : queue[k] \in Item
    BY LenProperties, ElementOfSeq
<1>1. /\ front \in Seq(Item) /\ Len(front) = i - 1
      /\ \A k \in 1..i - 1 : front[k] = queue[k]
    <2>1. 1 \in Int /\ i - 1 \in Int /\ \A k \in 1..i - 1 : queue[k] \in Item
        BY <1>0
    <2>2. /\ front \in Seq(Item)
          /\ Len(front) = IF 1 <= i - 1 THEN (i - 1) - 1 + 1 ELSE 0
          /\ \A k \in 1..(i - 1) - 1 + 1 : front[k] = queue[1 + k - 1]
        BY <2>1, SubSeqProperties
    <2> HIDE DEF front
    <2> QED BY <1>0, <2>2
<1>2. /\ back \in Seq(Item) /\ Len(back) = Len(queue) - i
      /\ \A k \in 1..Len(queue) - i : back[k] = queue[i + k]
    <2>1. i + 1 \in Int /\ Len(queue) \in Int /\ \A k \in i + 1..Len(queue) : queue[k] \in Item
        BY <1>0
    <2>2. /\ back \in Seq(Item)
          /\ Len(back) = IF i + 1 <= Len(queue) THEN Len(queue) - (i + 1) + 1 ELSE 0
          /\ \A k \in 1..Len(queue) - (i + 1) + 1 : back[k] = queue[(i + 1) + k - 1]
        BY <2>1, SubSeqProperties
    <2> HIDE DEF back
    <2> QED BY <1>0, <2>2
<1>3. /\ rest \in Seq(Item)
      /\ Len(rest) = Len(front) + Len(back)
      /\ \A k \in 1..Len(front) + Len(back) :
            rest[k] = IF k <= Len(front) THEN front[k] ELSE back[k - Len(front)]
    BY <1>1, <1>2, ConcatProperties
<1> HIDE DEF front, back, rest
<1>4. /\ rest \in Seq(Item) /\ Len(rest) = Len(queue) - 1
      /\ \A k \in 1..Len(rest) : From(k) \in 1..Len(queue) /\ rest[k] = queue[From(k)]
    BY <1>0, <1>1, <1>2, <1>3
<1>5. \A k \in 1..Len(rest) : From(k) # i
    BY <1>0, <1>4
<1>6. \A j \in 1..Len(queue) : j # i => \E k \in 1..Len(rest) : From(k) = j
    <2> SUFFICES ASSUME NEW j \in 1..Len(queue), j # i
                 PROVE  \E k \in 1..Len(rest) : From(k) = j
        OBVIOUS
    <2>1. CASE j < i
        <3>1. j \in 1..Len(rest) /\ From(j) = j
            BY <1>0, <1>4, <2>1
        <3> QED BY <3>1
    <2>2. CASE j > i
        <3>1. j - 1 \in 1..Len(rest) /\ From(j - 1) = j
            BY <1>0, <1>4, <2>2
        <3> QED BY <3>1
    <2> QED BY <1>0, <2>1, <2>2
<1>7. \A k, l \in 1..Len(rest) : From(k) = From(l) => k = l
    BY <1>0, <1>4
<1> HIDE DEF From
<1>8. Keys(rest) = Keys(queue) \ {queue[i][1]}
    <2>1. \A k \in 1..Len(rest) : rest[k][1] \in Keys(queue) /\ rest[k][1] # queue[i][1]
        BY <1>4, <1>5 DEF Keys, OneItemEach
    <2>2. \A j \in 1..Len(queue) : queue[j][1] # queue[i][1] =>
              \E k \in 1..Len(rest) : queue[j][1] = rest[k][1]
        BY <1>4, <1>6
    <2>3. \A y \in Keys(queue) \ {queue[i][1]} : y \in Keys(rest)
        BY <2>2 DEF Keys
    <2>4. \A y \in Keys(rest) : y \in Keys(queue) \ {queue[i][1]}
        BY <2>1 DEF Keys
    <2> QED BY <2>3, <2>4
<1>9. OneItemEach(rest)
    BY <1>4, <1>7 DEF OneItemEach
<1>10. rest = QueueWithout(i)
    BY DEF rest, front, back, QueueWithout
<1> QED BY <1>4, <1>8, <1>9, <1>10

\* retryAllFailed replaces the failed ids that are queued and appends the
\* others: every id keeps at most one item (message-queue.ts:143-155).
LEMMA RetryAllFacts ==
    ASSUME IInv, RetryAllFailed
    PROVE  /\ queue' \in Seq(Item)
           /\ \A i \in 1..Len(queue') : queue'[i] \in DOMAIN items
           /\ OneItemEach(queue')
           /\ Keys(queue') \subseteq Keys(queue) \cup DOMAIN failed
<1> DEFINE kept == [i \in 1..Len(queue) |->
                       IF queue[i][1] \in DOMAIN failed THEN failed[queue[i][1]] ELSE queue[i]]
           others == DOMAIN failed \ Queued
<1>1. PICK ids \in Orderings(others) :
          queue' = kept \o [k \in 1..Len(ids) |-> failed[ids[k]]]
    BY DEF RetryAllFailed
<1> DEFINE added == [k \in 1..Len(ids) |-> failed[ids[k]]]
<1>2. /\ queue \in Seq(Item) /\ Len(queue) \in Nat
      /\ \A i \in 1..Len(queue) : queue[i] \in DOMAIN items
      /\ \A id \in DOMAIN failed : failed[id] \in DOMAIN items /\ failed[id][1] = id
      /\ \A x \in DOMAIN items : x \in Item
    BY LenProperties DEF IInv, QueueInHeap, FailedInHeap, HeapIsFresh
<1>3. /\ Cardinality(others) \in Nat
      /\ ids \in [1..Cardinality(others) -> others]
      /\ \A k, l \in 1..Cardinality(others) : ids[k] = ids[l] => k = l
    <2>1. IsFiniteSet(others)
        BY FS_Subset DEF IInv, FailedInHeap
    <2> QED BY <2>1, FS_CardinalityType DEF Orderings
<1>4. Len(ids) = Cardinality(others)
    BY <1>3, SeqDef, LenProperties
<1>5. /\ kept \in Seq(Item) /\ Len(kept) = Len(queue)
      /\ \A i \in 1..Len(queue) : kept[i] \in DOMAIN items /\ kept[i][1] = queue[i][1]
    <2>1. kept \in [1..Len(queue) -> Item]
        BY <1>2
    <2>2. kept \in Seq(Item) /\ Len(kept) = Len(queue)
        BY <1>2, <2>1, SeqDef, LenProperties
    <2> QED BY <1>2, <2>2
<1>6. /\ added \in Seq(Item) /\ Len(added) = Len(ids)
      /\ \A k \in 1..Len(ids) : /\ added[k] \in DOMAIN items /\ added[k][1] = ids[k]
                                /\ ids[k] \in others
    <2>1. added \in [1..Len(ids) -> Item]
        BY <1>2, <1>3, <1>4
    <2>2. added \in Seq(Item) /\ Len(added) = Len(ids)
        <3> HIDE DEF added, others
        <3>1. Len(ids) \in Nat
            BY <1>3, <1>4
        <3>2. added \in Seq(Item)
            BY <2>1, <3>1, SeqDef
        <3>3. DOMAIN added = 1..Len(ids) /\ DOMAIN added = 1..Len(added) /\ Len(added) \in Nat
            BY <2>1, <3>2, LenProperties
        <3> QED BY <3>1, <3>2, <3>3
    <2> QED BY <1>2, <1>3, <1>4, <2>2
<1> HIDE DEF kept, added
<1>7. /\ queue' \in Seq(Item) /\ Len(queue') = Len(queue) + Len(ids)
      /\ \A i \in 1..Len(queue) : queue'[i] = kept[i]
      /\ \A i \in 1..Len(queue') : i > Len(queue) => queue'[i] = added[i - Len(queue)]
    <2>1. queue' = kept \o added
        BY <1>1 DEF kept, added
    <2>2. /\ kept \o added \in Seq(Item)
          /\ Len(kept \o added) = Len(kept) + Len(added)
          /\ \A i \in 1..Len(kept) + Len(added) :
                (kept \o added)[i] = IF i <= Len(kept) THEN kept[i] ELSE added[i - Len(kept)]
        <3>1. kept \in Seq(Item) /\ added \in Seq(Item)
            BY <1>5, <1>6
        <3> QED BY <3>1, ConcatProperties
    <2>3. /\ Len(kept) = Len(queue) /\ Len(added) = Len(ids)
          /\ Len(queue) \in Nat /\ Len(ids) \in Nat
        BY <1>2, <1>3, <1>4, <1>5, <1>6
    <2>4. queue' \in Seq(Item) /\ Len(queue') = Len(queue) + Len(ids)
        BY <2>1, <2>2, <2>3
    <2>5. \A i \in 1..Len(queue) + Len(ids) :
             queue'[i] = IF i <= Len(queue) THEN kept[i] ELSE added[i - Len(queue)]
        BY <2>1, <2>2, <2>3
    <2> QED BY <2>3, <2>4, <2>5
<1>8. \A i \in 1..Len(queue') :
          \/ i \in 1..Len(queue)
          \/ i > Len(queue) /\ i - Len(queue) \in 1..Len(ids)
    BY <1>2, <1>3, <1>4, <1>7
<1>9. \A i \in 1..Len(queue') :
          \/ /\ i \in 1..Len(queue) /\ queue'[i] \in DOMAIN items
             /\ queue'[i][1] = queue[i][1] /\ queue'[i][1] \in Queued
          \/ /\ i > Len(queue) /\ i - Len(queue) \in 1..Len(ids) /\ queue'[i] \in DOMAIN items
             /\ queue'[i][1] = ids[i - Len(queue)] /\ queue'[i][1] \in others
    <2> SUFFICES ASSUME NEW i \in 1..Len(queue')
                 PROVE  \/ /\ i \in 1..Len(queue) /\ queue'[i] \in DOMAIN items
                           /\ queue'[i][1] = queue[i][1] /\ queue'[i][1] \in Queued
                        \/ /\ i > Len(queue) /\ i - Len(queue) \in 1..Len(ids)
                           /\ queue'[i] \in DOMAIN items
                           /\ queue'[i][1] = ids[i - Len(queue)] /\ queue'[i][1] \in others
        OBVIOUS
    <2>1. CASE i \in 1..Len(queue)
        <3>1. queue'[i] = kept[i] /\ kept[i] \in DOMAIN items /\ kept[i][1] = queue[i][1]
            BY <1>5, <1>7, <2>1
        <3> QED BY <2>1, <3>1 DEF Queued
    <2>2. CASE i > Len(queue) /\ i - Len(queue) \in 1..Len(ids)
        <3> DEFINE k == i - Len(queue)
        <3>1. queue'[i] = added[k]
            BY <1>7, <2>2
        <3>2. added[k] \in DOMAIN items /\ added[k][1] = ids[k] /\ ids[k] \in others
            BY <1>6, <2>2
        <3> QED BY <2>2, <3>1, <3>2
    <2> QED BY <1>8, <2>1, <2>2
<1>10. OneItemEach(queue')
    <2> SUFFICES ASSUME NEW i \in 1..Len(queue'), NEW j \in 1..Len(queue'),
                        queue'[i][1] = queue'[j][1]
                 PROVE  i = j
        BY DEF OneItemEach
    <2>1. CASE i \in 1..Len(queue)
        BY <1>9, <2>1 DEF IInv, QueueInHeap, OneItemEach
    <2>2. CASE i > Len(queue)
        <3>1. /\ i - Len(queue) \in 1..Cardinality(others)
              /\ j - Len(queue) \in 1..Cardinality(others)
              /\ ids[i - Len(queue)] = ids[j - Len(queue)]
            <4>1. ~(i \in 1..Len(queue))
                BY <1>2, <2>2
            <4>2. ids[i - Len(queue)] = queue'[i][1] /\ queue'[i][1] \in others
                BY <1>9, <4>1
            <4>3. ~(j \in 1..Len(queue))
                BY <1>9, <4>2 DEF Queued
            <4> QED BY <1>4, <1>9, <4>1, <4>3
        <3>2. i - Len(queue) = j - Len(queue)
            BY <1>3, <3>1
        <3> QED BY <1>2, <3>2
    <2> QED BY <1>8, <2>1, <2>2
<1>11. Keys(queue') \subseteq Keys(queue) \cup DOMAIN failed
    BY <1>9 DEF Keys, Queued
<1> QED BY <1>7, <1>9, <1>10, <1>11
------------------------------------------------------------------------------
(* The invariant *)

LEMMA InitIInv == Init => IInv
<1> SUFFICES ASSUME Init PROVE IInv
    OBVIOUS
<1>1. DOMAIN items = {} /\ DOMAIN failed = {} /\ queue = <<>> /\ processing = {}
    BY DEF Init, Empty
<1>2. queue \in Seq(Item) /\ Len(queue) = 0 /\ Queued = {}
    BY <1>1, EmptySeq DEF Queued
<1>3. CountersOK
    BY DEF Init, CountersOK
<1>4. WorkNeverMultiplies
    BY <1>1, <1>2 DEF Init, Kept, WorkNeverMultiplies
<1>5. HeapIsFresh /\ QueueInHeap /\ FailedAreExhausted /\ SlotsAreInUse
    BY <1>1, <1>2 DEF HeapIsFresh, QueueInHeap, OneItemEach, FailedAreExhausted, SlotsAreInUse
<1>6. FailedInHeap
    BY <1>1, FS_EmptySet DEF FailedInHeap
<1> QED BY <1>3, <1>4, <1>5, <1>6 DEF IInv

\* An item of the heap that is stored leaves the queue as it should be.
LEMMA StoreKeepsQueue ==
    ASSUME IInv, NEW x \in Item, x \in DOMAIN items', DOMAIN items \subseteq DOMAIN items',
           queue' = Store(queue, x)
    PROVE  QueueInHeap' /\ Queued' = Queued \cup {x[1]}
<1>1. queue \in Seq(Item) /\ OneItemEach(queue) /\ \A i \in 1..Len(queue) : queue[i] \in DOMAIN items
    BY DEF IInv, QueueInHeap
<1>2. /\ queue' \in Seq(Item) /\ OneItemEach(queue')
      /\ \A i \in 1..Len(queue') : queue'[i] = x \/ \E j \in 1..Len(queue) : queue'[i] = queue[j]
      /\ Keys(queue') = Keys(queue) \cup {x[1]}
    BY <1>1, StoreFacts
<1>3. Queued = Keys(queue) /\ Queued' = Keys(queue')
    BY DEF Queued, Keys
<1>4. QueueInHeap'
    BY <1>1, <1>2 DEF QueueInHeap, OneItemEach
<1> QED BY <1>2, <1>3, <1>4

\* A call that accepts nothing and does not add to a message's work.
LEMMA NoWorkAdded ==
    ASSUME IInv, CountersOK', accepted' = accepted,
           \A k \in Id : succeeded'[k] + inFlight'[k] + Kept(k)'
                            <= succeeded[k] + inFlight[k] + Kept(k)
    PROVE  WorkNeverMultiplies'
<1>1. \A k \in Id : /\ succeeded[k] + inFlight[k] + Kept(k) \in Nat
                    /\ succeeded'[k] + inFlight'[k] + Kept(k)' \in Nat
                    /\ accepted[k] \in Nat
    <2>1. \A k \in Id : Kept(k) \in Nat /\ Kept(k)' \in Nat
        BY DEF Kept
    <2> QED BY <2>1 DEF IInv, CountersOK
<1>2. \A k \in Id : succeeded[k] + inFlight[k] + Kept(k) <= accepted[k]
    BY DEF IInv, WorkNeverMultiplies
<1> QED BY <1>1, <1>2 DEF WorkNeverMultiplies

LEMMA EnqueueNewIInv ==
    ASSUME IInv, NEW id \in Id, EnqueueNew(id)
    PROVE  IInv'
<1> DEFINE item == <<id, accepted[id] + 1>>
<1>1. /\ id \notin Queued /\ queue' = Store(queue, item)
      /\ items' = With(items, item, [queuedAt |-> stamp', wait |-> 0, attempts |-> 0])
      /\ accepted' = [accepted EXCEPT ![id] = @ + 1]
      /\ UNCHANGED <<processing, failed, requeued, succeeded, inFlight>>
    BY DEF EnqueueNew
<1>2. /\ accepted \in [Id -> Nat]
      /\ \A x \in DOMAIN items : x \in Item /\ x[2] <= accepted[x[1]]
    BY DEF IInv, CountersOK, HeapIsFresh
<1>3. item \in Item /\ item[1] = id /\ item[2] = accepted[id] + 1
    BY <1>2 DEF Item
<1> HIDE DEF item
<1>4. item \notin DOMAIN items
    BY <1>2, <1>3
<1>5. /\ DOMAIN items' = DOMAIN items \cup {item}
      /\ \A x \in DOMAIN items : items'[x] = items[x]
      /\ items'[item] = [queuedAt |-> stamp', wait |-> 0, attempts |-> 0]
    BY <1>1, <1>4 DEF With
<1>6. CountersOK'
    BY <1>1 DEF IInv, CountersOK
<1>7. \A k \in Id : accepted'[k] = IF k = id THEN accepted[k] + 1 ELSE accepted[k]
    BY <1>1, <1>2
<1>8. HeapIsFresh'
    <2> SUFFICES ASSUME NEW x \in DOMAIN items'
                 PROVE  /\ x \in Item /\ x[2] <= accepted'[x[1]]
                        /\ DOMAIN items'[x] = {"queuedAt", "wait", "attempts"}
                        /\ items'[x].attempts \in Nat
        BY DEF HeapIsFresh
    <2>1. CASE x \in DOMAIN items
        <3>1. x \in Item /\ x[2] <= accepted[x[1]]
            BY <1>2, <2>1
        <3>2. x[1] \in Id /\ x[2] \in Nat /\ accepted[x[1]] \in Nat
            BY <1>2, <3>1 DEF Item
        <3> QED BY <1>5, <1>7, <2>1, <3>1, <3>2 DEF IInv, HeapIsFresh
    <2>2. CASE x = item
        BY <1>2, <1>3, <1>5, <1>7, <2>2
    <2> QED BY <1>5, <2>1, <2>2
<1>9. QueueInHeap' /\ Queued' = Queued \cup {id}
    BY <1>1, <1>3, <1>5, StoreKeepsQueue
<1>10. FailedInHeap'
    BY <1>1, <1>5 DEF IInv, FailedInHeap
<1>11. FailedAreExhausted'
    BY <1>1, <1>5 DEF IInv, FailedInHeap, FailedAreExhausted
<1>12. WorkNeverMultiplies'
    BY <1>1, <1>7, <1>9 DEF IInv, CountersOK, Kept, WorkNeverMultiplies
<1>13. SlotsAreInUse'
    BY <1>1 DEF IInv, SlotsAreInUse
<1> QED BY <1>6, <1>8, <1>9, <1>10, <1>11, <1>12, <1>13 DEF IInv

LEMMA DequeueIInv ==
    ASSUME IInv, Dequeue
    PROVE  IInv'
<1>1. PICK i \in 1..Len(queue) :
          /\ queue' = QueueWithout(i)
          /\ processing' = processing \cup {queue[i][1]}
          /\ inFlight' = [inFlight EXCEPT ![queue[i][1]] = @ + 1]
    BY DEF Dequeue
<1> DEFINE id == queue[i][1]
<1>2. UNCHANGED <<items, failed, accepted, requeued, succeeded>>
    BY DEF Dequeue
<1>3. id \in Id /\ id \in Queued
    BY ElementOfSeq DEF IInv, QueueInHeap, Queued, Item
<1>4. QueueInHeap' /\ Queued' = Queued \ {id}
    <2>1. queue \in Seq(Item) /\ OneItemEach(queue) /\ \A k \in 1..Len(queue) : queue[k] \in DOMAIN items
        BY DEF IInv, QueueInHeap
    <2>2. /\ queue' \in Seq(Item) /\ OneItemEach(queue')
          /\ \A k \in 1..Len(queue') : \E j \in 1..Len(queue) : queue'[k] = queue[j]
          /\ Keys(queue') = Keys(queue) \ {id}
        BY <1>1, <2>1, RemovalFacts
    <2>3. Queued = Keys(queue) /\ Queued' = Keys(queue')
        BY DEF Queued, Keys
    <2>4. QueueInHeap'
        BY <1>2, <2>1, <2>2 DEF QueueInHeap, OneItemEach
    <2> QED BY <2>2, <2>3, <2>4
<1> HIDE DEF id
<1>5. CountersOK'
    BY <1>1, <1>2, <1>3 DEF IInv, CountersOK, id
<1>6. \A k \in Id : inFlight'[k] = IF k = id THEN inFlight[k] + 1 ELSE inFlight[k]
    BY <1>1 DEF IInv, CountersOK, id
<1>7. WorkNeverMultiplies'
    <2>1. \A k \in Id : Kept(k) = IF k = id THEN Kept(k)' + 1 ELSE Kept(k)'
        BY <1>2, <1>3, <1>4 DEF Kept
    <2>2. \A k \in Id : Kept(k)' \in Nat /\ succeeded[k] \in Nat /\ inFlight[k] \in Nat
        BY DEF Kept, IInv, CountersOK
    <2> QED BY <1>2, <1>5, <1>6, <2>1, <2>2, NoWorkAdded
<1>8. SlotsAreInUse'
    BY <1>1, <1>3, <1>6 DEF IInv, CountersOK, SlotsAreInUse, id
<1>9. HeapIsFresh' /\ FailedInHeap' /\ FailedAreExhausted'
    BY <1>2 DEF IInv, HeapIsFresh, FailedInHeap, FailedAreExhausted
<1> QED BY <1>4, <1>5, <1>7, <1>8, <1>9 DEF IInv

\* complete's accounting: the executor's message and its slot are given back
\* together (message-queue.ts:72).
LEMMA ReportFacts ==
    ASSUME IInv, NEW id \in Id, NEW success, Report(id, success)
    PROVE  /\ CountersOK' /\ SlotsAreInUse' /\ UNCHANGED <<accepted, requeued>>
           /\ \A k \in Id : /\ succeeded'[k] = IF success /\ k = id THEN succeeded[k] + 1
                                                                  ELSE succeeded[k]
                            /\ inFlight'[k] = IF k = id THEN inFlight[k] - 1 ELSE inFlight[k]
<1>1. /\ inFlight' = [inFlight EXCEPT ![id] = @ - 1] /\ inFlight[id] > 0
      /\ processing' = processing \ {id}
      /\ succeeded' = IF success THEN [succeeded EXCEPT ![id] = @ + 1] ELSE succeeded
      /\ UNCHANGED <<accepted, requeued>>
    BY DEF Report, SlotsAfter
<1>2. CountersOK'
    BY <1>1 DEF IInv, CountersOK
<1>3. SlotsAreInUse'
    BY <1>1 DEF IInv, CountersOK, SlotsAreInUse
<1>4. \A k \in Id : /\ succeeded'[k] = IF success /\ k = id THEN succeeded[k] + 1
                                                           ELSE succeeded[k]
                    /\ inFlight'[k] = IF k = id THEN inFlight[k] - 1 ELSE inFlight[k]
    BY <1>1 DEF IInv, CountersOK
<1> QED BY <1>1, <1>2, <1>3, <1>4

LEMMA CompleteUnchangedIInv ==
    ASSUME IInv, NEW id \in Id, CompleteSuccess(id) \/ CompleteFailureUnknown(id)
    PROVE  IInv'
<1>1. CountersOK' /\ SlotsAreInUse' /\ UNCHANGED <<items, queue, failed, accepted, requeued>>
    BY ReportFacts DEF CompleteSuccess, CompleteFailureUnknown
<1>2. \A k \in Id : succeeded'[k] + inFlight'[k] <= succeeded[k] + inFlight[k]
    <2>1. \A k \in Id : succeeded[k] \in Nat /\ inFlight[k] \in Nat
        BY DEF IInv, CountersOK
    <2>2. /\ inFlight' = [inFlight EXCEPT ![id] = @ - 1]
          /\ \/ succeeded' = [succeeded EXCEPT ![id] = @ + 1]
             \/ succeeded' = succeeded
        BY DEF CompleteSuccess, CompleteFailureUnknown, Report
    <2>3. succeeded \in [Id -> Nat] /\ inFlight \in [Id -> Nat]
        BY DEF IInv, CountersOK
    <2> QED BY <2>1, <2>2, <2>3
<1>3. \A k \in Id : Kept(k)' = Kept(k)
    BY <1>1 DEF Kept, Queued
<1>4. WorkNeverMultiplies'
    <2>1. \A k \in Id : /\ Kept(k) \in Nat
                        /\ succeeded[k] + inFlight[k] \in Nat
                        /\ succeeded'[k] + inFlight'[k] \in Nat
        BY <1>1 DEF Kept, IInv, CountersOK
    <2>2. ASSUME NEW k \in Id
          PROVE  succeeded'[k] + inFlight'[k] + Kept(k)' <= succeeded[k] + inFlight[k] + Kept(k)
        BY <1>2, <1>3, <2>1
    <2> QED BY <1>1, <2>2, NoWorkAdded
<1> QED BY <1>1, <1>4 DEF IInv, HeapIsFresh, QueueInHeap, FailedInHeap, FailedAreExhausted

\* The item that complete charges a failure to: it is filed under the id, and
\* it comes from the queue unless it is exhausted already.
LEMMA ItemOfFacts ==
    ASSUME IInv, NEW id \in Id, Holds(id)
    PROVE  /\ ItemOf(id) \in DOMAIN items /\ ItemOf(id) \in Item /\ ItemOf(id)[1] = id
           /\ id \notin Queued => items[ItemOf(id)].attempts >= MaxRetries
<1>1. CASE id \in Queued
    <2>1. PICK i \in 1..Len(queue) : queue[i][1] = id
        BY <1>1 DEF Queued
    <2>2. \E j \in 1..Len(queue) : ItemOf(id) = queue[j] /\ queue[j][1] = id
        BY <1>1, <2>1 DEF ItemOf
    <2> QED BY <1>1, <2>2 DEF IInv, QueueInHeap, HeapIsFresh
<1>2. CASE id \notin Queued
    <2>1. id \in DOMAIN failed /\ ItemOf(id) = failed[id]
        BY <1>2 DEF Holds, ItemOf
    <2> QED BY <2>1 DEF IInv, FailedInHeap, FailedAreExhausted, HeapIsFresh
<1> QED BY <1>1, <1>2

LEMMA CompleteKnownIInv ==
    ASSUME IInv, NEW id \in Id, CompleteFailureKnown(id)
    PROVE  IInv'
<1> DEFINE item == ItemOf(id)
           n == items[item].attempts + 1
<1>1. /\ CountersOK' /\ SlotsAreInUse' /\ UNCHANGED <<accepted, requeued>>
      /\ \A k \in Id : /\ succeeded'[k] = succeeded[k]
                       /\ inFlight'[k] = IF k = id THEN inFlight[k] - 1 ELSE inFlight[k]
    BY ReportFacts DEF CompleteFailureKnown
<1>2. /\ item \in DOMAIN items /\ item \in Item /\ item[1] = id
      /\ id \notin Queued => items[item].attempts >= MaxRetries
    BY ItemOfFacts DEF CompleteFailureKnown
<1>3. items[item].attempts \in Nat /\ n \in Nat /\ MaxRetries \in Nat
    BY <1>2, QueueAssumption DEF IInv, HeapIsFresh
<1>4. \/ /\ n < MaxRetries
         /\ items' = [items EXCEPT ![item].attempts = n, ![item].wait = Backoff(n)]
         /\ queue' = Store(queue, item) /\ failed' = failed
      \/ /\ ~(n < MaxRetries)
         /\ items' = [items EXCEPT ![item].attempts = n]
         /\ failed' = With(failed, id, item) /\ queue' = queue
    BY DEF CompleteFailureKnown
<1> HIDE DEF item, n
<1>5. /\ DOMAIN items' = DOMAIN items
      /\ \A x \in DOMAIN items : x # item => items'[x] = items[x]
      /\ items'[item].attempts = n
      /\ DOMAIN items'[item] = {"queuedAt", "wait", "attempts"}
    BY <1>2, <1>4 DEF IInv, HeapIsFresh
<1>6. HeapIsFresh'
    BY <1>1, <1>2, <1>3, <1>5 DEF IInv, HeapIsFresh
<1>7. CASE n < MaxRetries
    <2>1. queue' = Store(queue, item) /\ failed' = failed
        BY <1>4, <1>7
    <2>2. id \in Queued
        BY <1>2, <1>3, <1>7 DEF n
    <2>3. QueueInHeap' /\ Queued' = Queued
        BY <1>2, <1>5, <2>1, <2>2, StoreKeepsQueue
    <2>4. FailedInHeap'
        BY <1>5, <2>1 DEF IInv, FailedInHeap
    <2>5. \A k \in DOMAIN failed : failed[k] # item
        <3>1. \A k \in DOMAIN failed : items[failed[k]].attempts >= MaxRetries
            BY DEF IInv, FailedAreExhausted
        <3>2. ~(items[item].attempts >= MaxRetries)
            BY <1>3, <1>7 DEF n
        <3> QED BY <3>1, <3>2
    <2>6. FailedAreExhausted'
        BY <1>5, <2>1, <2>5 DEF IInv, FailedInHeap, FailedAreExhausted
    <2>7. WorkNeverMultiplies'
        BY <1>1, <2>1, <2>3 DEF IInv, CountersOK, Kept, WorkNeverMultiplies
    <2> QED BY <1>1, <1>6, <2>3, <2>4, <2>6, <2>7 DEF IInv
<1>8. CASE ~(n < MaxRetries)
    <2>1. queue' = queue /\ failed' = With(failed, id, item)
        BY <1>4, <1>8
    <2>2. /\ DOMAIN failed' = DOMAIN failed \cup {id}
          /\ failed'[id] = item
          /\ \A k \in DOMAIN failed : k # id => failed'[k] = failed[k]
        BY <2>1 DEF With
    <2>3. QueueInHeap' /\ Queued' = Queued
        BY <1>5, <2>1 DEF IInv, QueueInHeap, Queued
    <2>4. FailedInHeap'
        <3>1. IsFiniteSet(DOMAIN failed')
            BY <2>2, FS_AddElement DEF IInv, FailedInHeap
        <3> QED BY <1>2, <1>5, <2>2, <3>1 DEF IInv, FailedInHeap
    <2>5. FailedAreExhausted'
        <3>1. n >= MaxRetries
            BY <1>3, <1>8
        <3>2. \A k \in DOMAIN failed : k # id => failed[k] # item /\ failed[k] \in DOMAIN items
            BY <1>2 DEF IInv, FailedInHeap
        <3> QED BY <1>5, <2>2, <3>1, <3>2 DEF IInv, FailedAreExhausted
    <2>6. WorkNeverMultiplies'
        BY <1>1, <2>2, <2>3 DEF IInv, CountersOK, Kept, WorkNeverMultiplies
    <2> QED BY <1>1, <1>6, <2>3, <2>4, <2>5, <2>6 DEF IInv
<1> QED BY <1>7, <1>8

\* Starting items over leaves the heap as it is.
LEMMA ResetFacts ==
    ASSUME IInv, NEW xs, Reset(xs)
    PROVE  /\ DOMAIN items' = DOMAIN items
           /\ \A x \in DOMAIN items : x \notin xs => items'[x] = items[x]
           /\ \A x \in DOMAIN items : /\ DOMAIN items'[x] = {"queuedAt", "wait", "attempts"}
                                      /\ items'[x].attempts \in Nat
BY DEF Reset, IInv, HeapIsFresh

LEMMA RetryFailedIInv ==
    ASSUME IInv, NEW id \in Id, RetryFailed(id)
    PROVE  IInv'
<1> DEFINE item == failed[id]
<1>1. /\ id \in DOMAIN failed /\ Reset({item}) /\ queue' = Store(queue, item)
      /\ failed' = Without(failed, id)
      /\ requeued' = [requeued EXCEPT ![id] = @ + 1]
      /\ UNCHANGED <<processing, accepted, succeeded, inFlight>>
    BY DEF RetryFailed
<1>2. item \in DOMAIN items /\ item \in Item /\ item[1] = id
    BY <1>1 DEF IInv, FailedInHeap, HeapIsFresh
<1> HIDE DEF item
<1>3. /\ DOMAIN items' = DOMAIN items
      /\ \A x \in DOMAIN items : x # item => items'[x] = items[x]
      /\ \A x \in DOMAIN items : /\ DOMAIN items'[x] = {"queuedAt", "wait", "attempts"}
                                 /\ items'[x].attempts \in Nat
    BY <1>1, ResetFacts
<1>4. HeapIsFresh'
    BY <1>1, <1>3 DEF IInv, HeapIsFresh
<1>5. QueueInHeap' /\ Queued' = Queued \cup {id}
    BY <1>1, <1>2, <1>3, StoreKeepsQueue
<1>6. /\ DOMAIN failed' = DOMAIN failed \ {id}
      /\ \A k \in DOMAIN failed' : failed'[k] = failed[k]
    BY <1>1 DEF Without
<1>7. FailedInHeap'
    <2>1. IsFiniteSet(DOMAIN failed')
        BY <1>6, FS_Subset DEF IInv, FailedInHeap
    <2> QED BY <1>3, <1>6, <2>1 DEF IInv, FailedInHeap
<1>8. FailedAreExhausted'
    <2>1. \A k \in DOMAIN failed' : failed[k] # item /\ failed[k] \in DOMAIN items
        BY <1>2, <1>6 DEF IInv, FailedInHeap
    <2> QED BY <1>3, <1>6, <2>1 DEF IInv, FailedAreExhausted
<1>9. CountersOK' /\ SlotsAreInUse'
    BY <1>1 DEF IInv, CountersOK, SlotsAreInUse
<1>10. WorkNeverMultiplies'
    BY <1>1, <1>5, <1>6 DEF IInv, CountersOK, Kept, WorkNeverMultiplies
<1> QED BY <1>4, <1>5, <1>7, <1>8, <1>9, <1>10 DEF IInv

LEMMA RetryAllFailedIInv ==
    ASSUME IInv, RetryAllFailed
    PROVE  IInv'
<1>1. /\ Reset({failed[id] : id \in DOMAIN failed})
      /\ failed' = Empty
      /\ requeued' = [id \in Id |-> IF id \in DOMAIN failed THEN requeued[id] + 1 ELSE requeued[id]]
      /\ UNCHANGED <<processing, accepted, succeeded, inFlight>>
    BY DEF RetryAllFailed
<1>2. /\ DOMAIN items' = DOMAIN items
      /\ \A x \in DOMAIN items : /\ DOMAIN items'[x] = {"queuedAt", "wait", "attempts"}
                                 /\ items'[x].attempts \in Nat
    BY <1>1, ResetFacts
<1>3. HeapIsFresh'
    BY <1>1, <1>2 DEF IInv, HeapIsFresh
<1>4. /\ queue' \in Seq(Item) /\ OneItemEach(queue')
      /\ \A i \in 1..Len(queue') : queue'[i] \in DOMAIN items
      /\ Keys(queue') \subseteq Keys(queue) \cup DOMAIN failed
    BY RetryAllFacts
<1>5. QueueInHeap'
    BY <1>2, <1>4 DEF QueueInHeap, OneItemEach
<1>6. Queued' \subseteq Queued \cup DOMAIN failed
    BY <1>4 DEF Queued, Keys
<1>7. DOMAIN failed' = {}
    BY <1>1 DEF Empty
<1>8. FailedInHeap' /\ FailedAreExhausted'
    BY <1>7, FS_EmptySet DEF FailedInHeap, FailedAreExhausted
<1>9. CountersOK' /\ SlotsAreInUse'
    BY <1>1 DEF IInv, CountersOK, SlotsAreInUse
<1>10. WorkNeverMultiplies'
    <2>1. \A k \in Id : Kept(k) \in Nat /\ Kept(k)' \in Nat /\ Kept(k)' <= Kept(k)
        BY <1>6, <1>7 DEF Kept
    <2>2. \A k \in Id : succeeded[k] + inFlight[k] \in Nat
        BY DEF IInv, CountersOK
    <2> QED BY <1>1, <1>9, <2>1, <2>2, NoWorkAdded
<1> QED BY <1>3, <1>5, <1>8, <1>9, <1>10 DEF IInv

LEMMA ClearIInv ==
    ASSUME IInv, Clear
    PROVE  IInv'
<1>1. /\ queue' = <<>> /\ processing' = {} /\ DOMAIN failed' = {}
      /\ UNCHANGED <<items, accepted, requeued, succeeded, inFlight>>
    BY DEF Clear, Empty
<1>2. queue' \in Seq(Item) /\ Len(queue') = 0 /\ Queued' = {}
    BY <1>1, EmptySeq DEF Queued
<1>3. HeapIsFresh' /\ CountersOK'
    BY <1>1 DEF IInv, HeapIsFresh, CountersOK
<1>4. QueueInHeap' /\ SlotsAreInUse'
    BY <1>1, <1>2 DEF QueueInHeap, OneItemEach, SlotsAreInUse
<1>5. FailedInHeap' /\ FailedAreExhausted'
    BY <1>1, FS_EmptySet DEF FailedInHeap, FailedAreExhausted
<1>6. WorkNeverMultiplies'
    <2>1. \A id \in Id : Kept(id) \in Nat /\ Kept(id)' = 0
        BY <1>1, <1>2 DEF Kept
    <2> QED BY <1>1, <2>1 DEF IInv, CountersOK, WorkNeverMultiplies
<1> QED BY <1>3, <1>4, <1>5, <1>6 DEF IInv

LEMMA TickIInv ==
    ASSUME IInv, Tick
    PROVE  IInv'
<1>1. /\ items' = [x \in DOMAIN items |-> [items[x] EXCEPT !.wait = IF @ > 0 THEN @ - 1 ELSE 0]]
      /\ UNCHANGED <<queue, processing, failed, accepted, requeued, succeeded, inFlight>>
    BY DEF Tick
<1>2. /\ DOMAIN items' = DOMAIN items
      /\ \A x \in DOMAIN items : /\ DOMAIN items'[x] = DOMAIN items[x]
                                 /\ items'[x].attempts = items[x].attempts
    BY <1>1 DEF IInv, HeapIsFresh
<1>3. HeapIsFresh'
    BY <1>1, <1>2 DEF IInv, HeapIsFresh
<1>4. QueueInHeap' /\ FailedInHeap' /\ FailedAreExhausted'
    BY <1>1, <1>2 DEF IInv, QueueInHeap, OneItemEach, FailedInHeap, FailedAreExhausted
<1>5. CountersOK' /\ SlotsAreInUse' /\ WorkNeverMultiplies'
    BY <1>1 DEF IInv, CountersOK, SlotsAreInUse, WorkNeverMultiplies, Kept, Queued
<1> QED BY <1>3, <1>4, <1>5 DEF IInv

LEMMA StutterIInv ==
    ASSUME IInv, UNCHANGED vars
    PROVE  IInv'
BY DEF vars, IInv, HeapIsFresh, QueueInHeap, OneItemEach, FailedInHeap, CountersOK,
       FailedAreExhausted, WorkNeverMultiplies, Kept, SlotsAreInUse, Queued

LEMMA NextIInv == IInv /\ [Next]_vars => IInv'
<1> SUFFICES ASSUME IInv, [Next]_vars PROVE IInv'
    OBVIOUS
<1>1. ASSUME NEW id \in Id, EnqueueDuplicate(id) PROVE IInv'
    BY <1>1, StutterIInv DEF EnqueueDuplicate
<1>2. ASSUME NEW id \in Id, EnqueueNew(id) PROVE IInv'
    BY <1>2, EnqueueNewIInv
<1>3. CASE Dequeue
    BY <1>3, DequeueIInv
<1>4. ASSUME NEW id \in Id, Complete(id) PROVE IInv'
    BY <1>4, CompleteUnchangedIInv, CompleteKnownIInv DEF Complete
<1>5. ASSUME NEW id \in Id, RetryFailed(id) PROVE IInv'
    BY <1>5, RetryFailedIInv
<1>6. CASE RetryAllFailed
    BY <1>6, RetryAllFailedIInv
<1>7. CASE Clear
    BY <1>7, ClearIInv
<1>8. CASE Tick
    BY <1>8, TickIInv
<1>9. CASE UNCHANGED vars
    BY <1>9, StutterIInv
<1> QED BY <1>1, <1>2, <1>3, <1>4, <1>5, <1>6, <1>7, <1>8, <1>9 DEF Next

\* The heap, the maps and the callers' counts belong together after any calls
\* of enqueue, dequeue, complete, retryFailed, retryAllFailed and clear.
THEOREM Invariance == Spec => []IInv
<1>1. IInv /\ UNCHANGED vars => IInv'
    BY StutterIInv
<1> QED BY <1>1, InitIInv, NextIInv, PTL DEF Spec
------------------------------------------------------------------------------
(* Theorems *)

\* A message that the queue took n times is at no time executed, queued,
\* failed and done more than n times in all (message-queue.ts:43, 63, 85, 95
\* and 138).
THEOREM NeverMultiplied == Spec => []WorkNeverMultiplies
<1>1. IInv => WorkNeverMultiplies
    BY DEF IInv
<1> QED BY <1>1, Invariance, PTL

\* A slot of the concurrency limit belongs to an executor at work
\* (message-queue.ts:64 and 72).
THEOREM SlotsNeverLeak == Spec => []SlotsAreInUse
<1>1. IInv => SlotsAreInUse
    BY DEF IInv
<1> QED BY <1>1, Invariance, PTL

\* What the failed map holds has used up its retries (message-queue.ts:81-95).
THEOREM FailedHaveNoRetry == Spec => []FailedAreExhausted
<1>1. IInv => FailedAreExhausted
    BY DEF IInv
<1> QED BY <1>1, Invariance, PTL
------------------------------------------------------------------------------
(* Types *)

\* What TypeOK says and IInv does not.
Typed ==
    /\ \A x \in DOMAIN items : x[2] >= 1 /\ items[x] \in Attributes
    /\ \A id \in Id : accepted[id] <= MaxEnqueues[id]
    /\ DOMAIN completed \subseteq Id
    /\ \A id \in DOMAIN completed : completed[id] \in BOOLEAN
    /\ stamp \in Nat

LEMMA TypedInit == Init => Typed
<1> SUFFICES ASSUME Init PROVE Typed
    OBVIOUS
<1>1. DOMAIN items = {} /\ DOMAIN completed = {} /\ stamp = 0 /\ accepted = [id \in Id |-> 0]
    BY DEF Init, Empty
<1>2. \A id \in Id : MaxEnqueues[id] \in Nat
    BY QueueAssumption
<1> QED BY <1>1, <1>2 DEF Typed

LEMMA EnqueueTyped ==
    ASSUME IInv, Typed, NEW id \in Id, EnqueueNew(id)
    PROVE  Typed'
<1> DEFINE item == <<id, accepted[id] + 1>>
           fresh == [queuedAt |-> stamp', wait |-> 0, attempts |-> 0]
<1>1. /\ accepted[id] < MaxEnqueues[id] /\ stamp' \in {stamp, stamp + 1}
      /\ items' = With(items, item, fresh)
      /\ accepted' = [accepted EXCEPT ![id] = @ + 1] /\ UNCHANGED completed
    BY DEF EnqueueNew
<1>2. accepted \in [Id -> Nat] /\ stamp \in Nat /\ \A k \in Id : MaxEnqueues[k] \in Nat
    BY QueueAssumption DEF IInv, CountersOK, Typed
<1>3. stamp' \in Nat
    BY <1>1, <1>2
<1>4. item[2] >= 1 /\ fresh \in Attributes
    BY <1>2, <1>3 DEF Attributes
<1> HIDE DEF item, fresh
<1>5. /\ DOMAIN items' = DOMAIN items \cup {item} /\ items'[item] = fresh
      /\ \A x \in DOMAIN items : x # item => items'[x] = items[x]
    BY <1>1 DEF With
<1>6. \A x \in DOMAIN items' : x[2] >= 1 /\ items'[x] \in Attributes
    BY <1>4, <1>5 DEF Typed
<1>7. \A k \in Id : accepted'[k] <= MaxEnqueues[k]
  <2> SUFFICES ASSUME NEW k \in Id PROVE accepted'[k] <= MaxEnqueues[k]
      OBVIOUS
  <2>1. accepted'[k] = IF k = id THEN accepted[k] + 1 ELSE accepted[k]
      BY <1>1, <1>2
  <2>2. accepted[k] \in Nat /\ MaxEnqueues[k] \in Nat /\ accepted[k] <= MaxEnqueues[k]
      BY <1>2 DEF Typed
  <2> QED BY <1>1, <2>1, <2>2
<1> QED BY <1>1, <1>3, <1>6, <1>7 DEF Typed

LEMMA CompleteTyped ==
    ASSUME \A n \in Nat : 2^n \in Nat, IInv, Typed, NEW id \in Id, Complete(id)
    PROVE  Typed'
<1>1. PICK success \in BOOLEAN : Report(id, success)
    BY DEF Complete, CompleteSuccess, CompleteFailureUnknown, CompleteFailureKnown
<1>2. completed' = With(completed, id, success) /\ UNCHANGED <<stamp, accepted>>
    BY <1>1 DEF Report
<1>3. DOMAIN completed' \subseteq Id /\ \A k \in DOMAIN completed' : completed'[k] \in BOOLEAN
    BY <1>2 DEF With, Typed
<1>4. CASE UNCHANGED items
    BY <1>2, <1>3, <1>4 DEF Typed
<1>5. CASE CompleteFailureKnown(id)
  <2> DEFINE item == ItemOf(id)
             n == items[item].attempts + 1
  <2>1. /\ \/ n < MaxRetries /\ items' = [items EXCEPT ![item].attempts = n, ![item].wait = Backoff(n)]
           \/ items' = [items EXCEPT ![item].attempts = n]
        /\ item \in DOMAIN items
      BY <1>5, ItemOfFacts DEF CompleteFailureKnown
  <2>2. items[item] \in Attributes
      BY <2>1 DEF Typed
  <2>3. n \in Nat /\ n - 1 \in Nat
      BY <2>2 DEF Attributes
  <2> HIDE DEF n
  <2>4. Backoff(n) \in Nat
    <3>1. PICK p \in Nat : p = 2^(n - 1)
        BY <2>3
    <3>2. RetryDelay * p \in Nat
        BY QueueAssumption
    <3> QED BY <3>1, <3>2 DEF Backoff
  <2> HIDE DEF item
  <2>5. PICK w \in Nat : w = Backoff(n)
      BY <2>4
  <2>6. /\ DOMAIN items' = DOMAIN items
        /\ \A x \in DOMAIN items : x # item => items'[x] = items[x]
      BY <2>1
  <2>7. items'[item] = [items[item] EXCEPT !.attempts = n, !.wait = w]
        \/ items'[item] = [items[item] EXCEPT !.attempts = n]
      BY <2>1, <2>5
  <2>8. items'[item] \in Attributes
      BY <2>2, <2>3, <2>7 DEF Attributes
  <2>9. \A x \in DOMAIN items' : x[2] >= 1 /\ items'[x] \in Attributes
      BY <2>6, <2>8 DEF Typed
  <2> QED BY <1>2, <1>3, <2>9 DEF Typed
<1> QED BY <1>4, <1>5 DEF Complete, CompleteSuccess, CompleteFailureUnknown

LEMMA ResetTyped ==
    ASSUME Typed, NEW xs, Reset(xs), UNCHANGED <<completed, stamp, accepted>>
    PROVE  Typed'
<1>1. ASSUME NEW x \in DOMAIN items
      PROVE  [items[x] EXCEPT !.attempts = 0, !.wait = 0] \in Attributes /\ items[x] \in Attributes
    BY DEF Typed, Attributes
<1>2. /\ DOMAIN items' = DOMAIN items
      /\ \A x \in DOMAIN items : items'[x] \in Attributes
    BY <1>1 DEF Reset
<1> QED BY <1>2 DEF Typed

LEMMA TickTyped == ASSUME Typed, Tick PROVE Typed'
<1>1. /\ items' = [x \in DOMAIN items |-> [items[x] EXCEPT !.wait = IF @ > 0 THEN @ - 1 ELSE 0]]
      /\ UNCHANGED <<completed, stamp, accepted>>
    BY DEF Tick
<1>2. ASSUME NEW x \in DOMAIN items PROVE items'[x] \in Attributes
  <2>1. items[x] \in Attributes /\ items[x].wait \in Nat
      BY DEF Typed, Attributes
  <2>2. PICK w \in Nat : w = (IF items[x].wait > 0 THEN items[x].wait - 1 ELSE 0)
      BY <2>1
  <2>3. items'[x] = [items[x] EXCEPT !.wait = w]
      BY <1>1, <2>2
  <2> QED BY <2>1, <2>3 DEF Attributes
<1>3. DOMAIN items' = DOMAIN items
    BY <1>1
<1> QED BY <1>1, <1>2, <1>3 DEF Typed

LEMMA TypedNext ==
    ASSUME \A n \in Nat : 2^n \in Nat
    PROVE  IInv /\ Typed /\ [Next]_vars => Typed'
<1> SUFFICES ASSUME IInv, Typed, [Next]_vars PROVE Typed'
    OBVIOUS
<1>1. ASSUME NEW id \in Id, EnqueueNew(id) PROVE Typed'
    BY <1>1, EnqueueTyped
<1>2. ASSUME NEW id \in Id, Complete(id) PROVE Typed'
    BY <1>2, CompleteTyped
<1>3. ASSUME NEW id \in Id, RetryFailed(id) PROVE Typed'
    BY <1>3, ResetTyped DEF RetryFailed
<1>4. CASE RetryAllFailed
    BY <1>4, ResetTyped DEF RetryAllFailed
<1>5. CASE Tick
    BY <1>5, TickTyped
<1>6. CASE Clear
  <2>1. UNCHANGED <<items, stamp, accepted>> /\ DOMAIN completed' = {}
      BY <1>6 DEF Clear, Empty
  <2> QED BY <2>1 DEF Typed
<1>7. CASE Dequeue \/ UNCHANGED vars
    BY <1>7 DEF Dequeue, vars, Typed
<1>8. ASSUME NEW id \in Id, EnqueueDuplicate(id) PROVE Typed'
    BY <1>8 DEF EnqueueDuplicate, vars, Typed
<1> QED BY <1>1, <1>2, <1>3, <1>4, <1>5, <1>6, <1>7, <1>8 DEF Next

\* Every value has its type: an item's attempts, its wait and the maps that
\* hold it. The provers know nothing of ^ (message-queue.ts:82): that a power
\* of two is a natural number is the hypothesis.
THEOREM QueueTypeCorrect == ASSUME \A n \in Nat : 2^n \in Nat PROVE Spec => []TypeOK
<1>1. ASSUME IInv, Typed PROVE TypeOK
  <2>1. ASSUME NEW x \in DOMAIN items PROVE x[1] \in Id /\ x[2] \in 1..MaxEnqueues[x[1]]
    <3>1. x \in Id \X Nat /\ x[2] <= accepted[x[1]] /\ x[2] >= 1
        BY <1>1 DEF IInv, HeapIsFresh, Item, Typed
    <3>2. x[1] \in Id /\ x[2] \in Nat /\ accepted[x[1]] \in Nat /\ MaxEnqueues[x[1]] \in Nat
        BY <1>1, <3>1, QueueAssumption DEF IInv, CountersOK
    <3>3. accepted[x[1]] <= MaxEnqueues[x[1]]
        BY <1>1, <3>2 DEF Typed
    <3> QED BY <3>1, <3>2, <3>3
  <2>2. queue \in Seq(DOMAIN items)
    <3>1. queue \in Seq(Item) /\ \A i \in 1..Len(queue) : queue[i] \in DOMAIN items
        BY <1>1 DEF IInv, QueueInHeap
    <3>2. Len(queue) \in Nat /\ queue \in [1..Len(queue) -> Item]
        BY <3>1, LenProperties
    <3>3. queue \in [1..Len(queue) -> DOMAIN items]
        BY <3>1, <3>2
    <3> QED BY <3>2, <3>3, SeqDef
  <2> QED BY <1>1, <2>1, <2>2 DEF IInv, CountersOK, FailedInHeap, Typed, TypeOK
<1>2. IInv /\ Typed => TypeOK
    BY <1>1
<1>3. IInv /\ Typed /\ [Next]_vars => (IInv /\ Typed)'
    BY NextIInv, TypedNext
<1> QED BY <1>2, <1>3, InitIInv, TypedInit, PTL DEF Spec
==============================================================================
