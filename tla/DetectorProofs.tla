---------------------------- MODULE DetectorProofs ----------------------------
(***************************************************************************)
(* The re-org detector's buffer, for all trees of blocks, capacities and   *)
(* both modes.                                                             *)
(***************************************************************************)
EXTENDS ReorgDetector, FiniteSetTheorems, SequenceTheorems, TLAPS

USE DetectorAssumption

\* What BlockHistoryBuffer keeps between its methods, except for the capacity,
\* which set restores after it has pushed.
Consistent(hist, ord) ==
    /\ ord \in Seq(Nat)
    /\ {ord[i] : i \in 1..Len(ord)} = DOMAIN hist
    /\ \A i, j \in 1..Len(ord) : ord[i] = ord[j] => i = j
    /\ \A h \in DOMAIN hist : hist[h] \in Block /\ Height(hist[h]) = h

DetectorInv ==
    /\ Consistent(history, order)
    /\ Len(order) <= HistoryDepth
    /\ event \in Event

LEMMA BlockFacts ==
    ASSUME NEW b \in Block
    PROVE  /\ b \in Seq(Nat) /\ Height(b) \in Nat \ {0}
           /\ \A n \in 1..Height(b) : SubSeq(b, 1, n) \in Block
BY BlockAssumption DEF Height
------------------------------------------------------------------------------
(* The filter of the order *)

Rank(positions, i) == Cardinality({j \in positions : j <= i})

\* Every rank belongs to exactly one position.
LEMMA RankFacts ==
    ASSUME NEW n \in Nat, NEW P \in SUBSET (1..n)
    PROVE  /\ Cardinality(P) \in Nat /\ Cardinality(P) <= n
           /\ \A i \in P : Rank(P, i) \in 1..Cardinality(P)
           /\ \A i, j \in P : i < j => Rank(P, i) < Rank(P, j)
           /\ \A k \in 1..Cardinality(P) : \E i \in P : Rank(P, i) = k
<1>1. IsFiniteSet(1..n) /\ Cardinality(1..n) = n
    BY FS_Interval
<1>2. IsFiniteSet(P) /\ Cardinality(P) \in Nat /\ Cardinality(P) <= n
    BY <1>1, FS_Subset, FS_CardinalityType
<1>i. \A i \in P : i \in Int
    OBVIOUS
<1> DEFINE Upto(i) == {j \in P : j <= i}
<1>3. ASSUME NEW i \in P
      PROVE  IsFiniteSet(Upto(i)) /\ Rank(P, i) \in 1..Cardinality(P)
  <2>1. Upto(i) \in SUBSET P /\ i \in Upto(i)
      OBVIOUS
  <2>2. IsFiniteSet(Upto(i)) /\ Cardinality(Upto(i)) <= Cardinality(P)
      BY <2>1, <1>2, FS_Subset
  <2>3. Cardinality(Upto(i)) \in Nat /\ Cardinality(Upto(i)) # 0
      BY <2>1, <2>2, FS_EmptySet, FS_CardinalityType
  <2> QED BY <2>2, <2>3, <1>2 DEF Rank
<1>4. ASSUME NEW i \in P, NEW j \in P, i < j PROVE Rank(P, i) < Rank(P, j)
  <2>1. Upto(i) \in SUBSET Upto(j) /\ j \in Upto(j) /\ j \notin Upto(i)
    <3>1. i \in Int /\ j \in Int
        BY <1>i
    <3>2. ASSUME NEW k \in P, k <= i PROVE k <= j
        BY <3>1, <3>2, <1>4, <1>i
    <3>3. j <= j /\ ~(j <= i)
        BY <3>1, <1>4
    <3> QED BY <3>2, <3>3
  <2>2. Cardinality(Upto(i)) <= Cardinality(Upto(j))
      /\ (Cardinality(Upto(i)) = Cardinality(Upto(j)) => Upto(i) = Upto(j))
      BY <2>1, <1>3, FS_Subset
  <2>3. /\ Cardinality(Upto(i)) \in Nat /\ Cardinality(Upto(j)) \in Nat
        /\ Cardinality(Upto(i)) # Cardinality(Upto(j))
      BY <2>1, <2>2, <1>3, FS_CardinalityType
  <2> HIDE DEF Upto
  <2>4. Cardinality(Upto(i)) < Cardinality(Upto(j))
      BY <2>2, <2>3
  <2> QED BY <2>4 DEF Rank, Upto
<1>r. \A i \in P : Rank(P, i) \in Int
  <2> SUFFICES ASSUME NEW i \in P PROVE Rank(P, i) \in Int
      OBVIOUS
  <2>1. Rank(P, i) \in 1..Cardinality(P)
      BY <1>3
  <2> QED BY <2>1
<1> DEFINE R == 1..Cardinality(P)
           f == [i \in P |-> Rank(P, i)]
<1>5. f \in Injection(P, R)
  <2>1. f \in [P -> R]
      BY <1>3
  <2>2. ASSUME NEW i \in P, NEW j \in P, f[i] = f[j] PROVE i = j
    <3>0. f[i] = Rank(P, i) /\ f[j] = Rank(P, j)
        OBVIOUS
    <3>1. Rank(P, i) = Rank(P, j)
        BY <3>0, <2>2
    <3>a. Rank(P, i) \in Int /\ Rank(P, j) \in Int
        BY <1>r
    <3>2. ~(Rank(P, i) < Rank(P, j)) /\ ~(Rank(P, j) < Rank(P, i))
        BY <3>1, <3>a
    <3>3. ~(i < j) /\ ~(j < i)
        BY <3>2, <1>4
    <3> QED BY <3>3, <1>i
  <2> QED BY <2>1, <2>2 DEF Injection, IsInjective
<1>6. IsFiniteSet(R) /\ Cardinality(R) = Cardinality(P)
    BY <1>2, FS_Interval
<1>7. f \in Surjection(P, R)
    BY <1>5, <1>6, FS_Injection
<1>8. \A k \in R : \E i \in P : f[i] = k
    BY <1>7 DEF Surjection
<1> QED BY <1>2, <1>3, <1>4, <1>8

\* The k-th entry of the filtered order is the order's entry at the position
\* of rank k.
LEMMA QueuedAtFacts ==
    ASSUME NEW S, order \in Seq(S), NEW P \in SUBSET (1..Len(order))
    PROVE  /\ QueuedAt(P) \in Seq(S)
           /\ Len(QueuedAt(P)) = Cardinality(P)
           /\ Cardinality(P) \in Nat /\ Cardinality(P) <= Len(order)
           /\ \A k \in 1..Cardinality(P) :
                 \E i \in P : Rank(P, i) = k /\ QueuedAt(P)[k] = order[i]
           /\ \A i \in P : Rank(P, i) \in 1..Cardinality(P)
                           /\ QueuedAt(P)[Rank(P, i)] = order[i]
<1> DEFINE n == Cardinality(P)
           at(k) == CHOOSE i \in P : Rank(P, i) = k
<1>1. /\ n \in Nat /\ n <= Len(order)
      /\ \A i \in P : Rank(P, i) \in 1..n
      /\ \A i, j \in P : i < j => Rank(P, i) < Rank(P, j)
      /\ \A k \in 1..n : \E i \in P : Rank(P, i) = k
    BY RankFacts
<1>2. QueuedAt(P) = [k \in 1..n |-> order[at(k)]]
    BY DEF QueuedAt, Rank
<1>3. ASSUME NEW k \in 1..n
      PROVE  at(k) \in P /\ Rank(P, at(k)) = k
    BY <1>1
<1>4. \A i \in P : at(Rank(P, i)) = i
  <2> SUFFICES ASSUME NEW i \in P PROVE at(Rank(P, i)) = i
      OBVIOUS
  <2>1. at(Rank(P, i)) \in P /\ Rank(P, at(Rank(P, i))) = Rank(P, i)
      BY <1>1, <1>3
  <2> HIDE DEF at
  <2> DEFINE j == at(Rank(P, i))
  <2>2. j \in P /\ Rank(P, j) = Rank(P, i)
      BY <2>1
  <2> HIDE DEF j
  <2>i. j \in Int /\ i \in Int /\ Rank(P, i) \in Int
      BY <2>2, <1>1
  <2>3. ~(i < j) /\ ~(j < i)
      BY <2>2, <2>i, <1>1
  <2> QED BY <2>i, <2>3 DEF j
<1> HIDE DEF at, n
<1>5. ASSUME NEW k \in 1..n PROVE order[at(k)] \in S
  <2>1. at(k) \in 1..Len(order)
      BY <1>3
  <2> QED BY <2>1, ElementOfSeq
<1>6. QueuedAt(P) \in Seq(S) /\ Len(QueuedAt(P)) = n
    BY <1>1, <1>2, <1>5
<1>7. \A k \in 1..n : QueuedAt(P)[k] = order[at(k)]
    BY <1>2
<1> QED BY <1>1, <1>3, <1>4, <1>6, <1>7 DEF n
------------------------------------------------------------------------------
(* The buffer's methods *)

\* set keeps the maps and the queue together; it drops a height only when the
\* buffer was full, and then the oldest one.
LEMMA PutFacts ==
    ASSUME NEW hist, NEW ord, Consistent(hist, ord), Len(ord) <= HistoryDepth,
           NEW b \in Block, Put(hist, ord, b)
    PROVE  /\ Consistent(history', order')
           /\ Len(order') <= HistoryDepth
           /\ \A h \in DOMAIN history' :
                 \/ h = Height(b) /\ history'[h] = b
                 \/ h \in DOMAIN hist /\ h # Height(b) /\ history'[h] = hist[h]
           /\ \A h \in DOMAIN hist \ DOMAIN history' :
                 Len(ord) = HistoryDepth /\ h = ord[1]
<1> DEFINE pushed  == IF Height(b) \in DOMAIN hist THEN ord ELSE Append(ord, Height(b))
           n       == Len(pushed)
           excess  == Excess(n)
           evicted == {pushed[i] : i \in 1..excess}
           stored  == [h \in DOMAIN hist \cup {Height(b)} |->
                          IF h = Height(b) THEN b ELSE hist[h]]
<1>1. /\ order' = SubSeq(pushed, excess + 1, n)
      /\ history' = WithoutHeights(stored, evicted)
    BY DEF Put
<1>b. b \in Seq(Nat) /\ Height(b) \in Nat
    BY BlockFacts
<1>c. /\ ord \in Seq(Nat) /\ Len(ord) \in Nat
      /\ {ord[i] : i \in 1..Len(ord)} = DOMAIN hist
      /\ \A i, j \in 1..Len(ord) : ord[i] = ord[j] => i = j
      /\ \A h \in DOMAIN hist : hist[h] \in Block /\ Height(hist[h]) = h
    BY DEF Consistent
<1>2. /\ pushed \in Seq(Nat) /\ n \in Nat
      /\ n = IF Height(b) \in DOMAIN hist THEN Len(ord) ELSE Len(ord) + 1
      /\ \A i \in 1..Len(ord) : pushed[i] = ord[i]
      /\ Height(b) \notin DOMAIN hist => pushed[n] = Height(b)
    BY <1>b, <1>c
<1> HIDE DEF pushed
<1>3. /\ \A i \in 1..n : i \in 1..Len(ord) \/ (i = n /\ pushed[i] = Height(b))
      /\ \A i \in 1..Len(ord) : i \in 1..n
    BY <1>2, <1>c
<1>4. {pushed[i] : i \in 1..n} = DOMAIN hist \cup {Height(b)}
  <2>1. ASSUME NEW i \in 1..n PROVE pushed[i] \in DOMAIN hist \cup {Height(b)}
      BY <1>2, <1>3, <1>c
  <2>2. ASSUME NEW h \in DOMAIN hist PROVE \E i \in 1..n : pushed[i] = h
    <3>1. PICK i \in 1..Len(ord) : ord[i] = h
        BY <1>c
    <3> QED BY <3>1, <1>2, <1>3
  <2>3. \E i \in 1..n : pushed[i] = Height(b)
    <3>1. CASE Height(b) \in DOMAIN hist
        BY <3>1, <2>2
    <3>2. CASE Height(b) \notin DOMAIN hist
        BY <3>2, <1>2, <1>c
    <3> QED BY <3>1, <3>2
  <2> QED BY <2>1, <2>2, <2>3
<1>5. ASSUME NEW i \in 1..n, NEW j \in 1..n, pushed[i] = pushed[j] PROVE i = j
  <2>1. CASE i \in 1..Len(ord) /\ j \in 1..Len(ord)
      BY <2>1, <1>5, <1>2, <1>c
  <2>2. ASSUME NEW k \in 1..Len(ord) PROVE pushed[k] \in DOMAIN hist
      BY <1>2, <1>c
  <2>3. CASE ~(i \in 1..Len(ord) /\ j \in 1..Len(ord))
    <3>1. Height(b) \notin DOMAIN hist
        BY <2>3, <1>2, <1>3
    <3> QED BY <3>1, <2>2, <2>3, <1>3, <1>5
  <2> QED BY <2>1, <2>3
<1>6. /\ excess \in 0..1 /\ excess <= n /\ n - excess <= HistoryDepth
      /\ excess = 1 => Len(ord) = HistoryDepth /\ n = Len(ord) + 1 /\ Len(ord) > 0
    BY <1>2, <1>c DEF Excess
<1> HIDE DEF excess, n
<1>7. /\ order' \in Seq(Nat) /\ Len(order') = n - excess
      /\ \A i \in 1..(n - excess) : order'[i] = pushed[i + excess]
  <2>1. \A i \in (excess + 1)..n : pushed[i] \in Nat
      BY <1>2, <1>6, ElementOfSeq DEF n
  <2> QED BY <1>1, <1>2, <1>6, <2>1, SubSeqProperties
<1>8. DOMAIN history' = (DOMAIN hist \cup {Height(b)}) \ evicted
    BY <1>1 DEF WithoutHeights
<1>9. \A h \in DOMAIN history' : history'[h] = IF h = Height(b) THEN b ELSE hist[h]
    BY <1>1, <1>8 DEF WithoutHeights
<1>10. {order'[i] : i \in 1..Len(order')} = DOMAIN history'
  <2>1. ASSUME NEW i \in 1..(n - excess) PROVE order'[i] \in DOMAIN history'
    <3>1. i + excess \in 1..n /\ i + excess \notin 1..excess /\ 1..excess \subseteq 1..n
        BY <1>2, <1>6
    <3>2. pushed[i + excess] \in DOMAIN hist \cup {Height(b)}
        BY <3>1, <1>4
    <3>3. pushed[i + excess] \notin evicted
        BY <3>1, <1>5
    <3> QED BY <3>2, <3>3, <1>7, <1>8
  <2>2. ASSUME NEW h \in DOMAIN history' PROVE \E i \in 1..(n - excess) : order'[i] = h
    <3>1. PICK i \in 1..n : pushed[i] = h
        BY <1>4, <1>8
    <3>2. i \notin 1..excess
        BY <3>1, <1>8
    <3>3. i - excess \in 1..(n - excess) /\ (i - excess) + excess = i
        BY <3>2, <1>2, <1>6
    <3> QED BY <3>1, <3>3, <1>7
  <2> QED BY <2>1, <2>2, <1>7
<1>11. \A i, j \in 1..Len(order') : order'[i] = order'[j] => i = j
  <2> SUFFICES ASSUME NEW i \in 1..(n - excess), NEW j \in 1..(n - excess),
                      order'[i] = order'[j]
               PROVE  i = j
      BY <1>7
  <2>1. i + excess \in 1..n /\ j + excess \in 1..n
      BY <1>2, <1>6
  <2>2. i + excess = j + excess
      BY <2>1, <1>5, <1>7
  <2> QED BY <2>2, <1>2, <1>6
<1>12. Consistent(history', order')
    BY <1>7, <1>8, <1>9, <1>10, <1>11, <1>c DEF Consistent
<1>13. ASSUME NEW h \in DOMAIN hist \ DOMAIN history'
       PROVE  Len(ord) = HistoryDepth /\ h = ord[1]
  <2>1. PICK i \in 1..excess : pushed[i] = h
      BY <1>8
  <2>2. i = 1 /\ excess = 1
      BY <1>6
  <2> QED BY <2>1, <2>2, <1>6, <1>2, <1>c
<1> QED BY <1>6, <1>7, <1>8, <1>9, <1>12, <1>13

\* invalidateFrom keeps the maps and the queue together, and the queue gets
\* shorter when anything was recorded from height n on.
LEMMA RollbackFacts ==
    ASSUME Consistent(history, order), NEW n \in Int
    PROVE  /\ Consistent(WithoutHeights(history, HeightsFrom(n)), OrderBelow(n))
           /\ Len(OrderBelow(n)) <= Len(order)
           /\ HeightsFrom(n) # {} => Len(OrderBelow(n)) < Len(order)
<1> DEFINE P     == {i \in 1..Len(order) : order[i] < n}
           queue == QueuedAt(P)
           kept  == WithoutHeights(history, HeightsFrom(n))
<1>c. /\ order \in Seq(Nat) /\ Len(order) \in Nat
      /\ {order[i] : i \in 1..Len(order)} = DOMAIN history
      /\ \A i, j \in 1..Len(order) : order[i] = order[j] => i = j
      /\ \A h \in DOMAIN history : history[h] \in Block /\ Height(history[h]) = h
    BY DEF Consistent
<1>1. OrderBelow(n) = queue
    BY DEF OrderBelow
<1>p. P \in SUBSET (1..Len(order))
    OBVIOUS
<1>r. \A h \in DOMAIN history : h \in Nat
  <2> SUFFICES ASSUME NEW h \in DOMAIN history PROVE h \in Nat
      OBVIOUS
  <2>1. PICK i \in 1..Len(order) : order[i] = h
      BY <1>c
  <2> QED BY <2>1, <1>c, ElementOfSeq
<1>2. /\ queue \in Seq(Nat) /\ Len(queue) = Cardinality(P)
      /\ Cardinality(P) \in Nat /\ Cardinality(P) <= Len(order)
      /\ \A k \in 1..Cardinality(P) : \E i \in P : Rank(P, i) = k /\ queue[k] = order[i]
      /\ \A i \in P : Rank(P, i) \in 1..Cardinality(P) /\ queue[Rank(P, i)] = order[i]
  <2> HIDE DEF P
  <2> QED BY <1>p, <1>c, QueuedAtFacts
<1>3. DOMAIN kept = {h \in DOMAIN history : h < n} /\ \A h \in DOMAIN kept : kept[h] = history[h]
    BY <1>r DEF WithoutHeights, HeightsFrom
<1>4. {queue[k] : k \in 1..Len(queue)} = DOMAIN kept
  <2>1. ASSUME NEW k \in 1..Cardinality(P) PROVE queue[k] \in DOMAIN kept
    <3>1. PICK i \in P : queue[k] = order[i]
        BY <1>2
    <3> QED BY <3>1, <1>3, <1>c
  <2>2. ASSUME NEW h \in DOMAIN kept PROVE \E k \in 1..Cardinality(P) : queue[k] = h
    <3>1. PICK i \in 1..Len(order) : order[i] = h
        BY <1>c, <1>3
    <3>2. i \in P
        BY <3>1, <1>3
    <3> HIDE DEF P
    <3> QED BY <3>1, <3>2, <1>2
  <2> HIDE DEF P, queue
  <2> QED BY <2>1, <2>2, <1>2
<1>5. ASSUME NEW k \in 1..Len(queue), NEW m \in 1..Len(queue), queue[k] = queue[m]
      PROVE  k = m
  <2>1. PICK i \in P : Rank(P, i) = k /\ queue[k] = order[i]
      BY <1>2
  <2>2. PICK j \in P : Rank(P, j) = m /\ queue[m] = order[j]
      BY <1>2
  <2>3. i = j
      BY <2>1, <2>2, <1>5, <1>c
  <2> QED BY <2>1, <2>2, <2>3
<1>6. Consistent(kept, queue)
  <2>1. \A h \in DOMAIN kept : kept[h] \in Block /\ Height(kept[h]) = h
      BY <1>3, <1>c
  <2>2. \A k, m \in 1..Len(queue) : queue[k] = queue[m] => k = m
      BY <1>5
  <2> HIDE DEF queue, kept, P
  <2> QED BY <1>2, <1>4, <2>1, <2>2 DEF Consistent
<1>7. ASSUME HeightsFrom(n) # {} PROVE Cardinality(P) < Len(order)
  <2>1. PICK h \in DOMAIN history : h >= n
      BY <1>7 DEF HeightsFrom
  <2>2. PICK i \in 1..Len(order) : order[i] = h
      BY <1>c
  <2>3. i \notin P
      BY <2>1, <2>2, <1>r
  <2> DEFINE l == Len(order)
  <2>i. l \in Nat
      BY <1>c
  <2>4. IsFiniteSet(1..l) /\ Cardinality(1..l) = l
    <3> HIDE DEF l
    <3> QED BY <2>i, FS_Interval
  <2>5. Cardinality(P) = Cardinality(1..Len(order)) => P = 1..Len(order)
    <3> HIDE DEF P
    <3> QED BY <1>p, <2>4, FS_Subset
  <2> QED BY <2>2, <2>3, <2>4, <2>5, <1>2, <1>c
<1> QED BY <1>1, <1>2, <1>6, <1>7
------------------------------------------------------------------------------
(* The invariant *)

\* A rollback followed by set, from a buffer that recorded something at or
\* above the height rolled back to: nothing is evicted.
LEMMA ReorgFacts ==
    ASSUME DetectorInv, NEW b \in Block, HandleReorg(b),
           HeightsFrom(RollbackFrom(b)) # {}
    PROVE  /\ DetectorInv'
           /\ \A h \in DOMAIN history' :
                 \/ h = Height(b) /\ history'[h] = b
                 \/ h \in DOMAIN history /\ h < RollbackFrom(b) /\ history'[h] = history[h]
           /\ \A h \in DOMAIN history : h < RollbackFrom(b) => h \in DOMAIN history'
           /\ event'.invalidated = {history[h] : h \in HeightsFrom(RollbackFrom(b))}
<1> DEFINE n     == RollbackFrom(b)
           kept  == WithoutHeights(history, HeightsFrom(n))
           queue == OrderBelow(n)
<1>1. Put(kept, queue, b) /\ Emit("reorg", b, CommonAncestorHeight(b), {history[h] : h \in HeightsFrom(n)})
    BY DEF HandleReorg
<1>2. n \in Int /\ CommonAncestorHeight(b) \in Int
    BY BlockFacts DEF RollbackFrom, CommonAncestorHeight
<1>3. Consistent(kept, queue) /\ Len(queue) < Len(order) /\ Len(order) <= HistoryDepth
  <2> HIDE DEF n
  <2> QED BY <1>2, RollbackFacts DEF DetectorInv, n
<1>4. Len(queue) \in Nat /\ Len(order) \in Nat
    BY <1>3 DEF Consistent, DetectorInv
<1>5. /\ Consistent(history', order') /\ Len(order') <= HistoryDepth
      /\ \A h \in DOMAIN history' :
            \/ h = Height(b) /\ history'[h] = b
            \/ h \in DOMAIN kept /\ h # Height(b) /\ history'[h] = kept[h]
      /\ \A h \in DOMAIN kept \ DOMAIN history' : Len(queue) = HistoryDepth
  <2> HIDE DEF kept, queue
  <2> QED BY <1>1, <1>3, <1>4, PutFacts
<1>6. \A h \in DOMAIN history : h \in Nat /\ history[h] \in Block
  <2> SUFFICES ASSUME NEW h \in DOMAIN history PROVE h \in Nat /\ history[h] \in Block
      OBVIOUS
  <2>1. history[h] \in Block /\ Height(history[h]) = h
      BY DEF DetectorInv, Consistent
  <2> QED BY <2>1, BlockFacts
<1>7. DOMAIN kept = {h \in DOMAIN history : h < n} /\ \A h \in DOMAIN kept : kept[h] = history[h]
  <2> HIDE DEF n
  <2> QED BY <1>2, <1>6 DEF WithoutHeights, HeightsFrom
<1>8. event' \in Event /\ event'.invalidated = {history[h] : h \in HeightsFrom(n)}
  <2>1. {history[h] : h \in HeightsFrom(n)} \in SUBSET Block
      BY <1>6 DEF HeightsFrom
  <2> HIDE DEF n
  <2> QED BY <1>1, <1>2, <2>1 DEF Emit, Event, EventType
<1> HIDE DEF kept, queue, n
<1> QED BY <1>3, <1>4, <1>5, <1>7, <1>8 DEF DetectorInv, n

\* What a call can do to the history: it rolls back and names what it took
\* out, records the block, or changes nothing.
LEMMA StepFacts ==
    ASSUME DetectorInv, NEW b \in Block, ProcessBlock(b)
    PROVE  \/ HandleReorg(b) /\ HeightsFrom(RollbackFrom(b)) # {}
              /\ (Height(b) \in DOMAIN history => history[Height(b)] # b)
           \/ Put(history, order, b) /\ Height(b) \notin DOMAIN history
              /\ event' \in Event /\ event'.invalidated = {}
           \/ UNCHANGED <<history, order>> /\ event' \in Event /\ event'.invalidated = {}
<1>b. Height(b) \in Nat \ {0}
    BY BlockFacts
<1>1. ASSUME NEW type \in EventType, Emit(type, b, -1, {})
      PROVE  event' \in Event /\ event'.invalidated = {}
    BY <1>1 DEF Emit, Event
<1>2. CASE HashMutation(b)
  <2>1. Height(b) \in HeightsFrom(RollbackFrom(b))
      BY <1>2, <1>b DEF HashMutation, HeightsFrom, RollbackFrom, CommonAncestorHeight
  <2> QED BY <1>2, <2>1 DEF HashMutation
<1>3. CASE ParentMismatch(b)
  <2>1. Height(b) - 1 \in HeightsFrom(RollbackFrom(b))
      BY <1>3, <1>b DEF ParentMismatch, ParentRecorded, HeightsFrom, RollbackFrom,
                        CommonAncestorHeight
  <2> QED BY <1>3, <2>1 DEF ParentMismatch
<1>4. CASE Redelivery(b)
    BY <1>4, <1>1 DEF Redelivery, EventType
<1>5. CASE Extension(b)
    BY <1>5, <1>1 DEF Extension, EventType
<1>6. CASE ContinuityBreak(b)
    BY <1>6, <1>1 DEF ContinuityBreak, EventType
<1> QED BY <1>2, <1>3, <1>4, <1>5, <1>6 DEF ProcessBlock

\* processBlock keeps the buffer consistent, for every header.
LEMMA DetectorStep ==
    ASSUME DetectorInv, Next
    PROVE  DetectorInv'
<1>1. PICK b \in Block : ProcessBlock(b)
    BY DEF Next
<1>2. CASE HandleReorg(b) /\ HeightsFrom(RollbackFrom(b)) # {}
    BY <1>2, ReorgFacts
<1>3. CASE Put(history, order, b) /\ event' \in Event
    BY <1>3, PutFacts DEF DetectorInv
<1>4. CASE UNCHANGED <<history, order>> /\ event' \in Event
    BY <1>4 DEF DetectorInv, Consistent
<1> QED BY <1>1, <1>2, <1>3, <1>4, StepFacts

LEMMA DetectorInit == Init => DetectorInv
<1> SUFFICES ASSUME Init PROVE DetectorInv
    OBVIOUS
<1>1. Consistent(history, order) /\ Len(order) <= HistoryDepth
    BY DEF Init, EmptyHistory, Consistent
<1>2. event \in Event
    BY DEF Init, Event, EventType
<1> QED BY <1>1, <1>2 DEF DetectorInv

LEMMA DetectorStutter == DetectorInv /\ UNCHANGED vars => DetectorInv'
BY DEF vars, DetectorInv, Consistent

\* DetectorInv is inductive.
THEOREM DetectorInvariant == Spec => []DetectorInv
<1>1. DetectorInv /\ [Next]_vars => DetectorInv'
    BY DetectorStep, DetectorStutter
<1> QED BY <1>1, DetectorInit, PTL DEF Spec

LEMMA DetectorTyped == DetectorInv => TypeOK
<1> SUFFICES ASSUME DetectorInv PROVE TypeOK
    OBVIOUS
<1>1. \A h \in DOMAIN history : history[h] \in Block /\ Height(history[h]) = h
    BY DEF DetectorInv, Consistent
<1>2. DOMAIN history \subseteq {Height(b) : b \in Block}
    BY <1>1
<1>3. order \in Seq(DOMAIN history)
    BY DEF DetectorInv, Consistent
<1> QED BY <1>1, <1>2, <1>3 DEF TypeOK, DetectorInv

\* Every value the buffer and the event take is of its type.
THEOREM DetectorTypeCorrect == Spec => []TypeOK
<1> QED BY DetectorTyped, DetectorInvariant, PTL

\* Whatever headers arrive, in whatever order, the two maps and the eviction
\* queue of the buffer agree and the capacity holds, for every capacity, every
\* tree of blocks and both modes (BlockHistoryBuffer).
THEOREM DetectorBufferConsistent == Spec => []BufferConsistent
<1>1. DetectorInv => BufferConsistent
    BY DEF DetectorInv, Consistent, BufferConsistent
<1> QED BY <1>1, DetectorInvariant, PTL
------------------------------------------------------------------------------
(* What the listeners are told *)

\* Whatever leaves the history is named in the event of that call, or is the
\* oldest insertion of a full buffer (handleReorg, evictIfNeeded).
THEOREM DetectorRemovalsAreReported == Spec => RemovalsAreReported
<1> DEFINE gone == Recorded \ Recorded'
           Reported == /\ event'.invalidated \subseteq gone
                       /\ \A b \in gone \ event'.invalidated :
                             Len(order) = HistoryDepth /\ Height(b) = order[1]
<1>1. ASSUME DetectorInv, Next PROVE Reported
  <2>1. PICK b \in Block : ProcessBlock(b)
      BY <1>1 DEF Next
  <2>2. \A h \in DOMAIN history : history[h] \in Block /\ Height(history[h]) = h /\ h \in Nat
      BY <1>1, BlockFacts DEF DetectorInv, Consistent
  <2>3. CASE HandleReorg(b) /\ HeightsFrom(RollbackFrom(b)) # {}
             /\ (Height(b) \in DOMAIN history => history[Height(b)] # b)
    <3> DEFINE n == RollbackFrom(b)
    <3>1. /\ \A h \in DOMAIN history' :
                \/ h = Height(b) /\ history'[h] = b
                \/ h \in DOMAIN history /\ h < n /\ history'[h] = history[h]
          /\ event'.invalidated = {history[h] : h \in HeightsFrom(n)}
          /\ DetectorInv'
          /\ \A h \in DOMAIN history : h < n => h \in DOMAIN history'
        BY <1>1, <2>3, ReorgFacts
    <3>2. n \in Int
        BY BlockFacts DEF RollbackFrom, CommonAncestorHeight
    <3>3. \A h \in DOMAIN history' : history'[h] \in Block /\ Height(history'[h]) = h
        BY <3>1 DEF DetectorInv, Consistent
    <3> HIDE DEF n
    <3>4. ASSUME NEW h \in HeightsFrom(n) PROVE history[h] \in gone
      <4>1. h \in DOMAIN history /\ h >= n /\ h \in Nat
          BY <2>2 DEF HeightsFrom
      <4>2. history[h] # b
          BY <4>1, <2>2, <2>3
      <4>3. ASSUME NEW g \in DOMAIN history' PROVE history'[g] # history[h]
        <5>1. CASE history'[g] = b
            BY <5>1, <4>2
        <5>2. CASE g \in DOMAIN history /\ g < n /\ history'[g] = history[g]
          <6>1. g # h
              BY <5>2, <4>1, <3>2, <2>2
          <6> QED BY <6>1, <5>2, <4>1, <2>2
        <5> QED BY <5>1, <5>2, <3>1
      <4> QED BY <4>1, <4>3 DEF Recorded
    <3>5. ASSUME NEW h \in DOMAIN history, history[h] \in gone PROVE h \in HeightsFrom(n)
      <4>1. SUFFICES ASSUME h < n PROVE FALSE
          BY <2>2, <3>2 DEF HeightsFrom
      <4>2. h \in DOMAIN history' /\ history'[h] # history[h]
          BY <3>1, <3>5, <4>1 DEF Recorded
      <4>3. h = Height(b)
          BY <4>2, <3>1
      <4>4. RollbackFrom(b) <= Height(b)
          BY BlockFacts DEF RollbackFrom, CommonAncestorHeight
      <4> QED BY <4>1, <4>3, <4>4, BlockFacts, <3>2 DEF n
    <3>6. gone \subseteq event'.invalidated
        BY <3>1, <3>5 DEF Recorded
    <3> QED BY <3>1, <3>4, <3>6
  <2>4. CASE Put(history, order, b) /\ Height(b) \notin DOMAIN history /\ event'.invalidated = {}
    <3>1. /\ \A h \in DOMAIN history' :
                \/ h = Height(b) /\ history'[h] = b
                \/ h \in DOMAIN history /\ h # Height(b) /\ history'[h] = history[h]
          /\ \A h \in DOMAIN history \ DOMAIN history' :
                Len(order) = HistoryDepth /\ h = order[1]
        BY <1>1, <2>4, PutFacts DEF DetectorInv
    <3>2. ASSUME NEW c \in gone PROVE Len(order) = HistoryDepth /\ Height(c) = order[1]
      <4>1. PICK h \in DOMAIN history : history[h] = c
          BY DEF Recorded
      <4>2. h \notin DOMAIN history'
          BY <4>1, <3>1, <2>4 DEF Recorded
      <4> QED BY <4>1, <4>2, <3>1, <2>2
    <3> QED BY <3>2, <2>4
  <2>5. CASE UNCHANGED <<history, order>> /\ event'.invalidated = {}
      BY <2>5 DEF Recorded
  <2> QED BY <1>1, <2>1, <2>3, <2>4, <2>5, StepFacts
<1>2. DetectorInv /\ [Next]_vars => [Reported]_vars
    BY <1>1
<1>3. Spec => [][Reported]_vars
    BY <1>2, DetectorInvariant, PTL DEF Spec
<1> QED BY <1>3 DEF RemovalsAreReported
------------------------------------------------------------------------------
(* The walk of handleReorg *)

\* The recursion has a solution in closed form, so that Walk satisfies its
\* equation: the hash the loop takes from its own record is the one it compares
\* with next.
LEMMA WalkEquation ==
    ASSUME DetectorInv
    PROVE  \A s \in Search : Walk[s] = IF Found(s) THEN s.height ELSE Walk[Lower(s)]
<1> DEFINE Solves(f) == f = [s \in Search |-> IF Found(s) THEN s.height ELSE f[Lower(s)]]
           g == [s \in Search |-> IF Found(s) THEN s.height ELSE s.height - 1]
<1>1. Walk = CHOOSE f : Solves(f)
    BY DEF Walk
<1>2. ASSUME NEW s \in Search
      PROVE  Lower(s) \in Search /\ Found(Lower(s)) /\ Lower(s).height = s.height - 1
    BY DEF DetectorInv, Consistent, Lower, Search, Found
<1>3. \A s \in Search : g[Lower(s)] = s.height - 1
    BY <1>2
<1>4. Solves(g)
    BY <1>3
<1>5. Solves(Walk)
    BY <1>1, <1>4
<1> QED BY <1>5

\* The loop stops where CommonAncestorHeight says, in every state and for every
\* header that may come next (handleReorg).
THEOREM DetectorWalkStopsAtOnce == Spec => []WalkStopsAtOnce
<1>1. ASSUME DetectorInv PROVE WalkStopsAtOnce
  <2> SUFFICES ASSUME NEW b \in Block
               PROVE  Walk[[height |-> Height(b) - 1, hash |-> Parent(b)]]
                          = CommonAncestorHeight(b)
      BY DEF WalkStopsAtOnce
  <2> DEFINE s == [height |-> Height(b) - 1, hash |-> Parent(b)]
  <2>1. Height(b) \in Nat \ {0}
      BY BlockFacts
  <2>2. Parent(b) \in Block \cup {<<>>}
    <3>1. CASE Height(b) = 1
        BY <3>1, BlockFacts, SubSeqEmpty DEF Parent, Height
    <3>2. CASE Height(b) # 1
        BY <3>2, <2>1, BlockFacts DEF Parent, Height
    <3> QED BY <3>1, <3>2
  <2>3. s \in Search /\ Lower(s) \in Search
      BY <1>1, <2>1, <2>2 DEF Search, Lower, DetectorInv, Consistent
  <2>4. Found(Lower(s)) /\ Lower(s).height = Height(b) - 2
      BY <2>1 DEF Lower, Found
  <2>5. Walk[s] = IF Found(s) THEN Height(b) - 1 ELSE Walk[Lower(s)]
      BY <1>1, <2>3, WalkEquation
  <2>6. Walk[Lower(s)] = Height(b) - 2
    <3> HIDE DEF s
    <3> QED BY <1>1, <2>3, <2>4, WalkEquation
  <2>7. Found(s) <=> ~(ParentRecorded(b) /\ ~ParentMatches(b))
      BY <2>1 DEF Found, ParentRecorded, ParentMatches
  <2> QED BY <2>5, <2>6, <2>7 DEF CommonAncestorHeight
<1> QED BY <1>1, DetectorInvariant, PTL
------------------------------------------------------------------------------
(* A history whose heights were recorded in increasing order *)

Increasing(s) == \A i, j \in 1..Len(s) : i < j => s[i] < s[j]

\* The oldest entry is then the lowest.
LEMMA OldestIsLowest ==
    ASSUME DetectorInv, Increasing(order), NEW h \in DOMAIN history
    PROVE  1 \in 1..Len(order) /\ order[1] \in DOMAIN history /\ order[1] <= h
<1>1. order \in Seq(Nat) /\ {order[i] : i \in 1..Len(order)} = DOMAIN history
    BY DEF DetectorInv, Consistent
<1>2. PICK i \in 1..Len(order) : order[i] = h
    BY <1>1
<1>3. Len(order) \in Nat /\ 1 \in 1..Len(order)
    BY <1>1, <1>2
<1>4. order[1] \in Nat /\ order[i] \in Nat
    BY <1>1, <1>3, ElementOfSeq
<1>5. order[1] <= order[i]
    BY <1>2, <1>3, <1>4 DEF Increasing
<1> QED BY <1>1, <1>2, <1>3, <1>5

\* As many heights are queued as are recorded.
LEMMA QueueLength ==
    ASSUME Consistent(history, order)
    PROVE  Cardinality(DOMAIN history) = Len(order)
<1> DEFINE n == Len(order)
<1>1. /\ n \in Nat /\ {order[i] : i \in 1..n} = DOMAIN history
      /\ \A i, j \in 1..n : order[i] = order[j] => i = j
    BY DEF Consistent
<1> DEFINE f == [i \in 1..n |-> order[i]]
<1>2. f \in Bijection(1..n, DOMAIN history)
  <2>1. f \in [1..n -> DOMAIN history]
      BY <1>1
  <2>2. IsInjective(f)
      BY <1>1 DEF IsInjective
  <2>3. \A h \in DOMAIN history : \E i \in 1..n : f[i] = h
      BY <1>1
  <2> QED BY <2>1, <2>2, <2>3 DEF Bijection, Injection, Surjection
<1>3. IsFiniteSet(1..n) /\ Cardinality(1..n) = n
  <2> HIDE DEF n
  <2> QED BY <1>1, FS_Interval
<1> HIDE DEF n, f
<1>4. ExistsBijection(1..n, DOMAIN history)
    BY <1>2 DEF ExistsBijection
<1> QED BY <1>3, <1>4, FS_Bijection DEF n

\* The filter keeps the order.
LEMMA RollbackIncreasing ==
    ASSUME Consistent(history, order), NEW n \in Int, Increasing(order)
    PROVE  Increasing(OrderBelow(n))
<1> DEFINE P == {i \in 1..Len(order) : order[i] < n}
<1>1. P \in SUBSET (1..Len(order)) /\ order \in Seq(Nat) /\ Len(order) \in Nat
    BY DEF Consistent
<1>2. OrderBelow(n) = QueuedAt(P)
    BY DEF OrderBelow
<1> HIDE DEF P
<1>3. /\ Len(QueuedAt(P)) = Cardinality(P)
      /\ \A k \in 1..Cardinality(P) : \E i \in P : Rank(P, i) = k /\ QueuedAt(P)[k] = order[i]
    BY <1>1, QueuedAtFacts
<1>4. Cardinality(P) \in Nat /\ \A i, j \in P : i < j => Rank(P, i) < Rank(P, j)
    BY <1>1, RankFacts
<1>5. ASSUME NEW k \in 1..Cardinality(P), NEW m \in 1..Cardinality(P), k < m
      PROVE  QueuedAt(P)[k] < QueuedAt(P)[m]
  <2>1. PICK i \in P : Rank(P, i) = k /\ QueuedAt(P)[k] = order[i]
      BY <1>3
  <2>2. PICK j \in P : Rank(P, j) = m /\ QueuedAt(P)[m] = order[j]
      BY <1>3
  <2>3. k \in Int /\ m \in Int /\ i \in Int /\ j \in Int
      BY <1>1, <1>4
  <2>4. i # j /\ ~(j < i)
      BY <2>1, <2>2, <2>3, <1>4, <1>5
  <2>5. i < j /\ i \in 1..Len(order) /\ j \in 1..Len(order)
      BY <2>3, <2>4, <1>1
  <2> QED BY <2>1, <2>2, <2>5 DEF Increasing
<1> QED BY <1>2, <1>3, <1>5 DEF Increasing

\* set keeps the order when the new height is above all that are recorded.
LEMMA PutIncreasing ==
    ASSUME NEW hist, NEW ord, Consistent(hist, ord), Len(ord) <= HistoryDepth,
           Increasing(ord), NEW b \in Block, \A h \in DOMAIN hist : h < Height(b),
           Put(hist, ord, b)
    PROVE  Increasing(order') /\ Height(b) \in DOMAIN history'
<1> DEFINE pushed == Append(ord, Height(b))
           excess == Excess(Len(pushed))
<1>1. /\ ord \in Seq(Nat) /\ Len(ord) \in Nat /\ Height(b) \in Nat
      /\ {ord[i] : i \in 1..Len(ord)} = DOMAIN hist
    BY BlockFacts DEF Consistent
<1>2. Height(b) \notin DOMAIN hist
    BY <1>1
<1>3. order' = SubSeq(pushed, excess + 1, Len(pushed))
    BY <1>2 DEF Put
<1>4. /\ pushed \in Seq(Nat) /\ Len(pushed) = Len(ord) + 1
      /\ \A i \in 1..Len(ord) : pushed[i] = ord[i]
      /\ pushed[Len(ord) + 1] = Height(b)
    BY <1>1
<1> HIDE DEF pushed
<1>5. ASSUME NEW i \in 1..Len(pushed), NEW j \in 1..Len(pushed), i < j
      PROVE  pushed[i] < pushed[j]
  <2>1. i \in 1..Len(ord) /\ ord[i] \in DOMAIN hist
      BY <1>1, <1>4, <1>5
  <2>2. CASE j = Len(ord) + 1
      BY <2>1, <2>2, <1>4
  <2>3. CASE j \in 1..Len(ord)
      BY <2>1, <2>3, <1>4, <1>5 DEF Increasing
  <2> QED BY <2>2, <2>3, <1>1, <1>4
<1>6. excess \in 0..1 /\ excess <= Len(pushed) - 1
    BY <1>1, <1>4 DEF Excess
<1> HIDE DEF excess
<1>7. /\ Len(order') = Len(pushed) - excess
      /\ \A i \in 1..(Len(pushed) - excess) : order'[i] = pushed[i + excess]
  <2>1. \A i \in (excess + 1)..Len(pushed) : pushed[i] \in Nat
      BY <1>4, <1>6, ElementOfSeq
  <2> QED BY <1>1, <1>3, <1>4, <1>6, <2>1, SubSeqProperties
<1>8. Increasing(order')
  <2> SUFFICES ASSUME NEW i \in 1..(Len(pushed) - excess), NEW j \in 1..(Len(pushed) - excess), i < j
               PROVE  order'[i] < order'[j]
      BY <1>7 DEF Increasing
  <2>1. i + excess \in 1..Len(pushed) /\ j + excess \in 1..Len(pushed) /\ i + excess < j + excess
      BY <1>1, <1>4, <1>6
  <2> QED BY <2>1, <1>5, <1>7
<1>9. Height(b) \in DOMAIN history'
  <2> DEFINE last == Len(order')
  <2>1. last \in 1..Len(order') /\ last + excess = Len(ord) + 1
      BY <1>1, <1>4, <1>6, <1>7
  <2>2. order'[last] = Height(b)
      BY <2>1, <1>4, <1>7
  <2>3. {order'[i] : i \in 1..Len(order')} = DOMAIN history'
      BY PutFacts DEF Consistent
  <2> QED BY <2>1, <2>2, <2>3
<1> QED BY <1>8, <1>9

\* A block above everything recorded extends the history; it costs the lowest
\* block, and only when the buffer is full.
LEMMA ExtensionFacts ==
    ASSUME DetectorInv, Increasing(order), NEW b \in Block, Extension(b),
           \A h \in DOMAIN history : h < Height(b)
    PROVE  /\ DetectorInv' /\ Increasing(order') /\ event'.type = "block"
           /\ Height(b) \in DOMAIN history' /\ history'[Height(b)] = b
           /\ \A h \in DOMAIN history' :
                 h # Height(b) => h \in DOMAIN history /\ history'[h] = history[h]
           /\ \A h \in DOMAIN history \ DOMAIN history' :
                 /\ Cardinality(DOMAIN history) = HistoryDepth
                 /\ \A g \in DOMAIN history : h <= g
<1>1. Put(history, order, b) /\ Emit("block", b, -1, {})
    BY DEF Extension
<1>2. event' \in Event /\ event'.type = "block"
    BY <1>1 DEF Emit, Event, EventType
<1>3. /\ Consistent(history', order') /\ Len(order') <= HistoryDepth
      /\ \A h \in DOMAIN history' :
            \/ h = Height(b) /\ history'[h] = b
            \/ h \in DOMAIN history /\ h # Height(b) /\ history'[h] = history[h]
      /\ \A h \in DOMAIN history \ DOMAIN history' : Len(order) = HistoryDepth /\ h = order[1]
    BY <1>1, PutFacts DEF DetectorInv
<1>4. Increasing(order') /\ Height(b) \in DOMAIN history'
    BY <1>1, PutIncreasing DEF DetectorInv
<1>5. \A h \in DOMAIN history \ DOMAIN history' : \A g \in DOMAIN history : h <= g
    BY <1>3, OldestIsLowest
<1>6. Cardinality(DOMAIN history) = Len(order)
    BY QueueLength DEF DetectorInv
<1> QED BY <1>2, <1>3, <1>4, <1>5, <1>6 DEF DetectorInv

\* Another block at a recorded height, with the parent on record or nothing
\* there, replaces what is recorded from its height on.
LEMMA HashMutationFacts ==
    ASSUME DetectorInv, Increasing(order), NEW b \in Block, HashMutation(b),
           ParentRecorded(b) => ParentMatches(b)
    PROVE  /\ DetectorInv' /\ Increasing(order') /\ event'.type = "reorg"
           /\ Height(b) \in DOMAIN history' /\ history'[Height(b)] = b
           /\ DOMAIN history' = {h \in DOMAIN history : h <= Height(b)}
           /\ \A h \in DOMAIN history' : h # Height(b) => history'[h] = history[h]
           /\ event'.invalidated = {history[h] : h \in {g \in DOMAIN history : g >= Height(b)}}
<1>b. Height(b) \in Nat
    BY BlockFacts
<1>1. RollbackFrom(b) = Height(b)
    BY <1>b DEF RollbackFrom, CommonAncestorHeight
<1>2. Height(b) \in HeightsFrom(RollbackFrom(b)) /\ HandleReorg(b) /\ Height(b) \in DOMAIN history
    BY <1>1, <1>b DEF HashMutation, HeightsFrom
<1>3. /\ DetectorInv'
      /\ \A h \in DOMAIN history' :
            \/ h = Height(b) /\ history'[h] = b
            \/ h \in DOMAIN history /\ h < Height(b) /\ history'[h] = history[h]
      /\ \A h \in DOMAIN history : h < Height(b) => h \in DOMAIN history'
      /\ event'.invalidated = {history[h] : h \in HeightsFrom(RollbackFrom(b))}
    BY <1>1, <1>2, ReorgFacts
<1>4. event'.type = "reorg"
    BY <1>2 DEF HandleReorg, Emit
<1>5. Increasing(order') /\ Height(b) \in DOMAIN history'
  <2> DEFINE n == RollbackFrom(b)
             kept == WithoutHeights(history, HeightsFrom(n))
             queue == OrderBelow(n)
  <2>1. Put(kept, queue, b) /\ n \in Int
      BY <1>1, <1>2, <1>b DEF HandleReorg
  <2>2. Consistent(kept, queue) /\ Len(queue) <= Len(order) /\ Increasing(queue)
    <3> HIDE DEF n
    <3> QED BY <2>1, RollbackFacts, RollbackIncreasing DEF DetectorInv
  <2>3. \A h \in DOMAIN kept : h < Height(b)
    <3>1. \A h \in DOMAIN history : h \in Nat
        BY BlockFacts DEF DetectorInv, Consistent
    <3> QED BY <3>1, <1>1, <1>b DEF WithoutHeights, HeightsFrom
  <2>4. Len(queue) <= HistoryDepth
      BY <2>2 DEF DetectorInv, Consistent
  <2> HIDE DEF kept, queue
  <2> QED BY <2>1, <2>2, <2>3, <2>4, PutIncreasing
<1>6. \A h \in DOMAIN history : h \in Nat
    BY BlockFacts DEF DetectorInv, Consistent
<1>7. DOMAIN history' = {h \in DOMAIN history : h <= Height(b)}
    BY <1>2, <1>3, <1>5, <1>6, <1>b
<1>8. history'[Height(b)] = b
    BY <1>3, <1>5, <1>b
<1> QED BY <1>1, <1>2, <1>3, <1>4, <1>5, <1>7, <1>8, <1>b DEF HeightsFrom
==============================================================================
