---------------------------- MODULE IndexerProofs ----------------------------
(***************************************************************************)
(* The indexer of one chain, for all trees of blocks, logs and depths: what *)
(* its detector and its tracker hold follows the chain indexed so far, and *)
(* what it hands over implements FinalRelay.                               *)
(*                                                                         *)
(* Nothing of this is inductive by itself, since the feed decides what the *)
(* detector sees next.  The invariant follows a block from the moment the  *)
(* tip moves to it: every block of the feed follows on an ancestor of the  *)
(* one before it, a re-org leaves the chain from the highest block so far, *)
(* and so two blocks of the feed differ only above what a re-org may take  *)
(* off.  That is why the history always reaches down to the fork, and why  *)
(* what is final for the indexer is final on the chain it has not seen.    *)
(***************************************************************************)
EXTENDS Indexer, FiniteSetTheorems, SequenceTheorems, WellFoundedInduction, TLAPS

\* The theorems of the two components, as the indexer instantiates them.
Det == INSTANCE DetectorProofs WITH TolerateUnknownParent <- FALSE

Trk == INSTANCE FinalityTrackerProofs WITH
    Message    <- UNION {Logs(b) : b \in Block},
    Chain      <- {SourceChain},
    Required   <- [c \in {SourceChain} |-> RequiredConfirmations],
    HeadHeight <- {Height(b) : b \in Block},
    Depths     <- {}
USE DEF Height
------------------------------------------------------------------------------
(* Blocks as paths *)

LEMMA BlockFacts ==
    ASSUME NEW b \in Block
    PROVE  /\ b \in Seq(Nat) /\ Len(b) \in Nat /\ Len(b) > 0 /\ Height(b) = Len(b)
           /\ \A n \in 1..Len(b) : SubSeq(b, 1, n) \in Block
BY BlockAssumption DEF Height

\* The first n blocks of a path.
LEMMA CutFacts ==
    ASSUME NEW b \in Seq(Nat), NEW n \in 0..Len(b)
    PROVE  /\ SubSeq(b, 1, n) \in Seq(Nat)
           /\ Len(SubSeq(b, 1, n)) = n
           /\ \A k \in 1..n : SubSeq(b, 1, n)[k] = b[k]
<1>1. n \in Int /\ n >= 0 /\ Len(b) \in Nat
    OBVIOUS
<1>2. \A k \in 1..n : b[k] \in Nat
    BY <1>1, ElementOfSeq
<1>3. /\ SubSeq(b, 1, n) \in Seq(Nat)
      /\ Len(SubSeq(b, 1, n)) = IF 1 <= n THEN n - 1 + 1 ELSE 0
      /\ \A k \in 1..(n - 1 + 1) : SubSeq(b, 1, n)[k] = b[1 + k - 1]
    BY <1>1, <1>2, SubSeqProperties
<1>4. ASSUME NEW k \in 1..n PROVE SubSeq(b, 1, n)[k] = b[k]
  <2>1. k \in 1..(n - 1 + 1) /\ 1 + k - 1 = k
      BY <1>1
  <2> QED BY <1>3, <2>1
<1> QED BY <1>1, <1>3, <1>4

\* Paths are equal when they have the same length and labels.
LEMMA PathEqual ==
    ASSUME NEW a \in Seq(Nat), NEW b \in Seq(Nat), Len(a) = Len(b),
           \A k \in 1..Len(a) : a[k] = b[k]
    PROVE  a = b
BY SeqEqual

LEMMA AncestorFacts ==
    ASSUME NEW a \in Seq(Nat), NEW b \in Seq(Nat)
    PROVE  IsAncestor(a, b) <=> Len(a) <= Len(b) /\ \A k \in 1..Len(a) : a[k] = b[k]
<1>1. Len(a) \in Nat /\ Len(b) \in Nat
    OBVIOUS
<1>2. CASE Len(a) <= Len(b)
  <2> DEFINE c == SubSeq(b, 1, Len(a))
  <2>1. c \in Seq(Nat) /\ Len(c) = Len(a) /\ \A k \in 1..Len(a) : c[k] = b[k]
      BY <1>1, <1>2, CutFacts
  <2> HIDE DEF c
  <2>2. (\A k \in 1..Len(a) : a[k] = b[k]) => c = a
      BY <2>1, PathEqual
  <2>3. c = a => \A k \in 1..Len(a) : a[k] = b[k]
      BY <2>1
  <2> QED BY <1>2, <2>2, <2>3 DEF IsAncestor, c
<1>3. CASE ~(Len(a) <= Len(b))
    BY <1>3 DEF IsAncestor
<1> QED BY <1>2, <1>3

LEMMA ParentFacts ==
    ASSUME NEW b \in Block
    PROVE  /\ Parent(b) \in Seq(Nat) /\ Len(Parent(b)) = Len(b) - 1
           /\ \A k \in 1..(Len(b) - 1) : Parent(b)[k] = b[k]
<1>1. b \in Seq(Nat) /\ Len(b) - 1 \in 0..Len(b)
    BY BlockFacts
<1> QED BY <1>1, CutFacts DEF Parent
------------------------------------------------------------------------------
(* The fork point *)

\* Every set of naturals has a least element: the intervals up to its elements
\* are finite sets, and the strict subset ordering of those is well-founded.
LEMMA LeastNatural ==
    ASSUME NEW T \in SUBSET Nat, T # {}
    PROVE  \E x \in T : \A y \in T : x <= y
<1> DEFINE R == StrictSubsetOrdering(Nat)
           F == FiniteSubsetsOf(Nat)
           D == {0..x : x \in T}
<1>1. ASSUME NEW x \in T PROVE 0..x \in F
    BY FS_Interval, x \in Int, 0 \in Int DEF FiniteSubsetsOf
<1>2. IsWellFoundedOn(R, F)
    BY FS_StrictSubsetOrderingWellFounded
<1>3. D \subseteq F /\ D # {}
    BY <1>1
<1>4. PICK d \in D : \A e \in D : <<e, d>> \notin R
  <2> HIDE DEF D, F, R
  <2> QED BY <1>2, <1>3, WFMin
<1>5. PICK x \in T : d = 0..x
    OBVIOUS
<1>6. ASSUME NEW y \in T, y < x PROVE FALSE
  <2>1. 0..y \subseteq 0..x /\ 0..y # 0..x
      BY <1>6
  <2>2. <<0..y, d>> \in R
      BY <2>1, <1>5 DEF StrictSubsetOrdering
  <2> QED BY <1>4, <2>2
<1> QED BY <1>6

\* ForkHeight is what its comment says: the paths agree up to it, and differ
\* in the next label when both have one.
LEMMA ForkFacts ==
    ASSUME NEW a \in Seq(Nat), NEW b \in Seq(Nat)
    PROVE  /\ ForkHeight(a, b) \in 0..Len(a)
           /\ ForkHeight(a, b) <= Len(b)
           /\ \A k \in 1..ForkHeight(a, b) : a[k] = b[k]
           /\ (ForkHeight(a, b) < Len(a) /\ ForkHeight(a, b) < Len(b)) =>
                 a[ForkHeight(a, b) + 1] # b[ForkHeight(a, b) + 1]
<1> DEFINE IsFork(n) == /\ n <= Len(b) /\ SubSeq(a, 1, n) = SubSeq(b, 1, n)
                        /\ (n < Len(a) /\ n < Len(b)) => a[n + 1] # b[n + 1]
           T == {k \in Nat : k < Len(a) /\ k < Len(b) /\ a[k + 1] # b[k + 1]}
           least == IF Len(a) <= Len(b) THEN Len(a) ELSE Len(b)
<1>1. Len(a) \in Nat /\ Len(b) \in Nat
    OBVIOUS
<1>2. ASSUME NEW n \in 0..Len(a), n <= Len(b)
      PROVE  SubSeq(a, 1, n) = SubSeq(b, 1, n) <=> \A k \in 1..n : a[k] = b[k]
  <2>1. n \in 0..Len(b)
      BY <1>1, <1>2
  <2>2. /\ SubSeq(a, 1, n) \in Seq(Nat) /\ Len(SubSeq(a, 1, n)) = n
        /\ \A k \in 1..n : SubSeq(a, 1, n)[k] = a[k]
      BY CutFacts
  <2>3. /\ SubSeq(b, 1, n) \in Seq(Nat) /\ Len(SubSeq(b, 1, n)) = n
        /\ \A k \in 1..n : SubSeq(b, 1, n)[k] = b[k]
      BY <2>1, CutFacts
  <2> DEFINE p == SubSeq(a, 1, n)
             q == SubSeq(b, 1, n)
  <2> HIDE DEF p, q
  <2>4. (\A k \in 1..n : a[k] = b[k]) => p = q
      BY <2>2, <2>3, PathEqual DEF p, q
  <2>5. p = q => \A k \in 1..n : a[k] = b[k]
      BY <2>2, <2>3 DEF p, q
  <2> QED BY <2>4, <2>5 DEF p, q
<1>3. \E n \in 0..Len(a) : IsFork(n)
  <2>1. CASE T = {}
    <3>1. least \in 0..Len(a) /\ least <= Len(b)
        BY <1>1
    <3>2. ASSUME NEW k \in 1..least PROVE a[k] = b[k]
      <4>1. k - 1 \in Nat /\ k - 1 < Len(a) /\ k - 1 < Len(b) /\ (k - 1) + 1 = k
          BY <1>1
      <4> QED BY <4>1, <2>1
    <3>3. ~(least < Len(a) /\ least < Len(b))
        BY <1>1
    <3> HIDE DEF least
    <3> QED BY <3>1, <3>2, <3>3, <1>2
  <2>2. CASE T # {}
    <3>1. PICK n \in T : \A m \in T : n <= m
      <4>1. T \in SUBSET Nat
          OBVIOUS
      <4> HIDE DEF T
      <4> QED BY <2>2, <4>1, LeastNatural
    <3>2. n \in 0..Len(a) /\ n <= Len(b) /\ a[n + 1] # b[n + 1]
        BY <1>1
    <3>3. ASSUME NEW k \in 1..n PROVE a[k] = b[k]
      <4> HIDE DEF T
      <4>0. n \in Int /\ n <= Len(a) /\ n <= Len(b)
          BY <3>2
      <4>1. k - 1 \in Nat /\ k - 1 < n /\ k - 1 < Len(a) /\ k - 1 < Len(b) /\ (k - 1) + 1 = k
          BY <1>1, <4>0
      <4> USE DEF T
      <4>2. k - 1 \notin T
          BY <3>1, <4>1, <3>2
      <4> QED BY <4>1, <4>2
    <3> QED BY <3>2, <3>3, <1>2
  <2> QED BY <2>1, <2>2
<1>4. ForkHeight(a, b) \in 0..Len(a) /\ IsFork(ForkHeight(a, b))
    BY <1>3 DEF ForkHeight
<1> DEFINE n == ForkHeight(a, b)
<1>5. n \in 0..Len(a) /\ n <= Len(b) /\ SubSeq(a, 1, n) = SubSeq(b, 1, n)
      /\ ((n < Len(a) /\ n < Len(b)) => a[n + 1] # b[n + 1])
    BY <1>4
<1> HIDE DEF n
<1> QED BY <1>2, <1>5 DEF n
------------------------------------------------------------------------------
(* The feed *)

\* What the first block of the feed comes after.
Top == IF last = <<>> THEN Parent(Start) ELSE last

\* The last block indexed, and those on their way.
At(i) == IF i = 0 THEN Top ELSE feed[i]

\* y is one above an ancestor of x, and not an ancestor of x itself.
Follows(x, y) ==
    /\ Len(Start) <= Len(y)
    /\ Len(y) - 1 <= Len(x)
    /\ \A k \in 1..(Len(y) - 1) : x[k] = y[k]
    /\ Len(y) <= Len(x) => x[Len(y)] # y[Len(y)]

\* Two blocks have the same ancestors up to height n.
Agree(x, y, n) == \A k \in 1..n : k <= Len(x) /\ k <= Len(y) /\ x[k] = y[k]

\* The feed leads from the last block indexed to the tip.
FeedLeadsToTip ==
    /\ tip \in Block /\ feed \in Seq(Block) /\ last \in Block \cup {<<>>}
    /\ last = <<>> => feed # <<>> /\ feed[1] = Start
    /\ last # <<>> => Len(Start) <= Len(last)
    /\ At(Len(feed)) = tip
    /\ \A i \in 1..Len(feed) : Follows(At(i - 1), feed[i])

\* A block that is not above the one before it leaves the chain at its highest
\* block so far, and at most MaxReorgDepth below it.
ForksAreShallow ==
    /\ highest \in Int /\ highest <= Len(tip)
    /\ \A i \in 0..Len(feed) : Len(At(i)) <= Len(tip)
    /\ \A i \in 1..Len(feed) :
          Len(feed[i]) <= Len(At(i - 1)) =>
              /\ highest <= Len(At(i - 1))
              /\ Len(At(i - 1)) - (Len(feed[i]) - 1) <= MaxReorgDepth
              /\ \A j \in 0..(i - 1) : Len(At(j)) <= Len(At(i - 1))

\* What comes later differs from a block only above what a re-org may take off.
DeepBlocksAgree ==
    /\ \A i \in 0..Len(feed) : Agree(Top, At(i), highest - MaxReorgDepth)
    /\ \A i, j \in 0..Len(feed) : i < j => Agree(At(i), At(j), Len(At(i)) - MaxReorgDepth)

FeedInv == FeedLeadsToTip /\ ForksAreShallow /\ DeepBlocksAgree

LEMMA FeedTypes ==
    ASSUME FeedLeadsToTip
    PROVE  /\ Top \in Seq(Nat) /\ Len(Top) \in Nat
           /\ last # <<>> => Top = last /\ last \in Block
           /\ last = <<>> => Top = Parent(Start) /\ Len(Top) = Len(Start) - 1
           /\ \A i \in 0..Len(feed) : At(i) \in Seq(Nat) /\ Len(At(i)) \in Nat
           /\ \A i \in 1..Len(feed) : At(i) = feed[i] /\ feed[i] \in Block /\ Len(feed[i]) \in Nat
           /\ Len(Start) \in Nat \ {0} /\ Len(feed) \in Nat /\ Len(tip) \in Nat
           /\ MaxReorgDepth \in Nat /\ Start \in Block
<1>1. /\ Start \in Block /\ MaxReorgDepth \in Nat
    BY IndexerAssumption
<1>2. tip \in Block /\ feed \in Seq(Block) /\ last \in Block \cup {<<>>}
    BY DEF FeedLeadsToTip
<1>3. Top \in Seq(Nat) /\ (last = <<>> => Len(Top) = Len(Start) - 1)
    BY <1>1, <1>2, BlockFacts, ParentFacts DEF Top
<1>4. \A i \in 1..Len(feed) : feed[i] \in Block
    BY <1>2, ElementOfSeq
<1>5. ASSUME NEW b \in Block PROVE b \in Seq(Nat) /\ Len(b) \in Nat \ {0}
  <2>1. b \in Seq(Nat) /\ Len(b) \in Nat /\ Len(b) > 0
      BY BlockFacts
  <2> QED BY <2>1
<1>6. Len(Top) \in Nat
    BY <1>3
<1>7. ASSUME NEW i \in 0..Len(feed) PROVE At(i) \in Seq(Nat) /\ Len(At(i)) \in Nat
    BY <1>3, <1>4, <1>5, <1>6 DEF At
<1>8. \A i \in 1..Len(feed) : At(i) = feed[i]
    BY DEF At
<1>9. Len(feed) \in Nat
    BY <1>2
<1> QED BY <1>1, <1>2, <1>3, <1>4, <1>5, <1>6, <1>7, <1>8, <1>9 DEF Top

\* The indexer takes the first block of the feed, and its head follows.
LEMMA TakeFeed ==
    ASSUME FeedInv, feed # <<>>,
           last' = Head(feed), feed' = Tail(feed), tip' = tip,
           highest' = IF Len(Head(feed)) > highest THEN Len(Head(feed)) ELSE highest
    PROVE  FeedInv' /\ Top' = Head(feed)
<1> DEFINE n == Len(feed)
           y == feed[1]
<1>1. /\ feed \in Seq(Block) /\ n \in Nat /\ n > 0 /\ 1 \in 1..n
      /\ Head(feed) = y /\ y \in Block /\ y = At(1) /\ Len(y) \in Nat /\ Len(y) > 0
      /\ tip \in Block /\ Len(tip) \in Nat
  <2>1. feed \in Seq(Block) /\ n \in Nat /\ n > 0 /\ Head(feed) = y /\ tip \in Block
      BY DEF FeedInv, FeedLeadsToTip
  <2>2. 1 \in 1..n
      BY <2>1
  <2>3. y \in Block /\ y = At(1) /\ Len(tip) \in Nat
      BY <2>2, FeedTypes DEF FeedInv
  <2> QED BY <2>1, <2>2, <2>3, BlockFacts
<1>2. Len(feed') = n - 1 /\ feed' \in Seq(Block) /\ \A i \in 1..(n - 1) : feed'[i] = feed[i + 1]
    BY <1>1, HeadTailProperties
<1>3. last' = y /\ y # <<>> /\ Top' = y
    BY <1>1 DEF Top
<1>4. \A i \in 0..(n - 1) : At(i)' = At(i + 1)
    BY <1>1, <1>2, <1>3 DEF At
<1>5. /\ \A i \in 0..n : At(i) \in Seq(Nat) /\ Len(At(i)) \in Nat
      /\ \A i \in 1..n : At(i) = feed[i] /\ Len(feed[i]) \in Nat
      /\ Len(Start) \in Nat /\ MaxReorgDepth \in Nat
    BY FeedTypes DEF FeedInv
<1>6. /\ \A i \in 1..n : Follows(At(i - 1), feed[i])
      /\ highest \in Int /\ highest <= Len(tip)
      /\ \A i \in 0..n : Len(At(i)) <= Len(tip)
      /\ \A i \in 1..n :
            Len(feed[i]) <= Len(At(i - 1)) =>
                /\ highest <= Len(At(i - 1))
                /\ Len(At(i - 1)) - (Len(feed[i]) - 1) <= MaxReorgDepth
                /\ \A j \in 0..(i - 1) : Len(At(j)) <= Len(At(i - 1))
      /\ \A i \in 0..n : Agree(Top, At(i), highest - MaxReorgDepth)
      /\ \A i, j \in 0..n : i < j => Agree(At(i), At(j), Len(At(i)) - MaxReorgDepth)
      /\ At(n) = tip
    BY DEF FeedInv, FeedLeadsToTip, ForksAreShallow, DeepBlocksAgree
<1> HIDE DEF n, y
<1>7. highest' \in Int /\ highest' <= Len(tip) /\ (highest' = Len(y) \/ highest' = highest)
      /\ Len(y) <= highest' /\ highest <= highest'
    BY <1>1, <1>6
<1>8. FeedLeadsToTip'
  <2>1. At(Len(feed))' = tip
    <3>1. At(Len(feed))' = IF Len(feed') = 0 THEN Top' ELSE feed'[Len(feed')]
        BY DEF At
    <3>2. \A i \in 0..(n - 1) : At(i)' = IF i = 0 THEN Top' ELSE feed'[i]
        BY DEF At
    <3>3. Len(feed') \in 0..(n - 1) /\ Len(feed') + 1 = n
        BY <1>1, <1>2
    <3> QED BY <3>1, <3>2, <3>3, <1>4, <1>6
  <2>2. ASSUME NEW i \in 1..(n - 1) PROVE Follows(At(i - 1)', feed'[i])
    <3>1. i + 1 \in 1..n /\ i - 1 \in 0..(n - 1) /\ (i - 1) + 1 = i /\ (i + 1) - 1 = i
        BY <1>1
    <3>2. At(i - 1)' = At(i)
        BY <3>1, <1>4
    <3> QED BY <3>1, <3>2, <1>2, <1>6
  <2>3. Len(Start) <= Len(y)
      BY <1>1, <1>6 DEF Follows, y
  <2> QED BY <1>1, <1>2, <1>3, <2>1, <2>2, <2>3 DEF FeedLeadsToTip, Follows
<1>9. ForksAreShallow'
  <2>1. ASSUME NEW i \in 0..(n - 1) PROVE Len(At(i)') <= Len(tip)
      BY <1>1, <1>4, <1>6
  <2>2. ASSUME NEW i \in 1..(n - 1), Len(feed'[i]) <= Len(At(i - 1)')
        PROVE  /\ highest' <= Len(At(i - 1)')
               /\ Len(At(i - 1)') - (Len(feed'[i]) - 1) <= MaxReorgDepth
               /\ \A j \in 0..(i - 1) : Len(At(j)') <= Len(At(i - 1)')
    <3>1. i + 1 \in 1..n /\ i - 1 \in 0..(n - 1) /\ (i - 1) + 1 = i /\ (i + 1) - 1 = i
          /\ 1 \in 0..i /\ i \in 0..n
        BY <1>1
    <3>2. At(i - 1)' = At(i) /\ feed'[i] = feed[i + 1]
        BY <3>1, <1>2, <1>4
    <3>3. /\ highest <= Len(At(i))
          /\ Len(At(i)) - (Len(feed[i + 1]) - 1) <= MaxReorgDepth
          /\ \A j \in 0..i : Len(At(j)) <= Len(At(i))
        BY <2>2, <3>1, <3>2, <1>6
    <3>4. Len(y) <= Len(At(i))
        BY <3>1, <3>3, <1>1
    <3>5. ASSUME NEW j \in 0..(i - 1) PROVE Len(At(j)') <= Len(At(i))
      <4>1. j \in 0..(n - 1) /\ j + 1 \in 0..i
          BY <1>1, <3>1
      <4> QED BY <4>1, <1>4, <3>3
    <3>6. highest' <= Len(At(i))
        BY <3>3, <3>4, <1>7
    <3> QED BY <3>2, <3>3, <3>5, <3>6
  <2> QED BY <1>2, <1>7, <2>1, <2>2 DEF ForksAreShallow
<1>10. DeepBlocksAgree'
  <2>1. ASSUME NEW i \in 0..(n - 1) PROVE Agree(y, At(i)', highest' - MaxReorgDepth)
    <3>1. i + 1 \in 0..n /\ 1 \in 0..n /\ At(i)' = At(i + 1)
        BY <1>1, <1>4
    <3>2. CASE highest' = highest
      <4>1. Agree(Top, At(1), highest - MaxReorgDepth) /\ Agree(Top, At(i + 1), highest - MaxReorgDepth)
          BY <3>1, <1>6
      <4> QED BY <3>1, <3>2, <4>1, <1>1 DEF Agree
    <3>3. CASE highest' = Len(y)
      <4>1. CASE i = 0
          BY <4>1, <3>1, <3>3, <1>1, <1>5 DEF Agree
      <4>2. CASE i # 0
        <5>1. 1 < i + 1
            BY <4>2
        <5> QED BY <5>1, <3>1, <3>3, <1>1, <1>6
      <4> QED BY <4>1, <4>2
    <3> QED BY <3>2, <3>3, <1>7
  <2>2. ASSUME NEW i \in 0..(n - 1), NEW j \in 0..(n - 1), i < j
        PROVE  Agree(At(i)', At(j)', Len(At(i)') - MaxReorgDepth)
    <3>1. i + 1 \in 0..n /\ j + 1 \in 0..n /\ i + 1 < j + 1
        BY <1>1, <2>2
    <3>2. At(i)' = At(i + 1) /\ At(j)' = At(j + 1)
        BY <1>4
    <3> QED BY <3>1, <3>2, <1>6
  <2>3. \A i \in 0..Len(feed') : Agree(Top', At(i)', highest' - MaxReorgDepth)
      BY <1>2, <1>3, <2>1
  <2>4. \A i, j \in 0..Len(feed') : i < j => Agree(At(i)', At(j)', Len(At(i)') - MaxReorgDepth)
      BY <1>2, <2>2
  <2> QED BY <2>3, <2>4 DEF DeepBlocksAgree
<1> QED BY <1>1, <1>3, <1>8, <1>9, <1>10 DEF FeedInv

\* The tip moves: its new blocks join the feed above the fork point.
LEMMA MoveTipFeed ==
    ASSUME FeedInv, NEW b \in Block, MoveTip(b)
    PROVE  FeedInv'
<1> DEFINE f == ForkHeight(tip, b)
           n == Len(feed)
           m == Len(b) - f
           new == PathAbove(b, f)
<1>1. /\ tip' = b /\ feed' = feed \o new
      /\ last' = last /\ highest' = highest
      /\ Len(b) > Len(tip) /\ Len(tip) - f <= MaxReorgDepth /\ f >= Len(Start)
    BY DEF MoveTip, CanReorgTo, trackerVars
<1>2. /\ \A i \in 0..n : At(i) \in Seq(Nat) /\ Len(At(i)) \in Nat
      /\ \A i \in 1..n : At(i) = feed[i] /\ feed[i] \in Block /\ Len(feed[i]) \in Nat
      /\ Top \in Seq(Nat) /\ Len(Top) \in Nat
      /\ Len(Start) \in Nat /\ MaxReorgDepth \in Nat /\ n \in Nat
      /\ tip \in Block /\ Len(tip) \in Nat /\ feed \in Seq(Block)
    BY FeedTypes DEF FeedInv, FeedLeadsToTip
<1>3. b \in Seq(Nat) /\ Len(b) \in Nat /\ tip \in Seq(Nat)
    BY <1>2, BlockFacts
<1>4. /\ f \in Nat /\ f <= Len(tip) /\ f < Len(b)
      /\ \A k \in 1..f : tip[k] = b[k]
      /\ f < Len(tip) => tip[f + 1] # b[f + 1]
  <2>1. /\ f \in 0..Len(tip) /\ f <= Len(b)
        /\ \A k \in 1..f : tip[k] = b[k]
        /\ (f < Len(tip) /\ f < Len(b)) => tip[f + 1] # b[f + 1]
      BY <1>3, ForkFacts
  <2> HIDE DEF f
  <2>2. f \in Nat /\ f <= Len(tip) /\ f < Len(b)
      BY <2>1, <1>1, <1>2, <1>3
  <2> QED BY <2>1, <2>2
<1>5. new = [i \in 1..m |-> SubSeq(b, 1, f + i)]
    BY DEF PathAbove
<1> HIDE DEF f, new
<1>6. m \in Nat /\ m > 0 /\ f + m = Len(b)
    BY <1>3, <1>4
<1> HIDE DEF m, n
<1>7. \A i \in 1..m : f + i \in 1..Len(b) /\ f + i \in 0..Len(b)
    BY <1>3, <1>4, <1>6
<1>8. \A i \in 1..m : SubSeq(b, 1, f + i) \in Block
    BY <1>7, BlockFacts
<1>9. new \in Seq(Block) /\ Len(new) = m /\ \A i \in 1..m : new[i] = SubSeq(b, 1, f + i)
  <2>1. new \in [1..m -> Block]
      BY <1>5, <1>8
  <2>2. new \in Seq(Block)
      BY <2>1, <1>6, SeqDef
  <2>3. Len(new) = m
      BY <2>1, <2>2, <1>6
  <2> QED BY <2>2, <2>3, <1>5
<1>10. /\ feed' \in Seq(Block) /\ Len(feed') = n + m
       /\ \A i \in 1..(n + m) : feed'[i] = IF i <= n THEN feed[i] ELSE new[i - n]
    BY <1>1, <1>2, <1>9, ConcatProperties DEF n
<1>11. Top' = Top
    BY <1>1 DEF Top
<1>12. \A i \in 0..n : At(i)' = At(i)
    BY <1>2, <1>6, <1>10, <1>11 DEF At
<1>13. \A i \in 1..n : feed'[i] = feed[i]
  <2>1. n \in Nat
      BY <1>2
  <2>2. \A i \in 1..n : i \in 1..(n + m) /\ i <= n
      BY <2>1, <1>6
  <2> QED BY <2>2, <1>10
<1>14. ASSUME NEW i \in (n + 1)..(n + m)
       PROVE  /\ At(i)' = feed'[i]
              /\ Len(feed'[i]) = f + i - n
              /\ \A k \in 1..(f + i - n) : feed'[i][k] = b[k]
  <2>1. i - n \in 1..m /\ i # 0 /\ i \in 1..(n + m) /\ ~(i <= n)
      BY <1>2, <1>6
  <2>2. feed'[i] = SubSeq(b, 1, f + (i - n))
      BY <2>1, <1>9, <1>10
  <2>3. f + (i - n) = f + i - n /\ f + i - n \in 0..Len(b)
      BY <2>1, <1>2, <1>4, <1>7
  <2>4. At(i)' = feed'[i]
      BY <2>1 DEF At
  <2> QED BY <2>2, <2>3, <2>4, <1>3, CutFacts
<1>15. ASSUME NEW i \in 0..(n + m) PROVE i \in 0..n \/ i \in (n + 1)..(n + m)
    BY <1>2
<1>16. At(n) = tip
    BY DEF FeedInv, FeedLeadsToTip, n
<1>17. n + m = Len(feed') /\ n + m \in (n + 1)..(n + m) /\ n \in 0..n
    BY <1>2, <1>6, <1>10
<1>18. FeedLeadsToTip'
  <2>1. At(Len(feed))' = b
    <3>0. At(Len(feed))' = IF Len(feed') = 0 THEN Top' ELSE feed'[Len(feed')]
        BY DEF At
    <3>1. At(Len(feed))' = feed'[n + m]
        BY <3>0, <1>2, <1>6, <1>10
    <3>2. f + (n + m) - n = Len(b)
        BY <1>2, <1>3, <1>4, <1>6
    <3>3. Len(feed'[n + m]) = Len(b) /\ \A k \in 1..Len(b) : feed'[n + m][k] = b[k]
        BY <3>2, <1>14, <1>17
    <3>4. feed'[n + m] \in Block
        BY <1>10, <1>17, <1>2, <1>6, ElementOfSeq
    <3>5. feed'[n + m] \in Seq(Nat)
        BY <3>4, BlockFacts
    <3> QED BY <3>1, <3>3, <3>5, <1>3, PathEqual
  <2>2. ASSUME NEW i \in 1..(n + m) PROVE Follows(At(i - 1)', feed'[i])
    <3>1. CASE i \in 1..n
      <4>1. i - 1 \in 0..n
          BY <3>1, <1>2
      <4>2. Follows(At(i - 1), feed[i])
          BY <3>1 DEF FeedInv, FeedLeadsToTip, n
      <4> QED BY <4>1, <4>2, <3>1, <1>12, <1>13
    <3>2. CASE i = n + 1
      <4>1. At(i - 1)' = tip /\ n + 1 \in (n + 1)..(n + m) /\ f + (n + 1) - n = f + 1
          BY <3>2, <1>2, <1>4, <1>6, <1>12, <1>16, <1>17
      <4>2. Len(feed'[n + 1]) = f + 1 /\ \A k \in 1..(f + 1) : feed'[n + 1][k] = b[k]
          BY <4>1, <1>14
      <4> DEFINE y == feed'[n + 1]
      <4>3. Len(y) = f + 1 /\ \A k \in 1..(f + 1) : y[k] = b[k]
          BY <4>2
      <4> HIDE DEF y
      <4>4. \A k \in 1..f : tip[k] = y[k]
          BY <4>3, <1>4
      <4>5. f + 1 <= Len(tip) => tip[f + 1] # y[f + 1]
          BY <4>3, <1>4, <1>2
      <4>6. Len(y) - 1 = f
          BY <4>3, <1>4
      <4>7. Follows(tip, y)
          BY <4>3, <4>4, <4>5, <4>6, <1>1, <1>2, <1>4 DEF Follows
      <4> QED BY <4>1, <4>7, <3>2 DEF y
    <3>3. CASE i \in (n + 2)..(n + m)
      <4>1. /\ i - 1 \in (n + 1)..(n + m) /\ i \in (n + 1)..(n + m)
            /\ f + i - n \in Nat /\ f + i - n > f
          BY <3>3, <1>2, <1>4, <1>6
      <4> DEFINE x == feed'[i - 1]
                 y == feed'[i]
                 l == f + i - n
      <4>2. /\ At(i - 1)' = x
            /\ Len(x) = l - 1 /\ \A k \in 1..(l - 1) : x[k] = b[k]
            /\ Len(y) = l /\ \A k \in 1..l : y[k] = b[k]
            /\ l \in Nat /\ l > f
        <5>1. /\ At(i - 1)' = x
              /\ Len(x) = f + (i - 1) - n /\ \A k \in 1..(f + (i - 1) - n) : x[k] = b[k]
            BY <4>1, <1>14
        <5>2. Len(y) = f + i - n /\ \A k \in 1..(f + i - n) : y[k] = b[k]
            BY <4>1, <1>14
        <5> HIDE DEF x, y
        <5>3. f + (i - 1) - n = l - 1 /\ f + i - n = l
          <6>1. f \in Int /\ i \in Int /\ n \in Int
              BY <3>3, <1>2, <1>4, <1>6
          <6> HIDE DEF f, n
          <6> QED BY <6>1
        <5>4. l \in Nat /\ l > f
            BY <4>1
        <5> HIDE DEF l
        <5>5. Len(x) = l - 1 /\ \A k \in 1..(l - 1) : x[k] = b[k]
            BY <5>1, <5>3
        <5>6. Len(y) = l /\ \A k \in 1..l : y[k] = b[k]
            BY <5>2, <5>3
        <5> QED BY <5>1, <5>4, <5>5, <5>6
      <4> HIDE DEF x, y, l
      <4>3. Follows(x, y)
        <5>1. Len(Start) <= Len(y) /\ Len(y) - 1 = l - 1 /\ ~(Len(y) <= Len(x))
            BY <4>2, <1>1, <1>2, <1>4
        <5>2. \A k \in 1..(l - 1) : x[k] = y[k]
            BY <4>2
        <5> QED BY <4>2, <5>1, <5>2 DEF Follows
      <4> QED BY <4>2, <4>3 DEF y
    <3> QED BY <3>1, <3>2, <3>3, <1>2, <1>6
  <2>3. last = <<>> => feed' # <<>> /\ feed'[1] = Start
    <3> SUFFICES ASSUME last = <<>> PROVE feed' # <<>> /\ feed'[1] = Start
        OBVIOUS
    <3>1. feed # <<>> /\ feed[1] = Start
        BY DEF FeedInv, FeedLeadsToTip
    <3>2. 1 \in 1..n
        BY <3>1, <1>2 DEF n
    <3>3. Len(feed') > 0
        BY <1>2, <1>6, <1>10
    <3>4. feed' # <<>>
        BY <3>3
    <3> QED BY <3>1, <3>2, <3>4, <1>13
  <2>4. last \in Block \cup {<<>>} /\ (last # <<>> => Len(Start) <= Len(last))
      BY DEF FeedInv, FeedLeadsToTip
  <2> QED BY <1>1, <1>10, <2>1, <2>2, <2>3, <2>4 DEF FeedLeadsToTip
<1>19. ForksAreShallow'
  <2>0. /\ highest \in Int /\ highest <= Len(tip)
        /\ \A i \in 0..n : Len(At(i)) <= Len(tip)
      BY DEF FeedInv, ForksAreShallow, n
  <2>h. highest' = highest
      BY <1>1
  <2>1. highest \in Int /\ highest <= Len(b)
      BY <2>0, <1>1, <1>2, <1>3
  <2>2. ASSUME NEW i \in 0..(n + m) PROVE Len(At(i)') <= Len(b)
    <3>1. CASE i \in 0..n
      <4>1. Len(At(i)) <= Len(tip) /\ At(i)' = At(i) /\ Len(At(i)) \in Nat
          BY <3>1, <2>0, <1>2, <1>12
      <4> QED BY <4>1, <1>1, <1>2, <1>3
    <3>2. CASE i \in (n + 1)..(n + m)
      <4>1. Len(At(i)') = f + i - n
          BY <3>2, <1>14
      <4> QED BY <4>1, <3>2, <1>2, <1>4, <1>6
    <3> QED BY <3>1, <3>2, <1>15
  <2>3. ASSUME NEW i \in 1..(n + m), Len(feed'[i]) <= Len(At(i - 1)')
        PROVE  /\ highest <= Len(At(i - 1)')
               /\ Len(At(i - 1)') - (Len(feed'[i]) - 1) <= MaxReorgDepth
               /\ \A j \in 0..(i - 1) : Len(At(j)') <= Len(At(i - 1)')
    <3>1. CASE i \in 1..n
      <4>1. i - 1 \in 0..n /\ \A j \in 0..(i - 1) : j \in 0..n
          BY <3>1, <1>2
      <4>2. At(i - 1)' = At(i - 1) /\ feed'[i] = feed[i] /\ \A j \in 0..(i - 1) : At(j)' = At(j)
          BY <4>1, <3>1, <1>12, <1>13
      <4>3. Len(feed[i]) <= Len(At(i - 1)) =>
              /\ highest <= Len(At(i - 1))
              /\ Len(At(i - 1)) - (Len(feed[i]) - 1) <= MaxReorgDepth
              /\ \A j \in 0..(i - 1) : Len(At(j)) <= Len(At(i - 1))
          BY <3>1 DEF FeedInv, ForksAreShallow, n
      <4> QED BY <4>2, <4>3, <2>3
    <3>2. CASE i = n + 1
      <4>1. i - 1 = n /\ n + 1 \in (n + 1)..(n + m) /\ f + (n + 1) - n = f + 1
          BY <3>2, <1>2, <1>4, <1>6
      <4>2. At(i - 1)' = tip /\ Len(feed'[i]) = f + 1
          BY <4>1, <3>2, <1>12, <1>14, <1>16, <1>17
      <4>3. \A j \in 0..n : Len(At(j)') <= Len(tip)
          BY <2>0, <1>12
      <4>4. Len(tip) - ((f + 1) - 1) <= MaxReorgDepth
          BY <1>1, <1>2, <1>4
      <4> QED BY <2>0, <4>1, <4>2, <4>3, <4>4
    <3>3. CASE i \in (n + 2)..(n + m)
      <4>1. i - 1 \in (n + 1)..(n + m) /\ i \in (n + 1)..(n + m)
          BY <3>3, <1>2, <1>6
      <4>2. Len(At(i - 1)') = f + (i - 1) - n /\ Len(feed'[i]) = f + i - n
          BY <4>1, <1>14
      <4> QED BY <4>1, <4>2, <2>3, <1>2, <1>4
    <3> QED BY <3>1, <3>2, <3>3, <1>2, <1>6
  <2> QED BY <2>h, <2>1, <2>2, <2>3, <1>1, <1>10 DEF ForksAreShallow
<1>20. DeepBlocksAgree'
  <2>0. /\ highest \in Int /\ highest <= Len(tip) /\ highest' = highest
        /\ \A i \in 0..n : Len(At(i)) <= Len(tip)
        /\ \A i \in 0..n : Agree(Top, At(i), highest - MaxReorgDepth)
        /\ \A i, j \in 0..n : i < j => Agree(At(i), At(j), Len(At(i)) - MaxReorgDepth)
      BY <1>1 DEF FeedInv, ForksAreShallow, DeepBlocksAgree, n
  <2>1. ASSUME NEW i \in 0..(n + m) PROVE Agree(Top, At(i)', highest - MaxReorgDepth)
    <3>1. CASE i \in 0..n
        BY <3>1, <2>0, <1>12
    <3>2. CASE i \in (n + 1)..(n + m)
      <4> SUFFICES ASSUME NEW k \in 1..(highest - MaxReorgDepth)
                   PROVE  k <= Len(Top) /\ k <= Len(At(i)') /\ Top[k] = At(i)'[k]
          BY DEF Agree
      <4>1. k \in Nat /\ k <= f /\ k \in 1..f /\ k \in 1..(f + i - n) /\ k <= f + i - n
          BY <2>0, <3>2, <1>1, <1>2, <1>4, <1>6
      <4>2. k <= Len(Top) /\ Top[k] = tip[k]
          BY <2>0, <1>16, <1>17 DEF Agree
      <4> QED BY <4>1, <4>2, <3>2, <1>4, <1>14
    <3> QED BY <3>1, <3>2, <1>15
  <2>2. ASSUME NEW i \in 0..(n + m), NEW j \in 0..(n + m), i < j
        PROVE  Agree(At(i)', At(j)', Len(At(i)') - MaxReorgDepth)
    <3>1. CASE i \in 0..n /\ j \in 0..n
        BY <3>1, <2>0, <2>2, <1>12
    <3>2. CASE i \in 0..n /\ j \in (n + 1)..(n + m)
      <4>0. At(i)' = At(i) /\ At(i) \in Seq(Nat) /\ Len(At(i)) \in Nat
          BY <3>2, <1>2, <1>12
      <4> SUFFICES ASSUME NEW k \in 1..(Len(At(i)) - MaxReorgDepth)
                   PROVE  k <= Len(At(i)) /\ k <= Len(At(j)') /\ At(i)[k] = At(j)'[k]
          BY <4>0 DEF Agree
      <4>1. Len(At(i)) <= Len(tip)
          BY <2>0, <3>2
      <4>2. /\ k \in Nat /\ k <= Len(At(i)) /\ k <= f /\ k \in 1..f
            /\ k \in 1..(f + j - n) /\ k <= f + j - n
          BY <4>0, <4>1, <3>2, <1>1, <1>2, <1>4, <1>6
      <4>3. At(i)[k] = tip[k]
        <5>1. CASE i = n
            BY <5>1, <1>16
        <5>2. CASE i # n
          <6>1. i < n
              BY <5>2, <3>2, <1>2
          <6>2. Agree(At(i), tip, Len(At(i)) - MaxReorgDepth)
              BY <6>1, <3>2, <2>0, <1>16, <1>17
          <6> QED BY <6>2 DEF Agree
        <5> QED BY <5>1, <5>2
      <4>4. Len(At(j)') = f + j - n /\ At(j)'[k] = b[k]
          BY <4>2, <3>2, <1>14
      <4> QED BY <4>2, <4>3, <4>4, <1>4
    <3>3. CASE i \in (n + 1)..(n + m) /\ j \in (n + 1)..(n + m)
      <4>1. /\ Len(At(i)') = f + i - n /\ \A k \in 1..(f + i - n) : At(i)'[k] = b[k]
            /\ Len(At(j)') = f + j - n /\ \A k \in 1..(f + j - n) : At(j)'[k] = b[k]
          BY <3>3, <1>14
      <4>2. ASSUME NEW k \in 1..(f + i - n - MaxReorgDepth)
            PROVE  k \in 1..(f + i - n) /\ k \in 1..(f + j - n) /\ k <= f + i - n /\ k <= f + j - n
        <5>1. f \in Int /\ i \in Int /\ j \in Int /\ n \in Int /\ MaxReorgDepth \in Nat /\ i < j
            BY <2>2, <3>3, <1>2, <1>4, <1>6
        <5>2. k \in Int /\ 1 <= k /\ k <= f + i - n - MaxReorgDepth
            BY <5>1
        <5>3. k <= f + i - n /\ k <= f + j - n
            BY <5>1, <5>2
        <5> QED BY <5>1, <5>2, <5>3
      <4>3. Agree(At(i)', At(j)', f + i - n - MaxReorgDepth)
          BY <4>1, <4>2 DEF Agree
      <4> QED BY <4>1, <4>3, <3>3, <1>2, <1>4
    <3> QED BY <3>1, <3>2, <3>3, <2>2, <1>15, <1>2
  <2>3. \A i \in 0..Len(feed') : Agree(Top', At(i)', highest' - MaxReorgDepth)
      BY <1>10, <1>11, <2>0, <2>1
  <2>4. \A i, j \in 0..Len(feed') : i < j => Agree(At(i)', At(j)', Len(At(i)') - MaxReorgDepth)
      BY <1>10, <2>2
  <2> QED BY <2>3, <2>4 DEF DeepBlocksAgree
<1> QED BY <1>18, <1>19, <1>20 DEF FeedInv

LEMMA InitFeed ==
    ASSUME Init
    PROVE  FeedInv
<1>1. /\ tip = Start /\ feed = <<Start>> /\ last = <<>> /\ highest = Len(Start) - 1
    BY DEF Init
<1>2. Start \in Block /\ MaxReorgDepth \in Nat
    BY IndexerAssumption
<1>3. Start \in Seq(Nat) /\ Len(Start) \in Nat /\ Len(Start) > 0
    BY <1>2, BlockFacts
<1>4. Len(feed) = 1 /\ feed \in Seq(Block) /\ feed[1] = Start /\ feed # <<>>
    BY <1>1, <1>2
<1>5. At(0) = Parent(Start) /\ At(1) = Start /\ Top = Parent(Start)
    BY <1>1, <1>4 DEF At, Top
<1>6. /\ Parent(Start) \in Seq(Nat) /\ Len(Parent(Start)) = Len(Start) - 1
      /\ \A k \in 1..(Len(Start) - 1) : Parent(Start)[k] = Start[k]
    BY <1>2, ParentFacts
<1>7. FeedLeadsToTip
  <2>1. Follows(At(0), Start)
      BY <1>3, <1>5, <1>6 DEF Follows
  <2>2. \A i \in 1..Len(feed) : i = 1 /\ i - 1 = 0
      BY <1>4
  <2>3. \A i \in 1..Len(feed) : Follows(At(i - 1), feed[i])
      BY <2>1, <2>2, <1>4
  <2> QED BY <1>1, <1>2, <1>4, <1>5, <2>3 DEF FeedLeadsToTip
<1>8. ForksAreShallow
  <2>1. \A i \in 0..Len(feed) : i = 0 \/ i = 1
      BY <1>4
  <2>2. \A i \in 1..Len(feed) : i = 1 /\ i - 1 = 0
      BY <1>4
  <2>3. ~(Len(Start) <= Len(Parent(Start)))
      BY <1>3, <1>6
  <2>4. \A i \in 0..Len(feed) : Len(At(i)) <= Len(tip)
      BY <2>1, <1>1, <1>3, <1>5, <1>6
  <2>5. \A i \in 1..Len(feed) : ~(Len(feed[i]) <= Len(At(i - 1)))
      BY <2>2, <2>3, <1>4, <1>5
  <2>6. highest \in Int /\ highest <= Len(tip)
      BY <1>1, <1>3
  <2> QED BY <2>4, <2>5, <2>6 DEF ForksAreShallow
<1>9. DeepBlocksAgree
  <2>1. ASSUME NEW i \in 0..Len(feed) PROVE Agree(Top, At(i), highest - MaxReorgDepth)
    <3>1. i = 0 \/ i = 1
        BY <1>4
    <3>2. \A k \in 1..(Len(Start) - 1 - MaxReorgDepth) :
             k \in 1..(Len(Start) - 1) /\ k <= Len(Start) - 1 /\ k <= Len(Start)
        BY <1>2, <1>3
    <3> QED BY <3>1, <3>2, <1>1, <1>5, <1>6 DEF Agree
  <2>2. ASSUME NEW i \in 0..Len(feed), NEW j \in 0..Len(feed), i < j
        PROVE  Agree(At(i), At(j), Len(At(i)) - MaxReorgDepth)
    <3>1. i = 0 /\ j = 1
        BY <2>2, <1>4
    <3>2. \A k \in 1..(Len(Start) - 1 - MaxReorgDepth) :
             k \in 1..(Len(Start) - 1) /\ k <= Len(Start) - 1 /\ k <= Len(Start)
        BY <1>2, <1>3
    <3>3. Agree(Parent(Start), Start, Len(Start) - 1 - MaxReorgDepth)
        BY <3>2, <1>6 DEF Agree
    <3> QED BY <3>1, <3>3, <1>5, <1>6
  <2> QED BY <2>1, <2>2 DEF DeepBlocksAgree
<1> QED BY <1>1, <1>7, <1>8, <1>9 DEF FeedInv
------------------------------------------------------------------------------
(* The detector's history *)

LEMMA CutEqual ==
    ASSUME NEW a \in Seq(Nat), NEW b \in Seq(Nat), NEW n \in 0..Len(a), n <= Len(b),
           \A k \in 1..n : a[k] = b[k]
    PROVE  SubSeq(a, 1, n) = SubSeq(b, 1, n)
<1>1. n \in 0..Len(b)
    OBVIOUS
<1>2. SubSeq(a, 1, n) \in Seq(Nat) /\ Len(SubSeq(a, 1, n)) = n
      /\ \A k \in 1..n : SubSeq(a, 1, n)[k] = a[k]
    BY CutFacts
<1>3. SubSeq(b, 1, n) \in Seq(Nat) /\ Len(SubSeq(b, 1, n)) = n
      /\ \A k \in 1..n : SubSeq(b, 1, n)[k] = b[k]
    BY <1>1, CutFacts
<1> QED BY <1>2, <1>3, PathEqual

\* The chain below a block is shared with the block it follows.
LEMMA SharedBelow ==
    ASSUME NEW x \in Seq(Nat), NEW y \in Block, Follows(x, y), NEW n \in 0..(Len(y) - 1)
    PROVE  n <= Len(x) /\ SubSeq(x, 1, n) = SubSeq(y, 1, n)
<1>1. y \in Seq(Nat) /\ Len(y) \in Nat /\ Len(x) \in Nat
    BY BlockFacts
<1>2. n \in 0..Len(x) /\ n <= Len(y) /\ \A k \in 1..n : k \in 1..(Len(y) - 1)
    BY <1>1 DEF Follows
<1> QED BY <1>1, <1>2, CutEqual DEF Follows

LEMMA CardinalityNames ==
    \A S : Detector!Cardinality(S) = Cardinality(S) /\ Det!Cardinality(S) = Cardinality(S)
BY DEF Cardinality, Detector!Cardinality, Det!Cardinality

\* The two names of each of the detector's operators.
LEMMA DetectorNames ==
    /\ \A b : Detector!ProcessBlock(b) <=> Det!ProcessBlock(b)
    /\ \A b : Det!Height(b) = Len(b) /\ Det!Parent(b) = Parent(b)
    /\ Detector!Init <=> Det!Init
    /\ Detector!TypeOK <=> Det!TypeOK
<1>1. \A b : Det!Height(b) = Len(b) /\ Det!Parent(b) = Parent(b)
    BY DEF Det!Height, Det!Parent, Parent
<1>2. Detector!Init <=> Det!Init
    BY DEF Detector!Init, Det!Init, Detector!EmptyHistory, Det!EmptyHistory
<1>3. Detector!TypeOK <=> Det!TypeOK
    BY DEF Detector!TypeOK, Det!TypeOK, Detector!Event, Det!Event, Detector!EventType,
           Det!EventType, Detector!Height, Det!Height
<1>4. \A b : /\ Detector!ParentRecorded(b) <=> Det!ParentRecorded(b)
             /\ Detector!ParentMatches(b) <=> Det!ParentMatches(b)
             /\ Detector!CommonAncestorHeight(b) = Det!CommonAncestorHeight(b)
             /\ Detector!RollbackFrom(b) = Det!RollbackFrom(b)
    BY DEF Detector!CommonAncestorHeight, Detector!RollbackFrom, Detector!ParentRecorded,
           Detector!ParentMatches, Detector!Height, Detector!Parent,
           Det!CommonAncestorHeight, Det!RollbackFrom, Det!ParentRecorded,
           Det!ParentMatches, Det!Height, Det!Parent
<1>5. \A b : Detector!Height(b) = Det!Height(b) /\ Detector!Parent(b) = Det!Parent(b)
    BY DEF Detector!Height, Detector!Parent, Det!Height, Det!Parent
<1>6. \A hist, ord, b : Detector!Put(hist, ord, b) <=> Det!Put(hist, ord, b)
    BY DEF Detector!Put, Det!Put, Detector!Excess, Det!Excess, Detector!WithoutHeights,
           Det!WithoutHeights, Detector!Height, Det!Height
<1>7. \A type, b, ancestor, blocks :
         Detector!Emit(type, b, ancestor, blocks) <=> Det!Emit(type, b, ancestor, blocks)
    BY DEF Detector!Emit, Det!Emit
<1>8. \A n : /\ Detector!HeightsFrom(n) = Det!HeightsFrom(n)
             /\ Detector!OrderBelow(n) = Det!OrderBelow(n)
  <2>1. ASSUME NEW positions PROVE Detector!QueuedAt(positions) = Det!QueuedAt(positions)
    <3> DEFINE upto(i) == {j \in positions : j =< i}
               at(k) == CHOOSE i \in positions : Detector!Cardinality(upto(i)) = k
               bt(k) == CHOOSE i \in positions : Det!Cardinality(upto(i)) = k
    <3>1. \A i : Detector!Cardinality(upto(i)) = Det!Cardinality(upto(i))
        BY CardinalityNames
    <3>2. ASSUME NEW k
          PROVE  {i \in positions : Detector!Cardinality(upto(i)) = k}
                    = {i \in positions : Det!Cardinality(upto(i)) = k}
        BY <3>1
    <3>3. ASSUME NEW k PROVE at(k) = bt(k)
        BY <3>1, <3>2
    <3>4. Detector!QueuedAt(positions)
             = [k \in 1..Detector!Cardinality(positions) |-> order[at(k)]]
        BY DEF Detector!QueuedAt
    <3>5. Det!QueuedAt(positions) = [k \in 1..Det!Cardinality(positions) |-> order[bt(k)]]
        BY DEF Det!QueuedAt
    <3> HIDE DEF at, bt
    <3> QED BY <3>3, <3>4, <3>5, CardinalityNames
  <2> QED BY <2>1 DEF Detector!HeightsFrom, Det!HeightsFrom, Detector!OrderBelow, Det!OrderBelow
<1>9. \A hist, hs : Detector!WithoutHeights(hist, hs) = Det!WithoutHeights(hist, hs)
    BY DEF Detector!WithoutHeights, Det!WithoutHeights
<1>10. Detector!Recorded = Det!Recorded
    BY DEF Detector!Recorded, Det!Recorded
<1>11. ASSUME NEW b PROVE Detector!HandleReorg(b) <=> Det!HandleReorg(b)
    BY <1>4, <1>6, <1>7, <1>8, <1>9 DEF Detector!HandleReorg, Det!HandleReorg
<1>12. ASSUME NEW b PROVE Detector!ProcessBlock(b) <=> Det!ProcessBlock(b)
  <2>1. Detector!HashMutation(b) <=> Det!HashMutation(b)
      BY <1>5, <1>11 DEF Detector!HashMutation, Det!HashMutation
  <2>2. Detector!Redelivery(b) <=> Det!Redelivery(b)
      BY <1>5, <1>7 DEF Detector!Redelivery, Det!Redelivery
  <2>3. Detector!ParentMismatch(b) <=> Det!ParentMismatch(b)
      BY <1>4, <1>5, <1>11 DEF Detector!ParentMismatch, Det!ParentMismatch
  <2>4. Detector!Extension(b) <=> Det!Extension(b)
      BY <1>4, <1>5, <1>6, <1>7, <1>10 DEF Detector!Extension, Det!Extension
  <2>5. Detector!ContinuityBreak(b) <=> Det!ContinuityBreak(b)
      BY <1>4, <1>5, <1>6, <1>7, <1>10 DEF Detector!ContinuityBreak, Det!ContinuityBreak
  <2> QED BY <2>1, <2>2, <2>3, <2>4, <2>5 DEF Detector!ProcessBlock, Det!ProcessBlock
<1> QED BY <1>1, <1>2, <1>3, <1>12

LEMMA DetectorConstants == Det!DetectorAssumption /\ Det!BlockAssumption
BY IndexerAssumption, BlockAssumption DEF Det!DetectorAssumption, Det!BlockAssumption

\* The tracker's head is not far ahead of the blocks indexed, which the highest
\* one bounds.
HeadNow == heads[SourceChain]

HeadInv ==
    /\ last = <<>> => highest = Len(Start) - 1
    /\ last # <<>> => Len(last) <= highest
    /\ HeadNow <= highest + HeadLead /\ HeadNow <= Len(tip)

\* The history is a segment of the last block's chain with that block on top,
\* and reaches down to Start or HistoryDepth below the highest block.
HistoryInv ==
    /\ Det!DetectorInv /\ Det!Increasing(order)
    /\ \A h \in DOMAIN history : history[h] = SubSeq(Top, 1, h)
    /\ last = <<>> => DOMAIN history = {}
    /\ last # <<>> =>
          \E lo \in Len(Start)..Len(last) :
             /\ DOMAIN history = lo..Len(last)
             /\ lo = Len(Start) \/ lo <= highest - HistoryDepth + 1

\* A block that is not above the last one has its height on record.
LEMMA ForkIsRecorded ==
    ASSUME FeedInv, HistoryInv, last # <<>>, feed # <<>>, Len(feed[1]) <= Len(last)
    PROVE  Len(feed[1]) \in DOMAIN history
<1> DEFINE y == feed[1]
<1>1. feed \in Seq(Block) /\ Len(feed) \in Nat /\ Len(feed) > 0
    BY DEF FeedInv, FeedLeadsToTip
<1>2. 1 \in 1..Len(feed) /\ At(0) = Top /\ 1 - 1 = 0
    BY <1>1 DEF At
<1>3. /\ Top = last /\ Len(last) \in Nat /\ y \in Block /\ Len(y) \in Nat
      /\ Len(Start) \in Nat /\ MaxReorgDepth \in Nat
  <2>1. /\ Top = last /\ Len(Top) \in Nat /\ y \in Block /\ Len(y) \in Nat
        /\ Len(Start) \in Nat /\ MaxReorgDepth \in Nat
      BY <1>2, FeedTypes DEF FeedInv
  <2> QED BY <2>1
<1>4. /\ Follows(Top, y) /\ highest \in Int
      /\ Len(y) <= Len(Top) => /\ highest <= Len(Top)
                               /\ Len(Top) - (Len(y) - 1) <= MaxReorgDepth
    BY <1>2 DEF FeedInv, FeedLeadsToTip, ForksAreShallow
<1>5. PICK lo \in Len(Start)..Len(last) :
         /\ DOMAIN history = lo..Len(last)
         /\ lo = Len(Start) \/ lo <= highest - HistoryDepth + 1
    BY DEF HistoryInv
<1>6. HistoryDepth \in Nat /\ HistoryDepth >= MaxReorgDepth
    BY IndexerAssumption
<1> HIDE DEF y
<1>7. Len(y) <= Len(last)
    BY DEF y
<1>8. Len(Start) <= Len(y)
    BY <1>4 DEF Follows
<1>9. lo <= Len(y)
    BY <1>3, <1>4, <1>5, <1>6, <1>7, <1>8
<1> QED BY <1>3, <1>5, <1>7, <1>9 DEF y

\* The highest height becomes that of block b if it is higher.
HighestFollows(b) == highest' = IF Len(b) > highest THEN Len(b) ELSE highest

\* What processBlock does with a block of the feed.
LEMMA IndexDetector ==
    ASSUME FeedInv, HeadInv, HistoryInv, feed # <<>>,
           Det!ProcessBlock(Head(feed)),
           last' = Head(feed), Top' = Head(feed)
    PROVE  /\ HighestFollows(Head(feed)) => HistoryInv'
           /\ \/ /\ event'.type = "block"
                 /\ Len(Head(feed)) = Len(Top) + 1
              \/ /\ event'.type = "reorg"
                 /\ last # <<>> /\ Len(Head(feed)) <= Len(last)
                 /\ {Height(x) : x \in event'.invalidated} = Len(Head(feed))..Len(last)
<1> DEFINE y == feed[1]
<1>1. feed \in Seq(Block) /\ Len(feed) \in Nat /\ Len(feed) > 0 /\ Head(feed) = y
    BY DEF FeedInv, FeedLeadsToTip
<1>2. 1 \in 1..Len(feed) /\ At(0) = Top /\ 1 - 1 = 0
    BY <1>1 DEF At
<1>3. /\ Top \in Seq(Nat) /\ Len(Top) \in Nat /\ y \in Block /\ Len(y) \in Nat
      /\ Len(Start) \in Nat /\ MaxReorgDepth \in Nat
      /\ last # <<>> => Top = last
      /\ last = <<>> => Len(Top) = Len(Start) - 1
    BY <1>2, FeedTypes DEF FeedInv
<1>4. Follows(Top, y) /\ highest \in Int
    BY <1>2 DEF FeedInv, FeedLeadsToTip, ForksAreShallow
<1>5. y \in Seq(Nat) /\ y # <<>> /\ Len(y) > 0
    BY <1>3, BlockFacts
<1>6. Len(Start) <= Len(y) /\ Len(y) <= Len(Top) + 1
    BY <1>3, <1>4 DEF Follows
<1>7. HistoryDepth \in Nat \ {0}
    BY IndexerAssumption
<1>8. \A n \in 0..(Len(y) - 1) : n <= Len(Top) /\ SubSeq(Top, 1, n) = SubSeq(y, 1, n)
    BY <1>3, <1>4, SharedBelow
<1>9. /\ Det!DetectorInv /\ Det!Increasing(order)
      /\ \A h \in DOMAIN history : history[h] = SubSeq(Top, 1, h)
      /\ last = <<>> => DOMAIN history = {}
    BY DEF HistoryInv
<1>10. last # <<>> => \E lo \in Len(Start)..Len(last) :
             /\ DOMAIN history = lo..Len(last)
             /\ lo = Len(Start) \/ lo <= highest - HistoryDepth + 1
    BY DEF HistoryInv
<1>11. last # <<>> /\ Len(y) <= Len(last) => Len(y) \in DOMAIN history
    BY ForkIsRecorded
<1>12. \A h \in DOMAIN history : last # <<>> /\ h \in Nat /\ h >= Len(Start) /\ h <= Len(Top)
    BY <1>3, <1>9, <1>10
<1>13. last # <<>> => Len(Top) \in DOMAIN history
    BY <1>3, <1>10
<1>14. SubSeq(y, 1, Len(y)) = y
    BY <1>5, SubSeqFull
<1>15. Det!ProcessBlock(y) /\ last' = y /\ Top' = y
    BY <1>1
<1>n. Det!Height(y) = Len(y) /\ Det!Parent(y) = Parent(y)
    BY DetectorNames
<1>16. Parent(y) = SubSeq(y, 1, Len(y) - 1)
    BY DEF Parent
<1>17. Det!ParentRecorded(y) => Det!ParentMatches(y)
  <2> SUFFICES ASSUME Det!ParentRecorded(y) PROVE history[Len(y) - 1] = Parent(y)
      BY <1>n DEF Det!ParentMatches
  <2>1. Len(y) - 1 \in DOMAIN history
      BY <1>n DEF Det!ParentRecorded
  <2>2. Len(y) - 1 \in 0..(Len(y) - 1)
      BY <1>3, <1>5
  <2> QED BY <2>1, <2>2, <1>8, <1>9, <1>16
<1>c. Det!DetectorAssumption /\ Det!BlockAssumption
    BY DetectorConstants
<1> HIDE DEF y
<1>18. CASE Det!Extension(y)
  <2>1. Len(y) \notin DOMAIN history
      BY <1>18, <1>n DEF Det!Extension
  <2>2. Len(y) = Len(Top) + 1
    <3>1. CASE last = <<>>
        BY <3>1, <1>3, <1>6
    <3>2. CASE last # <<>>
        BY <3>2, <2>1, <1>3, <1>6, <1>11
    <3> QED BY <3>1, <3>2
  <2>3. \A h \in DOMAIN history : h < Det!Height(y)
      BY <2>2, <1>3, <1>12, <1>n
  <2>4. /\ Det!DetectorInv' /\ Det!Increasing(order') /\ event'.type = "block"
        /\ Len(y) \in DOMAIN history' /\ history'[Len(y)] = y
        /\ \A h \in DOMAIN history' :
              h # Len(y) => h \in DOMAIN history /\ history'[h] = history[h]
        /\ \A h \in DOMAIN history \ DOMAIN history' :
              /\ Cardinality(DOMAIN history) = HistoryDepth
              /\ \A g \in DOMAIN history : h <= g
    <3>1. /\ Det!DetectorInv' /\ Det!Increasing(order') /\ event'.type = "block"
          /\ Det!Height(y) \in DOMAIN history' /\ history'[Det!Height(y)] = y
          /\ \A h \in DOMAIN history' :
                h # Det!Height(y) => h \in DOMAIN history /\ history'[h] = history[h]
          /\ \A h \in DOMAIN history \ DOMAIN history' :
                /\ Det!Cardinality(DOMAIN history) = HistoryDepth
                /\ \A g \in DOMAIN history : h <= g
        BY <2>3, <1>3, <1>9, <1>18, <1>c, Det!ExtensionFacts
    <3> QED BY <3>1, <1>n, CardinalityNames
  <2>5. \A h \in DOMAIN history' : history'[h] = SubSeq(y, 1, h)
    <3> SUFFICES ASSUME NEW h \in DOMAIN history' PROVE history'[h] = SubSeq(y, 1, h)
        OBVIOUS
    <3>1. CASE h = Len(y)
        BY <3>1, <2>4, <1>14
    <3>2. CASE h # Len(y)
      <4>1. h \in DOMAIN history /\ history'[h] = SubSeq(Top, 1, h)
          BY <3>2, <2>4, <1>9
      <4>2. h \in 0..(Len(y) - 1)
          BY <4>1, <2>2, <1>3, <1>12
      <4> QED BY <4>1, <4>2, <1>8
    <3> QED BY <3>1, <3>2
  <2>6. ASSUME HighestFollows(y)
        PROVE  \E lo \in Len(Start)..Len(y) :
                  /\ DOMAIN history' = lo..Len(y)
                  /\ lo = Len(Start) \/ lo <= highest' - HistoryDepth + 1
    <3>1. CASE last = <<>>
      <4>1. DOMAIN history' = {Len(y)}
          BY <3>1, <2>4, <1>9
      <4>2. Len(y) = Len(Start) /\ {Len(y)} = Len(y)..Len(y)
          BY <3>1, <2>2, <1>3
      <4> QED BY <4>1, <4>2, <1>3
    <3>2. CASE last # <<>>
      <4>0. Top = last /\ Len(last) \in Nat /\ Len(y) = Len(last) + 1
          BY <3>2, <2>2, <1>3
      <4>1. PICK lo \in Len(Start)..Len(last) :
               /\ DOMAIN history = lo..Len(last)
               /\ lo = Len(Start) \/ lo <= highest - HistoryDepth + 1
          BY <3>2, <1>10
      <4>2. highest <= highest' /\ Len(y) <= highest' /\ highest' \in Int
          BY <2>6, <1>3, <1>4 DEF HighestFollows
      <4>3. CASE DOMAIN history \subseteq DOMAIN history'
        <5>1. DOMAIN history' = lo..Len(y)
          <6>1. \A h : h \in DOMAIN history' <=> h = Len(y) \/ h \in lo..Len(last)
              BY <4>1, <4>3, <2>4
          <6>2. \A h : (h = Len(y) \/ h \in lo..Len(last)) <=> h \in lo..Len(y)
              BY <4>0, <4>1, <1>3
          <6> QED BY <6>1, <6>2
        <5>2. lo = Len(Start) \/ lo <= highest' - HistoryDepth + 1
          <6>1. lo \in Int /\ HistoryDepth \in Int
              BY <4>0, <4>1, <1>3, <1>7
          <6>2. \A H, K, d, n \in Int : H <= K /\ n <= H - d + 1 => n <= K - d + 1
              OBVIOUS
          <6>3. highest \in Int /\ highest' \in Int /\ highest <= highest'
              BY <4>2, <1>4
          <6> QED BY <6>1, <6>2, <6>3, <4>1
        <5>3. lo \in Len(Start)..Len(y)
            BY <4>0, <4>1, <1>3
        <5> QED BY <5>1, <5>2, <5>3
      <4>4. CASE ~(DOMAIN history \subseteq DOMAIN history')
        <5>1. PICK g \in DOMAIN history : g \notin DOMAIN history'
            BY <4>4
        <5>2. \A h \in DOMAIN history \ DOMAIN history' : h = lo
          <6> SUFFICES ASSUME NEW h \in DOMAIN history \ DOMAIN history' PROVE h = lo
              OBVIOUS
          <6>1. lo \in DOMAIN history
              BY <4>0, <4>1, <1>3
          <6>2. h <= lo
              BY <6>1, <2>4
          <6>3. h \in lo..Len(last)
              BY <4>1
          <6> QED BY <6>2, <6>3, <4>0, <4>1, <1>3
        <5>3. Cardinality(lo..Len(last)) = HistoryDepth
            BY <5>1, <4>1, <2>4
        <5>4. lo \in Int /\ lo <= Len(last)
            BY <4>0, <4>1, <1>3
        <5>5. Len(last) - lo + 1 = HistoryDepth
          <6>1. Len(last) \in Int /\ ~(lo > Len(last))
              BY <4>0, <5>4
          <6> QED BY <6>1, <5>3, <5>4, FS_Interval
        <5>6. DOMAIN history' = (lo + 1)..Len(y)
          <6>1. \A h : h \in DOMAIN history' <=>
                          h = Len(y) \/ (h \in lo..Len(last) /\ h # lo)
            <7>1. lo \notin DOMAIN history'
                BY <5>1, <5>2
            <7>2. lo # Len(y)
                BY <4>0, <5>4
            <7> QED BY <7>1, <7>2, <5>2, <4>1, <2>4
          <6>2. \A h : (h = Len(y) \/ (h \in lo..Len(last) /\ h # lo)) <=> h \in (lo + 1)..Len(y)
              BY <4>0, <5>4
          <6> QED BY <6>1, <6>2
        <5>7. lo + 1 \in Len(Start)..Len(y)
            BY <4>0, <4>1, <5>4, <1>3
        <5>8. lo + 1 <= highest' - HistoryDepth + 1
          <6>1. \A K, d, n, x \in Int : x + 1 <= K /\ x - n + 1 = d => n + 1 <= K - d + 1
              OBVIOUS
          <6>2. highest' \in Int /\ HistoryDepth \in Int /\ Len(last) \in Int /\ Len(last) + 1 <= highest'
              BY <4>0, <4>2, <1>7
          <6> QED BY <6>1, <6>2, <5>4, <5>5
        <5> QED BY <5>6, <5>7, <5>8
      <4> QED BY <4>3, <4>4
    <3> QED BY <3>1, <3>2
  <2>7. HighestFollows(y) => HistoryInv'
      BY <2>4, <2>5, <2>6, <1>5, <1>15 DEF HistoryInv
  <2> QED BY <2>2, <2>4, <2>7, <1>1
<1>19. CASE Det!HashMutation(y)
  <2>1. Len(y) \in DOMAIN history
      BY <1>19, <1>n DEF Det!HashMutation
  <2>2. last # <<>> /\ Top = last /\ Len(y) <= Len(last) /\ Len(last) \in Nat
      BY <2>1, <1>3, <1>12
  <2>3. /\ Det!DetectorInv' /\ Det!Increasing(order') /\ event'.type = "reorg"
        /\ Len(y) \in DOMAIN history' /\ history'[Len(y)] = y
        /\ DOMAIN history' = {h \in DOMAIN history : h <= Len(y)}
        /\ \A h \in DOMAIN history' : h # Len(y) => history'[h] = history[h]
        /\ event'.invalidated = {history[h] : h \in {g \in DOMAIN history : g >= Len(y)}}
    <3>1. /\ Det!DetectorInv' /\ Det!Increasing(order') /\ event'.type = "reorg"
          /\ Det!Height(y) \in DOMAIN history' /\ history'[Det!Height(y)] = y
          /\ DOMAIN history' = {h \in DOMAIN history : h <= Det!Height(y)}
          /\ \A h \in DOMAIN history' : h # Det!Height(y) => history'[h] = history[h]
          /\ event'.invalidated
                = {history[h] : h \in {g \in DOMAIN history : g >= Det!Height(y)}}
        BY <1>3, <1>9, <1>17, <1>19, <1>c, Det!HashMutationFacts
    <3> QED BY <3>1, <1>n
  <2>4. PICK lo \in Len(Start)..Len(last) :
           /\ DOMAIN history = lo..Len(last)
           /\ lo = Len(Start) \/ lo <= highest - HistoryDepth + 1
      BY <2>2, <1>10
  <2>5. \A h \in DOMAIN history' : history'[h] = SubSeq(y, 1, h)
    <3> SUFFICES ASSUME NEW h \in DOMAIN history' PROVE history'[h] = SubSeq(y, 1, h)
        OBVIOUS
    <3>1. CASE h = Len(y)
        BY <3>1, <2>3, <1>14
    <3>2. CASE h # Len(y)
      <4>1. h \in DOMAIN history /\ h <= Len(y) /\ history'[h] = SubSeq(Top, 1, h)
          BY <3>2, <2>3, <1>9
      <4>2. h \in 0..(Len(y) - 1)
          BY <4>1, <3>2, <1>3, <1>12
      <4> QED BY <4>1, <4>2, <1>8
    <3> QED BY <3>1, <3>2
  <2>6. HighestFollows(y) => highest' = highest
      BY <2>2, <1>3, <1>4 DEF HeadInv, HighestFollows
  <2>7. DOMAIN history' = lo..Len(y) /\ lo \in Len(Start)..Len(y)
      BY <2>1, <2>2, <2>3, <2>4, <1>3
  <2>8. HighestFollows(y) => HistoryInv'
      BY <2>3, <2>4, <2>5, <2>6, <2>7, <1>5, <1>15 DEF HistoryInv
  <2>9. {Height(x) : x \in event'.invalidated} = Len(y)..Len(last)
    <3>1. \A h \in DOMAIN history : Len(history[h]) = h
      <4>1. \A h \in DOMAIN history : Det!Height(history[h]) = h
          BY <1>9 DEF Det!DetectorInv, Det!Consistent
      <4> QED BY <4>1, DetectorNames
    <3>2. {g \in DOMAIN history : g >= Len(y)} = Len(y)..Len(last)
        BY <2>1, <2>2, <2>4, <1>3
    <3>3. \A h \in Len(y)..Len(last) : h \in DOMAIN history
        BY <3>2
    <3>4. event'.invalidated = {history[h] : h \in Len(y)..Len(last)}
        BY <3>2, <2>3
    <3> QED BY <3>1, <3>3, <3>4
  <2> QED BY <2>2, <2>3, <2>8, <2>9, <1>1
<1>20. CASE Det!Redelivery(y)
  <2>1. Len(y) \in DOMAIN history /\ history[Len(y)] = y
      BY <1>20, <1>n DEF Det!Redelivery
  <2>2. y = SubSeq(Top, 1, Len(y)) /\ Len(y) \in 0..Len(Top) /\ Len(y) \in 1..Len(y)
      BY <2>1, <1>3, <1>5, <1>9, <1>12
  <2>3. y[Len(y)] = Top[Len(y)]
      BY <2>2, <1>3, CutFacts
  <2> QED BY <2>2, <2>3, <1>4 DEF Follows
<1>21. CASE Det!ParentMismatch(y)
    BY <1>17, <1>21 DEF Det!ParentMismatch
<1>22. CASE Det!ContinuityBreak(y)
  <2>1. /\ Len(y) \notin DOMAIN history /\ DOMAIN history # {}
        /\ Len(y) - 1 \notin DOMAIN history
      BY <1>22, <1>n DEF Det!ContinuityBreak, Det!ParentRecorded
  <2>2. last # <<>> /\ Top = last
      BY <2>1, <1>3, <1>9
  <2>3. Len(y) = Len(last) + 1
      BY <2>1, <2>2, <1>3, <1>6, <1>11
  <2>4. Len(y) - 1 = Len(Top)
      BY <2>2, <2>3, <1>3
  <2> QED BY <2>1, <2>2, <2>4, <1>13
<1> QED BY <1>15, <1>18, <1>19, <1>20, <1>21, <1>22 DEF Det!ProcessBlock
------------------------------------------------------------------------------
(* The tracker's calls *)

LEMMA TrackerConstants == Trk!TrackerAssumption
<1>1. ASSUME NEW m \in UNION {Logs(b) : b \in Block}
      PROVE  /\ m.chain \in {SourceChain} /\ m.height \in Nat
             /\ m = [id |-> m.id, chain |-> m.chain, height |-> m.height, block |-> m.block]
  <2>0. PICK b \in Block : m \in Logs(b)
      OBVIOUS
  <2>1. PICK id \in LogsIn[b] : m = LogMessage(id, b)
      BY <2>0 DEF Logs
  <2>2. Len(b) \in Nat
      BY BlockFacts
  <2> QED BY <2>1, <2>2 DEF LogMessage
<1>2. [c \in {SourceChain} |-> RequiredConfirmations] \in [{SourceChain} -> Nat]
    BY IndexerAssumption
<1>3. {Height(b) : b \in Block} \subseteq Nat
    BY BlockFacts
<1> QED BY <1>1, <1>2, <1>3 DEF Trk!TrackerAssumption

\* The two names of each of the tracker's operators.
LEMMA TrackerNames ==
    /\ \A m : Tracker!QuarantineMessage(m) <=> Trk!QuarantineMessage(m)
    /\ \A c, h : Tracker!AdvanceHead(c, h) <=> Trk!AdvanceHead(c, h)
    /\ \A c, hs : Tracker!HandleReorg(c, hs) <=> Trk!HandleReorg(c, hs)
    /\ Tracker!Init <=> Trk!Init
    /\ Tracker!TypeOK <=> Trk!TypeOK
<1>1. /\ \A c : Tracker!Configured(c) = Trk!Configured(c)
      /\ \A m, h : Tracker!Depth(m, h) = Trk!Depth(m, h)
      /\ \A m : Tracker!Slot(m) = Trk!Slot(m)
      /\ \A type, entries : Tracker!Event(type, entries) = Trk!Event(type, entries)
      /\ \A q, ids : Tracker!WithoutIds(q, ids) = Trk!WithoutIds(q, ids)
      /\ \A entry : Tracker!Final(entry) = Trk!Final(entry)
      /\ \A c, hs : Tracker!Indexed(c, hs) = Trk!Indexed(c, hs)
      /\ \A c : Tracker!Heights(c) = Trk!Heights(c)
    BY DEF Tracker!Configured, Trk!Configured, Tracker!Depth, Trk!Depth, Tracker!Slot,
           Trk!Slot, Tracker!Event, Trk!Event, Tracker!WithoutIds, Trk!WithoutIds,
           Tracker!Final, Trk!Final, Tracker!Indexed, Trk!Indexed, Tracker!Heights,
           Trk!Heights
<1>2. \A q, ids : Tracker!Deindexed(q, ids) = Trk!Deindexed(q, ids)
    BY <1>1 DEF Tracker!Deindexed, Trk!Deindexed
<1>3. \A q, ids : Tracker!Drop(q, ids) <=> Trk!Drop(q, ids)
    BY <1>1, <1>2 DEF Tracker!Drop, Trk!Drop
<1>4. \A c, h : Tracker!Counted(c, h) = Trk!Counted(c, h)
    BY <1>1 DEF Tracker!Counted, Trk!Counted
<1>5. ASSUME NEW m PROVE Tracker!QuarantineMessage(m) <=> Trk!QuarantineMessage(m)
  <2>1. Tracker!QuarantineAgain(m) <=> Trk!QuarantineAgain(m)
      BY <1>1 DEF Tracker!QuarantineAgain, Trk!QuarantineAgain
  <2>2. Tracker!QuarantineNew(m) <=> Trk!QuarantineNew(m)
      BY <1>1 DEF Tracker!QuarantineNew, Trk!QuarantineNew, Tracker!FinalAtOnce,
                  Trk!FinalAtOnce
  <2> QED BY <2>1, <2>2 DEF Tracker!QuarantineMessage, Trk!QuarantineMessage
<1>6. ASSUME NEW c, NEW h PROVE Tracker!AdvanceHead(c, h) <=> Trk!AdvanceHead(c, h)
  <2>1. Tracker!IgnoreLowerHead(c, h) <=> Trk!IgnoreLowerHead(c, h)
      BY <1>1 DEF Tracker!IgnoreLowerHead, Trk!IgnoreLowerHead
  <2>2. Tracker!RaiseHead(c, h) <=> Trk!RaiseHead(c, h)
      BY <1>1, <1>3, <1>4 DEF Tracker!RaiseHead, Trk!RaiseHead
  <2> QED BY <2>1, <2>2 DEF Tracker!AdvanceHead, Trk!AdvanceHead
<1>7. ASSUME NEW c, NEW hs PROVE Tracker!HandleReorg(c, hs) <=> Trk!HandleReorg(c, hs)
    BY <1>1 DEF Tracker!HandleReorg, Trk!HandleReorg, Tracker!Anchored, Trk!Anchored
<1>8. Tracker!Init <=> Trk!Init
    BY DEF Tracker!Init, Trk!Init
<1>9. Tracker!TypeOK <=> Trk!TypeOK
    BY DEF Tracker!TypeOK, Trk!TypeOK, Tracker!Id, Trk!Id, Tracker!Entry, Trk!Entry
<1> QED BY <1>5, <1>6, <1>7, <1>8, <1>9

LEMMA Counting ==
    ASSUME CountReleases, relayed \in [MessageId -> Nat], NEW id \in MessageId
    PROVE  /\ Trk!Released(id)' = {} => relayed'[id] = relayed[id]
           /\ (\E e : Trk!Released(id)' = {e}) => relayed'[id] = relayed[id] + 1
<1>1. relayed'[id] = relayed[id] + Cardinality(Trk!Released(id)')
    BY DEF CountReleases, Trk!Released
<1> DEFINE R == Trk!Released(id)'
<1> HIDE DEF R
<1>2. relayed[id] \in Nat
    OBVIOUS
<1>3. CASE R = {}
    BY <1>1, <1>2, <1>3, FS_EmptySet DEF R
<1>4. ASSUME NEW e, R = {e} PROVE relayed'[id] = relayed[id] + 1
    BY <1>1, <1>4, FS_Singleton DEF R
<1> QED BY <1>3, <1>4, <1>1, <1>2, FS_EmptySet DEF R

\* One chain, and its configuration stays.
TrackerInv ==
    /\ Trk!IInv
    /\ required = [c \in {SourceChain} |-> RequiredConfirmations]

\* Too deep in the chain to be released, for a head at height h.
Waits(m, h) == m.height > h - RequiredConfirmations + 1

LEMMA TrackerTypes ==
    ASSUME TrackerInv
    PROVE  /\ HeadNow \in Int
           /\ required[SourceChain] = RequiredConfirmations
           /\ \A id \in DOMAIN quarantine :
                 LET m == quarantine[id].message
                 IN  /\ m.chain = SourceChain /\ m.height \in Nat /\ m.id = id
                     /\ m \in UNION {Logs(b) : b \in Block}
<1>1. Trk!TypeOK /\ Trk!KeyedById
    BY DEF TrackerInv, Trk!IInv
<1>2. HeadNow \in Int
    BY <1>1 DEF Trk!TypeOK, HeadNow
<1>3. ASSUME NEW id \in DOMAIN quarantine
      PROVE  LET m == quarantine[id].message
             IN  /\ m.chain = SourceChain /\ m.height \in Nat /\ m.id = id
                 /\ m \in UNION {Logs(b) : b \in Block}
  <2>1. quarantine[id].message \in UNION {Logs(b) : b \in Block}
      BY <1>1 DEF Trk!TypeOK, Trk!Entry
  <2> QED BY <2>1, <1>1, TrackerConstants DEF Trk!TrackerAssumption, Trk!KeyedById
<1> QED BY <1>2, <1>3 DEF TrackerInv

\* A head hands over what no longer waits.
LEMMA HeadStep ==
    ASSUME TrackerInv, relayed \in [MessageId -> Nat],
           NEW h \in {Height(b) : b \in Block},
           Tracker!AdvanceHead(SourceChain, h), CountReleases,
           \A id \in DOMAIN quarantine : Waits(quarantine[id].message, HeadNow)
    PROVE  /\ TrackerInv'
           /\ HeadNow' = IF h > HeadNow THEN h ELSE HeadNow
           /\ DOMAIN quarantine' = {id \in DOMAIN quarantine : Waits(quarantine[id].message, HeadNow')}
           /\ \A id \in DOMAIN quarantine' : quarantine'[id].message = quarantine[id].message
           /\ \A id \in MessageId :
                 relayed'[id] = IF id \in DOMAIN quarantine \ DOMAIN quarantine'
                                THEN relayed[id] + 1 ELSE relayed[id]
<1>1. Trk!IInv /\ required = [c \in {SourceChain} |-> RequiredConfirmations]
    BY DEF TrackerInv
<1>2. HeadNow \in Int /\ required[SourceChain] = RequiredConfirmations
      /\ \A id \in DOMAIN quarantine : /\ quarantine[id].message.chain = SourceChain
                                       /\ quarantine[id].message.height \in Nat
    BY TrackerTypes
<1>3. h \in Nat /\ RequiredConfirmations \in Nat
    BY BlockFacts, IndexerAssumption
<1>4. Trk!AdvanceHead(SourceChain, h)
    BY TrackerNames
<1>5. CASE Trk!IgnoreLowerHead(SourceChain, h)
  <2>1. /\ h < HeadNow /\ emitted' = {} /\ UNCHANGED <<required, heads, quarantine, index>>
      BY <1>5 DEF Trk!IgnoreLowerHead, HeadNow
  <2>2. TrackerInv'
      BY <1>1, <2>1, TrackerConstants, Trk!QuietIInv DEF TrackerInv
  <2>3. \A id \in MessageId : Trk!Released(id)' = {}
      BY <2>1 DEF Trk!Released
  <2>4. \A id \in MessageId : relayed'[id] = relayed[id]
      BY <2>3, Counting
  <2>5. HeadNow' = HeadNow /\ ~(h > HeadNow)
      BY <2>1, <1>2, <1>3 DEF HeadNow
  <2> QED BY <2>1, <2>2, <2>4, <2>5
<1>6. CASE Trk!RaiseHead(SourceChain, h)
  <2>1. /\ heads' = [heads EXCEPT ![SourceChain] = h] /\ required' = required
        /\ h >= heads[SourceChain]
        /\ DOMAIN quarantine' = DOMAIN quarantine \ Trk!Ripe(SourceChain, h)
        /\ \A id \in DOMAIN quarantine' : quarantine'[id].message = quarantine[id].message
        /\ \A id \in Trk!Ripe(SourceChain, h) : \E e : Trk!Released(id)' = {e}
        /\ \A id : id \notin Trk!Ripe(SourceChain, h) => Trk!Released(id)' = {}
      BY <1>1, <1>6, TrackerConstants, Trk!RaiseHeadFacts
  <2>2. Trk!IInv'
      BY <1>1, <1>6, TrackerConstants, Trk!RaiseHeadIInv
  <2>3. HeadNow' = h /\ h >= HeadNow
    <3>1. heads \in [{SourceChain} -> Int]
        BY <1>1 DEF Trk!IInv, Trk!TypeOK
    <3> QED BY <2>1, <3>1 DEF HeadNow
  <2>4. Trk!Ripe(SourceChain, h)
           = {id \in DOMAIN quarantine : ~Waits(quarantine[id].message, HeadNow')}
    <3>1. ASSUME NEW id \in DOMAIN quarantine
          PROVE  Trk!Depth(quarantine[id].message, h) >= required[SourceChain]
                    <=> ~Waits(quarantine[id].message, h)
        BY <1>2, <1>3 DEF Trk!Depth, Waits
    <3> QED BY <3>1, <2>3, <1>2 DEF Trk!Ripe
  <2>5. ASSUME NEW id \in MessageId
        PROVE  relayed'[id] = IF id \in DOMAIN quarantine \ DOMAIN quarantine'
                              THEN relayed[id] + 1 ELSE relayed[id]
    <3>1. CASE id \in Trk!Ripe(SourceChain, h)
      <4>1. relayed'[id] = relayed[id] + 1
          BY <3>1, <2>1, Counting
      <4> QED BY <4>1, <3>1, <2>1, <2>4
    <3>2. CASE id \notin Trk!Ripe(SourceChain, h)
      <4>1. relayed'[id] = relayed[id]
          BY <3>2, <2>1, Counting
      <4> QED BY <4>1, <3>2, <2>1
    <3> QED BY <3>1, <3>2
  <2>6. DOMAIN quarantine' = {id \in DOMAIN quarantine : Waits(quarantine[id].message, HeadNow')}
      BY <2>1, <2>4
  <2>7. HeadNow' = IF h > HeadNow THEN h ELSE HeadNow
      BY <2>3, <1>2, <1>3
  <2> QED BY <1>1, <2>1, <2>2, <2>5, <2>6, <2>7 DEF TrackerInv
<1> QED BY <1>4, <1>5, <1>6 DEF Trk!AdvanceHead

\* A re-org takes out what was pending at the invalidated heights.
LEMMA ReorgStep ==
    ASSUME TrackerInv, relayed \in [MessageId -> Nat],
           NEW hs \in SUBSET {Height(b) : b \in Block},
           Tracker!HandleReorg(SourceChain, hs), CountReleases
    PROVE  /\ TrackerInv' /\ HeadNow' = HeadNow
           /\ DOMAIN quarantine' = {id \in DOMAIN quarantine : quarantine[id].message.height \notin hs}
           /\ \A id \in DOMAIN quarantine' : quarantine'[id] = quarantine[id]
           /\ \A id \in MessageId : relayed'[id] = relayed[id]
<1>1. Trk!IInv /\ required = [c \in {SourceChain} |-> RequiredConfirmations]
    BY DEF TrackerInv
<1>2. \A id \in DOMAIN quarantine : quarantine[id].message.chain = SourceChain
    BY TrackerTypes
<1>3. Trk!HandleReorg(SourceChain, hs)
    BY TrackerNames
<1>4. /\ UNCHANGED <<required, heads>>
      /\ DOMAIN quarantine' = {id \in DOMAIN quarantine :
                                  ~(/\ quarantine[id].message.chain = SourceChain
                                    /\ quarantine[id].message.height \in hs)}
      /\ \A id \in DOMAIN quarantine' : quarantine'[id] = quarantine[id]
      /\ \A id : Trk!Released(id)' = {}
    BY <1>1, <1>3, TrackerConstants, Trk!HandleReorgFacts
<1>5. Trk!IInv'
    BY <1>1, <1>3, TrackerConstants, Trk!HandleReorgIInv
<1>6. \A id \in MessageId : relayed'[id] = relayed[id]
    BY <1>4, Counting
<1> QED BY <1>1, <1>2, <1>4, <1>5, <1>6 DEF TrackerInv, HeadNow

\* A message that is not pending is handed over or waits.
LEMMA ObserveStep ==
    ASSUME TrackerInv, relayed \in [MessageId -> Nat],
           NEW m \in UNION {Logs(b) : b \in Block}, m.id \notin DOMAIN quarantine,
           Tracker!QuarantineMessage(m), CountReleases
    PROVE  /\ TrackerInv' /\ HeadNow' = HeadNow
           /\ \A id \in MessageId : id # m.id => relayed'[id] = relayed[id]
           /\ \/ /\ ~Waits(m, HeadNow)
                 /\ quarantine' = quarantine
                 /\ m.id \in MessageId => relayed'[m.id] = relayed[m.id] + 1
              \/ /\ Waits(m, HeadNow)
                 /\ DOMAIN quarantine' = DOMAIN quarantine \cup {m.id}
                 /\ quarantine'[m.id].message = m
                 /\ \A id \in DOMAIN quarantine : quarantine'[id] = quarantine[id]
                 /\ m.id \in MessageId => relayed'[m.id] = relayed[m.id]
<1>1. Trk!IInv /\ required = [c \in {SourceChain} |-> RequiredConfirmations]
    BY DEF TrackerInv
<1>2. /\ HeadNow \in Int /\ required[SourceChain] = RequiredConfirmations
      /\ RequiredConfirmations \in Nat
    BY TrackerTypes, IndexerAssumption
<1>3. m.chain = SourceChain /\ m.height \in Nat
    BY TrackerConstants DEF Trk!TrackerAssumption
<1>4. Trk!QuarantineNew(m)
    BY TrackerNames DEF Trk!QuarantineMessage, Trk!QuarantineAgain
<1>5. /\ UNCHANGED <<required, heads>>
      /\ \A id : id # m.id => Trk!Released(id)' = {}
      /\ \/ /\ Trk!Depth(m, heads[m.chain]) >= required[m.chain]
            /\ quarantine' = quarantine
            /\ \E e : Trk!Released(m.id)' = {e}
         \/ /\ ~(Trk!Depth(m, heads[m.chain]) >= required[m.chain])
            /\ Trk!Released(m.id)' = {}
            /\ DOMAIN quarantine' = DOMAIN quarantine \cup {m.id}
            /\ quarantine'[m.id].message = m
            /\ \A id \in DOMAIN quarantine : quarantine'[id] = quarantine[id]
    BY <1>1, <1>4, TrackerConstants, Trk!QuarantineNewFacts
<1>6. Trk!IInv'
    BY <1>1, <1>4, TrackerConstants, Trk!QuarantineNewIInv
<1>7. Trk!Depth(m, heads[m.chain]) >= required[m.chain] <=> ~Waits(m, HeadNow)
  <2>1. heads[m.chain] = HeadNow /\ required[m.chain] = RequiredConfirmations
      BY <1>2, <1>3 DEF HeadNow
  <2> QED BY <2>1, <1>2, <1>3 DEF Trk!Depth, Waits
<1>8. \A id \in MessageId : id # m.id => relayed'[id] = relayed[id]
    BY <1>5, Counting
<1>9. TrackerInv' /\ HeadNow' = HeadNow
    BY <1>1, <1>5, <1>6 DEF TrackerInv, HeadNow
<1>10. CASE Waits(m, HeadNow)
  <2>1. Trk!Released(m.id)' = {}
      BY <1>5, <1>7, <1>10
  <2>2. m.id \in MessageId => relayed'[m.id] = relayed[m.id]
      BY <2>1, Counting
  <2> QED BY <1>5, <1>7, <1>8, <1>9, <1>10, <2>2
<1>11. CASE ~Waits(m, HeadNow)
  <2>1. \E e : Trk!Released(m.id)' = {e}
      BY <1>5, <1>7, <1>11
  <2>2. m.id \in MessageId => relayed'[m.id] = relayed[m.id] + 1
      BY <2>1, Counting
  <2> QED BY <1>5, <1>7, <1>8, <1>9, <1>11, <2>2
<1> QED BY <1>10, <1>11
------------------------------------------------------------------------------
(* The quarantine and what was handed over *)

\* A message on its way is in one block of a chain only.
LEMMA OneBlockEach ==
    ASSUME NEW p \in Block, NEW i \in 1..Len(p), NEW j \in 1..Len(p), NEW id,
           id \in LogsIn[SubSeq(p, 1, i)], id \in LogsIn[SubSeq(p, 1, j)]
    PROVE  i = j
<1>1. ASSUME NEW m \in 1..Len(p), NEW n \in 1..Len(p), m < n
      PROVE  LogsIn[SubSeq(p, 1, m)] \cap LogsIn[SubSeq(p, 1, n)] = {}
  <2> DEFINE a == SubSeq(p, 1, m)
             b == SubSeq(p, 1, n)
  <2>1. p \in Seq(Nat) /\ a \in Block /\ b \in Block /\ m \in 0..Len(p) /\ n \in 0..Len(p)
      BY BlockFacts
  <2>2. /\ a \in Seq(Nat) /\ Len(a) = m /\ \A k \in 1..m : a[k] = p[k]
        /\ b \in Seq(Nat) /\ Len(b) = n /\ \A k \in 1..n : b[k] = p[k]
      BY <2>1, CutFacts
  <2> HIDE DEF a, b
  <2>3. a # b /\ IsAncestor(a, b)
      BY <1>1, <2>2, AncestorFacts
  <2> QED BY <2>1, <2>3, IndexerAssumption DEF a, b
<1>2. i \in Int /\ j \in Int
    OBVIOUS
<1> QED BY <1>1, <1>2

\* Up to height n of path p: what is pending waits there, what was handed over
\* has its confirmations there, and no message is missed.
FollowsPath(p, n) ==
    /\ \A id \in DOMAIN quarantine :
          \E k \in Len(Start)..n :
             /\ id \in LogsIn[SubSeq(p, 1, k)]
             /\ quarantine[id].message = LogMessage(id, SubSeq(p, 1, k))
             /\ Waits(quarantine[id].message, HeadNow)
             /\ relayed[id] = 0
    /\ \A id \in MessageId :
          relayed[id] = 1 => \E k \in Len(Start)..n :
                                /\ k <= HeadNow - RequiredConfirmations + 1
                                /\ id \in LogsIn[SubSeq(p, 1, k)]
    /\ \A k \in Len(Start)..n : \A id \in LogsIn[SubSeq(p, 1, k)] :
          \/ LogMessage(id, SubSeq(p, 1, k)) \in logs
          \/ /\ id \in DOMAIN quarantine
             /\ quarantine[id].message = LogMessage(id, SubSeq(p, 1, k))
          \/ relayed[id] = 1

RelayInv ==
    /\ relayed \in [MessageId -> {0, 1}]
    /\ FollowsPath(Top, Len(Top))
    /\ \A m \in logs : /\ last # <<>> /\ m \in Logs(last)
                       /\ m.id \notin DOMAIN quarantine /\ relayed[m.id] = 0

IndexerInv ==
    /\ FeedInv /\ HeadInv /\ HistoryInv /\ TrackerInv /\ RelayInv
    /\ event.type \notin {"refused", "redelivered"}

\* What was handed over stays handed over.
NothingTakenBack == \A id \in MessageId : relayed[id] = 1 => relayed'[id] = 1

LEMMA LogMessageFields ==
    ASSUME NEW id, NEW b
    PROVE  /\ LogMessage(id, b).id = id /\ LogMessage(id, b).height = Len(b)
           /\ LogMessage(id, b).block = b
BY DEF LogMessage

\* On a path of blocks, the block at height k has height k and its messages
\* are known.
LEMMA PathFacts ==
    ASSUME NEW p \in Seq(Nat), p \in Block \/ Len(p) = Len(Start) - 1,
           NEW k \in Len(Start)..Len(p)
    PROVE  /\ p \in Block /\ k \in 1..Len(p) /\ SubSeq(p, 1, k) \in Block
           /\ Len(SubSeq(p, 1, k)) = k
           /\ LogsIn[SubSeq(p, 1, k)] \subseteq MessageId
           /\ \A id : LogMessage(id, SubSeq(p, 1, k)).height = k
<1>1. Start \in Block
    BY IndexerAssumption
<1>2. Len(Start) \in Nat /\ Len(Start) > 0 /\ Len(p) \in Nat
    BY <1>1, BlockFacts
<1>3. p \in Block /\ k \in 1..Len(p) /\ k \in 0..Len(p)
    BY <1>2
<1>4. SubSeq(p, 1, k) \in Block /\ Len(SubSeq(p, 1, k)) = k
    BY <1>3, BlockFacts, CutFacts
<1>5. LogsIn[SubSeq(p, 1, k)] \subseteq MessageId
    BY <1>4, IndexerAssumption
<1> QED BY <1>3, <1>4, <1>5, LogMessageFields

\* The types and the order that the steps below need.
LEMMA InvFacts ==
    ASSUME IndexerInv
    PROVE  /\ Top \in Seq(Nat) /\ Len(Top) \in Nat /\ (Top \in Block \/ Len(Top) = Len(Start) - 1)
           /\ last # <<>> => Top = last /\ last \in Block
           /\ last = <<>> => Len(Top) = Len(Start) - 1
           /\ Len(Start) \in Nat \ {0} /\ highest \in Int /\ HeadNow \in Int
           /\ HeadNow <= highest + HeadLead
           /\ RequiredConfirmations \in Nat \ {0} /\ MaxReorgDepth \in Nat /\ HeadLead \in Nat
           /\ MaxReorgDepth + HeadLead <= RequiredConfirmations - 1
           /\ relayed \in [MessageId -> Nat]
<1>1. /\ Top \in Seq(Nat) /\ Len(Top) \in Nat
      /\ last # <<>> => Top = last /\ last \in Block
      /\ last = <<>> => Len(Top) = Len(Start) - 1
      /\ Len(Start) \in Nat \ {0}
    BY FeedTypes DEF IndexerInv, FeedInv
<1>2. highest \in Int /\ HeadNow <= highest + HeadLead
    BY DEF IndexerInv, FeedInv, ForksAreShallow, HeadInv
<1>3. HeadNow \in Int /\ relayed \in [MessageId -> Nat]
    BY TrackerTypes DEF IndexerInv, RelayInv
<1>4. /\ RequiredConfirmations \in Nat \ {0} /\ MaxReorgDepth \in Nat /\ HeadLead \in Nat
      /\ MaxReorgDepth + HeadLead <= RequiredConfirmations - 1
    BY IndexerAssumption
<1> QED BY <1>1, <1>2, <1>3, <1>4

\* The block that the indexer takes next.
LEMMA NextBlock ==
    ASSUME IndexerInv, feed # <<>>
    PROVE  /\ Head(feed) \in Block /\ Head(feed) \in Seq(Nat) /\ Len(Head(feed)) \in Nat
           /\ Head(feed) # <<>>
           /\ Follows(Top, Head(feed))
           /\ Len(Head(feed)) <= Len(Top) =>
                 /\ highest <= Len(Top)
                 /\ Len(Top) - (Len(Head(feed)) - 1) <= MaxReorgDepth
           /\ \A k \in Len(Start)..(Len(Head(feed)) - 1) :
                 k <= Len(Top) /\ SubSeq(Top, 1, k) = SubSeq(Head(feed), 1, k)
<1> DEFINE y == feed[1]
<1>1. feed \in Seq(Block) /\ Len(feed) \in Nat /\ Len(feed) > 0 /\ Head(feed) = y
    BY DEF IndexerInv, FeedInv, FeedLeadsToTip
<1>2. 1 \in 1..Len(feed) /\ At(0) = Top /\ 1 - 1 = 0
    BY <1>1 DEF At
<1>3. y \in Block
    BY <1>2, FeedTypes DEF IndexerInv, FeedInv
<1>4. y \in Seq(Nat) /\ Len(y) \in Nat /\ y # <<>>
    BY <1>3, BlockFacts
<1>5. /\ Follows(Top, y)
      /\ Len(y) <= Len(Top) => /\ highest <= Len(Top)
                               /\ Len(Top) - (Len(y) - 1) <= MaxReorgDepth
    BY <1>2 DEF IndexerInv, FeedInv, FeedLeadsToTip, ForksAreShallow
<1>6. Top \in Seq(Nat) /\ Len(Start) \in Nat
    BY InvFacts
<1> HIDE DEF y
<1>7. ASSUME NEW k \in Len(Start)..(Len(y) - 1)
      PROVE  k <= Len(Top) /\ SubSeq(Top, 1, k) = SubSeq(y, 1, k)
  <2>1. k \in 0..(Len(y) - 1)
      BY <1>4, <1>6
  <2> QED BY <2>1, <1>3, <1>5, <1>6, SharedBelow
<1> QED BY <1>1, <1>3, <1>4, <1>5, <1>7

\* A head that the tracker learns of on the path of what it knows: what no
\* longer waits is handed over.
LEMMA HeadOnPath ==
    ASSUME TrackerInv, relayed \in [MessageId -> {0, 1}], logs \subseteq logs',
           NEW h \in {Height(b) : b \in Block},
           Tracker!AdvanceHead(SourceChain, h), CountReleases,
           NEW p \in Seq(Nat), p \in Block \/ Len(p) = Len(Start) - 1,
           NEW n \in Int, n <= Len(p), FollowsPath(p, n)
    PROVE  /\ TrackerInv' /\ HeadNow' \in {HeadNow, h}
           /\ relayed' \in [MessageId -> {0, 1}] /\ NothingTakenBack
           /\ FollowsPath(p, n)'
           /\ DOMAIN quarantine' \subseteq DOMAIN quarantine
           /\ \A id \in MessageId \ DOMAIN quarantine : relayed'[id] = relayed[id]
<1>1. /\ HeadNow \in Int /\ RequiredConfirmations \in Nat \ {0} /\ h \in Int
      /\ Len(Start) \in Int /\ relayed \in [MessageId -> Nat]
  <2>1. HeadNow \in Int
      BY TrackerTypes
  <2>2. h \in Int /\ Len(Start) \in Int
      BY BlockFacts, IndexerAssumption
  <2> QED BY <2>1, <2>2, IndexerAssumption
<1>5. \A k \in Len(Start)..n : /\ LogsIn[SubSeq(p, 1, k)] \subseteq MessageId
                               /\ \A id : LogMessage(id, SubSeq(p, 1, k)).height = k
  <2> SUFFICES ASSUME NEW k \in Len(Start)..n
               PROVE  /\ LogsIn[SubSeq(p, 1, k)] \subseteq MessageId
                      /\ \A id : LogMessage(id, SubSeq(p, 1, k)).height = k
      OBVIOUS
  <2>1. k \in Len(Start)..Len(p)
      BY <1>1
  <2> QED BY <2>1, PathFacts
<1>6. /\ TrackerInv' /\ HeadNow' = (IF h > HeadNow THEN h ELSE HeadNow)
      /\ DOMAIN quarantine' = {id \in DOMAIN quarantine : Waits(quarantine[id].message, HeadNow')}
      /\ \A id \in DOMAIN quarantine' : quarantine'[id].message = quarantine[id].message
      /\ \A id \in MessageId :
            relayed'[id] = IF id \in DOMAIN quarantine \ DOMAIN quarantine'
                           THEN relayed[id] + 1 ELSE relayed[id]
  <2>1. \A id \in DOMAIN quarantine : Waits(quarantine[id].message, HeadNow)
      BY DEF FollowsPath
  <2> QED BY <2>1, <1>1, HeadStep
<1>7. \A id \in DOMAIN quarantine : id \in MessageId /\ relayed[id] = 0
    BY <1>5 DEF FollowsPath
<1>8. relayed' \in [MessageId -> {0, 1}]
  <2>1. \A id \in MessageId : relayed'[id] \in {0, 1}
      BY <1>6, <1>7
  <2>2. relayed' = [id \in MessageId |-> relayed'[id]]
      BY DEF CountReleases
  <2> QED BY <2>1, <2>2
<1>9. HeadNow' \in Int /\ HeadNow <= HeadNow' /\ HeadNow' \in {HeadNow, h}
    BY <1>1, <1>6
<1>10. ASSUME NEW id \in DOMAIN quarantine'
       PROVE  \E k \in Len(Start)..n :
                 /\ id \in LogsIn[SubSeq(p, 1, k)]
                 /\ quarantine'[id].message = LogMessage(id, SubSeq(p, 1, k))
                 /\ Waits(quarantine'[id].message, HeadNow')
                 /\ relayed'[id] = 0
  <2>1. id \in DOMAIN quarantine /\ quarantine'[id].message = quarantine[id].message
        /\ Waits(quarantine[id].message, HeadNow') /\ relayed'[id] = 0
      BY <1>6, <1>7
  <2> QED BY <2>1 DEF FollowsPath
<1>11. ASSUME NEW id \in MessageId, relayed'[id] = 1
       PROVE  \E k \in Len(Start)..n : /\ k <= HeadNow' - RequiredConfirmations + 1
                                       /\ id \in LogsIn[SubSeq(p, 1, k)]
  <2>1. CASE relayed[id] = 1
    <3>1. PICK k \in Len(Start)..n : /\ k <= HeadNow - RequiredConfirmations + 1
                                     /\ id \in LogsIn[SubSeq(p, 1, k)]
        BY <2>1 DEF FollowsPath
    <3>2. k \in Int
        BY <1>1
    <3>3. k <= HeadNow' - RequiredConfirmations + 1
      <4>1. \A g, x, r, i \in Int : g <= x /\ i <= g - r + 1 => i <= x - r + 1
          OBVIOUS
      <4>2. HeadNow \in Int /\ HeadNow' \in Int /\ RequiredConfirmations \in Int
          BY <1>1, <1>9
      <4> QED BY <4>1, <4>2, <3>1, <3>2, <1>9
    <3> QED BY <3>1, <3>3
  <2>2. CASE relayed[id] # 1
    <3>1. id \in DOMAIN quarantine /\ ~Waits(quarantine[id].message, HeadNow')
        BY <2>2, <1>6, <1>11
    <3>2. PICK k \in Len(Start)..n :
             /\ id \in LogsIn[SubSeq(p, 1, k)]
             /\ quarantine[id].message = LogMessage(id, SubSeq(p, 1, k))
        BY <3>1 DEF FollowsPath
    <3>3. ~(k > HeadNow' - RequiredConfirmations + 1)
        BY <3>1, <3>2, <1>5 DEF Waits
    <3>4. k <= HeadNow' - RequiredConfirmations + 1
      <4>1. \A x, r, i \in Int : ~(i > x - r + 1) => i <= x - r + 1
          OBVIOUS
      <4>2. k \in Int /\ HeadNow' \in Int /\ RequiredConfirmations \in Int
          BY <1>1, <1>9
      <4> QED BY <4>1, <4>2, <3>3
    <3> QED BY <3>2, <3>4
  <2> QED BY <2>1, <2>2
<1>12. ASSUME NEW k \in Len(Start)..n, NEW id \in LogsIn[SubSeq(p, 1, k)]
       PROVE  \/ LogMessage(id, SubSeq(p, 1, k)) \in logs'
              \/ /\ id \in DOMAIN quarantine'
                 /\ quarantine'[id].message = LogMessage(id, SubSeq(p, 1, k))
              \/ relayed'[id] = 1
  <2>1. id \in MessageId
      BY <1>5
  <2>2. CASE id \in DOMAIN quarantine /\ quarantine[id].message = LogMessage(id, SubSeq(p, 1, k))
    <3>1. id \in DOMAIN quarantine' \/ relayed'[id] = 1
        BY <2>1, <2>2, <1>6, <1>7
    <3> QED BY <2>2, <3>1, <1>6
  <2>3. CASE relayed[id] = 1
      BY <2>1, <2>3, <1>6, <1>7
  <2>4. CASE LogMessage(id, SubSeq(p, 1, k)) \in logs
      BY <2>4
  <2> QED BY <2>2, <2>3, <2>4 DEF FollowsPath
<1>13. NothingTakenBack
    BY <1>6, <1>7 DEF NothingTakenBack
<1> QED BY <1>6, <1>8, <1>9, <1>10, <1>11, <1>12, <1>13 DEF FollowsPath

\* A block above the last one.
LEMMA ExtendPath ==
    ASSUME IndexerInv, feed # <<>>, logs = {},
           Len(Head(feed)) = Len(Top) + 1,
           Tracker!AdvanceHead(SourceChain, Height(Head(feed))), CountReleases,
           NEW y \in Block, y = Head(feed), NEW n, n = Len(y) - 1
    PROVE  /\ TrackerInv' /\ HeadNow' \in {HeadNow, Len(y)}
           /\ relayed' \in [MessageId -> {0, 1}] /\ NothingTakenBack
           /\ FollowsPath(y, n)'
<1>1. Top \in Seq(Nat) /\ Len(Top) \in Nat
    BY InvFacts
<1>2. /\ y \in Seq(Nat) /\ Len(y) \in Nat /\ n = Len(Top) /\ n \in Int /\ n <= Len(y)
      /\ \A k \in Len(Start)..n : SubSeq(Top, 1, k) = SubSeq(y, 1, k)
    BY <1>1, NextBlock
<1>3. TrackerInv /\ relayed \in [MessageId -> {0, 1}] /\ FollowsPath(Top, n)
    BY <1>2 DEF IndexerInv, RelayInv
<1>4. FollowsPath(y, n)
    BY <1>2, <1>3 DEF FollowsPath
<1>5. Len(y) \in {Height(b) : b \in Block} /\ Tracker!AdvanceHead(SourceChain, Len(y))
    BY <1>2
<1>6. logs \subseteq logs'
    OBVIOUS
<1> QED BY <1>2, <1>3, <1>4, <1>5, <1>6, HeadOnPath

\* A block that leaves the chain: what was pending above the fork is taken
\* out, and nothing there has been handed over.
LEMMA LeavePath ==
    ASSUME IndexerInv, feed # <<>>, logs = {}, last # <<>>,
           Len(Head(feed)) <= Len(last),
           Tracker!HandleReorg(SourceChain, Len(Head(feed))..Len(last)), CountReleases,
           NEW y \in Block, y = Head(feed), NEW n, n = Len(y) - 1
    PROVE  /\ TrackerInv' /\ HeadNow' = HeadNow
           /\ relayed' \in [MessageId -> {0, 1}] /\ NothingTakenBack
           /\ FollowsPath(y, n)'
<1>1. /\ Top = last /\ last \in Block /\ Top \in Seq(Nat) /\ Len(Top) \in Nat
      /\ Len(Start) \in Nat \ {0} /\ highest \in Int /\ HeadNow \in Int
      /\ HeadNow <= highest + HeadLead
      /\ RequiredConfirmations \in Nat \ {0} /\ MaxReorgDepth \in Nat /\ HeadLead \in Nat
      /\ MaxReorgDepth + HeadLead <= RequiredConfirmations - 1
      /\ relayed \in [MessageId -> Nat]
    BY InvFacts
<1>2. /\ y \in Seq(Nat) /\ Len(y) \in Nat /\ n \in Int
      /\ highest <= Len(Top) /\ Len(Top) - n <= MaxReorgDepth
      /\ \A k \in Len(Start)..n : k <= Len(Top) /\ SubSeq(Top, 1, k) = SubSeq(y, 1, k)
    BY <1>1, NextBlock
<1> DEFINE hs == Len(y)..Len(Top)
<1>3. TrackerInv /\ relayed \in [MessageId -> {0, 1}] /\ FollowsPath(Top, Len(Top))
    BY DEF IndexerInv, RelayInv
<1>4. hs \in SUBSET {Height(b) : b \in Block}
  <2> SUFFICES ASSUME NEW h \in hs PROVE h \in {Height(b) : b \in Block}
      OBVIOUS
  <2>1. h \in 1..Len(Top) /\ h \in 0..Len(Top)
    <3>1. Len(y) > 0
        BY BlockFacts
    <3> QED BY <3>1, <1>1, <1>2
  <2>2. SubSeq(Top, 1, h) \in Block /\ Len(SubSeq(Top, 1, h)) = h
      BY <2>1, <1>1, BlockFacts, CutFacts
  <2> QED BY <2>2
<1>5. /\ TrackerInv' /\ HeadNow' = HeadNow
      /\ DOMAIN quarantine' = {id \in DOMAIN quarantine : quarantine[id].message.height \notin hs}
      /\ \A id \in DOMAIN quarantine' : quarantine'[id] = quarantine[id]
      /\ \A id \in MessageId : relayed'[id] = relayed[id]
  <2>1. Tracker!HandleReorg(SourceChain, hs)
      BY <1>1
  <2> HIDE DEF hs
  <2> QED BY <2>1, <1>1, <1>3, <1>4, ReorgStep
<1>6. relayed' = relayed
  <2>1. relayed' = [id \in MessageId |-> relayed'[id]]
      BY DEF CountReleases
  <2> QED BY <2>1, <1>3, <1>5
<1>7. \A k \in Len(Start)..Len(Top) :
         \A id : LogMessage(id, SubSeq(Top, 1, k)).height = k
    BY <1>1, PathFacts
<1>8. Len(y) <= Len(Top) /\ Len(Start) \in Int /\ n = Len(y) - 1
    BY <1>1
<1>9. ASSUME NEW id \in DOMAIN quarantine'
      PROVE  \E k \in Len(Start)..n :
                /\ id \in LogsIn[SubSeq(y, 1, k)]
                /\ quarantine'[id].message = LogMessage(id, SubSeq(y, 1, k))
                /\ Waits(quarantine'[id].message, HeadNow')
                /\ relayed'[id] = 0
  <2>1. /\ id \in DOMAIN quarantine /\ quarantine'[id] = quarantine[id]
        /\ quarantine[id].message.height \notin hs
      BY <1>5
  <2>2. PICK k \in Len(Start)..Len(Top) :
           /\ id \in LogsIn[SubSeq(Top, 1, k)]
           /\ quarantine[id].message = LogMessage(id, SubSeq(Top, 1, k))
           /\ Waits(quarantine[id].message, HeadNow)
           /\ relayed[id] = 0
      BY <2>1, <1>3 DEF FollowsPath
  <2>3. k \in Len(Start)..n
      BY <2>1, <2>2, <1>1, <1>2, <1>7, <1>8
  <2> QED BY <2>1, <2>2, <2>3, <1>2, <1>5, <1>6
<1>10. ASSUME NEW id \in MessageId, relayed'[id] = 1
       PROVE  \E k \in Len(Start)..n : /\ k <= HeadNow' - RequiredConfirmations + 1
                                       /\ id \in LogsIn[SubSeq(y, 1, k)]
  <2>1. PICK k \in Len(Start)..Len(Top) : /\ k <= HeadNow - RequiredConfirmations + 1
                                          /\ id \in LogsIn[SubSeq(Top, 1, k)]
      BY <1>3, <1>6, <1>10 DEF FollowsPath
  <2>2. k <= n
    <3>1. \A g, h, d, t, r, m, i, j \in Int :
             /\ g <= h + d /\ h <= t /\ t - j <= m /\ m + d <= r - 1
             /\ i <= g - r + 1
             => i <= j
        OBVIOUS
    <3>2. /\ Len(Top) \in Int /\ RequiredConfirmations \in Int /\ MaxReorgDepth \in Int
          /\ HeadLead \in Int /\ k \in Int
        BY <1>1
    <3> QED BY <3>1, <3>2, <2>1, <1>1, <1>2
  <2>3. k \in Len(Start)..n
      BY <2>2, <1>1, <1>2
  <2> QED BY <2>1, <2>3, <1>2, <1>5
<1>11. ASSUME NEW k \in Len(Start)..n, NEW id \in LogsIn[SubSeq(y, 1, k)]
       PROVE  \/ LogMessage(id, SubSeq(y, 1, k)) \in logs'
              \/ /\ id \in DOMAIN quarantine'
                 /\ quarantine'[id].message = LogMessage(id, SubSeq(y, 1, k))
              \/ relayed'[id] = 1
  <2>0. /\ k \in Int /\ Len(Start) <= k /\ k <= n /\ k <= Len(Top)
        /\ SubSeq(Top, 1, k) = SubSeq(y, 1, k)
      BY <1>2, <1>8
  <2>1. k \in Len(Start)..Len(Top) /\ SubSeq(Top, 1, k) = SubSeq(y, 1, k) /\ k \notin hs
    <3>1. \A i, j \in Int : i <= j - 1 => ~(j <= i)
        OBVIOUS
    <3>2. ~(Len(y) <= k) /\ Len(Top) \in Int
        BY <3>1, <2>0, <1>1, <1>2, <1>8
    <3> QED BY <3>2, <2>0, <1>2, <1>8
  <2>2. CASE id \in DOMAIN quarantine /\ quarantine[id].message = LogMessage(id, SubSeq(y, 1, k))
    <3>1. quarantine[id].message.height = k
        BY <2>1, <2>2, <1>7
    <3>2. id \in DOMAIN quarantine'
        BY <3>1, <2>1, <2>2, <1>5
    <3> QED BY <3>2, <2>2, <1>5
  <2> QED BY <2>1, <2>2, <1>3, <1>6 DEF FollowsPath
<1>12. NothingTakenBack
    BY <1>6 DEF NothingTakenBack
<1> QED BY <1>3, <1>5, <1>6, <1>9, <1>10, <1>11, <1>12 DEF FollowsPath

\* The logs of the new block join what is to be quarantined.
LEMMA ReadLogs ==
    ASSUME NEW y \in Block, NEW n, n = Len(y) - 1, Len(Start) <= Len(y),
           last' = y, Top' = y, logs' = Logs(y),
           relayed' \in [MessageId -> {0, 1}], FollowsPath(y, n)'
    PROVE  RelayInv'
<1>1. y \in Seq(Nat) /\ Len(y) \in Nat /\ Len(y) > 0 /\ Len(Start) \in Nat /\ Len(Start) > 0
      /\ y # <<>> /\ SubSeq(y, 1, Len(y)) = y
  <2>1. Start \in Block
      BY IndexerAssumption
  <2>2. y \in Seq(Nat) /\ Len(y) \in Nat /\ Len(y) > 0 /\ Len(Start) \in Nat /\ Len(Start) > 0
      BY <2>1, BlockFacts
  <2> QED BY <2>2, SubSeqFull
<1>2. \A k : k \in Len(Start)..Len(y) <=> k \in Len(Start)..n \/ k = Len(y)
    BY <1>1
<1>3. LogsIn[y] \subseteq MessageId
    BY IndexerAssumption
<1>4. ASSUME NEW id \in LogsIn[y], NEW k \in Len(Start)..n, id \in LogsIn[SubSeq(y, 1, k)]
      PROVE  FALSE
  <2>1. k \in 1..Len(y) /\ Len(y) \in 1..Len(y) /\ k # Len(y)
      BY <1>1
  <2> QED BY <2>1, <1>1, <1>4, OneBlockEach
<1>5. FollowsPath(y, n)'
    OBVIOUS
<1>6. /\ \A id \in DOMAIN quarantine' : \E k \in Len(Start)..n : id \in LogsIn[SubSeq(y, 1, k)]
      /\ \A id \in MessageId : relayed'[id] = 1 =>
            \E k \in Len(Start)..n : id \in LogsIn[SubSeq(y, 1, k)]
    BY <1>5 DEF FollowsPath
<1>7. ASSUME NEW m \in logs'
      PROVE  /\ last' # <<>> /\ m \in Logs(last')
             /\ m.id \notin DOMAIN quarantine' /\ relayed'[m.id] = 0
  <2>1. m.id \in LogsIn[y]
      BY LogMessageFields DEF Logs
  <2> QED BY <2>1, <1>1, <1>3, <1>4, <1>6
<1>8. FollowsPath(Top, Len(Top))'
  <2>1. \A id \in LogsIn[y] : LogMessage(id, y) \in logs'
      BY DEF Logs
  <2>2. FollowsPath(y, Len(y))'
    <3>1. \A id \in DOMAIN quarantine' :
             \E k \in Len(Start)..Len(y) :
                /\ id \in LogsIn[SubSeq(y, 1, k)]
                /\ quarantine'[id].message = LogMessage(id, SubSeq(y, 1, k))
                /\ Waits(quarantine'[id].message, HeadNow')
                /\ relayed'[id] = 0
        BY <1>2, <1>5 DEF FollowsPath
    <3>2. \A id \in MessageId :
             relayed'[id] = 1 => \E k \in Len(Start)..Len(y) :
                                    /\ k <= HeadNow' - RequiredConfirmations + 1
                                    /\ id \in LogsIn[SubSeq(y, 1, k)]
        BY <1>2, <1>5 DEF FollowsPath
    <3>3. \A k \in Len(Start)..Len(y) : \A id \in LogsIn[SubSeq(y, 1, k)] :
             \/ LogMessage(id, SubSeq(y, 1, k)) \in logs'
             \/ /\ id \in DOMAIN quarantine'
                /\ quarantine'[id].message = LogMessage(id, SubSeq(y, 1, k))
             \/ relayed'[id] = 1
        BY <1>1, <1>2, <1>5, <2>1 DEF FollowsPath
    <3> QED BY <3>1, <3>2, <3>3 DEF FollowsPath
  <2> QED BY <2>2 DEF FollowsPath
<1> QED BY <1>7, <1>8 DEF RelayInv
------------------------------------------------------------------------------
(* The steps *)

LEMMA IndexBlockStep ==
    ASSUME IndexerInv, IndexBlock
    PROVE  IndexerInv' /\ NothingTakenBack
<1>0. feed # <<>> /\ Head(feed) \in Block
    BY NextBlock DEF IndexBlock
<1> PICK y \in Block : y = Head(feed)
    BY <1>0
<1>1. /\ feed # <<>> /\ logs = {} /\ Detector!ProcessBlock(y) /\ NotifyTracker(y)
      /\ CountReleases /\ feed' = Tail(feed) /\ last' = y /\ logs' = LogsFound(y) /\ tip' = tip
      /\ y = Head(feed)
    BY DEF IndexBlock
<1>2. /\ y \in Block /\ y \in Seq(Nat) /\ Len(y) \in Nat /\ y # <<>> /\ Follows(Top, y)
    BY <1>1, NextBlock
<1>3. Top' = y
    BY <1>1, <1>2 DEF Top
<1>4. FeedInv /\ HeadInv /\ HistoryInv /\ TrackerInv /\ RelayInv
    BY DEF IndexerInv
<1>5. Det!ProcessBlock(y)
    BY <1>1, DetectorNames
<1>h. HighestFollows(y)
    BY <1>1 DEF IndexBlock, HighestFollows
<1>6. /\ HistoryInv'
      /\ \/ /\ event'.type = "block"
            /\ Len(y) = Len(Top) + 1
         \/ /\ event'.type = "reorg"
            /\ last # <<>> /\ Len(y) <= Len(last)
            /\ {Height(x) : x \in event'.invalidated} = Len(y)..Len(last)
    BY <1>1, <1>3, <1>4, <1>5, <1>h, IndexDetector
<1>7. /\ TrackerInv' /\ HeadNow' \in {HeadNow, Len(y)}
      /\ relayed' \in [MessageId -> {0, 1}] /\ NothingTakenBack
      /\ \A n : n = Len(y) - 1 => FollowsPath(y, n)'
  <2>1. CASE /\ event'.type = "block" /\ Len(y) = Len(Top) + 1
    <3>1. Tracker!AdvanceHead(SourceChain, Height(y))
        BY <1>1, <2>1 DEF NotifyTracker
    <3> QED BY <3>1, <1>1, <1>2, <2>1, ExtendPath
  <2>2. CASE /\ event'.type = "reorg" /\ last # <<>> /\ Len(y) <= Len(last)
             /\ {Height(x) : x \in event'.invalidated} = Len(y)..Len(last)
    <3>1. Tracker!HandleReorg(SourceChain, Len(y)..Len(last))
        BY <1>1, <2>2 DEF NotifyTracker, InvalidatedHeights
    <3> QED BY <3>1, <1>1, <1>2, <2>2, LeavePath
  <2> QED BY <1>6, <2>1, <2>2
<1>8. FeedInv'
    BY <1>1, <1>4, <1>h, TakeFeed DEF HighestFollows
<1>9. RelayInv'
  <2>1. Len(Start) <= Len(y)
      BY <1>2 DEF Follows
  <2>2. logs' = Logs(y)
      BY <1>1, <1>6 DEF LogsFound
  <2> QED BY <1>1, <1>2, <1>3, <1>7, <2>1, <2>2, ReadLogs
<1>10. HeadInv'
  <2>1. /\ highest \in Int /\ HeadNow \in Int /\ HeadLead \in Nat
        /\ HeadNow <= highest + HeadLead
      BY InvFacts
  <2>2. highest' \in Int /\ highest <= highest' /\ Len(y) <= highest'
      BY <2>1, <1>2, <1>h DEF HighestFollows
  <2>3. HeadNow' <= highest' + HeadLead
    <3> DEFINE top == highest'
    <3>1. top \in Int /\ highest <= top /\ Len(y) <= top /\ Len(y) \in Int
        BY <2>2, <1>2
    <3> HIDE DEF top
    <3>2. HeadNow <= top + HeadLead
        BY <2>1, <3>1
    <3>3. Len(y) <= top + HeadLead
        BY <2>1, <3>1
    <3> QED BY <3>2, <3>3, <1>7 DEF top
  <2>4. Len(y) <= Len(tip)
    <3>1. At(0)' = y
        BY <1>3 DEF At
    <3>2. Len(feed') \in Nat
        BY <1>8, FeedTypes DEF FeedInv
    <3>3. 0 \in 0..Len(feed')
        BY <3>2
    <3>4. \A i \in 0..Len(feed') : Len(At(i)') <= Len(tip')
        BY <1>8 DEF FeedInv, ForksAreShallow
    <3> QED BY <3>1, <3>3, <3>4, <1>1
  <2>5. HeadNow' <= Len(tip')
      BY <2>4, <1>1, <1>4, <1>7 DEF HeadInv
  <2> QED BY <2>2, <2>3, <2>5, <1>1, <1>2 DEF HeadInv
<1> QED BY <1>6, <1>7, <1>8, <1>9, <1>10 DEF IndexerInv

LEMMA ObserveLogStep ==
    ASSUME IndexerInv, NEW m \in logs, ObserveLog(m)
    PROVE  IndexerInv' /\ NothingTakenBack
<1>1. /\ Tracker!QuarantineMessage(m) /\ CountReleases /\ logs' = logs \ {m}
      /\ UNCHANGED <<tip, feed, last, highest, history, order, event>>
    BY DEF ObserveLog, detectorVars
<1>2. FeedInv /\ HeadInv /\ HistoryInv /\ TrackerInv /\ RelayInv
    BY DEF IndexerInv
<1>3. /\ Top = last /\ last \in Block /\ Top \in Seq(Nat) /\ Len(Top) \in Nat
      /\ Len(Start) \in Nat \ {0} /\ HeadNow \in Int
      /\ RequiredConfirmations \in Nat \ {0}
      /\ relayed \in [MessageId -> Nat]
  <2>1. last # <<>>
      BY <1>2 DEF RelayInv
  <2> QED BY <2>1, InvFacts
<1> DEFINE t == Len(Top)
           b == SubSeq(Top, 1, t)
<1>4. /\ m \in Logs(last) /\ m.id \notin DOMAIN quarantine /\ relayed[m.id] = 0
      /\ relayed \in [MessageId -> {0, 1}] /\ FollowsPath(Top, t)
    BY <1>2 DEF RelayInv
<1>5. b = last
    BY <1>3, SubSeqFull
<1>6. PICK id \in LogsIn[last] : m = LogMessage(id, last)
    BY <1>4 DEF Logs
<1>7. /\ m.id = id /\ m.height = t /\ id \in MessageId /\ id \in LogsIn[b]
      /\ m = LogMessage(id, b) /\ t \in Len(Start)..t
  <2>1. id \in MessageId
      BY <1>3, IndexerAssumption
  <2>2. Len(Start) <= t
      BY <1>2, <1>3, <1>4 DEF FeedInv, FeedLeadsToTip, RelayInv
  <2>3. t \in Len(Start)..t
      BY <2>2, <1>3
  <2>4. m.id = id /\ m.height = Len(last)
      BY <1>6, LogMessageFields
  <2> HIDE DEF b
  <2> QED BY <2>1, <2>3, <2>4, <1>3, <1>5, <1>6
<1>8. /\ TrackerInv' /\ HeadNow' = HeadNow
      /\ \A i \in MessageId : i # m.id => relayed'[i] = relayed[i]
      /\ \/ /\ ~Waits(m, HeadNow)
            /\ quarantine' = quarantine
            /\ m.id \in MessageId => relayed'[m.id] = relayed[m.id] + 1
         \/ /\ Waits(m, HeadNow)
            /\ DOMAIN quarantine' = DOMAIN quarantine \cup {m.id}
            /\ quarantine'[m.id].message = m
            /\ \A i \in DOMAIN quarantine : quarantine'[i] = quarantine[i]
            /\ m.id \in MessageId => relayed'[m.id] = relayed[m.id]
  <2>1. m \in UNION {Logs(x) : x \in Block}
      BY <1>3, <1>4
  <2> QED BY <2>1, <1>1, <1>2, <1>3, <1>4, ObserveStep
<1>9. relayed' \in [MessageId -> {0, 1}]
  <2>1. \A i \in MessageId : relayed'[i] \in {0, 1}
      BY <1>4, <1>7, <1>8
  <2>2. relayed' = [i \in MessageId |-> relayed'[i]]
      BY <1>1 DEF CountReleases
  <2> QED BY <2>1, <2>2
<1>t. Top' = Top
    BY <1>1 DEF Top
<1> HIDE DEF t, b
<1>10. ASSUME NEW i \in DOMAIN quarantine'
       PROVE  \E k \in Len(Start)..t :
                 /\ i \in LogsIn[SubSeq(Top, 1, k)]
                 /\ quarantine'[i].message = LogMessage(i, SubSeq(Top, 1, k))
                 /\ Waits(quarantine'[i].message, HeadNow')
                 /\ relayed'[i] = 0
  <2>1. CASE i \in DOMAIN quarantine
    <3>1. i # m.id /\ quarantine'[i] = quarantine[i]
        BY <2>1, <1>4, <1>8
    <3>2. PICK k \in Len(Start)..t :
             /\ i \in LogsIn[SubSeq(Top, 1, k)]
             /\ quarantine[i].message = LogMessage(i, SubSeq(Top, 1, k))
             /\ Waits(quarantine[i].message, HeadNow)
             /\ relayed[i] = 0
        BY <2>1, <1>4 DEF FollowsPath
    <3>3. i \in MessageId
      <4>1. k \in Len(Start)..Len(Top)
          BY DEF t
      <4> QED BY <4>1, <3>2, <1>3, PathFacts
    <3> QED BY <3>1, <3>2, <3>3, <1>8
  <2>2. CASE i \notin DOMAIN quarantine
    <3>1. /\ i = id /\ Waits(m, HeadNow) /\ quarantine'[i].message = m
          /\ relayed'[i] = 0
        BY <2>2, <1>4, <1>7, <1>8
    <3> QED BY <3>1, <1>7, <1>8 DEF b
  <2> QED BY <2>1, <2>2
<1>11. ASSUME NEW i \in MessageId, relayed'[i] = 1
       PROVE  \E k \in Len(Start)..t : /\ k <= HeadNow' - RequiredConfirmations + 1
                                       /\ i \in LogsIn[SubSeq(Top, 1, k)]
  <2>1. CASE i # m.id
      BY <2>1, <1>4, <1>8, <1>11 DEF FollowsPath
  <2>2. CASE i = m.id
    <3>1. ~(t > HeadNow - RequiredConfirmations + 1)
        BY <2>2, <1>4, <1>7, <1>8, <1>11 DEF Waits
    <3>2. t <= HeadNow' - RequiredConfirmations + 1
        BY <3>1, <1>3, <1>8 DEF t
    <3> QED BY <3>2, <2>2, <1>7 DEF b
  <2> QED BY <2>1, <2>2
<1>12. ASSUME NEW k \in Len(Start)..t, NEW i \in LogsIn[SubSeq(Top, 1, k)]
       PROVE  \/ LogMessage(i, SubSeq(Top, 1, k)) \in logs'
              \/ /\ i \in DOMAIN quarantine'
                 /\ quarantine'[i].message = LogMessage(i, SubSeq(Top, 1, k))
              \/ relayed'[i] = 1
  <2>1. CASE LogMessage(i, SubSeq(Top, 1, k)) = m
    <3>1. i = id
        BY <2>1, <1>7, LogMessageFields
    <3> QED BY <3>1, <2>1, <1>4, <1>7, <1>8
  <2>2. CASE LogMessage(i, SubSeq(Top, 1, k)) # m
    <3>0. k \in Len(Start)..Len(Top)
        BY DEF t
    <3>1. i \in MessageId
        BY <3>0, <1>3, PathFacts
    <3>2. relayed[i] = 1 => relayed'[i] = 1
        BY <3>1, <1>4, <1>8
    <3>3. i \in DOMAIN quarantine => i \in DOMAIN quarantine' /\ quarantine'[i] = quarantine[i]
        BY <1>8
    <3> QED BY <3>2, <3>3, <2>2, <1>1, <1>4 DEF FollowsPath
  <2> QED BY <2>1, <2>2
<1>13. FollowsPath(Top, Len(Top))'
    BY <1>10, <1>11, <1>12, <1>t DEF FollowsPath, t
<1>14. ASSUME NEW x \in logs'
       PROVE  /\ last' # <<>> /\ x \in Logs(last')
              /\ x.id \notin DOMAIN quarantine' /\ relayed'[x.id] = 0
  <2>1. /\ x \in logs /\ x # m /\ last # <<>> /\ x \in Logs(last)
        /\ x.id \notin DOMAIN quarantine /\ relayed[x.id] = 0
      BY <1>1, <1>2 DEF RelayInv
  <2>2. PICK i \in LogsIn[last] : x = LogMessage(i, last)
      BY <2>1 DEF Logs
  <2>3. x.id = i /\ i # id /\ i \in MessageId
      BY <2>1, <2>2, <1>3, <1>6, LogMessageFields, IndexerAssumption
  <2> QED BY <2>1, <2>3, <1>1, <1>7, <1>8
<1>15. RelayInv'
    BY <1>9, <1>13, <1>14 DEF RelayInv
<1>16. \A i : At(i)' = At(i)
    BY <1>1, <1>t DEF At
<1>17. FeedInv'
    BY <1>1, <1>2, <1>8, <1>16, <1>t
       DEF FeedInv, FeedLeadsToTip, ForksAreShallow, DeepBlocksAgree, At
<1>18. HeadInv'
    BY <1>1, <1>2, <1>8 DEF HeadInv
<1>19. HistoryInv'
  <2>1. Det!DetectorInv'
      BY <1>1, <1>2, DetectorConstants, Det!DetectorStutter DEF HistoryInv, Det!vars
  <2>2. Det!Increasing(order)'
      BY <1>1, <1>2 DEF HistoryInv, Det!Increasing
  <2> QED BY <2>1, <2>2, <1>1, <1>2, <1>8, <1>t DEF HistoryInv
<1>20. NothingTakenBack
    BY <1>4, <1>8 DEF NothingTakenBack
<1> QED BY <1>1, <1>8, <1>15, <1>17, <1>18, <1>19, <1>20 DEF IndexerInv

LEMMA MoveTipStep ==
    ASSUME IndexerInv, NEW b \in Block, MoveTip(b)
    PROVE  IndexerInv'
<1>1. UNCHANGED <<logs, last, highest, relayed, history, order, event,
                  required, heads, quarantine, index, emitted>>
    BY DEF MoveTip, detectorVars, trackerVars
<1>2. FeedInv /\ HeadInv /\ HistoryInv /\ TrackerInv /\ RelayInv
    BY DEF IndexerInv
<1>3. FeedInv'
    BY <1>2, MoveTipFeed
<1>4. HeadNow' = HeadNow /\ Top' = Top
    BY <1>1 DEF HeadNow, Top
<1>5. HeadInv'
  <2>1. tip' = b /\ Len(b) > Len(tip) /\ Len(tip) \in Nat /\ Len(b) \in Nat
      BY <1>2, BlockFacts DEF MoveTip, CanReorgTo, FeedInv, FeedLeadsToTip
  <2>2. HeadNow \in Int
      BY InvFacts
  <2> QED BY <2>1, <2>2, <1>1, <1>2, <1>4 DEF HeadInv
<1>6. HistoryInv'
  <2>1. Det!DetectorInv'
      BY <1>1, <1>2, DetectorConstants, Det!DetectorStutter DEF HistoryInv, Det!vars
  <2>2. Det!Increasing(order)'
      BY <1>1, <1>2 DEF HistoryInv, Det!Increasing
  <2> QED BY <2>1, <2>2, <1>1, <1>2, <1>4 DEF HistoryInv
<1>7. TrackerInv'
    BY <1>1, <1>2, TrackerConstants, Trk!QuietIInv DEF TrackerInv
<1>8. RelayInv'
    BY <1>1, <1>2, <1>4 DEF RelayInv, FollowsPath
<1> QED BY <1>1, <1>3, <1>5, <1>6, <1>7, <1>8 DEF IndexerInv

\* A polled head is bounded like those of the blocks.
LEMMA PollHeadStep ==
    ASSUME IndexerInv, NEW h \in PolledHead, PollHead(h)
    PROVE  IndexerInv' /\ NothingTakenBack
<1>1. /\ Tracker!AdvanceHead(SourceChain, h) /\ CountReleases
      /\ UNCHANGED <<tip, feed, logs, last, highest, history, order, event>>
    BY DEF PollHead, detectorVars
<1>2. FeedInv /\ HeadInv /\ HistoryInv /\ TrackerInv /\ RelayInv
    BY DEF IndexerInv
<1>3. /\ Top \in Seq(Nat) /\ Len(Top) \in Nat /\ (Top \in Block \/ Len(Top) = Len(Start) - 1)
      /\ HeadNow \in Int /\ HeadLead \in Nat /\ highest \in Int
    BY InvFacts
<1>4. h \in 1..Len(tip) /\ h <= highest + HeadLead /\ tip \in Block /\ Len(tip) \in Nat
    BY <1>2, BlockFacts DEF PolledHead, FeedInv, FeedLeadsToTip
<1>5. h \in {Height(b) : b \in Block}
  <2>1. SubSeq(tip, 1, h) \in Block /\ Len(SubSeq(tip, 1, h)) = h
      BY <1>4, BlockFacts, CutFacts
  <2> QED BY <2>1
<1>6. Top' = Top /\ \A i : At(i)' = At(i)
    BY <1>1 DEF Top, At
<1>7. PICK p \in Seq(Nat) : p = Top
    BY <1>3
<1>8. /\ TrackerInv' /\ HeadNow' \in {HeadNow, h}
      /\ relayed' \in [MessageId -> {0, 1}] /\ NothingTakenBack
      /\ FollowsPath(p, Len(p))'
      /\ DOMAIN quarantine' \subseteq DOMAIN quarantine
      /\ \A id \in MessageId \ DOMAIN quarantine : relayed'[id] = relayed[id]
  <2>1. relayed \in [MessageId -> {0, 1}] /\ FollowsPath(p, Len(p))
      BY <1>2, <1>7 DEF RelayInv
  <2>2. logs \subseteq logs'
      BY <1>1
  <2>3. Len(p) \in Int /\ Len(p) <= Len(p) /\ (p \in Block \/ Len(p) = Len(Start) - 1)
      BY <1>3, <1>7
  <2> QED BY <2>1, <2>2, <2>3, <1>1, <1>2, <1>5, HeadOnPath
<1>9. FeedInv'
    BY <1>1, <1>2, <1>6
       DEF FeedInv, FeedLeadsToTip, ForksAreShallow, DeepBlocksAgree, At
<1>10. HeadInv'
  <2>1. HeadNow' <= highest + HeadLead /\ HeadNow' <= Len(tip)
      BY <1>2, <1>4, <1>8 DEF HeadInv
  <2> QED BY <2>1, <1>1, <1>2 DEF HeadInv
<1>11. HistoryInv'
  <2>1. Det!DetectorInv'
      BY <1>1, <1>2, DetectorConstants, Det!DetectorStutter DEF HistoryInv, Det!vars
  <2>2. Det!Increasing(order)'
      BY <1>1, <1>2 DEF HistoryInv, Det!Increasing
  <2> QED BY <2>1, <2>2, <1>1, <1>2, <1>6 DEF HistoryInv
<1>12. RelayInv'
  <2>1. FollowsPath(Top, Len(Top))'
      BY <1>6, <1>7, <1>8 DEF FollowsPath
  <2>2. ASSUME NEW m \in logs
        PROVE  /\ last' # <<>> /\ m \in Logs(last')
               /\ m.id \notin DOMAIN quarantine' /\ relayed'[m.id] = 0
    <3>1. /\ last # <<>> /\ m \in Logs(last)
          /\ m.id \notin DOMAIN quarantine /\ relayed[m.id] = 0
        BY <1>2 DEF RelayInv
    <3>2. m.id \in MessageId
      <4>1. m.id \in LogsIn[last] /\ last \in Block
          BY <3>1, LogMessageFields, InvFacts DEF Logs
      <4> QED BY <4>1, IndexerAssumption
    <3> QED BY <3>1, <3>2, <1>1, <1>8
  <2> QED BY <2>1, <2>2, <1>1, <1>8 DEF RelayInv
<1> QED BY <1>1, <1>8, <1>9, <1>10, <1>11, <1>12 DEF IndexerInv

LEMMA IndexerInit == Init => IndexerInv
<1> SUFFICES ASSUME Init PROVE IndexerInv
    OBVIOUS
<1>1. /\ last = <<>> /\ logs = {} /\ relayed = [id \in MessageId |-> 0]
      /\ Detector!Init /\ Tracker!Init
    BY DEF Init
<1>2. FeedInv
    BY InitFeed
<1>3. HeadInv
  <2>1. tip = Start /\ highest = Len(Start) - 1 /\ HeadNow = -1
      BY <1>1 DEF Init, Tracker!Init, HeadNow
  <2>2. Len(Start) \in Nat /\ HeadLead \in Nat
      BY <1>2, FeedTypes, IndexerAssumption DEF FeedInv
  <2> QED BY <2>1, <2>2, <1>1 DEF HeadInv
<1>4. HistoryInv
  <2>1. Det!Init
      BY <1>1, DetectorNames
  <2>2. Det!DetectorInv
      BY <2>1, DetectorConstants, Det!DetectorInit
  <2>3. history = Det!EmptyHistory /\ order = <<>>
      BY <2>1 DEF Det!Init
  <2>4. DOMAIN history = {} /\ Len(order) = 0
      BY <2>3 DEF Det!EmptyHistory
  <2>5. Det!Increasing(order)
      BY <2>4 DEF Det!Increasing
  <2> QED BY <1>1, <2>2, <2>4, <2>5 DEF HistoryInv
<1>5. TrackerInv
  <2>1. Trk!Init
      BY <1>1, TrackerNames
  <2>2. Trk!IInv
      BY <2>1, TrackerConstants, Trk!InitIInv
  <2> QED BY <2>1, <2>2 DEF TrackerInv, Trk!Init
<1>6. RelayInv
  <2>1. DOMAIN quarantine = {}
      BY <1>1 DEF Tracker!Init
  <2>2. Len(Top) = Len(Start) - 1 /\ Len(Start) \in Nat
      BY <1>1, <1>2, FeedTypes DEF FeedInv
  <2>3. \A k \in Len(Start)..Len(Top) : FALSE
      BY <2>2
  <2> QED BY <1>1, <2>1, <2>3 DEF RelayInv, FollowsPath
<1>7. event.type = "none"
    BY <1>1 DEF Detector!Init
<1> QED BY <1>2, <1>3, <1>4, <1>5, <1>6, <1>7 DEF IndexerInv

LEMMA IndexerStutter == IndexerInv /\ UNCHANGED vars => IndexerInv'
<1> SUFFICES ASSUME IndexerInv, UNCHANGED vars PROVE IndexerInv'
    OBVIOUS
<1>1. UNCHANGED <<tip, feed, logs, last, highest, relayed, history, order, event,
                  required, heads, quarantine, index, emitted>>
    BY DEF vars, detectorVars, trackerVars
<1>2. FeedInv /\ HeadInv /\ HistoryInv /\ TrackerInv /\ RelayInv
    BY DEF IndexerInv
<1>3. HeadNow' = HeadNow /\ Top' = Top /\ \A i : At(i)' = At(i)
    BY <1>1 DEF HeadNow, Top, At
<1>4. FeedInv'
    BY <1>1, <1>2, <1>3 DEF FeedInv, FeedLeadsToTip, ForksAreShallow, DeepBlocksAgree, At
<1>5. HeadInv' /\ RelayInv'
    BY <1>1, <1>2, <1>3 DEF HeadInv, RelayInv, FollowsPath
<1>6. HistoryInv'
  <2>1. Det!DetectorInv'
      BY <1>1, <1>2, DetectorConstants, Det!DetectorStutter DEF HistoryInv, Det!vars
  <2>2. Det!Increasing(order)'
      BY <1>1, <1>2 DEF HistoryInv, Det!Increasing
  <2> QED BY <2>1, <2>2, <1>1, <1>2, <1>3 DEF HistoryInv
<1>7. TrackerInv'
    BY <1>1, <1>2, TrackerConstants, Trk!QuietIInv DEF TrackerInv
<1> QED BY <1>1, <1>4, <1>5, <1>6, <1>7 DEF IndexerInv

LEMMA IndexerStep == IndexerInv /\ [Next]_vars => IndexerInv'
<1> SUFFICES ASSUME IndexerInv, [Next]_vars PROVE IndexerInv'
    OBVIOUS
<1>1. ASSUME NEW b \in Block, MoveTip(b) PROVE IndexerInv'
    BY <1>1, MoveTipStep
<1>2. CASE IndexBlock
    BY <1>2, IndexBlockStep
<1>3. ASSUME NEW m \in logs, ObserveLog(m) PROVE IndexerInv'
    BY <1>3, ObserveLogStep
<1>4. ASSUME NEW h \in PolledHead, PollHead(h) PROVE IndexerInv'
    BY <1>4, PollHeadStep
<1>5. CASE UNCHANGED vars
    BY <1>5, IndexerStutter
<1> QED BY <1>1, <1>2, <1>3, <1>4, <1>5 DEF Next

\* IndexerInv is inductive.
THEOREM IndexerInvariant == Spec => []IndexerInv
<1> QED BY IndexerInit, IndexerStep, PTL DEF Spec
------------------------------------------------------------------------------
(* The properties *)

\* The detector's continuity check (reorg-detector.ts:232-250) never refuses
\* what the subscription delivers, nor is any block delivered twice, however
\* the chain forks and however far the indexer lags.
THEOREM IndexerNeverRefused == Spec => []NeverRefused
<1>1. IndexerInv => NeverRefused
    BY DEF IndexerInv, NeverRefused
<1> QED BY <1>1, IndexerInvariant, PTL

\* The state of the indexer, its detector and its tracker.
THEOREM IndexerTypeCorrect == Spec => []TypeOK
<1>1. IndexerInv => TypeOK
  <2> SUFFICES ASSUME IndexerInv PROVE TypeOK
      OBVIOUS
  <2>1. tip \in Block /\ feed \in Seq(Block) /\ last \in Block \cup {<<>>}
      BY DEF IndexerInv, FeedInv, FeedLeadsToTip
  <2>2. relayed \in [MessageId -> Nat] /\ highest \in Nat
      BY InvFacts, BlockFacts DEF IndexerInv, HeadInv
  <2>3. logs \subseteq UNION {Logs(b) : b \in Block}
    <3> SUFFICES ASSUME NEW m \in logs PROVE m \in UNION {Logs(b) : b \in Block}
        OBVIOUS
    <3>1. last # <<>> /\ m \in Logs(last)
        BY DEF IndexerInv, RelayInv
    <3> QED BY <3>1, <2>1
  <2>4. Detector!TypeOK
      BY DetectorNames, DetectorConstants, Det!DetectorTyped DEF IndexerInv, HistoryInv
  <2>5. Tracker!TypeOK
      BY TrackerNames DEF IndexerInv, TrackerInv, Trk!IInv
  <2> QED BY <2>1, <2>2, <2>3, <2>4, <2>5 DEF TypeOK
<1> QED BY <1>1, IndexerInvariant, PTL

\* A block below the last one on its chain.
LEMMA OnChain ==
    ASSUME IndexerInv, NEW k \in Len(Start)..Len(Top)
    PROVE  last # <<>> /\ Top = last /\ IsAncestor(SubSeq(Top, 1, k), last)
<1>1. /\ Top \in Seq(Nat) /\ Len(Top) \in Nat /\ Len(Start) \in Nat \ {0}
      /\ last # <<>> => Top = last
      /\ last = <<>> => Len(Top) = Len(Start) - 1
    BY InvFacts
<1>2. last # <<>>
    BY <1>1
<1>3. k \in 0..Len(Top)
    BY <1>1
<1> DEFINE a == SubSeq(Top, 1, k)
<1>4. a \in Seq(Nat) /\ Len(a) = k /\ \A i \in 1..k : a[i] = Top[i]
    BY <1>1, <1>3, CutFacts
<1> HIDE DEF a
<1>5. IsAncestor(a, Top)
    BY <1>1, <1>3, <1>4, AncestorFacts
<1> QED BY <1>1, <1>2, <1>5 DEF a

\* Through any re-orgs the detector's history is one chain, ending in the last
\* block processed, without a gap.
THEOREM IndexerHistoryIsOneChain == Spec => []HistoryIsOneChain
<1>1. IndexerInv => HistoryIsOneChain
  <2> SUFFICES ASSUME IndexerInv, last # <<>>
               PROVE  /\ \A b \in Detector!Recorded : IsAncestor(b, last)
                      /\ DOMAIN history
                            = (Height(last) - Cardinality(DOMAIN history) + 1)..Height(last)
      BY CardinalityNames DEF HistoryIsOneChain
  <2>1. /\ Top = last /\ last \in Block /\ Len(Start) \in Nat \ {0}
      BY InvFacts
  <2>2. Len(last) \in Nat
      BY <2>1, BlockFacts
  <2>3. \A h \in DOMAIN history : history[h] = SubSeq(Top, 1, h)
      BY DEF IndexerInv, HistoryInv
  <2>4. PICK lo \in Len(Start)..Len(last) : DOMAIN history = lo..Len(last)
      BY DEF IndexerInv, HistoryInv
  <2>5. \A h \in DOMAIN history : IsAncestor(history[h], last)
    <3> SUFFICES ASSUME NEW h \in DOMAIN history PROVE IsAncestor(history[h], last)
        OBVIOUS
    <3>1. h \in Len(Start)..Len(Top)
        BY <2>1, <2>2, <2>4
    <3> QED BY <3>1, <2>3, OnChain
  <2>6. Cardinality(DOMAIN history) = Len(last) - lo + 1
    <3>1. lo \in Int /\ Len(last) \in Int /\ ~(lo > Len(last))
        BY <2>1, <2>2, <2>4
    <3> QED BY <3>1, <2>4, FS_Interval
  <2>7. Len(last) - Cardinality(DOMAIN history) + 1 = lo
      BY <2>1, <2>2, <2>4, <2>6
  <2> QED BY <2>4, <2>5, <2>7 DEF Detector!Recorded
<1> QED BY <1>1, IndexerInvariant, PTL

\* Through any re-orgs the quarantine holds nothing of a stale block, and every
\* message of the indexed chain is pending at its block or was handed over.
THEOREM IndexerQuarantineFollowsChain == Spec => []QuarantineFollowsChain
<1>1. IndexerInv => QuarantineFollowsChain
  <2> SUFFICES ASSUME IndexerInv PROVE QuarantineFollowsChain
      OBVIOUS
  <2>1. FollowsPath(Top, Len(Top)) /\ relayed \in [MessageId -> {0, 1}]
      BY DEF IndexerInv, RelayInv
  <2>2. ASSUME NEW id \in DOMAIN quarantine
        PROVE  IsAncestor(quarantine[id].message.block, last)
    <3>1. PICK k \in Len(Start)..Len(Top) :
             quarantine[id].message = LogMessage(id, SubSeq(Top, 1, k))
        BY <2>1 DEF FollowsPath
    <3>2. quarantine[id].message.block = SubSeq(Top, 1, k)
        BY <3>1 DEF LogMessage
    <3> QED BY <3>2, OnChain
  <2>3. ASSUME last # <<>>, NEW n \in Len(Start)..Len(last),
               NEW m \in Logs(SubSeq(last, 1, n)) \ logs
        PROVE  \/ m.id \in DOMAIN quarantine /\ quarantine[m.id].message = m
               \/ relayed[m.id] > 0
    <3>1. Top = last
        BY <2>3, InvFacts
    <3>2. PICK id \in LogsIn[SubSeq(Top, 1, n)] : m = LogMessage(id, SubSeq(Top, 1, n))
        BY <3>1 DEF Logs
    <3>3. m.id = id
        BY <3>2, LogMessageFields
    <3>4. \/ id \in DOMAIN quarantine /\ quarantine[id].message = m
          \/ relayed[id] = 1
        BY <2>1, <2>3, <3>1, <3>2 DEF FollowsPath
    <3> QED BY <3>3, <3>4
  <2> QED BY <2>2, <2>3 DEF QuarantineFollowsChain
<1> QED BY <1>1, IndexerInvariant, PTL
------------------------------------------------------------------------------
(* The refinement *)

\* What was handed over is final on the chain, of which the indexer may not
\* have seen the last re-org.
RelayedIsFinal ==
    \A id \in MessageId : relayed[id] = 1 => \E b \in Relay!FinalOn(tip) : id \in LogsIn[b]

LEMMA FinalForTheChain == IndexerInv => RelayedIsFinal
<1> SUFFICES ASSUME IndexerInv, NEW id \in MessageId, relayed[id] = 1
             PROVE  \E b \in Relay!FinalOn(tip) : id \in LogsIn[b]
    BY DEF RelayedIsFinal
<1>1. /\ Top \in Seq(Nat) /\ Len(Top) \in Nat /\ Len(Start) \in Nat \ {0}
      /\ highest \in Int /\ HeadNow \in Int /\ HeadNow <= highest + HeadLead
      /\ RequiredConfirmations \in Nat \ {0} /\ MaxReorgDepth \in Nat /\ HeadLead \in Nat
      /\ MaxReorgDepth + HeadLead <= RequiredConfirmations - 1
    BY InvFacts
<1>2. PICK k \in Len(Start)..Len(Top) : /\ k <= HeadNow - RequiredConfirmations + 1
                                        /\ id \in LogsIn[SubSeq(Top, 1, k)]
    BY DEF IndexerInv, RelayInv, FollowsPath
<1>3. /\ tip \in Block /\ Len(tip) \in Nat /\ HeadNow <= Len(tip)
      /\ Agree(Top, tip, highest - MaxReorgDepth)
  <2>1. Len(feed) \in Nat /\ At(Len(feed)) = tip /\ tip \in Block
      BY DEF IndexerInv, FeedInv, FeedLeadsToTip
  <2>2. Len(feed) \in 0..Len(feed)
      BY <2>1
  <2>3. Agree(Top, At(Len(feed)), highest - MaxReorgDepth)
      BY <2>2 DEF IndexerInv, FeedInv, DeepBlocksAgree
  <2>4. HeadNow <= Len(tip)
      BY DEF IndexerInv, HeadInv
  <2> QED BY <2>1, <2>3, <2>4, BlockFacts
<1>4. k \in Nat /\ k <= highest - MaxReorgDepth /\ k <= Len(tip) - RequiredConfirmations + 1
      /\ k <= Len(tip) /\ k >= Len(Start)
    BY <1>1, <1>2, <1>3
<1>5. \A j \in 1..k : j \in 1..(highest - MaxReorgDepth)
    BY <1>1, <1>4
<1>6. \A j \in 1..k : Top[j] = tip[j]
    BY <1>3, <1>5 DEF Agree
<1>7. SubSeq(Top, 1, k) = SubSeq(tip, 1, k)
  <2>1. tip \in Seq(Nat) /\ k \in 0..Len(Top)
      BY <1>1, <1>2, <1>3, <1>4, BlockFacts
  <2> QED BY <2>1, <1>1, <1>4, <1>6, CutEqual
<1>8. SubSeq(tip, 1, k) \in Relay!FinalOn(tip)
  <2>1. k \in Len(Start)..(Len(tip) - RequiredConfirmations + 1)
      BY <1>1, <1>3, <1>4
  <2> QED BY <2>1 DEF Relay!FinalOn, Relay!Height
<1> QED BY <1>2, <1>7, <1>8

\* A step that moves no tip hands over messages that are final, for the first
\* time, or nothing.
LEMMA HandsOver ==
    ASSUME IndexerInv, IndexerInv', RelayedIsFinal', NothingTakenBack, tip' = tip
    PROVE  \E ids \in SUBSET MessageId : Relay!Relay(ids)
<1> DEFINE ids == {id \in MessageId : relayed[id] = 0 /\ relayed'[id] = 1}
<1>1. relayed \in [MessageId -> {0, 1}] /\ relayed' \in [MessageId -> {0, 1}]
    BY DEF IndexerInv, RelayInv
<1>2. relayed' = [id \in MessageId |-> IF id \in ids THEN 1 ELSE relayed[id]]
  <2>1. \A id \in MessageId : relayed'[id] = IF id \in ids THEN 1 ELSE relayed[id]
      BY <1>1 DEF NothingTakenBack
  <2>2. relayed' = [id \in MessageId |-> relayed'[id]]
      BY <1>1
  <2> HIDE DEF ids
  <2> QED BY <2>1, <2>2
<1>3. ASSUME NEW id \in ids
      PROVE  relayed[id] = 0 /\ \E b \in Relay!FinalOn(tip) : id \in LogsIn[b]
  <2>1. \E b \in Relay!FinalOn(tip)' : id \in LogsIn[b]
      BY DEF RelayedIsFinal
  <2>2. Relay!FinalOn(tip)' = Relay!FinalOn(tip)
      BY DEF Relay!FinalOn, Relay!Height
  <2> QED BY <2>1, <2>2
<1> HIDE DEF ids
<1>4. Relay!Relay(ids)
    BY <1>2, <1>3 DEF Relay!Relay
<1>5. ids \in SUBSET MessageId
    BY DEF ids
<1> QED BY <1>4, <1>5

LEMMA RelayStep ==
    ASSUME IndexerInv, IndexerInv', RelayedIsFinal', Next
    PROVE  Relay!Next
<1>1. ASSUME NEW b \in Block, MoveTip(b) PROVE Relay!Next
    BY <1>1 DEF MoveTip, Relay!Next, Relay!ChainMoves
<1>2. CASE IndexBlock
    BY <1>2, IndexBlockStep, HandsOver DEF IndexBlock, Relay!Next
<1>3. ASSUME NEW m \in logs, ObserveLog(m) PROVE Relay!Next
    BY <1>3, ObserveLogStep, HandsOver DEF ObserveLog, Relay!Next
<1>4. ASSUME NEW h \in PolledHead, PollHead(h) PROVE Relay!Next
    BY <1>4, PollHeadStep, HandsOver DEF PollHead, Relay!Next
<1> QED BY <1>1, <1>2, <1>3, <1>4 DEF Next

\* Nothing is handed over twice, and nothing before its block is final on the
\* canonical chain, although the tracker learns of re-orgs and heads late.
THEOREM IndexerRefinesFinalRelay == Spec => ImplementsFinalRelay
<1>1. Init => Relay!Init
    BY DEF Init, Relay!Init
<1>2. IndexerInv /\ IndexerInv' /\ RelayedIsFinal' /\ [Next]_vars => [Relay!Next]_(Relay!vars)
  <2>1. CASE UNCHANGED vars
      BY <2>1 DEF vars, Relay!vars
  <2> QED BY <2>1, RelayStep
<1> QED BY <1>1, <1>2, FinalForTheChain, IndexerInvariant, PTL
        DEF Spec, ImplementsFinalRelay, Relay!Spec
==============================================================================
