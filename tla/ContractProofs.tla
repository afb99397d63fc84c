---------------------------- MODULE ContractProofs ----------------------------
(***************************************************************************)
(* The contracts that keep funds and validators, for all sets of accounts, *)
(* amounts and widths: what a contract holds is the sum of what it owes,   *)
(* whatever the order of the calls.  The last one is the dispute engine,   *)
(* with the monitor that watches it, for all periods, alert fractions and  *)
(* intervals between polls.                                                *)
(*                                                                         *)
(* Sums over finite sets come first.  A sum is a fold, whose recursion is  *)
(* unfolded by the fact that among the subsets of a finite set for which   *)
(* something fails there is a smallest.                                    *)
(***************************************************************************)
EXTENDS DisputeMonitor, ValidatorSlasher, ValidatorSetManager, LiquidityRebalancer,
        MessageEscrow, PackedPool, FiniteSetTheorems, WellFoundedInduction, TLAPS

\* Among the subsets of a finite set there is a smallest with any property.
LEMMA SmallestSubset ==
    ASSUME NEW S, IsFiniteSet(S), NEW B \in SUBSET SUBSET S, B # {}
    PROVE  \E U \in B : \A V \in B : V \subseteq U => V = U
<1> DEFINE R == StrictSubsetOrdering(S)
           F == FiniteSubsetsOf(S)
<1>1. IsWellFoundedOn(R, F)
    BY FS_StrictSubsetOrderingWellFounded
<1>2. B \subseteq F
    BY FS_Subset DEF FiniteSubsetsOf
<1>3. PICK U \in B : \A V \in B : <<V, U>> \notin R
  <2> HIDE DEF R, F
  <2> QED BY <1>1, <1>2, WFMin
<1>4. ASSUME NEW V \in B, V \subseteq U, V # U PROVE FALSE
    BY <1>3, <1>4 DEF StrictSubsetOrdering
<1> QED BY <1>4

\* What the fold in SumFunctionOnSet builds.
Any(U) == CHOOSE x \in U : TRUE

IsSum(f, S, h) ==
    h = [U \in SUBSET S |-> IF U = {} THEN 0 ELSE f[Any(U)] + h[U \ {Any(U)}]]

LEMMA AnyFacts == \A U : U # {} => Any(U) \in U /\ U \ {Any(U)} \subseteq U /\ U \ {Any(U)} # U
BY DEF Any

LEMMA SumIsFold ==
    ASSUME NEW f, NEW S
    PROVE  SumFunctionOnSet(f, S) = (CHOOSE h : IsSum(f, S, h))[S]
BY DEF SumFunctionOnSet, FoldFunctionOnSet, MapThenFoldSet, IsSum, Any

LEMMA SumsAgree ==
    ASSUME NEW f, NEW S, IsFiniteSet(S), NEW T \in SUBSET S,
           NEW g, IsSum(f, S, g), NEW h, IsSum(f, T, h)
    PROVE  \A U \in SUBSET T : g[U] = h[U]
<1> DEFINE B == {U \in SUBSET T : g[U] # h[U]}
<1> SUFFICES ASSUME B # {} PROVE FALSE
    OBVIOUS
<1>1. B \in SUBSET SUBSET S
    OBVIOUS
<1>2. PICK U \in B : \A V \in B : V \subseteq U => V = U
  <2> HIDE DEF B
  <2> QED BY <1>1, SmallestSubset
<1>3. U \in SUBSET T /\ g[U] # h[U] /\ U \in SUBSET S
    OBVIOUS
<1>4. U # {}
    BY <1>3 DEF IsSum
<1> DEFINE V == U \ {Any(U)}
<1>5. V \in SUBSET T /\ V \subseteq U /\ V # U
    BY <1>3, <1>4, AnyFacts
<1>6. g[V] = h[V]
    BY <1>2, <1>5
<1>7. g[U] = f[Any(U)] + g[V] /\ h[U] = f[Any(U)] + h[V]
    BY <1>3, <1>4 DEF IsSum
<1> QED BY <1>3, <1>6, <1>7

LEMMA SumExists ==
    ASSUME NEW f, NEW S, IsFiniteSet(S)
    PROVE  \E h : IsSum(f, S, h)
<1> DEFINE B == {T \in SUBSET S : ~\E h : IsSum(f, T, h)}
<1> SUFFICES ASSUME B # {} PROVE FALSE
    OBVIOUS
<1>1. PICK T \in B : \A V \in B : V \subseteq T => V = T
  <2>1. B \in SUBSET SUBSET S
      OBVIOUS
  <2> HIDE DEF B
  <2> QED BY <2>1, SmallestSubset
<1> DEFINE fold(U) == CHOOSE h : IsSum(f, U, h)
           rest(U) == U \ {Any(U)}
           g == [U \in SUBSET T |->
                    IF U = {} THEN 0 ELSE f[Any(U)] + fold(rest(U))[rest(U)]]
<1>2. \A U \in SUBSET T : U # T => IsSum(f, U, fold(U))
  <2> SUFFICES ASSUME NEW U \in SUBSET T, U # T PROVE IsSum(f, U, fold(U))
      OBVIOUS
  <2>1. \E h : IsSum(f, U, h)
      BY <1>1
  <2> QED BY <2>1
<1>3. ASSUME NEW U \in SUBSET T, U # {}
      PROVE  rest(U) \in SUBSET T /\ rest(U) # T /\ g[rest(U)] = fold(rest(U))[rest(U)]
  <2> DEFINE V == rest(U)
  <2>1. V \in SUBSET T /\ V # T
      BY <1>3, AnyFacts
  <2>2. IsSum(f, V, fold(V))
      BY <1>2, <2>1
  <2>3. CASE V = {}
    <3>1. g[V] = 0
        BY <2>1, <2>3
    <3>2. fold(V)[V] = 0
      <4> DEFINE k == fold(V)
      <4> HIDE DEF k
      <4>1. IsSum(f, V, k)
          BY <2>2 DEF k
      <4> HIDE DEF V
      <4>2. k[V] = 0
          BY <4>1, <2>3 DEF IsSum
      <4> QED BY <4>2 DEF k
    <3> QED BY <2>1, <3>1, <3>2
  <2>4. CASE V # {}
    <3> DEFINE W == rest(V)
    <3>1. W \in SUBSET V /\ W # T /\ W \in SUBSET T
        BY <2>1, <2>4, AnyFacts
    <3>2. IsSum(f, W, fold(W))
        BY <1>2, <3>1
    <3>3. IsFiniteSet(V)
        BY <2>1, FS_Subset
    <3>4. fold(V)[W] = fold(W)[W]
      <4> HIDE DEF fold, V, W
      <4> QED BY <2>2, <3>1, <3>2, <3>3, SumsAgree
    <3>5. fold(V)[V] = f[Any(V)] + fold(V)[W]
      <4> DEFINE k == fold(V)
      <4> HIDE DEF k
      <4>1. IsSum(f, V, k)
          BY <2>2 DEF k
      <4> HIDE DEF V
      <4>2. k[V] = f[Any(V)] + k[V \ {Any(V)}]
          BY <4>1, <2>4 DEF IsSum
      <4> QED BY <4>2 DEF k
    <3>6. g[V] = f[Any(V)] + fold(W)[W]
      <4> HIDE DEF fold
      <4> QED BY <2>1, <2>4
    <3> HIDE DEF fold, g
    <3> QED BY <2>1, <3>4, <3>5, <3>6
  <2> QED BY <2>3, <2>4
<1>4. IsSum(f, T, g)
  <2>1. \A U \in SUBSET T : U # {} => g[rest(U)] = fold(rest(U))[rest(U)]
      BY <1>3
  <2>2. \A U \in SUBSET T : g[U] = IF U = {} THEN 0 ELSE f[Any(U)] + fold(rest(U))[rest(U)]
    <3> HIDE DEF fold
    <3> QED OBVIOUS
  <2>3. g = [U \in SUBSET T |-> g[U]]
    <3> HIDE DEF fold
    <3> QED OBVIOUS
  <2> HIDE DEF g, fold
  <2>4. \A U \in SUBSET T : g[U] = IF U = {} THEN 0 ELSE f[Any(U)] + g[rest(U)]
      BY <2>1, <2>2
  <2> QED BY <2>3, <2>4 DEF IsSum
<1> QED BY <1>4

\* A sum is taken apart at some element.
LEMMA SumUnfold ==
    ASSUME NEW f, NEW S, IsFiniteSet(S)
    PROVE  /\ S = {} => SumFunctionOnSet(f, S) = 0
           /\ S # {} => /\ Any(S) \in S
                        /\ SumFunctionOnSet(f, S)
                              = f[Any(S)] + SumFunctionOnSet(f, S \ {Any(S)})
<1> DEFINE g == CHOOSE h : IsSum(f, S, h)
           T == S \ {Any(S)}
           k == CHOOSE h : IsSum(f, T, h)
<1>1. IsSum(f, S, g)
    BY SumExists
<1>2. IsFiniteSet(T) /\ T \in SUBSET S
    BY FS_Subset
<1>3. IsSum(f, T, k)
    BY <1>2, SumExists
<1>4. SumFunctionOnSet(f, S) = g[S] /\ SumFunctionOnSet(f, T) = k[T]
    BY SumIsFold
<1> HIDE DEF g, k
<1>5. g[T] = k[T]
  <2> HIDE DEF T
  <2>1. T \in SUBSET S /\ T \in SUBSET T
      BY <1>2
  <2> QED BY <1>1, <1>3, <2>1, SumsAgree
<1>6. g[S] = IF S = {} THEN 0 ELSE f[Any(S)] + g[T]
    BY <1>1 DEF IsSum
<1> QED BY <1>4, <1>5, <1>6, AnyFacts

\* The facts that proofs use.
LEMMA SumOfNothing == ASSUME NEW f PROVE SumFunctionOnSet(f, {}) = 0
BY SumUnfold, FS_EmptySet

LEMMA SumType ==
    ASSUME NEW S, IsFiniteSet(S), NEW f, \A x \in S : f[x] \in Nat
    PROVE  SumFunctionOnSet(f, S) \in Nat
<1> DEFINE B == {T \in SUBSET S : SumFunctionOnSet(f, T) \notin Nat}
<1> SUFFICES ASSUME B # {} PROVE FALSE
    OBVIOUS
<1>1. PICK T \in B : \A V \in B : V \subseteq T => V = T
  <2>1. B \in SUBSET SUBSET S
      OBVIOUS
  <2> HIDE DEF B
  <2> QED BY <2>1, SmallestSubset
<1>2. T \in SUBSET S /\ IsFiniteSet(T)
    BY FS_Subset
<1>3. CASE T = {}
    BY <1>3, SumOfNothing
<1>4. CASE T # {}
  <2> DEFINE V == T \ {Any(T)}
  <2>1. Any(T) \in T /\ SumFunctionOnSet(f, T) = f[Any(T)] + SumFunctionOnSet(f, V)
      BY <1>2, <1>4, SumUnfold
  <2>2. SumFunctionOnSet(f, V) \in Nat
      BY <1>1, <1>2, <1>4, AnyFacts
  <2>3. f[Any(T)] \in Nat
      BY <2>1, <1>2
  <2> HIDE DEF V
  <2> QED BY <2>1, <2>2, <2>3
<1> QED BY <1>3, <1>4

\* A sum depends on the values only.
LEMMA SumSame ==
    ASSUME NEW S, IsFiniteSet(S), NEW f, NEW g, \A x \in S : f[x] = g[x]
    PROVE  SumFunctionOnSet(f, S) = SumFunctionOnSet(g, S)
<1> DEFINE B == {T \in SUBSET S : SumFunctionOnSet(f, T) # SumFunctionOnSet(g, T)}
<1> SUFFICES ASSUME B # {} PROVE FALSE
    OBVIOUS
<1>1. PICK T \in B : \A V \in B : V \subseteq T => V = T
  <2>1. B \in SUBSET SUBSET S
      OBVIOUS
  <2> HIDE DEF B
  <2> QED BY <2>1, SmallestSubset
<1>2. T \in SUBSET S /\ IsFiniteSet(T)
    BY FS_Subset
<1>3. CASE T = {}
    BY <1>3, SumOfNothing
<1>4. CASE T # {}
  <2> DEFINE V == T \ {Any(T)}
  <2>1. /\ Any(T) \in T /\ SumFunctionOnSet(f, T) = f[Any(T)] + SumFunctionOnSet(f, V)
        /\ SumFunctionOnSet(g, T) = g[Any(T)] + SumFunctionOnSet(g, V)
      BY <1>2, <1>4, SumUnfold
  <2>2. SumFunctionOnSet(f, V) = SumFunctionOnSet(g, V)
      BY <1>1, <1>2, <1>4, AnyFacts
  <2>3. f[Any(T)] = g[Any(T)]
      BY <2>1, <1>2
  <2>4. SumFunctionOnSet(f, T) # SumFunctionOnSet(g, T)
      OBVIOUS
  <2> HIDE DEF V
  <2> QED BY <2>1, <2>2, <2>3, <2>4
<1> QED BY <1>3, <1>4

\* A sum is taken apart at any element, whichever the fold chooses first.
LEMMA SumSplit ==
    ASSUME NEW S, IsFiniteSet(S), NEW f, \A x \in S : f[x] \in Nat, NEW y \in S
    PROVE  /\ SumFunctionOnSet(f, S) = f[y] + SumFunctionOnSet(f, S \ {y})
           /\ SumFunctionOnSet(f, S \ {y}) \in Nat /\ SumFunctionOnSet(f, S) \in Nat
<1> DEFINE B == {T \in SUBSET S :
                    \E x \in T : SumFunctionOnSet(f, T) # f[x] + SumFunctionOnSet(f, T \ {x})}
<1>0. \A T \in SUBSET S : IsFiniteSet(T) /\ SumFunctionOnSet(f, T) \in Nat
    BY FS_Subset, SumType
<1>1. B = {}
  <2> SUFFICES ASSUME B # {} PROVE FALSE
      OBVIOUS
  <2>1. PICK T \in B : \A V \in B : V \subseteq T => V = T
    <3>1. B \in SUBSET SUBSET S
        OBVIOUS
    <3> HIDE DEF B
    <3> QED BY <3>1, SmallestSubset
  <2>2. T \in SUBSET S
      OBVIOUS
  <2>3. PICK x \in T : SumFunctionOnSet(f, T) # f[x] + SumFunctionOnSet(f, T \ {x})
      OBVIOUS
  <2> DEFINE a == Any(T)
             V == T \ {a}
             W == T \ {x}
  <2>4. a \in T /\ SumFunctionOnSet(f, T) = f[a] + SumFunctionOnSet(f, V)
      BY <1>0, <2>2, SumUnfold
  <2>5. a # x
      BY <2>3, <2>4
  <2>6. V \in SUBSET S /\ W \in SUBSET S /\ V \subseteq T /\ V # T /\ W \subseteq T /\ W # T
        /\ x \in V /\ a \in W
      BY <2>2, <2>4, <2>5
  <2>7. V \notin B /\ W \notin B
      BY <2>1, <2>6
  <2>8. /\ SumFunctionOnSet(f, V) = f[x] + SumFunctionOnSet(f, V \ {x})
        /\ SumFunctionOnSet(f, W) = f[a] + SumFunctionOnSet(f, W \ {a})
    <3> HIDE DEF V, W, a
    <3> QED BY <2>6, <2>7
  <2>9. V \ {x} = W \ {a} /\ V \ {x} \in SUBSET S
      BY <2>6
  <2>10. f[x] \in Nat /\ f[a] \in Nat /\ SumFunctionOnSet(f, V \ {x}) \in Nat
      BY <1>0, <2>2, <2>4, <2>9
  <2> DEFINE s == SumFunctionOnSet(f, V \ {x})
             t == SumFunctionOnSet(f, T)
             w == SumFunctionOnSet(f, W)
  <2>11. t = f[a] + (f[x] + s) /\ w = f[a] + s /\ t # f[x] + w
      BY <2>3, <2>4, <2>8, <2>9
  <2>12. s \in Nat /\ f[x] \in Nat /\ f[a] \in Nat
      BY <2>10
  <2> HIDE DEF s, t, w, a
  <2> QED BY <2>11, <2>12
<1>2. S \notin B /\ S \in SUBSET S /\ S \ {y} \in SUBSET S
    BY <1>1
<1> QED BY <1>0, <1>2

\* One value of a sum changes.
LEMMA SumChange ==
    ASSUME NEW S, IsFiniteSet(S), NEW f, NEW g, NEW y \in S,
           \A x \in S : f[x] \in Nat /\ g[x] \in Nat,
           \A x \in S : x # y => g[x] = f[x]
    PROVE  /\ SumFunctionOnSet(g, S) = SumFunctionOnSet(f, S) - f[y] + g[y]
           /\ SumFunctionOnSet(f, S) \in Nat /\ f[y] <= SumFunctionOnSet(f, S)
<1> DEFINE r == SumFunctionOnSet(f, S \ {y})
           s == SumFunctionOnSet(f, S)
           t == SumFunctionOnSet(g, S)
<1>1. s = f[y] + r /\ r \in Nat /\ s \in Nat
    BY SumSplit
<1>2. t = g[y] + SumFunctionOnSet(g, S \ {y})
    BY SumSplit
<1>3. SumFunctionOnSet(g, S \ {y}) = r
  <2>1. IsFiniteSet(S \ {y}) /\ \A x \in S \ {y} : g[x] = f[x]
      BY FS_Subset
  <2> QED BY <2>1, SumSame
<1>4. f[y] \in Nat /\ g[y] \in Nat
    OBVIOUS
<1> HIDE DEF r, s, t
<1>5. t = s - f[y] + g[y] /\ f[y] <= s
    BY <1>1, <1>2, <1>3, <1>4
<1> QED BY <1>1, <1>5 DEF s, t

\* A sum of zeros.
LEMMA SumOfZeros ==
    ASSUME NEW S, IsFiniteSet(S), NEW f, \A x \in S : f[x] = 0
    PROVE  SumFunctionOnSet(f, S) = 0
<1> DEFINE B == {T \in SUBSET S : SumFunctionOnSet(f, T) # 0}
<1> SUFFICES ASSUME B # {} PROVE FALSE
    OBVIOUS
<1>1. PICK T \in B : \A V \in B : V \subseteq T => V = T
  <2>1. B \in SUBSET SUBSET S
      OBVIOUS
  <2> HIDE DEF B
  <2> QED BY <2>1, SmallestSubset
<1>2. T \in SUBSET S /\ IsFiniteSet(T) /\ SumFunctionOnSet(f, T) # 0
    BY FS_Subset
<1>3. T # {}
    BY <1>2, SumOfNothing
<1> DEFINE V == T \ {Any(T)}
<1>4. Any(T) \in T /\ SumFunctionOnSet(f, T) = f[Any(T)] + SumFunctionOnSet(f, V)
    BY <1>2, <1>3, SumUnfold
<1>5. SumFunctionOnSet(f, V) = 0
    BY <1>1, <1>2, <1>4
<1> HIDE DEF V
<1> QED BY <1>2, <1>4, <1>5

\* The same for SumFunction, which the contracts' properties are stated with.
LEMMA TotalIsSum == \A f : SumFunction(f) = SumFunctionOnSet(f, DOMAIN f)
BY DEF SumFunction

LEMMA TotalChange ==
    ASSUME NEW S, IsFiniteSet(S), NEW f \in [S -> Nat], NEW g \in [S -> Nat], NEW y \in S,
           \A x \in S : x # y => g[x] = f[x]
    PROVE  /\ SumFunction(g) = SumFunction(f) - f[y] + g[y]
           /\ SumFunction(f) \in Nat /\ SumFunction(g) \in Nat /\ f[y] <= SumFunction(f)
<1>1. \A x \in S : f[x] \in Nat /\ g[x] \in Nat
    OBVIOUS
<1>2. SumFunction(f) = SumFunctionOnSet(f, S) /\ SumFunction(g) = SumFunctionOnSet(g, S)
    BY TotalIsSum
<1>3. SumFunctionOnSet(g, S) \in Nat
    BY <1>1, SumType
<1> QED BY <1>1, <1>2, <1>3, SumChange

LEMMA TotalOfZeros ==
    ASSUME NEW S, IsFiniteSet(S)
    PROVE  SumFunction([x \in S |-> 0]) = 0
BY TotalIsSum, SumOfZeros

LEMMA TotalType ==
    ASSUME NEW S, IsFiniteSet(S), NEW f \in [S -> Nat]
    PROVE  SumFunction(f) \in Nat
BY TotalIsSum, SumType

\* A sum over one element more.
LEMMA TotalExtend ==
    ASSUME NEW S, IsFiniteSet(S), NEW f \in [S -> Nat], NEW y, y \notin S, 
           NEW g \in [S \cup {y} -> Nat], \A x \in S : g[x] = f[x]
    PROVE  SumFunction(g) = SumFunction(f) + g[y] /\ SumFunction(f) \in Nat
<1> DEFINE T == S \cup {y}
<1>1. IsFiniteSet(T) /\ y \in T /\ T \ {y} = S /\ DOMAIN g = T
    BY FS_AddElement
<1>2. SumFunction(g) = SumFunctionOnSet(g, T)
    BY <1>1, TotalIsSum
<1>3. /\ SumFunctionOnSet(g, T) = g[y] + SumFunctionOnSet(g, S)
      /\ SumFunctionOnSet(g, S) \in Nat /\ g[y] \in Nat
  <2>1. \A x \in T : g[x] \in Nat
      OBVIOUS
  <2> HIDE DEF T
  <2> QED BY <1>1, <2>1, SumSplit
<1>4. SumFunctionOnSet(g, S) = SumFunction(f)
    BY TotalIsSum, SumSame
<1> QED BY <1>2, <1>3, <1>4
------------------------------------------------------------------------------
\* ValidatorSetManager: what waits to be activated is the latest proposal with
\* its own clock.
PendingIsLatest ==
    hasPendingProposal =>
        /\ pendingValidators = latest.validators
        /\ pendingThreshold = latest.threshold
        /\ pendingActiveAt = latest.at + EpochDelay
        /\ ~latest.used

LEMMA PendingIsLatestInit == SetInit => PendingIsLatest
BY DEF SetInit, PendingIsLatest

LEMMA PendingIsLatestNext == PendingIsLatest /\ [SetNext]_setVars => PendingIsLatest'
<1> SUFFICES ASSUME PendingIsLatest, [SetNext]_setVars PROVE PendingIsLatest'
    OBVIOUS
<1> USE DEF PendingIsLatest
<1>1. ASSUME NEW list \in Lists, NEW k \in 0..(MaxSize + 1), ProposeValidatorSet(list, k)
      PROVE  PendingIsLatest'
    BY <1>1 DEF ProposeValidatorSet, ActiveAt
<1>2. CASE ActivateValidatorSet
    BY <1>2 DEF ActivateValidatorSet
<1>3. CASE SetTick
    BY <1>3 DEF SetTick, pending
<1>4. CASE UNCHANGED setVars
    BY <1>4 DEF setVars, pending
<1> QED
    BY <1>1, <1>2, <1>3, <1>4 DEF SetNext

\* The active set and its threshold change only to those of the latest
\* proposal, once, and after its whole delay, for every delay and any lists:
\* activateValidatorSet reads nothing that an earlier proposal has left.
THEOREM RotationsWait == SetSpec => RotationIsTimelocked
<1> DEFINE Rotation == active' # active =>
               /\ active' = <<latest.validators, latest.threshold>>
               /\ clock >= latest.at + EpochDelay
               /\ ~latest.used
<1>1. PendingIsLatest /\ [SetNext]_setVars => [Rotation]_setVars
  <2> SUFFICES ASSUME PendingIsLatest, SetNext PROVE Rotation
      BY DEF Rotation
  <2> USE DEF active
  <2>1. CASE ActivateValidatorSet
      BY <2>1 DEF ActivateValidatorSet, PendingIsLatest
  <2>2. CASE ~ActivateValidatorSet
      BY <2>2 DEF SetNext, ProposeValidatorSet, SetTick
  <2> QED
      BY <2>1, <2>2
<1> QED
    BY <1>1, PendingIsLatestInit, PendingIsLatestNext, PTL DEF SetSpec, RotationIsTimelocked

\* The sets stay lists of members with a threshold that they can meet
\* (proposeValidatorSet's check of the quorum, activateValidatorSet).
THEOREM SetTypes == SetSpec => []SetTypeOK
<1> USE DEF SetTypeOK
<1>1. <<>> \in Lists /\ Len(<<>>) = 0
  <2>1. <<>> \in [1..0 -> Member]
      OBVIOUS
  <2>2. 0 \in 0..MaxSize
      BY SetManagerAssumption
  <2>3. <<>> \in Lists
      BY ONLY <2>1, <2>2, Zenon DEF Lists
  <2> QED BY <2>3
<1>2. SetInit => SetTypeOK
  <2> SUFFICES ASSUME SetInit PROVE SetTypeOK
      OBVIOUS
  <2>1. activeSet = <<>> /\ pendingValidators = <<>> /\ activeThreshold = 0 /\ pendingThreshold = 0
      BY DEF SetInit
  <2>2. activeSet \in Lists /\ pendingValidators \in Lists
      BY <1>1, <2>1
  <2>3. activeThreshold \in 0..Len(activeSet) /\ pendingThreshold \in 0..Len(pendingValidators)
      BY <1>1, <2>1
  <2>4. latest \in [validators: Lists, threshold: Nat, at: Nat, used: BOOLEAN]
      BY <1>1 DEF SetInit
  <2> QED BY <2>2, <2>3, <2>4 DEF SetInit
<1>3. SetTypeOK /\ [SetNext]_setVars => SetTypeOK'
  <2> SUFFICES ASSUME SetTypeOK, [SetNext]_setVars PROVE SetTypeOK'
      OBVIOUS
  <2>1. ASSUME NEW list \in Lists, NEW k \in 0..(MaxSize + 1), ProposeValidatorSet(list, k)
        PROVE  SetTypeOK'
    <3>1. Len(list) \in Nat
      <4>1. PICK n \in 0..MaxSize : list \in [1..n -> Member]
          BY DEF Lists
      <4>2. Len(list) = n /\ n \in Nat
          BY <4>1, SetManagerAssumption
      <4> QED BY <4>2
    <3>2. k \in 0..Len(list) /\ k \in Nat
        BY <2>1, <3>1, SetManagerAssumption DEF ProposeValidatorSet, ValidQuorum
    <3>3. ActiveAt \in Nat
        BY SetManagerAssumption DEF ActiveAt
    <3> QED BY <2>1, <3>2, <3>3 DEF ProposeValidatorSet, active
  <2>2. CASE ActivateValidatorSet
    <3>1. activeSet' \in Lists /\ activeThreshold' \in 0..Len(activeSet')
        BY <2>2 DEF ActivateValidatorSet
    <3>2. pendingValidators' = <<>> /\ pendingThreshold' = 0
        BY <2>2 DEF ActivateValidatorSet
    <3>3. pendingValidators' \in Lists /\ pendingThreshold' \in 0..Len(pendingValidators')
        BY <1>1, <3>2
    <3>4. latest' \in [validators: Lists, threshold: Nat, at: Nat, used: BOOLEAN]
        BY <2>2 DEF ActivateValidatorSet
    <3> QED BY <2>2, <3>1, <3>3, <3>4 DEF ActivateValidatorSet
  <2>3. CASE SetTick
      BY <2>3 DEF SetTick, active, pending
  <2>4. CASE UNCHANGED setVars
      BY <2>4 DEF setVars, active, pending
  <2> QED BY <2>1, <2>2, <2>3, <2>4 DEF SetNext
<1> QED BY <1>2, <1>3, PTL DEF SetSpec
------------------------------------------------------------------------------
\* ValidatorSlasher: the list of active validators and the stakes.

Stakes(vs) == [v \in Validator |-> vs[v].stake]

Listed(list, v) == \E i \in 1..Len(list) : list[i] = v

NamesOnce(list) == \A i, j \in 1..Len(list) : list[i] = list[j] => i = j

SlasherInv == SlasherTypeOK /\ ActiveListIsExact /\ StakesAreBacked

LEMMA StakesFacts ==
    ASSUME SlasherTypeOK
    PROVE  /\ IsFiniteSet(Validator) /\ Stakes(validators) \in [Validator -> Nat]
           /\ \A v \in Validator : Stakes(validators)[v] = validators[v].stake
           /\ StakesAreBacked <=> held = SumFunction(Stakes(validators)) + unowned
BY SlasherAssumption DEF SlasherTypeOK, ValidatorInfo, StakesAreBacked, Stakes

\* Removing a name from a list that has each name once removes that name only.
LEMMA RemoveFacts ==
    ASSUME NEW list \in Seq(Validator), NamesOnce(list), NEW v \in Validator, Listed(list, v),
           NEW r, r = RemoveFromActiveSet(list, v)
    PROVE  /\ r \in Seq(Validator) /\ NamesOnce(r)
           /\ \A w \in Validator : Listed(r, w) <=> Listed(list, w) /\ w # v
<1> DEFINE n == Len(list)
<1>1. PICK i \in 1..n : list[i] = v
    BY DEF Listed
<1>2. n \in Nat \ {0} /\ i \in 1..n
    BY <1>1
<1>3. i = CHOOSE j \in 1..n : list[j] = v /\ \A k \in 1..(j - 1) : list[k] # v
  <2>1. \A j \in 1..n : list[j] = v <=> j = i
      BY <1>1 DEF NamesOnce
  <2>2. \A k \in 1..(i - 1) : list[k] # v
      BY <1>2, <2>1
  <2> QED BY <1>1, <2>1, <2>2
<1>4. r = SubSeq([list EXCEPT ![i] = list[n]], 1, n - 1)
    BY <1>1, <1>3 DEF RemoveFromActiveSet
<1>5. /\ Len(r) = n - 1 /\ r \in Seq(Validator)
      /\ \A j \in 1..(n - 1) : r[j] = IF j = i THEN list[n] ELSE list[j]
  <2> DEFINE l == [list EXCEPT ![i] = list[n]]
  <2>1. l \in Seq(Validator) /\ Len(l) = n /\ \A j \in 1..n : l[j] = IF j = i THEN list[n] ELSE list[j]
      BY <1>2
  <2> HIDE DEF l
  <2>2. SubSeq(l, 1, n - 1) \in Seq(Validator) /\ Len(SubSeq(l, 1, n - 1)) = n - 1
        /\ \A j \in 1..(n - 1) : SubSeq(l, 1, n - 1)[j] = l[j]
      BY <1>2, <2>1
  <2> QED BY <1>4, <2>1, <2>2 DEF l
<1>6. NamesOnce(r)
    BY <1>2, <1>5 DEF NamesOnce
<1>7. ASSUME NEW w \in Validator, Listed(r, w) PROVE Listed(list, w) /\ w # v
  <2>1. PICK j \in 1..(n - 1) : r[j] = w
      BY <1>5, <1>7 DEF Listed
  <2>2. PICK k \in 1..n : list[k] = w /\ k # i
      BY <1>2, <1>5, <2>1
  <2> QED BY <1>1, <2>2 DEF Listed, NamesOnce
<1>8. ASSUME NEW w \in Validator, Listed(list, w), w # v PROVE Listed(r, w)
  <2>1. PICK k \in 1..n : list[k] = w /\ k # i
      BY <1>1, <1>8 DEF Listed
  <2>2. CASE k = n
      BY <1>2, <1>5, <2>1, <2>2 DEF Listed
  <2>3. CASE k # n
      BY <1>2, <1>5, <2>1, <2>3 DEF Listed
  <2> QED BY <2>2, <2>3
<1> QED BY <1>5, <1>6, <1>7, <1>8

LEMMA ActiveListFacts ==
    ActiveListIsExact <=> /\ NamesOnce(activeValidators)
                          /\ \A v \in Validator : validators[v].isActive <=> Listed(activeValidators, v)
BY DEF ActiveListIsExact, NamesOnce, Listed

LEMMA SlasherInvInit == SlasherInit => SlasherInv
<1> SUFFICES ASSUME SlasherInit PROVE SlasherInv
    OBVIOUS
<1>1. SlasherTypeOK /\ ActiveListIsExact
    BY DEF SlasherInit, SlasherTypeOK, ValidatorInfo, ActiveListIsExact
<1>2. StakesAreBacked
  <2>1. Stakes(validators) = [v \in Validator |-> 0]
      BY DEF SlasherInit, Stakes
  <2>2. SumFunction([v \in Validator |-> 0]) = 0
      BY TotalOfZeros, SlasherAssumption
  <2> QED BY <1>1, <2>1, <2>2, StakesFacts DEF SlasherInit
<1> QED BY <1>1, <1>2 DEF SlasherInv

\* How the sum of the stakes moves with the stake of one validator.
LEMMA StakeMoves ==
    ASSUME SlasherTypeOK, SlasherTypeOK', NEW v \in Validator,
           \A w \in Validator : w # v => validators'[w].stake = validators[w].stake
    PROVE  /\ SumFunction(Stakes(validators'))
                 = SumFunction(Stakes(validators)) - validators[v].stake + validators'[v].stake
           /\ SumFunction(Stakes(validators)) \in Nat
           /\ validators[v].stake <= SumFunction(Stakes(validators))
<1>1. /\ IsFiniteSet(Validator)
      /\ Stakes(validators) \in [Validator -> Nat] /\ Stakes(validators') \in [Validator -> Nat]
    BY SlasherAssumption DEF SlasherTypeOK, ValidatorInfo, Stakes
<1>2. \A w \in Validator : /\ Stakes(validators)[w] = validators[w].stake
                           /\ Stakes(validators')[w] = validators'[w].stake
    BY DEF Stakes
<1>3. \A w \in Validator : w # v => Stakes(validators')[w] = Stakes(validators)[w]
    BY <1>2
<1> QED BY <1>1, <1>2, <1>3, TotalChange

LEMMA RegisterInv ==
    ASSUME SlasherInv, NEW v \in Validator, NEW x \in Value, RegisterValidator(v, x)
    PROVE  SlasherInv'
<1> USE DEF SlasherInv
<1>0. x \in Nat /\ ~validators[v].isActive
    BY SlasherAssumption DEF RegisterValidator, CanRegister
<1>1. SlasherTypeOK'
    BY <1>0 DEF RegisterValidator, Receive, SlasherTypeOK, ValidatorInfo
<1>2. ActiveListIsExact'
  <2> DEFINE list == activeValidators
             n == Len(list)
  <2>1. list \in Seq(Validator) /\ NamesOnce(list) /\ ~Listed(list, v)
        /\ \A w \in Validator : validators[w].isActive <=> Listed(list, w)
      BY <1>0, ActiveListFacts DEF SlasherTypeOK
  <2>2. activeValidators' = Append(list, v)
      BY DEF RegisterValidator
  <2>3. /\ Len(activeValidators') = n + 1 /\ n \in Nat
        /\ \A i \in 1..(n + 1) : activeValidators'[i] = IF i = n + 1 THEN v ELSE list[i]
      BY <2>1, <2>2
  <2>4. NamesOnce(activeValidators')
      BY <2>1, <2>3 DEF NamesOnce, Listed
  <2>5. \A w \in Validator : Listed(activeValidators', w) <=> Listed(list, w) \/ w = v
      BY <2>3 DEF Listed
  <2>6. \A w \in Validator : validators'[w].isActive <=> validators[w].isActive \/ w = v
      BY DEF RegisterValidator, SlasherTypeOK, ValidatorInfo
  <2> QED BY <2>1, <2>4, <2>5, <2>6 DEF ActiveListIsExact, NamesOnce, Listed
<1>3. StakesAreBacked'
  <2>1. \A w \in Validator : validators'[w].stake = IF w = v THEN x ELSE validators[w].stake
      BY DEF RegisterValidator, SlasherTypeOK, ValidatorInfo
  <2>2. held' = SumFunction(Stakes(validators')) + unowned'
    <3>1. held' = held + x /\ unowned' = unowned + validators[v].stake
        BY DEF RegisterValidator, Receive
    <3>2. held = SumFunction(Stakes(validators)) + unowned
        BY StakesFacts
    <3>3. held \in Nat /\ unowned \in Nat /\ validators[v].stake \in Nat
        BY DEF SlasherTypeOK, ValidatorInfo
    <3>4. /\ SumFunction(Stakes(validators'))
                = SumFunction(Stakes(validators)) - validators[v].stake + x
          /\ SumFunction(Stakes(validators)) \in Nat
        BY <1>1, <2>1, StakeMoves
    <3> QED BY <1>0, <3>1, <3>2, <3>3, <3>4
  <2> QED BY <2>2 DEF StakesAreBacked, Stakes
<1> QED BY <1>1, <1>2, <1>3

LEMMA DepositInv ==
    ASSUME SlasherInv, NEW v \in Validator, NEW x \in Value, DepositStake(v, x)
    PROVE  SlasherInv'
<1> USE DEF SlasherInv
<1>0. x \in Nat
    BY SlasherAssumption
<1>1. SlasherTypeOK'
  <2> DEFINE s == validators[v].stake + x
  <2>1. s \in Nat
      BY <1>0 DEF SlasherTypeOK, ValidatorInfo
  <2>2. validators' = [validators EXCEPT ![v].stake = s]
      BY DEF DepositStake
  <2> HIDE DEF s
  <2>3. validators' \in [Validator -> ValidatorInfo]
      BY <2>1, <2>2 DEF SlasherTypeOK, ValidatorInfo
  <2> QED BY <1>0, <2>3 DEF DepositStake, Receive, SlasherTypeOK
<1>2. \A w \in Validator :
         /\ validators'[w].stake = IF w = v THEN validators[v].stake + x ELSE validators[w].stake
         /\ validators'[w].isActive = validators[w].isActive
    BY DEF DepositStake, SlasherTypeOK, ValidatorInfo
<1>3. ActiveListIsExact'
    BY <1>2 DEF DepositStake, ActiveListIsExact
<1>4. StakesAreBacked'
  <2>1. held' = held + x /\ unowned' = unowned
      BY DEF DepositStake, Receive
  <2>2. held = SumFunction(Stakes(validators)) + unowned
      BY StakesFacts
  <2>3. held \in Nat /\ unowned \in Nat /\ validators[v].stake \in Nat
      BY DEF SlasherTypeOK, ValidatorInfo
  <2>4. /\ SumFunction(Stakes(validators'))
              = SumFunction(Stakes(validators)) - validators[v].stake + (validators[v].stake + x)
        /\ SumFunction(Stakes(validators)) \in Nat
      BY <1>1, <1>2, StakeMoves
  <2>5. held' = SumFunction(Stakes(validators')) + unowned'
      BY <1>0, <2>1, <2>2, <2>3, <2>4
  <2> QED BY <2>5 DEF StakesAreBacked, Stakes
<1> QED BY <1>1, <1>3, <1>4

\* A validator leaves the active set.
LEMMA LeavesActiveSet ==
    ASSUME SlasherInv, NEW v \in Validator, validators[v].isActive,
           activeValidators' = RemoveFromActiveSet(activeValidators, v),
           \A w \in Validator : validators'[w].isActive <=> validators[w].isActive /\ w # v
    PROVE  ActiveListIsExact' /\ activeValidators' \in Seq(Validator)
<1>1. activeValidators \in Seq(Validator) /\ NamesOnce(activeValidators)
      /\ \A w \in Validator : validators[w].isActive <=> Listed(activeValidators, w)
    BY ActiveListFacts DEF SlasherInv, SlasherTypeOK
<1>2. Listed(activeValidators, v)
    BY <1>1
<1>3. /\ activeValidators' \in Seq(Validator) /\ NamesOnce(activeValidators')
      /\ \A w \in Validator :
            Listed(activeValidators', w) <=> Listed(activeValidators, w) /\ w # v
    BY <1>1, <1>2, RemoveFacts
<1> QED BY <1>1, <1>3 DEF ActiveListIsExact, NamesOnce, Listed

LEMMA UnstakeInv ==
    ASSUME SlasherInv, NEW v \in Validator, NEW x \in Value, Unstake(v, x)
    PROVE  SlasherInv'
<1> USE DEF SlasherInv
<1> DEFINE left == validators[v].stake - x
<1>0. x \in Nat /\ validators[v].stake \in Nat /\ left \in Nat /\ validators[v].isActive
      /\ held \in Nat /\ unowned \in Nat
    BY SlasherAssumption DEF SlasherTypeOK, ValidatorInfo, Unstake
<1>1. \A w \in Validator :
         /\ validators'[w].stake = IF w = v THEN left ELSE validators[w].stake
         /\ validators'[w].isActive
               = IF w = v THEN StaysActive(left) ELSE validators[w].isActive
    BY DEF Unstake, SlasherTypeOK, ValidatorInfo
<1>2. ActiveListIsExact' /\ activeValidators' \in Seq(Validator)
  <2>1. CASE StaysActive(left)
      BY <1>0, <1>1, <2>1 DEF Unstake, ActiveListIsExact, SlasherTypeOK
  <2>2. CASE ~StaysActive(left)
    <3>1. activeValidators' = RemoveFromActiveSet(activeValidators, v)
        BY <2>2 DEF Unstake
    <3>2. \A w \in Validator : validators'[w].isActive <=> validators[w].isActive /\ w # v
        BY <1>1, <2>2
    <3> QED BY <1>0, <3>1, <3>2, LeavesActiveSet
  <2> QED BY <2>1, <2>2
<1>3. held' = held - x /\ unowned' = unowned /\ UNCHANGED <<minStake, sent>>
    BY DEF Unstake
<1>4. held = SumFunction(Stakes(validators)) + unowned
      /\ SumFunction(Stakes(validators)) \in Nat /\ validators[v].stake <= SumFunction(Stakes(validators))
  <2>1. held = SumFunction(Stakes(validators)) + unowned
      BY StakesFacts
  <2>2. /\ IsFiniteSet(Validator) /\ Stakes(validators) \in [Validator -> Nat]
        /\ Stakes(validators)[v] = validators[v].stake
      BY StakesFacts
  <2>3. SumFunction(Stakes(validators)) \in Nat /\ Stakes(validators)[v] <= SumFunction(Stakes(validators))
      BY <2>2, TotalChange
  <2> QED BY <2>1, <2>2, <2>3
<1>5. SlasherTypeOK'
  <2>1. held' \in Nat
      BY <1>0, <1>3, <1>4
  <2>2. validators' \in [Validator -> ValidatorInfo]
    <3> DEFINE stays == StaysActive(left)
    <3>1. validators' = [validators EXCEPT ![v].stake = left, ![v].isActive = stays]
        BY DEF Unstake
    <3>2. stays \in BOOLEAN
        BY DEF StaysActive
    <3> HIDE DEF stays, left
    <3> QED BY <1>0, <3>1, <3>2 DEF SlasherTypeOK, ValidatorInfo
  <2> QED BY <1>2, <1>3, <2>1, <2>2 DEF SlasherTypeOK
<1>6. SumFunction(Stakes(validators')) = SumFunction(Stakes(validators)) - validators[v].stake + left
    BY <1>1, <1>5, StakeMoves
<1>7. held' = SumFunction(Stakes(validators')) + unowned'
    BY <1>0, <1>3, <1>4, <1>6
<1> QED BY <1>2, <1>5, <1>7 DEF StakesAreBacked, Stakes

LEMMA RewardFacts == \A n \in Nat : Reward(n) \in Nat /\ Reward(n) <= n
BY DEF Reward

LEMMA ReportInv ==
    ASSUME SlasherInv, NEW v \in Validator, ReportEquivocation(v)
    PROVE  SlasherInv'
<1> USE DEF SlasherInv
<1> DEFINE slashed == validators[v].stake
           reward == Reward(slashed)
<1>0. slashed \in Nat /\ validators[v].isActive /\ held \in Nat /\ unowned \in Nat
    BY DEF SlasherTypeOK, ValidatorInfo, ReportEquivocation
<1>1. reward \in Nat /\ reward <= slashed
    BY <1>0, RewardFacts
<1>2. \A w \in Validator :
         /\ validators'[w].stake = IF w = v THEN 0 ELSE validators[w].stake
         /\ validators'[w].isActive <=> validators[w].isActive /\ w # v
    BY DEF ReportEquivocation, SlasherTypeOK, ValidatorInfo
<1>3. ActiveListIsExact' /\ activeValidators' \in Seq(Validator)
  <2>1. activeValidators' = RemoveFromActiveSet(activeValidators, v)
      BY DEF ReportEquivocation
  <2> QED BY <1>0, <1>2, <2>1, LeavesActiveSet
<1>4. held' = held - reward /\ unowned' = unowned + slashed - reward /\ UNCHANGED <<minStake, sent>>
    BY DEF ReportEquivocation
<1>5. held = SumFunction(Stakes(validators)) + unowned
      /\ SumFunction(Stakes(validators)) \in Nat /\ slashed <= SumFunction(Stakes(validators))
  <2>1. held = SumFunction(Stakes(validators)) + unowned
      BY StakesFacts
  <2>2. /\ IsFiniteSet(Validator) /\ Stakes(validators) \in [Validator -> Nat]
        /\ Stakes(validators)[v] = slashed
      BY StakesFacts
  <2>3. SumFunction(Stakes(validators)) \in Nat /\ Stakes(validators)[v] <= SumFunction(Stakes(validators))
      BY <2>2, TotalChange
  <2> QED BY <2>1, <2>2, <2>3
<1>6. SlasherTypeOK'
  <2> HIDE DEF reward, slashed
  <2>1. held' \in Nat /\ unowned' \in Nat
      BY <1>0, <1>1, <1>4, <1>5
  <2>2. validators' \in [Validator -> ValidatorInfo]
      BY DEF ReportEquivocation, SlasherTypeOK, ValidatorInfo
  <2> QED BY <1>3, <1>4, <2>1, <2>2 DEF SlasherTypeOK
<1>7. SumFunction(Stakes(validators')) = SumFunction(Stakes(validators)) - slashed + 0
    BY <1>2, <1>6, StakeMoves
<1>8. held' = SumFunction(Stakes(validators')) + unowned'
  <2> HIDE DEF reward, slashed
  <2> QED BY <1>0, <1>1, <1>4, <1>5, <1>7
<1> QED BY <1>3, <1>6, <1>8 DEF StakesAreBacked, Stakes

LEMMA SlasherInvNext == SlasherInv /\ [SlasherNext]_slasherVars => SlasherInv'
<1> SUFFICES ASSUME SlasherInv, [SlasherNext]_slasherVars PROVE SlasherInv'
    OBVIOUS
<1>1. CASE \E v \in Validator, x \in Value :
               RegisterValidator(v, x) \/ DepositStake(v, x) \/ Unstake(v, x)
    BY <1>1, RegisterInv, DepositInv, UnstakeInv
<1>2. CASE \E v \in Validator : ReportEquivocation(v)
    BY <1>2, ReportInv
<1>3. CASE \E x \in MinStake : UpdateMinStake(x)
    BY <1>3 DEF UpdateMinStake, SlasherInv, SlasherTypeOK, ActiveListIsExact, StakesAreBacked
<1>4. CASE UNCHANGED slasherVars
    BY <1>4 DEF slasherVars, SlasherInv, SlasherTypeOK, ActiveListIsExact, StakesAreBacked
<1> QED BY <1>1, <1>2, <1>3, <1>4 DEF SlasherNext

LEMMA SlasherInvAlways == SlasherSpec => []SlasherInv
BY SlasherInvInit, SlasherInvNext, PTL DEF SlasherSpec

\* For any number of validators and any order of registrations, withdrawals,
\* changes of the minimum and slashings the list of active validators names
\* each active one once: _removeFromActiveSet always finds its entry, and the
\* last entry that takes its place is not lost.
THEOREM SlasherListIsExact == SlasherSpec => []ActiveListIsExact
<1>1. SlasherInv => ActiveListIsExact
    BY DEF SlasherInv
<1> QED BY <1>1, SlasherInvAlways, PTL

\* The contract's funds are the sum of all stakes and of what slashing and
\* renewed registrations left to nobody, so every stake can be paid back and
\* no reward is paid from the stake of another validator.
THEOREM SlasherStakesAreBacked == SlasherSpec => []StakesAreBacked
<1>1. SlasherInv => StakesAreBacked
    BY DEF SlasherInv
<1> QED BY <1>1, SlasherInvAlways, PTL
------------------------------------------------------------------------------
\* LiquidityRebalancer: the total and the reserves of the chains.

ReservesOf(data) == [c \in Chain |-> data[c].reserve]

AllChains == [Chain -> ChainData]

RebalancerInv == RebalancerTypeOK /\ TotalCoversReserves

LEMMA ReservesFacts ==
    ASSUME NEW data \in AllChains
    PROVE  /\ IsFiniteSet(Chain) /\ ReservesOf(data) \in [Chain -> Nat]
           /\ \A c \in Chain : ReservesOf(data)[c] = data[c].reserve
           /\ SumOfReserves(data) = SumFunction(ReservesOf(data)) /\ SumOfReserves(data) \in Nat
<1>1. IsFiniteSet(Chain) /\ ReservesOf(data) \in [Chain -> Nat]
    BY RebalancerAssumption DEF AllChains, ChainData, ReservesOf
<1> QED BY <1>1, TotalType DEF ReservesOf, SumOfReserves

\* One reserve is written.
LEMMA WriteFacts ==
    ASSUME NEW data \in AllChains, NEW c \in Chain, NEW n \in 0..MaxReserve
    PROVE  /\ WithReserve(data, c, n) \in AllChains
           /\ \A d \in Chain : WithReserve(data, c, n)[d].reserve
                                   = IF d = c THEN n ELSE data[d].reserve
           /\ SumOfReserves(WithReserve(data, c, n)) = SumOfReserves(data) - data[c].reserve + n
           /\ SumOfReserves(data) \in Nat /\ data[c].reserve \in Nat
<1> DEFINE next == WithReserve(data, c, n)
<1>1. next \in AllChains
    BY DEF WithReserve, AllChains, ChainData
<1>2. \A d \in Chain : next[d].reserve = IF d = c THEN n ELSE data[d].reserve
    BY DEF WithReserve, AllChains, ChainData
<1> HIDE DEF next
<1>3. /\ IsFiniteSet(Chain)
      /\ ReservesOf(data) \in [Chain -> Nat] /\ ReservesOf(next) \in [Chain -> Nat]
      /\ ReservesOf(data)[c] = data[c].reserve /\ ReservesOf(next)[c] = n
      /\ \A d \in Chain : d # c => ReservesOf(next)[d] = ReservesOf(data)[d]
    BY <1>1, <1>2, ReservesFacts
<1>4. SumFunction(ReservesOf(next)) = SumFunction(ReservesOf(data)) - data[c].reserve + n
    BY <1>3, TotalChange
<1>5. data[c].reserve \in Nat
    BY DEF AllChains, ChainData
<1> QED BY <1>1, <1>2, <1>4, <1>5, ReservesFacts DEF next

\* A move that is allowed keeps every reserve in its width, and the sum of the
\* reserves, unless the destination is full and is not written.
LEMMA MoveFacts ==
    ASSUME NEW data \in AllChains, NEW s \in Steps, CanMove(data, s.from, s.to, s.amount)
    PROVE  /\ MoveLiquidity(data, s.from, s.to, s.amount) \in AllChains
           /\ SumOfReserves(MoveLiquidity(data, s.from, s.to, s.amount)) <= SumOfReserves(data)
<1> DEFINE from == s.from
           to == s.to
           x == s.amount
           left == data[from].reserve - x
           debited == WithReserve(data, from, left)
           full == debited[to].reserve + x
<1>1. from \in Chain /\ to \in Chain /\ x \in Nat /\ data[from].reserve \in 0..MaxReserve
      /\ MaxReserve \in Nat
    BY RebalancerAssumption DEF Steps, AllChains, ChainData
<1>2. x <= data[from].reserve
    BY DEF CanMove
<1>3. left \in 0..MaxReserve
    BY <1>1, <1>2
<1>4. debited = Debited(data, from, x) /\ ~Overflows(debited[from].reserve, full)
    BY DEF Debited, CanMove
<1>5. /\ debited \in AllChains
      /\ SumOfReserves(debited) = SumOfReserves(data) - data[from].reserve + left
      /\ SumOfReserves(data) \in Nat
    BY <1>1, <1>3, WriteFacts
<1>6. SumOfReserves(debited) = SumOfReserves(data) - x
  <2> DEFINE sum == SumOfReserves(data)
             sumDebited == SumOfReserves(debited)
             old == data[from].reserve
  <2>1. sum \in Nat /\ sumDebited = sum - old + left /\ left = old - x /\ old \in Nat
      BY <1>1, <1>5
  <2> HIDE DEF sum, sumDebited, old, left, debited, x
  <2>2. sumDebited = sum - x
      BY <1>1, <2>1
  <2> QED BY <2>2 DEF sum, sumDebited
<1>7. debited[to].reserve \in Nat
  <2> HIDE DEF debited
  <2> QED BY <1>1, <1>5 DEF AllChains, ChainData
<1>8. MoveLiquidity(data, from, to, x)
         = IF full = MaxReserve THEN debited ELSE WithReserve(debited, to, full)
    BY <1>4 DEF MoveLiquidity, Credited
<1> HIDE DEF debited, left, from, to, x
<1>9. CASE full = MaxReserve
  <2>1. SumOfReserves(debited) <= SumOfReserves(data)
      BY <1>1, <1>5, <1>6
  <2> QED BY <1>5, <1>8, <1>9, <2>1 DEF from, to, x
<1>10. CASE full # MaxReserve
  <2>1. full \in 0..MaxReserve
      BY <1>1, <1>4, <1>7, <1>10 DEF Overflows
  <2>2. /\ WithReserve(debited, to, full) \in AllChains
        /\ SumOfReserves(WithReserve(debited, to, full))
              = SumOfReserves(debited) - debited[to].reserve + full
    <3> DEFINE d == debited
               k == full
    <3>1. d \in AllChains /\ k \in 0..MaxReserve /\ to \in Chain
        BY <1>1, <1>5, <2>1
    <3> HIDE DEF d, k
    <3>2. /\ WithReserve(d, to, k) \in AllChains
          /\ SumOfReserves(WithReserve(d, to, k)) = SumOfReserves(d) - d[to].reserve + k
        BY <3>1, WriteFacts
    <3> QED BY <3>2 DEF d, k
  <2>3. SumOfReserves(WithReserve(debited, to, full)) = SumOfReserves(data)
    <3> DEFINE a == SumOfReserves(WithReserve(debited, to, full))
               b == SumOfReserves(debited)
               c == SumOfReserves(data)
               r == debited[to].reserve
    <3>1. a = b - r + (r + x) /\ b = c - x /\ c \in Nat /\ r \in Nat
        BY <1>5, <1>6, <1>7, <2>2
    <3> HIDE DEF a, b, c, r
    <3>2. a = c
        BY <1>1, <3>1
    <3> QED BY <3>2 DEF a, c
  <2> QED BY <1>5, <1>8, <1>10, <2>2, <2>3 DEF from, to, x
<1> QED BY <1>9, <1>10

\* The recursion over the steps of a batch.  Among the numbers up to n for
\* which something fails there is a least.
LEMMA LeastStep ==
    ASSUME NEW n \in Nat, NEW B \in SUBSET (0..n), B # {}
    PROVE  \E x \in B : \A y \in B : x <= y
<1> DEFINE D == {0..x : x \in B}
           S == 0..n
<1>1. IsFiniteSet(S)
    BY FS_Interval, 0 \in Int, n \in Int
<1>2. PICK d \in D : \A e \in D : e \subseteq d => e = d
  <2>1. \A x \in B : 0..x \subseteq S
      OBVIOUS
  <2>2. D \in SUBSET SUBSET S /\ D # {}
    <3> HIDE DEF S
    <3> QED BY <2>1
  <2> HIDE DEF D, S
  <2> QED BY <1>1, <2>2, SmallestSubset
<1>3. PICK x \in B : d = 0..x
    OBVIOUS
<1>4. ASSUME NEW y \in B, y < x PROVE FALSE
  <2>1. 0..y \in D /\ 0..y \subseteq d
      BY <1>3, <1>4
  <2>2. 0..y = 0..x
      BY <1>2, <1>3, <2>1
  <2> QED BY <1>4, <2>2
<1> QED BY <1>4

IsAfter(steps, g, n) ==
    g = [i \in 0..n |->
            IF i = 0 THEN chainData
            ELSE MoveLiquidity(g[i - 1], steps[i].from, steps[i].to, steps[i].amount)]

LEMMA AfterExists ==
    ASSUME NEW steps, NEW n \in Nat
    PROVE  \E g : IsAfter(steps, g, n)
<1> DEFINE B == {k \in 0..n : ~\E g : IsAfter(steps, g, k)}
<1> SUFFICES ASSUME B # {} PROVE FALSE
    OBVIOUS
<1>1. PICK k \in B : \A y \in B : k <= y
  <2>1. B \in SUBSET (0..n)
      OBVIOUS
  <2> HIDE DEF B
  <2> QED BY <2>1, LeastStep
<1>2. k \in 0..n /\ ~\E g : IsAfter(steps, g, k)
    OBVIOUS
<1>3. CASE k = 0
  <2> DEFINE g == [i \in 0..0 |-> chainData]
  <2>1. g = [i \in 0..0 |->
                IF i = 0 THEN chainData
                ELSE MoveLiquidity(g[i - 1], steps[i].from, steps[i].to, steps[i].amount)]
      OBVIOUS
  <2> HIDE DEF g
  <2>2. IsAfter(steps, g, 0)
      BY <2>1 DEF IsAfter
  <2> QED BY <1>2, <1>3, <2>2
<1>4. CASE k # 0
  <2>1. k - 1 \in 0..n /\ k - 1 \notin B
      BY <1>1, <1>2, <1>4
  <2>2. PICK h : IsAfter(steps, h, k - 1)
      BY <2>1
  <2> DEFINE move(d, i) == MoveLiquidity(d, steps[i].from, steps[i].to, steps[i].amount)
             g == [i \in 0..k |-> IF i = k THEN move(h[k - 1], k) ELSE h[i]]
  <2>3. \A i \in 0..(k - 1) : h[i] = IF i = 0 THEN chainData ELSE move(h[i - 1], i)
      BY <2>2 DEF IsAfter
  <2>4. \A i \in 0..k : g[i] = IF i = 0 THEN chainData ELSE move(g[i - 1], i)
    <3> HIDE DEF move
    <3> QED BY <1>2, <1>4, <2>3
  <2>5. g = [i \in 0..k |-> g[i]]
      OBVIOUS
  <2> HIDE DEF g
  <2>6. IsAfter(steps, g, k)
      BY <2>4, <2>5 DEF IsAfter
  <2> QED BY <1>2, <2>6
<1> QED BY <1>3, <1>4

LEMMA AfterEquation ==
    ASSUME NEW n \in Nat, NEW steps \in [1..n -> Steps]
    PROVE  /\ Len(steps) = n
           /\ AfterSteps(steps)[0] = chainData
           /\ \A i \in 1..n : AfterSteps(steps)[i]
                 = MoveLiquidity(AfterSteps(steps)[i - 1], steps[i].from, steps[i].to, steps[i].amount)
<1> DEFINE after == AfterSteps(steps)
<1>1. Len(steps) = n
    OBVIOUS
<1>2. after = CHOOSE g : IsAfter(steps, g, n)
    BY <1>1 DEF AfterSteps, IsAfter
<1>3. IsAfter(steps, after, n)
    BY <1>2, AfterExists
<1> HIDE DEF after
<1>4. /\ after[0] = chainData
      /\ \A i \in 1..n : after[i]
            = MoveLiquidity(after[i - 1], steps[i].from, steps[i].to, steps[i].amount)
    BY <1>3 DEF IsAfter
<1> QED BY <1>1, <1>4 DEF after

\* Every step of a batch meets reserves of the right width that sum to no more
\* than those the batch began with.
LEMMA BatchFacts ==
    ASSUME RebalancerInv, NEW n \in Nat, NEW steps \in [1..n -> Steps],
           ExecuteRebalanceBatch(steps)
    PROVE  chainData' \in AllChains /\ SumOfReserves(chainData') <= SumOfReserves(chainData)
<1> DEFINE after == AfterSteps(steps)
           Good(i) == after[i] \in AllChains /\ SumOfReserves(after[i]) <= SumOfReserves(chainData)
           B == {i \in 0..n : ~Good(i)}
<1>1. /\ Len(steps) = n /\ after[0] = chainData
      /\ \A i \in 1..n : after[i]
            = MoveLiquidity(after[i - 1], steps[i].from, steps[i].to, steps[i].amount)
    BY AfterEquation
<1>2. chainData \in AllChains /\ SumOfReserves(chainData) \in Nat
    BY ReservesFacts DEF RebalancerInv, RebalancerTypeOK, AllChains
<1>3. \A i \in 1..n : CanMove(after[i - 1], steps[i].from, steps[i].to, steps[i].amount)
    BY <1>1 DEF ExecuteRebalanceBatch
<1> HIDE DEF after
<1>4. B = {}
  <2> SUFFICES ASSUME B # {} PROVE FALSE
      OBVIOUS
  <2>1. PICK i \in B : \A y \in B : i <= y
    <3>1. B \in SUBSET (0..n)
        OBVIOUS
    <3> HIDE DEF B
    <3> QED BY <3>1, LeastStep
  <2>2. i \in 0..n /\ ~Good(i)
      OBVIOUS
  <2>3. i # 0
      BY <1>1, <1>2, <2>2
  <2>4. i \in 1..n /\ i - 1 \in 0..n /\ i - 1 \notin B
      BY <2>1, <2>2, <2>3
  <2>5. Good(i - 1)
      BY <2>4
  <2> DEFINE d == after[i - 1]
             s == steps[i]
  <2>6. d \in AllChains /\ s \in Steps /\ CanMove(d, s.from, s.to, s.amount)
        /\ after[i] = MoveLiquidity(d, s.from, s.to, s.amount)
        /\ SumOfReserves(d) <= SumOfReserves(chainData)
      BY <1>1, <1>3, <2>4, <2>5
  <2>7. SumOfReserves(d) \in Nat
      BY <2>5, ReservesFacts
  <2> HIDE DEF d, s
  <2>8. after[i] \in AllChains /\ SumOfReserves(after[i]) <= SumOfReserves(d)
      BY <2>6, MoveFacts
  <2>9. SumOfReserves(after[i]) \in Nat
      BY <2>8, ReservesFacts
  <2>10. Good(i)
      BY <1>2, <2>6, <2>7, <2>8, <2>9
  <2> QED BY <2>2, <2>10
<1>5. Good(n)
    BY <1>4
<1>6. chainData' = after[n]
    BY <1>1 DEF ExecuteRebalanceBatch, after
<1> QED BY <1>5, <1>6

\* What a move or a batch leaves.
LEMMA MovesKeepInv ==
    ASSUME RebalancerInv, UNCHANGED <<connectedChains, totalReserves>>,
           chainData' \in AllChains, SumOfReserves(chainData') <= SumOfReserves(chainData)
    PROVE  RebalancerInv'
<1>1. /\ SumOfReserves(chainData) \in Nat /\ SumOfReserves(chainData') \in Nat
      /\ totalReserves \in Nat /\ SumOfReserves(chainData) <= totalReserves
    BY ReservesFacts DEF RebalancerInv, RebalancerTypeOK, AllChains, TotalCoversReserves
<1>2. SumOfReserves(chainData') <= totalReserves
    BY <1>1
<1>3. TotalCoversReserves'
    BY <1>2 DEF TotalCoversReserves, SumOfReserves
<1> QED BY <1>3 DEF RebalancerInv, RebalancerTypeOK, AllChains

LEMMA UpdateReserveInv ==
    ASSUME RebalancerInv, NEW c \in Chain, NEW reserve \in 0..MaxReserve, UpdateReserve(c, reserve)
    PROVE  RebalancerInv'
<1> DEFINE old == chainData[c].reserve
           sum == SumOfReserves(chainData)
           next == SumOfReserves(chainData')
<1>1. chainData \in AllChains /\ reserve \in Nat
    BY DEF RebalancerInv, RebalancerTypeOK, AllChains
<1>2. chainData' = WithReserve(chainData, c, reserve)
    BY DEF UpdateReserve, WithReserve
<1>3. chainData' \in AllChains /\ next = sum - old + reserve /\ sum \in Nat /\ old \in Nat
    BY <1>1, <1>2, WriteFacts
<1>4. /\ totalReserves' = (totalReserves - old) + reserve /\ totalReserves - old >= 0
      /\ totalReserves \in Nat /\ sum <= totalReserves
    BY DEF UpdateReserve, RebalancerInv, RebalancerTypeOK, TotalCoversReserves
<1> HIDE DEF old, sum, next
<1>5. next <= totalReserves' /\ totalReserves' \in Nat
    BY <1>1, <1>3, <1>4
<1>6. TotalCoversReserves'
    BY <1>5 DEF TotalCoversReserves, SumOfReserves, next
<1> QED BY <1>3, <1>5, <1>6 DEF RebalancerInv, RebalancerTypeOK, AllChains, UpdateReserve

LEMMA ConfigureInv ==
    ASSUME RebalancerInv, NEW c \in Chain, NEW target \in Targets, NEW bound \in Bounds,
           ConfigureChain(c, target, bound)
    PROVE  RebalancerInv'
<1>1. target \in 0..BPS /\ bound \in 0..BPS
    BY RebalancerAssumption
<1>2. RebalancerTypeOK'
    BY <1>1 DEF RebalancerInv, RebalancerTypeOK, ConfigureChain, ChainData
<1>3. \A d \in Chain : chainData'[d].reserve = chainData[d].reserve
    BY DEF RebalancerInv, RebalancerTypeOK, ConfigureChain, ChainData
<1>4. [d \in Chain |-> chainData'[d].reserve] = [d \in Chain |-> chainData[d].reserve]
    BY <1>3
<1>5. TotalCoversReserves'
    BY <1>4 DEF RebalancerInv, TotalCoversReserves, SumOfReserves, ConfigureChain
<1> QED BY <1>2, <1>5 DEF RebalancerInv

LEMMA RebalancerInvInit == RebalancerInit => RebalancerInv
<1> SUFFICES ASSUME RebalancerInit PROVE RebalancerInv
    OBVIOUS
<1>1. RebalancerTypeOK
    BY RebalancerAssumption DEF RebalancerInit, RebalancerTypeOK, ChainData
<1>2. ReservesOf(chainData) = [c \in Chain |-> 0]
    BY DEF RebalancerInit, ReservesOf
<1>3. SumOfReserves(chainData) = 0
    BY <1>2, TotalOfZeros, RebalancerAssumption DEF SumOfReserves, ReservesOf
<1> QED BY <1>1, <1>3 DEF RebalancerInv, TotalCoversReserves, RebalancerInit

LEMMA RebalancerInvNext == RebalancerInv /\ [RebalancerNext]_rebalancerVars => RebalancerInv'
<1> SUFFICES ASSUME RebalancerInv, [RebalancerNext]_rebalancerVars PROVE RebalancerInv'
    OBVIOUS
<1>1. CASE \E c \in Chain, target \in Targets, bound \in Bounds : ConfigureChain(c, target, bound)
    BY <1>1, ConfigureInv
<1>2. CASE \E c \in Chain : \E reserve \in 0..MaxReserve : UpdateReserve(c, reserve)
    BY <1>2, UpdateReserveInv
<1>3. ASSUME NEW s \in Steps, ExecuteRebalance(s.from, s.to, s.amount) PROVE RebalancerInv'
  <2>1. chainData \in AllChains
      BY DEF RebalancerInv, RebalancerTypeOK, AllChains
  <2>2. chainData' \in AllChains /\ SumOfReserves(chainData') <= SumOfReserves(chainData)
      BY <1>3, <2>1, MoveFacts DEF ExecuteRebalance
  <2> QED BY <1>3, <2>2, MovesKeepInv DEF ExecuteRebalance
<1>4. ASSUME NEW n \in 1..MaxBatch, NEW steps \in [1..n -> Steps], ExecuteRebalanceBatch(steps)
      PROVE  RebalancerInv'
  <2>1. n \in Nat
      OBVIOUS
  <2>2. chainData' \in AllChains /\ SumOfReserves(chainData') <= SumOfReserves(chainData)
      BY <1>4, <2>1, BatchFacts
  <2> QED BY <1>4, <2>2, MovesKeepInv DEF ExecuteRebalanceBatch
<1>5. CASE UNCHANGED rebalancerVars
    BY <1>5 DEF rebalancerVars, RebalancerInv, RebalancerTypeOK, TotalCoversReserves, SumOfReserves
<1> QED BY <1>1, <1>2, <1>3, <1>4, <1>5 DEF RebalancerNext

\* For any number of chains, any widths and batches of any length the total
\* covers the reserves of all chains: no order of reports, configurations and
\* moves makes reserves out of nothing, so updateReserve's subtraction never
\* underflows.
THEOREM RebalancerTotalCovers == RebalancerSpec => []TotalCoversReserves
<1>1. RebalancerInv => TotalCoversReserves
    BY DEF RebalancerInv
<1> QED BY <1>1, RebalancerInvInit, RebalancerInvNext, PTL DEF RebalancerSpec
------------------------------------------------------------------------------
\* MessageEscrow: what the escrow holds and what is still to be claimed.

Unclaimed(t) == {i \in DOMAIN escrows : escrows[i].token = t /\ ~escrows[i].claimed}

AmountsOwed(t) == [i \in Unclaimed(t) |-> escrows[i].amount]

EscrowInv == EscrowTypeOK /\ EscrowIsBacked

LEMMA OwedFacts ==
    ASSUME EscrowTypeOK, NEW t \in Token
    PROVE  /\ IsFiniteSet(Unclaimed(t)) /\ AmountsOwed(t) \in [Unclaimed(t) -> Nat]
           /\ Owed(DOMAIN escrows, t) = SumFunction(AmountsOwed(t))
           /\ SumFunction(AmountsOwed(t)) \in Nat
<1>1. Unclaimed(t) \subseteq MessageId
    BY DEF Unclaimed, EscrowTypeOK
<1>2. IsFiniteSet(Unclaimed(t))
    BY <1>1, EscrowAssumption, FS_Subset
<1>3. AmountsOwed(t) \in [Unclaimed(t) -> Nat]
    BY EscrowAssumption DEF AmountsOwed, Unclaimed, EscrowTypeOK, EscrowEntry
<1>4. Owed(DOMAIN escrows, t) = SumFunction(AmountsOwed(t))
    BY DEF Owed, AmountsOwed, Unclaimed
<1> QED BY <1>2, <1>3, <1>4, TotalType

\* One entry more is owed.
LEMMA OneMoreOwed ==
    ASSUME NEW S, IsFiniteSet(S), NEW f \in [S -> Nat], NEW y, y \notin S,
           NEW T, T = S \cup {y}, NEW g \in [T -> Nat], \A x \in S : g[x] = f[x]
    PROVE  SumFunction(g) = SumFunction(f) + g[y] /\ SumFunction(f) \in Nat
BY TotalExtend

LEMMA DivertInv ==
    ASSUME EscrowInv, NEW id \in MessageId, NEW r \in Recipient, NEW t \in Token,
           NEW x \in EscrowAmount, DivertToEscrow(id, r, t, x)
    PROVE  EscrowInv'
<1> USE DEF EscrowInv
<1>0. x \in Nat /\ id \notin DOMAIN escrows
    BY EscrowAssumption DEF DivertToEscrow, MayEscrow
<1>1. /\ DOMAIN escrows' = DOMAIN escrows \cup {id}
      /\ escrows'[id] = [amount |-> x, token |-> t, claimed |-> FALSE]
      /\ \A i \in DOMAIN escrows : escrows'[i] = escrows[i]
    BY <1>0 DEF DivertToEscrow
<1>2. EscrowTypeOK'
  <2>1. DOMAIN escrows' \subseteq MessageId
      BY <1>1 DEF EscrowTypeOK
  <2>2. \A i \in DOMAIN escrows' : escrows'[i] \in EscrowEntry
    <3>1. escrows'[id] \in EscrowEntry
        BY <1>1 DEF EscrowEntry
    <3> QED BY <1>1, <3>1 DEF EscrowTypeOK
  <2>3. claimable' \in [Recipient -> [Token -> Nat]]
      BY <1>0 DEF EscrowTypeOK, DivertToEscrow
  <2>4. recipientMessages' \in [Recipient -> SUBSET MessageId]
      BY DEF EscrowTypeOK, DivertToEscrow
  <2>5. tokensHeld' \in [Token -> Nat]
      BY <1>0 DEF EscrowTypeOK, DivertToEscrow
  <2> QED BY <2>1, <2>2, <2>3, <2>4, <2>5 DEF EscrowTypeOK
<1>3. ASSUME NEW u \in Token PROVE tokensHeld'[u] = SumFunction(AmountsOwed(u)')
  <2> DEFINE S == Unclaimed(u)
             T == Unclaimed(u)'
             f == AmountsOwed(u)
             g == AmountsOwed(u)'
  <2>1. IsFiniteSet(S) /\ f \in [S -> Nat] /\ SumFunction(f) \in Nat /\ tokensHeld[u] = SumFunction(f)
      BY OwedFacts DEF EscrowIsBacked
  <2>2. \A i \in DOMAIN escrows : i # id
      BY <1>0
  <2>3. CASE u = t
    <3>1. id \notin S /\ T = S \cup {id}
        BY <1>0, <1>1, <2>3 DEF Unclaimed
    <3>2. \A i \in T : g[i] = escrows'[i].amount
        BY DEF AmountsOwed
    <3>3. \A i \in S : f[i] = escrows[i].amount
        BY DEF AmountsOwed
    <3>4. \A i \in S : g[i] = f[i]
        BY <1>1, <3>1, <3>2, <3>3 DEF Unclaimed
    <3>5. g[id] = x
        BY <1>1, <3>1, <3>2
    <3>6. g \in [T -> Nat]
        BY EscrowAssumption, <1>2 DEF AmountsOwed, Unclaimed, EscrowTypeOK, EscrowEntry
    <3>7. tokensHeld'[u] = tokensHeld[u] + x
        BY <2>3 DEF DivertToEscrow, EscrowTypeOK
    <3> HIDE DEF S, T, f, g
    <3>8. SumFunction(g) = SumFunction(f) + x
        BY <2>1, <3>1, <3>4, <3>5, <3>6, OneMoreOwed
    <3>9. tokensHeld'[u] = SumFunction(g)
        BY <2>1, <3>7, <3>8
    <3> QED BY <3>9 DEF g
  <2>4. CASE u # t
    <3>1. T = S
        BY <1>0, <1>1, <2>4 DEF Unclaimed
    <3>2. g = f
        BY <1>1, <3>1 DEF AmountsOwed, Unclaimed
    <3>3. tokensHeld'[u] = tokensHeld[u]
        BY <2>4 DEF DivertToEscrow, EscrowTypeOK
    <3> QED BY <2>1, <3>2, <3>3
  <2> QED BY <2>3, <2>4
<1>4. EscrowIsBacked'
  <2>1. \A u \in Token : Owed(DOMAIN escrows, u)' = SumFunction(AmountsOwed(u)')
      BY DEF Owed, AmountsOwed, Unclaimed
  <2> QED BY <1>3, <2>1 DEF EscrowIsBacked
<1> QED BY <1>2, <1>4

LEMMA ClaimInv ==
    ASSUME EscrowInv, NEW id \in MessageId, ClaimEscrowedTokens(id)
    PROVE  EscrowInv'
<1> USE DEF EscrowInv
<1> DEFINE t == escrows[id].token
           x == escrows[id].amount
<1>0. /\ id \in DOMAIN escrows /\ ~escrows[id].claimed
      /\ t \in Token /\ x \in Nat /\ tokensHeld[t] >= x /\ tokensHeld[t] \in Nat
    BY EscrowAssumption DEF ClaimEscrowedTokens, EscrowTypeOK, EscrowEntry
<1>1. /\ DOMAIN escrows' = DOMAIN escrows
      /\ escrows'[id] = [escrows[id] EXCEPT !.claimed = TRUE]
      /\ \A i \in DOMAIN escrows : i # id => escrows'[i] = escrows[i]
    BY <1>0 DEF ClaimEscrowedTokens
<1>2. EscrowTypeOK'
  <2>1. DOMAIN escrows' \subseteq MessageId
      BY <1>1 DEF EscrowTypeOK
  <2>2. \A i \in DOMAIN escrows' : escrows'[i] \in EscrowEntry
      BY <1>0, <1>1 DEF EscrowTypeOK, EscrowEntry
  <2>3. tokensHeld' \in [Token -> Nat]
    <3> DEFINE n == tokensHeld[t] - x
    <3>1. n \in Nat
        BY <1>0
    <3>2. tokensHeld' = [tokensHeld EXCEPT ![t] = n]
        BY DEF ClaimEscrowedTokens
    <3> HIDE DEF n
    <3> QED BY <3>1, <3>2 DEF EscrowTypeOK
  <2> QED BY <2>1, <2>2, <2>3 DEF EscrowTypeOK, ClaimEscrowedTokens
<1>3. ASSUME NEW u \in Token PROVE tokensHeld'[u] = SumFunction(AmountsOwed(u)')
  <2> DEFINE S == Unclaimed(u)
             T == Unclaimed(u)'
             f == AmountsOwed(u)
             g == AmountsOwed(u)'
  <2>1. IsFiniteSet(S) /\ f \in [S -> Nat] /\ SumFunction(f) \in Nat /\ tokensHeld[u] = SumFunction(f)
      BY OwedFacts DEF EscrowIsBacked
  <2>2. escrows'[id].claimed
      BY <1>0, <1>1 DEF EscrowTypeOK, EscrowEntry
  <2>3. CASE u = t
    <3>1. id \notin T /\ S = T \cup {id}
        BY <1>0, <1>1, <2>2, <2>3 DEF Unclaimed
    <3>2. \A i \in T : g[i] = escrows'[i].amount
        BY DEF AmountsOwed
    <3>3. \A i \in S : f[i] = escrows[i].amount
        BY DEF AmountsOwed
    <3>4. \A i \in T : f[i] = g[i]
        BY <1>1, <3>1, <3>2, <3>3 DEF Unclaimed
    <3>5. f[id] = x
        BY <3>1, <3>3
    <3>6. g \in [T -> Nat]
        BY EscrowAssumption, <1>2 DEF AmountsOwed, Unclaimed, EscrowTypeOK, EscrowEntry
    <3>7. tokensHeld'[u] = tokensHeld[u] - x
        BY <2>3 DEF ClaimEscrowedTokens, EscrowTypeOK
    <3>8. IsFiniteSet(T)
        BY <2>1, <3>1, FS_Subset
    <3> HIDE DEF S, T, f, g, x
    <3>9. SumFunction(f) = SumFunction(g) + x /\ SumFunction(g) \in Nat
        BY <2>1, <3>1, <3>4, <3>5, <3>6, <3>8, OneMoreOwed
    <3>10. tokensHeld'[u] = SumFunction(g)
        BY <1>0, <2>1, <3>7, <3>9
    <3> QED BY <3>10 DEF g
  <2>4. CASE u # t
    <3>1. T = S
        BY <1>0, <1>1, <2>2, <2>4 DEF Unclaimed
    <3>2. \A i \in S : i # id
        BY <2>4 DEF Unclaimed
    <3>3. g = f
        BY <1>1, <3>1, <3>2 DEF AmountsOwed, Unclaimed
    <3>4. tokensHeld'[u] = tokensHeld[u]
        BY <2>4 DEF ClaimEscrowedTokens, EscrowTypeOK
    <3> QED BY <2>1, <3>3, <3>4
  <2> QED BY <2>3, <2>4
<1>4. EscrowIsBacked'
  <2>1. \A u \in Token : Owed(DOMAIN escrows, u)' = SumFunction(AmountsOwed(u)')
      BY DEF Owed, AmountsOwed, Unclaimed
  <2> QED BY <1>3, <2>1 DEF EscrowIsBacked
<1> QED BY <1>2, <1>4

LEMMA EscrowInvInit == EscrowInit => EscrowInv
<1> SUFFICES ASSUME EscrowInit PROVE EscrowInv
    OBVIOUS
<1>1. EscrowTypeOK
    BY DEF EscrowInit, EscrowTypeOK
<1>2. ASSUME NEW t \in Token PROVE tokensHeld[t] = Owed(DOMAIN escrows, t)
  <2>1. Unclaimed(t) = {}
      BY DEF EscrowInit, Unclaimed
  <2>2. AmountsOwed(t) = [i \in {} |-> 0]
      BY <2>1 DEF AmountsOwed
  <2>3. SumFunction([i \in {} |-> 0]) = 0
      BY FS_EmptySet, TotalOfZeros
  <2> QED BY <1>1, <2>2, <2>3, OwedFacts DEF EscrowInit
<1> QED BY <1>1, <1>2 DEF EscrowInv, EscrowIsBacked

LEMMA EscrowInvNext == EscrowInv /\ [EscrowNext]_escrowVars => EscrowInv'
<1> SUFFICES ASSUME EscrowInv, [EscrowNext]_escrowVars PROVE EscrowInv'
    OBVIOUS
<1>1. CASE EscrowNext
    BY <1>1, DivertInv, ClaimInv DEF EscrowNext
<1>2. CASE UNCHANGED escrowVars
    BY <1>2 DEF escrowVars, EscrowInv, EscrowTypeOK, EscrowIsBacked, Owed
<1> QED BY <1>1, <1>2

\* For any number of messages, recipients and tokens the escrow holds exactly
\* what its unclaimed entries say, so that every entry can be claimed in any
\* order and none is paid with the tokens of another.
THEOREM EscrowBacked == EscrowSpec => []EscrowIsBacked
<1>1. EscrowInv => EscrowIsBacked
    BY DEF EscrowInv
<1> QED BY <1>1, EscrowInvInit, EscrowInvNext, PTL DEF EscrowSpec
------------------------------------------------------------------------------
\* PackedPool: the reserves and the shares of the users.

PoolInv == PoolTypeOK /\ SharesAreCovered

LEMMA PoolFacts ==
    ASSUME PoolTypeOK
    PROVE  /\ reserves[0] \in Nat /\ reserves[1] \in Nat /\ wiped \in Nat
           /\ IsFiniteSet(Account) /\ userPositions \in [Account -> Nat]
           /\ SharesOfAll \in Nat
<1>1. userPositions \in [Account -> Nat] /\ IsFiniteSet(Account)
    BY PoolAssumption DEF PoolTypeOK
<1>2. SharesOfAll \in Nat
    BY <1>1, TotalType DEF SharesOfAll
<1>3. reserves[0] \in Nat /\ reserves[1] \in Nat
    BY PoolAssumption DEF PoolTypeOK
<1> QED BY <1>1, <1>2, <1>3 DEF PoolTypeOK

\* One position is written.
LEMMA PositionMoves ==
    ASSUME PoolTypeOK, NEW a \in Account, NEW n \in 0..ShareLimit,
           userPositions' = [userPositions EXCEPT ![a] = n]
    PROVE  /\ userPositions' \in [Account -> 0..ShareLimit]
           /\ SumFunction(userPositions') = SumFunction(userPositions) - userPositions[a] + n
           /\ SumFunction(userPositions) \in Nat /\ userPositions[a] \in Nat
<1>1. userPositions \in [Account -> 0..ShareLimit] /\ userPositions' \in [Account -> 0..ShareLimit]
    BY DEF PoolTypeOK
<1>2. /\ IsFiniteSet(Account)
      /\ userPositions \in [Account -> Nat] /\ userPositions' \in [Account -> Nat]
      /\ userPositions'[a] = n /\ \A b \in Account : b # a => userPositions'[b] = userPositions[b]
    BY <1>1, PoolAssumption
<1>3. SumFunction(userPositions') = SumFunction(userPositions) - userPositions[a] + userPositions'[a]
      /\ SumFunction(userPositions) \in Nat
  <2> DEFINE f == userPositions
             g == userPositions'
  <2>1. /\ f \in [Account -> Nat] /\ g \in [Account -> Nat]
        /\ \A b \in Account : b # a => g[b] = f[b]
      BY <1>2
  <2> HIDE DEF f, g
  <2>2. SumFunction(g) = SumFunction(f) - f[a] + g[a] /\ SumFunction(f) \in Nat
      BY <1>2, <2>1, TotalChange
  <2> QED BY <2>2 DEF f, g
<1> QED BY <1>1, <1>2, <1>3

LEMMA InitializeInv ==
    ASSUME PoolInv, NEW rate \in FeeRate, InitializePool(rate)
    PROVE  PoolInv'
<1>1. /\ reserves[0] \in Nat /\ reserves[1] \in Nat /\ wiped \in Nat /\ SharesOfAll \in Nat
      /\ reserves[0] + reserves[1] + wiped >= SharesOfAll
    BY PoolFacts DEF PoolInv, SharesAreCovered
<1>2. /\ reserves' = [i \in 0..1 |-> 0] /\ wiped' = wiped + reserves[0] + reserves[1]
      /\ UNCHANGED userPositions /\ feeRate' = rate
    BY DEF InitializePool
<1>3. reserves'[0] = 0 /\ reserves'[1] = 0
    BY <1>2
<1>4. reserves'[0] + reserves'[1] + wiped' >= SharesOfAll /\ wiped' \in Nat
    BY <1>1, <1>2, <1>3
<1>5. inits' \in 0..MaxPoolInits
    BY PoolAssumption DEF PoolInv, PoolTypeOK, InitializePool
<1>6. reserves' \in [0..1 -> 0..PoolLimit]
    BY <1>2, PoolAssumption
<1> QED BY <1>2, <1>4, <1>5, <1>6 DEF PoolInv, PoolTypeOK, SharesAreCovered, SharesOfAll

LEMMA AddInv ==
    ASSUME PoolInv, NEW a \in Account, NEW x \in 0..PoolLimit, NEW y \in 0..PoolLimit,
           AddLiquidity(a, x, y)
    PROVE  PoolInv'
<1> DEFINE n == userPositions[a] + x + y
<1>1. /\ reserves[0] \in Nat /\ reserves[1] \in Nat /\ wiped \in Nat
      /\ x \in Nat /\ y \in Nat /\ userPositions[a] \in Nat
      /\ reserves[0] + reserves[1] + wiped >= SumFunction(userPositions)
    BY PoolFacts DEF PoolInv, SharesAreCovered, SharesOfAll
<1>2. reserves'[0] = reserves[0] + x /\ reserves'[1] = reserves[1] + y /\ wiped' = wiped
      /\ reserves[0] + x <= PoolLimit /\ reserves[1] + y <= PoolLimit
    BY DEF AddLiquidity
<1>3. n \in 0..ShareLimit /\ userPositions' = [userPositions EXCEPT ![a] = n]
    BY <1>1, PoolAssumption DEF AddLiquidity
<1> HIDE DEF n
<1>4. /\ userPositions' \in [Account -> 0..ShareLimit]
      /\ SumFunction(userPositions') = SumFunction(userPositions) - userPositions[a] + n
      /\ SumFunction(userPositions) \in Nat
    BY <1>3, PositionMoves DEF PoolInv
<1>5. reserves'[0] + reserves'[1] + wiped' >= SumFunction(userPositions')
    BY <1>1, <1>2, <1>4 DEF n
<1>6. reserves' \in [0..1 -> 0..PoolLimit]
    BY <1>1, <1>2, PoolAssumption DEF AddLiquidity
<1> QED BY <1>4, <1>5, <1>6 DEF PoolInv, PoolTypeOK, SharesAreCovered, SharesOfAll, AddLiquidity

LEMMA HalfFacts == \A n \in Nat : Half(n) \in Nat /\ Half(n) + Half(n) <= n
BY DEF Half

LEMMA RemoveInv ==
    ASSUME PoolInv, NEW a \in Account, NEW s \in 0..ShareLimit, RemoveLiquidity(a, s)
    PROVE  PoolInv'
<1> DEFINE n == userPositions[a] - s
           h == Half(s)
<1>1. /\ reserves[0] \in Nat /\ reserves[1] \in Nat /\ wiped \in Nat
      /\ s \in Nat /\ userPositions[a] \in 0..ShareLimit
      /\ reserves[0] + reserves[1] + wiped >= SumFunction(userPositions)
    BY PoolFacts, PoolAssumption DEF PoolInv, PoolTypeOK, SharesAreCovered, SharesOfAll
<1>2. h \in Nat /\ h + h <= s
    BY <1>1, HalfFacts
<1>3. /\ reserves'[0] = reserves[0] - h /\ reserves'[1] = reserves[1] - h /\ wiped' = wiped
      /\ h <= reserves[0] /\ h <= reserves[1]
    BY DEF RemoveLiquidity
<1>4. n \in 0..ShareLimit /\ userPositions' = [userPositions EXCEPT ![a] = n]
    BY <1>1, PoolAssumption DEF RemoveLiquidity
<1>5. reserves' \in [0..1 -> 0..PoolLimit]
  <2>1. \A i \in 0..1 : reserves[i] \in 0..PoolLimit /\ h <= reserves[i]
      BY DEF PoolInv, PoolTypeOK, RemoveLiquidity
  <2>2. \A i \in 0..1 : reserves[i] - h \in 0..PoolLimit
    <3> HIDE DEF h
    <3> QED BY <1>2, <2>1, PoolAssumption
  <2> QED BY <2>2 DEF RemoveLiquidity
<1> HIDE DEF n, h
<1>6. /\ userPositions' \in [Account -> 0..ShareLimit]
      /\ SumFunction(userPositions') = SumFunction(userPositions) - userPositions[a] + n
      /\ SumFunction(userPositions) \in Nat
    BY <1>4, PositionMoves DEF PoolInv
<1>7. reserves'[0] + reserves'[1] + wiped' >= SumFunction(userPositions')
    BY <1>1, <1>2, <1>3, <1>6 DEF n
<1> QED BY <1>5, <1>6, <1>7 DEF PoolInv, PoolTypeOK, SharesAreCovered, SharesOfAll, RemoveLiquidity

\* A fee is never negative, so a swap pays out no more than it takes in.
LEMMA FeeFacts ==
    ASSUME PoolTypeOK, NEW x \in Nat
    PROVE  AfterFee(x) \in Int /\ AfterFee(x) <= x
<1> DEFINE gross == x * feeRate
           fee == gross \div FeeBase
<1>1. feeRate \in Nat /\ FeeBase \in Nat \ {0}
    BY PoolAssumption DEF PoolTypeOK
<1>2. gross \in Nat
    BY <1>1
<1>3. fee \in Nat
  <2> HIDE DEF gross
  <2> QED BY <1>1, <1>2
<1> HIDE DEF fee
<1>4. AfterFee(x) = x - fee
    BY DEF AfterFee, fee
<1> QED BY <1>3, <1>4

LEMMA SwapInv ==
    ASSUME PoolInv, NEW in \in 0..1, NEW x \in 0..PoolLimit, BridgeSwap(in, x)
    PROVE  PoolInv'
<1> DEFINE out == AfterFee(x)
<1>1. /\ reserves[0] \in Nat /\ reserves[1] \in Nat /\ wiped \in Nat /\ x \in Nat
      /\ SharesOfAll \in Nat /\ reserves[0] + reserves[1] + wiped >= SharesOfAll
    BY PoolFacts DEF PoolInv, SharesAreCovered
<1>2. out \in Int /\ out <= x
    BY <1>1, FeeFacts DEF PoolInv
<1>3. /\ out \in 0..reserves[1 - in] /\ reserves[in] + x <= PoolLimit
      /\ reserves' = [i \in 0..1 |-> IF i = in THEN reserves[i] + x ELSE reserves[i] - out]
      /\ UNCHANGED <<feeRate, userPositions, wiped, inits>>
    BY DEF BridgeSwap
<1> HIDE DEF out
<1>4. reserves'[0] + reserves'[1] >= reserves[0] + reserves[1]
      /\ reserves'[0] \in Nat /\ reserves'[1] \in Nat
  <2>1. CASE in = 0
      BY <1>1, <1>2, <1>3, <2>1
  <2>2. CASE in = 1
      BY <1>1, <1>2, <1>3, <2>2
  <2> QED BY <2>1, <2>2
<1>5. reserves'[0] + reserves'[1] + wiped' >= SharesOfAll
    BY <1>1, <1>3, <1>4
<1>6. reserves' \in [0..1 -> 0..PoolLimit]
  <2>1. \A i \in 0..1 : reserves[i] \in 0..PoolLimit /\ (i # in => i = 1 - in)
      BY DEF PoolInv, PoolTypeOK
  <2>2. \A i \in 0..1 : (IF i = in THEN reserves[i] + x ELSE reserves[i] - out) \in 0..PoolLimit
      BY <1>1, <1>2, <1>3, <2>1, PoolAssumption
  <2> QED BY <1>3, <2>2
<1> QED BY <1>3, <1>5, <1>6 DEF PoolInv, PoolTypeOK, SharesAreCovered, SharesOfAll

LEMMA PoolInvInit == PoolInit => PoolInv
<1> SUFFICES ASSUME PoolInit PROVE PoolInv
    OBVIOUS
<1>1. PoolTypeOK
    BY PoolAssumption DEF PoolInit, PoolTypeOK
<1>2. SharesOfAll = 0
    BY TotalOfZeros, PoolAssumption DEF SharesOfAll, PoolInit
<1> QED BY <1>1, <1>2 DEF PoolInv, SharesAreCovered, PoolInit

LEMMA PoolInvNext == PoolInv /\ [PoolNext]_poolVars => PoolInv'
<1> SUFFICES ASSUME PoolInv, [PoolNext]_poolVars PROVE PoolInv'
    OBVIOUS
<1>1. CASE \E rate \in FeeRate : InitializePool(rate)
    BY <1>1, InitializeInv
<1>2. CASE \E a \in Account : \E x, y \in 0..PoolLimit : AddLiquidity(a, x, y)
    BY <1>2, AddInv
<1>3. CASE \E a \in Account : \E shares \in 0..ShareLimit : RemoveLiquidity(a, shares)
    BY <1>3, RemoveInv
<1>4. CASE \E in \in 0..1, x \in 0..PoolLimit : BridgeSwap(in, x)
    BY <1>4, SwapInv
<1>5. CASE UNCHANGED poolVars
    BY <1>5 DEF poolVars, PoolInv, PoolTypeOK, SharesAreCovered, SharesOfAll
<1> QED BY <1>1, <1>2, <1>3, <1>4, <1>5 DEF PoolNext

\* For any number of users, any widths and any fee, one above 100% included,
\* the two reserves cover the shares of all, but for what a renewed
\* initialisation has wiped: every rounding goes to the pool.
THEOREM PoolSharesAreCovered == PoolSpec => []SharesAreCovered
<1>1. PoolInv => SharesAreCovered
    BY DEF PoolInv
<1> QED BY <1>1, PoolInvInit, PoolInvNext, PTL DEF PoolSpec
------------------------------------------------------------------------------
\* OptimisticDispute and its monitor: the collateral of the open proposals, and the
\* alerts about fraudulent ones.

USE DisputeAssumption

\* Ids beyond the counter are blank, and long past their deadline.
BlankBeyond == \A id \in ProposalId : id >= nextProposalId => proposals[id] = Blank

EngineInv == DisputeTypeOK /\ BlankBeyond /\ now >= Genesis /\ CollateralIsBacked

LEMMA EngineInvInit == DisputeInit => EngineInv
<1> SUFFICES ASSUME DisputeInit PROVE EngineInv
    OBVIOUS
<1>1. DisputeTypeOK /\ BlankBeyond /\ now >= Genesis
    BY DEF DisputeInit, DisputeTypeOK, BlankBeyond, Blank, Proposal, ProposalId
<1>2. Open = {}
    BY DEF Open, DisputeInit
<1>3. CollateralIsBacked
    BY <1>2, FS_EmptySet DEF CollateralIsBacked, DisputeInit, Settled, Blank
<1> QED
    BY <1>1, <1>3 DEF EngineInv

LEMMA OpenIsFinite ==
    ASSUME DisputeTypeOK
    PROVE  IsFiniteSet(Open)
<1>1. IsFiniteSet(0..(nextProposalId - 1))
    BY FS_Interval DEF DisputeTypeOK, ProposalId
<1>2. Open \subseteq 0..(nextProposalId - 1)
    BY DEF Open
<1> QED
    BY <1>1, <1>2, FS_Subset

LEMMA ProposeStateBacked ==
    ASSUME EngineInv, NEW sender \in Address, NEW canonical \in BOOLEAN,
           ProposeState(sender, canonical)
    PROVE  EngineInv'
<1> DEFINE n == nextProposalId
<1>0. n \in ProposalId /\ n < MaxProposals /\ n \in Nat
    BY DEF EngineInv, DisputeTypeOK, ProposalId, ProposeState
<1>1. (DisputeTypeOK /\ BlankBeyond /\ now >= Genesis)'
    BY <1>0 DEF EngineInv, DisputeTypeOK, BlankBeyond, ProposeState, Proposal, ProposalId
<1>2. \A id \in ProposalId : Settled(id)' = Settled(id)
    BY <1>0 DEF ProposeState, Settled, EngineInv, DisputeTypeOK, BlankBeyond, Blank
<1>3. Open' = Open \cup {n} /\ n \notin Open
  <2>1. ~Settled(n)
      BY <1>0 DEF EngineInv, BlankBeyond, Blank, Settled
  <2> QED
      BY <2>1, <1>0, <1>2 DEF Open, ProposeState, ProposalId
<1>4. Cardinality(Open') = Cardinality(Open) + 1
    BY <1>3, FS_AddElement, OpenIsFinite DEF EngineInv
<1>5. CollateralIsBacked'
    BY <1>2, <1>4 DEF EngineInv, CollateralIsBacked, ProposeState
<1> QED
    BY <1>1, <1>5 DEF EngineInv

\* A dispute and a finalisation settle one open proposal and pay one unit.
LEMMA SettleBacked ==
    ASSUME EngineInv, NEW to, NEW id \in ProposalId, NEW f \in {"disputed", "finalized"},
           ~Settled(id), id < nextProposalId, PayOut(to, id),
           proposals' = [proposals EXCEPT ![id] = [@ EXCEPT ![f] = TRUE]],
           UNCHANGED <<now, nextProposalId>>
    PROVE  EngineInv'
<1>0. id \in Nat /\ nextProposalId \in Nat /\ id <= MaxProposals
    BY DEF EngineInv, DisputeTypeOK, ProposalId
<1>1. proposals'[id] \in Proposal /\ Settled(id)'
  <2>1. proposals[id] \in Proposal
      BY DEF EngineInv, DisputeTypeOK
  <2>2. CASE f = "disputed"
      BY <2>1, <2>2 DEF EngineInv, DisputeTypeOK, Proposal, Settled
  <2>3. CASE f = "finalized"
      BY <2>1, <2>3 DEF EngineInv, DisputeTypeOK, Proposal, Settled
  <2> QED
      BY <2>2, <2>3
<1>2. \A i \in ProposalId : i # id => proposals'[i] = proposals[i]
    BY DEF EngineInv, DisputeTypeOK
<1>3. (DisputeTypeOK /\ BlankBeyond /\ now >= Genesis)'
  <2>1. proposals' \in [ProposalId -> Proposal]
      BY <1>1, <1>2 DEF EngineInv, DisputeTypeOK
  <2>2. balance' \in Nat /\ payouts' \in [ProposalId -> Nat]
      BY DEF EngineInv, DisputeTypeOK, PayOut, CanTransfer
  <2>3. BlankBeyond'
      BY <1>0, <1>2 DEF EngineInv, BlankBeyond, ProposalId
  <2> QED
      BY <2>1, <2>2, <2>3 DEF EngineInv, DisputeTypeOK
<1>4. \A i \in ProposalId : Settled(i)' <=> Settled(i) \/ i = id
    BY <1>1, <1>2 DEF Settled
<1>5. Open' = Open \ {id} /\ id \in Open
  <2>1. 0..(nextProposalId - 1) \subseteq ProposalId
      BY DEF EngineInv, DisputeTypeOK, ProposalId
  <2> QED
      BY <1>0, <1>4, <2>1 DEF Open, ProposalId
<1>6. Cardinality(Open') = Cardinality(Open) - 1
    BY <1>5, OpenIsFinite, FS_RemoveElement DEF EngineInv
<1>7. CollateralIsBacked'
  <2>1. \A i \in ProposalId : payouts'[i] = IF Settled(i)' THEN 1 ELSE 0
      BY <1>4 DEF EngineInv, DisputeTypeOK, CollateralIsBacked, PayOut
  <2>2. balance' = Cardinality(Open')
      BY <1>6 DEF EngineInv, CollateralIsBacked, PayOut
  <2> QED
      BY <2>1, <2>2 DEF CollateralIsBacked
<1> QED
    BY <1>3, <1>7 DEF EngineInv

\* A proposal that was never made cannot be settled: it is too old to be
\* disputed, and nobody can be paid for it.
LEMMA OnlyMadeAreSettled ==
    ASSUME EngineInv, NEW id \in ProposalId,
           Disputable(id) \/ CanTransfer(proposals[id].proposer)
    PROVE  id < nextProposalId
<1> SUFFICES ASSUME id >= nextProposalId PROVE FALSE
    BY DEF EngineInv, DisputeTypeOK, ProposalId
<1>1. proposals[id] = Blank
    BY DEF EngineInv, BlankBeyond
<1>2. ~Disputable(id)
    BY <1>1 DEF EngineInv, DisputeTypeOK, Blank, Disputable, WithinPeriod, Deadline
<1> QED
    BY <1>1, <1>2 DEF Blank, CanTransfer

LEMMA EngineInvNext == EngineInv /\ [DisputeNext]_disputeVars => EngineInv'
<1> SUFFICES ASSUME EngineInv, [DisputeNext]_disputeVars PROVE EngineInv'
    OBVIOUS
<1>1. ASSUME NEW a \in Address, NEW c \in BOOLEAN, ProposeState(a, c)
      PROVE  EngineInv'
    BY <1>1, ProposeStateBacked
<1>2. ASSUME NEW a \in Address, NEW id \in ProposalId, DisputeState(a, id)
      PROVE  EngineInv'
  <2>1. id < nextProposalId /\ ~Settled(id)
      BY <1>2, OnlyMadeAreSettled DEF DisputeState, Disputable
  <2>2. proposals' = [proposals EXCEPT ![id] = [@ EXCEPT !["disputed"] = TRUE]]
      BY <1>2 DEF DisputeState
  <2> QED
      BY <1>2, <2>1, <2>2, SettleBacked DEF DisputeState
<1>3. ASSUME NEW id \in ProposalId, FinalizeState(id)
      PROVE  EngineInv'
  <2>1. id < nextProposalId /\ ~Settled(id)
      BY <1>3, OnlyMadeAreSettled DEF FinalizeState, Finalizable, PayOut
  <2>2. proposals' = [proposals EXCEPT ![id] = [@ EXCEPT !["finalized"] = TRUE]]
      BY <1>3 DEF FinalizeState
  <2> QED
      BY <1>3, <2>1, <2>2, SettleBacked DEF FinalizeState
<1>4. CASE NewBlock
  <2>1. (DisputeTypeOK /\ BlankBeyond /\ now >= Genesis)'
      BY <1>4 DEF EngineInv, DisputeTypeOK, BlankBeyond, NewBlock
  <2>2. Open' = Open
      BY <1>4 DEF Open, NewBlock, Settled
  <2> QED
      BY <1>4, <2>1, <2>2 DEF EngineInv, CollateralIsBacked, NewBlock, Settled
<1>5. CASE UNCHANGED disputeVars
  <2>1. Open' = Open
      BY <1>5 DEF Open, disputeVars, Settled
  <2> QED
      BY <1>5, <2>1 DEF EngineInv, DisputeTypeOK, BlankBeyond, CollateralIsBacked, disputeVars, Settled
<1> QED
    BY <1>1, <1>2, <1>3, <1>4, <1>5 DEF DisputeNext, EngineStep

\* The engine's records stay what they should be, whatever is called when.
THEOREM DisputeTypes == DisputeSpec => []DisputeTypeOK
<1>1. EngineInv => DisputeTypeOK
    BY DEF EngineInv
<1> QED
    BY <1>1, EngineInvInit, EngineInvNext, PTL DEF DisputeSpec

\* The engine holds one unit for every open proposal and has paid one for
\* every settled one, for any number of accounts and any period shorter than
\* the time since the epoch (disputeState and finalizeState).
THEOREM Collateral == DisputeSpec => []CollateralIsBacked
<1>1. EngineInv => CollateralIsBacked
    BY DEF EngineInv
<1> QED
    BY <1>1, EngineInvInit, EngineInvNext, PTL DEF DisputeSpec
------------------------------------------------------------------------------
USE MonitorAssumption

\* The monitor sees the engine through its transactions and its clock only.
LEMMA WatchIsDispute == [WatchNext]_watchVars => [DisputeNext]_disputeVars
BY DEF WatchNext, watchVars, WatchTick, DisputeNext

WatchTypes ==
    /\ DOMAIN tracked \subseteq ProposalId
    /\ \A id \in DOMAIN tracked : tracked[id] \in BOOLEAN
    /\ resolving \in [ProposalId -> Nat]
    /\ observed \in [ProposalId -> 0..MaxObserved]
    /\ \A id \in ProposalId : resolving[id] <= observed[id]
    /\ lastPoll \in Nat /\ Genesis <= lastPoll /\ lastPoll <= now
    /\ now <= lastPoll + PollEvery
    /\ inTime \subseteq ProposalId
    /\ warned \subseteq ProposalId

\* The monitor knows of proposals that have been made only.
OnlyMade ==
    /\ \A id \in DOMAIN tracked : id < nextProposalId /\ ~proposals[id].canonical
    /\ \A id \in ProposalId : resolving[id] > 0 => id < nextProposalId
    /\ \A id \in inTime : id < nextProposalId

FinalizedIsLate ==
    \A id \in ProposalId : proposals[id].finalized => now > Deadline(id)

\* An assertion nobody has been warned of is disputed, or waits for an alert
\* with at least one poll to come before the window closes.
StillWatched(id) ==
    \/ id \in warned
    \/ proposals[id].disputed /\ ~proposals[id].finalized
    \/ /\ ~Settled(id)
       /\ id \in DOMAIN tracked /\ ~tracked[id]
       /\ Deadline(id) > lastPoll + PollEvery

WatchInv ==
    /\ EngineInv /\ WatchTypes /\ OnlyMade /\ FinalizedIsLate
    /\ \A id \in inTime : StillWatched(id)

LEMMA WatchInvInit == WatchInit => WatchInv
<1> SUFFICES ASSUME WatchInit PROVE WatchInv
    OBVIOUS
<1>1. EngineInv
    BY EngineInvInit DEF WatchInit
<1>2. WatchTypes /\ OnlyMade
    BY DEF WatchInit, DisputeInit, WatchTypes, OnlyMade, ProposalId
<1>3. FinalizedIsLate
    BY DEF WatchInit, DisputeInit, FinalizedIsLate, Blank
<1> QED
    BY <1>1, <1>2, <1>3 DEF WatchInv, WatchInit

\* The alert zone is at least as long as the time between two polls.
LEMMA ZoneIsLong ==
    ASSUME NEW r \in Int, ~(r * AlertDen <= AlertNum * ChallengePeriod)
    PROVE  r > PollEvery
<1>1. r * AlertDen > PollEvery * AlertDen
    OBVIOUS
<1> SUFFICES ASSUME r <= PollEvery PROVE FALSE
    OBVIOUS
<1>2. (PollEvery - r) * AlertDen >= 0
    OBVIOUS
<1> QED
    BY <1>1, <1>2

\* An id that is evaluated while its window is open is announced or waits
\* for more than one interval between polls.
LEMMA EvaluatedIsWatched ==
    ASSUME WatchInv, NEW map, NEW ids, Evaluate(map, ids),
           NEW id \in ProposalId, id \in ids, id \in DOMAIN map, ~map[id],
           ~Settled(id), ~WindowClosed(id)
    PROVE  \/ id \in warned'
           \/ id \in DOMAIN tracked' /\ ~tracked'[id] /\ Deadline(id) > now + PollEvery
<1>1. Deadline(id) \in Int /\ now \in Int /\ now < Deadline(id)
    BY DEF WatchInv, EngineInv, DisputeTypeOK, Deadline, Proposal, WindowClosed, Remaining
<1>2. CASE InAlertZone(id)
    BY <1>1, <1>2 DEF Evaluate, Alerts, Disputable, WithinPeriod
<1>3. CASE ~InAlertZone(id)
  <2>1. Remaining(id) > PollEvery
      BY <1>1, <1>3, ZoneIsLong DEF InAlertZone, Remaining
  <2>2. id \in DOMAIN tracked' /\ ~tracked'[id]
      BY <1>3 DEF Evaluate, Alerts
  <2> QED
      BY <1>1, <2>1, <2>2 DEF Remaining
<1> QED
    BY <1>2, <1>3

\* What a transaction leaves of the proposals that have been made.
LEMMA EngineFacts ==
    ASSUME EngineInv, EngineStep
    PROVE  /\ UNCHANGED now /\ nextProposalId \in Nat /\ nextProposalId' >= nextProposalId
           /\ \A id \in ProposalId :
                 /\ proposals[id].finalized => proposals'[id].finalized
                 /\ proposals'[id].finalized /\ ~proposals[id].finalized => Finalizable(id)
                 /\ id < nextProposalId =>
                       /\ proposals'[id].timestamp = proposals[id].timestamp
                       /\ proposals'[id].canonical = proposals[id].canonical
                       /\ proposals[id].disputed => proposals'[id].disputed
                 /\ proposals'[id].finalized => proposals'[id].timestamp = proposals[id].timestamp
<1>0. /\ nextProposalId \in Nat
      /\ proposals \in [ProposalId -> Proposal]
      /\ \A id \in ProposalId : id >= nextProposalId => ~proposals[id].finalized
    BY DEF EngineInv, DisputeTypeOK, BlankBeyond, Blank, ProposalId
<1>1. ASSUME NEW a \in Address, NEW c \in BOOLEAN, ProposeState(a, c)
      PROVE  /\ UNCHANGED now /\ nextProposalId' >= nextProposalId
             /\ ~proposals'[nextProposalId].finalized /\ ~proposals[nextProposalId].finalized
             /\ \A id \in ProposalId : id # nextProposalId => proposals'[id] = proposals[id]
    BY <1>1, <1>0 DEF ProposeState, ProposalId
<1>2. ASSUME NEW a \in Address, NEW i \in ProposalId, DisputeState(a, i)
      PROVE  /\ UNCHANGED <<now, nextProposalId>>
             /\ proposals' = [proposals EXCEPT ![i].disputed = TRUE]
    BY <1>2 DEF DisputeState
<1>3. ASSUME NEW i \in ProposalId, FinalizeState(i)
      PROVE  /\ UNCHANGED <<now, nextProposalId>> /\ Finalizable(i)
             /\ proposals' = [proposals EXCEPT ![i].finalized = TRUE]
    BY <1>3 DEF FinalizeState
<1> QED
    BY <1>0, <1>1, <1>2, <1>3 DEF EngineStep, Proposal

LEMMA EngineKeepsWatch ==
    ASSUME WatchInv, EngineStep, UNCHANGED monitorVars
    PROVE  WatchInv'
<1>0. EngineInv /\ EngineInv'
    BY EngineInvNext DEF WatchInv, DisputeNext
<1>1. WatchTypes'
    BY <1>0, EngineFacts DEF WatchInv, WatchTypes, monitorVars
<1>2. OnlyMade'
  <2>1. /\ \A i \in ProposalId : i < nextProposalId => i < nextProposalId'
        /\ \A i \in ProposalId :
              i < nextProposalId => proposals'[i].canonical = proposals[i].canonical
      BY <1>0, EngineFacts DEF EngineInv, DisputeTypeOK, ProposalId
  <2> QED
      BY <2>1 DEF WatchInv, OnlyMade, WatchTypes, monitorVars
<1>3. FinalizedIsLate'
  <2> SUFFICES ASSUME NEW id \in ProposalId, proposals'[id].finalized PROVE now' > Deadline(id)'
      BY DEF FinalizedIsLate
  <2>1. now > Deadline(id)
      BY <1>0, EngineFacts DEF WatchInv, FinalizedIsLate, Finalizable, WithinPeriod, EngineInv,
             DisputeTypeOK, Deadline, Proposal
  <2> QED
      BY <2>1, <1>0, EngineFacts DEF Deadline
<1>4. ASSUME NEW id \in inTime' PROVE StillWatched(id)'
  <2>0. id \in ProposalId /\ id < nextProposalId /\ StillWatched(id)
      BY <1>4 DEF WatchInv, WatchTypes, OnlyMade, monitorVars
  <2>1. CASE id \in warned
      BY <2>1 DEF StillWatched, monitorVars
  <2>2. CASE proposals[id].disputed /\ ~proposals[id].finalized
      BY <2>0, <2>2, <1>0, EngineFacts DEF StillWatched, Finalizable, Settled
  <2>3. CASE /\ ~Settled(id)
             /\ id \in DOMAIN tracked /\ ~tracked[id]
             /\ Deadline(id) > lastPoll + PollEvery
    <3>1. now <= Deadline(id)
        BY <2>0, <2>3 DEF WatchInv, WatchTypes, EngineInv, DisputeTypeOK, Deadline, Proposal
    <3>2. ~proposals'[id].finalized
        BY <2>0, <2>3, <3>1, <1>0, EngineFacts DEF Finalizable, WithinPeriod, Settled
    <3>3. Deadline(id)' = Deadline(id)
        BY <2>0, <1>0, EngineFacts DEF Deadline
    <3> QED
        BY <2>3, <3>2, <3>3 DEF StillWatched, Settled, monitorVars
  <2> QED
      BY <2>0, <2>1, <2>2, <2>3 DEF StillWatched
<1> QED
    BY <1>0, <1>1, <1>2, <1>3, <1>4 DEF WatchInv

LEMMA TickKeepsWatch ==
    ASSUME WatchInv, WatchTick, UNCHANGED monitorVars
    PROVE  WatchInv'
<1>0. EngineInv /\ EngineInv'
    BY EngineInvNext DEF WatchInv, DisputeNext, WatchTick
<1>1. WatchTypes'
    BY <1>0 DEF WatchInv, WatchTypes, monitorVars, WatchTick, NewBlock, EngineInv, DisputeTypeOK
<1>2. OnlyMade'
    BY DEF WatchInv, OnlyMade, monitorVars, WatchTick, NewBlock
<1>3. FinalizedIsLate'
    BY <1>0 DEF WatchInv, FinalizedIsLate, WatchTick, NewBlock, Deadline, EngineInv, DisputeTypeOK, Proposal
<1>4. \A id \in inTime' : StillWatched(id)'
    BY DEF WatchInv, StillWatched, Settled, Deadline, WatchTick, NewBlock, monitorVars
<1> QED
    BY <1>0, <1>1, <1>2, <1>3, <1>4 DEF WatchInv

\* A step of the monitor alone: what it has to show.
LEMMA MonitorFrame ==
    ASSUME WatchInv, UNCHANGED disputeVars
    PROVE  /\ EngineInv' /\ FinalizedIsLate'
           /\ \A id \in ProposalId :
                 Settled(id)' = Settled(id) /\ Deadline(id)' = Deadline(id)
<1>1. EngineInv'
    BY EngineInvNext DEF WatchInv
<1> QED
    BY <1>1 DEF WatchInv, FinalizedIsLate, Deadline, Settled, disputeVars

LEMMA TrackKeepsWatch ==
    ASSUME WatchInv, UNCHANGED disputeVars, NEW id \in ProposalId,
           TrackAssertion(id) \/ RootUnavailable(id) \/ UntrackAssertion(id)
    PROVE  WatchInv'
<1>1. WatchTypes'
    BY DEF WatchInv, WatchTypes, disputeVars, TrackAssertion, RootUnavailable, UntrackAssertion
<1>2. OnlyMade'
    BY DEF WatchInv, WatchTypes, OnlyMade, disputeVars, TrackAssertion, RootUnavailable,
           UntrackAssertion
<1>3. ASSUME NEW i \in inTime' PROVE StillWatched(i)'
  <2>1. i \in inTime /\ i \in ProposalId /\ StillWatched(i) /\ lastPoll' = lastPoll /\ warned' = warned
      BY <1>3 DEF WatchInv, WatchTypes, TrackAssertion, RootUnavailable, UntrackAssertion
  <2>2. CASE UntrackAssertion(id)
      BY <2>1, <2>2, MonitorFrame DEF UntrackAssertion, StillWatched, Settled, disputeVars
  <2>3. CASE UNCHANGED tracked
      BY <2>1, <2>3, MonitorFrame DEF StillWatched, Settled, disputeVars
  <2> QED
      BY <2>2, <2>3 DEF TrackAssertion, RootUnavailable
<1> QED
    BY <1>1, <1>2, <1>3, MonitorFrame DEF WatchInv

LEMMA RootKnownKeepsWatch ==
    ASSUME WatchInv, UNCHANGED disputeVars, NEW id \in ProposalId, RootKnown(id)
    PROVE  WatchInv'
<1>0. /\ resolving[id] > 0 /\ id < nextProposalId
      /\ resolving' = [resolving EXCEPT ![id] = @ - 1]
      /\ UNCHANGED <<lastPoll, observed>>
    BY DEF RootKnown, WatchInv, OnlyMade
<1>a. /\ UNCHANGED <<now, nextProposalId, proposals>>
      /\ \A i \in ProposalId : resolving'[i] \in Nat /\ resolving'[i] <= resolving[i]
    BY <1>0 DEF disputeVars, WatchInv, WatchTypes
<1>1. CASE UNCHANGED <<tracked, inTime, warned>>
  <2>1. WatchTypes'
      BY <1>0, <1>1, <1>a DEF WatchInv, WatchTypes
  <2>2. OnlyMade'
      BY <1>0, <1>1, <1>a DEF WatchInv, OnlyMade, WatchTypes
  <2>3. \A i \in inTime' : StillWatched(i)'
      BY <1>0, <1>1, <1>a, MonitorFrame DEF WatchInv, WatchTypes, StillWatched
  <2> QED
      BY <2>1, <2>2, <2>3, MonitorFrame DEF WatchInv
<1>2. CASE /\ ~proposals[id].canonical
           /\ inTime' = IF WindowClosed(id) THEN inTime ELSE inTime \cup {id}
           /\ Evaluate(Watched(id), {id})
  <2>1. /\ DOMAIN Watched(id) = DOMAIN tracked \cup {id}
        /\ ~Watched(id)[id]
        /\ \A i \in DOMAIN tracked : i # id => Watched(id)[i] = tracked[i]
      BY DEF WatchInv, WatchTypes, Watched
  <2>2. /\ DOMAIN tracked' \subseteq DOMAIN tracked \cup {id}
        /\ \A i \in DOMAIN tracked' : tracked'[i] \in BOOLEAN
        /\ \A i \in DOMAIN tracked : i # id => i \in DOMAIN tracked' /\ tracked'[i] = tracked[i]
        /\ warned \subseteq warned' /\ warned' \subseteq warned \cup {id}
      BY <1>2, <2>1 DEF Evaluate, WatchInv, WatchTypes
  <2>3. WatchTypes'
      BY <1>0, <1>2, <1>a, <2>2 DEF WatchInv, WatchTypes
  <2>4. OnlyMade'
      BY <1>0, <1>2, <1>a, <2>2 DEF WatchInv, OnlyMade, WatchTypes
  <2>5. ASSUME NEW i \in inTime', i # id PROVE StillWatched(i)'
      BY <1>0, <1>2, <1>a, <2>2, <2>5, MonitorFrame DEF WatchInv, WatchTypes, StillWatched
  <2>6. ASSUME id \in inTime', WindowClosed(id) PROVE StillWatched(id)'
    <3>1. StillWatched(id) /\ Deadline(id) <= now /\ now <= lastPoll + PollEvery
        BY <1>2, <2>6 DEF WatchInv, WatchTypes, WindowClosed, Remaining, EngineInv, DisputeTypeOK,
               Deadline, Proposal
    <3>2. ~(Deadline(id) > lastPoll + PollEvery)
        BY <3>1 DEF WatchInv, WatchTypes, EngineInv, DisputeTypeOK, Deadline, Proposal
    <3> QED
        BY <3>1, <3>2, <2>2, <1>a DEF StillWatched
  <2>7. ASSUME ~WindowClosed(id) PROVE StillWatched(id)'
    <3>1. ~proposals[id].finalized
        BY <2>7 DEF WatchInv, FinalizedIsLate, WindowClosed, Remaining, EngineInv, DisputeTypeOK,
               Deadline, Proposal
    <3>2. CASE proposals[id].disputed
        BY <3>1, <3>2, <1>a DEF StillWatched
    <3>3. CASE ~proposals[id].disputed
      <4>1. \/ id \in warned'
            \/ id \in DOMAIN tracked' /\ ~tracked'[id] /\ Deadline(id) > now + PollEvery
          BY <3>1, <3>3, <2>1, <2>7, <1>2, EvaluatedIsWatched DEF Settled
      <4>2. Deadline(id) > now + PollEvery => Deadline(id) > lastPoll + PollEvery
          BY DEF WatchInv, WatchTypes, EngineInv, DisputeTypeOK, Deadline, Proposal
      <4> QED
          BY <4>1, <4>2, <3>1, <3>3, <1>0, MonitorFrame DEF StillWatched, Settled
    <3> QED
        BY <3>2, <3>3
  <2> QED
      BY <2>3, <2>4, <2>5, <2>6, <2>7, MonitorFrame DEF WatchInv
<1> QED
    BY <1>1, <1>2 DEF RootKnown

LEMMA PollKeepsWatch ==
    ASSUME WatchInv, UNCHANGED disputeVars, CheckPendingAssertions
    PROVE  WatchInv'
<1>0. /\ lastPoll' = now /\ Evaluate(tracked, DOMAIN tracked)
      /\ UNCHANGED <<resolving, observed, inTime, now, nextProposalId, proposals>>
    BY DEF CheckPendingAssertions, disputeVars
<1>1. /\ DOMAIN tracked' \subseteq DOMAIN tracked
      /\ \A i \in DOMAIN tracked' : tracked'[i] \in BOOLEAN
      /\ warned \subseteq warned' /\ warned' \subseteq warned \cup DOMAIN tracked
    BY <1>0 DEF Evaluate, WatchInv, WatchTypes
<1>2. WatchTypes'
    BY <1>0, <1>1 DEF WatchInv, WatchTypes, EngineInv, DisputeTypeOK
<1>3. OnlyMade'
    BY <1>0, <1>1 DEF WatchInv, OnlyMade
<1>4. ASSUME NEW i \in inTime' PROVE StillWatched(i)'
  <2>0. i \in inTime /\ i \in ProposalId /\ StillWatched(i)
      BY <1>0, <1>4 DEF WatchInv, WatchTypes
  <2>1. CASE i \in warned
      BY <2>1, <1>1 DEF StillWatched
  <2>2. CASE proposals[i].disputed /\ ~proposals[i].finalized
      BY <2>2, <1>0 DEF StillWatched
  <2>3. CASE /\ ~Settled(i)
             /\ i \in DOMAIN tracked /\ ~tracked[i]
             /\ Deadline(i) > lastPoll + PollEvery
    <3>1. ~WindowClosed(i)
        BY <2>0, <2>3 DEF WatchInv, WatchTypes, EngineInv, DisputeTypeOK, Deadline, Proposal,
               WindowClosed, Remaining
    <3> QED
        BY <2>0, <2>3, <3>1, <1>0, EvaluatedIsWatched, MonitorFrame DEF StillWatched
  <2> QED
      BY <2>0, <2>1, <2>2, <2>3 DEF StillWatched
<1> QED
    BY <1>0, <1>2, <1>3, <1>4, MonitorFrame DEF WatchInv

LEMMA WatchInvNext == WatchInv /\ [WatchNext]_watchVars => WatchInv'
<1> SUFFICES ASSUME WatchInv, [WatchNext]_watchVars PROVE WatchInv'
    OBVIOUS
<1>1. CASE EngineStep /\ UNCHANGED monitorVars
    BY <1>1, EngineKeepsWatch
<1>2. CASE WatchTick /\ UNCHANGED monitorVars
    BY <1>2, TickKeepsWatch
<1>3. CASE MonitorStep /\ UNCHANGED disputeVars
    BY <1>3, TrackKeepsWatch, RootKnownKeepsWatch, PollKeepsWatch DEF MonitorStep
<1>4. CASE UNCHANGED watchVars
  <2>1. UNCHANGED disputeVars /\ UNCHANGED monitorVars
      BY <1>4 DEF watchVars
  <2>2. WatchTypes' /\ OnlyMade'
      BY <2>1 DEF WatchInv, WatchTypes, OnlyMade, disputeVars, monitorVars
  <2>3. \A id \in inTime' : StillWatched(id)'
      BY <2>1, MonitorFrame DEF WatchInv, WatchTypes, StillWatched, disputeVars, monitorVars
  <2> QED
      BY <2>1, <2>2, <2>3, MonitorFrame DEF WatchInv
<1> QED
    BY <1>1, <1>2, <1>3, <1>4 DEF WatchNext

\* The monitor's maps and counters, beside the engine's records.
THEOREM WatchTypeCorrectness == WatchSpec => []WatchTypeOK
<1>1. WatchInv => WatchTypeOK
    BY DEF WatchInv, EngineInv, WatchTypes, OnlyMade, WatchTypeOK, DisputeTypeOK
<1> QED
    BY <1>1, WatchInvInit, WatchInvNext, PTL DEF WatchSpec

\* An engine that is watched is still the engine: with the monitor's steps it
\* implements DisputeSpec, so that what is proved of that holds here.
THEOREM WatchImplementsDispute == WatchSpec => DisputeSpec
BY WatchIsDispute, PTL DEF WatchSpec, DisputeSpec, WatchInit

\* With an alert zone that is at least as long as the time between two polls,
\* no invalid root that the monitor knew of in time is finalised before an
\* alert has named it, for every period and in every order of late roots,
\* polls, repeated observations and disputes (evaluateAssertion).
THEOREM NoSilentFraud == WatchSpec => []FraudIsAnnounced
<1>1. WatchInv => FraudIsAnnounced
    BY DEF WatchInv, WatchTypes, StillWatched, Settled, FraudIsAnnounced
<1> QED
    BY <1>1, WatchInvInit, WatchInvNext, PTL DEF WatchSpec
==============================================================================
