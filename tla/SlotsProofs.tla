---------------------------- MODULE SlotsProofs -----------------------------
(***************************************************************************)
(* Distribute and TargetCounts are right for every slot space and every    *)
(* number of shards it can be split into, not only for those TLC tries.    *)
(* Everything follows from where the integer quotients of the code lie.    *)
(* The second part is about sums over finite sets, which count the slots   *)
(* of the nodes in Reconciler.                                             *)
(***************************************************************************)
EXTENDS Slots, FiniteSetsExt, FiniteSetTheorems, TLAPS

\* A product with a positive factor grows with the other factor.
LEMMA ProductOrder ==
    ASSUME NEW k \in Nat \ {0}, NEW a \in Int, NEW b \in Int, k * a < k * b
    PROVE  a < b
<1>1. SUFFICES ASSUME b <= a PROVE k * b <= k * a
    BY Z3
<1>2. \A c \in Nat : k * c \in Nat
    BY Z3
<1>3. k * (a - b) \in Nat
    BY <1>1, <1>2, Z3
<1>4. k * (a - b) = k * a - k * b
    BY Z3
<1> QED BY <1>3, <1>4, Z3

\* The integer quotient lies within one divisor of the dividend.
LEMMA Quotient ==
    ASSUME NEW a \in Nat, NEW k \in Nat \ {0}
    PROVE  /\ a \div k \in Nat
           /\ k * (a \div k) <= a
           /\ a < k * (a \div k) + k
    BY Z3

\* Where the range of shard i begins; that of shard i - 1 ends just before.
Cut(i, k) == (i * TotalSlots) \div k

\* The cuts of two shards that follow one another: each is a quotient, and the dividends
\* are one slot space apart.
LEMMA Cuts ==
    ASSUME NEW k \in Nat \ {0}, NEW i \in Nat
    PROVE  /\ Cut(i, k) \in Nat /\ Cut(i + 1, k) \in Nat
           /\ k * Cut(i, k) <= i * TotalSlots /\ i * TotalSlots < k * Cut(i, k) + k
           /\ k * Cut(i + 1, k) <= i * TotalSlots + TotalSlots
           /\ i * TotalSlots + TotalSlots < k * Cut(i + 1, k) + k
<1>1. /\ i * TotalSlots \in Nat /\ (i + 1) * TotalSlots \in Nat
      /\ (i + 1) * TotalSlots = i * TotalSlots + TotalSlots
    BY SlotsAssumption, Z3
<1>2. /\ Cut(i, k) \in Nat
      /\ k * Cut(i, k) <= i * TotalSlots /\ i * TotalSlots < k * Cut(i, k) + k
    BY <1>1, Quotient, Zenon DEF Cut
<1>3. /\ Cut(i + 1, k) \in Nat
      /\ k * Cut(i + 1, k) <= (i + 1) * TotalSlots
      /\ (i + 1) * TotalSlots < k * Cut(i + 1, k) + k
    BY <1>1, Quotient, Zenon DEF Cut
<1> QED BY <1>1, <1>2, <1>3, Zenon

\* A cut is a slot number, or the end of the slot space.
LEMMA CutIsNat ==
    ASSUME NEW k \in Nat \ {0}, NEW i \in Nat
    PROVE  Cut(i, k) \in Nat
BY Cuts, Zenon

\* The first cut is at 0 and the last one at the end of the slot space.
LEMMA OuterCuts ==
    ASSUME NEW k \in Nat \ {0}
    PROVE  Cut(0, k) = 0 /\ Cut(k, k) = TotalSlots
<1>1. Cut(0, k) = 0
    <2>1. Cut(0, k) \in Nat /\ k * Cut(0, k) <= 0 * TotalSlots
        BY Cuts, Zenon
    <2>2. k * Cut(0, k) < k * 1
        BY <2>1, SlotsAssumption, Z3
    <2>3. Cut(0, k) < 1
        BY <2>1, <2>2, ProductOrder
    <2> QED BY <2>1, <2>3
<1>2. Cut(k, k) = TotalSlots
    <2>1. /\ Cut(k, k) \in Nat /\ k * Cut(k, k) <= k * TotalSlots
          /\ k * TotalSlots < k * Cut(k, k) + k
        BY Cuts, Zenon
    <2>2. k * Cut(k, k) < k * (TotalSlots + 1) /\ k * TotalSlots < k * (Cut(k, k) + 1)
        BY <2>1, SlotsAssumption, Z3
    <2>3. Cut(k, k) < TotalSlots + 1 /\ TotalSlots < Cut(k, k) + 1
        BY <2>1, <2>2, SlotsAssumption, ProductOrder
    <2> QED BY <2>1, <2>3, SlotsAssumption
<1> QED BY <1>1, <1>2, Zenon

\* No cut is beyond the end of the slot space.
LEMMA CutBound ==
    ASSUME NEW k \in Nat \ {0}, NEW i \in 0..k
    PROVE  Cut(i, k) <= TotalSlots
<1>1. Cut(i, k) \in Nat /\ k * Cut(i, k) <= i * TotalSlots
    BY Cuts
<1>2. i * TotalSlots <= k * TotalSlots
    BY SlotsAssumption, Z3
<1>3. k * Cut(i, k) < k * (TotalSlots + 1)
    <2>1. k * (TotalSlots + 1) = k * TotalSlots + k
        BY SlotsAssumption, Z3
    <2>2. k * Cut(i, k) \in Int /\ i * TotalSlots \in Int /\ k * TotalSlots \in Int
        BY <1>1, SlotsAssumption, Z3
    <2> QED BY <1>1, <1>2, <2>1, <2>2
<1>4. Cut(i, k) < TotalSlots + 1
    BY <1>1, <1>3, SlotsAssumption, ProductOrder
<1> QED BY <1>1, <1>4, SlotsAssumption

\* The distance of two cuts that follow one another is an even share, to within one slot.
LEMMA CutDistance ==
    ASSUME NEW k \in Nat \ {0}, NEW i \in Nat
    PROVE  Cut(i + 1, k) - Cut(i, k) \in {TotalSlots \div k, TotalSlots \div k + 1}
<1> DEFINE share == TotalSlots \div k
           near == Cut(i, k)
           far == Cut(i + 1, k)
<1>1. /\ near \in Nat /\ far \in Nat
      /\ k * near <= i * TotalSlots /\ i * TotalSlots < k * near + k
      /\ k * far <= i * TotalSlots + TotalSlots
      /\ i * TotalSlots + TotalSlots < k * far + k
    BY Cuts, Zenon
<1>2. share \in Nat /\ k * share <= TotalSlots /\ TotalSlots < k * share + k
    BY SlotsAssumption, Quotient, Zenon
<1>3. i * TotalSlots \in Nat
    BY SlotsAssumption, Z3
<1> HIDE DEF share, near, far
<1>4. k * (near + share) = k * near + k * share /\ k * (far + 1) = k * far + k
    BY <1>1, <1>2, Z3
<1>5. k * (near + share + 2) = k * near + k * share + k + k
    BY <1>1, <1>2, Z3
<1>6. k * near \in Int /\ k * far \in Int /\ k * share \in Int
    BY <1>1, <1>2, Z3
<1>7. k * (near + share) < k * (far + 1) /\ k * far < k * (near + share + 2)
    BY <1>1, <1>2, <1>3, <1>4, <1>5, <1>6, SlotsAssumption
<1>8. near + share < far + 1 /\ far < near + share + 2
    BY <1>1, <1>2, <1>7, ProductOrder
<1>9. far - near \in {share, share + 1}
    BY <1>1, <1>2, <1>8
<1> QED BY <1>9, Zenon DEF share, near, far

\* What Distribute and TargetCounts return, by the cuts.
LEMMA Ranges ==
    ASSUME NEW k \in Nat \ {0}, NEW i \in 0..k - 1
    PROVE  /\ Distribute(k)[i].Start = Cut(i, k)
           /\ Distribute(k)[i].End = Cut(i + 1, k) - 1
           /\ TargetCounts(k)[i] = Cut(i + 1, k) - Cut(i, k)
<1>1. /\ Distribute(k)[i].Start = Cut(i, k)
      /\ Distribute(k)[i].End = Cut(i + 1, k) - 1
    BY Zenon DEF Distribute, Cut
<1>2. Cut(i, k) \in Nat /\ Cut(i + 1, k) \in Nat
    BY i \in Nat, i + 1 \in Nat, CutIsNat, Zenon
<1> HIDE DEF Cut
<1>3. TargetCounts(k)[i] = Distribute(k)[i].End - Distribute(k)[i].Start + 1
    BY Zenon DEF TargetCounts
<1> QED BY <1>1, <1>2, <1>3

\* slots.Distribute: as long as there is a slot for each shard, the ranges follow one
\* another without a gap or an overlap, none is empty, and together they are all the slots.
THEOREM DistributePartitions == Partition
<1> SUFFICES ASSUME NEW k \in 1..TotalSlots
             PROVE  /\ Distribute(k)[0].Start = 0 /\ Distribute(k)[k - 1].End = TotalSlots - 1
                    /\ \A i \in 0..k - 1 : Distribute(k)[i].Start <= Distribute(k)[i].End
                    /\ \A i \in 0..k - 2 : Distribute(k)[i + 1].Start = Distribute(k)[i].End + 1
    BY Zenon DEF Partition
<1>1. k \in Nat \ {0} /\ TotalSlots \in Nat
    BY SlotsAssumption
<1>2. Distribute(k)[0].Start = 0
    BY <1>1, Ranges, OuterCuts
<1>3. Distribute(k)[k - 1].End = TotalSlots - 1
    <2>1. k - 1 \in 0..k - 1 /\ (k - 1) + 1 = k
        BY <1>1
    <2>2. Distribute(k)[k - 1].End = Cut((k - 1) + 1, k) - 1
        BY <1>1, <2>1, Ranges, Zenon
    <2> QED BY <1>1, <2>1, <2>2, OuterCuts, Zenon
<1>4. ASSUME NEW i \in 0..k - 1
      PROVE  Distribute(k)[i].Start <= Distribute(k)[i].End
    <2>1. TotalSlots \div k \in Nat /\ TotalSlots < k * (TotalSlots \div k) + k
        BY <1>1, Quotient, Zenon
    <2>2. k * 1 < k * (TotalSlots \div k + 1)
        <3>1. k * (TotalSlots \div k + 1) = k * (TotalSlots \div k) + k
            BY <1>1, <2>1, Z3
        <3> QED BY <1>1, <2>1, <3>1
    <2>3. TotalSlots \div k >= 1
        <3>1. 1 < TotalSlots \div k + 1
            BY <1>1, <2>1, <2>2, ProductOrder
        <3> QED BY <2>1, <3>1
    <2>4. Cut(i + 1, k) - Cut(i, k) \in {TotalSlots \div k, TotalSlots \div k + 1}
        BY <1>1, CutDistance
    <2>5. Cut(i, k) \in Nat /\ Cut(i + 1, k) \in Nat
        BY <1>1, i \in Nat, i + 1 \in Nat, CutIsNat, Zenon
    <2> QED BY <1>1, <2>1, <2>3, <2>4, <2>5, Ranges
<1>5. ASSUME NEW i \in 0..k - 2
      PROVE  Distribute(k)[i + 1].Start = Distribute(k)[i].End + 1
    <2>1. i \in 0..k - 1 /\ i + 1 \in 0..k - 1
        BY <1>1
    <2>2. Cut(i + 1, k) \in Nat
        BY <1>1, i + 1 \in Nat, CutIsNat, Zenon
    <2> QED BY <1>1, <2>1, <2>2, Ranges
<1> QED BY <1>2, <1>3, <1>4, <1>5, Zenon

\* slots.TargetCounts: whatever the number of shards, the shares of any two differ by one
\* slot at most, and none is below the share that scaleOut gives a new shard.
THEOREM SharesAreEven == Balanced
<1> SUFFICES ASSUME NEW k \in 1..TotalSlots, NEW i \in 0..k - 1
             PROVE  TargetCounts(k)[i] \in {TotalSlots \div k, TotalSlots \div k + 1}
    BY Zenon DEF Balanced
<1>1. k \in Nat \ {0} /\ i \in Nat
    BY SlotsAssumption
<1> QED BY <1>1, Ranges, CutDistance, Zenon

-----------------------------------------------------------------------------
(***************************************************************************)
(* Sums over finite sets, as the fold of the community modules computes    *)
(* them. The fold takes the elements in an order of its own choice: the    *)
(* lemmas show that the order does not matter. They go by the least        *)
(* subset for which a claim fails.                                         *)
(***************************************************************************)

\* The sum of f over S: how Reconciler counts the slots the nodes own.
Sum(f, S) == MapThenSumSet(LAMBDA x : f[x], S)

\* The element the fold takes next, and the function it folds with.
Some(T) == CHOOSE x \in T : TRUE

\* g is a function the fold may choose: defined on all subsets, one element at a time.
Defines(g, f, S) ==
    g = [T \in SUBSET S |-> IF T = {} THEN 0 ELSE f[Some(T)] + g[T \ {Some(T)}]]

\* The one it does choose.
Sums(f, S) == CHOOSE g : Defines(g, f, S)

\* The fold of the community modules applies that function to the whole set.
LEMMA Unfold ==
    ASSUME NEW f, NEW S
    PROVE  Sum(f, S) = Sums(f, S)[S]
BY Zenon DEF Sum, MapThenSumSet, MapThenFoldSet, Sums, Defines, Some

\* Among sets of subsets of a finite set there is a least one.
LEMMA LeastSubset ==
    ASSUME NEW S, IsFiniteSet(S), NEW Bad \in SUBSET SUBSET S, Bad # {}
    PROVE  \E T \in Bad : \A U \in Bad : U \subseteq T => U = T
<1>1. IsWellFoundedOn(StrictSubsetOrdering(S), FiniteSubsetsOf(S))
    BY FS_StrictSubsetOrderingWellFounded, Zenon
<1>2. Bad \subseteq FiniteSubsetsOf(S)
    BY FS_FiniteSubsetsOfFinite, Zenon
<1>3. PICK T \in Bad : \A U \in Bad : ~(<<U, T>> \in StrictSubsetOrdering(S))
    BY <1>1, <1>2, WFMin, Zenon
<1> QED BY <1>3, Zenon DEF StrictSubsetOrdering

\* The element taken next is one of the set.
LEMMA SomeIsIn ==
    ASSUME NEW T, T # {}
    PROVE  Some(T) \in T
BY Zenon DEF Some

\* Two functions to fold with agree where both are defined.
LEMMA SumsAgree ==
    ASSUME NEW f, NEW S, IsFiniteSet(S), NEW R \in SUBSET S, NEW g, NEW h,
           Defines(g, f, S), Defines(h, f, R)
    PROVE  \A T \in SUBSET R : g[T] = h[T]
<1> DEFINE Bad == {T \in SUBSET R : g[T] # h[T]}
<1>1. SUFFICES ASSUME Bad # {} PROVE FALSE
    BY Zenon
<1>2. IsFiniteSet(R)
    BY FS_Subset, Zenon
<1>3. PICK T \in Bad : \A U \in Bad : U \subseteq T => U = T
    <2>1. Bad \in SUBSET SUBSET R
        BY Zenon
    <2> HIDE DEF Bad
    <2> QED BY <1>1, <1>2, <2>1, LeastSubset
<1>4. T # {}
    BY <1>3, Zenon DEF Defines
<1>5. Some(T) \in T
    BY <1>4, SomeIsIn, Zenon
<1>6. g[T \ {Some(T)}] = h[T \ {Some(T)}]
    BY <1>3, <1>5
<1>7. g[T] = f[Some(T)] + g[T \ {Some(T)}] /\ h[T] = f[Some(T)] + h[T \ {Some(T)}]
    BY <1>4, Zenon DEF Defines
<1> QED BY <1>6, <1>7, Zenon

\* There is a function to fold with.
LEMMA SumsExist ==
    ASSUME NEW f, NEW S, IsFiniteSet(S)
    PROVE  Defines(Sums(f, S), f, S)
<1> DEFINE Bad == {T \in SUBSET S : ~Defines(Sums(f, T), f, T)}
<1>1. SUFFICES ASSUME Bad # {} PROVE FALSE
    BY Zenon
<1>2. PICK T \in Bad : \A U \in Bad : U \subseteq T => U = T
    <2>1. Bad \in SUBSET SUBSET S
        BY Zenon
    <2> HIDE DEF Bad
    <2> QED BY <1>1, <2>1, LeastSubset
<1>3. \A U \in SUBSET T : U # T => Defines(Sums(f, U), f, U)
    BY <1>2, Zenon
<1>4. \A U \in SUBSET T : IsFiniteSet(U)
    BY FS_Subset, Zenon
<1> DEFINE Step(U) == IF U = {} THEN 0 ELSE f[Some(U)] + Sums(f, U \ {Some(U)})[U \ {Some(U)}]
           g == [U \in SUBSET T |-> Step(U)]
<1>5. ASSUME NEW U \in SUBSET T, U # {}
      PROVE  LET V == U \ {Some(U)} IN g[V] = Sums(f, V)[V]
    <2> DEFINE V == U \ {Some(U)}
               W == V \ {Some(V)}
    <2>1. V \in SUBSET T /\ V # T
        BY <1>5, SomeIsIn, Zenon
    <2>2. Defines(Sums(f, V), f, V)
        BY <2>1, <1>3, Zenon
    <2>3. CASE V = {}
        <3>1. Sums(f, V)[V] = 0
            BY <2>2, <2>3, Zenon DEF Defines
        <3> QED BY <2>3, <3>1, Zenon
    <2>4. CASE V # {}
        <3>1. Some(V) \in V
            BY <2>4, SomeIsIn, Zenon
        <3>2. W \in SUBSET T /\ W # T /\ W \subseteq V
            BY <2>1, <3>1, Zenon
        <3>3. Defines(Sums(f, W), f, W)
            BY <3>2, <1>3, Zenon
        <3>4. Sums(f, V)[W] = Sums(f, W)[W]
            BY <2>2, <3>2, <3>3, <2>1, <1>4, SumsAgree
        <3>5. Sums(f, V)[V] = f[Some(V)] + Sums(f, V)[W]
            BY <2>2, <2>4, Zenon DEF Defines
        <3>6. g[V] = f[Some(V)] + Sums(f, W)[W]
            BY <2>1, <2>4, Zenon
        <3> QED BY <3>4, <3>5, <3>6, Zenon
    <2> QED BY <2>3, <2>4, Zenon
<1>6. Defines(g, f, T)
    <2>1. \A U \in SUBSET T : Step(U) = IF U = {} THEN 0 ELSE f[Some(U)] + g[U \ {Some(U)}]
        BY <1>5, Zenon
    <2> HIDE DEF Step
    <2>2. g = [U \in SUBSET T |-> IF U = {} THEN 0 ELSE f[Some(U)] + g[U \ {Some(U)}]]
        BY <2>1, Zenon
    <2> QED BY <2>2, Zenon DEF Defines
<1>7. Defines(Sums(f, T), f, T)
    <2> HIDE DEF g
    <2> QED BY <1>6, Zenon DEF Sums
<1> QED BY <1>2, <1>7, Zenon

\* The sum of no elements is zero.
LEMMA SumEmpty ==
    ASSUME NEW f
    PROVE  Sum(f, {}) = 0
<1>1. Defines(Sums(f, {}), f, {})
    BY FS_EmptySet, SumsExist, Zenon
<1>2. Sums(f, {})[{}] = 0
    BY <1>1, Zenon DEF Defines
<1> QED BY <1>2, Unfold, Zenon

\* The sum of a set that is not empty begins with the element the fold takes next.
LEMMA SumSome ==
    ASSUME NEW f, NEW S, IsFiniteSet(S), S # {}
    PROVE  Sum(f, S) = f[Some(S)] + Sum(f, S \ {Some(S)})
<1> DEFINE R == S \ {Some(S)}
<1>1. IsFiniteSet(R) /\ R \subseteq S
    BY FS_Subset, Zenon
<1>2. Defines(Sums(f, S), f, S) /\ Defines(Sums(f, R), f, R)
    BY <1>1, SumsExist, Zenon
<1>3. Sums(f, S)[S] = f[Some(S)] + Sums(f, S)[R]
    BY <1>2, Zenon DEF Defines
<1>4. Sums(f, S)[R] = Sums(f, R)[R]
    BY <1>1, <1>2, SumsAgree
<1> QED BY <1>3, <1>4, Unfold, Zenon

\* A sum of natural numbers is one.
LEMMA SumType ==
    ASSUME NEW S, IsFiniteSet(S), NEW f, \A x \in S : f[x] \in Nat
    PROVE  Sum(f, S) \in Nat
<1> DEFINE Bad == {T \in SUBSET S : Sum(f, T) \notin Nat}
<1>1. SUFFICES ASSUME Bad # {} PROVE FALSE
    BY Zenon
<1>2. PICK T \in Bad : \A U \in Bad : U \subseteq T => U = T
    <2>1. Bad \in SUBSET SUBSET S
        BY Zenon
    <2> HIDE DEF Bad
    <2> QED BY <1>1, <2>1, LeastSubset
<1>3. T # {} /\ IsFiniteSet(T)
    <2>1. T # {}
        <3>1. Sum(f, {}) \in Nat
            BY SumEmpty
        <3> QED BY <1>2, <3>1, Zenon
    <2>2. IsFiniteSet(T)
        BY FS_Subset, Zenon
    <2> QED BY <2>1, <2>2, Zenon
<1>4. Some(T) \in T
    BY <1>3, SomeIsIn, Zenon
<1>5. Sum(f, T \ {Some(T)}) \in Nat
    BY <1>2, <1>4
<1>6. Sum(f, T) = f[Some(T)] + Sum(f, T \ {Some(T)})
    BY <1>3, SumSome, Zenon
<1>7. f[Some(T)] \in Nat
    BY <1>4, Zenon
<1> QED BY <1>2, <1>5, <1>6, <1>7

\* Any element may be taken first.
LEMMA SumElement ==
    ASSUME NEW S, IsFiniteSet(S), NEW f, \A y \in S : f[y] \in Nat, NEW x \in S
    PROVE  Sum(f, S) = f[x] + Sum(f, S \ {x})
<1> DEFINE Bad == {T \in SUBSET S : \E y \in T : Sum(f, T) # f[y] + Sum(f, T \ {y})}
<1>1. SUFFICES ASSUME Bad # {} PROVE FALSE
    BY Zenon
<1>2. PICK T \in Bad : \A U \in Bad : U \subseteq T => U = T
    <2>1. Bad \in SUBSET SUBSET S
        BY Zenon
    <2> HIDE DEF Bad
    <2> QED BY <1>1, <2>1, LeastSubset
<1>3. PICK y \in T : Sum(f, T) # f[y] + Sum(f, T \ {y})
    BY <1>2, Zenon
<1> DEFINE z == Some(T)
<1>4. z \in T
    BY SomeIsIn, Zenon
<1>5. IsFiniteSet(T) /\ Sum(f, T) = f[z] + Sum(f, T \ {z})
    BY FS_Subset, SumSome, Zenon
<1>6. y # z
    BY <1>3, <1>5, Zenon
<1> HIDE DEF z
<1>7. T \ {y} \notin Bad /\ T \ {z} \notin Bad
    BY <1>2, <1>4, Zenon
<1>8. /\ Sum(f, T \ {z}) = f[y] + Sum(f, (T \ {z}) \ {y})
      /\ Sum(f, T \ {y}) = f[z] + Sum(f, (T \ {y}) \ {z})
    BY <1>4, <1>6, <1>7, Zenon
<1>9. (T \ {z}) \ {y} = (T \ {y}) \ {z}
    BY Zenon
<1>10. f[y] \in Nat /\ f[z] \in Nat
    BY <1>4, Zenon
<1>11. Sum(f, (T \ {y}) \ {z}) \in Nat
    <2>1. (T \ {y}) \ {z} \in SUBSET S
        BY Zenon
    <2> QED BY <2>1, FS_Subset, SumType, Zenon
<1> QED BY <1>3, <1>5, <1>8, <1>9, <1>10, <1>11, SMTT(30)

\* No element exceeds the sum.
LEMMA SumBounds ==
    ASSUME NEW S, IsFiniteSet(S), NEW f, \A y \in S : f[y] \in Nat, NEW x \in S
    PROVE  f[x] <= Sum(f, S)
<1>1. IsFiniteSet(S \ {x})
    BY FS_Subset, Zenon
<1>2. Sum(f, S \ {x}) \in Nat
    BY <1>1, SumType, Zenon
<1> QED BY <1>2, SumElement

\* The sum depends on the values alone.
LEMMA SumSame ==
    ASSUME NEW S, IsFiniteSet(S), NEW f, NEW g, \A x \in S : f[x] = g[x]
    PROVE  Sum(f, S) = Sum(g, S)
<1> DEFINE Bad == {T \in SUBSET S : Sum(f, T) # Sum(g, T)}
<1>1. SUFFICES ASSUME Bad # {} PROVE FALSE
    BY Zenon
<1>2. PICK T \in Bad : \A U \in Bad : U \subseteq T => U = T
    <2>1. Bad \in SUBSET SUBSET S
        BY Zenon
    <2> HIDE DEF Bad
    <2> QED BY <1>1, <2>1, LeastSubset
<1>3. T # {} /\ IsFiniteSet(T)
    <2>1. T # {}
        BY <1>2, SumEmpty, Zenon
    <2>2. IsFiniteSet(T)
        BY FS_Subset, Zenon
    <2> QED BY <2>1, <2>2, Zenon
<1>4. Some(T) \in T
    BY <1>3, SomeIsIn, Zenon
<1>5. Sum(f, T \ {Some(T)}) = Sum(g, T \ {Some(T)})
    BY <1>2, <1>4
<1>6. /\ Sum(f, T) = f[Some(T)] + Sum(f, T \ {Some(T)})
      /\ Sum(g, T) = g[Some(T)] + Sum(g, T \ {Some(T)})
    BY <1>3, SumSome, Zenon
<1>7. f[Some(T)] = g[Some(T)]
    BY <1>4, Zenon
<1> QED BY <1>2, <1>5, <1>6, <1>7, Zenon

\* Elements that count for nothing may be left out.
LEMMA SumOfRest ==
    ASSUME NEW S, IsFiniteSet(S), NEW f, \A x \in S : f[x] \in Nat,
           NEW R \in SUBSET S, \A x \in S \ R : f[x] = 0
    PROVE  Sum(f, S) = Sum(f, R)
<1> DEFINE Bad == {T \in SUBSET S : Sum(f, T) # Sum(f, T \cap R)}
<1>1. SUFFICES ASSUME Bad # {} PROVE FALSE
    <2>1. S \notin Bad /\ S \cap R = R
        BY <1>1, Zenon
    <2> QED BY <2>1, Zenon
<1>2. PICK T \in Bad : \A U \in Bad : U \subseteq T => U = T
    <2>1. Bad \in SUBSET SUBSET S
        BY Zenon
    <2> HIDE DEF Bad
    <2> QED BY <1>1, <2>1, LeastSubset
<1>3. PICK x \in T : x \notin R
    <2>1. ~(T \subseteq R)
        <3>1. T \subseteq R => T \cap R = T
            BY Zenon
        <3> QED BY <1>2, <3>1, Zenon
    <2> QED BY <2>1, Zenon
<1>4. Sum(f, T \ {x}) = Sum(f, (T \ {x}) \cap R)
    BY <1>2, <1>3
<1>5. (T \ {x}) \cap R = T \cap R
    BY <1>3, Zenon
<1>6. IsFiniteSet(T) /\ \A y \in T : f[y] \in Nat
    BY FS_Subset, Zenon
<1>7. Sum(f, T) = 0 + Sum(f, T \ {x})
    BY <1>3, <1>6, SumElement
<1>8. Sum(f, T \ {x}) \in Nat
    <2>1. IsFiniteSet(T \ {x})
        BY <1>6, FS_Subset, Zenon
    <2> QED BY <1>6, <2>1, SumType, Zenon
<1> QED BY <1>2, <1>4, <1>5, <1>7, <1>8

\* What the sum becomes when one element changes.
LEMMA SumUpdate ==
    ASSUME NEW S, IsFiniteSet(S), NEW f, NEW g, NEW x \in S,
           \A y \in S : f[y] \in Nat /\ g[y] \in Nat, \A y \in S \ {x} : f[y] = g[y]
    PROVE  Sum(g, S) = Sum(f, S) - f[x] + g[x]
<1>1. IsFiniteSet(S \ {x})
    BY FS_Subset, Zenon
<1>2. Sum(f, S \ {x}) = Sum(g, S \ {x}) /\ Sum(f, S \ {x}) \in Nat
    BY <1>1, SumSame, SumType, Zenon
<1>3. Sum(f, S) = f[x] + Sum(f, S \ {x}) /\ Sum(g, S) = g[x] + Sum(g, S \ {x})
    BY SumElement, Zenon
<1> QED BY <1>2, <1>3

\* What is taken from one element and given to another leaves the sum as it is.
LEMMA SumMove ==
    ASSUME NEW S, IsFiniteSet(S), NEW f \in [S -> Nat], NEW a \in S, NEW b \in S, a # b,
           NEW n \in Nat, n <= f[a], NEW g \in [S -> Nat],
           g[a] = f[a] - n, g[b] = f[b] + n, \A x \in S \ {a, b} : g[x] = f[x]
    PROVE  Sum(g, S) = Sum(f, S)
<1> DEFINE h == [f EXCEPT ![a] = @ - n]
<1>1. h \in [S -> Nat]
    BY Zenon
<1>2. h[a] = f[a] - n /\ \A y \in S \ {a} : f[y] = h[y]
    BY Zenon
<1>3. g[b] = h[b] + n /\ \A y \in S \ {b} : h[y] = g[y]
    BY Zenon
<1> HIDE DEF h
<1>4. Sum(h, S) = Sum(f, S) - f[a] + h[a]
    BY <1>1, <1>2, SumUpdate
<1>5. Sum(g, S) = Sum(h, S) - h[b] + g[b]
    BY <1>1, <1>3, SumUpdate
<1>6. Sum(f, S) \in Nat /\ Sum(h, S) \in Nat /\ h[b] \in Nat /\ f[a] \in Nat
    BY <1>1, SumType, Zenon
<1> QED BY <1>1, <1>2, <1>3, <1>4, <1>5, <1>6
=============================================================================
