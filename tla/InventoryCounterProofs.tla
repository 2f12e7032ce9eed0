----------------------- MODULE InventoryCounterProofs -----------------------
(***************************************************************************)
(* The counters of a night against the rows they summarise, for every      *)
(* workload: reservedInventory follows the reservation rows, whatever      *)
(* releases overlap, and blockedInventory covers the active block records. *)
(* Both are sums, so the facts about sums they need come first.  Those go  *)
(* by induction; as a theorem cannot be handed a predicate here, it is     *)
(* handed the set of the cases in which the predicate holds.  The last     *)
(* section is about the locks on those rows: who may wait for whom.        *)
(***************************************************************************)
EXTENDS InventoryLedgerProofs, FiniteSetTheorems

-----------------------------------------------------------------------------
(* Induction. *)

(* Sets of subsets of a finite set that are closed under adding elements   *)
(* are everything: induction over finite sets, with the set of the cases   *)
(* that hold in the place of a predicate.                                  *)
LEMMA SubsetInduction ==
    ASSUME NEW S, IsFiniteSet(S), NEW P,
           \A T \in SUBSET S : (\A x \in T : T \ {x} \in P) => T \in P
    PROVE  SUBSET S \subseteq P
<1> SUFFICES ASSUME NEW U \in SUBSET S, U \notin P PROVE FALSE
  OBVIOUS
<1> DEFINE Bad == {T \in SUBSET S : T \notin P}
<1>1. IsWellFoundedOn(StrictSubsetOrdering(S), SUBSET S)
  <2>1. FiniteSubsetsOf(S) = SUBSET S
    BY FS_FiniteSubsetsOfFinite
  <2>2. IsWellFoundedOn(StrictSubsetOrdering(S), FiniteSubsetsOf(S))
    BY FS_StrictSubsetOrderingWellFounded
  <2> QED
    BY <2>1, <2>2
<1>2. Bad \subseteq SUBSET S /\ Bad # {}
  OBVIOUS
<1>3. PICK T \in Bad : \A V \in Bad : ~(<<V, T>> \in StrictSubsetOrdering(S))
  <2> HIDE DEF Bad
  <2> QED
    BY <1>1, <1>2, WFMin
<1>4. \A x \in T : <<T \ {x}, T>> \in StrictSubsetOrdering(S)
  BY DEF StrictSubsetOrdering
<1>5. \A x \in T : T \ {x} \in P
  BY <1>3, <1>4
<1> QED
  BY <1>5

(* Every non-empty set of naturals has a least element. *)
LEMMA LeastNat ==
    ASSUME NEW T, T \subseteq Nat, T # {}
    PROVE  \E m \in T : \A k \in T : m <= k
<1> DEFINE F == {0 .. k : k \in T}
<1>1. F \subseteq FiniteSubsetsOf(Nat) /\ F # {}
  <2>1. ASSUME NEW k \in T PROVE 0 .. k \in FiniteSubsetsOf(Nat)
    BY FS_Interval DEF FiniteSubsetsOf
  <2> QED
    BY <2>1
<1>2. IsWellFoundedOn(StrictSubsetOrdering(Nat), FiniteSubsetsOf(Nat))
  BY FS_StrictSubsetOrderingWellFounded
<1>3. PICK U \in F : \A V \in F : ~(<<V, U>> \in StrictSubsetOrdering(Nat))
  <2> HIDE DEF F
  <2> QED
    BY <1>1, <1>2, WFMin
<1>4. PICK m \in T : U = 0 .. m
  BY <1>3
<1>5. ASSUME NEW k \in T, k < m PROVE FALSE
  <2>1. k \in Nat /\ m \in Nat /\ 0 .. k \in F
    BY DEF F
  <2>2. <<0 .. k, 0 .. m>> \in StrictSubsetOrdering(Nat)
    <3>1. 0 .. k \subseteq 0 .. m /\ m \in 0 .. m /\ m \notin 0 .. k
      BY <1>5, <2>1
    <3>2. 0 .. k \in SUBSET Nat /\ 0 .. m \in SUBSET Nat
      BY <2>1
    <3> QED
      BY <3>1, <3>2 DEF StrictSubsetOrdering
  <2> QED
    BY <1>3, <1>4, <2>1, <2>2
<1> QED
  BY <1>5

(* Induction over the naturals, with the set of the cases that hold in the *)
(* place of a predicate.                                                   *)
LEMMA NumberInduction ==
    ASSUME NEW P, 0 \in P, \A n \in Nat : n \in P => n + 1 \in P
    PROVE  Nat \subseteq P
<1> DEFINE Bad == {n \in Nat : n \notin P}
<1> SUFFICES ASSUME Bad # {} PROVE FALSE
  OBVIOUS
<1>1. Bad \subseteq Nat
  OBVIOUS
<1>2. PICK n \in Bad : \A k \in Bad : n <= k
  <2> HIDE DEF Bad
  <2> QED
    BY <1>1, LeastNat
<1>3. n # 0 /\ n - 1 \in Nat /\ ~(n <= n - 1) /\ n = (n - 1) + 1
  BY <1>2
<1>4. n - 1 \in P
  BY <1>2, <1>3
<1> QED
  BY <1>2, <1>3, <1>4

-----------------------------------------------------------------------------
(* Sums over finite sets. *)

(* The recursive function that SumFunctionOnSet(f, S) evaluates at S. *)
IsPartialSum(f, S, sum) ==
    sum = [T \in SUBSET S |->
              IF T = {} THEN 0
              ELSE f[CHOOSE x \in T : TRUE] + sum[T \ {CHOOSE x \in T : TRUE}]]

(* It exists: tables of the sums of ever larger subsets agree with it as   *)
(* far as they go, and a finite set has a largest subset.                  *)
LEMMA SumExists ==
    ASSUME NEW S, IsFiniteSet(S), NEW f, \A x \in S : f[x] \in Int
    PROVE  \E sum \in [SUBSET S -> Int] : IsPartialSum(f, S, sum)
<1> DEFINE Entry(sum, T) == IF T = {} THEN 0
                          ELSE f[CHOOSE x \in T : TRUE] + sum[T \ {CHOOSE x \in T : TRUE}]
           Good(n) == \E sum \in [SUBSET S -> Int] :
                          \A T \in SUBSET S : Cardinality(T) <= n => sum[T] = Entry(sum, T)
<1>choice. \A T \in (SUBSET S) \ {{}} : /\ (CHOOSE x \in T : TRUE) \in T
                                       /\ (CHOOSE x \in T : TRUE) \in S
  OBVIOUS
<1>card. \A T \in SUBSET S : /\ IsFiniteSet(T) /\ Cardinality(T) \in Nat
                             /\ Cardinality(T) = 0 => T = {}
                             /\ Cardinality(T) <= Cardinality(S)
  BY FS_Subset, FS_CardinalityType, FS_EmptySet
<1>less. \A T \in (SUBSET S) \ {{}} :
            Cardinality(T \ {CHOOSE x \in T : TRUE}) = Cardinality(T) - 1
  BY <1>choice, <1>card, FS_RemoveElement
<1>1. Good(0)
  <2> DEFINE sum == [T \in SUBSET S |-> 0]
  <2>1. sum \in [SUBSET S -> Int]
    OBVIOUS
  <2>2. \A T \in SUBSET S : Cardinality(T) <= 0 => T = {}
    BY <1>card
  <2>3. \A T \in SUBSET S : Cardinality(T) <= 0 => sum[T] = Entry(sum, T)
    BY <2>2
  <2> QED
    BY <2>1, <2>3
<1>2. ASSUME NEW n \in Nat, Good(n) PROVE Good(n + 1)
  <2>1. PICK sum \in [SUBSET S -> Int] :
            \A T \in SUBSET S : Cardinality(T) <= n => sum[T] = Entry(sum, T)
    BY <1>2
  <2> DEFINE more == [T \in SUBSET S |-> Entry(sum, T)]
  <2>2. more \in [SUBSET S -> Int]
    <3> SUFFICES ASSUME NEW T \in SUBSET S, T # {}
                 PROVE  f[CHOOSE x \in T : TRUE] + sum[T \ {CHOOSE x \in T : TRUE}] \in Int
      OBVIOUS
    <3>1. f[CHOOSE x \in T : TRUE] \in Int /\ T \ {CHOOSE x \in T : TRUE} \in SUBSET S
      BY <1>choice
    <3> QED
      BY <3>1
  <2>3. \A T \in SUBSET S : Cardinality(T) <= n => more[T] = sum[T]
    BY <2>1
  <2>4. ASSUME NEW T \in SUBSET S, Cardinality(T) <= n + 1 PROVE more[T] = Entry(more, T)
    <3>1. CASE T = {}
      BY <3>1
    <3>2. CASE T # {}
      <4> DEFINE U == T \ {CHOOSE x \in T : TRUE}
      <4>1. U \in SUBSET S /\ Cardinality(U) <= n
        BY <2>4, <3>2, <1>less, <1>card
      <4>2. more[U] = sum[U]
        BY <4>1, <2>3
      <4>3. more[T] = Entry(sum, T)
        OBVIOUS
      <4> QED
        BY <3>2, <4>2, <4>3
    <3> QED
      BY <3>1, <3>2
  <2> QED
    BY <2>2, <2>4
<1>3. \A n \in Nat : Good(n)
  <2> DEFINE P == {n \in Nat : Good(n)}
  <2> HIDE DEF Good
  <2>1. 0 \in P /\ \A n \in Nat : n \in P => n + 1 \in P
    BY <1>1, <1>2
  <2>2. Nat \subseteq P
    <3> HIDE DEF P
    <3> QED
      BY <2>1, NumberInduction
  <2> QED
    BY <2>2
<1>4. PICK sum \in [SUBSET S -> Int] :
          \A T \in SUBSET S : Cardinality(T) <= Cardinality(S) => sum[T] = Entry(sum, T)
  BY <1>3, <1>card
<1>5. \A T \in SUBSET S : sum[T] = Entry(sum, T)
  BY <1>4, <1>card
<1>6. sum = [T \in SUBSET S |-> Entry(sum, T)]
  BY <1>5
<1> QED
  BY <1>6 DEF IsPartialSum

(* It is the same whichever set it is taken for. *)
LEMMA SumAgrees ==
    ASSUME NEW S, IsFiniteSet(S), NEW f, NEW U \in SUBSET S, NEW sum, NEW part,
           IsPartialSum(f, S, sum), IsPartialSum(f, U, part)
    PROVE  sum[U] = part[U]
<1> DEFINE P == {T \in SUBSET U : sum[T] = part[T]}
<1>1. ASSUME NEW T \in SUBSET U, \A x \in T : T \ {x} \in P PROVE T \in P
  <2>1. T \in SUBSET S
    OBVIOUS
  <2>2. CASE T = {}
    BY <2>1, <2>2 DEF IsPartialSum
  <2>3. CASE T # {}
    <3> DEFINE y == CHOOSE x \in T : TRUE
    <3>1. y \in T
      BY <2>3
    <3>2. sum[T] = f[y] + sum[T \ {y}]
      BY <2>1, <2>3 DEF IsPartialSum
    <3>3. part[T] = f[y] + part[T \ {y}]
      BY <2>3 DEF IsPartialSum
    <3>4. sum[T \ {y}] = part[T \ {y}]
      BY <1>1, <3>1
    <3> QED
      BY <3>2, <3>3, <3>4
  <2> QED
    BY <2>2, <2>3
<1>2. SUBSET U \subseteq P
  <2>1. IsFiniteSet(U)
    BY FS_Subset
  <2> HIDE DEF P
  <2> QED
    BY <1>1, <2>1, SubsetInduction
<1> QED
  BY <1>2

(* What SumFunctionOnSet adds up, one element after the other. *)
LEMMA SumUnfolded ==
    ASSUME NEW S, IsFiniteSet(S), NEW f, \A x \in S : f[x] \in Int
    PROVE  /\ SumFunctionOnSet(f, S) \in Int
           /\ S = {} => SumFunctionOnSet(f, S) = 0
           /\ S # {} => LET y == CHOOSE x \in S : TRUE
                        IN  SumFunctionOnSet(f, S) = f[y] + SumFunctionOnSet(f, S \ {y})
<1>1. ASSUME NEW U, IsFiniteSet(U), \A x \in U : f[x] \in Int
      PROVE  \E sum \in [SUBSET U -> Int] :
                IsPartialSum(f, U, sum) /\ SumFunctionOnSet(f, U) = sum[U]
  <2> DEFINE sum == CHOOSE sum : IsPartialSum(f, U, sum)
  <2>1. PICK some \in [SUBSET U -> Int] : IsPartialSum(f, U, some)
    BY <1>1, SumExists
  <2>2. IsPartialSum(f, U, sum)
    BY <2>1
  <2>3. SumFunctionOnSet(f, U) = sum[U]
    BY DEF SumFunctionOnSet, FoldFunctionOnSet, MapThenFoldSet, IsPartialSum
  <2> HIDE DEF sum
  <2>4. some[U] = sum[U]
    BY <1>1, <2>1, <2>2, SumAgrees
  <2>5. SumFunctionOnSet(f, U) = some[U]
    BY <2>3, <2>4
  <2> QED
    BY <2>1, <2>5
<1>2. PICK sum \in [SUBSET S -> Int] :
          IsPartialSum(f, S, sum) /\ SumFunctionOnSet(f, S) = sum[S]
  BY <1>1
<1>3. CASE S = {}
  BY <1>2, <1>3 DEF IsPartialSum
<1>4. CASE S # {}
  <2> DEFINE y == CHOOSE x \in S : TRUE
  <2>1. sum[S] = f[y] + sum[S \ {y}]
    BY <1>2, <1>4 DEF IsPartialSum
  <2>2. IsFiniteSet(S \ {y}) /\ S \ {y} \in SUBSET S
    BY FS_Subset
  <2>3. PICK part : IsPartialSum(f, S \ {y}, part) /\ SumFunctionOnSet(f, S \ {y}) = part[S \ {y}]
    <3> HIDE DEF y
    <3> QED
      BY <2>2, <1>1
  <2>4. sum[S \ {y}] = part[S \ {y}]
    <3> HIDE DEF y
    <3> QED
      BY <1>2, <2>2, <2>3, SumAgrees
  <2> QED
    BY <1>2, <1>4, <2>1, <2>3, <2>4
<1> QED
  BY <1>2, <1>3, <1>4

(* Functions that agree on a set have one sum over it. *)
LEMMA SumEqual ==
    ASSUME NEW S, IsFiniteSet(S), NEW f, NEW g, \A x \in S : f[x] \in Int /\ f[x] = g[x]
    PROVE  SumFunctionOnSet(f, S) = SumFunctionOnSet(g, S)
<1> DEFINE P == {T \in SUBSET S : SumFunctionOnSet(f, T) = SumFunctionOnSet(g, T)}
<1>1. ASSUME NEW T \in SUBSET S, \A x \in T : T \ {x} \in P PROVE T \in P
  <2>1. IsFiniteSet(T) /\ \A x \in T : f[x] \in Int /\ g[x] \in Int
    BY FS_Subset
  <2>2. CASE T = {}
    BY <2>1, <2>2, SumUnfolded
  <2>3. CASE T # {}
    <3> DEFINE y == CHOOSE x \in T : TRUE
    <3>1. y \in T /\ f[y] = g[y]
      BY <2>3
    <3>2. /\ SumFunctionOnSet(f, T) = f[y] + SumFunctionOnSet(f, T \ {y})
          /\ SumFunctionOnSet(g, T) = g[y] + SumFunctionOnSet(g, T \ {y})
      BY <2>1, <2>3, SumUnfolded
    <3>3. SumFunctionOnSet(f, T \ {y}) = SumFunctionOnSet(g, T \ {y})
      BY <1>1, <3>1
    <3> QED
      BY <3>1, <3>2, <3>3
  <2> QED
    BY <2>2, <2>3
<1>2. SUBSET S \subseteq P
  <2> HIDE DEF P
  <2> QED
    BY <1>1, SubsetInduction
<1> QED
  BY <1>2

(* Any element may be taken out of a sum, not only the one it takes first. *)
LEMMA SumRemove ==
    ASSUME NEW S, IsFiniteSet(S), NEW f, \A x \in S : f[x] \in Int, NEW a \in S
    PROVE  SumFunctionOnSet(f, S) = f[a] + SumFunctionOnSet(f, S \ {a})
<1> DEFINE Sum(T) == SumFunctionOnSet(f, T)
           P == {T \in SUBSET S : \A x \in T : Sum(T) = f[x] + Sum(T \ {x})}
<1>type. \A T \in SUBSET S : IsFiniteSet(T) /\ Sum(T) \in Int
  <2> SUFFICES ASSUME NEW T \in SUBSET S PROVE IsFiniteSet(T) /\ Sum(T) \in Int
    OBVIOUS
  <2>1. IsFiniteSet(T)
    BY FS_Subset
  <2> QED
    BY <2>1, SumUnfolded
<1>1. ASSUME NEW T \in SUBSET S, \A x \in T : T \ {x} \in P PROVE T \in P
  <2> SUFFICES ASSUME NEW x \in T PROVE Sum(T) = f[x] + Sum(T \ {x})
    OBVIOUS
  <2> DEFINE y == CHOOSE z \in T : TRUE
  <2>1. y \in T
    OBVIOUS
  <2>2. Sum(T) = f[y] + Sum(T \ {y})
    BY <1>type, SumUnfolded
  <2> HIDE DEF y
  <2>3. CASE x = y
    BY <2>2, <2>3
  <2>4. CASE x # y
    <3>1. Sum(T \ {y}) = f[x] + Sum((T \ {y}) \ {x})
      BY <1>1, <2>1, <2>4
    <3>2. Sum(T \ {x}) = f[y] + Sum((T \ {x}) \ {y})
      BY <1>1, <2>1, <2>4
    <3>3. (T \ {y}) \ {x} = (T \ {x}) \ {y}
      OBVIOUS
    <3>4. Sum((T \ {x}) \ {y}) \in Int /\ f[x] \in Int /\ f[y] \in Int
      BY <1>type, <2>1
    <3>5. Sum((T \ {y}) \ {x}) = Sum((T \ {x}) \ {y})
      BY <3>3
    <3> QED
      BY <2>2, <3>1, <3>2, <3>4, <3>5
  <2> QED
    BY <2>3, <2>4
<1>2. SUBSET S \subseteq P
  <2> HIDE DEF P
  <2> QED
    BY <1>1, SubsetInduction
<1> QED
  BY <1>2

(* A change of one summand changes the sum by as much. *)
LEMMA SumUpdate ==
    ASSUME NEW S, IsFiniteSet(S), NEW f, NEW g, NEW a \in S,
           \A x \in S : f[x] \in Int /\ g[x] \in Int,
           \A x \in S \ {a} : f[x] = g[x]
    PROVE  SumFunctionOnSet(g, S) = SumFunctionOnSet(f, S) - f[a] + g[a]
<1>1. IsFiniteSet(S \ {a})
  BY FS_Subset
<1>2. SumFunctionOnSet(f, S) = f[a] + SumFunctionOnSet(f, S \ {a})
  BY SumRemove
<1>3. SumFunctionOnSet(g, S) = g[a] + SumFunctionOnSet(g, S \ {a})
  BY SumRemove
<1>4. SumFunctionOnSet(f, S \ {a}) = SumFunctionOnSet(g, S \ {a})
  BY <1>1, SumEqual
<1>5. SumFunctionOnSet(f, S \ {a}) \in Int
  BY <1>1, SumUnfolded
<1> QED
  BY <1>2, <1>3, <1>4, <1>5

(* Nothing adds up to nothing. *)
LEMMA SumZero ==
    ASSUME NEW S, IsFiniteSet(S), NEW f, \A x \in S : f[x] = 0
    PROVE  SumFunctionOnSet(f, S) = 0
<1> DEFINE P == {T \in SUBSET S : SumFunctionOnSet(f, T) = 0}
<1>1. ASSUME NEW T \in SUBSET S, \A x \in T : T \ {x} \in P PROVE T \in P
  <2>1. IsFiniteSet(T)
    BY FS_Subset
  <2>2. CASE T = {}
    BY <2>1, <2>2, SumUnfolded
  <2>3. CASE T # {}
    <3>1. PICK y \in T : TRUE
      BY <2>3
    <3>2. SumFunctionOnSet(f, T) = f[y] + SumFunctionOnSet(f, T \ {y})
      BY <2>1, SumRemove
    <3> QED
      BY <1>1, <3>2
  <2> QED
    BY <2>2, <2>3
<1>2. SUBSET S \subseteq P
  <2> HIDE DEF P
  <2> QED
    BY <1>1, SubsetInduction
<1> QED
  BY <1>2

-----------------------------------------------------------------------------
(* Sums of sequences. *)

(* One more record adds its quantity. *)
LEMMA SumAppend ==
    ASSUME NEW s \in Seq(Int), NEW v \in Int
    PROVE  SumFunction(Append(s, v)) = SumFunction(s) + v
<1> DEFINE n == Len(s)
           more == Append(s, v)
<1>1. /\ n \in Nat /\ DOMAIN s = 1 .. n /\ \A i \in 1 .. n : s[i] \in Int
      /\ DOMAIN more = 1 .. n + 1 /\ more[n + 1] = v /\ \A i \in 1 .. n : more[i] = s[i]
  BY AppendProperties
<1> HIDE DEF n, more
<1>2. IsFiniteSet(1 .. n) /\ IsFiniteSet(1 .. n + 1)
  BY <1>1, FS_Interval
<1>3. (1 .. n + 1) \ {n + 1} = 1 .. n /\ n + 1 \in 1 .. n + 1
  BY <1>1
<1>4. \A i \in 1 .. n + 1 : more[i] \in Int
  BY <1>1
<1>5. SumFunctionOnSet(more, 1 .. n + 1) = v + SumFunctionOnSet(more, 1 .. n)
  BY <1>1, <1>2, <1>3, <1>4, SumRemove
<1>6. SumFunctionOnSet(more, 1 .. n) = SumFunctionOnSet(s, 1 .. n)
  BY <1>1, <1>2, <1>4, SumEqual
<1>7. SumFunctionOnSet(s, 1 .. n) \in Int
  BY <1>1, <1>2, SumUnfolded
<1>8. SumFunction(more) = v + SumFunction(s) /\ SumFunction(s) \in Int
  BY <1>1, <1>5, <1>6, <1>7 DEF SumFunction
<1> QED
  BY <1>8 DEF more

(* Without its first k records a sequence adds up to what the others do. *)
LEMMA SumRest ==
    ASSUME NEW s \in Seq(Int), NEW k \in Nat, k <= Len(s)
    PROVE  SumFunction(SubSeq(s, k + 1, Len(s))) = SumFunctionOnSet(s, k + 1 .. Len(s))
<1> DEFINE n == Len(s)
           rest == SubSeq(s, k + 1, n)
           P == {j \in Nat : j <= n - k =>
                    SumFunctionOnSet(rest, 1 .. j) = SumFunctionOnSet(s, k + 1 .. k + j)}
<1>1. /\ n \in Nat /\ k <= n /\ \A i \in 1 .. n : s[i] \in Int
      /\ DOMAIN rest = 1 .. n - k /\ \A i \in 1 .. n - k : rest[i] = s[k + i]
  <2>1. n \in Nat /\ \A i \in 1 .. n : s[i] \in Int
    OBVIOUS
  <2>2. k + 1 \in 1 .. n + 1 /\ n \in k .. n
    BY <2>1
  <2>3. /\ Len(rest) = n - k /\ rest \in Seq(Int)
        /\ \A i \in 1 .. n - k : rest[i] = s[k + i]
    <3>1. \A i \in k + 1 .. n : s[i] \in Int
      BY <2>1
    <3> QED
      BY <2>1, <3>1, SubSeqProperties
  <2> QED
    BY <2>1, <2>3
<1> HIDE DEF n, rest
<1>2. 0 \in P
  <2>1. 1 .. 0 = {} /\ k + 1 .. k + 0 = {}
    OBVIOUS
  <2>2. IsFiniteSet({})
    BY FS_EmptySet
  <2>3. SumFunctionOnSet(rest, {}) = 0 /\ SumFunctionOnSet(s, {}) = 0
    BY <2>2, SumUnfolded
  <2> QED
    BY <2>1, <2>3
<1>3. ASSUME NEW j \in Nat, j \in P PROVE j + 1 \in P
  <2> SUFFICES ASSUME j + 1 <= n - k
               PROVE  SumFunctionOnSet(rest, 1 .. j + 1) = SumFunctionOnSet(s, k + 1 .. k + (j + 1))
    OBVIOUS
  <2>1. SumFunctionOnSet(rest, 1 .. j) = SumFunctionOnSet(s, k + 1 .. k + j)
    BY <1>1, <1>3
  <2>2. /\ j + 1 \in 1 .. j + 1 /\ k + (j + 1) \in k + 1 .. k + (j + 1)
        /\ 1 .. j + 1 \subseteq 1 .. n - k /\ k + 1 .. k + (j + 1) \subseteq 1 .. n
    BY <1>1
  <2>9. /\ (1 .. j + 1) \ {j + 1} = 1 .. j
        /\ (k + 1 .. k + (j + 1)) \ {k + (j + 1)} = k + 1 .. k + j
    OBVIOUS
  <2>3. IsFiniteSet(1 .. j + 1) /\ IsFiniteSet(k + 1 .. k + (j + 1))
    BY FS_Interval
  <2>4. \A i \in 1 .. j + 1 : rest[i] \in Int
    BY <1>1, <2>2
  <2>5. \A i \in k + 1 .. k + (j + 1) : s[i] \in Int
    BY <1>1, <2>2
  <2>6. SumFunctionOnSet(rest, 1 .. j + 1) = rest[j + 1] + SumFunctionOnSet(rest, 1 .. j)
    <3>1. SumFunctionOnSet(rest, 1 .. j + 1)
            = rest[j + 1] + SumFunctionOnSet(rest, (1 .. j + 1) \ {j + 1})
      BY <2>2, <2>3, <2>4, SumRemove
    <3> QED
      BY <3>1, <2>9
  <2>7. SumFunctionOnSet(s, k + 1 .. k + (j + 1))
          = s[k + (j + 1)] + SumFunctionOnSet(s, k + 1 .. k + j)
    <3> DEFINE last == k + (j + 1)
    <3>1. /\ last \in k + 1 .. last /\ IsFiniteSet(k + 1 .. last)
          /\ \A i \in k + 1 .. last : s[i] \in Int
      BY <2>2, <2>3, <2>5
    <3>2. (k + 1 .. last) \ {last} = k + 1 .. k + j
      BY <2>9
    <3> HIDE DEF last
    <3>3. SumFunctionOnSet(s, k + 1 .. last)
            = s[last] + SumFunctionOnSet(s, (k + 1 .. last) \ {last})
      BY <3>1, SumRemove
    <3> QED
      BY <3>2, <3>3 DEF last
  <2>8. rest[j + 1] = s[k + (j + 1)]
    BY <1>1, <2>2
  <2> QED
    BY <2>1, <2>6, <2>7, <2>8
<1>4. Nat \subseteq P
  <2> HIDE DEF P
  <2> QED
    BY <1>2, <1>3, NumberInduction
<1>5. n - k \in Nat /\ k + (n - k) = n
  BY <1>1
<1>6. SumFunctionOnSet(rest, 1 .. n - k) = SumFunctionOnSet(s, k + 1 .. n)
  BY <1>4, <1>5
<1> QED
  BY <1>1, <1>6 DEF SumFunction, n, rest

(* Records of one unit or more: k of them stand for k units at least. *)
LEMMA SumDrop ==
    ASSUME NEW s \in Seq(Nat \ {0}), NEW k \in Nat, k <= Len(s)
    PROVE  SumFunction(SubSeq(s, k + 1, Len(s))) <= SumFunction(s) - k
<1> DEFINE n == Len(s)
           P == {j \in Nat : j <= n =>
                    SumFunctionOnSet(s, j + 1 .. n) <= SumFunctionOnSet(s, 1 .. n) - j}
<1>1. n \in Nat /\ k <= n /\ DOMAIN s = 1 .. n /\ \A i \in 1 .. n : s[i] \in Nat \ {0}
  OBVIOUS
<1>2. s \in Seq(Int)
  OBVIOUS
<1> HIDE DEF n
<1>3. ASSUME NEW j \in Nat
      PROVE  IsFiniteSet(j + 1 .. n) /\ SumFunctionOnSet(s, j + 1 .. n) \in Int
  <2>1. IsFiniteSet(j + 1 .. n)
    BY <1>1, FS_Interval
  <2>2. \A i \in j + 1 .. n : s[i] \in Int
    BY <1>1
  <2> QED
    BY <2>1, <2>2, SumUnfolded
<1>4. SumFunctionOnSet(s, 1 .. n) \in Int
  BY <1>3
<1>5. 0 \in P
  BY <1>4
<1>6. ASSUME NEW j \in Nat, j \in P PROVE j + 1 \in P
  <2> SUFFICES ASSUME j + 1 <= n
               PROVE  SumFunctionOnSet(s, (j + 1) + 1 .. n) <= SumFunctionOnSet(s, 1 .. n) - (j + 1)
    OBVIOUS
  <2>1. /\ (j + 1 .. n) \ {j + 1} = (j + 1) + 1 .. n
        /\ j + 1 \in j + 1 .. n /\ j + 1 \in 1 .. n
    BY <1>1
  <2>2. \A i \in j + 1 .. n : s[i] \in Int
    BY <1>1
  <2>3. SumFunctionOnSet(s, j + 1 .. n) = s[j + 1] + SumFunctionOnSet(s, (j + 1) + 1 .. n)
    <3> DEFINE first == j + 1
    <3>1. /\ first \in first .. n /\ IsFiniteSet(first .. n) /\ \A i \in first .. n : s[i] \in Int
          /\ (first .. n) \ {first} = first + 1 .. n
      BY <1>3, <2>1, <2>2
    <3> HIDE DEF first
    <3>2. SumFunctionOnSet(s, first .. n)
            = s[first] + SumFunctionOnSet(s, (first .. n) \ {first})
      BY <3>1, SumRemove
    <3> QED
      BY <3>1, <3>2 DEF first
  <2>4. s[j + 1] >= 1 /\ s[j + 1] \in Int
    BY <1>1, <2>1
  <2>5. SumFunctionOnSet(s, j + 1 .. n) <= SumFunctionOnSet(s, 1 .. n) - j
    BY <1>1, <1>6
  <2>6. SumFunctionOnSet(s, (j + 1) + 1 .. n) \in Int
    <3> j + 1 \in Nat
      OBVIOUS
    <3> QED
      BY <1>3
  <2> QED
    BY <1>4, <2>3, <2>4, <2>5, <2>6
<1>7. Nat \subseteq P
  <2> HIDE DEF P
  <2> QED
    BY <1>5, <1>6, NumberInduction
<1>8. SumFunctionOnSet(s, k + 1 .. n) <= SumFunctionOnSet(s, 1 .. n) - k
  BY <1>1, <1>7
<1>9. SumFunction(s) = SumFunctionOnSet(s, 1 .. n)
  BY <1>1 DEF SumFunction
<1> QED
  BY <1>1, <1>2, <1>8, <1>9, SumRest DEF n

(* The sum of no record, and of any. *)
LEMMA SumEmpty == SumFunction(<< >>) = 0
<1>1. IsFiniteSet({}) /\ DOMAIN << >> = {}
  BY FS_EmptySet
<1> QED
  BY <1>1, SumUnfolded DEF SumFunction

LEMMA SumType == ASSUME NEW s \in Seq(Int) PROVE SumFunction(s) \in Int
<1>1. Len(s) \in Nat /\ DOMAIN s = 1 .. Len(s) /\ \A i \in 1 .. Len(s) : s[i] \in Int
  OBVIOUS
<1>2. IsFiniteSet(1 .. Len(s))
  BY <1>1, FS_Interval
<1> QED
  BY <1>1, <1>2, SumUnfolded DEF SumFunction

(* What is left of a sequence of rooms is one. *)
LEMMA RestType ==
    ASSUME NEW s \in Seq(Nat \ {0}), NEW k \in Nat
    PROVE  SubSeq(s, k + 1, Len(s)) \in Seq(Nat \ {0})
<1>1. Len(s) \in Nat /\ k + 1 \in Nat \ {0}
  OBVIOUS
<1>2. \A i \in k + 1 .. Len(s) : s[i] \in Nat \ {0}
  BY <1>1
<1> QED
  BY <1>1, <1>2, SubSeqProperties

-----------------------------------------------------------------------------
(* The reserved count and the reservation rows. *)

(* The two halves of ReservedFollowsRows, night by night. *)
Counted(d) ==
    reserved[d] = SumFunction([b \in Ref |-> EverReserved(b, d)])
                   - SumFunction([r \in Request |-> TakenBy(r, d)])

RowsEnded == \A r \in Request, d \in Night : TakenBy(r, d) <= released[job[r].ref][d]

(* What a release has read was written, and is still there or was released. *)
SnapWritten ==
    \A r \in Request, d \in Night :
        job[r].op = "release" => snap[r][d] <= EverReserved(job[r].ref, d)

(* A release has no lock to give back. *)
Keyless == \A r \in Request : job[r].op = "release" => pc[r] \notin {"unlock", "abort"}

CountInv == (\A d \in Night : Counted(d)) /\ RowsEnded /\ SnapWritten /\ Keyless

(* The rows of one reference and the share of one release change, and the  *)
(* counter moves by the difference.                                        *)
LEMMA CounterMoves ==
    ASSUME IsFiniteSet(Ref), IsFiniteSet(Request), TypeOK, TypeOK',
           NEW d \in Night, Counted(d), NEW b \in Ref, NEW r \in Request,
           \A c \in Ref \ {b} : active'[c] = active[c] /\ released'[c] = released[c],
           \A q \in Request \ {r} : TakenBy(q, d)' = TakenBy(q, d),
           reserved'[d] + TakenBy(r, d)' + EverReserved(b, d)
             = reserved[d] + TakenBy(r, d) + (active'[b][d] + released'[b][d])
    PROVE  Counted(d)'
<1> DEFINE was == [c \in Ref |-> active[c][d] + released[c][d]]
           now == [c \in Ref |-> active'[c][d] + released'[c][d]]
           took == [q \in Request |-> TakenBy(q, d)]
           takes == [q \in Request |-> TakenBy(q, d)']
<1>1. \A c \in Ref : was[c] \in Int /\ now[c] \in Int
  <2>1. active \in [Ref -> [Night -> Nat]] /\ released \in [Ref -> [Night -> Nat]]
    BY DEF TypeOK
  <2>2. active' \in [Ref -> [Night -> Nat]] /\ released' \in [Ref -> [Night -> Nat]]
    BY DEF TypeOK
  <2> QED
    BY <2>1, <2>2
<1>2. \A q \in Request : took[q] \in Int /\ takes[q] \in Int
  <2> SUFFICES ASSUME NEW q \in Request PROVE took[q] \in Int /\ takes[q] \in Int
    OBVIOUS
  <2>1. snap \in [Request -> [Night -> Nat]] /\ snap' \in [Request -> [Night -> Nat]]
    BY DEF TypeOK
  <2> QED
    BY <2>1 DEF TakenBy
<1>3. reserved[d] \in Int /\ reserved'[d] \in Int
  BY DEF TypeOK
<1>4. /\ SumFunction(was) = SumFunctionOnSet(was, Ref) /\ SumFunction(now) = SumFunctionOnSet(now, Ref)
      /\ SumFunction(took) = SumFunctionOnSet(took, Request)
      /\ SumFunction(takes) = SumFunctionOnSet(takes, Request)
  BY DEF SumFunction
<1>5. /\ reserved[d] = SumFunction(was) - SumFunction(took)
      /\ Counted(d)' <=> reserved'[d] = SumFunction(now) - SumFunction(takes)
  BY DEF Counted, EverReserved, TakenBy
<1>6. /\ \A c \in Ref \ {b} : was[c] = now[c]
      /\ \A q \in Request \ {r} : took[q] = takes[q]
  BY DEF TakenBy
<1>11. reserved'[d] + takes[r] + was[b] = reserved[d] + took[r] + now[b]
  BY DEF EverReserved, TakenBy
<1> HIDE DEF was, now, took, takes
<1>7. SumFunctionOnSet(now, Ref) = SumFunctionOnSet(was, Ref) - was[b] + now[b]
  <2>1. \A x \in Ref : was[x] \in Int /\ now[x] \in Int
    BY <1>1
  <2>2. \A x \in Ref \ {b} : was[x] = now[x]
    BY <1>6
  <2>3. IsFiniteSet(Ref) /\ b \in Ref
    OBVIOUS
  <2> QED
    BY ONLY <2>1, <2>2, <2>3, SumUpdate
<1>8. SumFunctionOnSet(takes, Request) = SumFunctionOnSet(took, Request) - took[r] + takes[r]
  BY <1>2, <1>6, SumUpdate
<1>9. SumFunctionOnSet(was, Ref) \in Int /\ SumFunctionOnSet(took, Request) \in Int
  BY <1>1, <1>2, SumUnfolded
<1>10. was[b] \in Int /\ now[b] \in Int /\ took[r] \in Int /\ takes[r] \in Int
  BY <1>1, <1>2
<1>12. reserved[d] = SumFunctionOnSet(was, Ref) - SumFunctionOnSet(took, Request)
  BY <1>4, <1>5
<1>13. reserved'[d] = SumFunctionOnSet(now, Ref) - SumFunctionOnSet(takes, Request)
  BY ONLY <1>3, <1>7, <1>8, <1>9, <1>10, <1>11, <1>12
<1> QED
  BY <1>4, <1>5, <1>13

(* At the start no room now reserved, no row now there, nothing was read. *)
LEMMA InitCount == IsFiniteSet(Ref) /\ IsFiniteSet(Request) /\ Init => CountInv
<1> SUFFICES ASSUME IsFiniteSet(Ref), IsFiniteSet(Request), Init PROVE CountInv
  OBVIOUS
<1>type. TypeOK
  BY InitType DEF TypeInv
<1>ref. \A r \in Request : job[r].ref \in Ref
  BY <1>type, JobType
<1>1. ASSUME NEW d \in Night PROVE Counted(d)
  <2> DEFINE units == [b \in Ref |-> EverReserved(b, d)]
             takes == [r \in Request |-> TakenBy(r, d)]
  <2>1. (\A b \in Ref : units[b] = 0) /\ (\A r \in Request : takes[r] = 0)
    BY DEF Init, EverReserved, TakenBy
  <2>2. /\ SumFunction(units) = SumFunctionOnSet(units, Ref)
        /\ SumFunction(takes) = SumFunctionOnSet(takes, Request)
        /\ reserved[d] = 0
    BY DEF SumFunction, Init
  <2> HIDE DEF units, takes
  <2>3. SumFunction(units) = 0 /\ SumFunction(takes) = 0
    BY <2>1, <2>2, SumZero
  <2>4. reserved[d] = SumFunction(units) - SumFunction(takes)
    BY <2>2, <2>3
  <2> QED
    BY <2>4 DEF Counted, units, takes
<1>2. RowsEnded /\ SnapWritten
  BY <1>ref DEF Init, RowsEnded, SnapWritten, TakenBy, EverReserved
<1>3. Keyless
  BY DEF Init, Keyless
<1> QED
  BY <1>1, <1>2, <1>3 DEF CountInv

(* A step of r that writes no row and ends no release. *)
LEMMA CountQuiet ==
    ASSUME IsFiniteSet(Ref), IsFiniteSet(Request), TypeOK, TypeOK', CountInv, NEW r \in Request,
           UNCHANGED <<reserved, active, released, job>>,
           \A q \in Request \ {r} : pc'[q] = pc[q] /\ snap'[q] = snap[q],
           snap'[r] = snap[r] \/ \A d \in Night : snap'[r][d] <= active[job[r].ref][d],
           pc'[r] = "done" /\ job[r].op = "release" => \A d \in Night : snap'[r][d] = 0,
           pc[r] # "done",
           job[r].op = "release" => pc'[r] \notin {"unlock", "abort"}
    PROVE  CountInv'
<1>ref. \A q \in Request : job[q].ref \in Ref
  BY JobType
<1>0. ASSUME NEW q \in Request, NEW d \in Night PROVE TakenBy(q, d)' = TakenBy(q, d)
  <2>1. CASE q # r
    BY <2>1 DEF TakenBy
  <2>2. CASE q = r
    BY <2>2 DEF TakenBy
  <2> QED
    BY <2>1, <2>2
<1>1. ASSUME NEW d \in Night PROVE Counted(d)'
  <2>1. Counted(d)
    BY DEF CountInv
  <2>2. EverReserved(job[r].ref, d)' = EverReserved(job[r].ref, d)
    BY DEF EverReserved
  <2>3. job[r].ref \in Ref
    BY <1>ref
  <2>4. TakenBy(r, d)' = TakenBy(r, d) /\ reserved'[d] = reserved[d]
    BY <1>0
  <2> DEFINE b == job[r].ref
  <2>5. b' = b
    OBVIOUS
  <2>6. reserved'[d] + TakenBy(r, d)' + EverReserved(b, d)
          = reserved[d] + TakenBy(r, d) + (active'[b][d] + released'[b][d])
    BY <2>4 DEF EverReserved
  <2>7. \A c \in Ref \ {b} : active'[c] = active[c] /\ released'[c] = released[c]
    OBVIOUS
  <2>8. \A q \in Request \ {r} : TakenBy(q, d)' = TakenBy(q, d)
    BY <1>0
  <2> HIDE DEF b
  <2> QED
    BY ONLY IsFiniteSet(Ref), IsFiniteSet(Request), TypeOK, TypeOK', d \in Night, r \in Request,
            <2>1, <2>3, <2>6, <2>7, <2>8, CounterMoves DEF b
<1>2. RowsEnded'
  <2> SUFFICES ASSUME NEW q \in Request, NEW d \in Night
               PROVE  TakenBy(q, d)' <= released'[job'[q].ref][d]
    BY DEF RowsEnded
  <2> QED
    BY <1>0 DEF CountInv, RowsEnded
<1>3. SnapWritten'
  <2> SUFFICES ASSUME NEW q \in Request, NEW d \in Night, job[q].op = "release"
               PROVE  snap'[q][d] <= active[job[q].ref][d] + released[job[q].ref][d]
    BY DEF SnapWritten, EverReserved
  <2>1. CASE snap'[q] = snap[q]
    BY <2>1 DEF CountInv, SnapWritten, EverReserved
  <2>2. CASE snap'[q] # snap[q]
    <3>1. snap'[q][d] <= active[job[q].ref][d]
      BY <2>2
    <3>2. /\ snap' \in [Request -> [Night -> Nat]] /\ active \in [Ref -> [Night -> Nat]]
          /\ released \in [Ref -> [Night -> Nat]] /\ job[q].ref \in Ref
      BY <1>ref DEF TypeOK
    <3> QED
      BY <3>1, <3>2
  <2> QED
    BY <2>1, <2>2
<1>4. Keyless'
  BY DEF CountInv, Keyless
<1> QED
  BY <1>1, <1>2, <1>3, <1>4 DEF CountInv

(* Every step keeps the count. *)
LEMMA NextCount ==
    ASSUME IsFiniteSet(Ref), IsFiniteSet(Request), TypeInv, OnRoute, CountInv, [Next]_vars
    PROVE  CountInv'
<1> USE DEF TypeInv, local, rows
<1>type. TypeOK /\ TypeOK'
  BY NextType
<1>lab. {"acquire", "unlock", "abort", "validate", "txread", "txwrite", "commit", "find",
         "increment", "record", "read", "decrement", "oldest", "deactivate", "count", "select",
         "update", "release", "done", "failed", "crashed"} \subseteq Label
  BY DEF Label, InDatabase, Unlocked, Terminal
<1>go. ASSUME NEW r \in Request, NEW l \in Label, Goto(r, l)
       PROVE  /\ pc'[r] = l
              /\ \A q \in Request \ {r} : pc'[q] = pc[q]
  BY <1>go DEF Goto, TypeOK
(* A step that leaves the rows and the snapshots alone. *)
<1>quiet. ASSUME NEW r \in Request, UNCHANGED <<reserved, active, released, job, snap>>,
                 \A q \in Request \ {r} : pc'[q] = pc[q], pc[r] # "done",
                 pc'[r] \in {"unlock", "abort", "done"} => job[r].op # "release"
          PROVE  CountInv'
  BY <1>quiet, <1>type, CountQuiet
<1>locked. \A r \in Request :
              /\ pc[r] \in InDatabase \cup {"acquire", "unlock", "abort"} => job[r].op # "release"
              /\ pc[r] \in InDatabase \cup {"acquire", "unlock", "abort"} \cup Unlocked
                   => pc[r] # "done"
  BY DEF Routed, OnRoute, CountInv, Keyless, InDatabase, Unlocked
<1>1. ASSUME NEW r \in Request, Acquire(r) \/ Validate(r) \/ TxWrite(r) \/ BlockRecord(r)
                                \/ UnblockDeactivate(r)
      PROVE  CountInv'
  <2>1. UNCHANGED <<reserved, active, released, job, snap>>
    BY <1>1 DEF Acquire, Validate, TxWrite, BlockRecord, UnblockDeactivate
  <2>2. pc[r] \in InDatabase \cup {"acquire"}
    BY <1>1 DEF Acquire, Validate, TxWrite, BlockRecord, UnblockDeactivate, InDatabase
  <2>3. \/ Goto(r, "abort")
        \/ \E d \in Night, l, m \in Label : Advance(r, d, l, m)
    <3>1. CASE Acquire(r)
      <4>1. job[r].op \in {"reserve", "block", "unblock"}
        BY <3>1, JobType DEF Acquire, Routed
      <4>2. Body[job[r].op] \in Label
        BY <4>1, <1>lab DEF Body
      <4> QED
        BY <3>1, <4>2, <1>lab DEF Acquire
    <3>2. CASE Validate(r)
      BY <3>2, <1>lab DEF Validate
    <3>3. CASE TxWrite(r)
      BY <3>3, <1>lab DEF TxWrite
    <3>4. CASE BlockRecord(r)
      BY <3>4, <1>lab DEF BlockRecord
    <3>5. CASE UnblockDeactivate(r)
      BY <3>5, <1>lab DEF UnblockDeactivate
    <3> QED
      BY <1>1, <3>1, <3>2, <3>3, <3>4, <3>5
  <2>4. \A q \in Request \ {r} : pc'[q] = pc[q]
    BY <2>3, <1>lab, <1>go, AdvanceType
  <2> QED
    BY <2>1, <2>2, <2>4, <1>locked, <1>quiet
<1>2. ASSUME NEW r \in Request,
             \/ AcquireRefused(r) \/ AcquireReplyLost(r) \/ Unlock(r) \/ TxRead(r)
             \/ BlockFind(r) \/ BlockIncrement(r) \/ UnblockRead(r) \/ UnblockDecrement(r)
             \/ UnblockFind(r) \/ ReleaseCount(r) \/ ReleaseUpdate(r) \/ DatabaseError(r)
      PROVE  CountInv'
  <2>1. UNCHANGED <<reserved, active, released, job, snap>>
    BY <1>2 DEF AcquireRefused, AcquireReplyLost, Unlock, TxRead, BlockFind, BlockIncrement,
                UnblockRead, UnblockDecrement, UnblockFind, ReleaseCount, ReleaseUpdate,
                DatabaseError
  <2>2. \/ /\ pc[r] \in InDatabase \cup {"acquire", "unlock", "abort"}
           /\ \E l \in {"failed", "abort", "unlock", "done", "txwrite", "increment", "record",
                        "decrement", "oldest", "deactivate"} : Goto(r, l)
        \/ /\ pc[r] \in Unlocked
           /\ UNCHANGED pc \/ \E l \in {"failed", "select", "release"} : Goto(r, l)
    BY <1>2 DEF AcquireRefused, AcquireReplyLost, Unlock, TxRead, BlockFind, BlockIncrement,
                UnblockRead, UnblockDecrement, UnblockFind, ReleaseCount, ReleaseUpdate,
                DatabaseError, Unwind, InDatabase, Unlocked
  <2>3. CASE pc[r] \in InDatabase \cup {"acquire", "unlock", "abort"}
    <3>1. \A q \in Request \ {r} : pc'[q] = pc[q]
      BY <2>2, <1>lab, <1>go
    <3> QED
      BY <2>1, <2>3, <3>1, <1>locked, <1>quiet
  <2>4. CASE pc[r] \in Unlocked /\ \E l \in {"failed", "select", "release"} : Goto(r, l)
    <3>1. /\ pc'[r] \in {"failed", "select", "release"}
          /\ \A q \in Request \ {r} : pc'[q] = pc[q]
      BY <2>4, <1>lab, <1>go
    <3> QED
      BY <2>1, <2>4, <3>1, <1>locked, <1>quiet
  <2>5. CASE pc[r] \in Unlocked /\ UNCHANGED pc
    BY <2>1, <2>5, <1>locked, <1>quiet DEF Unlocked
  <2> QED
    BY <2>2, <2>3, <2>4, <2>5
<1>3. ASSUME NEW r \in Request, Crash(r) PROVE CountInv'
  <2>1. /\ UNCHANGED <<reserved, active, released, job, snap>>
        /\ pc[r] # "done" /\ Goto(r, "crashed")
    BY <1>3 DEF Crash, Terminal
  <2> QED
    BY <2>1, <1>lab, <1>go, <1>quiet
<1>4. ASSUME NEW r \in Request, ReleaseSelect(r) PROVE CountInv'
  <2> DEFINE seen == [d \in Night |-> IF job[r].own THEN active[job[r].ref][d] ELSE 0]
  <2>1. /\ UNCHANGED <<reserved, active, released, job>>
        /\ pc[r] = "select" /\ snap' = [snap EXCEPT ![r] = seen]
        /\ \/ (\A d \in Night : seen[d] = 0) /\ Goto(r, "done")
           \/ Goto(r, "update")
    BY <1>4 DEF ReleaseSelect
  <2>2. snap'[r] = seen /\ \A q \in Request \ {r} : snap'[q] = snap[q]
    BY <2>1 DEF TypeOK
  <2>3. \A d \in Night : seen[d] <= active[job[r].ref][d]
    <3>1. job[r].ref \in Ref /\ active \in [Ref -> [Night -> Nat]]
      BY JobType DEF TypeOK
    <3> QED
      BY <3>1
  <2> HIDE DEF seen
  <2>4. /\ pc'[r] \in {"done", "update"} /\ \A q \in Request \ {r} : pc'[q] = pc[q]
        /\ pc'[r] = "done" => \A d \in Night : snap'[r][d] = 0
    BY <2>1, <2>2, <1>lab, <1>go
  <2> QED
    BY <2>1, <2>2, <2>3, <2>4, <1>type, CountQuiet
<1>5. ASSUME NEW r \in Request, Commit(r) PROVE CountInv'
  <2> DEFINE b == job[r].ref
             more(d) == IF d \in Nights(r) THEN job[r].qty ELSE 0
  <2>1. /\ b \in Ref /\ \A d \in Night : more(d) \in Nat
        /\ active \in [Ref -> [Night -> Nat]] /\ released \in [Ref -> [Night -> Nat]]
        /\ reserved \in [Night -> Int]
    BY JobType DEF TypeOK
  <2>2. /\ UNCHANGED <<released, job, snap>>
        /\ pc[r] = "commit" /\ Goto(r, "unlock") /\ job[r].op = "reserve"
    BY <1>5 DEF Commit, OnRoute
  <2>3. /\ pc'[r] = "unlock"
        /\ \A q \in Request \ {r} : pc'[q] = pc[q]
    BY <2>2, <1>lab, <1>go
  <2>4. \A d \in Night : reserved'[d] = reserved[d] + more(d)
    BY <1>5, <2>1 DEF Commit
  <2>5. /\ \A d \in Night : active'[b][d] = active[b][d] + more(d)
        /\ \A c \in Ref \ {b} : active'[c] = active[c]
    BY <1>5, <2>1 DEF Commit
  <2> HIDE DEF b, more
  <2>6. ASSUME NEW q \in Request, NEW d \in Night PROVE TakenBy(q, d)' = TakenBy(q, d)
    BY <2>2, <2>3 DEF TakenBy
  <2>7. ASSUME NEW d \in Night PROVE Counted(d)'
    <3>1. Counted(d) /\ TakenBy(r, d)' = TakenBy(r, d) /\ TakenBy(r, d) = 0
      BY <2>2, <2>6 DEF CountInv, TakenBy
    <3>2. reserved'[d] + TakenBy(r, d)' + EverReserved(b, d)
            = reserved[d] + TakenBy(r, d) + (active'[b][d] + released'[b][d])
      <4>1. /\ reserved[d] \in Int /\ more(d) \in Int /\ active[b][d] \in Int
            /\ released[b][d] \in Int
        BY <2>1
      <4>2. /\ reserved'[d] = reserved[d] + more(d) /\ active'[b][d] = active[b][d] + more(d)
            /\ released'[b][d] = released[b][d]
        BY <2>2, <2>4, <2>5
      <4> QED
        BY <3>1, <4>1, <4>2 DEF EverReserved
    <3>3. \A c \in Ref \ {b} : active'[c] = active[c] /\ released'[c] = released[c]
      BY <2>2, <2>5
    <3>4. \A q \in Request \ {r} : TakenBy(q, d)' = TakenBy(q, d)
      BY <2>6
    <3> QED
      BY ONLY IsFiniteSet(Ref), IsFiniteSet(Request), <1>type, d \in Night, r \in Request,
              <2>1, <3>1, <3>2, <3>3, <3>4, CounterMoves
  <2>8. RowsEnded'
    <3> SUFFICES ASSUME NEW q \in Request, NEW d \in Night
                 PROVE  TakenBy(q, d)' <= released'[job'[q].ref][d]
      BY DEF RowsEnded
    <3> QED
      BY <2>2, <2>6 DEF CountInv, RowsEnded
  <2>9. SnapWritten'
    <3> SUFFICES ASSUME NEW q \in Request, NEW d \in Night, job[q].op = "release"
                 PROVE  snap[q][d] <= active'[job[q].ref][d] + released[job[q].ref][d]
      BY <2>2 DEF SnapWritten, EverReserved
    <3>1. snap[q][d] <= active[job[q].ref][d] + released[job[q].ref][d]
      BY DEF CountInv, SnapWritten, EverReserved
    <3>4. job[q].ref \in Ref /\ snap \in [Request -> [Night -> Nat]]
      BY JobType DEF TypeOK
    <3>2. /\ snap[q][d] \in Int /\ active[job[q].ref][d] \in Int /\ released[job[q].ref][d] \in Int
          /\ more(d) \in Nat
      BY <2>1, <3>4
    <3>3. active'[job[q].ref][d] \in {active[job[q].ref][d], active[job[q].ref][d] + more(d)}
      BY <2>5, JobType
    <3> QED
      BY <3>1, <3>2, <3>3
  <2> QED
    BY <2>2, <2>3, <2>7, <2>8, <2>9 DEF CountInv, Keyless
<1>6. ASSUME NEW r \in Request, ReleaseCommit(r) PROVE CountInv'
  <2> DEFINE b == job[r].ref
  <2>1. /\ b \in Ref /\ snap \in [Request -> [Night -> Nat]]
        /\ active \in [Ref -> [Night -> Nat]] /\ released \in [Ref -> [Night -> Nat]]
        /\ reserved \in [Night -> Int]
    BY JobType DEF TypeOK
  <2>2. /\ UNCHANGED <<job, snap>> /\ pc[r] = "release" /\ Goto(r, "done") /\ job[r].op = "release"
    BY <1>6 DEF ReleaseCommit, OnRoute, Unlocked
  <2>3. /\ pc'[r] = "done"
        /\ \A q \in Request \ {r} : pc'[q] = pc[q]
    BY <2>2, <1>lab, <1>go
  <2>4. \A d \in Night : reserved'[d] = reserved[d] - snap[r][d]
    BY <1>6 DEF ReleaseCommit
  <2>5. /\ \A d \in Night : active'[b][d] = 0 /\ released'[b][d] = released[b][d] + active[b][d]
        /\ \A c \in Ref \ {b} : active'[c] = active[c] /\ released'[c] = released[c]
    BY <1>6, <2>1 DEF ReleaseCommit
  <2> HIDE DEF b
  <2>6. ASSUME NEW q \in Request \ {r}, NEW d \in Night PROVE TakenBy(q, d)' = TakenBy(q, d)
    BY <2>2, <2>3 DEF TakenBy
  <2>7. ASSUME NEW d \in Night PROVE TakenBy(r, d) = 0 /\ TakenBy(r, d)' = snap[r][d]
    BY <2>2, <2>3 DEF TakenBy
  <2>8. ASSUME NEW d \in Night PROVE Counted(d)'
    <3>1. Counted(d) /\ \A q \in Request \ {r} : TakenBy(q, d)' = TakenBy(q, d)
      BY <2>6 DEF CountInv
    <3>2. reserved'[d] + TakenBy(r, d)' + EverReserved(b, d)
            = reserved[d] + TakenBy(r, d) + (active'[b][d] + released'[b][d])
      <4>1. /\ reserved[d] \in Int /\ snap[r][d] \in Int /\ active[b][d] \in Int
            /\ released[b][d] \in Int
        BY <2>1
      <4>2. reserved'[d] = reserved[d] - snap[r][d] /\ active'[b][d] = 0
            /\ released'[b][d] = released[b][d] + active[b][d]
        BY <2>4, <2>5
      <4> QED
        BY <2>7, <4>1, <4>2 DEF EverReserved
    <3> QED
      BY ONLY IsFiniteSet(Ref), IsFiniteSet(Request), <1>type, d \in Night, r \in Request,
              <2>1, <2>5, <3>1, <3>2, CounterMoves
  <2>9. ASSUME NEW c \in Ref, NEW d \in Night
        PROVE  /\ active'[c][d] + released'[c][d] = active[c][d] + released[c][d]
               /\ released[c][d] <= released'[c][d]
    <3>1. active[c][d] \in Nat /\ released[c][d] \in Nat
      BY <2>1
    <3> QED
      BY <2>5, <3>1
  <2>10. RowsEnded'
    <3> SUFFICES ASSUME NEW q \in Request, NEW d \in Night
                 PROVE  TakenBy(q, d)' <= released'[job[q].ref][d]
      BY <2>2 DEF RowsEnded
    <3>1. CASE q = r
      <4>1. snap[r][d] <= active[b][d] + released[b][d]
        BY <2>2 DEF CountInv, SnapWritten, EverReserved, b
      <4>2. released'[b][d] = released[b][d] + active[b][d]
        BY <2>5
      <4>3. active[b][d] \in Nat /\ released[b][d] \in Nat
        BY <2>1
      <4> QED
        BY <2>7, <3>1, <4>1, <4>2, <4>3 DEF b
    <3>2. CASE q # r
      <4>1. TakenBy(q, d)' = TakenBy(q, d) /\ TakenBy(q, d) <= released[job[q].ref][d]
        BY <2>6, <3>2 DEF CountInv, RowsEnded
      <4>2. released[job[q].ref][d] <= released'[job[q].ref][d]
        BY <2>9, JobType
      <4>4. job[q].ref \in Ref /\ released' \in [Ref -> [Night -> Nat]]
        BY <1>type, JobType DEF TypeOK
      <4>5. TakenBy(q, d) \in Int
        BY <2>1 DEF TakenBy
      <4>3. released[job[q].ref][d] \in Int /\ released'[job[q].ref][d] \in Int
        BY <2>1, <4>4
      <4> QED
        BY <4>1, <4>2, <4>3, <4>5
    <3> QED
      BY <3>1, <3>2
  <2>11. SnapWritten'
    <3> SUFFICES ASSUME NEW q \in Request, NEW d \in Night, job[q].op = "release"
                 PROVE  snap[q][d] <= active'[job[q].ref][d] + released'[job[q].ref][d]
      BY <2>2 DEF SnapWritten, EverReserved
    <3> QED
      BY <2>9, JobType DEF CountInv, SnapWritten, EverReserved
  <2>12. Keyless'
    BY <2>2, <2>3 DEF CountInv, Keyless
  <2> QED
    BY <2>8, <2>10, <2>11, <2>12 DEF CountInv
<1>7. ASSUME UNCHANGED <<reserved, active, released, job, pc, snap>> PROVE CountInv'
  BY <1>7 DEF CountInv, Counted, RowsEnded, SnapWritten, Keyless, EverReserved, TakenBy
<1>8. ASSUME (\E d \in Night : Expire(d)) \/ Finished \/ UNCHANGED vars
      PROVE  UNCHANGED <<reserved, active, released, job, pc, snap>>
  BY <1>8 DEF Expire, Finished, vars
<1> QED
  BY <1>1, <1>2, <1>3, <1>4, <1>5, <1>6, <1>7, <1>8 DEF Next, Step

(* The counter of a night is the sum of the rows ever written less what    *)
(* the finished releases had read, and none of them took off a row that is *)
(* still ACTIVE: whatever requests share a reference, whenever their locks *)
(* expire, and however their reads and commits interleave.                 *)
THEOREM ReservedCounts ==
    ASSUME IsFiniteSet(Ref), IsFiniteSet(Request) PROVE Spec => []ReservedFollowsRows
<1> DEFINE All == TypeInv /\ OnRoute /\ CountInv
<1>1. Init => All
  <2>1. Init => OnRoute
    BY DEF Init, OnRoute, Unlocked
  <2> QED
    BY <2>1, InitType, InitCount
<1>2. All /\ [Next]_vars => All'
  BY NextType, NextRoute, NextCount
<1>3. All => ReservedFollowsRows
  BY DEF ReservedFollowsRows, CountInv, Counted, RowsEnded
<1> QED
  BY <1>1, <1>2, <1>3, PTL DEF Spec

-----------------------------------------------------------------------------
(* The blocked count and the block records. *)

(* An unblock was cut short, or is about to end with an error. *)
Stopped == \E r \in Request : job[r].op = "unblock" /\ pc[r] \in {"abort", "failed", "crashed"}

(* The records that deactivateOldestByInventory leaves, of all that are     *)
(* there and once it has read which ones it ends.                          *)
Rest(r, d) == SubSeq(blocks[d], job[r].qty + 1, Len(blocks[d]))

Left(r, d) == SubSeq(blocks[d], (oldest[r] - ended[d]) + 1, Len(blocks[d]))

(* The handler r is at a step that is about the night d. *)
Turn(r, d, label) == pc[r] = label /\ NextNight(r, d)

(* No record stands for less than one room. *)
UnitRecords == blocks \in [Night -> Seq(Nat \ {0})]

(* A night whose turn it is in no unblock between its two writes has its   *)
(* records covered; a block has incremented ahead of its record, and an    *)
(* unblock has checked what it takes and left what its records will claim. *)
NightCovered(d) ==
    /\ \A r \in Request : Turn(r, d, "decrement") => job[r].qty <= blocked[d]
    /\ \A r \in Request : Turn(r, d, "record") => SumFunction(blocks[d]) + job[r].qty <= blocked[d]
    /\ \A r \in Request : Turn(r, d, "oldest") => SumFunction(Rest(r, d)) <= blocked[d]
    /\ \A r \in Request : Turn(r, d, "deactivate") =>
          oldest[r] >= ended[d] /\ SumFunction(Left(r, d)) <= blocked[d]
    /\ (\A r \in Request : ~Turn(r, d, "oldest") /\ ~Turn(r, d, "deactivate"))
          => SumFunction(blocks[d]) <= blocked[d]

RecordInv == UnitRecords /\ (~Stopped => \A d \in Night : NightCovered(d))

(* A step that writes neither the blocked count nor its records. *)
LEMMA RecordQuiet ==
    ASSUME RecordInv, NEW r \in Request, UNCHANGED <<blocked, blocks, ended, oldest, job>>,
           \A q \in Request \ {r} : pc'[q] = pc[q] /\ todo'[q] = todo[q],
           pc[r] \notin {"oldest", "deactivate"},
           job[r].op = "unblock" => pc[r] \notin {"abort", "failed", "crashed"},
           pc'[r] \notin {"decrement", "record", "oldest", "deactivate"}
    PROVE  RecordInv'
<1>1. UnitRecords'
  BY DEF RecordInv, UnitRecords
<1>2. ASSUME ~Stopped', NEW d \in Night PROVE NightCovered(d)'
  <2>1. ~Stopped
    BY <1>2 DEF Stopped
  <2>2. NightCovered(d)
    BY <2>1 DEF RecordInv
  <2>3. \A q \in Request \ {r} :
          /\ Turn(q, d, "decrement")' <=> Turn(q, d, "decrement")
          /\ Turn(q, d, "record")' <=> Turn(q, d, "record")
          /\ Turn(q, d, "oldest")' <=> Turn(q, d, "oldest")
          /\ Turn(q, d, "deactivate")' <=> Turn(q, d, "deactivate")
    BY DEF Turn, NextNight
  <2>4. /\ ~Turn(r, d, "decrement")' /\ ~Turn(r, d, "record")'
        /\ ~Turn(r, d, "oldest")' /\ ~Turn(r, d, "deactivate")'
    BY DEF Turn
  <2>5. ~Turn(r, d, "oldest") /\ ~Turn(r, d, "deactivate")
    BY DEF Turn
  <2>6. \A q \in Request : Rest(q, d)' = Rest(q, d) /\ Left(q, d)' = Left(q, d)
    BY DEF Rest, Left
  <2>7. /\ \A q \in Request : Turn(q, d, "decrement")' => Turn(q, d, "decrement")
        /\ \A q \in Request : Turn(q, d, "record")' => Turn(q, d, "record")
        /\ \A q \in Request : Turn(q, d, "oldest")' <=> Turn(q, d, "oldest")
        /\ \A q \in Request : Turn(q, d, "deactivate")' <=> Turn(q, d, "deactivate")
    BY <2>3, <2>4, <2>5
  <2> QED
    BY <2>2, <2>6, <2>7 DEF NightCovered
<1> QED
  BY <1>1, <1>2 DEF RecordInv

(* A step that stops an unblock: nothing is promised any more. *)
LEMMA RecordStops ==
    ASSUME RecordInv, NEW r \in Request, UNCHANGED <<blocks, job>>, job[r].op = "unblock",
           pc'[r] \in {"abort", "failed", "crashed"}
    PROVE  RecordInv'
BY DEF RecordInv, UnitRecords, Stopped

(* The handler r writes the counter or the records of night d: it alone is *)
(* at work there.                                                          *)
LEMMA RecordStep ==
    ASSUME TypeOK, LockInv, RecordInv, NEW r \in Request, NEW d \in Night, NextNight(r, d),
           pc[r] \in {"increment", "record", "decrement", "oldest", "deactivate"}, job' = job,
           \A q \in Request \ {r} : pc'[q] = pc[q] /\ todo'[q] = todo[q] /\ oldest'[q] = oldest[q],
           \A e \in Night \ {d} : blocked'[e] = blocked[e] /\ blocks'[e] = blocks[e]
                                   /\ ended'[e] = ended[e],
           UnitRecords', pc'[r] \notin {"abort", "failed", "crashed", "decrement"},
           pc'[r] \in {"record", "oldest", "deactivate"} => todo'[r] = todo[r],
           ~Stopped => /\ pc'[r] = "record" => SumFunction(blocks'[d]) + job[r].qty <= blocked'[d]
                       /\ pc'[r] = "oldest" => SumFunction(Rest(r, d)') <= blocked'[d]
                       /\ pc'[r] = "deactivate" =>
                            oldest'[r] >= ended'[d] /\ SumFunction(Left(r, d)') <= blocked'[d]
                       /\ pc'[r] \notin {"oldest", "deactivate"}
                            => SumFunction(blocks'[d]) <= blocked'[d]
    PROVE  RecordInv'
<1> SUFFICES ASSUME ~Stopped', NEW e \in Night PROVE NightCovered(e)'
  BY DEF RecordInv
<1>1. ~Stopped
  BY DEF Stopped
<1>2. d \in Nights(r) /\ todo[r] \subseteq Night
  BY JobType DEF NextNight, LockInv, InRange
<1>3. ASSUME NEW q \in Request \ {r},
             pc[q] \in {"decrement", "record", "oldest", "deactivate"} PROVE ~NextNight(q, d)
  <2>1. pc[q] \in InDatabase /\ pc[r] \in InDatabase
    BY <1>3 DEF InDatabase
  <2>2. d \notin Nights(q)
    BY <1>2, <2>1, LockExclusion DEF ExclusiveNights
  <2> QED
    BY <2>2 DEF NextNight, LockInv, InRange
<1>4. CASE e = d
  <2>1. \A q \in Request \ {r} : \A label \in {"decrement", "record", "oldest", "deactivate"} :
            ~Turn(q, d, label)'
    BY <1>3 DEF Turn, NextNight
  <2>2. ~Turn(r, d, "decrement")'
    BY DEF Turn
  <2>3. Turn(r, d, "record")' => SumFunction(blocks'[d]) + job[r].qty <= blocked'[d]
    BY <1>1 DEF Turn
  <2>4. /\ Turn(r, d, "oldest")' => SumFunction(Rest(r, d)') <= blocked'[d]
        /\ Turn(r, d, "deactivate")' =>
              oldest'[r] >= ended'[d] /\ SumFunction(Left(r, d)') <= blocked'[d]
    BY <1>1 DEF Turn
  <2>5. ~Turn(r, d, "oldest")' /\ ~Turn(r, d, "deactivate")' => SumFunction(blocks'[d]) <= blocked'[d]
    <3>1. pc'[r] \in {"oldest", "deactivate"} => NextNight(r, d)'
      BY DEF NextNight
    <3> QED
      BY <1>1, <3>1 DEF Turn
  <2> QED
    BY <1>4, <2>1, <2>2, <2>3, <2>4, <2>5 DEF NightCovered
<1>5. CASE e # d
  <2>1. NightCovered(e)
    BY <1>1 DEF RecordInv
  <2>2. ~NextNight(r, e)
    BY <1>5, OneNext
  <2>3. \A q \in Request \ {r} :
          /\ Turn(q, e, "decrement")' <=> Turn(q, e, "decrement")
          /\ Turn(q, e, "record")' <=> Turn(q, e, "record")
          /\ Turn(q, e, "oldest")' <=> Turn(q, e, "oldest")
          /\ Turn(q, e, "deactivate")' <=> Turn(q, e, "deactivate")
    BY DEF Turn, NextNight
  <2>4. /\ ~Turn(r, e, "decrement")' /\ ~Turn(r, e, "record")'
        /\ ~Turn(r, e, "oldest")' /\ ~Turn(r, e, "deactivate")'
    BY <2>2 DEF Turn, NextNight
  <2>5. ~Turn(r, e, "oldest") /\ ~Turn(r, e, "deactivate")
    BY <2>2 DEF Turn
  <2>6. /\ \A q \in Request : Turn(q, e, "decrement")' => Turn(q, e, "decrement")
        /\ \A q \in Request : Turn(q, e, "record")' => Turn(q, e, "record")
        /\ \A q \in Request : Turn(q, e, "oldest")' <=> Turn(q, e, "oldest")
        /\ \A q \in Request : Turn(q, e, "deactivate")' <=> Turn(q, e, "deactivate")
    BY <2>3, <2>4, <2>5
  <2>7. blocked'[e] = blocked[e] /\ blocks'[e] = blocks[e] /\ ended'[e] = ended[e]
    BY <1>5
  <2>8. \A q \in Request : Rest(q, e)' = Rest(q, e)
    BY <2>7 DEF Rest
  <2>9. \A q \in Request \ {r} : oldest'[q] = oldest[q] /\ Left(q, e)' = Left(q, e)
    BY <2>7 DEF Left
  <2>10. \A q \in Request : Turn(q, e, "deactivate")' =>
            oldest'[q] >= ended'[e] /\ SumFunction(Left(q, e)') <= blocked'[e]
    BY <2>1, <2>4, <2>6, <2>7, <2>9 DEF NightCovered
  <2> QED
    BY <2>1, <2>6, <2>7, <2>8, <2>10 DEF NightCovered
<1> QED
  BY <1>4, <1>5

(* Before the first request there is no record. *)
LEMMA InitRecord == Init => RecordInv
<1> SUFFICES ASSUME Init PROVE RecordInv
  OBVIOUS
<1>1. UnitRecords
  BY DEF Init, UnitRecords
<1>2. SumFunction(<< >>) = 0
  BY SumEmpty
<1>3. \A d \in Night : NightCovered(d)
  <2> SUFFICES ASSUME NEW d \in Night PROVE NightCovered(d)
    OBVIOUS
  <2>1. blocks[d] = << >> /\ blocked[d] = 0
    BY DEF Init
  <2>2. \A r \in Request, label \in {"decrement", "record", "oldest", "deactivate"} :
            ~Turn(r, d, label)
    BY DEF Init, Turn
  <2> QED
    BY <1>2, <2>1, <2>2 DEF NightCovered
<1> QED
  BY <1>1, <1>3 DEF RecordInv

(* Every step keeps the records covered. *)
LEMMA NextRecord ==
    ASSUME TypeInv, OnRoute, LockInv, RecordInv, [Next]_vars
    PROVE  RecordInv'
<1> USE DEF TypeInv, local
<1>lab. {"acquire", "unlock", "abort", "validate", "txread", "txwrite", "commit", "find",
         "increment", "record", "read", "decrement", "oldest", "deactivate", "count", "select",
         "update", "release", "done", "failed", "crashed"} \subseteq Label
  BY DEF Label, InDatabase, Unlocked, Terminal
<1>off. Unlocked = {"count", "select", "update", "release"}
  BY DEF Unlocked
<1>go. ASSUME NEW r \in Request, NEW l \in Label, Goto(r, l), todo' = todo
       PROVE  /\ pc'[r] = l
              /\ \A q \in Request \ {r} : pc'[q] = pc[q] /\ todo'[q] = todo[q]
  BY <1>go DEF Goto, TypeOK
<1>type. /\ blocked \in [Night -> Int] /\ blocks \in [Night -> Seq(Nat \ {0})]
         /\ ended \in [Night -> Nat] /\ oldest \in [Request -> Nat]
      /\ \A r \in Request : job[r].qty \in Nat \ {0}
  BY JobType DEF TypeOK, RecordInv, UnitRecords
<1>sum. \A d \in Night : SumFunction(blocks[d]) \in Int
  BY <1>type, SumType
(* Where it is a night's turn, nothing but its own unblock is between two writes. *)
<1>at. ASSUME NEW r \in Request, NEW d \in Night, NextNight(r, d), ~Stopped,
              pc[r] \in {"increment", "record", "read", "decrement", "oldest", "deactivate"}
       PROVE  /\ NightCovered(d)
              /\ pc[r] \notin {"oldest", "deactivate"} => SumFunction(blocks[d]) <= blocked[d]
  <2>1. NightCovered(d)
    BY <1>at DEF RecordInv
  <2>2. ASSUME NEW q \in Request, Turn(q, d, "oldest") \/ Turn(q, d, "deactivate"),
               pc[r] \notin {"oldest", "deactivate"}
        PROVE  FALSE
    <3>1. q # r /\ pc[q] \in InDatabase /\ pc[r] \in InDatabase
      BY <1>at, <2>2 DEF Turn, InDatabase
    <3>2. d \in Nights(q) /\ d \in Nights(r)
      BY <1>at, <2>2 DEF Turn, NextNight, LockInv, InRange
    <3> QED
      BY <3>1, <3>2, LockExclusion DEF ExclusiveNights
  <2> QED
    BY <2>1, <2>2 DEF NightCovered
<1>1. ASSUME NEW r \in Request, Acquire(r) \/ Validate(r) \/ TxWrite(r) PROVE RecordInv'
  <2>1. /\ UNCHANGED <<blocked, blocks, ended, oldest, job>>
        /\ pc[r] \in {"acquire", "validate", "txwrite"}
    BY <1>1 DEF Acquire, Validate, TxWrite, rows
  <2>2. pc[r] = "acquire" => Body[job[r].op] \in {"validate", "find", "read"}
    <3>1. pc[r] = "acquire" => job[r].op \in {"reserve", "block", "unblock"}
      BY JobType DEF Routed
    <3> QED
      BY <3>1 DEF Body
  <2>3. ASSUME NEW d \in Night, NEW again \in Label, NEW after \in Label,
               Advance(r, d, again, after),
               {again, after} \subseteq
                  {"acquire", "validate", "find", "read", "txread", "commit"}
        PROVE  RecordInv'
    <3>1. /\ \A q \in Request \ {r} : pc'[q] = pc[q] /\ todo'[q] = todo[q]
          /\ pc'[r] \in {again, after}
      BY <2>3, AdvanceRange
    <3> QED
      BY <2>1, <2>3, <3>1, RecordQuiet
  <2>4. CASE Acquire(r)
    <3>1. PICK d \in Night : Advance(r, d, "acquire", Body[job[r].op])
      BY <2>4 DEF Acquire
    <3>2. Body[job[r].op] \in {"validate", "find", "read"}
      BY <2>2, <2>4 DEF Acquire
    <3>3. Body[job[r].op] \in Label
      BY <3>2, <1>lab
    <3> QED
      BY <2>3, <3>1, <3>2, <3>3, <1>lab
  <2>5. CASE Validate(r)
    <3>1. PICK d \in Night :
             Advance(r, d, "validate", "txread") \/ (Goto(r, "abort") /\ UNCHANGED todo)
      BY <2>5 DEF Validate
    <3>2. CASE Goto(r, "abort") /\ UNCHANGED todo
      <4>1. pc'[r] = "abort" /\ \A q \in Request \ {r} : pc'[q] = pc[q] /\ todo'[q] = todo[q]
        BY <3>2, <1>lab, <1>go
      <4> QED
        BY <2>1, <4>1, RecordQuiet
    <3> QED
      BY <2>3, <3>1, <3>2, <1>lab
  <2>6. CASE TxWrite(r)
    BY <2>3, <2>6, <1>lab DEF TxWrite
  <2> QED
    BY <1>1, <2>4, <2>5, <2>6
<1>2. ASSUME NEW r \in Request,
             AcquireRefused(r) \/ AcquireReplyLost(r) \/ DatabaseError(r) \/ Crash(r)
      PROVE  RecordInv'
  <2>1. /\ Goto(r, "failed") \/ Goto(r, "abort") \/ Goto(r, "crashed")
        /\ UNCHANGED <<blocked, blocks, ended, oldest, job, todo>>
        /\ pc[r] \notin Terminal \cup {"abort"} \/ Crash(r)
    BY <1>2, <1>off DEF AcquireRefused, AcquireReplyLost, DatabaseError, Crash, Unwind, rows,
                        InDatabase, Terminal
  <2>2. /\ pc'[r] \in {"abort", "failed", "crashed"}
        /\ \A q \in Request \ {r} : pc'[q] = pc[q] /\ todo'[q] = todo[q]
    BY <2>1, <1>lab, <1>go
  <2>3. CASE job[r].op = "unblock"
    BY <2>1, <2>2, <2>3, RecordStops
  <2>4. CASE job[r].op # "unblock"
    <3>1. pc[r] \notin {"oldest", "deactivate"}
      BY <2>4 DEF OnRoute
    <3> QED
      BY <2>1, <2>2, <2>4, <3>1, RecordQuiet
  <2> QED
    BY <2>3, <2>4
<1>3. ASSUME NEW r \in Request, Unlock(r) PROVE RecordInv'
  <2>1. /\ \/ pc[r] = "unlock" /\ (Goto(r, "unlock") \/ Goto(r, "done"))
           \/ pc[r] = "abort" /\ (Goto(r, "abort") \/ Goto(r, "failed"))
        /\ UNCHANGED <<blocked, blocks, ended, oldest, job, todo>>
    BY <1>3 DEF Unlock, rows
  <2>2. CASE pc[r] = "unlock"
    <3>1. /\ pc'[r] \in {"unlock", "done"}
          /\ \A q \in Request \ {r} : pc'[q] = pc[q] /\ todo'[q] = todo[q]
      BY <2>1, <2>2, <1>lab, <1>go
    <3> QED
      BY <2>1, <2>2, <3>1, RecordQuiet
  <2>3. CASE pc[r] = "abort"
    <3>1. /\ pc'[r] \in {"abort", "failed"}
          /\ \A q \in Request \ {r} : pc'[q] = pc[q] /\ todo'[q] = todo[q]
      BY <2>1, <2>3, <1>lab, <1>go
    <3>2. CASE job[r].op = "unblock"
      BY <2>1, <3>1, <3>2, RecordStops
    <3>3. CASE job[r].op # "unblock"
      BY <2>1, <2>3, <3>1, <3>3, RecordQuiet
    <3> QED
      BY <3>2, <3>3
  <2> QED
    BY <2>1, <2>2, <2>3
<1>4. ASSUME NEW r \in Request,
             \/ TxRead(r) \/ Commit(r) \/ BlockFind(r)
             \/ ReleaseCount(r) \/ ReleaseSelect(r) \/ ReleaseUpdate(r) \/ ReleaseCommit(r)
      PROVE  RecordInv'
  <2>1. /\ \/ Goto(r, "txwrite") \/ Goto(r, "abort") \/ Goto(r, "unlock") \/ Goto(r, "increment")
           \/ Goto(r, "select") \/ Goto(r, "update") \/ Goto(r, "release") \/ Goto(r, "failed")
           \/ Goto(r, "done") \/ (UNCHANGED pc /\ pc[r] = "update")
        /\ UNCHANGED <<blocked, blocks, ended, oldest, job, todo>>
        /\ pc[r] \in {"txread", "commit", "find", "count", "select", "update", "release"}
    BY <1>4 DEF TxRead, Commit, BlockFind, ReleaseCount, ReleaseSelect, ReleaseUpdate,
                ReleaseCommit, rows
  <2>2. /\ pc'[r] \in {"txwrite", "abort", "unlock", "increment", "select", "update", "release",
                       "failed", "done"}
        /\ \A q \in Request \ {r} : pc'[q] = pc[q] /\ todo'[q] = todo[q]
    BY <2>1, <1>lab, <1>go
  <2> QED
    BY <2>1, <2>2, RecordQuiet
<1>5. ASSUME NEW r \in Request, BlockIncrement(r) PROVE RecordInv'
  <2>1. PICK d \in Night : NextNight(r, d) /\ blocked' = [blocked EXCEPT ![d] = @ + job[r].qty]
    BY <1>5 DEF BlockIncrement
  <2>2. pc[r] = "increment" /\ Goto(r, "record") /\ UNCHANGED <<blocks, ended, oldest, job, todo>>
    BY <1>5 DEF BlockIncrement
  <2>3. /\ pc'[r] = "record"
        /\ \A q \in Request \ {r} : pc'[q] = pc[q] /\ todo'[q] = todo[q]
    BY <2>2, <1>lab, <1>go
  <2>4. /\ blocked'[d] = blocked[d] + job[r].qty
        /\ \A e \in Night \ {d} : blocked'[e] = blocked[e] /\ blocks'[e] = blocks[e]
                                /\ ended'[e] = ended[e]
    BY <2>1, <2>2, <1>type
  <2>5. UnitRecords'
    BY <2>2, <1>type DEF UnitRecords
  <2>6. ~Stopped => /\ SumFunction(blocks'[d]) + job[r].qty <= blocked'[d]
                    /\ SumFunction(blocks'[d]) <= blocked'[d]
    <3>1. ~Stopped => SumFunction(blocks[d]) <= blocked[d]
      BY <2>1, <2>2, <1>at
    <3>2. SumFunction(blocks[d]) \in Int /\ blocked[d] \in Int /\ job[r].qty \in Nat
      BY <1>type, <1>sum
    <3> QED
      BY <2>2, <2>4, <3>1, <3>2
  <2> QED
    BY <2>1, <2>2, <2>3, <2>4, <2>5, <2>6, RecordStep
<1>6. ASSUME NEW r \in Request, BlockRecord(r) PROVE RecordInv'
  <2>1. PICK d \in Night : /\ NextNight(r, d)
                           /\ blocks' = [blocks EXCEPT ![d] = Append(@, job[r].qty)]
                           /\ Advance(r, d, "find", "unlock")
    BY <1>6 DEF BlockRecord
  <2>2. pc[r] = "record" /\ UNCHANGED <<blocked, ended, oldest, job>>
    BY <1>6 DEF BlockRecord
  <2>3. /\ pc'[r] \in {"find", "unlock"}
        /\ \A q \in Request \ {r} : pc'[q] = pc[q] /\ todo'[q] = todo[q]
    BY <2>1, <1>lab, AdvanceRange
  <2>4. /\ blocks'[d] = Append(blocks[d], job[r].qty)
        /\ \A e \in Night \ {d} : blocked'[e] = blocked[e] /\ blocks'[e] = blocks[e]
                                /\ ended'[e] = ended[e]
    BY <2>1, <2>2, <1>type
  <2>5. UnitRecords'
    <3>1. Append(blocks[d], job[r].qty) \in Seq(Nat \ {0})
      BY <1>type, AppendProperties
    <3> QED
      BY <2>1, <3>1, <1>type DEF UnitRecords
  <2>6. ~Stopped => SumFunction(blocks'[d]) <= blocked'[d]
    <3>1. ~Stopped => SumFunction(blocks[d]) + job[r].qty <= blocked[d]
      BY <2>1, <2>2, <1>at DEF NightCovered, Turn
    <3>2. SumFunction(Append(blocks[d], job[r].qty)) = SumFunction(blocks[d]) + job[r].qty
      <4>1. blocks[d] \in Seq(Nat \ {0}) /\ job[r].qty \in Int
        BY <1>type
      <4>2. blocks[d] \in Seq(Int)
        BY <4>1
      <4> QED
        BY <4>1, <4>2, SumAppend
    <3> QED
      BY <2>2, <2>4, <3>1, <3>2
  <2> QED
    BY <2>1, <2>2, <2>3, <2>4, <2>5, <2>6, RecordStep
<1>7. ASSUME NEW r \in Request, UnblockRead(r) PROVE RecordInv'
  <2>1. PICK d \in Night :
           /\ NextNight(r, d)
           /\ Goto(r, IF blocked[d] < job[r].qty THEN "abort" ELSE "decrement")
    BY <1>7 DEF UnblockRead
  <2>2. pc[r] = "read" /\ UNCHANGED <<blocked, blocks, ended, oldest, job, todo>>
    BY <1>7 DEF UnblockRead, rows
  <2>3. CASE blocked[d] < job[r].qty
    <3>1. pc'[r] = "abort" /\ job[r].op = "unblock"
      BY <2>1, <2>2, <2>3, <1>lab, <1>go DEF OnRoute
    <3> QED
      BY <2>2, <3>1, RecordStops
  <2>4. CASE ~(blocked[d] < job[r].qty)
    <3>1. /\ pc'[r] = "decrement"
          /\ \A q \in Request \ {r} : pc'[q] = pc[q] /\ todo'[q] = todo[q]
      BY <2>1, <2>2, <2>4, <1>lab, <1>go
    <3>2. job[r].qty <= blocked[d]
      BY <2>4, <1>type
    <3>3. UnitRecords'
      BY <2>2, <1>type DEF UnitRecords
    <3>4. ASSUME ~Stopped', NEW e \in Night PROVE NightCovered(e)'
      <4>1. ~Stopped
        BY <2>2, <3>1, <3>4 DEF Stopped
      <4>2. NightCovered(e)
        BY <4>1 DEF RecordInv
      <4>3. \A q \in Request \ {r} :
              /\ Turn(q, e, "decrement")' <=> Turn(q, e, "decrement")
              /\ Turn(q, e, "record")' <=> Turn(q, e, "record")
              /\ Turn(q, e, "oldest")' <=> Turn(q, e, "oldest")
              /\ Turn(q, e, "deactivate")' <=> Turn(q, e, "deactivate")
        BY <3>1 DEF Turn, NextNight
      <4>4. /\ ~Turn(r, e, "record")' /\ ~Turn(r, e, "oldest")' /\ ~Turn(r, e, "oldest")
            /\ ~Turn(r, e, "deactivate")' /\ ~Turn(r, e, "deactivate")
        BY <2>2, <3>1 DEF Turn
      <4>5. Turn(r, e, "decrement")' => job[r].qty <= blocked[e]
        <5>1. NextNight(r, e)' => e = d
          BY <2>1, <2>2, OneNext DEF NextNight
        <5> QED
          BY <3>2, <5>1 DEF Turn
      <4>6. \A q \in Request : Rest(q, e)' = Rest(q, e) /\ Left(q, e)' = Left(q, e)
        BY <2>2 DEF Rest, Left
      <4>7. /\ \A q \in Request : Turn(q, e, "decrement")' => job[q].qty <= blocked[e]
            /\ \A q \in Request : Turn(q, e, "record")' => Turn(q, e, "record")
            /\ \A q \in Request : Turn(q, e, "oldest")' <=> Turn(q, e, "oldest")
            /\ \A q \in Request : Turn(q, e, "deactivate")' <=> Turn(q, e, "deactivate")
        BY <4>2, <4>3, <4>4, <4>5 DEF NightCovered
      <4> QED
        BY <2>2, <4>2, <4>6, <4>7 DEF NightCovered
    <3> QED
      BY <3>3, <3>4 DEF RecordInv
  <2> QED
    BY <2>3, <2>4
<1>8. ASSUME NEW r \in Request, UnblockDecrement(r) PROVE RecordInv'
  <2>1. PICK d \in Night : NextNight(r, d) /\ blocked' = [blocked EXCEPT ![d] = @ - job[r].qty]
    BY <1>8 DEF UnblockDecrement
  <2>2. pc[r] = "decrement" /\ Goto(r, "oldest") /\ UNCHANGED <<blocks, ended, oldest, job, todo>>
    BY <1>8 DEF UnblockDecrement
  <2>3. /\ pc'[r] = "oldest"
        /\ \A q \in Request \ {r} : pc'[q] = pc[q] /\ todo'[q] = todo[q]
    BY <2>2, <1>lab, <1>go
  <2>4. /\ blocked'[d] = blocked[d] - job[r].qty
        /\ \A e \in Night \ {d} : blocked'[e] = blocked[e] /\ blocks'[e] = blocks[e]
                                /\ ended'[e] = ended[e]
    BY <2>1, <2>2, <1>type
  <2>5. UnitRecords'
    BY <2>2, <1>type DEF UnitRecords
  <2>6. ASSUME ~Stopped PROVE SumFunction(Rest(r, d)') <= blocked'[d]
    <3>1. SumFunction(blocks[d]) <= blocked[d] /\ job[r].qty <= blocked[d]
      BY <2>1, <2>2, <2>6, <1>at DEF NightCovered, Turn
    <3>2. SumFunction(Rest(r, d)) <= blocked[d] - job[r].qty
      <4>1. blocks[d] \in Seq(Nat \ {0}) /\ job[r].qty \in Nat /\ blocked[d] \in Int
        BY <1>type
      <4>2. Len(blocks[d]) \in Nat
        BY <4>1
      <4>3. CASE job[r].qty <= Len(blocks[d])
        <5>1. SumFunction(Rest(r, d)) <= SumFunction(blocks[d]) - job[r].qty
          BY <4>1, <4>3, SumDrop DEF Rest
        <5>2. SumFunction(blocks[d]) \in Int /\ SumFunction(Rest(r, d)) \in Int
          <6>1. Rest(r, d) \in Seq(Nat \ {0})
            BY <4>1, RestType DEF Rest
          <6>2. Rest(r, d) \in Seq(Int)
            BY <6>1
          <6> QED
            BY <6>2, <1>sum, SumType
        <5> QED
          BY <3>1, <4>1, <5>1, <5>2
      <4>4. CASE ~(job[r].qty <= Len(blocks[d]))
        <5>1. Rest(r, d) = << >>
          BY <4>1, <4>2, <4>4, SubSeqEmpty DEF Rest
        <5> QED
          BY <3>1, <4>1, <5>1, SumEmpty
      <4> QED
        BY <4>3, <4>4
    <3>3. Rest(r, d)' = Rest(r, d)
      BY <2>2 DEF Rest
    <3> QED
      BY <2>4, <3>2, <3>3
  <2> QED
    BY <2>1, <2>2, <2>3, <2>4, <2>5, <2>6, RecordStep
<1>find. ASSUME NEW r \in Request, UnblockFind(r) PROVE RecordInv'
  <2> DEFINE found(d) == IF job[r].qty < Len(blocks[d]) THEN job[r].qty ELSE Len(blocks[d])
  <2>1. PICK d \in Night : /\ NextNight(r, d)
                           /\ oldest' = [oldest EXCEPT ![r] = ended[d] + found(d)]
    BY <1>find DEF UnblockFind
  <2>2. /\ pc[r] = "oldest" /\ Goto(r, "deactivate")
        /\ UNCHANGED <<blocked, blocks, ended, job, todo>>
    BY <1>find DEF UnblockFind, rows
  <2>3. /\ pc'[r] = "deactivate"
        /\ \A q \in Request \ {r} : pc'[q] = pc[q] /\ todo'[q] = todo[q]
    BY <2>2, <1>lab, <1>go
  <2>4. /\ oldest'[r] = ended[d] + found(d)
        /\ \A q \in Request \ {r} : oldest'[q] = oldest[q]
    BY <2>1, <1>type
  <2>5. UnitRecords'
    BY <2>2, <1>type DEF UnitRecords
  <2>6. ended[d] \in Nat /\ Len(blocks[d]) \in Nat /\ job[r].qty \in Nat /\ found(d) \in Nat
    BY <1>type
  <2>7. Left(r, d)' = SubSeq(blocks[d], found(d) + 1, Len(blocks[d]))
    <3>1. oldest'[r] - ended[d] = found(d)
      BY <2>4, <2>6
    <3> QED
      BY <2>2, <3>1 DEF Left
  <2>8. Left(r, d)' = Rest(r, d)
    <3>1. CASE job[r].qty < Len(blocks[d])
      BY <2>7, <3>1 DEF Rest
    <3>2. CASE ~(job[r].qty < Len(blocks[d]))
      <4>1. blocks[d] \in Seq(Nat \ {0})
        BY <1>type
      <4>2. SubSeq(blocks[d], Len(blocks[d]) + 1, Len(blocks[d])) = << >>
        BY <2>6, <4>1, SubSeqEmpty
      <4>3. SubSeq(blocks[d], job[r].qty + 1, Len(blocks[d])) = << >>
        BY <2>6, <3>2, <4>1, SubSeqEmpty
      <4> QED
        BY <2>7, <3>2, <4>2, <4>3 DEF Rest
    <3> QED
      BY <3>1, <3>2
  <2>9. ~Stopped => oldest'[r] >= ended'[d] /\ SumFunction(Left(r, d)') <= blocked'[d]
    <3>1. ~Stopped => SumFunction(Rest(r, d)) <= blocked[d]
      BY <2>1, <2>2, <1>at DEF NightCovered, Turn
    <3>2. oldest'[r] >= ended'[d]
      BY <2>2, <2>4, <2>6
    <3> QED
      BY <2>2, <2>8, <3>1, <3>2
  <2>10. \A e \in Night \ {d} : blocked'[e] = blocked[e] /\ blocks'[e] = blocks[e]
                                /\ ended'[e] = ended[e]
    BY <2>2
  <2> HIDE DEF found
  <2> QED
    BY <2>1, <2>2, <2>3, <2>4, <2>5, <2>9, <2>10, RecordStep
<1>9. ASSUME NEW r \in Request, UnblockDeactivate(r) PROVE RecordInv'
  <2> DEFINE more(d) == IF oldest[r] > ended[d] THEN oldest[r] - ended[d] ELSE 0
  <2>1. PICK d \in Night :
           /\ NextNight(r, d)
           /\ blocks' = [blocks EXCEPT ![d] = SubSeq(@, more(d) + 1, Len(@))]
           /\ ended' = [ended EXCEPT ![d] = @ + more(d)]
           /\ Advance(r, d, "read", "unlock")
    BY <1>9 DEF UnblockDeactivate
  <2>2. pc[r] = "deactivate" /\ UNCHANGED <<blocked, job, oldest>>
    BY <1>9 DEF UnblockDeactivate
  <2>7. more(d) \in Nat
    BY <1>type
  <2>8. oldest[r] >= ended[d] => more(d) = oldest[r] - ended[d]
    BY <1>type
  <2> HIDE DEF more
  <2>3. /\ pc'[r] \in {"read", "unlock"}
        /\ \A q \in Request \ {r} : pc'[q] = pc[q] /\ todo'[q] = todo[q]
    BY <2>1, <1>lab, AdvanceRange
  <2> DEFINE rest == SubSeq(blocks[d], more(d) + 1, Len(blocks[d]))
  <2>4. /\ blocks'[d] = rest
        /\ \A e \in Night \ {d} : blocked'[e] = blocked[e] /\ blocks'[e] = blocks[e]
                                /\ ended'[e] = ended[e]
    BY <2>1, <2>2, <1>type
  <2>5. UnitRecords'
    <3>1. rest \in Seq(Nat \ {0})
      BY <2>7, <1>type, RestType
    <3>2. blocks' = [blocks EXCEPT ![d] = rest]
      BY <2>1
    <3> HIDE DEF rest
    <3> QED
      BY <3>1, <3>2, <1>type DEF UnitRecords
  <2>6. ~Stopped => SumFunction(blocks'[d]) <= blocked'[d]
    <3>1. ~Stopped => oldest[r] >= ended[d] /\ SumFunction(Left(r, d)) <= blocked[d]
      BY <2>1, <2>2, <1>at DEF NightCovered, Turn
    <3>2. oldest[r] >= ended[d] => rest = Left(r, d)
      BY <2>8 DEF Left
    <3> QED
      BY <2>2, <2>4, <3>1, <3>2
  <2> QED
    BY <2>1, <2>2, <2>3, <2>4, <2>5, <2>6, RecordStep
<1>10. ASSUME UNCHANGED <<blocked, blocks, ended, oldest, job, pc, todo>> PROVE RecordInv'
  BY <1>10 DEF RecordInv, UnitRecords, Stopped, NightCovered, Turn, NextNight, Rest, Left
<1>11. ASSUME (\E d \in Night : Expire(d)) \/ Finished \/ UNCHANGED vars
       PROVE  UNCHANGED <<blocked, blocks, ended, oldest, job, pc, todo>>
  BY <1>11 DEF Expire, Finished, vars, rows
<1> QED
  BY <1>1, <1>2, <1>3, <1>4, <1>5, <1>6, <1>7, <1>8, <1>find, <1>9, <1>10, <1>11
     DEF Next, Step

(* While critical sections are timely and no unblock was cut short, the    *)
(* records of a night at rest claim no more than its counter holds: a      *)
(* block raises the counter before it writes its record, so that it may    *)
(* fail anywhere; an unblock drops as many records as it takes units off   *)
(* the counter, and no record stands for less than one unit.               *)
THEOREM RecordsCovered == ASSUME HoldersTimely PROVE Spec => []BlockRecordsCovered
<1> DEFINE All == TypeInv /\ OnRoute /\ LockInv /\ RecordInv
<1>1. Init => All
  <2>1. Init => OnRoute
    BY DEF Init, OnRoute, Unlocked
  <2> QED
    BY <2>1, InitType, InitLock, InitRecord
<1>2. All /\ [Next]_vars => All'
  BY HoldersTimely, NextType, NextRoute, NextLock, NextRecord
<1>3. All => BlockRecordsCovered
  <2> SUFFICES ASSUME All, ~Stopped, NEW d \in Night,
                      \A r \in Request : pc[r] \in {"oldest", "deactivate"} => d \notin Nights(r)
               PROVE  SumFunction(blocks[d]) <= blocked[d]
    BY DEF BlockRecordsCovered, Stopped
  <2>1. \A r \in Request : ~Turn(r, d, "oldest") /\ ~Turn(r, d, "deactivate")
    BY DEF Turn, NextNight, LockInv, InRange
  <2> QED
    BY <2>1 DEF RecordInv, NightCovered
<1> QED
  BY <1>1, <1>2, <1>3, PTL DEF Spec

-----------------------------------------------------------------------------
(* Row locks. *)

(* No two open transactions have written one row. *)
RowsApart == \A r, q \in Request : r # q => tx[r] \cap tx[q] = {}

(* Where a transaction is open. *)
RowsOpen ==
    \A r \in Request : tx[r] # {} => pc[r] \in {"txread", "txwrite", "commit", "update", "release"}

(* A reservation has written no row beyond the nights it has still to visit. *)
RowsBehind ==
    \A r \in Request : pc[r] \in {"txread", "txwrite"} => \A d \in tx[r], e \in todo[r] : d <= e

RowInv == RowsApart /\ RowsOpen /\ RowsBehind

(* A step of r that leaves it no open transaction, or that writes a row    *)
(* which no other transaction has written.                                 *)
LEMMA RowStep ==
    ASSUME TypeOK, RowInv, NEW r \in Request,
           \A q \in Request \ {r} : pc'[q] = pc[q] /\ todo'[q] = todo[q] /\ tx'[q] = tx[q],
           \/ tx'[r] = {}
           \/ /\ \E d \in Night : RowFree(r, d) /\ tx'[r] \subseteq tx[r] \cup {d}
              /\ pc'[r] \in {"txread", "txwrite", "commit", "update", "release"}
              /\ pc'[r] \in {"txread", "txwrite"} => \A d \in tx'[r], e \in todo'[r] : d <= e
    PROVE  RowInv'
<1>1. RowsApart'
  <2> SUFFICES ASSUME NEW p \in Request, NEW q \in Request, p # q, NEW d \in tx'[p], d \in tx'[q]
               PROVE  FALSE
    BY DEF RowsApart
  <2>1. \A s \in Request \ {r} : d \in tx'[s] => d \in tx[s] /\ d \notin tx'[r]
    <3> SUFFICES ASSUME NEW s \in Request \ {r}, d \in tx'[s], d \in tx'[r] PROVE FALSE
      OBVIOUS
    <3>1. d \in tx[s]
      OBVIOUS
    <3>2. PICK e \in Night : RowFree(r, e) /\ tx'[r] \subseteq tx[r] \cup {e}
      OBVIOUS
    <3>3. d \notin tx[r]
      BY <3>1 DEF RowInv, RowsApart
    <3> QED
      BY <3>1, <3>2, <3>3 DEF RowFree
  <2> QED
    BY <2>1 DEF RowInv, RowsApart
<1>2. RowsOpen'
  BY DEF RowInv, RowsOpen
<1>3. RowsBehind'
  BY DEF RowInv, RowsBehind
<1> QED
  BY <1>1, <1>2, <1>3 DEF RowInv

(* Every step keeps the order of the rows. *)
LEMMA NextRow == ASSUME TypeInv, RowInv, [Next]_vars PROVE RowInv'
<1> USE DEF TypeInv, local, rows
<1>lab. {"acquire", "unlock", "abort", "validate", "txread", "txwrite", "commit", "find",
         "increment", "record", "read", "decrement", "oldest", "deactivate", "count", "select",
         "update", "release", "done", "failed", "crashed"} \subseteq Label
  BY DEF Label, InDatabase, Unlocked, Terminal
<1>go. ASSUME NEW r \in Request, NEW l \in Label, Goto(r, l)
       PROVE  /\ pc'[r] = l
              /\ \A q \in Request \ {r} : pc'[q] = pc[q]
  BY <1>go DEF Goto, TypeOK
<1>adv. ASSUME NEW r \in Request, NEW d \in Night, NEW l \in Label, NEW m \in Label,
               Advance(r, d, l, m)
        PROVE  \A q \in Request \ {r} : pc'[q] = pc[q] /\ todo'[q] = todo[q]
  <2>1. \A q \in Request \ {r} : todo'[q] = todo[q]
    BY <1>adv DEF Advance, TypeOK
  <2> QED
    BY <2>1, <1>adv, AdvanceType
<1>1. ASSUME NEW r \in Request, Acquire(r) \/ Validate(r) \/ BlockRecord(r) \/ UnblockDeactivate(r)
      PROVE  RowInv'
  <2>1. /\ pc[r] \in {"acquire", "validate", "record", "deactivate"}
        /\ tx' = tx
    BY <1>1 DEF Acquire, Validate, BlockRecord, UnblockDeactivate
  <2>2. \/ Goto(r, "abort") /\ todo' = todo
        \/ \E d \in Night, l, m \in Label : Advance(r, d, l, m)
    <3>1. CASE Acquire(r)
      <4>1. job[r].op \in {"reserve", "block", "unblock"}
        BY <3>1, JobType DEF Acquire, Routed
      <4>2. Body[job[r].op] \in Label
        BY <4>1, <1>lab DEF Body
      <4> QED
        BY <3>1, <4>2, <1>lab DEF Acquire
    <3>2. CASE Validate(r)
      BY <3>2, <1>lab DEF Validate
    <3>3. CASE BlockRecord(r)
      BY <3>3, <1>lab DEF BlockRecord
    <3>4. CASE UnblockDeactivate(r)
      BY <3>4, <1>lab DEF UnblockDeactivate
    <3> QED
      BY <1>1, <3>1, <3>2, <3>3, <3>4
  <2>3. \A q \in Request \ {r} : pc'[q] = pc[q] /\ todo'[q] = todo[q]
    BY <2>2, <1>lab, <1>go, <1>adv
  <2>4. tx'[r] = {}
    BY <2>1 DEF RowInv, RowsOpen
  <2> QED
    BY <2>1, <2>3, <2>4, RowStep
<1>2. ASSUME NEW r \in Request,
             \/ AcquireRefused(r) \/ AcquireReplyLost(r) \/ Unlock(r)
             \/ BlockFind(r) \/ BlockIncrement(r) \/ UnblockRead(r) \/ UnblockDecrement(r)
             \/ UnblockFind(r) \/ ReleaseCount(r) \/ ReleaseSelect(r)
      PROVE  RowInv'
  <2>1. /\ pc[r] \in {"acquire", "unlock", "abort", "find", "increment", "read", "decrement",
                      "oldest", "count", "select"}
        /\ UNCHANGED <<tx, todo>>
    BY <1>2 DEF AcquireRefused, AcquireReplyLost, Unlock, BlockFind, BlockIncrement, UnblockRead,
                UnblockDecrement, UnblockFind, ReleaseCount, ReleaseSelect
  <2>2. \E l \in {"failed", "abort", "unlock", "done", "increment", "record", "decrement", "oldest",
                  "deactivate", "select", "update"} : Goto(r, l)
    BY <1>2 DEF AcquireRefused, AcquireReplyLost, Unlock, BlockFind, BlockIncrement, UnblockRead,
                UnblockDecrement, UnblockFind, ReleaseCount, ReleaseSelect, Unwind
  <2>3. \A q \in Request \ {r} : pc'[q] = pc[q]
    BY <2>2, <1>lab, <1>go
  <2>4. tx'[r] = {}
    BY <2>1 DEF RowInv, RowsOpen
  <2> QED
    BY <2>1, <2>3, <2>4, RowStep
<1>3. ASSUME NEW r \in Request, Commit(r) \/ ReleaseCommit(r) \/ DatabaseError(r) \/ Crash(r)
      PROVE  RowInv'
  <2>1. /\ tx' = [tx EXCEPT ![r] = {}] /\ todo' = todo
        /\ \E l \in {"unlock", "done", "abort", "failed", "crashed"} : Goto(r, l)
    BY <1>3 DEF Commit, ReleaseCommit, DatabaseError, Crash
  <2>2. \A q \in Request \ {r} : pc'[q] = pc[q]
    BY <2>1, <1>lab, <1>go
  <2>3. tx'[r] = {} /\ \A q \in Request \ {r} : tx'[q] = tx[q]
    BY <2>1 DEF TypeOK
  <2> QED
    BY <2>1, <2>2, <2>3, RowStep
<1>4. ASSUME NEW r \in Request, TxRead(r) PROVE RowInv'
  <2>1. PICK d \in Night :
          /\ NextNight(r, d)
          /\ job[r].hint > 0 => RowFree(r, d)
          /\ IF Fits(r, d)
             THEN /\ tx' = IF job[r].hint > 0 THEN [tx EXCEPT ![r] = @ \cup {d}] ELSE tx
                  /\ Goto(r, "txwrite")
             ELSE /\ tx' = [tx EXCEPT ![r] = {}]
                  /\ Goto(r, "abort")
    BY <1>4 DEF TxRead
  <2>2. pc[r] = "txread" /\ todo' = todo
    BY <1>4 DEF TxRead
  <2>3. \A q \in Request \ {r} : pc'[q] = pc[q] /\ tx'[q] = tx[q]
    BY <2>1, <1>lab, <1>go DEF TypeOK
  <2>4. CASE ~Fits(r, d)
    <3>1. tx'[r] = {}
      BY <2>1, <2>4 DEF TypeOK
    <3> QED
      BY <2>2, <2>3, <3>1, RowStep
  <2>5. CASE Fits(r, d) /\ job[r].hint > 0
    <3>1. tx'[r] = tx[r] \cup {d} /\ RowFree(r, d) /\ pc'[r] = "txwrite"
      BY <2>1, <2>5, <1>lab, <1>go DEF TypeOK
    <3>2. \A x \in tx'[r], e \in todo'[r] : x <= e
      BY <2>1, <2>2, <3>1 DEF NextNight, RowInv, RowsBehind
    <3> QED
      BY <2>2, <2>3, <3>1, <3>2, RowStep
  <2>6. CASE Fits(r, d) /\ ~(job[r].hint > 0)
    <3>1. tx' = tx /\ pc'[r] = "txwrite"
      BY <2>1, <2>6, <1>lab, <1>go
    <3> QED
      BY <2>2, <2>3, <3>1 DEF RowInv, RowsApart, RowsOpen, RowsBehind
  <2> QED
    BY <2>4, <2>5, <2>6
<1>5. ASSUME NEW r \in Request, TxWrite(r) PROVE RowInv'
  <2>1. PICK d \in Night : /\ NextNight(r, d) /\ RowFree(r, d)
                           /\ tx' = [tx EXCEPT ![r] = @ \cup {d}]
                           /\ Advance(r, d, "txread", "commit")
    BY <1>5 DEF TxWrite
  <2>2. pc[r] = "txwrite"
    BY <1>5 DEF TxWrite
  <2>3. tx'[r] = tx[r] \cup {d} /\ \A q \in Request \ {r} : tx'[q] = tx[q]
    BY <2>1 DEF TypeOK
  <2>4. \A q \in Request \ {r} : pc'[q] = pc[q] /\ todo'[q] = todo[q]
    BY <2>1, <1>lab, <1>adv
  <2>5. \/ pc'[r] = "commit"
        \/ pc'[r] = "txread" /\ todo'[r] \subseteq todo[r]
    <3>1. CASE todo[r] = {d}
      BY <2>1, <3>1, <1>lab, <1>go DEF Advance
    <3>2. CASE todo[r] # {d}
      <4>1. todo' = [todo EXCEPT ![r] = @ \ {d}] /\ Goto(r, "txread")
        BY <2>1, <3>2 DEF Advance
      <4> QED
        BY <4>1, <1>lab, <1>go DEF TypeOK
    <3> QED
      BY <3>1, <3>2
  <2>6. \A x \in tx'[r], e \in todo[r] : x <= e
    BY <2>1, <2>2, <2>3 DEF NextNight, RowInv, RowsBehind
  <2>7. pc'[r] \in {"txread", "txwrite"} => \A x \in tx'[r], e \in todo'[r] : x <= e
    BY <2>5, <2>6
  <2>8. pc'[r] \in {"txread", "txwrite", "commit"} /\ RowFree(r, d)
    BY <2>1, <2>5
  <2> QED
    BY <2>3, <2>4, <2>7, <2>8, RowStep
<1>6. ASSUME NEW r \in Request, ReleaseUpdate(r) PROVE RowInv'
  <2>1. /\ pc[r] = "update" /\ RowFree(r, row[r]) /\ todo' = todo
        /\ tx' = [tx EXCEPT ![r] = @ \cup {row[r]}]
        /\ Goto(r, "release") \/ UNCHANGED pc
    BY <1>6 DEF ReleaseUpdate
  <2>2. /\ pc'[r] \in {"update", "release"}
        /\ \A q \in Request \ {r} : pc'[q] = pc[q]
    BY <2>1, <1>lab, <1>go
  <2>3. tx'[r] = tx[r] \cup {row[r]} /\ \A q \in Request \ {r} : tx'[q] = tx[q]
    BY <2>1 DEF TypeOK
  <2>4. row[r] \in Night
    BY DEF TypeOK
  <2> QED
    BY <2>1, <2>2, <2>3, <2>4, RowStep
<1>7. ASSUME UNCHANGED <<pc, todo, tx>> PROVE RowInv'
  BY <1>7 DEF RowInv, RowsApart, RowsOpen, RowsBehind
<1>8. ASSUME (\E d \in Night : Expire(d)) \/ Finished \/ UNCHANGED vars
      PROVE  UNCHANGED <<pc, todo, tx>>
  BY <1>8 DEF Expire, Finished, vars
<1> QED
  BY <1>1, <1>2, <1>3, <1>4, <1>5, <1>6, <1>7, <1>8 DEF Next, Step

(* One that waits for a member of a ring without releases awaits an        *)
(* earlier night than that member does.                                    *)
LEMMA WaitsEarlier ==
    ASSUME TypeInv, OnRoute, RowInv, NEW r \in Request, NEW q \in Request, NEW p \in Request,
           job[r].op # "release", job[q].op # "release", WaitsFor(r, q), WaitsFor(q, p)
    PROVE  \E d, e \in Night : NextNight(r, d) /\ NextNight(q, e) /\ d < e
<1> USE DEF TypeInv
<1>1. ASSUME NEW s \in Request, job[s].op # "release", NEW d, Awaits(s, d)
      PROVE  NextNight(s, d)
  BY <1>1 DEF Awaits, OnRoute, Unlocked
<1>2. PICK d \in tx[q] : Awaits(r, d)
  BY DEF WaitsFor
<1>3. PICK e \in tx[p] : Awaits(q, e)
  BY DEF WaitsFor
<1>4. NextNight(r, d) /\ NextNight(q, e)
  BY <1>1, <1>2, <1>3
<1>5. d # e
  <2>1. e \notin tx[q]
    BY <1>3 DEF WaitsFor, RowInv, RowsApart
  <2> QED
    BY <1>2, <2>1
<1>6. pc[q] \in {"txread", "txwrite"}
  <2>1. pc[q] \in {"txread", "txwrite", "commit", "update", "release"}
    BY <1>2 DEF RowInv, RowsOpen
  <2>2. pc[q] \notin {"commit", "release", "update"}
    BY <1>3 DEF Awaits, OnRoute, Unlocked
  <2> QED
    BY <2>1, <2>2
<1>7. d <= e
  BY <1>2, <1>4, <1>6 DEF RowInv, RowsBehind, NextNight
<1>8. d \in Night /\ e \in Night
  BY <1>2, <1>3 DEF TypeOK
<1>9. d \in Nat /\ e \in Nat
  BY <1>8, InventoryAssumption
<1> QED
  BY <1>4, <1>5, <1>7, <1>8, <1>9

(* Reservations, blocks and unblocks alone never wait for each other's     *)
(* rows in a ring, for any calendar and any requests, with the Redis locks *)
(* or without: in such a ring whoever awaits the earliest night would be   *)
(* awaited for a still earlier one.                                        *)
THEOREM RowsInOrder == Spec => []OnlyReleasesDeadlock
<1> DEFINE All == TypeInv /\ OnRoute /\ RowInv
<1>1. Init => All
  <2>1. Init => OnRoute
    BY DEF Init, OnRoute, Unlocked
  <2>2. Init => RowInv
    BY DEF Init, RowInv, RowsApart, RowsOpen, RowsBehind
  <2> QED
    BY <2>1, <2>2, InitType
<1>2. All /\ [Next]_vars => All'
  BY NextType, NextRoute, NextRow
<1>3. All => OnlyReleasesDeadlock
  <2> SUFFICES ASSUME All, NEW S \in (SUBSET Request) \ {{}}, Ring(S),
                      \A r \in S : job[r].op # "release"
               PROVE  FALSE
    BY DEF OnlyReleasesDeadlock
  <2> DEFINE T == {d \in Night : \E r \in S : NextNight(r, d)}
  <2>1. ASSUME NEW q \in S
        PROVE  \E r \in S, d, e \in Night : NextNight(r, d) /\ NextNight(q, e) /\ d < e
    <3>1. PICK r \in S, p \in S : WaitsFor(r, q) /\ WaitsFor(q, p)
      BY DEF Ring
    <3>2. \E d, e \in Night : NextNight(r, d) /\ NextNight(q, e) /\ d < e
      BY <3>1, WaitsEarlier
    <3> QED
      BY <3>2
  <2>2. T \subseteq Nat /\ T # {}
    <3>1. PICK q \in S : TRUE
      OBVIOUS
    <3> QED
      BY <2>1, <3>1, InventoryAssumption
  <2>3. PICK m \in T : \A k \in T : m <= k
    <3> HIDE DEF T
    <3> QED
      BY <2>2, LeastNat
  <2>4. PICK q \in S : NextNight(q, m)
    OBVIOUS
  <2>5. PICK r \in S, d \in Night, e \in Night : NextNight(r, d) /\ NextNight(q, e) /\ d < e
    BY <2>1
  <2>6. e = m
    BY <2>4, <2>5, OneNext DEF TypeInv
  <2>7. d \in T /\ m <= d /\ d \in Nat /\ m \in Nat
    BY <2>2, <2>3, <2>5
  <2> QED
    BY <2>5, <2>6, <2>7
<1> QED
  BY <1>1, <1>2, <1>3, PTL DEF Spec
=============================================================================
