--------------------------- MODULE SetArithmetic ---------------------------
(***************************************************************************)
(* Facts about Min and Max of sets of natural numbers, about division and  *)
(* about sums over finite sets, for the proofs of the other modules.       *)
(***************************************************************************)
EXTENDS Integers, FiniteSets, FiniteSetsExt, Functions, FiniteSetTheorems,
        WellFoundedInduction, TLAPS

(* A nonempty set of natural numbers has a least element, and Min is it.   *)
LEMMA MinNat ==
    ASSUME NEW S \in SUBSET Nat, S # {}
    PROVE  Min(S) \in S /\ \A y \in S : Min(S) <= y
<1>1. PICK x \in S : \A y \in S : ~(<<y, x>> \in OpToRel(<, Nat))
  BY NatLessThanWellFounded, WFMin
<1>2. \A y \in S : ~(y < x)
  <2> SUFFICES ASSUME NEW y \in S, y < x PROVE FALSE
    OBVIOUS
  <2>1. <<y, x>> \in {ss \in Nat \X Nat : ss[1] < ss[2]}
    OBVIOUS
  <2> QED BY <2>1, <1>1 DEF OpToRel
<1>3. \E z \in S : \A y \in S : z <= y
  BY <1>2
<1> QED BY <1>3 DEF Min

(* A nonempty bounded set of natural numbers has a greatest element, and   *)
(* Max is it: the distances from the bound have a least one.               *)
LEMMA MaxNat ==
    ASSUME NEW S \in SUBSET Nat, S # {}, NEW n \in Nat, \A x \in S : x <= n
    PROVE  Max(S) \in S /\ \A y \in S : Max(S) >= y
<1> DEFINE T == {n - x : x \in S}
<1>1. \A x \in S : x \in Nat /\ n - x \in Nat /\ n - x \in T
  OBVIOUS
<1>2. T \in SUBSET Nat /\ T # {}
  BY <1>1
<1>3. Min(T) \in T /\ \A y \in T : Min(T) <= y
  BY <1>2, MinNat
<1>4. PICK m \in S : Min(T) = n - m
  BY <1>3
<1>5. \A y \in S : n - m <= n - y
  BY <1>3, <1>4, <1>1
<1>6. \A y \in S : m >= y
  BY <1>5, <1>1
<1> QED BY <1>4, <1>6 DEF Max

(* Remainder and quotient of a natural number. *)
LEMMA Division ==
    ASSUME NEW n \in Nat, NEW d \in Nat \ {0}
    PROVE  /\ n % d \in Nat /\ n % d < d /\ n % d <= n
           /\ n \div d \in Nat
           /\ (n \div d) * d \in Nat
           /\ n = (n \div d) * d + (n % d)
<1>1. n % d \in Nat /\ n % d < d
  OBVIOUS
<1>2. n \div d \in Int /\ n = (n \div d) * d + (n % d)
  OBVIOUS
<1>3. n \div d \in Nat
  OBVIOUS
<1>4. (n \div d) * d \in Nat
  BY <1>3
<1> QED BY <1>1, <1>2, <1>3, <1>4

(* The next multiple of d lies ahead. *)
LEMMA NextMultiple ==
    ASSUME NEW n \in Nat, NEW d \in Nat \ {0}
    PROVE  /\ (n \div d + 1) * d \in Nat
           /\ (n \div d + 1) * d > n
<1>1. (n \div d + 1) * d = (n \div d) * d + d
  BY Division
<1> QED BY <1>1, Division

(* Multiples of d are at least d apart. *)
LEMMA MultiplesApart ==
    ASSUME NEW j \in Nat, NEW k \in Nat, NEW d \in Nat \ {0}, j < k
    PROVE  j * d + d <= k * d
<1>1. PICK i \in Nat : k = j + 1 + i
  <2>1. k - j - 1 \in Nat /\ k = j + 1 + (k - j - 1)
    OBVIOUS
  <2> QED BY <2>1
<1>2. i * d \in Nat
  OBVIOUS
<1>3. k * d = j * d + d + i * d
  BY <1>1
<1> QED BY <1>2, <1>3

(* Sets whose elements are pairwise equal have at most one. *)
LEMMA AtMostOne ==
    ASSUME NEW S, \A x, y \in S : x = y
    PROVE  Cardinality(S) <= 1
<1>1. CASE S = {}
  BY <1>1, FS_EmptySet
<1>2. CASE S # {}
  <2>1. PICK x \in S : TRUE
    BY <1>2
  <2>2. S = {x}
    BY <2>1
  <2> QED BY <2>2, FS_Singleton
<1> QED BY <1>1, <1>2

----------------------------------------------------------------------------
(* Induction over the subsets of a finite set: a family of sets that has   *)
(* every set all of whose predecessors it has, has them all.               *)
LEMMA SubsetInduction ==
    ASSUME NEW S, IsFiniteSet(S), NEW P,
           \A T \in SUBSET S : (\A x \in T : T \ {x} \in P) => T \in P
    PROVE  \A T \in SUBSET S : T \in P
<1> DEFINE Bad == {n \in Nat : \E T \in SUBSET S : T \notin P /\ Cardinality(T) = n}
<1>0. \A T \in SUBSET S : /\ IsFiniteSet(T) /\ Cardinality(T) \in Nat
                          /\ \A x \in T : Cardinality(T \ {x}) = Cardinality(T) - 1
  <2> SUFFICES ASSUME NEW T \in SUBSET S
               PROVE  /\ IsFiniteSet(T) /\ Cardinality(T) \in Nat
                      /\ \A x \in T : Cardinality(T \ {x}) = Cardinality(T) - 1
    OBVIOUS
  <2>1. IsFiniteSet(T)
    BY FS_Subset
  <2> QED BY <2>1, FS_CardinalityType, FS_RemoveElement
<1>1. SUFFICES ASSUME Bad # {} PROVE FALSE
  BY <1>0
<1>2. PICK m \in Nat : m \in Bad /\ \A n \in Bad : m <= n
  BY <1>1, MinNat
<1>3. PICK T \in SUBSET S : T \notin P /\ Cardinality(T) = m
  BY <1>2
<1>4. PICK x \in T : T \ {x} \notin P
  BY <1>3
<1>5. Cardinality(T \ {x}) = Cardinality(T) - 1 /\ Cardinality(T) \in Nat
      /\ Cardinality(T \ {x}) \in Nat
  BY <1>0
<1>6. Cardinality(T \ {x}) \in Bad
  BY <1>4, <1>5
<1>7. m <= Cardinality(T \ {x})
  BY <1>2, <1>6
<1> HIDE DEF Bad
<1> QED BY <1>3, <1>5, <1>7

----------------------------------------------------------------------------
(* Sums over finite sets.  SumFunctionOnSet takes the elements in the      *)
(* order in which they are chosen; g holds the sums of all subsets.        *)
Chosen(s) == CHOOSE x \in s : TRUE

IsSum(g, F, S) ==
    g = [s \in SUBSET S |-> IF s = {} THEN 0 ELSE F[Chosen(s)] + g[s \ {Chosen(s)}]]

LEMMA SumDef ==
    ASSUME NEW F, NEW S
    PROVE  SumFunctionOnSet(F, S) = (CHOOSE g : IsSum(g, F, S))[S]
BY DEF SumFunctionOnSet, FoldFunctionOnSet, MapThenFoldSet, IsSum, Chosen

LEMMA ChosenIn ==
    ASSUME NEW s, s # {}
    PROVE  Chosen(s) \in s
BY DEF Chosen

(* Such sums exist: those of the sets with n elements give those of the    *)
(* sets with n + 1.                                                        *)
LEMMA SumExists ==
    ASSUME NEW F, NEW S, IsFiniteSet(S)
    PROVE  \E g : IsSum(g, F, S)
<1> DEFINE Body(g, s) == IF s = {} THEN 0 ELSE F[Chosen(s)] + g[s \ {Chosen(s)}]
           Small(n) == {s \in SUBSET S : Cardinality(s) <= n}
           Sums(n) == \E g : g = [s \in Small(n) |-> Body(g, s)]
           Bad == {n \in Nat : ~Sums(n)}
<1>0. \A s \in SUBSET S : /\ IsFiniteSet(s) /\ Cardinality(s) \in Nat
                          /\ Cardinality(s) <= Cardinality(S)
                          /\ s # {} => Cardinality(s \ {Chosen(s)}) = Cardinality(s) - 1
  <2> SUFFICES ASSUME NEW s \in SUBSET S
               PROVE  /\ IsFiniteSet(s) /\ Cardinality(s) \in Nat
                      /\ Cardinality(s) <= Cardinality(S)
                      /\ s # {} => Cardinality(s \ {Chosen(s)}) = Cardinality(s) - 1
    OBVIOUS
  <2>1. IsFiniteSet(s) /\ Cardinality(s) <= Cardinality(S)
    BY FS_Subset
  <2> QED BY <2>1, FS_CardinalityType, FS_RemoveElement, ChosenIn
<1>1. Bad = {}
  <2>1. SUFFICES ASSUME Bad # {} PROVE FALSE
    OBVIOUS
  <2>2. PICK m \in Nat : m = Min(Bad) /\ ~Sums(m) /\ \A n \in Bad : m <= n
    BY <2>1, MinNat
  <2>3. CASE m = 0
    <3>1. \A s \in Small(0) : s = {}
      <4> SUFFICES ASSUME NEW s \in Small(0) PROVE s = {}
        OBVIOUS
      <4>1. s \in SUBSET S /\ Cardinality(s) <= 0
        OBVIOUS
      <4>2. IsFiniteSet(s) /\ Cardinality(s) \in Nat
        BY <1>0, <4>1
      <4> QED BY <4>1, <4>2, FS_EmptySet
    <3>2. PICK g : g = [s \in Small(0) |-> 0]
      OBVIOUS
    <3>3. \A s \in Small(0) : Body(g, s) = 0
      BY <3>1
    <3>4. g = [s \in Small(0) |-> Body(g, s)]
      BY <3>2, <3>3
    <3>5. Sums(0)
      BY <3>4
    <3> HIDE DEF Sums
    <3> QED BY <2>2, <2>3, <3>5
  <2>4. CASE m # 0
    <3>1. m - 1 \in Nat /\ m - 1 \notin Bad
      <4>1. m - 1 \in Nat /\ ~(m <= m - 1)
        BY <2>2, <2>4
      <4> HIDE DEF Bad
      <4> QED BY <2>2, <4>1
    <3>2. PICK g : g = [s \in Small(m - 1) |-> Body(g, s)]
      BY <3>1
    <3>3. PICK h : h = [s \in Small(m) |-> Body(g, s)]
      OBVIOUS
    <3>4. \A s \in Small(m - 1) : s \in Small(m) /\ h[s] = g[s]
      <4> SUFFICES ASSUME NEW s \in Small(m - 1)
                   PROVE  s \in Small(m) /\ h[s] = g[s]
        OBVIOUS
      <4>1. s \in Small(m)
        <5>1. s \in SUBSET S /\ Cardinality(s) <= m - 1
          OBVIOUS
        <5>2. Cardinality(s) \in Nat
          BY <1>0, <5>1
        <5>3. Cardinality(s) <= m
          BY <5>1, <5>2, <2>2
        <5> QED BY <5>1, <5>3
      <4>2. h[s] = Body(g, s) /\ g[s] = Body(g, s)
        BY <3>2, <3>3, <4>1
      <4> QED BY <4>1, <4>2
    <3>5. \A s \in Small(m) : Body(g, s) = Body(h, s)
      <4> SUFFICES ASSUME NEW s \in Small(m), s # {}
                   PROVE  g[s \ {Chosen(s)}] = h[s \ {Chosen(s)}]
        OBVIOUS
      <4>1. s \ {Chosen(s)} \in Small(m - 1)
        BY <1>0, <2>2
      <4> QED BY <3>4, <4>1
    <3>6. h = [s \in Small(m) |-> Body(h, s)]
      BY <3>3, <3>5
    <3> QED BY <2>2, <3>6
  <2> QED BY <2>3, <2>4
<1>2. Sums(Cardinality(S))
  BY <1>0, <1>1
<1>3. Small(Cardinality(S)) = SUBSET S
  BY <1>0
<1> QED BY <1>2, <1>3 DEF IsSum

LEMMA SumAgrees ==
    ASSUME NEW F, NEW S, NEW R, IsFiniteSet(S), R \subseteq S,
           NEW g, IsSum(g, F, S), NEW h, IsSum(h, F, R)
    PROVE  g[R] = h[R]
<1> DEFINE P == {T \in SUBSET R : g[T] = h[T]}
<1>1. IsFiniteSet(R)
  BY FS_Subset
<1>2. ASSUME NEW T \in SUBSET R, \A x \in T : T \ {x} \in P
      PROVE  T \in P
  <2>1. /\ g[T] = IF T = {} THEN 0 ELSE F[Chosen(T)] + g[T \ {Chosen(T)}]
        /\ h[T] = IF T = {} THEN 0 ELSE F[Chosen(T)] + h[T \ {Chosen(T)}]
    <3>1. T \in SUBSET S /\ T \in SUBSET R
      OBVIOUS
    <3> QED BY <3>1 DEF IsSum
  <2>2. T # {} => g[T \ {Chosen(T)}] = h[T \ {Chosen(T)}]
    BY <1>2, ChosenIn
  <2> QED BY <2>1, <2>2
<1>3. \A T \in SUBSET R : T \in P
  <2> HIDE DEF P
  <2> QED BY <1>1, <1>2, SubsetInduction
<1> QED BY <1>3

(* The two equations that all else follows from. *)
LEMMA SumUnfold ==
    ASSUME NEW F, NEW S, IsFiniteSet(S)
    PROVE  SumFunctionOnSet(F, S) =
             IF S = {} THEN 0 ELSE F[Chosen(S)] + SumFunctionOnSet(F, S \ {Chosen(S)})
<1>1. PICK g : g = (CHOOSE q : IsSum(q, F, S)) /\ IsSum(g, F, S)
  BY SumExists
<1>2. SumFunctionOnSet(F, S) = g[S]
  BY <1>1, SumDef
<1>3. g[S] = IF S = {} THEN 0 ELSE F[Chosen(S)] + g[S \ {Chosen(S)}]
  <2>1. S \in SUBSET S
    OBVIOUS
  <2> QED BY <1>1, <2>1 DEF IsSum
<1>4. PICK R : R = S \ {Chosen(S)} /\ IsFiniteSet(R) /\ R \subseteq S
  BY FS_Subset
<1>5. PICK h : h = (CHOOSE q : IsSum(q, F, R)) /\ IsSum(h, F, R)
  BY <1>4, SumExists
<1>6. SumFunctionOnSet(F, R) = h[R]
  BY <1>5, SumDef
<1>7. g[R] = h[R]
  BY <1>1, <1>4, <1>5, SumAgrees
<1> QED BY <1>2, <1>3, <1>4, <1>6, <1>7

(* Sums of natural numbers are natural numbers. *)
LEMMA SumNat ==
    ASSUME NEW S, IsFiniteSet(S), NEW F, \A x \in S : F[x] \in Nat
    PROVE  SumFunctionOnSet(F, S) \in Nat
<1> DEFINE P == {T \in SUBSET S : SumFunctionOnSet(F, T) \in Nat}
<1>1. ASSUME NEW T \in SUBSET S, \A x \in T : T \ {x} \in P
      PROVE  T \in P
  <2>1. IsFiniteSet(T)
    BY FS_Subset
  <2>2. SumFunctionOnSet(F, T) =
          IF T = {} THEN 0 ELSE F[Chosen(T)] + SumFunctionOnSet(F, T \ {Chosen(T)})
    BY <2>1, SumUnfold
  <2>3. T # {} => F[Chosen(T)] \in Nat /\ SumFunctionOnSet(F, T \ {Chosen(T)}) \in Nat
    BY <1>1, ChosenIn
  <2> QED BY <2>2, <2>3
<1>2. \A T \in SUBSET S : T \in P
  <2> HIDE DEF P
  <2> QED BY <1>1, SubsetInduction
<1> QED BY <1>2

(* Any element may be taken out first, not only the one chosen. *)
LEMMA SumRemove ==
    ASSUME NEW S, IsFiniteSet(S), NEW F, \A x \in S : F[x] \in Nat, NEW e \in S
    PROVE  SumFunctionOnSet(F, S) = F[e] + SumFunctionOnSet(F, S \ {e})
<1> DEFINE P == {T \in SUBSET S :
                   \A x \in T : SumFunctionOnSet(F, T) = F[x] + SumFunctionOnSet(F, T \ {x})}
<1>1. ASSUME NEW T \in SUBSET S, \A x \in T : T \ {x} \in P
      PROVE  T \in P
  <2> SUFFICES ASSUME NEW x \in T
               PROVE  SumFunctionOnSet(F, T) = F[x] + SumFunctionOnSet(F, T \ {x})
    OBVIOUS
  <2>1. PICK y \in T : y = Chosen(T)
    BY ChosenIn
  <2>2. IsFiniteSet(T)
    BY FS_Subset
  <2>3. SumFunctionOnSet(F, T) = F[y] + SumFunctionOnSet(F, T \ {y})
    BY <2>1, <2>2, SumUnfold
  <2>4. CASE x = y
    BY <2>3, <2>4
  <2>5. CASE x # y
    <3>1. x \in T \ {y} /\ y \in T \ {x}
      BY <2>5
    <3>2. SumFunctionOnSet(F, T \ {y}) = F[x] + SumFunctionOnSet(F, (T \ {y}) \ {x})
      BY <1>1, <3>1
    <3>3. SumFunctionOnSet(F, T \ {x}) = F[y] + SumFunctionOnSet(F, (T \ {x}) \ {y})
      BY <1>1, <3>1
    <3>4. PICK R : R = (T \ {x}) \ {y} /\ R = (T \ {y}) \ {x} /\ R \subseteq S
      OBVIOUS
    <3>5. SumFunctionOnSet(F, R) \in Nat
      <4>1. IsFiniteSet(R) /\ \A z \in R : F[z] \in Nat
        BY <3>4, FS_Subset
      <4> QED BY <4>1, SumNat
    <3>6. F[x] \in Nat /\ F[y] \in Nat
      OBVIOUS
    <3>7. /\ SumFunctionOnSet(F, T \ {y}) = F[x] + SumFunctionOnSet(F, R)
          /\ SumFunctionOnSet(F, T \ {x}) = F[y] + SumFunctionOnSet(F, R)
      BY <3>2, <3>3, <3>4
    <3> QED BY <2>3, <3>5, <3>6, <3>7
  <2> QED BY <2>4, <2>5
<1>2. \A T \in SUBSET S : T \in P
  <2> HIDE DEF P
  <2> QED BY <1>1, SubsetInduction
<1>3. S \in P
  <2> HIDE DEF P
  <2> QED BY <1>2
<1> QED BY <1>3

(* Only the values on the set count. *)
LEMMA SumSame ==
    ASSUME NEW S, IsFiniteSet(S), NEW F, NEW G, \A x \in S : F[x] = G[x]
    PROVE  SumFunctionOnSet(F, S) = SumFunctionOnSet(G, S)
<1> DEFINE P == {T \in SUBSET S : SumFunctionOnSet(F, T) = SumFunctionOnSet(G, T)}
<1>1. ASSUME NEW T \in SUBSET S, \A x \in T : T \ {x} \in P
      PROVE  T \in P
  <2>1. IsFiniteSet(T)
    BY FS_Subset
  <2>2. /\ SumFunctionOnSet(F, T) =
            IF T = {} THEN 0 ELSE F[Chosen(T)] + SumFunctionOnSet(F, T \ {Chosen(T)})
        /\ SumFunctionOnSet(G, T) =
            IF T = {} THEN 0 ELSE G[Chosen(T)] + SumFunctionOnSet(G, T \ {Chosen(T)})
    BY <2>1, SumUnfold
  <2>3. T # {} => /\ F[Chosen(T)] = G[Chosen(T)]
                  /\ SumFunctionOnSet(F, T \ {Chosen(T)}) = SumFunctionOnSet(G, T \ {Chosen(T)})
    BY <1>1, ChosenIn
  <2> QED BY <2>2, <2>3
<1>2. \A T \in SUBSET S : T \in P
  <2> HIDE DEF P
  <2> QED BY <1>1, SubsetInduction
<1>3. S \in P
  <2> HIDE DEF P
  <2> QED BY <1>2
<1> QED BY <1>3

(* A set and the rest. *)
LEMMA SumSplit ==
    ASSUME NEW S, IsFiniteSet(S), NEW F, \A x \in S : F[x] \in Nat, NEW R, R \subseteq S
    PROVE  SumFunctionOnSet(F, S) = SumFunctionOnSet(F, R) + SumFunctionOnSet(F, S \ R)
<1> DEFINE P == {T \in SUBSET R :
              SumFunctionOnSet(F, S) = SumFunctionOnSet(F, T) + SumFunctionOnSet(F, S \ T)}
<1>0. IsFiniteSet(R)
  BY FS_Subset
<1>1. ASSUME NEW T \in SUBSET R, \A x \in T : T \ {x} \in P
      PROVE  T \in P
  <2>1. IsFiniteSet(T) /\ IsFiniteSet(S \ T)
    BY <1>0, FS_Subset
  <2>2. CASE T = {}
    <3>1. SumFunctionOnSet(F, {}) = 0
      BY FS_EmptySet, SumUnfold
    <3>2. SumFunctionOnSet(F, S) \in Nat
      BY SumNat
    <3>3. S \ T = S
      BY <2>2
    <3> QED BY <2>2, <3>1, <3>2, <3>3
  <2>3. CASE T # {}
    <3>1. PICK x : x \in T
      BY <2>3
    <3>2. PICK U : U = T \ {x} /\ U \subseteq S /\ IsFiniteSet(U) /\ IsFiniteSet(S \ U)
      <4>1. IsFiniteSet(T \ {x})
        BY FS_Subset
      <4>2. IsFiniteSet(S \ (T \ {x}))
        BY FS_Subset
      <4> QED BY <4>1, <4>2
    <3>3. SumFunctionOnSet(F, S) = SumFunctionOnSet(F, U) + SumFunctionOnSet(F, S \ U)
      BY <1>1, <3>1, <3>2
    <3>4. SumFunctionOnSet(F, T) = F[x] + SumFunctionOnSet(F, U)
      BY <2>1, <3>1, <3>2, SumRemove
    <3>5. SumFunctionOnSet(F, S \ U) = F[x] + SumFunctionOnSet(F, S \ T)
      <4>1. (S \ U) \ {x} = S \ T /\ x \in S \ U
        BY <3>1, <3>2
      <4> QED BY <3>2, <4>1, SumRemove
    <3>6. /\ SumFunctionOnSet(F, U) \in Nat /\ SumFunctionOnSet(F, S \ T) \in Nat
          /\ F[x] \in Nat
      BY <2>1, <3>1, <3>2, SumNat
    <3> QED BY <3>3, <3>4, <3>5, <3>6
  <2> QED BY <2>2, <2>3
<1>2. \A T \in SUBSET R : T \in P
  <2> HIDE DEF P
  <2> QED BY <1>0, <1>1, SubsetInduction
<1>3. R \in P
  <2> HIDE DEF P
  <2> QED BY <1>2
<1> QED BY <1>3

(* What is zero adds nothing. *)
LEMMA SumZero ==
    ASSUME NEW S, IsFiniteSet(S), NEW F, \A x \in S : F[x] = 0
    PROVE  SumFunctionOnSet(F, S) = 0
<1> DEFINE P == {T \in SUBSET S : SumFunctionOnSet(F, T) = 0}
<1>1. ASSUME NEW T \in SUBSET S, \A x \in T : T \ {x} \in P
      PROVE  T \in P
  <2>1. IsFiniteSet(T)
    BY FS_Subset
  <2>2. SumFunctionOnSet(F, T) =
          IF T = {} THEN 0 ELSE F[Chosen(T)] + SumFunctionOnSet(F, T \ {Chosen(T)})
    BY <2>1, SumUnfold
  <2>3. T # {} => F[Chosen(T)] = 0 /\ SumFunctionOnSet(F, T \ {Chosen(T)}) = 0
    BY <1>1, ChosenIn
  <2> QED BY <2>2, <2>3
<1>2. \A T \in SUBSET S : T \in P
  <2> HIDE DEF P
  <2> QED BY <1>1, SubsetInduction
<1>3. S \in P
  <2> HIDE DEF P
  <2> QED BY <1>2
<1> QED BY <1>3

(* Counting is a sum of ones. *)
LEMMA SumOnes ==
    ASSUME NEW S, IsFiniteSet(S), NEW F, \A x \in S : F[x] = 1
    PROVE  SumFunctionOnSet(F, S) = Cardinality(S)
<1> DEFINE P == {T \in SUBSET S : SumFunctionOnSet(F, T) = Cardinality(T)}
<1>1. ASSUME NEW T \in SUBSET S, \A x \in T : T \ {x} \in P
      PROVE  T \in P
  <2>1. IsFiniteSet(T) /\ Cardinality(T) \in Nat
    BY FS_Subset, FS_CardinalityType
  <2>2. SumFunctionOnSet(F, T) =
          IF T = {} THEN 0 ELSE F[Chosen(T)] + SumFunctionOnSet(F, T \ {Chosen(T)})
    BY <2>1, SumUnfold
  <2>3. ASSUME T # {}
        PROVE  /\ F[Chosen(T)] = 1
               /\ SumFunctionOnSet(F, T \ {Chosen(T)}) = Cardinality(T) - 1
    <3>1. Chosen(T) \in T
      BY <2>3, ChosenIn
    <3>2. Cardinality(T \ {Chosen(T)}) = Cardinality(T) - 1
      BY <2>1, <3>1, FS_RemoveElement
    <3> QED BY <1>1, <3>1, <3>2
  <2>4. T = {} => Cardinality(T) = 0
    BY FS_EmptySet
  <2> QED BY <2>1, <2>2, <2>3, <2>4
<1>2. \A T \in SUBSET S : T \in P
  <2> HIDE DEF P
  <2> QED BY <1>1, SubsetInduction
<1>3. S \in P
  <2> HIDE DEF P
  <2> QED BY <1>2
<1> QED BY <1>3

(* Larger values give a larger sum. *)
LEMMA SumMonotone ==
    ASSUME NEW S, IsFiniteSet(S), NEW F, NEW G,
           \A x \in S : F[x] \in Nat /\ G[x] \in Nat /\ F[x] <= G[x]
    PROVE  SumFunctionOnSet(F, S) <= SumFunctionOnSet(G, S)
<1> DEFINE P == {T \in SUBSET S : SumFunctionOnSet(F, T) <= SumFunctionOnSet(G, T)}
<1>1. ASSUME NEW T \in SUBSET S, \A x \in T : T \ {x} \in P
      PROVE  T \in P
  <2>1. IsFiniteSet(T)
    BY FS_Subset
  <2>2. /\ SumFunctionOnSet(F, T) =
            IF T = {} THEN 0 ELSE F[Chosen(T)] + SumFunctionOnSet(F, T \ {Chosen(T)})
        /\ SumFunctionOnSet(G, T) =
            IF T = {} THEN 0 ELSE G[Chosen(T)] + SumFunctionOnSet(G, T \ {Chosen(T)})
    BY <2>1, SumUnfold
  <2>3. CASE T = {}
    BY <2>2, <2>3
  <2>4. CASE T # {}
    <3>1. Chosen(T) \in T
      BY <2>4, ChosenIn
    <3>2. PICK R : R = T \ {Chosen(T)} /\ R \subseteq S /\ IsFiniteSet(R)
      <4>1. IsFiniteSet(T \ {Chosen(T)})
        BY <2>1, FS_Subset
      <4> QED BY <4>1
    <3>3. SumFunctionOnSet(F, R) <= SumFunctionOnSet(G, R)
      BY <1>1, <3>1, <3>2
    <3>4. SumFunctionOnSet(F, R) \in Nat /\ SumFunctionOnSet(G, R) \in Nat
      BY <3>2, SumNat
    <3>5. /\ F[Chosen(T)] \in Nat /\ G[Chosen(T)] \in Nat
          /\ F[Chosen(T)] <= G[Chosen(T)]
      BY <3>1
    <3> QED BY <2>2, <2>4, <3>2, <3>3, <3>4, <3>5
  <2> QED BY <2>3, <2>4
<1>2. \A T \in SUBSET S : T \in P
  <2> HIDE DEF P
  <2> QED BY <1>1, SubsetInduction
<1>3. S \in P
  <2> HIDE DEF P
  <2> QED BY <1>2
<1> QED BY <1>3

(* One value changes. *)
LEMMA SumChange ==
    ASSUME NEW S, IsFiniteSet(S), NEW F, NEW G, NEW e \in S,
           \A x \in S : F[x] \in Nat /\ G[x] \in Nat,
           \A x \in S \ {e} : F[x] = G[x]
    PROVE  SumFunctionOnSet(G, S) + F[e] = SumFunctionOnSet(F, S) + G[e]
<1>1. PICK R : R = S \ {e} /\ IsFiniteSet(R)
  BY FS_Subset
<1>2. /\ SumFunctionOnSet(F, S) = F[e] + SumFunctionOnSet(F, R)
      /\ SumFunctionOnSet(G, S) = G[e] + SumFunctionOnSet(G, R)
  BY <1>1, SumRemove
<1>3. SumFunctionOnSet(F, R) = SumFunctionOnSet(G, R)
  BY <1>1, SumSame
<1>4. SumFunctionOnSet(G, R) \in Nat /\ F[e] \in Nat /\ G[e] \in Nat
  BY <1>1, SumNat
<1> QED BY <1>2, <1>3, <1>4

(* A sum covers each of its terms. *)
LEMMA SumCovers ==
    ASSUME NEW S, IsFiniteSet(S), NEW F, \A x \in S : F[x] \in Nat, NEW e \in S
    PROVE  F[e] <= SumFunctionOnSet(F, S)
<1>1. PICK R : R = S \ {e} /\ IsFiniteSet(R)
  BY FS_Subset
<1>2. SumFunctionOnSet(F, S) = F[e] + SumFunctionOnSet(F, R)
  BY <1>1, SumRemove
<1>3. SumFunctionOnSet(F, R) \in Nat /\ F[e] \in Nat
  BY <1>1, SumNat
<1> QED BY <1>2, <1>3

(* The sum over a set outside of which all is zero. *)
LEMMA SumWhere ==
    ASSUME NEW S, IsFiniteSet(S), NEW F, \A x \in S : F[x] \in Nat,
           NEW R, R \subseteq S, \A x \in S \ R : F[x] = 0
    PROVE  SumFunctionOnSet(F, S) = SumFunctionOnSet(F, R)
<1>1. IsFiniteSet(R) /\ IsFiniteSet(S \ R)
  BY FS_Subset
<1>2. SumFunctionOnSet(F, S) = SumFunctionOnSet(F, R) + SumFunctionOnSet(F, S \ R)
  BY SumSplit
<1>3. SumFunctionOnSet(F, S \ R) = 0
  BY <1>1, SumZero
<1>4. SumFunctionOnSet(F, R) \in Nat
  BY <1>1, SumNat
<1> QED BY <1>2, <1>3, <1>4

(* The values on a part are set to zero. *)
LEMMA SumDrop ==
    ASSUME NEW S, IsFiniteSet(S), NEW F, NEW G, NEW R, R \subseteq S,
           \A x \in S : F[x] \in Nat,
           \A x \in R : G[x] = 0, \A x \in S \ R : G[x] = F[x]
    PROVE  SumFunctionOnSet(F, S) = SumFunctionOnSet(F, R) + SumFunctionOnSet(G, S)
<1>1. PICK T : T = S \ R /\ IsFiniteSet(T) /\ T \subseteq S
  BY FS_Subset
<1>2. SumFunctionOnSet(F, S) = SumFunctionOnSet(F, R) + SumFunctionOnSet(F, T)
  BY <1>1, SumSplit
<1>3. SumFunctionOnSet(G, S) = SumFunctionOnSet(G, T)
  <2>1. \A x \in S : G[x] \in Nat
    OBVIOUS
  <2>2. \A x \in S \ T : G[x] = 0
    BY <1>1
  <2> QED BY <1>1, <2>1, <2>2, SumWhere
<1>4. SumFunctionOnSet(F, T) = SumFunctionOnSet(G, T)
  BY <1>1, SumSame
<1> QED BY <1>2, <1>3, <1>4

============================================================================
