---------------------------- MODULE TotalsProofs ----------------------------
(***************************************************************************)
(* Facts about sums over finite sets and about extrema of sets of numbers. *)
(* The induction they need is an argument about a set of subsets: a set Q  *)
(* of subsets of S that is closed under adding an element contains them    *)
(* all, because there is no smallest subset outside it.                    *)
(***************************************************************************)
EXTENDS Totals, Integers, FiniteSetTheorems, WellFoundedInduction, TLAPS

----------------------------------------------------------------------------
(* Extrema and induction *)

\* Every non-empty set of naturals has a least element.
LEMMA LeastNatural ==
  ASSUME NEW T, T \subseteq Nat, T # {}
  PROVE  \E m \in T : \A n \in T : m <= n
<1> DEFINE R == {ss \in Nat \X Nat : ss[1] < ss[2]}
<1>1. IsWellFoundedOn(R, Nat)
  BY NatLessThanWellFounded DEF OpToRel
<1> HIDE DEF R
<1>2. PICK x \in T : \A y \in T : ~ (<<y, x>> \in R)
  BY <1>1, WFMin
<1>3. \A y \in T : ~(y < x)
  BY <1>2 DEF R
<1> QED  BY <1>3

\* Every non-empty set of numbers up to n has a greatest element.
LEMMA GreatestBelow ==
  ASSUME NEW n \in Nat, NEW T, T \subseteq 1..n, T # {}
  PROVE  \E m \in T : \A k \in T : k <= m
<1> DEFINE U == {n - k : k \in T}
<1>1. U \subseteq Nat /\ U # {}
  <2>1. \A k \in T : k \in 1..n /\ n - k \in Nat
    OBVIOUS
  <2> QED  BY <2>1
<1>2. PICK l \in U : \A u \in U : l <= u
  <2> HIDE DEF U
  <2> QED  BY <1>1, LeastNatural
<1>3. PICK m \in T : l = n - m
  BY <1>2
<1>4. \A k \in T : n - m <= n - k
  BY <1>2, <1>3
<1> QED  BY <1>3, <1>4

\* The cardinality of a finite set without one of its elements.
LEMMA CardinalityWithout ==
  ASSUME NEW s, IsFiniteSet(s), NEW x \in s
  PROVE  /\ IsFiniteSet(s \ {x})
         /\ Cardinality(s) \in Nat \ {0} /\ Cardinality(s \ {x}) = Cardinality(s) - 1
<1>1. IsFiniteSet(s \ {x}) /\ Cardinality(s \ {x}) = Cardinality(s) - 1
  BY FS_RemoveElement
<1>2. Cardinality(s) \in Nat /\ Cardinality(s) # 0
  BY FS_CardinalityType, FS_EmptySet
<1> QED  BY <1>1, <1>2

\* Induction over the subsets of a finite set.
LEMMA SubsetInduction ==
  ASSUME NEW S, IsFiniteSet(S), NEW Q,
         {} \in Q,
         \A s \in SUBSET S : s # {} /\ (\A x \in s : s \ {x} \in Q) => s \in Q
  PROVE  SUBSET S \subseteq Q
<1> DEFINE B == {s \in SUBSET S : s \notin Q}
           N == {Cardinality(s) : s \in B}
<1>1. \A s \in SUBSET S : IsFiniteSet(s) /\ Cardinality(s) \in Nat
  BY FS_Subset, FS_CardinalityType
<1>2. SUFFICES ASSUME B # {} PROVE FALSE
  OBVIOUS
<1>3. N \subseteq Nat /\ N # {}
  BY <1>1, <1>2
<1>4. PICK m \in N : \A n \in N : m <= n
  <2> HIDE DEF N
  <2> QED  BY <1>3, LeastNatural
<1>5. PICK s \in B : m = Cardinality(s)
  BY <1>4
<1>6. s # {}
  BY <1>5
<1>7. ASSUME NEW x \in s  PROVE  s \ {x} \in Q
  <2>1. s \ {x} \in SUBSET S
    BY <1>5
  <2>2. Cardinality(s) \in Nat /\ Cardinality(s \ {x}) = Cardinality(s) - 1
    BY <1>1, <1>5, CardinalityWithout
  <2>3. Cardinality(s \ {x}) \notin N
    BY <1>4, <1>5, <2>2
  <2> QED  BY <2>1, <2>3
<1> QED  BY <1>5, <1>6, <1>7

----------------------------------------------------------------------------
(* What Total computes *)

\* The element MapThenSumSet takes from a set, and the recursion it runs.
Taken(s) == CHOOSE x \in s : TRUE
IsSum(h, f, S) ==
  h = [s \in SUBSET S |-> IF s = {} THEN 0 ELSE f[Taken(s)] + h[s \ {Taken(s)}]]

LEMMA TakenInSet ==
  ASSUME NEW s, s # {}
  PROVE  Taken(s) \in s
BY DEF Taken

\* The recursion has a solution, since it descends to smaller subsets.
LEMMA SumExists ==
  ASSUME NEW S, IsFiniteSet(S), NEW f, \A x \in S : f[x] \in Int
  PROVE  \E h : IsSum(h, f, S)
<1> DEFINE Rhs(h, s) == IF s = {} THEN 0 ELSE f[Taken(s)] + h[s \ {Taken(s)}]
           Good(n) == {h \in [SUBSET S -> Int] : \A s \in SUBSET S :
                         Cardinality(s) <= n => h[s] = Rhs(h, s)}
           Bad == {n \in Nat : Good(n) = {}}
<1>1. \A s \in SUBSET S : IsFiniteSet(s) /\ Cardinality(s) \in Nat
  BY FS_Subset, FS_CardinalityType
<1>2. \A s \in SUBSET S : s # {} =>
        /\ Taken(s) \in S /\ s \ {Taken(s)} \in SUBSET S
        /\ Cardinality(s) # 0
        /\ Cardinality(s \ {Taken(s)}) = Cardinality(s) - 1
  <2>1. SUFFICES ASSUME NEW s \in SUBSET S, s # {}
                 PROVE  /\ Taken(s) \in S /\ s \ {Taken(s)} \in SUBSET S
                        /\ Cardinality(s) # 0
                        /\ Cardinality(s \ {Taken(s)}) = Cardinality(s) - 1
    OBVIOUS
  <2>2. Taken(s) \in s /\ IsFiniteSet(s)
    BY <1>1, <2>1, TakenInSet
  <2>3. Cardinality(s) \in Nat \ {0} /\ Cardinality(s \ {Taken(s)}) = Cardinality(s) - 1
    BY <2>2, CardinalityWithout
  <2> QED  BY <2>2, <2>3
<1>3. Good(0) # {}
  <2> DEFINE z == [s \in SUBSET S |-> 0]
  <2>1. z \in [SUBSET S -> Int]
    OBVIOUS
  <2>2. \A s \in SUBSET S : Cardinality(s) <= 0 => s = {}
    <3>1. SUFFICES ASSUME NEW s \in SUBSET S, s # {}, Cardinality(s) <= 0
                   PROVE  FALSE
      OBVIOUS
    <3>2. Cardinality(s) # 0
      BY <1>2, <3>1
    <3>3. Cardinality(s) \in Nat
      BY <1>1, <3>1
    <3> QED  BY <3>1, <3>2, <3>3
  <2>3. ASSUME NEW s \in SUBSET S, Cardinality(s) <= 0
        PROVE  z[s] = Rhs(z, s)
    BY <2>2, <2>3
  <2>4. z \in Good(0)
    <3> HIDE DEF z, Rhs
    <3> QED  BY <2>1, <2>3
  <2> QED  BY <2>4
<1>4. ASSUME NEW m \in Nat, Good(m) # {}  PROVE  Good(m + 1) # {}
  <2>1. PICK h \in Good(m) : TRUE
    BY <1>4
  <2> DEFINE g == [s \in SUBSET S |-> IF Cardinality(s) = m + 1 THEN Rhs(h, s) ELSE h[s]]
  <2>2. ASSUME NEW s \in SUBSET S  PROVE  Rhs(h, s) \in Int
    <3>1. CASE s = {}
      BY <3>1
    <3>2. CASE s # {}
      <4>1. Taken(s) \in S /\ s \ {Taken(s)} \in SUBSET S
        BY <1>2, <3>2
      <4>2. f[Taken(s)] \in Int /\ h[s \ {Taken(s)}] \in Int
        BY <2>1, <4>1
      <4> QED  BY <3>2, <4>2
    <3> QED  BY <3>1, <3>2
  <2>3. g \in [SUBSET S -> Int]
    <3> HIDE DEF Rhs
    <3> QED  BY <2>1, <2>2
  <2>4. ASSUME NEW s \in SUBSET S, Cardinality(s) <= m + 1
        PROVE  g[s] = Rhs(h, s)
    <3>1. CASE Cardinality(s) = m + 1
      BY <3>1
    <3>2. CASE Cardinality(s) # m + 1
      <4>1. Cardinality(s) <= m
        BY <1>1, <2>4, <3>2
      <4> QED  BY <2>1, <3>2, <4>1
    <3> QED  BY <3>1, <3>2
  <2>5. ASSUME NEW s \in SUBSET S, Cardinality(s) <= m + 1
        PROVE  Rhs(g, s) = Rhs(h, s)
    <3>1. CASE s = {}
      BY <3>1
    <3>2. CASE s # {}
      <4>1. Cardinality(s \ {Taken(s)}) # m + 1 /\ s \ {Taken(s)} \in SUBSET S
        BY <1>1, <1>2, <2>5, <3>2
      <4>2. g[s \ {Taken(s)}] = h[s \ {Taken(s)}]
        BY <4>1
      <4> QED  BY <3>2, <4>2
    <3> QED  BY <3>1, <3>2
  <2>6. g \in Good(m + 1)
    <3> HIDE DEF g, Rhs
    <3> QED  BY <2>3, <2>4, <2>5
  <2> QED  BY <2>6
<1> HIDE DEF Good
<1>5. Bad = {}
  <2>1. SUFFICES ASSUME Bad # {} PROVE FALSE
    OBVIOUS
  <2>2. PICK m \in Bad : \A n \in Bad : m <= n
    <3>1. Bad \subseteq Nat
      OBVIOUS
    <3> HIDE DEF Bad
    <3> QED  BY <2>1, <3>1, LeastNatural
  <2>3. m # 0 /\ m - 1 \in Nat /\ m - 1 \notin Bad
    BY <1>3, <2>2
  <2>4. Good((m - 1) + 1) # {}
    BY <1>4, <2>3
  <2>5. (m - 1) + 1 = m
    BY <2>2
  <2> QED  BY <2>2, <2>4, <2>5
<1>6. PICK h \in Good(Cardinality(S)) : TRUE
  BY <1>1, <1>5
<1>7. \A s \in SUBSET S : Cardinality(s) <= Cardinality(S)
  BY FS_Subset
<1>8. h \in [SUBSET S -> Int] /\ \A s \in SUBSET S : h[s] = Rhs(h, s)
  BY <1>6, <1>7 DEF Good
<1>9. h = [s \in SUBSET S |-> h[s]]
  BY <1>8
<1>10. h = [s \in SUBSET S |-> Rhs(h, s)]
  BY <1>8, <1>9
<1> QED  BY <1>10 DEF IsSum


\* Solutions of the recursion for two functions that agree on T agree on its
\* subsets.
LEMMA SumsAgree ==
  ASSUME NEW S, NEW T, T \subseteq S, IsFiniteSet(T), NEW f, NEW g,
         \A x \in T : f[x] = g[x],
         NEW h, IsSum(h, f, S), NEW k, IsSum(k, g, T)
  PROVE  \A s \in SUBSET T : h[s] = k[s]
<1> DEFINE Q == {s \in SUBSET T : h[s] = k[s]}
<1>1. \A s \in SUBSET T : s \in SUBSET S
  OBVIOUS
<1>2. ASSUME NEW s \in SUBSET T
      PROVE  /\ h[s] = IF s = {} THEN 0 ELSE f[Taken(s)] + h[s \ {Taken(s)}]
             /\ k[s] = IF s = {} THEN 0 ELSE g[Taken(s)] + k[s \ {Taken(s)}]
  BY <1>1 DEF IsSum
<1>3. {} \in Q
  BY <1>2
<1>4. ASSUME NEW s \in SUBSET T, s # {}, \A x \in s : s \ {x} \in Q
      PROVE  s \in Q
  <2>1. Taken(s) \in s
    BY <1>4, TakenInSet
  <2>2. h[s \ {Taken(s)}] = k[s \ {Taken(s)}] /\ f[Taken(s)] = g[Taken(s)]
    BY <1>4, <2>1
  <2>3. h[s] = k[s]
    BY <1>2, <1>4, <2>2
  <2> QED  BY <2>3
<1> HIDE DEF Q
<1>5. SUBSET T \subseteq Q
  BY <1>3, <1>4, SubsetInduction
<1> QED  BY <1>5 DEF Q

\* Sums of integers are integers.
LEMMA SumsInt ==
  ASSUME NEW S, IsFiniteSet(S), NEW f, \A x \in S : f[x] \in Int,
         NEW h, IsSum(h, f, S)
  PROVE  \A s \in SUBSET S : h[s] \in Int
<1> DEFINE Q == {s \in SUBSET S : h[s] \in Int}
<1>1. ASSUME NEW s \in SUBSET S, s # {}
      PROVE  h[s] = f[Taken(s)] + h[s \ {Taken(s)}]
  BY <1>1 DEF IsSum
<1>2. {} \in Q
  <2>1. {} \in SUBSET S
    OBVIOUS
  <2>2. h[{}] = 0
    BY <2>1 DEF IsSum
  <2> QED  BY <2>1, <2>2
<1>3. ASSUME NEW s \in SUBSET S, s # {}, \A x \in s : s \ {x} \in Q
      PROVE  s \in Q
  <2>1. Taken(s) \in s
    BY <1>3, TakenInSet
  <2>2. f[Taken(s)] \in Int /\ h[s \ {Taken(s)}] \in Int
    BY <1>3, <2>1
  <2>3. h[s] = f[Taken(s)] + h[s \ {Taken(s)}]
    BY <1>1, <1>3
  <2>4. h[s] \in Int
    BY <2>2, <2>3
  <2> QED  BY <2>4
<1> HIDE DEF Q
<1>4. SUBSET S \subseteq Q
  BY <1>2, <1>3, SubsetInduction
<1> QED  BY <1>4 DEF Q

\* It does not matter which element is taken first.
LEMMA SumsTake ==
  ASSUME NEW S, IsFiniteSet(S), NEW f, \A x \in S : f[x] \in Int,
         NEW h, IsSum(h, f, S)
  PROVE  \A s \in SUBSET S : \A x \in s : h[s] = f[x] + h[s \ {x}]
<1> DEFINE Q == {s \in SUBSET S : \A x \in s : h[s] = f[x] + h[s \ {x}]}
<1>1. ASSUME NEW s \in SUBSET S, s # {}
      PROVE  h[s] = f[Taken(s)] + h[s \ {Taken(s)}]
  BY <1>1 DEF IsSum
<1>2. {} \in Q
  OBVIOUS
<1>3. ASSUME NEW s \in SUBSET S, s # {}, \A x \in s : s \ {x} \in Q
      PROVE  s \in Q
  <2> DEFINE a == Taken(s)
  <2>1. a \in s /\ h[s] = f[a] + h[s \ {a}]
    BY <1>1, <1>3, TakenInSet
  <2> HIDE DEF a
  <2>2. ASSUME NEW x \in s, x # a
        PROVE  h[s] = f[x] + h[s \ {x}]
    <3> DEFINE r == h[s \ {a, x}]
    <3>1. (s \ {a}) \ {x} = s \ {a, x} /\ (s \ {x}) \ {a} = s \ {a, x}
      OBVIOUS
    <3>2. x \in s \ {a} /\ a \in s \ {x} /\ s \ {a} \in Q /\ s \ {x} \in Q
      BY <1>3, <2>1, <2>2
    <3>3. h[s \ {a}] = f[x] + h[(s \ {a}) \ {x}] /\ h[s \ {x}] = f[a] + h[(s \ {x}) \ {a}]
      BY <3>2
    <3>4. h[s \ {a}] = f[x] + r /\ h[s \ {x}] = f[a] + r
      BY <3>1, <3>3
    <3>5. s \ {a, x} \in SUBSET S
      OBVIOUS
    <3>6. f[x] \in Int /\ f[a] \in Int /\ r \in Int
      BY <2>1, <2>2, <3>5, SumsInt
    <3> HIDE DEF r
    <3> QED  BY <2>1, <3>4, <3>6
  <2>3. \A x \in s : h[s] = f[x] + h[s \ {x}]
    BY <2>1, <2>2
  <2> QED  BY <2>3
<1> HIDE DEF Q
<1>4. SUBSET S \subseteq Q
  BY <1>2, <1>3, SubsetInduction
<1> QED  BY <1>4 DEF Q

\* The function that Total evaluates at S.
Sums(f, S) == CHOOSE h : IsSum(h, f, S)

LEMMA TotalIsSum ==
  ASSUME NEW S, NEW f
  PROVE  Total(f, S) = Sums(f, S)[S]
BY Zenon DEF Total, MapThenSumSet, MapThenFoldSet, Sums, IsSum, Taken

\* The sum over a set is an integer, and an element can be taken out of it.
LEMMA TotalTake ==
  ASSUME NEW S, IsFiniteSet(S), NEW f, \A x \in S : f[x] \in Int, NEW x \in S
  PROVE  Total(f, S) = f[x] + Total(f, S \ {x})
<1> DEFINE T == S \ {x}
<1>1. T \subseteq S /\ IsFiniteSet(T) /\ \A y \in T : f[y] \in Int
  BY FS_Subset
<1>2. IsSum(Sums(f, S), f, S) /\ IsSum(Sums(f, T), f, T)
  BY <1>1, SumExists DEF Sums
<1>3. Sums(f, S)[T] = Sums(f, T)[T]
  <2>1. \A s \in SUBSET T : Sums(f, S)[s] = Sums(f, T)[s]
    <3> HIDE DEF T
    <3> QED  BY <1>1, <1>2, SumsAgree
  <2> QED  BY <2>1
<1>4. Sums(f, S)[S] = f[x] + Sums(f, S)[S \ {x}]
  BY <1>2, SumsTake
<1> QED  BY <1>3, <1>4, TotalIsSum

LEMMA TotalInt ==
  ASSUME NEW S, IsFiniteSet(S), NEW f, \A x \in S : f[x] \in Int
  PROVE  Total(f, S) \in Int
<1>1. IsSum(Sums(f, S), f, S)
  BY SumExists DEF Sums
<1> QED  BY <1>1, SumsInt, TotalIsSum

LEMMA TotalEmpty ==
  ASSUME NEW f
  PROVE  Total(f, {}) = 0
<1>1. IsFiniteSet({}) /\ \A x \in {} : f[x] \in Int
  BY FS_EmptySet
<1>2. IsSum(Sums(f, {}), f, {})
  BY <1>1, SumExists DEF Sums
<1>3. Sums(f, {})[{}] = 0
  BY <1>2 DEF IsSum
<1> QED  BY <1>3, TotalIsSum

\* Functions that agree on a set have the same sum over it.
LEMMA TotalEqual ==
  ASSUME NEW S, IsFiniteSet(S), NEW f, NEW g, \A x \in S : f[x] \in Int,
         \A x \in S : f[x] = g[x]
  PROVE  Total(f, S) = Total(g, S)
<1>1. \A x \in S : g[x] \in Int
  OBVIOUS
<1>2. IsSum(Sums(f, S), f, S) /\ IsSum(Sums(g, S), g, S)
  BY <1>1, SumExists DEF Sums
<1>3. Sums(f, S)[S] = Sums(g, S)[S]
  BY <1>2, SumsAgree
<1> QED  BY <1>3, TotalIsSum

\* Changing one summand changes the sum by the difference.
LEMMA TotalChange ==
  ASSUME NEW S, IsFiniteSet(S), NEW f, NEW g,
         \A y \in S : f[y] \in Int, \A y \in S : g[y] \in Int,
         NEW x \in S, \A y \in S \ {x} : f[y] = g[y]
  PROVE  Total(g, S) = Total(f, S) + (g[x] - f[x])
<1> DEFINE T == S \ {x}
<1>1. IsFiniteSet(T)
  BY FS_Subset
<1>2. Total(f, T) = Total(g, T) /\ Total(f, T) \in Int
  BY <1>1, TotalEqual, TotalInt
<1>3. Total(f, S) = f[x] + Total(f, T) /\ Total(g, S) = g[x] + Total(g, T)
  BY TotalTake
<1> HIDE DEF T
<1> QED  BY <1>2, <1>3

\* A sum of naturals is a natural, and no less than any of its summands.
LEMMA TotalNat ==
  ASSUME NEW S, IsFiniteSet(S), NEW f, \A x \in S : f[x] \in Nat
  PROVE  Total(f, S) \in Nat /\ \A x \in S : f[x] <= Total(f, S)
<1> DEFINE Q == {s \in SUBSET S : Total(f, s) \in Nat}
<1>1. {} \in Q
  BY TotalEmpty
<1>2. ASSUME NEW s \in SUBSET S, s # {}, \A x \in s : s \ {x} \in Q
      PROVE  s \in Q
  <2>1. PICK x \in s : TRUE
    BY <1>2
  <2>2. IsFiniteSet(s) /\ (\A y \in s : f[y] \in Int) /\ f[x] \in Nat
    BY FS_Subset
  <2>3. Total(f, s) = f[x] + Total(f, s \ {x}) /\ Total(f, s \ {x}) \in Nat
    BY <1>2, <2>1, <2>2, TotalTake
  <2>4. Total(f, s) \in Nat
    BY <2>2, <2>3
  <2> QED  BY <2>4
<1>3. SUBSET S \subseteq Q
  <2> HIDE DEF Q
  <2> QED  BY <1>1, <1>2, SubsetInduction
<1>4. \A s \in SUBSET S : Total(f, s) \in Nat
  BY <1>3
<1>5. ASSUME NEW x \in S  PROVE  f[x] <= Total(f, S)
  <2>1. Total(f, S) = f[x] + Total(f, S \ {x})
    <3>1. \A y \in S : f[y] \in Int
      OBVIOUS
    <3> QED  BY <3>1, TotalTake
  <2>2. Total(f, S \ {x}) \in Nat /\ f[x] \in Nat
    BY <1>4
  <2> QED  BY <2>1, <2>2
<1> QED  BY <1>4, <1>5

\* A constant adds up to a product.
LEMMA TotalConstant ==
  ASSUME NEW S, IsFiniteSet(S), NEW f, NEW c \in Int, \A x \in S : f[x] = c
  PROVE  Total(f, S) = Cardinality(S) * c
<1> DEFINE Q == {s \in SUBSET S : Total(f, s) = Cardinality(s) * c}
<1>1. {} \in Q
  BY TotalEmpty, FS_EmptySet
<1>2. ASSUME NEW s \in SUBSET S, s # {}, \A x \in s : s \ {x} \in Q
      PROVE  s \in Q
  <2>1. PICK x \in s : TRUE
    BY <1>2
  <2>2. IsFiniteSet(s) /\ (\A y \in s : f[y] \in Int) /\ f[x] = c
    BY FS_Subset
  <2>3. Total(f, s) = c + Total(f, s \ {x})
    BY <2>2, TotalTake
  <2>4. Total(f, s \ {x}) = Cardinality(s \ {x}) * c
    BY <1>2, <2>1
  <2>5. Cardinality(s) \in Nat /\ Cardinality(s \ {x}) = Cardinality(s) - 1
    BY <2>1, <2>2, CardinalityWithout
  <2>6. c + (Cardinality(s) - 1) * c = Cardinality(s) * c
    BY <2>5
  <2>7. Total(f, s) = Cardinality(s) * c
    BY <2>3, <2>4, <2>5, <2>6
  <2> QED  BY <2>7
<1>3. SUBSET S \subseteq Q
  <2> HIDE DEF Q
  <2> QED  BY <1>1, <1>2, SubsetInduction
<1> QED  BY <1>3
=============================================================================
