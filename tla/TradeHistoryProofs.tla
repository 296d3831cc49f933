-------------------------- MODULE TradeHistoryProofs --------------------------
(***************************************************************************)
(* Proofs about TradeHistory: paging with the cursor repeats nothing and   *)
(* skips nothing, for any table, limits and commits in between.            *)
(***************************************************************************)
EXTENDS TradeHistory, TotalsProofs

----------------------------------------------------------------------------
(* The order of the listing *)

\* Ids are unique.
Distinct(S) == \A a, b \in S : a.id = b.id => a = b

LEMMA NewerOrder ==
  ASSUME NEW a \in Trade, NEW b \in Trade
  PROVE  /\ ~Newer(a, a) /\ ~(Newer(a, b) /\ Newer(b, a))
         /\ a.id # b.id => Newer(a, b) \/ Newer(b, a)
         /\ \A c \in Trade : Newer(a, b) /\ Newer(b, c) => Newer(a, c)
<1>1. \A t \in Trade : t.at \in Nat /\ t.id \in Nat
  BY OrdersAssumption DEF Trade
<1> QED  BY <1>1 DEF Newer

\* A finite set of trades has an oldest one.
LEMMA OldestExists ==
  ASSUME NEW S \in SUBSET Trade, IsFiniteSet(S), Distinct(S), S # {}
  PROVE  \E m \in S : \A y \in S \ {m} : Newer(y, m)
<1> DEFINE Q == {s \in SUBSET S : s # {} => \E m \in s : \A y \in s \ {m} : Newer(y, m)}
<1>1. {} \in Q
  OBVIOUS
<1>2. ASSUME NEW s \in SUBSET S, s # {}, \A x \in s : s \ {x} \in Q
      PROVE  s \in Q
  <2>1. PICK x \in s : TRUE
    BY <1>2
  <2>2. CASE s \ {x} = {}
    BY <2>1, <2>2
  <2>3. CASE s \ {x} # {}
    <3>1. PICK m \in s \ {x} : \A y \in (s \ {x}) \ {m} : Newer(y, m)
      BY <1>2, <2>1, <2>3
    <3>2. m \in Trade /\ x \in Trade /\ m.id # x.id /\ m \in s /\ x # m
      BY <3>1 DEF Distinct
    <3>3. CASE Newer(x, m)
      <4>1. \A y \in s \ {m} : Newer(y, m)
        BY <3>1, <3>3
      <4> QED  BY <3>2, <4>1
    <3>4. CASE Newer(m, x)
      <4>1. ASSUME NEW y \in s \ {x}
            PROVE  Newer(y, x)
        <5>1. y \in Trade
          OBVIOUS
        <5>2. y = m \/ Newer(y, m)
          BY <3>1, <4>1
        <5> QED  BY <3>2, <3>4, <5>1, <5>2, NewerOrder
      <4> QED  BY <2>1, <4>1
    <3> QED  BY <3>2, <3>3, <3>4, NewerOrder
  <2> QED  BY <2>2, <2>3
<1>3. SUBSET S \subseteq Q
  <2> HIDE DEF Q
  <2> QED  BY <1>1, <1>2, SubsetInduction
<1> QED  BY <1>3

\* And a newest one.
LEMMA NewestExists ==
  ASSUME NEW S \in SUBSET Trade, IsFiniteSet(S), Distinct(S), S # {}
  PROVE  \E m \in S : \A y \in S \ {m} : Newer(m, y)
<1> DEFINE Q == {s \in SUBSET S : s # {} => \E m \in s : \A y \in s \ {m} : Newer(m, y)}
<1>1. {} \in Q
  OBVIOUS
<1>2. ASSUME NEW s \in SUBSET S, s # {}, \A x \in s : s \ {x} \in Q
      PROVE  s \in Q
  <2>1. PICK x \in s : TRUE
    BY <1>2
  <2>2. CASE s \ {x} = {}
    BY <2>1, <2>2
  <2>3. CASE s \ {x} # {}
    <3>1. PICK m \in s \ {x} : \A y \in (s \ {x}) \ {m} : Newer(m, y)
      BY <1>2, <2>1, <2>3
    <3>2. m \in Trade /\ x \in Trade /\ m.id # x.id /\ m \in s /\ x # m
      BY <3>1 DEF Distinct
    <3>3. CASE Newer(m, x)
      <4>1. \A y \in s \ {m} : Newer(m, y)
        BY <3>1, <3>3
      <4> QED  BY <3>2, <4>1
    <3>4. CASE Newer(x, m)
      <4>1. ASSUME NEW y \in s \ {x}
            PROVE  Newer(x, y)
        <5>1. y \in Trade
          OBVIOUS
        <5>2. y = m \/ Newer(m, y)
          BY <3>1, <4>1
        <5> QED  BY <3>2, <3>4, <5>1, <5>2, NewerOrder
      <4> QED  BY <2>1, <4>1
    <3> QED  BY <3>2, <3>3, <3>4, NewerOrder
  <2> QED  BY <2>2, <2>3
<1>3. SUBSET S \subseteq Q
  <2> HIDE DEF Q
  <2> QED  BY <1>1, <1>2, SubsetInduction
<1> QED  BY <1>3

\* The sequence Ordered chooses exists.
LEMMA OrderedExists ==
  ASSUME NEW S \in SUBSET Trade, IsFiniteSet(S), Distinct(S)
  PROVE  \E q \in [1..Cardinality(S) -> S] :
           \A i, j \in 1..Cardinality(S) : i < j => Newer(q[i], q[j])
<1> DEFINE Q == {s \in SUBSET S :
                   \E q \in [1..Cardinality(s) -> s] :
                     \A i, j \in 1..Cardinality(s) : i < j => Newer(q[i], q[j])}
<1>1. {} \in Q
  <2>1. Cardinality({}) = 0
    BY FS_EmptySet
  <2>2. 1..0 = {}
    OBVIOUS
  <2>3. <<>> \in [{} -> {}]
    OBVIOUS
  <2> QED  BY <2>1, <2>2, <2>3
<1>2. ASSUME NEW s \in SUBSET S, s # {}, \A x \in s : s \ {x} \in Q
      PROVE  s \in Q
  <2>1. IsFiniteSet(s) /\ s \in SUBSET Trade /\ Distinct(s)
    BY FS_Subset DEF Distinct
  <2>2. PICK m \in s : \A y \in s \ {m} : Newer(y, m)
    BY <1>2, <2>1, OldestExists
  <2>3. PICK n \in Nat : Cardinality(s) = n + 1 /\ Cardinality(s \ {m}) = n
    BY <2>1, CardinalityWithout
  <2>4. PICK q \in [1..n -> s \ {m}] : \A i, j \in 1..n : i < j => Newer(q[i], q[j])
    BY <1>2, <2>3
  <2> DEFINE p == [i \in 1..(n + 1) |-> IF i = n + 1 THEN m ELSE q[i]]
  <2>5. \A i \in 1..(n + 1) : i # n + 1 => i \in 1..n
    OBVIOUS
  <2>6. p \in [1..(n + 1) -> s]
    BY <2>4, <2>5
  <2>7. ASSUME NEW i \in 1..(n + 1), NEW j \in 1..(n + 1), i < j
        PROVE  Newer(p[i], p[j])
    <3>1. i \in 1..n /\ p[i] = q[i]
      BY <2>7
    <3>2. CASE j = n + 1
      BY <2>2, <2>4, <3>1, <3>2
    <3>3. CASE j # n + 1
      BY <2>4, <2>5, <2>7, <3>1, <3>3
    <3> QED  BY <3>2, <3>3
  <2> QED  BY <2>3, <2>6, <2>7
<1>3. SUBSET S \subseteq Q
  <2> HIDE DEF Q
  <2> QED  BY <1>1, <1>2, SubsetInduction
<1> QED  BY <1>3

\* What Ordered returns: the set, newest first.
LEMMA OrderedFacts ==
  ASSUME NEW S \in SUBSET Trade, IsFiniteSet(S), Distinct(S)
  PROVE  /\ Ordered(S) \in Seq(S) /\ Len(Ordered(S)) = Cardinality(S)
         /\ DOMAIN Ordered(S) = 1..Cardinality(S) /\ Cardinality(S) \in Nat
         /\ \A i, j \in DOMAIN Ordered(S) : i < j => Newer(Ordered(S)[i], Ordered(S)[j])
         /\ \A t \in S : \E i \in DOMAIN Ordered(S) : Ordered(S)[i] = t
<1>1. PICK n \in Nat : n = Cardinality(S)
  BY FS_CardinalityType
<1>2. PICK q : q = Ordered(S)
  OBVIOUS
<1>3. q \in [1..n -> S] /\ \A i, j \in 1..n : i < j => Newer(q[i], q[j])
  BY <1>1, <1>2, OrderedExists DEF Ordered
<1>4. ASSUME NEW i \in 1..n, NEW j \in 1..n, q[i] = q[j]
      PROVE  i = j
  <2>1. q[i] \in Trade
    BY <1>3
  <2>2. ~(i < j) /\ ~(j < i)
    BY <1>3, <1>4, <2>1, NewerOrder
  <2> QED  BY <2>2
<1>5. q \in Injection(1..n, S)
  BY <1>3, <1>4 DEF Injection, IsInjective
<1>6. Cardinality(1..n) = n
  <2>1. 1 \in Int /\ n \in Int /\ (IF 1 > n THEN 0 ELSE n - 1 + 1) = n
    OBVIOUS
  <2> QED  BY <2>1, FS_Interval
<1>7. q \in Surjection(1..n, S)
  BY <1>1, <1>5, <1>6, FS_Injection
<1>8. \A t \in S : \E i \in 1..n : q[i] = t
  BY <1>7 DEF Surjection
<1>9. q \in Seq(S) /\ Len(q) = n /\ DOMAIN q = 1..n
  BY <1>3
<1> QED  BY <1>1, <1>2, <1>3, <1>8, <1>9


----------------------------------------------------------------------------
(* The rows a request fetches *)

\* What is newer than a row that is fetched is fetched.
LEMMA FirstUpward ==
  ASSUME NEW S \in SUBSET Trade, IsFiniteSet(S), NEW n \in Nat,
         NEW x \in First(S, n), NEW y \in S, Newer(y, x)
  PROVE  y \in First(S, n)
<1> DEFINE X == {z \in S : Newer(z, x)}
           Y == {z \in S : Newer(z, y)}
<1>1. x \in S /\ Cardinality(X) < n
  BY DEF First
<1>2. Y \subseteq X
  BY <1>1, NewerOrder
<1>3. IsFiniteSet(X)
  <2>1. X \subseteq S
    OBVIOUS
  <2> HIDE DEF X
  <2> QED  BY <2>1, FS_Subset
<1>4. Cardinality(Y) <= Cardinality(X) /\ Cardinality(X) \in Nat /\ Cardinality(Y) \in Nat
  <2> HIDE DEF X, Y
  <2> QED  BY <1>2, <1>3, FS_Subset, FS_CardinalityType
<1>5. Cardinality(Y) < n
  <2> HIDE DEF X, Y
  <2> QED  BY <1>1, <1>4
<1> QED  BY <1>5 DEF First

\* The page of a request, out of limit + 1 rows: what is newer than a trade of
\* the page is on it; there are more rows only if it is not empty; and if
\* there are none it has everything.
LEMMA PageFacts ==
  ASSUME NEW S \in SUBSET Trade, IsFiniteSet(S), Distinct(S), NEW l \in Nat \ {0},
         NEW R, R = First(S, l + 1), NEW P, P = First(R, l)
  PROVE  /\ P \subseteq S /\ IsFiniteSet(P) /\ Distinct(P)
         /\ \A x \in P, y \in S : Newer(y, x) => y \in P
         /\ Cardinality(R) > l => P # {}
         /\ ~(Cardinality(R) > l) => P = S
<1>1. R \subseteq S /\ P \subseteq R
  BY DEF First
<1>2. IsFiniteSet(R) /\ IsFiniteSet(P) /\ Distinct(P) /\ Distinct(R) /\ R \in SUBSET Trade
  BY <1>1, FS_Subset DEF Distinct
<1>3. Cardinality(R) \in Nat
  BY <1>2, FS_CardinalityType
<1>4. ASSUME NEW x \in P, NEW y \in S, Newer(y, x)
      PROVE  y \in P
  <2>1. x \in R
    BY <1>1
  <2>2. y \in R
    BY <1>4, <2>1, FirstUpward
  <2> QED  BY <1>2, <1>4, <2>2, FirstUpward
<1>5. ASSUME Cardinality(R) > l
      PROVE  P # {}
  <2>1. R # {}
    BY <1>5, FS_EmptySet
  <2>2. PICK m \in R : \A y \in R \ {m} : Newer(m, y)
    BY <1>2, <2>1, NewestExists
  <2>3. {z \in R : Newer(z, m)} = {}
    BY <1>2, <2>2, NewerOrder
  <2>4. Cardinality({z \in R : Newer(z, m)}) < l
    BY <2>3, FS_EmptySet
  <2>5. m \in P
    BY <2>2, <2>4 DEF First
  <2> QED  BY <2>5
<1>6. ASSUME ~(Cardinality(R) > l)
      PROVE  P = S
  <2>1. R = S
    <3> SUFFICES ASSUME S \ R # {} PROVE FALSE
      BY <1>1
    <3>1. IsFiniteSet(S \ R) /\ Distinct(S \ R) /\ S \ R \in SUBSET Trade
      BY FS_Subset DEF Distinct
    <3>2. PICK m \in S \ R : \A y \in (S \ R) \ {m} : Newer(m, y)
      BY <3>1, NewestExists
    <3> DEFINE N == {z \in S : Newer(z, m)}
    <3>3. ~(Cardinality(N) < l + 1)
      BY <3>2 DEF First
    <3>4. N \subseteq R
      BY <3>2, NewerOrder
    <3> HIDE DEF N
    <3>5. Cardinality(N) <= Cardinality(R) /\ Cardinality(N) \in Nat
      BY <1>2, <3>4, FS_Subset, FS_CardinalityType
    <3> QED  BY <1>3, <1>6, <3>3, <3>5
  <2>2. ASSUME NEW t \in R
        PROVE  t \in P
    <3> DEFINE N == {z \in R : Newer(z, t)}
    <3>1. t \in Trade
      BY <1>2
    <3>2. N \subseteq R \ {t}
      BY <3>1, NewerOrder
    <3>3. IsFiniteSet(R \ {t}) /\ Cardinality(R \ {t}) = Cardinality(R) - 1
      BY <1>2, CardinalityWithout
    <3>4. Cardinality(N) < l
      <4> HIDE DEF N
      <4>1. Cardinality(N) <= Cardinality(R \ {t}) /\ Cardinality(N) \in Nat
        BY <3>2, <3>3, FS_Subset, FS_CardinalityType
      <4> QED  BY <1>3, <1>6, <3>3, <4>1
    <3> QED  BY <3>4 DEF First
  <2> QED  BY <1>1, <2>1, <2>2
<1> QED  BY <1>1, <1>2, <1>4, <1>5, <1>6

----------------------------------------------------------------------------
(* The invariant *)

\* The trades the client was given.
Given(t) == \E i \in DOMAIN seen : seen[i] = t

\* The table and the open transaction are finite, without two trades of one
\* id; the cursor of a client that is paging is the last trade it was given,
\* and what it has still to get is older.
ListingInv ==
  /\ trades \in SUBSET Trade /\ open \in SUBSET Trade
  /\ IsFiniteSet(trades) /\ IsFiniteSet(open) /\ Distinct(trades \cup open)
  /\ seen \in Seq(Trade)
  /\ phase \in {"idle", "paging", "done"}
  /\ visible \subseteq Matching(filter)
  /\ phase = "idle" => seen = <<>> /\ cursor = NoCursor
  /\ phase = "paging" => /\ seen # <<>>
                         /\ cursor = CursorOf(seen)
                         /\ \A t \in visible : Given(t) \/ Below(t, cursor)
  /\ PagesDescend /\ ListingComplete

\* A trade below a cursor is older than the trade of the cursor.
LEMMA BelowCursor ==
  ASSUME NEW s \in Seq(Trade), s # <<>>, NEW t \in Trade
  PROVE  /\ Len(s) \in DOMAIN s /\ s[Len(s)] \in Trade
         /\ Below(t, CursorOf(s)) <=> Newer(s[Len(s)], t)
<1>1. Len(s) \in DOMAIN s /\ s[Len(s)] \in Trade
  OBVIOUS
<1>2. PICK u : u = s[Len(s)]
  OBVIOUS
<1>3. u.at \in Nat
  BY <1>1, <1>2, OrdersAssumption DEF Trade
<1>4. CursorOf(s) = [at |-> u.at, id |-> u.id]
  BY <1>2 DEF CursorOf
<1>5. CursorOf(s) # NoCursor
  <2>1. CursorOf(s).at # -1 /\ NoCursor.at = -1
    BY <1>3, <1>4 DEF NoCursor
  <2> QED  BY <2>1
<1>6. Newer(CursorOf(s), t) <=> Newer(u, t)
  BY <1>4 DEF Newer
<1> QED  BY <1>1, <1>2, <1>5, <1>6 DEF Below


\* One page: it continues the listing, and what is still to come is below the
\* new cursor.
LEMMA PageStep ==
  ASSUME ListingInv, phase \in {"idle", "paging"}, NEW f, NEW n \in RawLimits,
         ListPaginated(f, n), NEW V, V \subseteq Matching(f),
         \A t \in V : Given(t) \/ Below(t, cursor)
  PROVE  /\ seen' \in Seq(Trade) /\ PagesDescend'
         /\ phase' \in {"paging", "done"}
         /\ phase' = "paging" => seen' # <<>> /\ cursor' = CursorOf(seen')
         /\ \A t \in V : Given(t)' \/ (phase' = "paging" /\ Below(t, cursor'))
<1>1. PICK l, S, R, P, page :
        /\ l = PageLimit(n) /\ S = {t \in Matching(f) : Below(t, cursor)}
        /\ R = First(S, l + 1) /\ P = First(R, l) /\ page = Ordered(P)
  OBVIOUS
<1>2. /\ seen' = seen \o page
      /\ cursor' = IF Cardinality(R) > l THEN CursorOf(page) ELSE NoCursor
      /\ phase' = IF Cardinality(R) > l THEN "paging" ELSE "done"
  BY <1>1 DEF ListPaginated
<1>3. l \in Nat \ {0}
  BY <1>1, LimitsAssumption DEF PageLimit
<1>4. S \in SUBSET Trade /\ IsFiniteSet(S) /\ Distinct(S)
  <2>1. S \subseteq trades
    BY <1>1 DEF Matching
  <2> QED  BY <2>1, FS_Subset DEF ListingInv, Distinct
<1>5. /\ P \subseteq S /\ IsFiniteSet(P) /\ Distinct(P)
      /\ \A x \in P, y \in S : Newer(y, x) => y \in P
      /\ Cardinality(R) > l => P # {}
      /\ ~(Cardinality(R) > l) => P = S
  <2>1. \A A, B : A = First(S, l + 1) /\ B = First(A, l) =>
          /\ B \subseteq S /\ IsFiniteSet(B) /\ Distinct(B)
          /\ \A x \in B, y \in S : Newer(y, x) => y \in B
          /\ Cardinality(A) > l => B # {}
          /\ ~(Cardinality(A) > l) => B = S
    BY <1>3, <1>4, PageFacts
  <2>2. R = First(S, l + 1) /\ P = First(R, l)
    BY <1>1
  <2> QED  BY <2>1, <2>2, Zenon
<1>6. /\ page \in Seq(P) /\ Len(page) = Cardinality(P)
      /\ DOMAIN page = 1..Cardinality(P) /\ Cardinality(P) \in Nat
      /\ \A i, j \in DOMAIN page : i < j => Newer(page[i], page[j])
      /\ \A t \in P : \E i \in DOMAIN page : page[i] = t
  <2>1. P \in SUBSET Trade
    BY <1>4, <1>5
  <2>2. IsFiniteSet(P) /\ Distinct(P)
    BY <1>5
  <2>3. page = Ordered(P)
    BY <1>1
  <2> QED  BY <2>1, <2>2, <2>3, OrderedFacts
<1>7. /\ page \in Seq(Trade) /\ seen \in Seq(Trade) /\ seen' \in Seq(Trade)
      /\ \A i \in DOMAIN page : page[i] \in P /\ page[i] \in Trade
  <2>1. P \subseteq Trade
    BY <1>4, <1>5
  <2>2. \A i \in DOMAIN page : page[i] \in P
    BY <1>6
  <2>3. page \in Seq(Trade)
    BY <1>6, <2>1
  <2>4. seen \in Seq(Trade)
    BY DEF ListingInv
  <2>5. seen' \in Seq(Trade)
    BY <1>2, <2>3, <2>4
  <2> QED  BY <2>1, <2>2, <2>3, <2>4, <2>5
<1>8. PICK k \in Nat, m \in Nat : k = Len(seen) /\ m = Len(page)
  BY <1>7
<1>9. /\ DOMAIN seen = 1..k /\ DOMAIN page = 1..m /\ DOMAIN seen' = 1..(k + m)
      /\ \A i \in 1..k : seen'[i] = seen[i]
      /\ \A i \in 1..m : seen'[k + i] = page[i]
      /\ \A i \in 1..(k + m) : i \notin 1..k => i - k \in 1..m /\ seen'[i] = page[i - k]
      /\ Len(seen') = k + m
  BY <1>2, <1>7, <1>8
<1>10. \A t \in S, i \in DOMAIN seen : Newer(seen[i], t)
  <2>1. CASE phase = "idle"
    BY <2>1 DEF ListingInv
  <2>2. CASE phase = "paging"
    <3> SUFFICES ASSUME NEW t \in S, NEW i \in DOMAIN seen
                 PROVE  Newer(seen[i], t)
      OBVIOUS
    <3>1. seen # <<>> /\ cursor = CursorOf(seen) /\ Below(t, cursor) /\ t \in Trade
      BY <1>1, <1>4, <2>2 DEF ListingInv
    <3>2. k \in DOMAIN seen /\ seen[k] \in Trade /\ Newer(seen[k], t)
      BY <1>7, <1>8, <3>1, BelowCursor
    <3>3. seen[i] \in Trade
      BY <1>7
    <3>4. i = k \/ i < k
      BY <1>9
    <3>5. i < k => Newer(seen[i], seen[k])
      BY <3>2 DEF ListingInv, PagesDescend
    <3> QED  BY <3>1, <3>2, <3>3, <3>4, <3>5, NewerOrder
  <2> QED  BY <2>1, <2>2
<1>11. PagesDescend'
  <2> SUFFICES ASSUME NEW i \in 1..(k + m), NEW j \in 1..(k + m), i < j
               PROVE  Newer(seen'[i], seen'[j])
    BY <1>9 DEF PagesDescend
  <2>1. CASE j \in 1..k
    <3>1. i \in 1..k
      BY <2>1
    <3>2. Newer(seen[i], seen[j])
      BY <1>9, <2>1, <3>1 DEF ListingInv, PagesDescend
    <3> QED  BY <1>9, <2>1, <3>1, <3>2
  <2>2. CASE i \in 1..k /\ j \notin 1..k
    <3>1. seen'[j] = page[j - k] /\ j - k \in DOMAIN page
      BY <1>9, <2>2
    <3>2. page[j - k] \in S
      BY <1>5, <1>7, <3>1
    <3> QED  BY <1>9, <1>10, <2>2, <3>1, <3>2
  <2>3. CASE i \notin 1..k /\ j \notin 1..k
    <3>1. /\ seen'[j] = page[j - k] /\ j - k \in DOMAIN page
          /\ seen'[i] = page[i - k] /\ i - k \in DOMAIN page
      BY <1>9, <2>3
    <3>2. i - k < j - k
      OBVIOUS
    <3> QED  BY <1>6, <3>1, <3>2
  <2> QED  BY <2>1, <2>2, <2>3
<1>12. ASSUME Cardinality(R) > l
       PROVE  m > 0 /\ seen' # <<>> /\ page # <<>> /\ CursorOf(page) = CursorOf(seen')
  <2>1. m > 0
    BY <1>5, <1>6, <1>8, <1>12, FS_EmptySet
  <2>2. k + m > 0 /\ m \in 1..m /\ seen'[k + m] = page[m]
    BY <1>9, <2>1
  <2>3. CursorOf(page) = CursorOf(seen')
    BY <1>8, <1>9, <2>2 DEF CursorOf
  <2>4. seen' # <<>> /\ page # <<>>
    BY <1>8, <1>9, <2>1, <2>2
  <2> QED  BY <2>1, <2>3, <2>4
<1>13. ASSUME NEW t \in V
       PROVE  Given(t)' \/ (phase' = "paging" /\ Below(t, cursor'))
  <2>1. CASE Given(t)
    <3>1. PICK i \in 1..k : seen[i] = t
      BY <1>9, <2>1 DEF Given
    <3>2. i \in DOMAIN seen' /\ seen'[i] = t
      BY <1>9, <3>1
    <3> QED  BY <3>2 DEF Given
  <2>2. CASE t \in P
    <3>1. PICK i \in 1..m : page[i] = t
      BY <1>6, <1>9, <2>2
    <3>2. k + i \in DOMAIN seen' /\ seen'[k + i] = t
      BY <1>9, <3>1
    <3> QED  BY <3>2 DEF Given
  <2>3. CASE ~Given(t) /\ t \notin P
    <3>1. t \in S /\ t \in Trade
      BY <1>1, <1>4, <2>3
    <3>2. Cardinality(R) > l
      BY <1>5, <2>3, <3>1
    <3>3. m \in DOMAIN page /\ page[m] \in P /\ page[m] \in Trade
      <4>1. m > 0
        BY <1>12, <3>2
      <4>2. m \in DOMAIN page
        BY <1>9, <4>1
      <4> QED  BY <1>7, <4>2
    <3>4. page[m].id # t.id
      BY <1>4, <1>5, <2>3, <3>1, <3>3 DEF Distinct
    <3>5. ~Newer(t, page[m])
      BY <1>5, <2>3, <3>1, <3>3
    <3>6. Newer(page[m], t)
      BY <3>1, <3>3, <3>4, <3>5, NewerOrder
    <3>7. Below(t, CursorOf(page))
      BY <1>7, <1>8, <1>12, <3>1, <3>2, <3>6, BelowCursor
    <3> QED  BY <1>2, <3>2, <3>7
  <2> QED  BY <2>1, <2>2, <2>3
<1>14. phase' = "paging" => Cardinality(R) > l
  BY <1>2
<1> QED  BY <1>2, <1>7, <1>11, <1>12, <1>13, <1>14

LEMMA ListingInit ==
  ASSUME Init
  PROVE  ListingInv
BY FS_EmptySet DEF Init, ListingInv, Distinct, PagesDescend, ListingComplete

LEMMA ListingStep ==
  ASSUME ListingInv, [Next]_vars
  PROVE  ListingInv'
<1>1. ASSUME NEW t \in Trade, Insert(t)
      PROVE  ListingInv'
  <2>1. /\ open' = open \cup {t} /\ UNCHANGED <<trades, phase, filter, cursor, seen, visible>>
        /\ \A x \in trades \cup open : x.id # t.id
    BY <1>1 DEF Insert
  <2>2. IsFiniteSet(open')
    BY <2>1, FS_AddElement DEF ListingInv
  <2>3. Distinct(trades' \cup open') /\ open' \in SUBSET Trade
    BY <2>1 DEF ListingInv, Distinct
  <2>4. Matching(filter)' = Matching(filter) /\ \A x : Given(x)' <=> Given(x)
    BY <2>1 DEF Matching, Given
  <2> QED  BY <2>1, <2>2, <2>3, <2>4 DEF ListingInv, PagesDescend, ListingComplete
<1>2. CASE Commit
  <2>1. /\ trades' = trades \cup open /\ open' = {}
        /\ UNCHANGED <<phase, filter, cursor, seen, visible>>
    BY <1>2 DEF Commit
  <2>2. IsFiniteSet(trades') /\ IsFiniteSet(open')
    BY <2>1, FS_Union, FS_EmptySet DEF ListingInv
  <2>3. trades' \cup open' = trades \cup open /\ trades' \in SUBSET Trade
    BY <2>1 DEF ListingInv
  <2>4. Matching(filter) \subseteq Matching(filter)' /\ \A x : Given(x)' <=> Given(x)
    BY <2>1 DEF Matching, Given
  <2> QED  BY <2>1, <2>2, <2>3, <2>4 DEF ListingInv, PagesDescend, ListingComplete
<1>3. CASE Rollback
  <2>1. open' = {} /\ UNCHANGED <<trades, phase, filter, cursor, seen, visible>>
    BY <1>3 DEF Rollback
  <2>2. IsFiniteSet(open') /\ Distinct(trades' \cup open')
    BY <2>1, FS_EmptySet DEF ListingInv, Distinct
  <2>3. Matching(filter)' = Matching(filter) /\ \A x : Given(x)' <=> Given(x)
    BY <2>1 DEF Matching, Given
  <2> QED  BY <2>1, <2>2, <2>3 DEF ListingInv, PagesDescend, ListingComplete
<1>4. ASSUME NEW f, NEW n \in RawLimits, ListPaginated(f, n), NEW V, visible' = V, filter' = f,
             phase \in {"idle", "paging"}, UNCHANGED <<trades, open>>, V \subseteq Matching(f),
             \A t \in V : Given(t) \/ Below(t, cursor)
      PROVE  ListingInv'
  <2>1. /\ seen' \in Seq(Trade) /\ PagesDescend'
        /\ phase' \in {"paging", "done"}
        /\ phase' = "paging" => seen' # <<>> /\ cursor' = CursorOf(seen')
        /\ \A t \in V : Given(t)' \/ (phase' = "paging" /\ Below(t, cursor'))
    BY <1>4, PageStep
  <2>2. Matching(filter)' = Matching(f)
    BY <1>4 DEF Matching
  <2>3. ListingComplete'
    BY <1>4, <2>1 DEF ListingComplete, Given
  <2> QED  BY <1>4, <2>1, <2>2, <2>3 DEF ListingInv
<1>5. CASE FirstPage
  <2>1. PICK f \in SUBSET Keys, n \in RawLimits :
          filter' = f /\ visible' = Matching(f) /\ ListPaginated(f, n)
    BY <1>5 DEF FirstPage
  <2>2. phase = "idle" /\ UNCHANGED <<trades, open>>
    BY <1>5 DEF FirstPage
  <2>3. \A t : Below(t, cursor)
    BY <2>2 DEF ListingInv, Below
  <2> QED  BY <1>4, <2>1, <2>2, <2>3
<1>6. CASE NextPage
  <2>1. PICK n \in RawLimits : ListPaginated(filter, n)
    BY <1>6 DEF NextPage
  <2>2. phase = "paging" /\ UNCHANGED <<trades, open, filter, visible>>
    BY <1>6 DEF NextPage
  <2>3. visible \subseteq Matching(filter) /\ \A t \in visible : Given(t) \/ Below(t, cursor)
    BY <2>2 DEF ListingInv
  <2> QED  BY <1>4, <2>1, <2>2, <2>3
<1>7. CASE UNCHANGED vars
  <2>1. UNCHANGED <<trades, open, phase, filter, cursor, seen, visible>>
    BY <1>7 DEF vars
  <2>2. Matching(filter)' = Matching(filter) /\ \A x : Given(x)' <=> Given(x)
    BY <2>1 DEF Matching, Given
  <2> QED  BY <2>1, <2>2 DEF ListingInv, PagesDescend, ListingComplete
<1> QED  BY <1>1, <1>2, <1>3, <1>5, <1>6, <1>7 DEF Next

\* The inductive invariant of the listing: the cursor is the last trade given,
\* and every trade the client must still see is below it.
THEOREM ListingInvariant == Spec => []ListingInv
<1>1. Init => ListingInv
  BY ListingInit
<1>2. ListingInv /\ [Next]_vars => ListingInv'
  BY ListingStep
<1> QED  BY <1>1, <1>2, PTL DEF Spec

\* Across all the pages the trades come newest first and none twice, whatever
\* is committed between two requests and whatever limits they ask for.
THEOREM PagesNeverRepeat == Spec => []PagesDescend
<1>1. ListingInv => PagesDescend
  BY DEF ListingInv
<1> QED  BY <1>1, ListingInvariant, PTL

\* No trade is skipped: when the last page has been read, every matching trade
\* that was committed when the client asked for the first has been returned.
THEOREM PagesNeverSkip == Spec => []ListingComplete
<1>1. ListingInv => ListingComplete
  BY DEF ListingInv
<1> QED  BY <1>1, ListingInvariant, PTL
=============================================================================
