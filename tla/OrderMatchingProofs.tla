------------------------- MODULE OrderMatchingProofs -------------------------
(***************************************************************************)
(* Proofs about the matching engine of OrderMatching, for any number of    *)
(* orders, prices and quantities.                                          *)
(***************************************************************************)
EXTENDS OrderMatching, MatchingEngineProofs, TLAPS

----------------------------------------------------------------------------
(* Facts about the steps *)

\* A step that takes orders out of the book and changes nothing else in it:
\* the queues hold the located orders, each once, in the order they had.
OnlyRemoves ==
  /\ book' \in [Sides -> [Prices -> Seq(Refs)]]
  /\ locations' \in [DOMAIN locations' -> Refs]
  /\ DOMAIN locations' \subseteq DOMAIN locations
  /\ \A x \in DOMAIN locations' : locations'[x] = locations[x]
  /\ \A s \in Sides, p \in Prices :
       /\ \A j \in DOMAIN book'[s][p] :
            /\ book'[s][p][j] \in DOMAIN locations'
            /\ \E k \in DOMAIN book[s][p] : book'[s][p][j] = book[s][p][k]
       /\ \A k \in DOMAIN book[s][p] :
            book[s][p][k] \in DOMAIN locations' =>
              \E j \in DOMAIN book'[s][p] : book'[s][p][j] = book[s][p][k]
       /\ \A j, k \in DOMAIN book'[s][p] :
            book'[s][p][j] = book'[s][p][k] => j = k
       /\ \A j, k \in DOMAIN book'[s][p] :
            j < k => arrival[book'[s][p][j]] < arrival[book'[s][p][k]]
       /\ book[s][p] = <<>> => book'[s][p] = <<>>

\* Every order in a queue is located under its own id.
LEMMA QueuedIsLocated ==
  ASSUME IInv, NEW s \in Sides, NEW p \in Prices, NEW k \in DOMAIN book[s][p]
  PROVE  book[s][p][k] \in DOMAIN locations /\ book[s][p][k] \in DOMAIN obj
BY DEF IInv, BookConsistent, Auxiliary

\* Taking a located order out of the book: every other order keeps its place
\* in the queues and its location.
LEMMA RemoveFrontFacts ==
  ASSUME IInv, NEW id \in DOMAIN locations,
         RemoveFront(id, obj[locations[id]].side, obj[locations[id]].price)
  PROVE  /\ locations[id] = id
         /\ DOMAIN locations' = DOMAIN locations \ {id}
         /\ OnlyRemoves
<1> DEFINE r == locations[id]
<1> USE DEF IInv
<1>1. PICK s0 \in Sides, p0 \in Prices :
        \E i \in DOMAIN book[s0][p0] : book[s0][p0][i] = r
  BY DEF BookConsistent, Resting
<1>2. PICK i \in DOMAIN book[s0][p0] : book[s0][p0][i] = r
  BY <1>1
<1> DEFINE q == book[s0][p0]
           t == RemoveElem(q, r)
<1>3. /\ r \in DOMAIN obj /\ obj[r].side = s0 /\ obj[r].price = p0
      /\ \A j \in DOMAIN q : q[j] = r => j = i
  BY <1>2 DEF BookConsistent
<1>4. obj[r].id = id /\ r = id
  BY <1>3 DEF BookConsistent, Auxiliary
<1>5. q \in Seq(Refs) /\ DOMAIN q = 1..Len(q) /\ Len(q) \in Nat
  BY LenProperties DEF TypeOK
<1>6. /\ t \in Seq(Refs) /\ DOMAIN t = 1..(Len(q) - 1)
      /\ \A j \in DOMAIN t : t[j] = q[IF j < i THEN j ELSE j + 1]
  <2>1. i \in DOMAIN q /\ t = RemoveElem(q, q[i])
        /\ \A j \in DOMAIN q : q[j] = q[i] => j = i
    BY <1>2, <1>3
  <2> HIDE DEF q, t
  <2> QED  BY <1>5, <2>1, RemoveElemFacts, ZenonT(40)
<1>7. /\ book' = [book EXCEPT ![s0][p0] = t]
      /\ locations' = [x \in DOMAIN locations \ {id} |-> locations[x]]
  BY <1>3 DEF RemoveFront
<1> HIDE DEF t
<1>8. /\ book' \in [Sides -> [Prices -> Seq(Refs)]]
      /\ book'[s0][p0] = t
      /\ \A s \in Sides, p \in Prices :
           ~(s = s0 /\ p = p0) => book'[s][p] = book[s][p]
  BY <1>6, <1>7 DEF TypeOK
<1>9. /\ DOMAIN locations' = DOMAIN locations \ {id}
      /\ locations' \in [DOMAIN locations' -> Refs]
      /\ \A x \in DOMAIN locations' : locations'[x] = locations[x]
  BY <1>7 DEF TypeOK
<1>10. ASSUME NEW s \in Sides, NEW p \in Prices
       PROVE  /\ \A j \in DOMAIN book'[s][p] :
                   /\ book'[s][p][j] # r
                   /\ \E k \in DOMAIN book[s][p] : book'[s][p][j] = book[s][p][k]
              /\ \A k \in DOMAIN book[s][p] :
                   book[s][p][k] # r =>
                     \E j \in DOMAIN book'[s][p] : book'[s][p][j] = book[s][p][k]
              /\ \A j, k \in DOMAIN book'[s][p] :
                   book'[s][p][j] = book'[s][p][k] => j = k
              /\ \A j, k \in DOMAIN book'[s][p] :
                   j < k => arrival[book'[s][p][j]] < arrival[book'[s][p][k]]
  <2>1. CASE s = s0 /\ p = p0
    <3>1. \A j \in DOMAIN t : /\ (IF j < i THEN j ELSE j + 1) \in DOMAIN q
                              /\ (IF j < i THEN j ELSE j + 1) # i
      BY <1>2, <1>5, <1>6
    <3>2. \A j \in DOMAIN t : t[j] # r /\ \E k \in DOMAIN q : t[j] = q[k]
      BY <1>3, <1>6, <3>1
    <3>3. \A k \in DOMAIN q : q[k] # r => \E j \in DOMAIN t : t[j] = q[k]
      <4> SUFFICES ASSUME NEW k \in DOMAIN q, q[k] # r
                   PROVE  \E j \in DOMAIN t : t[j] = q[k]
        OBVIOUS
      <4>1. k # i
        BY <1>2
      <4>2. CASE k < i
        <5>1. k \in DOMAIN t /\ t[k] = q[k]
          BY <1>2, <1>5, <1>6, <4>2
        <5> QED  BY <5>1
      <4>3. CASE k > i
        <5>1. k - 1 \in DOMAIN t /\ ~(k - 1 < i) /\ (k - 1) + 1 = k
          BY <1>2, <1>5, <1>6, <4>3
        <5>2. t[k - 1] = q[k]
          BY <1>6, <5>1
        <5> QED  BY <5>1, <5>2
      <4> QED  BY <1>5, <1>2, <4>1, <4>2, <4>3
    <3>4. \A j, k \in DOMAIN q : q[j] = q[k] => j = k
      BY DEF BookConsistent
    <3>5. \A j, k \in DOMAIN q : j < k => arrival[q[j]] < arrival[q[k]]
      BY DEF Auxiliary
    <3>6. ASSUME NEW j \in DOMAIN t, NEW k \in DOMAIN t
          PROVE  /\ t[j] = t[k] => j = k
                 /\ j < k => arrival[t[j]] < arrival[t[k]]
      <4> DEFINE sj == IF j < i THEN j ELSE j + 1
                 sk == IF k < i THEN k ELSE k + 1
      <4>1. sj \in DOMAIN q /\ sk \in DOMAIN q
        BY <3>1
      <4>2. t[j] = q[sj] /\ t[k] = q[sk]
        BY <1>6
      <4>3. (sj = sk => j = k) /\ (j < k => sj < sk)
        BY <1>2, <1>5, <1>6
      <4> HIDE DEF sj, sk
      <4> QED  BY <3>4, <3>5, <4>1, <4>2, <4>3
    <3> QED  BY <1>8, <2>1, <3>2, <3>3, <3>6
  <2>2. CASE ~(s = s0 /\ p = p0)
    <3>1. \A j \in DOMAIN book[s][p] : book[s][p][j] # r
      BY <1>3, <2>2 DEF BookConsistent
    <3>2. \A j, k \in DOMAIN book[s][p] : book[s][p][j] = book[s][p][k] => j = k
      BY DEF BookConsistent
    <3> QED  BY <1>8, <2>2, <3>1, <3>2 DEF Auxiliary
  <2> QED  BY <2>1, <2>2
<1>11. ASSUME NEW s \in Sides, NEW p \in Prices, book'[s][p] # <<>>
       PROVE  book[s][p] # <<>>
  <2>1. 1 \in DOMAIN book'[s][p]
    BY <1>8, <1>11
  <2> QED  BY <1>10, <2>1
<1>12. ASSUME NEW s \in Sides, NEW p \in Prices
       PROVE  /\ \A j \in DOMAIN book'[s][p] :
                   book'[s][p][j] \in DOMAIN locations'
              /\ \A k \in DOMAIN book[s][p] :
                   book[s][p][k] \in DOMAIN locations' => book[s][p][k] # r
  <2>1. \A k \in DOMAIN book[s][p] : book[s][p][k] \in DOMAIN locations
    BY QueuedIsLocated
  <2> QED  BY <1>4, <1>9, <1>10, <2>1
<1> QED  BY <1>4, <1>8, <1>9, <1>10, <1>11, <1>12 DEF OnlyRemoves

\* An order that has just been placed.
LEMMA NewOrderFacts ==
  ASSUME NEW id \in Ids, NEW o \in NewOrders(id)
  PROVE  /\ o \in Order
         /\ o.id = id /\ o.filled = 0 /\ o.status = "OPEN"
         /\ o.type = "LIMIT" => o.price \in Prices
BY MaxQtyAssumption DEF NewOrders, PlacedOrders, Order, OrderType, Sides, Types, Statuses

\* An iteration that does not leave the loop meets the front order of the
\* best opposite level, and the quantity it matches is one both orders (and
\* the funds of a BUY MARKET order) can take: neither Fill returns an error.
LEMMA CanTradeFacts ==
  ASSUME IInv, incoming # NoRef, NEW p \in Prices, CanTrade(p)
  PROVE  LET m == Head(book[Opposite(obj[incoming].side)][p])
             q == MatchQty(obj[incoming], obj[m], p) IN
         /\ incoming \in DOMAIN obj /\ m \in DOMAIN obj /\ m # incoming
         /\ Opposite(obj[incoming].side) \in Sides
         /\ 1 \in DOMAIN book[Opposite(obj[incoming].side)][p]
         /\ m = book[Opposite(obj[incoming].side)][p][1]
         /\ obj[m].side = Opposite(obj[incoming].side)
         /\ obj[m].price = p /\ obj[m].type = "LIMIT"
         /\ obj[m].id = m /\ m \in DOMAIN locations /\ m = locations[m]
         /\ q \in Nat \ {0}
         /\ CanFill(obj[incoming], q) /\ CanFill(obj[m], q)
         /\ IsBuyMarket(obj[incoming]) => funds - q * p >= 0
<1> DEFINE o    == obj[incoming]
           side == Opposite(o.side)
           m    == Head(book[side][p])
           q    == MatchQty(o, obj[m], p)
<1> USE DEF IInv
<1>1. incoming \in DOMAIN obj /\ o \in Order
  BY DEF TypeOK
<1>2. side \in Sides
  BY <1>1 DEF Opposite, Order, OrderType, Sides
<1>3. book[side][p] \in Seq(Refs) /\ book[side][p] # <<>>
  BY <1>2 DEF CanTrade, IsBest, TypeOK
<1>4. 1 \in DOMAIN book[side][p] /\ m = book[side][p][1]
  BY <1>3
<1>5. /\ m \in DOMAIN obj /\ m # incoming
      /\ obj[m].side = side /\ obj[m].price = p /\ obj[m].type = "LIMIT"
      /\ Remaining(obj[m]) > 0
      /\ obj[m].id \in DOMAIN locations /\ locations[obj[m].id] = m
  <2>1. BookConsistent
    OBVIOUS
  <2> HIDE DEF IInv
  <2>2. \A s \in Sides : \A i \in DOMAIN book[s][p] : \A r : r = book[s][p][i] =>
          /\ r \in DOMAIN obj /\ r # incoming
          /\ obj[r].side = s /\ obj[r].price = p /\ obj[r].type = "LIMIT"
          /\ Remaining(obj[r]) > 0
          /\ obj[r].id \in DOMAIN locations /\ locations[obj[r].id] = r
    BY <2>1 DEF BookConsistent
  <2> HIDE DEF m, side
  <2> QED  BY <1>2, <1>4, <2>2
<1>6. obj[m].id = m
  BY <1>5 DEF Auxiliary
<1>7. obj[m] \in Order
  BY <1>5 DEF TypeOK
<1>8. Remaining(o) > 0 /\ q # 0 /\ funds \in Nat
  BY DEF CanTrade, FundsCoverTrades, TypeOK
<1>9. /\ Remaining(o) \in Nat \ {0} /\ Remaining(obj[m]) \in Nat \ {0}
  BY <1>1, <1>5, <1>7, <1>8 DEF Remaining, Order, OrderType
<1>10. /\ p \in Nat \ {0} /\ GoDiv(funds, p) \in Nat
       /\ GoDiv(funds, p) * p <= funds
  BY <1>8, PricesAssumption, GoDivFacts
<1>11. /\ q \in Nat \ {0} /\ q <= Remaining(o) /\ q <= Remaining(obj[m])
       /\ IsBuyMarket(o) => q <= GoDiv(funds, p)
  <2>1. q = LET d == IF Remaining(o) < Remaining(obj[m]) THEN Remaining(o) ELSE Remaining(obj[m])
            IN  IF IsBuyMarket(o) /\ GoDiv(funds, p) < d THEN GoDiv(funds, p) ELSE d
    BY Zenon DEF MatchQty, min64
  <2> HIDE DEF IInv, q, m, o
  <2> QED  BY <1>8, <1>9, <1>10, <2>1
<1> HIDE DEF q
<1>12. IsBuyMarket(o) => funds - q * p >= 0
  <2>1. ASSUME NEW g \in Nat, q <= g, g * p <= funds
        PROVE  funds - q * p >= 0
    <3>1. q * p <= g * p
      BY <1>10, <1>11, <2>1
    <3> QED  BY <1>8, <1>10, <1>11, <2>1, <3>1
  <2> QED  BY <1>10, <1>11, <2>1
<1>13. CanFill(o, q) /\ CanFill(obj[m], q)
  BY <1>11 DEF CanFill
<1> QED  BY <1>1, <1>2, <1>4, <1>5, <1>6, <1>11, <1>12, <1>13 DEF q

----------------------------------------------------------------------------
(* Each step preserves the inductive invariant *)

\* An empty engine satisfies the invariant.
LEMMA InitEstablishes == Init => IInv
<1> SUFFICES ASSUME Init PROVE IInv
  OBVIOUS
<1>1. /\ DOMAIN obj = {} /\ DOMAIN locations = {} /\ DOMAIN arrival = {}
      /\ \A s \in Sides, p \in Prices : book[s][p] = <<>>
      /\ book \in [Sides -> [Prices -> Seq(Refs)]]
      /\ incoming = NoRef /\ funds = 0
      /\ clock = 0 /\ traded = [x \in Ids |-> 0]
  BY DEF Init, EngineInit, EmptyBook
<1>2. result \in MatchResult
  BY DEF Init, EngineInit, NoResult, MatchResult
<1>3. /\ obj \in [DOMAIN obj -> Order] /\ arrival \in [DOMAIN obj -> Nat]
      /\ locations \in [DOMAIN locations -> Refs]
  BY DEF Init, EngineInit
<1>4. TypeOK
  BY <1>1, <1>2, <1>3 DEF TypeOK
<1>5. BookConsistent /\ Uncrossed /\ FilledMatchesTrades /\ FundsCoverTrades
  <2>1. \A s \in Sides, p \in Prices : DOMAIN book[s][p] = {}
    BY <1>1
  <2>2. BookConsistent
    BY <1>1, <2>1 DEF BookConsistent
  <2>3. Uncrossed /\ FilledMatchesTrades /\ FundsCoverTrades
    BY <1>1 DEF Uncrossed, FilledMatchesTrades, FundsCoverTrades, Sides
  <2> QED  BY <2>2, <2>3
<1>6. Auxiliary
  BY <1>1 DEF Auxiliary
<1> QED  BY <1>4, <1>5, <1>6 DEF IInv

\* A new order on the heap disturbs nothing that is there: it is the latest
\* arrival and does not rest yet.
LEMMA SubmitPreserves == ASSUME IInv, Submit PROVE IInv'
<1> USE DEF IInv
<1>0. PICK r \in Refs \ DOMAIN obj :
        \E o \in NewOrders(r), f \in Funds :
          /\ StartMatch(r, o, IF IsBuyMarket(o) THEN f ELSE 0)
          /\ clock' = clock + 1
          /\ arrival' = [x \in DOMAIN arrival \cup {r} |->
                           IF x = r THEN clock + 1 ELSE arrival[x]]
          /\ UNCHANGED traded
  BY DEF Submit
<1>1. PICK o \in NewOrders(r), f \in Funds :
        /\ StartMatch(r, o, IF IsBuyMarket(o) THEN f ELSE 0)
        /\ clock' = clock + 1
        /\ arrival' = [x \in DOMAIN arrival \cup {r} |->
                         IF x = r THEN clock + 1 ELSE arrival[x]]
        /\ UNCHANGED traded
  BY <1>0
<1>2. /\ o \in Order /\ o.id = r /\ o.filled = 0 /\ o.status = "OPEN"
      /\ o.type = "LIMIT" => o.price \in Prices
  BY <1>1, OneObjectPerId, NewOrderFacts
<1>3. /\ DOMAIN obj' = DOMAIN obj \cup {r} /\ obj'[r] = o
      /\ \A x \in DOMAIN obj : obj'[x] = obj[x] /\ x # r
      /\ obj' \in [DOMAIN obj' -> Order]
      /\ incoming' = r /\ incoming = NoRef
      /\ book' = book /\ locations' = locations
      /\ result' = [NoResult EXCEPT !.incoming = r]
      /\ funds' \in Nat
  BY <1>1, <1>2, FundsAssumption DEF StartMatch, TypeOK
<1>4. /\ arrival'[r] = clock + 1 /\ DOMAIN arrival' = DOMAIN obj'
      /\ \A x \in DOMAIN obj : arrival'[x] = arrival[x]
      /\ arrival' \in [DOMAIN obj' -> Nat]
  BY <1>1, <1>3 DEF TypeOK
<1>5. TypeOK'
  <2>1. result' \in MatchResult
    <3>1. result' = [incoming |-> r, trades |-> <<>>, touched |-> <<>>,
                     cancelled |-> 0]
      BY <1>3 DEF NoResult
    <3> QED  BY <3>1 DEF MatchResult
  <2>2. clock' \in Nat /\ traded' \in [Ids -> Int]
    BY <1>1 DEF TypeOK
  <2> QED  BY <1>3, <1>4, <2>1, <2>2 DEF TypeOK
<1>6. BookConsistent'
  <2>1. \A x : Resting(x)' <=> Resting(x)
    BY <1>3 DEF Resting
  <2>2. ASSUME NEW s \in Sides, NEW p \in Prices, NEW i \in DOMAIN book[s][p]
        PROVE  book[s][p][i] \in DOMAIN obj
    BY DEF BookConsistent
  <2>3. \A id \in DOMAIN locations : locations[id] \in DOMAIN obj
    BY <2>2 DEF BookConsistent, Resting
  <2> QED  BY <1>3, <2>1, <2>2, <2>3 DEF BookConsistent
<1>7. Uncrossed'
  BY <1>3 DEF Uncrossed
<1>8. FilledMatchesTrades'
  BY <1>1, <1>2, <1>3, OneObjectPerId DEF FilledMatchesTrades, Auxiliary, Order, OrderType
<1>9. FundsCoverTrades'
  BY <1>3 DEF FundsCoverTrades
<1>10. Auxiliary'
  BY <1>1, <1>2, <1>3, <1>4 DEF Auxiliary, TypeOK, NoResult, BookConsistent
<1> QED  BY <1>5, <1>6, <1>7, <1>8, <1>9, <1>10

\* Where a trade leaves the book, removed or still resting maker alike: no
\* order enters a queue, and the maker stays only with a remainder.
LEMMA ExecuteBookFacts ==
  ASSUME IInv, incoming # NoRef, NEW p \in Prices, CanTrade(p), Execute(p)
  PROVE  LET m == Head(book[Opposite(obj[incoming].side)][p])
             q == MatchQty(obj[incoming], obj[m], p) IN
         /\ OnlyRemoves
         /\ \A x \in DOMAIN locations : x # m => x \in DOMAIN locations'
         /\ m \in DOMAIN locations' => Remaining(obj[m]) > q
<1> DEFINE m == Head(book[Opposite(obj[incoming].side)][p])
           q == MatchQty(obj[incoming], obj[m], p)
<1>1. /\ m \in DOMAIN obj /\ m \in DOMAIN locations /\ m = locations[m]
      /\ obj[m].side = Opposite(obj[incoming].side) /\ obj[m].price = p
      /\ obj[m].id = m /\ CanFill(obj[m], q) /\ q \in Nat \ {0}
  BY CanTradeFacts
<1>2. IF Remaining(Fill(obj[m], q)) = 0
        THEN RemoveFront(obj[m].id, Opposite(obj[incoming].side), p)
        ELSE UNCHANGED <<book, locations>>
  BY DEF Execute
<1> SUFFICES /\ OnlyRemoves
             /\ \A x \in DOMAIN locations : x # m => x \in DOMAIN locations'
             /\ m \in DOMAIN locations' => Remaining(obj[m]) > q
  OBVIOUS
<1> HIDE DEF m, q
<1>3. obj[m] \in Order
  BY <1>1 DEF IInv, TypeOK
<1>4. Remaining(Fill(obj[m], q)) = Remaining(obj[m]) - q
  <2>1. /\ Fill(obj[m], q).quantity = obj[m].quantity
        /\ Fill(obj[m], q).filled = obj[m].filled + q
    BY <1>1, <1>3, FillFacts
  <2>2. obj[m].quantity \in Nat /\ obj[m].filled \in Nat
    BY <1>3 DEF Order, OrderType
  <2> QED  BY <1>1, <2>1, <2>2 DEF Remaining
<1>5. CASE Remaining(obj[m]) - q = 0
  <2>1. RemoveFront(m, obj[locations[m]].side, obj[locations[m]].price)
    BY <1>1, <1>2, <1>4, <1>5
  <2>2. OnlyRemoves /\ DOMAIN locations' = DOMAIN locations \ {m}
    BY <1>1, <2>1, RemoveFrontFacts
  <2> QED  BY <2>2
<1>6. CASE Remaining(obj[m]) - q # 0
  <2>1. book' = book /\ locations' = locations
    BY <1>1, <1>2, <1>4, <1>6
  <2>2. Remaining(obj[m]) > q
    <3>1. Remaining(obj[m]) \in Int
      BY <1>3 DEF Remaining, Order, OrderType
    <3> QED  BY <1>1, <1>6, <3>1 DEF CanFill
  <2>3. \A s \in Sides, p1 \in Prices : \A j, k \in DOMAIN book[s][p1] :
          book[s][p1][j] = book[s][p1][k] => j = k
    BY DEF IInv, BookConsistent
  <2>4. \A s \in Sides, p1 \in Prices : \A k \in DOMAIN book[s][p1] :
          book[s][p1][k] \in DOMAIN locations
    BY QueuedIsLocated
  <2>5. OnlyRemoves
    BY <2>1, <2>3, <2>4 DEF OnlyRemoves, IInv, TypeOK, Auxiliary
  <2> QED  BY <2>1, <2>2, <2>5
<1> QED  BY <1>5, <1>6

\* What a trade does to the heap and to the result.
LEMMA ExecuteHeapFacts ==
  ASSUME IInv, incoming # NoRef, NEW p \in Prices, CanTrade(p), Execute(p)
  PROVE  LET m == Head(book[Opposite(obj[incoming].side)][p])
             q == MatchQty(obj[incoming], obj[m], p) IN
         /\ DOMAIN obj' = DOMAIN obj
         /\ obj' \in [DOMAIN obj' -> Order]
         /\ obj'[incoming] = Fill(obj[incoming], q)
         /\ obj'[m] = Fill(obj[m], q)
         /\ \A x \in DOMAIN obj : x # incoming /\ x # m => obj'[x] = obj[x]
         /\ \A x \in DOMAIN obj :
              /\ obj'[x].id = obj[x].id /\ obj'[x].user = obj[x].user
              /\ obj'[x].side = obj[x].side /\ obj'[x].type = obj[x].type
              /\ obj'[x].price = obj[x].price
              /\ obj'[x].quantity = obj[x].quantity
              /\ obj'[x].filled = IF x = incoming \/ x = m
                                    THEN obj[x].filled + q ELSE obj[x].filled
              /\ x = incoming \/ x = m =>
                   obj'[x].status = IF obj'[x].filled = obj'[x].quantity
                                      THEN "FILLED" ELSE "PARTIALLY_FILLED"
         /\ incoming' = incoming /\ result'.incoming = result.incoming
         /\ result'.cancelled = result.cancelled
         /\ result' \in MatchResult
         /\ LET tr == result'.trades[Len(result'.trades)]
            IN  /\ tr.buy = (IF obj[incoming].side = "BUY" THEN incoming ELSE m)
                /\ tr.sell = (IF obj[incoming].side = "BUY" THEN m ELSE incoming)
                /\ tr.qty = q /\ tr.price = p
         /\ DOMAIN result'.trades = 1..Len(result'.trades)
         /\ \A j \in DOMAIN result'.trades :
              j = Len(result'.trades) \/ ( /\ j \in DOMAIN result.trades
                                          /\ result'.trades[j] = result.trades[j])
         /\ funds' \in Nat
<1> DEFINE m == Head(book[Opposite(obj[incoming].side)][p])
           q == MatchQty(obj[incoming], obj[m], p)
<1> USE DEF IInv
<1>1. /\ incoming \in DOMAIN obj /\ m \in DOMAIN obj /\ m # incoming
      /\ q \in Nat \ {0}
      /\ CanFill(obj[incoming], q) /\ CanFill(obj[m], q)
      /\ IsBuyMarket(obj[incoming]) => funds - q * p >= 0
  BY CanTradeFacts
<1>2. obj' = [obj EXCEPT ![incoming] = Fill(obj[incoming], q),
                         ![m] = Fill(obj[m], q)]
  BY <1>1 DEF Execute, TypeOK
<1>3. obj \in [DOMAIN obj -> Order]
  BY DEF TypeOK
<1>4. obj[incoming] \in Order /\ obj[m] \in Order
  BY <1>1, <1>3
<1>5. /\ Fill(obj[incoming], q) \in Order /\ Fill(obj[m], q) \in Order
  BY <1>1, <1>4, FillFacts
<1>6. /\ DOMAIN obj' = DOMAIN obj
      /\ obj' \in [DOMAIN obj' -> Order]
      /\ obj'[incoming] = Fill(obj[incoming], q)
      /\ obj'[m] = Fill(obj[m], q)
      /\ \A x \in DOMAIN obj : x # incoming /\ x # m => obj'[x] = obj[x]
  BY <1>1, <1>2, <1>3, <1>5
<1>7. ASSUME NEW x \in DOMAIN obj
      PROVE   /\ obj'[x].id = obj[x].id /\ obj'[x].user = obj[x].user
              /\ obj'[x].side = obj[x].side /\ obj'[x].type = obj[x].type
              /\ obj'[x].price = obj[x].price
              /\ obj'[x].quantity = obj[x].quantity
              /\ obj'[x].filled = IF x = incoming \/ x = m
                                    THEN obj[x].filled + q ELSE obj[x].filled
              /\ x = incoming \/ x = m =>
                   obj'[x].status = IF obj'[x].filled = obj'[x].quantity
                                      THEN "FILLED" ELSE "PARTIALLY_FILLED"
  <2>1. CASE x = incoming \/ x = m
    <3> HIDE DEF IInv, q, m
    <3>1. obj'[x] = Fill(obj[x], q) /\ obj[x] \in Order /\ CanFill(obj[x], q) /\ q \in Int
      BY <1>1, <1>4, <1>6, <2>1
    <3> QED  BY <2>1, <3>1, FillFacts
  <2>2. CASE ~(x = incoming \/ x = m)
    BY <1>6, <2>2
  <2> QED  BY <2>1, <2>2
<1>8. incoming' = incoming /\ funds' \in Nat
  <2>1. /\ incoming' = incoming /\ funds \in Int /\ funds >= 0
        /\ funds' = IF IsBuyMarket(obj[incoming]) THEN funds - q * p ELSE funds
    <3>1. TypeOK /\ FundsCoverTrades
      OBVIOUS
    <3>2. incoming' = incoming /\ funds \in Int /\ funds >= 0
      BY <3>1 DEF Execute, TypeOK, FundsCoverTrades
    <3>3. funds' = IF IsBuyMarket(obj[incoming]) THEN funds - q * p ELSE funds
      BY Zenon DEF Execute
    <3> QED  BY <3>2, <3>3, Zenon
  <2>2. q * p \in Int
    BY <1>1, PricesAssumption
  <2> HIDE DEF IInv, q
  <2> QED  BY <1>1, <2>1, <2>2
<1> DEFINE tr == [buy   |-> IF obj[incoming].side = "BUY" THEN incoming ELSE m,
                  sell  |-> IF obj[incoming].side = "BUY" THEN m ELSE incoming,
                  price |-> p, qty |-> q]
<1>9. result' = [result EXCEPT !.trades = Append(@, tr), !.touched = Append(@, m)]
  BY DEF Execute
<1>10. tr \in Trade /\ m \in Refs
  BY <1>1 DEF Trade, TypeOK
<1>11. /\ result.trades \in Seq(Trade) /\ result.touched \in Seq(Refs)
       /\ result.incoming \in Refs \cup {NoRef} /\ result.cancelled \in Int
       /\ result = [incoming |-> result.incoming, trades |-> result.trades,
                    touched |-> result.touched, cancelled |-> result.cancelled]
  BY DEF TypeOK, MatchResult
<1> HIDE DEF tr
<1>12. result' = [incoming |-> result.incoming,
                  trades |-> Append(result.trades, tr),
                  touched |-> Append(result.touched, m),
                  cancelled |-> result.cancelled]
  BY <1>9, <1>11
<1>13. result' \in MatchResult
  BY <1>10, <1>11, <1>12 DEF MatchResult
<1>14. result'.trades[Len(result'.trades)] = tr
  BY <1>10, <1>11, <1>12
<1>15. /\ tr.buy = (IF obj[incoming].side = "BUY" THEN incoming ELSE m)
       /\ tr.sell = (IF obj[incoming].side = "BUY" THEN m ELSE incoming)
       /\ tr.qty = q /\ tr.price = p
  BY DEF tr
<1>16. result'.incoming = result.incoming /\ result'.cancelled = result.cancelled
  BY <1>12
<1>17. /\ DOMAIN result'.trades = 1..Len(result'.trades)
       /\ \A j \in DOMAIN result'.trades :
            j = Len(result'.trades) \/ ( /\ j \in DOMAIN result.trades
                                        /\ result'.trades[j] = result.trades[j])
  BY <1>10, <1>11, <1>12
<1> QED  BY <1>6, <1>7, <1>8, <1>13, <1>14, <1>15, <1>16, <1>17

\* A book that only lost orders still is consistent, uncrossed and in arrival
\* order, if the orders left in it were not terminated by the step.
LEMMA OnlyRemovesPreserves ==
  ASSUME IInv, OnlyRemoves, incoming' = incoming, arrival' = arrival,
         DOMAIN obj' = DOMAIN obj,
         \A x \in DOMAIN obj :
           /\ obj'[x].id = obj[x].id /\ obj'[x].side = obj[x].side
           /\ obj'[x].type = obj[x].type /\ obj'[x].price = obj[x].price,
         \A x \in DOMAIN locations' :
           Remaining(obj'[x]) > 0 /\ ~IsDone(obj'[x])
  PROVE  /\ BookConsistent' /\ Uncrossed'
         /\ \A s \in Sides, p \in Prices : \A i, j \in DOMAIN book'[s][p] :
              i < j => arrival'[book'[s][p][i]] < arrival'[book'[s][p][j]]
<1>1. ASSUME NEW s \in Sides, NEW p \in Prices, NEW i \in DOMAIN book'[s][p],
             NEW r, r = book'[s][p][i]
      PROVE  /\ r \in DOMAIN obj'
             /\ r # incoming'
             /\ obj'[r].side = s /\ obj'[r].price = p /\ obj'[r].type = "LIMIT"
             /\ Remaining(obj'[r]) > 0 /\ ~IsDone(obj'[r])
             /\ obj'[r].id \in DOMAIN locations' /\ locations'[obj'[r].id] = r
             /\ \A j \in DOMAIN book'[s][p] : book'[s][p][j] = r => i = j
  <2>1. r \in DOMAIN locations' /\ \E k \in DOMAIN book[s][p] : r = book[s][p][k]
    BY <1>1 DEF OnlyRemoves
  <2>2. PICK k \in DOMAIN book[s][p] : r = book[s][p][k]
    BY <2>1
  <2>3. /\ r \in DOMAIN obj /\ r # incoming
        /\ obj[r].side = s /\ obj[r].price = p /\ obj[r].type = "LIMIT"
        /\ obj[r].id = r /\ locations[r] = r
    BY <2>2 DEF IInv, BookConsistent, Auxiliary
  <2>4. \A j \in DOMAIN book'[s][p] : book'[s][p][j] = r => i = j
    BY <1>1 DEF OnlyRemoves
  <2>5. locations'[r] = r
    BY <2>1, <2>3 DEF OnlyRemoves
  <2> QED  BY <2>1, <2>3, <2>4, <2>5
<1>2. ASSUME NEW id \in DOMAIN locations'
      PROVE  /\ \E s \in Sides, p \in Prices :
                  \E i \in DOMAIN book'[s][p] : book'[s][p][i] = locations'[id]
             /\ obj'[locations'[id]].id = id
  <2>1. id \in DOMAIN locations /\ locations'[id] = locations[id]
    BY DEF OnlyRemoves
  <2>2. PICK s \in Sides, p \in Prices :
          \E i \in DOMAIN book[s][p] : book[s][p][i] = locations[id]
    BY <2>1 DEF IInv, BookConsistent, Resting
  <2>3. PICK i \in DOMAIN book[s][p] : book[s][p][i] = locations[id]
    BY <2>2
  <2>4. locations[id] \in DOMAIN obj /\ obj[locations[id]].id = id
        /\ locations[id] = id
    BY <2>1, <2>3 DEF IInv, BookConsistent, Auxiliary
  <2>5. \E j \in DOMAIN book'[s][p] : book'[s][p][j] = locations[id]
    <3>1. book[s][p][i] \in DOMAIN locations'
      BY <2>3, <2>4
    <3>2. \E j \in DOMAIN book'[s][p] : book'[s][p][j] = book[s][p][i]
      BY <3>1 DEF OnlyRemoves
    <3> QED  BY <2>3, <3>2
  <2> QED  BY <2>1, <2>4, <2>5
<1>3. BookConsistent'
  BY <1>1, <1>2 DEF BookConsistent, Resting
<1>4. Uncrossed'
  <2>1. \A s \in Sides, p \in Prices :
          book'[s][p] # <<>> => book[s][p] # <<>>
    BY DEF OnlyRemoves
  <2>2. "BUY" \in Sides /\ "SELL" \in Sides
    BY DEF Sides
  <2> QED  BY <2>1, <2>2 DEF IInv, Uncrossed
<1> QED  BY <1>3, <1>4 DEF OnlyRemoves

\* An iteration of Match preserves the invariant: it fills two live orders by
\* what both have left, and takes the maker out of the Book when it is full.
LEMMA TradePreserves == ASSUME IInv, TradeStep PROVE IInv'
<1>1. incoming # NoRef
  BY DEF TradeStep, MatchOne
<1>2. PICK p \in Prices : CanTrade(p) /\ Execute(p)
  BY DEF TradeStep, MatchOne
<1> DEFINE m == Head(book[Opposite(obj[incoming].side)][p])
           q == MatchQty(obj[incoming], obj[m], p)
           tr == result'.trades[Len(result'.trades)]
<1>3. /\ incoming \in DOMAIN obj /\ m \in DOMAIN obj /\ m # incoming
      /\ m \in DOMAIN locations /\ q \in Nat \ {0}
      /\ CanFill(obj[incoming], q) /\ CanFill(obj[m], q)
  BY <1>1, <1>2, CanTradeFacts
<1>4. /\ OnlyRemoves
      /\ m \in DOMAIN locations' => Remaining(obj[m]) > q
  BY <1>1, <1>2, ExecuteBookFacts
<1>5. /\ DOMAIN obj' = DOMAIN obj
      /\ obj' \in [DOMAIN obj' -> Order]
      /\ \A x \in DOMAIN obj : x # incoming /\ x # m => obj'[x] = obj[x]
      /\ \A x \in DOMAIN obj :
              /\ obj'[x].id = obj[x].id /\ obj'[x].user = obj[x].user
              /\ obj'[x].side = obj[x].side /\ obj'[x].type = obj[x].type
              /\ obj'[x].price = obj[x].price
              /\ obj'[x].quantity = obj[x].quantity
              /\ obj'[x].filled = IF x = incoming \/ x = m
                                    THEN obj[x].filled + q ELSE obj[x].filled
              /\ x = incoming \/ x = m =>
                   obj'[x].status = IF obj'[x].filled = obj'[x].quantity
                                      THEN "FILLED" ELSE "PARTIALLY_FILLED"
      /\ incoming' = incoming /\ result'.incoming = result.incoming
      /\ result'.cancelled = result.cancelled
      /\ result' \in MatchResult
      /\ funds' \in Nat
  BY <1>1, <1>2, ExecuteHeapFacts
<1>6. {tr.buy, tr.sell} = {incoming, m} /\ tr.qty = q
  <2>1. /\ tr.buy = (IF obj[incoming].side = "BUY" THEN incoming ELSE m)
        /\ tr.sell = (IF obj[incoming].side = "BUY" THEN m ELSE incoming)
        /\ tr.qty = q
    BY <1>1, <1>2, ExecuteHeapFacts
  <2> HIDE DEF m, q, tr
  <2> QED  BY <2>1
<1>7. /\ arrival' = arrival /\ clock' = clock
      /\ traded' = [x \in Ids |->
                      IF x = tr.buy \/ x = tr.sell THEN traded[x] + tr.qty
                                                   ELSE traded[x]]
  BY DEF TradeStep
<1> HIDE DEF m, q, tr
<1>8. traded' = [x \in Ids |-> IF x = incoming \/ x = m THEN traded[x] + q
                                                         ELSE traded[x]]
  BY <1>6, <1>7
<1>9. \A x \in DOMAIN obj : obj[x].quantity \in Nat /\ obj[x].filled \in Nat
  BY DEF IInv, TypeOK, Order, OrderType
<1>10. obj[incoming].filled + q <= obj[incoming].quantity
       /\ obj[m].filled + q <= obj[m].quantity
  BY <1>3, <1>9 DEF CanFill, Remaining
<1>11. TypeOK'
  <2>1. traded' \in [Ids -> Int]
    BY <1>3, <1>8 DEF IInv, TypeOK
  <2> QED  BY <1>4, <1>5, <1>7, <2>1 DEF IInv, TypeOK, OnlyRemoves
<1>12. \A x \in DOMAIN locations' :
         Remaining(obj'[x]) > 0 /\ ~IsDone(obj'[x])
  <2> SUFFICES ASSUME NEW x \in DOMAIN locations'
               PROVE  Remaining(obj'[x]) > 0 /\ ~IsDone(obj'[x])
    OBVIOUS
  <2>1. x \in DOMAIN locations
    BY <1>4 DEF OnlyRemoves
  <2>2. /\ locations[x] = x /\ x \in DOMAIN obj /\ x # incoming
        /\ Remaining(obj[x]) > 0 /\ ~IsDone(obj[x])
    BY <2>1 DEF IInv, BookConsistent, Auxiliary, Resting
  <2>3. CASE x = m
    <3>1. obj'[m].filled = obj[m].filled + q /\ obj'[m].quantity = obj[m].quantity
      BY <1>3, <1>5
    <3>2. obj[m].quantity - obj[m].filled > q
      BY <1>4, <2>3 DEF Remaining
    <3>3. /\ obj'[m].quantity - obj'[m].filled > 0
          /\ obj'[m].filled # obj'[m].quantity
      BY <1>3, <1>9, <3>1, <3>2
    <3>4. obj'[m].status = "PARTIALLY_FILLED"
      BY <1>3, <1>5, <3>3
    <3> QED  BY <2>3, <3>3, <3>4 DEF Remaining, IsDone
  <2>4. CASE x # m
    BY <1>5, <2>2, <2>4
  <2> QED  BY <2>3, <2>4
<1>13. /\ BookConsistent' /\ Uncrossed'
       /\ \A s \in Sides, p1 \in Prices : \A i, j \in DOMAIN book'[s][p1] :
            i < j => arrival'[book'[s][p1][i]] < arrival'[book'[s][p1][j]]
  BY <1>4, <1>5, <1>7, <1>12, OnlyRemovesPreserves
<1>14. FilledMatchesTrades'
  <2> SUFFICES ASSUME NEW x \in DOMAIN obj'
               PROVE  /\ obj'[x].filled = traded'[x]
                      /\ obj'[x].filled <= obj'[x].quantity
                      /\ obj'[x].status = "FILLED"
                           <=> obj'[x].filled = obj'[x].quantity
                      /\ obj'[x].status = "OPEN" => obj'[x].filled = 0
    BY DEF FilledMatchesTrades
  <2>1. /\ obj[x].filled = traded[x] /\ obj[x].filled <= obj[x].quantity
        /\ obj[x].status = "FILLED" <=> obj[x].filled = obj[x].quantity
        /\ obj[x].status = "OPEN" => obj[x].filled = 0
        /\ x \in Ids /\ x \in DOMAIN obj
    BY <1>5, OneObjectPerId DEF IInv, FilledMatchesTrades, TypeOK
  <2>2. CASE x = incoming \/ x = m
    BY <1>5, <1>8, <1>10, <2>1, <2>2
  <2>3. CASE ~(x = incoming \/ x = m)
    BY <1>5, <1>8, <2>1, <2>3
  <2> QED  BY <2>2, <2>3
<1>15. FundsCoverTrades'
  BY <1>5 DEF FundsCoverTrades
<1>16. Auxiliary'
  <2>1. obj'[incoming].status # "CANCELLED"
    BY <1>3, <1>5
  <2>2. \A x \in Ids \ DOMAIN obj' : traded'[x] = 0
    BY <1>3, <1>5, <1>8 DEF IInv, Auxiliary
  <2>3. \A r \in DOMAIN obj' :
          /\ obj'[r].id = r
          /\ obj'[r].type = "LIMIT" => obj'[r].price \in Prices
          /\ arrival'[r] <= clock'
    BY <1>5, <1>7 DEF IInv, Auxiliary
  <2>4. /\ result'.incoming = incoming' /\ result'.cancelled = 0
        /\ \A r \in DOMAIN obj' :
             r # incoming' => arrival'[r] < arrival'[incoming']
    BY <1>1, <1>5, <1>7 DEF IInv, Auxiliary
  <2> QED  BY <1>5, <1>13, <2>1, <2>2, <2>3, <2>4 DEF Auxiliary
<1> QED  BY <1>11, <1>13, <1>14, <1>15, <1>16 DEF IInv

\* A side with orders has a best level: the top of its heap.
LEMMA BestExists ==
  ASSUME NEW side \in Sides, NEW p0 \in Prices, book[side][p0] # <<>>
  PROVE  \E p \in Prices : IsBest(side, p) /\ (p = p0 \/ Better(side, p, p0))
<1> DEFINE S == {p \in Prices : book[side][p] # <<>>}
<1>1. S \in SUBSET Prices /\ S # {} /\ p0 \in S /\ S \subseteq Nat
  BY PricesAssumption
<1>2. CASE side = "BUY"
  <2>1. PICK b \in S : \A x \in S : x <= b
    BY <1>1, ExtremaAssumption
  <2>2. IsBest(side, b)
    BY <1>1, <1>2, <2>1 DEF IsBest, Better
  <2> QED  BY <1>1, <1>2, <2>1, <2>2 DEF Better
<1>3. CASE side = "SELL"
  <2>1. PICK b \in S : \A x \in S : b <= x
    BY <1>1, ExtremaAssumption
  <2>2. IsBest(side, b)
    BY <1>1, <1>3, <2>1 DEF IsBest, Better
  <2> QED  BY <1>1, <1>3, <2>1, <2>2 DEF Better
<1> QED  BY <1>2, <1>3 DEF Sides

\* When Match leaves the loop with a LIMIT remainder, no opposite level
\* crosses its price: matching stopped because of the price and not because
\* of a queue whose front has nothing left.
LEMMA NothingLeftToCross ==
  ASSUME IInv, incoming # NoRef, \A p \in Prices : ~CanTrade(p),
         Remaining(obj[incoming]) > 0, obj[incoming].type = "LIMIT",
         NEW a \in Prices,
         book[Opposite(obj[incoming].side)][a] # <<>>
  PROVE  ~PriceCompatible(obj[incoming], a)
<1> DEFINE o    == obj[incoming]
           side == Opposite(o.side)
<1>1. incoming \in DOMAIN obj /\ o \in Order
  BY DEF IInv, TypeOK
<1>2. side \in Sides /\ o.side \in Sides
  BY <1>1 DEF Opposite, Order, OrderType, Sides
<1>3. PICK p \in Prices : IsBest(side, p) /\ (p = a \/ Better(side, p, a))
  BY <1>2, BestExists
<1>4. o.price \in Nat /\ a \in Nat /\ p \in Nat
  BY <1>1, PricesAssumption DEF IInv, Auxiliary
<1> SUFFICES ASSUME PriceCompatible(o, a) PROVE FALSE
  OBVIOUS
<1>5. PriceCompatible(o, p)
  BY <1>2, <1>3, <1>4 DEF PriceCompatible, Better, Opposite, Sides
<1> DEFINE m == Head(book[side][p])
<1>6. m \in DOMAIN obj /\ Remaining(obj[m]) > 0
  <2>1. book[side][p] \in Seq(Refs) /\ book[side][p] # <<>>
    BY <1>2, <1>3 DEF IInv, TypeOK, IsBest
  <2>2. 1 \in DOMAIN book[side][p] /\ m = book[side][p][1]
    BY <2>1
  <2> QED  BY <1>2, <2>2 DEF IInv, BookConsistent
<1> HIDE DEF m
<1>7. Remaining(o) \in Int /\ Remaining(obj[m]) \in Int
  <2>1. obj[m] \in Order
    BY <1>6 DEF IInv, TypeOK
  <2> QED  BY <1>1, <2>1 DEF Remaining, Order, OrderType
<1>8. MatchQty(o, obj[m], p) # 0
  BY <1>6, <1>7 DEF MatchQty, min64, IsBuyMarket
<1>9. CanTrade(p)
  BY <1>3, <1>5, <1>8 DEF CanTrade, m
<1> QED  BY <1>9

\* The remainder of a LIMIT order joins the back of its queue.
LEMMA RestPreserves ==
  ASSUME IInv, incoming # NoRef, \A p \in Prices : ~CanTrade(p),
         Remaining(obj[incoming]) > 0, obj[incoming].type = "LIMIT",
         AddResting(incoming, obj[incoming]),
         incoming' = NoRef,
         UNCHANGED <<obj, result, funds, traded, arrival, clock>>
  PROVE  IInv'
<1> DEFINE n  == incoming
           s0 == obj[n].side
           p0 == obj[n].price
           q  == book[s0][p0]
           t  == Append(q, n)
<1>1. /\ n \in DOMAIN obj /\ obj[n] \in Order /\ n \in Refs /\ n \in Ids
      /\ obj[n].id = n /\ s0 \in Sides /\ p0 \in Prices
  BY OneObjectPerId DEF IInv, TypeOK, Auxiliary, Order, OrderType
<1>2. q \in Seq(Refs)
  BY <1>1 DEF IInv, TypeOK
<1>3. /\ t \in Seq(Refs) /\ DOMAIN t = 1..(Len(q) + 1) /\ t[Len(q) + 1] = n
      /\ DOMAIN q = 1..Len(q) /\ Len(q) \in Nat
      /\ \A j \in DOMAIN q : t[j] = q[j]
  <2> HIDE DEF q
  <2>1. DOMAIN q = 1..Len(q) /\ Len(q) \in Nat
    BY <1>2, LenProperties
  <2>2. /\ t \in Seq(Refs) /\ Len(t) = Len(q) + 1 /\ t[Len(q) + 1] = n
        /\ \A j \in 1..Len(q) : t[j] = q[j]
    BY <1>1, <1>2, AppendProperties
  <2>3. DOMAIN t = 1..(Len(q) + 1)
    BY <2>2, LenProperties
  <2> QED  BY <2>1, <2>2, <2>3
<1>4. book' = [book EXCEPT ![s0][p0] = t]
  BY DEF AddResting
<1>5. /\ book' \in [Sides -> [Prices -> Seq(Refs)]]
      /\ book'[s0][p0] = t
      /\ \A s \in Sides, p \in Prices :
           ~(s = s0 /\ p = p0) => book'[s][p] = book[s][p]
  BY <1>1, <1>3, <1>4 DEF IInv, TypeOK
<1>6. /\ DOMAIN locations' = DOMAIN locations \cup {n}
      /\ locations'[n] = n
      /\ \A x \in DOMAIN locations : x # n => locations'[x] = locations[x]
      /\ locations' \in [DOMAIN locations' -> Refs]
  BY <1>1 DEF AddResting, IInv, TypeOK
<1> HIDE DEF t
<1>7. \A s \in Sides, p \in Prices : \A j \in DOMAIN book[s][p] :
        book[s][p][j] # n /\ book[s][p][j] \in DOMAIN obj
  BY DEF IInv, BookConsistent
<1>8. n \notin DOMAIN locations
  BY DEF IInv, BookConsistent, Resting, Auxiliary
<1>9. obj[n].status # "CANCELLED" /\ obj[n].status # "FILLED"
  BY <1>1 DEF IInv, Auxiliary, FilledMatchesTrades, Remaining, Order, OrderType
<1>10. TypeOK'
  BY <1>1, <1>5, <1>6 DEF IInv, TypeOK
<1>11. \A s \in Sides, p \in Prices : \A i \in DOMAIN book'[s][p] :
         \/ i \in DOMAIN book[s][p] /\ book'[s][p][i] = book[s][p][i]
         \/ s = s0 /\ p = p0 /\ i = Len(q) + 1 /\ book'[s][p][i] = n
  <2> TAKE s \in Sides, p \in Prices
  <2> TAKE i \in DOMAIN book'[s][p]
  <2>1. CASE s = s0 /\ p = p0
    <3>1. i \in DOMAIN t /\ book'[s][p][i] = t[i] /\ book[s][p] = q
      BY <1>5, <2>1
    <3> HIDE DEF q
    <3>2. i \in DOMAIN q \/ i = Len(q) + 1
      BY <1>3, <3>1
    <3> QED  BY <1>3, <2>1, <3>1, <3>2
  <2>2. CASE ~(s = s0 /\ p = p0)
    BY <1>5, <2>2
  <2> QED  BY <2>1, <2>2
<1>12. ASSUME NEW s \in Sides, NEW p \in Prices, NEW i \in DOMAIN book'[s][p],
              NEW r, r = book'[s][p][i]
       PROVE  /\ r \in DOMAIN obj'
              /\ r # incoming'
              /\ obj'[r].side = s /\ obj'[r].price = p /\ obj'[r].type = "LIMIT"
              /\ Remaining(obj'[r]) > 0 /\ ~IsDone(obj'[r])
              /\ obj'[r].id \in DOMAIN locations' /\ locations'[obj'[r].id] = r
              /\ \A j \in DOMAIN book'[s][p] : book'[s][p][j] = r => i = j
  <2>0. r \in Refs /\ r # NoRef
    BY <1>5, <1>12, RefsAssumption
  <2>1. CASE i \in DOMAIN book[s][p] /\ book'[s][p][i] = book[s][p][i]
    <3>1. /\ r \in DOMAIN obj /\ obj[r].side = s /\ obj[r].price = p
          /\ obj[r].type = "LIMIT"
          /\ Remaining(obj[r]) > 0 /\ ~IsDone(obj[r])
          /\ obj[r].id \in DOMAIN locations /\ locations[obj[r].id] = r
          /\ \A j \in DOMAIN book[s][p] : book[s][p][j] = r => i = j
      BY <1>12, <2>1 DEF IInv, BookConsistent
    <3>2. r # n /\ obj[r].id = r
      BY <1>7, <1>12, <2>1, <3>1 DEF IInv, Auxiliary
    <3>3. \A j \in DOMAIN book'[s][p] : book'[s][p][j] = r => i = j
      BY <1>11, <3>1, <3>2
    <3> QED  BY <1>6, <2>0, <3>1, <3>2, <3>3
  <2>2. CASE s = s0 /\ p = p0 /\ i = Len(q) + 1 /\ book'[s][p][i] = n
    <3>1. r = n
      BY <1>12, <2>2
    <3>2. \A j \in DOMAIN book'[s][p] : book'[s][p][j] = r => i = j
      <4> SUFFICES ASSUME NEW j \in DOMAIN book'[s][p], book'[s][p][j] = r
                   PROVE  i = j
        OBVIOUS
      <4> HIDE DEF q
      <4>1. CASE j \in DOMAIN book[s][p] /\ book'[s][p][j] = book[s][p][j]
        BY <1>7, <3>1, <4>1, Zenon
      <4>2. CASE j = Len(q) + 1
        BY <2>2, <4>2, Zenon
      <4> QED  BY <1>11, <4>1, <4>2, Zenon
    <3> QED  BY <1>1, <1>6, <1>9, <2>0, <2>2, <3>1, <3>2 DEF IsDone
  <2> QED  BY <1>11, <2>1, <2>2
<1>13. ASSUME NEW id \in DOMAIN locations'
       PROVE  /\ \E s \in Sides, p \in Prices :
                   \E i \in DOMAIN book'[s][p] : book'[s][p][i] = locations'[id]
              /\ obj'[locations'[id]].id = id
  <2>1. CASE id = n
    <3>1. Len(q) + 1 \in DOMAIN book'[s0][p0] /\ book'[s0][p0][Len(q) + 1] = n
      <4> HIDE DEF q
      <4>1. Len(q) + 1 \in DOMAIN t /\ t[Len(q) + 1] = n
        BY <1>3
      <4> QED  BY <1>5, <4>1, Zenon
    <3> QED  BY <1>1, <1>6, <2>1, <3>1
  <2>2. CASE id # n
    <3>1. id \in DOMAIN locations /\ locations'[id] = locations[id]
      BY <1>6, <2>2
    <3>2. PICK s \in Sides, p \in Prices :
            \E i \in DOMAIN book[s][p] : book[s][p][i] = locations[id]
      BY <3>1 DEF IInv, BookConsistent, Resting
    <3>3. PICK i \in DOMAIN book[s][p] : book[s][p][i] = locations[id]
      BY <3>2
    <3>4. i \in DOMAIN book'[s][p] /\ book'[s][p][i] = book[s][p][i]
      <4>1. CASE s = s0 /\ p = p0
        <5>1. i \in DOMAIN q /\ book'[s][p] = t /\ book[s][p] = q
          BY <1>5, <3>3, <4>1
        <5> HIDE DEF q
        <5> QED  BY <1>3, <5>1
      <4>2. CASE ~(s = s0 /\ p = p0)
        BY <1>5, <3>3, <4>2
      <4> QED  BY <4>1, <4>2
    <3>5. obj[locations[id]].id = id
      BY <3>1 DEF IInv, BookConsistent
    <3> QED  BY <3>1, <3>3, <3>4, <3>5
  <2> QED  BY <2>1, <2>2
<1>14. BookConsistent'
  BY <1>12, <1>13 DEF BookConsistent, Resting
<1>15. Uncrossed'
  <2> SUFFICES ASSUME NEW b \in Prices, NEW a \in Prices,
                      book'["BUY"][b] # <<>>, book'["SELL"][a] # <<>>
               PROVE  b < a
    BY DEF Uncrossed
  <2>1. /\ "BUY" \in Sides /\ "SELL" \in Sides
        /\ b \in Nat /\ a \in Nat /\ p0 \in Nat
    BY <1>1, PricesAssumption DEF Sides
  <2>2. CASE s0 = "BUY"
    <3>1. book["SELL"][a] # <<>> /\ Opposite(obj[incoming].side) = "SELL"
      BY <1>5, <2>1, <2>2 DEF Opposite
    <3>2. ~PriceCompatible(obj[incoming], a)
      BY <3>1, NothingLeftToCross
    <3>3. p0 < a
      BY <2>1, <2>2, <3>2 DEF PriceCompatible
    <3>4. CASE b = p0
      BY <3>3, <3>4
    <3>5. CASE b # p0
      BY <1>5, <2>1, <3>1, <3>5 DEF IInv, Uncrossed
    <3> QED  BY <3>4, <3>5
  <2>3. CASE s0 = "SELL"
    <3>1. book["BUY"][b] # <<>> /\ Opposite(obj[incoming].side) = "BUY"
      BY <1>5, <2>1, <2>3 DEF Opposite
    <3>2. ~PriceCompatible(obj[incoming], b)
      BY <3>1, NothingLeftToCross
    <3>3. b < p0
      BY <2>1, <2>3, <3>2 DEF PriceCompatible
    <3>4. CASE a = p0
      BY <3>3, <3>4
    <3>5. CASE a # p0
      BY <1>5, <2>1, <3>1, <3>5 DEF IInv, Uncrossed
    <3> QED  BY <3>4, <3>5
  <2> QED  BY <1>1, <2>2, <2>3 DEF Sides
<1>16. FilledMatchesTrades' /\ FundsCoverTrades'
  BY DEF IInv, FilledMatchesTrades, FundsCoverTrades
<1>17. Auxiliary'
  <2>1. ASSUME NEW s \in Sides, NEW p \in Prices,
               NEW i \in DOMAIN book'[s][p], NEW j \in DOMAIN book'[s][p], i < j
        PROVE  arrival[book'[s][p][i]] < arrival[book'[s][p][j]]
    <3>1. i \in DOMAIN book[s][p] /\ book'[s][p][i] = book[s][p][i]
      <4>1. CASE s = s0 /\ p = p0 /\ i = Len(q) + 1
        <5>1. j \in DOMAIN t
          BY <1>5, <4>1
        <5> HIDE DEF q
        <5> QED  BY <1>3, <2>1, <4>1, <5>1
      <4> QED  BY <1>11, <4>1
    <3>2. CASE j \in DOMAIN book[s][p] /\ book'[s][p][j] = book[s][p][j]
      BY <2>1, <3>1, <3>2 DEF IInv, Auxiliary
    <3>3. CASE book'[s][p][j] = n
      BY <1>7, <3>1, <3>3 DEF IInv, Auxiliary
    <3> QED  BY <1>11, <3>2, <3>3
  <2> QED  BY <2>1 DEF IInv, Auxiliary
<1> QED  BY <1>10, <1>14, <1>15, <1>16, <1>17 DEF IInv

\* The tail of Match preserves the invariant: a LIMIT remainder goes to the
\* back of a level that no opposite order crosses.
LEMMA ReturnPreserves == ASSUME IInv, ReturnFromMatch PROVE IInv'
<1>1. /\ incoming # NoRef /\ \A p \in Prices : ~CanTrade(p)
      /\ incoming' = NoRef
      /\ UNCHANGED <<funds, traded, arrival, clock>>
  BY DEF ReturnFromMatch, EndMatch
<1>2. incoming \in DOMAIN obj /\ obj[incoming] \in Order
  BY <1>1 DEF IInv, TypeOK
<1>3. \A s \in Sides, p \in Prices : \A i \in DOMAIN book[s][p] :
        book[s][p][i] # NoRef
  BY RefsAssumption DEF IInv, TypeOK, BookConsistent
<1>4. CASE UNCHANGED <<obj, book, locations, result>>
  <2>1. TypeOK' /\ Uncrossed' /\ FilledMatchesTrades'
    BY <1>1, <1>4 DEF IInv, TypeOK, Uncrossed, FilledMatchesTrades
  <2>2. BookConsistent'
    BY <1>1, <1>3, <1>4 DEF IInv, BookConsistent, Resting
  <2>3. FundsCoverTrades' /\ Auxiliary'
    BY <1>1, <1>4 DEF IInv, FundsCoverTrades, Auxiliary
  <2> QED  BY <2>1, <2>2, <2>3 DEF IInv
<1>5. CASE /\ Remaining(obj[incoming]) > 0 /\ obj[incoming].type = "LIMIT"
           /\ AddResting(incoming, obj[incoming]) /\ UNCHANGED <<obj, result>>
  BY <1>1, <1>5, RestPreserves
<1>6. CASE /\ Remaining(obj[incoming]) > 0 /\ obj[incoming].type = "MARKET"
           /\ obj' = [obj EXCEPT ![incoming] = CancelOrder(@)]
           /\ result' = [result EXCEPT !.cancelled = Remaining(obj[incoming])]
           /\ UNCHANGED <<book, locations>>
  <2>1. /\ DOMAIN obj' = DOMAIN obj /\ obj'[incoming] = CancelOrder(obj[incoming])
        /\ \A x \in DOMAIN obj : x # incoming => obj'[x] = obj[x]
    BY <1>2, <1>6 DEF IInv, TypeOK
  <2>2. /\ CancelOrder(obj[incoming]) \in Order
        /\ obj'[incoming].id = obj[incoming].id
        /\ obj'[incoming].type = obj[incoming].type
        /\ obj'[incoming].price = obj[incoming].price
        /\ obj'[incoming].quantity = obj[incoming].quantity
        /\ obj'[incoming].filled = obj[incoming].filled
        /\ obj'[incoming].status = IF IsDone(obj[incoming])
                                     THEN obj[incoming].status ELSE "CANCELLED"
    BY <1>2, <2>1, CancelOrderFacts
  <2>3. \A s \in Sides, p \in Prices : \A i \in DOMAIN book[s][p] :
          /\ book[s][p][i] # incoming /\ book[s][p][i] \in DOMAIN obj
          /\ obj'[book[s][p][i]] = obj[book[s][p][i]]
    BY <2>1 DEF IInv, BookConsistent
  <2>4. result' \in MatchResult
    <3>1. Remaining(obj[incoming]) \in Int
      BY <1>2 DEF Remaining, Order, OrderType
    <3> QED  BY <1>6, <3>1 DEF IInv, TypeOK, MatchResult
  <2>5. TypeOK'
    <3>1. obj' \in [DOMAIN obj' -> Order]
      BY <1>6, <2>1, <2>2 DEF IInv, TypeOK
    <3> QED  BY <1>1, <1>6, <2>1, <2>4, <3>1 DEF IInv, TypeOK
  <2>6. Uncrossed'
    BY <1>6 DEF IInv, Uncrossed
  <2>7. BookConsistent'
    <3>1. \A id \in DOMAIN locations :
            /\ locations[id] \in DOMAIN obj /\ obj'[locations[id]] = obj[locations[id]]
      BY <2>3 DEF IInv, BookConsistent, Resting
    <3> QED  BY <1>1, <1>3, <1>6, <2>1, <2>3, <3>1
             DEF IInv, BookConsistent, Resting
  <2>8. FilledMatchesTrades'
    <3>1. /\ obj[incoming].filled # obj[incoming].quantity
          /\ obj[incoming].status # "FILLED"
      BY <1>2, <1>6 DEF IInv, FilledMatchesTrades, Remaining, Order, OrderType
    <3>2. obj'[incoming].status = "CANCELLED"
      BY <1>1, <2>2, <3>1 DEF IsDone, IInv, Auxiliary
    <3> QED  BY <1>1, <1>2, <2>1, <2>2, <3>1, <3>2 DEF IInv, FilledMatchesTrades
  <2>9. FundsCoverTrades'
    BY <1>1 DEF FundsCoverTrades
  <2>10. Auxiliary'
    BY <1>1, <1>6, <2>1, <2>2 DEF IInv, Auxiliary
  <2> QED  BY <2>5, <2>6, <2>7, <2>8, <2>9, <2>10 DEF IInv
<1> QED  BY <1>4, <1>5, <1>6 DEF ReturnFromMatch, EndMatch

\* Book.Cancel preserves the invariant: one element and its location go.
LEMMA CancelPreserves == ASSUME IInv, Cancel PROVE IInv'
<1>1. PICK id \in Ids : CancelResting(id)
  BY DEF Cancel
<1>2. /\ incoming = NoRef /\ incoming' = NoRef
      /\ UNCHANGED <<funds, result, traded, arrival, clock>>
      /\ id \in DOMAIN locations
      /\ RemoveFront(id, obj[locations[id]].side, obj[locations[id]].price)
      /\ obj' = [obj EXCEPT ![locations[id]] = CancelOrder(@)]
  BY <1>1 DEF Cancel, CancelResting
<1>3. /\ locations[id] = id /\ DOMAIN locations' = DOMAIN locations \ {id}
      /\ OnlyRemoves
  BY <1>2, RemoveFrontFacts
<1>4. /\ id \in DOMAIN obj /\ Remaining(obj[id]) > 0 /\ ~IsDone(obj[id])
  BY <1>2, <1>3 DEF IInv, BookConsistent, Resting
<1>5. obj[id] \in Order
  BY <1>4 DEF IInv, TypeOK
<1>6. /\ DOMAIN obj' = DOMAIN obj /\ obj'[id] = CancelOrder(obj[id])
      /\ \A x \in DOMAIN obj : x # id => obj'[x] = obj[x]
  BY <1>2, <1>3, <1>4 DEF IInv, TypeOK
<1>7. /\ CancelOrder(obj[id]) \in Order
      /\ obj'[id].id = obj[id].id /\ obj'[id].side = obj[id].side
      /\ obj'[id].type = obj[id].type /\ obj'[id].price = obj[id].price
      /\ obj'[id].quantity = obj[id].quantity
      /\ obj'[id].filled = obj[id].filled /\ obj'[id].status = "CANCELLED"
  BY <1>4, <1>5, <1>6, CancelOrderFacts
<1>8. TypeOK'
  <2>1. obj' \in [DOMAIN obj' -> Order]
    BY <1>2, <1>3, <1>6, <1>7 DEF IInv, TypeOK
  <2> QED  BY <1>2, <1>3, <1>6, <2>1 DEF IInv, TypeOK, OnlyRemoves
<1>9. \A x \in DOMAIN locations' : Remaining(obj'[x]) > 0 /\ ~IsDone(obj'[x])
  <2> SUFFICES ASSUME NEW x \in DOMAIN locations'
               PROVE  Remaining(obj'[x]) > 0 /\ ~IsDone(obj'[x])
    OBVIOUS
  <2>1. x \in DOMAIN locations /\ x # id
    BY <1>3
  <2>2. locations[x] = x /\ x \in DOMAIN obj
        /\ Remaining(obj[x]) > 0 /\ ~IsDone(obj[x])
    BY <2>1 DEF IInv, BookConsistent, Resting, Auxiliary
  <2> QED  BY <1>6, <2>1, <2>2
<1>10. /\ BookConsistent' /\ Uncrossed'
       /\ \A s \in Sides, p \in Prices : \A i, j \in DOMAIN book'[s][p] :
            i < j => arrival'[book'[s][p][i]] < arrival'[book'[s][p][j]]
  <2>1. \A x \in DOMAIN obj :
          /\ obj'[x].id = obj[x].id /\ obj'[x].side = obj[x].side
          /\ obj'[x].type = obj[x].type /\ obj'[x].price = obj[x].price
    BY <1>6, <1>7
  <2> QED  BY <1>2, <1>3, <1>6, <1>9, <2>1, OnlyRemovesPreserves
<1>11. FilledMatchesTrades'
  <2>1. obj[id].filled # obj[id].quantity
    BY <1>4, <1>5 DEF Remaining, Order, OrderType
  <2> QED  BY <1>2, <1>4, <1>6, <1>7, <2>1 DEF IInv, FilledMatchesTrades
<1>12. FundsCoverTrades'
  BY <1>2 DEF FundsCoverTrades
<1>13. Auxiliary'
  BY <1>2, <1>6, <1>7, <1>10 DEF IInv, Auxiliary
<1> QED  BY <1>8, <1>10, <1>11, <1>12, <1>13 DEF IInv

----------------------------------------------------------------------------
(* The theorems *)

\* The inductive invariant holds in every reachable state of the engine.
THEOREM Invariance == Spec => []IInv
<1>1. Init => IInv
  BY InitEstablishes
<1>2. IInv /\ [Next]_vars => IInv'
  <2> SUFFICES ASSUME IInv, [Next]_vars PROVE IInv'
    OBVIOUS
  <2>1. CASE Submit
    BY <2>1, SubmitPreserves
  <2>2. CASE TradeStep
    BY <2>2, TradePreserves
  <2>3. CASE ReturnFromMatch
    BY <2>3, ReturnPreserves
  <2>4. CASE Cancel
    BY <2>4, CancelPreserves
  <2>5. CASE UNCHANGED vars
    BY <2>5 DEF vars, IInv, TypeOK, BookConsistent, Uncrossed, Resting,
                FilledMatchesTrades, FundsCoverTrades, Auxiliary
  <2> QED  BY <2>1, <2>2, <2>3, <2>4, <2>5 DEF Next
<1> QED  BY <1>1, <1>2, PTL DEF Spec

\* Type correctness of the engine.
THEOREM EngineTypes == Spec => []TypeOK
BY Invariance, PTL DEF IInv

\* The lists, the level index and the locations map of Book always agree.
THEOREM BookStaysConsistent == Spec => []BookConsistent
BY Invariance, PTL DEF IInv

\* Matching never leaves a crossed book, however many orders and prices.
THEOREM BookStaysUncrossed == Spec => []Uncrossed
BY Invariance, PTL DEF IInv

\* An order's filled quantity is what its trades add up to, and never more
\* than it asked for.
THEOREM NoOverfill == Spec => []FilledMatchesTrades
BY Invariance, PTL DEF IInv

\* A BUY MARKET order is never matched past funds that were not negative.
THEOREM NoOverspend == Spec => []FundsCoverTrades
BY Invariance, PTL DEF IInv

\* The maker of a trade precedes every other order resting on its side.
LEMMA MakerHasPriority ==
  ASSUME IInv, incoming # NoRef, NEW p \in Prices, CanTrade(p),
         NEW x \in DOMAIN obj, Resting(x),
         x # Head(book[Opposite(obj[incoming].side)][p]),
         obj[x].side = Opposite(obj[incoming].side)
  PROVE  HasPriority(Head(book[Opposite(obj[incoming].side)][p]), x)
<1> DEFINE side == Opposite(obj[incoming].side)
           m == Head(book[side][p])
<1>1. /\ side \in Sides /\ m \in DOMAIN obj /\ m = book[side][p][1]
      /\ 1 \in DOMAIN book[side][p]
      /\ obj[m].side = side /\ obj[m].price = p
  BY CanTradeFacts
<1>2. PICK s \in Sides, p1 \in Prices :
        \E j \in DOMAIN book[s][p1] : book[s][p1][j] = x
  BY DEF Resting
<1>3. PICK j \in DOMAIN book[s][p1] : book[s][p1][j] = x
  BY <1>2
<1>4. s = side /\ obj[x].price = p1 /\ p \in Nat /\ p1 \in Nat
  BY <1>3, PricesAssumption DEF IInv, BookConsistent
<1>5. IsBest(side, p)
  BY DEF CanTrade
<1> SUFFICES HasPriority(m, x)
  OBVIOUS
<1>6. CASE p1 = p
  <2>1. book[side][p] \in Seq(Refs) /\ j \in DOMAIN book[side][p]
        /\ book[side][p][j] = x
    BY <1>1, <1>3, <1>4, <1>6 DEF IInv, TypeOK
  <2>2. j # 1
    BY <1>1, <2>1
  <2>3. 1 < j
    BY <2>1, <2>2, LenProperties
  <2>4. arrival[m] < arrival[x]
    BY <1>1, <2>1, <2>3 DEF IInv, Auxiliary
  <2> QED  BY <1>1, <1>4, <1>6, <2>4 DEF HasPriority
<1>7. CASE p1 # p
  <2>1. book[side][p1] # <<>>
    BY <1>3, <1>4
  <2>2. ~Better(side, p1, p)
    BY <1>5, <2>1 DEF IsBest
  <2>3. Better(side, p, p1)
    BY <1>4, <1>7, <2>2 DEF Better
  <2> QED  BY <1>1, <1>4, <2>3 DEF HasPriority
<1> QED  BY <1>6, <1>7

\* Price-time priority: no resting order is overtaken by one with a worse
\* price, or by a later one at its own price.
THEOREM PriorityRespected == Spec => PriceTimePriority
<1>1. ASSUME IInv, [Next]_vars, NEW r \in DOMAIN obj, Resting(r),
             obj'[r].filled # obj[r].filled,
             NEW x \in DOMAIN obj, x # r, Resting(x), obj[x].side = obj[r].side
      PROVE  HasPriority(r, x)
  <2>1. CASE TradeStep
    <3>1. incoming # NoRef
      BY <2>1 DEF TradeStep, MatchOne
    <3>2. PICK p \in Prices : CanTrade(p) /\ Execute(p)
      BY <2>1 DEF TradeStep, MatchOne
    <3> DEFINE m == Head(book[Opposite(obj[incoming].side)][p])
    <3>3. r # incoming
      BY <1>1 DEF IInv, BookConsistent, Resting
    <3>4. \A y \in DOMAIN obj : y # incoming /\ y # m => obj'[y] = obj[y]
      BY <1>1, <3>1, <3>2, ExecuteHeapFacts
    <3>5. r = m
      BY <1>1, <3>3, <3>4
    <3>6. obj[m].side = Opposite(obj[incoming].side)
      BY <1>1, <3>1, <3>2, CanTradeFacts
    <3> QED  BY <1>1, <3>1, <3>2, <3>5, <3>6, MakerHasPriority
  <2>2. CASE Submit
    <3>1. obj'[r] = obj[r]
      BY <2>2 DEF Submit, StartMatch
    <3> QED  BY <1>1, <3>1
  <2>3. CASE ReturnFromMatch
    <3>1. incoming \in DOMAIN obj /\ r # incoming
      BY <1>1, <2>3 DEF IInv, TypeOK, BookConsistent, Resting,
                        ReturnFromMatch, EndMatch
    <3>2. obj'[r] = obj[r]
      BY <2>3, <3>1 DEF ReturnFromMatch, EndMatch
    <3> QED  BY <1>1, <3>2
  <2>4. CASE Cancel
    <3>1. PICK id \in DOMAIN locations :
            obj' = [obj EXCEPT ![locations[id]] = CancelOrder(@)]
      BY <2>4 DEF Cancel, CancelResting
    <3>2. obj[r] \in Order /\ (obj'[r] = obj[r] \/ obj'[r] = CancelOrder(obj[r]))
      BY <1>1, <3>1 DEF IInv, TypeOK
    <3> QED  BY <1>1, <3>2, CancelOrderFacts
  <2>5. CASE UNCHANGED vars
    BY <1>1, <2>5 DEF vars
  <2> QED  BY <1>1, <2>1, <2>2, <2>3, <2>4, <2>5 DEF Next
<1>2. IInv /\ [Next]_vars =>
        [\A r \in DOMAIN obj :
           Resting(r) /\ obj'[r].filled # obj[r].filled =>
             \A x \in DOMAIN obj :
               x # r /\ Resting(x) /\ obj[x].side = obj[r].side
                 => HasPriority(r, x)]_vars
  BY <1>1
<1> QED  BY <1>2, Invariance, PTL DEF Spec, PriceTimePriority

\* Trades already made stay within their limits while no order changes its
\* side, type or price.
LEMMA TradesKept ==
  /\ TradesWithinLimits
  /\ result'.trades = result.trades /\ result'.incoming = result.incoming
  /\ DOMAIN obj' = DOMAIN obj
  /\ \A x \in DOMAIN obj :
       /\ obj'[x].side = obj[x].side /\ obj'[x].type = obj[x].type
       /\ obj'[x].price = obj[x].price
  => TradesWithinLimits'
<1>1. SUFFICES ASSUME TradesWithinLimits,
                      result'.trades = result.trades,
                      result'.incoming = result.incoming,
                      DOMAIN obj' = DOMAIN obj,
                      \A x \in DOMAIN obj :
                        /\ obj'[x].side = obj[x].side /\ obj'[x].type = obj[x].type
                        /\ obj'[x].price = obj[x].price
               PROVE  TradesWithinLimits'
  OBVIOUS
<1>2. SUFFICES ASSUME NEW j \in DOMAIN result.trades,
                      NEW tr, tr = result.trades[j],
                      NEW maker,
                      maker = IF tr.buy = result.incoming THEN tr.sell
                                                          ELSE tr.buy
               PROVE /\ tr.qty > 0
                     /\ tr.buy \in DOMAIN obj' /\ tr.sell \in DOMAIN obj'
                     /\ {tr.buy, tr.sell} = {result.incoming, maker}
                     /\ tr.buy # tr.sell
                     /\ obj'[tr.buy].side = "BUY" /\ obj'[tr.sell].side = "SELL"
                     /\ tr.price = obj'[maker].price
                     /\ obj'[tr.buy].type = "LIMIT"
                          => tr.price <= obj'[tr.buy].price
                     /\ obj'[tr.sell].type = "LIMIT"
                          => tr.price >= obj'[tr.sell].price
  <2>1. result'.trades = result.trades /\ result'.incoming = result.incoming
    BY <1>1
  <2> QED  BY <2>1 DEF TradesWithinLimits
<1>3. /\ tr.qty > 0
      /\ tr.buy \in DOMAIN obj /\ tr.sell \in DOMAIN obj
      /\ {tr.buy, tr.sell} = {result.incoming, maker}
      /\ tr.buy # tr.sell
      /\ obj[tr.buy].side = "BUY" /\ obj[tr.sell].side = "SELL"
      /\ tr.price = obj[maker].price
      /\ obj[tr.buy].type = "LIMIT" => tr.price <= obj[tr.buy].price
      /\ obj[tr.sell].type = "LIMIT" => tr.price >= obj[tr.sell].price
  BY <1>1, <1>2 DEF TradesWithinLimits
<1>4. maker \in DOMAIN obj
  BY <1>2, <1>3
<1> QED  BY <1>1, <1>3, <1>4

\* Every trade is for a positive quantity, at the maker's price and within
\* both limits.
THEOREM TradesRespectLimits == Spec => []TradesWithinLimits
<1>1. Init => TradesWithinLimits
  BY DEF Init, EngineInit, NoResult, TradesWithinLimits
<1>2. ASSUME IInv, IInv', TradesWithinLimits, [Next]_vars
      PROVE  TradesWithinLimits'
  <2>1. CASE Submit
    <3>1. result'.trades = <<>>
      BY <2>1 DEF Submit, StartMatch, NoResult
    <3>2. DOMAIN result'.trades = {}
      BY <3>1
    <3> QED  BY <3>2 DEF TradesWithinLimits
  <2>2. CASE TradeStep
    <3>1. incoming # NoRef
      BY <2>2 DEF TradeStep, MatchOne
    <3>2. PICK p \in Prices : CanTrade(p) /\ Execute(p)
      BY <2>2 DEF TradeStep, MatchOne
    <3> DEFINE m == Head(book[Opposite(obj[incoming].side)][p])
               q == MatchQty(obj[incoming], obj[m], p)
               n == Len(result'.trades)
    <3>3. /\ incoming \in DOMAIN obj /\ m \in DOMAIN obj /\ m # incoming
          /\ q \in Nat \ {0}
          /\ obj[m].side = Opposite(obj[incoming].side)
          /\ obj[m].price = p /\ obj[m].type = "LIMIT"
      BY <1>2, <3>1, <3>2, CanTradeFacts
    <3>4. /\ DOMAIN obj' = DOMAIN obj
          /\ \A x \in DOMAIN obj :
               /\ obj'[x].side = obj[x].side /\ obj'[x].type = obj[x].type
               /\ obj'[x].price = obj[x].price
      BY <1>2, <3>1, <3>2, ExecuteHeapFacts
    <3>5. /\ result'.trades[n].buy =
               (IF obj[incoming].side = "BUY" THEN incoming ELSE m)
          /\ result'.trades[n].sell =
               (IF obj[incoming].side = "BUY" THEN m ELSE incoming)
          /\ result'.trades[n].qty = q /\ result'.trades[n].price = p
          /\ \A j \in DOMAIN result'.trades :
               j = n \/ ( /\ j \in DOMAIN result.trades
                          /\ result'.trades[j] = result.trades[j])
          /\ result'.incoming = result.incoming
      BY <1>2, <3>1, <3>2, ExecuteHeapFacts
    <3>6. PriceCompatible(obj[incoming], p) /\ result.incoming = incoming
      BY <1>2, <3>1, <3>2 DEF CanTrade, IInv, Auxiliary
    <3>7. /\ obj[incoming].side \in Sides /\ p \in Nat
          /\ obj[incoming].type = "LIMIT" => obj[incoming].price \in Nat
      BY <1>2, <3>3, PricesAssumption
         DEF IInv, TypeOK, Auxiliary, Order, OrderType
    <3> HIDE DEF m, q, n
    <3> SUFFICES ASSUME NEW j \in DOMAIN result'.trades,
                        NEW tr, tr = result'.trades[j],
                        NEW maker,
                        maker = IF tr.buy = result'.incoming THEN tr.sell
                                                             ELSE tr.buy
                 PROVE /\ tr.qty > 0
                       /\ tr.buy \in DOMAIN obj' /\ tr.sell \in DOMAIN obj'
                       /\ {tr.buy, tr.sell} = {result'.incoming, maker}
                       /\ tr.buy # tr.sell
                       /\ obj'[tr.buy].side = "BUY" /\ obj'[tr.sell].side = "SELL"
                       /\ tr.price = obj'[maker].price
                       /\ obj'[tr.buy].type = "LIMIT"
                            => tr.price <= obj'[tr.buy].price
                       /\ obj'[tr.sell].type = "LIMIT"
                            => tr.price >= obj'[tr.sell].price
      BY DEF TradesWithinLimits
    <3>8. CASE j = n
      <4>1. CASE obj[incoming].side = "BUY"
        <5>1. tr.buy = incoming /\ tr.sell = m /\ maker = m /\ tr.price = p
              /\ obj[m].side = "SELL" /\ tr.qty = q
          BY <3>3, <3>5, <3>6, <3>8, <4>1 DEF Opposite
        <5>2. obj[incoming].type = "LIMIT" => p <= obj[incoming].price
          BY <3>6, <3>7, <4>1 DEF PriceCompatible
        <5> QED  BY <3>3, <3>4, <3>5, <3>6, <3>7, <4>1, <5>1, <5>2
      <4>2. CASE obj[incoming].side = "SELL"
        <5>1. tr.buy = m /\ tr.sell = incoming /\ maker = m /\ tr.price = p
              /\ obj[m].side = "BUY" /\ tr.qty = q
          BY <3>3, <3>5, <3>6, <3>8, <4>2 DEF Opposite
        <5>2. obj[incoming].type = "LIMIT" => p >= obj[incoming].price
          BY <3>6, <3>7, <4>2 DEF PriceCompatible
        <5> QED  BY <3>3, <3>4, <3>5, <3>6, <3>7, <4>2, <5>1, <5>2
      <4> QED  BY <3>7, <4>1, <4>2 DEF Sides
    <3>9. CASE j \in DOMAIN result.trades /\ result'.trades[j] = result.trades[j]
      <4>1. /\ tr = result.trades[j]
            /\ maker = IF tr.buy = result.incoming THEN tr.sell ELSE tr.buy
        BY <3>5, <3>9
      <4>2. /\ tr.qty > 0
            /\ tr.buy \in DOMAIN obj /\ tr.sell \in DOMAIN obj
            /\ {tr.buy, tr.sell} = {result.incoming, maker}
            /\ tr.buy # tr.sell
            /\ obj[tr.buy].side = "BUY" /\ obj[tr.sell].side = "SELL"
            /\ tr.price = obj[maker].price
            /\ obj[tr.buy].type = "LIMIT" => tr.price <= obj[tr.buy].price
            /\ obj[tr.sell].type = "LIMIT" => tr.price >= obj[tr.sell].price
        BY <1>2, <3>9, <4>1 DEF TradesWithinLimits
      <4>3. maker \in DOMAIN obj
        BY <4>1, <4>2
      <4> QED  BY <3>4, <3>5, <4>2, <4>3
    <3> QED  BY <3>5, <3>8, <3>9
  <2>3. CASE ReturnFromMatch
    <3>1. incoming \in DOMAIN obj /\ result' \in MatchResult
      BY <1>2, <2>3 DEF IInv, TypeOK, ReturnFromMatch, EndMatch
    <3>2. /\ result'.trades = result.trades /\ result'.incoming = result.incoming
      BY <1>2, <2>3 DEF ReturnFromMatch, EndMatch, IInv, TypeOK, MatchResult
    <3>3. obj[incoming] \in Order
      BY <1>2, <3>1 DEF IInv, TypeOK
    <3>4. /\ DOMAIN obj' = DOMAIN obj
          /\ \A x \in DOMAIN obj : obj'[x] = obj[x] \/ obj'[x] = CancelOrder(obj[x])
      BY <2>3, <3>1 DEF ReturnFromMatch, EndMatch
    <3>5. \A x \in DOMAIN obj :
            /\ obj'[x].side = obj[x].side /\ obj'[x].type = obj[x].type
            /\ obj'[x].price = obj[x].price
      BY <1>2, <3>4, CancelOrderFacts, ZenonT(40) DEF IInv, TypeOK
    <3> QED  BY <1>2, <3>2, <3>4, <3>5, TradesKept
  <2>4. CASE Cancel
    <3>1. PICK id \in DOMAIN locations :
            obj' = [obj EXCEPT ![locations[id]] = CancelOrder(@)]
      BY <2>4 DEF Cancel, CancelResting
    <3>2. /\ DOMAIN obj' = DOMAIN obj
          /\ \A x \in DOMAIN obj : obj'[x] = obj[x] \/ obj'[x] = CancelOrder(obj[x])
      BY <3>1
    <3>3. \A x \in DOMAIN obj :
            /\ obj'[x].side = obj[x].side /\ obj'[x].type = obj[x].type
            /\ obj'[x].price = obj[x].price
      BY <1>2, <3>2, CancelOrderFacts, ZenonT(40) DEF IInv, TypeOK
    <3>4. result' = result
      BY <2>4 DEF Cancel, CancelResting
    <3> QED  BY <1>2, <3>2, <3>3, <3>4, TradesKept
  <2>5. CASE UNCHANGED vars
    BY <1>2, <2>5 DEF vars, TradesWithinLimits
  <2> QED  BY <1>2, <2>1, <2>2, <2>3, <2>4, <2>5 DEF Next
<1> QED  BY <1>1, <1>2, Invariance, PTL DEF Spec

\* A MARKET remainder is given up only for want of a counterparty or of funds
\* for one more unit.
THEOREM RemainderJustified == Spec => RemainderMeansExhausted
<1>1. ASSUME IInv, [Next]_vars, incoming # NoRef, incoming' = NoRef,
             result'.cancelled > 0,
             NEW p0 \in Prices, IsBest(Opposite(obj[incoming].side), p0)
      PROVE  /\ obj[incoming].side = "BUY"
             /\ \A p \in Prices : IsBest("SELL", p) => funds < p
  <2>1. incoming \in DOMAIN obj /\ obj[incoming] \in Order
        /\ result.cancelled \in Int /\ funds \in Nat
    BY <1>1 DEF IInv, TypeOK, MatchResult, FundsCoverTrades
  <2>2. ReturnFromMatch
    <3>1. ~Submit
      BY <1>1 DEF Submit, StartMatch
    <3>2. ~TradeStep
      BY <1>1 DEF TradeStep, MatchOne, Execute
    <3>3. ~Cancel
      BY <1>1 DEF Cancel
    <3> QED  BY <1>1, <3>1, <3>2, <3>3 DEF Next, vars
  <2>3. \A p \in Prices : ~CanTrade(p)
    BY <2>2 DEF ReturnFromMatch, EndMatch
  <2> DEFINE o == obj[incoming]
  <2>4. Remaining(o) > 0 /\ o.type = "MARKET"
    <3>1. result.cancelled = 0
      BY <1>1 DEF IInv, Auxiliary
    <3> QED  BY <1>1, <2>2, <3>1 DEF ReturnFromMatch, EndMatch
  <2>5. ASSUME NEW p \in Prices, IsBest(Opposite(o.side), p)
        PROVE  o.side = "BUY" /\ funds < p
    <3> DEFINE m == Head(book[Opposite(o.side)][p])
    <3>1. MatchQty(o, obj[m], p) = 0
      BY <2>3, <2>4, <2>5 DEF CanTrade, PriceCompatible
    <3>2. Opposite(o.side) \in Sides
      BY <2>1 DEF Opposite, Order, OrderType, Sides
    <3>3. book[Opposite(o.side)][p] \in Seq(Refs) /\ book[Opposite(o.side)][p] # <<>>
      BY <1>1, <2>5, <3>2 DEF IInv, TypeOK, IsBest
    <3>4. 1 \in DOMAIN book[Opposite(o.side)][p] /\ m = book[Opposite(o.side)][p][1]
      BY <3>3
    <3>5. m \in DOMAIN obj /\ Remaining(obj[m]) > 0
      BY <1>1, <3>2, <3>4 DEF IInv, BookConsistent
    <3> HIDE DEF m
    <3>6. obj[m] \in Order
      BY <1>1, <3>5 DEF IInv, TypeOK
    <3>7. Remaining(o) \in Int /\ Remaining(obj[m]) \in Int
      BY <2>1, <3>6 DEF Remaining, Order, OrderType
    <3>8. p \in Nat \ {0} /\ GoDiv(funds, p) \in Nat
          /\ (GoDiv(funds, p) = 0 => funds < p)
      BY <2>1, PricesAssumption, GoDivFacts
    <3>9. IsBuyMarket(o) /\ GoDiv(funds, p) = 0
      BY <2>4, <3>1, <3>5, <3>7, <3>8 DEF MatchQty, min64
    <3> QED  BY <3>8, <3>9 DEF IsBuyMarket
  <2>6. o.side = "BUY"
    BY <1>1, <2>5
  <2> QED  BY <2>5, <2>6 DEF Opposite
<1>2. IInv /\ [Next]_vars =>
        [incoming # NoRef /\ incoming' = NoRef /\ result'.cancelled > 0 =>
           \/ \A p \in Prices : ~IsBest(Opposite(obj[incoming].side), p)
           \/ /\ obj[incoming].side = "BUY"
              /\ \A p \in Prices : IsBest("SELL", p) => funds < p]_vars
  BY <1>1
<1> QED  BY <1>2, Invariance, PTL DEF Spec, RemainderMeansExhausted
=============================================================================
