-------------------------- MODULE ExchangeBookProofs --------------------------
(***************************************************************************)
(* Proofs about Exchange while the Book agrees with Postgres, part one:    *)
(* what the second part of the inductive invariant (Core) says about       *)
(* amounts, and that requests, batches, failures, recovery and matching    *)
(* keep it.                                                                *)
(***************************************************************************)
EXTENDS ExchangeProofs

----------------------------------------------------------------------------
(* Amounts *)

\* A sum of naturals over a part is at most the sum over the whole.
LEMMA TotalPart ==
  ASSUME NEW S, IsFiniteSet(S), NEW f, \A x \in S : f[x] \in Nat, NEW T \in SUBSET S
  PROVE  Total(f, T) \in Nat /\ Total(f, T) <= Total(f, S)
<1> DEFINE Q == {s \in SUBSET S : T \subseteq s => Total(f, T) <= Total(f, s)}
<1>1. IsFiniteSet(T) /\ Total(f, T) \in Nat
  BY FS_Subset, TotalNat
<1>2. \A s \in SUBSET S : IsFiniteSet(s) /\ Total(f, s) \in Nat
  BY FS_Subset, TotalNat
<1>3. {} \in Q
  BY <1>1
<1>4. ASSUME NEW s \in SUBSET S, s # {}, \A x \in s : s \ {x} \in Q
      PROVE  s \in Q
  <2>1. CASE T = s
    BY <1>1, <2>1
  <2>2. CASE T # s /\ T \subseteq s
    <3>1. PICK x \in s : x \notin T
      BY <2>2
    <3>2. Total(f, T) <= Total(f, s \ {x})
      BY <1>4, <2>2, <3>1
    <3>3. Total(f, s) = f[x] + Total(f, s \ {x})
      BY <1>2, TotalTake
    <3>4. Total(f, s \ {x}) \in Nat /\ f[x] \in Nat /\ Total(f, s) \in Nat
      BY <1>2
    <3>5. Total(f, T) <= Total(f, s)
      BY <1>1, <3>2, <3>3, <3>4
    <3> QED  BY <3>5
  <2> QED  BY <2>1, <2>2
<1>5. SUBSET S \subseteq Q
  <2> HIDE DEF Q
  <2> QED  BY <1>3, <1>4, SubsetInduction
<1> QED  BY <1>1, <1>5

\* A sum of zeros.
LEMMA TotalZero ==
  ASSUME NEW S, IsFiniteSet(S), NEW f, \A x \in S : f[x] = 0
  PROVE  Total(f, S) = 0
<1>1. Total(f, S) = Cardinality(S) * 0
  BY TotalConstant
<1> QED  BY <1>1, FS_CardinalityType

\* What an order ties up, by what it is.
LEMMA TiedFacts ==
  ASSUME NEW o \in Order, Sane(o), NEW asset \in Assets
  PROVE  /\ Tied(o, asset) \in Nat
         /\ IsDone(o) \/ IsBuyMarket(o) => Tied(o, asset) = 0
         /\ asset = "brl" /\ o.side = "BUY" /\ ~IsDone(o) /\ ~IsBuyMarket(o) =>
              Tied(o, asset) = o.price * Remaining(o)
         /\ asset = "vibranium" /\ o.side = "SELL" /\ ~IsDone(o) =>
              Tied(o, asset) = Remaining(o)
         /\ asset = "brl" /\ o.side = "SELL" => Tied(o, asset) = 0
         /\ asset = "vibranium" /\ o.side = "BUY" => Tied(o, asset) = 0
<1>1. o.quantity \in Nat /\ o.filled \in Nat /\ o.filled <= o.quantity
  BY DEF Order, OrderType, Sane
<1>2. Remaining(o) \in Nat /\ o.price \in Nat
  BY <1>1, OrderAmounts DEF Remaining
<1>3. o.price * Remaining(o) \in Nat
  <2>1. \A x \in Nat, y \in Nat : x * y \in Nat
    OBVIOUS
  <2> QED  BY <1>2, <2>1
<1>4. /\ IsDone(o) \/ IsBuyMarket(o) => Tied(o, asset) = 0
      /\ asset = "brl" /\ o.side = "BUY" /\ ~IsDone(o) /\ ~IsBuyMarket(o) =>
           Tied(o, asset) = o.price * Remaining(o)
      /\ asset = "vibranium" /\ o.side = "SELL" /\ ~IsDone(o) =>
           Tied(o, asset) = Remaining(o)
      /\ asset = "brl" /\ o.side = "SELL" => Tied(o, asset) = 0
      /\ asset = "vibranium" /\ o.side = "BUY" => Tied(o, asset) = 0
  BY DEF Tied, IsBuyMarket
<1>5. o.side \in {"BUY", "SELL"} /\ asset \in {"brl", "vibranium"}
  BY DEF Order, OrderType, Sides, Assets
<1>6. Tied(o, asset) \in Nat
  BY <1>2, <1>3, <1>4, <1>5
<1> QED  BY <1>4, <1>6

\* The trades of the Match at hand.
LEMMA TradesFacts ==
  ASSUME BaseInv
  PROVE  /\ result.trades \in Seq(Trade) /\ Len(result.trades) \in Nat
         /\ DOMAIN result.trades = 1..Len(result.trades)
         /\ IsFiniteSet(DOMAIN result.trades)
         /\ \A i \in DOMAIN result.trades :
              /\ result.trades[i] \in Trade /\ result.trades[i].qty \in Int
              /\ result.trades[i].price \in Nat \ {0}
              /\ result.trades[i].price \in Prices
              /\ result.trades[i].buy \in DOMAIN obj /\ result.trades[i].sell \in DOMAIN obj
         /\ Settled \subseteq DOMAIN result.trades /\ IsFiniteSet(Settled)
<1>1. /\ result.trades \in Seq(Trade) /\ Len(result.trades) \in Nat
      /\ DOMAIN result.trades = 1..Len(result.trades)
  BY DEF BaseInv, TypeOK, MatchResult
<1>2. IsFiniteSet(DOMAIN result.trades)
  <2>1. \A n \in Nat : 1 \in Int /\ n \in Int
    OBVIOUS
  <2>2. \A n \in Nat : IsFiniteSet(1..n)
    BY <2>1, FS_Interval, Zenon
  <2> QED  BY <1>1, <2>2, Zenon
<1>3. \A i \in DOMAIN result.trades :
        /\ result.trades[i] \in Trade /\ result.trades[i].qty \in Int
        /\ result.trades[i].price \in Nat \ {0} /\ result.trades[i].price \in Prices
  <2>1. \A i \in DOMAIN result.trades : result.trades[i] \in Trade
    BY <1>1
  <2>2. \A tr \in Trade : tr.qty \in Int /\ tr.price \in Nat \ {0} /\ tr.price \in Prices
    BY PricesAssumption DEF Trade
  <2> QED  BY <2>1, <2>2
<1>4. \A i \in DOMAIN result.trades :
        result.trades[i].buy \in DOMAIN obj /\ result.trades[i].sell \in DOMAIN obj
  BY DEF BaseInv, HeapInv
<1>5. Len(unsettled) \in Nat
  BY DEF BaseInv, TypeOK
<1>6. Settled \subseteq DOMAIN result.trades
  BY <1>1, <1>5 DEF Settled
<1>7. IsFiniteSet(Settled)
  BY <1>2, <1>6, FS_Subset
<1> QED  BY <1>1, <1>2, <1>3, <1>4, <1>6, <1>7

LEMMA NeedFacts ==
  ASSUME BaseInv, NEW id \in DOMAIN rows, NEW asset \in Assets, NEW tr, tr.qty \in Int
  PROVE  /\ Need(tr, id, asset) \in Nat
         /\ tr.buy[1] # id /\ tr.sell[1] # id => Need(tr, id, asset) = 0
<1>1. rows[id].price \in Nat
  BY RowFacts, OrderAmounts
<1>2. CASE tr.qty <= 0
  BY <1>2 DEF Need
<1>3. CASE ~(tr.qty <= 0)
  <2>1. rows[id].price * tr.qty \in Nat
    <3>1. \A x \in Nat, y \in Nat : x * y \in Nat
      OBVIOUS
    <3>2. tr.qty \in Nat
      BY <1>3
    <3> QED  BY <1>1, <3>1, <3>2
  <2>2. CASE asset = "brl"
    BY <1>3, <2>1, <2>2 DEF Need
  <2>3. CASE asset = "vibranium"
    BY <1>3, <2>3 DEF Need
  <2> QED  BY <2>2, <2>3 DEF Assets
<1> QED  BY <1>2, <1>3

LEMMA NeedsFacts ==
  ASSUME BaseInv, NEW id \in DOMAIN rows, NEW asset \in Assets
  PROVE  /\ \A i \in DOMAIN result.trades :
              /\ Needs(id, asset)[i] = Need(result.trades[i], id, asset)
              /\ Needs(id, asset)[i] \in Nat
         /\ \A S \in SUBSET DOMAIN result.trades : Total(Needs(id, asset), S) \in Nat
<1>1. \A i \in DOMAIN result.trades :
        /\ Needs(id, asset)[i] = Need(result.trades[i], id, asset)
        /\ Needs(id, asset)[i] \in Nat
  BY TradesFacts, NeedFacts DEF Needs
<1>2. \A S \in SUBSET DOMAIN result.trades : Total(Needs(id, asset), S) \in Nat
  BY <1>1, TradesFacts, TotalPart
<1> QED  BY <1>1, <1>2

\* An order without an object has no trades in the Match at hand.
LEMMA NeedsNone ==
  ASSUME BaseInv, NEW id \in DOMAIN rows, NEW asset \in Assets,
         \A r \in DOMAIN obj : r[1] # id, NEW S \in SUBSET DOMAIN result.trades
  PROVE  Total(Needs(id, asset), S) = 0
<1>1. ASSUME NEW i \in S
      PROVE  Needs(id, asset)[i] = 0
  <2>1. /\ i \in DOMAIN result.trades /\ result.trades[i].qty \in Int
        /\ result.trades[i].buy \in DOMAIN obj /\ result.trades[i].sell \in DOMAIN obj
    BY TradesFacts
  <2>2. Need(result.trades[i], id, asset) = 0
    BY <2>1, NeedFacts, Zenon
  <2> QED  BY <2>1, <2>2, NeedsFacts, Zenon
<1>2. IsFiniteSet(S)
  BY TradesFacts, FS_Subset
<1> QED  BY <1>1, <1>2, TotalZero

LEMMA ViewRow ==
  ASSUME BaseInv, NEW id \in DOMAIN rows
  PROVE  /\ RowView(id) \in Order /\ Same(RowView(id), rows[id]) /\ Sane(RowView(id))
         /\ RowView(id).user = rows[id].user /\ RowView(id).id = id
<1>1. rows[id] \in Order /\ Sane(rows[id]) /\ rows[id].id = id
  BY RowFacts DEF BaseInv, RowInv
<1>2. id \in DOMAIN txRows =>
        txRows[id] \in Order /\ Same(txRows[id], rows[id]) /\ Sane(txRows[id])
  BY TxRowsRows DEF BaseInv, TypeOK, PartialFn
<1> QED  BY <1>1, <1>2 DEF RowView, Same

LEMMA ClaimInt ==
  ASSUME BaseInv, NEW id \in DOMAIN rows, NEW asset \in Assets
  PROVE  /\ Claim(id, asset) \in Int
         /\ Tied(RowView(id), asset) \in Nat /\ Tied(rows[id], asset) \in Nat
<1>1. Tied(RowView(id), asset) \in Nat
  BY ViewRow, TiedFacts
<1>2. Total(Needs(id, asset), Settled) \in Nat
  BY TradesFacts, NeedsFacts
<1>3. Tied(rows[id], asset) \in Nat
  BY RowFacts, TiedFacts DEF BaseInv, RowInv
<1> QED  BY <1>1, <1>2, <1>3 DEF Claim

LEMMA MineFacts ==
  ASSUME BaseInv, NEW u
  PROVE  IsFiniteSet(Mine(u)) /\ Mine(u) \subseteq DOMAIN rows /\ Mine(u) \subseteq Ids
<1>1. Mine(u) \subseteq DOMAIN rows /\ Mine(u) \subseteq Ids
  BY DEF Mine, BaseInv, TypeOK, PartialFn
<1> QED  BY <1>1, FiniteAssumption, FS_Subset

\* ReservationsBacked, by asset.
BackedInv ==
  \A u \in Users, asset \in Assets :
    Reserved(wallets[u])[asset]
      = Total([id \in Mine(u) |-> Tied(rows[id], asset)], Mine(u))

LEMMA BackedIsBacked ==
  ASSUME ~diverged
  PROVE  BackedInv <=> ReservationsBacked
<1>1. ASSUME NEW u
      PROVE  /\ Reserved(wallets[u])["brl"] = wallets[u].reservedBRL
             /\ Reserved(wallets[u])["vibranium"] = wallets[u].reservedVibranium
  BY DEF Reserved
<1>2. BackedInv <=>
        \A u \in Users :
          /\ wallets[u].reservedBRL
               = Total([id \in Mine(u) |-> Tied(rows[id], "brl")], Mine(u))
          /\ wallets[u].reservedVibranium
               = Total([id \in Mine(u) |-> Tied(rows[id], "vibranium")], Mine(u))
  BY <1>1 DEF BackedInv, Assets
<1>3. ReservationsBacked <=>
        \A u \in Users :
          /\ wallets[u].reservedBRL
               = Total([id \in Mine(u) |-> Tied(rows[id], "brl")], Mine(u))
          /\ wallets[u].reservedVibranium
               = Total([id \in Mine(u) |-> Tied(rows[id], "vibranium")], Mine(u))
  BY Zenon DEF ReservationsBacked, Mine
<1> QED  BY <1>2, <1>3

\* A step that changes, for each asset, the claim of one order, and the
\* reservation of its owner by as much.
ClaimMoves(x, d) ==
  /\ DOMAIN rows' = DOMAIN rows
  /\ \A id \in DOMAIN rows : rows'[id].user = rows[id].user
  /\ \A asset \in Assets : x[asset] \in DOMAIN rows /\ d[asset] \in Int
  /\ \A asset \in Assets, id \in DOMAIN rows :
       Claim(id, asset)' = Claim(id, asset) - (IF id = x[asset] THEN d[asset] ELSE 0)
  /\ \A u \in Users, asset \in Assets :
       Reserved(View(u)')[asset]
         = Reserved(View(u))[asset] - (IF u = rows[x[asset]].user THEN d[asset] ELSE 0)

LEMMA ClaimStep ==
  ASSUME BaseInv, BaseInv', ClaimInv, NEW x, NEW d, ClaimMoves(x, d)
  PROVE  ClaimInv'
<1> USE DEF ClaimMoves
<1> SUFFICES ASSUME NEW u \in Users, NEW asset \in Assets
             PROVE  Reserved(View(u)')[asset]
                      = Total([id \in Mine(u)' |-> Claim(id, asset)'], Mine(u)')
  BY DEF ClaimInv
<1> DEFINE M == Mine(u)
           f == [id \in M |-> Claim(id, asset)]
           g == [id \in M |-> Claim(id, asset)']
<1>1. Mine(u)' = M
  BY DEF Mine
<1>2. IsFiniteSet(M) /\ M \subseteq DOMAIN rows
  BY MineFacts
<1>3. Reserved(View(u))[asset] = Total(f, M)
  BY DEF ClaimInv
<1>4. \A id \in M : f[id] \in Int /\ g[id] \in Int
                    /\ g[id] = f[id] - (IF id = x[asset] THEN d[asset] ELSE 0)
  BY <1>2, ClaimInt
<1>5. x[asset] \in M <=> u = rows[x[asset]].user
  BY DEF Mine
<1>6. x[asset] \in DOMAIN rows /\ d[asset] \in Int
  OBVIOUS
<1>7. Reserved(View(u)')[asset]
        = Reserved(View(u))[asset] - (IF u = rows[x[asset]].user THEN d[asset] ELSE 0)
  OBVIOUS
<1> HIDE DEF M, f, g
<1>8. Total(f, M) \in Int
  BY <1>2, <1>4, TotalInt
<1>9. CASE x[asset] \in M
  <2>1. \A id \in M \ {x[asset]} : f[id] = g[id]
    BY <1>4
  <2>2. Total(g, M) = Total(f, M) + (g[x[asset]] - f[x[asset]])
    BY <1>2, <1>4, <1>9, <2>1, TotalChange
  <2>3. g[x[asset]] - f[x[asset]] = -d[asset]
    BY <1>4, <1>6, <1>9
  <2>4. Reserved(View(u)')[asset] = Total(g, M)
    BY <1>3, <1>5, <1>6, <1>7, <1>8, <1>9, <2>2, <2>3
  <2> QED  BY <1>1, <2>4 DEF g
<1>10. CASE x[asset] \notin M
  <2>1. \A id \in M : f[id] = g[id]
    BY <1>4, <1>10
  <2>2. Total(f, M) = Total(g, M)
    BY <1>2, <1>4, <2>1, TotalEqual
  <2>3. Reserved(View(u)')[asset] = Total(g, M)
    BY <1>3, <1>5, <1>7, <1>8, <1>10, <2>2
  <2> QED  BY <1>1, <2>3 DEF g
<1> QED  BY <1>9, <1>10

\* A step that changes no claim and no reservation.
LEMMA ClaimSame ==
  ASSUME ClaimInv, DOMAIN rows' = DOMAIN rows,
         \A id \in DOMAIN rows : rows'[id].user = rows[id].user,
         \A asset \in Assets, id \in DOMAIN rows : Claim(id, asset)' = Claim(id, asset),
         \A u \in Users, asset \in Assets :
           Reserved(View(u)')[asset] = Reserved(View(u))[asset]
  PROVE  ClaimInv'
<1> SUFFICES ASSUME NEW u \in Users, NEW asset \in Assets
             PROVE  Reserved(View(u)')[asset]
                      = Total([id \in Mine(u)' |-> Claim(id, asset)'], Mine(u)')
  BY DEF ClaimInv
<1>1. Mine(u)' = Mine(u) /\ Mine(u) \subseteq DOMAIN rows
  BY DEF Mine
<1>2. [id \in Mine(u) |-> Claim(id, asset)'] = [id \in Mine(u) |-> Claim(id, asset)]
  BY <1>1
<1>3. Reserved(View(u))[asset] = Total([id \in Mine(u) |-> Claim(id, asset)], Mine(u))
  BY DEF ClaimInv
<1> QED  BY <1>1, <1>2, <1>3

\* The end of a transaction: what it claimed is what the rows say.
LEMMA ClaimBacked ==
  ASSUME BaseInv', BackedInv', txRows' = Nothing, cache' = Nothing, mpc' # "settle"
  PROVE  ClaimInv'
<1>1. DOMAIN txRows' = {} /\ DOMAIN cache' = {} /\ Settled' = {}
  BY NothingFacts DEF Settled
<1>2. \A u \in Users : View(u)' = wallets'[u]
  BY <1>1 DEF View
<1>3. ASSUME NEW id \in DOMAIN rows', NEW asset \in Assets
      PROVE  Claim(id, asset)' = Tied(rows[id], asset)'
  <2>1. RowView(id)' = rows'[id]
    BY <1>1 DEF RowView
  <2>2. Claim(id, asset)' = Tied(RowView(id), asset)' - Total(Needs(id, asset)', {})
    BY <1>1 DEF Claim
  <2>3. Total(Needs(id, asset)', {}) = 0
    BY TotalEmpty
  <2>4. Tied(RowView(id), asset)' = Tied(rows[id], asset)'
    BY <2>1 DEF Tied, IsDone, IsBuyMarket, Remaining
  <2>5. Tied(rows[id], asset)' \in Int
    <3>1. rows'[id] \in Order /\ Sane(rows'[id])
      BY DEF BaseInv, TypeOK, PartialFn, RowInv
    <3>2. Tied(rows'[id], asset) \in Nat
      BY <3>1, TiedFacts
    <3> QED  BY <3>2
  <2> QED  BY <2>2, <2>3, <2>4, <2>5
<1> SUFFICES ASSUME NEW u \in Users, NEW asset \in Assets
             PROVE  Reserved(View(u)')[asset]
                      = Total([id \in Mine(u)' |-> Claim(id, asset)'], Mine(u)')
  BY DEF ClaimInv
<1>4. Reserved(wallets'[u])[asset]
        = Total([id \in Mine(u)' |-> Tied(rows[id], asset)'], Mine(u)')
  BY DEF BackedInv
<1>5. [id \in Mine(u)' |-> Claim(id, asset)'] = [id \in Mine(u)' |-> Tied(rows[id], asset)']
  BY <1>3 DEF Mine
<1> QED  BY <1>2, <1>4, <1>5

----------------------------------------------------------------------------
(* What steps leave alone *)

\* Sound, with its second part by asset.
Core ==
  /\ JournalInv /\ BackedInv /\ ClaimInv
  /\ mpc \in {"apply", "match", "settle"} => ~bookDirty
  /\ Clean => ObjectInv /\ BookInv /\ MatchInv /\ TradeInv

\* Nothing the matcher's transaction sees of the orders changes; an order that
\* is new has not been seen by the matcher.
ViewKept ==
  /\ DOMAIN rows \subseteq DOMAIN rows'
  /\ \A id \in DOMAIN rows :
       RowView(id)' = RowView(id) /\ (Known(id)' <=> Known(id)) /\ Same(rows'[id], rows[id])
  /\ \A id \in DOMAIN rows' \ DOMAIN rows : ~Known(id)'

LEMMA ProcessedFacts ==
  ASSUME BaseInv
  PROVE  /\ processed \cup (batch \ todo) \subseteq 1..cursor
         /\ 1..cursor \subseteq DOMAIN stream
         /\ processed \subseteq DOMAIN stream /\ batch \subseteq DOMAIN stream
<1>1. /\ processed \subseteq 1..cursor /\ batch \subseteq 1..cursor
      /\ stream \in Seq(Event) /\ cursor \in 0..Len(stream)
  BY DEF BaseInv, TypeOK
<1>2. 1..cursor \subseteq DOMAIN stream
  BY <1>1
<1> QED  BY <1>1, <1>2

\* Known depends on the entries that have been processed.
LEMMA KnownSame ==
  ASSUME BaseInv, processed' \cup (batch' \ todo') = processed \cup (batch \ todo),
         \A i \in DOMAIN stream : stream'[i] = stream[i]
  PROVE  \A id : Known(id)' <=> Known(id)
<1>1. \A i \in processed \cup (batch \ todo) : stream'[i] = stream[i]
  BY ProcessedFacts
<1> QED  BY <1>1 DEF Known

LEMMA MatchedSame ==
  ASSUME BaseInv, UNCHANGED processed, \A i \in DOMAIN stream : stream'[i] = stream[i]
  PROVE  \A id : Matched(id)' <=> Matched(id)
<1>1. \A i \in processed : stream'[i] = stream[i]
  BY ProcessedFacts
<1> QED  BY <1>1 DEF Matched

LEMMA KnownIds ==
  ASSUME BaseInv, NEW id, Known(id)
  PROVE  id \in DOMAIN rows
<1>1. PICK i \in processed \cup (batch \ todo) : stream[i] = [kind |-> "NEW", id |-> id]
  BY DEF Known
<1>2. i \in DOMAIN stream
  BY ProcessedFacts
<1>3. stream[i].id \in DOMAIN rows
  BY <1>2 DEF BaseInv, RowInv
<1> QED  BY <1>1, <1>3

\* Matched orders are known; outside of a batch they are the same.
LEMMA MatchedKnown ==
  /\ \A id : Matched(id) => Known(id)
  /\ batch = {} => \A id : Known(id) <=> Matched(id)
BY DEF Matched, Known

LEMMA ObjectFrame ==
  ASSUME BaseInv, ObjectInv, ViewKept, UNCHANGED <<obj, result>>
  PROVE  ObjectInv'
<1>1. Changed' = Changed
  BY DEF Changed
<1>2. ASSUME NEW r \in DOMAIN obj
      PROVE  /\ Known(r[1])' /\ Advanced(RowView(r[1])', obj'[r])
             /\ r \notin Changed => obj'[r] = RowView(r[1])'
  <2>1. r[1] \in DOMAIN rows
    BY ObjectFacts
  <2> DEFINE id == r[1]
  <2>2. /\ Known(id) /\ Advanced(RowView(id), obj[r])
        /\ r \notin Changed => obj[r] = RowView(id)
    BY DEF ObjectInv
  <2>3. RowView(r[1])' = RowView(r[1]) /\ Known(r[1])'
    BY <2>1, <2>2 DEF ViewKept
  <2> QED  BY <2>2, <2>3
<1>3. ASSUME NEW id \in DOMAIN rows', Known(id)', rows'[id].type = "LIMIT",
             ~IsDone(RowView(id)')
      PROVE  \E r \in DOMAIN obj : r[1] = id
  <2>1. id \in DOMAIN rows
    BY <1>3 DEF ViewKept
  <2>2. Known(id) /\ rows[id].type = "LIMIT" /\ ~IsDone(RowView(id))
    BY <1>3, <2>1 DEF ViewKept, Same
  <2> QED  BY <2>1, <2>2 DEF ObjectInv
<1>4. \A r, x \in DOMAIN obj : r[1] = x[1] => r = x
  BY DEF ObjectInv
<1> QED  BY <1>1, <1>2, <1>3, <1>4 DEF ObjectInv

LEMMA BookFrame ==
  ASSUME BookInv, UNCHANGED <<obj, book, locations, incoming>>
  PROVE  BookInv'
BY DEF BookInv

\* What trades need depends on the prices of the orders.
LEMMA NeedsSame ==
  ASSUME BaseInv, ViewKept, UNCHANGED result, NEW id \in DOMAIN rows, NEW asset
  PROVE  Needs(id, asset)' = Needs(id, asset)
<1>1. rows'[id].price = rows[id].price
  BY DEF ViewKept, Same
<1>2. \A tr : Need(tr, id, asset)' = Need(tr, id, asset)
  BY <1>1 DEF Need
<1> QED  BY <1>2 DEF Needs

LEMMA MatchFrame ==
  ASSUME BaseInv, MatchInv, ViewKept, UNCHANGED <<obj, result, mpc>>
  PROVE  MatchInv'
<1> SUFFICES ASSUME mpc \in {"match", "settle"}, NEW r \in DOMAIN obj, NEW asset \in Assets
             PROVE  Tied(RowView(r[1]), asset)' =
                      Tied(obj[r], asset)' + Rest(r, asset)'
                        + Total(Needs(r[1], asset)', DOMAIN result.trades)
  BY DEF MatchInv
<1> DEFINE id == r[1]
<1>1. id \in DOMAIN rows
  BY ObjectFacts
<1>2. Tied(RowView(id), asset) = Tied(obj[r], asset) + Rest(r, asset)
                                   + Total(Needs(id, asset), DOMAIN result.trades)
  BY DEF MatchInv
<1>3. Rest(r, asset)' = Rest(r, asset)
  BY DEF Rest, Remainder, Taker
<1>4. Needs(r[1], asset)' = Needs(r[1], asset)
  BY <1>1, NeedsSame
<1>5. Tied(RowView(r[1]), asset)' = Tied(RowView(r[1]), asset)
      /\ Tied(obj[r], asset)' = Tied(obj[r], asset)
  <2>1. RowView(r[1])' = RowView(r[1])
    BY <1>1 DEF ViewKept
  <2> QED  BY <2>1 DEF Tied
<1> QED  BY <1>2, <1>3, <1>4, <1>5

LEMMA JournalFrame ==
  ASSUME BaseInv, JournalInv, DOMAIN rows \subseteq DOMAIN rows',
         \A id \in DOMAIN rows : rows'[id] = rows[id],
         \A id \in DOMAIN rows' \ DOMAIN rows :
           rows'[id].filled = 0 /\ rows'[id].status = "OPEN",
         \A id : Matched(id)' <=> Matched(id), \A id : Known(id) => Known(id)',
         UNCHANGED txRows
  PROVE  JournalInv'
<1>1. ASSUME NEW id \in DOMAIN rows', ~Matched(id)'
      PROVE  rows'[id].filled = 0 /\ rows'[id].status = "OPEN"
  <2>1. ~Matched(id)
    BY <1>1
  <2> QED  BY <2>1 DEF JournalInv
<1>2. ASSUME NEW id \in DOMAIN txRows
      PROVE  Known(id)' /\ Advanced(rows'[id], txRows'[id])
  <2>1. id \in DOMAIN rows
    BY TxRowsRows
  <2> QED  BY <2>1 DEF JournalInv
<1> QED  BY <1>1, <1>2 DEF JournalInv

\* While no trade of the Match at hand is settled, an order's claim is what
\* its row says.
LEMMA ClaimUnsettled ==
  ASSUME BaseInv, Settled = {}, NEW id \in DOMAIN rows, NEW asset \in Assets
  PROVE  Claim(id, asset) = Tied(RowView(id), asset)
<1>1. Total(Needs(id, asset), Settled) = 0
  BY TotalEmpty
<1>2. Tied(RowView(id), asset) \in Nat
  BY ClaimInt
<1> QED  BY <1>1, <1>2 DEF Claim

LEMMA ClaimQuiet ==
  ASSUME BaseInv, Settled = {}, Settled' = {}, NEW id \in DOMAIN rows, NEW asset \in Assets,
         RowView(id)' = RowView(id)
  PROVE  Claim(id, asset)' = Claim(id, asset)
<1>1. Claim(id, asset)' = Tied(RowView(id), asset)' - Total(Needs(id, asset)', {})
  BY DEF Claim
<1>2. Total(Needs(id, asset)', {}) = 0
  BY TotalEmpty
<1>3. Tied(RowView(id), asset)' = Tied(RowView(id), asset)
  BY DEF Tied
<1>4. Tied(RowView(id), asset) \in Nat
  BY ClaimInt
<1> QED  BY <1>1, <1>2, <1>3, <1>4, ClaimUnsettled

LEMMA ClaimFrame ==
  ASSUME BaseInv, ViewKept, UNCHANGED result, Settled' = Settled,
         NEW id \in DOMAIN rows, NEW asset \in Assets
  PROVE  Claim(id, asset)' = Claim(id, asset)
<1>1. Needs(id, asset)' = Needs(id, asset)
  BY NeedsSame
<1>2. Tied(RowView(id), asset)' = Tied(RowView(id), asset)
  BY DEF ViewKept, Tied
<1> QED  BY <1>1, <1>2 DEF Claim

\* A step of the API while an order is applied: the wallet of a BUY MARKET
\* order is locked.
LEMMA TradeFrame ==
  ASSUME TradeInv, UNCHANGED <<obj, result, funds, mpc, unsettled, cache>>
  PROVE  TradeInv'
<1>1. Taker' = Taker /\ Settled' = Settled /\ Costs' = Costs
  BY DEF Taker, Settled, Costs
<1>2. \A u \in DOMAIN cache : View(u)' = View(u)
  BY DEF View
<1>3. CASE mpc \in {"match", "settle"}
  <2>1. \A i \in DOMAIN result.trades :
         LET tr == result.trades[i]
             maker == IF Taker.side = "BUY" THEN tr.sell ELSE tr.buy
         IN  /\ result.incoming = IF Taker.side = "BUY" THEN tr.buy ELSE tr.sell
             /\ obj[maker].side = Opposite(Taker.side) /\ obj[maker].type = "LIMIT"
             /\ tr.price = obj[maker].price
             /\ Taker.side = "BUY" /\ Taker.type = "LIMIT" => tr.price <= Taker.price
             /\ IsBuyMarket(Taker) \/ tr.qty > 0
    BY <1>3, Zenon DEF TradeInv
  <2>2. IsBuyMarket(Taker) =>
         /\ Taker.user \in DOMAIN cache
         /\ \/ /\ \A i \in DOMAIN result.trades : result.trades[i].qty > 0
               /\ funds >= 0
               /\ Total(Costs, DOMAIN result.trades \ Settled)
                    + (IF mpc = "match" THEN funds ELSE 0) <= View(Taker.user).brl
            \/ /\ \A i \in DOMAIN result.trades : result.trades[i].qty < 0
               /\ funds <= 0
    BY <1>3, Zenon DEF TradeInv
  <2>3. Taker.user \in DOMAIN cache => View(Taker.user)' = View(Taker.user)
    BY <1>1, <1>2 DEF View
  <2> QED  BY <1>1, <2>1, <2>2, <2>3 DEF TradeInv
<1>4. CASE mpc \notin {"match", "settle"}
  BY <1>4 DEF TradeInv
<1> QED  BY <1>3, <1>4

----------------------------------------------------------------------------
(* Requests *)

\* What a placed order ties up is what Place reserves.
LEMMA ReservedAdds ==
  ASSUME NEW w \in Wallet, NEW o \in Order, CanReserve(w, o),
         o.filled = 0, o.status = "OPEN", NEW asset \in Assets
  PROVE  Reserved(Reserve(w, o))[asset] = Reserved(w)[asset] + Tied(o, asset)
<1>1. Remaining(o) = o.quantity /\ ~IsDone(o) /\ o.side \in {"BUY", "SELL"}
  BY OrderAmounts DEF Remaining, IsDone, Order, OrderType, Sides
<1>2. \A v : /\ Reserved(v)["brl"] = v.reservedBRL
             /\ Reserved(v)["vibranium"] = v.reservedVibranium
  BY DEF Reserved
<1>3. o.quantity \in Nat /\ o.price * o.quantity \in Nat
  BY OrderAmounts
<1>4. w.reservedBRL \in Nat /\ w.reservedVibranium \in Nat
  BY WalletFields
<1>5. asset \in {"brl", "vibranium"}
  BY DEF Assets
<1>6. CASE o.side = "SELL"
  <2>1. CanReserveVibranium(w, o.quantity) /\ Reserve(w, o) = ReserveVibranium(w, o.quantity)
    BY <1>6 DEF CanReserve, Reserve, IsBuyMarket
  <2>2. /\ Reserve(w, o).reservedBRL = w.reservedBRL
        /\ Reserve(w, o).reservedVibranium = w.reservedVibranium + o.quantity
    BY <2>1 DEF ReserveVibranium, Wallet
  <2>3. Tied(o, "brl") = 0 /\ Tied(o, "vibranium") = o.quantity
    BY <1>1, <1>6 DEF Tied, IsBuyMarket
  <2> QED  BY <1>2, <1>4, <1>5, <2>2, <2>3
<1>7. CASE IsBuyMarket(o)
  <2>1. Reserve(w, o) = w /\ Tied(o, asset) = 0
    BY <1>7 DEF Reserve, IsBuyMarket, Tied
  <2> QED  BY <1>2, <1>4, <1>5, <2>1
<1>8. CASE o.side = "BUY" /\ ~IsBuyMarket(o)
  <2>1. Reserve(w, o) = ReserveBRL(w, o.price * o.quantity)
    BY <1>8 DEF Reserve
  <2> DEFINE c == o.price * o.quantity
  <2>2. Tied(o, "brl") = c /\ Tied(o, "vibranium") = 0
    BY <1>1, <1>8 DEF Tied
  <2>3. c \in Nat /\ Reserve(w, o) = ReserveBRL(w, c)
    BY <1>3, <2>1
  <2> HIDE DEF c
  <2>4. /\ Reserve(w, o).reservedBRL = w.reservedBRL + c
        /\ Reserve(w, o).reservedVibranium = w.reservedVibranium
    BY <2>3 DEF ReserveBRL, Wallet
  <2> QED  BY <1>2, <1>4, <1>5, <2>2, <2>4
<1> QED  BY <1>1, <1>6, <1>7, <1>8

\* A sum over one element more.
LEMMA TotalAdd ==
  ASSUME NEW S, IsFiniteSet(S), NEW x, x \notin S, NEW T, T = S \cup {x},
         NEW f, NEW g, \A y \in S : f[y] = g[y] /\ f[y] \in Int, g[x] \in Int
  PROVE  Total(g, T) = Total(f, S) + g[x]
<1>1. IsFiniteSet(S \cup {x}) /\ (S \cup {x}) \ {x} = S /\ x \in S \cup {x}
  BY FS_AddElement
<1>2. \A y \in S \cup {x} : g[y] \in Int
  OBVIOUS
<1>3. Total(g, S \cup {x}) = g[x] + Total(g, S)
  BY <1>1, <1>2, TotalTake
<1>4. Total(f, S) = Total(g, S) /\ Total(f, S) \in Int
  BY TotalEqual, TotalInt
<1> QED  BY <1>3, <1>4

\* A request to place an order.
LEMMA PlaceCore ==
  ASSUME BaseInv, Core, DOMAIN rows # Ids,
         NEW o \in PlacedOrders(NewId, Users, Prices, 1..MaxQty), Place(o)
  PROVE  Core'
<1>0. PICK n : n = NewId
  OBVIOUS
<1>1. n \in Ids /\ n \notin DOMAIN rows
  BY <1>0, NewIdFacts
<1>2. o \in Order /\ o.id = n /\ o.filled = 0 /\ o.status = "OPEN" /\ Sane(o)
  BY <1>0, <1>1, PlacedFacts
<1>3. Publish("NEW", n)
  BY <1>2 DEF Place
<1>4. /\ o.user \in Users /\ o.user \notin DOMAIN cache
      /\ CanReserve(wallets[o.user], o)
      /\ wallets' = [wallets EXCEPT ![o.user] = Reserve(wallets[o.user], o)]
      /\ DOMAIN rows' = DOMAIN rows \cup {n} /\ rows'[n] = o
      /\ \A id \in DOMAIN rows : rows'[id] = rows[id]
  BY <1>0, PlaceFacts
<1>5. /\ \A i \in DOMAIN stream : stream'[i] = stream[i]
      /\ UNCHANGED <<processed, cursor, pel, mpc, origin, batch, todo, cache,
                     txRows, unsettled, obj, book, locations, incoming, funds,
                     result, faults>>
  BY <1>1, <1>3, PublishFacts
<1>6. UNCHANGED bookDirty
  BY <1>3 DEF Publish
<1>7. \A id : (Known(id)' <=> Known(id)) /\ (Matched(id)' <=> Matched(id))
  BY <1>5, KnownSame, MatchedSame
<1>8. n \notin DOMAIN txRows /\ ~Known(n)
  BY <1>1, TxRowsRows, KnownIds
<1>9. \A id \in DOMAIN rows : RowView(id)' = RowView(id)
  BY <1>4, <1>5 DEF RowView
<1>10. ViewKept
  BY <1>4, <1>7, <1>8, <1>9 DEF ViewKept, Same
<1>11. JournalInv'
  BY <1>2, <1>4, <1>5, <1>7, JournalFrame DEF Core
<1>12. \A u \in Users, asset \in Assets :
         Reserved(wallets'[u])[asset] = Reserved(wallets[u])[asset]
                                          + (IF u = o.user THEN Tied(o, asset) ELSE 0)
  <2>1. wallets \in [Users -> Wallet]
    BY DEF BaseInv, TypeOK
  <2>2. \A asset \in Assets : Reserved(Reserve(wallets[o.user], o))[asset]
                                = Reserved(wallets[o.user])[asset] + Tied(o, asset)
    BY <1>2, <1>4, <2>1, ReservedAdds
  <2>3. \A u \in Users, asset \in Assets : Reserved(wallets[u])[asset] \in Nat
    BY <2>1, WalletFields DEF Reserved, Assets
  <2> QED  BY <1>4, <2>1, <2>2, <2>3
<1>13. \A asset \in Assets : Tied(o, asset) \in Nat
  BY <1>2, TiedFacts
<1>14. \A u : Mine(u)' = IF u = o.user THEN Mine(u) \cup {n} ELSE Mine(u)
  BY <1>1, <1>4 DEF Mine
<1>15. \A u : n \notin Mine(u) /\ IsFiniteSet(Mine(u)) /\ Mine(u) \subseteq DOMAIN rows
  BY <1>1, MineFacts DEF Mine
<1>16. BackedInv'
  <2> SUFFICES ASSUME NEW u \in Users, NEW asset \in Assets
               PROVE  Reserved(wallets'[u])[asset]
                        = Total([id \in Mine(u)' |-> Tied(rows'[id], asset)], Mine(u)')
    BY DEF BackedInv
  <2> DEFINE f == [id \in Mine(u) |-> Tied(rows[id], asset)]
             g == [id \in Mine(u)' |-> Tied(rows'[id], asset)]
  <2>1. Reserved(wallets[u])[asset] = Total(f, Mine(u))
    BY DEF Core, BackedInv
  <2>2. \A id \in Mine(u) : f[id] = g[id] /\ f[id] \in Int
    BY <1>4, <1>14, <1>15, ClaimInt
  <2>3. u = o.user => g[n] = Tied(o, asset)
    BY <1>4, <1>14
  <2>4. u # o.user => g = f
    BY <1>4, <1>14, <1>15
  <2> HIDE DEF f, g
  <2>5. CASE u = o.user
    <3>1. Tied(o, asset) \in Int
      BY <1>13
    <3>2. Total(g, Mine(u) \cup {n}) = Total(f, Mine(u)) + g[n]
      <4>1. g[n] \in Int /\ IsFiniteSet(Mine(u)) /\ n \notin Mine(u)
        BY <1>15, <2>3, <2>5, <3>1
      <4>2. PICK S, T, F, G : S = Mine(u) /\ T = S \cup {n} /\ F = f /\ G = g
        OBVIOUS
      <4>3. /\ IsFiniteSet(S) /\ n \notin S /\ T = S \cup {n} /\ G[n] \in Int
            /\ \A y \in S : F[y] = G[y] /\ F[y] \in Int
        BY <2>2, <4>1, <4>2
      <4>4. Total(F, S) = Total(G, S)
        BY <4>3, TotalEqual
      <4>5. /\ IsFiniteSet(T) /\ n \in T /\ T \ {n} = S
            /\ \A y \in T : G[y] \in Int
        BY <4>3, FS_AddElement
      <4>6. Total(G, T) = G[n] + Total(G, T \ {n})
        BY <4>5, TotalTake
      <4>7. Total(G, S) \in Int
        BY <4>3, TotalInt
      <4>8. \A i, j \in Int : i + j = j + i
        OBVIOUS
      <4>9. Total(G, T) = Total(F, S) + G[n]
        BY <4>3, <4>4, <4>5, <4>6, <4>7, <4>8, Zenon
      <4> QED  BY <4>2, <4>9, Zenon
    <3>3. Reserved(wallets'[u])[asset] = Total(g, Mine(u)')
      BY <1>12, <1>14, <2>1, <2>3, <2>5, <3>2
    <3> QED  BY <3>3 DEF g
  <2>6. CASE u # o.user
    <3>1. Reserved(wallets[u])[asset] \in Int
      BY <1>15, <2>1, <2>2, TotalInt
    <3>2. Reserved(wallets'[u])[asset] = Total(g, Mine(u)')
      BY <1>12, <1>14, <2>1, <2>4, <2>6, <3>1
    <3> QED  BY <3>2 DEF g
  <2> QED  BY <2>5, <2>6
<1>17. \A asset \in Assets, id \in DOMAIN rows :
         Claim(id, asset)' = Claim(id, asset) /\ Claim(id, asset) \in Int
  <2>1. Settled' = Settled
    BY <1>5 DEF Settled
  <2> QED  BY <1>5, <1>10, <2>1, ClaimFrame, ClaimInt
<1>18. ASSUME NEW asset \in Assets
       PROVE  Claim(n, asset)' = Tied(o, asset)
  <2>1. RowView(n)' = o
    BY <1>4, <1>5, <1>8 DEF RowView
  <2>2. Tied(RowView(n), asset)' = Tied(o, asset)
    BY <2>1 DEF Tied
  <2>3. Settled' = Settled /\ result' = result
    BY <1>5 DEF Settled
  <2>4. \A i \in DOMAIN result.trades :
          result.trades[i].buy[1] # n /\ result.trades[i].sell[1] # n
    BY <1>1, TradesFacts, ObjectFacts
  <2>5. \A i \in DOMAIN result.trades : Need(result.trades[i], n, asset)' = 0
    BY <2>3, <2>4 DEF Need
  <2>6. \A i \in Settled : Needs(n, asset)'[i] = 0
    BY <2>3, <2>5, TradesFacts DEF Needs
  <2>7. Total(Needs(n, asset)', Settled) = 0
    BY <2>6, TradesFacts, TotalZero
  <2> QED  BY <1>13, <2>2, <2>3, <2>7 DEF Claim
<1>19. ClaimInv'
  <2> SUFFICES ASSUME NEW u \in Users, NEW asset \in Assets
               PROVE  Reserved(View(u)')[asset]
                        = Total([id \in Mine(u)' |-> Claim(id, asset)'], Mine(u)')
    BY DEF ClaimInv
  <2> DEFINE f == [id \in Mine(u) |-> Claim(id, asset)]
             g == [id \in Mine(u)' |-> Claim(id, asset)']
  <2>1. Reserved(View(u))[asset] = Total(f, Mine(u))
    BY DEF Core, ClaimInv
  <2>2. \A id \in Mine(u) : f[id] = g[id] /\ f[id] \in Int
    BY <1>14, <1>15, <1>17
  <2>3. u = o.user => g[n] = Tied(o, asset)
    BY <1>14, <1>18
  <2>4. u # o.user => g = f
    BY <1>14, <1>15, <1>17
  <2>5. View(u)' = IF u \in DOMAIN cache THEN View(u) ELSE wallets'[u]
    BY <1>5 DEF View
  <2>6. View(u) = IF u \in DOMAIN cache THEN View(u) ELSE wallets[u]
    BY DEF View
  <2> HIDE DEF f, g
  <2>7. CASE u = o.user
    <3>1. Tied(o, asset) \in Int
      BY <1>13
    <3>2. Total(g, Mine(u) \cup {n}) = Total(f, Mine(u)) + g[n]
      <4>1. g[n] \in Int /\ IsFiniteSet(Mine(u)) /\ n \notin Mine(u)
        BY <1>15, <2>3, <2>7, <3>1
      <4>2. PICK S, T, F, G : S = Mine(u) /\ T = S \cup {n} /\ F = f /\ G = g
        OBVIOUS
      <4>3. /\ IsFiniteSet(S) /\ n \notin S /\ T = S \cup {n} /\ G[n] \in Int
            /\ \A y \in S : F[y] = G[y] /\ F[y] \in Int
        BY <2>2, <4>1, <4>2
      <4>4. Total(F, S) = Total(G, S)
        BY <4>3, TotalEqual
      <4>5. /\ IsFiniteSet(T) /\ n \in T /\ T \ {n} = S
            /\ \A y \in T : G[y] \in Int
        BY <4>3, FS_AddElement
      <4>6. Total(G, T) = G[n] + Total(G, T \ {n})
        BY <4>5, TotalTake
      <4>7. Total(G, S) \in Int
        BY <4>3, TotalInt
      <4>8. \A i, j \in Int : i + j = j + i
        OBVIOUS
      <4>9. Total(G, T) = Total(F, S) + G[n]
        BY <4>3, <4>4, <4>5, <4>6, <4>7, <4>8, Zenon
      <4> QED  BY <4>2, <4>9, Zenon
    <3>3. Reserved(View(u)')[asset] = Reserved(View(u))[asset] + Tied(o, asset)
      BY <1>4, <1>12, <2>5, <2>6, <2>7
    <3>4. Reserved(View(u)')[asset] = Total(g, Mine(u)')
      BY <1>14, <2>1, <2>3, <2>7, <3>2, <3>3
    <3> QED  BY <3>4 DEF g
  <2>8. CASE u # o.user
    <3>1. Reserved(View(u))[asset] \in Int
      BY <1>15, <2>1, <2>2, TotalInt
    <3>2. Reserved(View(u)')[asset] = Reserved(View(u))[asset]
      BY <1>12, <2>5, <2>6, <2>8, <3>1
    <3>3. Reserved(View(u)')[asset] = Total(g, Mine(u)')
      BY <1>14, <2>1, <2>4, <2>8, <3>2
    <3> QED  BY <3>3 DEF g
  <2> QED  BY <2>7, <2>8
<1>20. mpc' \in {"apply", "match", "settle"} => ~bookDirty'
  BY <1>5, <1>6, Zenon DEF Core
<1>21. Clean' => Clean
  BY <1>5, <1>6, Zenon DEF Clean
<1>22. Clean' => ObjectInv' /\ BookInv' /\ MatchInv' /\ TradeInv'
  BY <1>5, <1>10, <1>21, ObjectFrame, BookFrame, MatchFrame, TradeFrame DEF Core
<1> QED  BY <1>11, <1>16, <1>19, <1>20, <1>22, Zenon DEF Core

\* A step that changes neither rows, wallets nor the matcher's transaction,
\* and leaves the Book alone.
LEMMA QuietCore ==
  ASSUME BaseInv, Core,
         UNCHANGED <<wallets, rows, cache, txRows, unsettled, obj, book, locations,
                     incoming, funds, result>>,
         UNCHANGED bookDirty,
         \A id : Known(id)' <=> Known(id), \A id : Matched(id)' <=> Matched(id),
         mpc' = mpc \/ {mpc, mpc'} \subseteq {"poll", "reclaim", "apply"},
         mpc' = "apply" => ~bookDirty
  PROVE  Core'
<1>1. \A id \in DOMAIN rows : RowView(id)' = RowView(id)
  BY DEF RowView
<1>2. ViewKept
  BY <1>1 DEF ViewKept, Same
<1>3. JournalInv'
  BY JournalFrame DEF Core
<1>4. BackedInv'
  <2>1. BackedInv
    BY DEF Core
  <2>2. \A id, asset : Tied(rows[id], asset)' = Tied(rows[id], asset)
    BY DEF Tied
  <2> QED  BY <2>1, <2>2 DEF BackedInv, Mine
<1>5. ClaimInv'
  <2>1. Settled' = Settled
    BY DEF Settled
  <2>2. \A asset \in Assets, id \in DOMAIN rows : Claim(id, asset)' = Claim(id, asset)
    BY <1>2, <2>1, ClaimFrame
  <2>3. \A u \in Users : View(u)' = View(u)
    BY DEF View
  <2> QED  BY <2>2, <2>3, ClaimSame DEF Core
<1>6. mpc' \in {"apply", "match", "settle"} => ~bookDirty'
  <2>1. mpc' \in {"match", "settle"} => mpc \in {"match", "settle"}
    OBVIOUS
  <2> QED  BY <2>1, Zenon DEF Core
<1>7. Clean' => Clean
  <2>1. mpc' \notin {"down", "resync"} => mpc \notin {"down", "resync"}
    OBVIOUS
  <2> QED  BY <2>1, Zenon DEF Clean
<1>8. Clean => ObjectInv' /\ BookInv'
  BY <1>2, ObjectFrame, BookFrame DEF Core
<1>9. Clean => MatchInv' /\ TradeInv'
  <2>1. CASE mpc' = mpc
    BY <1>2, <2>1, MatchFrame, TradeFrame DEF Core
  <2>2. CASE mpc' # mpc
    BY <2>2 DEF MatchInv, TradeInv
  <2> QED  BY <2>1, <2>2
<1> QED  BY <1>3, <1>4, <1>5, <1>6, <1>7, <1>8, <1>9, Zenon DEF Core

\* A request to cancel an order.
LEMMA CancelCore ==
  ASSUME BaseInv, Core, NEW id \in Ids, Cancel(id)
  PROVE  Core'
<1>1. Publish("CANCEL", id) /\ UNCHANGED <<wallets, rows>>
  BY DEF Cancel
<1>2. /\ \A i \in DOMAIN stream : stream'[i] = stream[i]
      /\ UNCHANGED <<processed, cursor, pel, mpc, origin, batch, todo, cache,
                     txRows, unsettled, obj, book, locations, incoming, funds,
                     result, faults>>
  BY <1>1, PublishFacts
<1>3. UNCHANGED bookDirty
  BY <1>1 DEF Publish
<1>4. \A x : (Known(x)' <=> Known(x)) /\ (Matched(x)' <=> Matched(x))
  BY <1>2, KnownSame, MatchedSame
<1>5. mpc = "apply" => ~bookDirty
  BY Zenon DEF Core
<1> QED  BY <1>1, <1>2, <1>3, <1>4, <1>5, QuietCore

LEMMA StutterCore ==
  ASSUME BaseInv, Core, UNCHANGED vars
  PROVE  Core'
<1>1. UNCHANGED <<wallets, rows, cache, txRows, unsettled, obj, book, locations,
                  incoming, funds, result, mpc, processed, batch, todo, stream>>
  BY DEF vars
<1>2. UNCHANGED bookDirty
  BY DEF vars
<1>3. \A x : (Known(x)' <=> Known(x)) /\ (Matched(x)' <=> Matched(x))
  BY <1>1 DEF Known, Matched
<1>4. mpc = "apply" => ~bookDirty
  BY Zenon DEF Core
<1> QED  BY <1>1, <1>2, <1>3, <1>4, QuietCore

----------------------------------------------------------------------------
(* Batches *)

LEMMA MReadPendingCore ==
  ASSUME BaseInv, Core, MReadPending, ~diverged'
  PROVE  Core'
<1>1. /\ UNCHANGED <<wallets, rows, cache, txRows, unsettled, obj, book, locations,
                     incoming, funds, result, processed, stream>>
      /\ mpc = "reclaim"
  BY DEF MReadPending, dbVars, redisVars, txVars, engineVars
<1>2. UNCHANGED bookDirty
  BY DEF MReadPending
<1>3. batch = {} /\ todo = {}
  BY <1>1 DEF BaseInv, PhaseInv, TypeOK
<1>4. /\ batch' \ todo' = {} /\ mpc' \in {"poll", "apply"}
      /\ mpc' = "apply" => ~bookDirty
  <2>1. CASE pel # {} /\ StartBatch(FirstOf(pel, BatchSize))
    <3>1. mpc' = "apply" /\ batch' = todo'
      BY <2>1 DEF StartBatch
    <3>2. ~bookDirty
      BY <2>1, Zenon DEF StartBatch
    <3> QED  BY <3>1, <3>2
  <2>2. CASE pel = {}
    BY <1>3, <2>2 DEF MReadPending
  <2> QED  BY <2>1, <2>2 DEF MReadPending
<1>5. \A x : (Known(x)' <=> Known(x)) /\ (Matched(x)' <=> Matched(x))
  BY <1>1, <1>3, <1>4 DEF Known, Matched
<1> QED  BY <1>1, <1>2, <1>4, <1>5, QuietCore

LEMMA MReadNewCore ==
  ASSUME BaseInv, Core, MReadNew, ~diverged'
  PROVE  Core'
<1>1. /\ UNCHANGED <<wallets, rows, cache, txRows, unsettled, obj, book, locations,
                     incoming, funds, result, processed, stream>>
      /\ mpc = "poll"
  BY DEF MReadNew, dbVars, txVars, engineVars
<1>2. UNCHANGED bookDirty
  BY DEF MReadNew
<1>3. batch = {} /\ todo = {}
  BY <1>1 DEF BaseInv, PhaseInv, TypeOK
<1>4. StartBatch(FirstOf((cursor + 1)..Len(stream), BatchSize))
  BY ReadNewFacts
<1>5. mpc' = "apply" /\ batch' \ todo' = {}
  BY <1>4 DEF StartBatch
<1>6. ~bookDirty
  BY <1>4, Zenon DEF StartBatch
<1>7. \A x : (Known(x)' <=> Known(x)) /\ (Matched(x)' <=> Matched(x))
  BY <1>1, <1>3, <1>5 DEF Known, Matched
<1> QED  BY <1>1, <1>2, <1>5, <1>6, <1>7, QuietCore

LEMMA ApplyDuplicateCore ==
  ASSUME BaseInv, Core, ApplyDuplicate
  PROVE  Core'
<1>1. /\ UNCHANGED <<wallets, rows, cache, txRows, unsettled, obj, book, locations,
                     incoming, funds, result, processed, stream, mpc, batch>>
      /\ mpc = "apply"
  BY DEF ApplyDuplicate, dbVars, redisVars, txVars, engineVars
<1>2. UNCHANGED bookDirty
  BY DEF ApplyDuplicate
<1>3. PICK i \in processed : IsNext(i) /\ todo' = todo \ {i}
  BY DEF ApplyDuplicate
<1>4. processed' \cup (batch' \ todo') = processed \cup (batch \ todo)
  BY <1>1, <1>3
<1>5. \A x : (Known(x)' <=> Known(x)) /\ (Matched(x)' <=> Matched(x))
  BY <1>1, <1>4 DEF Known, Matched
<1>6. ~bookDirty
  BY <1>1, Zenon DEF Core
<1> QED  BY <1>1, <1>2, <1>5, <1>6, QuietCore

----------------------------------------------------------------------------
(* The end of a batch *)

LEMMA EndTxFacts ==
  ASSUME EndTx
  PROVE  /\ batch' = {} /\ todo' = {} /\ cache' = Nothing /\ txRows' = Nothing
         /\ DOMAIN txRows' = {} /\ DOMAIN cache' = {}
BY NothingFacts DEF EndTx

\* The transaction rolls back: Postgres is as it was.
LEMMA RolledBack ==
  ASSUME BaseInv, BaseInv', Core, EndTx, UNCHANGED <<wallets, rows, processed, stream>>,
         mpc' # "settle"
  PROVE  JournalInv' /\ BackedInv' /\ ClaimInv'
<1>1. JournalInv'
  <2>1. \A id : Matched(id)' <=> Matched(id)
    BY DEF Matched
  <2>2. JournalInv
    BY DEF Core
  <2> QED  BY <2>1, <2>2, EndTxFacts DEF JournalInv
<1>2. BackedInv'
  <2>1. BackedInv
    BY DEF Core
  <2>2. \A id, asset : Tied(rows[id], asset)' = Tied(rows[id], asset)
    BY DEF Tied
  <2> QED  BY <2>1, <2>2 DEF BackedInv, Mine
<1>3. ClaimInv'
  BY <1>2, EndTxFacts, ClaimBacked
<1> QED  BY <1>1, <1>2, <1>3

\* The transaction commits: Postgres is what it saw.
LEMMA Committed ==
  ASSUME BaseInv, BaseInv', Core, Flush, EndTx, UNCHANGED stream, mpc = "apply", todo = {},
         mpc' # "settle"
  PROVE  JournalInv' /\ BackedInv' /\ ClaimInv' /\ ViewKept
<1>1. /\ wallets' = [u \in Users |-> View(u)] /\ processed' = processed \cup batch
      /\ DOMAIN rows' = DOMAIN rows /\ \A id \in DOMAIN rows : rows'[id] = RowView(id)
  BY FlushFacts
<1>2. \A id : (Known(id)' <=> Known(id)) /\ (Matched(id)' <=> Known(id))
  BY <1>1, EndTxFacts DEF Known, Matched
<1>3. \A id \in DOMAIN rows : RowView(id)' = RowView(id)
  BY <1>1, EndTxFacts DEF RowView
<1>4. \A id \in DOMAIN rows : Same(rows'[id], rows[id])
  BY <1>1, ViewRow
<1>5. ViewKept
  BY <1>1, <1>2, <1>3, <1>4 DEF ViewKept
<1>6. JournalInv'
  <2>1. ASSUME NEW id \in DOMAIN rows, ~Matched(id)'
        PROVE  rows'[id].filled = 0 /\ rows'[id].status = "OPEN"
    <3>1. ~Known(id) /\ ~Matched(id)
      BY <1>2, <2>1, MatchedKnown
    <3>2. id \notin DOMAIN txRows
      BY <3>1 DEF Core, JournalInv
    <3>3. rows'[id] = rows[id]
      BY <1>1, <3>2 DEF RowView
    <3> QED  BY <3>1, <3>3 DEF Core, JournalInv
  <2> QED  BY <1>1, <2>1, EndTxFacts DEF JournalInv
<1>7. BackedInv'
  <2> SUFFICES ASSUME NEW u \in Users, NEW asset \in Assets
               PROVE  Reserved(wallets'[u])[asset]
                        = Total([id \in Mine(u)' |-> Tied(rows'[id], asset)], Mine(u)')
    BY DEF BackedInv
  <2>1. Mine(u)' = Mine(u) /\ Mine(u) \subseteq DOMAIN rows
    BY <1>1, <1>4 DEF Mine, Same
  <2>2. Settled = {}
    BY DEF Settled
  <2>3. \A id \in DOMAIN rows : Tied(rows'[id], asset) = Claim(id, asset)
    BY <1>1, <2>2, ClaimUnsettled
  <2>4. [id \in Mine(u)' |-> Tied(rows'[id], asset)] = [id \in Mine(u) |-> Claim(id, asset)]
    BY <2>1, <2>3
  <2>5. Reserved(View(u))[asset] = Total([id \in Mine(u) |-> Claim(id, asset)], Mine(u))
    BY DEF Core, ClaimInv
  <2> QED  BY <1>1, <2>1, <2>4, <2>5
<1>8. ClaimInv'
  BY <1>7, EndTxFacts, ClaimBacked
<1> QED  BY <1>5, <1>6, <1>7, <1>8

LEMMA MCommitCore ==
  ASSUME BaseInv, BaseInv', Core, MCommit
  PROVE  Core'
<1>1. /\ mpc = "apply" /\ todo = {} /\ Flush /\ EndTx
      /\ UNCHANGED <<stream, obj, book, locations, incoming, funds, result>>
      /\ mpc' \in {"poll", "reclaim"}
  BY DEF MCommit, engineVars
<1>2. UNCHANGED bookDirty
  BY DEF MCommit
<1>3. JournalInv' /\ BackedInv' /\ ClaimInv' /\ ViewKept
  BY <1>1, Committed
<1>4. Clean
  <2>1. mpc \notin {"down", "resync"}
    BY <1>1
  <2> QED  BY <1>1, <2>1, Zenon DEF Core, Clean
<1>5. ObjectInv' /\ BookInv'
  BY <1>1, <1>3, <1>4, ObjectFrame, BookFrame DEF Core
<1>6. MatchInv' /\ TradeInv'
  BY <1>1 DEF MatchInv, TradeInv
<1>7. mpc' \notin {"apply", "match", "settle"}
  BY <1>1
<1> QED  BY <1>3, <1>5, <1>6, <1>7, Zenon DEF Core

\* After a failure the Book is dirty or gone.
LEMMA FailedCore ==
  ASSUME JournalInv', BackedInv', ClaimInv', bookDirty' \/ mpc' = "down",
         mpc' \in {"down", "resync", "poll"}
  PROVE  Core'
<1>1. ~Clean'
  BY DEF Clean
<1>2. mpc' \notin {"apply", "match", "settle"}
  OBVIOUS
<1> QED  BY <1>1, <1>2, Zenon DEF Core

\* What every failure of a batch does (FailBatch, for any step of the Book).
LEMMA FailBatchFacts ==
  ASSUME \/ origin = "boot" /\ Die
         \/ /\ mpc' = IF origin = "poll" THEN "resync" ELSE "poll"
            /\ bookDirty' = TRUE /\ EndTx
  PROVE  EndTx /\ mpc' \in {"down", "resync", "poll"} /\ (bookDirty' \/ mpc' = "down")
<1>1. CASE origin = "boot" /\ Die
  BY <1>1 DEF Die
<1>2. CASE /\ mpc' = IF origin = "poll" THEN "resync" ELSE "poll"
           /\ bookDirty' = TRUE /\ EndTx
  BY <1>2
<1> QED  BY <1>1, <1>2

LEMMA SettleRejectCore ==
  ASSUME BaseInv, BaseInv', Core, SettleReject
  PROVE  Core'
<1>1. UNCHANGED <<wallets, rows, processed, stream>>
  BY DEF SettleReject, dbVars, redisVars
<1>2. EndTx /\ mpc' \in {"down", "resync", "poll"} /\ (bookDirty' \/ mpc' = "down")
  BY FailBatchFacts, Zenon DEF SettleReject, FailBatch
<1>3. mpc' # "settle"
  BY <1>2
<1> QED  BY <1>1, <1>2, <1>3, RolledBack, FailedCore

LEMMA MFaultCore ==
  ASSUME BaseInv, BaseInv', Core, MFault
  PROVE  Core'
<1>1. UNCHANGED stream /\ FailBatch(UNCHANGED <<obj, book, locations, incoming>>)
  BY DEF MFault, redisVars
<1>2. EndTx /\ mpc' \in {"down", "resync", "poll"} /\ (bookDirty' \/ mpc' = "down")
  BY <1>1, FailBatchFacts, Zenon DEF FailBatch
<1>3. mpc' # "settle"
  BY <1>2
<1>4. CASE UNCHANGED dbVars
  <2>1. UNCHANGED <<wallets, rows, processed>>
    BY <1>4 DEF dbVars
  <2> QED  BY <1>1, <1>2, <1>3, <2>1, RolledBack, FailedCore
<1>5. CASE mpc = "apply" /\ todo = {} /\ Flush
  BY <1>1, <1>2, <1>3, <1>5, Committed, FailedCore
<1> QED  BY <1>4, <1>5 DEF MFault

LEMMA MCrashCore ==
  ASSUME BaseInv, BaseInv', Core, MCrash
  PROVE  Core'
<1>1. /\ UNCHANGED <<wallets, rows, processed, stream>> /\ EndTx /\ mpc' = "down"
  BY DEF MCrash, Die, dbVars, redisVars
<1>2. mpc' # "settle" /\ mpc' \in {"down", "resync", "poll"}
  BY <1>1
<1> QED  BY <1>1, <1>2, RolledBack, FailedCore

----------------------------------------------------------------------------
(* Recovery *)

\* A step that leaves Postgres and what the transaction sees of it alone.
LEMMA DbQuiet ==
  ASSUME BaseInv, Core, UNCHANGED <<wallets, rows, txRows>>,
         \A u \in Users : View(u)' = View(u),
         \A id : Known(id) => Known(id)', \A id : Matched(id)' <=> Matched(id),
         Settled = {}, Settled' = {}
  PROVE  JournalInv' /\ BackedInv' /\ ClaimInv'
<1>1. JournalInv'
  BY JournalFrame DEF Core
<1>2. BackedInv'
  <2>1. BackedInv
    BY DEF Core
  <2>2. \A id, asset : Tied(rows[id], asset)' = Tied(rows[id], asset)
    BY DEF Tied
  <2> QED  BY <2>1, <2>2 DEF BackedInv, Mine
<1>3. ClaimInv'
  <2>1. \A id \in DOMAIN rows : RowView(id)' = RowView(id)
    BY DEF RowView
  <2>2. \A asset \in Assets, id \in DOMAIN rows : Claim(id, asset)' = Claim(id, asset)
    BY <2>1, ClaimQuiet
  <2> QED  BY <2>2, ClaimSame DEF Core
<1> QED  BY <1>1, <1>2, <1>3

\* The Book that RecoverBook builds, when all the live orders have had their
\* event processed, agrees with Postgres.
LEMMA RecoverCore ==
  ASSUME BaseInv, Core, RecoverBook, ~diverged', mpc \in {"down", "resync"},
         mpc' = "reclaim", UNCHANGED <<dbVars, redisVars, batch, todo, txVars>>
  PROVE  Core'
<1>1. /\ UNCHANGED <<wallets, rows, processed, stream, batch, todo, cache, txRows>>
      /\ batch = {} /\ cache = Nothing /\ txRows = Nothing /\ incoming = NoRef
  BY DEF dbVars, redisVars, txVars, BaseInv, PhaseInv
<1>2. /\ Settled = {} /\ Settled' = {} /\ \A u \in Users : View(u)' = View(u)
      /\ \A id : (Known(id)' <=> Known(id)) /\ (Matched(id)' <=> Matched(id))
      /\ \A id \in DOMAIN rows : RowView(id)' = rows[id]
  BY <1>1, NothingFacts DEF Settled, View, Known, Matched, RowView
<1>3. JournalInv' /\ BackedInv' /\ ClaimInv'
  BY <1>1, <1>2, DbQuiet
<1>4. \A id \in Live : Known(id)'
  <2>1. \A id \in Live : Matched(id)
    BY Zenon DEF RecoverBook
  <2> QED  BY <1>2, <2>1, MatchedKnown
<1>5. /\ Live \subseteq DOMAIN rows /\ Live \subseteq Ids
      /\ DOMAIN obj' = {<<id, "row">> : id \in Live}
      /\ \A id \in Live : obj'[<<id, "row">>] = rows[id]
      /\ \A r \in DOMAIN obj' : r[1] \in Live /\ r = <<r[1], "row">> /\ obj'[r] = rows[r[1]]
      /\ locations' = [id \in Live |-> <<id, "row">>]
      /\ \A s \in Sides, p \in Prices : book'[s][p] \in Queues(s, p)
      /\ UNCHANGED <<incoming, funds, result>>
  BY RecoverFacts
<1>6. ObjectInv'
  <2>1. \A r, x \in DOMAIN obj' : r[1] = x[1] => r = x
    BY <1>5
  <2>2. ASSUME NEW r \in DOMAIN obj'
        PROVE  Known(r[1])' /\ RowView(r[1])' = obj'[r]
    BY <1>2, <1>4, <1>5
  <2>3. \A o : o \in Order => Advanced(o, o)
    BY OrderAmounts DEF Advanced
  <2>4. \A r \in DOMAIN obj' : obj'[r] \in Order
    BY <1>5, RowFacts
  <2>5. \A r \in DOMAIN obj' : Advanced(RowView(r[1])', obj'[r])
    BY <2>2, <2>3, <2>4
  <2>6. ASSUME NEW id \in DOMAIN rows', rows'[id].type = "LIMIT", ~IsDone(RowView(id)')
        PROVE  \E r \in DOMAIN obj' : r[1] = id
    <3>1. id \in Live
      BY <1>1, <1>2, <2>6 DEF Live
    <3> QED  BY <1>5, <3>1
  <2> QED  BY <2>1, <2>2, <2>5, <2>6 DEF ObjectInv
<1>7. \A id \in Live : rows[id].side \in Sides /\ rows[id].price \in Prices
                       /\ rows[id].type = "LIMIT" /\ ~IsDone(rows[id])
  BY <1>5, RowFacts DEF Live, BaseInv, RowInv, Order, OrderType
<1>8. BookInv'
  <2>1. ASSUME NEW s \in Sides, NEW p \in Prices, NEW i \in DOMAIN book'[s][p]
        PROVE  LET r == book'[s][p][i] IN
               /\ obj'[r].side = s /\ obj'[r].price = p
               /\ r # incoming'
               /\ r[1] \in DOMAIN locations' /\ locations'[r[1]] = r
               /\ \A j \in DOMAIN book'[s][p] : book'[s][p][j] = r => i = j
    <3>1. book'[s][p] \in Queues(s, p)
      BY <1>5
    <3>2. PICK q : q = book'[s][p]
      OBVIOUS
    <3>3. PICK id \in Live : q[i] = <<id, "row">> /\ rows[id].side = s /\ rows[id].price = p
      BY <2>1, <3>1, <3>2, QueueFacts
    <3>4. \A j \in DOMAIN q : q[j] = q[i] => i = j
      BY <2>1, <3>1, <3>2, QueueFacts
    <3>5. obj'[<<id, "row">>] = rows[id] /\ locations'[id] = <<id, "row">> /\ id \in DOMAIN locations'
      BY <1>5, <3>3
    <3>6. <<id, "row">> # incoming'
      <4>1. <<id, "row">> \in Refs
        BY <1>5, <3>3, ObjectsAssumption
      <4> QED  BY <1>1, <1>5, <4>1, RefsAssumption
    <3> QED  BY <3>2, <3>3, <3>4, <3>5, <3>6
  <2>2. ASSUME NEW id \in DOMAIN locations'
        PROVE  LET r == locations'[id] IN
               /\ obj'[r].type = "LIMIT"
               /\ \E i \in DOMAIN book'[obj'[r].side][obj'[r].price] :
                    book'[obj'[r].side][obj'[r].price][i] = r
    <3>1. id \in Live /\ locations'[id] = <<id, "row">> /\ obj'[<<id, "row">>] = rows[id]
      BY <1>5
    <3>2. PICK s \in Sides, p \in Prices : s = rows[id].side /\ p = rows[id].price
      BY <1>7, <3>1
    <3>3. book'[s][p] \in Queues(s, p)
      BY <1>5
    <3>4. \E i \in DOMAIN book'[s][p] : book'[s][p][i] = <<id, "row">>
      <4>1. PICK q : q = book'[s][p]
        OBVIOUS
      <4>2. q \in Queues(s, p) /\ id \in Live /\ rows[id].side = s /\ rows[id].price = p
        BY <3>1, <3>2, <3>3, <4>1
      <4>3. \E i \in DOMAIN q : q[i] = <<id, "row">>
        BY <4>2, QueueFacts
      <4> QED  BY <4>1, <4>3, Zenon
    <3>5. PICK r : r = locations'[id]
      OBVIOUS
    <3>6. obj'[r].type = "LIMIT" /\ obj'[r].side = s /\ obj'[r].price = p
      BY <1>7, <3>1, <3>2, <3>5
    <3> QED  BY <3>1, <3>4, <3>5, <3>6, Zenon
  <2>3. \A r \in DOMAIN obj' :
          r[1] \in DOMAIN locations' /\ obj'[r].type = "LIMIT" /\ ~IsDone(obj'[r])
    BY <1>5, <1>7
  <2> QED  BY <2>1, <2>2, <2>3 DEF BookInv
<1>9. MatchInv' /\ TradeInv'
  BY DEF MatchInv, TradeInv
<1>10. mpc' \notin {"apply", "match", "settle"}
  OBVIOUS
<1> QED  BY <1>3, <1>6, <1>8, <1>9, <1>10, Zenon DEF Core

----------------------------------------------------------------------------
(* A new order *)

\* The order whose NEW_ORDER event is at hand has not been seen: it has no
\* object, and is as it was placed.
LEMMA FreshFacts ==
  ASSUME BaseInv, Core, mpc = "apply", NEW i \in todo \ processed, i \in DOMAIN stream,
         NEW id, stream[i] = [kind |-> "NEW", id |-> id]
  PROVE  /\ id \in DOMAIN rows /\ ~Known(id) /\ ~Matched(id)
         /\ id \notin DOMAIN txRows /\ RowView(id) = rows[id]
         /\ rows[id].filled = 0 /\ rows[id].status = "OPEN"
         /\ EventOrder(id) = rows[id]
         /\ \A r \in DOMAIN obj : r[1] # id
<1>1. id \in DOMAIN rows
  BY DEF BaseInv, RowInv
<1>2. ~Known(id)
  <2> SUFFICES ASSUME NEW j \in processed \cup (batch \ todo),
                      stream[j] = [kind |-> "NEW", id |-> id]
               PROVE  FALSE
    BY DEF Known
  <2>1. j \in DOMAIN stream /\ stream[i].kind = "NEW" /\ stream[i] = stream[j]
    BY ProcessedFacts
  <2>2. i = j
    BY <2>1 DEF BaseInv, RowInv
  <2> QED  BY <2>2
<1>3. ~Matched(id)
  BY <1>2, MatchedKnown
<1>4. id \notin DOMAIN txRows
  BY <1>2 DEF Core, JournalInv
<1>5. rows[id].filled = 0 /\ rows[id].status = "OPEN"
  BY <1>1, <1>3 DEF Core, JournalInv
<1>6. EventOrder(id) = rows[id]
  <2>1. PICK o \in Order : o = rows[id]
    BY <1>1, RowFacts
  <2>2. o = [id |-> o.id, user |-> o.user, side |-> o.side, type |-> o.type,
             price |-> o.price, quantity |-> o.quantity, filled |-> o.filled,
             status |-> o.status]
    BY DEF Order, OrderType
  <2>3. EventOrder(id) = [o EXCEPT !.filled = 0, !.status = "OPEN"]
    BY <2>1 DEF EventOrder
  <2>4. [o EXCEPT !.filled = 0, !.status = "OPEN"] = o
    BY <1>5, <2>1, <2>2
  <2> QED  BY <2>1, <2>3, <2>4
<1>7. Clean
  <2>1. mpc \notin {"down", "resync"}
    OBVIOUS
  <2> QED  BY <2>1, Zenon DEF Core, Clean
<1>8. \A r \in DOMAIN obj : Known(r[1])
  BY <1>7 DEF Core, ObjectInv
<1>9. \A r \in DOMAIN obj : r[1] # id
  BY <1>2, <1>8
<1> QED  BY <1>1, <1>2, <1>3, <1>4, <1>5, <1>6, <1>9 DEF RowView

LEMMA ApplyNewCore ==
  ASSUME BaseInv, BaseInv', Core, ApplyNew
  PROVE  Core'
<1>1. /\ mpc = "apply" /\ mpc' = "match"
      /\ UNCHANGED <<wallets, rows, processed, stream, batch, txRows, unsettled, book, locations>>
  BY DEF ApplyNew, StartMatch, dbVars, redisVars
<1>2. UNCHANGED bookDirty
  BY DEF ApplyNew
<1>3. PICK i, id, o, r, f :
        /\ i \in todo \ processed /\ id = stream[i].id /\ o = EventOrder(id) /\ r = <<id, "event">>
        /\ f = IF IsBuyMarket(o) THEN AvailableBRL(View(o.user)) ELSE 0
        /\ IsNext(i) /\ i \in DOMAIN stream
        /\ stream[i] = [kind |-> "NEW", id |-> id]
        /\ todo' = todo \ {i}
        /\ DOMAIN obj' = DOMAIN obj \cup {r} /\ obj'[r] = o
        /\ \A x \in DOMAIN obj : x # r => obj'[x] = obj[x]
        /\ incoming' = r /\ funds' = f /\ f \in Int
        /\ result' = [incoming |-> r, trades |-> <<>>, touched |-> <<>>, cancelled |-> 0]
        /\ \A u \in Users : View(u)' = View(u)
        /\ IsBuyMarket(o) => o.user \in DOMAIN cache'
  BY ApplyNewFacts, Zenon
<1>4. /\ id \in DOMAIN rows /\ ~Known(id) /\ id \notin DOMAIN txRows
      /\ o = rows[id] /\ RowView(id) = o /\ \A x \in DOMAIN obj : x[1] # id
  <2>1. /\ i \in todo \ processed /\ i \in DOMAIN stream
        /\ stream[i] = [kind |-> "NEW", id |-> id] /\ o = EventOrder(id)
    BY <1>3
  <2>2. /\ id \in DOMAIN rows /\ ~Known(id) /\ id \notin DOMAIN txRows
        /\ EventOrder(id) = rows[id] /\ RowView(id) = rows[id]
        /\ \A x \in DOMAIN obj : x[1] # id
    BY <1>1, <2>1, FreshFacts
  <2> QED  BY <2>1, <2>2
<1>5. r[1] = id /\ r \notin DOMAIN obj /\ \A x \in DOMAIN obj : obj'[x] = obj[x]
  BY <1>3, <1>4
<1>6. \A x : (Matched(x)' <=> Matched(x)) /\ (Known(x)' <=> Known(x) \/ x = id)
  <2>1. i \in batch
    BY <1>3 DEF BaseInv, TypeOK
  <2>2. processed' \cup (batch' \ todo') = (processed \cup (batch \ todo)) \cup {i}
    BY <1>1, <1>3, <2>1
  <2>3. \A x : [kind |-> "NEW", id |-> id] = [kind |-> "NEW", id |-> x] <=> x = id
    OBVIOUS
  <2> QED  BY <1>1, <1>3, <2>2, <2>3 DEF Matched, Known
<1>7. Settled = {} /\ Settled' = {} /\ \A x \in DOMAIN rows : RowView(x)' = RowView(x)
  BY <1>1 DEF Settled, RowView
<1>8. JournalInv' /\ BackedInv' /\ ClaimInv'
  BY <1>1, <1>3, <1>6, <1>7, DbQuiet
<1>9. Clean
  <2>1. mpc \notin {"down", "resync"}
    BY <1>1
  <2> QED  BY <1>1, <2>1, Zenon DEF Core, Clean
<1>10. ObjectInv /\ BookInv
  BY <1>9 DEF Core
<1>11. result'.incoming = r /\ result'.trades = <<>> /\ result'.touched = <<>>
       /\ result'.cancelled = 0 /\ DOMAIN result'.trades = {} /\ DOMAIN result'.touched = {}
  BY <1>3
<1>12. Changed' = {r}
  BY <1>11 DEF Changed
<1>13. \A x \in DOMAIN obj : obj[x] = RowView(x[1]) /\ x[1] \in DOMAIN rows /\ x \in Refs
  <2>1. result = NoResult
    BY <1>1 DEF BaseInv, PhaseInv
  <2>2. Changed = {NoRef}
    BY <2>1, NoResultFacts DEF Changed
  <2>3. \A x \in DOMAIN obj : x \in Refs /\ x[1] \in DOMAIN rows
    BY ObjectFacts
  <2> QED  BY <1>10, <2>2, <2>3, RefsAssumption DEF ObjectInv
<1>14. \A x \in DOMAIN obj' : obj'[x] = RowView(x[1])' /\ x[1] \in DOMAIN rows /\ obj'[x] \in Order
  <2>1. obj'[r] = RowView(r[1])' /\ r[1] \in DOMAIN rows /\ obj'[r] \in Order
    BY <1>3, <1>4, <1>5, <1>7, RowFacts
  <2>2. \A x \in DOMAIN obj : obj'[x] = RowView(x[1])' /\ x[1] \in DOMAIN rows /\ obj'[x] \in Order
    BY <1>5, <1>7, <1>13, ObjectFacts
  <2> QED  BY <1>3, <2>1, <2>2
<1>15. ObjectInv'
  <2>1. \A x, y \in DOMAIN obj' : x[1] = y[1] => x = y
    BY <1>3, <1>4, <1>5, <1>10 DEF ObjectInv
  <2>2. \A x \in DOMAIN obj' : Known(x[1])'
    BY <1>3, <1>5, <1>6, <1>10 DEF ObjectInv
  <2>3. \A a : a \in Order => Advanced(a, a)
    BY OrderAmounts DEF Advanced
  <2>4. \A x \in DOMAIN obj' : Advanced(RowView(x[1])', obj'[x])
    BY <1>14, <2>3
  <2>5. ASSUME NEW x \in DOMAIN rows, Known(x)', rows[x].type = "LIMIT", ~IsDone(RowView(x)')
        PROVE  \E y \in DOMAIN obj' : y[1] = x
    <3>1. CASE x = id
      BY <1>3, <1>5, <3>1
    <3>2. CASE x # id
      BY <1>3, <1>6, <1>7, <1>10, <2>5, <3>2 DEF ObjectInv
    <3> QED  BY <3>1, <3>2
  <2> QED  BY <1>1, <1>14, <2>1, <2>2, <2>4, <2>5 DEF ObjectInv
<1>16. BookInv'
  <2>1. \A s \in Sides, p \in Prices : \A k \in DOMAIN book[s][p] :
          book[s][p][k] \in DOMAIN obj
    BY DEF BaseInv, HeapInv
  <2>2. \A x \in DOMAIN locations : locations[x] \in DOMAIN obj
    BY DEF BaseInv, HeapInv
  <2>3. incoming = NoRef
    BY <1>1 DEF BaseInv, PhaseInv
  <2>4. \A x \in DOMAIN obj' \ {incoming'} : x \in DOMAIN obj \ {incoming}
    BY <1>3, <1>13, <2>3, RefsAssumption
  <2>5. ASSUME NEW s \in Sides, NEW p \in Prices, NEW k \in DOMAIN book[s][p]
        PROVE  LET x == book[s][p][k] IN
               /\ obj'[x].side = s /\ obj'[x].price = p
               /\ x # incoming'
               /\ x[1] \in DOMAIN locations /\ locations[x[1]] = x
               /\ \A j \in DOMAIN book[s][p] : book[s][p][j] = x => k = j
    <3>1. PICK x : x = book[s][p][k]
      OBVIOUS
    <3>2. x \in DOMAIN obj /\ obj'[x] = obj[x] /\ x # incoming'
      BY <1>3, <1>5, <2>1, <3>1
    <3>3. /\ obj[x].side = s /\ obj[x].price = p
          /\ x[1] \in DOMAIN locations /\ locations[x[1]] = x
          /\ \A j \in DOMAIN book[s][p] : book[s][p][j] = x => k = j
      BY <1>10, <3>1 DEF BookInv
    <3> QED  BY <3>1, <3>2, <3>3
  <2>6. ASSUME NEW x \in DOMAIN locations
        PROVE  LET y == locations[x] IN
               /\ obj'[y].type = "LIMIT"
               /\ \E k \in DOMAIN book[obj'[y].side][obj'[y].price] :
                    book[obj'[y].side][obj'[y].price][k] = y
    <3>1. PICK y : y = locations[x]
      OBVIOUS
    <3>2. obj'[y] = obj[y]
      BY <1>5, <2>2, <3>1
    <3>3. /\ obj[y].type = "LIMIT"
          /\ \E k \in DOMAIN book[obj[y].side][obj[y].price] :
               book[obj[y].side][obj[y].price][k] = y
      BY <1>10, <3>1 DEF BookInv
    <3> QED  BY <3>1, <3>2, <3>3
  <2>7. \A x \in DOMAIN obj' \ {incoming'} :
          x[1] \in DOMAIN locations <=> obj'[x].type = "LIMIT" /\ ~IsDone(obj'[x])
    BY <1>5, <1>10, <2>4 DEF BookInv
  <2> QED  BY <1>1, <2>5, <2>6, <2>7 DEF BookInv
<1>17. MatchInv'
  <2> SUFFICES ASSUME NEW x \in DOMAIN obj', NEW asset \in Assets
               PROVE  Tied(RowView(x[1]), asset)' =
                        Tied(obj[x], asset)' + Rest(x, asset)'
                          + Total(Needs(x[1], asset)', DOMAIN result'.trades)
    BY DEF MatchInv
  <2>1. Total(Needs(x[1], asset)', DOMAIN result'.trades) = 0
    BY <1>11, TotalEmpty
  <2>2. Rest(x, asset)' = 0
    BY <1>11 DEF Rest, Remainder
  <2>3. Tied(RowView(x[1]), asset)' = Tied(obj[x], asset)'
    BY <1>14 DEF Tied
  <2>4. Tied(obj[x], asset)' \in Nat
    <3>1. obj'[x] \in Order /\ Sane(obj'[x])
      BY <1>14 DEF BaseInv, RowInv
    <3>2. Tied(obj'[x], asset) \in Nat
      BY <3>1, TiedFacts
    <3> QED  BY <3>2
  <2> QED  BY <2>1, <2>2, <2>3, <2>4
<1>18. TradeInv'
  <2>1. Taker' = o
    BY <1>3, <1>11 DEF Taker
  <2>2. ASSUME IsBuyMarket(o)
        PROVE  /\ o.user \in DOMAIN cache'
               /\ \/ funds' <= 0
                  \/ /\ funds' >= 0
                     /\ Total(Costs', DOMAIN result'.trades \ Settled')
                          + funds' <= View(o.user)'.brl
    <3>1. o.user \in Users
      BY <1>4, RowFacts
    <3>2. View(o.user)' = View(o.user) /\ View(o.user) \in Wallet
      BY <1>3, <3>1, ViewType
    <3>3. funds' = View(o.user).brl - View(o.user).reservedBRL
      BY <1>3, <2>2 DEF AvailableBRL
    <3>4. Total(Costs', DOMAIN result'.trades \ Settled') = 0
      <4>1. DOMAIN result'.trades \ Settled' = {}
        BY <1>11
      <4> QED  BY <4>1, TotalEmpty
    <3>5. View(o.user).brl \in Nat /\ View(o.user).reservedBRL \in Nat
      BY <3>2, WalletFields
    <3> QED  BY <1>3, <2>2, <3>2, <3>3, <3>4, <3>5
  <2> QED  BY <1>1, <1>11, <2>1, <2>2 DEF TradeInv
<1>19. ~bookDirty'
  BY <1>1, <1>2, Zenon DEF Core
<1> QED  BY <1>8, <1>15, <1>16, <1>17, <1>18, <1>19, Zenon DEF Core

----------------------------------------------------------------------------
(* Matching *)

\* What a fill takes from what the order ties up.
Takes(o, q, asset) ==
  IF asset = "brl" THEN (IF o.side = "BUY" THEN o.price * q ELSE 0)
                   ELSE (IF o.side = "SELL" THEN q ELSE 0)

LEMMA TiedFill ==
  ASSUME NEW o \in Order, Sane(o), ~IsDone(o), o.type = "MARKET" => o.price = NoPrice,
         NEW q \in Int, q > 0, q <= Remaining(o), NEW asset \in Assets
  PROVE  Tied(o, asset) = Tied(Fill(o, q), asset) + Takes(o, q, asset)
<1> DEFINE n == Fill(o, q)
<1>1. CanFill(o, q)
  BY DEF CanFill
<1>2. /\ n \in Order /\ n.side = o.side /\ n.type = o.type /\ n.price = o.price
      /\ n.quantity = o.quantity /\ n.filled = o.filled + q
      /\ n.status = IF n.filled = n.quantity THEN "FILLED" ELSE "PARTIALLY_FILLED"
  BY <1>1, FillFacts
<1>3. /\ o.price \in Nat /\ o.quantity \in Nat /\ o.filled \in Nat
      /\ asset \in {"brl", "vibranium"} /\ o.side \in {"BUY", "SELL"}
      /\ Remaining(o) = o.quantity - o.filled
  BY OrderAmounts DEF Order, OrderType, Assets, Sides, Remaining
<1> HIDE DEF n
<1>4. Remaining(n) = Remaining(o) - q /\ Remaining(o) \in Int
  BY <1>2, <1>3 DEF Remaining
<1>5. IsDone(n) <=> Remaining(n) = 0
  BY <1>2, <1>3 DEF IsDone, Remaining
<1>6. IsBuyMarket(n) <=> IsBuyMarket(o)
  BY <1>2 DEF IsBuyMarket
<1>7. /\ o.price * (Remaining(o) - q) + o.price * q = o.price * Remaining(o)
      /\ o.price * 0 = 0
      /\ \A x \in Int : 0 * x = 0
  <2>1. \A a \in Int, b \in Int, c \in Int : a * (b - c) + a * c = a * b
    OBVIOUS
  <2> QED  BY <1>3, <1>4, <2>1
<1>8. CASE asset = "brl" /\ o.side = "BUY" /\ ~IsBuyMarket(o)
  <2>1. Tied(o, asset) = o.price * Remaining(o) /\ Takes(o, q, asset) = o.price * q
    BY <1>8 DEF Tied, Takes
  <2>2. CASE IsDone(n)
    <3>1. Tied(n, asset) = 0 /\ Remaining(o) = q
      BY <1>3, <1>4, <1>5, <2>2 DEF Tied
    <3>2. o.price * q \in Int
      BY <1>3
    <3> QED  BY <2>1, <3>1, <3>2 DEF n
  <2>3. CASE ~IsDone(n)
    <3>1. Tied(n, asset) = o.price * (Remaining(o) - q)
      BY <1>2, <1>4, <1>6, <1>8, <2>3 DEF Tied
    <3> QED  BY <1>7, <2>1, <3>1 DEF n
  <2> QED  BY <2>2, <2>3
<1>9. CASE asset = "brl" /\ IsBuyMarket(o)
  <2>1. Takes(o, q, asset) = 0
    BY <1>7, <1>9 DEF Takes, IsBuyMarket, NoPrice
  <2>2. Tied(o, asset) = 0 /\ Tied(n, asset) = 0
    BY <1>6, <1>9 DEF Tied
  <2> QED  BY <2>1, <2>2 DEF n
<1>10. CASE asset = "vibranium" /\ o.side = "SELL"
  <2>1. Tied(o, asset) = Remaining(o) /\ Takes(o, q, asset) = q
    BY <1>10 DEF Tied, Takes, IsBuyMarket
  <2>2. Tied(n, asset) = Remaining(o) - q
    BY <1>2, <1>4, <1>5, <1>10 DEF Tied, IsBuyMarket
  <2> QED  BY <1>4, <2>1, <2>2 DEF n
<1>11. CASE (asset = "brl" /\ o.side = "SELL") \/ (asset = "vibranium" /\ o.side = "BUY")
  <2>1. Tied(o, asset) = 0 /\ Takes(o, q, asset) = 0 /\ Tied(n, asset) = 0
    BY <1>2, <1>11 DEF Tied, Takes
  <2> QED  BY <2>1 DEF n
<1>12. \/ asset = "brl" /\ o.side = "BUY" /\ ~IsBuyMarket(o)
       \/ asset = "brl" /\ IsBuyMarket(o)
       \/ asset = "vibranium" /\ o.side = "SELL"
       \/ asset = "brl" /\ o.side = "SELL"
       \/ asset = "vibranium" /\ o.side = "BUY"
  <2>1. (asset = "brl" \/ asset = "vibranium") /\ (o.side = "BUY" \/ o.side = "SELL")
    BY <1>3
  <2> QED  BY <2>1, Zenon
<1> QED  BY <1>8, <1>9, <1>10, <1>11, <1>12, Zenon

\* One trade more.
LEMMA TradesGrow ==
  ASSUME BaseInv, NEW tr \in Trade, NEW n, n = Len(result.trades) + 1,
         result'.trades = Append(result.trades, tr)
  PROVE  /\ DOMAIN result'.trades = DOMAIN result.trades \cup {n}
         /\ n \notin DOMAIN result.trades /\ result'.trades[n] = tr
         /\ \A i \in DOMAIN result.trades : result'.trades[i] = result.trades[i]
<1>1. /\ result.trades \in Seq(Trade) /\ Len(result.trades) \in Nat
      /\ DOMAIN result.trades = 1..Len(result.trades)
  BY TradesFacts
<1>2. PICK t : t = result.trades
  OBVIOUS
<1>3. t \in Seq(Trade) /\ Len(t) \in Nat /\ n = Len(t) + 1 /\ result'.trades = Append(t, tr)
  BY <1>1, <1>2
<1>4. /\ DOMAIN result'.trades = 1..n /\ result'.trades[n] = tr
      /\ \A i \in 1..Len(t) : result'.trades[i] = t[i]
  BY <1>3
<1> QED  BY <1>1, <1>2, <1>3, <1>4

\* What the trades need, with one trade more.
LEMMA NeedsGrow ==
  ASSUME BaseInv, BaseInv', NEW tr \in Trade, result'.trades = Append(result.trades, tr),
         UNCHANGED rows, NEW id \in DOMAIN rows, NEW asset \in Assets
  PROVE  Total(Needs(id, asset)', DOMAIN result'.trades)
           = Total(Needs(id, asset), DOMAIN result.trades) + Need(tr, id, asset)
<1>1. PICK n : n = Len(result.trades) + 1
  OBVIOUS
<1>2. /\ DOMAIN result'.trades = DOMAIN result.trades \cup {n}
      /\ n \notin DOMAIN result.trades /\ result'.trades[n] = tr
      /\ \A i \in DOMAIN result.trades : result'.trades[i] = result.trades[i]
  BY <1>1, TradesGrow
<1>3. \A x : Need(x, id, asset)' = Need(x, id, asset)
  BY DEF Need
<1> DEFINE f == Needs(id, asset)
           g == Needs(id, asset)'
           S == DOMAIN result.trades
           T == DOMAIN result'.trades
<1>4. \A i \in T : g[i] = Need(result'.trades[i], id, asset)
  BY <1>3 DEF Needs
<1>5. \A i \in S : f[i] = g[i] /\ f[i] \in Int
  BY <1>2, <1>4, NeedsFacts
<1>6. g[n] = Need(tr, id, asset) /\ g[n] \in Int
  <2>1. g[n] = Need(tr, id, asset)
    BY <1>2, <1>4
  <2>2. tr.qty \in Int
    BY DEF Trade
  <2> QED  BY <2>1, <2>2, NeedFacts
<1>7. IsFiniteSet(S) /\ T = S \cup {n} /\ n \notin S
  BY <1>2, TradesFacts
<1> HIDE DEF f, g, S, T
<1>8. Total(g, T) = Total(f, S) + g[n]
  BY <1>5, <1>6, <1>7, TotalAdd
<1> QED  BY <1>6, <1>8 DEF f, g, S, T

LEMMA TradeAmounts ==
  ASSUME NEW tr \in Trade
  PROVE  tr.price \in Int /\ tr.qty \in Int
<1>1. tr.qty \in Int /\ tr.price \in Prices
  BY DEF Trade
<1>2. \A p \in Prices : p \in Int
  BY PricesAssumption
<1> QED  BY <1>1, <1>2, Zenon

\* What the trades cost, with one trade more.
LEMMA CostsGrow ==
  ASSUME BaseInv, NEW tr \in Trade, result'.trades = Append(result.trades, tr)
  PROVE  /\ Total(Costs', DOMAIN result'.trades)
              = Total(Costs, DOMAIN result.trades) + tr.price * tr.qty
         /\ Total(Costs, DOMAIN result.trades) \in Int
<1>1. PICK n : n = Len(result.trades) + 1
  OBVIOUS
<1>2. /\ DOMAIN result'.trades = DOMAIN result.trades \cup {n}
      /\ n \notin DOMAIN result.trades /\ result'.trades[n] = tr
      /\ \A i \in DOMAIN result.trades : result'.trades[i] = result.trades[i]
  BY <1>1, TradesGrow
<1> DEFINE f == Costs
           g == Costs'
           S == DOMAIN result.trades
           T == DOMAIN result'.trades
<1>3. \A x \in Int, y \in Int : x * y \in Int
  OBVIOUS
<1>4. \A i \in T : g[i] = result'.trades[i].price * result'.trades[i].qty
  BY DEF Costs
<1>5. \A i \in S : f[i] = result.trades[i].price * result.trades[i].qty
  BY DEF Costs
<1>6. \A i \in S : f[i] = g[i] /\ f[i] \in Int
  <2>1. \A i \in S : f[i] = g[i]
    BY <1>2, <1>4, <1>5
  <2>2. \A i \in S : result.trades[i].price \in Int /\ result.trades[i].qty \in Int
    BY TradesFacts
  <2>3. \A i \in S : f[i] \in Int
    BY <1>3, <1>5, <2>2
  <2> QED  BY <2>1, <2>3
<1>7. g[n] = tr.price * tr.qty
  BY <1>2, <1>4
<1>11. g[n] \in Int
  <2>1. tr.price \in Int /\ tr.qty \in Int
    BY TradeAmounts, Zenon
  <2> QED  BY <1>3, <1>7, <2>1, Zenon
<1>8. IsFiniteSet(S) /\ T = S \cup {n} /\ n \notin S
  BY <1>2, TradesFacts
<1> HIDE DEF f, g, S, T
<1>9. Total(g, T) = Total(f, S) + g[n]
  <2>1. \A y \in S : f[y] = g[y] /\ f[y] \in Int
    BY <1>6
  <2>2. IsFiniteSet(S) /\ T = S \cup {n} /\ n \notin S /\ g[n] \in Int
    BY <1>8, <1>11
  <2>3. IsFiniteSet(T) /\ T \ {n} = S /\ n \in T
    BY <2>2, FS_AddElement
  <2>4. \A y \in T : g[y] \in Int
    BY <2>1, <2>2
  <2>5. Total(g, T) = g[n] + Total(g, S)
    BY <2>3, <2>4, TotalTake
  <2>6. Total(f, S) = Total(g, S) /\ Total(f, S) \in Int
    BY <2>1, <2>2, TotalEqual, TotalInt
  <2> QED  BY <2>2, <2>5, <2>6
<1>10. Total(f, S) \in Int
  BY <1>6, <1>8, TotalInt
<1> QED  BY <1>7, <1>9, <1>10 DEF f, g, S, T

\* The Book without one of its orders, which is done.
LEMMA BookRemoved ==
  ASSUME BaseInv, BookInv, NEW m \in DOMAIN obj, m # incoming, m[1] \in DOMAIN locations,
         locations[m[1]] = m, RemoveFront(m[1], obj[m].side, obj[m].price),
         \A x, y \in DOMAIN obj : x[1] = y[1] => x = y,
         DOMAIN obj' = DOMAIN obj,
         \A x \in DOMAIN obj : Same(obj'[x], obj[x]),
         \A x \in DOMAIN obj \ {m, incoming} : IsDone(obj'[x]) <=> IsDone(obj[x]),
         IsDone(obj'[m]), UNCHANGED incoming
  PROVE  BookInv'
<1>1. PICK s, p : s = obj[m].side /\ p = obj[m].price
  OBVIOUS
<1>2. PICK a \in DOMAIN book[s][p] : book[s][p][a] = m
  BY <1>1 DEF BookInv
<1>3. /\ book' = [book EXCEPT ![s][p] = RemoveElem(book[s][p], m)]
      /\ locations' = [x \in DOMAIN locations \ {m[1]} |-> locations[x]]
  BY <1>1 DEF RemoveFront
<1>4. book \in [Sides -> [Prices -> Seq(Refs)]]
  BY DEF BaseInv, TypeOK
<1>5. s \in Sides /\ p \in Prices
  <2>1. obj[m].type = "LIMIT"
    BY DEF BookInv
  <2> QED  BY <1>1, <2>1, ObjectFacts
<1>6. PICK list, n : list = book[s][p] /\ n = Len(list)
  OBVIOUS
<1>7. /\ list \in Seq(Refs) /\ n \in Nat /\ DOMAIN list = 1..n /\ a \in 1..n
      /\ list[a] = m
  BY <1>2, <1>4, <1>5, <1>6
<1>8. \A j \in DOMAIN list : list[j] = list[a] => j = a
  BY <1>2, <1>5, <1>6 DEF BookInv
<1>9. PICK t : t = RemoveElem(list, m)
  OBVIOUS
<1>10. /\ DOMAIN t = 1..(n - 1)
       /\ \A j \in DOMAIN t : t[j] = list[IF j < a THEN j ELSE j + 1]
  <2>1. /\ list \in Seq(Refs) /\ a \in DOMAIN list /\ t = RemoveElem(list, list[a])
        /\ \A j \in DOMAIN list : list[j] = list[a] => j = a
    BY <1>7, <1>8, <1>9
  <2>2. /\ DOMAIN t = 1..(Len(list) - 1)
        /\ \A j \in DOMAIN t : t[j] = list[IF j < a THEN j ELSE j + 1]
    BY <2>1, RemoveElemFacts
  <2> QED  BY <1>6, <2>2
<1>11. \A x \in Sides, y \in Prices :
         book'[x][y] = IF x = s /\ y = p THEN t ELSE book[x][y]
  BY <1>3, <1>4, <1>5, <1>6, <1>9
\* Where the elements of the new level were.
<1>12. \A j \in DOMAIN t : \E k \in DOMAIN list : k # a /\ t[j] = list[k]
  <2> TAKE j \in DOMAIN t
  <2>1. CASE j < a
    <3>1. j \in DOMAIN list /\ j # a /\ t[j] = list[j]
      BY <1>7, <1>10, <2>1
    <3> QED  BY <3>1
  <2>2. CASE ~(j < a)
    <3>1. j + 1 \in DOMAIN list /\ j + 1 # a /\ t[j] = list[j + 1]
      BY <1>7, <1>10, <2>2
    <3> QED  BY <3>1
  <2> QED  BY <2>1, <2>2
<1>13. \A i, j \in DOMAIN t : t[i] = t[j] => i = j
  <2>1. \A i, j \in DOMAIN list : list[i] = list[j] => i = j
    BY <1>5, <1>6 DEF BookInv
  <2> SUFFICES ASSUME NEW i \in DOMAIN t, NEW j \in DOMAIN t, t[i] = t[j]
               PROVE  i = j
    OBVIOUS
  <2> DEFINE at(x) == IF x < a THEN x ELSE x + 1
  <2>2. t[i] = list[at(i)] /\ t[j] = list[at(j)]
    BY <1>10
  <2>3. i \in 1..(n - 1) /\ j \in 1..(n - 1)
    BY <1>10
  <2>4. at(i) \in DOMAIN list /\ at(j) \in DOMAIN list
    BY <1>7, <2>3
  <2>5. at(i) = at(j)
    <3> HIDE DEF at
    <3> QED  BY <2>1, <2>2, <2>4
  <2> QED  BY <1>7, <2>3, <2>5
<1>14. \A k \in DOMAIN list : k # a => \E j \in DOMAIN t : t[j] = list[k]
  <2> TAKE k \in DOMAIN list
  <2> HAVE k # a
  <2>1. CASE k < a
    <3>1. k \in DOMAIN t /\ t[k] = list[k]
      BY <1>7, <1>10, <2>1
    <3> QED  BY <3>1
  <2>2. CASE ~(k < a)
    <3>1. k - 1 \in DOMAIN t /\ ~(k - 1 < a) /\ (k - 1) + 1 = k
      BY <1>7, <1>10, <2>2
    <3>2. t[k - 1] = list[k]
      BY <1>10, <3>1
    <3> QED  BY <3>1, <3>2
  <2> QED  BY <2>1, <2>2
\* Every element of the new Book is one of the old, other than m.
<1>15. ASSUME NEW x \in Sides, NEW y \in Prices, NEW i \in DOMAIN book'[x][y]
       PROVE  \E k \in DOMAIN book[x][y] :
                /\ book'[x][y][i] = book[x][y][k] /\ book[x][y][k] # m
  <2>1. CASE x = s /\ y = p
    <3>1. PICK k \in DOMAIN list : k # a /\ t[i] = list[k]
      BY <1>11, <1>12, <1>15, <2>1
    <3>2. list[k] # m
      BY <1>7, <1>8, <3>1
    <3> QED  BY <1>6, <1>11, <2>1, <3>1, <3>2
  <2>2. CASE ~(x = s /\ y = p)
    <3>1. book'[x][y] = book[x][y]
      BY <1>11, <2>2
    <3>2. obj[book[x][y][i]].side = x /\ obj[book[x][y][i]].price = y
      BY <3>1 DEF BookInv
    <3>3. book[x][y][i] # m
      BY <1>1, <2>2, <3>2
    <3> QED  BY <3>1, <3>3
  <2> QED  BY <2>1, <2>2
<1>16. ASSUME NEW x \in Sides, NEW y \in Prices, NEW i \in DOMAIN book'[x][y]
       PROVE  LET r == book'[x][y][i] IN
              /\ obj'[r].side = x /\ obj'[r].price = y
              /\ r # incoming'
              /\ r[1] \in DOMAIN locations' /\ locations'[r[1]] = r
              /\ \A j \in DOMAIN book'[x][y] : book'[x][y][j] = r => i = j
  <2>1. PICK k \in DOMAIN book[x][y] : book'[x][y][i] = book[x][y][k] /\ book[x][y][k] # m
    BY <1>15
  <2>2. PICK r : r = book'[x][y][i]
    OBVIOUS
  <2>3. /\ r = book[x][y][k] /\ r # m /\ r \in DOMAIN obj
        /\ obj[r].side = x /\ obj[r].price = y /\ r # incoming
        /\ r[1] \in DOMAIN locations /\ locations[r[1]] = r
    <3>1. r = book[x][y][k] /\ r # m
      BY <2>1, <2>2
    <3>2. r \in DOMAIN obj
      BY <3>1 DEF BaseInv, HeapInv
    <3> QED  BY <3>1, <3>2 DEF BookInv
  <2>4. r[1] # m[1]
    BY <2>3
  <2>5. \A j \in DOMAIN book'[x][y] : book'[x][y][j] = r => i = j
    <3>1. CASE x = s /\ y = p
      BY <1>11, <1>13, <2>2, <3>1
    <3>2. CASE ~(x = s /\ y = p)
      <4>1. book'[x][y] = book[x][y]
        BY <1>11, <3>2
      <4> QED  BY <2>2, <4>1 DEF BookInv
    <3> QED  BY <3>1, <3>2
  <2>6. obj'[r].side = x /\ obj'[r].price = y
    BY <2>3 DEF Same
  <2>7. r[1] \in DOMAIN locations' /\ locations'[r[1]] = r
    BY <1>3, <2>3, <2>4
  <2> QED  BY <2>2, <2>3, <2>5, <2>6, <2>7
<1>17. ASSUME NEW id \in DOMAIN locations'
       PROVE  LET r == locations'[id] IN
              /\ obj'[r].type = "LIMIT"
              /\ \E i \in DOMAIN book'[obj'[r].side][obj'[r].price] :
                   book'[obj'[r].side][obj'[r].price][i] = r
  <2>1. PICK r : r = locations'[id]
    OBVIOUS
  <2>2. id \in DOMAIN locations /\ id # m[1] /\ r = locations[id]
    BY <1>3, <2>1
  <2>3. r \in DOMAIN obj /\ r[1] = id
    BY <2>2 DEF BaseInv, HeapInv
  <2>4. PICK x, y : x = obj[r].side /\ y = obj[r].price
    OBVIOUS
  <2>5. obj'[r].side = x /\ obj'[r].price = y /\ obj'[r].type = obj[r].type
    BY <2>3, <2>4 DEF Same
  <2>6. /\ obj[r].type = "LIMIT"
        /\ \E i \in DOMAIN book[obj[r].side][obj[r].price] :
             book[obj[r].side][obj[r].price][i] = r
    <3>1. \A k \in DOMAIN locations :
            /\ obj[locations[k]].type = "LIMIT"
            /\ \E i \in DOMAIN book[obj[locations[k]].side][obj[locations[k]].price] :
                 book[obj[locations[k]].side][obj[locations[k]].price][i] = locations[k]
      BY Zenon DEF BookInv
    <3> QED  BY <2>2, <3>1, Zenon
  <2>7. PICK i \in DOMAIN book[x][y] : book[x][y][i] = r
    BY <2>4, <2>6
  <2>8. CASE x = s /\ y = p
    <3>1. i \in DOMAIN list /\ list[i] = r /\ i # a
      BY <1>2, <1>6, <1>7, <2>2, <2>3, <2>7, <2>8
    <3>2. \E j \in DOMAIN t : t[j] = r
      BY <1>14, <3>1
    <3>3. book'[x][y] = t
      BY <1>5, <1>11, <2>8
    <3> QED  BY <2>1, <2>5, <2>6, <3>2, <3>3
  <2>9. CASE ~(x = s /\ y = p)
    <3>1. x \in Sides /\ y \in Prices
      BY <2>3, <2>4, <2>6, ObjectFacts
    <3>2. book'[x][y] = book[x][y]
      BY <1>11, <2>9, <3>1
    <3> QED  BY <2>1, <2>5, <2>6, <2>7, <3>2
  <2> QED  BY <2>8, <2>9
<1>18. ASSUME NEW r \in DOMAIN obj' \ {incoming'}
       PROVE  r[1] \in DOMAIN locations' <=> obj'[r].type = "LIMIT" /\ ~IsDone(obj'[r])
  <2>1. r \in DOMAIN obj /\ r # incoming /\ obj'[r].type = obj[r].type
    BY DEF Same
  <2>2. CASE r = m
    BY <1>3, <2>2
  <2>3. CASE r # m
    <3>1. r[1] # m[1] /\ (IsDone(obj'[r]) <=> IsDone(obj[r]))
      BY <2>1, <2>3
    <3>2. r[1] \in DOMAIN locations <=> obj[r].type = "LIMIT" /\ ~IsDone(obj[r])
      BY <2>1 DEF BookInv
    <3> QED  BY <1>3, <2>1, <3>1, <3>2
  <2> QED  BY <2>2, <2>3
<1> QED  BY <1>16, <1>17, <1>18 DEF BookInv

\* An order that is neither done nor cancelled has something left.
LEMMA LiveRemaining ==
  ASSUME NEW o \in Order, Sane(o)
  PROVE  /\ Remaining(o) \in Nat
         /\ ~IsDone(o) => Remaining(o) > 0
         /\ Remaining(o) > 0 /\ o.status # "CANCELLED" => ~IsDone(o)
<1>1. o.quantity \in Nat /\ o.filled \in Nat
  BY DEF Order, OrderType
<1> QED  BY <1>1 DEF Sane, IsDone, Remaining

\* One iteration of Match: the order being applied trades with the front of
\* the best level, an order that rests and is live.
LEMMA MatchStepFacts ==
  ASSUME BaseInv, Core, MatchStep
  PROVE  \E p, c, o, side, m, q, tr :
           /\ p \in Prices /\ c = incoming /\ o = obj[c] /\ side = Opposite(o.side)
           /\ c \in DOMAIN obj /\ m \in DOMAIN obj /\ m # c /\ m[1] # c[1]
           /\ tr = [buy   |-> IF o.side = "BUY" THEN c ELSE m,
                    sell  |-> IF o.side = "BUY" THEN m ELSE c,
                    price |-> p, qty |-> q]
           /\ tr \in Trade /\ q \in Int /\ q # 0
           /\ q <= Remaining(o) /\ q <= Remaining(obj[m])
           /\ obj[m].side = side /\ obj[m].price = p /\ obj[m].type = "LIMIT"
           /\ ~IsDone(obj[m]) /\ ~IsDone(o)
           /\ m[1] \in DOMAIN locations /\ locations[m[1]] = m
           /\ PriceCompatible(o, p)
           /\ q > 0 \/ IsBuyMarket(o)
           /\ IsBuyMarket(o) => /\ q <= GoDiv(funds, p) /\ (q < 0 => q = GoDiv(funds, p))
                                /\ funds' = funds - q * p
           /\ ~IsBuyMarket(o) => funds' = funds
           /\ incoming' = c /\ ObjectsKept /\ result.incoming = c
           /\ result'.incoming = c /\ result'.cancelled = 0
           /\ result'.trades = Append(result.trades, tr)
           /\ result'.touched = Append(result.touched, m)
           /\ obj'[c] = Fill(o, q) /\ obj'[m] = Fill(obj[m], q)
           /\ \A x \in DOMAIN obj : x # c /\ x # m => obj'[x] = obj[x]
           /\ IF Remaining(Fill(obj[m], q)) = 0 THEN RemoveFront(m[1], side, p)
                                                ELSE UNCHANGED <<book, locations>>
<1>1. mpc = "match" /\ MatchOne
  BY DEF MatchStep
<1>2. PICK p \in Prices : CanTrade(p) /\ Execute(p)
  BY <1>1 DEF MatchOne
<1> DEFINE o    == obj[incoming]
           side == Opposite(o.side)
           m    == Head(book[side][p])
           q    == MatchQty(o, obj[m], p)
           tr   == [buy   |-> IF o.side = "BUY" THEN incoming ELSE m,
                    sell  |-> IF o.side = "BUY" THEN m ELSE incoming,
                    price |-> p, qty |-> q]
<1>3. /\ ObjectsKept /\ incoming' = incoming /\ incoming \in DOMAIN obj
      /\ result.incoming = incoming
      /\ side \in Sides /\ 1 \in DOMAIN book[side][p] /\ m = book[side][p][1]
      /\ m \in DOMAIN obj /\ q \in Int /\ q # 0 /\ funds \in Int
      /\ q <= Remaining(o) /\ q <= Remaining(obj[m])
      /\ tr \in Trade
      /\ result'.incoming = result.incoming /\ result'.cancelled = result.cancelled
      /\ result'.trades = Append(result.trades, tr)
      /\ result'.touched = Append(result.touched, m)
      /\ m # incoming =>
           obj'[incoming] = Fill(o, q) /\ obj'[m] = Fill(obj[m], q)
      /\ \A x \in DOMAIN obj : x # incoming /\ x # m => obj'[x] = obj[x]
  BY <1>1, <1>2, ExecuteBase, Zenon
<1>4. /\ funds' = IF IsBuyMarket(o) THEN funds - q * p ELSE funds
      /\ IF Remaining(Fill(obj[m], q)) = 0 THEN RemoveFront(obj[m].id, side, p)
                                           ELSE UNCHANGED <<book, locations>>
  BY <1>2, Zenon DEF Execute
<1>5. Remaining(o) > 0 /\ PriceCompatible(o, p)
  BY <1>2, Zenon DEF CanTrade
<1>6. q = LET d == min64(Remaining(o), Remaining(obj[m]))
          IN  IF IsBuyMarket(o) /\ GoDiv(funds, p) < d THEN GoDiv(funds, p) ELSE d
  BY Zenon DEF MatchQty
<1> HIDE DEF o, side, m, q, tr
<1>7. Clean
  <2>1. mpc \notin {"down", "resync"}
    BY <1>1
  <2> QED  BY <1>1, <2>1, Zenon DEF Core, Clean
<1>8. BookInv /\ ObjectInv
  BY <1>7 DEF Core
<1>9. /\ obj[m].side = side /\ obj[m].price = p /\ m # incoming
      /\ m[1] \in DOMAIN locations /\ locations[m[1]] = m
  BY <1>3, <1>8 DEF BookInv
<1>10. obj[m].type = "LIMIT" /\ ~IsDone(obj[m])
  <2>1. m \in DOMAIN obj \ {incoming}
    BY <1>3, <1>9
  <2> QED  BY <1>8, <1>9, <2>1, Zenon DEF BookInv
<1>11. m[1] # incoming[1] /\ obj[m].id = m[1]
  BY <1>3, <1>8, <1>9, ObjectFacts DEF ObjectInv
<1>12. o \in Order /\ Sane(o) /\ obj[m] \in Order /\ Sane(obj[m])
  BY <1>3, ObjectFacts DEF o, BaseInv, RowInv
<1>13. o.status # "CANCELLED"
  <2>1. incoming # NoRef
    BY <1>1 DEF BaseInv, PhaseInv
  <2> QED  BY <2>1 DEF o, BaseInv, RowInv
<1>14. ~IsDone(o) /\ Remaining(o) \in Nat /\ Remaining(obj[m]) \in Nat /\ Remaining(obj[m]) > 0
  BY <1>5, <1>10, <1>12, <1>13, LiveRemaining
<1>15. p \in Nat \ {0} /\ GoDiv(funds, p) \in Int
  BY <1>3, PricesAssumption, GoDivInt
<1>16. q > 0 \/ IsBuyMarket(o)
  BY <1>3, <1>5, <1>6, <1>14 DEF min64
<1>17. IsBuyMarket(o) => q <= GoDiv(funds, p) /\ (q < 0 => q = GoDiv(funds, p))
  BY <1>3, <1>5, <1>6, <1>14, <1>15 DEF min64
<1>18. result.cancelled = 0
  BY <1>1 DEF BaseInv, PhaseInv
<1>19. PICK c, oo, ss, mm, qq, tt : c = incoming /\ oo = o /\ ss = side /\ mm = m /\ qq = q /\ tt = tr
  OBVIOUS
<1>20. oo = obj[c] /\ ss = Opposite(oo.side)
       /\ tt = [buy   |-> IF oo.side = "BUY" THEN c ELSE mm,
                sell  |-> IF oo.side = "BUY" THEN mm ELSE c,
                price |-> p, qty |-> qq]
  BY <1>19 DEF o, side, tr
<1>21. /\ p \in Prices /\ c = incoming /\ oo = obj[c] /\ ss = Opposite(oo.side)
       /\ c \in DOMAIN obj /\ mm \in DOMAIN obj /\ mm # c /\ mm[1] # c[1]
       /\ tt = [buy   |-> IF oo.side = "BUY" THEN c ELSE mm,
                sell  |-> IF oo.side = "BUY" THEN mm ELSE c,
                price |-> p, qty |-> qq]
       /\ tt \in Trade /\ qq \in Int /\ qq # 0
       /\ qq <= Remaining(oo) /\ qq <= Remaining(obj[mm])
       /\ obj[mm].side = ss /\ obj[mm].price = p /\ obj[mm].type = "LIMIT"
       /\ ~IsDone(obj[mm]) /\ ~IsDone(oo)
       /\ mm[1] \in DOMAIN locations /\ locations[mm[1]] = mm
       /\ PriceCompatible(oo, p)
       /\ qq > 0 \/ IsBuyMarket(oo)
  BY <1>3, <1>5, <1>9, <1>10, <1>11, <1>14, <1>16, <1>19, <1>20, Zenon
<1>22. /\ IsBuyMarket(oo) => /\ qq <= GoDiv(funds, p) /\ (qq < 0 => qq = GoDiv(funds, p))
                             /\ funds' = funds - qq * p
       /\ ~IsBuyMarket(oo) => funds' = funds
       /\ incoming' = c /\ ObjectsKept /\ result.incoming = c
       /\ result'.incoming = c /\ result'.cancelled = 0
       /\ result'.trades = Append(result.trades, tt)
       /\ result'.touched = Append(result.touched, mm)
       /\ obj'[c] = Fill(oo, qq) /\ obj'[mm] = Fill(obj[mm], qq)
       /\ \A x \in DOMAIN obj : x # c /\ x # mm => obj'[x] = obj[x]
  <2>1. \/ IsBuyMarket(o) /\ funds' = funds - q * p
        \/ ~IsBuyMarket(o) /\ funds' = funds
    BY <1>4
  <2> QED  BY <1>3, <1>9, <1>17, <1>18, <1>19, <2>1, Zenon
<1>23. IF Remaining(Fill(obj[mm], qq)) = 0 THEN RemoveFront(mm[1], ss, p)
                                           ELSE UNCHANGED <<book, locations>>
  BY <1>4, <1>11, <1>19, Zenon
<1> WITNESS p, c, oo, ss, mm, qq, tt
<1> QED  BY <1>21, <1>22, <1>23

\* What a trade of the order c with the resting order m needs of either.
LEMMA NeedTakes ==
  ASSUME BaseInv, NEW r \in DOMAIN obj, NEW tr \in Trade, tr.buy \in DOMAIN obj,
         tr.sell \in DOMAIN obj, tr.buy[1] # tr.sell[1], NEW asset \in Assets,
         obj[r].side = "BUY" => r # tr.sell, obj[r].side = "SELL" => r # tr.buy,
         r \in {tr.buy, tr.sell}, tr.qty > 0
  PROVE  Need(tr, r[1], asset) = Takes(obj[r], tr.qty, asset)
<1>1. obj[r].price = rows[r[1]].price /\ obj[r].side \in {"BUY", "SELL"}
  BY ObjectFacts DEF Same, Sides
<1>2. tr.qty \in Int /\ ~(tr.qty <= 0)
  BY DEF Trade
<1>3. asset \in {"brl", "vibranium"}
  BY DEF Assets
<1>4. CASE obj[r].side = "BUY"
  <2>1. r = tr.buy /\ r[1] # tr.sell[1]
    BY <1>4
  <2> QED  BY <1>1, <1>2, <1>3, <1>4, <2>1 DEF Need, Takes
<1>5. CASE obj[r].side = "SELL"
  <2>1. r = tr.sell /\ r[1] # tr.buy[1]
    BY <1>5
  <2> QED  BY <1>1, <1>2, <1>3, <1>5, <2>1 DEF Need, Takes
<1> QED  BY <1>1, <1>4, <1>5

\* What matching takes from the funds of a BUY MARKET order, whichever sign
\* they have.
LEMMA FundsFacts ==
  ASSUME NEW f \in Int, NEW p \in Nat \ {0}, NEW q \in Int, q # 0, q <= GoDiv(f, p),
         q < 0 => q = GoDiv(f, p)
  PROVE  /\ f >= 0 /\ q > 0 => f - q * p >= 0
         /\ f <= 0 => q < 0 /\ f - q * p <= 0
         /\ f >= 0 => q > 0
<1>1. f >= 0 => GoDiv(f, p) \in Nat /\ GoDiv(f, p) * p <= f
  BY GoDivFacts
<1>2. f >= 0 => q > 0
  BY <1>1
<1>3. f >= 0 /\ q > 0 => f - q * p >= 0
  <2>1. \A a \in Nat, b \in Nat, z \in Nat : a <= b => a * z <= b * z
    OBVIOUS
  <2> SUFFICES ASSUME f >= 0, q > 0
               PROVE  f - q * p >= 0
    OBVIOUS
  <2>2. q * p <= GoDiv(f, p) * p
    BY <1>1, <2>1
  <2>3. q * p \in Int /\ GoDiv(f, p) * p \in Int /\ GoDiv(f, p) * p <= f
    BY <1>1
  <2> QED  BY <2>2, <2>3
<1>4. f <= 0 => q < 0 /\ f - q * p <= 0
  <2> SUFFICES ASSUME f <= 0
               PROVE  q < 0 /\ f - q * p <= 0
    OBVIOUS
  <2>1. PICK g \in Nat : g = -f
    OBVIOUS
  <2>2. PICK d \in Nat : d = GoDiv(g, p)
    BY <2>1, GoDivFacts
  <2>3. d * p <= g
    BY <2>2, GoDivFacts
  <2>4. GoDiv(f, p) = -d
    BY <2>1, <2>2 DEF GoDiv
  <2>5. q = -d /\ q < 0
    BY <2>4
  <2>6. q * p = -(d * p)
    BY <2>5
  <2> QED  BY <2>1, <2>3, <2>5, <2>6
<1> QED  BY <1>2, <1>3, <1>4

\* Fills that finish no resting order leave the Book as it is.
LEMMA BookSame ==
  ASSUME BaseInv, BookInv, UNCHANGED <<book, locations, incoming>>,
         DOMAIN obj' = DOMAIN obj, \A x \in DOMAIN obj : Same(obj'[x], obj[x]),
         \A x \in DOMAIN obj \ {incoming} : IsDone(obj'[x]) <=> IsDone(obj[x])
  PROVE  BookInv'
<1>1. ASSUME NEW s \in Sides, NEW p \in Prices, NEW i \in DOMAIN book[s][p]
      PROVE  LET r == book[s][p][i] IN
             /\ obj'[r].side = s /\ obj'[r].price = p
             /\ r # incoming
             /\ r[1] \in DOMAIN locations /\ locations[r[1]] = r
             /\ \A j \in DOMAIN book[s][p] : book[s][p][j] = r => i = j
  <2>1. PICK r : r = book[s][p][i]
    OBVIOUS
  <2>2. r \in DOMAIN obj
    BY <2>1 DEF BaseInv, HeapInv
  <2>3. /\ obj[r].side = s /\ obj[r].price = p /\ r # incoming
        /\ r[1] \in DOMAIN locations /\ locations[r[1]] = r
        /\ \A j \in DOMAIN book[s][p] : book[s][p][j] = r => i = j
    BY <2>1 DEF BookInv
  <2>4. obj'[r].side = obj[r].side /\ obj'[r].price = obj[r].price
    BY <2>2 DEF Same
  <2> QED  BY <2>1, <2>3, <2>4
<1>2. ASSUME NEW id \in DOMAIN locations
      PROVE  LET r == locations[id] IN
             /\ obj'[r].type = "LIMIT"
             /\ \E i \in DOMAIN book[obj'[r].side][obj'[r].price] :
                  book[obj'[r].side][obj'[r].price][i] = r
  <2>1. PICK r : r = locations[id]
    OBVIOUS
  <2>2. r \in DOMAIN obj
    BY <2>1 DEF BaseInv, HeapInv
  <2>3. /\ obj[r].type = "LIMIT"
        /\ \E i \in DOMAIN book[obj[r].side][obj[r].price] :
             book[obj[r].side][obj[r].price][i] = r
    BY <2>1 DEF BookInv
  <2>4. obj'[r].side = obj[r].side /\ obj'[r].price = obj[r].price /\ obj'[r].type = obj[r].type
    BY <2>2 DEF Same
  <2> QED  BY <2>1, <2>3, <2>4, Zenon
<1>3. ASSUME NEW r \in DOMAIN obj \ {incoming}
      PROVE  r[1] \in DOMAIN locations <=> obj'[r].type = "LIMIT" /\ ~IsDone(obj'[r])
  <2>1. r[1] \in DOMAIN locations <=> obj[r].type = "LIMIT" /\ ~IsDone(obj[r])
    BY DEF BookInv
  <2>2. obj'[r].type = obj[r].type /\ (IsDone(obj'[r]) <=> IsDone(obj[r]))
    BY DEF Same
  <2> QED  BY <2>1, <2>2
<1>4. \A s \in Sides, p \in Prices : \A i \in DOMAIN book'[s][p] :
        LET r == book'[s][p][i] IN
        /\ obj'[r].side = s /\ obj'[r].price = p
        /\ r # incoming'
        /\ r[1] \in DOMAIN locations' /\ locations'[r[1]] = r
        /\ \A j \in DOMAIN book'[s][p] : book'[s][p][j] = r => i = j
  BY <1>1
<1>5. \A id \in DOMAIN locations' :
        LET r == locations'[id] IN
        /\ obj'[r].type = "LIMIT"
        /\ \E i \in DOMAIN book'[obj'[r].side][obj'[r].price] :
             book'[obj'[r].side][obj'[r].price][i] = r
  BY <1>2
<1>6. \A r \in DOMAIN obj' \ {incoming'} :
        r[1] \in DOMAIN locations' <=> obj'[r].type = "LIMIT" /\ ~IsDone(obj'[r])
  BY <1>3
<1> QED  BY <1>4, <1>5, <1>6, Zenon DEF BookInv

LEMMA FillDone ==
  ASSUME NEW o \in Order, Sane(o), ~IsDone(o), NEW q \in Int
  PROVE  IsDone(Fill(o, q)) <=> Remaining(Fill(o, q)) = 0
<1>1. PICK n : n = Fill(o, q)
  OBVIOUS
<1>2. n \in Order /\ Sane(n) /\ n.status # "CANCELLED"
  BY <1>1, FillKeeps DEF IsDone
<1>3. Remaining(n) \in Nat /\ (~IsDone(n) => Remaining(n) > 0)
      /\ (Remaining(n) > 0 => ~IsDone(n))
  BY <1>2, LiveRemaining
<1> QED  BY <1>1, <1>3

LEMMA MatchStepCore ==
  ASSUME BaseInv, BaseInv', Core, MatchStep
  PROVE  Core'
<1>1. /\ mpc = "match" /\ mpc' = "match"
      /\ UNCHANGED <<wallets, rows, processed, stream, batch, todo, cache, txRows, unsettled>>
  BY DEF MatchStep, dbVars, redisVars, loopVars, txVars
<1>2. UNCHANGED bookDirty
  BY DEF MatchStep
<1>3. PICK p, c, o, side, m, q, tr :
        /\ p \in Prices /\ c = incoming /\ o = obj[c] /\ side = Opposite(o.side)
        /\ c \in DOMAIN obj /\ m \in DOMAIN obj /\ m # c /\ m[1] # c[1]
        /\ tr = [buy   |-> IF o.side = "BUY" THEN c ELSE m,
                 sell  |-> IF o.side = "BUY" THEN m ELSE c,
                 price |-> p, qty |-> q]
        /\ tr \in Trade /\ q \in Int /\ q # 0
        /\ q <= Remaining(o) /\ q <= Remaining(obj[m])
        /\ obj[m].side = side /\ obj[m].price = p /\ obj[m].type = "LIMIT"
        /\ ~IsDone(obj[m]) /\ ~IsDone(o)
        /\ m[1] \in DOMAIN locations /\ locations[m[1]] = m
        /\ PriceCompatible(o, p)
        /\ q > 0 \/ IsBuyMarket(o)
        /\ IsBuyMarket(o) => /\ q <= GoDiv(funds, p) /\ (q < 0 => q = GoDiv(funds, p))
                             /\ funds' = funds - q * p
        /\ ~IsBuyMarket(o) => funds' = funds
        /\ incoming' = c /\ ObjectsKept /\ result.incoming = c
        /\ result'.incoming = c /\ result'.cancelled = 0
        /\ result'.trades = Append(result.trades, tr)
        /\ result'.touched = Append(result.touched, m)
        /\ obj'[c] = Fill(o, q) /\ obj'[m] = Fill(obj[m], q)
        /\ \A x \in DOMAIN obj : x # c /\ x # m => obj'[x] = obj[x]
        /\ IF Remaining(Fill(obj[m], q)) = 0 THEN RemoveFront(m[1], side, p)
                                             ELSE UNCHANGED <<book, locations>>
  BY MatchStepFacts, Zenon
<1>4. /\ p \in Prices /\ p \in Nat \ {0} /\ c = incoming /\ o = obj[c]
      /\ c \in DOMAIN obj /\ m \in DOMAIN obj /\ m # c /\ m[1] # c[1]
      /\ q \in Int /\ q # 0 /\ tr \in Trade
  BY <1>3, PricesAssumption
<1>5. /\ tr.price = p /\ tr.qty = q
      /\ o.side = "BUY" => tr.buy = c /\ tr.sell = m
      /\ o.side # "BUY" => tr.buy = m /\ tr.sell = c
  BY <1>3
<1>6. /\ o \in Order /\ Sane(o) /\ obj[m] \in Order /\ Sane(obj[m])
      /\ o.side \in {"BUY", "SELL"} /\ o.type \in {"LIMIT", "MARKET"}
      /\ obj[m].side = (IF o.side = "BUY" THEN "SELL" ELSE "BUY")
      /\ o.type = "MARKET" => o.price = NoPrice
      /\ obj[m].type = "LIMIT" /\ obj[m].price = p
  BY <1>3, ObjectFacts DEF BaseInv, RowInv, Sides, Types, Opposite
<1>7. /\ ~IsDone(obj[m]) /\ ~IsDone(o) /\ Remaining(o) \in Nat /\ Remaining(obj[m]) \in Nat
      /\ Remaining(o) > 0 /\ Remaining(obj[m]) > 0
      /\ q <= Remaining(o) /\ q <= Remaining(obj[m])
  BY <1>3, <1>6, LiveRemaining
<1>8. /\ DOMAIN obj' = DOMAIN obj
      /\ \A x \in DOMAIN obj : Same(obj'[x], obj[x]) /\ Sane(obj'[x])
  BY <1>3 DEF ObjectsKept
<1>9. /\ obj'[c] = Fill(o, q) /\ obj'[m] = Fill(obj[m], q) /\ incoming' = c
      /\ \A x \in DOMAIN obj : x # c /\ x # m => obj'[x] = obj[x]
  BY <1>3
<1>10. /\ result.incoming = c /\ result'.incoming = c /\ result'.cancelled = 0
       /\ result'.trades = Append(result.trades, tr)
       /\ result'.touched = Append(result.touched, m)
  BY <1>3
<1>11. Clean
  <2>1. mpc \notin {"down", "resync"}
    BY <1>1
  <2> QED  BY <1>1, <2>1, Zenon DEF Core, Clean
<1>12. ObjectInv /\ BookInv /\ MatchInv /\ TradeInv
  BY <1>11 DEF Core
\* Without a quantity the fills return an error, and nothing changes.
<1>13. q < 0 => obj'[c] = o /\ obj'[m] = obj[m]
  BY <1>4, <1>9 DEF Fill, CanFill
<1>14. \A x : (Known(x)' <=> Known(x)) /\ (Matched(x)' <=> Matched(x))
  BY <1>1 DEF Known, Matched
<1>15. /\ Settled = {} /\ Settled' = {} /\ \A x \in DOMAIN rows : RowView(x)' = RowView(x)
       /\ \A u \in Users : View(u)' = View(u)
  BY <1>1 DEF Settled, RowView, View
<1>16. JournalInv' /\ BackedInv' /\ ClaimInv'
  BY <1>1, <1>14, <1>15, DbQuiet
<1>17. Changed' = Changed \cup {m} /\ c \in Changed
  <2>1. result.touched \in Seq(Refs) /\ m \in Refs
    BY <1>4, ObjectFacts DEF BaseInv, TypeOK, MatchResult
  <2>2. PICK t : t = result.touched
    OBVIOUS
  <2>3. {result'.touched[i] : i \in DOMAIN result'.touched}
          = {t[i] : i \in DOMAIN t} \cup {m}
    <3>1. /\ t \in Seq(Refs) /\ Len(t) \in Nat /\ DOMAIN t = 1..Len(t)
          /\ result'.touched = Append(t, m)
      BY <1>10, <2>1, <2>2
    <3>2. /\ DOMAIN Append(t, m) = 1..(Len(t) + 1) /\ Append(t, m)[Len(t) + 1] = m
          /\ \A i \in 1..Len(t) : Append(t, m)[i] = t[i]
      BY <2>1, <3>1
    <3> QED  BY <3>1, <3>2
  <2> QED  BY <1>10, <2>2, <2>3 DEF Changed
<1>18. ObjectInv'
  <2>1. ASSUME NEW x \in DOMAIN obj
        PROVE  /\ Known(x[1])' /\ Advanced(RowView(x[1])', obj'[x])
               /\ x \notin Changed' => obj'[x] = RowView(x[1])'
    <3>1. PICK id : id = x[1]
      OBVIOUS
    <3>2. id \in DOMAIN rows /\ RowView(id)' = RowView(id) /\ Known(id)'
      BY <1>12, <1>14, <1>15, <3>1, ObjectFacts DEF ObjectInv
    <3>3. Advanced(RowView(id), obj[x]) /\ (x \notin Changed => obj[x] = RowView(id))
      BY <1>12, <3>1 DEF ObjectInv
    <3>4. CASE x = c \/ x = m
      <4>1. ~IsDone(obj[x]) /\ x \in Changed' /\ obj[x] \in Order
        BY <1>6, <1>7, <1>4, <1>17, <3>4
      <4>2. obj'[x] = Fill(obj[x], q)
        BY <1>4, <1>9, <3>4
      <4>3. obj[x].filled <= obj'[x].filled
        BY <1>4, <4>1, <4>2, FillKeeps
      <4>4. RowView(id) \in Order /\ obj'[x] \in Order
        BY <1>4, <3>2, <4>1, <4>2, ViewRow, FillKeeps
      <4>5. RowView(id).filled <= obj[x].filled /\ ~IsDone(RowView(id))
        BY <3>3, <4>1 DEF Advanced
      <4>6. RowView(id).filled \in Nat /\ obj[x].filled \in Nat /\ obj'[x].filled \in Nat
        BY <4>1, <4>4, OrderAmounts
      <4>7. Advanced(RowView(id), obj'[x])
        BY <4>3, <4>5, <4>6 DEF Advanced
      <4> QED  BY <3>1, <3>2, <4>1, <4>7
    <3>5. CASE x # c /\ x # m
      BY <1>9, <1>17, <3>1, <3>2, <3>3, <3>5
    <3> QED  BY <3>4, <3>5
  <2>2. \A x \in DOMAIN rows :
          Known(x)' /\ rows[x].type = "LIMIT" /\ ~IsDone(RowView(x)') =>
            \E y \in DOMAIN obj : y[1] = x
    BY <1>12, <1>14, <1>15 DEF ObjectInv
  <2>3. \A x, y \in DOMAIN obj : x[1] = y[1] => x = y
    BY <1>12 DEF ObjectInv
  <2> QED  BY <1>1, <1>8, <2>1, <2>2, <2>3 DEF ObjectInv
<1>19. BookInv'
  <2>1. IsDone(obj'[m]) <=> Remaining(Fill(obj[m], q)) = 0
    BY <1>4, <1>6, <1>7, <1>9, FillDone
  <2>2. UNCHANGED incoming
    BY <1>4, <1>9
  <2>3. CASE Remaining(Fill(obj[m], q)) = 0
    <3>1. /\ RemoveFront(m[1], obj[m].side, obj[m].price) /\ m[1] \in DOMAIN locations
          /\ locations[m[1]] = m /\ m # incoming
      BY <1>3, <2>3
    <3>2. \A x, y \in DOMAIN obj : x[1] = y[1] => x = y
      BY <1>12 DEF ObjectInv
    <3>3. \A x \in DOMAIN obj \ {m, incoming} : IsDone(obj'[x]) <=> IsDone(obj[x])
      BY <1>4, <1>9
    <3> QED  BY <1>4, <1>8, <1>12, <2>1, <2>2, <2>3, <3>1, <3>2, <3>3, BookRemoved
  <2>4. CASE Remaining(Fill(obj[m], q)) # 0
    <3>1. UNCHANGED <<book, locations>>
      BY <1>3, <2>4
    <3>2. \A x \in DOMAIN obj \ {incoming} : IsDone(obj'[x]) <=> IsDone(obj[x])
      BY <1>4, <1>7, <1>9, <2>1, <2>4
    <3> QED  BY <1>8, <1>12, <2>2, <3>1, <3>2, BookSame
  <2> QED  BY <2>3, <2>4
<1>20. MatchInv'
  <2> SUFFICES ASSUME NEW x \in DOMAIN obj, NEW asset \in Assets
               PROVE  Tied(RowView(x[1]), asset)' =
                        Tied(obj[x], asset)' + Rest(x, asset)'
                          + Total(Needs(x[1], asset)', DOMAIN result'.trades)
    BY <1>8 DEF MatchInv
  <2>1. PICK id \in DOMAIN rows : id = x[1]
    BY ObjectFacts
  <2>2. Total(Needs(id, asset)', DOMAIN result'.trades)
          = Total(Needs(id, asset), DOMAIN result.trades) + Need(tr, id, asset)
    BY <1>1, <1>4, <1>10, NeedsGrow
  <2>3. Rest(x, asset)' = 0
    BY <1>10 DEF Rest, Remainder
  <2>4. Rest(x, asset) = 0
    <3>1. result.cancelled = 0
      BY <1>1 DEF BaseInv, PhaseInv
    <3> QED  BY <3>1 DEF Rest, Remainder
  <2>5. Tied(RowView(id), asset) = Tied(obj[x], asset) + Rest(x, asset)
                                     + Total(Needs(id, asset), DOMAIN result.trades)
    BY <1>1, <1>12, <2>1 DEF MatchInv
  <2>6. Tied(RowView(id), asset)' = Tied(RowView(id), asset)
    BY <1>15 DEF Tied
  <2>7. obj[x] \in Order /\ Sane(obj[x]) /\ tr.qty \in Int
    BY <1>4, <1>5, ObjectFacts DEF BaseInv, RowInv
  <2>8. Tied(obj[x], asset) \in Nat /\ Need(tr, id, asset) \in Nat
        /\ Total(Needs(id, asset), DOMAIN result.trades) \in Nat
    BY <2>7, TiedFacts, NeedFacts, NeedsFacts
  <2>9. Tied(obj[x], asset) = Tied(obj'[x], asset) + Need(tr, id, asset)
    <3>1. CASE x # c /\ x # m
      <4>1. x[1] # c[1] /\ x[1] # m[1]
        BY <1>4, <1>12, <3>1 DEF ObjectInv
      <4>2. tr.buy[1] # id /\ tr.sell[1] # id
        BY <1>5, <2>1, <4>1
      <4>3. Need(tr, id, asset) = 0
        BY <2>7, <4>2, NeedFacts
      <4> QED  BY <1>9, <2>8, <3>1, <4>3
    <3>2. CASE (x = c \/ x = m) /\ q < 0
      <4>1. Need(tr, id, asset) = 0 /\ obj'[x] = obj[x]
        BY <1>4, <1>5, <1>13, <3>2 DEF Need
      <4> QED  BY <2>8, <4>1
    <3>3. CASE (x = c \/ x = m) /\ q > 0
      <4>1. obj'[x] = Fill(obj[x], q) /\ ~IsDone(obj[x]) /\ q <= Remaining(obj[x])
            /\ (obj[x].type = "MARKET" => obj[x].price = NoPrice)
        BY <1>4, <1>6, <1>7, <1>9, <3>3
      <4>2. Tied(obj[x], asset) = Tied(Fill(obj[x], q), asset) + Takes(obj[x], q, asset)
        BY <1>4, <2>7, <3>3, <4>1, TiedFill
      <4>3. /\ tr.buy \in DOMAIN obj /\ tr.sell \in DOMAIN obj /\ tr.buy[1] # tr.sell[1]
            /\ x \in {tr.buy, tr.sell} /\ tr.qty > 0
            /\ obj[x].side = "BUY" => x # tr.sell
            /\ obj[x].side = "SELL" => x # tr.buy
        BY <1>4, <1>5, <1>6, <3>3
      <4>4. Need(tr, x[1], asset) = Takes(obj[x], tr.qty, asset)
        BY <1>4, <4>3, NeedTakes
      <4> QED  BY <1>5, <2>1, <4>1, <4>2, <4>4
    <3> QED  BY <1>4, <3>1, <3>2, <3>3
  <2>10. Tied(obj[x], asset)' = Tied(obj'[x], asset)
    BY DEF Tied
  <2>11. Tied(obj'[x], asset) \in Nat
    <3>1. obj'[x] \in Order /\ Sane(obj'[x])
      BY <1>8, <1>3 DEF ObjectsKept, PartialFn
    <3> QED  BY <3>1, TiedFacts
  <2>12. Tied(RowView(id), asset)' = Tied(obj[x], asset)' + Rest(x, asset)'
                                      + Total(Needs(id, asset)', DOMAIN result'.trades)
    BY <2>2, <2>3, <2>4, <2>5, <2>6, <2>8, <2>9, <2>10, <2>11
  <2> QED  BY <2>1, <2>12
<1>21. PICK n : n = Len(result.trades) + 1
  OBVIOUS
<1>22. /\ DOMAIN result'.trades = DOMAIN result.trades \cup {n}
       /\ n \notin DOMAIN result.trades /\ result'.trades[n] = tr
       /\ \A i \in DOMAIN result.trades : result'.trades[i] = result.trades[i]
  BY <1>4, <1>10, <1>21, TradesGrow
<1>23. Taker = o /\ Taker' = obj'[c] /\ Same(obj'[c], o)
       /\ (IsBuyMarket(Taker') <=> IsBuyMarket(o))
  <2>1. Taker = o /\ Taker' = obj'[c] /\ Same(obj'[c], o)
    BY <1>4, <1>8, <1>10 DEF Taker
  <2> QED  BY <2>1 DEF Same, IsBuyMarket
<1>24. ASSUME NEW i \in DOMAIN result'.trades
       PROVE  LET t == result'.trades[i]
                  maker == IF Taker'.side = "BUY" THEN t.sell ELSE t.buy
              IN  /\ result'.incoming = IF Taker'.side = "BUY" THEN t.buy ELSE t.sell
                  /\ obj'[maker].side = Opposite(Taker'.side) /\ obj'[maker].type = "LIMIT"
                  /\ t.price = obj'[maker].price
                  /\ Taker'.side = "BUY" /\ Taker'.type = "LIMIT" => t.price <= Taker'.price
                  /\ IsBuyMarket(Taker') \/ t.qty > 0
  <2>1. /\ Taker'.side = o.side /\ Taker'.type = o.type /\ Taker'.price = o.price
    BY <1>23 DEF Same
  <2>2. PICK t, k : t = result'.trades[i] /\ k = IF o.side = "BUY" THEN t.sell ELSE t.buy
    OBVIOUS
  <2>3. /\ c = (IF o.side = "BUY" THEN t.buy ELSE t.sell) /\ k \in DOMAIN obj
        /\ obj[k].side = Opposite(o.side) /\ obj[k].type = "LIMIT" /\ t.price = obj[k].price
        /\ o.side = "BUY" /\ o.type = "LIMIT" => t.price <= o.price
        /\ IsBuyMarket(o) \/ t.qty > 0
    <3>1. CASE i = n
      <4>1. t = tr /\ k = m
        BY <1>5, <1>22, <2>2, <3>1
      <4>2. o.side = "BUY" /\ o.type = "LIMIT" => p <= o.price
        <5>1. PriceCompatible(o, p) /\ o.price \in Nat
          BY <1>3, <1>6, OrderAmounts
        <5> QED  BY <1>4, <5>1 DEF PriceCompatible
      <4>3. IsBuyMarket(o) \/ q > 0
        BY <1>3
      <4> QED  BY <1>4, <1>5, <1>6, <4>1, <4>2, <4>3 DEF Opposite
    <3>2. CASE i # n
      <4>1. i \in DOMAIN result.trades /\ t = result.trades[i]
        BY <1>22, <2>2, <3>2
      <4>2. t.sell \in DOMAIN obj /\ t.buy \in DOMAIN obj
        BY <4>1, TradesFacts
      <4>3. LET y == result.trades[i]
                maker == IF Taker.side = "BUY" THEN y.sell ELSE y.buy
            IN  /\ result.incoming = IF Taker.side = "BUY" THEN y.buy ELSE y.sell
                /\ obj[maker].side = Opposite(Taker.side) /\ obj[maker].type = "LIMIT"
                /\ y.price = obj[maker].price
                /\ Taker.side = "BUY" /\ Taker.type = "LIMIT" => y.price <= Taker.price
                /\ IsBuyMarket(Taker) \/ y.qty > 0
        BY <1>1, <1>12, <4>1 DEF TradeInv
      <4> QED  BY <1>10, <1>23, <2>2, <4>1, <4>2, <4>3
    <3> QED  BY <3>1, <3>2
  <2>4. obj'[k].side = obj[k].side /\ obj'[k].type = obj[k].type /\ obj'[k].price = obj[k].price
    BY <1>8, <2>3 DEF Same
  <2> QED  BY <1>10, <1>23, <2>1, <2>2, <2>3, <2>4
<1>25. ASSUME IsBuyMarket(o)
       PROVE  /\ o.user \in DOMAIN cache
              /\ \/ /\ \A i \in DOMAIN result'.trades : result'.trades[i].qty > 0
                    /\ funds' >= 0
                    /\ Total(Costs', DOMAIN result'.trades) + funds' <= View(o.user).brl
                 \/ /\ \A i \in DOMAIN result'.trades : result'.trades[i].qty < 0
                    /\ funds' <= 0
  <2>1. DOMAIN result.trades \ Settled = DOMAIN result.trades
    BY <1>15
  <2>2. /\ o.user \in DOMAIN cache
        /\ \/ /\ \A i \in DOMAIN result.trades : result.trades[i].qty > 0
              /\ funds >= 0
              /\ Total(Costs, DOMAIN result.trades) + funds <= View(o.user).brl
           \/ /\ \A i \in DOMAIN result.trades : result.trades[i].qty < 0
              /\ funds <= 0
    BY <1>1, <1>12, <1>23, <1>25, <2>1 DEF TradeInv
  <2>3. PICK f \in Int : f = funds
    BY DEF BaseInv, TypeOK
  <2>4. q <= GoDiv(f, p) /\ (q < 0 => q = GoDiv(f, p)) /\ funds' = f - q * p
    BY <1>3, <1>25, <2>3
  <2>5. /\ f >= 0 => q > 0
        /\ f >= 0 /\ q > 0 => f - q * p >= 0
        /\ f <= 0 => q < 0 /\ f - q * p <= 0
    BY <1>4, <2>4, FundsFacts
  <2>6. Total(Costs', DOMAIN result'.trades) = Total(Costs, DOMAIN result.trades) + p * q
        /\ Total(Costs, DOMAIN result.trades) \in Int
    BY <1>4, <1>5, <1>10, CostsGrow
  <2>7. p * q = q * p /\ q * p \in Int
    BY <1>4
  <2>8. View(o.user).brl \in Int
    <3>1. View(o.user) \in Wallet
      BY <1>6, ViewType DEF Order, OrderType
    <3> QED  BY <3>1, WalletFields
  <2>9. CASE /\ \A i \in DOMAIN result.trades : result.trades[i].qty > 0
             /\ funds >= 0
             /\ Total(Costs, DOMAIN result.trades) + funds <= View(o.user).brl
    <3>1. \A i \in DOMAIN result'.trades : result'.trades[i].qty > 0
      BY <1>5, <1>22, <2>3, <2>5, <2>9
    <3>2. funds' >= 0
      BY <2>3, <2>4, <2>5, <2>9
    <3>3. Total(Costs', DOMAIN result'.trades) + funds' = Total(Costs, DOMAIN result.trades) + f
      BY <2>4, <2>6, <2>7
    <3> QED  BY <2>2, <2>3, <2>9, <3>1, <3>2, <3>3
  <2>10. CASE /\ \A i \in DOMAIN result.trades : result.trades[i].qty < 0
              /\ funds <= 0
    <3>1. \A i \in DOMAIN result'.trades : result'.trades[i].qty < 0
      BY <1>5, <1>22, <2>3, <2>5, <2>10
    <3> QED  BY <2>2, <2>3, <2>4, <2>5, <2>10, <3>1
  <2> QED  BY <2>2, <2>9, <2>10
<1>26. TradeInv'
  <2>1. o.user = Taker'.user
    BY <1>23 DEF Same
  <2>2. o.user \in Users
    BY <1>6 DEF Order, OrderType
  <2>3. View(o.user)' = View(o.user)
    BY <1>15, <2>2
  <2>4. View(Taker.user)' = View(o.user)
    BY <2>1, <2>3 DEF View
  <2>5. DOMAIN result'.trades \ Settled' = DOMAIN result'.trades
    BY <1>15
  <2> QED  BY <1>1, <1>23, <1>24, <1>25, <2>1, <2>4, <2>5, Zenon DEF TradeInv
<1>27. ~bookDirty'
  BY <1>1, <1>2, Zenon DEF Core
<1> QED  BY <1>16, <1>18, <1>19, <1>20, <1>26, <1>27, Zenon DEF Core

----------------------------------------------------------------------------
(* After the loop of Match *)

\* While an order is applied it has no location.
LEMMA IncomingNotLocated ==
  ASSUME BaseInv, BookInv, incoming \in DOMAIN obj,
         \A x, y \in DOMAIN obj : x[1] = y[1] => x = y
  PROVE  incoming[1] \notin DOMAIN locations
<1> SUFFICES ASSUME incoming[1] \in DOMAIN locations
             PROVE  FALSE
  OBVIOUS
<1>1. PICK r : r = locations[incoming[1]]
  OBVIOUS
<1>2. r \in DOMAIN obj /\ r[1] = incoming[1]
  BY <1>1 DEF BaseInv, HeapInv
<1>3. r = incoming
  BY <1>2
<1>4. /\ obj[r].type = "LIMIT"
      /\ \E i \in DOMAIN book[obj[r].side][obj[r].price] :
           book[obj[r].side][obj[r].price][i] = r
  BY <1>1 DEF BookInv
<1>5. obj[r].side \in Sides /\ obj[r].price \in Prices
  BY <1>2, <1>4, ObjectFacts
<1> QED  BY <1>3, <1>4, <1>5 DEF BookInv

\* The Book with the order being applied at rest.
LEMMA BookAdded ==
  ASSUME BaseInv, BookInv, NEW c, c = incoming, c \in DOMAIN obj,
         \A x, y \in DOMAIN obj : x[1] = y[1] => x = y,
         obj[c].type = "LIMIT", ~IsDone(obj[c]), AddResting(c, obj[c]),
         UNCHANGED obj, incoming' = NoRef
  PROVE  BookInv'
<1>1. PICK o, s, p : o = obj[c] /\ s = o.side /\ p = o.price
  OBVIOUS
<1>2. /\ o.id = c[1] /\ s \in Sides /\ p \in Prices /\ c \in Refs
      /\ o.type = "LIMIT" /\ ~IsDone(o)
  BY <1>1, ObjectFacts
<1>3. c[1] \notin DOMAIN locations
  BY IncomingNotLocated
<1>4. /\ book' = [book EXCEPT ![s][p] = Append(book[s][p], c)]
      /\ locations' = [x \in DOMAIN locations \cup {o.id} |->
                         IF x = o.id THEN c ELSE locations[x]]
  BY <1>1 DEF AddResting
<1>5. /\ DOMAIN locations' = DOMAIN locations \cup {c[1]} /\ locations'[c[1]] = c
      /\ \A x \in DOMAIN locations : locations'[x] = locations[x] /\ x # c[1]
  BY <1>2, <1>3, <1>4
<1>6. PICK q : q = book[s][p]
  OBVIOUS
<1>7. book \in [Sides -> [Prices -> Seq(Refs)]]
  BY DEF BaseInv, TypeOK
<1>8. q \in Seq(Refs) /\ Len(q) \in Nat /\ DOMAIN q = 1..Len(q)
  BY <1>2, <1>6, <1>7
<1>9. PICK t : t = Append(q, c)
  OBVIOUS
<1>10. PICK n : n = Len(q) + 1
  OBVIOUS
<1>11. /\ DOMAIN t = DOMAIN q \cup {n} /\ t[n] = c /\ n \notin DOMAIN q
       /\ \A i \in DOMAIN q : t[i] = q[i]
  BY <1>2, <1>8, <1>9, <1>10
<1>12. \A a \in Sides, b \in Prices :
         book'[a][b] = IF a = s /\ b = p THEN t ELSE book[a][b]
  BY <1>2, <1>4, <1>6, <1>7, <1>9
\* The old places.
<1>13. ASSUME NEW a \in Sides, NEW b \in Prices, NEW i \in DOMAIN book[a][b]
       PROVE  LET r == book[a][b][i] IN
              /\ r \in DOMAIN obj /\ r # NoRef /\ r # c
              /\ obj[r].side = a /\ obj[r].price = b
              /\ r[1] \in DOMAIN locations /\ locations[r[1]] = r
              /\ \A j \in DOMAIN book[a][b] : book[a][b][j] = r => i = j
  <2>1. book[a][b][i] \in DOMAIN obj
    BY DEF BaseInv, HeapInv
  <2>2. book[a][b][i] # NoRef
    BY <2>1, ObjectFacts, RefsAssumption
  <2> QED  BY <2>1, <2>2 DEF BookInv
<1>14. ASSUME NEW a \in Sides, NEW b \in Prices, NEW i \in DOMAIN book'[a][b]
       PROVE  LET r == book'[a][b][i] IN
              /\ obj'[r].side = a /\ obj'[r].price = b
              /\ r # incoming'
              /\ r[1] \in DOMAIN locations' /\ locations'[r[1]] = r
              /\ \A j \in DOMAIN book'[a][b] : book'[a][b][j] = r => i = j
  <2>1. CASE ~(a = s /\ b = p)
    <3>1. book'[a][b] = book[a][b]
      BY <1>12, <2>1
    <3> QED  BY <1>5, <1>13, <3>1
  <2>2. CASE a = s /\ b = p /\ i # n
    <3>1. book'[a][b] = t /\ i \in DOMAIN q /\ t[i] = q[i] /\ q = book[a][b]
      BY <1>6, <1>11, <1>12, <2>2
    <3>2. /\ q[i] # NoRef /\ q[i] # c
          /\ obj[q[i]].side = a /\ obj[q[i]].price = b
          /\ q[i][1] \in DOMAIN locations /\ locations[q[i][1]] = q[i]
          /\ \A j \in DOMAIN q : q[j] = q[i] => i = j
      BY <1>13, <3>1
    <3>3. \A j \in DOMAIN t : t[j] = q[i] => i = j
      BY <1>11, <3>2
    <3> QED  BY <1>5, <3>1, <3>2, <3>3
  <2>3. CASE a = s /\ b = p /\ i = n
    <3>1. book'[a][b] = t /\ t[i] = c /\ q = book[a][b]
      BY <1>6, <1>11, <1>12, <2>3
    <3>2. \A j \in DOMAIN q : q[j] # c
      BY <1>13, <3>1
    <3>3. \A j \in DOMAIN t : t[j] = c => i = j
      BY <1>11, <2>3, <3>2
    <3>4. c # NoRef
      BY <1>2, RefsAssumption
    <3> QED  BY <1>1, <1>5, <2>3, <3>1, <3>3, <3>4
  <2> QED  BY <2>1, <2>2, <2>3
<1>15. ASSUME NEW id \in DOMAIN locations'
       PROVE  LET r == locations'[id] IN
              /\ obj'[r].type = "LIMIT"
              /\ \E i \in DOMAIN book'[obj'[r].side][obj'[r].price] :
                   book'[obj'[r].side][obj'[r].price][i] = r
  <2>1. CASE id = c[1]
    <3>1. locations'[id] = c /\ book'[s][p] = t
      BY <1>2, <1>5, <1>12, <2>1
    <3> QED  BY <1>1, <1>2, <1>11, <3>1
  <2>2. CASE id # c[1]
    <3>1. PICK r : r = locations[id]
      OBVIOUS
    <3>2. id \in DOMAIN locations /\ locations'[id] = r /\ r \in DOMAIN obj
      BY <1>5, <2>2, <3>1 DEF BaseInv, HeapInv
    <3>3. PICK a, b : a = obj[r].side /\ b = obj[r].price
      OBVIOUS
    <3>4. obj[r].type = "LIMIT" /\ \E i \in DOMAIN book[a][b] : book[a][b][i] = r
      <4>1. /\ obj[r].type = "LIMIT"
            /\ \E i \in DOMAIN book[obj[r].side][obj[r].price] :
                 book[obj[r].side][obj[r].price][i] = r
        <5>1. \A x \in DOMAIN locations :
                LET y == locations[x] IN
                /\ obj[y].type = "LIMIT"
                /\ \E i \in DOMAIN book[obj[y].side][obj[y].price] :
                     book[obj[y].side][obj[y].price][i] = y
          BY DEF BookInv
        <5> QED  BY <3>1, <3>2, <5>1
      <4> QED  BY <3>3, <4>1
    <3>5. a \in Sides /\ b \in Prices
      BY <3>2, <3>3, <3>4, ObjectFacts
    <3>6. \E i \in DOMAIN book'[a][b] : book'[a][b][i] = r
      <4>1. PICK i \in DOMAIN book[a][b] : book[a][b][i] = r
        BY <3>4
      <4>2. CASE a = s /\ b = p
        BY <1>6, <1>11, <1>12, <3>5, <4>1, <4>2
      <4>3. CASE ~(a = s /\ b = p)
        BY <1>12, <3>5, <4>1, <4>3
      <4> QED  BY <4>2, <4>3
    <3> QED  BY <3>2, <3>3, <3>4, <3>6
  <2> QED  BY <2>1, <2>2
<1>16. ASSUME NEW r \in DOMAIN obj
       PROVE  r[1] \in DOMAIN locations' <=> obj[r].type = "LIMIT" /\ ~IsDone(obj[r])
  <2>1. CASE r = c
    BY <1>1, <1>2, <1>5, <2>1
  <2>2. CASE r # c
    <3>1. r[1] # c[1]
      BY <2>2
    <3>2. r[1] \in DOMAIN locations <=> obj[r].type = "LIMIT" /\ ~IsDone(obj[r])
      BY <2>2 DEF BookInv
    <3> QED  BY <1>5, <3>1, <3>2
  <2> QED  BY <2>1, <2>2
<1> QED  BY <1>14, <1>15, <1>16 DEF BookInv

\* The Book when nothing of the order being applied rests.
LEMMA BookLeft ==
  ASSUME BaseInv, BookInv, NEW c, c = incoming, c \in DOMAIN obj,
         \A x, y \in DOMAIN obj : x[1] = y[1] => x = y,
         DOMAIN obj' = DOMAIN obj, \A x \in DOMAIN obj : x # c => obj'[x] = obj[x],
         ~(obj'[c].type = "LIMIT" /\ ~IsDone(obj'[c])),
         UNCHANGED <<book, locations>>, incoming' = NoRef
  PROVE  BookInv'
<1>1. c[1] \notin DOMAIN locations
  BY IncomingNotLocated
<1>2. ASSUME NEW s \in Sides, NEW p \in Prices, NEW i \in DOMAIN book[s][p]
      PROVE  LET r == book[s][p][i] IN
             /\ obj'[r].side = s /\ obj'[r].price = p
             /\ r # NoRef
             /\ r[1] \in DOMAIN locations /\ locations[r[1]] = r
             /\ \A j \in DOMAIN book[s][p] : book[s][p][j] = r => i = j
  <2>1. PICK r : r = book[s][p][i]
    OBVIOUS
  <2>2. r \in DOMAIN obj
    BY <2>1 DEF BaseInv, HeapInv
  <2>3. /\ obj[r].side = s /\ obj[r].price = p /\ r # c
        /\ r[1] \in DOMAIN locations /\ locations[r[1]] = r
        /\ \A j \in DOMAIN book[s][p] : book[s][p][j] = r => i = j
    BY <2>1 DEF BookInv
  <2>4. r # NoRef
    BY <2>2, ObjectFacts, RefsAssumption
  <2> QED  BY <2>1, <2>2, <2>3, <2>4
<1>3. ASSUME NEW id \in DOMAIN locations
      PROVE  LET r == locations[id] IN
             /\ obj'[r].type = "LIMIT"
             /\ \E i \in DOMAIN book[obj'[r].side][obj'[r].price] :
                  book[obj'[r].side][obj'[r].price][i] = r
  <2>1. locations[id] \in DOMAIN obj /\ locations[id][1] = id
    BY DEF BaseInv, HeapInv
  <2>2. obj'[locations[id]] = obj[locations[id]]
    BY <1>1, <2>1
  <2>3. /\ obj[locations[id]].type = "LIMIT"
        /\ \E i \in DOMAIN book[obj[locations[id]].side][obj[locations[id]].price] :
             book[obj[locations[id]].side][obj[locations[id]].price][i] = locations[id]
    BY Zenon DEF BookInv
  <2> QED  BY <2>2, <2>3, Zenon
<1>4. ASSUME NEW r \in DOMAIN obj
      PROVE  r[1] \in DOMAIN locations <=> obj'[r].type = "LIMIT" /\ ~IsDone(obj'[r])
  <2>1. CASE r = c
    BY <1>1, <2>1
  <2>2. CASE r # c
    BY <2>2 DEF BookInv
  <2> QED  BY <2>1, <2>2
<1>5. \A s \in Sides, p \in Prices : \A i \in DOMAIN book'[s][p] :
        LET r == book'[s][p][i] IN
        /\ obj'[r].side = s /\ obj'[r].price = p
        /\ r # incoming'
        /\ r[1] \in DOMAIN locations' /\ locations'[r[1]] = r
        /\ \A j \in DOMAIN book'[s][p] : book'[s][p][j] = r => i = j
  BY <1>2
<1>6. \A id \in DOMAIN locations' :
        LET r == locations'[id] IN
        /\ obj'[r].type = "LIMIT"
        /\ \E i \in DOMAIN book'[obj'[r].side][obj'[r].price] :
             book'[obj'[r].side][obj'[r].price][i] = r
  BY <1>3
<1>7. \A r \in DOMAIN obj' \ {incoming'} :
        r[1] \in DOMAIN locations' <=> obj'[r].type = "LIMIT" /\ ~IsDone(obj'[r])
  BY <1>4
<1> QED  BY <1>5, <1>6, <1>7, Zenon DEF BookInv

LEMMA CostsInt ==
  ASSUME BaseInv
  PROVE  /\ \A S \in SUBSET DOMAIN result.trades : Total(Costs, S) \in Int
         /\ \A i \in DOMAIN result.trades :
              Costs[i] = result.trades[i].price * result.trades[i].qty /\ Costs[i] \in Int
<1>1. \A x \in Int, y \in Int : x * y \in Int
  OBVIOUS
<1>2. \A i \in DOMAIN result.trades :
        result.trades[i].price \in Int /\ result.trades[i].qty \in Int
  BY TradesFacts
<1>3. \A i \in DOMAIN result.trades :
        Costs[i] = result.trades[i].price * result.trades[i].qty
  BY DEF Costs
<1>4. \A i \in DOMAIN result.trades : Costs[i] \in Int
  BY <1>1, <1>2, <1>3
<1>5. \A S \in SUBSET DOMAIN result.trades : IsFiniteSet(S)
  BY TradesFacts, FS_Subset
<1>6. PICK f : f = Costs
  OBVIOUS
<1>7. \A S \in SUBSET DOMAIN result.trades : Total(f, S) \in Int
  BY <1>4, <1>5, <1>6, TotalInt
<1> QED  BY <1>3, <1>4, <1>6, <1>7

LEMMA MatchDoneCore ==
  ASSUME BaseInv, BaseInv', Core, MatchDone
  PROVE  Core'
<1>1. /\ mpc = "match" /\ mpc' = "settle" /\ EndMatch /\ unsettled' = result.trades
      /\ UNCHANGED <<wallets, rows, processed, stream, batch, todo, cache, txRows>>
  BY DEF MatchDone, dbVars, redisVars
<1>2. UNCHANGED bookDirty
  BY DEF MatchDone
<1>3. PICK c, o : c = incoming /\ o = obj[c]
  OBVIOUS
<1>4. /\ ObjectsKept /\ incoming' = NoRef /\ UNCHANGED funds
      /\ c \in DOMAIN obj /\ result.incoming = c
      /\ result'.incoming = c /\ result'.trades = result.trades
      /\ result'.touched = result.touched
      /\ \A x \in DOMAIN obj : x # c => obj'[x] = obj[x]
  BY <1>1, <1>3, EndMatchBase, Zenon
<1>5. \/ Remaining(o) = 0 /\ UNCHANGED <<obj, book, locations, result>>
      \/ /\ Remaining(o) > 0 /\ o.type = "LIMIT" /\ o.price \in Prices
         /\ AddResting(c, o) /\ UNCHANGED <<obj, result>>
      \/ /\ Remaining(o) > 0 /\ o.type = "MARKET"
         /\ obj'[c] = CancelOrder(o)
         /\ result'.cancelled = Remaining(o)
         /\ UNCHANGED <<book, locations>>
  BY <1>1, <1>3, EndMatchBase, Zenon
<1>6. /\ o \in Order /\ Sane(o) /\ o.status # "CANCELLED" /\ o.side \in {"BUY", "SELL"}
      /\ result.cancelled = 0
  <2>1. o \in Order /\ Sane(o) /\ o.side \in Sides
    BY <1>3, <1>4, ObjectFacts DEF BaseInv, RowInv
  <2>2. o.status # "CANCELLED" /\ result.cancelled = 0
    BY <1>1, <1>3, <1>4 DEF BaseInv, RowInv, PhaseInv
  <2> QED  BY <2>1, <2>2 DEF Sides
<1>7. /\ Remaining(o) \in Nat /\ (Remaining(o) = 0 => IsDone(o))
      /\ (Remaining(o) > 0 => ~IsDone(o))
  BY <1>6, LiveRemaining
<1>8. DOMAIN obj' = DOMAIN obj /\ \A x \in DOMAIN obj : Same(obj'[x], obj[x]) /\ Sane(obj'[x])
  BY <1>4 DEF ObjectsKept
<1>9. Clean
  <2>1. mpc \notin {"down", "resync"}
    BY <1>1
  <2> QED  BY <1>1, <2>1, Zenon DEF Core, Clean
<1>10. ObjectInv /\ BookInv /\ MatchInv /\ TradeInv
  BY <1>9 DEF Core
<1>11. \A x : (Known(x)' <=> Known(x)) /\ (Matched(x)' <=> Matched(x))
  BY <1>1 DEF Known, Matched
<1>12. Settled = {} /\ Settled' = {}
  <2>1. Len(result.trades) \in Nat
    BY TradesFacts
  <2>2. Settled' = 1..(Len(result.trades) - Len(result.trades))
    BY <1>1, <1>4 DEF Settled
  <2>3. \A n \in Nat : 1..(n - n) = {}
    OBVIOUS
  <2>4. Settled = {}
    BY <1>1 DEF Settled
  <2> QED  BY <2>1, <2>2, <2>3, <2>4, Zenon
<1>13. /\ \A x \in DOMAIN rows : RowView(x)' = RowView(x)
       /\ \A u \in Users : View(u)' = View(u)
  BY <1>1 DEF RowView, View
<1>14. JournalInv' /\ BackedInv' /\ ClaimInv'
  BY <1>1, <1>11, <1>12, <1>13, DbQuiet
<1>15. Changed' = Changed /\ c \in Changed
  BY <1>4 DEF Changed
<1>16. obj'[c] = o \/ (~IsDone(o) /\ obj'[c] = CancelOrder(o))
  BY <1>3, <1>5, <1>7
<1>17. ObjectInv'
  <2>1. ASSUME NEW x \in DOMAIN obj
        PROVE  /\ Known(x[1])' /\ Advanced(RowView(x[1])', obj'[x])
               /\ x \notin Changed' => obj'[x] = RowView(x[1])'
    <3>1. PICK id : id = x[1]
      OBVIOUS
    <3>2. id \in DOMAIN rows /\ RowView(id)' = RowView(id) /\ Known(id)'
      BY <1>10, <1>11, <1>13, <3>1, ObjectFacts DEF ObjectInv
    <3>3. Advanced(RowView(id), obj[x]) /\ (x \notin Changed => obj[x] = RowView(id))
      BY <1>10, <3>1 DEF ObjectInv
    <3>4. CASE obj'[x] = obj[x]
      BY <1>15, <3>1, <3>2, <3>3, <3>4
    <3>5. CASE x = c /\ ~IsDone(o) /\ obj'[x] = CancelOrder(o)
      <4>1. obj'[x].filled = obj[x].filled /\ ~IsDone(obj[x])
        BY <1>3, <1>6, <3>5 DEF CancelOrder, Order, OrderType
      <4>2. Advanced(RowView(id), obj'[x])
        BY <3>3, <4>1 DEF Advanced
      <4> QED  BY <1>15, <3>1, <3>2, <3>5, <4>2
    <3> QED  BY <1>3, <1>4, <1>16, <3>4, <3>5
  <2>2. \A x \in DOMAIN rows :
          Known(x)' /\ rows[x].type = "LIMIT" /\ ~IsDone(RowView(x)') =>
            \E y \in DOMAIN obj : y[1] = x
    BY <1>10, <1>11, <1>13 DEF ObjectInv
  <2>3. \A x, y \in DOMAIN obj : x[1] = y[1] => x = y
    BY <1>10 DEF ObjectInv
  <2> QED  BY <1>1, <1>8, <2>1, <2>2, <2>3 DEF ObjectInv
<1>18. BookInv'
  <2>1. \A x, y \in DOMAIN obj : x[1] = y[1] => x = y
    BY <1>10 DEF ObjectInv
  <2>2. CASE Remaining(o) = 0 /\ UNCHANGED <<obj, book, locations, result>>
    BY <1>3, <1>4, <1>7, <1>10, <2>1, <2>2, BookLeft
  <2>3. CASE /\ Remaining(o) > 0 /\ o.type = "LIMIT" /\ o.price \in Prices
             /\ AddResting(c, o) /\ UNCHANGED <<obj, result>>
    <3>1. AddResting(c, obj[c]) /\ obj[c].type = "LIMIT" /\ ~IsDone(obj[c]) /\ UNCHANGED obj
      BY <1>3, <1>7, <2>3
    <3> QED  BY <1>3, <1>4, <1>10, <2>1, <3>1, BookAdded
  <2>4. CASE /\ Remaining(o) > 0 /\ o.type = "MARKET"
             /\ obj'[c] = CancelOrder(o)
             /\ result'.cancelled = Remaining(o)
             /\ UNCHANGED <<book, locations>>
    <3>1. obj'[c].type = o.type
      BY <1>3, <1>4, <1>8 DEF Same
    <3> QED  BY <1>3, <1>4, <1>8, <1>10, <2>1, <2>4, <3>1, BookLeft
  <2> QED  BY <1>5, <2>2, <2>3, <2>4, Zenon

<1>19. Taker = o /\ Taker' = obj'[c] /\ Same(obj'[c], o)
       /\ (IsBuyMarket(Taker') <=> IsBuyMarket(o))
  <2>1. Taker = o /\ Taker' = obj'[c] /\ Same(obj'[c], o)
    BY <1>3, <1>4, <1>8 DEF Taker
  <2> QED  BY <2>1 DEF Same, IsBuyMarket
<1>20. MatchInv'
  <2> SUFFICES ASSUME NEW x \in DOMAIN obj, NEW asset \in Assets
               PROVE  Tied(RowView(x[1]), asset)' =
                        Tied(obj[x], asset)' + Rest(x, asset)'
                          + Total(Needs(x[1], asset)', DOMAIN result'.trades)
    BY <1>8 DEF MatchInv
  <2>1. PICK id \in DOMAIN rows : id = x[1]
    BY ObjectFacts
  <2>2. Needs(id, asset)' = Needs(id, asset) /\ DOMAIN result'.trades = DOMAIN result.trades
    <3>1. \A t : Need(t, id, asset)' = Need(t, id, asset)
      BY <1>1 DEF Need
    <3> QED  BY <1>4, <3>1 DEF Needs
  <2>3. Rest(x, asset) = 0
    BY <1>6 DEF Rest, Remainder
  <2>4. Tied(RowView(id), asset) = Tied(obj[x], asset) + Rest(x, asset)
                                     + Total(Needs(id, asset), DOMAIN result.trades)
    BY <1>1, <1>10, <2>1 DEF MatchInv
  <2>5. Tied(RowView(id), asset)' = Tied(RowView(id), asset) /\ Tied(obj[x], asset)' = Tied(obj'[x], asset)
    BY <1>13 DEF Tied
  <2>6. Tied(obj[x], asset) \in Nat /\ Total(Needs(id, asset), DOMAIN result.trades) \in Nat
    <3>1. obj[x] \in Order /\ Sane(obj[x])
      BY ObjectFacts DEF BaseInv, RowInv
    <3> QED  BY <3>1, TiedFacts, NeedsFacts
  <2>7. Tied(obj[x], asset) = Tied(obj'[x], asset) + Rest(x, asset)'
    <3>1. CASE obj'[x] = obj[x] /\ Rest(x, asset)' = 0
      BY <2>6, <3>1
    <3>2. CASE /\ x = c /\ Remaining(o) > 0 /\ o.type = "MARKET"
               /\ obj'[c] = CancelOrder(o) /\ result'.cancelled = Remaining(o)
      <4>1. IsDone(obj'[c]) /\ ~IsDone(o) /\ Taker'.side = o.side
        BY <1>6, <1>7, <1>19, <3>2 DEF CancelOrder, IsDone, Order, OrderType, Same
      <4>2. Tied(obj'[x], asset) = 0
        BY <3>2, <4>1 DEF Tied
      <4>3. Rest(x, asset)' = IF asset = "vibranium" /\ o.side = "SELL"
                                THEN Remaining(o) ELSE 0
        BY <1>4, <3>2, <4>1 DEF Rest, Remainder
      <4>4. Tied(o, asset) = IF asset = "vibranium" /\ o.side = "SELL"
                               THEN Remaining(o) ELSE 0
        BY <1>6, <3>2, <4>1 DEF Tied, IsBuyMarket
      <4> QED  BY <1>3, <1>7, <3>2, <4>2, <4>3, <4>4
    <3>3. x # c => obj'[x] = obj[x] /\ Rest(x, asset)' = 0
      BY <1>4 DEF Rest
    <3>4. UNCHANGED <<obj, result>> => obj'[x] = obj[x] /\ Rest(x, asset)' = 0
      BY <1>6 DEF Rest, Remainder
    <3> QED  BY <1>5, <3>1, <3>2, <3>3, <3>4, Zenon
  <2>8. Tied(obj'[x], asset) \in Nat
    <3>1. obj'[x] \in Order /\ Sane(obj'[x])
      BY <1>4, <1>8 DEF ObjectsKept, PartialFn
    <3> QED  BY <3>1, TiedFacts
  <2>9. Rest(x, asset)' \in Int
    BY DEF BaseInv, TypeOK, MatchResult, Rest, Remainder
  <2>10. Tied(RowView(id), asset)' = Tied(obj[x], asset)' + Rest(x, asset)'
                                      + Total(Needs(id, asset)', DOMAIN result'.trades)
    BY <2>2, <2>3, <2>4, <2>5, <2>6, <2>7, <2>8, <2>9
  <2> QED  BY <2>1, <2>10
<1>21. ASSUME NEW i \in DOMAIN result.trades
       PROVE  LET t == result.trades[i]
                  maker == IF Taker'.side = "BUY" THEN t.sell ELSE t.buy
              IN  /\ result.incoming = IF Taker'.side = "BUY" THEN t.buy ELSE t.sell
                  /\ obj'[maker].side = Opposite(Taker'.side) /\ obj'[maker].type = "LIMIT"
                  /\ t.price = obj'[maker].price
                  /\ Taker'.side = "BUY" /\ Taker'.type = "LIMIT" => t.price <= Taker'.price
                  /\ IsBuyMarket(Taker') \/ t.qty > 0
  <2>1. /\ Taker'.side = o.side /\ Taker'.type = o.type /\ Taker'.price = o.price
    BY <1>19 DEF Same
  <2>2. PICK t, k : t = result.trades[i] /\ k = IF o.side = "BUY" THEN t.sell ELSE t.buy
    OBVIOUS
  <2>3. t.sell \in DOMAIN obj /\ t.buy \in DOMAIN obj /\ k \in DOMAIN obj
    BY <2>2, TradesFacts
  <2>4. /\ result.incoming = (IF o.side = "BUY" THEN t.buy ELSE t.sell)
        /\ obj[k].side = Opposite(o.side) /\ obj[k].type = "LIMIT" /\ t.price = obj[k].price
        /\ o.side = "BUY" /\ o.type = "LIMIT" => t.price <= o.price
        /\ IsBuyMarket(o) \/ t.qty > 0
    BY <1>1, <1>10, <1>19, <2>2 DEF TradeInv
  <2>5. obj'[k].side = obj[k].side /\ obj'[k].type = obj[k].type /\ obj'[k].price = obj[k].price
    BY <1>8, <2>3 DEF Same
  <2> QED  BY <1>19, <2>1, <2>2, <2>4, <2>5
<1>22. ASSUME IsBuyMarket(o)
       PROVE  /\ o.user \in DOMAIN cache
              /\ \/ /\ \A i \in DOMAIN result.trades : result.trades[i].qty > 0
                    /\ funds >= 0
                    /\ Total(Costs, DOMAIN result.trades) + 0 <= View(o.user).brl
                 \/ /\ \A i \in DOMAIN result.trades : result.trades[i].qty < 0
                    /\ funds <= 0
  <2>1. DOMAIN result.trades \ Settled = DOMAIN result.trades
    BY <1>12
  <2>2. /\ o.user \in DOMAIN cache
        /\ \/ /\ \A i \in DOMAIN result.trades : result.trades[i].qty > 0
              /\ funds >= 0
              /\ Total(Costs, DOMAIN result.trades) + funds <= View(o.user).brl
           \/ /\ \A i \in DOMAIN result.trades : result.trades[i].qty < 0
              /\ funds <= 0
    BY <1>1, <1>10, <1>19, <1>22, <2>1 DEF TradeInv
  <2>3. funds \in Int /\ Total(Costs, DOMAIN result.trades) \in Int
    BY CostsInt DEF BaseInv, TypeOK
  <2>4. View(o.user).brl \in Int
    <3>1. View(o.user) \in Wallet
      BY <1>6, ViewType DEF Order, OrderType
    <3> QED  BY <3>1, WalletFields
  <2>5. \A a \in Int, b \in Int, d \in Int : b >= 0 /\ a + b <= d => a + 0 <= d
    OBVIOUS
  <2> QED  BY <2>2, <2>3, <2>4, <2>5
<1>23. TradeInv'
  <2>1. o.user = Taker'.user
    BY <1>19 DEF Same
  <2>2. o.user \in Users
    BY <1>6 DEF Order, OrderType
  <2>3. View(o.user)' = View(o.user)
    BY <1>13, <2>2
  <2>4. View(Taker.user)' = View(o.user)
    BY <2>1, <2>3 DEF View
  <2>5. DOMAIN result.trades \ Settled' = DOMAIN result.trades
    BY <1>12
  <2>6. Costs' = Costs
    BY <1>4 DEF Costs
  <2>7. mpc' # "match"
    BY <1>1
  <2>8. \A i \in DOMAIN result'.trades :
          LET t == result'.trades[i]
              maker == IF Taker'.side = "BUY" THEN t.sell ELSE t.buy
          IN  /\ result'.incoming = IF Taker'.side = "BUY" THEN t.buy ELSE t.sell
              /\ obj'[maker].side = Opposite(Taker'.side) /\ obj'[maker].type = "LIMIT"
              /\ t.price = obj'[maker].price
              /\ Taker'.side = "BUY" /\ Taker'.type = "LIMIT" => t.price <= Taker'.price
              /\ IsBuyMarket(Taker') \/ t.qty > 0
    BY <1>4, <1>21
  <2>9. IsBuyMarket(Taker') =>
          /\ Taker'.user \in DOMAIN cache'
          /\ \/ /\ \A i \in DOMAIN result'.trades : result'.trades[i].qty > 0
                /\ funds' >= 0
                /\ Total(Costs', DOMAIN result'.trades \ Settled')
                     + (IF mpc' = "match" THEN funds' ELSE 0) <= View(Taker.user)'.brl
             \/ /\ \A i \in DOMAIN result'.trades : result'.trades[i].qty < 0
                /\ funds' <= 0
    BY <1>1, <1>4, <1>19, <1>22, <2>1, <2>4, <2>5, <2>6, <2>7
  <2> QED  BY <2>8, <2>9, Zenon DEF TradeInv
<1>24. ~bookDirty'
  BY <1>1, <1>2, Zenon DEF Core
<1> QED  BY <1>14, <1>17, <1>18, <1>20, <1>23, <1>24, Zenon DEF Core
=============================================================================
