----------------------- MODULE ExchangeSettlementProofs -----------------------
(***************************************************************************)
(* Proofs about Exchange while the Book agrees with Postgres, part two:    *)
(* settlement and cancellation keep the invariant, which is then           *)
(* inductive; and what follows from it: reservations are backed, rows only *)
(* advance, settlement never fails, the Book is the set of live orders and *)
(* a processed cancellation found its order or came too late.              *)
(***************************************************************************)
EXTENDS ExchangeBookProofs

----------------------------------------------------------------------------
(* Settlement *)

\* The buyer of a trade of a LIMIT order pays from what he reserved, the
\* improvement included; a BUY MARKET order reserved nothing.
LEMMA TradePrice ==
  ASSUME BaseInv, TradeInv, mpc \in {"match", "settle"}, NEW k \in DOMAIN result.trades,
         NEW tr, tr = result.trades[k]
  PROVE  /\ tr.buy[1] \in DOMAIN rows /\ tr.sell[1] \in DOMAIN rows
         /\ rows[tr.buy[1]].user = obj[tr.buy].user
         /\ rows[tr.sell[1]].user = obj[tr.sell].user
         /\ rows[tr.buy[1]].price \in Nat
         /\ obj[tr.buy].side = "BUY" /\ obj[tr.sell].side = "SELL"
         /\ ~IsBuyMarket(Taker) =>
              /\ tr.qty > 0 /\ Improvement(tr) \in Nat /\ Released(tr) = Improvement(tr)
              /\ tr.price * tr.qty + Improvement(tr) = rows[tr.buy[1]].price * tr.qty
         /\ IsBuyMarket(Taker) => rows[tr.buy[1]].price = 0 /\ result.incoming = tr.buy
<1>1. /\ tr.qty \in Int /\ tr.price \in Nat \ {0} /\ tr.buy \in DOMAIN obj
      /\ tr.sell \in DOMAIN obj /\ result.incoming \in DOMAIN obj /\ Taker = obj[result.incoming]
  BY TradesFacts, TakerFacts DEF Taker
<1>2. /\ tr.buy[1] \in DOMAIN rows /\ tr.sell[1] \in DOMAIN rows
      /\ rows[tr.buy[1]].user = obj[tr.buy].user
      /\ rows[tr.sell[1]].user = obj[tr.sell].user
      /\ rows[tr.buy[1]].price = obj[tr.buy].price
  BY <1>1, ObjectFacts DEF Same
<1>3. /\ Taker.side \in {"BUY", "SELL"} /\ Taker.type \in {"LIMIT", "MARKET"}
      /\ Taker.type = "MARKET" => Taker.price = NoPrice
      /\ Taker.price \in Nat
  BY <1>1, ObjectFacts, OrderAmounts DEF Sides, Types
<1>4. rows[tr.buy[1]].price \in Nat
  BY <1>2, RowFacts, OrderAmounts
<1>5. PICK maker : maker = IF Taker.side = "BUY" THEN tr.sell ELSE tr.buy
  OBVIOUS
<1>6. /\ result.incoming = IF Taker.side = "BUY" THEN tr.buy ELSE tr.sell
      /\ obj[maker].side = Opposite(Taker.side) /\ tr.price = obj[maker].price
      /\ Taker.side = "BUY" /\ Taker.type = "LIMIT" => tr.price <= Taker.price
      /\ IsBuyMarket(Taker) \/ tr.qty > 0
  BY <1>5 DEF TradeInv
<1>7. obj[tr.buy].side = "BUY" /\ obj[tr.sell].side = "SELL"
  BY <1>1, <1>3, <1>5, <1>6 DEF Opposite
<1>8. ASSUME ~IsBuyMarket(Taker)
      PROVE  /\ tr.qty > 0 /\ Improvement(tr) \in Nat /\ Released(tr) = Improvement(tr)
             /\ tr.price * tr.qty + Improvement(tr) = rows[tr.buy[1]].price * tr.qty
  <2>1. tr.qty \in Nat /\ tr.qty > 0
    BY <1>1, <1>6, <1>8
  <2>2. CASE Taker.side = "BUY"
    <3>1. PICK t \in Nat, p \in Nat, q \in Nat : t = Taker.price /\ p = tr.price /\ q = tr.qty
      BY <1>1, <1>3, <2>1
    <3>2. rows[tr.buy[1]].price = t /\ p <= t
      BY <1>1, <1>2, <1>3, <1>6, <1>8, <2>2, <3>1 DEF IsBuyMarket
    <3>3. Improvement(tr) = (t - p) * q
      BY <2>2, <3>1 DEF Improvement
    <3>4. (t - p) * q \in Nat
      <4>1. \A x \in Nat, y \in Nat : x * y \in Nat
        OBVIOUS
      <4>2. t - p \in Nat
        BY <3>2
      <4> QED  BY <4>1, <4>2
    <3>5. p * q + (t - p) * q = t * q
      OBVIOUS
    <3>6. Released(tr) = Improvement(tr)
      BY <3>3, <3>4 DEF Released
    <3> QED  BY <2>1, <3>1, <3>2, <3>3, <3>4, <3>5, <3>6
  <2>3. CASE Taker.side = "SELL"
    <3>1. Improvement(tr) = 0 /\ Released(tr) = 0
      BY <2>3 DEF Improvement, Released
    <3>2. rows[tr.buy[1]].price = tr.price
      BY <1>2, <1>5, <1>6, <2>3
    <3>3. tr.price * tr.qty \in Int
      BY <1>1
    <3> QED  BY <2>1, <3>1, <3>2, <3>3
  <2> QED  BY <1>3, <2>2, <2>3
<1>9. IsBuyMarket(Taker) => rows[tr.buy[1]].price = 0 /\ result.incoming = tr.buy
  BY <1>1, <1>2, <1>3, <1>6 DEF IsBuyMarket, NoPrice
<1> QED  BY <1>2, <1>4, <1>7, <1>8, <1>9

LEMMA SettleTradeCore ==
  ASSUME BaseInv, BaseInv', Core, SettleTrade
  PROVE  Core'
<1>1. /\ mpc = "settle" /\ mpc' = "settle" /\ unsettled # <<>> /\ unsettled' = Tail(unsettled)
      /\ UNCHANGED <<wallets, rows, processed, stream, batch, todo, txRows,
                     obj, book, locations, incoming, funds, result, mpc>>
  BY DEF SettleTrade, dbVars, redisVars, loopVars, engineVars
<1>2. UNCHANGED bookDirty
  BY DEF SettleTrade
<1>3. PICK tr, k, b, s, c :
        /\ tr = Head(unsettled) /\ k = Len(result.trades) - Len(unsettled) + 1
        /\ b = obj[tr.buy].user /\ s = obj[tr.sell].user /\ c = tr.price * tr.qty
  OBVIOUS
<1>4. /\ tr \in Trade /\ tr.buy \in DOMAIN obj /\ tr.sell \in DOMAIN obj
      /\ tr.price \in Nat \ {0} /\ tr.qty \in Int /\ b \in Users /\ s \in Users
      /\ k \in DOMAIN result.trades /\ tr = result.trades[k] /\ Settled = 1..(k - 1)
      /\ Len(Tail(unsettled)) = Len(unsettled) - 1
  BY <1>1, <1>3, HeadFacts, Zenon
<1>5. /\ tr.qty > 0 /\ c \in Nat /\ Released(tr) \in Nat
      /\ \A u \in Users :
           /\ View(u)'.brl = View(u).brl + (IF u = s THEN c ELSE 0)
                + (IF u = b THEN (IF IsBuyMarket(Taker) THEN -c ELSE Released(tr)) ELSE 0)
           /\ View(u)'.reservedBRL = View(u).reservedBRL
                - (IF u = b /\ ~IsBuyMarket(Taker) THEN c + Released(tr) ELSE 0)
           /\ View(u)'.reservedVibranium = View(u).reservedVibranium
                - (IF u = s THEN tr.qty ELSE 0)
  <2>1. tr.qty \in 1..MaxQty
    BY <1>3, SettleTradeFacts, Zenon
  <2>2. /\ c \in Nat /\ Released(tr) \in Nat
        /\ \A u \in Users :
           /\ View(u)'.brl = View(u).brl + (IF u = s THEN c ELSE 0)
                + (IF u = b THEN (IF IsBuyMarket(Taker) THEN -c ELSE Released(tr)) ELSE 0)
           /\ View(u)'.reservedBRL = View(u).reservedBRL
                - (IF u = b /\ ~IsBuyMarket(Taker) THEN c + Released(tr) ELSE 0)
           /\ View(u)'.reservedVibranium = View(u).reservedVibranium
                - (IF u = s THEN tr.qty ELSE 0)
    BY <1>3, SettleTradeFacts, Zenon
  <2>3. tr.qty > 0
    BY <2>1, BoundsAssumption
  <2> QED  BY <2>2, <2>3
<1>6. Clean
  <2>1. mpc \notin {"down", "resync"}
    BY <1>1
  <2> QED  BY <1>1, <2>1, Zenon DEF Core, Clean
<1>7. ObjectInv /\ BookInv /\ MatchInv /\ TradeInv
  BY <1>6 DEF Core
<1>8. Settled' = Settled \cup {k} /\ k \notin Settled /\ Settled \subseteq DOMAIN result.trades
      /\ IsFiniteSet(Settled)
  <2>1. /\ Len(result.trades) \in Nat /\ Len(unsettled) \in Nat /\ k \in Nat \ {0}
        /\ Settled \subseteq DOMAIN result.trades /\ IsFiniteSet(Settled)
    <3>1. /\ Len(result.trades) \in Nat /\ DOMAIN result.trades = 1..Len(result.trades)
          /\ Settled \subseteq DOMAIN result.trades /\ IsFiniteSet(Settled)
      BY TradesFacts
    <3>2. Len(unsettled) \in Nat
      BY DEF BaseInv, TypeOK
    <3>3. \A n \in Nat : \A j \in 1..n : j \in Nat \ {0}
      OBVIOUS
    <3> QED  BY <1>4, <3>1, <3>2, <3>3, Zenon
  <2>2. Settled' = 1..(Len(result.trades) - Len(Tail(unsettled)))
    BY <1>1 DEF Settled
  <2>3. Len(result.trades) - Len(Tail(unsettled)) = k
    <3>1. \A m \in Nat, n \in Nat : m - (n - 1) = m - n + 1
      OBVIOUS
    <3>2. k = Len(result.trades) - Len(unsettled) + 1
      BY <1>3
    <3>3. Len(Tail(unsettled)) = Len(unsettled) - 1
      BY <1>4
    <3> QED  BY <2>1, <3>1, <3>2, <3>3, Zenon
  <2>4. \A n \in Nat \ {0} : 1..n = 1..(n - 1) \cup {n} /\ n \notin 1..(n - 1)
    OBVIOUS
  <2>5. Settled' = 1..k /\ Settled = 1..(k - 1)
    BY <1>4, <2>2, <2>3
  <2> QED  BY <2>1, <2>4, <2>5
<1>9. \A x : (Known(x)' <=> Known(x)) /\ (Matched(x)' <=> Matched(x))
  BY <1>1 DEF Known, Matched
<1>10. \A x \in DOMAIN rows : RowView(x)' = RowView(x)
  BY <1>1 DEF RowView
<1>11. ViewKept
  <2>1. \A x \in DOMAIN rows : Same(rows'[x], rows[x])
    BY <1>1 DEF Same
  <2> QED  BY <1>1, <1>9, <1>10, <2>1 DEF ViewKept
<1>12. ObjectInv' /\ BookInv' /\ MatchInv'
  BY <1>1, <1>7, <1>11, ObjectFrame, BookFrame, MatchFrame
<1>13. JournalInv'
  BY <1>1, <1>9, JournalFrame DEF Core
<1>14. BackedInv'
  <2>1. BackedInv
    BY DEF Core
  <2>2. \A id, asset : Tied(rows[id], asset)' = Tied(rows[id], asset)
    BY <1>1 DEF Tied
  <2> QED  BY <1>1, <2>1, <2>2 DEF BackedInv, Mine
<1>15. /\ tr.buy[1] \in DOMAIN rows /\ tr.sell[1] \in DOMAIN rows
       /\ rows[tr.buy[1]].user = b /\ rows[tr.sell[1]].user = s
       /\ rows[tr.buy[1]].price \in Nat
       /\ ~IsBuyMarket(Taker) =>
            /\ Released(tr) = Improvement(tr)
            /\ c + Improvement(tr) = rows[tr.buy[1]].price * tr.qty
       /\ IsBuyMarket(Taker) => rows[tr.buy[1]].price = 0 /\ result.incoming = tr.buy
  BY <1>1, <1>3, <1>4, <1>7, TradePrice
<1>16. PICK e : e = rows[tr.buy[1]].price * tr.qty
  OBVIOUS
<1>17. e \in Int /\ e = IF IsBuyMarket(Taker) THEN 0 ELSE c + Released(tr)
  <2>1. CASE IsBuyMarket(Taker)
    BY <1>4, <1>15, <1>16, <2>1
  <2>2. CASE ~IsBuyMarket(Taker)
    BY <1>5, <1>15, <1>16, <2>2
  <2> QED  BY <2>1, <2>2
<1>18. ClaimInv'
  <2>0. PICK x, d :
          /\ x = [a \in Assets |-> IF a = "brl" THEN tr.buy[1] ELSE tr.sell[1]]
          /\ d = [a \in Assets |-> IF a = "brl" THEN e ELSE tr.qty]
    OBVIOUS
  <2>1. \A a \in Assets : x[a] \in DOMAIN rows /\ d[a] \in Int
    BY <1>4, <1>15, <1>17, <2>0
  <2>2. x["brl"] = tr.buy[1] /\ x["vibranium"] = tr.sell[1] /\ d["brl"] = e
        /\ d["vibranium"] = tr.qty
    BY <2>0 DEF Assets
  <2>3. ASSUME NEW asset \in Assets, NEW id \in DOMAIN rows
        PROVE  Claim(id, asset)' = Claim(id, asset) - (IF id = x[asset] THEN d[asset] ELSE 0)
    <3>1. Needs(id, asset)' = Needs(id, asset)
      BY <1>1, <1>11, NeedsSame
    <3>2. Tied(RowView(id), asset)' = Tied(RowView(id), asset)
      BY <1>10 DEF Tied
    <3>3. Claim(id, asset)' = Tied(RowView(id), asset) - Total(Needs(id, asset), Settled')
      BY <3>1, <3>2 DEF Claim
    <3>4. Tied(RowView(id), asset) \in Nat /\ Total(Needs(id, asset), Settled) \in Nat
          /\ Needs(id, asset)[k] \in Int /\ Needs(id, asset)[k] = Need(tr, id, asset)
          /\ \A i \in Settled : Needs(id, asset)[i] \in Int
      <4>1. Tied(RowView(id), asset) \in Nat
        BY ClaimInt
      <4>2. \A i \in DOMAIN result.trades :
              /\ Needs(id, asset)[i] = Need(result.trades[i], id, asset)
              /\ Needs(id, asset)[i] \in Nat
        BY NeedsFacts
      <4>3. Total(Needs(id, asset), Settled) \in Nat
        BY <1>8, NeedsFacts
      <4>4. \A n \in Nat : n \in Int
        OBVIOUS
      <4> QED  BY <1>4, <1>8, <4>1, <4>2, <4>3, <4>4, Zenon
    <3>5. Total(Needs(id, asset), Settled') = Total(Needs(id, asset), Settled) + Need(tr, id, asset)
      <4>1. PICK f : f = Needs(id, asset)
        OBVIOUS
      <4>2. PICK S, T : S = Settled /\ T = Settled'
        OBVIOUS
      <4>3. /\ IsFiniteSet(S) /\ k \notin S /\ T = S \cup {k} /\ f[k] \in Int
            /\ \A i \in S : f[i] = f[i] /\ f[i] \in Int
        BY <1>8, <3>4, <4>1, <4>2
      <4>4. Total(f, T) = Total(f, S) + f[k]
        BY <4>3, TotalAdd
      <4> QED  BY <3>4, <4>1, <4>2, <4>4
    <3>6. Need(tr, id, asset) = IF id = x[asset] THEN d[asset] ELSE 0
      <4>1. ~(tr.qty <= 0)
        BY <1>4, <1>5
      <4>2. CASE asset = "brl"
        BY <1>16, <2>2, <4>1, <4>2 DEF Need
      <4>3. CASE asset = "vibranium"
        BY <2>2, <4>1, <4>3 DEF Need
      <4> QED  BY <4>2, <4>3 DEF Assets
    <3>7. Claim(id, asset) = Tied(RowView(id), asset) - Total(Needs(id, asset), Settled)
      BY DEF Claim
    <3>8. (IF id = x[asset] THEN d[asset] ELSE 0) \in Int
      BY <2>1
    <3> QED  BY <3>3, <3>4, <3>5, <3>6, <3>7, <3>8
  <2>4. ASSUME NEW u \in Users, NEW asset \in Assets
        PROVE  Reserved(View(u)')[asset]
                 = Reserved(View(u))[asset] - (IF u = rows[x[asset]].user THEN d[asset] ELSE 0)
    <3>1. \A w : Reserved(w)["brl"] = w.reservedBRL
                 /\ Reserved(w)["vibranium"] = w.reservedVibranium
      BY DEF Reserved
    <3>2. CASE asset = "brl"
      <4>1. View(u).reservedBRL \in Nat
        BY ViewType, WalletFields
      <4>2. (IF u = b /\ ~IsBuyMarket(Taker) THEN c + Released(tr) ELSE 0)
              = IF u = b THEN e ELSE 0
        BY <1>17
      <4>3. View(u)'.reservedBRL = View(u).reservedBRL - (IF u = b THEN e ELSE 0)
        BY <1>5, <4>2
      <4> QED  BY <1>15, <2>2, <3>1, <3>2, <4>3
    <3>3. CASE asset = "vibranium"
      BY <1>5, <1>15, <2>2, <3>1, <3>3
    <3> QED  BY <3>2, <3>3 DEF Assets
  <2>5. ClaimInv
    BY DEF Core
  <2>6. DOMAIN rows' = DOMAIN rows /\ \A id \in DOMAIN rows : rows'[id].user = rows[id].user
    BY <1>1
  <2>7. \A asset \in Assets, id \in DOMAIN rows :
          Claim(id, asset)' = Claim(id, asset) - (IF id = x[asset] THEN d[asset] ELSE 0)
    BY <2>3
  <2>8. \A u \in Users, asset \in Assets :
          Reserved(View(u)')[asset]
            = Reserved(View(u))[asset] - (IF u = rows[x[asset]].user THEN d[asset] ELSE 0)
    BY <2>4
  <2>9. ClaimMoves(x, d)
    BY <2>1, <2>6, <2>7, <2>8, Zenon DEF ClaimMoves
  <2> QED  BY <2>5, <2>9, ClaimStep

<1>19. Taker' = Taker /\ Costs' = Costs
  BY <1>1 DEF Taker, Costs
<1>20. \A i \in DOMAIN result'.trades :
         LET t == result'.trades[i]
             maker == IF Taker'.side = "BUY" THEN t.sell ELSE t.buy
         IN  /\ result'.incoming = IF Taker'.side = "BUY" THEN t.buy ELSE t.sell
             /\ obj'[maker].side = Opposite(Taker'.side) /\ obj'[maker].type = "LIMIT"
             /\ t.price = obj'[maker].price
             /\ Taker'.side = "BUY" /\ Taker'.type = "LIMIT" => t.price <= Taker'.price
             /\ IsBuyMarket(Taker') \/ t.qty > 0
  <2>1. \A i \in DOMAIN result.trades :
         LET t == result.trades[i]
             maker == IF Taker.side = "BUY" THEN t.sell ELSE t.buy
         IN  /\ result.incoming = IF Taker.side = "BUY" THEN t.buy ELSE t.sell
             /\ obj[maker].side = Opposite(Taker.side) /\ obj[maker].type = "LIMIT"
             /\ t.price = obj[maker].price
             /\ Taker.side = "BUY" /\ Taker.type = "LIMIT" => t.price <= Taker.price
             /\ IsBuyMarket(Taker) \/ t.qty > 0
    BY <1>1, <1>7 DEF TradeInv
  <2> QED  BY <1>1, <1>19, <2>1
<1>21. ASSUME IsBuyMarket(Taker)
       PROVE  /\ Taker.user \in DOMAIN cache'
              /\ \A i \in DOMAIN result.trades : result.trades[i].qty > 0
              /\ funds >= 0
              /\ Total(Costs, DOMAIN result.trades \ Settled') + 0 <= View(Taker.user)'.brl
  <2>1. /\ Taker.user \in DOMAIN cache
        /\ \/ /\ \A i \in DOMAIN result.trades : result.trades[i].qty > 0
              /\ funds >= 0
              /\ Total(Costs, DOMAIN result.trades \ Settled) + 0 <= View(Taker.user).brl
           \/ \A i \in DOMAIN result.trades : result.trades[i].qty < 0
    BY <1>1, <1>7, <1>21 DEF TradeInv
  <2>2. ~\A i \in DOMAIN result.trades : result.trades[i].qty < 0
    BY <1>4, <1>5
  <2>3. DOMAIN cache \subseteq DOMAIN cache'
    <3>1. \E g : cache' = Merge(cache, g)
      BY Zenon DEF SettleTrade
    <3> QED  BY <3>1 DEF Merge
  <2>4. b = Taker.user /\ Taker.user \in Users
    BY <1>3, <1>4, <1>15, <1>21 DEF Taker
  <2>5. View(b)'.brl = View(b).brl + (IF b = s THEN c ELSE 0) + -c
    BY <1>4, <1>5, <1>21
  <2>6. View(b).brl \in Nat
    BY <1>4, ViewType, WalletFields
  <2>7. View(b)'.brl \in Int /\ View(b).brl - c <= View(b)'.brl
    BY <1>5, <2>5, <2>6
  <2>8. View(Taker.user)'.brl = View(b)'.brl
    BY <1>19, <2>4 DEF View
  <2>9. Total(Costs, DOMAIN result.trades \ Settled)
          = c + Total(Costs, DOMAIN result.trades \ Settled')
    <3>1. PICK f, S, T : /\ f = Costs /\ S = DOMAIN result.trades \ Settled
                         /\ T = DOMAIN result.trades \ Settled'
      OBVIOUS
    <3>2. S \in SUBSET DOMAIN result.trades /\ IsFiniteSet(S) /\ k \in S /\ S \ {k} = T
      BY <1>4, <1>8, <3>1, TradesFacts, FS_Subset
    <3>3. \A i \in DOMAIN result.trades :
            f[i] = result.trades[i].price * result.trades[i].qty /\ f[i] \in Int
      BY <3>1, CostsInt
    <3>4. f[k] = c
      BY <1>3, <1>4, <3>3
    <3>5. \A i \in S : f[i] \in Int
      BY <3>2, <3>3
    <3>6. Total(f, S) = f[k] + Total(f, S \ {k})
      BY <3>2, <3>5, TotalTake
    <3> QED  BY <3>1, <3>2, <3>4, <3>6
  <2>10. Total(Costs, DOMAIN result.trades \ Settled') \in Int
    BY CostsInt
  <2>11. View(Taker.user).brl = View(b).brl
    BY <2>4
  <2>12. \A t \in Int, v \in Int, n \in Int, m \in Int :
           (m + t) + 0 <= v /\ v - m <= n => t + 0 <= n
    OBVIOUS
  <2>13. Total(Costs, DOMAIN result.trades \ Settled') + 0 <= View(b)'.brl
    BY <1>5, <2>1, <2>2, <2>6, <2>7, <2>9, <2>10, <2>11, <2>12
  <2> QED  BY <2>1, <2>2, <2>3, <2>8, <2>13, Zenon
<1>22. IsBuyMarket(Taker') =>
         /\ Taker'.user \in DOMAIN cache'
         /\ \/ /\ \A i \in DOMAIN result'.trades : result'.trades[i].qty > 0
               /\ funds' >= 0
               /\ Total(Costs', DOMAIN result'.trades \ Settled')
                    + (IF mpc' = "match" THEN funds' ELSE 0) <= View(Taker.user)'.brl
            \/ /\ \A i \in DOMAIN result'.trades : result'.trades[i].qty < 0
               /\ funds' <= 0
  BY <1>1, <1>19, <1>21
<1>23. TradeInv'
  BY <1>20, <1>22, Zenon DEF TradeInv
<1>24. ~bookDirty'
  BY <1>1, <1>2, Zenon DEF Core
<1> QED  BY <1>12, <1>13, <1>14, <1>18, <1>23, <1>24, Zenon DEF Core

LEMMA AdvancedFacts ==
  /\ \A a \in Order : Advanced(a, a)
  /\ \A a, b, c \in Order : Advanced(a, b) /\ Advanced(b, c) => Advanced(a, c)
<1>1. \A a \in Order : a.filled \in Nat
  BY OrderAmounts
<1> QED  BY <1>1 DEF Advanced

\* What the transaction sees of the orders after WriteRows: the objects.
LEMMA FinishRows ==
  ASSUME BaseInv, ObjectInv, FinishOrder, UNCHANGED rows
  PROVE  /\ \A r \in DOMAIN obj : RowView(r[1])' = obj[r]
         /\ \A id \in DOMAIN rows : (\A r \in DOMAIN obj : r[1] # id) => RowView(id)' = RowView(id)
         /\ \A id \in DOMAIN txRows' :
              \/ id \in DOMAIN txRows /\ txRows'[id] = txRows[id]
              \/ \E r \in DOMAIN obj : r[1] = id /\ txRows'[id] = obj[r]
<1>1. PICK list : list = Append(result.touched, result.incoming)
  OBVIOUS
<1>2. /\ list \in Seq(Refs) /\ \A i \in DOMAIN list : list[i] \in DOMAIN obj
      /\ WriteRows(list)
      /\ DOMAIN list = 1..(Len(result.touched) + 1) /\ Len(result.touched) \in Nat
      /\ list[Len(result.touched) + 1] = result.incoming
      /\ \A i \in DOMAIN result.touched : i \in DOMAIN list /\ list[i] = result.touched[i]
  BY <1>1, FinishFacts, Zenon
<1>3. PICK S : S = {list[i][1] : i \in DOMAIN list}
  OBVIOUS
<1>4. /\ DOMAIN txRows' = DOMAIN txRows \cup S
      /\ \A id \in S : \E i \in DOMAIN list : list[i][1] = id /\ txRows'[id] = obj[list[i]]
      /\ \A id \in DOMAIN txRows : id \notin S => txRows'[id] = txRows[id]
  BY <1>2, <1>3, WriteRowsFacts
<1>5. Changed \subseteq {list[i] : i \in DOMAIN list}
  <2>1. result.incoming \in {list[i] : i \in DOMAIN list}
    BY <1>2
  <2>2. \A i \in DOMAIN result.touched : result.touched[i] \in {list[j] : j \in DOMAIN list}
    BY <1>2
  <2> QED  BY <2>1, <2>2 DEF Changed
<1>6. \A id \in DOMAIN rows : id \notin S => RowView(id)' = RowView(id)
  BY <1>4 DEF RowView
<1>7. \A id \in S : \E r \in DOMAIN obj : r[1] = id /\ txRows'[id] = obj[r]
  BY <1>2, <1>4
<1>8. ASSUME NEW r \in DOMAIN obj
      PROVE  RowView(r[1])' = obj[r]
  <2>1. PICK id \in DOMAIN rows : id = r[1]
    BY ObjectFacts
  <2>2. CASE id \in S
    <3>1. PICK x \in DOMAIN obj : x[1] = id /\ txRows'[id] = obj[x]
      BY <1>7, <2>2
    <3>2. x = r
      BY <2>1, <3>1 DEF ObjectInv
    <3>3. RowView(id)' = txRows'[id]
      BY <1>4, <2>2 DEF RowView
    <3> QED  BY <2>1, <3>1, <3>2, <3>3
  <2>3. CASE id \notin S
    <3>1. r \notin Changed
      BY <1>3, <1>5, <2>1, <2>3
    <3>2. obj[r] = RowView(id)
      BY <2>1, <3>1 DEF ObjectInv
    <3> QED  BY <1>6, <2>1, <2>3, <3>2
  <2> QED  BY <2>2, <2>3
<1>9. ASSUME NEW id \in DOMAIN rows, \A r \in DOMAIN obj : r[1] # id
      PROVE  RowView(id)' = RowView(id)
  BY <1>6, <1>7, <1>9
<1>10. \A id \in DOMAIN txRows' :
         \/ id \in DOMAIN txRows /\ txRows'[id] = txRows[id]
         \/ \E r \in DOMAIN obj : r[1] = id /\ txRows'[id] = obj[r]
  BY <1>4, <1>7
<1> QED  BY <1>8, <1>9, <1>10

LEMMA FinishOrderCore ==
  ASSUME BaseInv, BaseInv', Core, FinishOrder
  PROVE  Core'
<1>1. /\ mpc = "settle" /\ mpc' = "apply" /\ unsettled = <<>>
      /\ UNCHANGED <<wallets, rows, processed, stream, batch, todo, obj, book, locations, incoming>>
  BY DEF FinishOrder, dbVars, redisVars
<1>2. UNCHANGED bookDirty
  BY DEF FinishOrder
<1>3. Clean
  <2>1. mpc \notin {"down", "resync"}
    BY <1>1
  <2> QED  BY <1>1, <2>1, Zenon DEF Core, Clean
<1>4. ObjectInv /\ BookInv /\ MatchInv /\ TradeInv
  BY <1>3 DEF Core
<1>5. \A x : (Known(x)' <=> Known(x)) /\ (Matched(x)' <=> Matched(x))
  BY <1>1 DEF Known, Matched
<1>6. \A r \in DOMAIN obj : RowView(r[1])' = obj[r]
  BY <1>1, <1>4, FinishRows
<1>7. \A id \in DOMAIN rows : (\A r \in DOMAIN obj : r[1] # id) => RowView(id)' = RowView(id)
  BY <1>1, <1>4, FinishRows
<1>8. \A id \in DOMAIN txRows' :
        \/ id \in DOMAIN txRows /\ txRows'[id] = txRows[id]
        \/ \E r \in DOMAIN obj : r[1] = id /\ txRows'[id] = obj[r]
  BY <1>1, <1>4, FinishRows
<1>9. JournalInv /\ BackedInv /\ ClaimInv
  BY DEF Core
<1>10. ASSUME NEW id \in DOMAIN rows
       PROVE  rows[id] \in Order /\ RowView(id) \in Order /\ Advanced(rows[id], RowView(id))
  <2>1. rows[id] \in Order /\ RowView(id) \in Order
    BY RowFacts, ViewRow
  <2>2. CASE id \in DOMAIN txRows
    BY <1>9, <2>1, <2>2 DEF JournalInv, RowView
  <2>3. CASE id \notin DOMAIN txRows
    BY <2>1, <2>3, AdvancedFacts DEF RowView
  <2> QED  BY <2>1, <2>2, <2>3
<1>11. JournalInv'
  <2>1. \A id \in DOMAIN rows :
          ~Matched(id)' => rows[id].filled = 0 /\ rows[id].status = "OPEN"
    BY <1>5, <1>9 DEF JournalInv
  <2>2. ASSUME NEW id \in DOMAIN txRows'
        PROVE  Known(id)' /\ Advanced(rows[id], txRows'[id])
    <3>1. CASE id \in DOMAIN txRows /\ txRows'[id] = txRows[id]
      BY <1>5, <1>9, <3>1 DEF JournalInv
    <3>2. ASSUME NEW r \in DOMAIN obj, r[1] = id, txRows'[id] = obj[r]
          PROVE  Known(id)' /\ Advanced(rows[id], txRows'[id])
      <4>1. id \in DOMAIN rows /\ obj[r] \in Order
        BY <3>2, ObjectFacts
      <4>2. Known(id) /\ Advanced(RowView(id), obj[r])
        BY <1>4, <3>2 DEF ObjectInv
      <4>3. rows[id] \in Order /\ RowView(id) \in Order /\ Advanced(rows[id], RowView(id))
        BY <1>10, <4>1
      <4>4. Advanced(rows[id], obj[r])
        BY <4>1, <4>2, <4>3, AdvancedFacts
      <4> QED  BY <1>5, <3>2, <4>2, <4>4
    <3> QED  BY <1>8, <3>1, <3>2
  <2> QED  BY <1>1, <2>1, <2>2 DEF JournalInv
<1>12. BackedInv'
  <2>1. \A id, asset : Tied(rows[id], asset)' = Tied(rows[id], asset)
    BY <1>1 DEF Tied
  <2> QED  BY <1>1, <1>9, <2>1 DEF BackedInv, Mine
<1>13. ObjectInv'
  <2>1. \A r, x \in DOMAIN obj : r[1] = x[1] => r = x
    BY <1>4 DEF ObjectInv
  <2>2. ASSUME NEW r \in DOMAIN obj
        PROVE  Known(r[1])' /\ RowView(r[1])' = obj[r] /\ Advanced(obj[r], obj[r])
    <3>1. obj[r] \in Order
      BY ObjectFacts
    <3>2. Known(r[1])'
      <4>1. PICK id : id = r[1]
        OBVIOUS
      <4>2. Known(id)
        BY <1>4, <4>1 DEF ObjectInv
      <4> QED  BY <1>5, <4>1, <4>2
    <3> QED  BY <1>6, <3>1, <3>2, AdvancedFacts
  <2>3. ASSUME NEW id \in DOMAIN rows, Known(id)', rows[id].type = "LIMIT",
               ~IsDone(RowView(id)'), \A r \in DOMAIN obj : r[1] # id
        PROVE  FALSE
    <3>1. Known(id) /\ RowView(id)' = RowView(id)
      BY <1>5, <1>7, <2>3
    <3> QED  BY <1>4, <2>3, <3>1 DEF ObjectInv
  <2> QED  BY <1>1, <2>1, <2>2, <2>3 DEF ObjectInv
<1>14. BookInv'
  BY <1>1, <1>4, BookFrame
<1>15. MatchInv' /\ TradeInv'
  BY <1>1 DEF MatchInv, TradeInv
<1>16. Settled = DOMAIN result.trades /\ Settled' = {}
  <2>1. Len(result.trades) \in Nat /\ DOMAIN result.trades = 1..Len(result.trades)
    BY TradesFacts
  <2>2. Len(unsettled) = 0
    BY <1>1
  <2>3. Settled = 1..(Len(result.trades) - 0)
    BY <1>1, <2>2 DEF Settled
  <2>4. Settled' = {}
    BY <1>1 DEF Settled
  <2>5. \A n \in Nat : n - 0 = n
    OBVIOUS
  <2> QED  BY <2>1, <2>3, <2>4, <2>5, Zenon
<1>17. PICK t, v, m : t = result.incoming[1] /\ v = Taker.user /\ m = Remainder
  OBVIOUS
<1>18. /\ result.incoming \in DOMAIN obj /\ t \in DOMAIN rows /\ rows[t].user = v
       /\ m \in Int
       /\ \A u \in Users :
            /\ View(u)'.reservedBRL = View(u).reservedBRL
            /\ View(u)'.reservedVibranium
                 = View(u).reservedVibranium - (IF u = v THEN m ELSE 0)
  <2>1. result.incoming \in DOMAIN obj
    BY <1>1, TakerFacts
  <2>2. t \in DOMAIN rows /\ rows[t].user = v
    BY <1>17, <2>1, ObjectFacts DEF Taker, Same
  <2>3. /\ \A u \in Users :
            /\ View(u)'.reservedBRL = View(u).reservedBRL
            /\ View(u)'.reservedVibranium
                 = View(u).reservedVibranium - (IF u = v THEN m ELSE 0)
        /\ m \in Int
    BY <1>17, FinishFacts, Zenon
  <2> QED  BY <2>1, <2>2, <2>3

<1>19. ASSUME NEW id \in DOMAIN rows, NEW asset \in Assets
       PROVE  Claim(id, asset)' = Claim(id, asset)
                - (IF id = t /\ asset = "vibranium" THEN m ELSE 0)
  <2>1. Claim(id, asset)' = Tied(RowView(id)', asset)
    <3>1. Claim(id, asset)' = Tied(RowView(id), asset)' - Total(Needs(id, asset)', {})
      BY <1>16 DEF Claim
    <3>2. Total(Needs(id, asset)', {}) = 0
      BY TotalEmpty
    <3>3. Tied(RowView(id), asset)' = Tied(RowView(id)', asset)
      BY DEF Tied
    <3>4. Tied(RowView(id)', asset) \in Int
      <4>1. RowView(id)' \in Order /\ Sane(RowView(id)')
        <5>1. CASE \A r \in DOMAIN obj : r[1] # id
          BY <1>7, <5>1, ViewRow
        <5>2. ASSUME NEW r \in DOMAIN obj, r[1] = id
              PROVE  RowView(id)' \in Order /\ Sane(RowView(id)')
          <6>1. RowView(r[1])' = obj[r] /\ obj[r] \in Order /\ Sane(obj[r])
            BY <1>6, ObjectFacts DEF BaseInv, RowInv
          <6> QED  BY <5>2, <6>1
        <5> QED  BY <5>1, <5>2
      <4>2. Tied(RowView(id)', asset) \in Nat
        BY <4>1, TiedFacts
      <4> QED  BY <4>2
    <3> QED  BY <3>1, <3>2, <3>3, <3>4
  <2>2. Claim(id, asset) = Tied(RowView(id), asset)
                             - Total(Needs(id, asset), DOMAIN result.trades)
    BY <1>16 DEF Claim
  <2>3. Tied(RowView(id), asset) \in Nat
        /\ Total(Needs(id, asset), DOMAIN result.trades) \in Nat
    BY ClaimInt, NeedsFacts
  <2>4. CASE \A r \in DOMAIN obj : r[1] # id
    <3>1. RowView(id)' = RowView(id)
      BY <1>7, <2>4
    <3>2. Total(Needs(id, asset), DOMAIN result.trades) = 0
      BY <2>4, NeedsNone
    <3>3. id # t
      BY <1>17, <1>18, <2>4
    <3> QED  BY <2>1, <2>2, <2>3, <3>1, <3>2, <3>3
  <2>5. ASSUME NEW r \in DOMAIN obj, r[1] = id
        PROVE  Claim(id, asset)' = Claim(id, asset)
                 - (IF id = t /\ asset = "vibranium" THEN m ELSE 0)
    <3>1. RowView(id)' = obj[r]
      <4>1. RowView(r[1])' = obj[r]
        BY <1>6
      <4> QED  BY <2>5, <4>1
    <3>2. Tied(RowView(id), asset) = Tied(obj[r], asset) + Rest(r, asset)
                                      + Total(Needs(id, asset), DOMAIN result.trades)
      BY <1>1, <1>4, <2>5 DEF MatchInv
    <3>3. id = t <=> r = result.incoming
      BY <1>4, <1>17, <1>18, <2>5 DEF ObjectInv
    <3>4. Rest(r, asset) = IF id = t /\ asset = "vibranium" THEN m ELSE 0
      BY <1>17, <3>3 DEF Rest
    <3>5. Tied(obj[r], asset) \in Nat
      <4>1. obj[r] \in Order /\ Sane(obj[r])
        BY ObjectFacts DEF BaseInv, RowInv
      <4> QED  BY <4>1, TiedFacts
    <3>6. Rest(r, asset) \in Int
      BY <1>18, <3>4
    <3>7. Claim(id, asset)' = Tied(obj[r], asset)
      BY <2>1, <3>1
    <3>8. \A a \in Int, b \in Int, d \in Int, n \in Int : a = b + d + n => b = (a - n) - d
      OBVIOUS
    <3>9. Claim(id, asset)' = Claim(id, asset) - Rest(r, asset)
      BY <2>2, <2>3, <3>2, <3>5, <3>6, <3>7, <3>8
    <3> QED  BY <3>4, <3>9
  <2> QED  BY <2>4, <2>5
<1>20. ClaimInv'
  <2>1. PICK x, d : /\ x = [a \in Assets |-> t]
                    /\ d = [a \in Assets |-> IF a = "vibranium" THEN m ELSE 0]
    OBVIOUS
  <2>2. \A a \in Assets : /\ x[a] = t /\ d[a] = (IF a = "vibranium" THEN m ELSE 0)
                          /\ x[a] \in DOMAIN rows /\ d[a] \in Int
    BY <1>18, <2>1
  <2>3. \A asset \in Assets, id \in DOMAIN rows :
          Claim(id, asset)' = Claim(id, asset) - (IF id = x[asset] THEN d[asset] ELSE 0)
    <3> SUFFICES ASSUME NEW asset \in Assets, NEW id \in DOMAIN rows
                 PROVE  Claim(id, asset)' = Claim(id, asset)
                          - (IF id = x[asset] THEN d[asset] ELSE 0)
      OBVIOUS
    <3>1. (IF id = x[asset] THEN d[asset] ELSE 0)
            = IF id = t /\ asset = "vibranium" THEN m ELSE 0
      BY <2>2
    <3> QED  BY <1>19, <3>1
  <2>4. ASSUME NEW u \in Users, NEW asset \in Assets
        PROVE  Reserved(View(u)')[asset]
                 = Reserved(View(u))[asset] - (IF u = rows[x[asset]].user THEN d[asset] ELSE 0)
    <3>1. \A w : Reserved(w)["brl"] = w.reservedBRL
                 /\ Reserved(w)["vibranium"] = w.reservedVibranium
      BY DEF Reserved
    <3>2. View(u).reservedBRL \in Nat
      BY ViewType, WalletFields
    <3>3. CASE asset = "brl"
      BY <1>18, <2>2, <3>1, <3>2, <3>3
    <3>4. CASE asset = "vibranium"
      BY <1>18, <2>2, <3>1, <3>4
    <3> QED  BY <3>3, <3>4 DEF Assets
  <2>5. DOMAIN rows' = DOMAIN rows /\ \A id \in DOMAIN rows : rows'[id].user = rows[id].user
    BY <1>1
  <2>6. ClaimMoves(x, d)
    BY <2>2, <2>3, <2>4, <2>5, Zenon DEF ClaimMoves
  <2> QED  BY <1>9, <2>6, ClaimStep
<1>21. ~bookDirty'
  BY <1>1, <1>2, Zenon DEF Core
<1> QED  BY <1>11, <1>12, <1>13, <1>14, <1>15, <1>20, <1>21, Zenon DEF Core

----------------------------------------------------------------------------
(* Cancellation *)

\* What a cancellation releases is what the order ties up.
LEMMA ReservedDrops ==
  ASSUME NEW w \in Wallet, NEW o \in Order, CanRelease(w, o), ~IsDone(o),
         o.type = "LIMIT", NEW asset \in Assets
  PROVE  Reserved(Release(w, o))[asset] = Reserved(w)[asset] - Tied(o, asset)
<1>1. /\ o.side \in {"BUY", "SELL"} /\ asset \in {"brl", "vibranium"}
      /\ ~IsBuyMarket(o)
  BY DEF Order, OrderType, Sides, Assets, IsBuyMarket
<1>2. \A v : /\ Reserved(v)["brl"] = v.reservedBRL
             /\ Reserved(v)["vibranium"] = v.reservedVibranium
  BY DEF Reserved
<1>3. Remaining(o) \in Int /\ o.price * Remaining(o) \in Int
  BY OrderAmounts
<1>4. w.reservedBRL \in Nat /\ w.reservedVibranium \in Nat
  BY WalletFields
<1>5. CASE o.side = "BUY"
  <2>1. PICK c \in Int : c = o.price * Remaining(o)
    BY <1>3
  <2>2. Release(w, o) = ReleaseBRL(w, c)
    BY <1>5, <2>1 DEF Release
  <2>3. /\ Release(w, o).reservedBRL = w.reservedBRL - c
        /\ Release(w, o).reservedVibranium = w.reservedVibranium
    BY <2>2 DEF ReleaseBRL, Wallet
  <2>4. Tied(o, "brl") = c /\ Tied(o, "vibranium") = 0
    BY <1>1, <1>5, <2>1 DEF Tied
  <2> QED  BY <1>1, <1>2, <1>4, <2>3, <2>4
<1>6. CASE o.side = "SELL"
  <2>1. PICK c \in Int : c = Remaining(o)
    BY <1>3
  <2>2. Release(w, o) = ReleaseVibranium(w, c)
    BY <1>6, <2>1 DEF Release
  <2>3. /\ Release(w, o).reservedBRL = w.reservedBRL
        /\ Release(w, o).reservedVibranium = w.reservedVibranium - c
    BY <2>2 DEF ReleaseVibranium, Wallet
  <2>4. Tied(o, "brl") = 0 /\ Tied(o, "vibranium") = c
    BY <1>1, <1>6, <2>1 DEF Tied
  <2> QED  BY <1>1, <1>2, <1>4, <2>3, <2>4
<1> QED  BY <1>1, <1>5, <1>6

\* A located order, between two events of a batch: it is live and as its row
\* says.
LEMMA LocatedFacts ==
  ASSUME BaseInv, Core, mpc = "apply", NEW id \in DOMAIN locations
  PROVE  /\ Clean /\ incoming = NoRef /\ Settled = {}
         /\ locations[id] \in DOMAIN obj /\ locations[id] # NoRef /\ locations[id][1] = id
         /\ obj[locations[id]] \in Order /\ Sane(obj[locations[id]])
         /\ obj[locations[id]].type = "LIMIT" /\ ~IsDone(obj[locations[id]])
         /\ id \in DOMAIN rows /\ Known(id) /\ RowView(id) = obj[locations[id]]
         /\ rows[id].user = obj[locations[id]].user
<1>1. Clean
  <2>1. mpc \notin {"down", "resync"}
    OBVIOUS
  <2> QED  BY <2>1, Zenon DEF Core, Clean
<1>2. ObjectInv /\ BookInv
  BY <1>1 DEF Core
<1>3. incoming = NoRef /\ result = NoResult /\ Settled = {}
  BY DEF BaseInv, PhaseInv, Settled
<1>4. PICK r : r = locations[id]
  OBVIOUS
<1>5. r \in DOMAIN obj /\ r[1] = id
  BY <1>4 DEF BaseInv, HeapInv
<1>6. r \in Refs /\ obj[r] \in Order /\ Sane(obj[r]) /\ id \in DOMAIN rows
      /\ rows[id].user = obj[r].user
  BY <1>5, ObjectFacts DEF BaseInv, RowInv, Same
<1>7. r # NoRef
  BY <1>6, RefsAssumption
<1>8. obj[r].type = "LIMIT" /\ ~IsDone(obj[r])
  BY <1>2, <1>3, <1>5, <1>7 DEF BookInv
<1>9. Changed = {NoRef}
  BY <1>3, NoResultFacts DEF Changed, NoResult
<1>10. Known(id) /\ RowView(id) = obj[r]
  BY <1>2, <1>5, <1>7, <1>9 DEF ObjectInv
<1> QED  BY <1>1, <1>3, <1>4, <1>5, <1>6, <1>7, <1>8, <1>10

\* The order of a cancellation taken from the Book.
LEMMA CancelledCore ==
  ASSUME BaseInv, BaseInv', Core, mpc = "apply", UNCHANGED mpc, NEW id \in DOMAIN locations,
         CancelResting(id), CanRelease(View(obj[locations[id]].user), obj[locations[id]]),
         cache' = Put(cache, obj[locations[id]].user,
                      Release(View(obj[locations[id]].user), obj[locations[id]])),
         txRows' = Put(txRows, id, CancelOrder(obj[locations[id]])),
         UNCHANGED <<wallets, rows>>, UNCHANGED bookDirty,
         \A x : Known(x)' <=> Known(x), \A x : Matched(x)' <=> Matched(x)
  PROVE  Core'
<1>1. PICK r, o, n : r = locations[id] /\ o = obj[r] /\ n = CancelOrder(o)
  OBVIOUS
<1>2. /\ Clean /\ incoming = NoRef /\ Settled = {}
      /\ r \in DOMAIN obj /\ r # NoRef /\ r[1] = id
      /\ o \in Order /\ Sane(o) /\ o.type = "LIMIT" /\ ~IsDone(o)
      /\ id \in DOMAIN rows /\ Known(id) /\ RowView(id) = o /\ rows[id].user = o.user
  BY <1>1, LocatedFacts
<1>3. ObjectInv /\ BookInv /\ JournalInv /\ BackedInv /\ ClaimInv
  BY <1>2 DEF Core
<1>4. /\ ObjectsKept /\ UNCHANGED <<incoming, funds, result>> /\ obj'[r] = n
      /\ \A x \in DOMAIN obj : x # r => obj'[x] = obj[x]
  BY <1>1, <1>2, CancelRestingBase
<1>5. RemoveFront(r[1], obj[r].side, obj[r].price)
  BY <1>1, <1>2 DEF CancelResting
<1>6. /\ o.user \in Users
      /\ \A u \in Users : View(u)' = IF u = o.user THEN Release(View(u), o) ELSE View(u)
      /\ DOMAIN txRows' = DOMAIN txRows \cup {id} /\ txRows'[id] = n
      /\ \A x \in DOMAIN txRows \ {id} : txRows'[x] = txRows[x]
  <2>1. /\ CanRelease(View(obj[r].user), obj[r])
        /\ cache' = Put(cache, obj[r].user, Release(View(obj[r].user), obj[r]))
        /\ txRows' = Put(txRows, id, CancelOrder(obj[r]))
    BY <1>1
  <2> QED  BY <1>1, <1>2, <2>1, CancelFacts
<1>7. n \in Order /\ IsDone(n) /\ n.filled = o.filled
  <2>1. n \in Order
    BY <1>1, <1>2, CancelKeeps
  <2> QED  BY <1>1, <1>2, <2>1 DEF CancelOrder, IsDone, Order, OrderType
<1>8. RowView(id)' = n /\ \A x \in DOMAIN rows \ {id} : RowView(x)' = RowView(x)
  BY <1>6 DEF RowView
<1>9. Advanced(o, n)
  <2>1. o.filled \in Nat
    BY <1>2, OrderAmounts
  <2> QED  BY <1>2, <1>7, <2>1 DEF Advanced
<1>10. JournalInv'
  <2>1. \A x \in DOMAIN rows : ~Matched(x)' => rows[x].filled = 0 /\ rows[x].status = "OPEN"
    BY <1>3 DEF JournalInv
  <2>2. ASSUME NEW x \in DOMAIN txRows'
        PROVE  Known(x)' /\ Advanced(rows[x], txRows'[x])
    <3>1. CASE x # id
      BY <1>3, <1>6, <3>1 DEF JournalInv
    <3>2. CASE x = id
      <4>1. rows[id] \in Order
        BY <1>2, RowFacts
      <4>2. Advanced(rows[id], o)
        <5>1. CASE id \in DOMAIN txRows
          BY <1>2, <1>3, <5>1 DEF JournalInv, RowView
        <5>2. CASE id \notin DOMAIN txRows
          BY <1>2, <4>1, <5>2, AdvancedFacts DEF RowView
        <5> QED  BY <5>1, <5>2
      <4>3. Advanced(rows[id], n)
        BY <1>2, <1>7, <1>9, <4>1, <4>2, AdvancedFacts
      <4> QED  BY <1>2, <1>6, <3>2, <4>3
    <3> QED  BY <3>1, <3>2
  <2> QED  BY <2>1, <2>2 DEF JournalInv
<1>11. BackedInv'
  <2>1. \A x, asset : Tied(rows[x], asset)' = Tied(rows[x], asset)
    BY DEF Tied
  <2> QED  BY <1>3, <2>1 DEF BackedInv, Mine
<1>12. DOMAIN obj' = DOMAIN obj /\ \A x \in DOMAIN obj : Same(obj'[x], obj[x])
  BY <1>4 DEF ObjectsKept
<1>13. \A x, y \in DOMAIN obj : x[1] = y[1] => x = y
  BY <1>3 DEF ObjectInv
<1>14. ObjectInv'
  <2>1. Changed' = Changed
    BY <1>4 DEF Changed
  <2>2. ASSUME NEW x \in DOMAIN obj
        PROVE  /\ Known(x[1])' /\ Advanced(RowView(x[1])', obj'[x])
               /\ x \notin Changed => obj'[x] = RowView(x[1])'
    <3>1. PICK k : k = x[1]
      OBVIOUS
    <3>2. k \in DOMAIN rows /\ Known(k)'
      BY <1>3, <3>1, ObjectFacts DEF ObjectInv
    <3>3. CASE x = r
      <4>1. k = id /\ RowView(k)' = n /\ obj'[x] = n
        BY <1>2, <1>4, <1>8, <3>1, <3>3
      <4> QED  BY <1>7, <3>1, <3>2, <4>1, AdvancedFacts
    <3>4. CASE x # r
      <4>1. k # id
        BY <1>2, <1>13, <3>1, <3>4
      <4>2. obj'[x] = obj[x] /\ RowView(k)' = RowView(k)
        BY <1>4, <1>8, <3>2, <3>4, <4>1
      <4>3. Advanced(RowView(k), obj[x]) /\ (x \notin Changed => obj[x] = RowView(k))
        BY <1>3, <3>1 DEF ObjectInv
      <4> QED  BY <3>1, <3>2, <4>2, <4>3
    <3> QED  BY <3>3, <3>4
  <2>3. ASSUME NEW x \in DOMAIN rows, Known(x)', rows[x].type = "LIMIT", ~IsDone(RowView(x)')
        PROVE  \E y \in DOMAIN obj : y[1] = x
    <3>1. CASE x = id
      BY <1>2, <3>1
    <3>2. CASE x # id
      BY <1>3, <1>8, <2>3, <3>2 DEF ObjectInv
    <3> QED  BY <3>1, <3>2
  <2> QED  BY <1>12, <1>13, <2>1, <2>2, <2>3 DEF ObjectInv
<1>15. BookInv'
  <2>2. \A x \in DOMAIN obj \ {r, incoming} : IsDone(obj'[x]) <=> IsDone(obj[x])
    BY <1>4
  <2>3. IsDone(obj'[r]) /\ UNCHANGED incoming /\ r # incoming
        /\ r[1] \in DOMAIN locations /\ locations[r[1]] = r
    BY <1>1, <1>2, <1>4, <1>7
  <2> QED  BY <1>2, <1>3, <1>5, <1>12, <1>13, <2>2, <2>3, BookRemoved
<1>16. MatchInv' /\ TradeInv'
  BY DEF MatchInv, TradeInv
<1>17. Settled' = {}
  BY DEF Settled
<1>18. ASSUME NEW x \in DOMAIN rows, NEW asset \in Assets
       PROVE  Claim(x, asset)' = Claim(x, asset) - (IF x = id THEN Tied(o, asset) ELSE 0)
  <2>1. Claim(x, asset) \in Int /\ Claim(x, asset) = Tied(RowView(x), asset)
    BY <1>2, ClaimInt, ClaimUnsettled
  <2>2. CASE x # id
    <3>1. Claim(x, asset)' = Claim(x, asset)
      BY <1>2, <1>8, <1>17, <2>2, ClaimQuiet
    <3> QED  BY <2>1, <2>2, <3>1
  <2>3. CASE x = id
    <3>1. Claim(x, asset)' = Tied(RowView(x), asset)' - Total(Needs(x, asset)', {})
      BY <1>17 DEF Claim
    <3>2. Total(Needs(x, asset)', {}) = 0
      BY TotalEmpty
    <3>3. Tied(RowView(x), asset)' = Tied(n, asset)
      BY <1>8, <2>3 DEF Tied
    <3>4. Tied(n, asset) = 0
      BY <1>7 DEF Tied
    <3>5. Claim(x, asset) = Tied(o, asset)
      BY <1>2, <2>1, <2>3
    <3> QED  BY <2>1, <2>3, <3>1, <3>2, <3>3, <3>4, <3>5
  <2> QED  BY <2>2, <2>3
<1>19. ClaimInv'
  <2>1. PICK x, d : /\ x = [a \in Assets |-> id]
                    /\ d = [a \in Assets |-> Tied(o, a)]
    OBVIOUS
  <2>2. \A a \in Assets : Tied(o, a) \in Int
    <3>1. \A a \in Assets : Tied(o, a) \in Nat
      BY <1>2, TiedFacts
    <3> QED  BY <3>1
  <2>3. \A a \in Assets : /\ x[a] = id /\ d[a] = Tied(o, a)
                          /\ x[a] \in DOMAIN rows /\ d[a] \in Int
    BY <1>2, <2>1, <2>2
  <2>4. \A asset \in Assets, y \in DOMAIN rows :
          Claim(y, asset)' = Claim(y, asset) - (IF y = x[asset] THEN d[asset] ELSE 0)
    BY <1>18, <2>3
  <2>5. ASSUME NEW u \in Users, NEW asset \in Assets
        PROVE  Reserved(View(u)')[asset]
                 = Reserved(View(u))[asset] - (IF u = rows[x[asset]].user THEN d[asset] ELSE 0)
    <3>1. rows[x[asset]].user = o.user /\ d[asset] = Tied(o, asset)
      BY <1>2, <2>3
    <3>2. View(u) \in Wallet
      BY ViewType
    <3>3. CASE u = o.user
      <4>1. View(u)' = Release(View(u), o) /\ CanRelease(View(u), o)
        BY <1>1, <1>6, <3>3
      <4>2. Reserved(Release(View(u), o))[asset] = Reserved(View(u))[asset] - Tied(o, asset)
        BY <1>2, <3>2, <4>1, ReservedDrops
      <4> QED  BY <3>1, <3>3, <4>1, <4>2
    <3>4. CASE u # o.user
      <4>1. View(u)' = View(u)
        BY <1>6, <3>4
      <4>2. Reserved(View(u))[asset] \in Int
        <5>1. View(u).reservedBRL \in Nat /\ View(u).reservedVibranium \in Nat
          BY <3>2, WalletFields
        <5> QED  BY <5>1 DEF Reserved, Assets
      <4> QED  BY <3>1, <3>4, <4>1, <4>2
    <3> QED  BY <3>3, <3>4
  <2>6. ClaimMoves(x, d)
    BY <2>3, <2>4, <2>5, Zenon DEF ClaimMoves
  <2> QED  BY <1>3, <2>6, ClaimStep
<1>20. ~bookDirty'
  BY Zenon DEF Core
<1> QED  BY <1>10, <1>11, <1>14, <1>15, <1>16, <1>19, <1>20, Zenon DEF Core

LEMMA ApplyCancelCore ==
  ASSUME BaseInv, BaseInv', Core, ApplyCancel
  PROVE  Core'
<1>1. /\ mpc = "apply" /\ UNCHANGED <<wallets, rows, processed, stream>>
  BY DEF ApplyCancel, dbVars, redisVars
<1>2. PICK i \in todo \ processed :
           LET id == stream[i].id
               r  == locations[id]
               o  == obj[r]
           IN  /\ IsNext(i) /\ i \in DOMAIN stream /\ stream[i].kind = "CANCEL"
               /\ \/ /\ id \notin DOMAIN locations
                     /\ todo' = todo \ {i}
                     /\ UNCHANGED <<mpc, origin, batch, cache, txRows, unsettled, obj,
                                    book, locations, incoming, funds, result>>
                     /\ UNCHANGED bookDirty
                  \/ /\ id \in DOMAIN locations /\ r \in DOMAIN obj
                     /\ CanRelease(View(o.user), o)
                     /\ CancelResting(id)
                     /\ cache' = Put(cache, o.user, Release(View(o.user), o))
                     /\ txRows' = Put(txRows, id, CancelOrder(o))
                     /\ todo' = todo \ {i}
                     /\ UNCHANGED <<mpc, origin, batch, unsettled>>
                     /\ UNCHANGED bookDirty
                  \/ /\ id \in DOMAIN locations
                     /\ ~CanRelease(View(o.user), o)
                     /\ FailBatch(CancelResting(id))
  BY ApplyCancelCases, Zenon
<1> DEFINE id == stream[i].id
           r  == locations[id]
           o  == obj[r]
<1>3. ASSUME todo' = todo \ {i}, UNCHANGED batch
      PROVE  \A x : (Known(x)' <=> Known(x)) /\ (Matched(x)' <=> Matched(x))
  <2>1. \A x : stream[i] # [kind |-> "NEW", id |-> x]
    BY <1>2
  <2>2. \A j : /\ j \in processed' \cup (batch' \ todo') => j \in processed \cup (batch \ todo) \/ j = i
               /\ j \in processed \cup (batch \ todo) => j \in processed' \cup (batch' \ todo')
    BY <1>1, <1>3
  <2> QED  BY <1>1, <2>1, <2>2 DEF Known, Matched
<1>4. ~bookDirty
  <2>1. mpc \in {"apply", "match", "settle"}
    BY <1>1
  <2> QED  BY <2>1, Zenon DEF Core
<1>5. CASE /\ todo' = todo \ {i}
           /\ UNCHANGED <<mpc, origin, batch, cache, txRows, unsettled, obj,
                          book, locations, incoming, funds, result>>
           /\ UNCHANGED bookDirty
  BY <1>1, <1>3, <1>4, <1>5, QuietCore
<1>6. CASE /\ id \in DOMAIN locations /\ r \in DOMAIN obj
           /\ CanRelease(View(o.user), o)
           /\ CancelResting(id)
           /\ cache' = Put(cache, o.user, Release(View(o.user), o))
           /\ txRows' = Put(txRows, id, CancelOrder(o))
           /\ todo' = todo \ {i}
           /\ UNCHANGED <<mpc, origin, batch, unsettled>>
           /\ UNCHANGED bookDirty
  <2>1. \A x : (Known(x)' <=> Known(x)) /\ (Matched(x)' <=> Matched(x))
    BY <1>3, <1>6
  <2>2. UNCHANGED <<wallets, rows>> /\ UNCHANGED mpc
    BY <1>1, <1>6
  <2> QED  BY <1>1, <1>6, <2>1, <2>2, CancelledCore
<1>7. CASE FailBatch(CancelResting(id))
  <2>1. EndTx /\ mpc' \in {"down", "resync", "poll"} /\ (bookDirty' \/ mpc' = "down")
    BY <1>7, FailBatchFacts, Zenon DEF FailBatch
  <2>2. mpc' # "settle"
    BY <2>1
  <2> QED  BY <1>1, <2>1, <2>2, RolledBack, FailedCore
<1> QED  BY <1>2, <1>5, <1>6, <1>7, Zenon

----------------------------------------------------------------------------
(* The inductive invariant *)

LEMMA RecoveryCore ==
  ASSUME BaseInv, Core, MBoot \/ MResync, ~diverged'
  PROVE  Core'
<1>1. /\ RecoverBook /\ mpc \in {"down", "resync"} /\ mpc' = "reclaim"
      /\ UNCHANGED <<dbVars, redisVars, batch, todo, txVars>>
  BY DEF MBoot, MResync
<1> QED  BY <1>1, RecoverCore

LEMMA NextCore ==
  ASSUME BaseInv, Core, [Next]_vars, ~diverged'
  PROVE  Core'
<1>0. BaseInv'
  BY NextBase
<1>1. CASE DOMAIN rows # Ids
           /\ \E o \in PlacedOrders(NewId, Users, Prices, 1..MaxQty) : Place(o)
  BY <1>1, PlaceCore
<1>2. CASE \E id \in Ids : Cancel(id)
  BY <1>2, CancelCore
<1>3. CASE MBoot \/ MResync
  BY <1>3, RecoveryCore
<1>4. CASE MReadPending
  BY <1>4, MReadPendingCore
<1>5. CASE MReadNew
  BY <1>5, MReadNewCore
<1>6. CASE ApplyDuplicate
  BY <1>6, ApplyDuplicateCore
<1>7. CASE ApplyNew
  BY <1>0, <1>7, ApplyNewCore
<1>8. CASE MatchStep
  BY <1>0, <1>8, MatchStepCore
<1>9. CASE MatchDone
  BY <1>0, <1>9, MatchDoneCore
<1>10. CASE SettleTrade
  BY <1>0, <1>10, SettleTradeCore
<1>11. CASE SettleReject
  BY <1>0, <1>11, SettleRejectCore
<1>12. CASE FinishOrder
  BY <1>0, <1>12, FinishOrderCore
<1>13. CASE ApplyCancel
  BY <1>0, <1>13, ApplyCancelCore
<1>14. CASE MCommit
  BY <1>0, <1>14, MCommitCore
<1>15. CASE MFault
  BY <1>0, <1>15, MFaultCore
<1>16. CASE MCrash
  BY <1>0, <1>16, MCrashCore
<1>17. CASE UNCHANGED vars
  BY <1>17, StutterCore
<1> QED
  BY <1>1, <1>2, <1>3, <1>4, <1>5, <1>6, <1>7, <1>8, <1>9, <1>10, <1>11, <1>12,
     <1>13, <1>14, <1>15, <1>16, <1>17, Zenon DEF Next

\* Once a Book that differs from Postgres has been used, it has been.
LEMMA DivergedStays ==
  ASSUME [Next]_vars, diverged
  PROVE  diverged'
<1>1. CASE DOMAIN rows # Ids
           /\ \E o \in PlacedOrders(NewId, Users, Prices, 1..MaxQty) : Place(o)
  BY <1>1 DEF Place, Publish
<1>2. CASE \E id \in Ids : Cancel(id)
  BY <1>2 DEF Cancel, Publish
<1>3. CASE MBoot \/ MResync
  BY <1>3, Zenon DEF MBoot, MResync, RecoverBook
<1>4. CASE MReadPending
  BY <1>4, Zenon DEF MReadPending, StartBatch
<1>5. CASE MReadNew
  BY <1>5, Zenon DEF MReadNew, StartBatch
<1>6. CASE ApplyDuplicate
  BY <1>6 DEF ApplyDuplicate
<1>7. CASE ApplyNew
  BY <1>7 DEF ApplyNew
<1>8. CASE MatchStep
  BY <1>8 DEF MatchStep
<1>9. CASE MatchDone
  BY <1>9 DEF MatchDone
<1>10. CASE SettleTrade
  BY <1>10 DEF SettleTrade
<1>11. CASE SettleReject
  BY <1>11 DEF SettleReject
<1>12. CASE FinishOrder
  BY <1>12 DEF FinishOrder
<1>13. CASE ApplyCancel
  BY <1>13 DEF ApplyCancel
<1>14. CASE MCommit
  BY <1>14 DEF MCommit
<1>15. CASE MFault
  BY <1>15 DEF MFault
<1>16. CASE MCrash
  BY <1>16 DEF MCrash
<1>17. CASE UNCHANGED vars
  BY <1>17 DEF vars
<1> QED
  BY <1>1, <1>2, <1>3, <1>4, <1>5, <1>6, <1>7, <1>8, <1>9, <1>10, <1>11, <1>12,
     <1>13, <1>14, <1>15, <1>16, <1>17, Zenon DEF Next

LEMMA InitCore ==
  ASSUME Init
  PROVE  Core
<1>1. /\ DOMAIN obj = {} /\ DOMAIN locations = {} /\ book = EmptyBook
      /\ rows = Nothing /\ cache = Nothing /\ txRows = Nothing /\ mpc = "poll"
      /\ DOMAIN rows = {} /\ DOMAIN txRows = {} /\ DOMAIN cache = {}
      /\ wallets = [u \in Users |-> NewWallet]
  BY NothingFacts DEF Init, EngineInit
<1>2. JournalInv
  BY <1>1 DEF JournalInv
<1>3. \A u \in Users, asset \in Assets : Reserved(wallets[u])[asset] = 0 /\ View(u) = wallets[u]
  BY <1>1 DEF NewWallet, Reserved, View, Assets
<1>4. \A u : Mine(u) = {}
  BY <1>1 DEF Mine
<1>5. \A f : Total(f, {}) = 0
  BY TotalEmpty
<1>6. BackedInv
  BY <1>3, <1>4, <1>5 DEF BackedInv
<1>7. ClaimInv
  BY <1>3, <1>4, <1>5 DEF ClaimInv
<1>8. \A s \in Sides, p \in Prices : DOMAIN book[s][p] = {}
  BY <1>1, EmptyBookFacts
<1>9. ObjectInv /\ BookInv /\ MatchInv /\ TradeInv
  <2>1. ObjectInv
    BY <1>1 DEF ObjectInv, Known, Init
  <2>2. BookInv
    BY <1>1, <1>8 DEF BookInv
  <2>3. MatchInv /\ TradeInv
    BY <1>1 DEF MatchInv, TradeInv
  <2> QED  BY <2>1, <2>2, <2>3
<1>10. mpc \notin {"apply", "match", "settle"}
  BY <1>1
<1> QED  BY <1>2, <1>6, <1>7, <1>9, <1>10, Zenon DEF Core

\* Core is Sound, as long as no Book that differs from Postgres has been used.
LEMMA CoreSound ==
  ASSUME ~diverged
  PROVE  Core <=> Sound
BY BackedIsBacked, Zenon DEF Core, Sound

\* The inductive invariant of the exchange. What it says of every state: the
\* matcher's references lead to objects that are versions of order rows. What
\* it says while the Book agrees with Postgres: reservations are what the live
\* orders claim, trades already settled within the batch included, and the
\* Book is the set of live orders.
THEOREM ExchangeInvariant == Spec => []ExchangeInv
<1> DEFINE Inv == BaseInv /\ (~diverged => Core)
<1>1. Init => Inv
  BY InitBase, InitCore, Zenon
<1>2. Inv /\ [Next]_vars => Inv'
  <2> SUFFICES ASSUME Inv, [Next]_vars PROVE Inv'
    OBVIOUS
  <2>1. BaseInv'
    BY NextBase
  <2>2. ASSUME ~diverged'
        PROVE  Core'
    <3>1. ~diverged
      BY <2>2, DivergedStays, Zenon
    <3>2. BaseInv /\ Core
      BY <3>1, Zenon
    <3> QED  BY <2>2, <3>2, NextCore
  <2> QED  BY <2>1, <2>2, Zenon
<1>3. Inv => ExchangeInv
  BY CoreSound, Zenon DEF ExchangeInv
<1> QED  BY <1>1, <1>2, <1>3, PTL DEF Spec

----------------------------------------------------------------------------
(* What follows from it *)

\* Every reservation belongs to a live order, to the unit: whatever Place,
\* the settlement, the price improvement, the remainders and the cancellations
\* did, and however often a batch rolled back.
THEOREM ReservationsAreBacked == Spec => []ReservationsBacked
<1>1. ExchangeInv => ReservationsBacked
  <2>1. diverged => ReservationsBacked
    BY Zenon DEF ReservationsBacked
  <2> QED  BY <2>1, Zenon DEF ExchangeInv, Sound
<1> QED  BY <1>1, ExchangeInvariant, PTL

\* What a step does to the order rows: it inserts one, or a commit writes the
\* rows of the transaction.
LEMMA RowsStep ==
  ASSUME BaseInv, [Next]_vars
  PROVE  \/ UNCHANGED rows
         \/ \E o : o.id \notin DOMAIN rows /\ rows' = Put(rows, o.id, o)
         \/ Flush
<1>1. CASE DOMAIN rows # Ids
           /\ \E o \in PlacedOrders(NewId, Users, Prices, 1..MaxQty) : Place(o)
  <2>1. PICK n : n = NewId
    OBVIOUS
  <2>2. n \in Ids /\ n \notin DOMAIN rows
    BY <1>1, <2>1, NewIdFacts
  <2>3. PICK o \in PlacedOrders(n, Users, Prices, 1..MaxQty) : Place(o)
    BY <1>1, <2>1
  <2>4. o.id = n
    BY <2>2, <2>3, PlacedFacts
  <2> QED  BY <2>2, <2>3, <2>4 DEF Place
<1>2. CASE \E id \in Ids : Cancel(id)
  BY <1>2 DEF Cancel
<1>3. CASE MBoot \/ MResync
  BY <1>3 DEF MBoot, MResync, dbVars
<1>4. CASE MReadPending \/ MReadNew
  BY <1>4 DEF MReadPending, MReadNew, dbVars
<1>5. CASE ApplyDuplicate \/ ApplyNew \/ ApplyCancel
  BY <1>5 DEF ApplyDuplicate, ApplyNew, ApplyCancel, dbVars
<1>6. CASE MatchStep \/ MatchDone
  BY <1>6 DEF MatchStep, MatchDone, dbVars
<1>7. CASE SettleTrade \/ SettleReject \/ FinishOrder
  BY <1>7 DEF SettleTrade, SettleReject, FinishOrder, dbVars
<1>8. CASE MCommit
  BY <1>8 DEF MCommit
<1>9. CASE MFault
  BY <1>9, Zenon DEF MFault, dbVars
<1>10. CASE MCrash
  BY <1>10 DEF MCrash, dbVars
<1>11. CASE UNCHANGED vars
  BY <1>11 DEF vars
<1> QED
  BY <1>1, <1>2, <1>3, <1>4, <1>5, <1>6, <1>7, <1>8, <1>9, <1>10, <1>11, Zenon DEF Next

\* In Postgres an order only advances: a terminal row never changes again, and
\* no fill is ever taken back, whatever is redelivered, rolled back or
\* recovered.
THEOREM RowsNeverGoBack == Spec => RowsOnlyAdvance
<1> DEFINE A == ~diverged => \A id \in DOMAIN rows :
                  /\ IsDone(rows[id]) => rows'[id] = rows[id]
                  /\ rows'[id].filled >= rows[id].filled
<1>1. ExchangeInv /\ [Next]_vars => A
  <2> SUFFICES ASSUME ExchangeInv, [Next]_vars, ~diverged, NEW id \in DOMAIN rows
               PROVE  /\ IsDone(rows[id]) => rows'[id] = rows[id]
                      /\ rows'[id].filled >= rows[id].filled
    BY Zenon
  <2>1. BaseInv /\ JournalInv
    BY Zenon DEF ExchangeInv, Sound
  <2>2. rows[id] \in Order /\ rows[id].filled \in Nat
    BY <2>1 DEF BaseInv, TypeOK, PartialFn, Order, OrderType
  <2>3. rows'[id] = rows[id] \/ Advanced(rows[id], rows'[id])
    <3>1. CASE UNCHANGED rows
      BY <3>1
    <3>2. CASE \E o : o.id \notin DOMAIN rows /\ rows' = Put(rows, o.id, o)
      BY <3>2 DEF Put, Merge
    <3>3. CASE Flush
      <4>1. rows'[id] = RowView(id)
        BY <2>1, <3>3, FlushFacts
      <4> QED  BY <2>1, <4>1 DEF RowView, JournalInv
    <3> QED  BY <2>1, <3>1, <3>2, <3>3, RowsStep
  <2>4. rows'[id].filled >= rows[id].filled
    <3>1. CASE rows'[id] = rows[id]
      BY <2>2, <3>1
    <3>2. CASE Advanced(rows[id], rows'[id])
      BY <2>2, <3>2 DEF Advanced
    <3> QED  BY <2>3, <3>1, <3>2
  <2> QED  BY <2>3, <2>4 DEF Advanced
<1> HIDE DEF A
<1>2. Spec => [][A]_vars
  BY <1>1, ExchangeInvariant, PTL DEF Spec
<1> QED  BY <1>2, PTL DEF RowsOnlyAdvance, A

----------------------------------------------------------------------------
(* Settlement succeeds *)

\* What a Match cancels of its order is never negative.
RemainderInv == result.cancelled \in Nat

LEMMA RemainderStep ==
  ASSUME BaseInv, RemainderInv, [Next]_vars
  PROVE  RemainderInv'
<1>1. NoResult.cancelled = 0
  BY DEF NoResult
<1>2. CASE UNCHANGED result
  BY <1>2 DEF RemainderInv
<1>3. CASE result' = NoResult
  BY <1>1, <1>3 DEF RemainderInv
<1>4. CASE ApplyNew
  <2>1. \E r : result' = [NoResult EXCEPT !.incoming = r]
    BY <1>4 DEF ApplyNew, StartMatch
  <2> QED  BY <2>1 DEF RemainderInv, NoResult
<1>5. CASE MatchStep
  <2>1. \E t, m : result' = [result EXCEPT !.trades = t, !.touched = m]
    BY <1>5 DEF MatchStep, MatchOne, Execute
  <2>2. result \in MatchResult
    BY DEF BaseInv, TypeOK
  <2>3. result'.cancelled = result.cancelled
    BY <2>1, <2>2 DEF MatchResult
  <2> QED  BY <2>3 DEF RemainderInv
<1>6. CASE MatchDone
  <2>1. \/ UNCHANGED result
        \/ /\ Remaining(obj[incoming]) > 0
           /\ result' = [result EXCEPT !.cancelled = Remaining(obj[incoming])]
    BY <1>6 DEF MatchDone, EndMatch
  <2>2. result \in MatchResult /\ incoming \in DOMAIN obj
    BY <1>6 DEF BaseInv, TypeOK, PhaseInv, MatchDone
  <2>3. Remaining(obj[incoming]) \in Int
    BY <2>2, ObjectFacts, OrderAmounts
  <2>4. ASSUME Remaining(obj[incoming]) > 0,
               result' = [result EXCEPT !.cancelled = Remaining(obj[incoming])]
        PROVE  result'.cancelled \in Nat
    BY <2>2, <2>3, <2>4 DEF MatchResult
  <2> QED  BY <1>2, <2>1, <2>4 DEF RemainderInv
<1>7. CASE ApplyCancel
  <2>1. result = NoResult
    BY <1>7 DEF ApplyCancel, BaseInv, PhaseInv
  <2>2. UNCHANGED result \/ result' = NoResult
    BY <1>7, Zenon DEF ApplyCancel, engineVars, CancelResting, FailBatch, Die
  <2> QED  BY <1>2, <1>3, <2>2
<1>8. CASE SettleReject \/ MFault \/ MCrash
  <2>1. result' = NoResult
    BY <1>8, Zenon DEF SettleReject, MFault, MCrash, FailBatch, Die
  <2> QED  BY <1>3, <2>1
<1>9. CASE DOMAIN rows # Ids
           /\ \E o \in PlacedOrders(NewId, Users, Prices, 1..MaxQty) : Place(o)
  BY <1>2, <1>9 DEF Place, Publish, engineVars
<1>10. CASE \E id \in Ids : Cancel(id)
  BY <1>2, <1>10 DEF Cancel, Publish, engineVars
<1>11. CASE MBoot \/ MResync
  BY <1>2, <1>11 DEF MBoot, MResync, RecoverBook
<1>12. CASE MReadPending \/ MReadNew \/ ApplyDuplicate
  BY <1>2, <1>12 DEF MReadPending, MReadNew, ApplyDuplicate, engineVars
<1>13. CASE SettleTrade \/ MCommit
  BY <1>2, <1>13 DEF SettleTrade, MCommit, engineVars
<1>14. CASE FinishOrder
  BY <1>3, <1>14 DEF FinishOrder
<1>15. CASE UNCHANGED vars
  BY <1>2, <1>15 DEF vars
<1> QED
  BY <1>4, <1>5, <1>6, <1>7, <1>8, <1>9, <1>10, <1>11, <1>12, <1>13, <1>14, <1>15,
     Zenon DEF Next

\* What is left of the claim of an order covers what its trades, and its
\* remainder, still need.
LEMMA ClaimCovers ==
  ASSUME BaseInv, MatchInv, RemainderInv, mpc = "settle", NEW r \in DOMAIN obj,
         NEW asset \in Assets
  PROVE  /\ Claim(r[1], asset) \in Nat /\ Claim(r[1], asset) >= Rest(r, asset)
         /\ \A k \in DOMAIN result.trades \ Settled :
              Claim(r[1], asset) >= Needs(r[1], asset)[k]
<1>1. r[1] \in DOMAIN rows /\ obj[r] \in Order /\ Sane(obj[r])
  BY ObjectFacts DEF BaseInv, RowInv
<1>2. PICK id, N, D : id = r[1] /\ N = Needs(id, asset) /\ D = DOMAIN result.trades
  OBVIOUS
<1>3. /\ \A i \in D : N[i] \in Nat /\ N[i] \in Int
      /\ \A S \in SUBSET D : Total(N, S) \in Nat
      /\ IsFiniteSet(D) /\ Settled \subseteq D /\ IsFiniteSet(Settled)
  BY <1>1, <1>2, NeedsFacts, TradesFacts
<1>4. PICK t, m, n, s : /\ t = Tied(obj[r], asset) /\ m = Rest(r, asset)
                        /\ n = Total(N, D) /\ s = Total(N, Settled)
  OBVIOUS
<1>5. t \in Nat /\ m \in Nat /\ n \in Nat /\ s \in Nat
  <2>1. t \in Nat
    BY <1>1, <1>4, TiedFacts
  <2>2. m \in Nat
    BY <1>4 DEF Rest, Remainder, RemainderInv
  <2> QED  BY <1>3, <1>4, <2>1, <2>2
<1>6. Claim(id, asset) = (t + m + n) - s
  <2>1. Tied(RowView(id), asset) = t + m + n
    BY <1>2, <1>4 DEF MatchInv
  <2>2. Total(Needs(id, asset), Settled) = s
    BY <1>2, <1>4, Zenon
  <2>3. Claim(id, asset) = Tied(RowView(id), asset) - Total(Needs(id, asset), Settled)
    BY Zenon DEF Claim
  <2> QED  BY <2>1, <2>2, <2>3, Zenon
<1>7. s <= n
  BY <1>3, <1>4, TotalPart
<1>8. ASSUME NEW k \in D \ Settled
      PROVE  N[k] + s <= n /\ N[k] \in Nat
  <2>1. PICK S : S = Settled \cup {k}
    OBVIOUS
  <2>2. S \subseteq D /\ S \ {k} = Settled /\ k \in S
    BY <1>3, <1>8, <2>1
  <2>3. IsFiniteSet(S) /\ \A x \in S : N[x] \in Int
    BY <1>3, <2>2, FS_Subset
  <2>4. Total(N, S) = N[k] + Total(N, Settled)
    BY <2>2, <2>3, TotalTake
  <2>5. Total(N, S) <= Total(N, D)
    BY <1>3, <2>2, TotalPart
  <2> QED  BY <1>3, <1>4, <2>4, <2>5
<1>9. (t + m + n) - s \in Nat /\ (t + m + n) - s >= m
  BY <1>5, <1>7
<1>10. \A k \in D \ Settled : (t + m + n) - s >= N[k]
  BY <1>5, <1>8
<1> QED  BY <1>2, <1>4, <1>6, <1>9, <1>10

\* While trades are settled no claim is negative.
LEMMA ClaimNat ==
  ASSUME BaseInv, Clean => MatchInv, Clean, RemainderInv, NEW id \in DOMAIN rows,
         NEW asset \in Assets
  PROVE  Claim(id, asset) \in Nat
<1>1. CASE mpc # "settle"
  BY <1>1, ClaimInt, ClaimUnsettled DEF Settled
<1>2. CASE mpc = "settle" /\ \E r \in DOMAIN obj : r[1] = id
  BY <1>2, ClaimCovers
<1>3. CASE \A r \in DOMAIN obj : r[1] # id
  <2>1. Total(Needs(id, asset), Settled) = 0
    BY <1>3, TradesFacts, NeedsNone
  <2>2. Tied(RowView(id), asset) \in Nat
    BY ClaimInt
  <2> QED  BY <2>1, <2>2 DEF Claim
<1> QED  BY <1>1, <1>2, <1>3

\* The reservations of a wallet cover the claim of each order of its owner.
LEMMA ReservedCovers ==
  ASSUME BaseInv, Core, Clean, RemainderInv, NEW id \in DOMAIN rows, NEW asset \in Assets
  PROVE  /\ Claim(id, asset) \in Nat
         /\ Claim(id, asset) <= Reserved(View(rows[id].user))[asset]
<1>1. \A x \in DOMAIN rows : Claim(x, asset) \in Nat
  BY ClaimNat DEF Core
<1>2. PICK u, M, f : /\ u = rows[id].user /\ M = Mine(u)
                     /\ f = [x \in Mine(u) |-> Claim(x, asset)]
  OBVIOUS
<1>3. u \in Users
  BY <1>2, RowFacts
<1>4. Reserved(View(u))[asset] = Total(f, M)
  BY <1>2, <1>3 DEF Core, ClaimInv
<1>5. IsFiniteSet(M) /\ id \in M /\ \A x \in M : f[x] \in Nat
  BY <1>1, <1>2, MineFacts DEF Mine
<1>6. f[id] <= Total(f, M)
  BY <1>5, TotalNat
<1>7. f[id] = Claim(id, asset)
  BY <1>2, <1>5
<1> QED  BY <1>1, <1>2, <1>4, <1>6, <1>7

\* The wallets can settle the next trade, if it is of at least one unit.
LEMMA NextTradeSettles ==
  ASSUME BaseInv, Core, RemainderInv, mpc = "settle", unsettled # <<>>,
         Head(unsettled).qty > 0
  PROVE  CanSettle(Head(unsettled))
<1>1. PICK tr, k, b, s :
        /\ tr = Head(unsettled) /\ k = Len(result.trades) - Len(unsettled) + 1
        /\ b = obj[tr.buy].user /\ s = obj[tr.sell].user
  OBVIOUS
<1>2. /\ tr \in Trade /\ tr.buy \in DOMAIN obj /\ tr.sell \in DOMAIN obj
      /\ tr.price \in Nat \ {0} /\ tr.qty \in Int /\ b \in Users /\ s \in Users
      /\ k \in DOMAIN result.trades /\ tr = result.trades[k] /\ Settled = 1..(k - 1)
  BY <1>1, HeadFacts, Zenon
<1>3. Clean
  <2>1. mpc \notin {"down", "resync"}
    OBVIOUS
  <2> QED  BY <2>1, Zenon DEF Core, Clean
<1>4. MatchInv /\ TradeInv
  BY <1>3 DEF Core
<1>5. k \in DOMAIN result.trades \ Settled
  <2>1. \A n \in Int : n \notin 1..(n - 1)
    OBVIOUS
  <2>2. k \in Int
    BY <1>2, TradesFacts
  <2> QED  BY <1>2, <2>1, <2>2
<1>6. PICK q \in Nat, p \in Nat, x \in Nat : q = tr.qty /\ p = tr.price /\ x = rows[tr.buy[1]].price
  <2>1. tr.qty \in Nat /\ tr.price \in Nat
    BY <1>1, <1>2
  <2>2. rows[tr.buy[1]].price \in Nat
    BY <1>2, <1>4, TradePrice
  <2> QED  BY <2>1, <2>2, Zenon
<1>7. /\ q > 0 /\ p > 0 /\ p * q \in Nat /\ p * q > 0
  <2>1. \A i \in Nat, j \in Nat : i > 0 /\ j > 0 => i * j \in Nat /\ i * j > 0
    OBVIOUS
  <2>2. q > 0 /\ p > 0
    BY <1>1, <1>2, <1>6
  <2> QED  BY <2>1, <2>2
<1>8. /\ tr.buy[1] \in DOMAIN rows /\ tr.sell[1] \in DOMAIN rows
      /\ rows[tr.buy[1]].user = b /\ rows[tr.sell[1]].user = s
      /\ ~IsBuyMarket(Taker) =>
              /\ Improvement(tr) \in Nat
              /\ tr.price * tr.qty + Improvement(tr) = x * q
      /\ IsBuyMarket(Taker) => result.incoming = tr.buy
  BY <1>1, <1>2, <1>4, <1>6, TradePrice
<1>9. View(b) \in Wallet /\ View(s) \in Wallet
  BY <1>2, ViewType
<1>10. q <= View(s).reservedVibranium
  <2>1. Need(tr, tr.sell[1], "vibranium") = q
    BY <1>6, <1>7 DEF Need
  <2>2. "vibranium" \in Assets
    BY DEF Assets
  <2>3. Claim(tr.sell[1], "vibranium") \in Nat /\ Claim(tr.sell[1], "vibranium") >= q
    BY <1>2, <1>4, <1>5, <1>8, <2>1, <2>2, ClaimCovers, NeedsFacts, SMTT(30)
  <2>4. Claim(tr.sell[1], "vibranium") <= Reserved(View(s))["vibranium"]
    BY <1>3, <1>8, <2>2, ReservedCovers
  <2>5. Reserved(View(s))["vibranium"] = View(s).reservedVibranium
    BY DEF Reserved
  <2>6. View(s).reservedVibranium \in Nat
    BY <1>9, WalletFields
  <2> QED  BY <2>3, <2>4, <2>5, <2>6
<1>11. CanSettleBuyer(View(b), tr)
  <2>1. CASE IsBuyMarket(Taker)
    <3>1. Taker.user = b
      BY <1>1, <1>8, <2>1 DEF Taker
    <3>2. /\ \A i \in DOMAIN result.trades : result.trades[i].qty > 0
          /\ Total(Costs, DOMAIN result.trades \ Settled) + 0 <= View(b).brl
      <4>1. ~(result.trades[k].qty < 0)
        BY <1>2, <1>6, <1>7
      <4>2. /\ \A i \in DOMAIN result.trades : result.trades[i].qty > 0
            /\ Total(Costs, DOMAIN result.trades \ Settled)
                 + (IF mpc = "match" THEN funds ELSE 0) <= View(Taker.user).brl
        BY <1>2, <1>4, <2>1, <4>1 DEF TradeInv
      <4> QED  BY <3>1, <4>2
    <3>3. \A i \in DOMAIN result.trades : Costs[i] \in Nat
      <4>1. \A i \in DOMAIN result.trades : result.trades[i].price \in Nat /\ result.trades[i].qty \in Nat
        BY <3>2, TradesFacts
      <4>2. \A i \in Nat, j \in Nat : i * j \in Nat
        OBVIOUS
      <4> QED  BY <4>1, <4>2 DEF Costs
    <3>4. PICK D : D = DOMAIN result.trades \ Settled
      OBVIOUS
    <3>5. IsFiniteSet(D) /\ \A i \in D : Costs[i] \in Nat
      BY <3>3, <3>4, TradesFacts, FS_Subset
    <3>6. Total(Costs, D) \in Nat /\ Costs[k] <= Total(Costs, D)
      BY <1>5, <3>4, <3>5, TotalNat
    <3>7. Costs[k] = p * q
      BY <1>2, <1>6 DEF Costs
    <3>8. View(b).brl \in Nat
      BY <1>9, WalletFields
    <3>9. p * q <= View(b).brl
      BY <1>7, <3>2, <3>4, <3>6, <3>7, <3>8
    <3> QED  BY <1>6, <1>7, <2>1, <3>9 DEF CanSettleBuyer, CanSettleBuyMarketFill
  <2>2. CASE ~IsBuyMarket(Taker)
    <3>1. PICK m \in Nat : m = Improvement(tr) /\ p * q + m = x * q
      BY <1>6, <1>8, <2>2
    <3>2. Need(tr, tr.buy[1], "brl") = x * q
      BY <1>6, <1>7 DEF Need
    <3>3. "brl" \in Assets
      BY DEF Assets
    <3>4. Claim(tr.buy[1], "brl") \in Nat /\ Claim(tr.buy[1], "brl") >= x * q
      <4>1. Needs(tr.buy[1], "brl")[k] = x * q
        BY <1>2, <1>8, <3>2, <3>3, NeedsFacts
      <4>2. /\ Claim(tr.buy[1], "brl") \in Nat
            /\ Claim(tr.buy[1], "brl") >= Needs(tr.buy[1], "brl")[k]
        BY <1>2, <1>4, <1>5, <3>3, ClaimCovers
      <4> QED  BY <4>1, <4>2, Zenon
    <3>5. Claim(tr.buy[1], "brl") <= Reserved(View(b))["brl"]
      BY <1>3, <1>8, <3>3, ReservedCovers
    <3>6. Reserved(View(b))["brl"] = View(b).reservedBRL
      BY DEF Reserved
    <3>7. PICK v \in Nat : v = View(b).reservedBRL
      BY <1>9, WalletFields
    <3>8. p * q + m <= v
      <4>1. \A c \in Nat : p * q + m = x * q /\ c >= x * q /\ c <= v => p * q + m <= v
        BY <1>7
      <4> QED  BY <3>1, <3>4, <3>5, <3>6, <3>7, <4>1
    <3>9. CanSettleBuyLimitFill(View(b), tr.price, tr.qty)
      BY <1>6, <1>7, <3>7, <3>8 DEF CanSettleBuyLimitFill
    <3>10. SettleBuyLimitFill(View(b), tr.price, tr.qty).reservedBRL = v - p * q
      <4>1. SettleBuyLimitFill(View(b), p, q)
              = W(View(b).brl, View(b).reservedBRL - p * q, View(b).vibranium + q,
                  View(b).reservedVibranium)
        BY <1>9, SettleOperations
      <4> QED  BY <1>6, <3>7, <4>1 DEF W
    <3>11. Improvement(tr) > 0 =>
             CanReleaseBRL(SettleBuyLimitFill(View(b), tr.price, tr.qty), Improvement(tr))
      BY <1>7, <3>1, <3>8, <3>10 DEF CanReleaseBRL
    <3> QED  BY <2>2, <3>9, <3>11 DEF CanSettleBuyer
  <2> QED  BY <2>1, <2>2
<1>12. BuyerSettled(tr)[s].reservedVibranium = View(s).reservedVibranium
  <2>1. BuyerSettled(tr)[s] = IF s = b THEN SettleBuyer(View(s), tr) ELSE View(s)
    BY <1>1 DEF BuyerSettled
  <2>2. s = b => SettleBuyer(View(s), tr).reservedVibranium = View(s).reservedVibranium
    BY <1>2, <1>9, <1>11, TakerFacts, SettleBuyerFacts
  <2> QED  BY <2>1, <2>2
<1>13. CanSettleSellFill(BuyerSettled(tr)[s], tr.price, tr.qty)
  BY <1>6, <1>7, <1>10, <1>12 DEF CanSettleSellFill
<1> QED  BY <1>1, <1>11, <1>13 DEF CanSettle

\* The wallet can give back the remainder of a SELL MARKET order.
LEMMA RemainderReleased ==
  ASSUME BaseInv, Core, RemainderInv, mpc = "settle", Remainder > 0
  PROVE  CanReleaseVibranium(View(Taker.user), Remainder)
<1>1. Clean
  <2>1. mpc \notin {"down", "resync"}
    OBVIOUS
  <2> QED  BY <2>1, Zenon DEF Core, Clean
<1>2. PICK r : r = result.incoming
  OBVIOUS
<1>3. r \in DOMAIN obj /\ Taker.user \in Users /\ Taker = obj[r]
  BY <1>2, TakerFacts DEF Taker
<1>4. r[1] \in DOMAIN rows /\ rows[r[1]].user = Taker.user
  BY <1>3, ObjectFacts DEF Same
<1>5. "vibranium" \in Assets /\ Rest(r, "vibranium") = Remainder /\ Remainder \in Nat
  BY <1>2 DEF Assets, Rest, Remainder, RemainderInv
<1>6. Claim(r[1], "vibranium") \in Nat /\ Claim(r[1], "vibranium") >= Remainder
  BY <1>1, <1>3, <1>5, ClaimCovers DEF Core
<1>7. Claim(r[1], "vibranium") <= Reserved(View(Taker.user))["vibranium"]
  BY <1>1, <1>4, <1>5, ReservedCovers
<1>8. /\ Reserved(View(Taker.user))["vibranium"] = View(Taker.user).reservedVibranium
      /\ View(Taker.user).reservedVibranium \in Nat
  BY <1>3, ViewType, WalletFields DEF Reserved
<1> QED  BY <1>5, <1>6, <1>7, <1>8 DEF CanReleaseVibranium

\* The wallet can give back what a located order has reserved.
LEMMA LocatedReleased ==
  ASSUME BaseInv, Core, RemainderInv, mpc = "apply", NEW id \in DOMAIN locations
  PROVE  CanRelease(View(obj[locations[id]].user), obj[locations[id]])
<1>1. PICK o, u : o = obj[locations[id]] /\ u = o.user
  OBVIOUS
<1>2. /\ Clean /\ Settled = {} /\ o \in Order /\ Sane(o) /\ o.type = "LIMIT" /\ ~IsDone(o)
      /\ id \in DOMAIN rows /\ RowView(id) = o /\ rows[id].user = u
  BY <1>1, LocatedFacts
<1>3. PICK q \in Nat, p \in Nat : q = Remaining(o) /\ p = o.price /\ q > 0 /\ p > 0
  <2>1. o.quantity \in Nat /\ o.filled \in Nat /\ o.filled < o.quantity
    <3>1. /\ o.quantity \in Nat /\ o.filled \in Nat /\ o.filled <= o.quantity
          /\ o.status # "FILLED"
      BY <1>2 DEF Order, OrderType, Sane, IsDone
    <3>2. o.filled # o.quantity
      BY <1>2, <3>1 DEF Sane
    <3> QED  BY <3>1, <3>2
  <2>2. rows[id].type = "LIMIT" /\ rows[id].price = o.price
    BY <1>2, ViewRow DEF Same
  <2>3. o.price \in Nat /\ o.price > 0
    <3>1. rows[id].price \in Prices
      BY <1>2, <2>2 DEF BaseInv, RowInv
    <3>2. \A y \in Prices : y \in Nat /\ y > 0
      BY PricesAssumption
    <3> QED  BY <2>2, <3>1, <3>2
  <2> QED  BY <2>1, <2>3 DEF Remaining
<1>4. p * q \in Nat /\ p * q > 0
  <2>1. \A i \in Nat, j \in Nat : i > 0 /\ j > 0 => i * j \in Nat /\ i * j > 0
    OBVIOUS
  <2> QED  BY <1>3, <2>1
<1>5. ASSUME NEW asset \in Assets
      PROVE  Tied(o, asset) <= Reserved(View(u))[asset]
  <2>1. Claim(id, asset) = Tied(o, asset)
    BY <1>2, ClaimUnsettled
  <2> QED  BY <1>2, <2>1, ReservedCovers
<1>6. /\ Reserved(View(u))["brl"] = View(u).reservedBRL
      /\ Reserved(View(u))["vibranium"] = View(u).reservedVibranium
      /\ "brl" \in Assets /\ "vibranium" \in Assets /\ ~IsBuyMarket(o)
  BY <1>2 DEF Reserved, Assets, IsBuyMarket
<1>7. CASE o.side = "BUY"
  <2>1. Tied(o, "brl") = p * q
    BY <1>2, <1>3, <1>6, <1>7 DEF Tied
  <2> QED  BY <1>1, <1>3, <1>4, <1>5, <1>6, <1>7, <2>1 DEF CanRelease, CanReleaseBRL
<1>8. CASE o.side = "SELL"
  <2>1. Tied(o, "vibranium") = q
    BY <1>2, <1>3, <1>6, <1>8 DEF Tied
  <2> QED  BY <1>1, <1>3, <1>5, <1>6, <1>8, <2>1 DEF CanRelease, CanReleaseVibranium
<1>9. o.side \in {"BUY", "SELL"}
  BY <1>2 DEF Order, OrderType, Sides
<1> QED  BY <1>7, <1>8, <1>9

\* A wallet never rejects its part of a trade of at least one unit, or a
\* release: what was reserved when the order was placed is there when it is
\* settled, and so is what a BUY MARKET order could spend.
THEOREM SettlementNeverFails == Spec => []SettlementSucceeds
<1>1. Init => RemainderInv
  BY DEF Init, EngineInit, NoResult, RemainderInv
<1>2. BaseInv /\ RemainderInv /\ [Next]_vars => RemainderInv'
  BY RemainderStep
<1>3. ExchangeInv /\ RemainderInv => SettlementSucceeds
  <2> SUFFICES ASSUME ExchangeInv, RemainderInv, ~diverged PROVE SettlementSucceeds
    BY Zenon DEF SettlementSucceeds
  <2>1. BaseInv /\ Core
    BY CoreSound, Zenon DEF ExchangeInv
  <2>2. mpc = "settle" /\ (unsettled # <<>> => Head(unsettled).qty > 0) => SettlementOK
    BY <2>1, NextTradeSettles, RemainderReleased DEF SettlementOK
  <2>3. mpc = "apply" => \A id \in DOMAIN locations :
          CanRelease(View(obj[locations[id]].user), obj[locations[id]])
    BY <2>1, LocatedReleased
  <2> QED  BY <2>2, <2>3, Zenon DEF SettlementSucceeds
<1> QED  BY <1>1, <1>2, <1>3, BaseInvariant, ExchangeInvariant, PTL DEF Spec

----------------------------------------------------------------------------
(* The Book is the set of live orders *)

\* A queue without repetitions is no longer than there are objects.
LEMMA QueueLength ==
  ASSUME NEW q \in Seq(Refs), \A i, j \in DOMAIN q : q[i] = q[j] => i = j
  PROVE  DOMAIN q \subseteq 1..Cardinality(Refs)
<1>1. PICK n \in Nat : n = Len(q) /\ DOMAIN q = 1..n
  OBVIOUS
<1>2. IsFiniteSet(Refs)
  <2>1. IsFiniteSet({"event", "row"})
    <3>1. {"event", "row"} = ({} \cup {"event"}) \cup {"row"}
      OBVIOUS
    <3>2. IsFiniteSet({} \cup {"event"})
      BY FS_EmptySet, FS_AddElement
    <3>3. PICK e : e = {} \cup {"event"}
      OBVIOUS
    <3>4. IsFiniteSet(e \cup {"row"})
      BY <3>2, <3>3, FS_AddElement
    <3> QED  BY <3>1, <3>3, <3>4
  <2> QED  BY <2>1, FiniteAssumption, ObjectsAssumption, FS_Product
<1>3. q \in Injection(1..n, Refs)
  BY <1>1 DEF Injection, IsInjective
<1>4. Cardinality(1..n) = n
  <2>1. 1 \in Int /\ n \in Int /\ (IF 1 > n THEN 0 ELSE n - 1 + 1) = n
    OBVIOUS
  <2> QED  BY <2>1, FS_Interval
<1>5. n <= Cardinality(Refs) /\ Cardinality(Refs) \in Nat
  <2>1. Cardinality(1..n) <= Cardinality(Refs)
    BY <1>2, <1>3, FS_Injection
  <2> QED  BY <1>2, <1>4, <2>1, FS_CardinalityType
<1> QED  BY <1>1, <1>5

\* Between batches the objects are the rows.
LEMMA BetweenBatches ==
  ASSUME BaseInv, Core, ~bookDirty, mpc \in {"poll", "reclaim"}
  PROVE  /\ ObjectInv /\ BookInv /\ incoming = NoRef
         /\ \A r \in DOMAIN obj : r # incoming /\ obj[r] = rows[r[1]]
         /\ \A id \in DOMAIN rows : RowView(id) = rows[id]
         /\ \A id : Known(id) <=> Matched(id)
<1>1. Clean
  <2>1. mpc \notin {"down", "resync"}
    OBVIOUS
  <2> QED  BY <2>1, Zenon DEF Clean
<1>2. ObjectInv /\ BookInv
  BY <1>1 DEF Core
<1>3. batch = {} /\ txRows = Nothing /\ incoming = NoRef /\ result = NoResult
  BY DEF BaseInv, PhaseInv
<1>4. \A id : Known(id) <=> Matched(id)
  BY <1>3, MatchedKnown
<1>5. \A id \in DOMAIN rows : RowView(id) = rows[id]
  BY <1>3, NothingFacts DEF RowView
<1>6. Changed = {NoRef}
  BY <1>3, NoResultFacts DEF Changed, NoResult
<1>7. ASSUME NEW r \in DOMAIN obj
      PROVE  r # incoming /\ obj[r] = rows[r[1]]
  <2>1. r \in Refs /\ r # NoRef /\ r[1] \in DOMAIN rows
    BY ObjectFacts, RefsAssumption
  <2> QED  BY <1>2, <1>3, <1>5, <1>6, <2>1 DEF ObjectInv
<1> QED  BY <1>2, <1>3, <1>4, <1>5, <1>7

\* The places of the Book.
Places == {x \in Sides \X Prices \X (1..Cardinality(Refs)) : x[3] \in DOMAIN book[x[1]][x[2]]}
At(x) == book[x[1]][x[2]][x[3]]

LEMMA PlaceHolds ==
  ASSUME BaseInv, Core, ~bookDirty, mpc \in {"poll", "reclaim"}, NEW x \in Places
  PROVE  LET r == At(x) IN
         /\ r \in DOMAIN obj /\ obj[r].id = r[1] /\ r[1] \in Live /\ obj[r] = rows[r[1]]
         /\ rows[r[1]].side = x[1] /\ rows[r[1]].price = x[2]
         /\ r[1] \in DOMAIN locations /\ locations[r[1]] = r
         /\ \A j \in DOMAIN book[x[1]][x[2]] : book[x[1]][x[2]][j] = r => j = x[3]
<1>1. PICK s, p, i :
        /\ s \in Sides /\ p \in Prices /\ i \in DOMAIN book[s][p]
        /\ s = x[1] /\ p = x[2] /\ i = x[3]
  BY DEF Places
<1>2. PICK r : r = book[s][p][i] /\ r = At(x)
  BY <1>1 DEF At
<1>3. r \in DOMAIN obj
  BY <1>1, <1>2 DEF BaseInv, HeapInv
<1>4. /\ obj[r].side = s /\ obj[r].price = p
      /\ r[1] \in DOMAIN locations /\ locations[r[1]] = r
      /\ \A j \in DOMAIN book[s][p] : book[s][p][j] = r => i = j
  <2>1. BookInv
    BY BetweenBatches
  <2>2. /\ obj[book[s][p][i]].side = s /\ obj[book[s][p][i]].price = p
        /\ book[s][p][i][1] \in DOMAIN locations
        /\ locations[book[s][p][i][1]] = book[s][p][i]
        /\ \A j \in DOMAIN book[s][p] : book[s][p][j] = book[s][p][i] => i = j
    <3>1. \A t \in Sides, w \in Prices : \A k \in DOMAIN book[t][w] :
            /\ obj[book[t][w][k]].side = t /\ obj[book[t][w][k]].price = w
            /\ book[t][w][k][1] \in DOMAIN locations
            /\ locations[book[t][w][k][1]] = book[t][w][k]
            /\ \A j \in DOMAIN book[t][w] : book[t][w][j] = book[t][w][k] => k = j
      BY <2>1 DEF BookInv
    <3>2. s \in Sides /\ p \in Prices /\ i \in DOMAIN book[s][p]
      BY <1>1
    <3> QED  BY <3>1, <3>2
  <2> QED  BY <1>2, <2>2, Zenon
<1>5. /\ r # incoming /\ obj[r] = rows[r[1]] /\ obj[r].id = r[1] /\ r[1] \in DOMAIN rows
  BY <1>3, BetweenBatches, ObjectFacts
<1>6. obj[r].type = "LIMIT" /\ ~IsDone(obj[r])
  BY <1>3, <1>4, <1>5, BetweenBatches DEF BookInv
<1>7. r[1] \in Live
  BY <1>5, <1>6 DEF Live
<1> QED  BY <1>1, <1>2, <1>3, <1>4, <1>5, <1>7

LEMMA LocationsLive ==
  ASSUME BaseInv, Core, ~bookDirty, mpc \in {"poll", "reclaim"}
  PROVE  DOMAIN locations = {id \in Live : Matched(id)}
<1>1. ASSUME NEW id \in DOMAIN locations
      PROVE  id \in Live /\ Matched(id)
  <2>1. PICK r \in DOMAIN obj : r = locations[id] /\ r[1] = id
    BY DEF BaseInv, HeapInv
  <2>2. r # incoming /\ obj[r] = rows[id] /\ id \in DOMAIN rows
    BY <2>1, BetweenBatches, ObjectFacts
  <2>3. obj[r].type = "LIMIT" /\ ~IsDone(obj[r])
    BY <1>1, <2>1, <2>2, BetweenBatches DEF BookInv
  <2>4. Known(id)
    BY <2>1, BetweenBatches DEF ObjectInv
  <2>5. Matched(id)
    BY <2>4, BetweenBatches
  <2> QED  BY <2>2, <2>3, <2>5 DEF Live
<1>2. ASSUME NEW id \in Live, Matched(id)
      PROVE  id \in DOMAIN locations
  <2>1. id \in DOMAIN rows /\ ~IsDone(rows[id]) /\ rows[id].type = "LIMIT"
    BY DEF Live
  <2>2. RowView(id) = rows[id] /\ Known(id)
    BY <1>2, <2>1, BetweenBatches
  <2>3. PICK r \in DOMAIN obj : r[1] = id
    BY <2>1, <2>2, BetweenBatches DEF ObjectInv
  <2>4. r # incoming /\ obj[r] = rows[id]
    BY <2>3, BetweenBatches
  <2> QED  BY <2>1, <2>3, <2>4, BetweenBatches DEF BookInv
<1> QED  BY <1>1, <1>2

\* There are as many places as located orders.
LEMMA PlacesCount ==
  ASSUME BaseInv, Core, ~bookDirty, mpc \in {"poll", "reclaim"}
  PROVE  Cardinality(Places) = Cardinality(DOMAIN locations)
<1> DEFINE f == [x \in Places |-> At(x)[1]]
<1>1. f \in [Places -> DOMAIN locations]
  BY PlaceHolds
<1>2. ASSUME NEW x \in Places, NEW y \in Places, f[x] = f[y]
      PROVE  x = y
  <2>1. PICK r : r = At(x) /\ r = At(y)
    BY <1>2, PlaceHolds
  <2>2. x[1] = rows[r[1]].side /\ x[2] = rows[r[1]].price
    BY <2>1, PlaceHolds
  <2>3. y[1] = rows[r[1]].side /\ y[2] = rows[r[1]].price
    BY <2>1, PlaceHolds
  <2>4. y[3] \in DOMAIN book[y[1]][y[2]] /\ book[y[1]][y[2]][y[3]] = r
    BY <2>1 DEF Places, At
  <2>5. y[3] = x[3]
    <3>1. \A j \in DOMAIN book[x[1]][x[2]] : book[x[1]][x[2]][j] = At(x) => j = x[3]
      BY PlaceHolds
    <3>2. x[1] = y[1] /\ x[2] = y[2]
      BY <2>2, <2>3
    <3> QED  BY <2>1, <2>4, <3>1, <3>2
  <2>6. x \in Sides \X Prices \X (1..Cardinality(Refs)) /\ y \in Sides \X Prices \X (1..Cardinality(Refs))
    BY DEF Places
  <2> QED  BY <2>2, <2>3, <2>5, <2>6
<1>3. ASSUME NEW id \in DOMAIN locations
      PROVE  \E x \in Places : f[x] = id
  <2>1. PICK r \in DOMAIN obj : r = locations[id] /\ r[1] = id
    BY DEF BaseInv, HeapInv
  <2>2. PICK s, p : s = obj[r].side /\ p = obj[r].price
    OBVIOUS
  <2>3. obj[r].type = "LIMIT" /\ \E j \in DOMAIN book[s][p] : book[s][p][j] = r
    <3>1. BookInv
      BY BetweenBatches
    <3>2. /\ obj[locations[id]].type = "LIMIT"
          /\ \E j \in DOMAIN book[obj[locations[id]].side][obj[locations[id]].price] :
               book[obj[locations[id]].side][obj[locations[id]].price][j] = locations[id]
      BY <1>3, <3>1 DEF BookInv
    <3> QED  BY <2>1, <2>2, <3>2
  <2>4. PICK i \in DOMAIN book[s][p] : book[s][p][i] = r
    BY <2>3
  <2>5. s \in Sides /\ p \in Prices
    BY <2>2, <2>3, ObjectFacts
  <2>6. book[s][p] \in Seq(Refs)
    BY <2>5 DEF BaseInv, TypeOK
  <2>7. \A k, j \in DOMAIN book[s][p] : book[s][p][k] = book[s][p][j] => k = j
    BY <2>5, BetweenBatches DEF BookInv
  <2>8. i \in 1..Cardinality(Refs)
    BY <2>6, <2>7, QueueLength
  <2>9. PICK x : x = <<s, p, i>>
    OBVIOUS
  <2>10. x \in Places /\ At(x) = r
    BY <2>4, <2>5, <2>8, <2>9 DEF Places, At
  <2> QED  BY <2>1, <2>10
<1> HIDE DEF f
<1>4. f \in Injection(Places, DOMAIN locations)
  BY <1>1, <1>2 DEF Injection, IsInjective
<1>5. f \in Surjection(Places, DOMAIN locations)
  BY <1>1, <1>3 DEF Surjection
<1>6. IsFiniteSet(DOMAIN locations)
  <2>1. DOMAIN locations \subseteq Ids
    BY DEF BaseInv, TypeOK, PartialFn
  <2> QED  BY <2>1, FiniteAssumption, FS_Subset
<1> QED  BY <1>4, <1>5, <1>6, FS_Injection

\* Between batches a clean Book is the set of live LIMIT orders whose event
\* has been processed, each in one queue, once, with the quantity left that
\* its row says; after commits, rollbacks, resyncs and restarts alike.
THEOREM BookIsLiveOrders == Spec => []BookMatchesRows
<1>1. ExchangeInv => BookMatchesRows
  <2> SUFFICES ASSUME ExchangeInv, ~diverged, ~bookDirty, mpc \in {"poll", "reclaim"}
               PROVE  BookMatchesRows
    BY Zenon DEF BookMatchesRows
  <2>1. BaseInv /\ Core
    BY CoreSound, Zenon DEF ExchangeInv
  <2>2. \A x \in Places :
          LET id == obj[At(x)].id IN
          /\ id \in Live /\ obj[At(x)] = rows[id]
          /\ rows[id].side = x[1] /\ rows[id].price = x[2]
          /\ id \in DOMAIN locations /\ locations[id] = At(x)
    BY <2>1, PlaceHolds
  <2>3. DOMAIN locations = {id \in Live : Matched(id)}
    BY <2>1, LocationsLive
  <2>4. Cardinality(Places) = Cardinality({id \in Live : Matched(id)})
    BY <2>1, <2>3, PlacesCount
  <2> QED  BY <2>2, <2>3, <2>4, Zenon DEF BookMatchesRows, Places, At
<1> QED  BY <1>1, ExchangeInvariant, PTL

----------------------------------------------------------------------------
(* Cancellations *)

\* The events of an order: its placement first.
LEMMA EventStep ==
  ASSUME BaseInv, EventInv, [Next]_vars
  PROVE  EventInv'
<1>1. CASE DOMAIN rows # Ids
           /\ \E o \in PlacedOrders(NewId, Users, Prices, 1..MaxQty) : Place(o)
  <2>1. PICK o \in PlacedOrders(NewId, Users, Prices, 1..MaxQty) : Place(o)
    BY <1>1
  <2>2. o.id = NewId /\ DOMAIN rows' = DOMAIN rows \cup {NewId} /\ NewId \in Ids
    BY <1>1, <2>1, PlaceFacts, NewIdFacts
  <2>3. Publish("NEW", o.id)
    BY <2>1 DEF Place
  <2>4. PICK n : n = Len(stream)
    OBVIOUS
  <2>5. /\ n \in Nat /\ DOMAIN stream = 1..n /\ DOMAIN stream' = 1..(n + 1)
        /\ stream'[n + 1] = [kind |-> "NEW", id |-> NewId]
        /\ \A i \in DOMAIN stream : stream'[i] = stream[i]
    BY <2>2, <2>3, <2>4, PublishFacts
  <2>6. ASSUME NEW id \in DOMAIN rows'
        PROVE  \E j \in DOMAIN stream' : stream'[j] = [kind |-> "NEW", id |-> id]
    <3>1. CASE id = NewId
      BY <2>5, <3>1
    <3>2. CASE id \in DOMAIN rows
      <4>1. PICK j \in DOMAIN stream : stream[j] = [kind |-> "NEW", id |-> id]
        BY <3>2 DEF EventInv
      <4> QED  BY <2>5, <4>1
    <3> QED  BY <2>2, <3>1, <3>2
  <2>7. ASSUME NEW i \in DOMAIN stream', stream'[i].kind = "CANCEL"
        PROVE  \E j \in 1..(i - 1) : stream'[j] = [kind |-> "NEW", id |-> stream'[i].id]
    <3>1. i \in 1..n
      BY <2>5, <2>7
    <3>2. stream'[i] = stream[i] /\ i \in DOMAIN stream
      BY <2>5, <3>1
    <3>3. PICK j \in 1..(i - 1) : stream[j] = [kind |-> "NEW", id |-> stream[i].id]
      BY <2>7, <3>2 DEF EventInv
    <3>4. j \in DOMAIN stream
      BY <2>5, <3>1, <3>3
    <3> QED  BY <2>5, <3>2, <3>3, <3>4
  <2> QED  BY <2>6, <2>7 DEF EventInv
<1>2. CASE \E id \in Ids : Cancel(id)
  <2>1. PICK c \in Ids : Cancel(c)
    BY <1>2
  <2>2. c \in DOMAIN rows /\ rows' = rows /\ Publish("CANCEL", c)
    BY <2>1 DEF Cancel
  <2>3. PICK n : n = Len(stream)
    OBVIOUS
  <2>4. /\ n \in Nat /\ DOMAIN stream = 1..n /\ DOMAIN stream' = 1..(n + 1)
        /\ stream'[n + 1] = [kind |-> "CANCEL", id |-> c]
        /\ \A i \in DOMAIN stream : stream'[i] = stream[i]
    BY <2>2, <2>3, PublishFacts
  <2>5. ASSUME NEW id \in DOMAIN rows'
        PROVE  \E j \in DOMAIN stream' : stream'[j] = [kind |-> "NEW", id |-> id]
    <3>1. PICK j \in DOMAIN stream : stream[j] = [kind |-> "NEW", id |-> id]
      BY <2>2, <2>5 DEF EventInv
    <3> QED  BY <2>4, <3>1
  <2>6. ASSUME NEW i \in DOMAIN stream', stream'[i].kind = "CANCEL"
        PROVE  \E j \in 1..(i - 1) : stream'[j] = [kind |-> "NEW", id |-> stream'[i].id]
    <3>1. CASE i = n + 1
      <4>1. PICK j \in DOMAIN stream : stream[j] = [kind |-> "NEW", id |-> c]
        BY <2>2 DEF EventInv
      <4>2. stream'[i].id = c /\ j \in 1..(i - 1) /\ stream'[j] = stream[j]
        BY <2>4, <3>1, <4>1
      <4> QED  BY <4>1, <4>2
    <3>2. CASE i \in 1..n
      <4>1. stream'[i] = stream[i] /\ i \in DOMAIN stream
        BY <2>4, <3>2
      <4>2. PICK j \in 1..(i - 1) : stream[j] = [kind |-> "NEW", id |-> stream[i].id]
        BY <2>6, <4>1 DEF EventInv
      <4>3. j \in DOMAIN stream
        BY <2>4, <3>2, <4>2
      <4> QED  BY <2>4, <4>1, <4>2, <4>3
    <3> QED  BY <2>4, <2>6, <3>1, <3>2
  <2> QED  BY <2>5, <2>6 DEF EventInv
<1>3. ASSUME stream' = stream, DOMAIN rows' = DOMAIN rows
      PROVE  EventInv'
  BY <1>3 DEF EventInv
<1>4. CASE MBoot \/ MResync
  BY <1>3, <1>4 DEF MBoot, MResync, dbVars, redisVars
<1>5. CASE MReadPending \/ MReadNew
  BY <1>3, <1>5 DEF MReadPending, MReadNew, dbVars, redisVars
<1>6. CASE ApplyDuplicate \/ ApplyNew \/ ApplyCancel
  BY <1>3, <1>6 DEF ApplyDuplicate, ApplyNew, ApplyCancel, dbVars, redisVars
<1>7. CASE MatchStep \/ MatchDone
  BY <1>3, <1>7 DEF MatchStep, MatchDone, dbVars, redisVars
<1>8. CASE SettleTrade \/ SettleReject \/ FinishOrder
  BY <1>3, <1>8 DEF SettleTrade, SettleReject, FinishOrder, dbVars, redisVars
<1>9. CASE MCommit
  <2>1. Flush /\ stream' = stream
    BY <1>9 DEF MCommit
  <2> QED  BY <1>3, <2>1, FlushFacts
<1>10. CASE MFault
  <2>1. (Flush \/ rows' = rows) /\ stream' = stream
    BY <1>10, Zenon DEF MFault, dbVars, redisVars
  <2> QED  BY <1>3, <2>1, FlushFacts
<1>11. CASE MCrash
  BY <1>3, <1>11 DEF MCrash, dbVars, redisVars
<1>12. CASE UNCHANGED vars
  BY <1>3, <1>12 DEF vars
<1> QED
  BY <1>1, <1>2, <1>4, <1>5, <1>6, <1>7, <1>8, <1>9, <1>10, <1>11, <1>12, Zenon DEF Next

\* The first n of a set leave out nothing below one of them.
LEMMA FirstOfDown ==
  ASSUME NEW a \in Nat, NEW S \in SUBSET (1..a), NEW n \in Nat, NEW i \in FirstOf(S, n),
         NEW k \in S, k <= i
  PROVE  k \in FirstOf(S, n)
<1> DEFINE A == {j \in S : j < k}
           B == {j \in S : j < i}
<1>1. i \in S /\ Cardinality(B) < n
  BY Zenon DEF FirstOf
<1>2. A \subseteq B
  <2>1. i \in Int /\ k \in Int /\ S \subseteq Int
    BY <1>1
  <2>2. \A j \in S : j < k => j < i
    BY <2>1
  <2> QED  BY <2>2
<1>3. IsFiniteSet(S)
  <2>1. IsFiniteSet(1..a)
    BY FS_Interval
  <2> QED  BY <2>1, FS_Subset, Zenon
<1>4. IsFiniteSet(B)
  BY <1>3, FS_Subset
<1>5. Cardinality(A) <= Cardinality(B) /\ Cardinality(A) \in Nat /\ Cardinality(B) \in Nat
  BY <1>2, <1>4, FS_Subset, FS_CardinalityType
<1>6. Cardinality(A) < n
  BY <1>1, <1>5
<1> QED  BY <1>6 DEF FirstOf

\* A step within a batch, or of a client.
LEMMA OrderQuiet ==
  ASSUME OrderInv, UNCHANGED <<processed, cursor, pel, origin, batch, todo>>,
         UNCHANGED bookDirty,
         mpc' = mpc \/ {mpc, mpc'} \subseteq {"apply", "match", "settle"}
  PROVE  OrderInv'
BY DEF OrderInv

\* The next entry of a batch is taken.
LEMMA OrderTaken ==
  ASSUME BaseInv, OrderInv, NEW i, IsNext(i), todo' = todo \ {i},
         UNCHANGED <<processed, cursor, pel, origin, batch>>,
         mpc = "apply", mpc' \in {"apply", "match"}
  PROVE  OrderInv'
<1>1. batch \subseteq Nat /\ todo \subseteq batch
  BY DEF BaseInv, TypeOK
<1>2. \A x \in batch' \ todo', j \in todo' : x < j
  <2> SUFFICES ASSUME NEW x \in batch' \ todo', NEW j \in todo'
               PROVE  x < j
    OBVIOUS
  <2>1. j \in todo /\ j # i /\ j \in Nat
    BY <1>1
  <2>2. CASE x = i
    BY <1>1, <2>1, <2>2 DEF IsNext
  <2>3. CASE x # i
    BY <2>1, <2>3 DEF OrderInv
  <2> QED  BY <2>2, <2>3
<1> QED  BY <1>2 DEF OrderInv

\* A batch ends, with a commit or without.
LEMMA OrderEnded ==
  ASSUME OrderInv, EndTx, UNCHANGED cursor,
         \/ processed' = processed /\ pel' = pel
         \/ processed' = processed \cup batch /\ pel' \in {pel, pel \ batch},
         mpc' \in {"down", "resync", "reclaim", "poll"},
         mpc' \in {"reclaim", "resync"} => origin' # "poll",
         mpc' = "poll" => /\ origin' = "poll"
                          /\ bookDirty' \/ 1..cursor \subseteq processed'
  PROVE  OrderInv'
<1>1. batch' = {} /\ todo' = {}
  BY DEF EndTx
<1>2. \A i \in processed' : 1..i \subseteq processed'
  <2>1. CASE processed' = processed
    BY <2>1 DEF OrderInv
  <2>2. CASE processed' = processed \cup batch
    BY <2>2 DEF OrderInv
  <2> QED  BY <2>1, <2>2
<1>3. 1..cursor' \subseteq pel' \cup processed'
  BY DEF OrderInv
<1> QED  BY <1>1, <1>2, <1>3 DEF OrderInv

\* Where an error of a batch leads.
LEMMA OrderFailed ==
  ASSUME OrderInv, NEW A, FailBatch(A), UNCHANGED <<cursor, pel>>,
         processed' = processed \/ processed' = processed \cup batch
  PROVE  OrderInv'
<1>1. EndTx
  BY Zenon DEF FailBatch, Die
<1>2. \/ mpc' = "down"
      \/ /\ mpc' = IF origin = "poll" THEN "resync" ELSE "poll"
         /\ origin' = IF origin = "poll" THEN "retry" ELSE "poll"
         /\ bookDirty' = TRUE
  BY Zenon DEF FailBatch, Die
<1>3. /\ mpc' \in {"down", "resync", "reclaim", "poll"}
      /\ mpc' \in {"reclaim", "resync"} => origin' # "poll"
      /\ mpc' = "poll" => origin' = "poll" /\ bookDirty'
  BY <1>2
<1> QED  BY <1>1, <1>3, OrderEnded

\* Reading starts a batch that leaves no earlier entry behind.
LEMMA OrderRead ==
  ASSUME BaseInv, OrderInv, MReadPending \/ MReadNew, ~diverged'
  PROVE  OrderInv'
<1>1. cursor \in Nat /\ pel \subseteq 1..cursor /\ BatchSize \in Nat /\ batch = {}
  <2>1. mpc \in {"reclaim", "poll"}
    BY DEF MReadPending, MReadNew
  <2> QED  BY <2>1, BoundsAssumption DEF BaseInv, TypeOK, PhaseInv
<1>2. CASE MReadPending /\ pel = {}
  <2>1. /\ mpc = "reclaim" /\ mpc' = "poll" /\ origin' = "poll"
        /\ UNCHANGED <<batch, todo, processed, cursor, pel>>
    BY <1>2, Zenon DEF MReadPending, StartBatch, dbVars, redisVars
  <2> QED  BY <1>2, <2>1 DEF OrderInv
<1>3. CASE MReadPending /\ pel # {}
  <2>1. PICK F : F = FirstOf(pel, BatchSize)
    OBVIOUS
  <2>2. /\ mpc = "reclaim" /\ mpc' = "apply" /\ batch' = F /\ todo' = F
        /\ UNCHANGED <<origin, processed, cursor, pel>>
    BY <1>3, <2>1, Zenon DEF MReadPending, StartBatch, dbVars, redisVars
  <2>3. F \subseteq pel /\ \A i \in F, k \in pel : k <= i => k \in F
    BY <1>1, <2>1, FirstOfDown DEF FirstOf
  <2>4. \A i \in F : 1..i \subseteq processed \cup F
    <3> SUFFICES ASSUME NEW i \in F, NEW k \in 1..i
                 PROVE  k \in processed \cup F
      OBVIOUS
    <3>1. i \in 1..cursor
      BY <1>1, <2>3
    <3>2. k \in 1..cursor /\ k <= i
      BY <1>1, <3>1
    <3> QED  BY <2>3, <3>2 DEF OrderInv
  <2> QED  BY <2>2, <2>4 DEF OrderInv
<1>4. CASE MReadNew
  <2>1. PICK F : F = FirstOf((cursor + 1)..Len(stream), BatchSize)
    OBVIOUS
  <2>2. /\ F = (cursor + 1)..cursor' /\ cursor' \in cursor..Len(stream)
        /\ pel' = pel \cup F /\ StartBatch(F)
    BY <1>4, <2>1, ReadNewFacts
  <2>3. /\ mpc = "poll" /\ UNCHANGED <<origin, processed>>
        /\ batch' = F /\ todo' = F /\ mpc' = "apply" /\ ~bookDirty
    BY <1>4, <2>2, Zenon DEF MReadNew, StartBatch, dbVars
  <2>4. 1..cursor \subseteq processed /\ origin = "poll"
    BY <2>3 DEF OrderInv
  <2>5. cursor' \in Nat /\ cursor <= cursor'
    BY <1>1, <2>2
  <2>6. 1..cursor' \subseteq processed \cup F
    BY <1>1, <2>2, <2>4, <2>5
  <2>7. \A i \in F : 1..i \subseteq processed \cup F
    <3> SUFFICES ASSUME NEW i \in F, NEW k \in 1..i
                 PROVE  k \in processed \cup F
      OBVIOUS
    <3>1. k \in 1..cursor'
      BY <1>1, <2>2, <2>5
    <3> QED  BY <2>6, <3>1
  <2> QED  BY <2>2, <2>3, <2>4, <2>6, <2>7 DEF OrderInv
<1> QED  BY <1>2, <1>3, <1>4

\* Entries are applied in stream order.
LEMMA OrderStep ==
  ASSUME BaseInv, OrderInv, [Next]_vars, ~diverged'
  PROVE  OrderInv'
<1>1. CASE DOMAIN rows # Ids
           /\ \E o \in PlacedOrders(NewId, Users, Prices, 1..MaxQty) : Place(o)
  BY <1>1, OrderQuiet DEF Place, Publish, loopVars
<1>2. CASE \E id \in Ids : Cancel(id)
  BY <1>2, OrderQuiet DEF Cancel, Publish, loopVars
<1>3. CASE MBoot \/ MResync
  <2>1. /\ mpc \in {"down", "resync"} /\ mpc' = "reclaim"
        /\ mpc = "resync" => origin' = origin
        /\ mpc = "down" => origin' = "boot"
        /\ UNCHANGED <<processed, cursor, pel, batch, todo>>
    BY <1>3 DEF MBoot, MResync, dbVars, redisVars
  <2> QED  BY <2>1 DEF OrderInv
<1>4. CASE MReadPending \/ MReadNew
  BY <1>4, OrderRead
<1>5. CASE ApplyDuplicate
  BY <1>5, OrderTaken DEF ApplyDuplicate, dbVars, redisVars
<1>6. CASE ApplyNew
  BY <1>6, OrderTaken DEF ApplyNew, dbVars, redisVars
<1>7. CASE MatchStep \/ MatchDone
  <2>1. /\ UNCHANGED <<processed, cursor, pel, origin, batch, todo>>
        /\ UNCHANGED bookDirty
        /\ mpc = "match" /\ mpc' \in {"match", "settle"}
    BY <1>7 DEF MatchStep, MatchDone, dbVars, redisVars, loopVars
  <2> QED  BY <2>1, OrderQuiet
<1>8. CASE SettleTrade \/ FinishOrder
  <2>1. /\ UNCHANGED <<processed, cursor, pel, origin, batch, todo>>
        /\ UNCHANGED bookDirty
        /\ mpc = "settle" /\ mpc' \in {"apply", "settle"}
    BY <1>8 DEF SettleTrade, FinishOrder, dbVars, redisVars, loopVars
  <2> QED  BY <2>1, OrderQuiet
<1>9. CASE SettleReject
  <2>1. /\ FailBatch(UNCHANGED <<obj, book, locations, incoming>>)
        /\ UNCHANGED <<processed, cursor, pel>>
    BY <1>9 DEF SettleReject, dbVars, redisVars
  <2> QED  BY <2>1, OrderFailed
<1>10. CASE ApplyCancel
  <2>1. PICK i : /\ IsNext(i)
                 /\ \/ todo' = todo \ {i} /\ UNCHANGED <<mpc, origin, batch>>
                    \/ FailBatch(CancelResting(stream[i].id))
    BY <1>10, ApplyCancelCases, Zenon
  <2>2. mpc = "apply" /\ UNCHANGED <<processed, cursor, pel>>
    BY <1>10 DEF ApplyCancel, dbVars, redisVars
  <2>3. CASE todo' = todo \ {i} /\ UNCHANGED <<mpc, origin, batch>>
    BY <2>1, <2>2, <2>3, OrderTaken
  <2>4. CASE FailBatch(CancelResting(stream[i].id))
    BY <2>2, <2>4, OrderFailed
  <2> QED  BY <2>1, <2>3, <2>4
<1>11. CASE MCommit
  <2>1. /\ mpc = "apply" /\ EndTx /\ UNCHANGED <<cursor, origin>>
        /\ processed' = processed \cup batch /\ pel' = pel \ batch
        /\ mpc' = IF origin = "poll" THEN "poll" ELSE "reclaim"
    BY <1>11 DEF MCommit, Flush
  <2>2. origin = "poll" => 1..cursor \subseteq processed'
    BY <2>1 DEF OrderInv
  <2> QED  BY <2>1, <2>2, OrderEnded
<1>12. CASE MFault
  <2>1. /\ FailBatch(UNCHANGED <<obj, book, locations, incoming>>)
        /\ processed' = processed \/ processed' = processed \cup batch
        /\ UNCHANGED <<cursor, pel>>
    BY <1>12, Zenon DEF MFault, dbVars, redisVars, Flush
  <2> QED  BY <2>1, OrderFailed
<1>13. CASE MCrash
  <2>1. EndTx /\ mpc' = "down" /\ UNCHANGED <<processed, cursor, pel>>
    BY <1>13 DEF MCrash, Die, dbVars, redisVars
  <2> QED  BY <2>1, OrderEnded
<1>14. CASE UNCHANGED vars
  BY <1>14, OrderQuiet DEF vars
<1> QED
  BY <1>1, <1>2, <1>3, <1>4, <1>5, <1>6, <1>7, <1>8, <1>9, <1>10, <1>11, <1>12,
     <1>13, <1>14, Zenon DEF Next

\* The entries of the stream are about rows.
LEMMA EntryRow ==
  ASSUME BaseInv, NEW i \in processed \cup batch
  PROVE  i \in DOMAIN stream /\ stream[i].id \in DOMAIN rows
<1>1. i \in DOMAIN stream
  BY ProcessedFacts
<1> QED  BY <1>1 DEF BaseInv, RowInv

\* What is terminal in Postgres is terminal in the transaction.
LEMMA FinalViewed ==
  ASSUME BaseInv, JournalInv, FinalInv, NEW i \in processed, Final(i)
  PROVE  IsDone(RowView(stream[i].id))
<1>1. PICK id : id = stream[i].id
  OBVIOUS
<1>2. IsDone(rows[id])
  BY <1>1 DEF FinalInv
<1>3. id \in DOMAIN txRows => Advanced(rows[id], txRows[id])
  BY DEF JournalInv
<1>4. RowView(id) = rows[id]
  BY <1>2, <1>3 DEF RowView, Advanced
<1> QED  BY <1>1, <1>2, <1>4

\* Between batches, or at the start of one.
LEMMA FinalIdle ==
  ASSUME FinalInv, UNCHANGED <<rows, processed, stream>>, batch' \ todo' = {},
         mpc' # "settle"
  PROVE  FinalInv'
BY DEF FinalInv, Final

\* A step of a client, of Match, or of the settlement.
LEMMA FinalFrame ==
  ASSUME BaseInv, FinalInv, \A id \in DOMAIN rows : rows'[id] = rows[id],
         \A i \in DOMAIN stream : stream'[i] = stream[i],
         UNCHANGED <<processed, batch, todo, txRows>>,
         \A i \in DOMAIN stream : Applying(i) => Applying(i)',
         mpc' = "settle" /\ Taker'.type = "MARKET" => IsDone(Taker')
  PROVE  FinalInv'
<1>1. \A i \in processed \cup batch :
        /\ i \in DOMAIN stream /\ stream[i].id \in DOMAIN rows
        /\ stream'[i] = stream[i] /\ rows'[stream[i].id] = rows[stream[i].id]
  BY EntryRow
<1>2. \A i \in processed \cup batch : Final(i)' <=> Final(i)
  BY <1>1 DEF Final
<1>3. \A i \in processed : Final(i)' => IsDone(rows'[stream'[i].id])
  BY <1>1, <1>2 DEF FinalInv
<1>4. ASSUME NEW i \in batch \ todo, Final(i)', ~Applying(i)'
      PROVE  IsDone(RowView(stream[i].id)')
  <2>1. PICK id : id = stream[i].id
    OBVIOUS
  <2>2. Final(i) /\ ~Applying(i) /\ id \in DOMAIN rows
    BY <1>1, <1>2, <1>4, <2>1
  <2>3. RowView(id)' = RowView(id)
    BY <2>2 DEF RowView
  <2>4. IsDone(RowView(id))
    BY <2>1, <2>2 DEF FinalInv
  <2>5. RowView(stream[i].id)' = RowView(id)'
    BY <1>1, <2>1 DEF RowView
  <2> QED  BY <2>3, <2>4, <2>5, <1>1, <2>1
<1> QED  BY <1>1, <1>3, <1>4 DEF FinalInv

\* The transaction commits: what it left terminal is terminal in Postgres.
LEMMA FinalCommitted ==
  ASSUME BaseInv, JournalInv, FinalInv, mpc = "apply", todo = {}, Flush, EndTx,
         UNCHANGED stream, mpc' # "settle"
  PROVE  FinalInv'
<1>1. /\ processed' = processed \cup batch /\ batch' \ todo' = {}
      /\ \A id \in DOMAIN rows : rows'[id] = RowView(id)
  BY FlushFacts DEF EndTx
<1>2. ASSUME NEW i \in processed', Final(i)'
      PROVE  IsDone(rows'[stream'[i].id])
  <2>1. PICK id : id = stream[i].id
    OBVIOUS
  <2>2. id \in DOMAIN rows
    BY <1>1, <2>1, EntryRow
  <2>3. rows'[id] = RowView(id) /\ RowView(id).type = rows[id].type
    BY <1>1, <2>2, ViewRow DEF Same
  <2>4. Final(i)
    BY <1>2, <2>1, <2>3 DEF Final
  <2>5. CASE i \in processed
    BY <2>1, <2>3, <2>4, <2>5, FinalViewed
  <2>6. CASE i \in batch
    <3>1. ~Applying(i)
      BY DEF Applying
    <3> QED  BY <2>1, <2>3, <2>4, <2>6, <3>1 DEF FinalInv
  <2> QED  BY <1>1, <2>5, <2>6
<1> QED  BY <1>1, <1>2 DEF FinalInv

\* One more entry is applied, and nothing else changes but the row it is about.
LEMMA FinalApplied ==
  ASSUME BaseInv, FinalInv, mpc = "apply", NEW i \in todo, todo' = todo \ {i},
         UNCHANGED <<rows, processed, stream, batch>>, mpc' # "settle",
         \A id \in DOMAIN rows : IsDone(RowView(id)) => IsDone(RowView(id)'),
         Final(i) => Applying(i)' \/ IsDone(RowView(stream[i].id)')
  PROVE  FinalInv'
<1>1. todo \subseteq batch
  BY DEF BaseInv, TypeOK
<1>2. \A x : Final(x)' <=> Final(x)
  BY DEF Final
<1>3. ASSUME NEW x \in batch' \ todo', Final(x)', ~Applying(x)'
      PROVE  IsDone(RowView(stream[x].id)')
  <2>1. CASE x = i
    BY <1>2, <1>3, <2>1
  <2>2. CASE x # i
    <3>1. x \in batch \ todo /\ Final(x) /\ ~Applying(x)
      BY <1>2, <1>3, <2>2 DEF Applying
    <3>2. IsDone(RowView(stream[x].id))
      BY <3>1 DEF FinalInv
    <3>3. stream[x].id \in DOMAIN rows
      BY <3>1, EntryRow
    <3> QED  BY <3>2, <3>3
  <2> QED  BY <2>1, <2>2
<1>4. \A x \in processed' : Final(x)' => IsDone(rows'[stream'[x].id])
  BY <1>2 DEF FinalInv
<1>5. \A x \in batch' \ todo' : Final(x)' /\ ~Applying(x)' => IsDone(RowView(stream[x].id)')
  BY <1>3
<1> QED  BY <1>4, <1>5, Zenon DEF FinalInv

LEMMA FinalDuplicate ==
  ASSUME BaseInv, Core, FinalInv, ApplyDuplicate
  PROVE  FinalInv'
<1>1. JournalInv
  BY DEF Core
<1>2. PICK i \in processed : IsNext(i) /\ todo' = todo \ {i}
  BY DEF ApplyDuplicate
<1>3. /\ mpc = "apply" /\ mpc' = "apply"
      /\ UNCHANGED <<rows, processed, stream, batch, txRows>>
  BY DEF ApplyDuplicate, dbVars, redisVars, txVars
<1>4. i \in todo
  BY <1>2 DEF IsNext
<1>5. \A id : RowView(id)' = RowView(id)
  BY <1>3 DEF RowView
<1>6. Final(i) => IsDone(RowView(stream[i].id)')
  <2>1. PICK id : id = stream[i].id
    OBVIOUS
  <2>2. Final(i) => IsDone(RowView(id))
    BY <1>1, <2>1, FinalViewed
  <2> QED  BY <1>3, <1>5, <2>1, <2>2
<1> QED  BY <1>2, <1>3, <1>4, <1>5, <1>6, FinalApplied

LEMMA FinalNew ==
  ASSUME BaseInv, FinalInv, ApplyNew
  PROVE  FinalInv'
<1>1. PICK i \in todo \ processed :
        /\ stream[i] = [kind |-> "NEW", id |-> stream[i].id]
        /\ todo' = todo \ {i}
        /\ result' = [incoming |-> <<stream[i].id, "event">>, trades |-> <<>>,
                      touched |-> <<>>, cancelled |-> 0]
  BY ApplyNewFacts, Zenon
<1>2. /\ mpc = "apply" /\ mpc' = "match"
      /\ UNCHANGED <<rows, processed, stream, batch, txRows>>
  BY DEF ApplyNew, dbVars, redisVars
<1>3. \A id : RowView(id)' = RowView(id)
  BY <1>2 DEF RowView
<1>4. Applying(i)'
  <2>1. stream[i].kind = "NEW"
    BY <1>1
  <2>2. result'.incoming[1] = stream[i].id
    BY <1>1
  <2> QED  BY <1>2, <2>1, <2>2 DEF Applying
<1> QED  BY <1>1, <1>2, <1>3, <1>4, FinalApplied

LEMMA FinalMatch ==
  ASSUME BaseInv, Core, FinalInv, MatchStep
  PROVE  FinalInv'
<1>1. UNCHANGED <<rows, processed, stream, batch, todo, txRows>> /\ mpc = "match" /\ mpc' = "match"
  BY DEF MatchStep, dbVars, redisVars, loopVars, txVars
<1>2. result'.incoming = result.incoming
  BY MatchStepFacts
<1>3. \A i \in DOMAIN stream : Applying(i) => Applying(i)'
  BY <1>1, <1>2 DEF Applying
<1> QED  BY <1>1, <1>3, FinalFrame

\* A MARKET order leaves Match terminal: filled, or its remainder cancelled.
LEMMA FinalMatchDone ==
  ASSUME BaseInv, BaseInv', FinalInv, MatchDone
  PROVE  FinalInv'
<1>1. /\ UNCHANGED <<rows, processed, stream, batch, todo, txRows>>
      /\ mpc = "match" /\ mpc' = "settle" /\ EndMatch
  BY DEF MatchDone, dbVars, redisVars
<1>2. PICK c : c = incoming
  OBVIOUS
<1>3. PICK o : o = obj[c]
  OBVIOUS
<1>4. /\ c \in DOMAIN obj /\ result.incoming = c /\ result'.incoming = c
      /\ \/ Remaining(o) = 0 /\ obj' = obj
         \/ o.type = "LIMIT" /\ obj' = obj
         \/ obj'[c] = CancelOrder(o)
  BY <1>1, <1>2, <1>3, EndMatchBase
<1>5. o \in Order /\ Sane(o)
  BY <1>3, <1>4, ObjectFacts DEF BaseInv, RowInv
<1>6. ASSUME obj'[c].type = "MARKET"
      PROVE  IsDone(obj'[c])
  <2>1. CASE Remaining(o) = 0 /\ obj' = obj
    <3>1. o.filled = o.quantity
      BY <1>5, <2>1, OrderAmounts DEF Remaining
    <3>2. o.status = "FILLED"
      BY <1>5, <3>1 DEF Sane
    <3> QED  BY <1>3, <2>1, <3>2 DEF IsDone
  <2>2. CASE o.type = "LIMIT" /\ obj' = obj
    BY <1>3, <1>6, <2>2
  <2>3. CASE obj'[c] = CancelOrder(o)
    BY <1>5, <2>3, CancelKeeps
  <2> QED  BY <1>4, <2>1, <2>2, <2>3
<1>7. \A i \in DOMAIN stream : Applying(i) => Applying(i)'
  BY <1>1, <1>4 DEF Applying
<1>8. Taker' = obj'[c]
  BY <1>4 DEF Taker
<1> QED  BY <1>1, <1>6, <1>7, <1>8, FinalFrame

LEMMA FinalFinish ==
  ASSUME BaseInv, Core, FinalInv, FinishOrder
  PROVE  FinalInv'
<1>1. /\ mpc = "settle" /\ mpc' = "apply"
      /\ UNCHANGED <<rows, processed, stream, batch, todo>>
  BY DEF FinishOrder, dbVars, redisVars
<1>2. ObjectInv
  <2>1. Clean
    BY <1>1, Zenon DEF Core, Clean
  <2> QED  BY <2>1 DEF Core
<1>3. /\ \A r \in DOMAIN obj : RowView(r[1])' = obj[r]
      /\ \A id \in DOMAIN rows : (\A r \in DOMAIN obj : r[1] # id) => RowView(id)' = RowView(id)
  BY <1>1, <1>2, FinishRows
<1>4. result.incoming \in DOMAIN obj
  BY <1>1, TakerFacts
<1>5. ASSUME NEW i \in batch \ todo, Final(i)
      PROVE  IsDone(RowView(stream[i].id)')
  <2>1. PICK id : id = stream[i].id
    OBVIOUS
  <2>2. id \in DOMAIN rows
    BY <2>1, EntryRow
  <2>3. CASE Applying(i)
    <3>1. id = result.incoming[1] /\ rows[id].type = "MARKET"
      BY <1>5, <2>1, <2>3 DEF Applying, Final
    <3>2. Taker.type = "MARKET"
      BY <1>4, <3>1, ObjectFacts DEF Taker, Same
    <3>3. IsDone(Taker)
      BY <1>1, <3>2 DEF FinalInv
    <3>4. RowView(id)' = Taker
      BY <1>3, <1>4, <3>1 DEF Taker
    <3> QED  BY <1>1, <2>1, <3>3, <3>4
  <2>4. CASE ~Applying(i)
    <3>1. IsDone(RowView(id))
      BY <1>5, <2>1, <2>4 DEF FinalInv
    <3>2. CASE \E r \in DOMAIN obj : r[1] = id
      <4>1. PICK r \in DOMAIN obj : r[1] = id
        BY <3>2
      <4>2. Advanced(RowView(id), obj[r])
        BY <1>2, <4>1 DEF ObjectInv
      <4>3. RowView(id)' = RowView(id)
        BY <1>3, <3>1, <4>1, <4>2 DEF Advanced
      <4> QED  BY <1>1, <2>1, <3>1, <4>3
    <3>3. CASE \A r \in DOMAIN obj : r[1] # id
      BY <1>1, <1>3, <2>1, <2>2, <3>1, <3>3
    <3> QED  BY <3>2, <3>3
  <2> QED  BY <2>3, <2>4
<1>6. \A x : Final(x)' <=> Final(x)
  BY <1>1 DEF Final
<1>7. \A x \in processed' : Final(x)' => IsDone(rows'[stream'[x].id])
  BY <1>1, <1>6 DEF FinalInv
<1>8. \A x \in batch' \ todo' : Final(x)' => IsDone(RowView(stream[x].id)')
  BY <1>1, <1>5, <1>6
<1> QED  BY <1>1, <1>7, <1>8, Zenon DEF FinalInv

\* A cancellation that finds no order in the Book is about a terminal one: its
\* placement was applied before it, and a live LIMIT order would be located.
LEMMA NotLocatedDone ==
  ASSUME BaseInv, Core, EventInv, OrderInv, FinalInv, mpc = "apply", NEW i, IsNext(i),
         i \in DOMAIN stream, stream[i].kind = "CANCEL", NEW id, id = stream[i].id,
         id \notin DOMAIN locations
  PROVE  id \in DOMAIN rows /\ IsDone(RowView(id))
<1>1. Clean
  BY Zenon DEF Core, Clean
<1>2. JournalInv /\ ObjectInv /\ BookInv
  BY <1>1 DEF Core
<1>3. id \in DOMAIN rows
  BY DEF BaseInv, RowInv
<1>4. i \in todo /\ todo \subseteq batch /\ batch \subseteq Nat
  BY DEF IsNext, BaseInv, TypeOK
<1>5. PICK j \in 1..(i - 1) : stream[j] = [kind |-> "NEW", id |-> id]
  BY DEF EventInv
<1>6. j \in processed \cup (batch \ todo)
  <2>0. i \in Nat
    BY <1>4, Zenon
  <2>1. j \in 1..i /\ j < i /\ j \in Nat
    BY <2>0
  <2>2. j \in processed \cup batch
    BY <1>4, <2>1 DEF OrderInv
  <2>3. j \notin todo
    BY <2>0, <2>1 DEF IsNext
  <2> QED  BY <2>2, <2>3
<1>7. Known(id)
  BY <1>5, <1>6 DEF Known
<1>8. CASE rows[id].type = "MARKET"
  <2>1. Final(j) /\ stream[j].id = id /\ ~Applying(j)
    BY <1>5, <1>8 DEF Final, Applying
  <2>2. CASE j \in processed
    BY <1>2, <1>3, <2>1, <2>2, FinalViewed
  <2>3. CASE j \in batch \ todo
    BY <1>3, <2>1, <2>3 DEF FinalInv
  <2> QED  BY <1>6, <2>2, <2>3
<1>9. CASE rows[id].type = "LIMIT"
  <2> SUFFICES ASSUME ~IsDone(RowView(id))
               PROVE  FALSE
    BY <1>3
  <2>1. PICK r \in DOMAIN obj : r[1] = id
    BY <1>2, <1>3, <1>7, <1>9 DEF ObjectInv
  <2>2. r \in Refs /\ obj[r].type = "LIMIT"
    BY <1>9, <2>1, ObjectFacts DEF Same
  <2>3. r # NoRef /\ incoming = NoRef /\ result = NoResult
    BY <2>2, RefsAssumption DEF BaseInv, PhaseInv
  <2>4. Changed = {NoRef}
    BY <2>3, NoResultFacts DEF Changed, NoResult
  <2>5. obj[r] = RowView(id)
    BY <1>2, <2>1, <2>3, <2>4 DEF ObjectInv
  <2> QED  BY <1>2, <2>1, <2>2, <2>3, <2>5 DEF BookInv
<1>10. rows[id].type \in {"LIMIT", "MARKET"}
  BY <1>3, RowFacts DEF Order, OrderType, Types
<1> QED  BY <1>8, <1>9, <1>10

LEMMA FinalCancel ==
  ASSUME BaseInv, Core, EventInv, OrderInv, FinalInv, ApplyCancel
  PROVE  FinalInv'
<1>1. /\ mpc = "apply" /\ UNCHANGED <<rows, processed, stream>>
  BY DEF ApplyCancel, dbVars, redisVars
<1>2. PICK i \in todo \ processed :
           /\ IsNext(i) /\ i \in DOMAIN stream /\ stream[i].kind = "CANCEL"
           /\ \/ /\ stream[i].id \notin DOMAIN locations
                 /\ todo' = todo \ {i} /\ UNCHANGED <<mpc, batch, txRows>>
              \/ /\ stream[i].id \in DOMAIN locations
                 /\ txRows' = Put(txRows, stream[i].id,
                                  CancelOrder(obj[locations[stream[i].id]]))
                 /\ todo' = todo \ {i} /\ UNCHANGED <<mpc, batch>>
              \/ FailBatch(CancelResting(stream[i].id))
  BY ApplyCancelCases, Zenon
<1>3. PICK id : id = stream[i].id
  OBVIOUS
<1>4. CASE /\ id \notin DOMAIN locations
           /\ todo' = todo \ {i} /\ UNCHANGED <<mpc, batch, txRows>>
  <2>1. \A x : RowView(x)' = RowView(x)
    BY <1>1, <1>4 DEF RowView
  <2>2. IsDone(RowView(id))
    BY <1>1, <1>2, <1>3, <1>4, NotLocatedDone
  <2>3. IsDone(RowView(stream[i].id)')
    BY <1>1, <1>3, <2>1, <2>2
  <2> QED  BY <1>1, <1>2, <1>4, <2>1, <2>3, FinalApplied
<1>5. CASE /\ id \in DOMAIN locations
           /\ txRows' = Put(txRows, id, CancelOrder(obj[locations[id]]))
           /\ todo' = todo \ {i} /\ UNCHANGED <<mpc, batch>>
  <2>1. PICK o : o = obj[locations[id]]
    OBVIOUS
  <2>2. o \in Order
    BY <1>1, <1>5, <2>1, LocatedFacts
  <2>3. RowView(id)' = CancelOrder(o) /\ \A x : x # id => RowView(x)' = RowView(x)
    <3>1. PICK v : v = CancelOrder(o)
      OBVIOUS
    <3>2. txRows' = Put(txRows, id, v)
      BY <1>5, <2>1, <3>1
    <3>3. /\ DOMAIN txRows' = DOMAIN txRows \cup {id} /\ txRows'[id] = v
          /\ \A x \in DOMAIN txRows \ {id} : txRows'[x] = txRows[x]
      <4>1. txRows' = [x \in DOMAIN txRows \cup {id} |->
                         IF x \in {id} THEN [y \in {id} |-> v][x] ELSE txRows[x]]
        BY <3>2 DEF Put, Merge
      <4> QED  BY <4>1
    <3>4. RowView(id)' = v /\ \A x : x # id => RowView(x)' = RowView(x)
      BY <1>1, <3>3 DEF RowView
    <3> QED  BY <3>1, <3>4
  <2>4. IsDone(RowView(id)')
    BY <2>2, <2>3, CancelKeeps
  <2>5. \A x \in DOMAIN rows : IsDone(RowView(x)) => IsDone(RowView(x)')
    BY <2>3, <2>4
  <2>6. IsDone(RowView(stream[i].id)')
    BY <1>1, <1>3, <2>4
  <2> QED  BY <1>1, <1>2, <1>5, <2>5, <2>6, FinalApplied
<1>6. CASE FailBatch(CancelResting(id))
  <2>1. EndTx /\ mpc' # "settle"
    BY <1>6, Zenon DEF FailBatch, Die
  <2>2. batch' \ todo' = {}
    BY <2>1 DEF EndTx
  <2> QED  BY <1>1, <2>1, <2>2, FinalIdle
<1> QED  BY <1>2, <1>3, <1>4, <1>5, <1>6

\* An entry that leaves its order terminal has done so once it is applied.
LEMMA FinalStep ==
  ASSUME BaseInv, Core, EventInv, OrderInv, FinalInv, [Next]_vars
  PROVE  FinalInv'
<1>0. BaseInv'
  BY NextBase
<1>1. CASE DOMAIN rows # Ids
           /\ \E o \in PlacedOrders(NewId, Users, Prices, 1..MaxQty) : Place(o)
  <2>1. PICK o \in PlacedOrders(NewId, Users, Prices, 1..MaxQty) : Place(o)
    BY <1>1
  <2>2. /\ o.id \in Ids /\ Publish("NEW", o.id)
        /\ \A id \in DOMAIN rows : rows'[id] = rows[id]
    BY <1>1, <2>1, PlaceFacts, NewIdFacts DEF Place
  <2>3. /\ \A i \in DOMAIN stream : stream'[i] = stream[i]
        /\ UNCHANGED <<processed, batch, todo, txRows, mpc, result, obj>>
    BY <2>2, PublishFacts
  <2>4. Taker' = Taker
    BY <2>3 DEF Taker
  <2>5. mpc' = "settle" /\ Taker'.type = "MARKET" => IsDone(Taker')
    BY <2>3, <2>4 DEF FinalInv
  <2>6. \A i \in DOMAIN stream : Applying(i) => Applying(i)'
    BY <2>3 DEF Applying
  <2> QED  BY <2>2, <2>3, <2>5, <2>6, FinalFrame
<1>2. CASE \E id \in Ids : Cancel(id)
  <2>1. PICK c \in Ids : Cancel(c)
    BY <1>2
  <2>2. Publish("CANCEL", c) /\ rows' = rows
    BY <2>1 DEF Cancel
  <2>3. /\ \A i \in DOMAIN stream : stream'[i] = stream[i]
        /\ UNCHANGED <<processed, batch, todo, txRows, mpc, result, obj>>
    BY <2>2, PublishFacts
  <2>4. Taker' = Taker
    BY <2>3 DEF Taker
  <2>5. mpc' = "settle" /\ Taker'.type = "MARKET" => IsDone(Taker')
    BY <2>3, <2>4 DEF FinalInv
  <2>6. \A i \in DOMAIN stream : Applying(i) => Applying(i)'
    BY <2>3 DEF Applying
  <2> QED  BY <2>2, <2>3, <2>5, <2>6, FinalFrame
<1>3. CASE MBoot \/ MResync
  <2>1. /\ mpc \in {"down", "resync"} /\ mpc' = "reclaim"
        /\ UNCHANGED <<rows, processed, stream, batch, todo>>
    BY <1>3 DEF MBoot, MResync, dbVars, redisVars
  <2>2. batch = {}
    BY <2>1 DEF BaseInv, PhaseInv
  <2> QED  BY <2>1, <2>2, FinalIdle
<1>4. CASE MReadPending \/ MReadNew
  <2>1. mpc \in {"reclaim", "poll"} /\ UNCHANGED <<rows, processed, stream>>
    BY <1>4 DEF MReadPending, MReadNew, dbVars, redisVars
  <2>2. batch = {}
    BY <2>1 DEF BaseInv, PhaseInv
  <2>3. (batch' = todo' \/ batch' = batch) /\ mpc' \in {"apply", "poll"}
    BY <1>4 DEF MReadPending, MReadNew, StartBatch
  <2> QED  BY <2>1, <2>2, <2>3, FinalIdle
<1>5. CASE ApplyDuplicate
  BY <1>5, FinalDuplicate
<1>6. CASE ApplyNew
  BY <1>6, FinalNew
<1>7. CASE MatchStep
  BY <1>7, FinalMatch
<1>8. CASE MatchDone
  BY <1>0, <1>8, FinalMatchDone
<1>9. CASE SettleTrade \/ UNCHANGED vars
  <2>1. UNCHANGED <<rows, processed, stream, batch, todo, txRows, mpc, result, obj>>
    BY <1>9 DEF SettleTrade, vars, dbVars, redisVars, loopVars, engineVars
  <2>2. Taker' = Taker
    BY <2>1 DEF Taker
  <2>3. mpc' = "settle" /\ Taker'.type = "MARKET" => IsDone(Taker')
    BY <2>1, <2>2 DEF FinalInv
  <2>4. \A i \in DOMAIN stream : Applying(i) => Applying(i)'
    BY <2>1 DEF Applying
  <2> QED  BY <2>1, <2>3, <2>4, FinalFrame
<1>10. CASE FinishOrder
  BY <1>10, FinalFinish
<1>11. CASE ApplyCancel
  BY <1>11, FinalCancel
<1>12. ASSUME EndTx, mpc' # "settle", UNCHANGED <<rows, processed, stream>>
       PROVE  FinalInv'
  <2>1. batch' \ todo' = {}
    BY <1>12 DEF EndTx
  <2> QED  BY <1>12, <2>1, FinalIdle
<1>13. CASE SettleReject \/ MCrash
  <2>1. EndTx /\ mpc' # "settle"
    BY <1>13, Zenon DEF SettleReject, MCrash, FailBatch, Die
  <2>2. UNCHANGED <<rows, processed, stream>>
    BY <1>13 DEF SettleReject, MCrash, dbVars, redisVars
  <2> QED  BY <1>12, <2>1, <2>2
<1>14. JournalInv
  BY DEF Core
<1>15. CASE MCommit
  <2>1. mpc = "apply" /\ todo = {} /\ Flush /\ EndTx /\ UNCHANGED stream /\ mpc' # "settle"
    BY <1>15 DEF MCommit
  <2> QED  BY <1>14, <2>1, FinalCommitted
<1>16. CASE MFault
  <2>1. EndTx /\ mpc' # "settle"
    BY <1>16, Zenon DEF MFault, FailBatch, Die
  <2>2. stream' = stream
    BY <1>16 DEF MFault, redisVars
  <2>3. CASE UNCHANGED dbVars
    <3>1. UNCHANGED <<rows, processed>>
      BY <2>3 DEF dbVars
    <3> QED  BY <1>12, <2>1, <2>2, <3>1
  <2>4. CASE mpc = "apply" /\ todo = {} /\ Flush
    BY <1>14, <2>1, <2>2, <2>4, FinalCommitted
  <2> QED  BY <1>16, <2>3, <2>4 DEF MFault
<1> QED
  BY <1>1, <1>2, <1>3, <1>4, <1>5, <1>6, <1>7, <1>8, <1>9, <1>10, <1>11, <1>13,
     <1>15, <1>16, Zenon DEF Next

\* A cancellation that has been processed found its order, or came too late:
\* the order is terminal. Behind it are the order in which entries are applied,
\* so that the placement came first, and the Book of the invariant above, so
\* that a live order is found.
THEOREM CancelsAreHonoured == Spec => []CancelIsHonoured
<1>1. Init => CancelInv
  <2> SUFFICES ASSUME Init
               PROVE  CancelInv
    OBVIOUS
  <2>1. /\ DOMAIN rows = {} /\ stream = <<>> /\ DOMAIN stream = {} /\ processed = {}
        /\ cursor = 0 /\ mpc = "poll" /\ origin = "poll" /\ batch = {} /\ todo = {}
    BY NothingFacts DEF Init
  <2>2. EventInv
    BY <2>1 DEF EventInv
  <2>3. OrderInv
    BY <2>1 DEF OrderInv
  <2>4. FinalInv
    BY <2>1 DEF FinalInv
  <2> QED  BY <2>2, <2>3, <2>4 DEF CancelInv
<1>2. ExchangeInv /\ CancelInv /\ [Next]_vars => CancelInv'
  <2> SUFFICES ASSUME ExchangeInv, CancelInv, [Next]_vars
               PROVE  CancelInv'
    OBVIOUS
  <2>1. BaseInv /\ EventInv
    BY DEF ExchangeInv, CancelInv
  <2>2. EventInv'
    BY <2>1, EventStep
  <2>3. ASSUME ~diverged'
        PROVE  OrderInv' /\ FinalInv'
    <3>1. ~diverged
      BY <2>3, DivergedStays, Zenon
    <3>2. Core /\ OrderInv /\ FinalInv
      BY <3>1, CoreSound, Zenon DEF ExchangeInv, CancelInv
    <3> QED  BY <2>1, <2>3, <3>2, OrderStep, FinalStep
  <2> QED  BY <2>2, <2>3, Zenon DEF CancelInv
<1>3. CancelInv => CancelIsHonoured
  BY DEF CancelInv, FinalInv, Final, CancelIsHonoured
<1> QED  BY <1>1, <1>2, <1>3, ExchangeInvariant, PTL DEF Spec
=============================================================================
