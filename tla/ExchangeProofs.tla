---------------------------- MODULE ExchangeProofs ----------------------------
(***************************************************************************)
(* Proofs about Exchange that hold whatever Book the matcher uses: the     *)
(* types of the state, the refinement of Custody and the conservation of   *)
(* what the users hold.                                                    *)
(***************************************************************************)
EXTENDS ExchangeInvariants, TotalsProofs, MatchingEngineProofs

----------------------------------------------------------------------------
(* Facts about the operators *)

LEMMA MergePartial ==
  ASSUME NEW f, NEW g, NEW S, NEW T, PartialFn(f, S, T), PartialFn(g, S, T)
  PROVE  PartialFn(Merge(f, g), S, T)
BY DEF PartialFn, Merge

LEMMA PutPartial ==
  ASSUME NEW f, NEW S, NEW T, PartialFn(f, S, T), NEW k \in S, NEW v \in T
  PROVE  PartialFn(Put(f, k, v), S, T)
<1>1. PartialFn([x \in {k} |-> v], S, T)
  BY DEF PartialFn
<1> QED  BY <1>1, MergePartial DEF Put

\* A fill, accepted or not, leaves a version of the same order.
LEMMA FillKeeps ==
  ASSUME NEW o \in Order, NEW q \in Int
  PROVE  /\ Fill(o, q) \in Order /\ Same(Fill(o, q), o)
         /\ Sane(o) => Sane(Fill(o, q))
         /\ o.status # "CANCELLED" => Fill(o, q).status # "CANCELLED"
         /\ o.filled <= Fill(o, q).filled
<1>1. CASE CanFill(o, q)
  <2>1. o.quantity \in Nat /\ o.filled \in Nat /\ o.filled + q <= o.quantity /\ q > 0
    BY <1>1 DEF CanFill, Remaining, Order, OrderType
  <2> QED  BY <1>1, <2>1, FillFacts DEF Same, Sane
<1>2. CASE ~CanFill(o, q)
  <2>1. Fill(o, q) = o /\ o.filled \in Nat
    BY <1>2 DEF Fill, Order, OrderType
  <2> QED  BY <2>1 DEF Same
<1> QED  BY <1>1, <1>2

\* Order.Cancel too.
LEMMA CancelKeeps ==
  ASSUME NEW o \in Order
  PROVE  /\ CancelOrder(o) \in Order /\ Same(CancelOrder(o), o)
         /\ Sane(o) => Sane(CancelOrder(o))
         /\ CancelOrder(o).filled = o.filled
         /\ IsDone(o) => CancelOrder(o) = o
         /\ IsDone(CancelOrder(o))
<1>1. IsDone(o) => CancelOrder(o) = o
  BY DEF CancelOrder
<1>2. IsDone(CancelOrder(o))
  BY CancelOrderFacts DEF IsDone
<1>3. Sane(o) => Sane(CancelOrder(o))
  BY CancelOrderFacts DEF Sane, IsDone
<1>4. CancelOrder(o) \in Order /\ Same(CancelOrder(o), o) /\ CancelOrder(o).filled = o.filled
  BY CancelOrderFacts DEF Same
<1> QED  BY <1>1, <1>2, <1>3, <1>4

\* The first n of an interval are an interval that starts where it does.
LEMMA FirstOfInterval ==
  ASSUME NEW a \in Nat, NEW b \in Nat, NEW n \in Nat \ {0}
  PROVE  LET F == FirstOf((a + 1)..b, n) IN
         /\ F = (a + 1)..(a + Cardinality(F)) /\ Cardinality(F) \in Nat
         /\ a <= b => a + Cardinality(F) <= b
<1> DEFINE F == FirstOf((a + 1)..b, n)
           m == IF b - a < n THEN b ELSE a + n
<1>1. ASSUME NEW k \in (a + 1)..b
      PROVE  Cardinality({j \in (a + 1)..b : j < k}) = k - a - 1
  <2>1. {j \in (a + 1)..b : j < k} = (a + 1)..(k - 1)
    OBVIOUS
  <2>2. Cardinality((a + 1)..(k - 1)) = k - a - 1
    BY FS_Interval
  <2> QED  BY <2>1, <2>2
<1>2. F = (a + 1)..m
  <2>1. \A k \in (a + 1)..b : k \in F <=> k - a - 1 < n
    BY <1>1 DEF FirstOf
  <2>2. F \subseteq (a + 1)..b
    BY DEF FirstOf
  <2>3. m \in Int /\ \A k \in Int : k \in (a + 1)..m <=> k \in (a + 1)..b /\ k - a - 1 < n
    OBVIOUS
  <2> HIDE DEF F, m
  <2>4. F \subseteq Int /\ (a + 1)..m \subseteq Int
    BY <2>2
  <2>5. \A k \in Int : k \in F <=> k \in (a + 1)..m
    BY <2>1, <2>2, <2>3
  <2> QED  BY <2>4, <2>5
<1>3. Cardinality((a + 1)..m) = IF a + 1 > m THEN 0 ELSE m - a
  BY FS_Interval
<1> HIDE DEF F
<1>4. /\ F = (a + 1)..(a + Cardinality(F)) /\ Cardinality(F) \in Nat
      /\ a <= b => a + Cardinality(F) <= b
  BY <1>2, <1>3
<1> QED  BY <1>4 DEF F

----------------------------------------------------------------------------
(* Wallets *)

\* A wallet by its fields.
W(b, rb, v, rv) ==
  [brl |-> b, reservedBRL |-> rb, vibranium |-> v, reservedVibranium |-> rv]

LEMMA WalletFields ==
  ASSUME NEW w \in Wallet
  PROVE  /\ w = W(w.brl, w.reservedBRL, w.vibranium, w.reservedVibranium)
         /\ w.brl \in Nat /\ w.reservedBRL \in Nat
         /\ w.vibranium \in Nat /\ w.reservedVibranium \in Nat
BY DEF Wallet, W

LEMMA FieldsWallet ==
  ASSUME NEW b \in Nat, NEW rb \in Nat, NEW v \in Nat, NEW rv \in Nat
  PROVE  /\ W(b, rb, v, rv) \in Wallet
         /\ W(b, rb, v, rv).brl = b /\ W(b, rb, v, rv).reservedBRL = rb
         /\ W(b, rb, v, rv).vibranium = v /\ W(b, rb, v, rv).reservedVibranium = rv
BY DEF Wallet, W

\* The same with fields that may be negative, and one field changed.
IntWallet == [brl: Int, reservedBRL: Int, vibranium: Int, reservedVibranium: Int]

LEMMA UpdateFields ==
  ASSUME NEW w \in IntWallet, NEW x \in Int
  PROVE  /\ [w EXCEPT !.brl = x] = W(x, w.reservedBRL, w.vibranium, w.reservedVibranium)
         /\ [w EXCEPT !.reservedBRL = x] = W(w.brl, x, w.vibranium, w.reservedVibranium)
         /\ [w EXCEPT !.vibranium = x] = W(w.brl, w.reservedBRL, x, w.reservedVibranium)
         /\ [w EXCEPT !.reservedVibranium = x] = W(w.brl, w.reservedBRL, w.vibranium, x)
         /\ [w EXCEPT !.brl = x] \in IntWallet
         /\ [w EXCEPT !.reservedBRL = x] \in IntWallet
         /\ [w EXCEPT !.vibranium = x] \in IntWallet
         /\ [w EXCEPT !.reservedVibranium = x] \in IntWallet
BY DEF IntWallet, W

\* The operations, by fields.
LEMMA WalletOperations ==
  ASSUME NEW w \in Wallet, NEW a \in Int
  PROVE  /\ ReserveBRL(w, a)
              = W(w.brl - a, w.reservedBRL + a, w.vibranium, w.reservedVibranium)
         /\ ReserveVibranium(w, a)
              = W(w.brl, w.reservedBRL, w.vibranium - a, w.reservedVibranium + a)
         /\ ReleaseBRL(w, a)
              = W(w.brl + a, w.reservedBRL - a, w.vibranium, w.reservedVibranium)
         /\ ReleaseVibranium(w, a)
              = W(w.brl, w.reservedBRL, w.vibranium + a, w.reservedVibranium - a)
<1>0. /\ w \in IntWallet /\ w.brl - a \in Int /\ w.reservedBRL + a \in Int
      /\ w.vibranium - a \in Int /\ w.reservedVibranium + a \in Int
      /\ w.brl + a \in Int /\ w.reservedBRL - a \in Int
      /\ w.vibranium + a \in Int /\ w.reservedVibranium - a \in Int
  BY DEF Wallet, IntWallet
<1>1. ReserveBRL(w, a)
        = W(w.brl - a, w.reservedBRL + a, w.vibranium, w.reservedVibranium)
  <2> DEFINE m == [w EXCEPT !.brl = w.brl - a]
             n == [m EXCEPT !.reservedBRL = w.reservedBRL + a]
  <2>1. m = W(w.brl - a, w.reservedBRL, w.vibranium, w.reservedVibranium) /\ m \in IntWallet
    BY <1>0, UpdateFields
  <2>2. ReserveBRL(w, a) = n
    BY DEF ReserveBRL, Wallet
  <2> HIDE DEF m
  <2>3. n = W(w.brl - a, w.reservedBRL + a, w.vibranium, w.reservedVibranium)
    BY <1>0, <2>1, UpdateFields DEF W
  <2> QED  BY <2>2, <2>3
<1>2. ReserveVibranium(w, a)
        = W(w.brl, w.reservedBRL, w.vibranium - a, w.reservedVibranium + a)
  <2> DEFINE m == [w EXCEPT !.vibranium = w.vibranium - a]
             n == [m EXCEPT !.reservedVibranium = w.reservedVibranium + a]
  <2>1. m = W(w.brl, w.reservedBRL, w.vibranium - a, w.reservedVibranium) /\ m \in IntWallet
    BY <1>0, UpdateFields
  <2>2. ReserveVibranium(w, a) = n
    BY DEF ReserveVibranium, Wallet
  <2> HIDE DEF m
  <2>3. n = W(w.brl, w.reservedBRL, w.vibranium - a, w.reservedVibranium + a)
    BY <1>0, <2>1, UpdateFields, ZenonT(40) DEF W
  <2> QED  BY <2>2, <2>3
<1>3. ReleaseBRL(w, a)
        = W(w.brl + a, w.reservedBRL - a, w.vibranium, w.reservedVibranium)
  <2> DEFINE m == [w EXCEPT !.reservedBRL = w.reservedBRL - a]
             n == [m EXCEPT !.brl = w.brl + a]
  <2>1. m = W(w.brl, w.reservedBRL - a, w.vibranium, w.reservedVibranium) /\ m \in IntWallet
    BY <1>0, UpdateFields
  <2>2. ReleaseBRL(w, a) = n
    BY DEF ReleaseBRL, Wallet
  <2> HIDE DEF m
  <2>3. n = W(w.brl + a, w.reservedBRL - a, w.vibranium, w.reservedVibranium)
    BY <1>0, <2>1, UpdateFields, ZenonT(40) DEF W
  <2> QED  BY <2>2, <2>3
<1>4. ReleaseVibranium(w, a)
        = W(w.brl, w.reservedBRL, w.vibranium + a, w.reservedVibranium - a)
  <2> DEFINE m == [w EXCEPT !.reservedVibranium = w.reservedVibranium - a]
             n == [m EXCEPT !.vibranium = w.vibranium + a]
  <2>1. m = W(w.brl, w.reservedBRL, w.vibranium, w.reservedVibranium - a) /\ m \in IntWallet
    BY <1>0, UpdateFields
  <2>2. ReleaseVibranium(w, a) = n
    BY DEF ReleaseVibranium, Wallet
  <2> HIDE DEF m
  <2>3. n = W(w.brl, w.reservedBRL, w.vibranium + a, w.reservedVibranium - a)
    BY <1>0, <2>1, UpdateFields, ZenonT(40) DEF W
  <2> QED  BY <2>2, <2>3
<1> QED  BY <1>1, <1>2, <1>3, <1>4

LEMMA SettleOperations ==
  ASSUME NEW w \in Wallet, NEW p \in Int, NEW q \in Int
  PROVE  /\ SettleBuyLimitFill(w, p, q)
              = W(w.brl, w.reservedBRL - p * q, w.vibranium + q, w.reservedVibranium)
         /\ SettleBuyMarketFill(w, p, q)
              = W(w.brl - p * q, w.reservedBRL, w.vibranium + q, w.reservedVibranium)
         /\ SettleSellFill(w, p, q)
              = W(w.brl + p * q, w.reservedBRL, w.vibranium, w.reservedVibranium - q)
<1>0. /\ w \in IntWallet /\ w.brl - p * q \in Int /\ w.reservedBRL - p * q \in Int
      /\ w.brl + p * q \in Int /\ w.reservedVibranium - q \in Int
      /\ w.vibranium + q \in Int
  BY DEF Wallet, IntWallet
<1>1. SettleBuyLimitFill(w, p, q)
        = W(w.brl, w.reservedBRL - p * q, w.vibranium + q, w.reservedVibranium)
  <2> DEFINE m == [w EXCEPT !.reservedBRL = w.reservedBRL - p * q]
             n == [m EXCEPT !.vibranium = w.vibranium + q]
  <2>1. m = W(w.brl, w.reservedBRL - p * q, w.vibranium, w.reservedVibranium) /\ m \in IntWallet
    BY <1>0, UpdateFields
  <2>2. SettleBuyLimitFill(w, p, q) = n
    BY DEF SettleBuyLimitFill, Wallet
  <2> HIDE DEF m
  <2>3. n = W(w.brl, w.reservedBRL - p * q, w.vibranium + q, w.reservedVibranium)
    BY <1>0, <2>1, UpdateFields DEF W
  <2> QED  BY <2>2, <2>3
<1>2. SettleBuyMarketFill(w, p, q)
        = W(w.brl - p * q, w.reservedBRL, w.vibranium + q, w.reservedVibranium)
  <2> DEFINE m == [w EXCEPT !.brl = w.brl - p * q]
             n == [m EXCEPT !.vibranium = w.vibranium + q]
  <2>1. m = W(w.brl - p * q, w.reservedBRL, w.vibranium, w.reservedVibranium) /\ m \in IntWallet
    BY <1>0, UpdateFields
  <2>2. SettleBuyMarketFill(w, p, q) = n
    BY DEF SettleBuyMarketFill, Wallet
  <2> HIDE DEF m
  <2>3. n = W(w.brl - p * q, w.reservedBRL, w.vibranium + q, w.reservedVibranium)
    BY <1>0, <2>1, UpdateFields, ZenonT(40) DEF W
  <2> QED  BY <2>2, <2>3
<1>3. SettleSellFill(w, p, q)
        = W(w.brl + p * q, w.reservedBRL, w.vibranium, w.reservedVibranium - q)
  <2> DEFINE m == [w EXCEPT !.reservedVibranium = w.reservedVibranium - q]
             n == [m EXCEPT !.brl = w.brl + p * q]
  <2>1. m = W(w.brl, w.reservedBRL, w.vibranium, w.reservedVibranium - q) /\ m \in IntWallet
    BY <1>0, UpdateFields
  <2>2. SettleSellFill(w, p, q) = n
    BY DEF SettleSellFill, Wallet
  <2> HIDE DEF m
  <2>3. n = W(w.brl + p * q, w.reservedBRL, w.vibranium, w.reservedVibranium - q)
    BY <1>0, <2>1, UpdateFields, ZenonT(40) DEF W
  <2> QED  BY <2>2, <2>3
<1> QED  BY <1>1, <1>2, <1>3

LEMMA HoldingFields ==
  ASSUME NEW w
  PROVE  /\ Holding(w).brl = w.brl + w.reservedBRL
         /\ Holding(w).vibranium = w.vibranium + w.reservedVibranium
         /\ Holding(w)["brl"] = w.brl + w.reservedBRL
         /\ Holding(w)["vibranium"] = w.vibranium + w.reservedVibranium
BY DEF Holding

\* A reservation of BRL moves it, and never below zero.
LEMMA ReserveBRLKeeps ==
  ASSUME NEW w \in Wallet, NEW a \in Int, CanReserveBRL(w, a)
  PROVE  /\ ReserveBRL(w, a) \in Wallet /\ Holding(ReserveBRL(w, a)) = Holding(w)
         /\ ReserveBRL(w, a).reservedBRL = w.reservedBRL + a
         /\ ReserveBRL(w, a).reservedVibranium = w.reservedVibranium
<1>1. /\ w = W(w.brl, w.reservedBRL, w.vibranium, w.reservedVibranium)
      /\ w.brl \in Nat /\ w.reservedBRL \in Nat
      /\ w.vibranium \in Nat /\ w.reservedVibranium \in Nat
  BY WalletFields
<1>2. a > 0 /\ w.brl - w.reservedBRL >= a
  BY DEF CanReserveBRL, AvailableBRL
<1>3. w.brl - a \in Nat /\ w.reservedBRL + a \in Nat
  BY <1>1, <1>2
<1>4. ReserveBRL(w, a) = W(w.brl - a, w.reservedBRL + a, w.vibranium, w.reservedVibranium)
  BY <1>1, WalletOperations
<1>5. (w.brl - a) + (w.reservedBRL + a) = w.brl + w.reservedBRL
  BY <1>1
<1>6. /\ ReserveBRL(w, a) \in Wallet
      /\ ReserveBRL(w, a).brl = w.brl - a /\ ReserveBRL(w, a).reservedBRL = w.reservedBRL + a
      /\ ReserveBRL(w, a).vibranium = w.vibranium
      /\ ReserveBRL(w, a).reservedVibranium = w.reservedVibranium
  BY <1>1, <1>3, <1>4, <1>5 DEF W, Wallet
<1>7. Holding(ReserveBRL(w, a)) = Holding(w)
  BY <1>1, <1>3, <1>4, <1>5, <1>6 DEF Holding
<1> QED  BY <1>6, <1>7

LEMMA ReserveVibraniumKeeps ==
  ASSUME NEW w \in Wallet, NEW a \in Int, CanReserveVibranium(w, a)
  PROVE  /\ ReserveVibranium(w, a) \in Wallet
         /\ Holding(ReserveVibranium(w, a)) = Holding(w)
         /\ ReserveVibranium(w, a).reservedBRL = w.reservedBRL
         /\ ReserveVibranium(w, a).reservedVibranium = w.reservedVibranium + a
<1>1. /\ w = W(w.brl, w.reservedBRL, w.vibranium, w.reservedVibranium)
      /\ w.brl \in Nat /\ w.reservedBRL \in Nat
      /\ w.vibranium \in Nat /\ w.reservedVibranium \in Nat
  BY WalletFields
<1>2. a > 0 /\ w.vibranium - w.reservedVibranium >= a
  BY DEF CanReserveVibranium, AvailableVibranium
<1>3. w.vibranium - a \in Nat /\ w.reservedVibranium + a \in Nat
  BY <1>1, <1>2
<1>4. ReserveVibranium(w, a)
        = W(w.brl, w.reservedBRL, w.vibranium - a, w.reservedVibranium + a)
  BY <1>1, WalletOperations
<1>5. (w.vibranium - a) + (w.reservedVibranium + a) = w.vibranium + w.reservedVibranium
  BY <1>1
<1>6. /\ ReserveVibranium(w, a) \in Wallet
      /\ ReserveVibranium(w, a).brl = w.brl /\ ReserveVibranium(w, a).reservedBRL = w.reservedBRL
      /\ ReserveVibranium(w, a).vibranium = w.vibranium - a
      /\ ReserveVibranium(w, a).reservedVibranium = w.reservedVibranium + a
  BY <1>1, <1>3, <1>4, <1>5 DEF W, Wallet
<1>7. Holding(ReserveVibranium(w, a)) = Holding(w)
  BY <1>1, <1>3, <1>4, <1>5, <1>6 DEF Holding
<1> QED  BY <1>6, <1>7

LEMMA ReleaseBRLKeeps ==
  ASSUME NEW w \in Wallet, NEW a \in Nat, a <= w.reservedBRL
  PROVE  /\ ReleaseBRL(w, a) \in Wallet /\ Holding(ReleaseBRL(w, a)) = Holding(w)
         /\ ReleaseBRL(w, a).reservedBRL = w.reservedBRL - a
         /\ ReleaseBRL(w, a).reservedVibranium = w.reservedVibranium
         /\ ReleaseBRL(w, a).brl = w.brl + a
         /\ ReleaseBRL(w, a).vibranium = w.vibranium
<1>1. /\ w = W(w.brl, w.reservedBRL, w.vibranium, w.reservedVibranium)
      /\ w.brl \in Nat /\ w.reservedBRL \in Nat
      /\ w.vibranium \in Nat /\ w.reservedVibranium \in Nat
  BY WalletFields
<1>2. w.brl + a \in Nat /\ w.reservedBRL - a \in Nat
  BY <1>1
<1>3. ReleaseBRL(w, a) = W(w.brl + a, w.reservedBRL - a, w.vibranium, w.reservedVibranium)
  BY <1>1, WalletOperations
<1>4. (w.brl + a) + (w.reservedBRL - a) = w.brl + w.reservedBRL
  BY <1>1
<1>6. /\ ReleaseBRL(w, a) \in Wallet
      /\ ReleaseBRL(w, a).brl = w.brl + a /\ ReleaseBRL(w, a).reservedBRL = w.reservedBRL - a
      /\ ReleaseBRL(w, a).vibranium = w.vibranium
      /\ ReleaseBRL(w, a).reservedVibranium = w.reservedVibranium
  BY <1>1, <1>2, <1>3, <1>4 DEF W, Wallet
<1>7. Holding(ReleaseBRL(w, a)) = Holding(w)
  BY <1>1, <1>2, <1>3, <1>4, <1>6 DEF Holding
<1> QED  BY <1>6, <1>7

LEMMA ReleaseVibraniumKeeps ==
  ASSUME NEW w \in Wallet, NEW a \in Nat, a <= w.reservedVibranium
  PROVE  /\ ReleaseVibranium(w, a) \in Wallet
         /\ Holding(ReleaseVibranium(w, a)) = Holding(w)
         /\ ReleaseVibranium(w, a).brl = w.brl
         /\ ReleaseVibranium(w, a).reservedBRL = w.reservedBRL
         /\ ReleaseVibranium(w, a).reservedVibranium = w.reservedVibranium - a
<1>1. /\ w = W(w.brl, w.reservedBRL, w.vibranium, w.reservedVibranium)
      /\ w.brl \in Nat /\ w.reservedBRL \in Nat
      /\ w.vibranium \in Nat /\ w.reservedVibranium \in Nat
  BY WalletFields
<1>2. w.vibranium + a \in Nat /\ w.reservedVibranium - a \in Nat
  BY <1>1
<1>3. ReleaseVibranium(w, a)
        = W(w.brl, w.reservedBRL, w.vibranium + a, w.reservedVibranium - a)
  BY <1>1, WalletOperations
<1>4. (w.vibranium + a) + (w.reservedVibranium - a) = w.vibranium + w.reservedVibranium
  BY <1>1
<1>6. /\ ReleaseVibranium(w, a) \in Wallet
      /\ ReleaseVibranium(w, a).brl = w.brl /\ ReleaseVibranium(w, a).reservedBRL = w.reservedBRL
      /\ ReleaseVibranium(w, a).vibranium = w.vibranium + a
      /\ ReleaseVibranium(w, a).reservedVibranium = w.reservedVibranium - a
  BY <1>1, <1>2, <1>3, <1>4 DEF W, Wallet
<1>7. Holding(ReleaseVibranium(w, a)) = Holding(w)
  BY <1>1, <1>2, <1>3, <1>4, <1>6 DEF Holding
<1> QED  BY <1>6, <1>7

\* What the orders may cost and have left are integers.
LEMMA OrderAmounts ==
  ASSUME NEW o \in Order
  PROVE  /\ o.price \in Nat /\ o.quantity \in Nat \ {0} /\ o.filled \in Nat
         /\ Remaining(o) \in Int
         /\ o.price * o.quantity \in Nat /\ o.price * Remaining(o) \in Int
<1>0. Prices \cup {NoPrice} \subseteq Nat
  BY PricesAssumption DEF NoPrice
<1>1. /\ o.price \in Nat /\ o.quantity \in Nat \ {0} /\ o.filled \in Nat
      /\ Remaining(o) \in Int
  BY <1>0 DEF Order, OrderType, Remaining
<1>2. \A a \in Nat, c \in Nat : a * c \in Nat
  OBVIOUS
<1>3. \A a \in Nat, c \in Int : a * c \in Int
  OBVIOUS
<1> QED  BY <1>1, <1>2, <1>3

\* Place and the matcher's releases move assets within a wallet.
LEMMA ReserveKeeps ==
  ASSUME NEW w \in Wallet, NEW o \in Order, CanReserve(w, o)
  PROVE  Reserve(w, o) \in Wallet /\ Holding(Reserve(w, o)) = Holding(w)
<1>1. o.quantity \in Int /\ o.price * o.quantity \in Int
  BY OrderAmounts
<1>2. CASE o.side = "SELL"
  <2>1. CanReserveVibranium(w, o.quantity) /\ Reserve(w, o) = ReserveVibranium(w, o.quantity)
    BY <1>2 DEF CanReserve, Reserve, IsBuyMarket
  <2> QED  BY <1>1, <2>1, ReserveVibraniumKeeps
<1>3. CASE IsBuyMarket(o)
  BY <1>3 DEF Reserve, IsBuyMarket
<1>4. CASE o.side # "SELL" /\ ~IsBuyMarket(o)
  <2>1. /\ CanReserveBRL(w, o.price * o.quantity)
        /\ Reserve(w, o) = ReserveBRL(w, o.price * o.quantity)
    BY <1>4 DEF CanReserve, Reserve
  <2> QED  BY <1>1, <2>1, ReserveBRLKeeps
<1> QED  BY <1>2, <1>3, <1>4

LEMMA ReleaseKeeps ==
  ASSUME NEW w \in Wallet, NEW o \in Order, CanRelease(w, o)
  PROVE  Release(w, o) \in Wallet /\ Holding(Release(w, o)) = Holding(w)
<1>1. Remaining(o) \in Int /\ o.price * Remaining(o) \in Int
  BY OrderAmounts
<1>2. CASE o.side = "BUY"
  <2>1. /\ o.price * Remaining(o) > 0 /\ o.price * Remaining(o) <= w.reservedBRL
        /\ Release(w, o) = ReleaseBRL(w, o.price * Remaining(o))
    BY <1>2 DEF CanRelease, Release, CanReleaseBRL
  <2> QED  BY <1>1, <2>1, ReleaseBRLKeeps
<1>3. CASE o.side # "BUY"
  <2>1. /\ Remaining(o) > 0 /\ Remaining(o) <= w.reservedVibranium
        /\ Release(w, o) = ReleaseVibranium(w, Remaining(o))
    BY <1>3 DEF CanRelease, Release, CanReleaseVibranium
  <2> QED  BY <1>1, <2>1, ReleaseVibraniumKeeps
<1> QED  BY <1>2, <1>3

\* What the improvement of a trade releases.
Released(tr) == IF Improvement(tr) > 0 THEN Improvement(tr) ELSE 0

\* The buyer's part of a settlement: what he pays leaves his balance or his
\* reservation, which also gives the improvement back to the balance.
LEMMA SettleBuyerFacts ==
  ASSUME NEW w \in Wallet, NEW tr \in Trade, Taker \in Order,
         CanSettleBuyer(w, tr)
  PROVE  LET n == SettleBuyer(w, tr)
             c == tr.price * tr.qty IN
         /\ n \in Wallet /\ tr.qty > 0 /\ c \in Nat /\ Released(tr) \in Nat
         /\ n.vibranium = w.vibranium + tr.qty
         /\ n.reservedVibranium = w.reservedVibranium
         /\ IsBuyMarket(Taker) => /\ n.brl = w.brl - c
                                  /\ n.reservedBRL = w.reservedBRL
                                  /\ c <= w.brl
         /\ ~IsBuyMarket(Taker) =>
              /\ n.brl = w.brl + Released(tr)
              /\ n.reservedBRL = w.reservedBRL - c - Released(tr)
              /\ c <= w.reservedBRL
<1> DEFINE c == tr.price * tr.qty
<1>1. tr.price \in Nat \ {0} /\ tr.qty \in Int
  BY PricesAssumption DEF Trade
<1>2. tr.qty > 0
  BY DEF CanSettleBuyer, CanSettleBuyMarketFill, CanSettleBuyLimitFill
<1>3. c \in Nat
  <2>1. \A x \in Nat, y \in Nat : x * y \in Nat
    OBVIOUS
  <2> QED  BY <1>1, <1>2, <2>1
<1>4. Improvement(tr) \in Int /\ Released(tr) \in Nat
  <2>1. Taker.price \in Nat
    BY OrderAmounts
  <2>2. (Taker.price - tr.price) * tr.qty \in Int
    BY <1>1, <2>1
  <2> QED  BY <2>2 DEF Improvement, Released
<1>5. /\ w.brl \in Nat /\ w.reservedBRL \in Nat
      /\ w.vibranium \in Nat /\ w.reservedVibranium \in Nat
  BY WalletFields
<1>6. CASE IsBuyMarket(Taker)
  <2>1. c <= w.brl /\ SettleBuyer(w, tr) = SettleBuyMarketFill(w, tr.price, tr.qty)
    BY <1>6 DEF CanSettleBuyer, CanSettleBuyMarketFill, SettleBuyer
  <2>2. SettleBuyer(w, tr)
          = W(w.brl - c, w.reservedBRL, w.vibranium + tr.qty, w.reservedVibranium)
    BY <1>1, <2>1, SettleOperations
  <2> HIDE DEF c
  <2>3. w.brl - c \in Nat /\ w.vibranium + tr.qty \in Nat
    BY <1>1, <1>2, <1>3, <1>5, <2>1
  <2>4. /\ SettleBuyer(w, tr) \in Wallet /\ SettleBuyer(w, tr).brl = w.brl - c
        /\ SettleBuyer(w, tr).reservedBRL = w.reservedBRL
        /\ SettleBuyer(w, tr).vibranium = w.vibranium + tr.qty
        /\ SettleBuyer(w, tr).reservedVibranium = w.reservedVibranium
    BY <1>5, <2>2, <2>3 DEF W, Wallet
  <2> QED  BY <1>2, <1>3, <1>4, <1>6, <2>1, <2>4 DEF c
<1>7. CASE ~IsBuyMarket(Taker)
  <2> DEFINE m == SettleBuyLimitFill(w, tr.price, tr.qty)
  <2>1. /\ c <= w.reservedBRL /\ SettleBuyer(w, tr) = ReleaseBRL(m, Released(tr))
        /\ Improvement(tr) > 0 => CanReleaseBRL(m, Improvement(tr))
    BY <1>7 DEF CanSettleBuyer, CanSettleBuyLimitFill, SettleBuyer, Released
  <2>2. m = W(w.brl, w.reservedBRL - c, w.vibranium + tr.qty, w.reservedVibranium)
    BY <1>1, SettleOperations
  <2> HIDE DEF c, m
  <2>3. w.reservedBRL - c \in Nat /\ w.vibranium + tr.qty \in Nat
    BY <1>1, <1>2, <1>3, <1>5, <2>1
  <2>4. /\ m \in Wallet /\ m.brl = w.brl
        /\ m.reservedBRL = w.reservedBRL - c
        /\ m.vibranium = w.vibranium + tr.qty
        /\ m.reservedVibranium = w.reservedVibranium
    BY <1>5, <2>2, <2>3 DEF W, Wallet
  <2>5. Released(tr) <= m.reservedBRL
    BY <1>4, <2>1, <2>3, <2>4 DEF Released, CanReleaseBRL
  <2>6. LET n == ReleaseBRL(m, Released(tr)) IN
        /\ n \in Wallet /\ n.brl = m.brl + Released(tr) /\ n.vibranium = m.vibranium
        /\ n.reservedBRL = m.reservedBRL - Released(tr)
        /\ n.reservedVibranium = m.reservedVibranium
    BY <1>4, <2>4, <2>5, ReleaseBRLKeeps
  <2> QED  BY <1>2, <1>3, <1>4, <1>7, <2>1, <2>4, <2>6 DEF c
<1> QED  BY <1>6, <1>7

LEMMA SettleSellerFacts ==
  ASSUME NEW w \in Wallet, NEW p \in Nat, NEW q \in Int, CanSettleSellFill(w, p, q)
  PROVE  LET n == SettleSellFill(w, p, q) IN
         /\ n \in Wallet /\ n.brl = w.brl + p * q /\ n.reservedBRL = w.reservedBRL
         /\ n.vibranium = w.vibranium /\ n.reservedVibranium = w.reservedVibranium - q
<1> DEFINE c == p * q
<1>1. q > 0 /\ q <= w.reservedVibranium
  BY DEF CanSettleSellFill
<1>2. c \in Nat
  <2>1. \A x \in Nat, y \in Nat : x * y \in Nat
    OBVIOUS
  <2> QED  BY <1>1, <2>1
<1>3. /\ w.brl \in Nat /\ w.reservedBRL \in Nat
      /\ w.vibranium \in Nat /\ w.reservedVibranium \in Nat
  BY WalletFields
<1>4. SettleSellFill(w, p, q)
        = W(w.brl + c, w.reservedBRL, w.vibranium, w.reservedVibranium - q)
  BY SettleOperations
<1> HIDE DEF c
<1>5. w.brl + c \in Nat /\ w.reservedVibranium - q \in Nat
  BY <1>1, <1>2, <1>3
<1>6. LET n == SettleSellFill(w, p, q) IN
      /\ n \in Wallet /\ n.brl = w.brl + c /\ n.reservedBRL = w.reservedBRL
      /\ n.vibranium = w.vibranium /\ n.reservedVibranium = w.reservedVibranium - q
  BY <1>3, <1>4, <1>5 DEF W, Wallet
<1> QED  BY <1>6 DEF c

----------------------------------------------------------------------------
(* What the invariant says of the parts of a state *)

LEMMA ViewType ==
  ASSUME BaseInv, NEW u \in Users
  PROVE  View(u) \in Wallet /\ wallets[u] \in Wallet
BY DEF BaseInv, TypeOK, PartialFn, View

\* An object is an order of its own id, and has its row's contents.
LEMMA ObjectFacts ==
  ASSUME BaseInv, NEW r \in DOMAIN obj
  PROVE  /\ r \in Refs /\ r[1] \in Ids /\ r[1] \in DOMAIN rows
         /\ obj[r] \in Order /\ obj[r].id = r[1] /\ obj[r].user \in Users
         /\ obj[r].side \in Sides /\ obj[r].type \in Types
         /\ obj[r].quantity <= MaxQty
         /\ rows[r[1]] \in Order /\ Same(obj[r], rows[r[1]])
         /\ obj[r].type = "LIMIT" => obj[r].price \in Prices
         /\ obj[r].type = "MARKET" => obj[r].price = NoPrice
<1>1. r \in Refs /\ obj[r] \in Order
  BY DEF BaseInv, TypeOK, PartialFn
<1>2. r[1] \in Ids
  BY <1>1, ObjectsAssumption
<1>3. r[1] \in DOMAIN rows /\ Same(obj[r], rows[r[1]])
  BY DEF BaseInv, RowInv
<1>4. /\ rows[r[1]].id = r[1] /\ rows[r[1]].quantity <= MaxQty
      /\ rows[r[1]].type = "LIMIT" => rows[r[1]].price \in Prices
      /\ rows[r[1]].type = "MARKET" => rows[r[1]].price = NoPrice
  BY <1>3 DEF BaseInv, RowInv
<1>5. rows[r[1]] \in Order
  BY <1>3 DEF BaseInv, TypeOK, PartialFn
<1>6. obj[r].user \in Users /\ obj[r].side \in Sides /\ obj[r].type \in Types
  BY <1>1 DEF Order, OrderType
<1> QED  BY <1>1, <1>2, <1>3, <1>4, <1>5, <1>6 DEF Same

LEMMA RowFacts ==
  ASSUME BaseInv, NEW id \in DOMAIN rows
  PROVE  /\ id \in Ids /\ rows[id] \in Order /\ rows[id].id = id
         /\ rows[id].user \in Users /\ rows[id].quantity <= MaxQty
<1>1. id \in Ids /\ rows[id] \in Order
  BY DEF BaseInv, TypeOK, PartialFn
<1>2. rows[id].user \in Users
  BY <1>1 DEF Order, OrderType
<1> QED  BY <1>1, <1>2 DEF BaseInv, RowInv

LEMMA TakerFacts ==
  ASSUME BaseInv, mpc \in {"match", "settle"}
  PROVE  result.incoming \in DOMAIN obj /\ Taker \in Order /\ Taker.user \in Users
<1>1. result.incoming \in DOMAIN obj
  BY DEF BaseInv, PhaseInv
<1> QED  BY <1>1, ObjectFacts DEF Taker

\* The trade to settle next.
LEMMA HeadFacts ==
  ASSUME BaseInv, mpc = "settle", unsettled # <<>>
  PROVE  LET tr == Head(unsettled)
             k  == Len(result.trades) - Len(unsettled) + 1 IN
         /\ tr \in Trade /\ tr.buy \in DOMAIN obj /\ tr.sell \in DOMAIN obj
         /\ tr.price \in Prices /\ tr.price \in Nat \ {0}
         /\ tr.qty \in Int /\ tr.qty <= MaxQty
         /\ obj[tr.buy].user \in Users /\ obj[tr.sell].user \in Users
         /\ k \in DOMAIN result.trades /\ tr = result.trades[k]
         /\ Settled = 1..(k - 1)
         /\ Tail(unsettled) \in Seq(Trade) /\ Len(Tail(unsettled)) = Len(unsettled) - 1
         /\ \A j \in DOMAIN Tail(unsettled) : Tail(unsettled)[j] = unsettled[j + 1]
<1> DEFINE tr == Head(unsettled)
           k  == Len(result.trades) - Len(unsettled) + 1
<1>1. unsettled \in Seq(Trade) /\ result.trades \in Seq(Trade)
  BY DEF BaseInv, TypeOK, MatchResult
<1>2. /\ Len(unsettled) \in Nat \ {0} /\ 1 \in DOMAIN unsettled
      /\ tr = unsettled[1] /\ tr \in Trade
      /\ DOMAIN result.trades = 1..Len(result.trades) /\ Len(result.trades) \in Nat
  BY <1>1
<1>3. k \in DOMAIN result.trades /\ tr = result.trades[k]
  BY <1>2 DEF BaseInv, HeapInv
<1>4. tr.buy \in DOMAIN obj /\ tr.sell \in DOMAIN obj /\ tr.qty <= MaxQty
  BY <1>3 DEF BaseInv, HeapInv
<1>5. obj[tr.buy].user \in Users /\ obj[tr.sell].user \in Users
  BY <1>4, ObjectFacts
<1>6. tr.price \in Prices /\ tr.price \in Nat \ {0} /\ tr.qty \in Int
  BY <1>2, PricesAssumption DEF Trade
<1>7. Settled = 1..(k - 1)
  BY <1>2 DEF Settled
<1>8. /\ Tail(unsettled) \in Seq(Trade) /\ Len(Tail(unsettled)) = Len(unsettled) - 1
      /\ \A j \in DOMAIN Tail(unsettled) : Tail(unsettled)[j] = unsettled[j + 1]
  BY <1>1
<1> QED  BY <1>2, <1>3, <1>4, <1>5, <1>6, <1>7, <1>8

\* What the settlement of a trade does to the wallets.
LEMMA SettleTradeFacts ==
  ASSUME BaseInv, SettleTrade
  PROVE  LET tr == Head(unsettled)
             b  == obj[tr.buy].user
             s  == obj[tr.sell].user
             c  == tr.price * tr.qty IN
         /\ tr.qty \in 1..MaxQty /\ c \in Nat /\ Released(tr) \in Nat
         /\ PartialFn(cache', Users, Wallet)
         /\ c <= Holding(View(b)).brl /\ tr.qty <= Holding(View(s)).vibranium
         /\ \A u \in Users :
              /\ View(u)'.brl = View(u).brl + (IF u = s THEN c ELSE 0)
                   + (IF u = b THEN (IF IsBuyMarket(Taker) THEN -c ELSE Released(tr))
                               ELSE 0)
              /\ View(u)'.reservedBRL = View(u).reservedBRL
                   - (IF u = b /\ ~IsBuyMarket(Taker) THEN c + Released(tr) ELSE 0)
              /\ View(u)'.vibranium = View(u).vibranium + (IF u = b THEN tr.qty ELSE 0)
              /\ View(u)'.reservedVibranium = View(u).reservedVibranium
                   - (IF u = s THEN tr.qty ELSE 0)
<1> DEFINE tr == Head(unsettled)
           b  == obj[tr.buy].user
           s  == obj[tr.sell].user
           c  == tr.price * tr.qty
           new == [BuyerSettled(tr) EXCEPT ![s] = SettleSellFill(@, tr.price, tr.qty)]
<1>1. /\ mpc = "settle" /\ unsettled # <<>> /\ CanSettle(tr)
      /\ cache' = Merge(cache, new) /\ UNCHANGED <<wallets, obj>>
  BY DEF SettleTrade, dbVars, engineVars
<1>2. /\ tr \in Trade /\ tr.price \in Nat \ {0} /\ tr.qty \in Int /\ tr.qty <= MaxQty
      /\ b \in Users /\ s \in Users
  BY <1>1, HeadFacts
<1>3. Taker \in Order
  BY <1>1, TakerFacts
<1>4. View(b) \in Wallet /\ View(s) \in Wallet
  BY <1>2, ViewType
<1>5. CanSettleBuyer(View(b), tr) /\ CanSettleSellFill(BuyerSettled(tr)[s], tr.price, tr.qty)
  BY <1>1 DEF CanSettle
<1> HIDE DEF tr, b, s
<1> DEFINE n == SettleBuyer(View(b), tr)
<1>6. /\ n \in Wallet /\ tr.qty > 0 /\ c \in Nat /\ Released(tr) \in Nat
      /\ n.vibranium = View(b).vibranium + tr.qty
      /\ n.reservedVibranium = View(b).reservedVibranium
      /\ IsBuyMarket(Taker) => /\ n.brl = View(b).brl - c
                               /\ n.reservedBRL = View(b).reservedBRL
                               /\ c <= View(b).brl
      /\ ~IsBuyMarket(Taker) =>
           /\ n.brl = View(b).brl + Released(tr)
           /\ n.reservedBRL = View(b).reservedBRL - c - Released(tr)
           /\ c <= View(b).reservedBRL
  BY <1>2, <1>3, <1>4, <1>5, SettleBuyerFacts
<1>7. BuyerSettled(tr) = [u \in {b, s} |-> IF u = b THEN n ELSE View(u)]
  BY DEF BuyerSettled, b, s
<1> HIDE DEF n
<1> DEFINE m == IF s = b THEN n ELSE View(s)
           z == SettleSellFill(m, tr.price, tr.qty)
<1>8. BuyerSettled(tr)[s] = m /\ m \in Wallet
  BY <1>4, <1>6, <1>7
<1>9. tr.qty <= m.reservedVibranium
  BY <1>5, <1>8 DEF CanSettleSellFill
<1>10. /\ z \in Wallet /\ z.brl = m.brl + c /\ z.reservedBRL = m.reservedBRL
       /\ z.vibranium = m.vibranium /\ z.reservedVibranium = m.reservedVibranium - tr.qty
  BY <1>2, <1>5, <1>8, SettleSellerFacts
<1>11. new = [u \in {b, s} |-> IF u = s THEN z ELSE n]
  BY <1>7, <1>8
<1> HIDE DEF new, z, c
<1>12. \A u \in Users : View(u)' = IF u = s THEN z ELSE IF u = b THEN n ELSE View(u)
  <2>1. /\ DOMAIN cache' = DOMAIN cache \cup {b, s}
        /\ \A u \in {b, s} : cache'[u] = new[u]
        /\ \A u \in DOMAIN cache \ {b, s} : cache'[u] = cache[u]
    <3>1. DOMAIN new = {b, s}
      BY <1>11
    <3> QED  BY <1>1, <3>1 DEF Merge
  <2> QED  BY <1>1, <1>11, <2>1 DEF View
<1>13. PartialFn(cache', Users, Wallet)
  <2>1. PartialFn(new, Users, Wallet)
    BY <1>2, <1>6, <1>10, <1>11 DEF PartialFn
  <2>2. PartialFn(cache, Users, Wallet)
    BY DEF BaseInv, TypeOK
  <2> QED  BY <1>1, <2>1, <2>2, MergePartial
<1>14. /\ View(b).brl \in Nat /\ View(b).reservedBRL \in Nat
       /\ View(b).vibranium \in Nat /\ View(b).reservedVibranium \in Nat
       /\ View(s).brl \in Nat /\ View(s).reservedBRL \in Nat
       /\ View(s).vibranium \in Nat /\ View(s).reservedVibranium \in Nat
  BY <1>4, WalletFields
<1>15. c <= Holding(View(b)).brl /\ tr.qty <= Holding(View(s)).vibranium
  BY <1>2, <1>6, <1>9, <1>14, HoldingFields
<1>16. ASSUME NEW u \in Users
       PROVE  /\ View(u)'.brl = View(u).brl + (IF u = s THEN c ELSE 0)
                   + (IF u = b THEN (IF IsBuyMarket(Taker) THEN -c ELSE Released(tr))
                               ELSE 0)
              /\ View(u)'.reservedBRL = View(u).reservedBRL
                   - (IF u = b /\ ~IsBuyMarket(Taker) THEN c + Released(tr) ELSE 0)
              /\ View(u)'.vibranium = View(u).vibranium + (IF u = b THEN tr.qty ELSE 0)
              /\ View(u)'.reservedVibranium = View(u).reservedVibranium
                   - (IF u = s THEN tr.qty ELSE 0)
  <2>1. /\ View(u).brl \in Nat /\ View(u).reservedBRL \in Nat
        /\ View(u).vibranium \in Nat /\ View(u).reservedVibranium \in Nat
    BY ViewType, WalletFields
  <2>2. CASE u = s /\ u = b
    BY <1>2, <1>6, <1>10, <1>12, <2>1, <2>2
  <2>3. CASE u = s /\ u # b
    BY <1>2, <1>6, <1>10, <1>12, <2>1, <2>3
  <2>4. CASE u # s /\ u = b
    BY <1>2, <1>6, <1>12, <2>1, <2>4
  <2>5. CASE u # s /\ u # b
    BY <1>12, <2>1, <2>5
  <2> QED  BY <2>2, <2>3, <2>4, <2>5
<1>17. tr.qty \in 1..MaxQty
  BY <1>2, <1>6, BoundsAssumption
<1> QED  BY <1>6, <1>13, <1>15, <1>16, <1>17, Zenon DEF tr, b, s, c

----------------------------------------------------------------------------
(* Steps of the engine *)

\* The Book of the next state leads to objects of this one.
BookKept ==
  /\ book' \in [Sides -> [Prices -> Seq(Refs)]]
  /\ \A s \in Sides, p \in Prices : \A i \in DOMAIN book'[s][p] :
       book'[s][p][i] \in DOMAIN obj
  /\ PartialFn(locations', Ids, Refs)
  /\ \A x \in DOMAIN locations' : locations'[x] \in DOMAIN obj /\ locations'[x][1] = x

\* The objects of the next state are versions of those of this one.
ObjectsKept ==
  /\ PartialFn(obj', Refs, Order) /\ DOMAIN obj' = DOMAIN obj
  /\ \A r \in DOMAIN obj : Same(obj'[r], obj[r]) /\ Sane(obj'[r])

LEMMA UnchangedBook ==
  ASSUME BaseInv, UNCHANGED <<book, locations>>
  PROVE  BookKept
BY DEF BaseInv, TypeOK, HeapInv, BookKept

LEMMA UnchangedObjects ==
  ASSUME BaseInv, UNCHANGED obj
  PROVE  ObjectsKept
BY DEF BaseInv, TypeOK, RowInv, ObjectsKept, PartialFn, Same

\* removeFront, wherever it is told to look.
LEMMA RemoveFrontBook ==
  ASSUME BaseInv, NEW id, NEW side, NEW price, RemoveFront(id, side, price)
  PROVE  BookKept
<1>1. CASE id \notin DOMAIN locations
  BY <1>1, UnchangedBook DEF RemoveFront
<1>2. CASE id \in DOMAIN locations
  <2>1. /\ book' = [book EXCEPT ![side][price] = RemoveElem(@, locations[id])]
        /\ locations' = [x \in DOMAIN locations \ {id} |-> locations[x]]
    BY <1>2 DEF RemoveFront
  <2>2. /\ book \in [Sides -> [Prices -> Seq(Refs)]]
        /\ \A s \in Sides, p \in Prices : \A i \in DOMAIN book[s][p] :
             book[s][p][i] \in DOMAIN obj
        /\ PartialFn(locations, Ids, Refs)
        /\ \A x \in DOMAIN locations : locations[x] \in DOMAIN obj /\ locations[x][1] = x
    BY DEF BaseInv, TypeOK, HeapInv
  <2>3. /\ PartialFn(locations', Ids, Refs)
        /\ \A x \in DOMAIN locations' : locations'[x] \in DOMAIN obj /\ locations'[x][1] = x
    BY <2>1, <2>2 DEF PartialFn
  <2>4. CASE side \in Sides /\ price \in Prices
    <3> DEFINE t == RemoveElem(book[side][price], locations[id])
    <3>1. t \in Seq(Refs) /\ \A j \in DOMAIN t : \E k \in DOMAIN book[side][price] :
                               t[j] = book[side][price][k]
      BY <2>2, <2>4, RemoveElemType
    <3>2. book' = [book EXCEPT ![side][price] = t]
      BY <2>1
    <3> HIDE DEF t
    <3>3. \A j \in DOMAIN t : t[j] \in DOMAIN obj
      BY <2>2, <2>4, <3>1
    <3>4. book' \in [Sides -> [Prices -> Seq(Refs)]]
      BY <2>2, <2>4, <3>1, <3>2
    <3>5. \A s \in Sides, p \in Prices :
            book'[s][p] = IF s = side /\ p = price THEN t ELSE book[s][p]
      BY <2>2, <2>4, <3>2
    <3>6. \A s \in Sides, p \in Prices : \A i \in DOMAIN book'[s][p] :
            book'[s][p][i] \in DOMAIN obj
      BY <2>2, <3>3, <3>5
    <3> QED  BY <2>3, <3>4, <3>6 DEF BookKept
  <2>5. CASE ~(side \in Sides /\ price \in Prices)
    <3>1. book' = book
      BY <2>1, <2>2, <2>5
    <3> QED  BY <2>2, <2>3, <3>1 DEF BookKept
  <2> QED  BY <2>4, <2>5
<1> QED  BY <1>1, <1>2

\* Book.Cancel of a located order, with Order.Cancel of its object.
LEMMA CancelRestingBase ==
  ASSUME BaseInv, NEW id, CancelResting(id)
  PROVE  /\ BookKept /\ ObjectsKept /\ UNCHANGED <<incoming, funds, result>>
         /\ incoming = NoRef => \A r \in DOMAIN obj :
              r # locations[id] => obj'[r] = obj[r]
         /\ locations[id] \in DOMAIN obj
         /\ obj'[locations[id]] = CancelOrder(obj[locations[id]])
<1> DEFINE r == locations[id]
<1>1. /\ id \in DOMAIN locations /\ RemoveFront(id, obj[r].side, obj[r].price)
      /\ obj' = [obj EXCEPT ![r] = CancelOrder(@)]
      /\ UNCHANGED <<incoming, funds, result>>
  BY DEF CancelResting
<1>2. r \in DOMAIN obj
  BY <1>1 DEF BaseInv, HeapInv
<1>3. obj[r] \in Order /\ Sane(obj[r])
  BY <1>2, ObjectFacts DEF BaseInv, RowInv
<1>4. BookKept
  BY <1>1, RemoveFrontBook
<1>5. CancelOrder(obj[r]) \in Order /\ Same(CancelOrder(obj[r]), obj[r]) /\ Sane(CancelOrder(obj[r]))
  BY <1>3, CancelKeeps
<1>6. /\ DOMAIN obj' = DOMAIN obj /\ obj'[r] = CancelOrder(obj[r])
      /\ \A x \in DOMAIN obj : x # r => obj'[x] = obj[x]
  BY <1>1, <1>2
<1>7. ObjectsKept
  <2>1. \A x \in DOMAIN obj : obj[x] \in Order /\ Sane(obj[x]) /\ x \in Refs
    BY ObjectFacts DEF BaseInv, RowInv
  <2> QED  BY <1>5, <1>6, <2>1 DEF ObjectsKept, PartialFn, Same
<1> QED  BY <1>1, <1>2, <1>4, <1>6, <1>7

LEMMA GoDivInt ==
  ASSUME NEW a \in Int, NEW b \in Nat \ {0}
  PROVE  GoDiv(a, b) \in Int
<1>1. CASE a >= 0
  BY <1>1 DEF GoDiv
<1>2. CASE ~(a >= 0)
  <2>1. (-a) \div b \in Int
    BY <1>2
  <2> QED  BY <1>2, <2>1 DEF GoDiv
<1> QED  BY <1>1, <1>2

\* A trade takes no more than either order has left.
LEMMA MatchQtyBounds ==
  ASSUME NEW o, NEW maker, NEW p,
         Remaining(o) \in Int, Remaining(maker) \in Int, GoDiv(funds, p) \in Int
  PROVE  /\ MatchQty(o, maker, p) \in Int
         /\ MatchQty(o, maker, p) <= Remaining(o)
         /\ MatchQty(o, maker, p) <= Remaining(maker)
<1>1. PICK a, b, d : a = Remaining(o) /\ b = Remaining(maker) /\ d = GoDiv(funds, p)
  OBVIOUS
<1>2. MatchQty(o, maker, p) = IF IsBuyMarket(o) /\ d < min64(a, b) THEN d ELSE min64(a, b)
  BY <1>1, Zenon DEF MatchQty
<1>3. a \in Int /\ b \in Int /\ d \in Int
  BY <1>1
<1>4. min64(a, b) \in Int /\ min64(a, b) <= a /\ min64(a, b) <= b
  BY <1>3 DEF min64
<1> QED  BY <1>1, <1>2, <1>3, <1>4

\* An iteration of Match, whatever the Book holds: two objects, possibly the
\* same one, are filled as far as Fill accepts the quantity.
LEMMA ExecuteBase ==
  ASSUME BaseInv, mpc = "match", NEW p \in Prices, CanTrade(p), Execute(p)
  PROVE  LET o    == obj[incoming]
             side == Opposite(o.side)
             m    == Head(book[side][p])
             q    == MatchQty(o, obj[m], p)
             tr   == [buy   |-> IF o.side = "BUY" THEN incoming ELSE m,
                      sell  |-> IF o.side = "BUY" THEN m ELSE incoming,
                      price |-> p, qty |-> q]
         IN  /\ BookKept /\ ObjectsKept
             /\ incoming' = incoming /\ incoming \in DOMAIN obj
             /\ result.incoming = incoming
             /\ obj'[incoming].status # "CANCELLED"
             /\ funds' \in Int /\ funds \in Int
             /\ side \in Sides /\ 1 \in DOMAIN book[side][p] /\ m = book[side][p][1]
             /\ m \in DOMAIN obj
             /\ q \in Int /\ q # 0 /\ q <= MaxQty
             /\ q <= Remaining(o) /\ q <= Remaining(obj[m])
             /\ tr \in Trade
             /\ result' \in MatchResult
             /\ result'.incoming = result.incoming
             /\ result'.cancelled = result.cancelled
             /\ result'.trades = Append(result.trades, tr)
             /\ result'.touched = Append(result.touched, m)
             /\ m # incoming =>
                  obj'[incoming] = Fill(o, q) /\ obj'[m] = Fill(obj[m], q)
             /\ \A x \in DOMAIN obj : x # incoming /\ x # m => obj'[x] = obj[x]
<1> DEFINE o    == obj[incoming]
           side == Opposite(o.side)
           m    == Head(book[side][p])
           q    == MatchQty(o, obj[m], p)
           tr   == [buy   |-> IF o.side = "BUY" THEN incoming ELSE m,
                    sell  |-> IF o.side = "BUY" THEN m ELSE incoming,
                    price |-> p, qty |-> q]
<1>1. incoming \in DOMAIN obj /\ result.incoming = incoming
  BY DEF BaseInv, PhaseInv
<1>2. o \in Order /\ o.side \in Sides /\ o.quantity <= MaxQty /\ Sane(o)
      /\ o.status # "CANCELLED"
  <2>1. incoming # NoRef
    BY DEF BaseInv, PhaseInv
  <2> QED  BY <1>1, <2>1, ObjectFacts DEF BaseInv, RowInv
<1>3. side \in Sides
  BY <1>2 DEF Opposite, Sides
<1>4. book[side][p] \in Seq(Refs) /\ book[side][p] # <<>>
  BY <1>3 DEF CanTrade, IsBest, BaseInv, TypeOK
<1>5. 1 \in DOMAIN book[side][p] /\ m = book[side][p][1]
  BY <1>4
<1>6. m \in DOMAIN obj
  BY <1>3, <1>5 DEF BaseInv, HeapInv
<1>7. obj[m] \in Order /\ Sane(obj[m]) /\ m \in Refs /\ incoming \in Refs
  BY <1>1, <1>6, ObjectFacts DEF BaseInv, RowInv
<1>8. q # 0
  BY DEF CanTrade
<1>9. p \in Nat \ {0} /\ funds \in Int /\ GoDiv(funds, p) \in Int
  BY PricesAssumption, GoDivInt DEF BaseInv, TypeOK
<1>10. Remaining(o) \in Int /\ Remaining(obj[m]) \in Int
  BY <1>2, <1>7, OrderAmounts
<1>11. q \in Int /\ q <= Remaining(o) /\ q <= Remaining(obj[m])
  BY <1>9, <1>10, MatchQtyBounds, Zenon
<1>12. q <= MaxQty
  <2>1. o.quantity \in Nat /\ o.filled \in Nat /\ MaxQty \in Nat
    BY <1>2, OrderAmounts, BoundsAssumption
  <2>2. Remaining(o) <= MaxQty
    BY <1>2, <2>1 DEF Remaining
  <2> HIDE DEF q
  <2> QED  BY <1>10, <1>11, <2>1, <2>2
<1> DEFINE a == Fill(obj[incoming], q)
           obj1 == [obj EXCEPT ![incoming] = a]
           b == Fill(obj1[m], q)
<1>13. /\ obj' = [obj1 EXCEPT ![m] = b]
       /\ funds' = IF IsBuyMarket(o) THEN funds - q * p ELSE funds
       /\ IF Remaining(Fill(obj[m], q)) = 0
            THEN RemoveFront(obj[m].id, side, p) ELSE UNCHANGED <<book, locations>>
       /\ incoming' = incoming
  BY Zenon DEF Execute
<1>14. result' = [result EXCEPT !.trades = Append(@, tr), !.touched = Append(@, m)]
  BY Zenon DEF Execute
<1> HIDE DEF q, a, obj1, b, tr, m, side, o
<1>15. BookKept
  <2>1. CASE Remaining(Fill(obj[m], q)) = 0
    <3>1. RemoveFront(obj[m].id, side, p)
      BY <1>13, <2>1
    <3> QED  BY <3>1, RemoveFrontBook
  <2>2. CASE Remaining(Fill(obj[m], q)) # 0
    BY <1>13, <2>2, UnchangedBook
  <2> QED  BY <2>1, <2>2
<1>16. funds' \in Int
  <2>1. q * p \in Int
    BY <1>9, <1>11
  <2> QED  BY <1>9, <1>13, <2>1
<1>17. tr \in Trade
  BY <1>7, <1>11 DEF Trade, tr
<1>18. /\ result.trades \in Seq(Trade) /\ result.touched \in Seq(Refs)
       /\ result.incoming \in Refs \cup {NoRef} /\ result.cancelled \in Int
       /\ result = [incoming |-> result.incoming, trades |-> result.trades,
                    touched |-> result.touched, cancelled |-> result.cancelled]
  BY DEF BaseInv, TypeOK, MatchResult
<1>19. result' = [incoming |-> result.incoming,
                  trades |-> Append(result.trades, tr),
                  touched |-> Append(result.touched, m),
                  cancelled |-> result.cancelled]
  BY <1>14, <1>18
<1>20. /\ result' \in MatchResult
       /\ result'.incoming = result.incoming /\ result'.cancelled = result.cancelled
       /\ result'.trades = Append(result.trades, tr)
       /\ result'.touched = Append(result.touched, m)
  BY <1>7, <1>17, <1>18, <1>19 DEF MatchResult
<1>21. a \in Order /\ Same(a, obj[incoming]) /\ Sane(a) /\ a.status # "CANCELLED"
  BY <1>2, <1>11, FillKeeps DEF o, a
<1>22. obj1[m] \in Order /\ Same(obj1[m], obj[m]) /\ Sane(obj1[m])
       /\ (m = incoming => obj1[m] = a) /\ (m # incoming => obj1[m] = obj[m])
  <2>1. CASE m = incoming
    <3>1. obj1[m] = a
      BY <1>1, <2>1 DEF obj1
    <3> QED  BY <1>21, <2>1, <3>1
  <2>2. CASE m # incoming
    <3>1. obj1[m] = obj[m]
      BY <1>1, <1>6, <2>2 DEF obj1
    <3> QED  BY <1>7, <2>2, <3>1 DEF Same
  <2> QED  BY <2>1, <2>2
<1>23. /\ b \in Order /\ Same(b, obj1[m]) /\ Sane(b)
       /\ obj1[m].status # "CANCELLED" => b.status # "CANCELLED"
  BY <1>11, <1>22, FillKeeps DEF b
<1>24. /\ DOMAIN obj1 = DOMAIN obj /\ obj1[incoming] = a
       /\ \A x \in DOMAIN obj : x # incoming => obj1[x] = obj[x]
  BY <1>1 DEF obj1
<1>25. /\ DOMAIN obj' = DOMAIN obj /\ obj'[m] = b
       /\ m # incoming => obj'[incoming] = a
       /\ \A x \in DOMAIN obj : x # incoming /\ x # m => obj'[x] = obj[x]
  BY <1>1, <1>6, <1>13, <1>24
<1>26. ObjectsKept
  <2>1. \A x \in DOMAIN obj : obj[x] \in Order /\ Sane(obj[x]) /\ x \in Refs
    BY ObjectFacts DEF BaseInv, RowInv
  <2>2. ASSUME NEW x \in DOMAIN obj
        PROVE  obj'[x] \in Order /\ Same(obj'[x], obj[x]) /\ Sane(obj'[x])
    <3>1. CASE x = m
      BY <1>22, <1>23, <1>25, <3>1 DEF Same
    <3>2. CASE x # m /\ x = incoming
      BY <1>21, <1>25, <3>2 DEF Same
    <3>3. CASE x # m /\ x # incoming
      BY <1>25, <2>1, <3>3 DEF Same
    <3> QED  BY <3>1, <3>2, <3>3
  <2> QED  BY <1>25, <2>1, <2>2 DEF ObjectsKept, PartialFn
<1>27. obj'[incoming].status # "CANCELLED"
  BY <1>21, <1>22, <1>23, <1>25
<1>28. m # incoming => obj'[incoming] = Fill(o, q) /\ obj'[m] = Fill(obj[m], q)
  BY <1>22, <1>25 DEF a, b, o
<1>29. incoming' = incoming
  BY <1>13
<1>30. \A x \in DOMAIN obj : x # incoming /\ x # m => obj'[x] = obj[x]
  BY <1>25
<1> QED
  BY <1>1, <1>3, <1>5, <1>6, <1>8, <1>9, <1>11, <1>12, <1>15, <1>16, <1>17,
     <1>20, <1>26, <1>27, <1>28, <1>29, <1>30 DEF o, m, q, tr, side

----------------------------------------------------------------------------
(* Every step preserves the first part of the invariant *)

\* The database of the next state: versions of the same rows.
DbKept ==
  /\ wallets' \in [Users -> Wallet]
  /\ PartialFn(rows', Ids, Order) /\ DOMAIN rows' = DOMAIN rows
  /\ \A id \in DOMAIN rows : Same(rows'[id], rows[id]) /\ Sane(rows'[id])
  /\ processed' \subseteq 1..cursor

LEMMA UnchangedDb ==
  ASSUME BaseInv, UNCHANGED dbVars
  PROVE  DbKept
BY DEF BaseInv, TypeOK, RowInv, DbKept, dbVars, Same

LEMMA RowInvKept ==
  ASSUME BaseInv, DbKept, stream' = stream,
         \A id \in DOMAIN txRows' :
           id \in DOMAIN rows /\ Same(txRows'[id], rows[id]) /\ Sane(txRows'[id]),
         \A r \in DOMAIN obj' :
           r[1] \in DOMAIN rows /\ Same(obj'[r], rows[r[1]]) /\ Sane(obj'[r]),
         incoming' # NoRef => obj'[incoming'].status # "CANCELLED"
  PROVE  RowInv'
<1>1. ASSUME NEW id \in DOMAIN rows
      PROVE  /\ rows'[id].id = id /\ rows'[id].quantity <= MaxQty /\ Sane(rows'[id])
             /\ rows'[id].type = "LIMIT" => rows'[id].price \in Prices
             /\ rows'[id].type = "MARKET" => rows'[id].price = NoPrice
  BY DEF BaseInv, RowInv, DbKept, Same
<1>2. DOMAIN rows' = DOMAIN rows
  BY DEF DbKept
<1>3. \A id \in DOMAIN txRows' :
        id \in DOMAIN rows' /\ Same(txRows'[id], rows'[id]) /\ Sane(txRows'[id])
  BY <1>2 DEF DbKept, Same
<1>4. \A r \in DOMAIN obj' :
        r[1] \in DOMAIN rows' /\ Same(obj'[r], rows'[r[1]]) /\ Sane(obj'[r])
  BY <1>2 DEF DbKept, Same
<1>5. /\ \A i \in DOMAIN stream : stream[i].id \in DOMAIN rows
      /\ \A i, j \in DOMAIN stream :
           stream[i].kind = "NEW" /\ stream[i] = stream[j] => i = j
  BY DEF BaseInv, RowInv
<1> QED  BY <1>1, <1>2, <1>3, <1>4, <1>5 DEF RowInv

LEMMA ObjectsKeptRows ==
  ASSUME BaseInv, ObjectsKept
  PROVE  \A r \in DOMAIN obj' :
           r[1] \in DOMAIN rows /\ Same(obj'[r], rows[r[1]]) /\ Sane(obj'[r])
BY DEF BaseInv, RowInv, ObjectsKept, Same

LEMMA TxRowsRows ==
  ASSUME BaseInv
  PROVE  \A id \in DOMAIN txRows :
           id \in DOMAIN rows /\ Same(txRows[id], rows[id]) /\ Sane(txRows[id])
BY DEF BaseInv, RowInv

LEMMA NoResultFacts ==
  /\ NoResult \in MatchResult /\ NoResult.trades = <<>> /\ NoResult.touched = <<>>
  /\ NoResult.incoming = NoRef /\ NoResult.cancelled = 0
  /\ Len(NoResult.trades) = 0 /\ DOMAIN NoResult.trades = {} /\ DOMAIN NoResult.touched = {}
BY DEF NoResult, MatchResult

LEMMA EmptyBookFacts ==
  /\ EmptyBook \in [Sides -> [Prices -> Seq(Refs)]]
  /\ \A s \in Sides, p \in Prices : EmptyBook[s][p] = <<>> /\ DOMAIN EmptyBook[s][p] = {}
BY DEF EmptyBook

LEMMA NothingFacts ==
  DOMAIN Nothing = {} /\ \A S, T : PartialFn(Nothing, S, T)
BY DEF Nothing, PartialFn

LEMMA InitBase == Init => BaseInv
<1> SUFFICES ASSUME Init PROVE BaseInv
  OBVIOUS
<1>1. /\ DOMAIN obj = {} /\ DOMAIN locations = {} /\ book = EmptyBook
      /\ incoming = NoRef /\ funds = 0 /\ result = NoResult
      /\ rows = Nothing /\ cache = Nothing /\ txRows = Nothing
      /\ DOMAIN rows = {} /\ DOMAIN txRows = {}
      /\ processed = {} /\ stream = <<>> /\ cursor = 0 /\ pel = {}
      /\ mpc = "poll" /\ origin = "poll" /\ batch = {} /\ todo = {}
      /\ unsettled = <<>> /\ faults = MaxFaults
      /\ wallets = [u \in Users |-> NewWallet]
  BY NothingFacts DEF Init, EngineInit
<1>2. NewWallet \in Wallet
  BY DepositAssumption DEF NewWallet, Wallet
<1>3. /\ PartialFn(obj, Refs, Order) /\ PartialFn(locations, Ids, Refs)
      /\ PartialFn(rows, Ids, Order) /\ PartialFn(txRows, Ids, Order)
      /\ PartialFn(cache, Users, Wallet)
  BY <1>1, NothingFacts DEF PartialFn
<1>4. /\ wallets \in [Users -> Wallet] /\ faults \in 0..MaxFaults
      /\ stream \in Seq(Event) /\ unsettled \in Seq(Trade) /\ cursor \in 0..Len(stream)
  BY <1>1, <1>2, BoundsAssumption
<1>5. TypeOK
  <2>1. book \in [Sides -> [Prices -> Seq(Refs)]] /\ result \in MatchResult
    BY <1>1, NoResultFacts, EmptyBookFacts
  <2>2. processed \subseteq 1..cursor /\ pel \subseteq 1..cursor
        /\ batch \subseteq 1..cursor /\ todo \subseteq batch
    BY <1>1
  <2>3. /\ mpc \in {"down", "resync", "reclaim", "poll", "apply", "match", "settle"}
        /\ origin \in {"boot", "poll", "retry"}
        /\ incoming \in Refs \cup {NoRef} /\ funds \in Int
    BY <1>1
  <2>4. bookDirty \in BOOLEAN /\ diverged \in BOOLEAN
    BY Zenon DEF Init
  <2> QED  BY <1>3, <1>4, <2>1, <2>2, <2>3, <2>4 DEF TypeOK
<1>6. PhaseInv
  BY <1>1 DEF PhaseInv
<1>7. RowInv
  BY <1>1 DEF RowInv
<1>8. HeapInv
  <2>1. Len(unsettled) = 0 /\ DOMAIN unsettled = {}
    BY <1>1
  <2> QED  BY <1>1, <2>1, NoResultFacts, EmptyBookFacts DEF HeapInv
<1> QED  BY <1>5, <1>6, <1>7, <1>8 DEF BaseInv

\* An order that has just been placed.
LEMMA PlacedFacts ==
  ASSUME NEW id \in Ids, NEW o \in PlacedOrders(id, Users, Prices, 1..MaxQty)
  PROVE  /\ o \in Order /\ o.id = id /\ o.filled = 0 /\ o.status = "OPEN"
         /\ o.quantity \in 1..MaxQty /\ Sane(o)
         /\ o.type = "LIMIT" => o.price \in Prices
         /\ o.type = "MARKET" => o.price = NoPrice
<1>1. MaxQty \in Nat /\ 1..MaxQty \subseteq Nat \ {0}
  BY BoundsAssumption
<1>2. CASE o \in {[id |-> id, user |-> u, side |-> s, type |-> "LIMIT", price |-> p,
                   quantity |-> q, filled |-> 0, status |-> "OPEN"] :
                     u \in Users, s \in Sides, p \in Prices, q \in 1..MaxQty}
  <2>1. PICK u \in Users, s \in Sides, p \in Prices, q \in 1..MaxQty :
          o = [id |-> id, user |-> u, side |-> s, type |-> "LIMIT", price |-> p,
               quantity |-> q, filled |-> 0, status |-> "OPEN"]
    BY <1>2
  <2>2. q \in Nat \ {0}
    BY <1>1
  <2> QED  BY <2>1, <2>2 DEF Order, OrderType, Sane, Types, Statuses
<1>3. CASE o \in {[id |-> id, user |-> u, side |-> s, type |-> "MARKET",
                   price |-> NoPrice, quantity |-> q, filled |-> 0, status |-> "OPEN"] :
                     u \in Users, s \in Sides, q \in 1..MaxQty}
  <2>1. PICK u \in Users, s \in Sides, q \in 1..MaxQty :
          o = [id |-> id, user |-> u, side |-> s, type |-> "MARKET",
               price |-> NoPrice, quantity |-> q, filled |-> 0, status |-> "OPEN"]
    BY <1>3
  <2>2. q \in Nat \ {0}
    BY <1>1
  <2> QED  BY <2>1, <2>2 DEF Order, OrderType, Sane, Types, Statuses
<1> QED  BY <1>2, <1>3 DEF PlacedOrders

\* Publishing appends one event.
LEMMA PublishFacts ==
  ASSUME BaseInv, NEW kind \in {"NEW", "CANCEL"}, NEW id \in Ids, Publish(kind, id)
  PROVE  /\ stream' \in Seq(Event) /\ Len(stream') = Len(stream) + 1
         /\ DOMAIN stream = 1..Len(stream) /\ DOMAIN stream' = 1..(Len(stream) + 1)
         /\ Len(stream) \in Nat
         /\ stream'[Len(stream) + 1] = [kind |-> kind, id |-> id]
         /\ \A i \in DOMAIN stream : stream'[i] = stream[i]
         /\ UNCHANGED <<processed, cursor, pel, mpc, origin, batch, todo, cache,
                        txRows, unsettled, obj, book, locations, incoming, funds,
                        result, faults>>
         /\ UNCHANGED bookDirty /\ UNCHANGED diverged
         /\ cursor \in 0..Len(stream')
<1>1. stream \in Seq(Event) /\ [kind |-> kind, id |-> id] \in Event
      /\ cursor \in 0..Len(stream)
  BY DEF BaseInv, TypeOK, Event
<1>2. stream' = Append(stream, [kind |-> kind, id |-> id])
  BY DEF Publish
<1>3. UNCHANGED <<processed, cursor, pel, mpc, origin, batch, todo, cache, txRows,
                  unsettled, obj, book, locations, incoming, funds, result, faults>>
  BY DEF Publish, loopVars, txVars, engineVars
<1>4. UNCHANGED bookDirty /\ UNCHANGED diverged
  BY DEF Publish
<1>5. /\ stream' \in Seq(Event) /\ Len(stream') = Len(stream) + 1
      /\ DOMAIN stream = 1..Len(stream) /\ DOMAIN stream' = 1..(Len(stream) + 1)
      /\ Len(stream) \in Nat
      /\ stream'[Len(stream) + 1] = [kind |-> kind, id |-> id]
      /\ \A i \in DOMAIN stream : stream'[i] = stream[i]
  BY <1>1, <1>2
<1>6. cursor \in 0..Len(stream')
  BY <1>1, <1>5
<1> QED  BY <1>3, <1>4, <1>5, <1>6

LEMMA NewIdFacts ==
  ASSUME BaseInv, DOMAIN rows # Ids
  PROVE  NewId \in Ids /\ NewId \notin DOMAIN rows
<1>1. DOMAIN rows \subseteq Ids
  BY DEF BaseInv, TypeOK, PartialFn
<1>2. \E id \in Ids : id \notin DOMAIN rows
  BY <1>1
<1> QED  BY <1>2 DEF NewId

\* What a request to place an order changes.
LEMMA PlaceFacts ==
  ASSUME BaseInv, DOMAIN rows # Ids,
         NEW o \in PlacedOrders(NewId, Users, Prices, 1..MaxQty), Place(o)
  PROVE  /\ o \in Order /\ o.id = NewId /\ o.user \in Users /\ o.user \notin DOMAIN cache
         /\ CanReserve(wallets[o.user], o)
         /\ wallets' = [wallets EXCEPT ![o.user] = Reserve(wallets[o.user], o)]
         /\ Reserve(wallets[o.user], o) \in Wallet
         /\ Holding(Reserve(wallets[o.user], o)) = Holding(wallets[o.user])
         /\ DOMAIN rows' = DOMAIN rows \cup {NewId} /\ rows'[NewId] = o
         /\ \A id \in DOMAIN rows : rows'[id] = rows[id]
<1>1. NewId \in Ids /\ NewId \notin DOMAIN rows
  BY NewIdFacts
<1>2. o \in Order /\ o.id = NewId
  BY <1>1, PlacedFacts
<1>3. o.user \in Users
  BY <1>2 DEF Order, OrderType
<1>4. /\ o.user \notin DOMAIN cache /\ CanReserve(wallets[o.user], o)
      /\ wallets' = [wallets EXCEPT ![o.user] = Reserve(wallets[o.user], o)]
      /\ rows' = Put(rows, o.id, o)
  BY DEF Place
<1>5. wallets[o.user] \in Wallet
  BY <1>3, ViewType
<1>6. /\ Reserve(wallets[o.user], o) \in Wallet
      /\ Holding(Reserve(wallets[o.user], o)) = Holding(wallets[o.user])
  BY <1>2, <1>4, <1>5, ReserveKeeps
<1>7. /\ DOMAIN rows' = DOMAIN rows \cup {NewId} /\ rows'[NewId] = o
      /\ \A id \in DOMAIN rows : rows'[id] = rows[id]
  <2>1. rows' = Put(rows, NewId, o)
    BY <1>2, <1>4
  <2>2. /\ DOMAIN Put(rows, NewId, o) = DOMAIN rows \cup {NewId}
        /\ Put(rows, NewId, o)[NewId] = o
        /\ \A x \in DOMAIN rows \ {NewId} : Put(rows, NewId, o)[x] = rows[x]
    BY DEF Put, Merge
  <2> QED  BY <1>1, <2>1, <2>2
<1> QED  BY <1>2, <1>3, <1>4, <1>6, <1>7

LEMMA PlaceBase ==
  ASSUME BaseInv, DOMAIN rows # Ids,
         NEW o \in PlacedOrders(NewId, Users, Prices, 1..MaxQty), Place(o)
  PROVE  BaseInv'
<1>1. NewId \in Ids /\ NewId \notin DOMAIN rows
  BY NewIdFacts
<1>2. /\ o \in Order /\ o.id = NewId /\ o.quantity \in 1..MaxQty /\ Sane(o)
      /\ o.type = "LIMIT" => o.price \in Prices
      /\ o.type = "MARKET" => o.price = NoPrice
  BY <1>1, PlacedFacts
<1>3. Publish("NEW", NewId)
  BY <1>2 DEF Place
<1>4. /\ o.user \in Users
      /\ wallets' = [wallets EXCEPT ![o.user] = Reserve(wallets[o.user], o)]
      /\ Reserve(wallets[o.user], o) \in Wallet
      /\ DOMAIN rows' = DOMAIN rows \cup {NewId} /\ rows'[NewId] = o
      /\ \A id \in DOMAIN rows : rows'[id] = rows[id]
  BY PlaceFacts
<1>5. /\ stream' \in Seq(Event) /\ Len(stream') = Len(stream) + 1
      /\ DOMAIN stream = 1..Len(stream) /\ DOMAIN stream' = 1..(Len(stream) + 1)
      /\ Len(stream) \in Nat
      /\ stream'[Len(stream) + 1] = [kind |-> "NEW", id |-> NewId]
      /\ \A i \in DOMAIN stream : stream'[i] = stream[i]
      /\ UNCHANGED <<processed, cursor, pel, mpc, origin, batch, todo, cache,
                     txRows, unsettled, obj, book, locations, incoming, funds,
                     result, faults>>
      /\ UNCHANGED bookDirty /\ UNCHANGED diverged
      /\ cursor \in 0..Len(stream')
  BY <1>1, <1>3, PublishFacts
<1>6. TypeOK'
  <2>1. wallets' \in [Users -> Wallet] /\ PartialFn(rows', Ids, Order)
    BY <1>1, <1>2, <1>4 DEF BaseInv, TypeOK, PartialFn
  <2> QED  BY <1>5, <2>1 DEF BaseInv, TypeOK
<1>7. PhaseInv'
  BY <1>5 DEF BaseInv, PhaseInv
<1>8. HeapInv'
  BY <1>5 DEF BaseInv, HeapInv
<1>9. RowInv'
  <2>1. ASSUME NEW id \in DOMAIN rows'
        PROVE  /\ rows'[id].id = id /\ rows'[id].quantity <= MaxQty /\ Sane(rows'[id])
               /\ rows'[id].type = "LIMIT" => rows'[id].price \in Prices
               /\ rows'[id].type = "MARKET" => rows'[id].price = NoPrice
    BY <1>2, <1>4 DEF BaseInv, RowInv
  <2>2. /\ \A id \in DOMAIN txRows' :
             id \in DOMAIN rows' /\ Same(txRows'[id], rows'[id]) /\ Sane(txRows'[id])
        /\ \A r \in DOMAIN obj' :
             r[1] \in DOMAIN rows' /\ Same(obj'[r], rows'[r[1]]) /\ Sane(obj'[r])
        /\ incoming' # NoRef => obj'[incoming'].status # "CANCELLED"
    BY <1>4, <1>5 DEF BaseInv, RowInv
  <2>3. \A i \in DOMAIN stream' : stream'[i].id \in DOMAIN rows'
    BY <1>4, <1>5 DEF BaseInv, RowInv
  <2>4. ASSUME NEW i \in DOMAIN stream', NEW j \in DOMAIN stream',
               stream'[i].kind = "NEW", stream'[i] = stream'[j]
        PROVE  i = j
    <3>1. \A k \in DOMAIN stream : stream[k].id # NewId
      BY <1>1 DEF BaseInv, RowInv
    <3>2. \A k \in DOMAIN stream' : k # Len(stream) + 1 => k \in DOMAIN stream
      BY <1>5
    <3>3. stream'[Len(stream) + 1].id = NewId
      BY <1>5
    <3> QED  BY <1>5, <2>4, <3>1, <3>2, <3>3 DEF BaseInv, RowInv
  <2> QED  BY <2>1, <2>2, <2>3, <2>4 DEF RowInv
<1> QED  BY <1>6, <1>7, <1>8, <1>9 DEF BaseInv

LEMMA CancelBase ==
  ASSUME BaseInv, NEW id \in Ids, Cancel(id)
  PROVE  BaseInv'
<1>1. id \in DOMAIN rows /\ UNCHANGED <<wallets, rows>> /\ Publish("CANCEL", id)
  BY DEF Cancel
<1>2. /\ stream' \in Seq(Event) /\ Len(stream') = Len(stream) + 1
      /\ DOMAIN stream = 1..Len(stream) /\ DOMAIN stream' = 1..(Len(stream) + 1)
      /\ Len(stream) \in Nat
      /\ stream'[Len(stream) + 1] = [kind |-> "CANCEL", id |-> id]
      /\ \A i \in DOMAIN stream : stream'[i] = stream[i]
      /\ UNCHANGED <<processed, cursor, pel, mpc, origin, batch, todo, cache,
                     txRows, unsettled, obj, book, locations, incoming, funds,
                     result, faults>>
      /\ UNCHANGED bookDirty /\ UNCHANGED diverged
      /\ cursor \in 0..Len(stream')
  BY <1>1, PublishFacts
<1>3. TypeOK'
  BY <1>1, <1>2 DEF BaseInv, TypeOK
<1>4. PhaseInv' /\ HeapInv'
  BY <1>2 DEF BaseInv, PhaseInv, HeapInv
<1>5. RowInv'
  <2>1. \A i \in DOMAIN stream' : stream'[i].id \in DOMAIN rows'
    BY <1>1, <1>2 DEF BaseInv, RowInv
  <2>2. ASSUME NEW i \in DOMAIN stream', NEW j \in DOMAIN stream',
               stream'[i].kind = "NEW", stream'[i] = stream'[j]
        PROVE  i = j
    <3>1. \A k \in DOMAIN stream' : k # Len(stream) + 1 => k \in DOMAIN stream
      BY <1>2
    <3>2. stream'[Len(stream) + 1].kind = "CANCEL"
      BY <1>2
    <3> QED  BY <1>2, <2>2, <3>1, <3>2 DEF BaseInv, RowInv
  <2> QED  BY <1>1, <1>2, <2>1, <2>2 DEF BaseInv, RowInv
<1> QED  BY <1>3, <1>4, <1>5 DEF BaseInv

\* A queue that recovery can build: the live orders of the level, each once.
LEMMA QueueFacts ==
  ASSUME BaseInv, NEW side, NEW p, NEW q \in Queues(side, p)
  PROVE  /\ q \in Seq(Refs)
         /\ \A i \in DOMAIN q : \E id \in Live :
              q[i] = <<id, "row">> /\ rows[id].side = side /\ rows[id].price = p
         /\ \A id \in Live : rows[id].side = side /\ rows[id].price = p =>
              \E i \in DOMAIN q : q[i] = <<id, "row">>
         /\ \A i, j \in DOMAIN q : q[i] = q[j] => i = j
<1> DEFINE L == {x \in Live : rows[x].side = side /\ rows[x].price = p}
           S == {<<id, "row">> : id \in L}
           n == Cardinality(S)
<1>1. L \subseteq Ids /\ IsFiniteSet(L)
  <2>1. L \subseteq Ids
    BY DEF Live, BaseInv, TypeOK, PartialFn
  <2> HIDE DEF L
  <2> QED  BY <2>1, FiniteAssumption, FS_Subset
<1>2. S \subseteq Refs
  BY <1>1, ObjectsAssumption
<1>3. q \in [1..n -> S] /\ \A i, j \in 1..n : i # j => q[i] # q[j]
  BY DEF Queues, SetToSeqs
<1>4. IsFiniteSet(S) /\ n \in Nat
  <2> DEFINE f == [id \in L |-> <<id, "row">>]
  <2>1. f \in Surjection(L, S)
    BY DEF Surjection
  <2> HIDE DEF L, S, f
  <2> QED  BY <1>1, <2>1, FS_Surjection, FS_CardinalityType
<1>5. q \in Injection(1..n, S)
  <2> HIDE DEF S, n
  <2> QED  BY <1>3 DEF Injection, IsInjective
<1>6. Cardinality(1..n) = n /\ IsFiniteSet(1..n)
  <2> HIDE DEF n
  <2> QED  BY <1>4, FS_Interval
<1>7. q \in Surjection(1..n, S)
  <2> HIDE DEF S
  <2> QED  BY <1>4, <1>5, <1>6, FS_Injection
<1>8. q \in Seq(Refs) /\ DOMAIN q = 1..n
  <2> HIDE DEF S, n
  <2>1. q \in [1..n -> Refs]
    BY <1>2, <1>3
  <2> QED  BY <1>4, <2>1, SeqDef
<1>9. \A i \in DOMAIN q : q[i] \in S
  BY <1>3, <1>8
<1>10. \A id \in L : \E i \in DOMAIN q : q[i] = <<id, "row">>
  <2>1. \A s \in S : \E i \in 1..n : q[i] = s
    BY <1>7 DEF Surjection
  <2> QED  BY <1>8, <2>1
<1> HIDE DEF n
<1> QED  BY <1>3, <1>8, <1>9, <1>10

\* The Book that recovery builds.
LEMMA RecoverFacts ==
  ASSUME BaseInv, RecoverBook
  PROVE  /\ Live \subseteq DOMAIN rows /\ Live \subseteq Ids
         /\ DOMAIN obj' = {<<id, "row">> : id \in Live}
         /\ \A id \in Live : obj'[<<id, "row">>] = rows[id]
         /\ \A r \in DOMAIN obj' : r[1] \in Live /\ r = <<r[1], "row">> /\ obj'[r] = rows[r[1]]
         /\ PartialFn(obj', Refs, Order)
         /\ locations' = [id \in Live |-> <<id, "row">>]
         /\ PartialFn(locations', Ids, Refs)
         /\ book' \in [Sides -> [Prices -> Seq(Refs)]]
         /\ \A s \in Sides, p \in Prices : book'[s][p] \in Queues(s, p)
         /\ UNCHANGED <<incoming, funds, result>>
<1>1. Live \subseteq DOMAIN rows /\ Live \subseteq Ids
  BY DEF Live, BaseInv, TypeOK, PartialFn
<1>2. /\ obj' = [r \in {<<id, "row">> : id \in Live} |-> rows[r[1]]]
      /\ locations' = [id \in Live |-> <<id, "row">>]
      /\ UNCHANGED <<incoming, funds, result>>
  BY DEF RecoverBook
<1>3. /\ DOMAIN obj' = {<<id, "row">> : id \in Live}
      /\ \A id \in Live : obj'[<<id, "row">>] = rows[id]
      /\ \A r \in DOMAIN obj' : r[1] \in Live /\ r = <<r[1], "row">> /\ obj'[r] = rows[r[1]]
  BY <1>2
<1>4. \A id \in Live : <<id, "row">> \in Refs /\ rows[id] \in Order
  BY <1>1, ObjectsAssumption DEF BaseInv, TypeOK, PartialFn
<1>5. PartialFn(obj', Refs, Order)
  BY <1>3, <1>4 DEF PartialFn
<1>6. PartialFn(locations', Ids, Refs)
  BY <1>1, <1>2, <1>4 DEF PartialFn
<1>7. PICK bids \in Levels("BUY"), asks \in Levels("SELL") :
        book' = [s \in Sides |-> IF s = "BUY" THEN bids ELSE asks]
  BY DEF RecoverBook
<1>8. \A p \in Prices : bids[p] \in Queues("BUY", p) /\ asks[p] \in Queues("SELL", p)
  BY <1>7 DEF Levels
<1>9. DOMAIN bids = Prices /\ DOMAIN asks = Prices
      /\ bids = [p \in Prices |-> bids[p]] /\ asks = [p \in Prices |-> asks[p]]
  BY <1>7 DEF Levels
<1>10. bids \in [Prices -> Seq(Refs)] /\ asks \in [Prices -> Seq(Refs)]
  <2>1. \A p \in Prices : bids[p] \in Seq(Refs) /\ asks[p] \in Seq(Refs)
    BY <1>8, QueueFacts
  <2> QED  BY <1>9, <2>1
<1>11. book' \in [Sides -> [Prices -> Seq(Refs)]]
  BY <1>7, <1>10
<1>12. \A s \in Sides, p \in Prices : book'[s][p] \in Queues(s, p)
  BY <1>7, <1>8 DEF Sides
<1> QED  BY <1>1, <1>2, <1>3, <1>5, <1>6, <1>11, <1>12


LEMMA RecoverBase ==
  ASSUME BaseInv, MBoot \/ MResync
  PROVE  BaseInv'
<1>1. /\ mpc \in {"down", "resync"} /\ RecoverBook /\ mpc' = "reclaim"
      /\ origin' \in {origin, "boot"}
      /\ UNCHANGED <<wallets, rows, processed, stream, cursor, pel, batch, todo,
                     cache, txRows, unsettled, faults>>
  BY DEF MBoot, MResync, dbVars, redisVars, txVars
<1>2. /\ Live \subseteq DOMAIN rows
      /\ DOMAIN obj' = {<<id, "row">> : id \in Live}
      /\ \A r \in DOMAIN obj' : r[1] \in Live /\ r = <<r[1], "row">> /\ obj'[r] = rows[r[1]]
      /\ PartialFn(obj', Refs, Order)
      /\ locations' = [id \in Live |-> <<id, "row">>]
      /\ PartialFn(locations', Ids, Refs)
      /\ book' \in [Sides -> [Prices -> Seq(Refs)]]
      /\ \A s \in Sides, p \in Prices : book'[s][p] \in Queues(s, p)
      /\ UNCHANGED <<incoming, funds, result>>
  BY <1>1, RecoverFacts
<1>3. bookDirty' \in BOOLEAN /\ diverged' \in BOOLEAN
  BY <1>1, Zenon DEF RecoverBook
<1>4. /\ incoming = NoRef /\ result = NoResult /\ unsettled = <<>>
      /\ batch = {} /\ cache = Nothing /\ txRows = Nothing
  BY <1>1 DEF BaseInv, PhaseInv
<1>5. TypeOK'
  BY <1>1, <1>2, <1>3 DEF BaseInv, TypeOK
<1>6. PhaseInv'
  BY <1>1, <1>2, <1>4 DEF PhaseInv
<1>7. RowInv'
  <2>1. DbKept
    BY <1>1, UnchangedDb DEF dbVars
  <2>2. \A r \in DOMAIN obj' :
          r[1] \in DOMAIN rows /\ Same(obj'[r], rows[r[1]]) /\ Sane(obj'[r])
    BY <1>2 DEF BaseInv, RowInv, Same
  <2> QED  BY <1>1, <1>2, <1>4, <2>1, <2>2, RowInvKept, TxRowsRows
<1>8. HeapInv'
  <2>1. \A s \in Sides, p \in Prices : \A i \in DOMAIN book'[s][p] :
          book'[s][p][i] \in DOMAIN obj'
    BY <1>2, QueueFacts
  <2>2. \A id \in DOMAIN locations' :
          locations'[id] \in DOMAIN obj' /\ locations'[id][1] = id
    BY <1>2
  <2>3. /\ DOMAIN result'.touched = {} /\ DOMAIN result'.trades = {}
        /\ Len(result'.trades) = 0 /\ Len(unsettled') = 0 /\ DOMAIN unsettled' = {}
    BY <1>1, <1>2, <1>4, NoResultFacts
  <2> QED  BY <2>1, <2>2, <2>3 DEF HeapInv
<1> QED  BY <1>5, <1>6, <1>7, <1>8 DEF BaseInv

\* Steps that leave the orders of the matcher alone.
LEMMA QuietBase ==
  ASSUME BaseInv, UNCHANGED <<obj, book, locations, incoming, result, unsettled>>
  PROVE  HeapInv'
BY DEF BaseInv, HeapInv

LEMMA QuietRows ==
  ASSUME BaseInv, DbKept, UNCHANGED <<obj, incoming, txRows, stream>>
  PROVE  RowInv'
<1>1. \A r \in DOMAIN obj' :
        r[1] \in DOMAIN rows /\ Same(obj'[r], rows[r[1]]) /\ Sane(obj'[r])
  BY UnchangedObjects, ObjectsKeptRows
<1>2. incoming' # NoRef => obj'[incoming'].status # "CANCELLED"
  BY DEF BaseInv, RowInv
<1> QED  BY <1>1, <1>2, RowInvKept, TxRowsRows

LEMMA StartBatchBase ==
  ASSUME BaseInv, NEW entries, StartBatch(entries), mpc \in {"reclaim", "poll"},
         entries \subseteq 1..cursor', pel' \subseteq 1..cursor',
         cursor' \in cursor..Len(stream),
         UNCHANGED <<wallets, rows, processed, stream, origin, cache, txRows,
                     unsettled, obj, book, locations, incoming, funds, result, faults>>,
         UNCHANGED bookDirty
  PROVE  BaseInv'
<1>1. batch' = entries /\ todo' = entries /\ mpc' = "apply"
  BY DEF StartBatch
<1>2. diverged' \in BOOLEAN /\ bookDirty' \in BOOLEAN
  BY Zenon DEF StartBatch, BaseInv, TypeOK
<1>3. cursor \in 0..Len(stream) /\ processed \subseteq 1..cursor /\ stream \in Seq(Event)
  BY DEF BaseInv, TypeOK
<1>4. processed' \subseteq 1..cursor' /\ cursor' \in 0..Len(stream')
  BY <1>3
<1>5. TypeOK'
  BY <1>1, <1>2, <1>4 DEF BaseInv, TypeOK
<1>6. PhaseInv'
  BY <1>1 DEF BaseInv, PhaseInv
<1>7. RowInv'
  BY UnchangedDb, QuietRows DEF dbVars
<1> QED  BY <1>5, <1>6, <1>7, QuietBase DEF BaseInv

LEMMA MReadPendingBase ==
  ASSUME BaseInv, MReadPending
  PROVE  BaseInv'
<1>1. /\ mpc = "reclaim"
      /\ UNCHANGED <<wallets, rows, processed, stream, cursor, pel, cache, txRows,
                     unsettled, obj, book, locations, incoming, funds, result, faults>>
  BY DEF MReadPending, dbVars, redisVars, txVars, engineVars
<1>2. UNCHANGED bookDirty
  BY DEF MReadPending
<1>3. CASE StartBatch(FirstOf(pel, BatchSize)) /\ UNCHANGED origin
  <2>1. FirstOf(pel, BatchSize) \subseteq 1..cursor' /\ pel' \subseteq 1..cursor'
    BY <1>1 DEF FirstOf, BaseInv, TypeOK
  <2>2. cursor' \in cursor..Len(stream)
    BY <1>1 DEF BaseInv, TypeOK
  <2> QED  BY <1>1, <1>2, <1>3, <2>1, <2>2, StartBatchBase
<1>4. CASE pel = {} /\ mpc' = "poll" /\ origin' = "poll" /\ UNCHANGED <<batch, todo, diverged>>
  <2>1. TypeOK'
    BY <1>1, <1>2, <1>4 DEF BaseInv, TypeOK
  <2>2. PhaseInv'
    BY <1>1, <1>4 DEF BaseInv, PhaseInv
  <2>3. RowInv'
    BY <1>1, UnchangedDb, QuietRows DEF dbVars
  <2> QED  BY <1>1, <2>1, <2>2, <2>3, QuietBase DEF BaseInv
<1> QED  BY <1>3, <1>4, Zenon DEF MReadPending

\* What XREADGROUP hands out: the entries that follow the cursor.
LEMMA ReadNewFacts ==
  ASSUME BaseInv, MReadNew
  PROVE  LET new == FirstOf((cursor + 1)..Len(stream), BatchSize) IN
         /\ new = (cursor + 1)..cursor' /\ new # {}
         /\ cursor' \in cursor..Len(stream) /\ pel' = pel \cup new
         /\ StartBatch(new)
<1> DEFINE new == FirstOf((cursor + 1)..Len(stream), BatchSize)
<1>1. new # {} /\ cursor' = cursor + Cardinality(new) /\ pel' = pel \cup new /\ StartBatch(new)
  BY DEF MReadNew
<1>2. cursor \in Nat /\ Len(stream) \in Nat /\ cursor <= Len(stream) /\ BatchSize \in Nat \ {0}
  BY BoundsAssumption DEF BaseInv, TypeOK
<1>3. /\ new = (cursor + 1)..(cursor + Cardinality(new))
      /\ Cardinality(new) \in Nat /\ cursor + Cardinality(new) <= Len(stream)
  BY <1>2, FirstOfInterval
<1> HIDE DEF new
<1>4. cursor' \in cursor..Len(stream)
  BY <1>1, <1>2, <1>3
<1> QED  BY <1>1, <1>3, <1>4 DEF new


LEMMA MReadNewBase ==
  ASSUME BaseInv, MReadNew
  PROVE  BaseInv'
<1> DEFINE new == FirstOf((cursor + 1)..Len(stream), BatchSize)
<1>1. /\ mpc = "poll"
      /\ UNCHANGED <<wallets, rows, processed, stream, origin, cache, txRows,
                     unsettled, obj, book, locations, incoming, funds, result, faults>>
  BY DEF MReadNew, dbVars, txVars, engineVars
<1>2. UNCHANGED bookDirty
  BY DEF MReadNew
<1>3. /\ new \subseteq (cursor + 1)..cursor'
      /\ cursor' \in cursor..Len(stream) /\ pel' = pel \cup new
      /\ StartBatch(new)
  BY ReadNewFacts
<1> HIDE DEF new
<1>4. cursor \in 0..Len(stream) /\ pel \subseteq 1..cursor /\ stream \in Seq(Event)
  BY DEF BaseInv, TypeOK
<1>5. new \subseteq 1..cursor' /\ pel' \subseteq 1..cursor'
  <2>1. cursor \in Nat /\ cursor' \in Nat /\ cursor <= cursor'
    BY <1>3, <1>4
  <2> QED  BY <1>3, <1>4, <2>1
<1> QED  BY <1>1, <1>2, <1>3, <1>5, StartBatchBase

LEMMA ApplyDuplicateBase ==
  ASSUME BaseInv, ApplyDuplicate
  PROVE  BaseInv'
<1>1. /\ mpc = "apply" /\ todo' \subseteq todo
      /\ UNCHANGED <<wallets, rows, processed, stream, cursor, pel, mpc, origin, batch,
                     cache, txRows, unsettled, obj, book, locations, incoming, funds,
                     result, faults>>
      /\ UNCHANGED bookDirty /\ UNCHANGED diverged
  BY DEF ApplyDuplicate, dbVars, redisVars, txVars, engineVars
<1>2. TypeOK'
  BY <1>1 DEF BaseInv, TypeOK
<1>3. PhaseInv'
  BY <1>1 DEF BaseInv, PhaseInv
<1>4. RowInv'
  BY <1>1, UnchangedDb, QuietRows DEF dbVars
<1> QED  BY <1>1, <1>2, <1>3, <1>4, QuietBase DEF BaseInv

\* The order of a NEW_ORDER event is its row's, with nothing filled.
LEMMA EventOrderFacts ==
  ASSUME BaseInv, NEW id \in DOMAIN rows
  PROVE  LET o == EventOrder(id) IN
         /\ o \in Order /\ Same(o, rows[id]) /\ Sane(o) /\ o.id = id
         /\ o.user \in Users /\ o.filled = 0 /\ o.status = "OPEN"
<1> DEFINE o == EventOrder(id)
<1>1. rows[id] \in Order /\ rows[id].id = id
  BY RowFacts
<1>2. o = [id |-> rows[id].id, user |-> rows[id].user, side |-> rows[id].side,
           type |-> rows[id].type, price |-> rows[id].price,
           quantity |-> rows[id].quantity, filled |-> 0, status |-> "OPEN"]
  <2> DEFINE w == rows[id]
  <2>1. w = [id |-> w.id, user |-> w.user, side |-> w.side, type |-> w.type,
             price |-> w.price, quantity |-> w.quantity, filled |-> w.filled,
             status |-> w.status]
    BY <1>1 DEF Order, OrderType
  <2>2. o = [w EXCEPT !.filled = 0, !.status = "OPEN"]
    BY DEF EventOrder
  <2> HIDE DEF w
  <2>3. o = [id |-> w.id, user |-> w.user, side |-> w.side, type |-> w.type,
             price |-> w.price, quantity |-> w.quantity, filled |-> 0, status |-> "OPEN"]
    BY <2>1, <2>2
  <2> QED  BY <2>3 DEF w
<1>3. o \in Order
  BY <1>1, <1>2 DEF Order, OrderType, Statuses
<1>4. rows[id].quantity # 0 /\ rows[id].quantity \in Nat
  BY <1>1 DEF Order, OrderType
<1> HIDE DEF o
<1>5. /\ o.id = rows[id].id /\ o.user = rows[id].user /\ o.side = rows[id].side
      /\ o.type = rows[id].type /\ o.price = rows[id].price
      /\ o.quantity = rows[id].quantity /\ o.filled = 0 /\ o.status = "OPEN"
  BY <1>2
<1>6. o.user \in Users
  BY <1>3 DEF Order, OrderType
<1>7. Same(o, rows[id]) /\ Sane(o)
  BY <1>4, <1>5 DEF Same, Sane
<1> QED  BY <1>1, <1>3, <1>5, <1>6, <1>7 DEF o

\* What applyNewOrder does before Match.
LEMMA ApplyNewFacts ==
  ASSUME BaseInv, ApplyNew
  PROVE  \E i \in todo \ processed :
           LET id == stream[i].id
               o  == EventOrder(id)
               r  == <<id, "event">>
               f  == IF IsBuyMarket(o) THEN AvailableBRL(View(o.user)) ELSE 0
           IN  /\ IsNext(i) /\ i \in DOMAIN stream
               /\ stream[i] = [kind |-> "NEW", id |-> id]
               /\ id \in DOMAIN rows /\ r \in Refs
               /\ todo' = todo \ {i}
               /\ DOMAIN obj' = DOMAIN obj \cup {r} /\ obj'[r] = o
               /\ \A x \in DOMAIN obj : x # r => obj'[x] = obj[x]
               /\ incoming' = r /\ funds' = f /\ f \in Int
               /\ result' = [incoming |-> r, trades |-> <<>>, touched |-> <<>>, cancelled |-> 0]
               /\ PartialFn(cache', Users, Wallet)
               /\ \A u \in Users : View(u)' = View(u)
               /\ DOMAIN cache \subseteq DOMAIN cache'
               /\ IsBuyMarket(o) => o.user \in DOMAIN cache'
<1>1. PICK i \in todo \ processed :
        /\ IsNext(i) /\ stream[i].kind = "NEW"
        /\ todo' = todo \ {i}
        /\ LET o == EventOrder(stream[i].id)
               f == IF IsBuyMarket(o) THEN AvailableBRL(View(o.user)) ELSE 0
           IN  /\ StartMatch(<<o.id, "event">>, o, f)
               /\ cache' = IF IsBuyMarket(o) THEN Put(cache, o.user, View(o.user))
                                             ELSE cache
  BY Zenon DEF ApplyNew
<1> DEFINE id == stream[i].id
           o  == EventOrder(id)
           r  == <<id, "event">>
           f  == IF IsBuyMarket(o) THEN AvailableBRL(View(o.user)) ELSE 0
<1>2. i \in DOMAIN stream /\ stream[i] \in Event
  <2>1. todo \subseteq 1..Len(stream) /\ stream \in Seq(Event)
    BY DEF BaseInv, TypeOK
  <2> QED  BY <2>1
<1>3. id \in DOMAIN rows /\ id \in Ids /\ stream[i] = [kind |-> "NEW", id |-> id]
  BY <1>1, <1>2 DEF BaseInv, RowInv, Event
<1>4. o \in Order /\ o.id = id /\ o.user \in Users
  BY <1>3, EventOrderFacts
<1>5. StartMatch(r, o, f) /\ cache' = IF IsBuyMarket(o) THEN Put(cache, o.user, View(o.user)) ELSE cache
  BY <1>1, <1>4
<1>6. r \in Refs
  BY <1>3, ObjectsAssumption
<1>7. View(o.user) \in Wallet
  BY <1>4, ViewType
<1>8. f \in Int
  BY <1>7, WalletFields DEF AvailableBRL
<1> HIDE DEF o, f, r, id
<1>9. /\ DOMAIN obj' = DOMAIN obj \cup {r} /\ obj'[r] = o
      /\ \A x \in DOMAIN obj : x # r => obj'[x] = obj[x]
      /\ incoming' = r /\ funds' = f
      /\ result' = [NoResult EXCEPT !.incoming = r]
  BY <1>5 DEF StartMatch
<1>10. result' = [incoming |-> r, trades |-> <<>>, touched |-> <<>>, cancelled |-> 0]
  BY <1>9 DEF NoResult
<1>11. UNCHANGED wallets
  BY DEF ApplyNew, dbVars
<1>12. PartialFn(cache, Users, Wallet)
  BY DEF BaseInv, TypeOK
<1>13. /\ PartialFn(cache', Users, Wallet) /\ DOMAIN cache \subseteq DOMAIN cache'
       /\ \A u \in Users : View(u)' = View(u)
       /\ IsBuyMarket(o) => o.user \in DOMAIN cache'
  <2>1. CASE IsBuyMarket(o)
    <3>1. cache' = Put(cache, o.user, View(o.user))
      BY <1>5, <2>1
    <3>2. PartialFn(cache', Users, Wallet)
      BY <1>4, <1>7, <1>12, <3>1, PutPartial
    <3>3. /\ DOMAIN cache' = DOMAIN cache \cup {o.user}
          /\ cache'[o.user] = View(o.user)
          /\ \A u \in DOMAIN cache \ {o.user} : cache'[u] = cache[u]
      BY <3>1 DEF Put, Merge
    <3> QED  BY <1>11, <2>1, <3>2, <3>3 DEF View
  <2>2. CASE ~IsBuyMarket(o)
    BY <1>5, <1>11, <1>12, <2>2 DEF View
  <2> QED  BY <2>1, <2>2
<1> QED  BY <1>1, <1>2, <1>3, <1>6, <1>8, <1>9, <1>10, <1>13 DEF o, f, r, id


LEMMA ApplyNewBase ==
  ASSUME BaseInv, ApplyNew
  PROVE  BaseInv'
<1>1. PICK i \in todo \ processed :
           LET id == stream[i].id
               o  == EventOrder(id)
               r  == <<id, "event">>
               f  == IF IsBuyMarket(o) THEN AvailableBRL(View(o.user)) ELSE 0
           IN  /\ id \in DOMAIN rows /\ r \in Refs
               /\ todo' = todo \ {i}
               /\ DOMAIN obj' = DOMAIN obj \cup {r} /\ obj'[r] = o
               /\ \A x \in DOMAIN obj : x # r => obj'[x] = obj[x]
               /\ incoming' = r /\ funds' = f /\ f \in Int
               /\ result' = [incoming |-> r, trades |-> <<>>, touched |-> <<>>, cancelled |-> 0]
               /\ PartialFn(cache', Users, Wallet)
  BY ApplyNewFacts
<1> DEFINE id == stream[i].id
           o  == EventOrder(id)
           r  == <<id, "event">>
<1>2. /\ id \in DOMAIN rows /\ r \in Refs /\ r[1] = id /\ todo' \subseteq todo
      /\ DOMAIN obj' = DOMAIN obj \cup {r} /\ obj'[r] = o
      /\ \A x \in DOMAIN obj : x # r => obj'[x] = obj[x]
      /\ incoming' = r /\ funds' \in Int
      /\ result' = [incoming |-> r, trades |-> <<>>, touched |-> <<>>, cancelled |-> 0]
      /\ PartialFn(cache', Users, Wallet)
  BY <1>1
<1>3. o \in Order /\ Same(o, rows[id]) /\ Sane(o) /\ o.status = "OPEN"
  BY <1>2, EventOrderFacts
<1> HIDE DEF o, r, id
<1>4. /\ mpc = "apply" /\ mpc' = "match"
      /\ UNCHANGED <<wallets, rows, processed, stream, cursor, pel, origin, batch,
                     txRows, unsettled, book, locations, faults>>
  BY DEF ApplyNew, dbVars, redisVars, StartMatch
<1>5. UNCHANGED bookDirty /\ UNCHANGED diverged
  BY DEF ApplyNew
<1>6. PartialFn(obj', Refs, Order)
  BY <1>2, <1>3 DEF BaseInv, TypeOK, PartialFn
<1>7. /\ result' \in MatchResult /\ result'.incoming = r /\ result'.cancelled = 0
      /\ DOMAIN result'.trades = {} /\ DOMAIN result'.touched = {} /\ Len(result'.trades) = 0
  BY <1>2 DEF MatchResult
<1>8. r # NoRef
  BY <1>2, RefsAssumption
<1>9. unsettled' = <<>>
  BY <1>4 DEF BaseInv, PhaseInv
<1>10. TypeOK'
  BY <1>2, <1>4, <1>5, <1>6, <1>7 DEF BaseInv, TypeOK
<1>11. PhaseInv'
  BY <1>2, <1>4, <1>7, <1>8, <1>9 DEF PhaseInv
<1>12. RowInv'
  <2>1. DbKept
    BY <1>4, UnchangedDb DEF dbVars
  <2>2. \A x \in DOMAIN obj' :
          x[1] \in DOMAIN rows /\ Same(obj'[x], rows[x[1]]) /\ Sane(obj'[x])
    <3>1. \A x \in DOMAIN obj :
            x[1] \in DOMAIN rows /\ Same(obj[x], rows[x[1]]) /\ Sane(obj[x])
      BY DEF BaseInv, RowInv
    <3> QED  BY <1>2, <1>3, <3>1
  <2>3. obj'[incoming'].status # "CANCELLED"
    BY <1>2, <1>3
  <2> QED  BY <1>4, <2>1, <2>2, <2>3, RowInvKept, TxRowsRows
<1>13. HeapInv'
  <2>1. Len(unsettled') = 0 /\ DOMAIN unsettled' = {}
    BY <1>9
  <2>2. \A s \in Sides, p \in Prices : \A k \in DOMAIN book[s][p] : book[s][p][k] \in DOMAIN obj'
    BY <1>2 DEF BaseInv, HeapInv
  <2>3. \A x \in DOMAIN locations : locations[x] \in DOMAIN obj' /\ locations[x][1] = x
    BY <1>2 DEF BaseInv, HeapInv
  <2> QED  BY <1>4, <1>7, <2>1, <2>2, <2>3 DEF HeapInv
<1> QED  BY <1>10, <1>11, <1>12, <1>13 DEF BaseInv

LEMMA MatchStepBase ==
  ASSUME BaseInv, MatchStep
  PROVE  BaseInv'
<1>1. /\ mpc = "match" /\ MatchOne
      /\ UNCHANGED <<wallets, rows, processed, stream, cursor, pel, mpc, origin, batch,
                     todo, cache, txRows, unsettled, faults>>
  BY DEF MatchStep, dbVars, redisVars, loopVars, txVars
<1>2. UNCHANGED bookDirty /\ UNCHANGED diverged
  BY DEF MatchStep
<1>3. PICK p \in Prices : CanTrade(p) /\ Execute(p)
  BY <1>1 DEF MatchOne
<1> DEFINE o    == obj[incoming]
           side == Opposite(o.side)
           m    == Head(book[side][p])
           q    == MatchQty(o, obj[m], p)
           tr   == [buy   |-> IF o.side = "BUY" THEN incoming ELSE m,
                    sell  |-> IF o.side = "BUY" THEN m ELSE incoming,
                    price |-> p, qty |-> q]
<1>4. /\ BookKept /\ ObjectsKept /\ incoming' = incoming /\ incoming \in DOMAIN obj
      /\ result.incoming = incoming /\ obj'[incoming].status # "CANCELLED"
      /\ funds' \in Int /\ m \in DOMAIN obj /\ q <= MaxQty
      /\ tr \in Trade /\ result' \in MatchResult
      /\ result'.incoming = result.incoming /\ result'.cancelled = result.cancelled
      /\ result'.trades = Append(result.trades, tr)
      /\ result'.touched = Append(result.touched, m)
  BY <1>1, <1>3, ExecuteBase, Zenon
<1>5. tr.buy \in DOMAIN obj /\ tr.sell \in DOMAIN obj /\ tr.qty <= MaxQty
  BY <1>4
<1> HIDE DEF o, side, m, q, tr
<1>6. DOMAIN obj' = DOMAIN obj /\ unsettled = <<>>
  BY <1>1, <1>4 DEF ObjectsKept, BaseInv, PhaseInv
<1>7. TypeOK'
  BY <1>1, <1>2, <1>4 DEF BaseInv, TypeOK, BookKept, ObjectsKept
<1>8. PhaseInv'
  BY <1>1, <1>4, <1>6 DEF BaseInv, PhaseInv
<1>9. RowInv'
  <2>1. \A x \in DOMAIN obj' :
          x[1] \in DOMAIN rows /\ Same(obj'[x], rows[x[1]]) /\ Sane(obj'[x])
    BY <1>4, ObjectsKeptRows
  <2>2. DbKept
    BY <1>1, UnchangedDb DEF dbVars
  <2> QED  BY <1>1, <1>4, <2>1, <2>2, RowInvKept, TxRowsRows
<1>10. HeapInv'
  <2>1. result.trades \in Seq(Trade) /\ result.touched \in Seq(Refs)
    BY DEF BaseInv, TypeOK, MatchResult
  <2>2. \A k \in DOMAIN result'.touched : result'.touched[k] \in DOMAIN obj
    <3>1. \A k \in DOMAIN result.touched : result.touched[k] \in DOMAIN obj
      BY DEF BaseInv, HeapInv
    <3>2. m \in Refs
      BY <1>4, ObjectFacts
    <3> QED  BY <1>4, <2>1, <3>1, <3>2
  <2>3. \A k \in DOMAIN result'.trades :
          LET t == result'.trades[k] IN
          t.buy \in DOMAIN obj /\ t.sell \in DOMAIN obj /\ t.qty <= MaxQty
    <3>1. \A k \in DOMAIN result.trades :
            LET t == result.trades[k] IN
            t.buy \in DOMAIN obj /\ t.sell \in DOMAIN obj /\ t.qty <= MaxQty
      BY DEF BaseInv, HeapInv
    <3>2. \A k \in DOMAIN result'.trades :
            \/ k \in DOMAIN result.trades /\ result'.trades[k] = result.trades[k]
            \/ result'.trades[k] = tr
      BY <1>4, <2>1
    <3> QED  BY <1>5, <3>1, <3>2
  <2>4. Len(unsettled') <= Len(result'.trades) /\ DOMAIN unsettled' = {}
    BY <1>1, <1>4, <1>6, <2>1
  <2> QED  BY <1>4, <1>6, <2>2, <2>3, <2>4 DEF HeapInv, BookKept
<1> QED  BY <1>7, <1>8, <1>9, <1>10 DEF BaseInv


\* What follows the loop of Match.
LEMMA EndMatchBase ==
  ASSUME BaseInv, mpc = "match", EndMatch
  PROVE  LET o == obj[incoming] IN
         /\ BookKept /\ ObjectsKept /\ incoming' = NoRef /\ UNCHANGED funds
         /\ incoming \in DOMAIN obj /\ result.incoming = incoming
         /\ result' \in MatchResult
         /\ result'.incoming = incoming /\ result'.trades = result.trades
         /\ result'.touched = result.touched
         /\ \A x \in DOMAIN obj : x # incoming => obj'[x] = obj[x]
         /\ \/ Remaining(o) = 0 /\ UNCHANGED <<obj, book, locations, result>>
            \/ /\ Remaining(o) > 0 /\ o.type = "LIMIT" /\ o.price \in Prices
               /\ AddResting(incoming, o) /\ UNCHANGED <<obj, result>>
            \/ /\ Remaining(o) > 0 /\ o.type = "MARKET"
               /\ obj'[incoming] = CancelOrder(o)
               /\ result'.cancelled = Remaining(o)
               /\ UNCHANGED <<book, locations>>
<1> DEFINE o == obj[incoming]
<1>1. incoming \in DOMAIN obj /\ result.incoming = incoming
  BY DEF BaseInv, PhaseInv
<1>2. /\ o \in Order /\ o.side \in Sides /\ incoming \in Refs /\ o.id = incoming[1]
      /\ o.id \in Ids /\ (o.type = "LIMIT" => o.price \in Prices) /\ Sane(o)
  BY <1>1, ObjectFacts DEF BaseInv, RowInv
<1>3. incoming' = NoRef /\ UNCHANGED funds
  BY DEF EndMatch
<1>4. /\ result \in MatchResult
      /\ result = [incoming |-> result.incoming, trades |-> result.trades,
                   touched |-> result.touched, cancelled |-> result.cancelled]
  BY DEF BaseInv, TypeOK, MatchResult
<1>5. CASE Remaining(o) = 0 /\ UNCHANGED <<obj, book, locations, result>>
  BY <1>1, <1>3, <1>4, <1>5, UnchangedBook, UnchangedObjects
<1>6. CASE Remaining(o) > 0 /\ o.type = "LIMIT" /\ AddResting(incoming, o) /\ UNCHANGED <<obj, result>>
  <2> DEFINE s == o.side
             p == o.price
  <2>1. s \in Sides /\ p \in Prices
    BY <1>2, <1>6
  <2>2. /\ book' = [book EXCEPT ![s][p] = Append(book[s][p], incoming)]
        /\ locations' = [x \in DOMAIN locations \cup {o.id} |->
                           IF x = o.id THEN incoming ELSE locations[x]]
    BY <1>6 DEF AddResting
  <2>3. /\ book \in [Sides -> [Prices -> Seq(Refs)]] /\ PartialFn(locations, Ids, Refs)
        /\ \A a \in Sides, b \in Prices : \A i \in DOMAIN book[a][b] :
             book[a][b][i] \in DOMAIN obj
        /\ \A x \in DOMAIN locations : locations[x] \in DOMAIN obj /\ locations[x][1] = x
    BY DEF BaseInv, TypeOK, HeapInv
  <2> HIDE DEF s, p, o
  <2> DEFINE t == Append(book[s][p], incoming)
  <2>4. t \in Seq(Refs) /\ \A i \in DOMAIN t : t[i] \in DOMAIN obj
    BY <1>1, <1>2, <2>1, <2>3
  <2>5. book' = [book EXCEPT ![s][p] = t]
    BY <2>2
  <2> HIDE DEF t
  <2>6. book' \in [Sides -> [Prices -> Seq(Refs)]]
    BY <2>1, <2>3, <2>4, <2>5
  <2>7. \A a \in Sides, b \in Prices :
          book'[a][b] = IF a = s /\ b = p THEN t ELSE book[a][b]
    BY <2>1, <2>3, <2>5
  <2>8. \A a \in Sides, b \in Prices : \A i \in DOMAIN book'[a][b] :
          book'[a][b][i] \in DOMAIN obj
    BY <2>3, <2>4, <2>7
  <2>9. /\ PartialFn(locations', Ids, Refs)
        /\ \A x \in DOMAIN locations' : locations'[x] \in DOMAIN obj /\ locations'[x][1] = x
    BY <1>1, <1>2, <2>2, <2>3 DEF PartialFn
  <2>10. BookKept
    BY <2>6, <2>8, <2>9 DEF BookKept
  <2> QED  BY <1>1, <1>3, <1>4, <1>6, <2>1, <2>10, UnchangedObjects DEF o, p
<1>7. CASE /\ Remaining(o) > 0 /\ o.type = "MARKET"
           /\ obj' = [obj EXCEPT ![incoming] = CancelOrder(@)]
           /\ result' = [result EXCEPT !.cancelled = Remaining(o)]
           /\ UNCHANGED <<book, locations>>
  <2>1. /\ DOMAIN obj' = DOMAIN obj /\ obj'[incoming] = CancelOrder(o)
        /\ \A x \in DOMAIN obj : x # incoming => obj'[x] = obj[x]
    BY <1>1, <1>7
  <2>2. CancelOrder(o) \in Order /\ Same(CancelOrder(o), o) /\ Sane(CancelOrder(o))
    BY <1>2, CancelKeeps
  <2>3. ObjectsKept
    <3>1. \A x \in DOMAIN obj : obj[x] \in Order /\ Sane(obj[x]) /\ x \in Refs
      BY ObjectFacts DEF BaseInv, RowInv
    <3> QED  BY <2>1, <2>2, <3>1 DEF ObjectsKept, PartialFn, Same
  <2>4. Remaining(o) \in Int
    BY <1>2, OrderAmounts
  <2>5. result' = [result EXCEPT !.cancelled = Remaining(o)]
    BY <1>7
  <2> HIDE DEF o
  <2>6. /\ result' \in MatchResult /\ result'.cancelled = Remaining(o)
        /\ result'.incoming = result.incoming /\ result'.trades = result.trades
        /\ result'.touched = result.touched
    BY <1>4, <2>4, <2>5 DEF MatchResult
  <2> QED  BY <1>1, <1>3, <1>7, <2>1, <2>3, <2>6, UnchangedBook DEF o
<1> QED  BY <1>5, <1>6, <1>7, Zenon DEF EndMatch

LEMMA MatchDoneBase ==
  ASSUME BaseInv, MatchDone
  PROVE  BaseInv'
<1>1. /\ mpc = "match" /\ EndMatch /\ unsettled' = result.trades /\ mpc' = "settle"
      /\ UNCHANGED <<wallets, rows, processed, stream, cursor, pel, origin, batch,
                     todo, cache, txRows, faults>>
  BY DEF MatchDone, dbVars, redisVars
<1>2. UNCHANGED bookDirty /\ UNCHANGED diverged
  BY DEF MatchDone
<1>3. /\ BookKept /\ ObjectsKept /\ incoming' = NoRef /\ UNCHANGED funds
      /\ incoming \in DOMAIN obj /\ result.incoming = incoming
      /\ result' \in MatchResult
      /\ result'.incoming = incoming /\ result'.trades = result.trades
      /\ result'.touched = result.touched
  BY <1>1, EndMatchBase, Zenon
<1>4. result.trades \in Seq(Trade) /\ DOMAIN obj' = DOMAIN obj
  BY <1>3 DEF BaseInv, TypeOK, MatchResult, ObjectsKept
<1>5. TypeOK'
  BY <1>1, <1>2, <1>3, <1>4 DEF BaseInv, TypeOK, BookKept, ObjectsKept
<1>6. PhaseInv'
  BY <1>1, <1>3, <1>4 DEF BaseInv, PhaseInv
<1>7. RowInv'
  <2>1. \A x \in DOMAIN obj' :
          x[1] \in DOMAIN rows /\ Same(obj'[x], rows[x[1]]) /\ Sane(obj'[x])
    BY <1>3, ObjectsKeptRows
  <2>2. DbKept
    BY <1>1, UnchangedDb DEF dbVars
  <2> QED  BY <1>1, <1>3, <2>1, <2>2, RowInvKept, TxRowsRows
<1>8. HeapInv'
  <2>1. /\ \A k \in DOMAIN result.touched : result.touched[k] \in DOMAIN obj
        /\ \A k \in DOMAIN result.trades :
             LET t == result.trades[k] IN
             t.buy \in DOMAIN obj /\ t.sell \in DOMAIN obj /\ t.qty <= MaxQty
    BY DEF BaseInv, HeapInv
  <2>2. /\ Len(unsettled') <= Len(result'.trades)
        /\ \A k \in DOMAIN unsettled' :
             unsettled'[k] = result'.trades[Len(result'.trades) - Len(unsettled') + k]
    BY <1>1, <1>3, <1>4
  <2> QED  BY <1>3, <1>4, <2>1, <2>2 DEF HeapInv, BookKept
<1> QED  BY <1>5, <1>6, <1>7, <1>8 DEF BaseInv

LEMMA SettleTradeBase ==
  ASSUME BaseInv, SettleTrade
  PROVE  BaseInv'
<1>1. /\ mpc = "settle" /\ unsettled # <<>> /\ unsettled' = Tail(unsettled)
      /\ UNCHANGED <<wallets, rows, processed, stream, cursor, pel, mpc, origin, batch,
                     todo, txRows, obj, book, locations, incoming, funds, result, faults>>
  BY DEF SettleTrade, dbVars, redisVars, loopVars, engineVars
<1>2. UNCHANGED bookDirty /\ UNCHANGED diverged
  BY DEF SettleTrade
<1>3. PartialFn(cache', Users, Wallet)
  BY SettleTradeFacts
<1>4. /\ Tail(unsettled) \in Seq(Trade) /\ Len(Tail(unsettled)) = Len(unsettled) - 1
      /\ \A j \in DOMAIN Tail(unsettled) : Tail(unsettled)[j] = unsettled[j + 1]
  BY <1>1, HeadFacts
<1>5. TypeOK'
  BY <1>1, <1>2, <1>3, <1>4 DEF BaseInv, TypeOK
<1>6. PhaseInv'
  BY <1>1 DEF BaseInv, PhaseInv
<1>7. RowInv'
  BY <1>1, UnchangedDb, QuietRows DEF dbVars
<1>8. HeapInv'
  <2>1. /\ unsettled \in Seq(Trade) /\ result.trades \in Seq(Trade)
        /\ Len(unsettled) <= Len(result.trades)
        /\ \A k \in DOMAIN unsettled :
             unsettled[k] = result.trades[Len(result.trades) - Len(unsettled) + k]
    BY DEF BaseInv, HeapInv, TypeOK, MatchResult
  <2> DEFINE t == Tail(unsettled)
  <2>2. /\ Len(t) <= Len(result.trades) /\ DOMAIN t = 1..Len(t) /\ Len(t) \in Nat
        /\ DOMAIN unsettled = 1..Len(unsettled) /\ Len(unsettled) \in Nat
        /\ Len(result.trades) \in Nat
    BY <1>1, <1>4, <2>1
  <2>3. ASSUME NEW k \in DOMAIN t
        PROVE  t[k] = result.trades[Len(result.trades) - Len(t) + k]
    <3>1. k + 1 \in DOMAIN unsettled /\ t[k] = unsettled[k + 1]
      BY <1>4, <2>2
    <3>2. Len(result.trades) - Len(unsettled) + (k + 1) = Len(result.trades) - Len(t) + k
      BY <1>4, <2>2
    <3> QED  BY <2>1, <3>1, <3>2
  <2> HIDE DEF t
  <2>4. unsettled' = t
    BY <1>1 DEF t
  <2> QED  BY <1>1, <2>2, <2>3, <2>4 DEF BaseInv, HeapInv
<1> QED  BY <1>5, <1>6, <1>7, <1>8 DEF BaseInv


\* The rows that orderRepo.Update writes: each is the last of the objects
\* with its id.
LEMMA WriteRowsFacts ==
  ASSUME BaseInv, NEW list \in Seq(Refs), \A i \in DOMAIN list : list[i] \in DOMAIN obj,
         WriteRows(list)
  PROVE  /\ DOMAIN txRows' = DOMAIN txRows \cup {list[i][1] : i \in DOMAIN list}
         /\ \A id \in {list[i][1] : i \in DOMAIN list} :
              \E i \in DOMAIN list : list[i][1] = id /\ txRows'[id] = obj[list[i]]
         /\ \A id \in DOMAIN txRows : id \notin {list[i][1] : i \in DOMAIN list} =>
              txRows'[id] = txRows[id]
<1> DEFINE last(id) == CHOOSE i \in DOMAIN list :
                         /\ obj[list[i]].id = id
                         /\ \A j \in DOMAIN list : obj[list[j]].id = id => j <= i
           S == {list[i][1] : i \in DOMAIN list}
           g == [id \in S |-> obj[list[last(id)]]]
<1>1. \A i \in DOMAIN list : obj[list[i]].id = list[i][1]
  BY ObjectFacts
<1>2. {obj[list[i]].id : i \in DOMAIN list} = S
  BY <1>1
<1>3. txRows' = Merge(txRows, [id \in {obj[list[i]].id : i \in DOMAIN list} |->
                                 obj[list[last(id)]]])
  BY Zenon DEF WriteRows
<1>4. txRows' = Merge(txRows, g)
  BY <1>2, <1>3
<1>5. ASSUME NEW id \in S
      PROVE  last(id) \in DOMAIN list /\ obj[list[last(id)]].id = id
  <2> DEFINE T == {i \in DOMAIN list : obj[list[i]].id = id}
  <2>1. T # {} /\ T \subseteq 1..Len(list) /\ Len(list) \in Nat
    BY <1>1
  <2>2. \E m \in T : \A k \in T : k <= m
    <3> HIDE DEF T
    <3> QED  BY <2>1, GreatestBelow
  <2>3. \E i \in DOMAIN list :
          /\ obj[list[i]].id = id
          /\ \A j \in DOMAIN list : obj[list[j]].id = id => j <= i
    BY <2>2
  <2> QED  BY <2>3
<1>6. \A id \in S : last(id) \in DOMAIN list /\ list[last(id)][1] = id
  BY <1>1, <1>5
<1>7. DOMAIN g = S /\ \A id \in S : g[id] = obj[list[last(id)]]
  OBVIOUS
<1> HIDE DEF g, last, S
<1>8. /\ DOMAIN txRows' = DOMAIN txRows \cup S
      /\ \A id \in S : txRows'[id] = g[id]
      /\ \A id \in DOMAIN txRows : id \notin S => txRows'[id] = txRows[id]
  BY <1>4, <1>7 DEF Merge
<1>9. \A id \in S : \E i \in DOMAIN list : list[i][1] = id /\ txRows'[id] = obj[list[i]]
  BY <1>6, <1>7, <1>8
<1> QED  BY <1>8, <1>9 DEF S

\* The end of applyNewOrder.
LEMMA FinishFacts ==
  ASSUME BaseInv, FinishOrder
  PROVE  LET list == Append(result.touched, result.incoming) IN
         /\ list \in Seq(Refs) /\ \A i \in DOMAIN list : list[i] \in DOMAIN obj
         /\ WriteRows(list)
         /\ DOMAIN list = 1..(Len(result.touched) + 1) /\ Len(result.touched) \in Nat
         /\ list[Len(result.touched) + 1] = result.incoming
         /\ \A i \in DOMAIN result.touched : i \in DOMAIN list /\ list[i] = result.touched[i]
         /\ PartialFn(cache', Users, Wallet)
         /\ \A u \in Users :
              /\ Holding(View(u)') = Holding(View(u))
              /\ View(u)'.reservedBRL = View(u).reservedBRL
              /\ View(u)'.brl = View(u).brl
              /\ View(u)'.reservedVibranium = View(u).reservedVibranium
                   - (IF u = Taker.user THEN Remainder ELSE 0)
         /\ Remainder \in Int
<1> DEFINE list == Append(result.touched, result.incoming)
<1>1. /\ mpc = "settle" /\ unsettled = <<>> /\ WriteRows(list) /\ UNCHANGED wallets
      /\ \/ Remainder = 0 /\ UNCHANGED cache
         \/ /\ CanReleaseVibranium(View(Taker.user), Remainder)
            /\ cache' = Put(cache, Taker.user, ReleaseVibranium(View(Taker.user), Remainder))
  BY DEF FinishOrder, dbVars
<1>2. result.incoming \in DOMAIN obj /\ Taker.user \in Users
  BY <1>1, TakerFacts
<1>3. result.touched \in Seq(Refs) /\ result.incoming \in Refs /\ result.cancelled \in Int
  BY <1>2, ObjectFacts DEF BaseInv, TypeOK, MatchResult
<1>4. \A i \in DOMAIN result.touched : result.touched[i] \in DOMAIN obj
  BY DEF BaseInv, HeapInv
<1>5. /\ list \in Seq(Refs) /\ \A i \in DOMAIN list : list[i] \in DOMAIN obj
      /\ DOMAIN list = 1..(Len(result.touched) + 1) /\ Len(result.touched) \in Nat
      /\ list[Len(result.touched) + 1] = result.incoming
      /\ \A i \in DOMAIN result.touched : i \in DOMAIN list /\ list[i] = result.touched[i]
  BY <1>2, <1>3, <1>4
<1> HIDE DEF list
<1>6. Remainder \in Int
  BY <1>3 DEF Remainder
<1>7. PartialFn(cache, Users, Wallet)
  BY DEF BaseInv, TypeOK
<1>8. \A u \in Users : View(u) \in Wallet /\ View(u).reservedVibranium \in Nat
  BY ViewType, WalletFields
<1>9. CASE Remainder = 0 /\ UNCHANGED cache
  <2>1. \A u \in Users : View(u)' = View(u)
    BY <1>1, <1>9 DEF View
  <2>2. \A u \in Users :
          View(u)'.reservedVibranium = View(u).reservedVibranium
                   - (IF u = Taker.user THEN Remainder ELSE 0)
    BY <1>8, <1>9, <2>1
  <2> QED  BY <1>1, <1>5, <1>6, <1>7, <1>9, <2>1, <2>2 DEF list
<1>10. CASE /\ CanReleaseVibranium(View(Taker.user), Remainder)
            /\ cache' = Put(cache, Taker.user, ReleaseVibranium(View(Taker.user), Remainder))
  <2> DEFINE v == Taker.user
             n == ReleaseVibranium(View(v), Remainder)
  <2>1. Remainder > 0 /\ Remainder <= View(v).reservedVibranium
    BY <1>10 DEF CanReleaseVibranium
  <2>2. /\ n \in Wallet /\ Holding(n) = Holding(View(v)) /\ n.brl = View(v).brl
        /\ n.reservedBRL = View(v).reservedBRL
        /\ n.reservedVibranium = View(v).reservedVibranium - Remainder
    BY <1>2, <1>6, <1>8, <2>1, ReleaseVibraniumKeeps
  <2>3. cache' = Put(cache, v, n)
    BY <1>10
  <2>4. v \in Users
    BY <1>2
  <2> HIDE DEF v, n
  <2>5. PartialFn(cache', Users, Wallet)
    BY <1>7, <2>2, <2>3, <2>4, PutPartial
  <2>6. /\ DOMAIN cache' = DOMAIN cache \cup {v} /\ cache'[v] = n
        /\ \A u \in DOMAIN cache \ {v} : cache'[u] = cache[u]
    BY <2>3 DEF Put, Merge
  <2>7. \A u \in Users : View(u)' = IF u = v THEN n ELSE View(u)
    BY <1>1, <2>4, <2>6 DEF View
  <2>8. \A u \in Users :
              /\ Holding(View(u)') = Holding(View(u))
              /\ View(u)'.reservedBRL = View(u).reservedBRL
              /\ View(u)'.brl = View(u).brl
              /\ View(u)'.reservedVibranium = View(u).reservedVibranium
                   - (IF u = v THEN Remainder ELSE 0)
    BY <1>8, <2>2, <2>7
  <2> QED  BY <1>1, <1>5, <1>6, <2>5, <2>8 DEF v, list
<1> QED  BY <1>1, <1>9, <1>10


LEMMA FinishOrderBase ==
  ASSUME BaseInv, FinishOrder
  PROVE  BaseInv'
<1> DEFINE list == Append(result.touched, result.incoming)
<1>1. /\ mpc = "settle" /\ unsettled = <<>> /\ mpc' = "apply" /\ funds' = 0 /\ result' = NoResult
      /\ UNCHANGED <<wallets, rows, processed, stream, cursor, pel, origin, batch, todo,
                     unsettled, obj, book, locations, incoming, faults>>
  BY DEF FinishOrder, dbVars, redisVars
<1>2. UNCHANGED bookDirty /\ UNCHANGED diverged
  BY DEF FinishOrder
<1>3. /\ list \in Seq(Refs) /\ \A i \in DOMAIN list : list[i] \in DOMAIN obj
      /\ WriteRows(list) /\ PartialFn(cache', Users, Wallet)
  BY FinishFacts
<1> HIDE DEF list
<1>4. /\ DOMAIN txRows' = DOMAIN txRows \cup {list[i][1] : i \in DOMAIN list}
      /\ \A id \in {list[i][1] : i \in DOMAIN list} :
           \E i \in DOMAIN list : list[i][1] = id /\ txRows'[id] = obj[list[i]]
      /\ \A id \in DOMAIN txRows : id \notin {list[i][1] : i \in DOMAIN list} =>
           txRows'[id] = txRows[id]
  BY <1>3, WriteRowsFacts
<1>5. ASSUME NEW id \in DOMAIN txRows'
      PROVE  /\ id \in DOMAIN rows /\ Same(txRows'[id], rows[id]) /\ Sane(txRows'[id])
             /\ txRows'[id] \in Order
  <2>1. CASE \E i \in DOMAIN list : list[i][1] = id /\ txRows'[id] = obj[list[i]]
    <3>1. PICK i \in DOMAIN list : list[i][1] = id /\ txRows'[id] = obj[list[i]]
      BY <2>1
    <3>2. list[i] \in DOMAIN obj
      BY <1>3
    <3>3. Sane(obj[list[i]])
      BY <3>2 DEF BaseInv, RowInv
    <3> QED  BY <3>1, <3>2, <3>3, ObjectFacts
  <2>2. CASE id \in DOMAIN txRows /\ txRows'[id] = txRows[id]
    <3>1. txRows[id] \in Order
      BY <2>2 DEF BaseInv, TypeOK, PartialFn
    <3> QED  BY <2>2, <3>1, TxRowsRows
  <2> QED  BY <1>4, <2>1, <2>2
<1>6. PartialFn(txRows', Ids, Order)
  BY <1>5, RowFacts DEF PartialFn
<1>7. TypeOK'
  BY <1>1, <1>2, <1>3, <1>6, NoResultFacts DEF BaseInv, TypeOK
<1>8. PhaseInv'
  BY <1>1 DEF BaseInv, PhaseInv
<1>9. RowInv'
  <2>1. DbKept
    BY <1>1, UnchangedDb DEF dbVars
  <2>2. \A x \in DOMAIN obj' :
          x[1] \in DOMAIN rows /\ Same(obj'[x], rows[x[1]]) /\ Sane(obj'[x])
    BY <1>1, UnchangedObjects, ObjectsKeptRows
  <2>3. incoming' = NoRef
    BY <1>1 DEF BaseInv, PhaseInv
  <2> QED  BY <1>1, <1>5, <2>1, <2>2, <2>3, RowInvKept
<1>10. HeapInv'
  <2>1. Len(unsettled') = 0 /\ DOMAIN unsettled' = {}
    BY <1>1
  <2> QED  BY <1>1, <2>1, NoResultFacts DEF BaseInv, HeapInv
<1> QED  BY <1>7, <1>8, <1>9, <1>10 DEF BaseInv

\* The end of a transaction, however the database looks afterwards and
\* wherever the matcher goes on.
LEMMA EndTxBase ==
  ASSUME BaseInv, DbKept, EndTx, stream' = stream, cursor' = cursor,
         pel' \subseteq pel, faults' \in 0..MaxFaults,
         bookDirty' \in BOOLEAN, diverged' \in BOOLEAN,
         mpc' \in {"down", "resync", "reclaim", "poll"},
         origin' \in {"boot", "poll", "retry"},
         funds' \in Int, result' = NoResult, incoming' = NoRef,
         \/ BookKept /\ ObjectsKept
         \/ obj' = Nothing /\ book' = EmptyBook /\ locations' = Nothing
  PROVE  BaseInv'
<1>1. /\ batch' = {} /\ todo' = {} /\ cache' = Nothing /\ txRows' = Nothing
      /\ unsettled' = <<>>
  BY DEF EndTx
<1>2. DOMAIN txRows' = {} /\ Len(unsettled') = 0 /\ DOMAIN unsettled' = {}
      /\ unsettled' \in Seq(Trade)
  BY <1>1, NothingFacts
<1>3. PartialFn(obj', Refs, Order) /\ PartialFn(locations', Ids, Refs)
      /\ book' \in [Sides -> [Prices -> Seq(Refs)]]
  BY NothingFacts, EmptyBookFacts DEF BookKept, ObjectsKept
<1>4. TypeOK'
  <2>1. PartialFn(cache', Users, Wallet) /\ PartialFn(txRows', Ids, Order)
    BY <1>1, NothingFacts
  <2>2. result' \in MatchResult
    BY NoResultFacts
  <2>3. /\ batch' \subseteq 1..cursor' /\ todo' \subseteq batch' /\ pel' \subseteq 1..cursor'
        /\ cursor' \in 0..Len(stream') /\ stream' \in Seq(Event) /\ processed' \subseteq 1..cursor'
    BY <1>1 DEF BaseInv, TypeOK, DbKept
  <2>4. wallets' \in [Users -> Wallet] /\ PartialFn(rows', Ids, Order)
    BY DEF DbKept
  <2> QED  BY <1>2, <1>3, <2>1, <2>2, <2>3, <2>4 DEF TypeOK
<1>5. PhaseInv'
  BY <1>1 DEF PhaseInv
<1>6. RowInv'
  <2>1. \A x \in DOMAIN obj' :
          x[1] \in DOMAIN rows /\ Same(obj'[x], rows[x[1]]) /\ Sane(obj'[x])
    BY NothingFacts, ObjectsKeptRows
  <2> QED  BY <1>2, <2>1, RowInvKept
<1>7. HeapInv'
  <2>1. /\ \A s \in Sides, p \in Prices : \A i \in DOMAIN book'[s][p] :
             book'[s][p][i] \in DOMAIN obj'
        /\ \A id \in DOMAIN locations' :
             locations'[id] \in DOMAIN obj' /\ locations'[id][1] = id
    <3>1. CASE BookKept /\ ObjectsKept
      BY <3>1 DEF BookKept, ObjectsKept
    <3>2. CASE obj' = Nothing /\ book' = EmptyBook /\ locations' = Nothing
      BY <3>2, NothingFacts, EmptyBookFacts
    <3> QED  BY <3>1, <3>2
  <2> QED  BY <1>2, <2>1, NoResultFacts DEF HeapInv
<1> QED  BY <1>4, <1>5, <1>6, <1>7 DEF BaseInv

\* The process exits.
LEMMA DieBase ==
  ASSUME BaseInv, DbKept, Die, UNCHANGED <<stream, cursor, pel>>,
         faults' \in 0..MaxFaults, UNCHANGED diverged
  PROVE  BaseInv'
<1>1. /\ mpc' = "down" /\ origin' = "boot" /\ EndTx
      /\ obj' = Nothing /\ book' = EmptyBook /\ locations' = Nothing
      /\ incoming' = NoRef /\ funds' = 0 /\ result' = NoResult
  BY DEF Die
<1>2. bookDirty' \in BOOLEAN /\ diverged' \in BOOLEAN
  BY Zenon DEF Die, BaseInv, TypeOK
<1> QED  BY <1>1, <1>2, EndTxBase

\* An error of applyBatch in the main loop or in recoverAfterFailure.
LEMMA FailBase ==
  ASSUME BaseInv, DbKept, UNCHANGED <<stream, cursor, pel>>,
         faults' \in 0..MaxFaults, UNCHANGED diverged, incoming' = NoRef,
         mpc' = IF origin = "poll" THEN "resync" ELSE "poll",
         origin' = IF origin = "poll" THEN "retry" ELSE "poll",
         bookDirty' = TRUE, funds' = 0, result' = NoResult, EndTx,
         BookKept, ObjectsKept
  PROVE  BaseInv'
<1>1. /\ mpc' \in {"down", "resync", "reclaim", "poll"}
      /\ origin' \in {"boot", "poll", "retry"}
  OBVIOUS
<1>2. bookDirty' \in BOOLEAN /\ diverged' \in BOOLEAN
  BY Zenon DEF BaseInv, TypeOK
<1> QED  BY <1>1, <1>2, EndTxBase

LEMMA FailBatchBase ==
  ASSUME BaseInv, DbKept, UNCHANGED <<stream, cursor, pel>>, mpc \in {"apply", "settle"},
         faults' \in 0..MaxFaults, UNCHANGED diverged,
         FailBatch(UNCHANGED <<obj, book, locations, incoming>>)
  PROVE  BaseInv'
<1>1. CASE Die
  BY <1>1, DieBase
<1>2. CASE ~Die
  <2>1. /\ mpc' = IF origin = "poll" THEN "resync" ELSE "poll"
        /\ origin' = IF origin = "poll" THEN "retry" ELSE "poll"
        /\ bookDirty' = TRUE
        /\ funds' = 0 /\ result' = NoResult
        /\ EndTx
        /\ UNCHANGED <<obj, book, locations, incoming>>
    BY <1>2, Zenon DEF FailBatch
  <2>2. incoming' = NoRef
    BY <2>1 DEF BaseInv, PhaseInv
  <2> QED  BY <2>1, <2>2, FailBase, UnchangedBook, UnchangedObjects
<1> QED  BY <1>1, <1>2


LEMMA SettleRejectBase ==
  ASSUME BaseInv, SettleReject
  PROVE  BaseInv'
<1>1. /\ mpc = "settle" /\ FailBatch(UNCHANGED <<obj, book, locations, incoming>>)
      /\ UNCHANGED <<wallets, rows, processed, stream, cursor, pel, faults>>
      /\ UNCHANGED diverged
  BY DEF SettleReject, dbVars, redisVars
<1>2. DbKept /\ faults' \in 0..MaxFaults
  BY <1>1, UnchangedDb DEF dbVars, BaseInv, TypeOK
<1> QED  BY <1>1, <1>2, FailBatchBase

\* Flush makes the transaction's versions of the rows durable.
LEMMA FlushFacts ==
  ASSUME BaseInv, Flush
  PROVE  /\ DbKept /\ wallets' = [u \in Users |-> View(u)]
         /\ processed' = processed \cup batch
         /\ DOMAIN rows' = DOMAIN rows
         /\ \A id \in DOMAIN rows : rows'[id] = RowView(id)
<1>1. /\ wallets' = [u \in Users |-> View(u)] /\ rows' = Merge(rows, txRows)
      /\ processed' = processed \cup batch
  BY DEF Flush
<1>2. DOMAIN txRows \subseteq DOMAIN rows
  BY TxRowsRows
<1>3. DOMAIN rows' = DOMAIN rows /\ \A id \in DOMAIN rows : rows'[id] = RowView(id)
  BY <1>1, <1>2 DEF Merge, RowView
<1>4. \A id \in DOMAIN rows : Same(rows'[id], rows[id]) /\ Sane(rows'[id])
  <2>1. \A id \in DOMAIN rows : Sane(rows[id])
    BY DEF BaseInv, RowInv
  <2> QED  BY <1>3, <2>1, TxRowsRows DEF RowView, Same
<1>5. wallets' \in [Users -> Wallet]
  BY <1>1, ViewType
<1>6. PartialFn(rows', Ids, Order)
  BY <1>3 DEF RowView, BaseInv, TypeOK, PartialFn
<1>7. processed' \subseteq 1..cursor
  BY <1>1 DEF BaseInv, TypeOK
<1>8. DbKept
  BY <1>3, <1>4, <1>5, <1>6, <1>7 DEF DbKept
<1> QED  BY <1>1, <1>3, <1>8

LEMMA MCommitBase ==
  ASSUME BaseInv, MCommit
  PROVE  BaseInv'
<1>1. /\ mpc = "apply" /\ Flush /\ pel' = pel \ batch /\ EndTx
      /\ mpc' = IF origin = "poll" THEN "poll" ELSE "reclaim"
      /\ UNCHANGED <<stream, cursor, origin, obj, book, locations, incoming, funds,
                     result, faults>>
  BY DEF MCommit, engineVars
<1>2. bookDirty' \in BOOLEAN /\ diverged' \in BOOLEAN
  BY Zenon DEF MCommit, BaseInv, TypeOK
<1>3. DbKept
  BY <1>1, FlushFacts
<1>4. incoming' = NoRef /\ result' = NoResult
  BY <1>1 DEF BaseInv, PhaseInv
<1>5. /\ funds' \in Int /\ faults' \in 0..MaxFaults /\ origin' \in {"boot", "poll", "retry"}
      /\ mpc' \in {"down", "resync", "reclaim", "poll"} /\ pel' \subseteq pel
  BY <1>1 DEF BaseInv, TypeOK
<1>6. BookKept /\ ObjectsKept
  BY <1>1, UnchangedBook, UnchangedObjects
<1> QED  BY <1>1, <1>2, <1>3, <1>4, <1>5, <1>6, EndTxBase

LEMMA FaultFacts ==
  ASSUME BaseInv, NEW kind, Fault(kind)
  PROVE  faults' \in 0..MaxFaults
BY BoundsAssumption DEF Fault, BaseInv, TypeOK

LEMMA MFaultBase ==
  ASSUME BaseInv, MFault
  PROVE  BaseInv'
<1>1. /\ mpc \in {"apply", "settle"} /\ FailBatch(UNCHANGED <<obj, book, locations, incoming>>)
      /\ UNCHANGED <<stream, cursor, pel>> /\ UNCHANGED diverged
      /\ (Fault("apply") /\ UNCHANGED dbVars) \/ (Fault("commit") /\ Flush)
  BY DEF MFault, redisVars
<1>2. faults' \in 0..MaxFaults /\ DbKept
  BY <1>1, FaultFacts, FlushFacts, UnchangedDb
<1> QED  BY <1>1, <1>2, FailBatchBase

LEMMA MCrashBase ==
  ASSUME BaseInv, MCrash
  PROVE  BaseInv'
<1>1. /\ Fault("crash") /\ Die /\ UNCHANGED dbVars /\ UNCHANGED <<stream, cursor, pel>>
      /\ UNCHANGED diverged
  BY DEF MCrash, redisVars
<1> QED  BY <1>1, FaultFacts, UnchangedDb, DieBase

\* What applyCancel does to an order that is located.
LEMMA ApplyCancelCases ==
  ASSUME BaseInv, ApplyCancel
  PROVE  \E i \in todo \ processed :
           LET id == stream[i].id
               r  == locations[id]
               o  == obj[r]
           IN  /\ IsNext(i) /\ i \in DOMAIN stream /\ stream[i].kind = "CANCEL"
               /\ \/ /\ id \notin DOMAIN locations
                     /\ todo' = todo \ {i}
                     /\ UNCHANGED <<mpc, origin, batch, cache, txRows, unsettled, obj,
                                    book, locations, incoming, funds, result>>
                     /\ UNCHANGED bookDirty
                  \/ /\ id \in DOMAIN locations /\ r \in DOMAIN obj
                     /\ CanRelease(View(o.user), o)
                     /\ CancelResting(id)
                     /\ cache' = Put(cache, o.user, Release(View(o.user), o))
                     /\ txRows' = Put(txRows, id, CancelOrder(o))
                     /\ todo' = todo \ {i}
                     /\ UNCHANGED <<mpc, origin, batch, unsettled>>
                     /\ UNCHANGED bookDirty
                  \/ /\ id \in DOMAIN locations
                     /\ ~CanRelease(View(o.user), o)
                     /\ FailBatch(CancelResting(id))
<1>1. PICK i \in todo \ processed :
       /\ IsNext(i) /\ stream[i].kind = "CANCEL"
       /\ LET id == stream[i].id
              o  == obj[locations[id]]
          IN
          \/ /\ id \notin DOMAIN locations
             /\ todo' = todo \ {i}
             /\ UNCHANGED <<mpc, origin, batch, txVars, engineVars, bookDirty>>
          \/ /\ id \in DOMAIN locations
             /\ CanRelease(View(o.user), o)
             /\ CancelResting(id)
             /\ cache' = Put(cache, o.user, Release(View(o.user), o))
             /\ txRows' = Put(txRows, id, CancelOrder(o))
             /\ todo' = todo \ {i}
             /\ UNCHANGED <<mpc, origin, batch, unsettled, bookDirty>>
          \/ /\ id \in DOMAIN locations
             /\ ~CanRelease(View(o.user), o)
             /\ FailBatch(CancelResting(id))
  BY Zenon DEF ApplyCancel
<1>2. i \in DOMAIN stream
  <2>1. todo \subseteq 1..Len(stream) /\ stream \in Seq(Event)
    BY DEF BaseInv, TypeOK
  <2> QED  BY <2>1
<1> DEFINE id == stream[i].id
           o  == obj[locations[id]]
<1>3. CASE /\ id \notin DOMAIN locations
           /\ todo' = todo \ {i}
           /\ UNCHANGED <<mpc, origin, batch, txVars, engineVars, bookDirty>>
  <2>1. /\ UNCHANGED <<mpc, origin, batch, cache, txRows, unsettled, obj,
                       book, locations, incoming, funds, result>>
        /\ UNCHANGED bookDirty
    BY <1>3, Zenon DEF txVars, engineVars
  <2> QED  BY <1>1, <1>2, <1>3, <2>1, Zenon
<1>4. CASE /\ id \in DOMAIN locations
           /\ CanRelease(View(o.user), o)
           /\ CancelResting(id)
           /\ cache' = Put(cache, o.user, Release(View(o.user), o))
           /\ txRows' = Put(txRows, id, CancelOrder(o))
           /\ todo' = todo \ {i}
           /\ UNCHANGED <<mpc, origin, batch, unsettled, bookDirty>>
  <2>1. locations[id] \in DOMAIN obj
    BY <1>4 DEF BaseInv, HeapInv
  <2>2. UNCHANGED <<mpc, origin, batch, unsettled>> /\ UNCHANGED bookDirty
    BY <1>4, Zenon
  <2> QED  BY <1>1, <1>2, <1>4, <2>1, <2>2, Zenon
<1>5. CASE /\ id \in DOMAIN locations
           /\ ~CanRelease(View(o.user), o)
           /\ FailBatch(CancelResting(id))
  BY <1>1, <1>2, <1>5, Zenon
<1> QED  BY <1>1, <1>3, <1>4, <1>5, Zenon


\* The wallets and the rows after the cancellation of a located order.
LEMMA CancelFacts ==
  ASSUME BaseInv, NEW r \in DOMAIN obj, NEW id, id = r[1],
         CanRelease(View(obj[r].user), obj[r]),
         cache' = Put(cache, obj[r].user, Release(View(obj[r].user), obj[r])),
         txRows' = Put(txRows, id, CancelOrder(obj[r])), UNCHANGED wallets
  PROVE  LET o == obj[r] IN
         /\ PartialFn(cache', Users, Wallet) /\ o.user \in Users
         /\ \A u \in Users : View(u)' = IF u = o.user THEN Release(View(u), o) ELSE View(u)
         /\ \A u \in Users : Holding(View(u)') = Holding(View(u))
         /\ DOMAIN txRows' = DOMAIN txRows \cup {id} /\ txRows'[id] = CancelOrder(o)
         /\ \A x \in DOMAIN txRows \ {id} : txRows'[x] = txRows[x]
         /\ PartialFn(txRows', Ids, Order)
         /\ \A x \in DOMAIN txRows' :
              x \in DOMAIN rows /\ Same(txRows'[x], rows[x]) /\ Sane(txRows'[x])
<1> DEFINE o == obj[r]
           n == Release(View(o.user), o)
<1>1. /\ o \in Order /\ o.user \in Users /\ id \in DOMAIN rows /\ id \in Ids
      /\ Same(o, rows[id]) /\ Sane(o)
  BY ObjectFacts DEF BaseInv, RowInv
<1>2. View(o.user) \in Wallet
  BY <1>1, ViewType
<1>3. n \in Wallet /\ Holding(n) = Holding(View(o.user))
  BY <1>1, <1>2, ReleaseKeeps
<1>4. /\ CancelOrder(o) \in Order /\ Same(CancelOrder(o), o) /\ Sane(CancelOrder(o))
  BY <1>1, CancelKeeps
<1>5. cache' = Put(cache, o.user, n) /\ txRows' = Put(txRows, id, CancelOrder(o))
  OBVIOUS
<1> DEFINE c == CancelOrder(o)
           v == o.user
<1>6. Same(c, rows[id])
  <2> HIDE DEF o
  <2> QED  BY <1>1, <1>4 DEF Same
<1> HIDE DEF o, n, v, c
<1>7. PartialFn(cache', Users, Wallet) /\ PartialFn(txRows', Ids, Order)
  <2>1. PartialFn(cache, Users, Wallet) /\ PartialFn(txRows, Ids, Order)
    BY DEF BaseInv, TypeOK
  <2> QED  BY <1>1, <1>3, <1>4, <1>5, <2>1, PutPartial DEF v
<1>8. /\ DOMAIN cache' = DOMAIN cache \cup {v} /\ cache'[v] = n
      /\ \A u \in DOMAIN cache \ {v} : cache'[u] = cache[u]
  BY <1>5 DEF Put, Merge, v
<1>9. \A u \in Users : View(u)' = IF u = v THEN n ELSE View(u)
  BY <1>8 DEF View
<1>10. \A u \in Users : Holding(View(u)') = Holding(View(u))
  BY <1>3, <1>9 DEF v
<1>11. /\ DOMAIN txRows' = DOMAIN txRows \cup {id} /\ txRows'[id] = c
       /\ \A x \in DOMAIN txRows \ {id} : txRows'[x] = txRows[x]
  BY <1>5 DEF Put, Merge, c
<1>12. \A x \in DOMAIN txRows' :
         x \in DOMAIN rows /\ Same(txRows'[x], rows[x]) /\ Sane(txRows'[x])
  BY <1>1, <1>4, <1>6, <1>11, TxRowsRows DEF c
<1>13. \A u \in Users : View(u)' = IF u = o.user THEN Release(View(u), o) ELSE View(u)
  BY <1>9 DEF n, v
<1> QED  BY <1>1, <1>7, <1>10, <1>11, <1>12, <1>13 DEF o, c

LEMMA ApplyCancelBase ==
  ASSUME BaseInv, ApplyCancel
  PROVE  BaseInv'
<1>1. /\ mpc = "apply" /\ UNCHANGED <<wallets, rows, processed, stream, cursor, pel, faults>>
  BY DEF ApplyCancel, dbVars, redisVars
<1>2. UNCHANGED diverged
  BY DEF ApplyCancel
<1>3. PICK i \in todo \ processed :
           LET id == stream[i].id
               r  == locations[id]
               o  == obj[r]
           IN  /\ IsNext(i) /\ i \in DOMAIN stream /\ stream[i].kind = "CANCEL"
               /\ \/ /\ id \notin DOMAIN locations
                     /\ todo' = todo \ {i}
                     /\ UNCHANGED <<mpc, origin, batch, cache, txRows, unsettled, obj,
                                    book, locations, incoming, funds, result>>
                     /\ UNCHANGED bookDirty
                  \/ /\ id \in DOMAIN locations /\ r \in DOMAIN obj
                     /\ CanRelease(View(o.user), o)
                     /\ CancelResting(id)
                     /\ cache' = Put(cache, o.user, Release(View(o.user), o))
                     /\ txRows' = Put(txRows, id, CancelOrder(o))
                     /\ todo' = todo \ {i}
                     /\ UNCHANGED <<mpc, origin, batch, unsettled>>
                     /\ UNCHANGED bookDirty
                  \/ /\ id \in DOMAIN locations
                     /\ ~CanRelease(View(o.user), o)
                     /\ FailBatch(CancelResting(id))
  BY ApplyCancelCases, Zenon
<1> DEFINE id == stream[i].id
           r  == locations[id]
           o  == obj[r]
<1>4. DbKept
  BY <1>1, UnchangedDb DEF dbVars
<1>5. CASE /\ todo' = todo \ {i}
           /\ UNCHANGED <<mpc, origin, batch, cache, txRows, unsettled, obj,
                          book, locations, incoming, funds, result>>
           /\ UNCHANGED bookDirty
  <2>1. TypeOK'
    BY <1>1, <1>2, <1>5 DEF BaseInv, TypeOK
  <2>2. PhaseInv'
    BY <1>1, <1>5 DEF BaseInv, PhaseInv
  <2>3. RowInv'
    BY <1>1, <1>4, <1>5, QuietRows
  <2> QED  BY <1>5, <2>1, <2>2, <2>3, QuietBase DEF BaseInv
<1>6. CASE /\ id \in DOMAIN locations /\ r \in DOMAIN obj
           /\ CanRelease(View(o.user), o)
           /\ CancelResting(id)
           /\ cache' = Put(cache, o.user, Release(View(o.user), o))
           /\ txRows' = Put(txRows, id, CancelOrder(o))
           /\ todo' = todo \ {i}
           /\ UNCHANGED <<mpc, origin, batch, unsettled>>
           /\ UNCHANGED bookDirty
  <2>1. BookKept /\ ObjectsKept /\ UNCHANGED <<incoming, funds, result>>
    BY <1>6, CancelRestingBase
  <2>2. id = r[1]
    BY <1>6 DEF BaseInv, HeapInv
  <2>3. /\ PartialFn(cache', Users, Wallet) /\ PartialFn(txRows', Ids, Order)
        /\ \A x \in DOMAIN txRows' :
             x \in DOMAIN rows /\ Same(txRows'[x], rows[x]) /\ Sane(txRows'[x])
    BY <1>1, <1>6, <2>2, CancelFacts
  <2>4. /\ todo' \subseteq todo /\ UNCHANGED <<mpc, origin, batch, unsettled>>
        /\ UNCHANGED bookDirty
    BY <1>6
  <2> HIDE DEF id, r, o
  <2>5. incoming = NoRef
    BY <1>1 DEF BaseInv, PhaseInv
  <2>6. TypeOK'
    BY <1>1, <1>2, <2>1, <2>3, <2>4 DEF BaseInv, TypeOK, BookKept, ObjectsKept
  <2>7. PhaseInv'
    BY <1>1, <2>1, <2>4 DEF BaseInv, PhaseInv
  <2>8. RowInv'
    BY <1>1, <1>4, <2>1, <2>3, <2>5, RowInvKept, ObjectsKeptRows
  <2>9. HeapInv'
    <3>1. DOMAIN obj' = DOMAIN obj
      BY <2>1 DEF ObjectsKept
    <3> QED  BY <2>1, <2>4, <3>1 DEF BaseInv, HeapInv, BookKept
  <2> QED  BY <2>6, <2>7, <2>8, <2>9 DEF BaseInv
<1>7. CASE FailBatch(CancelResting(id))
  <2>1. faults' \in 0..MaxFaults
    BY <1>1 DEF BaseInv, TypeOK
  <2>2. CASE Die
    BY <1>1, <1>2, <1>4, <2>1, <2>2, DieBase
  <2>3. CASE ~Die
    <3>1. /\ mpc' = IF origin = "poll" THEN "resync" ELSE "poll"
          /\ origin' = IF origin = "poll" THEN "retry" ELSE "poll"
          /\ bookDirty' = TRUE
          /\ funds' = 0 /\ result' = NoResult
          /\ EndTx
          /\ CancelResting(id)
      BY <1>7, <2>3, Zenon DEF FailBatch
    <3>2. BookKept /\ ObjectsKept /\ UNCHANGED incoming
      BY <3>1, CancelRestingBase
    <3>3. incoming' = NoRef
      BY <1>1, <3>2 DEF BaseInv, PhaseInv
    <3> QED  BY <1>1, <1>2, <1>4, <2>1, <3>1, <3>2, <3>3, FailBase
  <2> QED  BY <2>2, <2>3
<1> QED  BY <1>3, <1>5, <1>6, <1>7, Zenon


LEMMA StutterBase ==
  ASSUME BaseInv, UNCHANGED vars
  PROVE  BaseInv'
<1>1. /\ UNCHANGED <<obj, book, locations, incoming, funds, result, wallets, rows,
                     processed, stream, cursor, pel, mpc, origin, batch, todo, cache,
                     txRows, unsettled, faults>>
      /\ UNCHANGED bookDirty /\ UNCHANGED diverged
  BY DEF vars
<1>2. TypeOK'
  BY <1>1 DEF BaseInv, TypeOK
<1>3. PhaseInv'
  BY <1>1 DEF BaseInv, PhaseInv
<1>4. RowInv'
  BY <1>1, UnchangedDb, QuietRows DEF dbVars
<1> QED  BY <1>1, <1>2, <1>3, <1>4, QuietBase DEF BaseInv

LEMMA NextBase ==
  ASSUME BaseInv, [Next]_vars
  PROVE  BaseInv'
<1>1. CASE DOMAIN rows # Ids
           /\ \E o \in PlacedOrders(NewId, Users, Prices, 1..MaxQty) : Place(o)
  BY <1>1, PlaceBase
<1>2. CASE \E id \in Ids : Cancel(id)
  BY <1>2, CancelBase
<1>3. CASE MBoot \/ MResync
  BY <1>3, RecoverBase
<1>4. CASE MReadPending
  BY <1>4, MReadPendingBase
<1>5. CASE MReadNew
  BY <1>5, MReadNewBase
<1>6. CASE ApplyDuplicate
  BY <1>6, ApplyDuplicateBase
<1>7. CASE ApplyNew
  BY <1>7, ApplyNewBase
<1>8. CASE MatchStep
  BY <1>8, MatchStepBase
<1>9. CASE MatchDone
  BY <1>9, MatchDoneBase
<1>10. CASE SettleTrade
  BY <1>10, SettleTradeBase
<1>11. CASE SettleReject
  BY <1>11, SettleRejectBase
<1>12. CASE FinishOrder
  BY <1>12, FinishOrderBase
<1>13. CASE ApplyCancel
  BY <1>13, ApplyCancelBase
<1>14. CASE MCommit
  BY <1>14, MCommitBase
<1>15. CASE MFault
  BY <1>15, MFaultBase
<1>16. CASE MCrash
  BY <1>16, MCrashBase
<1>17. CASE UNCHANGED vars
  BY <1>17, StutterBase
<1> QED
  BY <1>1, <1>2, <1>3, <1>4, <1>5, <1>6, <1>7, <1>8, <1>9, <1>10, <1>11, <1>12,
     <1>13, <1>14, <1>15, <1>16, <1>17, Zenon DEF Next

\* The first part of the invariant holds in every state, whatever the Book is
\* like: the matcher's references lead to objects, its objects are versions
\* of order rows, and it holds a transaction only inside of a batch.
THEOREM BaseInvariant == Spec => []BaseInv
<1>1. Init => BaseInv
  BY InitBase
<1>2. BaseInv /\ [Next]_vars => BaseInv'
  BY NextBase
<1> QED  BY <1>1, <1>2, PTL DEF Spec

\* Every variable has its type; no balance and no reservation is ever
\* negative, in Postgres or in the matcher's cache.
THEOREM TypeCorrect == Spec => []TypeOK
<1>1. BaseInv => TypeOK
  BY DEF BaseInv
<1> QED  BY <1>1, BaseInvariant, PTL


----------------------------------------------------------------------------
(* The exchange implements Custody *)

Position == [u \in Users |-> Holding(wallets[u])]
Pending == [u \in Users |-> Holding(View(u))]

\* What a step does to what the users hold.
Still ==
  \A u \in Users : /\ Holding(wallets'[u]) = Holding(wallets[u])
                   /\ Holding(View(u)') = Holding(View(u))

Durable ==
  \A u \in Users : /\ Holding(wallets'[u]) = Holding(View(u))
                   /\ Holding(View(u)') = Holding(View(u))

Undone ==
  \A u \in Users : /\ Holding(wallets'[u]) = Holding(wallets[u])
                   /\ Holding(View(u)') = Holding(wallets[u])

\* What the trade that is settled takes from one user it gives to the other.
Exchanged ==
  LET tr == Head(unsettled)
      b  == obj[tr.buy].user
      s  == obj[tr.sell].user
      c  == tr.price * tr.qty
  IN  /\ b \in Users /\ s \in Users /\ tr.price \in Prices /\ tr.qty \in 1..MaxQty
      /\ c \in Nat
      /\ c <= Holding(View(b)).brl /\ tr.qty <= Holding(View(s)).vibranium
      /\ \A u \in Users :
           /\ Holding(wallets'[u]) = Holding(wallets[u])
           /\ Holding(View(u)').brl
                = Holding(View(u)).brl + Custodian!Gain(u, s, b, c)
           /\ Holding(View(u)').vibranium
                = Holding(View(u)).vibranium + Custodian!Gain(u, b, s, tr.qty)

LEMMA StillWhenUnchanged ==
  ASSUME UNCHANGED <<wallets, cache>>
  PROVE  Still
BY DEF Still, View

LEMMA UndoneWhenEnded ==
  ASSUME UNCHANGED wallets, EndTx
  PROVE  Undone
<1>1. DOMAIN cache' = {}
  BY NothingFacts DEF EndTx
<1> QED  BY <1>1 DEF Undone, View

LEMMA DurableWhenFlushed ==
  ASSUME BaseInv, Flush, EndTx
  PROVE  Durable
<1>1. DOMAIN cache' = {}
  BY NothingFacts DEF EndTx
<1>2. wallets' = [u \in Users |-> View(u)]
  BY FlushFacts
<1>3. \A u \in Users : wallets'[u] = View(u)
  BY <1>2
<1> QED  BY <1>1, <1>3 DEF Durable, View

LEMMA PlaceStill ==
  ASSUME BaseInv, DOMAIN rows # Ids,
         NEW o \in PlacedOrders(NewId, Users, Prices, 1..MaxQty), Place(o)
  PROVE  Still
<1>1. /\ o.user \in Users /\ o.user \notin DOMAIN cache
      /\ wallets' = [wallets EXCEPT ![o.user] = Reserve(wallets[o.user], o)]
      /\ Holding(Reserve(wallets[o.user], o)) = Holding(wallets[o.user])
  BY PlaceFacts
<1>2. UNCHANGED cache
  BY DEF Place, Publish, txVars
<1>3. DOMAIN wallets = Users
  BY DEF BaseInv, TypeOK
<1>4. \A u \in Users : Holding(wallets'[u]) = Holding(wallets[u])
  BY <1>1, <1>3
<1>5. \A u \in Users : u \notin DOMAIN cache => View(u)' = wallets'[u]
  BY <1>2 DEF View
<1>6. \A u \in Users : u \in DOMAIN cache => View(u)' = View(u)
  BY <1>2 DEF View
<1>7. \A u \in Users : u \notin DOMAIN cache => View(u) = wallets[u]
  BY DEF View
<1> QED  BY <1>4, <1>5, <1>6, <1>7 DEF Still

LEMMA SettleExchanged ==
  ASSUME BaseInv, SettleTrade
  PROVE  Exchanged
<1> DEFINE tr == Head(unsettled)
           b  == obj[tr.buy].user
           s  == obj[tr.sell].user
           c  == tr.price * tr.qty
           d  == IF IsBuyMarket(Taker) THEN -c ELSE Released(tr)
           e  == IF ~IsBuyMarket(Taker) THEN c + Released(tr) ELSE 0
<1>1. /\ mpc = "settle" /\ unsettled # <<>> /\ UNCHANGED wallets
  BY DEF SettleTrade, dbVars
<1>2. b \in Users /\ s \in Users /\ tr.price \in Prices /\ tr.qty \in Int
  BY <1>1, HeadFacts
<1>3. /\ tr.qty \in 1..MaxQty /\ c \in Nat /\ Released(tr) \in Nat
      /\ PartialFn(cache', Users, Wallet)
      /\ c <= Holding(View(b)).brl /\ tr.qty <= Holding(View(s)).vibranium
      /\ \A u \in Users :
              /\ View(u)'.brl = View(u).brl + (IF u = s THEN c ELSE 0)
                   + (IF u = b THEN d ELSE 0)
              /\ View(u)'.reservedBRL = View(u).reservedBRL
                   - (IF u = b /\ ~IsBuyMarket(Taker) THEN c + Released(tr) ELSE 0)
              /\ View(u)'.vibranium = View(u).vibranium + (IF u = b THEN tr.qty ELSE 0)
              /\ View(u)'.reservedVibranium = View(u).reservedVibranium
                   - (IF u = s THEN tr.qty ELSE 0)
  BY SettleTradeFacts
<1>4. \A u \in Users : View(u) \in Wallet /\ View(u)' \in Wallet
  BY <1>1, <1>3, ViewType DEF View, PartialFn
<1> HIDE DEF tr, b, s, c
<1>5. ASSUME NEW u \in Users
      PROVE  /\ Holding(View(u)').brl
                  = Holding(View(u)).brl + Custodian!Gain(u, s, b, c)
             /\ Holding(View(u)').vibranium
                  = Holding(View(u)).vibranium + Custodian!Gain(u, b, s, tr.qty)
  <2>1. /\ View(u).brl \in Nat /\ View(u).reservedBRL \in Nat
        /\ View(u).vibranium \in Nat /\ View(u).reservedVibranium \in Nat
    BY <1>4, WalletFields
  <2> DEFINE w == View(u)
             n == View(u)'
  <2>2. /\ n.brl = w.brl + (IF u = s THEN c ELSE 0) + (IF u = b THEN d ELSE 0)
        /\ n.reservedBRL = w.reservedBRL - (IF u = b THEN e ELSE 0)
        /\ n.vibranium = w.vibranium + (IF u = b THEN tr.qty ELSE 0)
        /\ n.reservedVibranium = w.reservedVibranium - (IF u = s THEN tr.qty ELSE 0)
        /\ d - e = -c /\ d \in Int /\ e \in Int
    BY <1>3
  <2>3. /\ Holding(n).brl = n.brl + n.reservedBRL
        /\ Holding(n).vibranium = n.vibranium + n.reservedVibranium
        /\ Holding(w).brl = w.brl + w.reservedBRL
        /\ Holding(w).vibranium = w.vibranium + w.reservedVibranium
    BY DEF Holding
  <2> HIDE DEF w, n, d, e
  <2>4. w.brl \in Nat /\ w.reservedBRL \in Nat /\ w.vibranium \in Nat /\ w.reservedVibranium \in Nat
    BY <2>1 DEF w
  <2>5. Holding(n).brl = Holding(w).brl + (IF u = s THEN c ELSE 0) - (IF u = b THEN c ELSE 0)
    BY <1>3, <2>2, <2>3, <2>4
  <2>6. Holding(n).vibranium = Holding(w).vibranium + (IF u = b THEN tr.qty ELSE 0)
                                 - (IF u = s THEN tr.qty ELSE 0)
    BY <1>2, <2>2, <2>3, <2>4
  <2>7. /\ Holding(n).brl = Holding(w).brl + Custodian!Gain(u, s, b, c)
        /\ Holding(n).vibranium = Holding(w).vibranium + Custodian!Gain(u, b, s, tr.qty)
    BY <1>2, <1>3, <2>3, <2>4, <2>5, <2>6 DEF Custodian!Gain
  <2> QED  BY <2>7 DEF w, n
<1>6. \A u \in Users : Holding(wallets'[u]) = Holding(wallets[u])
  BY <1>1
<1> QED  BY <1>2, <1>3, <1>5, <1>6 DEF Exchanged, tr, b, s, c


\* What every step does to what the users hold.
LEMMA NextHoldings ==
  ASSUME BaseInv, [Next]_vars
  PROVE  Still \/ Durable \/ Undone \/ Exchanged
<1>1. CASE DOMAIN rows # Ids
           /\ \E o \in PlacedOrders(NewId, Users, Prices, 1..MaxQty) : Place(o)
  BY <1>1, PlaceStill
<1>2. CASE \E id \in Ids : Cancel(id)
  <2>1. UNCHANGED <<wallets, cache>>
    BY <1>2 DEF Cancel, Publish, txVars
  <2> QED  BY <2>1, StillWhenUnchanged
<1>3. CASE MBoot \/ MResync \/ MReadPending \/ MReadNew
  <2>1. UNCHANGED <<wallets, cache>>
    BY <1>3 DEF MBoot, MResync, MReadPending, MReadNew, dbVars, txVars
  <2> QED  BY <2>1, StillWhenUnchanged
<1>4. CASE ApplyDuplicate \/ MatchStep \/ MatchDone
  <2>1. UNCHANGED <<wallets, cache>>
    BY <1>4 DEF ApplyDuplicate, MatchStep, MatchDone, dbVars, txVars
  <2> QED  BY <2>1, StillWhenUnchanged
<1>5. CASE ApplyNew
  <2>1. UNCHANGED wallets
    BY <1>5 DEF ApplyNew, dbVars
  <2>2. \A u \in Users : View(u)' = View(u)
    BY <1>5, ApplyNewFacts
  <2> QED  BY <2>1, <2>2 DEF Still
<1>6. CASE SettleTrade
  BY <1>6, SettleExchanged
<1>7. CASE SettleReject
  <2>1. UNCHANGED wallets /\ EndTx
    BY <1>7 DEF SettleReject, FailBatch, Die, dbVars
  <2> QED  BY <2>1, UndoneWhenEnded
<1>8. CASE FinishOrder
  <2>1. UNCHANGED wallets
    BY <1>8 DEF FinishOrder, dbVars
  <2>2. \A u \in Users : Holding(View(u)') = Holding(View(u))
    BY <1>8, FinishFacts
  <2> QED  BY <2>1, <2>2 DEF Still
<1>9. CASE ApplyCancel
  <2>1. UNCHANGED wallets
    BY <1>9 DEF ApplyCancel, dbVars
  <2>2. \/ UNCHANGED cache
        \/ \A u \in Users : Holding(View(u)') = Holding(View(u))
        \/ EndTx
    <3>1. PICK i \in todo \ processed :
           LET id == stream[i].id
               r  == locations[id]
               o  == obj[r]
           IN     \/ UNCHANGED cache
                  \/ /\ id \in DOMAIN locations /\ r \in DOMAIN obj
                     /\ CanRelease(View(o.user), o)
                     /\ cache' = Put(cache, o.user, Release(View(o.user), o))
                     /\ txRows' = Put(txRows, id, CancelOrder(o))
                  \/ FailBatch(CancelResting(id))
      BY <1>9, ApplyCancelCases
    <3> DEFINE id == stream[i].id
               r  == locations[id]
               o  == obj[r]
    <3>2. CASE FailBatch(CancelResting(id))
      BY <3>2 DEF FailBatch, Die
    <3>3. CASE /\ id \in DOMAIN locations /\ r \in DOMAIN obj
               /\ CanRelease(View(o.user), o)
               /\ cache' = Put(cache, o.user, Release(View(o.user), o))
               /\ txRows' = Put(txRows, id, CancelOrder(o))
      <4>1. id = r[1]
        BY <3>3 DEF BaseInv, HeapInv
      <4> QED  BY <2>1, <3>3, <4>1, CancelFacts
    <3> QED  BY <3>1, <3>2, <3>3
  <2> QED  BY <2>1, <2>2, StillWhenUnchanged, UndoneWhenEnded DEF Still
<1>10. CASE MCommit
  <2>1. Flush /\ EndTx
    BY <1>10 DEF MCommit
  <2> QED  BY <2>1, DurableWhenFlushed
<1>11. CASE MFault
  <2>1. EndTx /\ (UNCHANGED wallets \/ Flush)
    BY <1>11 DEF MFault, FailBatch, Die, dbVars
  <2> QED  BY <2>1, DurableWhenFlushed, UndoneWhenEnded
<1>12. CASE MCrash
  <2>1. UNCHANGED wallets /\ EndTx
    BY <1>12 DEF MCrash, Die, dbVars
  <2> QED  BY <2>1, UndoneWhenEnded
<1>13. CASE UNCHANGED vars
  <2>1. UNCHANGED <<wallets, cache>>
    BY <1>13 DEF vars
  <2> QED  BY <2>1, StillWhenUnchanged
<1> QED
  BY <1>1, <1>2, <1>3, <1>4, <1>5, <1>6, <1>7, <1>8, <1>9, <1>10, <1>11, <1>12,
     <1>13, Zenon DEF Next

\* Each of these is a step of Custody, or none.
LEMMA CustodyStep ==
  ASSUME BaseInv, [Next]_vars
  PROVE  [Custodian!Next]_<<Position, Pending>>
<1>1. /\ Position' = [u \in Users |-> Holding(wallets'[u])]
      /\ Pending' = [u \in Users |-> Holding(View(u)')]
  BY DEF Position, Pending
<1>2. CASE Still
  BY <1>1, <1>2 DEF Still, Position, Pending
<1>3. CASE Durable
  <2>1. Position' = Pending /\ Pending' = Pending
    BY <1>1, <1>3 DEF Durable, Pending
  <2> QED  BY <2>1 DEF Custodian!Next, Custodian!Commit, Position, Pending
<1>4. CASE Undone
  <2>1. Position' = Position /\ Pending' = Position
    BY <1>1, <1>4 DEF Undone, Position
  <2> QED  BY <2>1 DEF Custodian!Next, Custodian!Rollback, Position, Pending
<1>5. CASE Exchanged
  <2> DEFINE tr == Head(unsettled)
             b  == obj[tr.buy].user
             s  == obj[tr.sell].user
             p  == tr.price
             q  == tr.qty
  <2>1. /\ b \in Users /\ s \in Users /\ p \in Prices /\ q \in 1..MaxQty
        /\ p * q <= Holding(View(b)).brl /\ q <= Holding(View(s)).vibranium
        /\ \A u \in Users :
             /\ Holding(wallets'[u]) = Holding(wallets[u])
             /\ Holding(View(u)').brl = Holding(View(u)).brl + Custodian!Gain(u, s, b, p * q)
             /\ Holding(View(u)').vibranium
                  = Holding(View(u)).vibranium + Custodian!Gain(u, b, s, q)
    BY <1>5, Zenon DEF Exchanged
  <2> HIDE DEF tr, b, s, p, q
  <2>2. Position' = Position
    BY <1>1, <2>1 DEF Position
  <2>3. \A u \in Users : Holding(View(u)') =
          [brl       |-> Pending[u].brl + Custodian!Gain(u, s, b, p * q),
           vibranium |-> Pending[u].vibranium + Custodian!Gain(u, b, s, q)]
    <3>1. \A w : Holding(w) = [brl |-> Holding(w).brl, vibranium |-> Holding(w).vibranium]
      BY DEF Holding
    <3>2. \A u \in Users : Pending[u] = Holding(View(u))
      BY DEF Pending
    <3> QED  BY <2>1, <3>1, <3>2
  <2>4. Pending' = [u \in Users |->
          [brl       |-> Pending[u].brl + Custodian!Gain(u, s, b, p * q),
           vibranium |-> Pending[u].vibranium + Custodian!Gain(u, b, s, q)]]
    BY <1>1, <2>3
  <2>5. Pending[b].brl >= p * q /\ Pending[s].vibranium >= q
    <3>1. Holding(View(b)).brl \in Int /\ Holding(View(s)).vibranium \in Int
      <4>1. View(b) \in Wallet /\ View(s) \in Wallet
        BY <2>1, ViewType
      <4>2. /\ View(b).brl \in Nat /\ View(b).reservedBRL \in Nat
            /\ View(s).vibranium \in Nat /\ View(s).reservedVibranium \in Nat
        BY <4>1, WalletFields
      <4> QED  BY <4>2, HoldingFields
    <3>2. p * q \in Int /\ q \in Int
      <4>1. p \in Int /\ q \in Int
        BY <2>1, PricesAssumption
      <4> QED  BY <4>1
    <3> QED  BY <2>1, <3>1, <3>2 DEF Pending
  <2>6. Custodian!Trade(b, s, p, q)
    BY <2>2, <2>4, <2>5 DEF Custodian!Trade, Position, Pending
  <2>7. Custodian!Next
    BY <2>1, <2>6 DEF Custodian!Next
  <2> QED  BY <2>7
<1> QED  BY <1>2, <1>3, <1>4, <1>5, NextHoldings


LEMMA CustodyInit ==
  ASSUME Init
  PROVE  Custodian!Init
<1>1. wallets = [u \in Users |-> NewWallet] /\ cache = Nothing
  BY DEF Init
<1>2. Holding(NewWallet) = [brl |-> Deposit.brl + 0, vibranium |-> Deposit.vibranium + 0]
  BY DEF Holding, NewWallet
<1>3. Holding(NewWallet) = Deposit
  BY <1>2, DepositAssumption
<1>4. \A u \in Users : wallets[u] = NewWallet /\ View(u) = NewWallet
  BY <1>1, NothingFacts DEF View
<1> QED  BY <1>3, <1>4 DEF Custodian!Init

\* The exchange is a custodian. Whatever the requests, the batches, the
\* failures and the restarts, and whatever Book the matcher works with, what
\* users hold changes only by trades that both sides can pay for, which become
\* durable together or not at all.
THEOREM ExchangeImplementsCustody == Spec => ImplementsCustody
<1>1. Init => Custodian!Init
  BY CustodyInit
<1>2. BaseInv /\ [Next]_vars => [Custodian!Next]_<<Position, Pending>>
  BY CustodyStep
<1>3. BaseInv /\ [Next]_vars =>
        [Custodian!Next]_<<[u \in Users |-> Holding(wallets[u])],
                           [u \in Users |-> Holding(View(u))]>>
  BY <1>2 DEF Position, Pending
<1> QED  BY <1>1, <1>3, BaseInvariant, PTL DEF Spec, ImplementsCustody, Custodian!Spec

----------------------------------------------------------------------------
(* Nothing is created or destroyed *)

\* A gain of one user that is another's loss does not change the total.
LEMMA GainTotal ==
  ASSUME NEW f, NEW g, \A u \in Users : f[u] \in Int, NEW x \in Users, NEW y \in Users,
         NEW c \in Int, \A u \in Users : g[u] = f[u] + Custodian!Gain(u, x, y, c)
  PROVE  Total(g, Users) = Total(f, Users)
<1> DEFINE m == [u \in Users |-> f[u] + (IF u = x THEN c ELSE 0)]
<1>1. IsFiniteSet(Users)
  BY FiniteAssumption
<1>2. \A u \in Users : m[u] \in Int /\ g[u] \in Int /\ m[u] = f[u] + (IF u = x THEN c ELSE 0)
                       /\ g[u] = m[u] - (IF u = y THEN c ELSE 0)
  BY DEF Custodian!Gain
<1> HIDE DEF m
<1>3. Total(m, Users) = Total(f, Users) + (m[x] - f[x])
  <2>1. \A u \in Users \ {x} : f[u] = m[u]
    BY <1>2
  <2> QED  BY <1>1, <1>2, <2>1, TotalChange
<1>4. Total(g, Users) = Total(m, Users) + (g[y] - m[y])
  <2>1. \A u \in Users \ {y} : m[u] = g[u]
    BY <1>2
  <2> QED  BY <1>1, <1>2, <2>1, TotalChange
<1>5. m[x] - f[x] = c /\ g[y] - m[y] = -c
  BY <1>2
<1>6. Total(f, Users) \in Int /\ Total(m, Users) \in Int
  BY <1>1, <1>2, TotalInt
<1> QED  BY <1>3, <1>4, <1>5, <1>6

Held(asset) == Total([u \in Users |-> Holding(wallets[u])[asset]], Users)
HeldView(asset) == Total([u \in Users |-> Holding(View(u))[asset]], Users)

\* What is in Postgres and what the matcher's transaction sees both add up to
\* what was deposited: a rollback goes back to the first, a commit to the
\* second.
ConservedInv ==
  \A asset \in Assets : /\ Held(asset) = Cardinality(Users) * Deposit[asset]
                        /\ HeldView(asset) = Cardinality(Users) * Deposit[asset]

LEMMA ConservedInit ==
  ASSUME Init
  PROVE  ConservedInv
<1>1. Position = [u \in Users |-> Deposit] /\ Pending = [u \in Users |-> Deposit]
  BY CustodyInit DEF Custodian!Init, Position, Pending
<1>2. \A u \in Users : Holding(wallets[u]) = Deposit /\ Holding(View(u)) = Deposit
  BY <1>1 DEF Position, Pending
<1>3. ASSUME NEW asset \in Assets
      PROVE  /\ Held(asset) = Cardinality(Users) * Deposit[asset]
             /\ HeldView(asset) = Cardinality(Users) * Deposit[asset]
  <2>1. Deposit[asset] \in Int
    BY DepositAssumption DEF Assets
  <2> DEFINE f == [u \in Users |-> Holding(wallets[u])[asset]]
             g == [u \in Users |-> Holding(View(u))[asset]]
  <2>2. \A u \in Users : f[u] = Deposit[asset] /\ g[u] = Deposit[asset]
    BY <1>2
  <2> HIDE DEF f, g
  <2>3. /\ Total(f, Users) = Cardinality(Users) * Deposit[asset]
        /\ Total(g, Users) = Cardinality(Users) * Deposit[asset]
    BY <2>1, <2>2, FiniteAssumption, TotalConstant
  <2> QED  BY <2>3 DEF f, g, Held, HeldView
<1> QED  BY <1>3 DEF ConservedInv

LEMMA ConservedStep ==
  ASSUME BaseInv, ConservedInv, [Next]_vars
  PROVE  ConservedInv'
<1>1. SUFFICES ASSUME NEW asset \in Assets
               PROVE  /\ Held(asset)' = Cardinality(Users) * Deposit[asset]
                      /\ HeldView(asset)' = Cardinality(Users) * Deposit[asset]
  BY DEF ConservedInv
<1> DEFINE f == [u \in Users |-> Holding(wallets[u])[asset]]
           g == [u \in Users |-> Holding(View(u))[asset]]
           fn == [u \in Users |-> Holding(wallets'[u])[asset]]
           gn == [u \in Users |-> Holding(View(u)')[asset]]
<1>2. /\ Held(asset) = Total(f, Users) /\ HeldView(asset) = Total(g, Users)
      /\ Held(asset)' = Total(fn, Users) /\ HeldView(asset)' = Total(gn, Users)
  BY DEF Held, HeldView
<1>3. /\ Total(f, Users) = Cardinality(Users) * Deposit[asset]
      /\ Total(g, Users) = Cardinality(Users) * Deposit[asset]
  BY <1>2 DEF ConservedInv
<1>4. CASE Still
  <2>1. fn = f /\ gn = g
    BY <1>4 DEF Still
  <2> QED  BY <1>2, <1>3, <2>1
<1>5. CASE Durable
  <2>1. fn = g /\ gn = g
    BY <1>5 DEF Durable
  <2> QED  BY <1>2, <1>3, <2>1
<1>6. CASE Undone
  <2>1. fn = f /\ gn = f
    BY <1>6 DEF Undone
  <2> QED  BY <1>2, <1>3, <2>1
<1>7. CASE Exchanged
  <2> DEFINE tr == Head(unsettled)
             b  == obj[tr.buy].user
             s  == obj[tr.sell].user
             c  == tr.price * tr.qty
             q  == tr.qty
  <2>1. /\ b \in Users /\ s \in Users /\ q \in 1..MaxQty /\ c \in Nat
        /\ \A u \in Users :
             /\ Holding(wallets'[u]) = Holding(wallets[u])
             /\ Holding(View(u)').brl = Holding(View(u)).brl + Custodian!Gain(u, s, b, c)
             /\ Holding(View(u)').vibranium
                  = Holding(View(u)).vibranium + Custodian!Gain(u, b, s, q)
    BY <1>7, Zenon DEF Exchanged
  <2> HIDE DEF tr, b, s, c, q
  <2>2. fn = f
    BY <2>1
  <2>3. \A u \in Users : Holding(View(u)).brl \in Int /\ Holding(View(u)).vibranium \in Int
    <3>1. \A u \in Users : View(u) \in Wallet
      BY ViewType
    <3>2. \A u \in Users : /\ View(u).brl \in Nat /\ View(u).reservedBRL \in Nat
                           /\ View(u).vibranium \in Nat /\ View(u).reservedVibranium \in Nat
      BY <3>1, WalletFields
    <3> QED  BY <3>2, HoldingFields
  <2>4. CASE asset = "brl"
    <3>1. /\ \A u \in Users : g[u] \in Int
          /\ \A u \in Users : gn[u] = g[u] + Custodian!Gain(u, s, b, c)
      BY <2>1, <2>3, <2>4
    <3> HIDE DEF f, g, gn
    <3>2. b \in Users /\ s \in Users /\ c \in Int
      BY <2>1
    <3>3. Total(gn, Users) = Total(g, Users)
      BY <3>1, <3>2, GainTotal
    <3> QED  BY <1>2, <1>3, <2>2, <3>3
  <2>5. CASE asset = "vibranium"
    <3>1. /\ \A u \in Users : g[u] \in Int
          /\ \A u \in Users : gn[u] = g[u] + Custodian!Gain(u, b, s, q)
      BY <2>1, <2>3, <2>5
    <3> HIDE DEF f, g, gn
    <3>2. b \in Users /\ s \in Users /\ q \in Int
      BY <2>1
    <3>3. Total(gn, Users) = Total(g, Users)
      BY <3>1, <3>2, GainTotal
    <3> QED  BY <1>2, <1>3, <2>2, <3>3
  <2> QED  BY <2>4, <2>5 DEF Assets
<1> QED  BY <1>4, <1>5, <1>6, <1>7, NextHoldings

\* Nothing is created or destroyed: all the wallets together hold what was
\* deposited, in Postgres and at every point of a batch.
THEOREM MoneyIsConserved == Spec => []MoneyConserved
<1>1. Init => ConservedInv
  BY ConservedInit
<1>2. BaseInv /\ ConservedInv /\ [Next]_vars => ConservedInv'
  BY ConservedStep
<1>3. ConservedInv => MoneyConserved
  BY DEF ConservedInv, MoneyConserved, HeldView, Assets
<1> QED  BY <1>1, <1>2, <1>3, BaseInvariant, PTL DEF Spec
=============================================================================
