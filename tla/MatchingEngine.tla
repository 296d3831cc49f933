---------------------------- MODULE MatchingEngine ----------------------------
(***************************************************************************)
(* internal/domain/matching: the in-memory Book (book.go) and Match        *)
(* (engine.go), the price-time priority matching of one incoming order.    *)
(*                                                                         *)
(* Book. A level is the FIFO list of the orders resting at one price, so a *)
(* side of the book is a function from prices to sequences of references   *)
(* to orders; a price with no orders is a level that does not exist        *)
(* (removeFront prunes it, AddResting recreates it). The heaps of levels   *)
(* only ever answer "which level is best" (peek) and appear as IsBest.     *)
(* locations maps an order id to the list element that holds it. Elements  *)
(* are *order.Order pointers: obj is the heap they point into, so two      *)
(* objects with the same id can coexist, as they can in the program.       *)
(*                                                                         *)
(* Match. Each iteration of its loop that trades is MatchOne; leaving the  *)
(* loop, with what follows it, is EndMatch. incoming is the order being    *)
(* matched, or NoRef outside of Match; result is the MatchResult.          *)
(***************************************************************************)
EXTENDS OrderDomain, Sequences

CONSTANTS Ids,      \* order ids
          Users,    \* order owners
          Refs,     \* order objects on the heap
          NoRef,    \* the nil pointer
          Prices    \* prices in cents

ASSUME RefsAssumption == NoRef \notin Refs
ASSUME PricesAssumption == Prices \subseteq Nat \ {0}
\* The level heaps hold finitely many levels: a non-empty heap has a top.
ASSUME ExtremaAssumption ==
  \A S \in SUBSET Prices :
    S # {} => /\ \E m \in S : \A x \in S : m <= x
              /\ \E m \in S : \A x \in S : x <= m

VARIABLES obj,        \* heap: reference -> order, for the objects in use
          book,       \* side -> price -> FIFO list of references
          locations,  \* order id -> reference of the list element
          incoming,   \* argument of Match, NoRef when no match is running
          funds,      \* *availableBuyerFundsCents, used for BUY MARKET only
          result      \* MatchResult of the last or running Match

engineVars == <<obj, book, locations, incoming, funds, result>>

Order == OrderType(Ids, Users, Prices)

Trade == [buy: Refs, sell: Refs, price: Prices, qty: Int]

MatchResult == [incoming: Refs \cup {NoRef}, trades: Seq(Trade),
                touched: Seq(Refs), cancelled: Int]

EmptyBook == [s \in Sides |-> [p \in Prices |-> <<>>]]

NoResult == [incoming |-> NoRef, trades |-> <<>>, touched |-> <<>>,
             cancelled |-> 0]

----------------------------------------------------------------------------
(* The Book *)

\* As the comparison would be had the asks been given the bids' ordering.
Better_SameForBoth(side, p, q) == p > q

\* heap.Less of the two sides: the higher bid and the lower ask come first.
Better(side, p, q) == IF side = "BUY" THEN p > q ELSE p < q

\* levelHeap.peek: p is the price of the best level of the side.
IsBest(side, p) ==
  /\ book[side][p] # <<>>
  /\ \A q \in Prices : book[side][q] # <<>> => ~Better(side, q, p)

\* container/list Remove of the element that holds r; no effect if it is not
\* an element of this list.
RemoveElem(list, r) ==
  IF \E i \in DOMAIN list : list[i] = r
    THEN LET i == CHOOSE i \in DOMAIN list : list[i] = r
         IN  SubSeq(list, 1, i - 1) \o SubSeq(list, i + 1, Len(list))
    ELSE list

\* AddResting with PushFront for PushBack.
AddResting_Front(r, o) ==
  /\ book' = [book EXCEPT ![o.side][o.price] = <<r>> \o @]
  /\ locations' = [x \in DOMAIN locations \cup {o.id} |->
                     IF x = o.id THEN r ELSE locations[x]]

\* AddResting: to the back of its level's queue; the location of an earlier
\* element with the same order id, if any, is overwritten.
AddResting(r, o) ==
  /\ book' = [book EXCEPT ![o.side][o.price] = Append(@, r)]
  /\ locations' = [x \in DOMAIN locations \cup {o.id} |->
                     IF x = o.id THEN r ELSE locations[x]]

\* removeFront that forgets to delete the location.
RemoveFront_KeepLocation(id, side, price) ==
  IF id \in DOMAIN locations
    THEN /\ book' = [book EXCEPT ![side][price] = RemoveElem(@, locations[id])]
         /\ UNCHANGED locations
    ELSE UNCHANGED <<book, locations>>

\* removeFront: takes the located element of the order out of the level.
RemoveFront(id, side, price) ==
  IF id \in DOMAIN locations
    THEN /\ book' = [book EXCEPT ![side][price] = RemoveElem(@, locations[id])]
         /\ locations' = [x \in DOMAIN locations \ {id} |-> locations[x]]
    ELSE UNCHANGED <<book, locations>>

\* Book.Cancel of an order that rests, with the Order.Cancel its caller
\* applies to the object that was removed.
CancelResting(id) ==
  /\ id \in DOMAIN locations
  /\ LET r == locations[id] IN
     /\ RemoveFront(id, obj[r].side, obj[r].price)
     /\ obj' = [obj EXCEPT ![r] = CancelOrder(@)]
     /\ UNCHANGED <<incoming, funds, result>>

----------------------------------------------------------------------------
(* Match *)

\* Division of int64 in Go truncates towards zero.
GoDiv(a, b) == IF a >= 0 THEN a \div b ELSE -((-a) \div b)

min64(a, b) == IF a < b THEN a ELSE b

\* The limit check with the comparison of the SELL side left out.
PriceCompatible_NoSellCheck(o, p) ==
  \/ o.type = "MARKET"
  \/ o.side = "BUY" /\ o.price >= p
  \/ o.side = "SELL"

\* A LIMIT order trades at its own price or better.
PriceCompatible(o, p) ==
  \/ o.type = "MARKET"
  \/ o.side = "BUY" /\ o.price >= p
  \/ o.side = "SELL" /\ o.price <= p

\* The quantity with the cap by the buyer's funds left out.
MatchQty_NoFundsCap(o, maker, p) == min64(Remaining(o), Remaining(maker))

\* The quantity by the taker's need alone, whatever the maker has left.
MatchQty_TakerOnly(o, maker, p) ==
  LET qty == Remaining(o)
  IN  IF IsBuyMarket(o) /\ GoDiv(funds, p) < qty THEN GoDiv(funds, p) ELSE qty

MatchQty(o, maker, p) ==
  LET qty == min64(Remaining(o), Remaining(maker))
  IN  IF IsBuyMarket(o) /\ GoDiv(funds, p) < qty THEN GoDiv(funds, p) ELSE qty

\* A loop that leaves after its first trade.
CanTrade_OneIteration(p) ==
  LET o    == obj[incoming]
      side == Opposite(o.side)
  IN  /\ result.trades = <<>>
      /\ Remaining(o) > 0
      /\ IsBest(side, p)
      /\ PriceCompatible(o, p)
      /\ MatchQty(o, obj[Head(book[side][p])], p) # 0

\* The conditions under which an iteration does not leave the loop.
CanTrade(p) ==
  LET o    == obj[incoming]
      side == Opposite(o.side)
  IN  /\ Remaining(o) > 0
      /\ IsBest(side, p)
      /\ PriceCompatible(o, p)
      /\ MatchQty(o, obj[Head(book[side][p])], p) # 0

StartMatch(r, o, f) ==
  /\ incoming = NoRef
  /\ obj' = [x \in DOMAIN obj \cup {r} |-> IF x = r THEN o ELSE obj[x]]
  /\ incoming' = r
  /\ funds' = f
  /\ result' = [NoResult EXCEPT !.incoming = r]
  /\ UNCHANGED <<book, locations>>

\* One trade with the front order of the best opposite level, at its price.
Execute(p) ==
  LET o    == obj[incoming]
      side == Opposite(o.side)
      m    == Head(book[side][p])
      qty  == MatchQty(o, obj[m], p)
      tr   == [buy   |-> IF o.side = "BUY" THEN incoming ELSE m,
               sell  |-> IF o.side = "BUY" THEN m ELSE incoming,
               price |-> p, qty |-> qty]
      taken == [obj EXCEPT ![incoming] = Fill(@, qty)]
  IN  /\ obj' = [taken EXCEPT ![m] = Fill(@, qty)]
      /\ result' = [result EXCEPT !.trades = Append(@, tr),
                                  !.touched = Append(@, m)]
      /\ funds' = IF IsBuyMarket(o) THEN funds - qty * p ELSE funds
      /\ IF Remaining(Fill(obj[m], qty)) = 0
           THEN RemoveFront(obj[m].id, side, p)
           ELSE UNCHANGED <<book, locations>>
      /\ UNCHANGED incoming

MatchOne ==
  /\ incoming # NoRef
  /\ \E p \in Prices : CanTrade(p) /\ Execute(p)

\* A Match whose loop has no way out but a full order.
EndMatch_OnlyWhenFull ==
  /\ incoming # NoRef
  /\ Remaining(obj[incoming]) = 0
  /\ incoming' = NoRef
  /\ UNCHANGED <<obj, book, locations, funds, result>>

\* After the loop: a LIMIT remainder rests, a MARKET remainder is cancelled.
EndMatch ==
  /\ incoming # NoRef
  /\ \A p \in Prices : ~CanTrade(p)
  /\ LET o == obj[incoming] IN
     \/ /\ Remaining(o) = 0
        /\ UNCHANGED <<obj, book, locations, result>>
     \/ /\ Remaining(o) > 0
        /\ o.type = "LIMIT"
        /\ AddResting(incoming, o)
        /\ UNCHANGED <<obj, result>>
     \/ /\ Remaining(o) > 0
        /\ o.type = "MARKET"
        /\ obj' = [obj EXCEPT ![incoming] = CancelOrder(@)]
        /\ result' = [result EXCEPT !.cancelled = Remaining(o)]
        /\ UNCHANGED <<book, locations>>
  /\ incoming' = NoRef
  /\ UNCHANGED funds

EngineInit ==
  /\ obj = [r \in {} |-> NoRef]
  /\ book = EmptyBook
  /\ locations = [x \in {} |-> NoRef]
  /\ incoming = NoRef
  /\ funds = 0
  /\ result = NoResult
=============================================================================
