---------------------------- MODULE OrderMatching ----------------------------
(***************************************************************************)
(* The matching engine under the calls its single writer makes: Match on   *)
(* orders that each arrive once, and Book.Cancel on orders that rest. This *)
(* is the matcher process between two restarts: it creates one heap object *)
(* per order id, so an id names its object. What a failed batch does to    *)
(* the Book is in EventPipeline.                                           *)
(*                                                                         *)
(* Three history variables observe the engine and never guide it.          *)
(***************************************************************************)
EXTENDS MatchingEngine

CONSTANTS MaxQty,   \* bound on the quantity of an order
          Funds     \* available balances, none negative, that a BUY MARKET
                    \* order may find

ASSUME OneObjectPerId == Refs = Ids
ASSUME MaxQtyAssumption == MaxQty \in Nat \ {0}
ASSUME FundsAssumption == Funds \subseteq Nat

VARIABLES traded,   \* order id -> units the emitted trades add up to
          arrival,  \* order -> its position in the order of arrival
          clock     \* number of orders that have arrived

vars == <<obj, book, locations, incoming, funds, result,
          traded, arrival, clock>>

NewOrders(id) == PlacedOrders(id, Users, Prices, 1..MaxQty)

Init ==
  /\ EngineInit
  /\ traded = [x \in Ids |-> 0]
  /\ arrival = [x \in {} |-> 0]
  /\ clock = 0

\* The writer calls Match with the next order.
Submit ==
  \E r \in Refs \ DOMAIN obj : \E o \in NewOrders(r), f \in Funds :
    /\ StartMatch(r, o, IF IsBuyMarket(o) THEN f ELSE 0)
    /\ clock' = clock + 1
    /\ arrival' = [x \in DOMAIN arrival \cup {r} |->
                     IF x = r THEN clock + 1 ELSE arrival[x]]
    /\ UNCHANGED traded

TradeStep ==
  /\ MatchOne
  /\ LET tr == result'.trades[Len(result'.trades)]
     IN  traded' = [x \in Ids |->
                      IF x = tr.buy \/ x = tr.sell THEN traded[x] + tr.qty
                                                   ELSE traded[x]]
  /\ UNCHANGED <<arrival, clock>>

ReturnFromMatch ==
  /\ EndMatch
  /\ UNCHANGED <<traded, arrival, clock>>

\* The writer calls Book.Cancel for an order that rests. For any other id the
\* call changes nothing.
Cancel ==
  /\ incoming = NoRef
  /\ \E id \in Ids : CancelResting(id)
  /\ UNCHANGED <<traded, arrival, clock>>

Next == Submit \/ TradeStep \/ ReturnFromMatch \/ Cancel

\* Match is a terminating loop run by one goroutine without blocking: once
\* called, it keeps taking iterations. Nothing forces new calls.
Spec == Init /\ [][Next]_vars /\ WF_vars(TradeStep) /\ WF_vars(ReturnFromMatch)

----------------------------------------------------------------------------
(* Vocabulary of the properties *)

Resting(r) == \E s \in Sides, p \in Prices :
                \E i \in DOMAIN book[s][p] : book[s][p][i] = r

\* a has priority over b among the resting orders of one side.
HasPriority(a, b) ==
  \/ Better(obj[a].side, obj[a].price, obj[b].price)
  \/ obj[a].price = obj[b].price /\ arrival[a] < arrival[b]

----------------------------------------------------------------------------
(* Properties *)

\* Every variable has its type; the heap and the arrival stamps cover the
\* same objects.
TypeOK ==
  /\ obj \in [DOMAIN obj -> Order] /\ DOMAIN obj \subseteq Refs
  /\ book \in [Sides -> [Prices -> Seq(Refs)]]
  /\ locations \in [DOMAIN locations -> Refs] /\ DOMAIN locations \subseteq Ids
  /\ incoming \in DOMAIN obj \cup {NoRef}
  /\ funds \in Int
  /\ result \in MatchResult
  /\ traded \in [Ids -> Int]
  /\ arrival \in [DOMAIN obj -> Nat]
  /\ clock \in Nat

\* The heap-of-levels lists and the locations map of Book agree: an order is
\* in the map exactly when it is in a list, that list is the one of its own
\* side and price, it is there once, and it is a live LIMIT order with
\* something left to trade. A stale location would make a later Cancel or
\* removeFront act on an order that is gone.
BookConsistent ==
  /\ \A s \in Sides, p \in Prices : \A i \in DOMAIN book[s][p] :
       LET r == book[s][p][i] IN
       /\ r \in DOMAIN obj
       /\ r # incoming
       /\ obj[r].side = s /\ obj[r].price = p /\ obj[r].type = "LIMIT"
       /\ Remaining(obj[r]) > 0 /\ ~IsDone(obj[r])
       /\ obj[r].id \in DOMAIN locations /\ locations[obj[r].id] = r
       /\ \A j \in DOMAIN book[s][p] : book[s][p][j] = r => i = j
  /\ \A id \in DOMAIN locations : Resting(locations[id])
                                  /\ obj[locations[id]].id = id

\* No bid ever meets an ask: Match leaves its loop for a LIMIT order only
\* when the best opposite level no longer crosses its price, and only then
\* does the remainder rest.
Uncrossed ==
  \A b, a \in Prices :
    book["BUY"][b] # <<>> /\ book["SELL"][a] # <<>> => b < a

\* What an order records as filled is what the trades it took part in add up
\* to, never more than its quantity, and FILLED means filled to the unit
\* (the checks 4 to 6 of scripts/validate-post-test.sh). Match ignores the
\* errors of Fill, so a quantity Fill rejects would break this silently.
FilledMatchesTrades ==
  \A r \in DOMAIN obj :
    /\ obj[r].filled = traded[r]
    /\ obj[r].filled <= obj[r].quantity
    /\ obj[r].status = "FILLED" <=> obj[r].filled = obj[r].quantity
    /\ obj[r].status = "OPEN" => obj[r].filled = 0

\* Every trade is for at least one unit, at the resting order's price, and
\* within the limit of each of the two orders that has one.
TradesWithinLimits ==
  \A i \in DOMAIN result.trades :
    LET tr == result.trades[i]
        taker == result.incoming
        maker == IF tr.buy = taker THEN tr.sell ELSE tr.buy
    IN  /\ tr.qty > 0
        /\ tr.buy \in DOMAIN obj /\ tr.sell \in DOMAIN obj
        /\ {tr.buy, tr.sell} = {taker, maker} /\ tr.buy # tr.sell
        /\ obj[tr.buy].side = "BUY" /\ obj[tr.sell].side = "SELL"
        /\ tr.price = obj[maker].price
        /\ obj[tr.buy].type = "LIMIT" => tr.price <= obj[tr.buy].price
        /\ obj[tr.sell].type = "LIMIT" => tr.price >= obj[tr.sell].price

\* A BUY MARKET order is never matched past the funds read before Match.
FundsCoverTrades ==
  incoming # NoRef => funds >= 0

\* A MARKET remainder is given up only when the other side has nothing left
\* for it: no level at all, or for BUY a best ask above the remaining funds.
RemainderMeansExhausted ==
  [][incoming # NoRef /\ incoming' = NoRef /\ result'.cancelled > 0 =>
       \/ \A p \in Prices : ~IsBest(Opposite(obj[incoming].side), p)
       \/ /\ obj[incoming].side = "BUY"
          /\ \A p \in Prices : IsBest("SELL", p) => funds < p]_vars

\* Auxiliary facts that make the invariants above inductive. An id names its
\* object and only LIMIT orders carry a price; queues are ordered by arrival;
\* the order being matched is the latest to arrive and is not terminal until
\* it is full.
Auxiliary ==
  /\ \A r \in DOMAIN obj :
       /\ obj[r].id = r
       /\ obj[r].type = "LIMIT" => obj[r].price \in Prices
       /\ arrival[r] <= clock
  /\ \A x \in Ids \ DOMAIN obj : traded[x] = 0
  /\ \A s \in Sides, p \in Prices : \A i, j \in DOMAIN book[s][p] :
       i < j => arrival[book[s][p][i]] < arrival[book[s][p][j]]
  /\ incoming # NoRef =>
       /\ result.incoming = incoming /\ result.cancelled = 0
       /\ obj[incoming].status # "CANCELLED"
       /\ \A r \in DOMAIN obj : r # incoming => arrival[r] < arrival[incoming]

\* The inductive invariant of the engine.
IInv ==
  /\ TypeOK /\ BookConsistent /\ Uncrossed /\ FilledMatchesTrades
  /\ FundsCoverTrades /\ Auxiliary

\* Price-time priority: an order that rests is filled only when no order
\* resting on its side has a better price, or the same price and an earlier
\* arrival.
PriceTimePriority ==
  [][\A r \in DOMAIN obj :
       Resting(r) /\ obj'[r].filled # obj[r].filled =>
         \A x \in DOMAIN obj :
           x # r /\ Resting(x) /\ obj[x].side = obj[r].side
             => HasPriority(r, x)]_vars

\* Match returns: its loop exhausts the incoming order, the crossing levels
\* or the funds.
MatchTerminates == incoming # NoRef ~> incoming = NoRef
=============================================================================
