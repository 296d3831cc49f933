----------------------------- MODULE OrderDomain -----------------------------
(***************************************************************************)
(* internal/domain/order: the order record shared by the matching engine's *)
(* book and the persistence layer, and the three methods that read or      *)
(* change it. PriceCents is nil for a MARKET order; here it is NoPrice.    *)
(* CreatedAt and UpdatedAt are left out: what they order is modelled where *)
(* it is used (the arrival order of the book).                             *)
(***************************************************************************)
EXTENDS Integers

Sides    == {"BUY", "SELL"}
Types    == {"LIMIT", "MARKET"}
Statuses == {"OPEN", "PARTIALLY_FILLED", "FILLED", "CANCELLED"}
NoPrice  == 0

\* The rows and heap objects of the program: Order in order.go.
OrderType(Ids, Users, Prices) ==
  [id: Ids, user: Users, side: Sides, type: Types,
   price: Prices \cup {NoPrice}, quantity: Nat \ {0}, filled: Nat,
   status: Statuses]

Opposite(side) == IF side = "BUY" THEN "SELL" ELSE "BUY"

Remaining(o) == o.quantity - o.filled

IsDone(o) == o.status \in {"FILLED", "CANCELLED"}

CanFill(o, qty) == qty > 0 /\ qty <= Remaining(o)

\* A Fill that lowers what it should raise.
Fill_Decreases(o, qty) ==
  IF CanFill(o, qty) THEN [o EXCEPT !.filled = @ - qty] ELSE o

\* A Fill outside its preconditions returns an error and changes nothing.
Fill(o, qty) ==
  IF CanFill(o, qty)
    THEN [o EXCEPT !.filled = @ + qty,
                   !.status = IF Remaining(o) = qty THEN "FILLED"
                                                    ELSE "PARTIALLY_FILLED"]
    ELSE o

\* Idempotent on a terminal order.
CancelOrder(o) == IF IsDone(o) THEN o ELSE [o EXCEPT !.status = "CANCELLED"]

\* A freshly placed order: the shapes validatePlaceOrderInput lets through, as
\* Place inserts them and applyNewOrder builds them from the event.
PlacedOrders(id, users, prices, quantities) ==
  {[id |-> id, user |-> u, side |-> s, type |-> "LIMIT", price |-> p,
    quantity |-> q, filled |-> 0, status |-> "OPEN"] :
      u \in users, s \in Sides, p \in prices, q \in quantities}
  \cup
  {[id |-> id, user |-> u, side |-> s, type |-> "MARKET", price |-> NoPrice,
    quantity |-> q, filled |-> 0, status |-> "OPEN"] :
      u \in users, s \in Sides, q \in quantities}

IsBuyMarket(o) == o.side = "BUY" /\ o.type = "MARKET"
=============================================================================
