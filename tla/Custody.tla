------------------------------ MODULE Custody ------------------------------
(***************************************************************************)
(* What the exchange promises its users about their assets, without        *)
(* orders, a book or messages: a user's holding changes only by a trade    *)
(* that gives the buyer what it takes from the seller and the other way    *)
(* round, trades become durable together or not at all, and nobody trades  *)
(* what he does not hold.                                                  *)
(***************************************************************************)
EXTENDS Integers

CONSTANTS Users,      \* owners of assets
          Prices,     \* prices of one unit
          Quantities, \* units of a trade
          Deposit     \* what each user brings in: [brl, vibranium]

VARIABLES position,   \* user -> holding, durable
          pending     \* user -> holding, with the trades still to commit

Init ==
  /\ position = [u \in Users |-> Deposit]
  /\ pending = [u \in Users |-> Deposit]

\* What a trade of qty units at price adds to a user's holding.
Gain(u, buyer, seller, amount) ==
  (IF u = buyer THEN amount ELSE 0) - (IF u = seller THEN amount ELSE 0)

Trade(buyer, seller, price, qty) ==
  /\ pending[buyer].brl >= price * qty
  /\ pending[seller].vibranium >= qty
  /\ pending' = [u \in Users |->
       [brl       |-> pending[u].brl + Gain(u, seller, buyer, price * qty),
        vibranium |-> pending[u].vibranium + Gain(u, buyer, seller, qty)]]
  /\ UNCHANGED position

Commit ==
  /\ position' = pending
  /\ UNCHANGED pending

Rollback ==
  /\ pending' = position
  /\ UNCHANGED position

Next ==
  \/ \E b, s \in Users, p \in Prices, q \in Quantities : Trade(b, s, p, q)
  \/ Commit
  \/ Rollback

Spec == Init /\ [][Next]_<<position, pending>>
=============================================================================
