----------------------------- MODULE MCExchange -----------------------------
(* Exchange on small instances. *)
EXTENDS ExchangeInvariants

\* Users with the same deposit are interchangeable.
UserSymmetry == Permutations(Users)

EventAndRow == Ids \X {"event", "row"}

\* Enough to reserve for two orders, although a reservation lowers what is
\* available twice.
SmallDeposit == [brl |-> 3, vibranium |-> 3]
=============================================================================
