------------------------------- MODULE Wallet -------------------------------
(***************************************************************************)
(* internal/domain/wallet: the balances of one user. An operation that can *)
(* return an error is a pair, its condition (Can...) and its result; an    *)
(* operation whose condition does not hold leaves the wallet alone.        *)
(*                                                                         *)
(* Reserving takes the amount out of the balance and adds it to reserved,  *)
(* and what is available is the balance minus reserved.                    *)
(***************************************************************************)
EXTENDS Integers

Wallet == [brl: Nat, reservedBRL: Nat, vibranium: Nat, reservedVibranium: Nat]

AvailableBRL(w) == w.brl - w.reservedBRL

AvailableVibranium(w) == w.vibranium - w.reservedVibranium

\* A reservation that is not checked against what is available.
CanReserveBRL_Unchecked(w, amount) == amount > 0

CanReserveBRL(w, amount) == amount > 0 /\ AvailableBRL(w) >= amount

ReserveBRL(w, amount) ==
  [w EXCEPT !.brl = @ - amount, !.reservedBRL = @ + amount]

CanReserveVibranium(w, qty) == qty > 0 /\ AvailableVibranium(w) >= qty

ReserveVibranium(w, qty) ==
  [w EXCEPT !.vibranium = @ - qty, !.reservedVibranium = @ + qty]

CanReleaseBRL(w, amount) == amount > 0 /\ amount <= w.reservedBRL

ReleaseBRL(w, amount) ==
  [w EXCEPT !.reservedBRL = @ - amount, !.brl = @ + amount]

CanReleaseVibranium(w, qty) == qty > 0 /\ qty <= w.reservedVibranium

ReleaseVibranium(w, qty) ==
  [w EXCEPT !.reservedVibranium = @ - qty, !.vibranium = @ + qty]

CanSettleBuyLimitFill(w, price, qty) ==
  price > 0 /\ qty > 0 /\ price * qty <= w.reservedBRL

SettleBuyLimitFill(w, price, qty) ==
  [w EXCEPT !.reservedBRL = @ - price * qty, !.vibranium = @ + qty]

CanSettleBuyMarketFill(w, price, qty) ==
  price > 0 /\ qty > 0 /\ price * qty <= w.brl

SettleBuyMarketFill(w, price, qty) ==
  [w EXCEPT !.brl = @ - price * qty, !.vibranium = @ + qty]

CanSettleSellFill(w, price, qty) ==
  price > 0 /\ qty > 0 /\ qty <= w.reservedVibranium

\* The proceeds credited per trade and not per unit.
SettleSellFill_OneUnit(w, price, qty) ==
  [w EXCEPT !.reservedVibranium = @ - qty, !.brl = @ + price]

SettleSellFill(w, price, qty) ==
  [w EXCEPT !.reservedVibranium = @ - qty, !.brl = @ + price * qty]

\* What a wallet holds, reserved or not.
Holding(w) == [brl       |-> w.brl + w.reservedBRL,
               vibranium |-> w.vibranium + w.reservedVibranium]
=============================================================================
