--------------------------- MODULE MCTradeHistory ---------------------------
(* TradeHistory on small instances. *)
EXTENDS TradeHistory

\* The limit parameter left out, within bounds, and beyond the maximum.
SomeLimits == {0, 1, MaxLimit + 1}
=============================================================================
