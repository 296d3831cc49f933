------------------------------- MODULE Totals -------------------------------
(***************************************************************************)
(* Sums over finite sets, for the properties about amounts: what the       *)
(* wallets hold together, what the orders of a user tie up.                *)
(***************************************************************************)
EXTENDS FiniteSetsExt

\* The sum of f[x] for x in S.
Total(f, S) == MapThenSumSet(LAMBDA x : f[x], S)
=============================================================================
