--------------------------- MODULE MCOrderMatching ---------------------------
(* OrderMatching on small instances. *)
EXTENDS OrderMatching, TLC

\* Orders are interchangeable until they arrive.
IdSymmetry == Permutations(Ids)

\* Two funds: enough for one unit at most prices, enough for several.
SmallFunds == {1, 4}
=============================================================================
