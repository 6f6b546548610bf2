------------------------- MODULE MCCatalystWarehouse -------------------------
(* Small instance of CatalystWarehouse for TLC: two writers, two tickers with an
   event each. *)
EXTENDS CatalystWarehouse, TLC

MCTickerOf == [e \in Event |-> e]
Same == Permutations(Collector)
=============================================================================
