--------------------------- MODULE MCSnapshotReads ---------------------------
(* Small instance of SnapshotReads for TLC: interchangeable writers, symbols,
   instruments and universes. *)
EXTENDS SnapshotReads, TLC

Swaps == Permutations(Writer) \cup Permutations(Symbol)
         \cup Permutations(Instrument) \cup Permutations(Universe)
=============================================================================
