----------------------------- MODULE MCIngestion -----------------------------
(* Small instance of Ingestion for TLC: three symbols, one of them required, in
   chunks of one, so that the lookahead and the batches matter. *)
EXTENDS Ingestion

CONSTANTS a, b, c
MCUniverse == <<a, b, c>>
=============================================================================
