--------------------------- MODULE MCWarehouseGate ---------------------------
(* Small instance of WarehouseGate for TLC: sessions on days 0
   to 2, none on day 3. *)
EXTENDS WarehouseGate

CONSTANTS a, b, c
MCPlans == {{b, c}, {c}}
=============================================================================
