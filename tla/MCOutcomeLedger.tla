--------------------------- MODULE MCOutcomeLedger ---------------------------
(* Snapshots for the states a trade passes through. *)
EXTENDS OutcomeLedger

Closed_ == [stage |-> "OTHER", live |-> FALSE, breach |-> FALSE, target |-> FALSE,
            trigger |-> FALSE, holds |-> FALSE, buy |-> FALSE]
Breakout == [Closed_ EXCEPT !.stage = "ARMED", !.live = TRUE, !.trigger = TRUE,
                            !.holds = TRUE]
Confirmed == [Breakout EXCEPT !.buy = TRUE]
BelowVwap == [Breakout EXCEPT !.holds = FALSE]
Veto == [Breakout EXCEPT !.breach = TRUE]

Lives == {Closed_, Confirmed, BelowVwap}
\* "stop" and "both" only differ in the recorded reason.
Bars == {"quiet", "target", "both"}
RealHorizons == {1, 3, 5, 10}
==============================================================================
