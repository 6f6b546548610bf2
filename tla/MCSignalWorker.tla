--------------------------- MODULE MCSignalWorker ---------------------------
(* Snapshots for every branch of the lifecycle. *)
EXTENDS SignalWorker, TLC

Closed == [stage |-> "OTHER", live |-> FALSE, breach |-> FALSE, target |-> FALSE,
           trigger |-> FALSE, holds |-> FALSE, buy |-> FALSE]
Forming == [Closed EXCEPT !.stage = "ARMED", !.live = TRUE, !.holds = TRUE]
Breakout == [Forming EXCEPT !.trigger = TRUE]
Confirmed == [Breakout EXCEPT !.buy = TRUE]
BelowVwap == [Breakout EXCEPT !.holds = FALSE]
Runner == [Breakout EXCEPT !.target = TRUE]
Veto == [Runner EXCEPT !.breach = TRUE]

Endings == {Closed, Confirmed, BelowVwap, Runner, Veto}
Starts == {Forming, Breakout, Confirmed, BelowVwap}
AllWorkers == Worker
Same == Permutations(Worker)
=============================================================================
