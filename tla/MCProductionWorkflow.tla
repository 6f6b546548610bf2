------------------------ MODULE MCProductionWorkflow ------------------------
(* Two trading days of six ticks and the morning of a third: the market is   *)
(* open in ticks 1..4 of a day, a run fits in ticks 1..3, the close of a day *)
(* is known one tick after it.  Time ends while a run still fits, so that    *)
(* what must happen within a session cannot hold by the session's end.       *)
EXTENDS ProductionWorkflow

Days == 2
DayLength == 6
MidSession == Days * DayLength + 3
CompletedAt == [t \in Time |-> (t + 1) \div DayLength]
WindowTimes == {t \in Time : t % DayLength \in 1..3}
ScheduleSet == {[at |-> 0, mode |-> "full"], [at |-> 3, mode |-> "live"],
                [at |-> 7, mode |-> "live"]}
=============================================================================
