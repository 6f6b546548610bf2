----------------------------- MODULE MarketClock -----------------------------
(***************************************************************************)
(* The exchange calendar as the code reads it, and the freshness rule of   *)
(* scanner/warehouse.py and scanner/market_cutoff.py.                      *)
(*                                                                         *)
(* Time is counted in intraday bars.  Day d is the times from d * DayLen   *)
(* on; a day of Session opens and closes at the same two times of the day. *)
(* An intraday bar that starts at t ends at t + 1; a daily bar is labelled *)
(* with the first time of its day.                                         *)
(***************************************************************************)
EXTENDS Integers

CONSTANTS
  DayLen,     \* times in a day
  OpenTime, CloseTime,
  Session     \* the days on which the exchange opens

ASSUME CalendarAssumption ==
  /\ {DayLen, OpenTime, CloseTime} \subseteq Nat
  /\ OpenTime < CloseTime /\ CloseTime < DayLen
  /\ Session \subseteq Int

Opens(d) == d * DayLen + OpenTime
Closes(d) == d * DayLen + CloseTime
Day(t) == t \div DayLen

MarketOpen(now) == \E d \in Session : Opens(d) <= now /\ now <= Closes(d)

\* completed_daily_session: the last session that closed before now.
Done(now) == {d \in Session : Closes(d) < now}
CompletedSession(now) == CHOOSE d \in Done(now) : \A e \in Done(now) : e <= d

\* event_cutoff: a daily read never goes past the session that was complete when
\* the run began.
Cutoff(frame, asOf, runStart) ==
  IF frame # "1d" THEN asOf
  ELSE LET end == (CompletedSession(IF runStart < asOf THEN runStart ELSE asOf) + 1) * DayLen - 1
       IN  IF end < asOf THEN end ELSE asOf

AgesOvernight(newest, now, maxAge) == Day(newest) < CompletedSession(now)
\* Closed market: the newest bar must reach the close of the last session.
ShortOfClose(newest, now, maxAge) ==
  \/ Day(newest) < CompletedSession(now)
  \/ Closes(CompletedSession(now)) - (newest + 1) > maxAge
  \/ newest + 1 > now

\* _freshness_failures, for the newest bar of one symbol.
Stale(frame, newest, now, maxAge) ==
  IF frame = "1d" THEN Day(newest) < CompletedSession(now)
  ELSE IF MarketOpen(now) THEN newest + 1 > now \/ now - (newest + 1) > maxAge
  ELSE ShortOfClose(newest, now, maxAge)
=============================================================================
