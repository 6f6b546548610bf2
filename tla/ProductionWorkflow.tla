------------------------- MODULE ProductionWorkflow -------------------------
(***************************************************************************)
(* The chain of production runs: .github/workflows/production.yml with     *)
(* scanner/run_policy.py, scanner/market_cutoff.py, the session checks of  *)
(* scanner/warehouse_gate.py and scanner/workflow_continuation.py.         *)
(*                                                                         *)
(* A run is full (it rebuilds the daily artifacts) or live (it reuses      *)
(* those of the publication head).  When it ends inside the market session *)
(* it queues its successor.  The workflow's concurrency group runs one run *)
(* and keeps one pending: a later request replaces the pending one.        *)
(*                                                                         *)
(* The exchange calendar is a parameter: at each time, the last session    *)
(* that has closed, and whether another run still fits before the close.   *)
(***************************************************************************)
EXTENDS Integers

CONSTANTS
  Horizon,      \* bound: the last time the model looks at
  Completed,    \* Completed[t]: the last session whose close is before t
  Window,       \* times t when should_continue_live_session(t)
  Schedule,     \* cron requests: [at, mode]
  Backoff,      \* RECOVERY_DELAY_SECONDS
  MaxRecovery,  \* MAX_RECOVERY_ATTEMPTS
  None          \* no run, no request, no publication

Time == 0..Horizon
Mode == {"full", "live"}

ASSUME TimeAssumption == Horizon \in Nat /\ Window \subseteq Time
ASSUME CalendarAssumption ==
  /\ Completed \in [Time -> Nat]
  /\ \A s, t \in Time : s <= t => Completed[s] <= Completed[t]
ASSUME ScheduleAssumption == Schedule \subseteq [at : Time, mode : Mode]
ASSUME PolicyAssumption == MaxRecovery \in Nat /\ Backoff \in Nat

Request == [mode : Mode, attempt : 0..MaxRecovery, by : {"cron", "chain"}]
Publication == [asOf : Time, daily : Nat]
ASSUME NoneAssumption == None \notin Request /\ None \notin Publication

VARIABLES
  clock,
  pending,   \* the request that waits in the concurrency group
  phase,     \* where the running run is; "none": the group is free
  run,       \* its facts: [requested, attempt, started, lane, daily, asOf, ok, wake]
  head,      \* publication head: T0 of its warehouse, session of its daily artifacts
  fired,     \* cron requests made so far
  failed,    \* runs that failed since a success or since cron began a run
  dropped    \* whether the last run that had the group was kept from queueing a successor

vars == <<clock, pending, phase, run, head, fired, failed, dropped>>

Phase == {"none", "started", "selected", "gated", "fresh", "ended", "waiting"}
Facts == [requested : Mode, attempt : 0..MaxRecovery, started : Time, lane : Mode,
          daily : Nat, asOf : Time, ok : BOOLEAN, wake : Time]

TypeOK ==
  /\ clock \in Time
  /\ pending \in {None} \cup Request
  /\ phase \in Phase
  /\ run \in Facts
  /\ head \in {None} \cup Publication
  /\ fired \subseteq Schedule
  /\ failed \in Nat
  /\ dropped \in BOOLEAN

Blank == [requested |-> "full", attempt |-> 0, started |-> 0, lane |-> "full",
          daily |-> 0, asOf |-> 0, ok |-> FALSE, wake |-> 0]

Init ==
  /\ clock = 0
  /\ pending = None
  /\ phase = "none"
  /\ run = Blank
  /\ head = None
  /\ fired = {}
  /\ failed = 0
  /\ dropped = FALSE

-----------------------------------------------------------------------------
\* A session ends, or time passes within it.
Tick ==
  /\ clock < Horizon
  /\ clock' = clock + 1
  /\ UNCHANGED <<pending, phase, run, head, fired, failed, dropped>>

\* The cron trigger of a request, which may be late.
Fire(s) ==
  /\ s \notin fired
  /\ s.at <= clock
  /\ fired' = fired \cup {s}
  /\ pending' = [mode |-> s.mode, attempt |-> 0, by |-> "cron"]
  /\ UNCHANGED <<clock, phase, run, head, failed, dropped>>

\* The group is free: the pending request runs and `start' writes its start.
Begin ==
  /\ phase = "none"
  /\ pending # None
  /\ phase' = "started"
  /\ run' = [Blank EXCEPT !.requested = pending.mode, !.attempt = pending.attempt,
                          !.started = clock]
  /\ pending' = None
  /\ failed' = IF pending.by = "cron" THEN 0 ELSE failed
  /\ dropped' = FALSE
  /\ UNCHANGED <<clock, head, fired>>

AnyPublication == head # None
\* select_mode: a live run needs a publication of the same completed session.
Reusable == head # None /\ Completed[head.asOf] = Completed[run.started]

\* run_policy, and the daily artifacts the lane gives the run: the head's, or
\* those built for the session completed when the run started (daily_clock).
SelectMode ==
  /\ phase = "started"
  /\ phase' = "selected"
  /\ run' = IF run.requested = "live" /\ Reusable
            THEN [run EXCEPT !.lane = "live", !.daily = head.daily]
            ELSE [run EXCEPT !.lane = "full", !.daily = Completed[run.started]]
  /\ UNCHANGED <<clock, pending, head, fired, failed, dropped>>

\* warehouse_gate: captures T0 and records the daily session of the run.
Gate ==
  /\ phase = "selected"
  /\ phase' = "gated"
  /\ run' = [run EXCEPT !.asOf = clock]
  /\ UNCHANGED <<clock, pending, head, fired, failed, dropped>>

AnySession == TRUE
\* The daily session the gate recorded is still the last completed one.
SameSession == Completed[clock] = Completed[run.started]

\* validate_publication_freshness, before the publication transaction.
CheckFreshness ==
  /\ phase = "gated"
  /\ SameSession
  /\ phase' = "fresh"
  /\ UNCHANGED <<clock, pending, run, head, fired, failed, dropped>>

\* publish commits; the clock may have moved since the check.
Publish ==
  /\ phase = "fresh"
  /\ head' = [asOf |-> run.asOf, daily |-> run.daily]
  /\ phase' = "ended"
  /\ run' = [run EXCEPT !.ok = TRUE]
  /\ failed' = 0
  /\ UNCHANGED <<clock, pending, fired, dropped>>

\* A stage, a gate or the publication fails.
Fail ==
  /\ phase \in {"started", "selected", "gated", "fresh"}
  /\ phase' = "ended"
  /\ failed' = failed + 1
  /\ UNCHANGED <<clock, pending, run, head, fired, dropped>>

\* The run ends and the chain with it, until cron begins the next one.
Drop ==
  /\ phase' = "none"
  /\ run' = Blank
  /\ dropped' = TRUE
  /\ UNCHANGED <<clock, pending, head, fired, failed>>

\* Cancelled: `!cancelled()' skips the continuation steps.
Cancel == phase # "none" /\ Drop

OnlyAfterSuccess == run.ok
\* if: !cancelled() -- the continuation step runs after a failure too.
Continues == TRUE

RecoveryLeft == run.attempt < MaxRecovery

\* The successor takes the pending place of the group; the run ends.
Dispatch(attempt) ==
  /\ pending' = [mode |-> "live", attempt |-> attempt, by |-> "chain"]
  /\ phase' = "none"
  /\ run' = Blank

\* plan_continuation after a success: at once, if the session has room.
ContinueAfterSuccess ==
  /\ phase = "ended" /\ run.ok
  /\ clock \in Window
  /\ Dispatch(0)
  /\ UNCHANGED <<clock, head, fired, failed, dropped>>

\* Bound: a wait ends with the model's time.
Earlier(t) == IF t <= Horizon THEN t ELSE Horizon

\* plan_continuation after a failure: back off first.
BackOff ==
  /\ phase = "ended" /\ ~run.ok
  /\ Continues
  /\ clock \in Window
  /\ RecoveryLeft
  /\ phase' = "waiting"
  /\ run' = [run EXCEPT !.wake = Earlier(clock + Backoff)]
  /\ UNCHANGED <<clock, pending, head, fired, failed, dropped>>

AnyTime == TRUE
\* The plan is made again after the sleep.
StillOpen == clock \in Window

NextAttempt == run.attempt + 1

\* The recovery run is queued with the next attempt number.
Recover ==
  /\ phase = "waiting"
  /\ clock >= run.wake
  /\ StillOpen
  /\ Dispatch(NextAttempt)
  /\ UNCHANGED <<clock, head, fired, failed, dropped>>

\* `gh workflow run' fails where it would have queued the successor.
QueueFails ==
  /\ \/ phase = "ended" /\ run.ok /\ clock \in Window
     \/ phase = "waiting" /\ clock >= run.wake /\ StillOpen
  /\ Drop

\* No successor: the session has no room, or the recovery limit is reached.
Stop ==
  /\ \/ phase = "ended" /\ (clock \notin Window \/ ~Continues \/ (~run.ok /\ ~RecoveryLeft))
     \/ phase = "waiting" /\ clock >= run.wake /\ ~StillOpen
  /\ phase' = "none"
  /\ run' = Blank
  /\ UNCHANGED <<clock, pending, head, fired, failed, dropped>>

RunStep ==
  \/ Begin \/ SelectMode \/ Gate \/ CheckFreshness \/ Publish \/ Fail
  \/ ContinueAfterSuccess \/ BackOff \/ Recover \/ Stop

Next == Tick \/ (\E s \in Schedule : Fire(s)) \/ RunStep \/ Cancel \/ QueueFails

Spec == Init /\ [][Next]_vars
\* Time passes, and a runner that is not cancelled gets on with its steps (each
\* stage has a `timeout', the job has timeout-minutes).
FairSpec == Spec /\ WF_vars(Tick) /\ WF_vars(RunStep)

-----------------------------------------------------------------------------
(* The daily artifacts of a publication, rebuilt or reused through any number
   of live runs, are those of the session its T0 stands for: what select_mode
   compares (T0) and what it reuses (the artifacts) do not come apart. *)
DailyMatchesT0 == head # None => head.daily = Completed[head.asOf]

(* A run started by the chain itself fits the session: no successor is queued
   once the closing buffer began, not even after the backoff. *)
Queued == pending' # pending /\ pending' # None /\ fired' = fired
NoLateSuccessor == [][Queued => clock \in Window]_vars

(* Between a success or a cron request and the next one, at most the first
   run and MaxRecovery recoveries fail: the counter that travels through the
   workflow's inputs bounds the chain. *)
FailuresBounded == failed <= MaxRecovery + 1

(* A rejected publication does not strand the next observation window: while
   the session has room and recoveries are left, a successor gets queued, unless
   the run is cancelled or queueing it fails. *)
Strandable == phase = "ended" /\ (run.ok \/ RecoveryLeft)
NeverStranded == Strandable ~> (pending # None \/ clock \notin Window \/ dropped)
=============================================================================
