---------------------------- MODULE DecisionPlane ----------------------------
(***************************************************************************)
(* The six decision components that share no state: the V4.5 cutover, the   *)
(* paper books, the V3 desk, the criteria research, the paper allocation    *)
(* and the pilot review.  Init picks a lane; only its component moves: the  *)
(* behaviours are those of the six, each beside the others at rest.         *)
(***************************************************************************)
EXTENDS Integers

CONSTANTS
  Ticker,
  \* ModelCutover
  Silent, Movers, Offered, Entered, MaxDay, Mature, Horizon, Window, MinTotal, MinPositive,
  MinMonitored, Recent, MinHealthy, MinDaily, StaleAfter, StallAfter, MaxFailures, MaxOrders,
  \* PaperBooks and TradeDesk
  Symbol,
  Book, Strategy, Setup, Slots, Weekend, Refresh, LastDay, From, Until, Hold, Period,
  MaxRuns, MaxTouches, MaxDelay,
  Levels, Facts, Cycles, DeskDays,
  \* CriteriaResearch
  Approved, Cohorts, MinOutcomes, MinTrainSessions, MinHoldoutSessions, MinHoldout, MinCandidate,
  MinFutureSessions, MinBaseline, MinChallenger, LastSession,
  \* PaperAllocation
  Candidates, MaxRows, MaxPositions, MaxSectorPositions, MaxThemePositions,
  RiskBudget, TotalRiskLimit, MaxNotional,
  \* PilotReview
  MinSamples, MaxSamples, Reviews, MaxShort

VARIABLES
  lane,
  day, touched, ledger, model, active, cutover, work, pub, runner, desk, failures, orders,
  kind, now, reached, listed, book, decided, saved, torn,
  date, at, live, state, log, journal, alerted, queue, new, delivered, entered, broken, lost, cycles,
  session, cohorts, stage, proposal, challenger, published, known, judged, crashes,
  validated, rows, next, selected, totalRisk,
  triggers, snapshots, mode, records, head, reviews

cvars == <<day, touched, ledger, model, active, cutover, work, pub, runner, desk, failures, orders>>
pvars == <<kind, now, reached, listed, book, decided, saved, torn>>
dvars == <<date, at, live, state, log, journal, alerted, queue, new, delivered, entered, broken, lost, cycles>>
rvars == <<session, cohorts, stage, proposal, challenger, published, known, judged, crashes>>
avars == <<validated, rows, next, selected, totalRisk>>
vvars == <<triggers, snapshots, mode, records, head, reviews>>

C == INSTANCE ModelCutover
P == INSTANCE PaperBooks WITH Ticker <- Symbol, MaxDay <- LastDay, Window <- Period, touched <- reached
D == INSTANCE TradeDesk WITH Ticker <- Symbol, day <- date, rows <- live, torn <- broken, runs <- cycles,
       MaxRuns <- Cycles, MaxDay <- DeskDays
R == INSTANCE CriteriaResearch WITH day <- session, ledger <- cohorts, failures <- crashes,
       MaxDay <- LastSession, MinTotal <- MinOutcomes
A == INSTANCE PaperAllocation
V == INSTANCE PilotReview WITH runs <- reviews, MaxRuns <- Reviews

ASSUME InstanceAssumption ==
  /\ C!HorizonAssumption /\ C!SizesAssumption
  /\ P!BookAssumption /\ P!ClockAssumption
  /\ D!BoundAssumption /\ D!FactsAssumption
  /\ R!SizesAssumption /\ R!RowsAssumption
  /\ A!LimitsAssumption /\ A!RowsAssumption
  /\ V!SizeAssumption

Init ==
  /\ lane \in {"cutover", "books", "desk", "research", "allocation", "review"}
  /\ C!Init /\ P!Init /\ D!Init /\ R!Init /\ A!Init /\ V!Init
  /\ lane # "books" => kind = CHOOSE b \in Book : TRUE
  /\ lane # "allocation" => rows = <<>> /\ ~validated

Next ==
  \/ lane = "cutover" /\ C!Next /\ UNCHANGED <<lane, pvars, dvars, rvars, avars, vvars>>
  \/ lane = "books" /\ P!Next /\ UNCHANGED <<lane, cvars, dvars, rvars, avars, vvars>>
  \/ lane = "desk" /\ D!Next /\ UNCHANGED <<lane, cvars, pvars, rvars, avars, vvars>>
  \/ lane = "research" /\ R!Next /\ UNCHANGED <<lane, cvars, pvars, dvars, avars, vvars>>
  \/ lane = "allocation" /\ A!Next /\ UNCHANGED <<lane, cvars, pvars, dvars, rvars, vvars>>
  \/ lane = "review" /\ V!Next /\ UNCHANGED <<lane, cvars, pvars, dvars, rvars, avars>>

\* A production run that has started goes on, stage by stage, or fails.
Spec ==
  /\ Init /\ [][Next]_<<lane, cvars, pvars, dvars, rvars, avars, vvars>>
  /\ WF_<<lane, cvars, pvars, dvars, rvars, avars, vvars>>
       (lane = "cutover" /\ C!RunStep /\ UNCHANGED <<lane, pvars, dvars, rvars, avars, vvars>>)

-----------------------------------------------------------------------------
\* A market-session snapshot is an immutable cohort: a rerun neither adds nor
\* drops a ticker, and no resolution rewrites what was ranked
\* (v4/shadow_validation.py, line 126).
CohortFrozen == C!CohortFrozen

\* A label, once measured, is not measured again from later bars as long as
\* the history that is read still reaches back to the observation's session.
LabelSettles == C!LabelSettles

\* Refitting cannot replace the model that is served: that changes only with
\* the operator's command or a rollback.
RetrainingServesTheSame == C!RetrainingServesTheSame

\* A model whose published monitor is DEGRADED does not stay primary: a run
\* rolls it back, unless a later run finds it otherwise.
DegradedIsRolledBack == C!DegradedIsRolledBack

\* A trade's outcome is the first level its bars reached after it was entered,
\* the stop if one bar reached both: whatever runs were lost in between, no
\* saved run can have had an earlier touch in view (daily_pick.py, line 186).
FirstTouchDecides == P!FirstTouchDecides

\* "Exactly one immutable selection per ET trading date" (daily_pick.py, line
\* 246), and one decision a day of the challenger, but for the runs that were
\* lost between its two saves.
OneSelectionADay == P!OneSelectionADay

\* No trade outlives its holding period: a run saved after that has closed it,
\* with a price if a bar is in view, and a daily pick even without one.
OverdueIsClosed == P!OverdueIsClosed

\* An outcome enters the journal for a reason the monitor saw: one that counts in
\* the paper statistics only for a ticker that had entered, and "invalidated
\* before its entry" only for a signal never seen in an entry state (intraday.py,
\* line 185), unless a cycle stopped halfway.
OutcomesFollowEntry == D!OutcomesFollowEntry

\* A ticker is announced once a session, plus at most once for each alert stage
\* of that session that stopped before it had saved what it sent
\* (high_conviction_alerts.py, line 206).
OneAlertASession == D!OneAlertASession

\* A verdict rests only on sessions that were not in the ledger when the
\* challenger was registered, so on none that its proposal was fitted or tested
\* on, however late they matured (v7/challenger.py, line 141).
JudgedOnTheFuture == R!JudgedOnTheFuture

\* Once registered a challenger is never exchanged for another proposal, and a
\* verdict, once reached, is never taken back, though later sessions mature and
\* runs fail before they publish it (v7/challenger.py, line 126).
VerdictStands == R!VerdictStands

\* The plan keeps every limit, and one pass is enough: no ranked row that was
\* turned down on the way could still be given a single share at the end
\* (v7/allocator.py, lines 88-127).
PlanIsMaximal == A!PlanIsMaximal

\* A published packet was made by one full run in which every gate passed and the
\* model behind its portfolio had the samples it needs.  Later runs that are
\* published keep it with the other records of that run, but for the two that
\* live runs renew; of these only the paper validation can have closed since:
\* the packet stays until the next full run even then (v9_pilot.py, line 36).
PacketFollowsItsGates == V!PacketFollowsItsGates

=============================================================================
