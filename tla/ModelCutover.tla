---------------------------- MODULE ModelCutover ----------------------------
(***************************************************************************)
(* The evidence plane of V4.5-V7: the shadow ledger of daily ranking       *)
(* cohorts (v4/shadow_validation.py), the models refitted from it          *)
(* (v4/calibration.py, v5/adaptive.py, v6/uncertainty.py), the two health  *)
(* records (v4/evidence.py, v4/model_monitor.py) and the cutover between   *)
(* the V3 and the V4.5 ranking (v4/cutover.py, v4_cutover.py).             *)
(*                                                                         *)
(* Two processes: the production chain of production.yml, stages 190-240,  *)
(* and an operator at the command line of v4_cutover.py. State documents   *)
(* (the ledger, the models, the cutover) outlive a failed run; what a run  *)
(* writes with write_record and write_dataset is seen by others only once  *)
(* the run is published. A day is one trading session and one daily bar.   *)
(***************************************************************************)
EXTENDS Integers, FiniteSets, FiniteSetsExt, Functions

CONSTANTS
  Ticker,
  Silent,      \* tickers the warehouse may return no history for
  Movers,      \* tickers whose bars may reach +5% of a baseline
  Offered,     \* session -> the sets of candidates that its runs may rank
  Entered,     \* intraday signals that enter a trade: <<session, ticker>>
  MaxDay,
  Mature,      \* ShadowValidationSettings.forward_sessions, 5
  Horizon,     \* max(RETURN_HORIZONS), 10
  Window,      \* sessions in the "3mo" of history a resolution reads
  MinTotal, MinPositive,   \* FitSettings, 60 and 8
  MinMonitored, Recent,    \* ModelMonitorSettings, 30 and 60
  MinHealthy, MinDaily,    \* evaluate_evidence_health, 30 and 10
  StaleAfter, StallAfter,  \* in sessions, for 4 and 15 calendar days
  MaxFailures, MaxOrders   \* failed runs, commands of the operator

\* What the constants are assumed to be; an instance assumes it.
HorizonAssumption ==
  {Horizon, Window} \subseteq Nat /\ Mature \in 1..Horizon /\ Horizon <= Window
SizesAssumption ==
  /\ Silent \subseteq Ticker /\ MaxDay \in Nat \ {0} /\ MinTotal >= 2
  /\ Movers \subseteq Ticker
  /\ Offered \in [1..MaxDay -> SUBSET (SUBSET Ticker \ {{}})]
  /\ Entered \subseteq (1..MaxDay) \X Ticker
  /\ {MinPositive, MinMonitored, Recent, MinHealthy, MinDaily,
      StaleAfter, StallAfter, MaxFailures, MaxOrders} \subseteq Nat

VARIABLES
  day,      \* sessions so far
  touched,  \* <<ticker, day>>: bars whose high reaches +5% of any baseline
  ledger,   \* state v4_shadow_validation/observations: key -> record
  model,    \* state v4_models/v4_5_model
  active,   \* state v4_models/v4_5_active_model
  cutover,  \* state v4_cutover/state
  work,     \* the records and the exported ledger as the run sees them
  pub,      \* the same, of the last published run
  runner,   \* the production chain: next stage, T0 and verdict
  desk,     \* the operator's command
  failures, orders

documents == <<ledger, model, active, cutover>>
vars == <<day, touched, documents, work, pub, runner, desk, failures, orders>>

Day == 1..MaxDay
Empty == [k \in {} |-> 0]
NoModel == [version |-> {}, status |-> ""]
-----------------------------------------------------------------------------
(* ShadowValidationLedger *)

Snapshot(s, v3, v45) ==
  [k \in {s} \X (v3 \cup v45) |->
     [v3 |-> k[2] \in v3, v45 |-> k[2] \in v45, status |-> model.status,
      bars |-> 0, from |-> 0, hit |-> FALSE]]

Unresolved(obs) == {k[2] : k \in {j \in DOMAIN obs : obs[j].bars < Horizon}}

\* The bars after the session that a history of Window bars up to t0 holds.
Future(k, t0) == {d \in Day : d > k[1] /\ d <= t0 /\ d > t0 - Window}
LastBars(days, n) == {d \in days : Cardinality({e \in days : e > d}) < n}
Head(days, n) == {d \in days : Cardinality({e \in days : e < d}) < n}

Resolved(k, o, t0) ==
  LET future == Future(k, t0)
      available == IF Cardinality(future) < Horizon THEN Cardinality(future) ELSE Horizon
      seen == [o EXCEPT !.bars = IF @ < available THEN available ELSE @]
      window == Head(future, Mature)
  IN IF available < Mature THEN seen
     ELSE [seen EXCEPT !.from = Min(window), !.hit = \E d \in window : <<k[2], d>> \in touched]

-----------------------------------------------------------------------------
(* training_outcomes and fit_model *)

Ripe(obs) == {k \in DOMAIN obs : obs[k].bars >= Mature /\ obs[k].from > 0}

\* The rows of v4_outcomes that have Mature daily bars by t0 (OutcomeLedger).
RipeTriggers(t0) == {k \in Entered : k[1] + Mature <= t0}
TriggerHit(k) == \E d \in (k[1] + 1)..(k[1] + Mature) : <<k[2], d>> \in touched

\* Rows <<observation, hit>>: of the two ledgers, the daily snapshot goes first.
TrainingOutcomes(obs, t0) ==
  {<<k, obs[k].hit>> : k \in Ripe(obs)} \cup {<<k, TriggerHit(k)>> : k \in RipeTriggers(t0) \ Ripe(obs)}

Later(keys, n) == {k \in keys : Cardinality({j \in keys : j[1] > k[1]}) < n}

\* The boundary is the session of the first row of the last 30%.
Validation(keys) == Later(keys, (3 * Cardinality(keys) + 9) \div 10)

\* The version is a hash of what was fitted, so it names its training set. The
\* Brier gate is read as: the validation sessions have hits too.
Fitted(outcomes) ==
  LET keys == {o[1] : o \in outcomes}
      train == keys \ Validation(keys)
      hits == {o[1] : o \in {x \in outcomes : x[2]}}
      passes == Cardinality(train \cap hits) >= MinPositive /\ Validation(keys) \cap hits # {}
  IN IF Cardinality(keys) < MinTotal \/ train = {} THEN [version |-> {}, status |-> "INSUFFICIENT_DATA"]
     ELSE [version |-> outcomes,
           status |-> IF passes THEN "VALIDATED_SHADOW" ELSE "SHADOW_ONLY"]

-----------------------------------------------------------------------------
(* evaluate_evidence_health and evaluate_model_health *)

EvidenceHealth(obs, now) ==
  LET last == Max({k[1] : k \in DOMAIN obs})
      failed == \/ DOMAIN obs = {}
                \/ now - last > StaleAfter
                \/ Cardinality({k \in DOMAIN obs : k[1] = last}) < MinDaily
                \/ \E k \in DOMAIN obs : obs[k].bars < Mature /\ now - k[1] > StallAfter
  IN IF failed THEN "DEGRADED"
     ELSE IF Cardinality({k \in DOMAIN obs : obs[k].bars >= Mature}) >= MinHealthy
          THEN "HEALTHY" ELSE "COLLECTING"

\* A hit stands for each of the measured qualities: with no hit at all the
\* expectancy is negative, with a lower rate than V3's the model is worse.
Mean(keys, obs) == <<Cardinality({k \in keys : obs[k].hit}), Cardinality(keys)>>
NoWorse(a, b) == a[1] * b[2] >= b[1] * a[2]

MonitorHealth(obs) ==
  LET ripe == {k \in DOMAIN obs : obs[k].bars >= Mature}
      v45 == Later({k \in ripe : obs[k].v45 /\ obs[k].status = "VALIDATED_SHADOW"}, Recent)
      v3 == {k \in ripe : obs[k].v3 /\ \E j \in v45 : j[1] = k[1]}
  IN IF Cardinality(v45) < MinMonitored THEN "COLLECTING"
     ELSE IF /\ \E k \in v45 : obs[k].hit
             /\ v3 # {} /\ NoWorse(Mean(v45, obs), Mean(v3, obs))
          THEN "HEALTHY" ELSE "DEGRADED"

-----------------------------------------------------------------------------
(* evaluate_cutover; `live' stands for the gates on agreement, alert         *)
(* precision, uptime and lag, whose inputs are not kept here.                *)

UnmonitoredEligible(m, records, live) ==
  m.status = "VALIDATED_SHADOW" /\ records.evidence = "HEALTHY" /\ live
Eligible(m, records, live) ==
  /\ m.status = "VALIDATED_SHADOW"
  /\ records.monitor = "HEALTHY"
  /\ records.evidence = "HEALTHY"
  /\ live

RolledBack == [mode |-> "SHADOW", version |-> {}]

\* The ranking apply_active_ranking serves when it is given this payload.
Routed(payload) ==
  IF /\ cutover.mode = "PRIMARY"
     /\ payload.version = cutover.version
     /\ payload.status = "VALIDATED_SHADOW"
  THEN payload.version ELSE {}
NewestModel == model
ServedModel == active
Served == Routed(ServedModel)

-----------------------------------------------------------------------------
Nothing == [obs |-> Empty, monitor |-> "UNKNOWN", evidence |-> "UNKNOWN"]
Idle == [at |-> "idle", t0 |-> 0, eligible |-> FALSE]
AtDesk == [at |-> "idle", eligible |-> FALSE, payload |-> NoModel]

Init ==
  /\ day = 1 /\ touched = {}
  /\ ledger = Empty /\ model = NoModel /\ active = NoModel /\ cutover = RolledBack
  /\ work = Nothing /\ pub = Nothing
  /\ runner = Idle /\ desk = AtDesk /\ failures = 0 /\ orders = 0

NextSession ==
  /\ day < MaxDay /\ runner.at = "idle"
  /\ day' = day + 1
  /\ \E up \in SUBSET Movers : touched' = touched \cup {<<t, day + 1>> : t \in up}
  /\ UNCHANGED <<documents, work, pub, runner, desk, failures, orders>>

Start ==
  /\ runner.at = "idle"
  /\ runner' = [at |-> "outcomes", t0 |-> day, eligible |-> FALSE]
  /\ UNCHANGED <<day, touched, documents, work, pub, desk, failures, orders>>

Stage(from, to) == runner.at = from /\ runner' = [runner EXCEPT !.at = to]
Elsewhere == UNCHANGED <<day, touched, pub, desk, failures, orders>>

\* fit_calibration; the v5 and v6 stages refit models of their own from the
\* same outcomes, whose rankings enter the snapshot's choice of tickers. A full
\* run starts with no datasets and exports the shadow ledger only later, so
\* what is read here as work.obs is always empty.
FitCalibration ==
  /\ Stage("outcomes", "resolve")
  /\ model' = Fitted(TrainingOutcomes(work.obs, runner.t0))
  /\ UNCHANGED <<ledger, active, cutover, work>> /\ Elsewhere

\* resolve_histories; its export is seen when the next step begins.
ResolveHistories ==
  /\ Stage("resolve", "record")
  /\ \E gone \in SUBSET Silent :
       LET known == Unresolved(ledger) \ gone
       IN ledger' = [k \in DOMAIN ledger |->
            IF k[2] \in known THEN Resolved(k, ledger[k], runner.t0) ELSE ledger[k]]
  /\ UNCHANGED <<model, active, cutover, work>> /\ Elsewhere

\* Mutant: the published dataset is asked, not the state document.
RecordedAndPublished(s) == \E k \in DOMAIN pub.obs : k[1] = s
Recorded(s) == \E k \in DOMAIN ledger : k[1] = s
RecordSnapshot ==
  /\ Stage("record", "health")
  /\ work' = [work EXCEPT !.obs = ledger]
  /\ \/ Recorded(runner.t0) /\ UNCHANGED ledger
     \/ /\ ~Recorded(runner.t0)
        /\ \E v3 \in Offered[runner.t0] :
             \E v45 \in IF model.version = {} THEN {{}} ELSE SUBSET v3 \ {{}} :
               LET new == Snapshot(runner.t0, v3, v45)
               IN ledger' = [k \in DOMAIN ledger \cup DOMAIN new |->
                               IF k \in DOMAIN new THEN new[k] ELSE ledger[k]]
  /\ UNCHANGED <<model, active, cutover>> /\ Elsewhere

WriteHealth ==
  /\ Stage("health", "monitor")
  /\ work' = [work EXCEPT !.obs = ledger, !.evidence = EvidenceHealth(ledger, runner.t0)]
  /\ UNCHANGED documents /\ Elsewhere

MonitorModel ==
  /\ Stage("monitor", "evaluate")
  /\ work' = [work EXCEPT !.monitor = MonitorHealth(work.obs)]
  /\ UNCHANGED documents /\ Elsewhere

Evaluate ==
  /\ runner.at = "evaluate"
  /\ \E live \in BOOLEAN :
       runner' = [runner EXCEPT !.at = "enforce", !.eligible = Eligible(model, work, live)]
  /\ UNCHANGED <<documents, work>> /\ Elsewhere

\* --enforce-safety, of the verdict just made and the cutover read again.
EnforceSafety ==
  /\ Stage("enforce", "publish")
  /\ cutover' = IF cutover.mode = "PRIMARY" /\ ~runner.eligible THEN RolledBack ELSE cutover
  /\ UNCHANGED <<ledger, model, active, work>> /\ Elsewhere

\* The stages after it leave the evidence alone; the run is published at its end.
Publish ==
  /\ runner.at = "publish"
  /\ runner' = Idle /\ pub' = work /\ work' = Nothing
  /\ UNCHANGED <<day, touched, documents, desk, failures, orders>>

\* Any stage may fail, or its runner be lost: the run is never published.
FailRun ==
  /\ runner.at # "idle" /\ failures < MaxFailures
  /\ failures' = failures + 1 /\ runner' = Idle /\ work' = Nothing
  /\ UNCHANGED <<day, touched, documents, pub, desk, orders>>

-----------------------------------------------------------------------------
Command(d) == desk' = d /\ UNCHANGED <<day, touched, ledger, model, work, pub, runner, failures>>

OperatorEvaluates ==
  /\ desk.at = "idle" /\ orders < MaxOrders /\ orders' = orders + 1
  /\ \E live \in BOOLEAN :
       Command([at |-> "decided", eligible |-> Eligible(model, pub, live), payload |-> NoModel])
  /\ UNCHANGED <<active, cutover>>

\* --activate reads the model again and records its version.
OperatorActivates ==
  /\ desk.at = "decided" /\ desk.eligible
  /\ cutover' = [mode |-> "PRIMARY", version |-> model.version]
  /\ Command([desk EXCEPT !.at = "activated", !.payload = model])
  /\ UNCHANGED <<active, orders>>

OperatorCopies ==
  /\ desk.at = "activated"
  /\ active' = desk.payload
  /\ Command(AtDesk)
  /\ UNCHANGED <<cutover, orders>>

\* CutoverController.activate raises, or the command is killed.
OperatorStops == desk.at # "idle" /\ Command(AtDesk) /\ UNCHANGED <<active, cutover, orders>>

OperatorRollsBack ==
  /\ desk.at = "idle" /\ orders < MaxOrders /\ orders' = orders + 1
  /\ cutover' = RolledBack /\ Command(AtDesk) /\ UNCHANGED active

-----------------------------------------------------------------------------
RunStep == Start \/ FitCalibration \/ ResolveHistories \/ RecordSnapshot \/ WriteHealth
             \/ MonitorModel \/ Evaluate \/ EnforceSafety \/ Publish
OperatorStep == OperatorEvaluates \/ OperatorActivates \/ OperatorCopies
                  \/ OperatorStops \/ OperatorRollsBack
Next == NextSession \/ RunStep \/ FailRun \/ OperatorStep
\* The schedule of production.yml starts a run again and again.
Spec == Init /\ [][Next]_vars /\ WF_vars(RunStep)

\* A market-session snapshot is an immutable cohort: a rerun neither adds nor
\* drops a ticker, and no resolution rewrites what was ranked (line 126).
Choice(o) == <<o.v3, o.v45, o.status>>
CohortFrozen ==
  [][\A k \in DOMAIN ledger :
       /\ k \in DOMAIN ledger' /\ Choice(ledger'[k]) = Choice(ledger[k])
       /\ ledger'[k].bars >= ledger[k].bars
       /\ \A j \in DOMAIN ledger' : j[1] = k[1] => j \in DOMAIN ledger]_vars

\* A label, once measured, is not measured again from later bars as long as
\* the history that is read still reaches back to the observation's session.
LabelSettles ==
  [][\A k \in DOMAIN ledger :
       ledger[k].from > 0 /\ runner.t0 - k[1] <= Window
         => ledger'[k].from = ledger[k].from /\ ledger'[k].hit = ledger[k].hit]_vars

\* Refitting cannot replace the model that is served: that changes only with
\* the operator's command or a rollback.
RetrainingServesTheSame ==
  [][Served' # Served => desk' # desk \/ cutover'.mode = "SHADOW"]_vars

\* A model whose published monitor is DEGRADED does not stay primary: a run
\* rolls it back, unless a later run finds it otherwise.
DegradedIsRolledBack ==
  cutover.mode = "PRIMARY" /\ pub.monitor = "DEGRADED"
    ~> cutover.mode = "SHADOW" \/ pub.monitor # "DEGRADED"
=============================================================================
