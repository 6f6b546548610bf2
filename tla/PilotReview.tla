------------------------------ MODULE PilotReview ------------------------------
(***************************************************************************)
(* The last gates of a production run: the V8.1 operational health, the     *)
(* V8.2 scorecard, the V9 readiness and the V9.1 pilot packet               *)
(* (v8_operations.py, v8_scorecard.py, v9_readiness.py, v9_pilot.py), with  *)
(* the records they read.                                                   *)
(*                                                                          *)
(* A full run writes every record, each stage reading what the run has so   *)
(* far and nothing where it has none.  A live run copies the published      *)
(* records and writes two of them anew, beside each other: the paper        *)
(* validation and, by the V4 worker, the outcome ledger.  A run that fails  *)
(* publishes nothing.                                                       *)
(***************************************************************************)
EXTENDS Naturals, Sequences, SequencesExt

CONSTANTS
  MinSamples,  \* 220: UncertaintySettings.min_total_samples, MIN_MATURE_EVIDENCE
  MaxSamples, MaxRuns,
  MaxShort     \* bound: records of a run that fall short of their best

\* What the constants are assumed to be; an instance assumes it.
SizeAssumption == {MinSamples, MaxSamples, MaxRuns, MaxShort} \subseteq Nat

VARIABLES
  triggers,   \* v4_outcomes with enough bars: what V5 and V6 are fitted on
  snapshots,  \* shadow observations with enough bars: what the evidence counts
  mode,       \* of the run, "idle" between two
  records,    \* the run's: name -> [run, status]
  head,       \* the published ones
  runs

vars == <<triggers, snapshots, mode, records, head, runs>>

\* In the order of production.yml.
Order == <<"scan_health", "validation_gate", "v4_outcomes", "v6_model", "v7_allocation_health",
  "v4_shadow_observations", "v7_1_evidence_health", "v4_6_cutover_evaluation", "v7_3_challenger_health",
  "social_engine_health", "v8_1_operational_health", "v8_2_evidence_scorecard",
  "v9_readiness", "v9_1_pilot_health">>
Name == ToSet(Order)
\* What the live lane writes anew: readiness and v4_worker.
LiveRecords == {"validation_gate", "v4_outcomes"}

None == [n \in {} |-> 0]
\* read_record(required=False)
Status(name) == IF name \in DOMAIN records THEN records[name].status ELSE ""

-----------------------------------------------------------------------------
\* What each stage may report; the best comes from the settings of its gate.

\* build_readiness_gate, of the closed paper trades.
ValidationGate == {"LIMITED_LIVE_TEST_READY", "PAPER_VALIDATION"}

\* A ledger's rows are never taken out again: one published with rows keeps them.
Ledger(name, mature) ==
  IF mature > 0 \/ (head # None /\ head[name].status = "ROWS") THEN {"ROWS"} ELSE {"ROWS", "EMPTY"}

\* fit_uncertainty_model: below its minimum there is no model, otherwise the
\* holdout decides.
UncertaintyModel ==
  IF triggers < MinSamples THEN {"INSUFFICIENT_DATA"}
  ELSE {"VALIDATED_SHADOW", "SHADOW_ONLY", "INSUFFICIENT_DATA"}

\* allocate_paper_portfolio holds unless V6 is validated.
Allocation ==
  IF Status("v6_model") # "VALIDATED_SHADOW" THEN {"HOLD_SHADOW"}
  ELSE {"PAPER_PLAN_READY", "HOLD_NO_ELIGIBLE_POSITIONS"}

\* build_social_content drafts from a scan that passed; it never publishes.
SocialContent ==
  IF Status("scan_health") = "PASS" THEN {"DRAFTS_READY", "NO_SAFE_DRAFTS"}
  ELSE {"BLOCKED_UNHEALTHY_SCAN"}

\* evaluate_evidence_health: no snapshot, no evidence.
EvidenceHealth ==
  IF Status("v4_shadow_observations") # "ROWS" THEN {"DEGRADED"} ELSE {"HEALTHY", "COLLECTING", "DEGRADED"}

\* evaluate_operational_health: DEGRADED outranks COLLECTING.
OperationalHealth ==
  LET missing == \/ \E n \in {"scan_health", "social_engine_health", "v7_allocation_health"} : Status(n) = ""
                 \/ \E n \in {"v4_shadow_observations", "v4_outcomes"} : Status(n) # "ROWS"
  IN IF Status("scan_health") \notin {"", "PASS"} THEN "DEGRADED"
     ELSE IF missing THEN "COLLECTING" ELSE "HEALTHY"

Scorecard ==
  IF \/ Status("v8_1_operational_health") # "HEALTHY"
     \/ Status("v7_1_evidence_health") \notin {"COLLECTING", "HEALTHY"}
  THEN "DEGRADED"
  ELSE IF snapshots >= MinSamples THEN "V9_REVIEW_READY" ELSE "HEALTHY_COLLECTING"

Eligible ==
  /\ Status("v8_1_operational_health") = "HEALTHY"
  /\ Status("v8_2_evidence_scorecard") = "V9_REVIEW_READY"
  /\ Status("v7_1_evidence_health") = "HEALTHY" /\ snapshots >= MinSamples
  /\ Status("v7_3_challenger_health") = "CHALLENGER_VALIDATED"
  /\ Status("v4_6_cutover_evaluation") = "ELIGIBLE"
  /\ Status("validation_gate") = "LIMITED_LIVE_TEST_READY"
  /\ Status("v7_allocation_health") # ""
Readiness == IF Eligible THEN "ELIGIBLE" ELSE "BLOCKED_BY_V8_VALIDATION"

\* Mutant: the packet asks for the scorecard and the portfolio alone.
ScorecardAlone ==
  /\ Status("v8_2_evidence_scorecard") = "V9_REVIEW_READY"
  /\ Status("v7_allocation_health") = "PAPER_PLAN_READY"
PacketReady ==
  /\ Status("v9_readiness") = "ELIGIBLE"
  /\ Status("v8_2_evidence_scorecard") = "V9_REVIEW_READY"
  /\ Status("v7_allocation_health") = "PAPER_PLAN_READY"

Reports(name) ==
  CASE name = "scan_health" -> {"PASS", "FAIL"}
    [] name = "validation_gate" -> ValidationGate
    [] name = "v4_outcomes" -> Ledger(name, triggers)
    [] name = "v4_shadow_observations" -> Ledger(name, snapshots)
    [] name = "v6_model" -> UncertaintyModel
    [] name = "v7_allocation_health" -> Allocation
    [] name = "v7_1_evidence_health" -> EvidenceHealth
    [] name = "v4_6_cutover_evaluation" -> {"ELIGIBLE", "BLOCKED"}
    [] name = "v7_3_challenger_health" -> {"CHALLENGER_VALIDATED", "COLLECTING", "CHALLENGER_FAILED"}
    [] name = "social_engine_health" -> SocialContent
    [] name = "v8_1_operational_health" -> {OperationalHealth}
    [] name = "v8_2_evidence_scorecard" -> {Scorecard}
    [] name = "v9_readiness" -> {Readiness}
    [] name = "v9_1_pilot_health" -> {IF PacketReady THEN "PAPER_REHEARSAL_READY" ELSE "BLOCKED_PAPER_REHEARSAL"}

\* The gates that V9 asks for, and what passes them.
Gates == [scan_health |-> "PASS", validation_gate |-> "LIMITED_LIVE_TEST_READY",
  v4_outcomes |-> "ROWS", v6_model |-> "VALIDATED_SHADOW",
  v7_allocation_health |-> "PAPER_PLAN_READY", v4_shadow_observations |-> "ROWS", v7_1_evidence_health |-> "HEALTHY",
  v4_6_cutover_evaluation |-> "ELIGIBLE", v7_3_challenger_health |-> "CHALLENGER_VALIDATED"]
Short == Len(SelectSeq(Order, LAMBDA n :
           n \in DOMAIN Gates \cap DOMAIN records /\ records[n].status # Gates[n]))

-----------------------------------------------------------------------------
Init ==
  /\ triggers = 0 /\ snapshots = 0
  /\ mode = "idle" /\ records = None /\ head = None /\ runs = 0

\* The ledgers resolve further sessions (OutcomeLedger, ModelCutover).
Matured ==
  /\ mode = "idle"
  /\ \/ triggers < MaxSamples /\ triggers' = triggers + 1 /\ UNCHANGED snapshots
     \/ snapshots < MaxSamples /\ snapshots' = snapshots + 1 /\ UNCHANGED triggers
  /\ UNCHANGED <<mode, records, head, runs>>

StartFull ==
  /\ mode = "idle" /\ runs < MaxRuns /\ runs' = runs + 1
  /\ mode' = "full" /\ records' = None
  /\ UNCHANGED <<triggers, snapshots, head>>

\* seed_snapshot fails without a publication.
StartLive ==
  /\ mode = "idle" /\ runs < MaxRuns /\ head # None /\ runs' = runs + 1
  /\ mode' = "live" /\ records' = head
  /\ UNCHANGED <<triggers, snapshots, head>>

Write(name) ==
  /\ \E status \in Reports(name) :
       records' = [n \in DOMAIN records \cup {name} |->
         IF n = name THEN [run |-> runs, status |-> status] ELSE records[n]]
  /\ Short' <= MaxShort
  /\ UNCHANGED <<triggers, snapshots, mode, head, runs>>

FullStage ==
  /\ mode = "full"
  /\ \E i \in 1..Len(Order) :
       /\ DOMAIN records = {Order[j] : j \in 1..(i - 1)}
       /\ Write(Order[i])

\* The stages that write them run beside each other.
LiveStage ==
  /\ mode = "live"
  /\ \E name \in LiveRecords : records[name].run < runs /\ Write(name)

Publish ==
  /\ \/ mode = "full" /\ DOMAIN records = Name
     \/ mode = "live" /\ \A n \in LiveRecords : records[n].run = runs
  /\ head' = records /\ records' = None /\ mode' = "idle"
  /\ UNCHANGED <<triggers, snapshots, runs>>

Fail ==
  /\ mode # "idle" /\ mode' = "idle" /\ records' = None
  /\ UNCHANGED <<triggers, snapshots, head, runs>>

Next == Matured \/ StartFull \/ StartLive \/ FullStage \/ LiveStage \/ Publish \/ Fail
Spec == Init /\ [][Next]_vars

-----------------------------------------------------------------------------
\* A published packet was made by one full run in which every gate passed and the
\* model behind its portfolio had the samples it needs.  Later runs that are
\* published keep it with the other records of that run, but for the two that
\* live runs renew; of these only the paper validation can have closed since:
\* the packet stays until the next full run even then (v9_pilot.py, line 36).
PacketFollowsItsGates ==
  head # None /\ head["v9_1_pilot_health"].status = "PAPER_REHEARSAL_READY" =>
    LET made == head["v9_1_pilot_health"].run IN
    /\ \A n \in Name : head[n].run = made \/ (n \in LiveRecords /\ head[n].run > made)
    /\ \A n \in DOMAIN Gates :
         head[n].status = Gates[n] \/ (n = "validation_gate" /\ head[n].run > made)
=============================================================================
