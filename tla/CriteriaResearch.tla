-------------------------- MODULE CriteriaResearch --------------------------
(***************************************************************************)
(* The criteria research of V7: the optimizer that proposes one threshold  *)
(* from matured outcomes and tests it on a chronological holdout           *)
(* (v7/criteria_optimizer.py), and the challenger that is frozen from an   *)
(* eligible proposal and judged on sessions still to come                  *)
(* (v7/challenger.py); both run in stage 250 of the production chain.      *)
(*                                                                         *)
(* The challenger's state outlives a failed run, the records that others   *)
(* read appear with the publication.  A row of the shadow ledger is its    *)
(* value of the criterion and whether it reached its target; the gates on  *)
(* precision, expectancy and false breakouts are one comparison of rates.  *)
(***************************************************************************)
EXTENDS Integers, FiniteSets, FiniteSetsExt

CONSTANTS
  Approved,      \* APPROVED_CRITERIA: the thresholds that may be proposed
  Cohorts,       \* the sets of rows <<value, hit>> a session may bring
  Mature,        \* daily_bars_resolved for a mature outcome, 5
  MinTotal, MinTrainSessions, MinHoldoutSessions, MinHoldout, MinCandidate,
  MinFutureSessions, MinBaseline, MinChallenger,
  MaxDay, MaxFailures

\* What the constants are assumed to be; an instance assumes it.
SizesAssumption ==
  /\ {Mature, MinTotal, MinHoldout, MinBaseline, MaxDay, MaxFailures} \subseteq Nat
  /\ {MinTrainSessions, MinHoldoutSessions, MinCandidate, MinFutureSessions, MinChallenger}
       \subseteq Nat \ {0}
RowsAssumption == Approved \subseteq Nat /\ Cohorts \subseteq SUBSET (Nat \X BOOLEAN)

VARIABLES
  day,         \* the session date
  ledger,      \* the shadow ledger's cohorts, by session
  stage,       \* where the run is
  proposal,    \* the record v7_2_criteria_proposal, as the run sees it
  challenger,  \* state v7/challenger_state
  published,   \* v7_3_challenger_health of the last published run
  known,       \* the sessions that were in the ledger at the registration
  judged,      \* the sessions a verdict rests on
  failures

vars == <<day, ledger, stage, proposal, challenger, published, known, judged, failures>>

None == -1
Waiting == [status |-> "WAITING_FOR_PROPOSAL", change |-> None, after |-> 0]
TERMINAL == {"CHALLENGER_VALIDATED", "CHALLENGER_REJECTED"}

-----------------------------------------------------------------------------
(* training_outcomes, fit_criteria_optimizer *)

\* A cohort is resolved with the daily bars there are when the run starts.
Ripe == {s \in DOMAIN ledger : day - s >= Mature}

RowsOf(sessions) == UNION {{<<s, r>> : r \in ledger[s]} : s \in sessions}
Selected(rows, threshold) == {x \in rows : x[2][1] >= threshold}
Hits(rows) == Cardinality({x \in rows : x[2][2]})

\* The rate of a is above, not below, that of b.
Above(a, b) == Hits(a) * Cardinality(b) > Hits(b) * Cardinality(a)
Retained(a, b) == 4 * Cardinality(a) >= Cardinality(b)

HoldoutSessions(sessions) ==
  LET share == (3 * Cardinality(sessions) + 9) \div 10
      n == IF share < MinHoldoutSessions THEN MinHoldoutSessions ELSE share
  IN {s \in sessions : Cardinality({r \in sessions : r > s}) < n}

\* The eligible thresholds on the training rows, and the ones that improve most.
Improving(train) ==
  {t \in Approved : LET chosen == Selected(train, t) IN
     Cardinality(chosen) >= MinCandidate /\ Retained(chosen, train) /\ Above(chosen, train)}
Best(choices, train) ==
  {t \in choices : \A u \in choices : ~Above(Selected(train, u), Selected(train, t))}

HoldoutPasses(t, holdout) ==
  LET chosen == Selected(holdout, t) IN
  Cardinality(chosen) >= MinCandidate /\ Retained(chosen, holdout) /\ Above(chosen, holdout)

MeetsTarget(train) == 20 * Hits(train) >= 11 * Cardinality(train)

Proposals ==
  LET holdoutSessions == HoldoutSessions(Ripe)
      train == RowsOf(Ripe \ holdoutSessions)
      holdout == RowsOf(holdoutSessions)
      choices == Improving(train)
      No(status) == {[status |-> status, change |-> None]}
  IN IF \/ Cardinality(RowsOf(Ripe)) < MinTotal
        \/ Cardinality(Ripe \ holdoutSessions) < MinTrainSessions
        \/ Cardinality(holdout) < MinHoldout
     THEN No("INSUFFICIENT_DATA")
     ELSE IF MeetsTarget(train) THEN No("BASELINE_MEETS_TARGET")
     ELSE IF choices = {} THEN No("NO_IMPROVEMENT")
     ELSE {[status |-> IF HoldoutPasses(t, holdout) THEN "PROPOSAL_ELIGIBLE" ELSE "SHADOW_ONLY",
            change |-> t] : t \in Best(choices, train)}

-----------------------------------------------------------------------------
(* evaluate_challenger *)

\* _latest_session: the proposal is dated in UTC, perhaps a day after the session.
Start(created) == Max(DOMAIN ledger \cup {created})

Registered(created) ==
  IF proposal.status # "PROPOSAL_ELIGIBLE" THEN Waiting
  ELSE [status |-> "COLLECTING_FUTURE", change |-> proposal.change, after |-> Start(created)]

\* Mutant: the session of the registration counts as a future one.
FromStart(c) == {s \in Ripe : s >= c.after}
Future(c) == {s \in Ripe : s > c.after}

\* Mutant: a rejected challenger is judged again.
Validated(c) == c.status = "CHALLENGER_VALIDATED"
Settled(c) == c.status \in TERMINAL

Judged(c) ==
  LET baseline == RowsOf(Future(c))
      chosen == Selected(baseline, c.change)
      enough == /\ Cardinality(Future(c)) >= MinFutureSessions
                /\ Cardinality(baseline) >= MinBaseline
                /\ Cardinality(chosen) >= MinChallenger
  IN [c EXCEPT !.status =
        IF ~enough THEN "COLLECTING_FUTURE"
        ELSE IF Retained(chosen, baseline) /\ Above(chosen, baseline)
        THEN "CHALLENGER_VALIDATED" ELSE "CHALLENGER_REJECTED"]

Current(created) == IF challenger.change = None THEN Registered(created) ELSE challenger
Evaluated(c) == IF Settled(c) \/ c.change = None THEN c ELSE Judged(c)

-----------------------------------------------------------------------------
Init ==
  /\ day = 1 /\ ledger = [s \in {} |-> {}] /\ stage = "idle"
  /\ proposal = [status |-> "", change |-> None]
  /\ challenger = Waiting /\ published = Waiting
  /\ known = {} /\ judged = {} /\ failures = 0

\* The shadow stage resolves the ledger and records today's cohort, once a session.
RecordSession ==
  /\ stage = "idle" /\ stage' = "optimize"
  /\ \E rows \in Cohorts :
       ledger' = IF day \in DOMAIN ledger \/ rows = {} THEN ledger
                 ELSE [s \in DOMAIN ledger \cup {day} |-> IF s = day THEN rows ELSE ledger[s]]
  /\ UNCHANGED <<day, proposal, challenger, published, known, judged, failures>>

Optimize ==
  /\ stage = "optimize" /\ stage' = "challenge"
  /\ proposal' \in Proposals
  /\ UNCHANGED <<day, ledger, challenger, published, known, judged, failures>>

Challenge ==
  /\ stage = "challenge" /\ stage' = "publish"
  /\ \E created \in {day, day + 1} :
       /\ challenger' = Evaluated(Current(created))
       /\ known' = IF Current(created) # challenger THEN DOMAIN ledger ELSE known
  /\ judged' = IF Settled(challenger') /\ ~Settled(challenger) THEN Future(challenger') ELSE judged
  /\ UNCHANGED <<day, ledger, proposal, published, failures>>

Publish ==
  /\ stage = "publish" /\ stage' = "idle"
  /\ published' = challenger
  /\ UNCHANGED <<day, ledger, proposal, challenger, known, judged, failures>>

\* A stage fails or the runner is lost: no publication, the documents stay.
Fail ==
  /\ stage # "idle" /\ failures < MaxFailures
  /\ stage' = "idle" /\ failures' = failures + 1
  /\ UNCHANGED <<day, ledger, proposal, challenger, published, known, judged>>

NextDay ==
  /\ stage = "idle" /\ day < MaxDay /\ day' = day + 1
  /\ UNCHANGED <<ledger, stage, proposal, challenger, published, known, judged, failures>>

Next == RecordSession \/ Optimize \/ Challenge \/ Publish \/ Fail \/ NextDay
Spec == Init /\ [][Next]_vars

-----------------------------------------------------------------------------
\* A verdict rests only on sessions that were not in the ledger when the
\* challenger was registered, so on none that its proposal was fitted or tested
\* on, however late they matured (v7/challenger.py, line 141).
JudgedOnTheFuture ==
  Settled(challenger) =>
    judged # {} /\ judged \cap known = {} /\ \A s \in judged, r \in known : s > r

\* Once registered a challenger is never exchanged for another proposal, and a
\* verdict, once reached, is never taken back, though later sessions mature and
\* runs fail before they publish it (v7/challenger.py, line 126).
VerdictStands ==
  [][/\ challenger.change # None =>
          challenger'.change = challenger.change /\ challenger'.after = challenger.after
     /\ challenger.status \in TERMINAL => challenger' = challenger
     /\ published.status \in TERMINAL => published' = published /\ challenger = published]_vars
=============================================================================
