------------------------------ MODULE TradeDesk ------------------------------
(***************************************************************************)
(* The V3 desk of a production run: the intraday monitor (v3_live.py,       *)
(* intraday.py with the rows of live.py) and the high-conviction messages   *)
(* (high_conviction_alerts.py).  A cycle saves the monitor's states, the    *)
(* log of their transitions and the paper journal one after the other, and  *)
(* the later stage sends its messages before it saves which were sent.      *)
(*                                                                          *)
(* States are kept per ticker, journal rows per signal: ticker, entry and   *)
(* stop.  A live row is known by the facts that live.py and the monitor     *)
(* branch on; scores, prices and the marks of a row's highs are left out.   *)
(***************************************************************************)
EXTENDS Naturals, Sequences, FiniteSets, Functions

CONSTANTS
  Ticker,
  Levels,     \* the entries and stops that scans may give a ticker
  Facts,      \* the rows that may be observed
  MaxDay, MaxRuns

\* What the constants are assumed to be; an instance assumes it.
BoundAssumption == {MaxDay, MaxRuns} \subseteq Nat

VARIABLES
  day,        \* the ET session date
  at,         \* where the run is
  rows,       \* intraday_live: the cycle's rows, by ticker
  state,      \* state v3/market_hunt_state
  log,        \* state v3/state_transitions: each ticker's <<from, to>>
  journal,    \* state v3/paper_journal, by signal
  alerted,    \* state high_conviction/alert_log: <<session date, ticker>>
  queue,      \* the candidates that are still to be sent
  new,        \* the rows the alert stage has added so far
  delivered,  \* <<session date, ticker>> -> messages that reached the channel
  entered,    \* signals observed in an entry state, in any cycle
  torn,       \* tickers whose cycle stopped between two saves
  lost,       \* session dates with an alert stage that stopped, as a sequence
  runs

documents == <<state, log, journal, alerted>>
history == <<delivered, entered, torn, lost>>
vars == <<day, at, rows, documents, queue, new, history, runs>>

Unknown == "NEW"
EntryStates == {"TRIGGERED", "LIVE_CONFIRMED"}
Final == {"TARGET_HIT", "FAILED_BREAKOUT", "INVALIDATED"}
ALERT_STATES == EntryStates \cup Final
State == ALERT_STATES \cup {"ARMED", "WATCH"}
Outcome == {"", "PRE_ENTRY_INVALIDATED"} \cup Final

\* live       the session of the newest bar is open
\* armed      the scan's stage is ARMED or CONFIRMED
\* negative   negative catalyst
\* price      at or below the stop, from the target on, or in between
\* triggered  the trigger is reached, for a retest once it was touched
\* holds      above VWAP with a relative volume of 0.8
\* strong     what else a BUY asks: stage, opening range, volume, spread, risk-reward, runway
FactsType == [live : BOOLEAN, armed : BOOLEAN, negative : BOOLEAN,
              price : {"stopped", "between", "target"},
              triggered : BOOLEAN, holds : BOOLEAN, strong : BOOLEAN]
FactsAssumption == Facts \subseteq FactsType

Signal == Ticker \X Levels

-----------------------------------------------------------------------------
(* analyze_live_candidate *)

Buy(f) == f.live /\ ~f.negative /\ f.triggered /\ f.holds /\ f.strong

(* _derive_state *)

ReachesTarget(f, previous) == previous \in EntryStates /\ f.price = "target"

Watched(f, previous) ==
  IF previous # Unknown THEN previous ELSE IF f.armed THEN "ARMED" ELSE "WATCH"

Derived(f, previous) ==
  IF ~f.live THEN Watched(f, previous)
  ELSE IF f.negative \/ f.price = "stopped" THEN "INVALIDATED"
  ELSE IF ReachesTarget(f, previous) THEN "TARGET_HIT"
  ELSE IF Buy(f) THEN "LIVE_CONFIRMED"
  ELSE IF previous \in EntryStates /\ ~(f.triggered /\ f.holds) THEN "FAILED_BREAKOUT"
  ELSE IF f.triggered THEN "TRIGGERED"
  ELSE "ARMED"

Logged(from, to) == from # to /\ (from # Unknown \/ to \in ALERT_STATES)

-----------------------------------------------------------------------------
(* _update_paper_journal *)

NewRow == [triggered |-> FALSE, confirmed |-> FALSE, closed |-> FALSE, outcome |-> ""]
RowOf(s) == IF s \in DOMAIN journal THEN journal[s] ELSE NewRow

\* Mutant: the cycle's state alone says whether the trade was entered.
EnteredNow(row, to) == to \in EntryStates \cup {"TARGET_HIT", "FAILED_BREAKOUT"}
EnteredTrade(row, to) == row.triggered \/ row.confirmed \/ to \in {"TARGET_HIT", "FAILED_BREAKOUT"}

\* A closed row is not final: a later final state overwrites its outcome.
Updated(old, to) ==
  LET row == [old EXCEPT !.triggered = @ \/ to = "TRIGGERED",
                         !.confirmed = @ \/ to = "LIVE_CONFIRMED",
                         !.closed = @ \/ to \in Final]
  IN IF to \notin Final THEN row
     ELSE [row EXCEPT !.outcome =
             IF to = "INVALIDATED" /\ ~EnteredTrade(row, to) THEN "PRE_ENTRY_INVALIDATED" ELSE to]

(* build_performance_reports: the rows that are trades, and the closed ones, *)
(* from which every rate and the sample size of the readiness gate come.     *)
IsTrade(row) == row.triggered \/ row.confirmed \/ row.outcome \in {"TARGET_HIT", "FAILED_BREAKOUT"}
InSample(row) == IsTrade(row) /\ row.outcome # ""

-----------------------------------------------------------------------------
NoRows == [t \in {} |-> Unknown]

Init ==
  /\ day = 1 /\ at = "idle" /\ rows = NoRows
  /\ state = [t \in Ticker |-> Unknown] /\ log = [t \in Ticker |-> <<>>]
  /\ journal = NoRows /\ alerted = {} /\ queue = {} /\ new = {}
  /\ delivered = [k \in {} |-> 0] /\ entered = {} /\ torn = {} /\ lost = <<>> /\ runs = 0

\* refresh_v3_candidates and enrich_live_candidates: some tickers are watched, each
\* with the levels and the facts of today's bars; a missing one fails the stage.
Observations == UNION {[w -> Levels \X Facts] : w \in SUBSET Ticker}

Row(t, o) == [levels |-> o[1], from |-> state[t], to |-> Derived(o[2], state[t]), buy |-> Buy(o[2])]

Monitor ==
  /\ at = "idle" /\ runs < MaxRuns /\ runs' = runs + 1
  /\ \E o \in Observations :
       /\ rows' = [t \in DOMAIN o |-> Row(t, o[t])]
       /\ state' = [t \in Ticker |-> IF t \in DOMAIN o THEN rows'[t].to ELSE state[t]]
       /\ entered' = entered \cup {<<t, rows'[t].levels>> : t \in {x \in DOMAIN o : rows'[x].to \in EntryStates}}
  /\ at' = "states"
  /\ UNCHANGED <<day, log, journal, alerted, queue, new, delivered, torn, lost>>

\* _write_state_transitions
SaveTransitions ==
  /\ at = "states" /\ at' = "log"
  /\ log' = [t \in Ticker |->
       IF t \in DOMAIN rows /\ Logged(rows[t].from, rows[t].to)
       THEN Append(log[t], <<rows[t].from, rows[t].to>>) ELSE log[t]]
  /\ UNCHANGED <<day, rows, state, journal, alerted, queue, new, history, runs>>

SaveJournal ==
  /\ at = "log" /\ at' = "journal"
  /\ LET signals == {<<t, rows[t].levels>> : t \in DOMAIN rows}
     IN journal' = [s \in DOMAIN journal \cup signals |->
          IF s \in signals THEN Updated(RowOf(s), rows[s[1]].to) ELSE journal[s]]
  /\ UNCHANGED <<day, rows, state, log, alerted, queue, new, history, runs>>

\* _candidate_rows: strong momentum rows, and live rows that are confirmed.
Confirmed == {t \in DOMAIN rows : rows[t].to = "LIVE_CONFIRMED" \/ rows[t].buy}

\* Mutant: a session's candidates are all sent.
AnyCandidate(t) == TRUE
NotAlerted(t) == <<day, t>> \notin alerted

StartAlerts ==
  /\ at = "journal" /\ at' = "alerts"
  /\ \E momentum \in SUBSET Ticker, strong \in SUBSET Confirmed :
       queue' = {t \in momentum \cup strong : NotAlerted(t)}
  /\ new' = {}
  /\ UNCHANGED <<day, rows, documents, history, runs>>

Delivered(t) ==
  LET k == <<day, t>>
  IN [x \in DOMAIN delivered \cup {k} |->
        (IF x \in DOMAIN delivered THEN delivered[x] ELSE 0) + (IF x = k THEN 1 ELSE 0)]

\* A message is sent, refused, or sent with its answer lost; all count as alerted.
SendMessage ==
  /\ at = "alerts"
  /\ \E t \in queue :
       /\ delivered' \in {delivered, Delivered(t)}
       /\ queue' = queue \ {t} /\ new' = new \cup {<<day, t>>}
  /\ UNCHANGED <<day, at, rows, documents, entered, torn, lost, runs>>

SaveAlerts ==
  /\ at = "alerts" /\ queue = {}
  /\ alerted' = alerted \cup new /\ new' = {}
  /\ at' = "idle" /\ rows' = NoRows
  /\ UNCHANGED <<day, state, log, journal, queue, history, runs>>

\* A stage fails or the runner is lost; what was saved stays.
Stop ==
  /\ at # "idle" /\ at' = "idle"
  /\ rows' = NoRows /\ queue' = {} /\ new' = {}
  /\ torn' = IF at \in {"states", "log"} THEN torn \cup DOMAIN rows ELSE torn
  /\ lost' = IF at = "alerts" THEN Append(lost, day) ELSE lost
  /\ UNCHANGED <<day, documents, delivered, entered, runs>>

NextDay ==
  /\ at = "idle" /\ day < MaxDay /\ day' = day + 1
  /\ UNCHANGED <<at, rows, documents, queue, new, history, runs>>

Next == Monitor \/ SaveTransitions \/ SaveJournal \/ StartAlerts \/ SendMessage
          \/ SaveAlerts \/ Stop \/ NextDay
Spec == Init /\ [][Next]_vars

-----------------------------------------------------------------------------
\* An outcome enters the journal for a reason the monitor saw: one that counts in
\* the paper statistics only for a ticker that had entered, and "invalidated
\* before its entry" only for a signal never seen in an entry state (intraday.py,
\* line 185), unless a cycle stopped halfway.
OutcomesFollowEntry ==
  [][\A s \in DOMAIN journal' :
       LET row == journal'[s] IN
       row.outcome # RowOf(s).outcome =>
         /\ InSample(row) => \E x \in entered : x[1] = s[1]
         /\ row.outcome = "PRE_ENTRY_INVALIDATED" => s \notin entered \/ s[1] \in torn]_vars

\* A ticker is announced once a session, plus at most once for each alert stage
\* of that session that stopped before it had saved what it sent
\* (high_conviction_alerts.py, line 206).
OneAlertASession ==
  \A k \in DOMAIN delivered :
    delivered[k] <= 1 + Cardinality({i \in DOMAIN lost : lost[i] = k[1]})
=============================================================================
