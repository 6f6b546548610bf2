----------------------------- MODULE PaperBooks -----------------------------
(***************************************************************************)
(* The paper books: trades that a production stage enters on its own        *)
(* judgement and follows on later bars.  A behaviour keeps one of           *)
(*   "pick"       daily_pick.py: one trade a day;                           *)
(*   "challenger" v31_challenger.py: one decision a day, a trade or none;   *)
(*   "flow"       order_flow_validation.py: each signal once;               *)
(*   "quant"      quant_shadow.py: a cohort a session, on daily bars.       *)
(* The state documents survive a run that fails later.                      *)
(*                                                                          *)
(* Time is counted in intraday bars, Slots to a day, of which the first is  *)
(* before the open.  A run's T0 and a stage's clock lie inside bar t0 and   *)
(* bar now, which are not complete.  A bar is known by the levels its range *)
(* touches; the scores that rank candidates are left out.                   *)
(***************************************************************************)
EXTENDS Integers, FiniteSets, FiniteSetsExt, Functions

CONSTANTS
  Book,        \* the books a behaviour may keep
  Ticker,
  Strategy,    \* ALL_MODELS of quant_shadow.py
  Setup,       \* the levels of order-flow signals: "entry|stop"
  Slots, Weekend, MaxDay,
  Refresh,     \* the times at which histories may come or go: a universe, a stale row
  From, Until, \* 09:45, and 14:30 for the challenger, as slots of a day
  Hold,        \* business days a trade is held: 7
  Window,      \* calendar days of bars that a stage reads: 10, or a month
  MaxRuns, MaxTouches, MaxDelay    \* bounds; MaxDelay: slots from T0 to the stage

\* What the constants are assumed to be; an instance assumes it.
BookAssumption == Book \subseteq {"pick", "challenger", "flow", "quant"}
ClockAssumption ==
  /\ {Slots, MaxDay, From, Until, Hold, Window, MaxRuns, MaxTouches, MaxDelay} \subseteq Nat
  /\ Slots > 1 /\ Hold > 0 /\ From > 0 /\ Weekend \subseteq 1..MaxDay /\ Refresh \subseteq Nat

VARIABLES
  kind,     \* the book that is kept
  now,
  touched,  \* <<ticker, bar, level>>: the bars that reach a level
  listed,   \* the tickers whose history the warehouse serves
  book,     \* the state document: a record per trade
  decided,  \* state v31/challenger_decisions: the days with a decision
  saved,    \* each saved run's T0, with the tickers listed then
  torn      \* T0 of the runs that stopped between two saves

vars == <<kind, now, touched, listed, book, decided, saved, torn>>

Never == -1
Level == {"stop", "target"}
Day(t) == t \div Slots
Business(d) == d \notin Weekend
IsBar(b) == b % Slots > 0 /\ Business(Day(b))
Closed == {"STOP", "TARGET", "EXPIRED"}

\* _business_days_open: numpy's busday_count, which leaves out the last day.
BusinessDays(d, e) == Cardinality({x \in d..(e - 1) : Business(x)})

\* expected_market_data_session: the last session whose open is past.
SessionAt(t) == Max({d \in 0..Day(t) : Business(d) /\ d * Slots + 1 <= t})

Trade(t, at) == [ticker |-> t, at |-> at, status |-> "OPEN", exit |-> Never, by |-> Never]

-----------------------------------------------------------------------------
(* What a stage sees of a trade. *)

After(e, b) == IF kind = "quant" THEN Day(b) > e.at ELSE b > e.at

\* Daily bars are complete once their session is over.
InView(e, b, at) ==
  /\ b < at /\ IsBar(b) /\ Day(b) >= Day(at) - Window
  /\ After(e, b)
  /\ kind = "quant" => Day(b) < Day(at)

\* The bar a level counts at: quant_shadow resolves on whole sessions, and
\* a session counts at its first bar.
Mark(b) == IF kind = "quant" THEN Day(b) * Slots + 1 ELSE b

\* _sessions_after keeps the first Hold sessions of a quant trade.
Sessions(e, at) == {d \in (e.at + 1)..(Day(at) - 1) : Business(d) /\ d >= Day(at) - Window}
Counts(e, b, at) ==
  /\ InView(e, b, at)
  /\ kind = "quant" => Cardinality({d \in Sessions(e, at) : d < Day(b)}) < Hold
Touches(e, at) == {x \in touched : x[1] = e.ticker /\ Counts(e, x[2], at)}
Hits(e, level, at) == {Mark(x[2]) : x \in {y \in Touches(e, at) : y[3] = level}}
AnyBar(e, at) == \E b \in 0..at : InView(e, b, at)

TargetFirst(stops, targets) ==
  stops # {} /\ (targets = {} \/ Min(stops) < Min(targets))
\* The stop wins a bar that reaches both.
StopFirst(stops, targets) ==
  stops # {} /\ (targets = {} \/ Min(stops) <= Min(targets))

Overdue(e, t0) ==
  CASE kind = "pick" -> BusinessDays(Day(e.at), Day(now)) >= Hold
    [] kind \in {"challenger", "flow"} ->
         AnyBar(e, t0) /\ BusinessDays(Day(e.at), Day(now)) >= Hold
    [] kind = "quant" -> Cardinality(Sessions(e, t0)) >= Hold

Close(e, status, exit, t0) == [e EXCEPT !.status = status, !.exit = exit, !.by = t0]

\* _monitor_row, _update_open and resolve_ledger.
Judged(e, t0) ==
  LET stops == Hits(e, "stop", t0)
      targets == Hits(e, "target", t0)
  IN IF StopFirst(stops, targets) THEN Close(e, "STOP", Min(stops), t0)
     ELSE IF targets # {} THEN Close(e, "TARGET", Min(targets), t0)
     ELSE IF Overdue(e, t0) THEN Close(e, "EXPIRED", t0, t0)
     ELSE e

Untouched(e, t0) == e
Open(e) == e.status = "OPEN"
Blind(e) == e.ticker \notin listed

\* A book without a usable history keeps the trade as it is, but a daily pick
\* expires all the same.
Unseen(e, t0) == IF kind = "pick" /\ Overdue(e, t0) THEN Close(e, "EXPIRED", t0, t0) ELSE e

Monitored(t0) ==
  [k \in DOMAIN book |->
     LET e == book[k] IN
     IF ~Open(e) THEN e ELSE IF Blind(e) THEN Unseen(e, t0) ELSE Judged(e, t0)]

\* warehouse.history raises for a ticker it does not serve, and the challenger
\* and order-flow stages do not catch it; frames raises with no ticker at all.
Raises ==
  LET open == {k \in DOMAIN book : Open(book[k])}
  IN CASE kind \in {"challenger", "flow"} -> \E k \in open : Blind(book[k])
       [] kind = "quant" -> open # {} /\ \A k \in open : Blind(book[k])
       [] OTHER -> FALSE

-----------------------------------------------------------------------------
(* What a stage enters: functions from new ids to trades. *)

Entry(id, at) == [k \in {id} |-> Trade(id[1], at)]
NoEntry == [k \in {} |-> Trade(0, 0)]

SelectedNow == \E k \in DOMAIN book : book[k].at = now
SelectedToday == \E k \in DOMAIN book : Day(book[k].at) = Day(now)
InHours == Business(Day(now)) /\ now % Slots >= From

\* The best of the momentum and the live rows, if there is one.
PickCandidate(t0) == {NoEntry} \cup {Entry(<<t, t0>>, now) : t \in listed}

DailyPick(t0) == IF InHours /\ ~SelectedToday THEN PickCandidate(t0) ELSE {NoEntry}

MayDecide == InHours /\ now % Slots <= Until /\ Day(now) \notin decided
ChallengerPick(t0) == IF MayDecide THEN PickCandidate(t0) ELSE {NoEntry}

\* Order-flow buys; a signal id that the journal knows is skipped.
FlowSignals ==
  {[k \in buys \ DOMAIN book |-> Trade(k[1], now)] : buys \in SUBSET (listed \X Setup)}

\* build_signals: any cohort of the strategies, the ensemble of their votes and the
\* baseline; without one the stage raises.  freeze_cohort appends unseen ids.
CohortTrades ==
  {[k \in (cohort \X {SessionAt(now)}) \ DOMAIN book |-> Trade(k[1][1], SessionAt(now))] :
     cohort \in SUBSET (listed \X Strategy) \ {{}}}

Entries(t0) ==
  CASE kind = "pick" -> DailyPick(t0)
    [] kind = "challenger" -> ChallengerPick(t0)
    [] kind = "flow" -> FlowSignals
    [] kind = "quant" -> CohortTrades

\* The quant stage enters before it resolves: a trade may be judged at once, but
\* no bar after its session is known yet.
Kept(entries, t0) ==
  [k \in DOMAIN book \cup DOMAIN entries |-> IF k \in DOMAIN book THEN Monitored(t0)[k] ELSE entries[k]]

-----------------------------------------------------------------------------
Init ==
  /\ kind \in Book /\ now = 1 /\ touched = {} /\ listed = Ticker
  /\ book = NoEntry /\ decided = {} /\ saved = {} /\ torn = {}

Runs == Cardinality(saved) + Cardinality(torn)

\* Bar `now' completes; a weekend is over at once.
Later == IF Business(Day(now)) THEN now + 1 ELSE (Day(now) + 1) * Slots
Touching == {{<<t, now, l>> : l \in ls} : t \in Ticker, ls \in SUBSET Level \ {{}}}
Tick ==
  /\ Day(Later) <= MaxDay /\ Runs < MaxRuns
  /\ now' = Later
  /\ \E hit \in {{}} \cup IF IsBar(now) THEN Touching ELSE {} :
       /\ touched' = touched \cup hit
       /\ Cardinality({<<x[1], x[2]>> : x \in touched'}) <= MaxTouches
  /\ listed' \in IF Later \in Refresh THEN SUBSET Ticker ELSE {listed}
  /\ UNCHANGED <<kind, book, decided, saved, torn>>

\* Runs follow one another: T0 is later than the last run's saves.
MayRun(t0) ==
  /\ Runs < MaxRuns /\ 0 <= t0
  /\ \A r \in saved : r.at < t0
  /\ \A t \in torn : t < t0
Save(t0) ==
  /\ MayRun(t0) /\ ~Raises
  /\ \E entries \in Entries(t0) : book' = Kept(entries, t0)
  /\ UNCHANGED <<kind, now, touched, listed>>

\* The stage runs through: both documents of the challenger are saved. A stage
\* that raises, here or earlier in the run, saves nothing.
StageSaves(t0) ==
  /\ Save(t0)
  /\ decided' = IF kind = "challenger" /\ MayDecide THEN decided \cup {Day(now)} ELSE decided
  /\ saved' = saved \cup {[t0 |-> t0, at |-> now, listed |-> listed]}
  /\ UNCHANGED torn

\* The runner is lost after challenger_log and before challenger_decisions.
StageTears(t0) ==
  /\ kind = "challenger" /\ Save(t0)
  /\ torn' = torn \cup {now}
  /\ UNCHANGED <<decided, saved>>

Next == Tick \/ \E t0 \in (now - MaxDelay)..now : StageSaves(t0) \/ StageTears(t0)
Spec == Init /\ [][Next]_vars

-----------------------------------------------------------------------------
Reaches(e, level) ==
  \E x \in touched : x[1] = e.ticker /\ x[3] = level /\ After(e, x[2]) /\ Mark(x[2]) = e.exit

\* A trade's outcome is the first level its bars reached after it was entered,
\* the stop if one bar reached both: whatever runs were lost in between, no
\* saved run can have had an earlier touch in view (daily_pick.py, line 186).
FirstTouchDecides ==
  \A k \in DOMAIN book :
    LET e == book[k] IN
    /\ e.status = "STOP" => Reaches(e, "stop")
    /\ e.status = "TARGET" => Reaches(e, "target")
    /\ e.status \in Closed =>
         \A r \in {x \in saved : x.t0 <= e.by /\ e.ticker \in x.listed} :
           \A x \in Touches(e, r.t0) :
             /\ e.status # "EXPIRED" /\ Mark(x[2]) >= e.exit
             /\ Mark(x[2]) = e.exit /\ x[3] = "stop" => e.status = "STOP"

\* "Exactly one immutable selection per ET trading date" (daily_pick.py, line
\* 246), and one decision a day of the challenger, but for the runs that were
\* lost between its two saves.
OneSelectionADay ==
  kind \in {"pick", "challenger"} =>
    \A d \in 0..MaxDay :
      Cardinality({k \in DOMAIN book : Day(book[k].at) = d})
        <= 1 + Cardinality({t \in torn : Day(t) = d})

\* No trade outlives its holding period: a run saved after that has closed it,
\* with a price if a bar is in view, and a daily pick even without one.
OverdueIsClosed ==
  \A k \in DOMAIN book, r \in saved :
    LET e == book[k] IN
    e.status = "OPEN" /\ (kind = "quant" => e.ticker \in r.listed) =>
      CASE kind = "pick" -> BusinessDays(Day(e.at), Day(r.at)) < Hold
        [] kind \in {"challenger", "flow"} ->
             ~AnyBar(e, r.t0) \/ BusinessDays(Day(e.at), Day(r.at)) < Hold
        [] kind = "quant" -> Cardinality(Sessions(e, r.t0)) < Hold
=============================================================================
