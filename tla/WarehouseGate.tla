---------------------------- MODULE WarehouseGate ----------------------------
(***************************************************************************)
(* The warehouse gate and the reads it answers for:                        *)
(* scanner/warehouse_gate.py, scanner/warehouse.py and                     *)
(* scanner/market_cutoff.py.                                               *)
(*                                                                         *)
(* The gate captures a boundary T0, evaluates every coverage tier on the   *)
(* rows visible there, and writes two datasets of the run one after the    *)
(* other: the evidence, then the snapshot that vouches for it.  Consumers  *)
(* read at T0, each over a period and with an age limit of its own.        *)
(* Before publication the evidence is loaded again and every symbol's age  *)
(* is judged by the clock of that moment.  The gate may crash between its  *)
(* steps and run again; ingestion and the universe go on.                  *)
(***************************************************************************)
EXTENDS MarketClock, FiniteSets

CONSTANTS
  Master,     \* the master universe
  Core, Theme, Rotation, \* market symbols: core, theme ETFs, those the rotation requires
  MinMaster, MinTheme, MinLive,   \* coverage the lenient tiers need, in percent
  DailyBars, MinBars,    \* history the daily and the intraday tiers ask for
  Age, LiveAge,          \* age limits: of market symbols, of the live universe
  DailyDays, LiveDays,   \* the periods that consumers read, in days
  MasterMinimum,         \* MASTER_UNIVERSE_MINIMUM
  Plans,      \* bound: the live universes that are planned
  Starts,     \* bound: the bars that are ingested
  Begins,     \* bound: when the run starts
  MaxBad,     \* bound: bars that are missing or invalid when it starts
  MaxLate,    \* bound: rows ingested while it runs
  MaxGate,    \* bound: executions of the gate
  MaxTime,    \* bound: the clock
  None

Strict == Core \cup Rotation
Symbols == Master \cup Core \cup Theme

ASSUME GateAssumption == /\ IsFiniteSet(Symbols)
                         /\ Core \cap Theme = {} /\ Rotation \subseteq Core \cup Theme
                         /\ Plans \subseteq (SUBSET Master) \ {{}}
                         /\ {MinMaster, MinTheme, MinLive} \subseteq 0..100
                         /\ {DailyBars, MinBars, Age, LiveAge, DailyDays, LiveDays, MasterMinimum,
                             MaxBad, MaxLate, MaxGate, MaxTime} \subseteq Nat
                         /\ Starts \subseteq Nat
                         /\ Begins \subseteq {t \in 0..MaxTime : Done(t) # {}}
ASSUME NoneAssumption == \A S \in SUBSET Symbols : None # S

VARIABLES
  clock,
  runStart,   \* pipeline_run.started_at
  row,        \* market_observation: versions of bars
  live,       \* the run's live_universe dataset
  gate,       \* the gate: "idle", "captured", "covered"
  boundary,   \* the boundary of the execution that runs or ran last
  frozen,     \* frozen_catalogue: boundary -> live universe
  evidence,   \* the warehouse_coverage dataset
  snapshot,   \* the warehouse_snapshot dataset
  loaded,     \* what validate_publication_freshness holds in memory
  published   \* boundary and clock of the validation that passed

inputs == <<runStart, row, live>>
datasets == <<evidence, snapshot>>
vars == <<clock, inputs, gate, boundary, frozen, datasets, loaded, published>>

Time == 0..MaxTime
MarketBar == [symbol : Symbols, frame : {"5m", "1d"}, start : Starts]

-----------------------------------------------------------------------------
Tier(name, symbols, frame, min, bars, age) ==
  [name |-> name, symbols |-> symbols, frame |-> frame, min |-> min, bars |-> bars, age |-> age]

\* build_tiers, with one number of bars a frame.
Tiers(liveSymbols) ==
  {Tier("MASTER_DAILY", Master, "1d", MinMaster, DailyBars, 0),
   Tier("CRITICAL_DAILY", Core \cup Theme, "1d", 100, DailyBars, 0),
   Tier("CRITICAL_INTRADAY", Strict, "5m", 100, MinBars, Age),
   Tier("THEME_INTRADAY", Theme, "5m", MinTheme, MinBars, Age),
   Tier("LIVE_INTRADAY", liveSymbols, "5m", MinLive, MinBars, LiveAge)}

\* The current version of each bar of a symbol that is visible at the boundary.
Visible(s, frame, at) ==
  LET V == {r \in row : /\ r.symbol = s /\ r.frame = frame /\ r.at <= at
                        /\ r.start <= Cutoff(frame, at, runStart)}
  IN  {r \in V : \A q \in V : q.start = r.start => q.at <= r.at}

NewestBar(V) == CHOOSE r \in V : \A q \in V : q.start <= r.start
\* coverage_frame: bars, invalid bars and the newest event of each symbol with rows.
Aggregate(V) == [bars |-> Cardinality({r.start : r \in V}),
                 invalid |-> Cardinality({r \in V : ~r.valid}),
                 newest |-> NewestBar(V).start]
Coverage(t, at) == [s \in {x \in t.symbols : Visible(x, t.frame, at) # {}} |->
                      Aggregate(Visible(s, t.frame, at))]

\* evaluate_tier.
Quarantined(t, f, now) ==
  {s \in DOMAIN f : f[s].bars < t.bars \/ f[s].invalid > 0 \/ Stale(t.frame, f[s].newest, now, t.age)}
Present(t, f, now) == DOMAIN f
Usable(t, f, now) == DOMAIN f \ Quarantined(t, f, now)
Passes(t, f, now) ==
  /\ t.symbols # {}
  /\ 100 * Cardinality(Usable(t, f, now)) >= t.min * Cardinality(t.symbols)
  /\ t.min = 100 => DOMAIN f \subseteq Usable(t, f, now)

Evidence(at, universe) == [at |-> at, universe |-> universe,
                           tiers |-> [t \in Tiers(universe) |-> Coverage(t, at)]]

\* Ingestion keeps closed bars, and daily bars of completed sessions.
Closed(b) ==
  IF b.frame = "1d" THEN b.start % DayLen = 0 /\ Day(b.start) \in Done(clock)
  ELSE Day(b.start) \in Session /\ Opens(Day(b.start)) <= b.start
       /\ b.start < Closes(Day(b.start)) /\ b.start + 1 <= clock

RowOf(b, valid) ==
  [symbol |-> b.symbol, frame |-> b.frame, start |-> b.start, valid |-> valid, at |-> clock]

\* The run starts after some session closed, over a warehouse in which a few bars
\* are missing or invalid.
Init ==
  /\ clock \in Begins /\ runStart = clock
  /\ \E bad \in {B \in SUBSET {b \in MarketBar : Closed(b)} : Cardinality(B) <= MaxBad} :
       \E missing \in SUBSET bad :
         row = {RowOf(b, b \notin bad) : b \in {b \in MarketBar : Closed(b)} \ missing}
  /\ IsFiniteSet(row)
  /\ live \in Plans
  /\ Cardinality(Master) >= MasterMinimum
  /\ gate = "idle" /\ boundary = None /\ frozen = [t \in {} |-> {}]
  /\ evidence = None /\ snapshot = None
  /\ loaded = None /\ published = None

Tick ==
  /\ clock < MaxTime
  /\ clock' = clock + 1
  /\ UNCHANGED <<inputs, gate, boundary, frozen, datasets, loaded, published>>

\* Ingestion stores a closed bar, a correction or a late one.  Its time is not
\* the boundary's: both are read to the microsecond.
Ingest(b, valid) ==
  /\ published = None
  /\ Cardinality({q \in row : q.at > runStart}) < MaxLate
  /\ clock > runStart /\ Closed(b) /\ clock \notin DOMAIN frozen
  /\ ~\E q \in row : q.symbol = b.symbol /\ q.frame = b.frame /\ q.start = b.start /\ q.at = clock
  /\ row' = row \cup {RowOf(b, valid)}
  /\ UNCHANGED <<clock, runStart, live, gate, boundary, frozen, datasets, loaded, published>>

\* write_dataset replaces the live universe.
Replan(u) ==
  /\ published = None
  /\ u # live
  /\ clock \notin DOMAIN frozen
  /\ live' = u
  /\ UNCHANGED <<clock, runStart, row, gate, boundary, frozen, datasets, loaded, published>>

\* run: the boundary is captured and the universe frozen under it.
CaptureBoundary ==
  /\ gate = "idle" /\ published = None /\ Cardinality(DOMAIN frozen) < MaxGate
  /\ clock \notin DOMAIN frozen
  /\ gate' = "captured"
  /\ boundary' = clock
  /\ frozen' = [t \in DOMAIN frozen \cup {clock} |-> IF t = clock THEN live ELSE frozen[t]]
  /\ UNCHANGED <<clock, inputs, datasets, loaded, published>>

\* run: the evidence is written first.
WriteCoverage ==
  /\ gate = "captured"
  /\ gate' = "covered"
  /\ evidence' = Evidence(boundary, frozen[boundary])
  /\ UNCHANGED <<clock, inputs, boundary, frozen, snapshot, loaded, published>>

\* run: then the snapshot, with the hash of the evidence (here: the evidence).
WriteSnapshot ==
  /\ gate = "covered"
  /\ gate' = "idle"
  /\ LET e == Evidence(boundary, frozen[boundary])
     IN  snapshot' = [at |-> boundary, session |-> CompletedSession(runStart), hash |-> e,
                      pass |-> \A t \in DOMAIN e.tiers : Passes(t, e.tiers[t], boundary)]
  /\ UNCHANGED <<clock, inputs, boundary, frozen, evidence, loaded, published>>

\* The gate's process dies, and the stage may be run again.
Crash ==
  /\ gate # "idle"
  /\ gate' = "idle"
  /\ UNCHANGED <<clock, inputs, boundary, frozen, datasets, loaded, published>>

AnyEvidence(e, s) == e # None
\* _publication_coverage: the hash, the boundary and the frozen symbols must agree.
EvidenceMatches(e, s) == e # None /\ e = s.hash /\ e.at = s.at /\ e.universe = frozen[s.at]

\* validate_publication_freshness up to the loading of the evidence.
Load ==
  /\ loaded = None /\ published = None
  /\ snapshot # None /\ snapshot.pass
  /\ snapshot.session = CompletedSession(clock)
  /\ snapshot.at <= clock
  /\ EvidenceMatches(evidence, snapshot)
  /\ loaded' = [record |-> snapshot, frames |-> evidence.tiers]
  /\ UNCHANGED <<clock, inputs, gate, boundary, frozen, datasets, published>>

\* Loading must not spend a stale copy of the publication clock.
SessionHolds(record) == record.session = CompletedSession(clock)

\* Every tier is judged again, by the clock after the loading.
Validate ==
  /\ loaded # None
  /\ loaded' = None
  /\ published' = IF /\ SessionHolds(loaded.record)
                     /\ \A t \in DOMAIN loaded.frames : Passes(t, loaded.frames[t], clock)
                    THEN [at |-> loaded.record.at, now |-> clock] ELSE None
  /\ UNCHANGED <<clock, inputs, gate, boundary, frozen, datasets>>

Next ==
  \/ Tick
  \/ \E b \in MarketBar, valid \in BOOLEAN : Ingest(b, valid)
  \/ \E u \in Plans : Replan(u)
  \/ CaptureBoundary \/ WriteCoverage \/ WriteSnapshot \/ Crash
  \/ Load \/ Validate

Spec == Init /\ [][Next]_vars

-----------------------------------------------------------------------------
\* period_start: a consumer's period begins some days before the boundary's day.
Since(days, at) == (Day(at) - days) * DayLen
\* point_in_time: the gate's count has no such lower bound.
InPeriod(s, frame, at, days) == {r \in Visible(s, frame, at) : r.start >= Since(days, at)}

Gaps(V) == V = {} \/ \E r \in V : ~r.valid
\* _freshness_failures of a consumer: daily bars are judged by the run's start.
OldFor(V, frame, at) == Stale(frame, NewestBar(V).start, IF frame = "1d" THEN runStart ELSE at, Age)

\* provide: the symbols of the view, or None when it raises.  frames with
\* require_complete, and history, require them all.
Provide(symbols, frame, days, must, min, at) ==
  LET V(s) == InPeriod(s, frame, at, days)
      old == {s \in symbols : OldFor(V(s), frame, at)}
      may == symbols \ must
  IN  IF \/ \E s \in symbols : Gaps(V(s))
         \/ old \cap must # {}
         \/ 100 * Cardinality(may \ old) < min * Cardinality(may)
         \/ old = symbols
        THEN None ELSE symbols \ old

\* frames(require_complete=False): bad symbols are left out, and none may be left.
Frames(symbols, frame, days, at) ==
  LET fit == {s \in symbols : LET V == InPeriod(s, frame, at, days)
                              IN  ~Gaps(V) /\ ~OldFor(V, frame, at)}
  IN  IF fit = {} THEN None ELSE fit

\* The period reaches back to the last completed session: not a given, three days
\* from a Monday before the open do not when the Friday was a holiday.
Reaches(days, at) == Since(days, at) <= CompletedSession(at) * DayLen

\* sector_rotation's core and history of a benchmark, over five days.
RotationServed(at) ==
  Reaches(LiveDays, at) =>
    \A S \in SUBSET Strict : S # {} => Provide(S, "5m", LiveDays, S, 100, at) = S

\* rank_themes and the benchmark of the daily scan.
RankingServed(at) ==
  Reaches(DailyDays, at) =>
    \A S \in SUBSET (Core \cup Theme) : S # {} => Provide(S, "1d", DailyDays, S, 100, at) = S

\* theme_live: provide raises for a gap the tier has tolerated, never for an age.
ThemesServed(at) ==
  Reaches(LiveDays, at) /\ (\A s \in Theme : ~Gaps(InPeriod(s, "5m", at, LiveDays))) =>
    \A C \in SUBSET Core : C # {} =>
      LET view == Provide(C \cup Theme, "5m", LiveDays, C, MinTheme, at)
      IN  /\ view # None /\ C \subseteq view
          /\ 100 * Cardinality(view \cap Theme) >= MinTheme * Cardinality(Theme)

\* The daily discovery reads the universe in batches, each by a call of frames.
DiscoveryServed(at) ==
  Reaches(DailyDays, at) =>
    LET t == Tier("MASTER_DAILY", Master, "1d", MinMaster, DailyBars, 0)
        usable == Usable(t, Coverage(t, at), at)
    IN  \A batch \in SUBSET Master : batch \cap usable # {} =>
          /\ Frames(batch, "1d", DailyDays, at) # None
          /\ batch \cap usable \subseteq Frames(batch, "1d", DailyDays, at)

(* After the gate has passed, the consumers whose period reaches the last completed
   session are served, although they decide by code of their own and ingestion goes
   on: a read of critical symbols gets all of them, the themes are refused only for a
   gap, and a batch of the daily discovery gets every symbol the gate has counted. *)
ConsumersServed ==
  snapshot # None /\ snapshot.pass =>
    /\ RotationServed(snapshot.at) /\ RankingServed(snapshot.at)
    /\ ThemesServed(snapshot.at) /\ DiscoveryServed(snapshot.at)

(* A publication rests on the rows its signals were computed from: at the instant
   it is validated, every tier of the universe frozen at the boundary passes on the
   rows visible there, read afresh.  The evidence it used is never another gate
   execution's. *)
PublishedOnFreshInputs ==
  published # None =>
    \A t \in Tiers(frozen[published.at]) : Passes(t, Coverage(t, published.at), published.now)

(* Frozen inputs only age: what the publication check has refused for its age it
   never accepts later, across closes, nights and days without a session. *)
InputsOnlyAge ==
  [][snapshot # None /\ snapshot' = snapshot =>
       \A t \in DOMAIN snapshot.hash.tiers :
         LET f == snapshot.hash.tiers[t]
         IN  Usable(t, f, clock') \subseteq Usable(t, f, clock)]_vars
=============================================================================
