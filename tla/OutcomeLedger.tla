---------------------------- MODULE OutcomeLedger ----------------------------
(***************************************************************************)
(* The V4 outcome ledger (scanner/v4/outcomes.py): one state document with  *)
(* a record per signal that V4 workers (worker.run_cycle, after the         *)
(* reduction) and the daily resolver (v4_outcomes.resolve_daily) load,      *)
(* change in memory and save as a whole.  The reduction and the ledger are  *)
(* separate transactions.                                                   *)
(*                                                                          *)
(* Prices are abstracted: a snapshot by the facts SignalLifecycle uses, a   *)
(* daily bar by which of stop and target its range touches, and MFE/MAE by  *)
(* the set of observations and bars that have counted for it.  Returns      *)
(* count as measured or not; scores, prices and the 30-minute mark decide   *)
(* nothing here and are left out.                                           *)
(***************************************************************************)
EXTENDS Naturals, Sequences, FiniteSetsExt, SignalLifecycle

CONSTANTS Signal,     \* signal ids: ticker|entry|stop
          Worker,     \* processes that run cycles
          Resolver,   \* the stage that resolves from daily bars
          Serial,     \* whether runs follow one another (production.yml, "concurrency")
          Faults,     \* whether calls may fail and processes may stop
          Snapshot,   \* the snapshots the provider may return
          DailyBar,   \* the kinds of daily bars the warehouse may hold
          Window,     \* sessions a trade is resolved in: 5 in the code
          Horizons,   \* the sessions whose return is measured: HORIZONS
          Slots,      \* instants of a day: midnight and the intraday bars
          MaxDay,     \* bound: sessions
          MaxQuote    \* bound: snapshots per signal

ASSUME SnapshotAssumption == Snapshot \subseteq SnapshotType
ASSUME ResolverAssumption == Resolver \notin Worker
ASSUME FlagAssumption == Serial \in BOOLEAN /\ Faults \in BOOLEAN
ASSUME DayAssumption == Slots \in Nat /\ Slots > 1 /\ Window \in Nat /\ MaxDay \in Nat
ASSUME DailyBarAssumption == DailyBar \subseteq {"quiet", "stop", "target", "both"}
ASSUME HorizonsAssumption == Horizons \subseteq Nat \ {0}

VARIABLES
  now,     \* the time, in slots; day d begins at its midnight, d * Slots
  tape,    \* the provider: each signal's rows, in order
  daily,   \* the warehouse: each signal's daily bars, from day 1 on
  engine,  \* state_document v4/signal_state
  seen,    \* event_record v4.events: the rows recorded for each signal
  ledger,  \* state_document v4_outcomes/signals
  phase,   \* where each actor is
  batch,   \* each worker's polled rows
  moves,   \* the state each worker's transitions lead to
  known,   \* the resolver's histories: their number of bars
  copy     \* the ledger as each actor loaded it

market == <<now, tape, daily>>
signals == <<engine, seen>>
mine == <<phase, batch, moves, known, copy>>
vars == <<market, signals, ledger, mine>>

Actor == Worker \cup {Resolver}
None == "NONE"
Phase == {"idle", "polled", "reduced", "collected", "loaded"}

Session(at) == at \div Slots
Today == Session(now)

\* An evidence item is <<kind, n>>: the close or the range of row n, the range of
\* day n, or the modelled exit of day n.
Evidence == {"close", "range", "day", "exit"} \X Nat

Record == [state : CandidateState \cup {New}, entered : Nat, closed : Nat,
           outcome : Terminal \cup {None}, path : SUBSET Evidence,
           bars : Nat, returns : SUBSET Horizons]

\* No record in the document yet.
Absent == [state |-> New, entered |-> 0, closed |-> 0, outcome |-> None,
           path |-> {}, bars |-> 0, returns |-> {}]

NoRows == [s \in Signal |-> 0]
NoMoves == [s \in Signal |-> None]
NoCopy == [s \in Signal |-> Absent]

Init ==
  /\ now = Slots
  /\ tape = [s \in Signal |-> <<>>]
  /\ daily = [s \in Signal |-> <<>>]
  /\ engine = [s \in Signal |-> New]
  /\ seen = [s \in Signal |-> {}]
  /\ ledger = [s \in Signal |-> Absent]
  /\ phase = [a \in Actor |-> "idle"]
  /\ batch = [w \in Worker |-> NoRows]
  /\ moves = [w \in Worker |-> NoMoves]
  /\ known = NoRows
  /\ copy = [a \in Actor |-> NoCopy]

-----------------------------------------------------------------------------
\* The market

NextBar ==
  /\ now % Slots < Slots - 1
  /\ Today <= MaxDay
  /\ now' = now + 1
  /\ UNCHANGED <<tape, daily, signals, ledger, mine>>

\* A live row belongs to the current bar, which may be shown again with other
\* values; a row of a closed market repeats the last bar, or has no price.
Quote(s) ==
  /\ Len(tape[s]) < MaxQuote
  /\ \E snap \in Snapshot, priced \in BOOLEAN, at \in {now} \cup {tape[s][i].at : i \in DOMAIN tape[s]} :
       /\ snap.live => priced /\ at = now
       /\ at = now => now % Slots > 0 /\ Today <= MaxDay
       /\ \A i \in DOMAIN tape[s] : tape[s][i].at <= at
       /\ tape' = [tape EXCEPT ![s] = Append(@, [snap |-> snap, at |-> at, priced |-> priced])]
  /\ UNCHANGED <<now, daily, signals, ledger, mine>>

\* The session closes.  A daily bar reaches the target if a live price did.
CloseDay ==
  /\ Today <= MaxDay
  /\ now' = (Today + 1) * Slots
  /\ \E bar \in [Signal -> DailyBar] :
       /\ \A s \in Signal : \A i \in DOMAIN tape[s] :
            (Session(tape[s][i].at) = Today /\ tape[s][i].snap.live /\ tape[s][i].snap.target)
              => bar[s] \in {"target", "both"}
       /\ daily' = [s \in Signal |-> Append(daily[s], bar[s])]
  /\ UNCHANGED <<tape, signals, ledger, mine>>

-----------------------------------------------------------------------------
\* Mutant: nothing keeps two runs apart.
AnyTime(a) == phase[a] = "idle"

\* Another run starts when the last one has ended.
MayStart(a) == /\ phase[a] = "idle"
               /\ Serial => \A b \in Actor : phase[b] = "idle"

\* run_cycle up to the adapter's answer.  Whether a row is live is decided when it
\* is polled: one of an earlier session is not.
Poll(w) ==
  /\ MayStart(w)
  /\ \E received \in SUBSET Signal \ {{}} :
       /\ \A s \in received :
            /\ tape[s] # <<>>
            /\ LET row == tape[s][Len(tape[s])]
               IN  row.snap.live => Session(row.at) = Today
       /\ batch' = [batch EXCEPT ![w] =
                     [s \in Signal |-> IF s \in received THEN Len(tape[s]) ELSE 0]]
  /\ phase' = [phase EXCEPT ![w] = "polled"]
  /\ UNCHANGED <<market, signals, ledger, moves, known, copy>>

Reduced(w, s) == IF batch[w][s] # 0 /\ batch[w][s] \notin seen[s]
                 THEN NextState(engine[s], tape[s][batch[w][s]].snap)
                 ELSE engine[s]

\* process_batch: the whole transaction, as in SignalWorker.
Reduce(w) ==
  /\ phase[w] = "polled"
  /\ engine' = [s \in Signal |-> Reduced(w, s)]
  /\ seen' = [s \in Signal |-> seen[s] \cup ({batch[w][s]} \ {0})]
  /\ moves' = [moves EXCEPT ![w] = [s \in Signal |->
                IF Reduced(w, s) # engine[s] THEN Reduced(w, s) ELSE None]]
  /\ phase' = [phase EXCEPT ![w] = "reduced"]
  /\ UNCHANGED <<market, ledger, batch, known, copy>>

-----------------------------------------------------------------------------
\* SignalOutcomeLedger.observe_many

\* A signal that is seen for the first time gets a record.
Opened(record) == IF record.state = New THEN [record EXCEPT !.state = "WATCH"] ELSE record

Entered(record, to, at) ==
  IF to \in Entry /\ record.entered = 0 THEN [record EXCEPT !.entered = at] ELSE record

Closed(record, to, at) ==
  IF to \in Terminal /\ record.closed = 0
  THEN [record EXCEPT !.closed = at, !.outcome = to]
  ELSE record

\* The engine's transition, if the row caused one.
Moved(record, to, at) ==
  IF to = None THEN record
  ELSE Closed(Entered([record EXCEPT !.state = to], to, at), to, at)

\* Mutant: a row of the entry bar counts with the bar's range.
WholeBar(record, row, n) == <<"range", n>>

\* Price ordering inside the entry bar is ambiguous: only its close counts.
Sample(record, row, n) == <<IF row.at = record.entered THEN "close" ELSE "range", n>>

Sampled(record, row, n) ==
  IF /\ row.priced
     /\ record.entered # 0
     /\ row.at >= record.entered
     /\ record.closed = 0 \/ row.at <= record.closed
  THEN [record EXCEPT !.path = @ \cup {Sample(record, row, n)}]
  ELSE record

Observed(w, s, record) ==
  IF batch[w][s] = 0 THEN record
  ELSE LET n == batch[w][s]
           row == tape[s][n]
       IN  Sampled(Moved(Opened(record), moves[w][s], row.at), row, n)

-----------------------------------------------------------------------------
\* SignalOutcomeLedger.resolve_daily_histories

\* The sessions after the entry that the history has.
Future(record, n) == {d \in 1 .. n : d > Session(record.entered)}

InWindow(record, n) == {d \in Future(record, n) : d <= Session(record.entered) + Window}

\* Sessions are counted up to the longest horizon.
Measured(record, n) ==
  LET available == Cardinality(Future(record, n))
      counted == Cardinality({d \in 1 .. available : \E h \in Horizons : d <= h})
  IN  [record EXCEPT !.bars = IF counted > @ THEN counted ELSE @,
                     !.returns = @ \cup {h \in Horizons : h <= available}]

\* Mutant: a bar that touches both ends the trade at the target.
TargetFirst(bar) == IF bar = "stop" THEN "INVALIDATED" ELSE "TARGET_HIT"

\* The stop is assumed to come first.
DailyOutcome(bar) == IF bar = "target" THEN "TARGET_HIT" ELSE "INVALIDATED"

\* Walks the window up to the first bar that touches the stop or the target.
Walked(record, s, n) ==
  LET window == InWindow(record, n)
      touching == {d \in window : daily[s][d] # "quiet"}
      exit == Min(touching)
  IN  IF touching = {}
      THEN [record EXCEPT !.path = @ \cup {<<"day", d>> : d \in window}]
      ELSE [record EXCEPT
              !.path = @ \cup {<<"day", d>> : d \in {e \in window : e < exit}}
                         \cup {<<"exit", exit>>},
              !.state = DailyOutcome(daily[s][exit]),
              !.outcome = DailyOutcome(daily[s][exit]),
              !.closed = exit * Slots]

\* Records that were not entered, or have no history, are left alone.
Resolved(record, s) ==
  IF record.entered = 0 \/ known[s] = 0 THEN record
  ELSE LET measured == Measured(record, known[s])
       IN  IF record.outcome # None THEN measured ELSE Walked(measured, s, known[s])

\* resolve_daily: a first read names the entered tickers, whose histories are
\* read; the warehouse may have none for a ticker.
Collect ==
  /\ MayStart(Resolver)
  /\ \E found \in SUBSET {s \in Signal : ledger[s].entered # 0} :
       known' = [s \in Signal |-> IF s \in found THEN Len(daily[s]) ELSE 0]
  /\ phase' = [phase EXCEPT ![Resolver] = "collected"]
  /\ UNCHANGED <<market, signals, ledger, batch, moves, copy>>

-----------------------------------------------------------------------------
\* Both load the document ...
Load(a) ==
  /\ phase[a] \in {"reduced", "collected"}
  /\ copy' = [copy EXCEPT ![a] = ledger]
  /\ phase' = [phase EXCEPT ![a] = "loaded"]
  /\ UNCHANGED <<market, signals, ledger, batch, moves, known>>

\* Nothing of a cycle is kept in memory.
Rest(a) ==
  /\ phase' = [phase EXCEPT ![a] = "idle"]
  /\ batch' = [w \in Worker |-> IF w = a THEN NoRows ELSE batch[w]]
  /\ moves' = [w \in Worker |-> IF w = a THEN NoMoves ELSE moves[w]]
  /\ known' = IF a = Resolver THEN NoRows ELSE known
  /\ copy' = [copy EXCEPT ![a] = NoCopy]
  /\ UNCHANGED <<market, signals>>

\* ... and save all of it as a new revision.
SaveObserved(w) ==
  /\ phase[w] = "loaded"
  /\ ledger' = [s \in Signal |-> Observed(w, s, copy[w][s])]
  /\ Rest(w)

SaveResolved ==
  /\ phase[Resolver] = "loaded"
  /\ ledger' = [s \in Signal |-> Resolved(copy[Resolver][s], s)]
  /\ Rest(Resolver)

\* A call raises, or the process stops.
Abandon(a) ==
  /\ Faults
  /\ phase[a] # "idle"
  /\ UNCHANGED ledger
  /\ Rest(a)

Next ==
  \/ NextBar
  \/ \E s \in Signal : Quote(s)
  \/ CloseDay
  \/ \E w \in Worker : Poll(w) \/ Reduce(w) \/ SaveObserved(w)
  \/ Collect
  \/ SaveResolved
  \/ \E a \in Actor : Load(a) \/ Abandon(a)

Spec == Init /\ [][Next]_vars

-----------------------------------------------------------------------------
Row == [snap : Snapshot, at : Nat \ {0}, priced : BOOLEAN]

TypeOK ==
  /\ now \in Nat \ {0}
  /\ tape \in [Signal -> Seq(Row)]
  /\ daily \in [Signal -> Seq(DailyBar)]
  /\ engine \in [Signal -> CandidateState \cup {New}]
  /\ seen \in [Signal -> SUBSET Nat]
  /\ ledger \in [Signal -> Record]
  /\ phase \in [Actor -> Phase]
  /\ batch \in [Worker -> [Signal -> Nat]]
  /\ moves \in [Worker -> [Signal -> CandidateState \cup {None}]]
  /\ known \in [Signal -> Nat]
  /\ copy \in [Actor -> [Signal -> Record]]

(***************************************************************************)
(* The document keeps the promise of the abstract book: whatever the        *)
(* workers and the resolver save, and wherever they stop, a booked entry is *)
(* not moved and a closed trade is neither reopened nor closed again.       *)
(***************************************************************************)
Trades == [s \in Signal |-> [entered |-> ledger[s].entered, outcome |-> ledger[s].outcome]]

Book == INSTANCE OutcomeBook WITH Outcome <- Terminal, book <- Trades

BookSpec == Book!Spec

(***************************************************************************)
(* "This deliberately conservative rule prevents look-ahead optimism": of   *)
(* the entry bar only the close counts, of the entry session no daily bar,  *)
(* no daily bar beyond the window or from the exit's session on, and no     *)
(* return of a session that has not closed.                                 *)
(***************************************************************************)
NoLookAhead ==
  \A s \in Signal :
    LET record == ledger[s]
        entry == Session(record.entered)
    IN  /\ \A h \in record.returns : entry + h <= Len(daily[s])
        /\ \A item \in record.path :
             CASE item[1] = "close" -> tape[s][item[2]].at = record.entered
               [] item[1] = "range" -> tape[s][item[2]].at > record.entered
               [] item[1] = "exit"  -> item[2] = Session(record.closed)
               [] item[1] = "day"   ->
                    /\ entry < item[2] /\ item[2] <= entry + Window
                    /\ record.closed # 0 => item[2] < Session(record.closed)

(***************************************************************************)
(* A trade the resolver closed ended at the first bar of the window that    *)
(* touched the stop or the target, at the stop if it touched both, although *)
(* it is resolved night by night, with histories missing on some nights     *)
(* and runs that stop half-way.                                             *)
(***************************************************************************)
FirstTouch ==
  \A s \in Signal :
    LET record == ledger[s]
        entry == Session(record.entered)
        exit == Session(record.closed)
    IN  (record.closed # 0 /\ record.closed % Slots = 0) =>
          /\ entry < exit /\ exit <= entry + Window
          /\ \A d \in entry + 1 .. exit - 1 : daily[s][d] = "quiet"
          /\ daily[s][exit] = "target" <=> record.outcome = "TARGET_HIT"
          /\ daily[s][exit] \in {"stop", "both"} <=> record.outcome = "INVALIDATED"

===============================================================================
