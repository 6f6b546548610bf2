--------------------------- MODULE WarehouseProofs ---------------------------
(***************************************************************************)
(* Proofs about the freshness rule, the warehouse gate and the live         *)
(* refresh, for every calendar, universe, coverage policy and ingestion,    *)
(* and every order of a provider's answers.                                 *)
(***************************************************************************)
EXTENDS WarehouseGate, Ingestion, TLAPS, WellFoundedInduction, FiniteSetTheorems

USE CalendarAssumption

\* The intraday tiers accept rows of minutes, never of the day before: the time
\* from a close to the next open counts as stale (build_tiers: 20 to 120 minutes).
AgeIsIntraday == Age < DayLen + OpenTime /\ LiveAge < DayLen + OpenTime

-----------------------------------------------------------------------------
(* Facts about the calendar.                                                *)

LEMMA DayIs == \A t \in Int : Day(t) \in Int /\ Day(t) * DayLen <= t /\ t < Day(t) * DayLen + DayLen
BY DEF Day

LEMMA DaysApart == \A d, e \in Int : d < e => d * DayLen + DayLen <= e * DayLen
OBVIOUS

LEMMA DaysCount == \A d \in Nat : d <= d * DayLen
OBVIOUS

LEMMA TimesAre == \A d \in Int : /\ Opens(d) \in Int /\ Closes(d) \in Int /\ d * DayLen \in Int
                                 /\ Opens(d) < Closes(d) /\ Closes(d) < d * DayLen + DayLen
BY DEF Opens, Closes

LEMMA SessionsAre == \A d \in Session : d \in Int /\ Opens(d) \in Int /\ Closes(d) \in Int
                                        /\ Opens(d) < Closes(d)
BY TimesAre

\* Sessions close in their order.
LEMMA ClosesInOrder == \A d, e \in Int : Closes(d) <= Closes(e) => d <= e
<1> SUFFICES ASSUME NEW d \in Int, NEW e \in Int, e < d PROVE Closes(e) < Closes(d)
  BY TimesAre
<1> QED
  BY DaysApart, TimesAre DEF Closes

\* A set of natural numbers has a smallest one.
LEMMA Smallest ==
  ASSUME NEW S \in SUBSET Nat, S # {}
  PROVE  \E x \in S : \A y \in S : x <= y
<1>1. PICK x \in S : \A y \in S : <<y, x>> \notin OpToRel(<, Nat)
  BY WFMin, NatLessThanWellFounded, Zenon
<1>2. \A y \in S : ~(y < x)
  BY <1>1, Zenon DEF OpToRel
<1> QED
  BY <1>2

\* A set of numbers that is bounded above has a largest one.
LEMMA Largest ==
  ASSUME NEW S \in SUBSET Int, NEW bound \in Int, S # {}, \A d \in S : d <= bound
  PROVE  \E d \in S : \A e \in S : e <= d
<1> DEFINE K == {bound - d : d \in S}
<1>1. K \in SUBSET Nat /\ K # {}
  <2>1. \A d \in S : bound - d \in Nat
    OBVIOUS
  <2>2. PICK d \in S : TRUE
    OBVIOUS
  <2>3. bound - d \in K
    OBVIOUS
  <2> QED
    BY <2>1, <2>3
<1>2. \E k \in K : \A y \in K : k <= y
  <2> HIDE DEF K
  <2> QED
    BY <1>1, Smallest
<1>3. PICK d \in S : \A y \in K : bound - d <= y
  BY <1>2
<1>4. \A e \in S : bound - d <= bound - e
  BY <1>3
<1>5. bound \in Int /\ d \in Int /\ S \subseteq Int
  OBVIOUS
<1> HIDE DEF K
<1>6. \A e \in S : e <= d
  BY <1>4, <1>5
<1> QED
  BY <1>6

\* Once a session has closed, there is a last one.
LEMMA CompletedIs ==
  ASSUME NEW now \in Nat, Done(now) # {}
  PROVE  /\ CompletedSession(now) \in Session
         /\ CompletedSession(now) \in Int
         /\ Closes(CompletedSession(now)) < now
         /\ \A e \in Done(now) : e <= CompletedSession(now)
<1>1. Done(now) \in SUBSET Int
  BY DEF Done
<1>2. \A d \in Done(now) : d <= now
  <2> SUFFICES ASSUME NEW d \in Done(now) PROVE d <= now
    OBVIOUS
  <2>1. d \in Int /\ Closes(d) < now
    BY <1>1 DEF Done
  <2>2. d \in Nat => d <= d * DayLen
    BY DaysCount
  <2>3. d * DayLen <= Closes(d)
    BY <2>1 DEF Closes
  <2> QED
    BY <2>1, <2>2, <2>3, TimesAre
<1>3. \E d \in Done(now) : \A e \in Done(now) : e <= d
  <2> DEFINE S == Done(now)
  <2>1. S \in SUBSET Int /\ S # {} /\ now \in Int /\ \A d \in S : d <= now
    BY <1>1, <1>2
  <2> HIDE DEF S
  <2>2. \E d \in S : \A e \in S : e <= d
    BY <2>1, Largest
  <2> QED
    BY <2>2 DEF S
<1>4. CompletedSession(now) \in Done(now) /\ \A e \in Done(now) : e <= CompletedSession(now)
  BY <1>3, Zenon DEF CompletedSession
<1> QED
  BY <1>1, <1>4 DEF Done

\* Completed sessions stay completed.
LEMMA DoneGrows ==
  ASSUME NEW now \in Nat, Done(now) # {}
  PROVE  /\ Done(now) \subseteq Done(now + 1)
         /\ CompletedSession(now) <= CompletedSession(now + 1)
         /\ ~MarketOpen(now) => CompletedSession(now + 1) = CompletedSession(now)
<1>1. Done(now) \subseteq Done(now + 1)
  <2> SUFFICES ASSUME NEW d \in Session, Closes(d) < now PROVE Closes(d) < now + 1
    BY DEF Done
  <2> QED
    BY SessionsAre
<1>2. Done(now + 1) # {} /\ now + 1 \in Nat
  BY <1>1
<1>3. CompletedSession(now) \in Done(now)
  BY CompletedIs DEF Done
<1>4. CompletedSession(now) <= CompletedSession(now + 1)
  BY <1>1, <1>2, <1>3, CompletedIs
<1>5. ASSUME ~MarketOpen(now), CompletedSession(now + 1) # CompletedSession(now) PROVE FALSE
  <2> DEFINE d == CompletedSession(now + 1)
  <2>1. d \in Session /\ d \in Int /\ Closes(d) < now + 1
    BY <1>2, CompletedIs
  <2>2. d \notin Done(now)
    BY <1>4, <1>5, <2>1, CompletedIs
  <2>3. Closes(d) = now
    BY <2>1, <2>2, SessionsAre DEF Done
  <2>4. Opens(d) <= now /\ now <= Closes(d)
    BY <2>1, <2>3, SessionsAre
  <2> QED
    BY <1>5, <2>1, <2>4 DEF MarketOpen
<1> QED
  BY <1>1, <1>4, <1>5

-----------------------------------------------------------------------------
(***************************************************************************)
(* The freshness rule only ages a bar that has ended: what is stale stays   *)
(* stale a moment later, at opens and closes, over nights and holidays.     *)
(***************************************************************************)
THEOREM StaleStays ==
  ASSUME NEW frame, NEW newest \in Nat, NEW now \in Nat, NEW age \in Nat,
         Done(now) # {},
         frame # "1d" => newest + 1 <= now /\ age < DayLen + OpenTime,
         Stale(frame, newest, now, age)
  PROVE  Stale(frame, newest, now + 1, age)
<1> DEFINE e == CompletedSession(now)
<1>1. e \in Int /\ Closes(e) < now /\ (\A d \in Done(now) : d <= e)
  BY CompletedIs
<1>2. now + 1 \in Nat /\ Done(now + 1) # {} /\ e <= CompletedSession(now + 1)
  BY DoneGrows
<1>3. CompletedSession(now + 1) \in Int
  BY <1>2, CompletedIs
<1>4. Day(newest) \in Int
  BY DayIs
<1> HIDE DEF e
<1>5. CASE frame = "1d"
  BY <1>1, <1>2, <1>3, <1>4, <1>5 DEF Stale, e
<1>6. CASE frame # "1d" /\ MarketOpen(now) /\ MarketOpen(now + 1)
  BY <1>6 DEF Stale
<1>7. CASE frame # "1d" /\ MarketOpen(now) /\ ~MarketOpen(now + 1)
  <2>1. now - (newest + 1) > age
    BY <1>7 DEF Stale
  <2>2. PICK d \in Session : Opens(d) <= now /\ now <= Closes(d)
    BY <1>7 DEF MarketOpen
  <2>3. d \in Int
    OBVIOUS
  <2>4. Closes(d) = now
    BY <1>7, <2>2, <2>3, SessionsAre DEF MarketOpen
  <2>5. d \in Done(now + 1)
    BY <2>4 DEF Done
  <2>6. /\ d <= CompletedSession(now + 1)
        /\ Closes(CompletedSession(now + 1)) <= Closes(d)
    BY <1>2, <1>3, <2>4, <2>5, CompletedIs, SessionsAre
  <2>7. CompletedSession(now + 1) = d
    BY <1>3, <2>3, <2>6, ClosesInOrder
  <2>8. ShortOfClose(newest, now + 1, age)
    BY <2>1, <2>4, <2>7 DEF ShortOfClose
  <2> QED
    BY <1>7, <2>8 DEF Stale
<1>8. CASE frame # "1d" /\ ~MarketOpen(now) /\ MarketOpen(now + 1)
  <2>1. \/ Day(newest) < e
        \/ Closes(e) - (newest + 1) > age
    BY <1>8 DEF Stale, ShortOfClose, e
  <2>2. PICK d \in Session : Opens(d) <= now + 1 /\ now + 1 <= Closes(d)
    BY <1>8 DEF MarketOpen
  <2>3. d \in Int
    OBVIOUS
  <2>4. Opens(d) = now + 1
    BY <1>8, <2>2, <2>3, SessionsAre DEF MarketOpen
  <2>5. (now + 1) - (newest + 1) > age
    <3>1. CASE Closes(e) - (newest + 1) > age
      BY <1>1, <3>1, TimesAre
    <3>2. CASE Day(newest) < e
      <4>1. newest < e * DayLen
        <5>1. Day(newest) * DayLen + DayLen <= e * DayLen
          BY <1>1, <1>4, <3>2, DaysApart
        <5> QED
          BY <1>1, <1>4, <5>1, DayIs
      <4>2. e < d
        <5>1. /\ Closes(e) < Closes(d)
              /\ Closes(e) \in Int /\ Closes(d) \in Int
          BY <1>1, <2>3, <2>4, TimesAre
        <5>2. Closes(e) <= Closes(d)
          BY <5>1
        <5>3. e <= d
          BY <1>1, <2>3, <5>2, ClosesInOrder
        <5>4. e # d
          BY <5>1
        <5> QED
          BY <1>1, <2>3, <5>3, <5>4
      <4>3. e * DayLen + DayLen + OpenTime <= now + 1
        BY <1>1, <2>3, <2>4, <4>2, DaysApart, TimesAre DEF Opens
      <4>4. e * DayLen \in Int
        BY <1>1, TimesAre
      <4> QED
        BY <1>8, <4>1, <4>3, <4>4
    <3> QED
      BY <2>1, <3>1, <3>2
  <2> QED
    BY <1>8, <2>5 DEF Stale
<1>9. CASE frame # "1d" /\ ~MarketOpen(now) /\ ~MarketOpen(now + 1)
  <2>1. CompletedSession(now + 1) = e
    BY <1>9, DoneGrows DEF e
  <2>2. ShortOfClose(newest, now, age) /\ newest + 1 <= now
    BY <1>9 DEF Stale
  <2>3. ShortOfClose(newest, now + 1, age)
    BY <2>1, <2>2 DEF ShortOfClose, e
  <2> QED
    BY <1>9, <2>3 DEF Stale
<1> QED
  BY <1>5, <1>6, <1>7, <1>8, <1>9

-----------------------------------------------------------------------------
(* The evidence of a boundary, as a function of the rows visible there.     *)

PastIn(R, at) == {r \in R : r.at <= at}

VisibleIn(R, s, frame, at, start) ==
  LET V == {r \in R : r.symbol = s /\ r.frame = frame /\ r.start <= Cutoff(frame, at, start)}
  IN  {r \in V : \A q \in V : q.start = r.start => q.at <= r.at}

CoverageIn(R, t, at, start) ==
  [s \in {x \in t.symbols : VisibleIn(R, x, t.frame, at, start) # {}} |->
     Aggregate(VisibleIn(R, s, t.frame, at, start))]

EvidenceIn(R, at, universe, start) ==
  [at |-> at, universe |-> universe, tiers |-> [t \in Tiers(universe) |-> CoverageIn(R, t, at, start)]]

\* What the gate finds at a boundary it has frozen.
Found(at) == EvidenceIn(PastIn(row, at), at, frozen[at], runStart)

LEMMA CoverageIs ==
  ASSUME NEW t, NEW at
  PROVE  Coverage(t, at) = CoverageIn(PastIn(row, at), t, at, runStart)
<1>1. ASSUME NEW s PROVE Visible(s, t.frame, at) = VisibleIn(PastIn(row, at), s, t.frame, at, runStart)
  <2> DEFINE V == {r \in row : /\ r.symbol = s /\ r.frame = t.frame /\ r.at <= at
                               /\ r.start <= Cutoff(t.frame, at, runStart)}
             W == {r \in PastIn(row, at) : /\ r.symbol = s /\ r.frame = t.frame
                                           /\ r.start <= Cutoff(t.frame, at, runStart)}
  <2>1. V = W
    BY DEF PastIn
  <2>2. Visible(s, t.frame, at) = {r \in V : \A q \in V : q.start = r.start => q.at <= r.at}
    BY DEF Visible
  <2>3. VisibleIn(PastIn(row, at), s, t.frame, at, runStart)
          = {r \in W : \A q \in W : q.start = r.start => q.at <= r.at}
    BY DEF VisibleIn
  <2> HIDE DEF V, W
  <2> QED
    BY <2>1, <2>2, <2>3
<1>2. \A s : Visible(s, t.frame, at) = VisibleIn(PastIn(row, at), s, t.frame, at, runStart)
  BY <1>1
<1> QED
  BY <1>2 DEF Coverage, CoverageIn

LEMMA EvidenceIs ==
  ASSUME NEW at
  PROVE  Evidence(at, frozen[at]) = Found(at)
BY CoverageIs DEF Evidence, Found, EvidenceIn

LEMMA FoundIs ==
  ASSUME NEW at
  PROVE  /\ Found(at).at = at
         /\ DOMAIN Found(at).tiers = Tiers(frozen[at])
         /\ \A t \in Tiers(frozen[at]) : Found(at).tiers[t] = Coverage(t, at)
BY CoverageIs DEF Found, EvidenceIn

-----------------------------------------------------------------------------
(***************************************************************************)
(* Rows end before they are stored; a frozen boundary lies in the past and  *)
(* no row is stored under it any more; whatever the gate and the            *)
(* publication check hold is what is found at its own boundary.             *)
(***************************************************************************)
ClockInv == clock \in Nat /\ Done(clock) # {}

RowsEnded ==
  \A r \in row : /\ r.at \in Nat /\ r.at <= clock
                 /\ r.start \in Nat /\ r.start < clock + DayLen
                 /\ r.frame # "1d" => r.start + 1 <= r.at

FrozenPast == DOMAIN frozen \subseteq 0..clock

AtFrozen == gate # "idle" => boundary \in DOMAIN frozen

EvidenceOwn == evidence # None => evidence.at \in DOMAIN frozen /\ evidence = Found(evidence.at)

SnapshotOwn == snapshot # None => snapshot.at \in DOMAIN frozen /\ snapshot.hash = Found(snapshot.at)

LoadedOwn ==
  loaded # None => /\ loaded.record.at \in DOMAIN frozen
                   /\ loaded.frames = Found(loaded.record.at).tiers

PublishedOwn ==
  published # None =>
    /\ published.at \in DOMAIN frozen
    /\ \A t \in Tiers(frozen[published.at]) : Passes(t, Found(published.at).tiers[t], published.now)

Own == EvidenceOwn /\ SnapshotOwn /\ LoadedOwn /\ PublishedOwn

GateInv == ClockInv /\ RowsEnded /\ FrozenPast /\ AtFrozen /\ Own

\* A bar that may be stored has ended.
LEMMA ClosedEnded ==
  ASSUME ClockInv, NEW b, b.start \in Nat, Closed(b)
  PROVE  /\ b.start < clock + DayLen
         /\ b.frame # "1d" => b.start + 1 <= clock
<1>1. clock \in Nat
  BY DEF ClockInv
<1>2. CASE b.frame = "1d"
  <2>1. Day(b.start) \in Int /\ Closes(Day(b.start)) < clock
    BY <1>2, DayIs DEF Closed, Done
  <2>2. /\ Day(b.start) * DayLen \in Int /\ Closes(Day(b.start)) \in Int
        /\ Day(b.start) * DayLen <= Closes(Day(b.start))
    BY <2>1, TimesAre DEF Closes
  <2>3. b.start < Day(b.start) * DayLen + DayLen
    BY DayIs
  <2> DEFINE d == Day(b.start) * DayLen
             c == Closes(Day(b.start))
  <2>4. d \in Int /\ c \in Int /\ d <= c /\ c < clock /\ b.start < d + DayLen
    BY <2>1, <2>2, <2>3
  <2> HIDE DEF d, c
  <2>5. b.start < clock + DayLen
    BY <1>1, <2>4
  <2> QED
    BY <1>1, <1>2, <2>5
<1>3. CASE b.frame # "1d"
  BY <1>1, <1>3 DEF Closed
<1> QED
  BY <1>1, <1>2, <1>3

\* What is found at a frozen boundary does not change.
LEMMA FoundStays ==
  ASSUME GateInv, [Next]_vars, NEW at \in DOMAIN frozen
  PROVE  /\ at \in DOMAIN frozen' /\ frozen'[at] = frozen[at]
         /\ PastIn(row', at) = PastIn(row, at) /\ runStart' = runStart
<1>1. at \in Nat /\ clock \in Nat /\ at <= clock
  BY DEF GateInv, FrozenPast, ClockInv
<1>2. CASE \E b \in MarketBar, valid \in BOOLEAN : Ingest(b, valid)
  <2>1. PICK b \in MarketBar, valid \in BOOLEAN : Ingest(b, valid)
    BY <1>2
  <2> DEFINE r == RowOf(b, valid)
  <2>2. row' = row \cup {r} /\ clock \notin DOMAIN frozen /\ UNCHANGED <<frozen, runStart>>
    BY <2>1 DEF Ingest
  <2>3. r.at = clock
    BY DEF RowOf
  <2> HIDE DEF r
  <2>4. ~(r.at <= at)
    BY <1>1, <2>2, <2>3
  <2> QED
    BY <2>2, <2>4 DEF PastIn
<1>3. CASE CaptureBoundary
  BY <1>3 DEF CaptureBoundary, inputs
<1>4. CASE UNCHANGED <<row, frozen, runStart>>
  BY <1>4
<1> QED
  BY <1>2, <1>3, <1>4 DEF Next, Tick, Replan, WriteCoverage, WriteSnapshot, Crash, Load, Validate,
     vars, inputs

LEMMA GateInit == Init => GateInv
<1> SUFFICES ASSUME Init PROVE GateInv
  OBVIOUS
<1> USE GateAssumption
<1>1. ClockInv
  BY DEF Init, ClockInv
<1>2. RowsEnded
  <2> SUFFICES ASSUME NEW r \in row
               PROVE  /\ r.at \in Nat /\ r.at <= clock
                      /\ r.start \in Nat /\ r.start < clock + DayLen
                      /\ r.frame # "1d" => r.start + 1 <= r.at
    BY DEF RowsEnded
  <2>1. PICK b \in MarketBar, valid \in BOOLEAN : r = RowOf(b, valid) /\ Closed(b)
    BY DEF Init
  <2>2. b.start \in Nat
    BY <2>1 DEF MarketBar
  <2>3. r.at = clock /\ r.start = b.start /\ r.frame = b.frame
    BY <2>1 DEF RowOf
  <2> QED
    BY <1>1, <2>1, <2>2, <2>3, ClosedEnded DEF ClockInv
<1>3. FrozenPast /\ AtFrozen /\ Own
  BY DEF Init, FrozenPast, AtFrozen, Own, EvidenceOwn, SnapshotOwn, LoadedOwn, PublishedOwn
<1> QED
  BY <1>1, <1>2, <1>3 DEF GateInv

-----------------------------------------------------------------------------
(* The invariant holds in every step.                                       *)

LEMMA ClockNext ==
  ASSUME GateInv, [Next]_vars
  PROVE  /\ ClockInv' /\ clock <= clock'
         /\ clock' = clock \/ Tick
<1>1. clock \in Nat /\ Done(clock) # {}
  BY DEF GateInv, ClockInv
<1>2. CASE Tick
  <2>1. clock' = clock + 1
    BY <1>2 DEF Tick
  <2>2. Done(clock) \subseteq Done(clock + 1)
    BY <1>1, DoneGrows
  <2>3. Done(clock') # {}
    BY <1>1, <2>1, <2>2
  <2>4. ClockInv' <=> (clock' \in Nat /\ Done(clock') # {})
    BY DEF ClockInv, Done
  <2> QED
    BY <1>1, <1>2, <2>1, <2>3, <2>4
<1>3. CASE UNCHANGED clock
  BY <1>1, <1>3 DEF ClockInv, Done
<1>4. ASSUME NEW b, NEW valid, Ingest(b, valid) PROVE UNCHANGED clock
  BY <1>4 DEF Ingest
<1>5. ASSUME NEW u, Replan(u) PROVE UNCHANGED clock
  BY <1>5 DEF Replan
<1>6. CASE \/ CaptureBoundary \/ WriteCoverage \/ WriteSnapshot \/ Crash \/ Load \/ Validate
           \/ UNCHANGED vars
  <2>1. UNCHANGED clock
    BY <1>6 DEF CaptureBoundary, WriteCoverage, WriteSnapshot, Crash, Load, Validate, vars
  <2> QED
    BY <1>3, <2>1
<1> QED
  BY <1>2, <1>3, <1>4, <1>5, <1>6 DEF Next

LEMMA RowsNext ==
  ASSUME GateInv, [Next]_vars
  PROVE  RowsEnded'
<1>1. RowsEnded /\ clock \in Nat /\ clock' \in Nat /\ clock <= clock'
  BY ClockNext DEF GateInv, ClockInv
<1>2. CASE row' = row
  BY <1>1, <1>2 DEF RowsEnded
<1>3. CASE \E b \in MarketBar, valid \in BOOLEAN : Ingest(b, valid)
  <2>1. PICK b \in MarketBar, valid \in BOOLEAN : Ingest(b, valid)
    BY <1>3
  <2> DEFINE r == RowOf(b, valid)
  <2>2. row' = row \cup {r} /\ clock' = clock /\ Closed(b)
    BY <2>1 DEF Ingest
  <2>3. r.start = b.start /\ r.frame = b.frame /\ r.at = clock /\ b.start \in Nat
    BY GateAssumption DEF RowOf, MarketBar
  <2> HIDE DEF r
  <2>4. /\ r.start < clock + DayLen
        /\ r.frame # "1d" => r.start + 1 <= r.at
    BY <2>2, <2>3, ClosedEnded DEF GateInv
  <2> QED
    BY <1>1, <2>2, <2>3, <2>4 DEF RowsEnded
<1> QED
  BY <1>2, <1>3 DEF Next, Tick, Replan, CaptureBoundary, WriteCoverage, WriteSnapshot, Crash,
     Load, Validate, vars, inputs

LEMMA FrozenNext ==
  ASSUME GateInv, [Next]_vars
  PROVE  FrozenPast' /\ AtFrozen'
<1>1. FrozenPast /\ AtFrozen /\ clock \in Nat /\ clock' \in Nat /\ clock <= clock'
  BY ClockNext DEF GateInv, ClockInv
<1>2. CASE CaptureBoundary
  BY <1>1, <1>2 DEF CaptureBoundary, FrozenPast, AtFrozen
<1>3. CASE UNCHANGED frozen /\ (gate' # "idle" => UNCHANGED <<gate, boundary>> \/ WriteCoverage)
  BY <1>1, <1>3 DEF FrozenPast, AtFrozen, WriteCoverage
<1>4. ASSUME NEW b, NEW valid, Ingest(b, valid) PROVE UNCHANGED <<frozen, gate, boundary>>
  BY <1>4 DEF Ingest
<1>5. ASSUME NEW u, Replan(u) PROVE UNCHANGED <<frozen, gate, boundary>>
  BY <1>5 DEF Replan
<1>6. CASE Tick \/ Load \/ Validate \/ UNCHANGED vars
  <2>1. UNCHANGED <<frozen, gate, boundary>>
    BY <1>6 DEF Tick, Load, Validate, vars
  <2> QED
    BY <1>3, <2>1
<1>7. CASE WriteCoverage \/ WriteSnapshot \/ Crash
  BY <1>3, <1>7 DEF WriteCoverage, WriteSnapshot, Crash
<1> QED
  BY <1>2, <1>3, <1>4, <1>5, <1>6, <1>7 DEF Next

\* What is found at a frozen boundary is found there after a step.
LEMMA FoundNext ==
  ASSUME GateInv, [Next]_vars, NEW at \in DOMAIN frozen
  PROVE  Found(at)' = Found(at)
BY FoundStays DEF Found

\* Which step writes what.
LEMMA WhoWrites ==
  ASSUME [Next]_vars
  PROVE  /\ UNCHANGED evidence \/ WriteCoverage
         /\ UNCHANGED snapshot \/ WriteSnapshot
         /\ UNCHANGED loaded \/ Load \/ Validate
         /\ UNCHANGED published \/ Validate
<1>1. ASSUME NEW b, NEW valid, Ingest(b, valid) PROVE UNCHANGED <<datasets, loaded, published>>
  BY <1>1 DEF Ingest
<1>2. ASSUME NEW u, Replan(u) PROVE UNCHANGED <<datasets, loaded, published>>
  BY <1>2 DEF Replan
<1>3. CASE Tick \/ CaptureBoundary \/ Crash \/ UNCHANGED vars
  BY <1>3 DEF Tick, CaptureBoundary, Crash, vars, datasets
<1>4. CASE WriteCoverage
  BY <1>4 DEF WriteCoverage
<1>5. CASE WriteSnapshot
  BY <1>5 DEF WriteSnapshot
<1>6. CASE Load
  BY <1>6 DEF Load, datasets
<1>7. CASE Validate
  BY <1>7 DEF Validate, datasets
<1> QED
  BY <1>1, <1>2, <1>3, <1>4, <1>5, <1>6, <1>7 DEF Next, datasets

\* The evidence, the snapshot and the publication check keep to their boundary.
LEMMA OwnNext ==
  ASSUME GateInv, [Next]_vars
  PROVE  Own'
<1>1. Own /\ AtFrozen
  BY DEF GateInv
<1>2. ASSUME NEW at \in DOMAIN frozen
      PROVE  at \in DOMAIN frozen' /\ Found(at)' = Found(at) /\ frozen'[at] = frozen[at]
  BY FoundStays, FoundNext
<1>3. EvidenceOwn'
  <2>1. CASE UNCHANGED evidence
    BY <1>1, <1>2, <2>1 DEF Own, EvidenceOwn
  <2>2. CASE WriteCoverage
    <3>1. boundary \in DOMAIN frozen
      BY <1>1, <2>2 DEF AtFrozen, WriteCoverage
    <3>2. evidence' = Found(boundary)
      BY <2>2, EvidenceIs DEF WriteCoverage
    <3>3. Found(boundary).at = boundary
      BY FoundIs
    <3> QED
      BY <1>2, <3>1, <3>2, <3>3 DEF EvidenceOwn
  <2> QED
    BY <2>1, <2>2, WhoWrites
<1>4. SnapshotOwn'
  <2>1. CASE UNCHANGED snapshot
    BY <1>1, <1>2, <2>1 DEF Own, SnapshotOwn
  <2>2. CASE WriteSnapshot
    <3>1. boundary \in DOMAIN frozen
      BY <1>1, <2>2 DEF AtFrozen, WriteSnapshot
    <3>2. snapshot'.at = boundary /\ snapshot'.hash = Found(boundary)
      BY <2>2, EvidenceIs DEF WriteSnapshot
    <3> QED
      BY <1>2, <3>1, <3>2 DEF SnapshotOwn
  <2> QED
    BY <2>1, <2>2, WhoWrites
<1>5. LoadedOwn'
  <2>1. CASE UNCHANGED loaded
    BY <1>1, <1>2, <2>1 DEF Own, LoadedOwn
  <2>2. CASE Load
    <3>1. /\ snapshot.at \in DOMAIN frozen /\ snapshot.hash = Found(snapshot.at)
          /\ evidence = snapshot.hash
      BY <1>1, <2>2 DEF Load, EvidenceMatches, Own, SnapshotOwn
    <3>2. loaded'.record.at = snapshot.at /\ loaded'.frames = Found(snapshot.at).tiers
      BY <2>2, <3>1 DEF Load
    <3> QED
      BY <1>2, <3>1, <3>2 DEF LoadedOwn
  <2>3. CASE Validate
    BY <2>3 DEF Validate, LoadedOwn
  <2> QED
    BY <2>1, <2>2, <2>3, WhoWrites
<1>6. PublishedOwn'
  <2>1. CASE UNCHANGED published
    <3>1. CASE published = None
      BY <2>1, <3>1 DEF PublishedOwn
    <3>2. CASE published # None
      <4>1. /\ published.at \in DOMAIN frozen
            /\ \A t \in Tiers(frozen[published.at]) :
                 Passes(t, Found(published.at).tiers[t], published.now)
        BY <1>1, <3>2 DEF Own, PublishedOwn
      <4> QED
        BY <1>2, <2>1, <4>1 DEF PublishedOwn
    <3> QED
      BY <3>1, <3>2
  <2>2. CASE Validate /\ published' # None
    <3> DEFINE b == loaded.record.at
    <3>1. b \in DOMAIN frozen /\ loaded.frames = Found(b).tiers
      BY <1>1, <2>2 DEF Validate, Own, LoadedOwn
    <3>2. /\ published'.at = b /\ published'.now = clock
          /\ \A t \in DOMAIN loaded.frames : Passes(t, loaded.frames[t], clock)
      BY <2>2 DEF Validate
    <3>3. DOMAIN Found(b).tiers = Tiers(frozen[b])
      BY FoundIs
    <3> HIDE DEF b
    <3>4. \A t \in Tiers(frozen[b]) : Passes(t, Found(b).tiers[t], clock)
      BY <3>1, <3>2, <3>3
    <3> QED
      BY <1>2, <3>1, <3>2, <3>4 DEF PublishedOwn
  <2>3. CASE Validate /\ published' = None
    BY <2>3 DEF PublishedOwn
  <2> QED
    BY <2>1, <2>2, <2>3, WhoWrites
<1> QED
  BY <1>3, <1>4, <1>5, <1>6 DEF Own

LEMMA GateNext == GateInv /\ [Next]_vars => GateInv'
BY ClockNext, RowsNext, FrozenNext, OwnNext DEF GateInv

LEMMA GateAlways == Spec => []GateInv
BY GateInit, GateNext, PTL DEF Spec

-----------------------------------------------------------------------------
(***************************************************************************)
(* A publication rests on rows that pass, at the instant it is validated,   *)
(* every tier of the universe of its own boundary: whatever was ingested,   *)
(* replanned, crashed or run again between the gate and the publication.    *)
(***************************************************************************)
THEOREM FreshPublication == Spec => []PublishedOnFreshInputs
<1>1. GateInv => PublishedOnFreshInputs
  <2> SUFFICES ASSUME GateInv, published # None, NEW t \in Tiers(frozen[published.at])
               PROVE  Passes(t, Coverage(t, published.at), published.now)
    BY DEF PublishedOnFreshInputs
  <2>1. Passes(t, Found(published.at).tiers[t], published.now)
    BY DEF GateInv, Own, PublishedOwn
  <2> QED
    BY <2>1, FoundIs
<1> QED
  BY <1>1, GateAlways, PTL

\* Rows that were stored have a newest bar.
LEMMA NewestBarIs ==
  ASSUME GateInv, NEW V \in SUBSET row, V # {}
  PROVE  /\ NewestBar(V) \in V /\ NewestBar(V).start \in Nat
         /\ \A q \in V : q.start \in Nat /\ q.start <= NewestBar(V).start
<1>1. clock \in Nat /\ DayLen \in Nat
  BY DEF GateInv, ClockInv
<1>2. \A r \in V : r.start \in Nat /\ r.start < clock + DayLen
  BY <1>1 DEF GateInv, RowsEnded
<1> DEFINE S == {r.start : r \in V}
           bound == clock + DayLen
<1>3. S \in SUBSET Int /\ bound \in Int /\ S # {} /\ \A d \in S : d <= bound
  <2>1. S # {} /\ bound \in Int
    BY <1>1
  <2>2. ASSUME NEW r \in V PROVE r.start \in Int /\ r.start <= bound
    <3>1. r.start \in Nat /\ r.start < clock + DayLen
      BY <1>2
    <3> QED
      BY <1>1, <3>1
  <2> QED
    BY <2>1, <2>2
<1>4. \E d \in S : \A e \in S : e <= d
  <2> HIDE DEF S, bound
  <2> QED
    BY <1>3, Largest
<1>5. \E r \in V : \A q \in V : q.start <= r.start
  BY <1>4
<1>6. NewestBar(V) \in V /\ \A q \in V : q.start <= NewestBar(V).start
  BY <1>5, Zenon DEF NewestBar
<1> QED
  BY <1>2, <1>6

\* It has ended.
LEMMA NewestEnded ==
  ASSUME GateInv, NEW V \in SUBSET row, V # {}, NEW frame, \A r \in V : r.frame = frame
  PROVE  /\ NewestBar(V).start \in Nat
         /\ frame # "1d" => NewestBar(V).start + 1 <= clock
<1>1. clock \in Nat
  BY DEF GateInv, ClockInv
<1>2. \A r \in V : r.start \in Nat /\ (frame # "1d" => r.start + 1 <= clock)
  BY <1>1 DEF GateInv, RowsEnded
<1>3. NewestBar(V) \in V
  BY NewestBarIs
<1> QED
  BY <1>2, <1>3, Zenon

\* Every symbol of a tier's evidence has a newest bar that has ended.
LEMMA NewestOfCoverage ==
  ASSUME GateInv, NEW t, NEW at, NEW s \in DOMAIN Coverage(t, at)
  PROVE  /\ Coverage(t, at)[s].newest \in Nat
         /\ t.frame # "1d" => Coverage(t, at)[s].newest + 1 <= clock
<1> DEFINE V == Visible(s, t.frame, at)
<1>1. V # {} /\ Coverage(t, at)[s] = Aggregate(V)
  BY DEF Coverage
<1>2. V \in SUBSET row /\ \A r \in V : r.frame = t.frame
  BY DEF Visible
<1>3. Coverage(t, at)[s].newest = NewestBar(V).start
  BY <1>1 DEF Aggregate
<1> HIDE DEF V
<1> QED
  BY <1>1, <1>2, <1>3, NewestEnded

LEMMA TiersAre ==
  ASSUME NEW u, NEW t \in Tiers(u)
  PROVE  t.age \in {0, Age, LiveAge} /\ (t.frame # "1d" => t.age \in {Age, LiveAge})
BY DEF Tiers, Tier

-----------------------------------------------------------------------------
(***************************************************************************)
(* The rows a snapshot vouches for only age: a symbol the publication       *)
(* check has refused for its age is never accepted later, over closes,      *)
(* nights and days without a session, while the gate and ingestion go on.   *)
(***************************************************************************)
THEOREM OnlyAges ==
  ASSUME AgeIsIntraday
  PROVE  Spec => InputsOnlyAge
<1> DEFINE Ages ==
      snapshot # None /\ snapshot' = snapshot =>
        \A t \in DOMAIN snapshot.hash.tiers :
          LET f == snapshot.hash.tiers[t]
          IN  Usable(t, f, clock') \subseteq Usable(t, f, clock)
<1>1. GateInv /\ [Next]_vars => Ages
  <2> SUFFICES ASSUME GateInv, [Next]_vars, snapshot # None, snapshot' = snapshot,
                      NEW t \in DOMAIN snapshot.hash.tiers
               PROVE  LET f == snapshot.hash.tiers[t]
                      IN  Usable(t, f, clock') \subseteq Usable(t, f, clock)
    OBVIOUS
  <2> DEFINE at == snapshot.at
             f == snapshot.hash.tiers[t]
  <2>1. snapshot.hash = Found(at)
    BY DEF GateInv, Own, SnapshotOwn
  <2>2. t \in Tiers(frozen[at]) /\ f = Coverage(t, at)
    BY <2>1, FoundIs
  <2>3. t.age \in Nat /\ (t.frame # "1d" => t.age < DayLen + OpenTime)
    BY <2>2, TiersAre, GateAssumption, AgeIsIntraday DEF AgeIsIntraday
  <2>4. clock \in Nat /\ Done(clock) # {}
    BY DEF GateInv, ClockInv
  <2>5. CASE clock' = clock
    BY <2>5
  <2>6. CASE clock' = clock + 1
    <3> SUFFICES ASSUME NEW s \in DOMAIN f, Stale(t.frame, f[s].newest, clock, t.age)
                 PROVE  Stale(t.frame, f[s].newest, clock + 1, t.age)
      BY <2>6 DEF Usable, Quarantined
    <3>1. f[s].newest \in Nat /\ (t.frame # "1d" => f[s].newest + 1 <= clock)
      BY <2>2, NewestOfCoverage
    <3> HIDE DEF f
    <3> QED
      BY <2>3, <2>4, <3>1, StaleStays
  <2> QED
    BY <2>5, <2>6, ClockNext DEF Tick
<1>2. InputsOnlyAge <=> [][Ages]_vars
  BY DEF InputsOnlyAge
<1> HIDE DEF Ages
<1>3. Spec => [][Ages]_vars
  BY <1>1, GateAlways, PTL DEF Spec
<1> QED
  BY <1>2, <1>3

-----------------------------------------------------------------------------
(***************************************************************************)
(* What a passed gate means for the consumers of its boundary.  The gate    *)
(* counts usable symbols; provide and frames look at the rows again, over a *)
(* period of their own and, for daily bars, by the clock of the run's start.*)
(***************************************************************************)
RunBegan == runStart \in Nat /\ runStart <= clock /\ Done(runStart) # {}

Universes == live \subseteq Master /\ \A at \in DOMAIN frozen : runStart <= at /\ frozen[at] \subseteq Master

PassOwn ==
  snapshot # None =>
    (snapshot.pass => \A t \in Tiers(frozen[snapshot.at]) :
                        Passes(t, Found(snapshot.at).tiers[t], snapshot.at))

ServeInv == RunBegan /\ Universes /\ IsFiniteSet(row) /\ PassOwn

LEMMA ServeInit == Init => ServeInv
<1> SUFFICES ASSUME Init PROVE ServeInv
  OBVIOUS
<1> USE GateAssumption
<1>1. RunBegan
  BY DEF Init, RunBegan
<1>2. Universes
  BY DEF Init, Universes
<1>3. IsFiniteSet(row) /\ PassOwn
  BY DEF Init, PassOwn
<1> QED
  BY <1>1, <1>2, <1>3 DEF ServeInv

LEMMA ServeNext == GateInv /\ ServeInv /\ [Next]_vars => ServeInv'
<1> SUFFICES ASSUME GateInv, ServeInv, [Next]_vars PROVE ServeInv'
  OBVIOUS
<1> USE GateAssumption
<1>0. clock \in Nat /\ clock' \in Nat /\ clock <= clock'
  BY ClockNext DEF GateInv, ClockInv
<1>1. /\ runStart' = runStart /\ (live' = live \/ live' \in Plans)
      /\ UNCHANGED frozen \/ CaptureBoundary
      /\ row' = row \/ \E r : row' = row \cup {r}
  <2>1. ASSUME NEW b, NEW valid, Ingest(b, valid)
        PROVE  UNCHANGED <<runStart, live, frozen>> /\ row' = row \cup {RowOf(b, valid)}
    BY <2>1 DEF Ingest
  <2>2. ASSUME NEW u \in Plans, Replan(u) PROVE UNCHANGED <<runStart, row, frozen>> /\ live' = u
    BY <2>2 DEF Replan
  <2>3. CASE Tick \/ WriteCoverage \/ WriteSnapshot \/ Crash \/ UNCHANGED vars
    BY <2>3 DEF Tick, WriteCoverage, WriteSnapshot, Crash, vars, inputs
  <2>4. CASE Load \/ Validate
    BY <2>4 DEF Load, Validate, inputs
  <2>5. CASE CaptureBoundary
    BY <2>5 DEF CaptureBoundary, inputs
  <2> QED
    BY <2>1, <2>2, <2>3, <2>4, <2>5 DEF Next
<1>2. RunBegan'
  BY <1>0, <1>1 DEF ServeInv, RunBegan, Done
<1>3. Universes'
  <2>1. CASE CaptureBoundary
    <3>1. DOMAIN frozen' = DOMAIN frozen \cup {clock} /\ live' = live
      BY <2>1 DEF CaptureBoundary, inputs
    <3>2. \A at \in DOMAIN frozen' : frozen'[at] = IF at = clock THEN live ELSE frozen[at]
      BY <2>1 DEF CaptureBoundary
    <3> QED
      BY <1>0, <1>1, <3>1, <3>2 DEF ServeInv, Universes, RunBegan
  <2>2. CASE UNCHANGED frozen
    BY <1>1, <2>2 DEF ServeInv, Universes
  <2> QED
    BY <1>1, <2>1, <2>2
<1>4. IsFiniteSet(row')
  BY <1>1, FS_AddElement DEF ServeInv
<1>5. PassOwn'
  <2>1. CASE UNCHANGED snapshot
    <3>1. CASE snapshot = None
      BY <2>1, <3>1 DEF PassOwn
    <3>2. CASE snapshot # None
      <4>1. snapshot.at \in DOMAIN frozen
        BY <3>2 DEF GateInv, Own, SnapshotOwn
      <4>2. Found(snapshot.at)' = Found(snapshot.at) /\ frozen'[snapshot.at] = frozen[snapshot.at]
        BY <2>1, <4>1, FoundStays DEF Found
      <4> QED
        BY <2>1, <3>2, <4>2 DEF ServeInv, PassOwn
    <3> QED
      BY <3>1, <3>2
  <2>2. CASE WriteSnapshot
    <3> DEFINE e == Evidence(boundary, frozen[boundary])
    <3>1. /\ snapshot'.at = boundary /\ frozen' = frozen
          /\ snapshot'.pass = \A t \in DOMAIN e.tiers : Passes(t, e.tiers[t], boundary)
      BY <2>2 DEF WriteSnapshot
    <3>2. boundary \in DOMAIN frozen
      BY <2>2 DEF WriteSnapshot, GateInv, AtFrozen
    <3>3. e = Found(boundary) /\ DOMAIN Found(boundary).tiers = Tiers(frozen[boundary])
      BY EvidenceIs, FoundIs
    <3>4. Found(boundary)' = Found(boundary)
      BY <2>2, <3>2, FoundStays DEF Found, WriteSnapshot
    <3> HIDE DEF e
    <3>5. snapshot'.pass =>
            \A t \in Tiers(frozen[boundary]) : Passes(t, Found(boundary).tiers[t], boundary)
      BY <3>1, <3>3
    <3>6. Found(snapshot.at)' = Found(boundary) /\ frozen'[snapshot'.at] = frozen[boundary]
      BY <2>2, <3>1, <3>4 DEF Found, WriteSnapshot
    <3> QED
      BY <3>1, <3>5, <3>6 DEF PassOwn
  <2> QED
    BY <2>1, <2>2, WhoWrites
<1> QED
  BY <1>2, <1>3, <1>4, <1>5 DEF ServeInv

LEMMA ServeAlways == Spec => [](GateInv /\ ServeInv)
BY GateInit, GateNext, ServeInit, ServeNext, PTL DEF Spec

\* A session that was complete is not forgotten.
LEMMA CompletedGrows ==
  ASSUME NEW now \in Nat, NEW later \in Nat, now <= later, Done(now) # {}
  PROVE  Done(later) # {} /\ CompletedSession(now) <= CompletedSession(later)
<1> DEFINE d == CompletedSession(now)
<1>1. d \in Session /\ Closes(d) < now
  BY CompletedIs
<1>2. Closes(d) \in Int
  BY <1>1, SessionsAre
<1> HIDE DEF d
<1>3. d \in Done(later)
  BY <1>1, <1>2 DEF Done
<1>4. d <= CompletedSession(later)
  BY <1>3, CompletedIs
<1> QED
  BY <1>3, <1>4 DEF d

\* The newest of rows that are fresh reaches the last completed session: an age
\* limit of minutes does not bridge the day between two sessions.
LEMMA FreshReaches ==
  ASSUME NEW frame, NEW newest \in Nat, NEW now \in Nat, NEW age \in Nat, Done(now) # {},
         frame # "1d" => age < DayLen + OpenTime,
         ~Stale(frame, newest, now, age)
  PROVE  CompletedSession(now) * DayLen <= newest
<1> DEFINE e == CompletedSession(now)
           eDay == e * DayLen
<1>1. e \in Session /\ Closes(e) < now
  BY CompletedIs
<1>2. e \in Int /\ Closes(e) \in Int /\ eDay \in Int
  BY <1>1, SessionsAre, TimesAre
<1> HIDE DEF e
<1>3. CASE ~(Day(newest) < e)
  <2>1. Day(newest) \in Int /\ Day(newest) * DayLen \in Int /\ Day(newest) * DayLen <= newest
    BY DayIs, TimesAre
  <2>2. CASE e = Day(newest)
    <3>1. eDay = Day(newest) * DayLen
      BY <2>2
    <3>2. eDay <= newest
      BY <2>1, <3>1
    <3> QED
      BY <3>2 DEF eDay, e
  <2>3. CASE e < Day(newest)
    <3>1. eDay + DayLen <= Day(newest) * DayLen
      BY <1>2, <2>1, <2>3, DaysApart
    <3> DEFINE n == Day(newest) * DayLen
    <3>2. n \in Int /\ n <= newest /\ eDay + DayLen <= n
      BY <2>1, <3>1
    <3> HIDE DEF n, eDay
    <3>3. eDay <= newest
      BY <1>2, <3>2
    <3> QED
      BY <3>3 DEF eDay, e
  <2> QED
    BY <1>2, <1>3, <2>1, <2>2, <2>3 DEF e
<1>4. CASE frame # "1d" /\ MarketOpen(now)
  <2>1. PICK d \in Session : Opens(d) <= now /\ now <= Closes(d)
    BY <1>4 DEF MarketOpen
  <2>2. d \in Int /\ d * DayLen \in Int /\ Closes(d) \in Int
    BY <2>1, SessionsAre, TimesAre
  <2>3. e < d
    <3>1. ~(Closes(d) <= Closes(e))
      BY <1>1, <1>2, <2>1, <2>2
    <3>2. CASE d = e
      BY <1>2, <3>1, <3>2
    <3>3. CASE d < e
      <4>1. d * DayLen + DayLen <= eDay
        BY <1>2, <2>2, <3>3, DaysApart
      <4> DEFINE dDay == d * DayLen
      <4>2. dDay \in Int /\ dDay + DayLen <= eDay /\ Closes(d) = dDay + CloseTime
            /\ Closes(e) = eDay + CloseTime
        BY <2>2, <4>1 DEF Closes
      <4> HIDE DEF dDay, eDay
      <4>3. Closes(d) <= Closes(e)
        BY <1>2, <4>2
      <4> QED
        BY <3>1, <4>3
    <3> QED
      BY <1>2, <2>2, <3>2, <3>3
  <2>4. eDay + DayLen <= d * DayLen
    BY <1>2, <2>2, <2>3, DaysApart
  <2>5. now - (newest + 1) <= age
    BY <1>4 DEF Stale
  <2> DEFINE dDay == d * DayLen
  <2>6. dDay \in Int /\ dDay + OpenTime <= now /\ eDay + DayLen <= dDay
    BY <2>1, <2>2, <2>4 DEF Opens
  <2> HIDE DEF dDay, eDay
  <2>7. eDay <= newest
    BY <1>2, <1>4, <2>5, <2>6
  <2> QED
    BY <2>7 DEF eDay, e
<1> QED
  BY <1>3, <1>4 DEF Stale, ShortOfClose, e

\* The rows of a symbol that the gate has counted as usable.
LEMMA UsableIs ==
  ASSUME GateInv, ServeInv, NEW at \in DOMAIN frozen, NEW t \in Tiers(frozen[at]),
         NEW s \in Usable(t, Coverage(t, at), at)
  PROVE  LET V == Visible(s, t.frame, at)
         IN  /\ s \in t.symbols /\ V # {} /\ V \subseteq row
             /\ \A r \in V : r.valid /\ r.frame = t.frame
             /\ ~Stale(t.frame, NewestBar(V).start, at, t.age)
<1> DEFINE V == Visible(s, t.frame, at)
           f == Coverage(t, at)
<1>1. s \in DOMAIN f /\ s \notin Quarantined(t, f, at)
  BY DEF Usable
<1>2. s \in t.symbols /\ V # {} /\ f[s] = Aggregate(V)
  BY <1>1 DEF Coverage
<1>3. f[s].invalid = Cardinality({r \in V : ~r.valid}) /\ f[s].newest = NewestBar(V).start
  BY <1>2 DEF Aggregate
<1>4. ~(f[s].invalid > 0) /\ ~Stale(t.frame, f[s].newest, at, t.age)
  BY <1>1 DEF Quarantined
<1>5. V \subseteq row /\ IsFiniteSet(V) /\ (\A r \in V : r.frame = t.frame)
  BY FS_Subset DEF Visible, ServeInv
<1> HIDE DEF V, f
<1>6. \A r \in V : r.valid
  <2> DEFINE B == {r \in V : ~r.valid}
  <2>1. IsFiniteSet(B) /\ Cardinality(B) \in Nat
    BY <1>5, FS_Subset, FS_CardinalityType
  <2>2. Cardinality(B) = 0
    BY <1>3, <1>4, <2>1
  <2>3. B = {}
    <3> HIDE DEF B
    <3> QED
      BY <2>1, <2>2, FS_EmptySet
  <2> QED
    BY <2>3
<1> QED
  BY <1>2, <1>3, <1>4, <1>5, <1>6 DEF V

Fits(s, frame, days, at) ==
  LET W == InPeriod(s, frame, at, days) IN ~Gaps(W) /\ ~OldFor(W, frame, at)

\* Such a symbol passes every test of a consumer whose period reaches the last
\* completed session: the newest bar is in the period, so the newest of the period is
\* the same, and daily rows are judged by an earlier clock than the gate's.
LEMMA UsableFits ==
  ASSUME AgeIsIntraday, GateInv, ServeInv, NEW at \in DOMAIN frozen, NEW t \in Tiers(frozen[at]),
         t.frame = "1d" \/ t.age = Age,
         NEW s \in Usable(t, Coverage(t, at), at),
         NEW days \in Nat, Reaches(days, at)
  PROVE  s \in t.symbols /\ Fits(s, t.frame, days, at)
<1> DEFINE V == Visible(s, t.frame, at)
           W == InPeriod(s, t.frame, at, days)
           newest == NewestBar(V).start
<1>1. /\ s \in t.symbols /\ V # {} /\ V \subseteq row
      /\ \A r \in V : r.valid /\ r.frame = t.frame
      /\ ~Stale(t.frame, newest, at, t.age)
  BY UsableIs
<1>2. W = {r \in V : r.start >= Since(days, at)}
  BY DEF InPeriod
<1>3. /\ runStart \in Nat /\ at \in Nat /\ runStart <= at /\ Done(runStart) # {}
  BY DEF GateInv, FrozenPast, ServeInv, RunBegan, Universes
<1>4. Done(at) # {} /\ CompletedSession(runStart) <= CompletedSession(at)
  BY <1>3, CompletedGrows
<1>5. t.age \in Nat /\ (t.frame # "1d" => t.age < DayLen + OpenTime)
  BY TiersAre, GateAssumption DEF AgeIsIntraday
<1> DEFINE frame == t.frame
<1> HIDE DEF V, W
<1>6. /\ NewestBar(V) \in V /\ newest \in Nat
      /\ \A q \in V : q.start \in Nat /\ q.start <= newest
  BY <1>1, NewestBarIs
<1>7. CompletedSession(at) * DayLen <= newest
  BY <1>1, <1>3, <1>4, <1>5, <1>6, FreshReaches
<1>8. NewestBar(V) \in W
  <2>1. Since(days, at) \in Int /\ CompletedSession(at) * DayLen \in Int
    BY <1>3, <1>4, CompletedIs, DayIs DEF Since
  <2>2. newest >= Since(days, at)
    BY <1>6, <1>7, <2>1 DEF Reaches
  <2> QED
    BY <1>2, <1>6, <2>2
<1>9. NewestBar(W).start = newest
  <2>1. W \subseteq V /\ W \in SUBSET row /\ W # {}
    BY <1>1, <1>2, <1>8
  <2>2. NewestBar(W) \in W /\ \A q \in W : q.start <= NewestBar(W).start
    BY <2>1, NewestBarIs
  <2>3. NewestBar(W).start \in Nat /\ NewestBar(W).start <= newest /\ newest <= NewestBar(W).start
    BY <1>6, <1>8, <2>1, <2>2
  <2> QED
    BY <1>6, <2>3
<1>10. ~Gaps(W)
  BY <1>1, <1>2, <1>8 DEF Gaps
<1>11. ~Stale(frame, newest, IF frame = "1d" THEN runStart ELSE at, Age)
  <2>1. CASE frame # "1d"
    BY <1>1, <2>1
  <2>2. CASE frame = "1d"
    <3>1. CompletedSession(runStart) \in Int /\ CompletedSession(at) \in Int
      BY <1>3, <1>4, CompletedIs
    <3>2. Day(newest) \in Int
      BY <1>6, DayIs
    <3>3. ~(Day(newest) < CompletedSession(at))
      BY <1>1, <2>2 DEF Stale
    <3> QED
      BY <1>4, <2>2, <3>1, <3>2, <3>3 DEF Stale
  <2> QED
    BY <2>1, <2>2
<1>12. ~OldFor(W, frame, at)
  BY <1>9, <1>11 DEF OldFor
<1> QED
  BY <1>1, <1>10, <1>12 DEF Fits, W

\* A strict tier that passes has no symbol that is not usable.
LEMMA StrictUsesAll ==
  ASSUME NEW S, IsFiniteSet(S), NEW U \in SUBSET S, 100 * Cardinality(U) >= 100 * Cardinality(S)
  PROVE  U = S
<1>1. IsFiniteSet(U) /\ Cardinality(U) \in Nat /\ Cardinality(S) \in Nat
  BY FS_Subset, FS_CardinalityType
<1>2. Cardinality(U) <= Cardinality(S)
  BY FS_Subset
<1>3. Cardinality(U) = Cardinality(S)
  BY <1>1, <1>2
<1> QED
  BY <1>3, FS_Subset

LEMMA StrictFits ==
  ASSUME AgeIsIntraday, GateInv, ServeInv, NEW at \in DOMAIN frozen, NEW t \in Tiers(frozen[at]),
         t.frame = "1d" \/ t.age = Age, t.min = 100, t.symbols \subseteq Symbols,
         Passes(t, Coverage(t, at), at),
         NEW days \in Nat, Reaches(days, at)
  PROVE  \A s \in t.symbols : Fits(s, t.frame, days, at)
<1> DEFINE U == Usable(t, Coverage(t, at), at)
<1>1. \A s \in U : s \in t.symbols /\ Fits(s, t.frame, days, at)
  BY UsableFits
<1>2. 100 * Cardinality(U) >= 100 * Cardinality(t.symbols)
  BY DEF Passes
<1>3. IsFiniteSet(t.symbols)
  BY GateAssumption, FS_Subset
<1> HIDE DEF U
<1>4. U = t.symbols
  BY <1>1, <1>2, <1>3, StrictUsesAll
<1> QED
  BY <1>1, <1>4

LEMMA ProductIs == \A m \in Nat, c \in Nat : m * c \in Int
OBVIOUS

\* A read that requires all its symbols is served if they all fit.
LEMMA AllServed ==
  ASSUME NEW S, S # {}, NEW frame, NEW days, NEW at, \A s \in S : Fits(s, frame, days, at)
  PROVE  Provide(S, frame, days, S, 100, at) = S
<1> DEFINE old == {s \in S : OldFor(InPeriod(s, frame, at, days), frame, at)}
<1>1. old = {} /\ ~\E s \in S : Gaps(InPeriod(s, frame, at, days))
  BY DEF Fits
<1>2. Provide(S, frame, days, S, 100, at) =
        IF \/ \E s \in S : Gaps(InPeriod(s, frame, at, days))
           \/ old \cap S # {}
           \/ 100 * Cardinality((S \ S) \ old) < 100 * Cardinality(S \ S)
           \/ old = S
        THEN None ELSE S \ old
  BY DEF Provide
<1> HIDE DEF old
<1>3. (S \ S) = {} /\ ((S \ S) \ old) = {} /\ Cardinality({}) = 0
  BY FS_EmptySet
<1>4. ~(100 * Cardinality((S \ S) \ old) < 100 * Cardinality(S \ S))
  BY <1>3
<1>5. ~(old \cap S # {}) /\ ~(old = S) /\ S \ old = S
  BY <1>1
<1> QED
  BY <1>1, <1>2, <1>4, <1>5, Zenon

(***************************************************************************)
(* After the gate has passed, the consumers of its boundary whose period    *)
(* reaches the last completed session are served: critical symbols in full, *)
(* the themes unless a row is missing or invalid, each batch of the daily   *)
(* discovery with the symbols that were counted.  For every calendar,       *)
(* universe and policy with age limits of minutes, while ingestion and the  *)
(* universe go on.                                                          *)
(***************************************************************************)
THEOREM GateServes ==
  ASSUME AgeIsIntraday
  PROVE  Spec => []ConsumersServed
<1>1. GateInv /\ ServeInv => ConsumersServed
  <2> SUFFICES ASSUME GateInv, ServeInv, snapshot # None, snapshot.pass
               PROVE  /\ RotationServed(snapshot.at) /\ RankingServed(snapshot.at)
                      /\ ThemesServed(snapshot.at) /\ DiscoveryServed(snapshot.at)
    BY DEF ConsumersServed
  <2> DEFINE at == snapshot.at
  <2>1. /\ at \in DOMAIN frozen
        /\ \A t \in Tiers(frozen[at]) : Passes(t, Coverage(t, at), at)
    BY FoundIs DEF GateInv, Own, SnapshotOwn, ServeInv, PassOwn
  <2> HIDE DEF at
  <2>2. LiveDays \in Nat /\ DailyDays \in Nat /\ MinTheme \in Nat
    BY GateAssumption
  <2> DEFINE critical == Tier("CRITICAL_INTRADAY", Strict, "5m", 100, MinBars, Age)
             daily == Tier("CRITICAL_DAILY", Core \cup Theme, "1d", 100, DailyBars, 0)
             theme == Tier("THEME_INTRADAY", Theme, "5m", MinTheme, MinBars, Age)
             master == Tier("MASTER_DAILY", Master, "1d", MinMaster, DailyBars, 0)
  <2>3. {critical, daily, theme, master} \subseteq Tiers(frozen[at])
    BY DEF Tiers
  <2>4. ASSUME Reaches(LiveDays, at) PROVE \A s \in Strict : Fits(s, "5m", LiveDays, at)
    <3>1. /\ critical.symbols = Strict /\ critical.frame = "5m" /\ critical.min = 100
          /\ critical.age = Age /\ Strict \subseteq Symbols
      BY GateAssumption DEF Tier, Strict, Symbols
    <3> HIDE DEF critical
    <3> QED
      BY <2>1, <2>2, <2>3, <2>4, <3>1, StrictFits
  <2>5. ASSUME Reaches(DailyDays, at) PROVE \A s \in Core \cup Theme : Fits(s, "1d", DailyDays, at)
    <3>1. /\ daily.symbols = Core \cup Theme /\ daily.frame = "1d" /\ daily.min = 100
          /\ Core \cup Theme \subseteq Symbols
      BY DEF Tier, Symbols
    <3> HIDE DEF daily
    <3> QED
      BY <2>1, <2>2, <2>3, <2>5, <3>1, StrictFits
  <2>6. RotationServed(at)
    BY <2>4, AllServed DEF RotationServed
  <2>7. RankingServed(at)
    BY <2>5, AllServed DEF RankingServed
  <2>8. ThemesServed(at)
    <3> DEFINE old(S) == {s \in S : OldFor(InPeriod(s, "5m", at, LiveDays), "5m", at)}
               U == Usable(theme, Coverage(theme, at), at)
    <3> SUFFICES ASSUME Reaches(LiveDays, at),
                        \A s \in Theme : ~Gaps(InPeriod(s, "5m", at, LiveDays)),
                        NEW C \in SUBSET Core, C # {}
                 PROVE  LET view == Provide(C \cup Theme, "5m", LiveDays, C, MinTheme, at)
                        IN  /\ view # None /\ C \subseteq view
                            /\ 100 * Cardinality(view \cap Theme) >= MinTheme * Cardinality(Theme)
      BY DEF ThemesServed
    <3> DEFINE S == C \cup Theme
    <3>1. \A s \in C : Fits(s, "5m", LiveDays, at)
      BY <2>4 DEF Strict
    <3>2. ~\E s \in S : Gaps(InPeriod(s, "5m", at, LiveDays))
      BY <3>1 DEF Fits
    <3>3. old(S) \cap C = {}
      BY <3>1 DEF Fits
    <3>4. S \ C = Theme /\ S \subseteq Symbols /\ C \subseteq S
      BY GateAssumption DEF Symbols
    <3>5. U \subseteq Theme \ old(S)
      <4>1. theme.symbols = Theme /\ theme.frame = "5m" /\ theme.age = Age
        BY DEF Tier
      <4> HIDE DEF theme
      <4>2. \A s \in U : s \in Theme /\ Fits(s, "5m", LiveDays, at)
        BY <2>1, <2>2, <2>3, <4>1, UsableFits
      <4> QED
        BY <4>2 DEF Fits
    <3>6. 100 * Cardinality(U) >= MinTheme * Cardinality(Theme)
      <4>1. theme.symbols = Theme /\ theme.min = MinTheme
        BY DEF Tier
      <4> HIDE DEF theme
      <4> QED
        BY <2>1, <2>3, <4>1 DEF Passes
    <3>7. Provide(S, "5m", LiveDays, C, MinTheme, at) =
            IF \/ \E s \in S : Gaps(InPeriod(s, "5m", at, LiveDays))
               \/ old(S) \cap C # {}
               \/ 100 * Cardinality((S \ C) \ old(S)) < MinTheme * Cardinality(S \ C)
               \/ old(S) = S
            THEN None ELSE S \ old(S)
      BY DEF Provide
    <3> DEFINE stale == old(S)
    <3>8. Provide(S, "5m", LiveDays, C, MinTheme, at) =
            IF \/ \E s \in S : Gaps(InPeriod(s, "5m", at, LiveDays))
               \/ stale \cap C # {}
               \/ 100 * Cardinality(Theme \ stale) < MinTheme * Cardinality(Theme)
               \/ stale = S
            THEN None ELSE S \ stale
      BY <3>4, <3>7
    <3>9. stale \cap C = {} /\ U \subseteq Theme \ stale
      BY <3>3, <3>5
    <3> HIDE DEF stale, old, U, theme, S
    <3>10. 100 * Cardinality(Theme \ stale) >= MinTheme * Cardinality(Theme)
      <4>1. IsFiniteSet(Theme) /\ IsFiniteSet(Theme \ stale) /\ IsFiniteSet(U)
        BY <3>9, GateAssumption, FS_Subset DEF Symbols
      <4>2. /\ Cardinality(U) \in Nat /\ Cardinality(Theme \ stale) \in Nat
            /\ Cardinality(U) <= Cardinality(Theme \ stale)
        BY <3>9, <4>1, FS_Subset, FS_CardinalityType
      <4>3. MinTheme * Cardinality(Theme) \in Int
        <5>1. MinTheme \in Nat /\ Cardinality(Theme) \in Nat
          BY <2>2, <4>1, FS_CardinalityType
        <5> QED
          BY <5>1, ProductIs
      <4> QED
        BY <3>6, <4>2, <4>3
    <3>11. ~(100 * Cardinality(Theme \ stale) < MinTheme * Cardinality(Theme))
      <4>1. Cardinality(Theme \ stale) \in Nat /\ MinTheme * Cardinality(Theme) \in Int
        <5>1. IsFiniteSet(Theme) /\ IsFiniteSet(Theme \ stale)
          BY GateAssumption, FS_Subset DEF Symbols
        <5>2. /\ MinTheme \in Nat /\ Cardinality(Theme) \in Nat
              /\ Cardinality(Theme \ stale) \in Nat
          BY <2>2, <5>1, FS_CardinalityType
        <5> QED
          BY <5>2, ProductIs
      <4> QED
        BY <3>10, <4>1
    <3>12. stale # S
      BY <3>4, <3>9
    <3>13. Provide(S, "5m", LiveDays, C, MinTheme, at) = S \ stale
      BY <3>2, <3>8, <3>9, <3>11, <3>12, Zenon
    <3>14. (S \ stale) # None /\ C \subseteq S \ stale
      BY <3>4, <3>9, NoneAssumption
    <3>15. (S \ stale) \cap Theme = Theme \ stale
      BY <3>4
    <3> QED
      BY <3>10, <3>13, <3>14, <3>15 DEF S
  <2>9. DiscoveryServed(at)
    <3> DEFINE U == Usable(master, Coverage(master, at), at)
    <3> SUFFICES ASSUME Reaches(DailyDays, at), NEW batch \in SUBSET Master, batch \cap U # {}
                 PROVE  /\ Frames(batch, "1d", DailyDays, at) # None
                        /\ batch \cap U \subseteq Frames(batch, "1d", DailyDays, at)
      BY DEF DiscoveryServed
    <3>1. \A s \in U : Fits(s, "1d", DailyDays, at)
      <4>1. master.frame = "1d"
        BY DEF Tier
      <4> HIDE DEF master
      <4> QED
        BY <2>1, <2>2, <2>3, <4>1, UsableFits
    <3> DEFINE fit == {s \in batch : Fits(s, "1d", DailyDays, at)}
    <3>2. Frames(batch, "1d", DailyDays, at) = IF fit = {} THEN None ELSE fit
      BY DEF Frames, Fits
    <3>3. batch \cap U \subseteq fit
      BY <3>1
    <3>4. fit \in SUBSET Symbols
      BY DEF Symbols
    <3> HIDE DEF fit, U
    <3> QED
      BY <3>2, <3>3, <3>4, NoneAssumption
  <2> QED
    BY <2>6, <2>7, <2>8, <2>9 DEF at
<1> QED
  BY <1>1, ServeAlways, PTL

-----------------------------------------------------------------------------
(***************************************************************************)
(* Ingestion: a refresh takes each symbol's chunk once, and until the batch *)
(* with its rows is written nobody else writes them.  So the watermark it   *)
(* read is the newest stored bar all along, and what it has taken is either *)
(* in the batch or stored.                                                  *)
(***************************************************************************)
Version == [final : BOOLEAN, from : 0..(LastTime + 1)]
HeldRow == [symbol : Symbol, bar : Bar, version : Version]

IngestTypes ==
  /\ time \in 0..LastTime
  /\ store \in [Symbol -> [Bar -> Version]]
  /\ work \in Seq(Symbol) /\ IsInjective(work)
  /\ watermark \in [Symbol -> 0..(LastTime + 1)]
  /\ nextTask \in Nat \ {0} /\ nextChunk \in Nat \ {0}
  /\ answer \in [Symbol -> Frame \cup {Nothing}]
  /\ held \subseteq HeldRow

AnswersLook ==
  \A s \in Symbol : answer[s] = Nothing \/ (answer[s].to = answer[s].at + 1 /\ answer[s].at <= time)

Asked == {work[i] : i \in {j \in 1..Len(work) : j < nextTask}}

Fetching ==
  /\ pending \cup received = Asked
  /\ pending \cap received = {}
  /\ answered \subseteq pending
  /\ \A c \in 1..(nextChunk - 1) : Chunk(c) \subseteq received

Taken(s) == \E c \in 1..(nextChunk - 1) : s \in Chunk(c)
InBatch(s, b) == \E r \in held : r.symbol = s /\ r.bar = b

\* The rows of a symbol in the batch are those of its answer from the watermark on.
HeldIs ==
  \A r \in held :
    /\ Taken(r.symbol)
    /\ r.version = VersionOf(r.symbol, r.bar)
    /\ answer[r.symbol].from <= r.bar /\ r.bar <= answer[r.symbol].to
    /\ watermark[r.symbol] <= r.bar
    /\ \A b \in Bar : answer[r.symbol].from <= b /\ watermark[r.symbol] <= b /\ b <= r.bar
                        => InBatch(r.symbol, b)

WatermarkHolds ==
  pc \in {"fetch", "flush"} =>
    \A s \in Symbol : ~Taken(s) \/ (\E b \in Bar : InBatch(s, b)) => watermark[s] = Newest(s)

TakenIsKept ==
  pc \in {"fetch", "flush", "finish", "check"} =>
    \A s \in Symbol, b \in Bar :
      Taken(s) /\ answer[s].from <= b /\ b <= answer[s].at /\ watermark[s] <= b
        => store[s][b].final \/ InBatch(s, b)

AllTaken == pc \in {"finish", "check"} => held = {} /\ nextChunk > Chunks

IngestInv ==
  IngestTypes /\ AnswersLook /\ Fetching /\ HeldIs /\ WatermarkHolds /\ TakenIsKept /\ AllTaken

\* The bars that are stored, and the newest of them.
LEMMA NewestIs ==
  ASSUME NEW s
  PROVE  /\ Newest(s) \in 0..(LastTime + 1)
         /\ \A b \in Stored(s) : b <= Newest(s)
         /\ Newest(s) > 0 => Newest(s) \in Stored(s)
<1>1. Stored(s) \in SUBSET Int /\ LastTime + 1 \in Int /\ \A b \in Stored(s) : b <= LastTime + 1
  BY SizeAssumption DEF Stored, Bar
<1>2. CASE Stored(s) = {}
  BY <1>2, SizeAssumption DEF Newest
<1>3. CASE Stored(s) # {}
  <2>1. \E b \in Stored(s) : \A c \in Stored(s) : c <= b
    <3> DEFINE S == Stored(s)
    <3> HIDE DEF S
    <3>1. S \in SUBSET Int /\ LastTime + 1 \in Int /\ S # {} /\ \A b \in S : b <= LastTime + 1
      BY <1>1, <1>3 DEF S
    <3>2. \E b \in S : \A c \in S : c <= b
      BY <3>1, Largest
    <3> QED
      BY <3>2 DEF S
  <2>2. Newest(s) \in Stored(s) /\ \A c \in Stored(s) : c <= Newest(s)
    BY <1>3, <2>1, Zenon DEF Newest
  <2> QED
    BY <1>1, <2>2 DEF Stored, Bar
<1> QED
  BY <1>2, <1>3

LEMMA DivisionOf ==
  \A m \in Nat, k \in Nat \ {0} : /\ m \div k \in Nat
                                  /\ (m \div k) * k <= m /\ m < (m \div k) * k + k
OBVIOUS

LEMMA StepsApart == \A k \in Nat \ {0}, p \in Int, q \in Int : p < q => p * k + k <= q * k
OBVIOUS

\* Tasks are numbered through the chunks.
LEMMA ChunkNumbers ==
  ASSUME NEW i \in Nat \ {0}, NEW n \in Nat \ {0}, i <= n
  PROVE  ChunkOf(i) \in Nat \ {0} /\ ChunkOf(n) \in Nat \ {0} /\ ChunkOf(i) <= ChunkOf(n)
<1> DEFINE p == (i - 1) \div ChunkSize
           q == (n - 1) \div ChunkSize
<1>1. i - 1 \in Nat /\ n - 1 \in Nat /\ ChunkSize \in Nat \ {0} /\ i - 1 <= n - 1
  BY SizeAssumption
<1>2. /\ p \in Nat /\ p * ChunkSize <= i - 1 /\ i - 1 < p * ChunkSize + ChunkSize
      /\ q \in Nat /\ q * ChunkSize <= n - 1 /\ n - 1 < q * ChunkSize + ChunkSize
  BY <1>1, DivisionOf
<1>3. ChunkOf(i) = p + 1 /\ ChunkOf(n) = q + 1
  BY DEF ChunkOf
<1> HIDE DEF p, q
<1>4. p <= q
  <2> SUFFICES ASSUME q < p PROVE FALSE
    BY <1>2
  <2>1. q * ChunkSize + ChunkSize <= p * ChunkSize
    BY <1>1, <1>2, StepsApart
  <2>2. q * ChunkSize \in Int /\ p * ChunkSize \in Int
    BY <1>1, <1>2
  <2> QED
    BY <1>1, <1>2, <2>1, <2>2
<1> QED
  BY <1>2, <1>3, <1>4

\* A symbol is in one chunk only, and every symbol is in one.
LEMMA OneChunk ==
  ASSUME IngestTypes, NEW s, NEW c, NEW d, s \in Chunk(c), s \in Chunk(d)
  PROVE  c = d
<1>1. PICK i \in 1..Len(work) : ChunkOf(i) = c /\ work[i] = s
  BY DEF Chunk
<1>2. PICK j \in 1..Len(work) : ChunkOf(j) = d /\ work[j] = s
  BY DEF Chunk
<1>3. i = j
  BY <1>1, <1>2 DEF IngestTypes, IsInjective
<1> QED
  BY <1>1, <1>2, <1>3

LEMMA ChunksCover ==
  ASSUME IngestTypes, NEW i \in 1..Len(work)
  PROVE  ChunkOf(i) \in 1..Chunks /\ work[i] \in Chunk(ChunkOf(i))
<1>1. Len(work) \in Nat /\ work # <<>> /\ i \in Nat \ {0} /\ Len(work) \in Nat \ {0} /\ i <= Len(work)
  BY DEF IngestTypes
<1>2. Chunks = ChunkOf(Len(work))
  BY <1>1 DEF Chunks
<1>3. ChunkOf(i) \in Nat \ {0} /\ ChunkOf(Len(work)) \in Nat \ {0} /\ ChunkOf(i) <= ChunkOf(Len(work))
  BY <1>1, ChunkNumbers
<1>4. work[i] \in Chunk(ChunkOf(i))
  BY DEF Chunk
<1> QED
  BY <1>2, <1>3, <1>4

LEMMA ChunkSymbols ==
  ASSUME IngestTypes, NEW c
  PROVE  Chunk(c) \subseteq Symbol
BY DEF Chunk, IngestTypes

\* The symbols that recovery asks for once more are each asked for once.
LEMMA TargetsAre == Targets \in Seq(Symbol) /\ IsInjective(Targets)
<1> DEFINE S == {s \in Required : ~Fresh(s)}
<1>1. IsFiniteSet(Symbol)
  <2> DEFINE n == Len(Universe)
  <2>1. n \in Nat /\ DOMAIN Universe = 1..n /\ Universe \in [1..n -> Symbol]
    BY UniverseAssumption
  <2>2. IsFiniteSet(1..n)
    BY <2>1, FS_Interval
  <2>3. Universe \in Surjection(1..n, Symbol)
    BY <2>1 DEF Surjection, Symbol, ToSet
  <2> HIDE DEF n
  <2> QED
    BY <2>2, <2>3, FS_Surjection
<1>2. S \subseteq Symbol /\ IsFiniteSet(S)
  BY <1>1, UniverseAssumption, FS_Subset
<1> HIDE DEF S
<1>3. Cardinality(S) \in Nat
  BY <1>2, FS_CardinalityType
<1>4. \E f \in [1..Cardinality(S) -> S] : IsInjective(f)
  <2>1. ExistsBijection(1..Cardinality(S), S)
    BY <1>2, FS_CardinalityType
  <2>2. PICK f \in Bijection(1..Cardinality(S), S) : TRUE
    BY <2>1 DEF ExistsBijection
  <2>3. f \in [1..Cardinality(S) -> S] /\ IsInjective(f)
    BY DEF Bijection, Injection, IsInjective
  <2> QED
    BY <2>3
<1>5. SetToSeq(S) \in [1..Cardinality(S) -> S] /\ IsInjective(SetToSeq(S))
  BY <1>4, Zenon DEF SetToSeq
<1>6. SetToSeq(S) \in Seq(Symbol)
  <2> DEFINE f == SetToSeq(S)
             n == Cardinality(S)
  <2>1. f \in [1..n -> S] /\ n \in Nat
    BY <1>3, <1>5
  <2> HIDE DEF f, n
  <2>2. f \in Seq(Symbol)
    BY <1>2, <2>1
  <2> QED
    BY <2>2 DEF f
<1> QED
  BY <1>5, <1>6 DEF Targets, S

LEMMA IngestStart == IngestInit => IngestInv
<1> SUFFICES ASSUME IngestInit PROVE IngestInv
  OBVIOUS
<1> USE SizeAssumption
<1>1. Missing \in Version /\ Nothing \in Frame \cup {Nothing}
  BY DEF Missing, Version
<1>2. IsInjective(<<>>) /\ <<>> \in Seq(Symbol)
  BY DEF IsInjective
<1>3. IngestTypes
  BY <1>1, <1>2 DEF IngestInit, IngestTypes
<1>4. AnswersLook /\ Fetching
  BY DEF IngestInit, AnswersLook, Fetching, Asked
<1>5. HeldIs /\ WatermarkHolds /\ TakenIsKept /\ AllTaken
  BY DEF IngestInit, HeldIs, WatermarkHolds, TakenIsKept, AllTaken
<1> QED
  BY <1>3, <1>4, <1>5 DEF IngestInv

\* A refresh begins: nothing is asked, taken or held.
LEMMA BeginStep ==
  ASSUME IngestInv, NEW w \in Seq(Symbol), IsInjective(w), Begin(w), UNCHANGED <<time, store>>
  PROVE  IngestInv'
<1> USE SizeAssumption
<1>1. IngestTypes'
  <2>1. watermark' \in [Symbol -> 0..(LastTime + 1)]
    BY NewestIs DEF Begin
  <2>2. answer' \in [Symbol -> Frame \cup {Nothing}]
    BY DEF Begin
  <2> QED
    BY <2>1, <2>2 DEF IngestInv, IngestTypes, Begin
<1>2. AnswersLook'
  BY DEF AnswersLook, Begin
<1>3. Fetching'
  BY DEF Fetching, Asked, Begin
<1>4. HeldIs' /\ AllTaken'
  BY DEF HeldIs, AllTaken, Begin
<1>5. WatermarkHolds'
  BY DEF WatermarkHolds, Begin, Newest, Stored
<1>6. TakenIsKept'
  BY DEF TakenIsKept, Taken, Begin
<1> QED
  BY <1>1, <1>2, <1>3, <1>4, <1>5, <1>6 DEF IngestInv

\* What the parts of the invariant speak of, where a step leaves it alone.
LEMMA RefreshKept ==
  ASSUME UNCHANGED <<store, work, nextChunk, watermark, held>>
  PROVE  /\ \A c : Chunk(c)' = Chunk(c)
         /\ \A s : Taken(s)' = Taken(s) /\ Newest(s)' = Newest(s)
         /\ \A s, b : InBatch(s, b)' = InBatch(s, b)
         /\ Chunks' = Chunks
<1>1. \A c : Chunk(c)' = Chunk(c)
  BY DEF Chunk
<1> QED
  BY <1>1 DEF Taken, Newest, Stored, InBatch, Chunks

\* A task is submitted: its symbol was not asked for before.
LEMMA SubmitStep ==
  ASSUME IngestInv, Submit
  PROVE  IngestInv'
<1>1. /\ UNCHANGED <<time, store, pc, work, watermark, nextChunk, answered, received, answer, held>>
      /\ nextTask \in 1..Len(work) /\ nextTask' = nextTask + 1
      /\ pending' = pending \cup {work[nextTask]}
  BY DEF Submit, CanSubmit, buffer, IngestInv, IngestTypes
<1>2. IngestTypes' /\ AnswersLook'
  BY <1>1 DEF IngestInv, IngestTypes, AnswersLook
<1>3. Fetching'
  <2>1. Asked' = Asked \cup {work[nextTask]}
    <3>1. {j \in 1..Len(work) : j < nextTask + 1} = {j \in 1..Len(work) : j < nextTask} \cup {nextTask}
      BY <1>1
    <3> QED
      BY <1>1, <3>1 DEF Asked
  <2>2. work[nextTask] \notin Asked
    BY <1>1 DEF Asked, IngestInv, IngestTypes, IsInjective
  <2> QED
    BY <1>1, <2>1, <2>2, RefreshKept DEF IngestInv, Fetching
<1>4. HeldIs' /\ WatermarkHolds' /\ TakenIsKept' /\ AllTaken'
  BY <1>1, RefreshKept DEF IngestInv, HeldIs, WatermarkHolds, TakenIsKept, AllTaken, VersionOf
<1> QED
  BY <1>2, <1>3, <1>4 DEF IngestInv

\* A thread answers for a symbol that is pending: none of those already taken.
LEMMA AnswerStep ==
  ASSUME IngestInv, NEW s \in Symbol, NEW f \in Frame \cup {Nothing}, Answer(s, f)
  PROVE  IngestInv'
<1> USE SizeAssumption
<1>1. /\ UNCHANGED <<time, store, pc, work, watermark, nextTask, nextChunk, pending, received, held>>
      /\ s \in pending /\ answered' = answered \cup {s}
      /\ answer' = [answer EXCEPT ![s] = f]
      /\ f = Nothing \/ (f.to = f.at + 1 /\ f.at = time)
  BY DEF Answer, buffer
<1>2. IngestTypes'
  BY <1>1 DEF IngestInv, IngestTypes
<1>3. \A x \in Symbol : answer'[x] = IF x = s THEN f ELSE answer[x]
  BY <1>1 DEF IngestInv, IngestTypes
<1>4. AnswersLook'
  BY <1>1, <1>3 DEF IngestInv, IngestTypes, AnswersLook
<1>5. Fetching'
  BY <1>1, RefreshKept DEF IngestInv, Fetching, Asked
<1>6. \A x : Taken(x) => x # s
  BY <1>1 DEF IngestInv, Fetching, Taken
<1>7. HeldIs'
  <2>1. \A r \in held : answer'[r.symbol] = answer[r.symbol]
    BY <1>3, <1>6 DEF IngestInv, HeldIs, IngestTypes, HeldRow
  <2> QED
    BY <1>1, <2>1, RefreshKept DEF IngestInv, HeldIs, VersionOf
<1>8. WatermarkHolds' /\ AllTaken'
  BY <1>1, RefreshKept DEF IngestInv, WatermarkHolds, AllTaken
<1>9. TakenIsKept'
  BY <1>1, <1>3, <1>6, RefreshKept DEF IngestInv, TakenIsKept
<1> QED
  BY <1>2, <1>4, <1>5, <1>7, <1>8, <1>9 DEF IngestInv

LEMMA CollectStep ==
  ASSUME IngestInv, Collect
  PROVE  IngestInv'
<1>1. /\ UNCHANGED <<time, store, pc, work, watermark, nextTask, nextChunk, answer, held>>
      /\ pending' = pending \ answered /\ received' = received \cup answered /\ answered' = {}
  BY DEF Collect, buffer
<1>2. IngestTypes' /\ AnswersLook'
  BY <1>1 DEF IngestInv, IngestTypes, AnswersLook
<1>3. Fetching'
  BY <1>1, RefreshKept DEF IngestInv, Fetching, Asked
<1>4. HeldIs' /\ WatermarkHolds' /\ TakenIsKept' /\ AllTaken'
  BY <1>1, RefreshKept DEF IngestInv, HeldIs, WatermarkHolds, TakenIsKept, AllTaken, VersionOf
<1> QED
  BY <1>2, <1>3, <1>4 DEF IngestInv

\* A row of an answer is a version of its bar.
LEMMA VersionsAre ==
  ASSUME IngestTypes, NEW s \in Symbol, NEW b
  PROVE  VersionOf(s, b) \in Version
<1>1. answer[s].from \in 0..(LastTime + 1)
  <2>1. CASE answer[s] \in Frame
    <3>1. answer[s].from \in Bar
      BY <2>1 DEF Frame
    <3> QED
      BY <3>1, SizeAssumption DEF Bar
  <2>2. CASE answer[s] = Nothing
    <3>1. answer[s].from = 1
      BY <2>2 DEF Nothing
    <3> QED
      BY <3>1, SizeAssumption
  <2> QED
    BY <2>1, <2>2 DEF IngestTypes
<1> QED
  BY <1>1 DEF VersionOf, Version

\* The rows of an answer that the main thread keeps.
LEMMA RowsAre ==
  ASSUME IngestTypes, AnswersLook, NEW c, NEW r
  PROVE  /\ r \in Rows(c) =>
              /\ r \in HeldRow /\ r.symbol \in Chunk(c) /\ r.bar \in Kept(r.symbol)
              /\ r.version = VersionOf(r.symbol, r.bar)
         /\ \A s \in Chunk(c) : \A b \in Kept(s) : \E q \in Rows(c) : q.symbol = s /\ q.bar = b
<1> USE SizeAssumption
<1>1. ASSUME NEW s \in Symbol, NEW b \in Kept(s)
      PROVE  b \in Bar
  <2>1. b \in answer[s].from..answer[s].to
    BY DEF Kept
  <2>2. CASE answer[s] \in Frame
    <3>1. answer[s].from \in Bar /\ answer[s].to \in 0..(LastTime + 1)
      BY <2>2 DEF Frame
    <3> QED
      BY <2>1, <3>1 DEF Bar
  <2>3. CASE answer[s] = Nothing
    <3>1. answer[s].from = 1 /\ answer[s].to = 0
      BY <2>3 DEF Nothing
    <3> QED
      BY <2>1, <3>1
  <2> QED
    BY <2>2, <2>3 DEF IngestTypes
<1>2. \A s \in Symbol : \A b : VersionOf(s, b) \in Version
  BY VersionsAre
<1>3. Chunk(c) \subseteq Symbol
  BY ChunkSymbols
<1>4. ASSUME r \in Rows(c)
      PROVE  /\ r \in HeldRow /\ r.symbol \in Chunk(c) /\ r.bar \in Kept(r.symbol)
             /\ r.version = VersionOf(r.symbol, r.bar)
  <2>1. PICK s \in Chunk(c) : \E b \in Kept(s) : r = [symbol |-> s, bar |-> b, version |-> VersionOf(s, b)]
    BY <1>4 DEF Rows
  <2>2. PICK b \in Kept(s) : r = [symbol |-> s, bar |-> b, version |-> VersionOf(s, b)]
    BY <2>1
  <2>3. s \in Symbol /\ b \in Bar /\ VersionOf(s, b) \in Version
    BY <1>1, <1>2, <1>3
  <2> QED
    BY <2>2, <2>3 DEF HeldRow
<1>5. ASSUME NEW s \in Chunk(c), NEW b \in Kept(s)
      PROVE  \E q \in Rows(c) : q.symbol = s /\ q.bar = b
  <2>1. [symbol |-> s, bar |-> b, version |-> VersionOf(s, b)] \in Rows(c)
    BY DEF Rows
  <2> QED
    BY <2>1
<1> QED
  BY <1>4, <1>5

\* A chunk is taken: its answers are all there, and its symbols are new to the batch.
LEMMA TakeStep ==
  ASSUME IngestInv, TakeChunk
  PROVE  IngestInv'
<1> DEFINE n == nextChunk
<1>1. /\ UNCHANGED <<time, store, work, watermark, nextTask, pending, answered, received, answer>>
      /\ pc = "fetch" /\ pc' \in {"fetch", "flush"} /\ n' = n + 1
      /\ held' = held \cup Rows(n)
      /\ Chunk(n) \subseteq received
  <2>1. CASE Rows(n) = {}
    BY <2>1 DEF TakeChunk, Received, buffer
  <2>2. CASE Rows(n) # {}
    BY <2>2 DEF TakeChunk, Received
  <2> QED
    BY <2>1, <2>2
<1>2. n \in Nat \ {0} /\ IngestTypes /\ AnswersLook
  BY DEF IngestInv, IngestTypes
<1>3. \A r \in Rows(n) : /\ r \in HeldRow /\ r.symbol \in Chunk(n) /\ r.bar \in Kept(r.symbol)
                         /\ r.version = VersionOf(r.symbol, r.bar)
  BY <1>2, RowsAre
<1>4. \A s \in Chunk(n) : \A b \in Kept(s) : \E q \in Rows(n) : q.symbol = s /\ q.bar = b
  BY <1>2, RowsAre
<1>5. \A c : Chunk(c)' = Chunk(c)
  BY <1>1 DEF Chunk
<1>6. \A s : Newest(s)' = Newest(s)
  BY <1>1 DEF Newest, Stored
<1>7. \A s : Taken(s)' <=> Taken(s) \/ s \in Chunk(n)
  <2>1. 1..(n' - 1) = (1..(n - 1)) \cup {n}
    BY <1>1, <1>2
  <2> QED
    BY <1>5, <2>1 DEF Taken
<1>8. \A s \in Chunk(n) : ~Taken(s)
  BY <1>2, OneChunk DEF Taken
<1>9. \A s, b : InBatch(s, b)' <=> InBatch(s, b) \/ \E q \in Rows(n) : q.symbol = s /\ q.bar = b
  BY <1>1 DEF InBatch
<1>10. \A s, b : VersionOf(s, b)' = VersionOf(s, b)
  BY <1>1 DEF VersionOf
<1>11. IngestTypes' /\ AnswersLook'
  BY <1>1, <1>2, <1>3 DEF IngestTypes, AnswersLook
<1>12. Fetching'
  <2>1. 1..(n' - 1) = (1..(n - 1)) \cup {n}
    BY <1>1, <1>2
  <2>2. Asked' = Asked
    BY <1>1 DEF Asked
  <2> QED
    BY <1>1, <1>5, <2>1, <2>2 DEF IngestInv, Fetching
<1>13. HeldIs'
  <2> SUFFICES ASSUME NEW r \in held'
               PROVE  /\ Taken(r.symbol)'
                      /\ r.version = VersionOf(r.symbol, r.bar)
                      /\ answer[r.symbol].from <= r.bar /\ r.bar <= answer[r.symbol].to
                      /\ watermark[r.symbol] <= r.bar
                      /\ \A b \in Bar : /\ answer[r.symbol].from <= b /\ watermark[r.symbol] <= b
                                        /\ b <= r.bar
                                        => InBatch(r.symbol, b)'
    BY <1>1, <1>10 DEF HeldIs
  <2>1. CASE r \in held
    BY <1>7, <1>9, <2>1 DEF IngestInv, HeldIs
  <2>2. CASE r \in Rows(n)
    <3>1. /\ r.symbol \in Chunk(n) /\ r.bar \in Kept(r.symbol)
          /\ r.version = VersionOf(r.symbol, r.bar)
      BY <1>3, <2>2
    <3>2. ASSUME NEW b \in Bar, answer[r.symbol].from <= b, watermark[r.symbol] <= b, b <= r.bar
          PROVE  b \in Kept(r.symbol)
      <4>1. r.symbol \in Symbol /\ b \in Int /\ r.bar \in Int /\ r.bar <= time /\ time \in Int
        BY <1>2, <3>1, ChunkSymbols DEF Kept, Bar, IngestTypes
      <4>2. answer[r.symbol] \in Frame \cup {Nothing} /\ watermark[r.symbol] \in Int
        BY <1>2, <4>1 DEF IngestTypes
      <4> DEFINE f == answer[r.symbol]
      <4>3. f.from \in Int /\ f.to \in Int
        BY <4>2 DEF Frame, Nothing, Bar
      <4>4. r.bar <= f.to
        BY <3>1, <4>3 DEF Kept
      <4> HIDE DEF f
      <4>5. b \in f.from..f.to /\ b <= time /\ b >= watermark[r.symbol]
        BY <3>2, <4>1, <4>2, <4>3, <4>4 DEF f
      <4> QED
        BY <4>5 DEF Kept, f
    <3>3. /\ answer[r.symbol].from <= r.bar /\ r.bar <= answer[r.symbol].to
          /\ watermark[r.symbol] <= r.bar
      <4>1. /\ answer[r.symbol] \in Frame \cup {Nothing} /\ watermark[r.symbol] \in Int
        BY <1>2, <3>1, ChunkSymbols DEF IngestTypes
      <4> QED
        BY <3>1, <4>1 DEF Kept, Frame, Nothing, Bar
    <3> QED
      BY <1>4, <1>7, <1>9, <3>1, <3>2, <3>3
  <2> QED
    BY <1>1, <2>1, <2>2
<1>14. WatermarkHolds'
  <2>1. \A s \in Symbol : ~Taken(s) \/ (\E b \in Bar : InBatch(s, b)) => watermark[s] = Newest(s)
    BY <1>1 DEF IngestInv, WatermarkHolds
  <2>2. ASSUME NEW s \in Symbol, ~Taken(s)' \/ (\E b \in Bar : InBatch(s, b)')
        PROVE  watermark[s] = Newest(s)
    <3>1. CASE ~Taken(s)'
      BY <1>7, <2>1, <3>1
    <3>2. CASE \E b \in Bar : InBatch(s, b)'
      <4>1. CASE \E b \in Bar : InBatch(s, b)
        BY <2>1, <4>1
      <4>2. CASE \E q \in Rows(n) : q.symbol = s
        BY <1>3, <1>8, <2>1, <4>2
      <4> QED
        BY <1>9, <3>2, <4>1, <4>2
    <3> QED
      BY <2>2, <3>1, <3>2
  <2> QED
    BY <1>1, <1>6, <2>2 DEF WatermarkHolds
<1>15. TakenIsKept'
  <2>1. ASSUME NEW s \in Symbol, NEW b \in Bar, Taken(s)', answer[s].from <= b, b <= answer[s].at,
               watermark[s] <= b
        PROVE  store[s][b].final \/ InBatch(s, b)'
    <3>1. CASE Taken(s)
      BY <1>1, <1>9, <2>1, <3>1 DEF IngestInv, TakenIsKept
    <3>2. CASE s \in Chunk(n)
      <4>1. answer[s] # Nothing
        <5>1. b \in Int /\ Nothing.from = 1 /\ Nothing.at = 0
          BY SizeAssumption DEF Bar, Nothing
        <5> HIDE DEF Nothing
        <5> QED
          BY <2>1, <5>1
      <4>2. /\ answer[s].to = answer[s].at + 1 /\ answer[s].at <= time
            /\ answer[s].from \in Int /\ answer[s].at \in Int /\ time \in Int
            /\ b \in Int /\ watermark[s] \in Int
        BY <1>2, <4>1 DEF AnswersLook, IngestTypes, Frame, Bar
      <4>3. b \in Kept(s)
        BY <2>1, <4>2 DEF Kept
      <4> QED
        BY <1>4, <1>9, <3>2, <4>3
    <3> QED
      BY <1>7, <2>1, <3>1, <3>2
  <2> QED
    BY <1>1, <2>1 DEF TakenIsKept
<1>16. AllTaken'
  BY <1>1 DEF AllTaken
<1> QED
  BY <1>11, <1>12, <1>13, <1>14, <1>15, <1>16 DEF IngestInv

\* Steps of the main thread that only move it on.
LEMMA MoveStep ==
  ASSUME IngestInv, UNCHANGED <<time, store, refresh>>,
         \/ pc' \in {"failed", "ended"}
         \/ pc = "fetch" /\ pc' = "flush"
         \/ /\ pc = "fetch" /\ pc' = "finish"
            /\ held = {} /\ nextChunk > Chunks
         \/ pc = "finish" /\ pc' = "check"
         \/ pc' = pc
  PROVE  IngestInv'
<1>1. UNCHANGED <<time, store, work, watermark, nextTask, nextChunk, pending, answered, received,
                  answer, held>>
  BY DEF refresh, fetch, buffer
<1>2. IngestTypes' /\ AnswersLook'
  BY <1>1 DEF IngestInv, IngestTypes, AnswersLook
<1>3. Fetching' /\ HeldIs'
  BY <1>1, RefreshKept DEF IngestInv, Fetching, HeldIs, VersionOf, Asked
<1>4. WatermarkHolds' /\ TakenIsKept' /\ AllTaken'
  BY <1>1, RefreshKept DEF IngestInv, WatermarkHolds, TakenIsKept, AllTaken
<1> QED
  BY <1>2, <1>3, <1>4 DEF IngestInv

\* Time passes: an answer's own time stays in the past.
LEMMA PassStep ==
  ASSUME IngestInv, Pass
  PROVE  IngestInv'
<1>1. /\ UNCHANGED <<store, pc, work, watermark, nextTask, nextChunk, pending, answered, received,
                     answer, held>>
      /\ time' = time + 1 /\ time < LastTime
  BY DEF Pass, refresh, fetch, buffer
<1>2. IngestTypes'
  BY <1>1, SizeAssumption DEF IngestInv, IngestTypes
<1>3. AnswersLook'
  <2>1. \A s \in Symbol : answer[s] # Nothing => answer[s].at \in Int
    BY SizeAssumption DEF IngestInv, IngestTypes, Frame
  <2> QED
    BY <1>1, <2>1 DEF IngestInv, IngestTypes, AnswersLook
<1>4. Fetching' /\ HeldIs'
  BY <1>1, RefreshKept DEF IngestInv, Fetching, HeldIs, VersionOf, Asked
<1>5. WatermarkHolds' /\ TakenIsKept' /\ AllTaken'
  BY <1>1, RefreshKept DEF IngestInv, WatermarkHolds, TakenIsKept, AllTaken
<1> QED
  BY <1>2, <1>3, <1>4, <1>5 DEF IngestInv

\* What a commit leaves at a bar.
LEMMA WrittenIs ==
  ASSUME IngestInv, NEW s \in Symbol, NEW b \in Bar
  PROVE  /\ InBatch(s, b) => Written[s][b] = Merge(store[s][b], VersionOf(s, b))
         /\ ~InBatch(s, b) => Written[s][b] = store[s][b]
<1> DEFINE new == {r \in held : r.symbol = s /\ r.bar = b}
<1>1. Written[s][b] = IF new = {} THEN store[s][b]
                      ELSE Merge(store[s][b], (CHOOSE r \in new : TRUE).version)
  BY DEF Written
<1>2. InBatch(s, b) <=> new # {}
  BY DEF InBatch
<1>3. \A r \in new : r.version = VersionOf(s, b)
  BY DEF IngestInv, HeldIs
<1> HIDE DEF new
<1>4. new # {} => (CHOOSE r \in new : TRUE) \in new
  OBVIOUS
<1> QED
  BY <1>1, <1>2, <1>3, <1>4

LEMMA WrittenTypes ==
  ASSUME IngestInv
  PROVE  Written \in [Symbol -> [Bar -> Version]]
<1> USE SizeAssumption
<1>1. \A s \in Symbol : \A b : VersionOf(s, b) \in Version
  BY VersionsAre DEF IngestInv
<1>2. ASSUME NEW s \in Symbol, NEW b \in Bar PROVE Written[s][b] \in Version
  <2>1. store[s][b] \in Version
    BY DEF IngestInv, IngestTypes
  <2> QED
    BY <1>1, <2>1, WrittenIs DEF Merge
<1>3. \A s \in Symbol : Written[s] \in [Bar -> Version]
  <2> SUFFICES ASSUME NEW s \in Symbol PROVE Written[s] \in [Bar -> Version]
    OBVIOUS
  <2>1. \A b \in Bar : Written[s][b] \in Version
    BY <1>2
  <2>2. Written[s] = [b \in Bar |-> Written[s][b]]
    BY DEF Written
  <2> QED
    BY <2>1, <2>2
<1>4. Written = [s \in Symbol |-> Written[s]]
  BY DEF Written
<1> QED
  BY <1>3, <1>4

\* A batch is committed.
LEMMA CommitStep ==
  ASSUME IngestInv, Commit
  PROVE  IngestInv'
<1>1. /\ UNCHANGED <<time, work, watermark, nextTask, nextChunk, pending, answered, received, answer>>
      /\ pc = "flush" /\ pc' = "fetch" /\ store' = Written /\ held' = {}
  BY DEF Commit, fetch
<1>2. \A c : Chunk(c)' = Chunk(c)
  BY <1>1 DEF Chunk
<1>3. \A s : Taken(s)' = Taken(s)
  BY <1>1, <1>2 DEF Taken
<1>4. IngestTypes' /\ AnswersLook'
  BY <1>1, WrittenTypes DEF IngestInv, IngestTypes, AnswersLook
<1>5. Fetching' /\ HeldIs' /\ AllTaken'
  BY <1>1, <1>2 DEF IngestInv, Fetching, Asked, HeldIs, AllTaken
<1>6. WatermarkHolds'
  <2> SUFFICES ASSUME NEW s \in Symbol, ~Taken(s) PROVE watermark[s] = Newest(s)'
    BY <1>1, <1>3 DEF WatermarkHolds, InBatch
  <2>1. \A b \in Bar : ~InBatch(s, b)
    BY DEF IngestInv, HeldIs, InBatch
  <2>2. \A b \in Bar : store'[s][b] = store[s][b]
    BY <1>1, <2>1, WrittenIs
  <2>3. Newest(s)' = Newest(s)
    <3>1. Stored(s)' = Stored(s)
      BY <2>2 DEF Stored
    <3> QED
      BY <3>1 DEF Newest
  <2> QED
    BY <1>1, <2>3 DEF IngestInv, WatermarkHolds
<1>7. TakenIsKept'
  <2> SUFFICES ASSUME NEW s \in Symbol, NEW b \in Bar, Taken(s), answer[s].from <= b,
                      b <= answer[s].at, watermark[s] <= b
               PROVE  Written[s][b].final
    BY <1>1, <1>3 DEF TakenIsKept
  <2>1. store[s][b].final \/ InBatch(s, b)
    BY <1>1 DEF IngestInv, TakenIsKept
  <2>2. VersionOf(s, b).final
    BY DEF VersionOf
  <2>3. CASE InBatch(s, b)
    BY <2>2, <2>3, WrittenIs DEF Merge
  <2>4. CASE ~InBatch(s, b)
    BY <2>1, <2>4, WrittenIs
  <2> QED
    BY <2>3, <2>4
<1> QED
  BY <1>4, <1>5, <1>6, <1>7 DEF IngestInv

\* The process ends at a commit whose outcome is not known.
LEMMA BreakStep ==
  ASSUME IngestInv, pc' \in {"failed", "ended"}, store' \in {store, Written},
         held' \in {held, {}},
         UNCHANGED <<time, work, watermark, fetch>>
  PROVE  IngestInv'
<1>1. UNCHANGED <<time, work, watermark, nextTask, nextChunk, pending, answered, received, answer>>
  BY DEF fetch
<1>2. (\A c : Chunk(c)' = Chunk(c)) /\ (\A s : Taken(s)' = Taken(s))
  <2>1. \A c : Chunk(c)' = Chunk(c)
    BY <1>1 DEF Chunk
  <2> QED
    BY <1>1, <2>1 DEF Taken
<1>3. IngestTypes' /\ AnswersLook'
  BY <1>1, WrittenTypes DEF IngestInv, IngestTypes, AnswersLook
<1>4. Fetching'
  BY <1>1, <1>2 DEF IngestInv, Fetching, Asked
<1>5. HeldIs'
  BY <1>1, <1>2 DEF IngestInv, HeldIs, VersionOf, InBatch
<1>6. WatermarkHolds' /\ TakenIsKept' /\ AllTaken'
  BY DEF WatermarkHolds, TakenIsKept, AllTaken
<1> QED
  BY <1>3, <1>4, <1>5, <1>6 DEF IngestInv

LEMMA IngestStep == IngestInv /\ [IngestNext]_ingestion => IngestInv'
<1> SUFFICES ASSUME IngestInv, [IngestNext]_ingestion PROVE IngestInv'
  OBVIOUS
<1>1. CASE Pass
  BY <1>1, PassStep
<1>2. CASE Start
  BY <1>2, BeginStep, UniverseAssumption DEF Start
<1>3. CASE Recover
  BY <1>3, BeginStep, TargetsAre DEF Recover
<1>4. CASE Submit
  BY <1>4, SubmitStep
<1>5. CASE Collect
  BY <1>5, CollectStep
<1>6. CASE TakeChunk
  BY <1>6, TakeStep
<1>7. CASE Commit
  BY <1>7, CommitStep
<1>8. CASE CommitFails
  BY <1>8, BreakStep DEF CommitFails
<1>9. CASE Kill
  <2>1. store' \in {store, Written}
    BY <1>9 DEF Kill
  <2> QED
    BY <1>9, <2>1, BreakStep DEF Kill, refresh, buffer
<1>10. CASE Drain
  <2>1. UNCHANGED <<time, store, refresh>> /\ pc = "fetch" /\ nextChunk > Chunks
    BY <1>10 DEF Drain
  <2>2. pc' = "flush" \/ (pc' = "finish" /\ held = {})
    BY <1>10 DEF Drain, AfterChunks
  <2> QED
    BY <2>1, <2>2, MoveStep
<1>11. CASE FinishRun \/ LogFailure \/ Finished
  BY <1>11, MoveStep DEF FinishRun, LogFailure, Finished
<1>12. ASSUME NEW s \in Symbol, Answers(s) PROVE IngestInv'
  BY <1>12, AnswerStep DEF Answers
<1>13. CASE UNCHANGED ingestion
  BY <1>13, MoveStep DEF ingestion
<1> QED
  BY <1>1, <1>2, <1>3, <1>4, <1>5, <1>6, <1>7, <1>8, <1>9, <1>10, <1>11, <1>12, <1>13 DEF IngestNext

LEMMA IngestAlways == IngestSpec => []IngestInv
BY IngestStart, IngestStep, PTL DEF IngestSpec

(***************************************************************************)
(* A refresh that is recorded AVAILABLE left nothing in memory: every bar   *)
(* it was given, closed at the answer and not behind the watermark, is      *)
(* stored in its final version, for any universe, chunk size, batch size    *)
(* and number of workers, in whatever order the answers came.               *)
(***************************************************************************)
THEOREM AvailableMeansStored == IngestSpec => []AvailableIsStored
<1>1. IngestInv => AvailableIsStored
  <2> SUFFICES ASSUME IngestInv, pc = "check", NEW s \in ToSet(work), NEW b \in Bar,
                      answer[s].from <= b, b <= answer[s].at, watermark[s] <= b
               PROVE  store[s][b].final
    BY DEF AvailableIsStored
  <2>1. IngestTypes /\ held = {} /\ nextChunk > Chunks
    BY DEF IngestInv, AllTaken
  <2>2. PICK i \in 1..Len(work) : work[i] = s
    BY <2>1 DEF ToSet, IngestTypes
  <2>3. ChunkOf(i) \in 1..Chunks /\ s \in Chunk(ChunkOf(i)) /\ s \in Symbol
    BY <2>1, <2>2, ChunksCover DEF IngestTypes
  <2>4. Taken(s)
    <3>1. Chunks \in Int /\ nextChunk \in Int
      <4>1. Len(work) \in Nat /\ work # <<>> /\ Len(work) \in Nat \ {0}
        BY <2>1, <2>2 DEF IngestTypes
      <4> QED
        BY <2>1, <4>1, ChunkNumbers DEF Chunks, IngestTypes
    <3>2. ChunkOf(i) \in 1..(nextChunk - 1)
      BY <2>1, <2>3, <3>1
    <3> QED
      BY <2>3, <3>2 DEF Taken
  <2> QED
    BY <2>1, <2>3, <2>4 DEF IngestInv, TakenIsKept, InBatch
<1> QED
  BY <1>1, IngestAlways, PTL

NewestStored ==
  \A s \in Symbol :
    Newest(s) \in 0..(LastTime + 1) /\ (Newest(s) > 0 => Newest(s) \in Stored(s))

LEMMA NewestAlways == NewestStored
BY NewestIs DEF NewestStored

\* The batch that first stores a later bar: if it holds the bar that was the
\* newest, it holds it final, for the answer reached beyond it.
LEMMA RevisedBy ==
  ASSUME IngestInv, pc = "flush", store' = Written, NEW s \in Symbol,
         NEW b, b = Newest(s), NEW c, c = Newest(s)', 0 < b, b < c
  PROVE  store'[s][b].final \/ store'[s][c].from > b
<1> USE SizeAssumption
<1>1. b \in Stored(s) /\ b \in Bar /\ b \in Int /\ (\A x \in Stored(s) : x <= b)
  BY NewestIs DEF Stored, Bar
<1>2. c \in Stored(s)' /\ c \in Bar /\ c \in Int
  <2>1. NewestStored'
    BY NewestAlways, PTL
  <2>2. c \in 0..(LastTime + 1) /\ (c > 0 => c \in Stored(s)')
    BY <2>1 DEF NewestStored
  <2> QED
    BY <1>1, <2>2 DEF Stored, Bar
<1>3. store[s][c] = Missing /\ store'[s][c] # Missing
  BY <1>1, <1>2 DEF Stored
<1>4. InBatch(s, c) /\ store'[s][c] = VersionOf(s, c)
  <2>1. InBatch(s, c)
    BY <1>2, <1>3, WrittenIs
  <2>2. ~Missing.final
    BY DEF Missing
  <2> QED
    BY <1>2, <1>3, <2>1, <2>2, WrittenIs DEF Merge
<1>5. PICK r \in held : r.symbol = s /\ r.bar = c
  BY <1>4 DEF InBatch
<1>6. watermark[s] = b
  BY <1>2, <1>4 DEF IngestInv, WatermarkHolds
<1>7. /\ c <= answer[s].to /\ answer[s] \in Frame \cup {Nothing}
      /\ answer[s] = Nothing \/ answer[s].to = answer[s].at + 1
  BY <1>5 DEF IngestInv, HeldIs, IngestTypes, AnswersLook
<1>8. answer[s].from \in Int /\ answer[s].to \in Int /\ answer[s].at \in Int
  BY <1>7 DEF Frame, Nothing, Bar
<1>9. CASE answer[s].from <= b
  <2>1. InBatch(s, b)
    BY <1>1, <1>2, <1>5, <1>6, <1>9 DEF IngestInv, HeldIs
  <2>2. answer[s] # Nothing
    <3>1. Nothing.to = 0
      BY DEF Nothing
    <3> HIDE DEF Nothing
    <3> QED
      BY <1>1, <1>2, <1>7, <3>1
  <2>3. b <= answer[s].at
    BY <1>1, <1>2, <1>7, <1>8, <2>2
  <2>4. VersionOf(s, b).final
    BY <2>3 DEF VersionOf
  <2>5. store'[s][b] = Merge(store[s][b], VersionOf(s, b))
    BY <1>1, <2>1, WrittenIs
  <2> QED
    BY <2>4, <2>5 DEF Merge
<1>10. CASE answer[s].from > b
  BY <1>4, <1>10 DEF VersionOf
<1> QED
  BY <1>1, <1>8, <1>9, <1>10

\* Which step writes bars.
LEMMA WhoStores ==
  ASSUME [IngestNext]_ingestion
  PROVE  store' = store \/ (pc = "flush" /\ store' = Written)
<1>1. CASE Pass \/ Start \/ Submit \/ Collect \/ TakeChunk \/ Drain \/ FinishRun \/ LogFailure
  BY <1>1 DEF Pass, Start, Submit, Collect, TakeChunk, Drain, FinishRun, LogFailure
<1>2. CASE Recover \/ Finished \/ Commit \/ CommitFails
  BY <1>2 DEF Recover, Finished, Commit, CommitFails
<1>3. CASE Kill
  BY <1>3 DEF Kill
<1>4. ASSUME NEW s \in Symbol, Answers(s) PROVE store' = store
  BY <1>4 DEF Answers, Answer
<1>5. CASE UNCHANGED ingestion
  BY <1>5 DEF ingestion
<1> QED
  BY <1>1, <1>2, <1>3, <1>4, <1>5 DEF IngestNext

(***************************************************************************)
(* A bar that was stored while in progress does not stay so by the way      *)
(* refreshes go on: the batch that first stores a later one replaces it,    *)
(* unless its answer began later, whoever was killed or failed in between.  *)
(***************************************************************************)
THEOREM RevisedInTime == IngestSpec => UnfinishedIsRevised
<1> DEFINE Revises ==
      \A s \in Symbol :
        LET b == Newest(s)
            c == Newest(s)'
        IN  0 < b /\ b < c => store'[s][b].final \/ store'[s][c].from > b
<1>1. IngestInv /\ [IngestNext]_ingestion => Revises
  <2> SUFFICES ASSUME IngestInv, [IngestNext]_ingestion, NEW s \in Symbol,
                      0 < Newest(s), Newest(s) < Newest(s)'
               PROVE  store'[s][Newest(s)].final \/ store'[s][Newest(s)'].from > Newest(s)
    OBVIOUS
  <2>1. CASE store' = store
    <3>1. Newest(s)' = Newest(s)
      BY <2>1 DEF Newest, Stored
    <3> QED
      BY <3>1, NewestIs
  <2>2. CASE pc = "flush" /\ store' = Written
    BY <2>2, RevisedBy
  <2> QED
    BY <2>1, <2>2, WhoStores
<1>2. UnfinishedIsRevised <=> [][Revises]_ingestion
  BY DEF UnfinishedIsRevised
<1> HIDE DEF Revises
<1>3. IngestSpec => [][Revises]_ingestion
  BY <1>1, IngestAlways, PTL DEF IngestSpec
<1> QED
  BY <1>2, <1>3

-----------------------------------------------------------------------------
(***************************************************************************)
(* What RefreshEnds rests on.  The prefetcher's two limits never leave it   *)
(* waiting for nothing, and each step takes a refresh nearer to its end.    *)
(***************************************************************************)
AskInv ==
  /\ pc \in {"idle", "fetch", "flush", "finish", "check", "failed", "ended"}
  /\ IsFiniteSet(pending) /\ nextTask <= Len(work) + 1 /\ nextChunk <= Chunks + 1

\* A bound on the steps a refresh has left: the tasks to be submitted, answered and
\* collected, the chunks to be taken and each written, and the end.
ToAsk == 3 * (Len(work) + 1 - nextTask) + Cardinality(pending) + Cardinality(pending \ answered)
ToTake == 4 * (Chunks + 1 - nextChunk)
ToWrite == IF pc = "flush" THEN 1 ELSE IF held = {} THEN 0 ELSE 2
StepsLeft ==
  CASE pc \in {"fetch", "flush"} -> 4 + ToAsk + ToTake + ToWrite
    [] pc = "finish" -> 3
    [] pc = "check" -> 2
    [] pc = "failed" -> 1
    [] OTHER -> 0

LEMMA ChunksAre == IngestTypes => Chunks \in Nat
<1> SUFFICES ASSUME IngestTypes PROVE Chunks \in Nat
  OBVIOUS
<1>1. CASE work = <<>>
  BY <1>1 DEF Chunks
<1>2. CASE work # <<>>
  <2>1. Len(work) \in Nat \ {0}
    BY <1>2 DEF IngestTypes
  <2> QED
    BY <1>2, <2>1, ChunkNumbers DEF Chunks
<1> QED
  BY <1>1, <1>2

LEMMA CountsAre ==
  ASSUME IngestInv, AskInv
  PROVE  /\ IsFiniteSet(pending \ answered)
         /\ Cardinality(pending) \in Nat /\ Cardinality(pending \ answered) \in Nat
         /\ Len(work) + 1 - nextTask \in Nat /\ Chunks + 1 - nextChunk \in Nat
         /\ Chunks \in Nat /\ Len(work) \in Nat /\ nextTask \in Nat /\ nextChunk \in Nat
         /\ ToAsk \in Nat /\ ToTake \in Nat /\ ToWrite \in Nat
<1>1. IsFiniteSet(pending \ answered) /\ Cardinality(pending) \in Nat /\ Cardinality(pending \ answered) \in Nat
  <2>1. pending \ answered \subseteq pending /\ IsFiniteSet(pending)
    BY DEF AskInv
  <2> QED
    BY <2>1, FS_Subset, FS_CardinalityType
<1>2. Chunks \in Nat /\ Len(work) \in Nat /\ nextTask \in Nat /\ nextChunk \in Nat
  BY ChunksAre DEF IngestInv, IngestTypes
<1>3. Len(work) + 1 - nextTask \in Nat /\ Chunks + 1 - nextChunk \in Nat
  BY <1>2 DEF AskInv
<1>4. ToAsk \in Nat
  BY <1>1, <1>3 DEF ToAsk
<1>5. ToTake \in Nat /\ ToWrite \in Nat
  BY <1>3 DEF ToTake, ToWrite
<1> QED
  BY <1>1, <1>2, <1>3, <1>4, <1>5

\* Submitting, answering and collecting each leave less to ask for.
LEMMA AskShrinks ==
  ASSUME IngestInv, AskInv, Submit \/ Collect \/ \E s \in Symbol : Answers(s)
  PROVE  ToAsk' \in Int /\ ToAsk' < ToAsk /\ AskInv' /\ UNCHANGED <<pc, work, nextChunk, held>>
<1> DEFINE waits == pending \ answered
<1>1. /\ IsFiniteSet(pending) /\ IsFiniteSet(waits) /\ Cardinality(pending) \in Nat
      /\ Cardinality(waits) \in Nat /\ Len(work) \in Nat /\ nextTask \in Nat /\ nextTask <= Len(work) + 1
  BY CountsAre DEF AskInv
<1>2. CASE Submit
  <2>1. /\ UNCHANGED <<pc, work, nextChunk, answered, held, store, watermark>>
        /\ nextTask \in 1..Len(work) /\ nextTask' = nextTask + 1
        /\ pending' = pending \cup {work[nextTask]}
    BY <1>2 DEF Submit, CanSubmit, buffer, IngestInv, IngestTypes
  <2>2. work[nextTask] \notin pending /\ answered \subseteq pending
    <3>1. work[nextTask] \notin Asked
      BY <2>1 DEF Asked, IngestInv, IngestTypes, IsInjective
    <3> QED
      BY <3>1 DEF IngestInv, Fetching
  <2>3. pending' \ answered' = waits \cup {work[nextTask]} /\ work[nextTask] \notin waits
    BY <2>1, <2>2
  <2>4. IsFiniteSet(pending') /\ Cardinality(pending') = Cardinality(pending) + 1
    BY <1>1, <2>1, <2>2, FS_AddElement
  <2>5. Cardinality(pending' \ answered') = Cardinality(waits) + 1
    <3> HIDE DEF waits
    <3> QED
      BY <1>1, <2>3, FS_AddElement
  <2>6. ToAsk' = 3 * (Len(work) + 1 - (nextTask + 1)) + (Cardinality(pending) + 1) + (Cardinality(waits) + 1)
    BY <2>1, <2>4, <2>5 DEF ToAsk
  <2>7. Chunks' = Chunks
    BY <2>1 DEF Chunks
  <2> QED
    BY <1>1, <2>1, <2>4, <2>6, <2>7 DEF ToAsk, AskInv
<1>3. CASE Collect
  <2>1. /\ UNCHANGED <<pc, work, nextTask, nextChunk, held>>
        /\ pending' = waits /\ answered' = {} /\ answered # {} /\ answered \subseteq pending
    BY <1>3 DEF Collect, buffer, IngestInv, Fetching
  <2>2. Cardinality(waits) < Cardinality(pending)
    <3>1. waits \subseteq pending /\ waits # pending
      BY <2>1
    <3> HIDE DEF waits
    <3> QED
      BY <1>1, <3>1, FS_Subset
  <2>3. pending' \ answered' = waits
    BY <2>1
  <2>4. ToAsk' = 3 * (Len(work) + 1 - nextTask) + Cardinality(waits) + Cardinality(waits)
    BY <2>1, <2>3 DEF ToAsk
  <2>5. Chunks' = Chunks
    BY <2>1 DEF Chunks
  <2> QED
    BY <1>1, <2>1, <2>2, <2>4, <2>5 DEF ToAsk, AskInv
<1>4. ASSUME NEW s \in Symbol, Answers(s)
      PROVE  ToAsk' \in Int /\ ToAsk' < ToAsk /\ AskInv' /\ UNCHANGED <<pc, work, nextChunk, held>>
  <2>1. /\ UNCHANGED <<pc, work, nextTask, nextChunk, pending, held>>
        /\ s \in waits /\ answered' = answered \cup {s}
    BY <1>4 DEF Answers, Answer, buffer
  <2>2. pending' \ answered' = waits \ {s}
    BY <2>1
  <2>3. Cardinality(pending' \ answered') = Cardinality(waits) - 1
    <3> HIDE DEF waits
    <3> QED
      BY <1>1, <2>1, <2>2, FS_RemoveElement
  <2>4. ToAsk' = 3 * (Len(work) + 1 - nextTask) + Cardinality(pending) + (Cardinality(waits) - 1)
    BY <2>1, <2>3 DEF ToAsk
  <2>5. Chunks' = Chunks
    BY <2>1 DEF Chunks
  <2> QED
    BY <1>1, <2>1, <2>4, <2>5 DEF ToAsk, AskInv
<1> QED
  BY <1>2, <1>3, <1>4

LEMMA AskKept ==
  ASSUME AskInv, UNCHANGED <<pending, work, nextTask, nextChunk>>,
         pc' = pc \/ pc' \in {"fetch", "flush", "finish", "check", "failed", "ended"}
  PROVE  AskInv'
BY DEF AskInv, Chunks

LEMMA AskStep == IngestInv /\ AskInv /\ [IngestNext]_ingestion => AskInv'
<1> SUFFICES ASSUME IngestInv, AskInv, [IngestNext]_ingestion PROVE AskInv'
  OBVIOUS
<1>1. CASE Submit \/ Collect \/ \E s \in Symbol : Answers(s)
  BY <1>1, AskShrinks
<1>2. ASSUME NEW w \in Seq(Symbol), Begin(w) PROVE AskInv'
  <2>1. Len(w) \in Nat /\ work' = w /\ nextTask' = 1 /\ nextChunk' = 1 /\ pending' = {}
    BY <1>2 DEF Begin
  <2>2. Chunks' \in Nat
    <3>1. CASE w = <<>>
      BY <2>1, <3>1 DEF Chunks
    <3>2. CASE w # <<>>
      <4>1. Len(w) \in Nat \ {0}
        BY <3>2
      <4> QED
        BY <2>1, <3>2, <4>1, ChunkNumbers DEF Chunks
    <3> QED
      BY <3>1, <3>2
  <2>3. pc' = "fetch" /\ IsFiniteSet(pending')
    BY <1>2, <2>1, FS_EmptySet DEF Begin
  <2>4. \A n \in Nat : 1 <= n + 1
    OBVIOUS
  <2>5. 1 <= Len(w) + 1 /\ 1 <= Chunks' + 1
    BY <2>1, <2>2, <2>4, Zenon
  <2> QED
    BY <2>1, <2>3, <2>5 DEF AskInv
<1>3. CASE Start \/ Recover
  BY <1>2, <1>3, UniverseAssumption, TargetsAre DEF Start, Recover
<1>4. CASE TakeChunk
  <2>1. /\ nextChunk' = nextChunk + 1 /\ nextChunk <= Chunks /\ UNCHANGED <<pending, work, nextTask>>
        /\ pc' \in {"fetch", "flush"}
    BY <1>4 DEF TakeChunk, Received
  <2>2. Chunks' = Chunks
    BY <2>1 DEF Chunks
  <2>3. nextChunk \in Nat /\ Chunks \in Nat
    BY CountsAre
  <2>4. nextChunk' <= Chunks' + 1
    BY <2>1, <2>2, <2>3
  <2> QED
    BY <2>1, <2>4 DEF AskInv
<1>5. CASE Pass \/ Drain \/ Commit \/ CommitFails \/ FinishRun \/ LogFailure \/ Finished \/ Kill
           \/ UNCHANGED ingestion
  BY <1>5, AskKept DEF Pass, Drain, Commit, CommitFails, FinishRun, LogFailure, Finished, Kill,
     AfterChunks, ingestion, refresh, fetch
<1> QED
  BY <1>1, <1>3, <1>4, <1>5 DEF IngestNext

LEMMA AskAlways == IngestSpec => [](IngestInv /\ AskInv)
<1>1. IngestInit => AskInv
  BY FS_EmptySet DEF IngestInit, AskInv, Chunks
<1> QED
  BY <1>1, AskStep, IngestStart, IngestStep, PTL DEF IngestSpec

(* A fetching refresh has a chunk to take, is past the last one, may submit a
   task, or waits for one that was submitted (ingestion_fetch.py): neither the
   bound of the futures nor that of the lookahead holds back the chunk it waits for. *)
NoEmptyWait ==
  pc = "fetch" => Received(nextChunk) \/ nextChunk > Chunks \/ CanSubmit \/ pending # {}

(***************************************************************************)
(* The prefetcher never waits for nothing, for any universe, chunk size,    *)
(* number of workers and order of the answers.                              *)
(***************************************************************************)
THEOREM SomethingToWaitFor == IngestSpec => []NoEmptyWait
<1>1. IngestInv /\ AskInv => NoEmptyWait
  <2> SUFFICES ASSUME IngestInv, AskInv, ~Received(nextChunk), ~(nextChunk > Chunks), pending = {}
               PROVE  CanSubmit
    BY DEF NoEmptyWait
  <2>1. nextChunk \in Nat \ {0} /\ nextChunk <= Chunks /\ nextTask \in Nat \ {0} /\ Len(work) \in Nat
    <3>1. Chunks \in Nat /\ Len(work) \in Nat
      BY CountsAre
    <3>2. nextChunk \in Nat \ {0} /\ nextTask \in Nat \ {0}
      BY DEF IngestInv, IngestTypes
    <3> QED
      BY <3>1, <3>2
  <2>2. PICK i \in 1..Len(work) : ChunkOf(i) = nextChunk /\ work[i] \notin received
    BY <2>1 DEF Received, Chunk
  <2>3. nextTask <= i
    BY <2>1, <2>2 DEF IngestInv, Fetching, Asked
  <2>4. ChunkOf(nextTask) \in Nat /\ ChunkOf(nextTask) <= nextChunk
    BY <2>1, <2>2, <2>3, ChunkNumbers
  <2>5. ChunkOf(nextTask) < nextChunk + Larger(2, Workers)
    <3>1. Larger(2, Workers) \in Nat \ {0}
      BY SizeAssumption DEF Larger
    <3>2. nextChunk \in Nat
      BY <2>1
    <3> HIDE DEF Larger
    <3> QED
      BY <2>4, <3>1, <3>2
  <2>6. Cardinality(pending) < 2 * Workers
    BY FS_EmptySet, SizeAssumption
  <2> QED
    BY <2>1, <2>2, <2>3, <2>5, <2>6 DEF CanSubmit, Admitted
<1> QED
  BY <1>1, AskAlways, PTL

(* Every step of a refresh but the beginning of the second one leaves it less to
   do; time that passes, no more. *)
RefreshShrinks ==
  [][/\ pc \notin {"idle", "ended"} /\ ~Pass /\ ~Recover => StepsLeft' < StepsLeft
     /\ Pass => StepsLeft' = StepsLeft]_ingestion

(***************************************************************************)
(* A refresh takes finitely many steps, whatever its provider and its       *)
(* database do: together with NoEmptyWait and the fairness of FairIngest    *)
(* this is why it ends.                                                     *)
(***************************************************************************)
THEOREM RefreshIsFinite == IngestSpec => [](StepsLeft \in Nat) /\ RefreshShrinks
<1>1. IngestInv /\ AskInv => StepsLeft \in Nat
  <2> SUFFICES ASSUME IngestInv, AskInv PROVE StepsLeft \in Nat
    OBVIOUS
  <2>1. ToAsk \in Nat /\ ToTake \in Nat /\ ToWrite \in Nat
    BY CountsAre
  <2>2. 4 + ToAsk + ToTake + ToWrite \in Nat
    BY <2>1
  <2> QED
    BY <2>2 DEF StepsLeft
<1> DEFINE Shrinks == /\ pc \notin {"idle", "ended"} /\ ~Pass /\ ~Recover => StepsLeft' < StepsLeft
                      /\ Pass => StepsLeft' = StepsLeft
<1>2. IngestInv /\ AskInv /\ IngestNext => Shrinks
  <2> SUFFICES ASSUME IngestInv, AskInv, IngestNext PROVE Shrinks
    OBVIOUS
  <2>1. /\ ToAsk \in Nat /\ ToTake \in Nat /\ ToWrite \in Nat /\ Chunks \in Nat /\ nextChunk \in Nat
    BY CountsAre
  <2>2. ASSUME Pass PROVE StepsLeft' = StepsLeft
    BY <2>2 DEF Pass, refresh, fetch, buffer, StepsLeft, ToAsk, ToTake, ToWrite, Chunks
  <2>3. ASSUME pc \notin {"idle", "ended"}, Submit \/ Collect \/ \E s \in Symbol : Answers(s)
        PROVE  StepsLeft' < StepsLeft
    <3>1. ToAsk' < ToAsk /\ UNCHANGED <<pc, work, nextChunk, held>>
      BY <2>3, AskShrinks
    <3>2. ToAsk' \in Int
      BY <2>3, AskShrinks
    <3>3. ToTake' = ToTake /\ ToWrite' = ToWrite
      BY <3>1 DEF ToTake, ToWrite, Chunks
    <3>4. pc \in {"fetch", "flush"}
      BY <2>3 DEF Submit, Collect, Answers
    <3> QED
      BY <2>1, <3>1, <3>2, <3>3, <3>4 DEF StepsLeft
  <2>4. ASSUME TakeChunk PROVE StepsLeft' < StepsLeft
    <3>1. /\ pc = "fetch" /\ pc' \in {"fetch", "flush"} /\ nextChunk' = nextChunk + 1
          /\ UNCHANGED <<work, nextTask, pending, answered>>
      BY <2>4 DEF TakeChunk
    <3>2. ToAsk' = ToAsk /\ Chunks' = Chunks /\ ToWrite' \in {0, 1, 2}
      BY <3>1 DEF ToAsk, ToWrite, Chunks
    <3>3. ToTake' = ToTake - 4
      BY <2>1, <3>1, <3>2 DEF ToTake
    <3> QED
      BY <2>1, <3>1, <3>2, <3>3 DEF StepsLeft
  <2>5. ASSUME Drain PROVE StepsLeft' < StepsLeft
    <3>1. pc = "fetch" /\ pc' = (IF held = {} THEN "finish" ELSE "flush") /\ UNCHANGED <<held, refresh>>
      BY <2>5 DEF Drain, AfterChunks, refresh, buffer
    <3>2. ToAsk' = ToAsk /\ ToTake' = ToTake
      BY <3>1 DEF ToAsk, ToTake, Chunks, refresh, fetch
    <3> QED
      BY <2>1, <3>1, <3>2 DEF StepsLeft, ToWrite
  <2>6. ASSUME Commit PROVE StepsLeft' < StepsLeft
    <3>1. pc = "flush" /\ pc' = "fetch" /\ held' = {} /\ UNCHANGED <<work, fetch>>
      BY <2>6 DEF Commit
    <3>2. ToAsk' = ToAsk /\ ToTake' = ToTake
      BY <3>1 DEF ToAsk, ToTake, Chunks, fetch
    <3> QED
      BY <2>1, <3>1, <3>2 DEF StepsLeft, ToWrite
  <2>7. ASSUME CommitFails PROVE StepsLeft' < StepsLeft
    BY <2>1, <2>7 DEF CommitFails, StepsLeft
  <2>8. ASSUME FinishRun \/ LogFailure \/ Finished PROVE StepsLeft' < StepsLeft
    BY <2>8 DEF FinishRun, LogFailure, Finished, StepsLeft
  <2>9. ASSUME Kill, pc \notin {"idle", "ended"} PROVE StepsLeft' < StepsLeft
    <3>1. StepsLeft' = 0
      BY <2>9 DEF Kill, StepsLeft
    <3>2. StepsLeft > 0
      BY <2>1, <2>9 DEF StepsLeft, AskInv
    <3> QED
      BY <3>1, <3>2
  <2>10. CASE Start
    BY <2>2, <2>10 DEF Start
  <2> QED
    BY <2>2, <2>3, <2>4, <2>5, <2>6, <2>7, <2>8, <2>9, <2>10 DEF IngestNext
<1>3. IngestInv /\ AskInv /\ [IngestNext]_ingestion => [Shrinks]_ingestion
  BY <1>2
<1>4. RefreshShrinks <=> [][Shrinks]_ingestion
  BY DEF RefreshShrinks
<1> HIDE DEF Shrinks
<1>5. IngestSpec => [][Shrinks]_ingestion
  BY <1>3, AskAlways, PTL DEF IngestSpec
<1> QED
  BY <1>1, <1>4, <1>5, AskAlways, PTL
=============================================================================
