------------------------- MODULE OutcomeLedgerProofs -------------------------
(***************************************************************************)
(* Proofs about the outcome ledger, for every set of signals and workers,   *)
(* every calendar of quotes and daily bars, and a process that may stop at  *)
(* any step.                                                                *)
(***************************************************************************)
EXTENDS OutcomeLedger, TLAPS, FiniteSetTheorems, WellFoundedInduction

USE SnapshotAssumption, ResolverAssumption, FlagAssumption, DayAssumption,
    DailyBarAssumption, HorizonsAssumption

-----------------------------------------------------------------------------
(* Facts about numbers.                                                     *)

\* Sessions count from zero, and the midnight of a later day is not time zero.
LEMMA SessionNat == \A at \in Nat : Session(at) \in Nat
BY DEF Session

LEMMA Midnight == \A d \in Nat \ {0} : d * Slots \in Nat \ {0}
BY DEF Session

\* The first of a set of days is one of them, and no later than the others.
LEMMA FirstDay ==
  ASSUME NEW S \in SUBSET Nat, S # {}
  PROVE  Min(S) \in S /\ \A d \in S : Min(S) <= d
<1>1. PICK x \in S : \A y \in S : <<y, x>> \notin OpToRel(<, Nat)
  BY WFMin, NatLessThanWellFounded, Zenon
<1>2. \A y \in S : ~(y < x)
  BY <1>1, Zenon DEF OpToRel
<1>3. \A y \in S : x <= y
  BY <1>2
<1> QED
  BY <1>3 DEF Min

-----------------------------------------------------------------------------
(* What the handlers make of a record.                                      *)

\* state_machine.next_state answers with a state of the enumeration.
LEMMA NextStateType ==
  ASSUME NEW previous \in CandidateState \cup {New}, NEW snap
  PROVE  /\ NextState(previous, snap) \in CandidateState \cup {New}
         /\ NextState(previous, snap) # previous => NextState(previous, snap) \in CandidateState
         /\ previous \in Terminal => NextState(previous, snap) = previous
<1>1. InitialState(snap) \in CandidateState
  BY DEF InitialState, CandidateState
<1>2. LiveState(previous, snap) \in CandidateState
  BY <1>1 DEF LiveState, CandidateState, Entry, Terminal
<1> QED
  BY <1>1, <1>2 DEF NextState

\* A record opened by observe_many is a record.
LEMMA OpenedType ==
  ASSUME NEW record \in Record
  PROVE  /\ Opened(record) \in Record
         /\ Opened(record).entered = record.entered
         /\ Opened(record).closed = record.closed
         /\ Opened(record).outcome = record.outcome
BY DEF Opened, Record, CandidateState

\* A transition only adds an entry or an ending that was not booked.
LEMMA MovedType ==
  ASSUME NEW record \in Record, NEW to \in CandidateState \cup {None}, NEW at \in Nat \ {0}
  PROVE  /\ Moved(record, to, at) \in Record
         /\ record.entered # 0 => Moved(record, to, at).entered = record.entered
         /\ Moved(record, to, at).entered # record.entered => to \in Entry
         /\ record.closed # 0 => /\ Moved(record, to, at).closed = record.closed
                                 /\ Moved(record, to, at).outcome = record.outcome
         /\ record.closed = 0 =>
              \/ /\ to \in Terminal
                 /\ Moved(record, to, at).closed # 0
                 /\ Moved(record, to, at).outcome = to
              \/ /\ Moved(record, to, at).closed = 0
                 /\ Moved(record, to, at).outcome = record.outcome
         /\ to = None => Moved(record, to, at) = record
<1> DEFINE shown == [record EXCEPT !.state = to]
           entered == Entered(shown, to, at)
<1>1. CASE to = None
  BY <1>1 DEF Moved
<1>2. CASE to # None
  <2>1. /\ shown \in Record
        /\ shown.entered = record.entered /\ shown.closed = record.closed
        /\ shown.outcome = record.outcome
    BY <1>2 DEF Record
  <2>2. /\ entered \in Record
        /\ record.entered # 0 => entered.entered = record.entered
        /\ entered.entered # record.entered => to \in Entry
        /\ entered.closed = record.closed /\ entered.outcome = record.outcome
    <3> HIDE DEF shown
    <3> QED BY <2>1 DEF Entered, Record
  <2>3. Moved(record, to, at) = Closed(entered, to, at)
    BY <1>2 DEF Moved
  <2> HIDE DEF entered
  <2>4. CASE to \in Terminal /\ entered.closed = 0
    <3>1. Closed(entered, to, at) = [entered EXCEPT !.closed = at, !.outcome = to]
      BY <2>4 DEF Closed
    <3>2. /\ Closed(entered, to, at) \in Record
          /\ Closed(entered, to, at).entered = entered.entered
          /\ Closed(entered, to, at).closed = at
          /\ Closed(entered, to, at).outcome = to
      BY <2>2, <2>4, <3>1 DEF Record
    <3> QED
      BY <1>2, <2>2, <2>3, <2>4, <3>2
  <2>5. CASE ~(to \in Terminal /\ entered.closed = 0)
    BY <1>2, <2>2, <2>3, <2>5 DEF Closed
  <2> QED
    BY <2>4, <2>5
<1> QED
  BY <1>1, <1>2

\* Sampling changes the evidence only.
LEMMA SampledType ==
  ASSUME NEW record \in Record, NEW row, NEW n \in Nat
  PROVE  /\ Sampled(record, row, n) \in Record
         /\ Sampled(record, row, n).entered = record.entered
         /\ Sampled(record, row, n).closed = record.closed
         /\ Sampled(record, row, n).outcome = record.outcome
<1>1. Sample(record, row, n) \in Evidence
  BY DEF Sample, Evidence
<1> QED
  BY <1>1 DEF Sampled, Record

\* The sessions after the entry are finitely many days.
LEMMA FutureType ==
  ASSUME NEW record \in Record, NEW n \in Nat
  PROVE  /\ Future(record, n) \subseteq Nat \ {0}
         /\ Cardinality(Future(record, n)) \in Nat
         /\ InWindow(record, n) \subseteq Future(record, n)
<1>1. Future(record, n) \in SUBSET (1 .. n)
  BY DEF Future
<1>2. IsFiniteSet(1 .. n)
  BY FS_Interval
<1>3. Cardinality(Future(record, n)) \in Nat
  BY <1>1, <1>2, FS_Subset, FS_CardinalityType
<1> QED
  BY <1>1, <1>3 DEF InWindow

LEMMA MeasuredType ==
  ASSUME NEW record \in Record, NEW n \in Nat
  PROVE  /\ Measured(record, n) \in Record
         /\ Measured(record, n).entered = record.entered
         /\ Measured(record, n).closed = record.closed
         /\ Measured(record, n).outcome = record.outcome
<1> DEFINE available == Cardinality(Future(record, n))
           days == {d \in 1 .. available : \E h \in Horizons : d <= h}
<1>1. available \in Nat
  BY FutureType
<1>2. IsFiniteSet(1 .. available) /\ days \in SUBSET (1 .. available)
  BY <1>1, FS_Interval
<1>3. Cardinality(days) \in Nat
  BY <1>2, FS_Subset, FS_CardinalityType
<1> QED
  BY <1>1, <1>3 DEF Measured, Record

\* A walk either leaves the trade as it was or closes it.
LEMMA WalkedType ==
  ASSUME NEW record \in Record, NEW s \in Signal, NEW n \in Nat
  PROVE  /\ Walked(record, s, n) \in Record
         /\ Walked(record, s, n).entered = record.entered
         /\ \/ /\ Walked(record, s, n).closed = record.closed
               /\ Walked(record, s, n).outcome = record.outcome
            \/ /\ Walked(record, s, n).closed # 0
               /\ Walked(record, s, n).outcome \in Terminal
<1> DEFINE window == InWindow(record, n)
           touching == {d \in window : daily[s][d] # "quiet"}
           exit == Min(touching)
           days == {<<"day", d>> : d \in window}
           before == {<<"day", d>> : d \in {e \in window : e < exit}}
<1>1. window \subseteq Nat \ {0}
  BY FutureType
<1>2. CASE touching = {}
  <2>1. Walked(record, s, n) = [record EXCEPT !.path = @ \cup days]
    BY <1>2 DEF Walked
  <2>2. days \subseteq Evidence
    BY <1>1 DEF Evidence
  <2> QED
    BY <2>1, <2>2 DEF Record
<1>3. CASE touching # {}
  <2>1. exit \in Nat \ {0}
    <3>1. touching \in SUBSET Nat
      BY <1>1
    <3>2. exit \in touching
      BY <1>3, <3>1, FirstDay
    <3> QED
      BY <1>1, <3>2
  <2>2. exit * Slots \in Nat \ {0}
    BY <2>1, Midnight
  <2> DEFINE outcome == DailyOutcome(daily[s][exit])
  <2>3. outcome \in Terminal /\ outcome \in CandidateState
    BY DEF DailyOutcome, Terminal, CandidateState
  <2>4. Walked(record, s, n) =
          [record EXCEPT !.path = @ \cup before \cup {<<"exit", exit>>},
                         !.state = outcome, !.outcome = outcome, !.closed = exit * Slots]
    BY <1>3 DEF Walked
  <2>5. before \cup {<<"exit", exit>>} \subseteq Evidence
    BY <1>1, <2>1 DEF Evidence
  <2> HIDE DEF exit, outcome, before
  <2> QED
    BY <2>2, <2>3, <2>4, <2>5 DEF Record
<1> QED
  BY <1>2, <1>3
-----------------------------------------------------------------------------
(***************************************************************************)
(* The type invariant needs one more fact: polled rows lie on the tapes.    *)
(***************************************************************************)
OnTape == \A w \in Worker, s \in Signal : batch[w][s] <= Len(tape[s])

TInv == TypeOK /\ OnTape

LEMMA RowTime ==
  ASSUME TypeOK, NEW s \in Signal, NEW i \in 1 .. Len(tape[s])
  PROVE  tape[s][i].at \in Nat \ {0}
<1>1. tape[s] \in Seq(Row)
  BY DEF TypeOK
<1>2. tape[s][i] \in Row
  BY <1>1
<1> QED
  BY <1>2 DEF Row

LEMMA ReducedType ==
  ASSUME TypeOK, NEW w \in Worker, NEW s \in Signal
  PROVE  /\ Reduced(w, s) \in CandidateState \cup {New}
         /\ Reduced(w, s) # engine[s] => Reduced(w, s) \in CandidateState
         /\ engine[s] \in Terminal => Reduced(w, s) = engine[s]
BY NextStateType DEF Reduced, TypeOK

\* What observe_many does to one record.
LEMMA ObservedType ==
  ASSUME TInv, NEW w \in Worker, NEW s \in Signal, NEW record \in Record
  PROVE  /\ Observed(w, s, record) \in Record
         /\ record.entered # 0 => Observed(w, s, record).entered = record.entered
         /\ Observed(w, s, record).entered # record.entered => moves[w][s] \in Entry
         /\ record.closed # 0 => /\ Observed(w, s, record).closed = record.closed
                                 /\ Observed(w, s, record).outcome = record.outcome
         /\ record.closed = 0 =>
              \/ /\ moves[w][s] \in Terminal
                 /\ Observed(w, s, record).closed # 0
                 /\ Observed(w, s, record).outcome = moves[w][s]
              \/ /\ Observed(w, s, record).closed = 0
                 /\ Observed(w, s, record).outcome = record.outcome
<1>1. CASE batch[w][s] = 0
  BY <1>1 DEF Observed
<1>2. CASE batch[w][s] # 0
  <2> DEFINE n == batch[w][s]
             row == tape[s][n]
             opened == Opened(record)
             moved == Moved(opened, moves[w][s], row.at)
  <2>1. n \in 1 .. Len(tape[s])
    BY <1>2 DEF TInv, TypeOK, OnTape
  <2>2. row.at \in Nat \ {0}
    BY <2>1, RowTime DEF TInv
  <2>3. moves[w][s] \in CandidateState \cup {None}
    BY DEF TInv, TypeOK
  <2>4. /\ opened \in Record
        /\ opened.entered = record.entered
        /\ opened.closed = record.closed
        /\ opened.outcome = record.outcome
    BY OpenedType
  <2>5. Observed(w, s, record) = Sampled(moved, row, n)
    BY <1>2 DEF Observed
  <2> HIDE DEF opened
  <2>6. moved \in Record
    BY <2>2, <2>3, <2>4, MovedType
  <2>7. /\ Sampled(moved, row, n) \in Record
        /\ Sampled(moved, row, n).entered = moved.entered
        /\ Sampled(moved, row, n).closed = moved.closed
        /\ Sampled(moved, row, n).outcome = moved.outcome
    BY <2>1, <2>6, SampledType
  <2>8. /\ record.entered # 0 => moved.entered = record.entered
        /\ moved.entered # record.entered => moves[w][s] \in Entry
        /\ record.closed # 0 => /\ moved.closed = record.closed
                                /\ moved.outcome = record.outcome
        /\ record.closed = 0 =>
             \/ /\ moves[w][s] \in Terminal
                /\ moved.closed # 0
                /\ moved.outcome = moves[w][s]
             \/ /\ moved.closed = 0
                /\ moved.outcome = record.outcome
    BY <2>2, <2>3, <2>4, MovedType
  <2> QED
    BY <2>5, <2>7, <2>8
<1> QED
  BY <1>1, <1>2

\* What resolve_daily_histories does to one record.
LEMMA ResolvedType ==
  ASSUME TypeOK, NEW s \in Signal, NEW record \in Record
  PROVE  /\ Resolved(record, s) \in Record
         /\ Resolved(record, s).entered = record.entered
         /\ \/ /\ Resolved(record, s).closed = record.closed
               /\ Resolved(record, s).outcome = record.outcome
            \/ /\ record.entered # 0
               /\ record.outcome = None
               /\ Resolved(record, s).closed # 0
               /\ Resolved(record, s).outcome \in Terminal
<1> DEFINE measured == Measured(record, known[s])
<1>1. known[s] \in Nat
  BY DEF TypeOK
<1>2. /\ measured \in Record
      /\ measured.entered = record.entered
      /\ measured.closed = record.closed
      /\ measured.outcome = record.outcome
  BY <1>1, MeasuredType
<1> HIDE DEF measured
<1>3. /\ Walked(measured, s, known[s]) \in Record
      /\ Walked(measured, s, known[s]).entered = measured.entered
      /\ \/ /\ Walked(measured, s, known[s]).closed = measured.closed
            /\ Walked(measured, s, known[s]).outcome = measured.outcome
         \/ /\ Walked(measured, s, known[s]).closed # 0
            /\ Walked(measured, s, known[s]).outcome \in Terminal
  BY <1>1, <1>2, WalkedType
<1>4. Resolved(record, s) =
        IF record.entered = 0 \/ known[s] = 0 THEN record
        ELSE IF record.outcome # None THEN measured ELSE Walked(measured, s, known[s])
  BY DEF Resolved, measured
<1> QED
  BY <1>2, <1>3, <1>4

-----------------------------------------------------------------------------
LEMMA TInvInit == Init => TInv
<1> SUFFICES ASSUME Init PROVE TInv
  OBVIOUS
<1>1. Absent \in Record
  BY DEF Absent, Record
<1>2. TypeOK
  BY <1>1 DEF Init, TypeOK, NoRows, NoMoves, NoCopy, Actor, Phase
<1>3. OnTape
  BY DEF Init, OnTape, NoRows
<1> QED
  BY <1>2, <1>3 DEF TInv

\* Each action keeps TInv.  What an action leaves alone needs no argument.
LEMMA TInvNext == TInv /\ [Next]_vars => TInv'
<1> SUFFICES ASSUME TInv, [Next]_vars PROVE TInv'
  OBVIOUS
<1> USE DEF TInv
<1>a. Absent \in Record
  BY DEF Absent, Record
<1>1. CASE NextBar
  <2>1. TypeOK'
    BY <1>1 DEF NextBar, TypeOK, signals, mine
  <2> QED
    BY <1>1, <2>1 DEF NextBar, OnTape, mine
<1>2. ASSUME NEW s \in Signal, Quote(s) PROVE TInv'
  <2>1. PICK snap \in Snapshot, priced \in BOOLEAN, at \in {now} \cup {tape[s][i].at : i \in DOMAIN tape[s]} :
          tape' = [tape EXCEPT ![s] = Append(@, [snap |-> snap, at |-> at, priced |-> priced])]
    BY <1>2 DEF Quote
  <2>2. at \in Nat \ {0}
    <3>1. \A i \in DOMAIN tape[s] : tape[s][i].at \in Nat \ {0}
      BY RowTime DEF TypeOK
    <3> QED
      BY <3>1 DEF TypeOK
  <2> DEFINE row == [snap |-> snap, at |-> at, priced |-> priced]
  <2>3. row \in Row
    BY <2>2 DEF Row
  <2> HIDE DEF row
  <2>4. /\ tape' \in [Signal -> Seq(Row)]
        /\ \A q \in Signal : Len(tape[q]) <= Len(tape'[q])
    BY <2>1, <2>3 DEF TypeOK, row
  <2>5. TypeOK'
    BY <1>2, <2>4 DEF Quote, TypeOK, signals, mine
  <2>6. \A q \in Signal : Len(tape[q]) \in Nat /\ Len(tape'[q]) \in Nat
    BY <2>4 DEF TypeOK
  <2>7. OnTape'
    BY <1>2, <2>4, <2>6 DEF Quote, OnTape, mine, TypeOK
  <2> QED
    BY <2>5, <2>7
<1>3. CASE CloseDay
  <2>1. now' \in Nat \ {0}
    <3>1. Today + 1 \in Nat \ {0}
      BY SessionNat DEF Today, TypeOK
    <3> QED
      BY <1>3, <3>1, Midnight DEF CloseDay
  <2>2. daily' \in [Signal -> Seq(DailyBar)]
    BY <1>3 DEF CloseDay, TypeOK
  <2>3. TypeOK'
    BY <1>3, <2>1, <2>2 DEF CloseDay, TypeOK, signals, mine
  <2> QED
    BY <1>3, <2>3 DEF CloseDay, OnTape, mine
<1>4. ASSUME NEW w \in Worker, Poll(w) PROVE TInv'
  <2>1. PICK received \in SUBSET Signal :
          batch' = [batch EXCEPT ![w] =
                     [s \in Signal |-> IF s \in received THEN Len(tape[s]) ELSE 0]]
    BY <1>4 DEF Poll
  <2>2. \A s \in Signal : Len(tape[s]) \in Nat
    BY DEF TypeOK
  <2>3. batch' \in [Worker -> [Signal -> Nat]]
    BY <2>1, <2>2 DEF TypeOK
  <2>4. TypeOK'
    BY <1>4, <2>3 DEF Poll, TypeOK, market, signals, Phase
  <2>5. \A v \in Worker, s \in Signal : batch'[v][s] <= Len(tape[s])
    BY <2>1, <2>2 DEF TypeOK, OnTape
  <2> QED
    BY <1>4, <2>4, <2>5 DEF Poll, OnTape, market
<1>5. ASSUME NEW w \in Worker, Reduce(w) PROVE TInv'
  <2>1. engine' \in [Signal -> CandidateState \cup {New}]
    BY <1>5, ReducedType DEF Reduce
  <2>2. seen' \in [Signal -> SUBSET Nat]
    BY <1>5 DEF Reduce, TypeOK
  <2>3. moves' \in [Worker -> [Signal -> CandidateState \cup {None}]]
    BY <1>5, ReducedType DEF Reduce, TypeOK
  <2>4. TypeOK'
    BY <1>5, <2>1, <2>2, <2>3 DEF Reduce, TypeOK, market, Phase
  <2> QED
    BY <1>5, <2>4 DEF Reduce, OnTape, market
<1>6. ASSUME NEW a \in Actor, Rest(a), ledger' \in [Signal -> Record] PROVE TInv'
  <2>1. /\ phase' \in [Actor -> Phase]
        /\ batch' \in [Worker -> [Signal -> Nat]]
        /\ moves' \in [Worker -> [Signal -> CandidateState \cup {None}]]
        /\ known' \in [Signal -> Nat]
        /\ copy' \in [Actor -> [Signal -> Record]]
    BY <1>a, <1>6 DEF Rest, TypeOK, Phase, NoRows, NoMoves, NoCopy
  <2>2. TypeOK'
    BY <1>6, <2>1 DEF Rest, TypeOK, market, signals
  <2>3. OnTape'
    BY <1>6 DEF Rest, OnTape, market, NoRows, TypeOK
  <2> QED
    BY <2>2, <2>3
<1>7. ASSUME NEW w \in Worker, SaveObserved(w) PROVE TInv'
  <2>1. w \in Actor /\ \A s \in Signal : copy[w][s] \in Record
    BY DEF Actor, TypeOK
  <2>2. ledger' \in [Signal -> Record]
    BY <1>7, <2>1, ObservedType DEF SaveObserved
  <2> QED
    BY <1>6, <1>7, <2>1, <2>2 DEF SaveObserved
<1>8. CASE Collect
  <2>1. known' \in [Signal -> Nat]
    BY <1>8 DEF Collect, TypeOK
  <2>2. TypeOK'
    BY <1>8, <2>1 DEF Collect, TypeOK, market, signals, Phase
  <2> QED
    BY <1>8, <2>2 DEF Collect, OnTape, market
<1>9. CASE SaveResolved
  <2>1. Resolver \in Actor /\ \A s \in Signal : copy[Resolver][s] \in Record
    BY DEF Actor, TypeOK
  <2>2. ledger' \in [Signal -> Record]
    BY <1>9, <2>1, ResolvedType DEF SaveResolved
  <2> QED
    BY <1>6, <1>9, <2>1, <2>2 DEF SaveResolved
<1>10. ASSUME NEW a \in Actor, Load(a) PROVE TInv'
  <2>1. TypeOK'
    BY <1>10 DEF Load, TypeOK, market, signals, Phase
  <2> QED
    BY <1>10, <2>1 DEF Load, OnTape, market
<1>11. ASSUME NEW a \in Actor, Abandon(a) PROVE TInv'
  BY <1>6, <1>11 DEF Abandon, TypeOK
<1>12. CASE UNCHANGED vars
  BY <1>12 DEF vars, market, signals, mine, TypeOK, OnTape
<1> QED
  BY <1>1, <1>2, <1>3, <1>4, <1>5, <1>7, <1>8, <1>9, <1>10, <1>11, <1>12 DEF Next

(***************************************************************************)
(* The ledger and everything around it keep their types: an outcome is a    *)
(* final state, an entry and an ending are times, the evidence names rows   *)
(* and days.                                                                *)
(***************************************************************************)
THEOREM TypeCorrect == Spec => []TypeOK
<1>1. TInv => TypeOK
  BY DEF TInv
<1> QED
  BY TInvInit, TInvNext, <1>1, PTL DEF Spec

-----------------------------------------------------------------------------
(***************************************************************************)
(* The strengthening behind the abstract book, for runs that follow one     *)
(* another.  One actor is at work, so the copy it loaded is the document;   *)
(* a pending transition leads to the engine's state; a trade that was       *)
(* closed without an entry is final in the engine, so that no later entry   *)
(* is coming for it -- this is what carries the ledger's finality over from *)
(* the engine's, although they are separate documents.                      *)
(***************************************************************************)
Alone == \A a, b \in Actor : phase[a] # "idle" /\ phase[b] # "idle" => a = b

Fresh == \A a \in Actor : phase[a] = "loaded" => copy[a] = ledger

AtRest ==
  \A w \in Worker : phase[w] \in {"idle", "polled"} => \A s \in Signal : moves[w][s] = None

Decided == \A w \in Worker, s \in Signal : moves[w][s] \in {None, engine[s]}

Booked == \A s \in Signal : ledger[s].outcome = None <=> ledger[s].closed = 0

Sealed ==
  \A s \in Signal :
    (ledger[s].outcome # None /\ ledger[s].entered = 0) =>
      engine[s] \in Terminal /\ \A w \in Worker : moves[w][s] = None

BookInv == TInv /\ Alone /\ Fresh /\ AtRest /\ Decided /\ Booked /\ Sealed

LEMMA StateNames ==
  /\ None \notin CandidateState \cup {New}
  /\ None \notin Entry /\ None \notin Terminal
  /\ Entry \subseteq CandidateState /\ Terminal \subseteq CandidateState
BY DEF None, New, CandidateState, Entry, Terminal

LEMMA BookInit == Init => BookInv
<1> SUFFICES ASSUME Init PROVE BookInv
  OBVIOUS
<1>1. TInv
  BY TInvInit
<1>2. Alone /\ Fresh
  BY DEF Init, Alone, Fresh
<1>3. AtRest /\ Decided
  BY DEF Init, AtRest, Decided, NoMoves
<1>4. Booked /\ Sealed
  BY DEF Init, Booked, Sealed, Absent
<1> QED
  BY <1>1, <1>2, <1>3, <1>4 DEF BookInv

\* A save of a cycle, when the cycle is alone: each trade follows the book.
LEMMA SaveObservedFollows ==
  ASSUME BookInv, NEW w \in Worker, SaveObserved(w), NEW s \in Signal
  PROVE  /\ ledger'[s].outcome = None <=> ledger'[s].closed = 0
         /\ ledger'[s].outcome \in Terminal \cup {None}
         /\ (ledger'[s].outcome # None /\ ledger'[s].entered = 0) => engine[s] \in Terminal
         /\ ledger[s].entered # 0 => ledger'[s].entered = ledger[s].entered
         /\ ledger[s].outcome # None => /\ ledger'[s].entered = ledger[s].entered
                                        /\ ledger'[s].outcome = ledger[s].outcome
<1> DEFINE old == ledger[s]
           new == Observed(w, s, old)
<1>1. old \in Record
  BY DEF BookInv, TInv, TypeOK
<1>2. w \in Actor /\ copy[w] = ledger
  BY DEF BookInv, Fresh, SaveObserved, Actor
<1>3. ledger'[s] = new
  BY <1>2 DEF SaveObserved
<1>4. /\ old.entered # 0 => new.entered = old.entered
      /\ new.entered # old.entered => moves[w][s] \in Entry
      /\ old.closed # 0 => new.closed = old.closed /\ new.outcome = old.outcome
      /\ old.closed = 0 =>
           \/ moves[w][s] \in Terminal /\ new.closed # 0 /\ new.outcome = moves[w][s]
           \/ new.closed = 0 /\ new.outcome = old.outcome
  BY <1>1, ObservedType DEF BookInv
<1>5. old.outcome = None <=> old.closed = 0
  BY DEF BookInv, Booked
<1>6. old.outcome # None /\ old.entered = 0 => engine[s] \in Terminal /\ moves[w][s] = None
  BY DEF BookInv, Sealed
<1>7. moves[w][s] \in {None, engine[s]}
  BY DEF BookInv, Decided
<1>8. old.outcome \in Terminal \cup {None}
  BY <1>1 DEF Record
<1> HIDE DEF new, old
<1>9. /\ new.outcome = None <=> new.closed = 0
      /\ new.outcome \in Terminal \cup {None}
  BY <1>4, <1>5, <1>8, StateNames
<1>10. (new.outcome # None /\ new.entered = 0) => engine[s] \in Terminal
  BY <1>4, <1>5, <1>6, <1>7, StateNames
<1>11. old.outcome # None => new.entered = old.entered /\ new.outcome = old.outcome
  BY <1>4, <1>5, <1>6, StateNames
<1> QED
  BY <1>3, <1>4, <1>9, <1>10, <1>11 DEF old

\* A save of the resolver: it closes trades that were entered, and no others.
LEMMA SaveResolvedFollows ==
  ASSUME BookInv, SaveResolved, NEW s \in Signal
  PROVE  /\ ledger'[s].outcome = None <=> ledger'[s].closed = 0
         /\ ledger'[s].outcome \in Terminal \cup {None}
         /\ ledger'[s].entered = ledger[s].entered
         /\ (ledger'[s].outcome # None /\ ledger'[s].entered = 0) => ledger[s].outcome # None
         /\ ledger[s].outcome # None => ledger'[s].outcome = ledger[s].outcome
<1> DEFINE old == ledger[s]
           new == Resolved(old, s)
<1>1. old \in Record
  BY DEF BookInv, TInv, TypeOK
<1>2. copy[Resolver] = ledger
  BY DEF BookInv, Fresh, SaveResolved, Actor
<1>3. ledger'[s] = new
  BY <1>2 DEF SaveResolved
<1>4. /\ new.entered = old.entered
      /\ \/ new.closed = old.closed /\ new.outcome = old.outcome
         \/ /\ old.entered # 0 /\ old.outcome = None
            /\ new.closed # 0 /\ new.outcome \in Terminal
  BY <1>1, ResolvedType DEF BookInv, TInv
<1>5. old.outcome = None <=> old.closed = 0
  BY DEF BookInv, Booked
<1>6. old.outcome \in Terminal \cup {None}
  BY <1>1 DEF Record
<1> HIDE DEF new, old
<1> QED
  BY <1>3, <1>4, <1>5, <1>6, StateNames DEF old

LEMMA BookNext ==
  ASSUME Serial
  PROVE  BookInv /\ [Next]_vars => BookInv'
<1> SUFFICES ASSUME BookInv, [Next]_vars PROVE BookInv'
  OBVIOUS
<1> USE DEF BookInv
<1>0. TInv'
  BY TInvNext
<1>a. ASSUME UNCHANGED <<signals, ledger, mine>> PROVE BookInv'
  BY <1>0, <1>a DEF signals, mine, Alone, Fresh, AtRest, Decided, Booked, Sealed
<1>1. CASE NextBar
  BY <1>1, <1>a DEF NextBar
<1>2. ASSUME NEW s \in Signal, Quote(s) PROVE BookInv'
  BY <1>2, <1>a DEF Quote
<1>3. CASE CloseDay
  BY <1>3, <1>a DEF CloseDay
<1>b. \A a \in Actor : MayStart(a) => \A b \in Actor : phase[b] = "idle"
  BY DEF MayStart
<1>c. Worker \subseteq Actor /\ Resolver \in Actor /\ phase \in [Actor -> Phase]
  BY DEF Actor, TInv, TypeOK
<1>4. ASSUME NEW w \in Worker, Poll(w) PROVE BookInv'
  <2>1. \A b \in Actor : phase[b] = "idle"
    BY <1>4, <1>b, <1>c DEF Poll
  <2>2. Alone' /\ Fresh'
    BY <1>4, <1>c, <2>1 DEF Poll, Alone, Fresh
  <2>3. AtRest'
    BY <1>4, <1>c, <2>1 DEF Poll, AtRest
  <2>4. Decided' /\ Booked' /\ Sealed'
    BY <1>4 DEF Poll, signals, Decided, Booked, Sealed
  <2> QED
    BY <1>0, <2>2, <2>3, <2>4
<1>5. ASSUME NEW w \in Worker, Reduce(w) PROVE BookInv'
  <2>1. /\ phase[w] = "polled"
        /\ phase' = [phase EXCEPT ![w] = "reduced"]
        /\ engine' = [s \in Signal |-> Reduced(w, s)]
        /\ moves' = [moves EXCEPT ![w] = [s \in Signal |->
                       IF Reduced(w, s) # engine[s] THEN Reduced(w, s) ELSE None]]
        /\ UNCHANGED <<ledger, copy>>
    BY <1>5 DEF Reduce
  <2>2. \A v \in Worker : v # w => phase[v] = "idle"
    BY <1>c, <2>1 DEF Alone
  <2>3. \A v \in Worker, s \in Signal : v # w => moves[v][s] = None
    BY <2>2 DEF AtRest
  <2>4. moves \in [Worker -> [Signal -> CandidateState \cup {None}]]
    BY DEF TInv, TypeOK
  <2>5. \A v \in Worker, s \in Signal :
          moves'[v][s] = IF v = w /\ Reduced(w, s) # engine[s] THEN Reduced(w, s) ELSE None
    BY <2>1, <2>3, <2>4
  <2>6. Alone' /\ Fresh'
    BY <1>c, <2>1 DEF Alone, Fresh
  <2>7. AtRest'
    BY <1>c, <2>1, <2>3, <2>5 DEF AtRest
  <2>8. Decided' /\ Booked'
    BY <2>1, <2>5 DEF Decided, Booked
  <2>9. \A s \in Signal : engine[s] \in Terminal => Reduced(w, s) = engine[s]
    BY ReducedType DEF TInv
  <2>10. Sealed'
    BY <2>1, <2>5, <2>9 DEF Sealed
  <2> QED
    BY <1>0, <2>6, <2>7, <2>8, <2>10
<1>6. ASSUME NEW a \in Actor, Rest(a), phase[a] # "idle",
             \A s \in Signal :
               /\ ledger'[s].outcome = None <=> ledger'[s].closed = 0
               /\ (ledger'[s].outcome # None /\ ledger'[s].entered = 0) => engine[s] \in Terminal
      PROVE  BookInv'
  <2>1. /\ \A b \in Actor : phase'[b] = "idle"
        /\ \A b \in Worker : b # a => phase[b] = "idle"
    BY <1>6, <1>c DEF Rest, Alone
  <2>2. \A v \in Worker, s \in Signal : moves'[v][s] = None
    BY <1>6, <2>1 DEF Rest, NoMoves, AtRest
  <2>3. engine' = engine
    BY <1>6 DEF Rest, signals
  <2>4. Alone' /\ Fresh' /\ AtRest' /\ Decided'
    BY <2>1, <2>2 DEF Alone, Fresh, AtRest, Decided
  <2>5. Booked' /\ Sealed'
    BY <1>6, <2>2, <2>3 DEF Booked, Sealed
  <2> QED
    BY <1>0, <2>4, <2>5
<1>7. ASSUME NEW w \in Worker, SaveObserved(w) PROVE BookInv'
  <2>1. w \in Actor /\ phase[w] # "idle" /\ Rest(w)
    BY <1>7, <1>c DEF SaveObserved
  <2> QED
    BY <1>6, <1>7, <2>1, SaveObservedFollows
<1>8. CASE Collect
  <2>1. \A b \in Actor : phase[b] = "idle"
    BY <1>8, <1>b, <1>c DEF Collect
  <2>2. Alone' /\ Fresh'
    BY <1>8, <1>c, <2>1 DEF Collect, Alone, Fresh
  <2>3. AtRest'
    BY <1>8, <1>c, <2>1 DEF Collect, AtRest
  <2>4. Decided' /\ Booked' /\ Sealed'
    BY <1>8 DEF Collect, signals, Decided, Booked, Sealed
  <2> QED
    BY <1>0, <2>2, <2>3, <2>4
<1>9. CASE SaveResolved
  <2>1. Resolver \in Actor /\ phase[Resolver] # "idle" /\ Rest(Resolver)
    BY <1>9, <1>c DEF SaveResolved
  <2>2. \A s \in Signal :
          /\ ledger'[s].outcome = None <=> ledger'[s].closed = 0
          /\ (ledger'[s].outcome # None /\ ledger'[s].entered = 0) => engine[s] \in Terminal
    BY <1>9, SaveResolvedFollows DEF Sealed
  <2> QED
    BY <1>6, <2>1, <2>2
<1>10. ASSUME NEW a \in Actor, Load(a) PROVE BookInv'
  <2>1. /\ phase[a] \in {"reduced", "collected"}
        /\ phase' = [phase EXCEPT ![a] = "loaded"]
        /\ copy' = [copy EXCEPT ![a] = ledger]
        /\ UNCHANGED <<signals, ledger, moves>>
    BY <1>10 DEF Load
  <2>2. copy \in [Actor -> [Signal -> Record]]
    BY DEF TInv, TypeOK
  <2>3. Alone'
    BY <1>c, <2>1 DEF Alone
  <2>4. Fresh'
    BY <1>c, <2>1, <2>2 DEF Alone, Fresh
  <2>5. AtRest' /\ Decided' /\ Booked' /\ Sealed'
    BY <1>c, <2>1 DEF signals, AtRest, Decided, Booked, Sealed
  <2> QED
    BY <1>0, <2>3, <2>4, <2>5
<1>11. ASSUME NEW a \in Actor, Abandon(a) PROVE BookInv'
  <2>1. phase[a] # "idle" /\ Rest(a) /\ ledger' = ledger
    BY <1>11 DEF Abandon
  <2>2. \A s \in Signal :
          /\ ledger'[s].outcome = None <=> ledger'[s].closed = 0
          /\ (ledger'[s].outcome # None /\ ledger'[s].entered = 0) => engine[s] \in Terminal
    BY <2>1 DEF Booked, Sealed
  <2> QED
    BY <1>6, <2>1, <2>2
<1>12. CASE UNCHANGED vars
  BY <1>12, <1>a DEF vars
<1> QED
  BY <1>1, <1>2, <1>3, <1>4, <1>5, <1>7, <1>8, <1>9, <1>10, <1>11, <1>12 DEF Next

\* Every step is a step of the abstract book or leaves it alone.
LEMMA BookStep == BookInv /\ [Next]_vars => [Book!Next]_Trades
<1> SUFFICES ASSUME BookInv, [Next]_vars PROVE Book!Next \/ UNCHANGED Trades
  OBVIOUS
<1>a. ASSUME UNCHANGED ledger PROVE UNCHANGED Trades
  BY <1>a DEF Trades
<1>b. ASSUME \A s \in Signal :
               /\ ledger'[s].outcome \in Terminal \cup {None}
               /\ ledger[s].entered # 0 => ledger'[s].entered = ledger[s].entered
               /\ ledger[s].outcome # None => /\ ledger'[s].entered = ledger[s].entered
                                              /\ ledger'[s].outcome = ledger[s].outcome
      PROVE  Book!Next
  <2> SUFFICES ASSUME NEW s \in Signal PROVE Book!Follows(Trades[s], Trades'[s])
    BY DEF Book!Next
  <2>1. /\ Trades[s] = [entered |-> ledger[s].entered, outcome |-> ledger[s].outcome]
        /\ Trades'[s] = [entered |-> ledger'[s].entered, outcome |-> ledger'[s].outcome]
    BY DEF Trades
  <2> QED
    BY <1>b, <2>1 DEF Book!Follows, Book!Open
<1>1. CASE \E w \in Worker : SaveObserved(w)
  BY <1>1, <1>b, SaveObservedFollows
<1>2. CASE SaveResolved
  BY <1>2, <1>b, SaveResolvedFollows
<1>3. CASE ~(\E w \in Worker : SaveObserved(w)) /\ ~SaveResolved
  <2>1. UNCHANGED ledger
    BY <1>3 DEF Next, NextBar, Quote, CloseDay, Poll, Reduce, Collect, Load, Abandon, vars
  <2> QED
    BY <2>1, <1>a
<1> QED
  BY <1>1, <1>2, <1>3

(***************************************************************************)
(* When runs follow one another, the ledger keeps the promise of the        *)
(* abstract book, whatever is interrupted: entries stay as they were        *)
(* booked, and closed trades are never reopened or closed again.            *)
(***************************************************************************)
THEOREM BookKept ==
  ASSUME Serial
  PROVE  Spec => BookSpec
<1>1. Init => Book!Init
  BY DEF Init, Book!Init, Book!Blank, Trades, Absent
<1>2. Spec => []BookInv
  BY BookInit, BookNext, PTL DEF Spec
<1>3. BookInv /\ [Next]_vars => [Book!Next]_Trades
  BY BookStep
<1> QED
  BY <1>1, <1>2, <1>3, PTL DEF Spec, BookSpec, Book!Spec
-----------------------------------------------------------------------------
(* Days and slots.                                                          *)

LEMMA SlotOfDay ==
  \A t \in Nat : /\ Session(t) \in Nat /\ t % Slots \in 0 .. Slots - 1
                 /\ t = Session(t) * Slots + (t % Slots)
BY DEF Session

LEMMA DayOf ==
  ASSUME NEW t \in Nat, NEW d \in Nat, NEW i \in Nat, i < Slots, t = d * Slots + i
  PROVE  Session(t) = d
<1>1. t \div Slots = d
  OBVIOUS
<1> QED
  BY <1>1, Zenon DEF Session

LEMMA SessionOfMidnight == \A d \in Nat : Session(d * Slots) = d
<1> SUFFICES ASSUME NEW d \in Nat PROVE Session(d * Slots) = d
  OBVIOUS
<1> DEFINE t == d * Slots
<1>1. t \in Nat /\ t = d * Slots + 0 /\ 0 < Slots
  OBVIOUS
<1> HIDE DEF t
<1>2. Session(t) = d
  BY <1>1, DayOf
<1> QED
  BY <1>2 DEF t

LEMMA SameSession ==
  ASSUME NEW t \in Nat, t % Slots < Slots - 1
  PROVE  Session(t + 1) = Session(t)
<1> DEFINE d == Session(t)
           m == t % Slots
<1>1. d \in Nat /\ m \in 0 .. Slots - 1 /\ t = d * Slots + m
  BY SlotOfDay
<1>2. m < Slots - 1 /\ d * Slots \in Nat
  BY <1>1
<1> HIDE DEF d, m
<1>3. t + 1 \in Nat /\ m + 1 \in Nat /\ m + 1 < Slots /\ t + 1 = d * Slots + (m + 1)
  BY <1>1, <1>2
<1>4. Session(t + 1) = d
  BY <1>1, <1>3, DayOf
<1> QED
  BY <1>4 DEF d

-----------------------------------------------------------------------------
(***************************************************************************)
(* What a record may rest on.  An open trade's counted days are quiet up to *)
(* each of them: that is why no later resolution can find an earlier exit,  *)
(* and why the days before an exit were quiet.                              *)
(***************************************************************************)
Unentered(r) == r.entered = 0 => r.path = {} /\ r.returns = {}

ReturnsPast(s, r) == \A h \in r.returns : Session(r.entered) + h <= Len(daily[s])

RowsOf(s, r) ==
  \A item \in r.path :
    item[1] \in {"close", "range"} =>
      /\ item[2] \in 1 .. Len(tape[s])
      /\ item[1] = "close" => tape[s][item[2]].at = r.entered
      /\ item[1] = "range" => tape[s][item[2]].at > r.entered

QuietTo(s, r, d) == \A e \in Session(r.entered) + 1 .. d : daily[s][e] = "quiet"

DaysOf(s, r) ==
  \A item \in r.path :
    item[1] = "day" =>
      /\ Session(r.entered) < item[2] /\ item[2] <= Session(r.entered) + Window
      /\ item[2] <= Len(daily[s])
      /\ r.closed # 0 => item[2] < Session(r.closed)
      /\ r.closed = 0 => QuietTo(s, r, item[2])

ExitOf(r) == \A item \in r.path : item[1] = "exit" => r.closed # 0 /\ item[2] = Session(r.closed)

TouchedAt(s, r, exit) ==
  /\ r.entered # 0
  /\ Session(r.entered) < exit /\ exit <= Session(r.entered) + Window /\ exit <= Len(daily[s])
  /\ QuietTo(s, r, exit - 1)
  /\ daily[s][exit] = "target" <=> r.outcome = "TARGET_HIT"
  /\ daily[s][exit] \in {"stop", "both"} <=> r.outcome = "INVALIDATED"

Touched(s, r) == r.closed # 0 /\ r.closed % Slots = 0 => TouchedAt(s, r, Session(r.closed))

Honest(s, r) ==
  Unentered(r) /\ ReturnsPast(s, r) /\ RowsOf(s, r) /\ DaysOf(s, r) /\ ExitOf(r) /\ Touched(s, r)

AllHonest == \A s \in Signal : Honest(s, ledger[s])

DaysClosed == \A s \in Signal : Len(daily[s]) + 1 = Today

RowTimes == \A s \in Signal : \A i \in 1 .. Len(tape[s]) : tape[s][i].at % Slots # 0

KnownPast == \A s \in Signal : known[s] <= Len(daily[s])

\* Only a live row enters or ends a trade ...
MovesLive ==
  \A w \in Worker, s \in Signal :
    moves[w][s] \in Entry \cup Terminal => batch[w][s] # 0 /\ tape[s][batch[w][s]].snap.live

\* ... and a live row was polled in a session of which no daily bar has counted.
BatchLater ==
  \A w \in Worker, s \in Signal :
    (phase[w] # "idle" /\ batch[w][s] # 0 /\ tape[s][batch[w][s]].snap.live) =>
      \A item \in ledger[s].path : item[1] = "day" => item[2] < Session(tape[s][batch[w][s]].at)

EvidenceInv ==
  BookInv /\ AllHonest /\ DaysClosed /\ RowTimes /\ KnownPast /\ MovesLive /\ BatchLater

-----------------------------------------------------------------------------
(* A cycle keeps a record honest.                                           *)

LEMMA MovedIs ==
  ASSUME NEW r \in Record, NEW to, NEW at
  PROVE  LET new == Moved(r, to, at)
         IN  /\ new.path = r.path /\ new.returns = r.returns
             /\ \/ new.entered = r.entered
                \/ r.entered = 0 /\ new.entered = at
             /\ \/ new.closed = r.closed /\ new.outcome = r.outcome
                \/ r.closed = 0 /\ new.closed = at /\ to \in Terminal
BY DEF Moved, Closed, Entered, Record

LEMMA MovedHonest ==
  ASSUME TInv, NEW s \in Signal, NEW r \in Record, Honest(s, r),
         NEW to \in CandidateState \cup {None}, NEW at \in Nat \ {0}, at % Slots # 0,
         to \in Terminal => \A item \in r.path : item[1] = "day" => item[2] < Session(at)
  PROVE  Honest(s, Moved(r, to, at))
<1> DEFINE new == Moved(r, to, at)
<1>1. /\ new.path = r.path /\ new.returns = r.returns
      /\ \/ new.entered = r.entered
         \/ r.entered = 0 /\ new.entered = at
      /\ \/ new.closed = r.closed /\ new.outcome = r.outcome
         \/ r.closed = 0 /\ new.closed = at /\ to \in Terminal
  BY MovedIs
<1> HIDE DEF new
<1>2. new.entered = r.entered \/ (r.path = {} /\ r.returns = {})
  BY <1>1 DEF Honest, Unentered
<1>3. Unentered(new) /\ ReturnsPast(s, new) /\ RowsOf(s, new)
  BY <1>1, <1>2 DEF Honest, Unentered, ReturnsPast, RowsOf
<1>4. DaysOf(s, new)
  <2>1. CASE r.path = {}
    BY <1>1, <2>1 DEF DaysOf
  <2>2. CASE new.entered = r.entered /\ new.closed = r.closed
    BY <1>1, <2>2 DEF Honest, DaysOf, QuietTo
  <2>3. CASE new.entered = r.entered /\ new.closed = at /\ to \in Terminal
    BY <1>1, <2>3 DEF Honest, DaysOf
  <2> QED
    BY <1>1, <1>2, <2>1, <2>2, <2>3
<1>5. ExitOf(new)
  BY <1>1 DEF Honest, ExitOf
<1>6. Touched(s, new)
  <2>1. CASE new.closed = at
    BY <2>1 DEF Touched
  <2>2. CASE new.closed = r.closed /\ new.outcome = r.outcome
    <3> SUFFICES ASSUME r.closed # 0, r.closed % Slots = 0
                 PROVE  TouchedAt(s, new, Session(new.closed))
      BY <2>2 DEF Touched
    <3>1. TouchedAt(s, r, Session(r.closed))
      BY DEF Honest, Touched
    <3>2. new.entered = r.entered
      BY <1>1, <3>1 DEF TouchedAt
    <3> QED
      BY <2>2, <3>1, <3>2 DEF TouchedAt, QuietTo
  <2> QED
    BY <1>1, <2>1, <2>2
<1>7. Honest(s, new)
  BY <1>3, <1>4, <1>5, <1>6 DEF Honest
<1> QED
  BY <1>7 DEF new

LEMMA SampledHonest ==
  ASSUME TInv, NEW s \in Signal, NEW r \in Record, Honest(s, r), NEW n \in 1 .. Len(tape[s])
  PROVE  Honest(s, Sampled(r, tape[s][n], n))
<1> DEFINE row == tape[s][n]
           item == Sample(r, row, n)
           new == Sampled(r, row, n)
<1>1. CASE new = r
  BY <1>1
<1>2. CASE new # r
  <2>1. /\ new = [r EXCEPT !.path = @ \cup {item}]
        /\ r.entered # 0 /\ row.at >= r.entered
    BY <1>2 DEF Sampled
  <2>2. /\ item[2] = n
        /\ \/ item[1] = "close" /\ row.at = r.entered
           \/ item[1] = "range" /\ row.at # r.entered
    BY DEF Sample
  <2>3. row.at \in Nat /\ r.entered \in Nat
    BY RowTime DEF TInv, Record
  <2>4. /\ new.path = r.path \cup {item}
        /\ new.entered = r.entered /\ new.closed = r.closed /\ new.outcome = r.outcome
        /\ new.returns = r.returns
    BY <2>1 DEF Record
  <2>5. item[1] = "range" => row.at > r.entered
    BY <2>1, <2>2, <2>3
  <2> HIDE DEF item, new
  <2>6. Unentered(new) /\ ReturnsPast(s, new) /\ Touched(s, new)
    BY <2>1, <2>4 DEF Honest, Unentered, ReturnsPast, Touched, TouchedAt, QuietTo
  <2>7. RowsOf(s, new)
    BY <2>2, <2>4, <2>5 DEF Honest, RowsOf
  <2>8. DaysOf(s, new) /\ ExitOf(new)
    BY <2>2, <2>4 DEF Honest, DaysOf, ExitOf, QuietTo
  <2>9. Honest(s, new)
    BY <2>6, <2>7, <2>8 DEF Honest
  <2> QED
    BY <2>9 DEF new
<1> QED
  BY <1>1, <1>2

LEMMA ObservedHonest ==
  ASSUME EvidenceInv, NEW w \in Worker, phase[w] # "idle", NEW s \in Signal
  PROVE  Honest(s, Observed(w, s, ledger[s]))
<1>0. TInv
  BY DEF EvidenceInv, BookInv
<1>1. ledger[s] \in Record /\ Honest(s, ledger[s])
  BY <1>0 DEF EvidenceInv, AllHonest, TInv, TypeOK
<1>2. CASE batch[w][s] = 0
  BY <1>1, <1>2 DEF Observed
<1>3. CASE batch[w][s] # 0
  <2> DEFINE n == batch[w][s]
             row == tape[s][n]
             to == moves[w][s]
             opened == Opened(ledger[s])
             moved == Moved(opened, to, row.at)
  <2>1. n \in 1 .. Len(tape[s])
    BY <1>0, <1>3 DEF TInv, TypeOK, OnTape
  <2>2. row.at \in Nat \ {0} /\ row.at % Slots # 0
    BY <1>0, <2>1, RowTime DEF TInv, EvidenceInv, RowTimes
  <2>3. to \in CandidateState \cup {None}
    BY <1>0 DEF TInv, TypeOK
  <2>4. to \in Terminal => \A item \in ledger[s].path : item[1] = "day" => item[2] < Session(row.at)
    BY <1>3 DEF EvidenceInv, MovesLive, BatchLater
  <2>5. /\ opened \in Record /\ opened.entered = ledger[s].entered
        /\ opened.closed = ledger[s].closed /\ opened.outcome = ledger[s].outcome
        /\ opened.path = ledger[s].path /\ opened.returns = ledger[s].returns
    BY <1>1, OpenedType DEF Opened, Record
  <2> HIDE DEF opened
  <2>6. Honest(s, opened)
    BY <1>1, <2>5 DEF Honest, Unentered, ReturnsPast, RowsOf, DaysOf, ExitOf, Touched, TouchedAt,
       QuietTo
  <2>7. Honest(s, moved) /\ moved \in Record
    BY <1>0, <2>2, <2>3, <2>4, <2>5, <2>6, MovedHonest, MovedType
  <2>8. Observed(w, s, ledger[s]) = Sampled(moved, row, n)
    BY <1>3 DEF Observed, opened
  <2> HIDE DEF moved
  <2> QED
    BY <1>0, <2>1, <2>7, <2>8, SampledHonest
<1> QED
  BY <1>2, <1>3

-----------------------------------------------------------------------------
(* A resolution keeps a record honest.                                      *)

LEMMA FutureIs ==
  ASSUME NEW r \in Record, NEW n \in Nat
  PROVE  LET entry == Session(r.entered)
         IN  /\ entry \in Nat
             /\ Future(r, n) = (entry + 1) .. n
             /\ \A h \in Nat \ {0} : h <= Cardinality(Future(r, n)) => entry + h <= n
             /\ \A d : d \in InWindow(r, n) <=> d \in (entry + 1) .. n /\ d <= entry + Window
<1> DEFINE entry == Session(r.entered)
<1>1. entry \in Nat
  BY SlotOfDay DEF Record
<1> HIDE DEF entry
<1>2. Future(r, n) = {d \in 1 .. n : d > entry}
  BY DEF Future, entry
<1>3. Future(r, n) = (entry + 1) .. n
  BY <1>1, <1>2
<1>4. Cardinality((entry + 1) .. n) = IF entry + 1 > n THEN 0 ELSE n - (entry + 1) + 1
  BY <1>1, FS_Interval
<1>5. \A h \in Nat \ {0} : h <= Cardinality(Future(r, n)) => entry + h <= n
  BY <1>1, <1>3, <1>4
<1>6. \A d : d \in InWindow(r, n) <=> d \in (entry + 1) .. n /\ d <= entry + Window
  BY <1>3 DEF InWindow, entry
<1> QED
  BY <1>1, <1>3, <1>5, <1>6 DEF entry

LEMMA MeasuredHonest ==
  ASSUME TInv, NEW s \in Signal, NEW r \in Record, Honest(s, r), r.entered # 0,
         NEW n \in Nat, n <= Len(daily[s])
  PROVE  Honest(s, Measured(r, n))
<1> DEFINE available == Cardinality(Future(r, n))
           new == Measured(r, n)
           entry == Session(r.entered)
<1>1. /\ new.path = r.path /\ new.entered = r.entered
      /\ new.closed = r.closed /\ new.outcome = r.outcome
      /\ new.returns = r.returns \cup {h \in Horizons : h <= available}
  BY DEF Measured, Record
<1>2. entry \in Nat /\ \A h \in Nat \ {0} : h <= available => entry + h <= n
  BY FutureIs
<1>3. Len(daily[s]) \in Nat
  BY DEF TInv, TypeOK
<1> HIDE DEF available, new
<1>4. ReturnsPast(s, new)
  <2> SUFFICES ASSUME NEW h \in new.returns PROVE entry + h <= Len(daily[s])
    BY <1>1 DEF ReturnsPast
  <2>1. CASE h \in r.returns
    BY <2>1 DEF Honest, ReturnsPast
  <2>2. CASE h \in Horizons /\ h <= available
    <3>1. h \in Nat \ {0} /\ entry + h <= n
      BY <1>2, <2>2
    <3> QED
      BY <1>2, <1>3, <3>1
  <2> QED
    BY <1>1, <2>1, <2>2
<1>5. Honest(s, new)
  BY <1>1, <1>4 DEF Honest, Unentered, RowsOf, DaysOf, ExitOf, Touched, TouchedAt, QuietTo
<1> QED
  BY <1>5 DEF new

LEMMA WalkedHonest ==
  ASSUME TInv, NEW s \in Signal, NEW r \in Record, Honest(s, r), r.entered # 0, r.closed = 0,
         NEW n \in Nat, n <= Len(daily[s])
  PROVE  Honest(s, Walked(r, s, n))
<1> DEFINE entry == Session(r.entered)
           window == InWindow(r, n)
           touching == {d \in window : daily[s][d] # "quiet"}
           exit == Min(touching)
           new == Walked(r, s, n)
<1>1. /\ entry \in Nat
      /\ \A d : d \in window <=> d \in (entry + 1) .. n /\ d <= entry + Window
  BY FutureIs
<1>2. Len(daily[s]) \in Nat /\ \A d \in 1 .. Len(daily[s]) : daily[s][d] \in DailyBar
  BY DEF TInv, TypeOK
<1>3. window \in SUBSET Nat /\ \A d \in window : d \in 1 .. Len(daily[s])
  BY <1>1, <1>2
<1>4. CASE touching = {}
  <2> DEFINE days == {<<"day", d>> : d \in window}
  <2>1. /\ new.path = r.path \cup days /\ new.entered = r.entered /\ new.closed = 0
        /\ new.outcome = r.outcome /\ new.returns = r.returns
    BY <1>4 DEF Walked, Record
  <2>2. \A d \in window : daily[s][d] = "quiet"
    BY <1>4
  <2>3. \A item \in days : item[1] = "day" /\ item[2] \in window
    OBVIOUS
  <2> HIDE DEF days, new, window
  <2>4. \A d \in window : QuietTo(s, new, d)
    <3> SUFFICES ASSUME NEW d \in window, NEW e \in entry + 1 .. d PROVE daily[s][e] = "quiet"
      BY <2>1 DEF QuietTo
    <3>1. e \in window
      BY <1>1, <1>3
    <3> QED
      BY <2>2, <3>1
  <2>5. DaysOf(s, new)
    <3> SUFFICES ASSUME NEW item \in new.path, item[1] = "day"
                 PROVE  /\ entry < item[2] /\ item[2] <= entry + Window
                        /\ item[2] <= Len(daily[s])
                        /\ QuietTo(s, new, item[2])
      BY <2>1 DEF DaysOf
    <3>1. CASE item \in r.path
      BY <2>1, <3>1 DEF Honest, DaysOf, QuietTo
    <3>2. CASE item \in days
      BY <1>1, <1>3, <2>3, <2>4, <3>2
    <3> QED
      BY <2>1, <3>1, <3>2
  <2>6. RowsOf(s, new) /\ ExitOf(new)
    BY <2>1, <2>3 DEF Honest, RowsOf, ExitOf
  <2>7. Unentered(new) /\ ReturnsPast(s, new) /\ Touched(s, new)
    BY <2>1 DEF Honest, Unentered, ReturnsPast, Touched
  <2>8. Honest(s, new)
    BY <2>5, <2>6, <2>7 DEF Honest
  <2> QED
    BY <2>8 DEF new
<1>5. CASE touching # {}
  <2> DEFINE before == {<<"day", d>> : d \in {e \in window : e < exit}}
             outcome == DailyOutcome(daily[s][exit])
  <2>1. exit \in touching /\ \A d \in touching : exit <= d
    <3> DEFINE T == touching
    <3>1. T \in SUBSET Nat /\ T # {}
      BY <1>3, <1>5
    <3> HIDE DEF T
    <3>2. Min(T) \in T /\ \A d \in T : Min(T) <= d
      BY <3>1, FirstDay
    <3> QED
      BY <3>2 DEF T
  <2>2. /\ exit \in Nat \ {0} /\ entry < exit /\ exit <= entry + Window /\ exit \in 1 .. Len(daily[s])
        /\ daily[s][exit] # "quiet"
    BY <1>1, <1>3, <2>1
  <2>3. /\ new.path = r.path \cup (before \cup {<<"exit", exit>>}) /\ new.entered = r.entered
        /\ new.closed = exit * Slots
        /\ new.outcome = outcome /\ new.returns = r.returns
    BY <1>5 DEF Walked, Record
  <2>4. exit * Slots # 0 /\ Session(exit * Slots) = exit
    BY <2>2, Midnight, SessionOfMidnight
  <2>5. \A item \in before : item[1] = "day" /\ item[2] \in window /\ item[2] < exit
    OBVIOUS
  <2>6. \A d \in window : d < exit => daily[s][d] = "quiet"
    <3> SUFFICES ASSUME NEW d \in window, d < exit, daily[s][d] # "quiet" PROVE FALSE
      OBVIOUS
    <3>1. d \in touching
      OBVIOUS
    <3>2. exit <= d /\ d \in Nat
      BY <1>3, <2>1, <3>1
    <3> QED
      BY <2>2, <3>2
  <2> HIDE DEF before, new, window, exit, touching
  <2>7. Session(new.closed) = exit /\ new.closed # 0
    BY <2>3, <2>4
  <2>8. \A e \in entry + 1 .. exit - 1 : daily[s][e] = "quiet"
    <3> SUFFICES ASSUME NEW e \in entry + 1 .. exit - 1 PROVE e \in window /\ e < exit
      BY <2>6
    <3>1. exit \in window
      BY <2>1 DEF touching
    <3> QED
      BY <1>1, <2>2, <3>1
  <2>9. DaysOf(s, new)
    <3> SUFFICES ASSUME NEW item \in new.path, item[1] = "day"
                 PROVE  /\ entry < item[2] /\ item[2] <= entry + Window
                        /\ item[2] <= Len(daily[s])
                        /\ item[2] < exit
      BY <2>3, <2>7 DEF DaysOf
    <3>1. CASE item \in r.path
      <4>1. /\ entry < item[2] /\ item[2] <= entry + Window /\ item[2] <= Len(daily[s])
            /\ QuietTo(s, r, item[2])
        BY <3>1 DEF Honest, DaysOf
      <4>2. item[2] \in Nat
        BY <3>1 DEF Record, Evidence
      <4>3. ASSUME exit <= item[2] PROVE FALSE
        <5>1. exit \in entry + 1 .. item[2]
          BY <1>1, <2>2, <4>2, <4>3
        <5> QED
          BY <2>2, <4>1, <5>1 DEF QuietTo
      <4> QED
        BY <2>2, <4>1, <4>2, <4>3
    <3>2. CASE item \in before
      BY <1>1, <1>3, <2>5, <3>2
    <3>3. CASE item = <<"exit", exit>>
      BY <3>3
    <3> QED
      BY <2>3, <3>1, <3>2, <3>3
  <2>10. RowsOf(s, new)
    <3> SUFFICES ASSUME NEW item \in new.path, item[1] \in {"close", "range"} PROVE item \in r.path
      BY <2>3 DEF Honest, RowsOf
    <3> QED
      BY <2>3, <2>5
  <2>11. ExitOf(new)
    <3> SUFFICES ASSUME NEW item \in new.path, item[1] = "exit" PROVE item[2] = exit
      BY <2>7 DEF ExitOf
    <3>1. item \notin r.path
      BY DEF Honest, ExitOf
    <3> QED
      BY <2>3, <2>5, <3>1
  <2>12. Touched(s, new)
    <3> DEFINE bar == daily[s][exit]
    <3>1. bar \in {"stop", "target", "both"}
      BY <1>2, <2>2
    <3>2. outcome = IF bar = "target" THEN "TARGET_HIT" ELSE "INVALIDATED"
      BY DEF DailyOutcome
    <3> HIDE DEF bar, outcome
    <3>3. /\ bar = "target" <=> outcome = "TARGET_HIT"
          /\ bar \in {"stop", "both"} <=> outcome = "INVALIDATED"
      BY <3>1, <3>2
    <3>4. TouchedAt(s, new, exit)
      BY <2>2, <2>3, <2>8, <3>3 DEF TouchedAt, QuietTo, bar
    <3> QED
      BY <2>7, <3>4 DEF Touched
  <2>13. Unentered(new) /\ ReturnsPast(s, new)
    BY <2>3 DEF Honest, Unentered, ReturnsPast
  <2>14. Honest(s, new)
    BY <2>9, <2>10, <2>11, <2>12, <2>13 DEF Honest
  <2> QED
    BY <2>14 DEF new
<1> QED
  BY <1>4, <1>5

LEMMA ResolvedHonest ==
  ASSUME EvidenceInv, NEW s \in Signal
  PROVE  Honest(s, Resolved(ledger[s], s))
<1> DEFINE r == ledger[s]
           n == known[s]
           measured == Measured(r, n)
<1>1. TInv /\ r \in Record /\ Honest(s, r) /\ n \in Nat /\ n <= Len(daily[s])
  BY DEF EvidenceInv, BookInv, AllHonest, KnownPast, TInv, TypeOK
<1>2. r.outcome = None => r.closed = 0
  BY DEF EvidenceInv, BookInv, Booked
<1>3. /\ measured \in Record /\ measured.entered = r.entered
      /\ measured.closed = r.closed /\ measured.outcome = r.outcome
  BY <1>1, MeasuredType
<1>4. Resolved(r, s) = IF r.entered = 0 \/ n = 0 THEN r
                       ELSE IF r.outcome # None THEN measured ELSE Walked(measured, s, n)
  BY DEF Resolved
<1> HIDE DEF r, n
<1>5. r.entered # 0 => Honest(s, measured)
  BY <1>1, MeasuredHonest
<1> HIDE DEF measured
<1>6. r.entered # 0 /\ r.outcome = None => Honest(s, Walked(measured, s, n))
  BY <1>1, <1>2, <1>3, <1>5, WalkedHonest
<1>7. Honest(s, Resolved(r, s))
  BY <1>1, <1>4, <1>5, <1>6
<1> QED
  BY <1>7 DEF r

-----------------------------------------------------------------------------
(* The market only adds rows and closed days.                               *)

\* Rows and days that are known stay as they are.
Extends(old, new) ==
  \A s \in Signal : /\ Len(old[s]) <= Len(new[s])
                    /\ \A i \in 1 .. Len(old[s]) : new[s][i] = old[s][i]

LEMMA HonestStays ==
  ASSUME TInv, TypeOK', Extends(tape, tape'), Extends(daily, daily'), NEW s \in Signal,
         NEW r \in Record, Honest(s, r)
  PROVE  Honest(s, r)'
<1>1. /\ Len(tape[s]) \in Nat /\ Len(tape'[s]) \in Nat
      /\ Len(daily[s]) \in Nat /\ Len(daily'[s]) \in Nat
      /\ Session(r.entered) \in Nat /\ Session(r.closed) \in Nat
  <2>1. Len(tape[s]) \in Nat /\ Len(daily[s]) \in Nat
    BY DEF TInv, TypeOK
  <2>2. Len(tape'[s]) \in Nat /\ Len(daily'[s]) \in Nat
    BY DEF TypeOK
  <2>3. r.entered \in Nat /\ r.closed \in Nat
    BY DEF Record
  <2> QED
    BY <2>1, <2>2, <2>3, SlotOfDay
<1>2. /\ Len(tape[s]) <= Len(tape'[s]) /\ Len(daily[s]) <= Len(daily'[s])
      /\ \A i \in 1 .. Len(tape[s]) : tape'[s][i] = tape[s][i]
      /\ \A d \in 1 .. Len(daily[s]) : daily'[s][d] = daily[s][d]
  BY DEF Extends
<1>3. Unentered(r)' /\ ExitOf(r)'
  BY DEF Honest, Unentered, ExitOf
<1>4. ReturnsPast(s, r)'
  <2>1. \A h \in r.returns : h \in Nat /\ Session(r.entered) + h <= Len(daily[s])
    BY DEF Honest, ReturnsPast, Record
  <2> QED
    BY <1>1, <1>2, <2>1 DEF ReturnsPast
<1>5. RowsOf(s, r)'
  BY <1>1, <1>2 DEF Honest, RowsOf
<1>6. ASSUME NEW d \in Nat, d <= Len(daily[s]), QuietTo(s, r, d) PROVE QuietTo(s, r, d)'
  BY <1>1, <1>2, <1>6 DEF QuietTo
<1>7. DaysOf(s, r)'
  <2> SUFFICES ASSUME NEW item \in r.path, item[1] = "day"
               PROVE  /\ Session(r.entered) < item[2] /\ item[2] <= Session(r.entered) + Window
                      /\ item[2] <= Len(daily'[s])
                      /\ r.closed # 0 => item[2] < Session(r.closed)
                      /\ r.closed = 0 => QuietTo(s, r, item[2])'
    BY DEF DaysOf
  <2>1. item[2] \in Nat
    BY DEF Record, Evidence
  <2>2. /\ Session(r.entered) < item[2] /\ item[2] <= Session(r.entered) + Window
        /\ item[2] <= Len(daily[s])
        /\ r.closed # 0 => item[2] < Session(r.closed)
        /\ r.closed = 0 => QuietTo(s, r, item[2])
    BY DEF Honest, DaysOf
  <2> QED
    BY <1>1, <1>2, <1>6, <2>1, <2>2
<1>8. Touched(s, r)'
  <2> SUFFICES ASSUME r.closed # 0, r.closed % Slots = 0
               PROVE  TouchedAt(s, r, Session(r.closed))'
    BY DEF Touched
  <2> DEFINE exit == Session(r.closed)
  <2>1. TouchedAt(s, r, exit)
    BY DEF Honest, Touched
  <2>2. exit \in 1 .. Len(daily[s])
    BY <1>1, <2>1 DEF TouchedAt
  <2>3. daily'[s][exit] = daily[s][exit]
    BY <1>2, <2>2
  <2>4. exit - 1 \in Nat /\ exit - 1 <= Len(daily[s])
    BY <1>1, <2>2
  <2>5. QuietTo(s, r, exit - 1)'
    BY <1>6, <2>1, <2>4 DEF TouchedAt
  <2> HIDE DEF exit
  <2>6. exit <= Len(daily'[s])
    BY <1>1, <1>2, <2>2
  <2>7. TouchedAt(s, r, exit)'
    BY <2>1, <2>3, <2>5, <2>6 DEF TouchedAt
  <2> QED
    BY <2>7 DEF exit
<1> QED
  BY <1>3, <1>4, <1>5, <1>7, <1>8 DEF Honest

\* A step of the market keeps what was polled and what is known.
LEMMA MarketKeeps ==
  ASSUME EvidenceInv, TypeOK', Extends(tape, tape'), Extends(daily, daily'),
         UNCHANGED <<signals, ledger, mine>>
  PROVE  AllHonest' /\ KnownPast' /\ MovesLive' /\ BatchLater'
<1>1. TInv /\ \A s \in Signal : ledger[s] \in Record
  BY DEF EvidenceInv, BookInv, TInv, TypeOK
<1>2. AllHonest'
  <2> SUFFICES ASSUME NEW s \in Signal PROVE Honest(s, ledger[s])'
    BY DEF AllHonest
  <2>1. Honest(s, ledger[s])
    BY DEF EvidenceInv, AllHonest
  <2>2. PICK r \in Record : r = ledger[s]
    BY <1>1
  <2>3. Honest(s, r)'
    BY <1>1, <2>1, <2>2, HonestStays
  <2>4. ledger'[s] = r
    BY <2>2
  <2> QED
    BY <2>3, <2>4 DEF Honest, Unentered, ReturnsPast, RowsOf, DaysOf, ExitOf, Touched, TouchedAt,
       QuietTo
<1>3. KnownPast'
  <2>1. \A s \in Signal : known[s] \in Nat /\ Len(daily[s]) \in Nat /\ Len(daily'[s]) \in Nat
    BY <1>1 DEF TInv, TypeOK
  <2> QED
    BY <2>1 DEF EvidenceInv, KnownPast, Extends, mine
<1>4. \A w \in Worker, s \in Signal : batch[w][s] # 0 => tape'[s][batch[w][s]] = tape[s][batch[w][s]]
  <2>1. \A w \in Worker, s \in Signal :
          batch[w][s] \in Nat /\ Len(tape[s]) \in Nat /\ batch[w][s] <= Len(tape[s])
    BY <1>1 DEF TInv, TypeOK, OnTape
  <2> QED
    BY <2>1 DEF Extends
<1>5. MovesLive' /\ BatchLater'
  BY <1>4 DEF EvidenceInv, MovesLive, BatchLater, mine
<1> QED
  BY <1>2, <1>3, <1>5

-----------------------------------------------------------------------------
(* Every step keeps the evidence honest.                                    *)

LEMMA OnlyLiveDecides ==
  ASSUME NEW previous \in CandidateState \cup {New}, NEW snap,
         NextState(previous, snap) # previous, NextState(previous, snap) \in Entry \cup Terminal
  PROVE  snap.live
<1>1. InitialState(snap) \notin Entry \cup Terminal
  BY DEF InitialState, Entry, Terminal
<1> QED
  BY <1>1 DEF NextState

LEMMA EvidenceInit == Init => EvidenceInv
<1> SUFFICES ASSUME Init PROVE EvidenceInv
  OBVIOUS
<1>1. BookInv
  BY BookInit
<1>2. \A s \in Signal : tape[s] = <<>> /\ daily[s] = <<>> /\ ledger[s] = Absent
  BY DEF Init
<1>3. AllHonest
  <2> SUFFICES ASSUME NEW s \in Signal PROVE Honest(s, Absent)
    BY <1>2 DEF AllHonest
  <2> QED
    BY DEF Absent, Honest, Unentered, ReturnsPast, RowsOf, DaysOf, ExitOf, Touched
<1>4. DaysClosed
  <2>1. now = 1 * Slots
    BY DEF Init
  <2>2. Today = 1
    BY <2>1, SessionOfMidnight DEF Today
  <2> QED
    BY <1>2, <2>2 DEF DaysClosed
<1>5. RowTimes /\ KnownPast
  BY <1>2 DEF Init, RowTimes, KnownPast, NoRows
<1>6. MovesLive /\ BatchLater
  BY StateNames DEF Init, MovesLive, BatchLater, NoMoves, NoRows
<1> QED
  BY <1>1, <1>3, <1>4, <1>5, <1>6 DEF EvidenceInv

LEMMA MarketHonest ==
  ASSUME Serial, EvidenceInv, NextBar \/ (\E s \in Signal : Quote(s)) \/ CloseDay
  PROVE  EvidenceInv'
<1>0. BookInv' /\ TypeOK'
  BY BookNext DEF EvidenceInv, BookInv, TInv, Next
<1>1. TInv /\ TypeOK /\ now \in Nat /\ Today \in Nat
  BY SlotOfDay DEF EvidenceInv, BookInv, TInv, TypeOK, Today
<1>2. CASE NextBar
  <2>1. UNCHANGED <<tape, daily, signals, ledger, mine>> /\ now' = now + 1 /\ now % Slots < Slots - 1
    BY <1>2 DEF NextBar
  <2>2. Extends(tape, tape') /\ Extends(daily, daily')
    BY <1>1, <2>1 DEF Extends, TypeOK
  <2>3. Today' = Today
    BY <1>1, <2>1, SameSession DEF Today
  <2>4. DaysClosed' /\ RowTimes'
    BY <2>1, <2>3 DEF EvidenceInv, DaysClosed, RowTimes
  <2> QED
    BY <1>0, <2>1, <2>2, <2>4, MarketKeeps DEF EvidenceInv
<1>3. ASSUME NEW s \in Signal, Quote(s) PROVE EvidenceInv'
  <2>1. PICK snap \in Snapshot, priced \in BOOLEAN, at \in {now} \cup {tape[s][i].at : i \in DOMAIN tape[s]} :
          /\ at = now => now % Slots > 0
          /\ tape' = [tape EXCEPT ![s] = Append(@, [snap |-> snap, at |-> at, priced |-> priced])]
    BY <1>3 DEF Quote
  <2>2. UNCHANGED <<now, daily, signals, ledger, mine>>
    BY <1>3 DEF Quote
  <2> DEFINE row == [snap |-> snap, at |-> at, priced |-> priced]
  <2>3. at % Slots # 0
    <3>1. CASE at = now
      BY <1>1, <2>1, <3>1
    <3>2. CASE \E i \in DOMAIN tape[s] : at = tape[s][i].at
      <4>1. tape[s] \in Seq(Row)
        BY <1>1 DEF TypeOK
      <4>2. PICK i \in 1 .. Len(tape[s]) : at = tape[s][i].at
        BY <3>2, <4>1
      <4> QED
        BY <4>2 DEF EvidenceInv, RowTimes
    <3> QED
      BY <2>1, <3>1, <3>2
  <2>4. /\ tape'[s] = Append(tape[s], row)
        /\ \A q \in Signal : q # s => tape'[q] = tape[q]
    BY <1>1, <2>1 DEF TypeOK
  <2>5. row.at = at
    OBVIOUS
  <2> HIDE DEF row
  <2>6. tape[s] \in Seq(Row) /\ Len(tape[s]) \in Nat
    BY <1>1 DEF TypeOK
  <2>7. /\ Len(tape'[s]) = Len(tape[s]) + 1
        /\ \A i \in 1 .. Len(tape[s]) : tape'[s][i] = tape[s][i]
        /\ tape'[s][Len(tape[s]) + 1] = row
    BY <2>4, <2>6
  <2>8. Extends(tape, tape')
    <3> SUFFICES ASSUME NEW q \in Signal
                 PROVE  /\ Len(tape[q]) <= Len(tape'[q])
                        /\ \A i \in 1 .. Len(tape[q]) : tape'[q][i] = tape[q][i]
      BY DEF Extends
    <3>1. Len(tape[q]) \in Nat
      BY <1>1 DEF TypeOK
    <3> QED
      BY <2>4, <2>6, <2>7, <3>1
  <2>9. Extends(daily, daily') /\ DaysClosed'
    BY <1>1, <2>2 DEF Extends, EvidenceInv, DaysClosed, Today, TypeOK
  <2>10. RowTimes'
    <3> SUFFICES ASSUME NEW q \in Signal, NEW i \in 1 .. Len(tape'[q])
                 PROVE  tape'[q][i].at % Slots # 0
      BY DEF RowTimes
    <3>1. CASE q # s
      BY <2>4, <3>1 DEF EvidenceInv, RowTimes
    <3>2. CASE q = s /\ i \in 1 .. Len(tape[s])
      BY <2>7, <3>2 DEF EvidenceInv, RowTimes
    <3>3. CASE q = s /\ i = Len(tape[s]) + 1
      BY <2>3, <2>5, <2>7, <3>3
    <3> QED
      BY <2>6, <2>7, <3>1, <3>2, <3>3
  <2> QED
    BY <1>0, <2>2, <2>8, <2>9, <2>10, MarketKeeps DEF EvidenceInv
<1>4. CASE CloseDay
  <2>1. PICK bar \in [Signal -> DailyBar] : daily' = [s \in Signal |-> Append(daily[s], bar[s])]
    BY <1>4 DEF CloseDay
  <2>2. UNCHANGED <<tape, signals, ledger, mine>> /\ now' = (Today + 1) * Slots
    BY <1>4 DEF CloseDay
  <2>3. \A s \in Signal : /\ Len(daily[s]) \in Nat /\ Len(daily'[s]) = Len(daily[s]) + 1
                          /\ \A d \in 1 .. Len(daily[s]) : daily'[s][d] = daily[s][d]
    <3> SUFFICES ASSUME NEW s \in Signal
                 PROVE  /\ Len(daily[s]) \in Nat /\ Len(daily'[s]) = Len(daily[s]) + 1
                        /\ \A d \in 1 .. Len(daily[s]) : daily'[s][d] = daily[s][d]
      OBVIOUS
    <3>1. daily[s] \in Seq(DailyBar) /\ daily'[s] = Append(daily[s], bar[s])
      BY <1>1, <2>1 DEF TypeOK
    <3> QED
      BY <3>1
  <2>4. Today' = Today + 1
    BY <1>1, <2>2, SessionOfMidnight DEF Today
  <2>5. Extends(tape, tape') /\ Extends(daily, daily')
    BY <1>1, <2>2, <2>3 DEF Extends, TypeOK
  <2>6. DaysClosed' /\ RowTimes'
    BY <2>2, <2>3, <2>4 DEF EvidenceInv, DaysClosed, RowTimes
  <2> QED
    BY <1>0, <2>2, <2>5, <2>6, MarketKeeps DEF EvidenceInv
<1> QED
  BY <1>2, <1>3, <1>4

LEMMA WorkHonest ==
  ASSUME Serial, EvidenceInv, [Next]_vars, UNCHANGED market
  PROVE  EvidenceInv'
<1> USE DEF EvidenceInv
<1>0. BookInv'
  BY BookNext
<1>1. TInv /\ TypeOK /\ Alone /\ AtRest
  BY DEF BookInv, TInv
<1>2. UNCHANGED <<now, tape, daily>>
  BY DEF market
<1>3. DaysClosed' /\ RowTimes'
  BY <1>2 DEF DaysClosed, RowTimes, Today
<1>4. ASSUME \A s \in Signal : Honest(s, ledger'[s]) PROVE AllHonest'
  BY <1>2, <1>4 DEF AllHonest, Honest, Unentered, ReturnsPast, RowsOf, DaysOf, ExitOf, Touched,
     TouchedAt, QuietTo
<1>5. UNCHANGED ledger => AllHonest'
  BY <1>4 DEF AllHonest
<1>6. Worker \subseteq Actor /\ Resolver \in Actor /\ phase \in [Actor -> Phase]
  BY <1>1 DEF Actor, TypeOK
<1>7. ASSUME NEW a \in Actor, Rest(a), phase[a] # "idle", \A s \in Signal : Honest(s, ledger'[s])
      PROVE  EvidenceInv'
  <2>1. \A b \in Actor : phase'[b] = "idle"
    BY <1>1, <1>6, <1>7 DEF Rest, Alone
  <2>2. BatchLater'
    BY <1>6, <2>1 DEF BatchLater
  <2>3. \A w \in Worker, s \in Signal : \/ moves'[w][s] = None
                                        \/ moves'[w][s] = moves[w][s] /\ batch'[w][s] = batch[w][s]
    BY <1>7 DEF Rest, NoMoves, NoRows
  <2>4. MovesLive'
    BY <1>2, <2>3, StateNames DEF MovesLive
  <2>5. KnownPast'
    <3>1. \A s \in Signal : Len(daily[s]) \in Nat
      BY <1>1 DEF TypeOK
    <3> QED
      BY <1>2, <1>7, <3>1 DEF Rest, KnownPast, NoRows
  <2> QED
    BY <1>0, <1>3, <1>4, <1>7, <2>2, <2>4, <2>5
<1>8. ASSUME NEW w \in Worker, Poll(w) PROVE EvidenceInv'
  <2>1. PICK received \in SUBSET Signal :
          /\ \A s \in received :
               /\ tape[s] # <<>>
               /\ tape[s][Len(tape[s])].snap.live => Session(tape[s][Len(tape[s])].at) = Today
          /\ batch' = [batch EXCEPT ![w] = [s \in Signal |-> IF s \in received THEN Len(tape[s]) ELSE 0]]
    BY <1>8 DEF Poll
  <2>2. /\ phase' = [phase EXCEPT ![w] = "polled"]
        /\ UNCHANGED <<market, signals, ledger, moves, known, copy>>
    BY <1>8 DEF Poll
  <2>3. phase[w] = "idle"
    BY <1>8 DEF Poll, MayStart
  <2>4. /\ \A s \in Signal : batch'[w][s] = IF s \in received THEN Len(tape[s]) ELSE 0
        /\ \A v \in Worker : v # w => batch'[v] = batch[v]
    BY <1>1, <2>1 DEF TypeOK
  <2>5. MovesLive'
    <3>1. \A s \in Signal : moves[w][s] = None
      BY <1>1, <2>3 DEF AtRest
    <3> QED
      BY <1>2, <2>2, <2>4, <3>1, StateNames DEF MovesLive
  <2>6. \A s \in Signal : \A item \in ledger[s].path : item[1] = "day" => item[2] < Today
    <3> SUFFICES ASSUME NEW s \in Signal, NEW item \in ledger[s].path, item[1] = "day"
                 PROVE  item[2] < Today
      OBVIOUS
    <3>1. item[2] <= Len(daily[s])
      BY DEF AllHonest, Honest, DaysOf
    <3>2. Len(daily[s]) \in Nat /\ Len(daily[s]) + 1 = Today
      BY <1>1 DEF DaysClosed, TypeOK
    <3>3. ledger[s] \in Record
      BY <1>1 DEF TypeOK
    <3>4. item[2] \in Nat
      BY <3>3 DEF Record, Evidence
    <3> QED
      BY <3>1, <3>2, <3>4
  <2>7. BatchLater'
    <3> SUFFICES ASSUME NEW v \in Worker, NEW s \in Signal, phase'[v] # "idle", batch'[v][s] # 0,
                        tape[s][batch'[v][s]].snap.live,
                        NEW item \in ledger[s].path, item[1] = "day"
                 PROVE  item[2] < Session(tape[s][batch'[v][s]].at)
      BY <1>2, <2>2 DEF BatchLater
    <3>1. CASE v = w
      BY <2>1, <2>4, <2>6, <3>1
    <3>2. CASE v # w
      BY <1>6, <2>2, <2>4, <3>2 DEF BatchLater
    <3> QED
      BY <3>1, <3>2
  <2>8. AllHonest' /\ KnownPast'
    BY <1>2, <1>5, <2>2 DEF KnownPast
  <2> QED
    BY <1>0, <1>3, <2>5, <2>7, <2>8
<1>9. ASSUME NEW w \in Worker, Reduce(w) PROVE EvidenceInv'
  <2>1. /\ phase[w] = "polled"
        /\ phase' = [phase EXCEPT ![w] = "reduced"]
        /\ moves' = [moves EXCEPT ![w] = [s \in Signal |->
                       IF Reduced(w, s) # engine[s] THEN Reduced(w, s) ELSE None]]
        /\ UNCHANGED <<ledger, batch, known>>
    BY <1>9 DEF Reduce
  <2>2. ASSUME NEW s \in Signal, Reduced(w, s) # engine[s], Reduced(w, s) \in Entry \cup Terminal
        PROVE  batch[w][s] # 0 /\ tape[s][batch[w][s]].snap.live
    <3>1. /\ batch[w][s] # 0
          /\ Reduced(w, s) = NextState(engine[s], tape[s][batch[w][s]].snap)
      BY <2>2 DEF Reduced
    <3>2. engine[s] \in CandidateState \cup {New}
      BY <1>1 DEF TypeOK
    <3> QED
      BY <2>2, <3>1, <3>2, OnlyLiveDecides
  <2>3. /\ \A s \in Signal : moves'[w][s] = IF Reduced(w, s) # engine[s] THEN Reduced(w, s) ELSE None
        /\ \A v \in Worker : v # w => moves'[v] = moves[v]
    BY <1>1, <2>1 DEF TypeOK
  <2>4. MovesLive'
    BY <1>2, <2>1, <2>2, <2>3, StateNames DEF MovesLive
  <2>5. BatchLater'
    BY <1>2, <1>6, <2>1 DEF BatchLater
  <2>6. AllHonest' /\ KnownPast'
    BY <1>2, <1>5, <2>1 DEF KnownPast
  <2> QED
    BY <1>0, <1>3, <2>4, <2>5, <2>6
<1>10. ASSUME NEW w \in Worker, SaveObserved(w) PROVE EvidenceInv'
  <2>1. w \in Actor /\ phase[w] = "loaded" /\ Rest(w)
    BY <1>6, <1>10 DEF SaveObserved
  <2>2. copy[w] = ledger
    BY <2>1 DEF BookInv, Fresh
  <2>3. \A s \in Signal : ledger'[s] = Observed(w, s, ledger[s])
    BY <1>10, <2>2 DEF SaveObserved
  <2>4. \A s \in Signal : Honest(s, ledger'[s])
    BY <2>1, <2>3, ObservedHonest
  <2> QED
    BY <1>7, <2>1, <2>4
<1>11. CASE Collect
  <2>1. /\ phase' = [phase EXCEPT ![Resolver] = "collected"]
        /\ UNCHANGED <<ledger, batch, moves>>
        /\ \A s \in Signal : known'[s] \in {0, Len(daily[s])}
    BY <1>11 DEF Collect
  <2>2. KnownPast'
    <3>1. \A s \in Signal : Len(daily[s]) \in Nat
      BY <1>1 DEF TypeOK
    <3> QED
      BY <1>2, <2>1, <3>1 DEF KnownPast
  <2>3. AllHonest' /\ MovesLive' /\ BatchLater'
    BY <1>2, <1>5, <1>6, <2>1 DEF MovesLive, BatchLater
  <2> QED
    BY <1>0, <1>3, <2>2, <2>3
<1>12. CASE SaveResolved
  <2>1. Resolver \in Actor /\ phase[Resolver] = "loaded" /\ Rest(Resolver)
    BY <1>6, <1>12 DEF SaveResolved
  <2>2. copy[Resolver] = ledger
    BY <2>1 DEF BookInv, Fresh
  <2>3. \A s \in Signal : ledger'[s] = Resolved(ledger[s], s)
    BY <1>12, <2>2 DEF SaveResolved
  <2>4. \A s \in Signal : Honest(s, ledger'[s])
    BY <2>3, ResolvedHonest
  <2> QED
    BY <1>7, <2>1, <2>4
<1>13. ASSUME NEW a \in Actor, Load(a) PROVE EvidenceInv'
  <2>1. /\ phase[a] # "idle"
        /\ phase' = [phase EXCEPT ![a] = "loaded"]
        /\ UNCHANGED <<ledger, batch, moves, known>>
    BY <1>13 DEF Load
  <2>2. AllHonest' /\ KnownPast' /\ MovesLive' /\ BatchLater'
    BY <1>2, <1>5, <1>6, <2>1 DEF KnownPast, MovesLive, BatchLater
  <2> QED
    BY <1>0, <1>3, <2>2
<1>14. ASSUME NEW a \in Actor, Abandon(a) PROVE EvidenceInv'
  <2>1. phase[a] # "idle" /\ Rest(a) /\ UNCHANGED ledger
    BY <1>14 DEF Abandon
  <2> QED
    BY <1>7, <2>1 DEF AllHonest
<1>15. ASSUME UNCHANGED <<ledger, mine>> PROVE EvidenceInv'
  BY <1>0, <1>2, <1>3, <1>5, <1>15 DEF KnownPast, MovesLive, BatchLater, mine
<1>16. CASE NextBar \/ (\E s \in Signal : Quote(s)) \/ CloseDay \/ UNCHANGED vars
  <2>1. UNCHANGED <<ledger, mine>>
    BY <1>16 DEF NextBar, Quote, CloseDay, vars
  <2> QED
    BY <1>15, <2>1
<1> QED
  BY <1>8, <1>9, <1>10, <1>11, <1>12, <1>13, <1>14, <1>16 DEF Next

LEMMA EvidenceNext ==
  ASSUME Serial
  PROVE  EvidenceInv /\ [Next]_vars => EvidenceInv'
<1> SUFFICES ASSUME EvidenceInv, [Next]_vars PROVE EvidenceInv'
  OBVIOUS
<1>1. CASE NextBar \/ (\E s \in Signal : Quote(s)) \/ CloseDay
  BY <1>1, MarketHonest
<1>2. CASE ~(NextBar \/ (\E s \in Signal : Quote(s)) \/ CloseDay)
  <2>1. UNCHANGED market
    BY <1>2 DEF Next, Poll, Reduce, Collect, Load, SaveObserved, SaveResolved, Abandon, Rest, vars
  <2> QED
    BY <2>1, WorkHonest
<1> QED
  BY <1>1, <1>2

LEMMA EvidenceAlways == Serial => (Spec => []EvidenceInv)
<1> SUFFICES ASSUME Serial PROVE Spec => []EvidenceInv
  OBVIOUS
<1> QED
  BY EvidenceInit, EvidenceNext, PTL DEF Spec

(***************************************************************************)
(* No evidence of a trade looks ahead, when runs follow one another: of the *)
(* entry bar only the close, of the entry session no daily bar, none past   *)
(* the window or from the exit's session on, and no return of a session     *)
(* that has not closed, with rows repeated out of hours and sessions that   *)
(* close while a cycle is half-way.                                         *)
(***************************************************************************)
THEOREM EvidenceHonest ==
  ASSUME Serial
  PROVE  Spec => []NoLookAhead
<1>1. EvidenceInv => NoLookAhead
  <2> SUFFICES ASSUME EvidenceInv, NEW s \in Signal
               PROVE  LET record == ledger[s]
                          entry == Session(record.entered)
                      IN  /\ \A h \in record.returns : entry + h <= Len(daily[s])
                          /\ \A item \in record.path :
                               CASE item[1] = "close" -> tape[s][item[2]].at = record.entered
                                 [] item[1] = "range" -> tape[s][item[2]].at > record.entered
                                 [] item[1] = "exit"  -> item[2] = Session(record.closed)
                                 [] item[1] = "day"   ->
                                      /\ entry < item[2] /\ item[2] <= entry + Window
                                      /\ record.closed # 0 => item[2] < Session(record.closed)
    BY DEF NoLookAhead
  <2>1. Honest(s, ledger[s]) /\ ledger[s] \in Record
    BY DEF EvidenceInv, AllHonest, BookInv, TInv, TypeOK
  <2>2. \A item \in ledger[s].path : item[1] \in {"close", "range", "day", "exit"}
    BY <2>1 DEF Record, Evidence
  <2> QED
    BY <2>1, <2>2 DEF Honest, ReturnsPast, RowsOf, DaysOf, ExitOf
<1> QED
  BY <1>1, EvidenceAlways, PTL

(***************************************************************************)
(* A trade that daily bars closed ended at the first bar of its window that *)
(* touched the stop or the target, at the stop if it touched both, however  *)
(* many nights its history was missing or its run stopped.                  *)
(***************************************************************************)
THEOREM FirstBarDecides ==
  ASSUME Serial
  PROVE  Spec => []FirstTouch
<1>1. EvidenceInv => FirstTouch
  BY DEF EvidenceInv, AllHonest, Honest, Touched, TouchedAt, QuietTo, FirstTouch
<1> QED
  BY <1>1, EvidenceAlways, PTL

=============================================================================
