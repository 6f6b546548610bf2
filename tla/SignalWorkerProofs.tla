-------------------------- MODULE SignalWorkerProofs --------------------------
(***************************************************************************)
(* Proofs about the signal workers, for every set of signals and workers,   *)
(* with failures, abandoned cycles and restarts at any step.                *)
(***************************************************************************)
EXTENDS SignalWorker, TLAPS

(***************************************************************************)
(* The strengthening.  Rows lie on the tapes; a logged, pending or sent     *)
(* transition's event is recorded; what is pending was not sent and is      *)
(* pending at one worker only.                                              *)
(***************************************************************************)
OnTape == \A w \in Worker, s \in Signal : batch[w][s] <= Len(tape[s])

LogRecorded ==
  \A s \in Signal : \A i \in 1 .. Len(log[s]) : log[s][i].event \in seen[s]

Recorded(alerts) == \A t \in alerts : t.event \in seen[t.signal]

Pending ==
  /\ Recorded(inbox)
  /\ \A w \in Worker : Recorded(found[w]) /\ found[w] \cap inbox = {}
  /\ \A v, w \in Worker : v # w => found[v] \cap found[w] = {}

Delivered(marks) ==
  \A mark \in marks : mark[1] \in (IF mark[2] = "telegram" THEN inbox ELSE audit)

MinesDelivered == \A w \in Worker : Delivered(mine[w])

IInv == /\ TypeOK
        /\ OnTape
        /\ LogRecorded
        /\ LifecyclePath
        /\ OneTransitionPerEvent
        /\ Pending
        /\ SentOnce
        /\ MarkedIsDelivered
        /\ MinesDelivered

-----------------------------------------------------------------------------
(***************************************************************************)
(* state_machine.next_state is total on the enumeration, and a move it      *)
(* makes is a legal step of the lifecycle.                                  *)
(***************************************************************************)
LEMMA NextStateLegal ==
  ASSUME NEW previous \in CandidateState \cup {New}, NEW snap \in SnapshotType
  PROVE  /\ NextState(previous, snap) \in CandidateState \cup {New}
         /\ NextState(previous, snap) # previous =>
              /\ NextState(previous, snap) \in CandidateState
              /\ Legal(previous, NextState(previous, snap))
<1> DEFINE next == NextState(previous, snap)
<1>1. InitialState(snap) \in {"ARMED", "DISCOVER", "WATCH"}
  BY DEF InitialState
<1>2. /\ LiveState(previous, snap) \in CandidateState
      /\ previous \in Entry => LiveState(previous, snap) \in Entry \cup Terminal
      /\ LiveState(previous, snap) \in {"TARGET_HIT", "FAILED_BREAKOUT"}
           => previous \in Entry
  BY <1>1 DEF LiveState, CandidateState, Entry, Terminal
<1>3. CASE previous \in Terminal
  BY <1>3 DEF NextState, CandidateState
<1>4. CASE previous \notin Terminal /\ snap.live
  BY <1>2, <1>4 DEF NextState, Legal
<1>5. CASE previous \notin Terminal /\ ~snap.live
  BY <1>1, <1>5 DEF NextState, Legal, CandidateState, Entry, Terminal, New
<1> QED BY <1>3, <1>4, <1>5

(***************************************************************************)
(* What one reduction does to one signal: it keeps the type, and if it      *)
(* moves the signal it does so legally, on an event not yet recorded.       *)
(***************************************************************************)
LEMMA ReducedMoves ==
  ASSUME IInv, NEW w \in Worker, NEW s \in Signal
  PROVE  /\ Reduced(w, s) \in CandidateState \cup {New}
         /\ s \in Moved(w) => /\ TransitionOf(w, s) \in Transition
                              /\ batch[w][s] \notin seen[s]
                              /\ batch[w][s] # 0
                              /\ Legal(state[s], Reduced(w, s))
<1>1. state[s] \in CandidateState \cup {New} /\ batch[w][s] \in Position
  BY DEF IInv, TypeOK
<1>2. CASE s \in Unseen(w)
  <2>1. /\ batch[w][s] \in Nat /\ batch[w][s] # 0 /\ batch[w][s] \notin seen[s]
        /\ batch[w][s] <= Len(tape[s])
    BY <1>1, <1>2, MaxQuoteAssumption DEF Unseen, Position, IInv, OnTape
  <2>2. tape[s] \in Seq(Snapshot)
    BY DEF IInv, TypeOK
  <2>3. tape[s][batch[w][s]] \in SnapshotType
    BY <2>1, <2>2, SnapshotAssumption
  <2>4. Reduced(w, s) = NextState(state[s], tape[s][batch[w][s]])
    BY <1>2 DEF Reduced
  <2> QED
    BY <1>1, <2>1, <2>3, <2>4, NextStateLegal DEF Moved, TransitionOf, Transition
<1>3. CASE s \notin Unseen(w)
  BY <1>1, <1>3 DEF Reduced, Moved
<1> QED BY <1>2, <1>3

LEMMA InitInv == Init => IInv
<1> SUFFICES ASSUME Init PROVE IInv
  OBVIOUS
<1> USE DEF Init
<1>1. TypeOK
  BY MaxQuoteAssumption DEF TypeOK, NoRows, Phase, Position, New
<1>2. OnTape /\ LogRecorded /\ LifecyclePath /\ OneTransitionPerEvent
  BY DEF OnTape, NoRows, LogRecorded, LifecyclePath, OneTransitionPerEvent, New
<1>3. Pending /\ SentOnce /\ MarkedIsDelivered /\ MinesDelivered
  BY DEF Pending, Recorded, SentOnce, MarkedIsDelivered, MinesDelivered, Delivered
<1> QED BY <1>1, <1>2, <1>3 DEF IInv

-----------------------------------------------------------------------------
(* One lemma per action.  In each, what the action leaves alone is one step. *)

LEMMA QuoteKeeps == ASSUME IInv, NEW s \in Signal, Quote(s) PROVE IInv'
<1> USE DEF Quote, store, cycle, chat
<1>1. PICK snap \in Snapshot : tape' = [tape EXCEPT ![s] = Append(@, snap)]
  OBVIOUS
<1>2. /\ tape \in [Signal -> Seq(Snapshot)]
      /\ \A q \in Signal : Len(tape[q]) \in Nat /\ Len(tape[q]) <= MaxQuote
      /\ MaxQuote \in Nat
  BY MaxQuoteAssumption DEF IInv, TypeOK
<1>3. /\ tape' \in [Signal -> Seq(Snapshot)]
      /\ \A q \in Signal : /\ Len(tape'[q]) \in Nat
                           /\ Len(tape[q]) <= Len(tape'[q])
                           /\ Len(tape'[q]) <= MaxQuote
  <2>1. tape'[s] = Append(tape[s], snap) /\ Len(tape'[s]) = Len(tape[s]) + 1
    BY <1>1, <1>2
  <2>2. \A q \in Signal \ {s} : tape'[q] = tape[q]
    BY <1>1, <1>2
  <2> QED BY <1>1, <1>2, <2>1, <2>2
<1>4. TypeOK'
  BY <1>3 DEF IInv, TypeOK
<1>5. OnTape'
  <2> SUFFICES ASSUME NEW v \in Worker, NEW q \in Signal
               PROVE  batch'[v][q] <= Len(tape'[q])
    BY DEF OnTape
  <2>1. batch[v][q] \in Nat /\ batch[v][q] <= Len(tape[q]) /\ batch' = batch
    BY MaxQuoteAssumption DEF IInv, TypeOK, OnTape, Position
  <2> QED BY <1>2, <1>3, <2>1
<1>6. LogRecorded' /\ LifecyclePath' /\ OneTransitionPerEvent'
  BY DEF IInv, LogRecorded, LifecyclePath, OneTransitionPerEvent
<1>7. Pending' /\ SentOnce' /\ MarkedIsDelivered' /\ MinesDelivered'
  BY DEF IInv, Pending, Recorded, SentOnce, MarkedIsDelivered, MinesDelivered, Delivered
<1> QED BY <1>4, <1>5, <1>6, <1>7 DEF IInv

LEMMA PollKeeps == ASSUME IInv, NEW w \in Worker, Poll(w) PROVE IInv'
<1> USE DEF Poll, store, chat
<1>1. PICK received \in SUBSET Signal \ {{}} :
        batch' = [batch EXCEPT ![w] =
                   [s \in Signal |-> IF s \in received THEN Len(tape[s]) ELSE 0]]
  OBVIOUS
<1>2. \A s \in Signal : Len(tape[s]) \in Position
  BY MaxQuoteAssumption DEF IInv, TypeOK, Position
<1>3. TypeOK'
  <2>1. [s \in Signal |-> IF s \in received THEN Len(tape[s]) ELSE 0]
          \in [Signal -> Position]
    BY <1>2, MaxQuoteAssumption DEF Position
  <2>2. batch' \in [Worker -> [Signal -> Position]]
    BY <1>1, <2>1 DEF IInv, TypeOK
  <2>3. phase' \in [Worker -> Phase]
    BY DEF IInv, TypeOK, Phase
  <2> QED BY <2>2, <2>3 DEF IInv, TypeOK
<1>4. OnTape'
  <2> SUFFICES ASSUME NEW v \in Worker, NEW s \in Signal
               PROVE  batch'[v][s] <= Len(tape'[s])
    BY DEF OnTape
  <2>1. CASE v = w
    <3>1. batch'[v][s] = IF s \in received THEN Len(tape[s]) ELSE 0
      BY <1>1, <2>1 DEF IInv, TypeOK
    <3> QED BY <1>2, <3>1 DEF Position
  <2>2. CASE v # w
    BY <1>1, <2>2 DEF IInv, TypeOK, OnTape
  <2> QED BY <2>1, <2>2
<1>5. LogRecorded' /\ LifecyclePath' /\ OneTransitionPerEvent'
  BY DEF IInv, LogRecorded, LifecyclePath, OneTransitionPerEvent
<1>6. Pending' /\ SentOnce' /\ MarkedIsDelivered' /\ MinesDelivered'
  BY DEF IInv, Pending, Recorded, SentOnce, MarkedIsDelivered, MinesDelivered, Delivered
<1> QED BY <1>3, <1>4, <1>5, <1>6 DEF IInv

LEMMA ReduceKeeps == ASSUME IInv, NEW w \in Worker, Reduce(w) PROVE IInv'
<1> USE DEF Reduce, chat
<1>1. \A s \in Signal :
        /\ Reduced(w, s) \in CandidateState \cup {New}
        /\ s \in Moved(w) => /\ TransitionOf(w, s) \in Transition
                             /\ batch[w][s] \notin seen[s]
                             /\ batch[w][s] # 0
                             /\ Legal(state[s], Reduced(w, s))
  BY ReducedMoves
<1>2. \A s \in Signal : log[s] \in Seq(Transition)
  BY DEF IInv, TypeOK
<1>a. /\ Moved(w) \subseteq Signal
      /\ \A s \in Signal : /\ TransitionOf(w, s).signal = s
                           /\ TransitionOf(w, s).event = batch[w][s]
                           /\ TransitionOf(w, s).from = state[s]
                           /\ TransitionOf(w, s).to = Reduced(w, s)
  BY DEF Moved, TransitionOf
<1>3. \A s \in Signal :
        /\ s \in Moved(w) =>
             /\ log'[s] = Append(log[s], TransitionOf(w, s))
             /\ Len(log'[s]) = Len(log[s]) + 1
             /\ log'[s][Len(log[s]) + 1] = TransitionOf(w, s)
             /\ \A i \in 1 .. Len(log[s]) : log'[s][i] = log[s][i]
        /\ s \notin Moved(w) => log'[s] = log[s] /\ state'[s] = state[s]
        /\ state'[s] = Reduced(w, s)
        /\ seen[s] \subseteq seen'[s]
        /\ s \in Moved(w) => batch[w][s] \in seen'[s]
  <2> SUFFICES ASSUME NEW s \in Signal
               PROVE  /\ s \in Moved(w) =>
                           /\ log'[s] = Append(log[s], TransitionOf(w, s))
                           /\ Len(log'[s]) = Len(log[s]) + 1
                           /\ log'[s][Len(log[s]) + 1] = TransitionOf(w, s)
                           /\ \A i \in 1 .. Len(log[s]) : log'[s][i] = log[s][i]
                      /\ s \notin Moved(w) => log'[s] = log[s] /\ state'[s] = state[s]
                      /\ state'[s] = Reduced(w, s)
                      /\ seen[s] \subseteq seen'[s]
                      /\ s \in Moved(w) => batch[w][s] \in seen'[s]
    OBVIOUS
  <2>1. CASE s \in Moved(w)
    <3>1. log'[s] = Append(log[s], TransitionOf(w, s))
      BY <2>1
    <3> QED BY <1>1, <1>2, <2>1, <3>1
  <2>2. CASE s \notin Moved(w)
    BY <2>2 DEF Moved
  <2> QED BY <2>1, <2>2
<1>4. TypeOK'
  <2>1. log' \in [Signal -> Seq(Transition)]
    BY <1>1, <1>2, <1>3
  <2>2. seen' \in [Signal -> SUBSET (Position \ {0})]
    BY DEF IInv, TypeOK
  <2>3. found' \in [Worker -> SUBSET Transition]
    <3>1. {TransitionOf(w, s) : s \in Moved(w)} \subseteq Transition
      BY <1>1, <1>a
    <3> QED BY <3>1 DEF IInv, TypeOK
  <2>4. batch' \in [Worker -> [Signal -> Position]] /\ phase' \in [Worker -> Phase]
    BY MaxQuoteAssumption DEF IInv, TypeOK, NoRows, Position, Phase
  <2> QED BY <1>1, <2>1, <2>2, <2>3, <2>4 DEF IInv, TypeOK
<1>5. OnTape'
  BY MaxQuoteAssumption DEF IInv, TypeOK, OnTape, NoRows
<1>6. LogRecorded'
  <2> SUFFICES ASSUME NEW s \in Signal, NEW i \in 1 .. Len(log'[s])
               PROVE  log'[s][i].event \in seen'[s]
    BY DEF LogRecorded
  <2>1. CASE s \in Moved(w) /\ i = Len(log[s]) + 1
    BY <1>a, <1>3, <2>1
  <2>2. CASE ~(s \in Moved(w) /\ i = Len(log[s]) + 1)
    <3>1. i \in 1 .. Len(log[s]) /\ log'[s][i] = log[s][i]
      BY <1>2, <1>3, <2>2
    <3> QED BY <1>3, <3>1 DEF IInv, LogRecorded
  <2> QED BY <2>1, <2>2
<1>7. LifecyclePath'
  <2> DEFINE reached(l, i) == IF i = 0 THEN New ELSE l[i].to
  <2> SUFFICES ASSUME NEW s \in Signal
               PROVE  /\ state'[s] = reached(log'[s], Len(log'[s]))
                      /\ \A i \in 1 .. Len(log'[s]) :
                           /\ log'[s][i].from = reached(log'[s], i - 1)
                           /\ Legal(log'[s][i].from, log'[s][i].to)
    BY DEF LifecyclePath
  <2>1. /\ state[s] = reached(log[s], Len(log[s]))
        /\ \A i \in 1 .. Len(log[s]) : /\ log[s][i].from = reached(log[s], i - 1)
                                       /\ Legal(log[s][i].from, log[s][i].to)
    BY DEF IInv, LifecyclePath
  <2>2. CASE s \notin Moved(w)
    BY <1>3, <2>1, <2>2
  <2>3. CASE s \in Moved(w)
    <3> DEFINE n == Len(log[s])
    <3>1. n \in Nat /\ Len(log'[s]) = n + 1
      BY <1>2, <1>3, <2>3
    <3>2. /\ log'[s][n + 1].from = state[s]
          /\ log'[s][n + 1].to = state'[s]
          /\ Legal(log'[s][n + 1].from, log'[s][n + 1].to)
      BY <1>1, <1>a, <1>3, <2>3
    <3>3. state'[s] = reached(log'[s], Len(log'[s]))
      BY <3>1, <3>2
    <3>4. \A i \in 0 .. n : reached(log'[s], i) = reached(log[s], i)
      BY <1>3, <2>3, <3>1
    <3>5. ASSUME NEW i \in 1 .. Len(log'[s])
          PROVE  /\ log'[s][i].from = reached(log'[s], i - 1)
                 /\ Legal(log'[s][i].from, log'[s][i].to)
      <4>1. CASE i = n + 1
        BY <2>1, <3>1, <3>2, <3>4, <4>1
      <4>2. CASE i # n + 1
        <5>1. i \in 1 .. n /\ i - 1 \in 0 .. n /\ log'[s][i] = log[s][i]
          BY <1>3, <2>3, <3>1, <4>2
        <5> QED BY <2>1, <3>4, <5>1
      <4> QED BY <4>1, <4>2
    <3> QED BY <3>3, <3>5
  <2> QED BY <2>2, <2>3
<1>8. OneTransitionPerEvent'
  <2> SUFFICES ASSUME NEW s \in Signal,
                      NEW i \in 1 .. Len(log'[s]), NEW j \in 1 .. Len(log'[s]),
                      log'[s][i].event = log'[s][j].event
               PROVE  i = j
    BY DEF OneTransitionPerEvent
  <2>1. CASE s \notin Moved(w)
    BY <1>3, <2>1 DEF IInv, OneTransitionPerEvent
  <2>2. CASE s \in Moved(w)
    <3>1. /\ Len(log[s]) \in Nat /\ Len(log'[s]) = Len(log[s]) + 1
          /\ log'[s][Len(log[s]) + 1].event \notin seen[s]
          /\ \A k \in 1 .. Len(log[s]) : log'[s][k].event \in seen[s]
      <4>1. \A k \in 1 .. Len(log[s]) : log'[s][k].event \in seen[s]
        BY <1>3, <2>2 DEF IInv, LogRecorded
      <4> QED BY <1>1, <1>a, <1>2, <1>3, <2>2, <4>1
    <3>2. CASE i \in 1 .. Len(log[s]) /\ j \in 1 .. Len(log[s])
      BY <1>3, <2>2, <3>2 DEF IInv, OneTransitionPerEvent
    <3>3. CASE i = Len(log[s]) + 1 \/ j = Len(log[s]) + 1
      BY <3>1, <3>3
    <3> QED BY <3>1, <3>2, <3>3
  <2> QED BY <2>1, <2>2
<1>9. Pending'
  <2>1. found'[w] = {TransitionOf(w, s) : s \in Moved(w)}
    BY DEF IInv, TypeOK
  <2>2. \A v \in Worker \ {w} : found'[v] = found[v]
    BY DEF IInv, TypeOK
  <2>3. \A t \in found'[w] : /\ t.signal \in Signal
                             /\ t.event \in seen'[t.signal]
                             /\ t.event \notin seen[t.signal]
    BY <1>1, <1>a, <1>3, <2>1
  <2>4. Recorded(inbox)' /\ \A v \in Worker : Recorded(found[v])'
    <3>1. \A t \in Transition : t.signal \in Signal
      BY DEF Transition
    <3>2. \A t \in Transition : t.event \in seen[t.signal] => t.event \in seen'[t.signal]
      BY <1>3, <3>1
    <3>3. inbox \subseteq Transition /\ \A v \in Worker : found[v] \subseteq Transition
      BY DEF IInv, TypeOK
    <3>4. Recorded(inbox) /\ \A v \in Worker : Recorded(found[v])
      BY DEF IInv, Pending
    <3>5. Recorded(inbox)'
      BY <3>2, <3>3, <3>4 DEF Recorded
    <3>6. ASSUME NEW v \in Worker PROVE Recorded(found[v])'
      <4>1. CASE v = w
        BY <2>3, <4>1 DEF Recorded
      <4>2. CASE v # w
        BY <2>2, <3>2, <3>3, <3>4, <4>2 DEF Recorded
      <4> QED BY <4>1, <4>2
    <3> QED BY <3>5, <3>6
  <2>5. \A v \in Worker \ {w} : found'[v] \cap found'[w] = {}
    BY <2>2, <2>3 DEF IInv, Pending, Recorded
  <2>6. found'[w] \cap inbox' = {}
    BY <2>3 DEF IInv, Pending, Recorded
  <2> QED BY <2>2, <2>4, <2>5, <2>6 DEF IInv, Pending
<1>10. SentOnce' /\ MarkedIsDelivered' /\ MinesDelivered'
  BY DEF IInv, SentOnce, MarkedIsDelivered, MinesDelivered, Delivered
<1> QED BY <1>4, <1>5, <1>6, <1>7, <1>8, <1>9, <1>10 DEF IInv

-----------------------------------------------------------------------------
(* Routing: the recorded events and the market are left alone. *)

LEMMA StoreKept ==
  ASSUME IInv, UNCHANGED <<store, tape>>
  PROVE  LogRecorded' /\ LifecyclePath' /\ OneTransitionPerEvent'
BY DEF IInv, store, LogRecorded, LifecyclePath, OneTransitionPerEvent

LEMMA StartRouteKeeps == ASSUME IInv, NEW w \in Worker, StartRoute(w) PROVE IInv'
<1> USE DEF StartRoute, chat
<1> DEFINE due == {t \in Alerts(w) : <<t, "audit-database">> \notin dispatch}
           sends == IF w \in Messenger
                    THEN {t \in Alerts(w) : <<t, "telegram">> \notin dispatch}
                    ELSE {}
<1>1. due \subseteq found[w] /\ sends \subseteq found[w] /\ found[w] \subseteq Transition
  BY DEF Alerts, IInv, TypeOK
<1>2. found' = [found EXCEPT ![w] = sends]
  OBVIOUS
<1>3. \/ /\ audit' = audit \cup due
         /\ mine' = [mine EXCEPT ![w] = dispatch \cup Marks(due, "audit-database")]
      \/ /\ mine' = [mine EXCEPT ![w] = dispatch]
         /\ audit' = audit
  OBVIOUS
<1> HIDE DEF due, sends
<1>4. Marks(due, "audit-database") \subseteq Mark
  BY <1>1 DEF Marks, Mark, Channel
<1>5. TypeOK'
  <2>1. found' \in [Worker -> SUBSET Transition] /\ phase' \in [Worker -> Phase]
    BY <1>1, <1>2 DEF IInv, TypeOK, Phase
  <2>2. mine' \in [Worker -> SUBSET Mark] /\ audit' \subseteq Transition
    BY <1>1, <1>3, <1>4 DEF IInv, TypeOK
  <2> QED BY <2>1, <2>2 DEF IInv, TypeOK, store
<1>6. OnTape'
  BY DEF IInv, OnTape
<1>7. LogRecorded' /\ LifecyclePath' /\ OneTransitionPerEvent'
  BY StoreKept
<1>8. Pending'
  <2>1. \A v \in Worker : found'[v] \subseteq found[v]
    BY <1>1, <1>2 DEF IInv, TypeOK
  <2>2. /\ Recorded(inbox) /\ \A v \in Worker : Recorded(found[v])
        /\ \A v \in Worker : found[v] \cap inbox = {}
        /\ \A u, v \in Worker : u # v => found[u] \cap found[v] = {}
        /\ seen' = seen
    BY DEF IInv, Pending, store
  <2>3. Recorded(inbox)' /\ \A v \in Worker : Recorded(found[v])'
    BY <2>1, <2>2 DEF Recorded
  <2>4. /\ \A v \in Worker : found'[v] \cap inbox' = {}
        /\ \A u, v \in Worker : u # v => found'[u] \cap found'[v] = {}
    BY <2>1, <2>2
  <2> QED BY <2>3, <2>4 DEF Pending
<1>9. SentOnce' /\ MarkedIsDelivered'
  BY <1>3 DEF IInv, SentOnce, MarkedIsDelivered
<1>10. MinesDelivered'
  <2> SUFFICES ASSUME NEW v \in Worker, NEW mark \in mine'[v]
               PROVE  mark[1] \in (IF mark[2] = "telegram" THEN inbox ELSE audit')
    BY DEF MinesDelivered, Delivered
  <2>1. CASE v # w
    <3>1. mark \in mine[v]
      BY <1>3, <2>1 DEF IInv, TypeOK
    <3> QED BY <1>3, <3>1 DEF IInv, MinesDelivered, Delivered
  <2>2. CASE v = w /\ mark \in dispatch
    BY <1>3, <2>2 DEF IInv, MarkedIsDelivered
  <2>3. CASE v = w /\ mark \notin dispatch
    <3>1. /\ audit' = audit \cup due
          /\ mark \in Marks(due, "audit-database")
      BY <1>3, <2>3 DEF IInv, TypeOK
    <3> QED BY <3>1 DEF Marks
  <2> QED BY <2>1, <2>2, <2>3
<1> QED BY <1>5, <1>6, <1>7, <1>8, <1>9, <1>10 DEF IInv

LEMMA SendKeeps == ASSUME IInv, NEW w \in Worker, Send(w) PROVE IInv'
<1> USE DEF Send, store
<1>1. PICK t \in found[w] : /\ SendOk(w, t) \/ SendFails(t)
                            /\ found' = [found EXCEPT ![w] = Remaining(@, t)]
  OBVIOUS
<1>2. t \in Transition /\ t \notin inbox /\ inbox \subseteq Transition
  BY DEF IInv, TypeOK, Pending
<1>3. /\ inbox \subseteq inbox' /\ inbox' \subseteq inbox \cup {t}
      /\ repeats' = repeats
  BY <1>1, <1>2 DEF SendOk, SendFails, Arrive
<1>4. \/ /\ mine' = mine
      \/ /\ mine' = [mine EXCEPT ![w] = @ \cup Marks({t}, "telegram")]
         /\ t \in inbox'
  BY <1>1 DEF SendOk, SendFails, Arrive, Acknowledged
<1>5. found' = [found EXCEPT ![w] = @ \ {t}]
  BY <1>1 DEF Remaining
<1>6. TypeOK'
  <2>1. Marks({t}, "telegram") \subseteq Mark
    BY <1>2 DEF Marks, Mark, Channel
  <2>2. mine' \in [Worker -> SUBSET Mark]
    BY <1>4, <2>1 DEF IInv, TypeOK
  <2>3. found' \in [Worker -> SUBSET Transition]
    BY <1>5 DEF IInv, TypeOK
  <2>4. failed' \subseteq Transition
    BY <1>1, <1>2 DEF SendOk, SendFails, IInv, TypeOK
  <2>5. inbox' \subseteq Transition /\ repeats' \subseteq inbox'
    BY <1>2, <1>3 DEF IInv, TypeOK
  <2> QED BY <2>2, <2>3, <2>4, <2>5 DEF IInv, TypeOK
<1>7. OnTape'
  BY DEF IInv, OnTape
<1>8. LogRecorded' /\ LifecyclePath' /\ OneTransitionPerEvent'
  BY StoreKept
<1>9. Pending'
  <2>1. /\ found'[w] = found[w] \ {t}
        /\ \A v \in Worker \ {w} : found'[v] = found[v] /\ t \notin found[v]
    BY <1>5 DEF IInv, TypeOK, Pending
  <2>2. /\ Recorded(inbox) /\ \A v \in Worker : Recorded(found[v])
        /\ \A v \in Worker : found[v] \cap inbox = {}
        /\ \A u, v \in Worker : u # v => found[u] \cap found[v] = {}
        /\ seen' = seen
    BY DEF IInv, Pending
  <2>3. Recorded(inbox)'
    BY <1>3, <2>2 DEF Recorded
  <2>4. \A v \in Worker : found'[v] \subseteq found[v] /\ t \notin found'[v]
    BY <2>1
  <2>5. \A v \in Worker : Recorded(found[v])'
    BY <2>2, <2>4 DEF Recorded
  <2>6. /\ \A v \in Worker : found'[v] \cap inbox' = {}
        /\ \A u, v \in Worker : u # v => found'[u] \cap found'[v] = {}
    BY <1>3, <2>2, <2>4
  <2> QED BY <2>3, <2>5, <2>6 DEF Pending
<1>10. SentOnce'
  BY <1>3 DEF IInv, SentOnce
<1>11. MarkedIsDelivered'
  BY <1>3 DEF IInv, MarkedIsDelivered
<1>12. MinesDelivered'
  <2> SUFFICES ASSUME NEW v \in Worker, NEW mark \in mine'[v]
               PROVE  mark[1] \in (IF mark[2] = "telegram" THEN inbox' ELSE audit)
    BY DEF MinesDelivered, Delivered
  <2>1. CASE mark \in mine[v]
    BY <1>3, <2>1 DEF IInv, MinesDelivered, Delivered
  <2>2. CASE mark \notin mine[v]
    <3>1. mark \in Marks({t}, "telegram") /\ t \in inbox'
      BY <1>4, <2>2 DEF IInv, TypeOK
    <3> QED BY <3>1 DEF Marks
  <2> QED BY <2>1, <2>2
<1> QED BY <1>6, <1>7, <1>8, <1>9, <1>10, <1>11, <1>12 DEF IInv

(***************************************************************************)
(* Save and Abandon end a cycle; they differ in the document they leave.    *)
(***************************************************************************)
LEMMA RestKeeps ==
  ASSUME IInv, NEW w \in Worker, Rest(w), dispatch' \in {dispatch, mine[w]}
  PROVE  IInv'
<1> USE DEF Rest, store, chat
<1>1. TypeOK'
  <2>1. /\ batch' \in [Worker -> [Signal -> Position]]
        /\ phase' \in [Worker -> Phase]
    BY MaxQuoteAssumption DEF IInv, TypeOK, NoRows, Position, Phase
  <2>2. found' \in [Worker -> SUBSET Transition] /\ mine' \in [Worker -> SUBSET Mark]
    BY DEF IInv, TypeOK
  <2> QED BY <2>1, <2>2 DEF IInv, TypeOK
<1>2. OnTape'
  BY MaxQuoteAssumption DEF IInv, TypeOK, OnTape, NoRows
<1>3. LogRecorded' /\ LifecyclePath' /\ OneTransitionPerEvent'
  BY StoreKept
<1>4. Pending'
  BY DEF IInv, TypeOK, Pending, Recorded
<1>5. SentOnce' /\ MarkedIsDelivered'
  BY DEF IInv, SentOnce, MarkedIsDelivered, MinesDelivered, Delivered
<1>6. MinesDelivered'
  BY DEF IInv, TypeOK, MinesDelivered, Delivered
<1> QED BY <1>1, <1>2, <1>3, <1>4, <1>5, <1>6 DEF IInv

LEMMA NextInv == IInv /\ [Next]_vars => IInv'
<1> SUFFICES ASSUME IInv, [Next]_vars PROVE IInv'
  OBVIOUS
<1>1. ASSUME NEW s \in Signal, Quote(s) PROVE IInv'
  BY <1>1, QuoteKeeps
<1>2. ASSUME NEW w \in Worker, Poll(w) PROVE IInv'
  BY <1>2, PollKeeps
<1>3. ASSUME NEW w \in Worker, Reduce(w) PROVE IInv'
  BY <1>3, ReduceKeeps
<1>4. ASSUME NEW w \in Worker, StartRoute(w) PROVE IInv'
  BY <1>4, StartRouteKeeps
<1>5. ASSUME NEW w \in Worker, Send(w) PROVE IInv'
  BY <1>5, SendKeeps
<1>6. ASSUME NEW w \in Worker, Save(w) PROVE IInv'
  BY <1>6, RestKeeps DEF Save
<1>7. ASSUME NEW w \in Worker, Abandon(w) PROVE IInv'
  BY <1>7, RestKeeps DEF Abandon
<1>8. CASE UNCHANGED vars
  BY <1>8 DEF vars, store, cycle, chat, IInv, TypeOK, OnTape, LogRecorded,
       LifecyclePath, OneTransitionPerEvent, Pending, Recorded, SentOnce,
       MarkedIsDelivered, MinesDelivered, Delivered
<1> QED BY <1>1, <1>2, <1>3, <1>4, <1>5, <1>6, <1>7, <1>8 DEF Next

-----------------------------------------------------------------------------
(* The strengthened invariant holds in every behaviour. *)
THEOREM Invariance == Spec => []IInv
BY InitInv, NextInv, PTL DEF Spec

(* The stored documents, the tables and the workers' memory keep their types. *)
THEOREM TypeCorrect == Spec => []TypeOK
BY Invariance, PTL DEF IInv

(* Stored transitions form one legal path to the stored state, and one event  *)
(* moves a signal at most once, for any number of workers.                    *)
THEOREM LifecycleIntegrity == Spec => []LifecyclePath
BY Invariance, PTL DEF IInv

(* One observation causes at most one transition of its signal. *)
THEOREM Idempotence == Spec => []OneTransitionPerEvent
BY Invariance, PTL DEF IInv

(* No alert reaches the chat twice, with any failures, restarts and races. *)
THEOREM AtMostOnce == Spec => []SentOnce
BY Invariance, PTL DEF IInv

(* The dispatch document never claims a delivery that did not happen. *)
THEOREM HonestDispatch == Spec => []MarkedIsDelivered
BY Invariance, PTL DEF IInv
-----------------------------------------------------------------------------
(***************************************************************************)
(* From the recorded transitions to the alerts, and back.                   *)
(***************************************************************************)
Logged(t) == \E n \in 1 .. Len(log[t.signal]) : log[t.signal][n] = t

(* Nothing is audited, sent or tried that process_batch did not commit: the
   transitions are returned after the commit (engine.py), and neither routing
   nor another worker's cycle makes one up. *)
NothingInvented ==
  /\ \A t \in audit \cup inbox \cup failed : Logged(t)
  /\ \A w \in Worker : \A t \in found[w] : Logged(t)

(* Without failures a recorded entry or ending is audited, or the worker that
   recorded it has yet to route it: no dispatch document, and no other worker,
   takes it out of that worker's hands. *)
MovesCarried ==
  ~Faults =>
    \A s \in Signal : \A n \in 1 .. Len(log[s]) :
      log[s][n].to \in Entry \cup Terminal =>
        log[s][n] \in audit \/ \E w \in Worker : phase[w] = "reduced" /\ log[s][n] \in found[w]

\* What a step does to one signal's log: nothing, or it appends what its worker found.
LEMMA LogStep ==
  ASSUME IInv, [Next]_vars, NEW s \in Signal
  PROVE  \/ log'[s] = log[s]
         \/ \E w \in Worker : /\ Reduce(w)
                              /\ TransitionOf(w, s) \in found'[w]
                              /\ log'[s] = Append(log[s], TransitionOf(w, s))
<1>1. ASSUME NEW w \in Worker, Reduce(w), s \in Moved(w)
      PROVE  TransitionOf(w, s) \in found'[w] /\ log'[s] = Append(log[s], TransitionOf(w, s))
  <2>1. found' = [found EXCEPT ![w] = {TransitionOf(w, r) : r \in Moved(w)}]
    BY <1>1 DEF Reduce
  <2>2. found'[w] = {TransitionOf(w, r) : r \in Moved(w)}
    BY <2>1 DEF IInv, TypeOK
  <2>3. log'[s] = Append(log[s], TransitionOf(w, s))
    BY <1>1 DEF Reduce
  <2> QED
    BY <1>1, <2>2, <2>3
<1>2. ASSUME NEW w \in Worker, Reduce(w), s \notin Moved(w) PROVE log'[s] = log[s]
  BY <1>2 DEF Reduce
<1>3. ASSUME NEW r \in Signal, Quote(r) PROVE log' = log
  BY <1>3 DEF Quote, store
<1>4. ASSUME NEW w \in Worker, Poll(w) \/ StartRoute(w) \/ Send(w) \/ Save(w) \/ Abandon(w)
      PROVE  log' = log
  BY <1>4 DEF Poll, StartRoute, Send, Save, Abandon, Rest, store
<1>5. CASE UNCHANGED vars
  BY <1>5 DEF vars, store
<1> QED
  BY <1>1, <1>2, <1>3, <1>4, <1>5 DEF Next

\* Logs only grow: entries keep their places.
LEMMA LogGrows ==
  ASSUME IInv, [Next]_vars, NEW s \in Signal
  PROVE  /\ Len(log[s]) \in Nat /\ Len(log'[s]) \in Nat /\ Len(log[s]) <= Len(log'[s])
         /\ \A n \in 1 .. Len(log[s]) : log'[s][n] = log[s][n]
<1>1. log[s] \in Seq(Transition)
  BY DEF IInv, TypeOK
<1>2. ASSUME NEW t, log'[s] = Append(log[s], t)
      PROVE  /\ Len(log[s]) \in Nat /\ Len(log'[s]) \in Nat /\ Len(log[s]) <= Len(log'[s])
             /\ \A n \in 1 .. Len(log[s]) : log'[s][n] = log[s][n]
  BY <1>1, <1>2
<1> QED
  BY <1>1, <1>2, LogStep

LEMMA LoggedKept ==
  ASSUME IInv, [Next]_vars, NEW t \in Transition, Logged(t)
  PROVE  Logged(t)'
<1>1. t.signal \in Signal
  BY DEF Transition
<1> QED
  BY <1>1, LogGrows DEF Logged

\* A worker's step adds to what is found, audited and tried nothing but what it
\* had found, or what it records in this very step.
LEMMA OnlyFound ==
  ASSUME IInv, [Next]_vars
  PROVE  /\ \A t \in (audit \cup inbox \cup failed)' :
              t \in audit \cup inbox \cup failed \/ \E w \in Worker : t \in found[w]
         /\ \A w \in Worker : \A t \in found'[w] :
              \/ t \in found[w]
              \/ Reduce(w) /\ \E s \in Moved(w) : t = TransitionOf(w, s)
<1>0. found \in [Worker -> SUBSET Transition] /\ inbox \subseteq Transition
  BY DEF IInv, TypeOK
<1>1. ASSUME NEW r \in Signal, Quote(r)
      PROVE  UNCHANGED <<audit, inbox, failed, found>>
  BY <1>1 DEF Quote, cycle, chat
<1>2. ASSUME NEW w \in Worker, Poll(w)
      PROVE  UNCHANGED <<audit, inbox, failed, found>>
  BY <1>2 DEF Poll, chat
<1>3. ASSUME NEW w \in Worker, Save(w) \/ Abandon(w)
      PROVE  UNCHANGED <<audit, inbox, failed>> /\ \A v \in Worker : found'[v] \subseteq found[v]
  BY <1>0, <1>3 DEF Save, Abandon, Rest, chat
<1>4. ASSUME NEW w \in Worker, Reduce(w)
      PROVE  /\ UNCHANGED <<audit, inbox, failed>>
             /\ found'[w] = {TransitionOf(w, s) : s \in Moved(w)}
             /\ \A v \in Worker \ {w} : found'[v] = found[v]
  BY <1>0, <1>4 DEF Reduce, chat
<1>5. ASSUME NEW w \in Worker, StartRoute(w)
      PROVE  /\ UNCHANGED <<inbox, failed>> /\ audit' \subseteq audit \cup found[w]
             /\ \A v \in Worker : found'[v] \subseteq found[v]
  <2>1. Alerts(w) \subseteq found[w]
    BY DEF Alerts
  <2>2. audit' \subseteq audit \cup Alerts(w) /\ UNCHANGED <<inbox, failed>>
    BY <1>5 DEF StartRoute, chat
  <2>3. \E f \in SUBSET Alerts(w) : found' = [found EXCEPT ![w] = f]
    <3>1. CASE w \in Messenger
      <4>1. found' = [found EXCEPT ![w] = {t \in Alerts(w) : <<t, "telegram">> \notin dispatch}]
        BY <1>5, <3>1 DEF StartRoute
      <4> QED
        BY <4>1
    <3>2. CASE w \notin Messenger
      <4>1. found' = [found EXCEPT ![w] = {}]
        BY <1>5, <3>2 DEF StartRoute
      <4> QED
        BY <4>1
    <3> QED
      BY <3>1, <3>2
  <2> QED
    BY <1>0, <2>1, <2>2, <2>3
<1>6. ASSUME NEW w \in Worker, Send(w)
      PROVE  /\ audit' = audit /\ inbox' \subseteq inbox \cup found[w]
             /\ failed' \subseteq failed \cup found[w]
             /\ \A v \in Worker : found'[v] \subseteq found[v]
  <2>1. PICK t \in found[w] : /\ SendOk(w, t) \/ SendFails(t)
                              /\ found' = [found EXCEPT ![w] = Remaining(@, t)]
    BY <1>6 DEF Send
  <2>2. audit' = audit
    BY <1>6 DEF Send
  <2>3. inbox' \subseteq inbox \cup {t} /\ failed' \subseteq failed \cup {t}
    BY <2>1 DEF SendOk, SendFails, Arrive
  <2>4. \A v \in Worker : found'[v] \subseteq found[v]
    BY <1>0, <2>1 DEF Remaining
  <2> QED
    BY <2>1, <2>2, <2>3, <2>4
<1>7. CASE UNCHANGED vars
  BY <1>7 DEF vars, cycle, chat
<1>8. CASE \E w \in Worker : Reduce(w)
  BY <1>4, <1>8
<1>9. CASE \E r \in Signal : Quote(r)
  BY <1>1, <1>9
<1>10. CASE \E w \in Worker : Poll(w)
  BY <1>2, <1>10
<1>11. CASE \E w \in Worker : Save(w) \/ Abandon(w)
  BY <1>3, <1>11
<1>12. CASE \E w \in Worker : StartRoute(w)
  BY <1>5, <1>12
<1>13. CASE \E w \in Worker : Send(w)
  BY <1>6, <1>13
<1> QED
  BY <1>7, <1>8, <1>9, <1>10, <1>11, <1>12, <1>13 DEF Next

LEMMA InventedStep == IInv /\ NothingInvented /\ [Next]_vars => NothingInvented'
<1> SUFFICES ASSUME IInv, NothingInvented, [Next]_vars PROVE NothingInvented'
  OBVIOUS
<1>1. /\ audit \cup inbox \cup failed \subseteq Transition
      /\ \A w \in Worker : found[w] \subseteq Transition
  BY DEF IInv, TypeOK
<1>2. \A t \in audit \cup inbox \cup failed : Logged(t)'
  BY <1>1, LoggedKept DEF NothingInvented
<1>3. \A w \in Worker : \A t \in found[w] : Logged(t)'
  BY <1>1, LoggedKept DEF NothingInvented
<1>4. ASSUME NEW w \in Worker, Reduce(w), NEW s \in Moved(w), NEW t, t = TransitionOf(w, s)
      PROVE  Logged(t)'
  <2>1. s \in Signal /\ TransitionOf(w, s).signal = s
    BY DEF Moved, TransitionOf
  <2>2. log'[s] = Append(log[s], TransitionOf(w, s)) /\ log[s] \in Seq(Transition)
    BY <1>4, <2>1 DEF Reduce, IInv, TypeOK
  <2> DEFINE n == Len(log[s]) + 1
  <2>3. n \in 1 .. Len(log'[s]) /\ log'[s][n] = t
    <3>1. TransitionOf(w, s) \in Transition
      BY <2>1, ReducedMoves
    <3> QED
      BY <1>4, <2>2, <3>1
  <2> HIDE DEF n
  <2> QED
    BY <1>4, <2>1, <2>3 DEF Logged
<1>5. \A t \in (audit \cup inbox \cup failed)' : Logged(t)'
  BY <1>2, <1>3, OnlyFound
<1>6. \A w \in Worker : \A t \in found'[w] : Logged(t)'
  <2> SUFFICES ASSUME NEW w \in Worker, NEW t \in found'[w] PROVE Logged(t)'
    OBVIOUS
  <2>1. t \in found[w] \/ (Reduce(w) /\ \E s \in Moved(w) : t = TransitionOf(w, s))
    BY OnlyFound
  <2> QED
    BY <1>3, <1>4, <2>1
<1> QED
  BY <1>5, <1>6 DEF NothingInvented

(***************************************************************************)
(* Every alert, delivered or attempted, is a recorded transition, with any  *)
(* failures, restarts and races.                                            *)
(***************************************************************************)
THEOREM AlertsAreRecorded == Spec => []NothingInvented
<1>1. Init => NothingInvented
  BY DEF Init, NothingInvented
<1> QED
  BY <1>1, InventedStep, Invariance, PTL DEF Spec

LEMMA AuditGrows == ASSUME [Next]_vars PROVE audit \subseteq audit'
<1>1. ASSUME NEW r \in Signal, Quote(r) PROVE audit' = audit
  BY <1>1 DEF Quote
<1>2. ASSUME NEW w \in Worker, Poll(w) \/ Reduce(w) \/ Send(w) \/ Save(w) \/ Abandon(w)
      PROVE  audit' = audit
  BY <1>2 DEF Poll, Reduce, Send, Save, Abandon, Rest
<1>3. ASSUME NEW w \in Worker, StartRoute(w) PROVE audit \subseteq audit'
  BY <1>3 DEF StartRoute
<1> QED
  BY <1>1, <1>2, <1>3 DEF Next, vars

\* Nobody but the worker itself, by routing, ends its phase "reduced".
LEMMA HandsKept ==
  ASSUME IInv, [Next]_vars, ~Faults, NEW w \in Worker, phase[w] = "reduced", ~StartRoute(w)
  PROVE  phase'[w] = "reduced" /\ found'[w] = found[w]
<1>0. phase \in [Worker -> Phase] /\ found \in [Worker -> SUBSET Transition]
  BY DEF IInv, TypeOK
<1>1. ASSUME NEW r \in Signal, Quote(r) PROVE UNCHANGED <<phase, found>>
  BY <1>1 DEF Quote, cycle
<1>2. ASSUME NEW v \in Worker, v # w,
             Poll(v) \/ Reduce(v) \/ StartRoute(v) \/ Send(v) \/ Save(v)
      PROVE  phase'[w] = phase[w] /\ found'[w] = found[w]
  BY <1>0, <1>2 DEF Poll, Reduce, StartRoute, Send, Save, Rest
<1>3. ~(Poll(w) \/ Reduce(w) \/ Send(w) \/ Save(w))
  BY DEF Poll, Reduce, Send, Save
<1>4. \A v \in Worker : ~Abandon(v)
  BY DEF Abandon
<1>5. CASE UNCHANGED vars
  BY <1>5 DEF vars, cycle
<1> QED
  BY <1>1, <1>2, <1>3, <1>4, <1>5 DEF Next

LEMMA CarriedStep == IInv /\ MovesCarried /\ [Next]_vars => MovesCarried'
<1> SUFFICES ASSUME IInv, MovesCarried, [Next]_vars, ~Faults,
                    NEW s \in Signal, NEW n \in 1 .. Len(log'[s]),
                    NEW t, t = log'[s][n], t.to \in Entry \cup Terminal
             PROVE  t \in audit' \/ \E w \in Worker : phase'[w] = "reduced" /\ t \in found'[w]
  BY DEF MovesCarried
<1>1. CASE n \notin 1 .. Len(log[s])
  <2>1. PICK w \in Worker : /\ Reduce(w)
                             /\ TransitionOf(w, s) \in found'[w]
                             /\ log'[s] = Append(log[s], TransitionOf(w, s))
    BY <1>1, LogStep
  <2>2. t = TransitionOf(w, s)
    <3>1. n = Len(log[s]) + 1 /\ log[s] \in Seq(Transition)
      BY <1>1, <2>1 DEF IInv, TypeOK
    <3> QED
      BY <2>1, <3>1
  <2>3. phase'[w] = "reduced"
    BY <2>1 DEF Reduce, IInv, TypeOK
  <2> QED
    BY <2>1, <2>2, <2>3
<1>2. CASE n \in 1 .. Len(log[s])
  <2>1. t = log[s][n]
    BY <1>2, LogGrows
  <2>2. t \in audit \/ \E w \in Worker : phase[w] = "reduced" /\ t \in found[w]
    BY <1>2, <2>1 DEF MovesCarried
  <2>3. audit \subseteq audit'
    BY AuditGrows
  <2>4. ASSUME NEW w \in Worker, phase[w] = "reduced", t \in found[w], t \notin audit'
        PROVE  phase'[w] = "reduced" /\ t \in found'[w]
    <3>1. ~StartRoute(w)
      <4> SUFFICES ASSUME StartRoute(w) PROVE t \in audit'
        BY <2>4
      <4>1. t \in Alerts(w)
        BY <2>4 DEF Alerts, Actionable, Entry, Terminal
      <4>2. audit' = audit \cup {a \in Alerts(w) : <<a, "audit-database">> \notin dispatch}
        BY DEF StartRoute
      <4>3. <<t, "audit-database">> \in dispatch => t \in audit
        BY DEF IInv, MarkedIsDelivered
      <4> QED
        BY <4>1, <4>2, <4>3
    <3> QED
      BY <2>4, <3>1, HandsKept
  <2> QED
    BY <2>2, <2>3, <2>4
<1> QED
  BY <1>1, <1>2

(***************************************************************************)
(* What EveryMoveAudited rests on: between the commit and the audit table   *)
(* there is always one worker that holds the transition, whatever the other *)
(* workers do; what liveness adds is only that this worker goes on.         *)
(***************************************************************************)
THEOREM CarriedToTheAudit == Spec => []MovesCarried
<1>1. Init => MovesCarried
  BY DEF Init, MovesCarried
<1> QED
  BY <1>1, CarriedStep, Invariance, PTL DEF Spec
===============================================================================
