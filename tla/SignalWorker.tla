----------------------------- MODULE SignalWorker -----------------------------
(***************************************************************************)
(* The V4 monitor's path from market data to alerts: workers                *)
(* (scanner/v4/worker.py) poll live snapshots, reduce them into the shared  *)
(* signal state with one atomic transaction (engine.process_batch over      *)
(* control_plane.update_state_events), and route the returned transitions   *)
(* to the audit table and to Telegram (alerting.AlertRouter).  Every step   *)
(* between two of those database or network calls may interleave with the   *)
(* other workers, fail, or be the last one of a process.                    *)
(***************************************************************************)
EXTENDS Naturals, Sequences, Functions, SignalLifecycle

CONSTANTS Signal,     \* signal ids: ticker|entry|stop
          Worker,     \* processes that run cycles
          Messenger,  \* the workers started with --telegram-alerts
          Snapshot,   \* the snapshots the provider may return
          MaxQuote,   \* bound: snapshots per signal
          Faults      \* whether calls may fail and processes may stop

ASSUME MessengerAssumption == Messenger \subseteq Worker
ASSUME SnapshotAssumption == Snapshot \subseteq SnapshotType
ASSUME MaxQuoteAssumption == MaxQuote \in Nat

VARIABLES
  tape,      \* the provider: what it has shown of each signal, in order
  state,     \* state_document v4/signal_state: each signal's state, or New
  seen,      \* event_record v4.events: the snapshots recorded for each signal
  log,       \* event_record v4.events: each signal's transition events, in order
  dispatch,  \* state_document v4/alert_dispatch: <<alert, channel>> delivered
  audit,     \* event_record v4.alerts
  phase,     \* where each worker is in its cycle
  batch,     \* each worker's polled rows: a position on each signal's tape
  found,     \* transitions process_batch returned, not yet sent
  mine,      \* the dispatch document each worker is about to save
  inbox,     \* history: alerts that reached the Telegram chat
  repeats,   \* history: alerts that reached it more than once
  failed     \* history: alerts whose send raised and was not attempted since

store == <<state, seen, log>>
cycle == <<phase, batch, found, mine>>
chat == <<inbox, repeats, failed>>
vars == <<tape, store, dispatch, audit, cycle, chat>>

\* The rows of a batch are positions on the tapes; 0 is "no row".  An event's id
\* is a hash of its signal, bar time and payload, so a position names an event.
Position == 0 .. MaxQuote
Transition == [signal : Signal, event : Position \ {0},
               from : CandidateState \cup {New}, to : CandidateState]
Channel == {"audit-database", "telegram"}
Mark == Transition \X Channel
Phase == {"idle", "polled", "reduced", "routing"}

NoRows == [s \in Signal |-> 0]

Init ==
  /\ tape = [s \in Signal |-> <<>>]
  /\ state = [s \in Signal |-> New]
  /\ seen = [s \in Signal |-> {}]
  /\ log = [s \in Signal |-> <<>>]
  /\ dispatch = {}
  /\ audit = {}
  /\ phase = [w \in Worker |-> "idle"]
  /\ batch = [w \in Worker |-> NoRows]
  /\ found = [w \in Worker |-> {}]
  /\ mine = [w \in Worker |-> {}]
  /\ inbox = {}
  /\ repeats = {}
  /\ failed = {}

-----------------------------------------------------------------------------
\* The provider shows a new bar, or new values within a bar.
Quote(s) ==
  /\ Len(tape[s]) < MaxQuote
  /\ \E snap \in Snapshot : tape' = [tape EXCEPT ![s] = Append(@, snap)]
  /\ UNCHANGED <<store, dispatch, audit, cycle, chat>>

\* run_cycle up to the adapter's answer: the newest snapshot of each candidate
\* of this cycle's batch that the provider returned.
Poll(w) ==
  /\ phase[w] = "idle"
  /\ \E received \in SUBSET Signal \ {{}} :
       batch' = [batch EXCEPT ![w] =
                  [s \in Signal |-> IF s \in received THEN Len(tape[s]) ELSE 0]]
  /\ phase' = [phase EXCEPT ![w] = "polled"]
  /\ UNCHANGED <<tape, store, dispatch, audit, found, mine, chat>>

\* Rows whose event id is not in event_record yet: the others are observations
\* without a transition.
Unseen(w) == {s \in Signal : batch[w][s] # 0 /\ batch[w][s] \notin seen[s]}

Reduced(w, s) == IF s \in Unseen(w)
                 THEN NextState(state[s], tape[s][batch[w][s]])
                 ELSE state[s]

Moved(w) == {s \in Signal : Reduced(w, s) # state[s]}

TransitionOf(w, s) == [signal |-> s, event |-> batch[w][s],
                       from |-> state[s], to |-> Reduced(w, s)]

\* process_batch: one transaction under the state document's advisory lock reads
\* the document and the recorded ids, reduces, and writes events, transition
\* events and the new document.  The transitions are returned after the commit.
Reduce(w) ==
  /\ phase[w] = "polled"
  /\ state' = [s \in Signal |-> Reduced(w, s)]
  /\ seen' = [s \in Signal |-> seen[s] \cup ({batch[w][s]} \ {0})]
  /\ log' = [s \in Signal |-> IF s \in Moved(w)
                              THEN Append(log[s], TransitionOf(w, s))
                              ELSE log[s]]
  /\ found' = [found EXCEPT ![w] = {TransitionOf(w, s) : s \in Moved(w)}]
  /\ phase' = [phase EXCEPT ![w] = "reduced"]
  /\ batch' = [batch EXCEPT ![w] = NoRows]     \* not looked at again
  /\ UNCHANGED <<tape, dispatch, audit, mine, chat>>

-----------------------------------------------------------------------------
\* AlertRouter.route
\* Mutant: a failed breakout is not worth an alert.
NoFailureAlerts == {"TRIGGERED", "LIVE_CONFIRMED", "TARGET_HIT", "INVALIDATED"}

Actionable == {"TRIGGERED", "LIVE_CONFIRMED", "TARGET_HIT", "FAILED_BREAKOUT",
               "INVALIDATED"}

Alerts(w) == {t \in found[w] : t.to \in Actionable}

\* Mutant: a delivery to one channel is booked for all of them.
MarksAll(alerts, channel) == alerts \X Channel

Marks(alerts, channel) == alerts \X {channel}

\* route loads the dispatch document and offers the audit table every alert it
\* does not mark as audited, in one insert that ignores keys it already has.  A
\* failed insert is counted and routing goes on; only a worker with a Telegram
\* sink has sends left to do.
StartRoute(w) ==
  /\ phase[w] = "reduced"
  /\ LET due == {t \in Alerts(w) : <<t, "audit-database">> \notin dispatch}
     IN  \/ /\ audit' = audit \cup due
            /\ mine' = [mine EXCEPT ![w] = dispatch \cup Marks(due, "audit-database")]
         \/ /\ Faults
            /\ mine' = [mine EXCEPT ![w] = dispatch]
            /\ UNCHANGED audit
  /\ found' = [found EXCEPT ![w] =
                IF w \in Messenger
                THEN {t \in Alerts(w) : <<t, "telegram">> \notin dispatch}
                ELSE {}]
  /\ phase' = [phase EXCEPT ![w] = "routing"]
  /\ UNCHANGED <<tape, store, dispatch, batch, chat>>

\* Mutant: an alert whose send raised stays in the loop until it is acknowledged.
UntilAcknowledged(todo, t) == IF t \in failed' THEN todo ELSE todo \ {t}

\* The alerts still to be sent after t was tried: the loop goes on whether the
\* send raised or not.
Remaining(todo, t) == todo \ {t}

\* The marks after a send of t that returned.
Acknowledged(marks, t) == marks \cup Marks({t}, "telegram")

Arrive(t) ==
  /\ inbox' = inbox \cup {t}
  /\ repeats' = IF t \in inbox THEN repeats \cup {t} ELSE repeats

\* The request returns a success status.
SendOk(w, t) ==
  /\ Arrive(t)
  /\ failed' = failed \ {t}
  /\ mine' = [mine EXCEPT ![w] = Acknowledged(@, t)]

\* The request raises: refused or unreachable, or timed out with the message
\* delivered all the same.
SendFails(t) ==
  /\ Faults
  /\ \/ Arrive(t)
     \/ UNCHANGED <<inbox, repeats>>
  /\ failed' = failed \cup {t}
  /\ UNCHANGED mine

Send(w) ==
  /\ phase[w] = "routing"
  /\ \E t \in found[w] :
       /\ SendOk(w, t) \/ SendFails(t)
       /\ found' = [found EXCEPT ![w] = Remaining(@, t)]
  /\ UNCHANGED <<tape, store, dispatch, audit, phase, batch>>

\* The cycle ends: nothing of it is kept in memory.
Rest(w) ==
  /\ phase' = [phase EXCEPT ![w] = "idle"]
  /\ batch' = [batch EXCEPT ![w] = NoRows]
  /\ found' = [found EXCEPT ![w] = {}]
  /\ mine' = [mine EXCEPT ![w] = {}]
  /\ UNCHANGED <<tape, store, audit, chat>>

\* route saves the whole document it loaded, with its own marks added.
Save(w) ==
  /\ phase[w] = "routing"
  /\ found[w] = {}
  /\ dispatch' = mine[w]
  /\ Rest(w)

\* Any call raises and run_cycle's except clause ends the cycle, or the process
\* stops and a later one starts over.
Abandon(w) ==
  /\ Faults
  /\ phase[w] # "idle"
  /\ UNCHANGED dispatch
  /\ Rest(w)

Next ==
  \/ \E s \in Signal : Quote(s)
  \/ \E w \in Worker : \/ Poll(w)
                       \/ Reduce(w)
                       \/ StartRoute(w)
                       \/ Send(w)
                       \/ Save(w)
                       \/ Abandon(w)

Spec == Init /\ [][Next]_vars

\* Telegram accepts a message sooner or later if it is asked again and again.
Delivers(w) ==
  /\ phase[w] = "routing"
  /\ \E t \in found[w] : /\ SendOk(w, t)
                         /\ found' = [found EXCEPT ![w] = Remaining(@, t)]
  /\ UNCHANGED <<tape, store, dispatch, audit, phase, batch>>

\* run_forever starts a cycle after a bounded wait, and every call of a cycle has
\* a timeout; however often cycles are abandoned, not all of them are at the same
\* point.
FairSpec ==
  /\ Spec
  /\ \A w \in Worker : /\ WF_vars(Poll(w))
                        /\ SF_vars(Reduce(w)) /\ SF_vars(StartRoute(w))
                        /\ SF_vars(Delivers(w)) /\ SF_vars(Save(w))

-----------------------------------------------------------------------------
TypeOK ==
  /\ tape \in [Signal -> Seq(Snapshot)]
  /\ \A s \in Signal : Len(tape[s]) <= MaxQuote
  /\ state \in [Signal -> CandidateState \cup {New}]
  /\ seen \in [Signal -> SUBSET (Position \ {0})]
  /\ log \in [Signal -> Seq(Transition)]
  /\ dispatch \subseteq Mark
  /\ audit \subseteq Transition
  /\ phase \in [Worker -> Phase]
  /\ batch \in [Worker -> [Signal -> Position]]
  /\ found \in [Worker -> SUBSET Transition]
  /\ mine \in [Worker -> SUBSET Mark]
  /\ inbox \subseteq Transition
  /\ repeats \subseteq inbox
  /\ failed \subseteq Transition

(***************************************************************************)
(* The recorded transitions of a signal are one path of the lifecycle: the *)
(* first leaves New, each begins where the last one ended, the last ends in *)
(* the stored state, and no step leaves a final state or un-enters a trade  *)
(* -- whatever workers reduced in whatever order.                           *)
(***************************************************************************)
LifecyclePath ==
  \A s \in Signal :
    LET reached(i) == IF i = 0 THEN New ELSE log[s][i].to
    IN  /\ state[s] = reached(Len(log[s]))
        /\ \A i \in 1 .. Len(log[s]) : /\ log[s][i].from = reached(i - 1)
                                       /\ Legal(log[s][i].from, log[s][i].to)

(***************************************************************************)
(* One market observation moves a signal at most once, although every      *)
(* worker polls it, a poll may return it again and retries are allowed      *)
(* ("stable event IDs prevent workflow retries from duplicating events").   *)
(***************************************************************************)
OneTransitionPerEvent ==
  \A s \in Signal : \A i, j \in 1 .. Len(log[s]) :
    log[s][i].event = log[s][j].event => i = j

(***************************************************************************)
(* No alert reaches the chat twice, not even when a send times out after    *)
(* the message was delivered, a worker stops half-way, or two workers       *)
(* overwrite each other's dispatch document.                                *)
(***************************************************************************)
SentOnce == repeats = {}

(***************************************************************************)
(* The dispatch document never claims a delivery that did not happen: an    *)
(* alert marked for a channel has been recorded there.                      *)
(***************************************************************************)
MarkedIsDelivered ==
  \A mark \in dispatch : mark[1] \in (IF mark[2] = "telegram" THEN inbox ELSE audit)

(***************************************************************************)
(* Without failures every entry and every ending is audited.  ("Routes      *)
(* actionable transitions once per channel.")                               *)
(***************************************************************************)
EveryMoveAudited ==
  \A s \in Signal : \A n \in 1 .. MaxQuote :
    (n <= Len(log[s]) /\ log[s][n].to \in Entry \cup Terminal)
      ~> (n <= Len(log[s]) /\ log[s][n] \in audit)

===============================================================================
