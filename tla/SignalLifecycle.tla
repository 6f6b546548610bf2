--------------------------- MODULE SignalLifecycle ---------------------------
(***************************************************************************)
(* The V4 signal lifecycle (scanner/v4/state_machine.py): a pure function  *)
(* from a signal's state and the next candidate snapshot to its next       *)
(* state.  A snapshot is abstracted to the facts the function branches on: *)
(* prices only matter through their comparison with stop and target.       *)
(***************************************************************************)

New == "NEW"   \* No state document entry yet; Transition spells it so.

Terminal == {"FAILED_BREAKOUT", "INVALIDATED", "TARGET_HIT"}
Entry == {"TRIGGERED", "LIVE_CONFIRMED"}
CandidateState == {"DISCOVER", "WATCH", "ARMED"} \cup Entry \cup Terminal

\* stage    the scan's stage: ARMED stands for ARMED and CONFIRMED, OTHER for
\*          everything initial_state maps to WATCH
\* live     live_status is LIVE
\* breach   negative catalyst, or a price at or below the stop
\* target   a price at or above the effective target
\* trigger  live_trigger_reached
\* holds    above VWAP and relative volume not known to be below 0.8
\* buy      the live action is BUY / LIVE CONFIRMED
SnapshotType == [stage : {"ARMED", "DISCOVER", "OTHER"}, live : BOOLEAN,
                 breach : BOOLEAN, target : BOOLEAN, trigger : BOOLEAN,
                 holds : BOOLEAN, buy : BOOLEAN]

InitialState(snap) ==
  CASE snap.stage = "ARMED"    -> "ARMED"
    [] snap.stage = "DISCOVER" -> "DISCOVER"
    [] OTHER                   -> "WATCH"

\* What a live snapshot makes of a signal that is not final.  The order of the
\* tests is the code's: a breach is looked at before the target, and only a
\* signal that has entered can hit a target or fail.
LiveState(previous, snap) ==
  LET entered == previous \in Entry
  IN  IF snap.breach                                     THEN "INVALIDATED"
      ELSE IF entered /\ snap.target                     THEN "TARGET_HIT"
      ELSE IF entered /\ ~(snap.trigger /\ snap.holds)   THEN "FAILED_BREAKOUT"
      ELSE IF snap.buy                                   THEN "LIVE_CONFIRMED"
      ELSE IF snap.trigger                               THEN "TRIGGERED"
      ELSE InitialState(snap)

NextState(previous, snap) ==
  IF previous \in Terminal THEN previous
  ELSE IF snap.live        THEN LiveState(previous, snap)
  ELSE IF previous = New   THEN InitialState(snap)
  ELSE previous

(***************************************************************************)
(* A transition may lead from one state to another exactly when the state  *)
(* is not final, and a signal that has entered either stays entered or     *)
(* ends: a dashboard never sees an entered trade turn into a candidate.    *)
(***************************************************************************)
Legal(from, to) ==
  /\ from # to
  /\ from \notin Terminal
  /\ from \in Entry => to \in Entry \cup Terminal
  /\ to \in {"TARGET_HIT", "FAILED_BREAKOUT"} => from \in Entry
=============================================================================
