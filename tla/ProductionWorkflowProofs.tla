---------------------- MODULE ProductionWorkflowProofs ----------------------
(***************************************************************************)
(* For every exchange calendar (any times of sessions, any windows), any   *)
(* cron schedule and any recovery limit: the daily artifacts match T0, and *)
(* a chain of failures is bounded.                                         *)
(***************************************************************************)
EXTENDS ProductionWorkflow, TLAPS

\* What a run knows of the calendar at each of its phases.
RunTimes ==
  /\ phase # "none" => run.started <= clock
  /\ phase \in {"selected", "gated", "fresh"} => run.daily = Completed[run.started]
  /\ phase \in {"gated", "fresh"} => run.started <= run.asOf /\ run.asOf <= clock
  /\ phase = "fresh" => Completed[run.started] = Completed[run.asOf]

\* The recovery counter in the workflow's inputs counts the failures.
Counted ==
  /\ failed <= MaxRecovery + 1
  /\ phase \in {"started", "selected", "gated", "fresh"} => failed <= run.attempt
  /\ phase \in {"ended", "waiting"} => failed <= run.attempt + 1
  /\ phase \in {"started", "selected", "gated", "fresh", "waiting"} => ~run.ok
  /\ phase = "ended" /\ run.ok => failed = 0
  /\ phase = "waiting" => run.attempt < MaxRecovery
  /\ pending # None /\ pending.by = "chain" => phase = "none" /\ failed <= pending.attempt

Inv == TypeOK /\ DailyMatchesT0 /\ RunTimes /\ Counted

-----------------------------------------------------------------------------
(* Requests and publications are typed, and neither is `None'. *)
LEMMA Requests ==
  ASSUME NEW m \in Mode, NEW a \in 0..MaxRecovery, NEW b \in {"cron", "chain"}
  PROVE  /\ [mode |-> m, attempt |-> a, by |-> b] \in Request
         /\ [mode |-> m, attempt |-> a, by |-> b] # None
<1>1. [mode |-> m, attempt |-> a, by |-> b] \in Request
  BY DEF Request
<1>2. QED
  BY <1>1, NoneAssumption

LEMMA BlankType == Blank \in Facts
BY TimeAssumption, PolicyAssumption DEF Blank, Facts, Mode, Time

(* Nothing has happened yet. *)
LEMMA InitInv == Init => Inv
<1> SUFFICES ASSUME Init PROVE Inv
  OBVIOUS
<1> USE DEF Init
<1>1. TypeOK
  <2>1. dropped \in BOOLEAN
    BY Zenon
  <2>2. QED
    BY <2>1, BlankType, TimeAssumption DEF TypeOK, Phase, Time
<1>2. DailyMatchesT0 /\ RunTimes
  BY DEF DailyMatchesT0, RunTimes
<1>3. Counted
  BY PolicyAssumption DEF Counted
<1>4. QED
  BY <1>1, <1>2, <1>3 DEF Inv

(* Every step keeps the types: attempts stay within the limit that
   plan_continuation accepts. *)
LEMMA TypeStep == TypeOK /\ Counted /\ [Next]_vars => TypeOK'
<1> SUFFICES ASSUME TypeOK, Counted, [Next]_vars PROVE TypeOK'
  OBVIOUS
<1> USE DEF TypeOK
<1>1. CASE Tick
  BY <1>1, TimeAssumption DEF Tick, Time
<1>2. ASSUME NEW s \in Schedule, Fire(s) PROVE TypeOK'
  <2>1. s.mode \in Mode /\ 0 \in 0..MaxRecovery
    BY ScheduleAssumption, PolicyAssumption
  <2>2. QED
    BY <1>2, <2>1, Requests DEF Fire
<1>3. CASE Begin
  <2>1. pending.mode \in Mode /\ pending.attempt \in 0..MaxRecovery
    BY <1>3 DEF Begin, Request
  <2>2. run' \in Facts
    BY <1>3, <2>1, BlankType DEF Begin, Facts
  <2>3. QED
    BY <1>3, <2>2 DEF Begin, Phase
<1>4. CASE SelectMode
  <2>1. Completed[run.started] \in Nat
    BY CalendarAssumption DEF Facts
  <2>2. head # None => head.daily \in Nat
    BY DEF Publication
  <2>3. run' \in Facts
    <3>1. CASE run.requested = "live" /\ Reusable
      BY <1>4, <2>2, <3>1 DEF SelectMode, Reusable, Facts, Mode
    <3>2. CASE ~(run.requested = "live" /\ Reusable)
      BY <1>4, <2>1, <3>2 DEF SelectMode, Facts, Mode
    <3>3. QED
      BY <3>1, <3>2
  <2>4. QED
    BY <1>4, <2>3 DEF SelectMode, Phase
<1>5. CASE Gate \/ CheckFreshness \/ Fail
  BY <1>5 DEF Gate, CheckFreshness, Fail, Facts, Phase
<1>6. CASE Publish
  <2>1. head' \in Publication
    BY <1>6 DEF Publish, Facts, Publication
  <2>2. QED
    BY <1>6, <2>1 DEF Publish, Facts, Phase
<1>7. CASE Cancel \/ QueueFails \/ Stop
  BY <1>7, BlankType DEF Cancel, QueueFails, Drop, Stop, Phase
<1>8. CASE ContinueAfterSuccess
  <2>1. 0 \in 0..MaxRecovery
    BY PolicyAssumption
  <2>2. QED
    BY <1>8, <2>1, BlankType, Requests DEF ContinueAfterSuccess, Dispatch, Phase, Mode
<1>9. CASE BackOff
  <2>1. Earlier(clock + Backoff) \in Time
    BY TimeAssumption, PolicyAssumption DEF Earlier, Time
  <2>2. QED
    BY <1>9, <2>1 DEF BackOff, Facts, Phase
<1>10. CASE Recover
  <2>1. run.attempt + 1 \in 0..MaxRecovery
    BY <1>10, PolicyAssumption DEF Recover, Counted, Facts
  <2>2. QED
    BY <1>10, <2>1, BlankType, Requests DEF Recover, Dispatch, NextAttempt, Phase, Mode
<1>11. CASE UNCHANGED vars
  BY <1>11 DEF vars
<1>12. QED
  BY <1>1, <1>2, <1>3, <1>4, <1>5, <1>6, <1>7, <1>8, <1>9, <1>10, <1>11 DEF Next, RunStep

(* The calendar facts of a run survive every step: the freshness check squeezes
   T0 between two times with the same completed session. *)
LEMMA TimesStep ==
  TypeOK /\ TypeOK' /\ DailyMatchesT0 /\ RunTimes /\ [Next]_vars
    => DailyMatchesT0' /\ RunTimes'
<1> SUFFICES ASSUME TypeOK, TypeOK', DailyMatchesT0, RunTimes, [Next]_vars
             PROVE  DailyMatchesT0' /\ RunTimes'
  OBVIOUS
<1> USE DEF DailyMatchesT0, RunTimes
<1>0. clock \in Int /\ clock' \in Int /\ run.started \in Int /\ run.asOf \in Int
  BY DEF TypeOK, Facts, Time
<1>1. CASE Tick
  BY <1>0, <1>1 DEF Tick
<1>2. ASSUME NEW s \in Schedule, Fire(s) PROVE DailyMatchesT0' /\ RunTimes'
  BY <1>2 DEF Fire
<1>3. CASE Begin
  BY <1>0, <1>3 DEF Begin, Blank
<1>4. CASE SelectMode
  <2>1. run'.started = run.started /\ run'.daily = Completed[run.started]
    <3>1. CASE run.requested = "live" /\ Reusable
      BY <1>4, <3>1 DEF SelectMode, Reusable, TypeOK, Facts
    <3>2. CASE ~(run.requested = "live" /\ Reusable)
      BY <1>4, <3>2 DEF SelectMode, TypeOK, Facts
    <3>3. QED
      BY <3>1, <3>2
  <2>2. QED
    BY <1>0, <1>4, <2>1 DEF SelectMode
<1>5. CASE Gate
  BY <1>0, <1>5 DEF Gate, TypeOK, Facts
<1>6. CASE CheckFreshness
  <2>1. /\ run.started \in Time /\ run.asOf \in Time /\ clock \in Time
        /\ run.started <= run.asOf /\ run.asOf <= clock
        /\ Completed[clock] = Completed[run.started]
    BY <1>6 DEF CheckFreshness, SameSession, TypeOK, Facts
  <2>2. Completed[run.started] <= Completed[run.asOf] /\ Completed[run.asOf] <= Completed[clock]
    BY <2>1, CalendarAssumption
  <2>3. Completed[run.started] \in Nat /\ Completed[run.asOf] \in Nat
    BY <2>1, CalendarAssumption
  <2>4. Completed[run.asOf] = Completed[run.started]
    BY <2>1, <2>2, <2>3
  <2>5. QED
    BY <1>6, <2>1, <2>4 DEF CheckFreshness
<1>7. CASE Publish
  <2>1. head'.daily = Completed[head'.asOf]
    BY <1>7 DEF Publish
  <2>2. QED
    BY <1>7, <2>1 DEF Publish, TypeOK, Facts
<1>8. CASE Fail \/ Cancel \/ QueueFails \/ Stop \/ ContinueAfterSuccess \/ Recover
  BY <1>8 DEF Fail, Cancel, QueueFails, Drop, Stop, ContinueAfterSuccess, Recover, Dispatch
<1>9. CASE BackOff
  BY <1>0, <1>9 DEF BackOff, TypeOK, Facts
<1>10. CASE UNCHANGED vars
  BY <1>10 DEF vars
<1>11. QED
  BY <1>1, <1>2, <1>3, <1>4, <1>5, <1>6, <1>7, <1>8, <1>9, <1>10 DEF Next, RunStep

(* Only a failure adds to the count, and a recovery carries it on. *)
LEMMA CountStep == TypeOK /\ Counted /\ [Next]_vars => Counted'
<1> SUFFICES ASSUME TypeOK, Counted, [Next]_vars PROVE Counted'
  OBVIOUS
<1> USE DEF Counted
<1>0. failed \in Nat /\ MaxRecovery \in Nat /\ run.attempt \in 0..MaxRecovery
  BY PolicyAssumption DEF TypeOK, Facts
<1>1. CASE Tick
  BY <1>1 DEF Tick
<1>2. ASSUME NEW s \in Schedule, Fire(s) PROVE Counted'
  BY <1>2 DEF Fire
<1>3. CASE Begin
  <2>1. pending.attempt \in 0..MaxRecovery /\ pending.by \in {"cron", "chain"}
    BY <1>3 DEF Begin, TypeOK, Request
  <2>2. /\ run'.attempt = pending.attempt /\ run'.ok = FALSE
        /\ pending' = None /\ phase' = "started"
    BY <1>3 DEF Begin, Blank
  <2>3. failed' \in Nat /\ failed' <= pending.attempt
    BY <1>0, <1>3, <2>1 DEF Begin
  <2>4. QED
    BY <1>0, <2>1, <2>2, <2>3
<1>4. CASE SelectMode \/ Gate \/ CheckFreshness
  <2>1. /\ run'.attempt = run.attempt /\ run'.ok = run.ok /\ ~run.ok
        /\ UNCHANGED <<pending, failed>>
        /\ phase' \in {"selected", "gated", "fresh"} /\ phase # "none"
        /\ failed <= run.attempt
    BY <1>4 DEF SelectMode, Gate, CheckFreshness, TypeOK, Facts
  <2>2. QED
    BY <1>0, <2>1
<1>5. CASE Publish
  <2>1. run'.attempt = run.attempt /\ failed' = 0 /\ phase' = "ended" /\ phase # "none"
    BY <1>5 DEF Publish, TypeOK, Facts
  <2>2. QED
    BY <1>0, <1>5, <2>1 DEF Publish
<1>6. CASE Fail
  <2>1. failed <= run.attempt /\ phase # "none" /\ ~run.ok
    BY <1>6 DEF Fail
  <2>2. run.ok \in BOOLEAN
    BY DEF TypeOK, Facts
  <2>3. QED
    BY <1>0, <1>6, <2>1, <2>2 DEF Fail
<1>7. CASE Cancel \/ QueueFails \/ Stop
  BY <1>0, <1>7 DEF Cancel, QueueFails, Drop, Stop
<1>8. CASE ContinueAfterSuccess
  <2>1. pending'.attempt = 0 /\ failed' = 0 /\ phase' = "none"
    BY <1>8 DEF ContinueAfterSuccess, Dispatch
  <2>2. QED
    BY <1>0, <2>1
<1>9. CASE BackOff
  <2>1. /\ run'.attempt = run.attempt /\ run'.ok = run.ok /\ ~run.ok
        /\ run.attempt < MaxRecovery
        /\ UNCHANGED <<pending, failed>> /\ phase' = "waiting" /\ phase = "ended"
    BY <1>9 DEF BackOff, RecoveryLeft, TypeOK, Facts
  <2>2. QED
    BY <1>0, <2>1
<1>10. CASE Recover
  <2>1. /\ pending'.attempt = run.attempt + 1 /\ failed' = failed
        /\ phase' = "none" /\ phase = "waiting"
    BY <1>10 DEF Recover, Dispatch, NextAttempt
  <2>2. QED
    BY <1>0, <2>1
<1>11. CASE UNCHANGED vars
  BY <1>11 DEF vars
<1>12. QED
  BY <1>1, <1>2, <1>3, <1>4, <1>5, <1>6, <1>7, <1>8, <1>9, <1>10, <1>11 DEF Next, RunStep

(* The inductive invariant holds in every reachable state. *)
THEOREM Invariance == Spec => []Inv
<1>1. Inv /\ [Next]_vars => Inv'
  BY TypeStep, TimesStep, CountStep DEF Inv
<1>2. QED
  BY <1>1, InitInv, PTL DEF Spec

(* Types: a successor's attempt is never beyond the recovery limit. *)
THEOREM TypeCorrect == Spec => []TypeOK
<1>1. Inv => TypeOK
  BY DEF Inv
<1>2. QED
  BY <1>1, Invariance, PTL

(* What live runs reuse is what the head's T0 says, however long the chain. *)
THEOREM SessionConsistency == Spec => []DailyMatchesT0
<1>1. Inv => DailyMatchesT0
  BY DEF Inv
<1>2. QED
  BY <1>1, Invariance, PTL

(* One chain fails at most MaxRecovery + 1 times in a row. *)
THEOREM BoundedRecovery == Spec => []FailuresBounded
<1>1. Inv => FailuresBounded
  BY DEF Inv, Counted, FailuresBounded
<1>2. QED
  BY <1>1, Invariance, PTL

(* Whoever puts a request in the pending place other than cron does it inside
   the window, by the clock of that moment: after a success, and again after
   the sleep of a recovery. *)
LEMMA QueuedInside == [Next]_vars => [Queued => clock \in Window]_vars
<1> SUFFICES ASSUME [Next]_vars, Queued
             PROVE  clock \in Window
  OBVIOUS
<1>0. pending' # pending /\ pending' # None /\ fired' = fired
  BY DEF Queued
<1>1. ASSUME NEW s \in Schedule, Fire(s)
      PROVE  FALSE
  <2>1. s \notin fired /\ fired' = fired \cup {s}
    BY <1>1 DEF Fire
  <2>2. QED
    BY <2>1, <1>0
<1>2. CASE Begin
  BY <1>0, <1>2 DEF Begin
<1>3. CASE Tick \/ SelectMode \/ Gate \/ CheckFreshness \/ Publish \/ Fail \/ Cancel \/ QueueFails
  BY <1>0, <1>3 DEF Tick, SelectMode, Gate, CheckFreshness, Publish, Fail, Cancel, QueueFails, Drop
<1>4. CASE BackOff \/ Stop
  BY <1>0, <1>4 DEF BackOff, Stop
<1>5. CASE ContinueAfterSuccess
  BY <1>5 DEF ContinueAfterSuccess
<1>6. CASE Recover
  BY <1>6 DEF Recover, StillOpen
<1>7. CASE UNCHANGED vars
  BY <1>0, <1>7 DEF vars
<1>8. QED
  BY <1>1, <1>2, <1>3, <1>4, <1>5, <1>6, <1>7 DEF Next, RunStep

(* The chain queues no successor once the closing buffer began, however long a
   recovery slept and whatever cron and cancellations do meanwhile. *)
THEOREM ChainEndsWithSession == Spec => NoLateSuccessor
  BY QueuedInside, PTL DEF Spec, NoLateSuccessor
-----------------------------------------------------------------------------
(***************************************************************************)
(* What NeverStranded rests on.                                             *)
(***************************************************************************)
\* A run whose end owes the window a successor: it has just ended, or it sleeps.
Owed == Strandable \/ phase = "waiting"

(* A step that is taken inside the window may not drop a successor that is owed
   (workflow_continuation.py): it queues one, goes on owing it, or is cut off. *)
NotDropped == [][Owed /\ clock \in Window => Owed' \/ pending' # None \/ dropped']_vars

LEMMA OwedKept == Inv /\ [Next]_vars => [Owed /\ clock \in Window => Owed' \/ pending' # None \/ dropped']_vars
<1> SUFFICES ASSUME Inv, [Next]_vars, Owed, clock \in Window
             PROVE  Owed' \/ pending' # None \/ dropped'
  OBVIOUS
<1>0. /\ phase \in {"ended", "waiting"}
      /\ phase = "ended" => run.ok \/ RecoveryLeft
      /\ phase = "waiting" => RecoveryLeft
      /\ run \in Facts
  BY DEF Owed, Strandable, Inv, TypeOK, Counted, RecoveryLeft
<1>1. CASE Tick
  BY <1>1 DEF Tick, Owed, Strandable, RecoveryLeft
<1>2. ASSUME NEW s \in Schedule, Fire(s) PROVE pending' # None
  <2>1. s.mode \in Mode /\ 0 \in 0..MaxRecovery
    BY PolicyAssumption, ScheduleAssumption
  <2>2. pending' = [mode |-> s.mode, attempt |-> 0, by |-> "cron"]
    BY <1>2 DEF Fire
  <2> QED
    BY <2>1, <2>2, Requests
<1>3. CASE Begin \/ SelectMode \/ Gate \/ CheckFreshness \/ Publish \/ Fail
  BY <1>0, <1>3 DEF Begin, SelectMode, Gate, CheckFreshness, Publish, Fail
<1>4. CASE ContinueAfterSuccess
  <2>1. "live" \in Mode /\ 0 \in 0..MaxRecovery
    BY PolicyAssumption DEF Mode
  <2>2. pending' = [mode |-> "live", attempt |-> 0, by |-> "chain"]
    BY <1>4 DEF ContinueAfterSuccess, Dispatch
  <2> QED
    BY <2>1, <2>2, Requests
<1>5. CASE BackOff
  BY <1>5 DEF BackOff, Owed
<1>6. CASE Recover
  <2>1. phase = "waiting" /\ pending' = [mode |-> "live", attempt |-> NextAttempt, by |-> "chain"]
    BY <1>6 DEF Recover, Dispatch
  <2>2. NextAttempt \in 0..MaxRecovery
    BY <1>0, <2>1, PolicyAssumption DEF RecoveryLeft, NextAttempt, Facts
  <2>3. "live" \in Mode
    BY DEF Mode
  <2> QED
    BY <2>1, <2>2, <2>3, Requests
<1>7. CASE Stop
  BY <1>0, <1>7 DEF Stop, StillOpen, Continues
<1>8. CASE Cancel \/ QueueFails
  BY <1>8 DEF Cancel, QueueFails, Drop
<1>9. CASE UNCHANGED vars
  BY <1>9 DEF vars, Owed, Strandable, RecoveryLeft
<1> QED
  BY <1>1, <1>2, <1>3, <1>4, <1>5, <1>6, <1>7, <1>8, <1>9 DEF Next, RunStep

(***************************************************************************)
(* No step inside the window strands it, for any calendar, back-off and     *)
(* recovery limit: what NeverStranded adds is only that time and the runner *)
(* move on.                                                                 *)
(***************************************************************************)
THEOREM SuccessorNotDropped == Spec => NotDropped
  BY OwedKept, Invariance, PTL DEF Spec, NotDropped
=============================================================================
