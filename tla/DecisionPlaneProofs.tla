------------------------- MODULE DecisionPlaneProofs -------------------------
(***************************************************************************)
(* Proofs about the decision components, for all their constants.  Each     *)
(* component has a section: its invariant, the steps that keep it, and the  *)
(* properties of the plane that follow.                                     *)
(***************************************************************************)
EXTENDS DecisionPlane, FiniteSets, Sequences, TLAPS, FiniteSetTheorems, WellFoundedInduction

\* A component's Cardinality is that of FiniteSets.
LEMMA SameCardinality ==
  \A S : /\ C!Cardinality(S) = Cardinality(S) /\ P!Cardinality(S) = Cardinality(S)
         /\ D!Cardinality(S) = Cardinality(S) /\ R!Cardinality(S) = Cardinality(S)
         /\ A!Cardinality(S) = Cardinality(S)
BY DEF C!Cardinality, P!Cardinality, D!Cardinality, R!Cardinality, A!Cardinality, Cardinality

\* The least of a set of numbers is one of them, and no greater than the others.
LEMMA Smallest ==
  ASSUME NEW S \in SUBSET Nat, S # {}
  PROVE  \E x \in S : C!Min(S) = x /\ P!Min(S) = x /\ \A y \in S : x <= y
<1>1. PICK x \in S : \A y \in S : <<y, x>> \notin OpToRel(<, Nat)
  BY WFMin, NatLessThanWellFounded, Zenon
<1>2. \A y \in S : ~(y < x)
  BY <1>1, Zenon DEF OpToRel
<1>3. \A y \in S : x <= y
  BY <1>2
<1>4. \A z \in S : (\A y \in S : z <= y) => z = x
  <2> SUFFICES ASSUME NEW z \in S, z <= x PROVE z = x
    OBVIOUS
  <2> QED
    BY <1>3
<1> QED
  BY <1>3, <1>4, Zenon DEF C!Min, P!Min

\* No component notices the others.
LEMMA OwnSteps ==
  ASSUME [Next]_<<lane, cvars, pvars, dvars, rvars, avars, vvars>>
  PROVE  /\ [C!Next]_(C!vars) /\ [P!Next]_(P!vars) /\ [D!Next]_(D!vars)
         /\ [R!Next]_(R!vars) /\ [A!Next]_(A!vars) /\ [V!Next]_(V!vars)
<1>1. [C!Next]_(C!vars)
  BY DEF Next, cvars, C!vars, C!documents
<1>2. [P!Next]_(P!vars)
  BY DEF Next, pvars, P!vars
<1>3. [D!Next]_(D!vars)
  BY DEF Next, dvars, D!vars, D!documents, D!history
<1>4. [R!Next]_(R!vars)
  BY DEF Next, rvars, R!vars
<1>5. [A!Next]_(A!vars)
  BY DEF Next, avars, A!vars
<1>6. [V!Next]_(V!vars)
  BY DEF Next, vvars, V!vars
<1> QED
  BY <1>1, <1>2, <1>3, <1>4, <1>5, <1>6

\* The plane is put together from its components: what each keeps, it keeps.
LEMMA Composition ==
  Spec => /\ C!Init /\ [][C!Next]_(C!vars)
          /\ P!Spec /\ D!Spec /\ R!Spec /\ A!Spec /\ V!Spec
<1>1. Init => C!Init /\ P!Init /\ D!Init /\ R!Init /\ A!Init /\ V!Init
  BY DEF Init
<1> QED
  BY <1>1, OwnSteps, PTL DEF Spec, P!Spec, D!Spec, R!Spec, A!Spec, V!Spec

-----------------------------------------------------------------------------
(* CriteriaResearch *)

\* The challenger and its published record are records of this form.
Challenger == [status : {"WAITING_FOR_PROPOSAL", "COLLECTING_FUTURE"} \cup R!TERMINAL,
               change : Approved \cup {R!None}, after : Nat]

\* A proposal has one of the approved thresholds, or none.
ResearchType ==
  /\ session \in Nat
  /\ DOMAIN cohorts \subseteq 0..session
  /\ proposal.change \in Approved \cup {R!None}
  /\ challenger \in Challenger

(***************************************************************************)
(* The registration's cut: nothing known then lies after it, everything     *)
(* judged does.  A published verdict is the one in the document.            *)
(***************************************************************************)
Cut ==
  /\ R!Settled(challenger) => challenger.change # R!None
  /\ challenger.change # R!None => known \subseteq 0..challenger.after
  /\ R!Settled(challenger) =>
       judged # {} /\ judged \subseteq Nat /\ \A s \in judged : s > challenger.after

Shown == published.status \in R!TERMINAL => published = challenger

ResearchInv == ResearchType /\ Cut /\ Shown

-----------------------------------------------------------------------------
\* No cohort is later than the session, hence the cut is the proposal's date.
LEMMA StartIsCreated ==
  ASSUME ResearchType, NEW created \in {session, session + 1}
  PROVE  R!Start(created) = created
<1>1. \A s \in DOMAIN cohorts \cup {created} : s \in Nat /\ s <= created
  BY DEF ResearchType
<1>2. \A x \in DOMAIN cohorts \cup {created} :
        (\A y \in DOMAIN cohorts \cup {created} : x >= y) => x = created
  <2> SUFFICES ASSUME NEW x \in DOMAIN cohorts \cup {created}, x >= created
               PROVE  x = created
    OBVIOUS
  <2>1. x \in Nat /\ created \in Nat /\ x <= created
    BY <1>1
  <2> QED
    BY <2>1
<1>3. \A y \in DOMAIN cohorts \cup {created} : created >= y
  BY <1>1
<1>4. created \in DOMAIN cohorts \cup {created}
  OBVIOUS
<1> HIDE DEF ResearchType
<1> QED
  BY <1>2, <1>3, <1>4, Zenon DEF R!Start, R!Max

\* A challenger that is registered stays, another is as the proposal says.
LEMMA CurrentIs ==
  ASSUME ResearchType, NEW created \in {session, session + 1}
  PROVE  /\ R!Current(created) \in Challenger
         /\ challenger.change # R!None => R!Current(created) = challenger
         /\ challenger.change = R!None =>
              /\ ~R!Settled(R!Current(created))
              /\ R!Current(created).change # R!None => R!Current(created).after = created
<1>1. created \in Nat
  BY DEF ResearchType
<1>2. R!Registered(created) \in Challenger
  BY <1>1, StartIsCreated DEF R!Registered, Challenger, R!Waiting, ResearchType
<1>3. ~R!Settled(R!Registered(created))
  BY DEF R!Registered, R!Settled, R!Waiting, R!TERMINAL
<1>4. R!Registered(created).change # R!None => R!Registered(created).after = created
  BY StartIsCreated DEF R!Registered, R!Waiting
<1> QED
  BY <1>2, <1>3, <1>4 DEF R!Current, ResearchType

\* Judging changes the status alone, and a verdict needs future sessions.
LEMMA EvaluatedIs ==
  ASSUME ResearchType, NEW c \in Challenger
  PROVE  /\ R!Evaluated(c) \in Challenger
         /\ R!Evaluated(c).change = c.change /\ R!Evaluated(c).after = c.after
         /\ R!Settled(c) => R!Evaluated(c) = c
         /\ c.change = R!None => R!Evaluated(c) = c
         /\ (R!Settled(R!Evaluated(c)) /\ ~R!Settled(c)) =>
              c.change # R!None /\ R!Future(c) # {}
<1> DEFINE baseline == R!RowsOf(R!Future(c))
           chosen == R!Selected(baseline, c.change)
           enough == /\ Cardinality(R!Future(c)) >= MinFutureSessions
                     /\ Cardinality(baseline) >= MinBaseline
                     /\ Cardinality(chosen) >= MinChallenger
           status == IF ~enough THEN "COLLECTING_FUTURE"
                     ELSE IF R!Retained(chosen, baseline) /\ R!Above(chosen, baseline)
                     THEN "CHALLENGER_VALIDATED" ELSE "CHALLENGER_REJECTED"
<1>1. R!Judged(c) = [c EXCEPT !.status = status]
  BY SameCardinality DEF R!Judged
<1>2. /\ status \in {"WAITING_FOR_PROPOSAL", "COLLECTING_FUTURE"} \cup R!TERMINAL
      /\ status \in R!TERMINAL => enough
  BY DEF R!TERMINAL
<1>3. enough => R!Future(c) # {}
  <2> SUFFICES ASSUME enough, R!Future(c) = {} PROVE FALSE
    OBVIOUS
  <2>1. Cardinality(R!Future(c)) = 0
    BY FS_EmptySet
  <2>2. MinFutureSessions \in Nat \ {0}
    BY InstanceAssumption DEF R!SizesAssumption
  <2> QED
    BY <2>1, <2>2
<1> HIDE DEF status, enough
<1>4. /\ R!Judged(c) \in Challenger
      /\ R!Judged(c).change = c.change /\ R!Judged(c).after = c.after
      /\ R!Judged(c).status = status
  BY <1>1, <1>2 DEF Challenger
<1> QED
  BY <1>2, <1>3, <1>4 DEF R!Evaluated, R!Settled

-----------------------------------------------------------------------------
LEMMA ResearchInit == R!Init => ResearchInv
<1> SUFFICES ASSUME R!Init PROVE ResearchInv
  OBVIOUS
<1>1. ResearchType
  BY DEF R!Init, ResearchType, R!Waiting, Challenger
<1>2. Cut /\ Shown
  BY DEF R!Init, Cut, Shown, R!Settled, R!Waiting, R!TERMINAL
<1> QED
  BY <1>1, <1>2 DEF ResearchInv

\* The optimizer proposes an approved threshold or none.
LEMMA ProposalType ==
  \A p \in R!Proposals : p.change \in Approved \cup {R!None}
BY DEF R!Proposals, R!Best, R!Improving

\* What the stage of the challenger does to the document and its history.
LEMMA ChallengeStep ==
  ASSUME ResearchInv, R!Challenge
  PROVE  /\ ResearchInv'
         /\ challenger.change # R!None =>
              challenger'.change = challenger.change /\ challenger'.after = challenger.after
         /\ R!Settled(challenger) => challenger' = challenger
<1>1. PICK created \in {session, session + 1} :
        /\ challenger' = R!Evaluated(R!Current(created))
        /\ known' = IF R!Current(created) # challenger THEN DOMAIN cohorts ELSE known
  BY DEF R!Challenge
<1> DEFINE c == R!Current(created)
<1>2. /\ c \in Challenger
      /\ challenger.change # R!None => c = challenger
      /\ challenger.change = R!None => ~R!Settled(c) /\ (c.change # R!None => c.after = created)
  BY CurrentIs DEF ResearchInv
<1>3. UNCHANGED <<session, cohorts, proposal, published>>
  BY DEF R!Challenge
<1>4. judged' = IF R!Settled(challenger') /\ ~R!Settled(challenger) THEN R!Future(challenger') ELSE judged
  BY DEF R!Challenge
<1> HIDE DEF c
<1>5. /\ challenger' \in Challenger
      /\ challenger'.change = c.change /\ challenger'.after = c.after
      /\ R!Settled(c) => challenger' = c
      /\ c.change = R!None => challenger' = c
      /\ (R!Settled(challenger') /\ ~R!Settled(c)) => c.change # R!None /\ R!Future(c) # {}
  BY <1>1, <1>2, EvaluatedIs DEF ResearchInv, c
<1>6. ResearchType'
  BY <1>3, <1>5 DEF ResearchInv, ResearchType
<1>7. R!Settled(challenger) => challenger' = challenger
  BY <1>2, <1>5 DEF ResearchInv, Cut
<1>8. R!Settled(challenger)' <=> R!Settled(challenger')
  BY DEF R!Settled
<1>9. R!Settled(challenger') => challenger'.change # R!None
  BY <1>2, <1>5, <1>7 DEF ResearchInv, Cut
<1>10. challenger'.change # R!None => known' \subseteq 0..challenger'.after
  <2> SUFFICES ASSUME challenger'.change # R!None PROVE known' \subseteq 0..challenger'.after
    OBVIOUS
  <2>1. CASE challenger.change # R!None
    BY <1>1, <1>2, <1>5, <2>1 DEF c, ResearchInv, Cut
  <2>2. CASE challenger.change = R!None
    <3>1. c # challenger /\ challenger'.after = created
      BY <1>2, <1>5, <2>2
    <3>2. known' = DOMAIN cohorts
      BY <1>1, <3>1 DEF c
    <3> QED
      BY <3>1, <3>2 DEF ResearchInv, ResearchType
  <2> QED
    BY <2>1, <2>2
<1>11. R!Settled(challenger') =>
         judged' # {} /\ judged' \subseteq Nat /\ \A s \in judged' : s > challenger'.after
  <2> SUFFICES ASSUME R!Settled(challenger')
               PROVE  judged' # {} /\ judged' \subseteq Nat /\ \A s \in judged' : s > challenger'.after
    OBVIOUS
  <2>1. CASE R!Settled(challenger)
    BY <1>4, <1>7, <2>1 DEF ResearchInv, Cut
  <2>2. CASE ~R!Settled(challenger)
    <3>1. ~R!Settled(c)
      BY <1>2, <2>2
    <3>2. R!Future(challenger') = R!Future(c) /\ R!Future(c) # {}
      BY <1>5, <3>1 DEF R!Future
    <3>3. judged' = R!Future(challenger')
      BY <1>4, <2>2
    <3>4. R!Future(challenger') \subseteq Nat /\ \A s \in R!Future(challenger') : s > challenger'.after
      BY DEF R!Future, R!Ripe, ResearchInv, ResearchType
    <3> QED
      BY <3>2, <3>3, <3>4
  <2> QED
    BY <2>1, <2>2
<1>12. Cut'
  BY <1>8, <1>9, <1>10, <1>11 DEF Cut
<1>13. Shown'
  BY <1>3, <1>7 DEF ResearchInv, Shown, R!Settled
<1> QED
  BY <1>2, <1>5, <1>6, <1>7, <1>12, <1>13 DEF ResearchInv

LEMMA ResearchStep ==
  ResearchInv /\ [R!Next]_(R!vars) => ResearchInv'
<1> SUFFICES ASSUME ResearchInv, [R!Next]_(R!vars) PROVE ResearchInv'
  OBVIOUS
<1> USE DEF ResearchInv
<1>a. ASSUME ResearchType', UNCHANGED <<challenger, known, judged>>,
             published' \in {published, challenger}
      PROVE  ResearchInv'
  BY <1>a DEF Cut, Shown, R!Settled
<1>1. CASE R!RecordSession
  <2>1. DOMAIN cohorts' \subseteq 0..session
    BY <1>1 DEF R!RecordSession, ResearchType
  <2> QED
    BY <1>1, <1>a, <2>1 DEF R!RecordSession, ResearchType
<1>2. CASE R!Optimize
  BY <1>2, <1>a, ProposalType DEF R!Optimize, ResearchType
<1>3. CASE R!Challenge
  BY <1>3, ChallengeStep
<1>4. CASE R!Publish
  BY <1>4, <1>a DEF R!Publish, ResearchType
<1>5. CASE R!Fail
  BY <1>5, <1>a DEF R!Fail, ResearchType
<1>6. CASE R!NextDay
  BY <1>6, <1>a DEF R!NextDay, ResearchType
<1>7. CASE UNCHANGED R!vars
  BY <1>7, <1>a DEF R!vars, ResearchType
<1> QED
  BY <1>1, <1>2, <1>3, <1>4, <1>5, <1>6, <1>7 DEF R!Next

-----------------------------------------------------------------------------
(***************************************************************************)
(* A verdict of evaluate_challenger rests on sessions after all those that  *)
(* were in the ledger at the registration, for all thresholds and sizes.    *)
(***************************************************************************)
THEOREM FutureOnly ==
  Spec => []JudgedOnTheFuture
<1>1. ResearchInv => JudgedOnTheFuture
  <2> SUFFICES ASSUME ResearchInv, R!Settled(challenger)
               PROVE  judged # {} /\ judged \cap known = {} /\ \A s \in judged, r \in known : s > r
    BY DEF JudgedOnTheFuture, R!JudgedOnTheFuture
  <2>1. challenger.after \in Nat
    BY DEF ResearchInv, ResearchType, Challenger
  <2>2. /\ judged # {} /\ judged \subseteq Nat /\ \A s \in judged : s > challenger.after
        /\ known \subseteq 0..challenger.after
    BY DEF ResearchInv, Cut
  <2>3. \A s \in judged, r \in known : s > r
    BY <2>1, <2>2
  <2> QED
    BY <2>2, <2>3
<1> QED
  BY <1>1, ResearchInit, ResearchStep, Composition, PTL DEF R!Spec

(***************************************************************************)
(* The document's challenger is not exchanged, and a verdict is not taken   *)
(* back, neither in the document nor in the published record.               *)
(***************************************************************************)
THEOREM VerdictsStand ==
  Spec => VerdictStands
<1> DEFINE Step ==
      /\ challenger.change # R!None =>
           challenger'.change = challenger.change /\ challenger'.after = challenger.after
      /\ challenger.status \in R!TERMINAL => challenger' = challenger
      /\ published.status \in R!TERMINAL => published' = published /\ challenger = published
<1>1. ResearchInv /\ [R!Next]_(R!vars) => [Step]_(R!vars)
  <2> SUFFICES ASSUME ResearchInv, R!Next PROVE Step
    BY DEF R!vars
  <2>1. CASE R!Challenge
    <3>1. published' = published
      BY <2>1 DEF R!Challenge
    <3> QED
      BY <2>1, <3>1, ChallengeStep DEF R!Settled, ResearchInv, Shown
  <2>2. CASE ~R!Challenge
    BY <2>2 DEF R!Next, R!RecordSession, R!Optimize, R!Publish, R!Fail, R!NextDay, ResearchInv, Shown
  <2> QED
    BY <2>1, <2>2
<1> QED
  BY <1>1, ResearchInit, ResearchStep, Composition, PTL DEF R!Spec, VerdictStands, R!VerdictStands

-----------------------------------------------------------------------------
(* TradeDesk *)

DeskState == D!State \cup {D!Unknown}
LiveRow == [levels : Levels, from : DeskState, to : DeskState, buy : BOOLEAN]
JournalRow ==
  [triggered : BOOLEAN, confirmed : BOOLEAN, closed : BOOLEAN, outcome : D!Outcome]

DeskType ==
  /\ date \in Nat
  /\ at \in {"idle", "states", "log", "journal", "alerts"}
  /\ DOMAIN live \subseteq Symbol /\ \A t \in DOMAIN live : live[t] \in LiveRow
  /\ state \in [Symbol -> DeskState]
  /\ DOMAIN journal \subseteq D!Signal /\ \A s \in DOMAIN journal : journal[s] \in JournalRow
  /\ entered \subseteq D!Signal
  /\ queue \subseteq Symbol /\ new \subseteq {date} \X Symbol
  /\ \A k \in DOMAIN delivered : delivered[k] \in Nat
  /\ lost \in Seq(Nat)

\* What is saved or observed about an entry was one of a signal that had entered.
Seen ==
  /\ \A t \in DOMAIN live : state[t] = live[t].to
  /\ \A t \in DOMAIN live : live[t].to \in D!EntryStates => <<t, live[t].levels>> \in entered
  /\ \A t \in Symbol : state[t] \in D!EntryStates \cup {"TARGET_HIT", "FAILED_BREAKOUT"} =>
       \E x \in entered : x[1] = t
  /\ \A s \in DOMAIN journal : journal[s].triggered \/ journal[s].confirmed => s \in entered

\* The entry of a signal is in the journal, is about to be, or its cycle stopped.
Booked ==
  \A s \in entered : s[1] \notin broken =>
    \/ s \in DOMAIN journal /\ (journal[s].triggered \/ journal[s].confirmed)
    \/ /\ at \in {"states", "log"} /\ s[1] \in DOMAIN live
       /\ live[s[1]].levels = s[2] /\ live[s[1]].to \in D!EntryStates

(***************************************************************************)
(* A ticker of the queue is in neither log; a delivery is one that the log  *)
(* or the running stage knows of, or that of a stage that stopped.          *)
(***************************************************************************)
Occurrences(q, d) == Cardinality({i \in DOMAIN q : q[i] = d})
StopsOn(d) == Occurrences(lost, d)
Accounted ==
  /\ at # "alerts" => queue = {} /\ new = {}
  /\ \A t \in queue : <<date, t>> \notin alerted \cup new
  /\ \A k \in DOMAIN delivered :
       delivered[k] <= StopsOn(k[1]) + (IF k \in alerted \cup new THEN 1 ELSE 0)

DeskInv == DeskType /\ Seen /\ Booked /\ Accounted

-----------------------------------------------------------------------------
\* A final state of an entered trade is derived from an entry state or kept.
LEMMA DerivedIs ==
  ASSUME NEW f, NEW previous \in DeskState
  PROVE  /\ D!Derived(f, previous) \in DeskState
         /\ D!Derived(f, previous) \in {"TARGET_HIT", "FAILED_BREAKOUT"} =>
              previous \in D!EntryStates \cup {"TARGET_HIT", "FAILED_BREAKOUT"}
BY DEF DeskState, D!State, D!ALERT_STATES, D!EntryStates, D!Final, D!Unknown,
       D!Derived, D!Watched, D!ReachesTarget

\* What a cycle leaves of a journal row.
LEMMA UpdatedIs ==
  ASSUME NEW old \in JournalRow, NEW to \in DeskState
  PROVE  /\ D!Updated(old, to) \in JournalRow
         /\ D!Updated(old, to).triggered <=> old.triggered \/ to = "TRIGGERED"
         /\ D!Updated(old, to).confirmed <=> old.confirmed \/ to = "LIVE_CONFIRMED"
         /\ D!Updated(old, to).outcome =
              IF to \notin D!Final THEN old.outcome
              ELSE IF to = "INVALIDATED" /\ ~old.triggered /\ ~old.confirmed
                   THEN "PRE_ENTRY_INVALIDATED" ELSE to
<1> DEFINE row == [old EXCEPT !.triggered = @ \/ to = "TRIGGERED",
                              !.confirmed = @ \/ to = "LIVE_CONFIRMED",
                              !.closed = @ \/ to \in D!Final]
           ending == IF to = "INVALIDATED" /\ ~D!EnteredTrade(row, to)
                     THEN "PRE_ENTRY_INVALIDATED" ELSE to
<1>1. /\ row \in JournalRow /\ row.outcome = old.outcome
      /\ row.triggered <=> old.triggered \/ to = "TRIGGERED"
      /\ row.confirmed <=> old.confirmed \/ to = "LIVE_CONFIRMED"
  BY DEF JournalRow
<1>2. D!Updated(old, to) = IF to \notin D!Final THEN row ELSE [row EXCEPT !.outcome = ending]
  BY DEF D!Updated
<1> HIDE DEF row
<1>3. CASE to \notin D!Final
  BY <1>1, <1>2, <1>3
<1>4. CASE to \in D!Final
  <2>1. ending = IF to = "INVALIDATED" /\ ~old.triggered /\ ~old.confirmed
                 THEN "PRE_ENTRY_INVALIDATED" ELSE to
    BY <1>1 DEF D!EnteredTrade
  <2>2. ending \in D!Outcome
    BY <1>4, <2>1 DEF D!Outcome, D!Final
  <2> HIDE DEF ending
  <2> QED
    BY <1>1, <1>2, <1>4, <2>1, <2>2 DEF JournalRow
<1> QED
  BY <1>3, <1>4

\* A session's stops with one more.
LEMMA OneMoreStop ==
  ASSUME NEW q \in Seq(Nat), NEW e \in Nat, NEW d
  PROVE  /\ Occurrences(q, d) \in Nat
         /\ Occurrences(Append(q, e), d) = Occurrences(q, d) + (IF d = e THEN 1 ELSE 0)
<1> DEFINE before == {i \in DOMAIN q : q[i] = d}
           after == {i \in DOMAIN Append(q, e) : Append(q, e)[i] = d}
           n == Len(q)
<1>1. n \in Nat /\ DOMAIN q = 1..n /\ DOMAIN Append(q, e) = 1..(n + 1)
  OBVIOUS
<1>2. /\ \A i \in 1..n : Append(q, e)[i] = q[i]
      /\ Append(q, e)[n + 1] = e
  OBVIOUS
<1>3. IsFiniteSet(before) /\ Cardinality(before) \in Nat
  <2>1. IsFiniteSet(1..n)
    BY <1>1, FS_Interval
  <2> QED
    BY <1>1, <2>1, FS_Subset, FS_CardinalityType
<1>4. after = IF d = e THEN before \cup {n + 1} ELSE before
  BY <1>1, <1>2
<1>5. n + 1 \notin before
  BY <1>1
<1> HIDE DEF before, after
<1>6. Cardinality(before \cup {n + 1}) = Cardinality(before) + 1
  BY <1>3, <1>5, FS_AddElement
<1>7. Cardinality(after) = Cardinality(before) + (IF d = e THEN 1 ELSE 0)
  BY <1>3, <1>4, <1>6
<1> QED
  BY <1>3, <1>7 DEF before, after, Occurrences

-----------------------------------------------------------------------------
LEMMA DeskInit == D!Init => DeskInv
<1> SUFFICES ASSUME D!Init PROVE DeskInv
  OBVIOUS
<1> USE DEF D!Init, D!NoRows, DeskState
<1>1. DeskType
  BY DEF DeskType
<1>2. Seen /\ Booked
  BY DEF Seen, Booked, D!Unknown, D!EntryStates
<1>3. Accounted
  BY DEF Accounted
<1> QED
  BY <1>1, <1>2, <1>3 DEF DeskInv

\* A new cycle: its rows follow the states they were derived from.
LEMMA MonitorStep == DeskInv /\ D!Monitor => DeskInv'
<1> SUFFICES ASSUME DeskInv, D!Monitor PROVE DeskInv'
  OBVIOUS
<1> USE DEF DeskInv
<1>1. PICK o \in D!Observations :
        /\ live' = [t \in DOMAIN o |-> D!Row(t, o[t])]
        /\ state' = [t \in Symbol |-> IF t \in DOMAIN o THEN live'[t].to ELSE state[t]]
        /\ entered' = entered \cup
             {<<t, live'[t].levels>> : t \in {x \in DOMAIN o : live'[x].to \in D!EntryStates}}
  BY DEF D!Monitor
<1>2. /\ at = "idle" /\ at' = "states"
      /\ UNCHANGED <<date, log, journal, alerted, queue, new, delivered, broken, lost>>
  BY DEF D!Monitor
<1>3. DOMAIN o \subseteq Symbol /\ \A t \in DOMAIN o : o[t] \in Levels \X Facts
  BY DEF D!Observations
<1>4. ASSUME NEW t \in DOMAIN o
      PROVE  /\ live'[t] \in LiveRow /\ state[t] \in DeskState
             /\ live'[t].to \in {"TARGET_HIT", "FAILED_BREAKOUT"} =>
                  state[t] \in D!EntryStates \cup {"TARGET_HIT", "FAILED_BREAKOUT"}
  <2>1. state[t] \in DeskState
    BY <1>3 DEF DeskType
  <2>2. live'[t] = [levels |-> o[t][1], from |-> state[t],
                    to |-> D!Derived(o[t][2], state[t]), buy |-> D!Buy(o[t][2])]
    BY <1>1 DEF D!Row
  <2>3. D!Buy(o[t][2]) \in BOOLEAN
    BY DEF D!Buy
  <2>4. o[t][1] \in Levels
    BY <1>3
  <2> QED
    BY <2>1, <2>2, <2>3, <2>4, DerivedIs DEF LiveRow
<1>5. DOMAIN live' = DOMAIN o
  BY <1>1
<1>6. state' \in [Symbol -> DeskState] /\ \A t \in DOMAIN live' : state'[t] = live'[t].to
  <2>1. \A t \in Symbol : (IF t \in DOMAIN o THEN live'[t].to ELSE state[t]) \in DeskState
    BY <1>4 DEF DeskType, LiveRow
  <2> QED
    BY <1>1, <1>3, <1>5, <2>1
<1>7. \A s \in entered' : s \in entered \/
        (s \in D!Signal /\ s[1] \in DOMAIN o /\ live'[s[1]].levels = s[2] /\ live'[s[1]].to \in D!EntryStates)
  BY <1>1, <1>3, <1>4 DEF D!Signal, LiveRow
<1>8. DeskType'
  BY <1>2, <1>3, <1>4, <1>5, <1>6, <1>7 DEF DeskType
<1>9. Seen'
  <2>1. \A t \in DOMAIN live' : live'[t].to \in D!EntryStates => <<t, live'[t].levels>> \in entered'
    BY <1>1, <1>5
  <2>2. ASSUME NEW t \in Symbol, state'[t] \in D!EntryStates \cup {"TARGET_HIT", "FAILED_BREAKOUT"}
        PROVE  \E x \in entered' : x[1] = t
    <3>1. CASE t \in DOMAIN o /\ live'[t].to \in D!EntryStates
      <4>1. <<t, live'[t].levels>> \in entered'
        BY <2>1, <1>5, <3>1
      <4>2. <<t, live'[t].levels>>[1] = t
        OBVIOUS
      <4> QED
        BY <4>1, <4>2
    <3>2. CASE ~(t \in DOMAIN o /\ live'[t].to \in D!EntryStates)
      <4>1. state[t] \in D!EntryStates \cup {"TARGET_HIT", "FAILED_BREAKOUT"}
        BY <1>1, <1>4, <2>2, <3>2
      <4> QED
        BY <1>1, <4>1 DEF Seen
    <3> QED
      BY <3>1, <3>2
  <2>3. \A s \in DOMAIN journal' : journal'[s].triggered \/ journal'[s].confirmed => s \in entered'
    BY <1>1, <1>2 DEF Seen
  <2> QED
    BY <1>6, <2>1, <2>2, <2>3 DEF Seen
<1>10. Booked'
  BY <1>2, <1>5, <1>7 DEF Booked
<1>11. Accounted'
  BY <1>2 DEF Accounted, StopsOn
<1> QED
  BY <1>8, <1>9, <1>10, <1>11

\* The journal is saved: what the rows say is booked.
LEMMA JournalStep ==
  ASSUME DeskInv, D!SaveJournal
  PROVE  /\ DeskInv'
         /\ \A s \in DOMAIN journal' :
              LET row == journal'[s] IN
              row.outcome # D!RowOf(s).outcome =>
                /\ D!InSample(row) => \E x \in entered : x[1] = s[1]
                /\ row.outcome = "PRE_ENTRY_INVALIDATED" => s \notin entered \/ s[1] \in broken
<1> USE DEF DeskInv
<1> DEFINE signals == {<<t, live[t].levels>> : t \in DOMAIN live}
<1>1. /\ at = "log" /\ at' = "journal"
      /\ journal' = [s \in DOMAIN journal \cup signals |->
           IF s \in signals THEN D!Updated(D!RowOf(s), live[s[1]].to) ELSE journal[s]]
      /\ UNCHANGED <<date, live, state, log, alerted, queue, new, delivered, entered, broken, lost>>
  BY DEF D!SaveJournal, D!history
<1>2. \A s \in signals : s \in D!Signal /\ s[1] \in DOMAIN live /\ live[s[1]].levels = s[2]
                         /\ live[s[1]].to \in DeskState
  BY DEF DeskType, LiveRow, D!Signal
<1>3. \A t \in DOMAIN live : <<t, live[t].levels>> \in signals
  OBVIOUS
<1> HIDE DEF signals
<1>4. \A s : D!RowOf(s) \in JournalRow
  BY DEF D!RowOf, D!NewRow, JournalRow, DeskType, D!Outcome
<1>5. ASSUME NEW s \in signals
      PROVE  /\ journal'[s] \in JournalRow
             /\ journal'[s].triggered <=> D!RowOf(s).triggered \/ live[s[1]].to = "TRIGGERED"
             /\ journal'[s].confirmed <=> D!RowOf(s).confirmed \/ live[s[1]].to = "LIVE_CONFIRMED"
             /\ journal'[s].outcome =
                  IF live[s[1]].to \notin D!Final THEN D!RowOf(s).outcome
                  ELSE IF /\ live[s[1]].to = "INVALIDATED"
                          /\ ~D!RowOf(s).triggered /\ ~D!RowOf(s).confirmed
                       THEN "PRE_ENTRY_INVALIDATED" ELSE live[s[1]].to
  <2>1. journal'[s] = D!Updated(D!RowOf(s), live[s[1]].to)
    BY <1>1
  <2> QED
    BY <1>2, <1>4, <2>1, UpdatedIs
<1>6. \A s \in DOMAIN journal \ signals : journal'[s] = journal[s] /\ D!RowOf(s) = journal[s]
  BY <1>1 DEF D!RowOf
<1>7. DOMAIN journal' = DOMAIN journal \cup signals
  BY <1>1
<1>8. \A s : D!RowOf(s).triggered \/ D!RowOf(s).confirmed =>
               s \in DOMAIN journal /\ D!RowOf(s) = journal[s] /\ s \in entered
  BY DEF D!RowOf, D!NewRow, Seen
<1>9. DeskType'
  <2>1. DOMAIN journal' \subseteq D!Signal
    BY <1>2, <1>7 DEF DeskType
  <2>2. \A s \in DOMAIN journal' : journal'[s] \in JournalRow
    BY <1>5, <1>6, <1>7 DEF DeskType
  <2> QED
    BY <1>1, <2>1, <2>2 DEF DeskType
<1>10. Seen'
  <2>1. ASSUME NEW s \in DOMAIN journal', journal'[s].triggered \/ journal'[s].confirmed
        PROVE  s \in entered
    <3>1. CASE s \in signals
      <4>1. CASE D!RowOf(s).triggered \/ D!RowOf(s).confirmed
        BY <1>8, <4>1
      <4>2. CASE ~D!RowOf(s).triggered /\ ~D!RowOf(s).confirmed
        <5>1. live[s[1]].to \in D!EntryStates
          BY <1>5, <2>1, <3>1, <4>2 DEF D!EntryStates
        <5>2. s = <<s[1], live[s[1]].levels>> /\ s[1] \in DOMAIN live
          BY <1>2, <3>1 DEF D!Signal
        <5> QED
          BY <5>1, <5>2 DEF Seen
      <4> QED
        BY <4>1, <4>2
    <3>2. CASE s \notin signals
      BY <1>6, <1>7, <2>1, <3>2 DEF Seen
    <3> QED
      BY <3>1, <3>2
  <2> QED
    BY <1>1, <2>1 DEF Seen
<1>11. Booked'
  <2> SUFFICES ASSUME NEW s \in entered, s[1] \notin broken
               PROVE  s \in DOMAIN journal' /\ (journal'[s].triggered \/ journal'[s].confirmed)
    BY <1>1 DEF Booked
  <2>1. CASE s \in DOMAIN journal /\ (journal[s].triggered \/ journal[s].confirmed)
    BY <1>5, <1>6, <1>7, <2>1 DEF D!RowOf
  <2>2. CASE /\ s[1] \in DOMAIN live /\ live[s[1]].levels = s[2]
             /\ live[s[1]].to \in D!EntryStates
    <3>1. s \in signals
      BY <1>3, <2>2 DEF DeskType, D!Signal
    <3> QED
      BY <1>5, <1>7, <2>2, <3>1 DEF D!EntryStates
  <2> QED
    BY <2>1, <2>2 DEF Booked
<1>12. Accounted'
  BY <1>1 DEF Accounted, StopsOn
<1>13. ASSUME NEW s \in DOMAIN journal', journal'[s].outcome # D!RowOf(s).outcome
       PROVE  /\ D!InSample(journal'[s]) => \E x \in entered : x[1] = s[1]
              /\ journal'[s].outcome = "PRE_ENTRY_INVALIDATED" => s \notin entered \/ s[1] \in broken
  <2>1. s \in signals /\ live[s[1]].to \in D!Final
    BY <1>5, <1>6, <1>7, <1>13
  <2>2. ASSUME D!InSample(journal'[s]) PROVE \E x \in entered : x[1] = s[1]
    <3>1. CASE D!RowOf(s).triggered \/ D!RowOf(s).confirmed
      BY <1>8, <3>1
    <3>2. CASE ~D!RowOf(s).triggered /\ ~D!RowOf(s).confirmed
      <4>1. live[s[1]].to \in {"TARGET_HIT", "FAILED_BREAKOUT"}
        BY <1>5, <2>1, <2>2, <3>2 DEF D!InSample, D!IsTrade, D!Final
      <4>2. s[1] \in Symbol /\ state[s[1]] = live[s[1]].to
        BY <1>2, <2>1 DEF Seen, DeskType
      <4> QED
        BY <4>1, <4>2 DEF Seen
    <3> QED
      BY <3>1, <3>2
  <2>3. ASSUME journal'[s].outcome = "PRE_ENTRY_INVALIDATED", s \in entered, s[1] \notin broken
        PROVE  FALSE
    <3>1. /\ live[s[1]].to = "INVALIDATED"
          /\ ~D!RowOf(s).triggered /\ ~D!RowOf(s).confirmed
      BY <1>5, <2>1, <2>3 DEF D!Final
    <3>2. live[s[1]].to \notin D!EntryStates
      BY <3>1 DEF D!EntryStates
    <3> QED
      BY <2>3, <3>1, <3>2 DEF Booked, D!RowOf
  <2> QED
    BY <2>2, <2>3
<1> QED
  BY <1>9, <1>10, <1>11, <1>12, <1>13

\* Stops of a session are counted.
LEMMA StopsNat ==
  ASSUME DeskInv
  PROVE  \A d : StopsOn(d) \in Nat
<1>1. lost \in Seq(Nat) /\ 0 \in Nat
  BY DEF DeskInv, DeskType
<1> QED
  BY <1>1, OneMoreStop DEF StopsOn

\* A message is sent: its ticker leaves the queue and is in the stage's rows.
LEMMA SendStep == DeskInv /\ D!SendMessage => DeskInv'
<1> SUFFICES ASSUME DeskInv, D!SendMessage PROVE DeskInv'
  OBVIOUS
<1> USE DEF DeskInv
<1>1. PICK t \in queue :
        /\ delivered' \in {delivered, D!Delivered(t)}
        /\ queue' = queue \ {t} /\ new' = new \cup {<<date, t>>}
  BY DEF D!SendMessage
<1>2. /\ at = "alerts" /\ at' = at
      /\ UNCHANGED <<date, live, state, log, journal, alerted, entered, broken, lost>>
  BY DEF D!SendMessage, D!documents
<1> DEFINE k == <<date, t>>
<1>3. /\ k \notin alerted \cup new
      /\ k \in DOMAIN delivered => delivered[k] \in Nat /\ delivered[k] <= StopsOn(k[1])
  <2>1. k \notin alerted \cup new
    BY DEF Accounted
  <2>2. \A d : StopsOn(d) \in Nat
    BY StopsNat
  <2> HIDE DEF k
  <2> QED
    BY <2>1, <2>2 DEF Accounted, DeskType
<1>4. /\ \A x \in DOMAIN delivered' \ {k} : x \in DOMAIN delivered /\ delivered'[x] = delivered[x]
      /\ k \in DOMAIN delivered' =>
           /\ delivered'[k] \in Nat
           /\ delivered'[k] <= 1 + (IF k \in DOMAIN delivered THEN delivered[k] ELSE 0)
  <2>1. CASE delivered' = delivered
    BY <1>3, <2>1
  <2>2. CASE delivered' = D!Delivered(t)
    <3>1. /\ DOMAIN delivered' = DOMAIN delivered \cup {k}
          /\ \A x \in DOMAIN delivered' :
               delivered'[x] = (IF x \in DOMAIN delivered THEN delivered[x] ELSE 0) + (IF x = k THEN 1 ELSE 0)
      BY <2>2 DEF D!Delivered
    <3>2. \A x \in DOMAIN delivered : delivered[x] \in Nat
      BY DEF DeskType
    <3> HIDE DEF k
    <3> QED
      BY <1>3, <3>1, <3>2
  <2> QED
    BY <1>1, <2>1, <2>2
<1>5. \A d : StopsOn(d) \in Nat /\ StopsOn(d)' = StopsOn(d)
  BY <1>2, StopsNat DEF StopsOn
<1>6. DeskType'
  <2>1. \A x \in DOMAIN delivered' : delivered'[x] \in Nat
    BY <1>4 DEF DeskType
  <2>2. queue' \subseteq Symbol /\ new' \subseteq {date} \X Symbol
    BY <1>1 DEF DeskType
  <2> QED
    BY <1>2, <2>1, <2>2 DEF DeskType
<1>7. Seen' /\ Booked'
  BY <1>2 DEF Seen, Booked
<1>8. Accounted'
  <2>1. \A x \in queue' : <<date, x>> \notin alerted \cup new'
    BY <1>1 DEF Accounted
  <2>2. ASSUME NEW x \in DOMAIN delivered'
        PROVE  delivered'[x] <= StopsOn(x[1]) + (IF x \in alerted \cup new' THEN 1 ELSE 0)
    <3>1. CASE x = k
      <4>1. k \in new'
        BY <1>1
      <4> HIDE DEF k
      <4> QED
        BY <1>3, <1>4, <1>5, <3>1, <4>1
    <3>2. CASE x # k
      <4>1. x \in DOMAIN delivered /\ delivered'[x] = delivered[x]
        BY <1>4, <3>2
      <4>2. x \in alerted \cup new' <=> x \in alerted \cup new
        BY <1>1, <3>2
      <4> QED
        BY <4>1, <4>2 DEF Accounted
    <3> QED
      BY <3>1, <3>2
  <2> QED
    BY <1>2, <1>5, <2>1, <2>2 DEF Accounted
<1> QED
  BY <1>6, <1>7, <1>8

\* A cycle that stops: its entries are excused, and so are its messages.
LEMMA StopStep == DeskInv /\ D!Stop => DeskInv'
<1> SUFFICES ASSUME DeskInv, D!Stop PROVE DeskInv'
  OBVIOUS
<1> USE DEF DeskInv
<1>1. /\ at # "idle" /\ at' = "idle"
      /\ live' = D!NoRows /\ queue' = {} /\ new' = {}
      /\ broken' = IF at \in {"states", "log"} THEN broken \cup DOMAIN live ELSE broken
      /\ lost' = IF at = "alerts" THEN Append(lost, date) ELSE lost
      /\ UNCHANGED <<date, state, log, journal, alerted, delivered, entered>>
  BY DEF D!Stop, D!documents
<1>2. DOMAIN live' = {}
  BY <1>1 DEF D!NoRows
<1>3. DeskType'
  <2>1. lost' \in Seq(Nat)
    BY <1>1 DEF DeskType
  <2> QED
    BY <1>1, <1>2, <2>1 DEF DeskType
<1>4. Seen'
  BY <1>1, <1>2 DEF Seen
<1>5. Booked'
  BY <1>1, <1>2 DEF Booked
<1>6. ASSUME NEW d
      PROVE  /\ StopsOn(d) \in Nat
             /\ StopsOn(d)' = StopsOn(d) + (IF at = "alerts" /\ d = date THEN 1 ELSE 0)
  <2>1. lost \in Seq(Nat) /\ date \in Nat
    BY DEF DeskType
  <2>2. StopsOn(d) \in Nat
    BY StopsNat
  <2>3. CASE at = "alerts"
    <3>1. lost' = Append(lost, date)
      BY <1>1, <2>3
    <3> QED
      BY <2>1, <2>2, <2>3, <3>1, OneMoreStop DEF StopsOn
  <2>4. CASE at # "alerts"
    BY <1>1, <2>2, <2>4 DEF StopsOn
  <2> QED
    BY <2>2, <2>3, <2>4
<1>7. Accounted'
  <2> SUFFICES ASSUME NEW k \in DOMAIN delivered
               PROVE  delivered[k] <= StopsOn(k[1])' + (IF k \in alerted THEN 1 ELSE 0)
    BY <1>1 DEF Accounted
  <2>1. /\ delivered[k] \in Nat
        /\ delivered[k] <= StopsOn(k[1]) + (IF k \in alerted \cup new THEN 1 ELSE 0)
    BY DEF DeskType, Accounted
  <2>2. k \in new => at = "alerts" /\ k[1] = date
    BY DEF DeskType, Accounted
  <2> QED
    BY <1>6, <2>1, <2>2
<1> QED
  BY <1>3, <1>4, <1>5, <1>7

LEMMA DeskStep == DeskInv /\ [D!Next]_(D!vars) => DeskInv'
<1> SUFFICES ASSUME DeskInv, [D!Next]_(D!vars) PROVE DeskInv'
  OBVIOUS
<1> USE DEF DeskInv
<1>1. CASE D!Monitor
  BY <1>1, MonitorStep
<1>2. CASE D!SaveTransitions
  <2>1. /\ at = "states" /\ at' = "log"
        /\ UNCHANGED <<date, live, state, journal, alerted, queue, new, delivered, entered, broken, lost>>
    BY <1>2 DEF D!SaveTransitions, D!history
  <2> QED
    BY <2>1 DEF DeskType, Seen, Booked, Accounted, StopsOn
<1>3. CASE D!SaveJournal
  BY <1>3, JournalStep
<1>4. CASE D!StartAlerts
  <2>1. /\ at = "journal" /\ at' = "alerts" /\ new' = {}
        /\ queue' \subseteq {t \in Symbol : <<date, t>> \notin alerted}
        /\ UNCHANGED <<date, live, state, log, journal, alerted, delivered, entered, broken, lost>>
    BY <1>4 DEF D!StartAlerts, D!documents, D!history, D!NotAlerted, D!Confirmed, DeskType
  <2>2. DeskType'
    BY <2>1 DEF DeskType
  <2>3. Seen' /\ Booked'
    BY <2>1 DEF Seen, Booked
  <2>4. Accounted'
    BY <2>1 DEF Accounted, StopsOn
  <2> QED
    BY <2>2, <2>3, <2>4
<1>5. CASE D!SendMessage
  BY <1>5, SendStep
<1>6. CASE D!SaveAlerts
  <2>1. /\ at = "alerts" /\ at' = "idle" /\ alerted' = alerted \cup new /\ new' = {}
        /\ queue = {} /\ live' = D!NoRows
        /\ UNCHANGED <<date, state, log, journal, queue, delivered, entered, broken, lost>>
    BY <1>6 DEF D!SaveAlerts, D!history
  <2>2. DOMAIN live' = {}
    BY <2>1 DEF D!NoRows
  <2>3. DeskType'
    BY <2>1, <2>2 DEF DeskType
  <2>4. Seen' /\ Booked'
    BY <2>1, <2>2 DEF Seen, Booked
  <2>5. Accounted'
    BY <2>1 DEF Accounted, StopsOn
  <2> QED
    BY <2>3, <2>4, <2>5
<1>7. CASE D!Stop
  BY <1>7, StopStep
<1>8. CASE D!NextDay
  <2>1. /\ at = "idle" /\ date' = date + 1
        /\ UNCHANGED <<at, live, state, log, journal, alerted, queue, new, delivered, entered, broken, lost>>
    BY <1>8 DEF D!NextDay, D!documents, D!history
  <2>2. new = {} /\ queue = {}
    BY <2>1 DEF Accounted
  <2> QED
    BY <2>1, <2>2 DEF DeskType, Seen, Booked, Accounted, StopsOn
<1>9. CASE UNCHANGED D!vars
  BY <1>9 DEF D!vars, D!documents, D!history, DeskType, Seen, Booked, Accounted, StopsOn
<1> QED
  BY <1>1, <1>2, <1>3, <1>4, <1>5, <1>6, <1>7, <1>8, <1>9 DEF D!Next

(***************************************************************************)
(* A ticker is announced once a session, and once more for each alert stage *)
(* that stopped before it had saved what it sent.                           *)
(***************************************************************************)
THEOREM AnnouncedOnce == Spec => []OneAlertASession
<1>1. DeskInv => OneAlertASession
  <2> SUFFICES ASSUME DeskInv, NEW k \in DOMAIN delivered
               PROVE  delivered[k] <= 1 + StopsOn(k[1])
    BY SameCardinality DEF OneAlertASession, D!OneAlertASession, StopsOn, Occurrences
  <2>1. StopsOn(k[1]) \in Nat
    BY StopsNat
  <2> QED
    BY <2>1 DEF DeskInv, DeskType, Accounted
<1> QED
  BY <1>1, DeskInit, DeskStep, Composition, PTL DEF D!Spec

(***************************************************************************)
(* An outcome that enters the journal counts for a ticker that had entered, *)
(* and "invalidated before its entry" is said of none that had.             *)
(***************************************************************************)
THEOREM OutcomesAreOfEntries == Spec => OutcomesFollowEntry
<1> DEFINE Step ==
      \A s \in DOMAIN journal' :
        LET row == journal'[s] IN
        row.outcome # D!RowOf(s).outcome =>
          /\ D!InSample(row) => \E x \in entered : x[1] = s[1]
          /\ row.outcome = "PRE_ENTRY_INVALIDATED" => s \notin entered \/ s[1] \in broken
<1>1. DeskInv /\ [D!Next]_(D!vars) => [Step]_(D!vars)
  <2> SUFFICES ASSUME DeskInv, D!Next PROVE Step
    OBVIOUS
  <2>1. CASE D!SaveJournal
    BY <2>1, JournalStep
  <2>2. CASE ~D!SaveJournal
    <3>1. journal' = journal
      BY <2>2 DEF D!Next, D!Monitor, D!SaveTransitions, D!StartAlerts, D!SendMessage,
                  D!SaveAlerts, D!Stop, D!NextDay, D!documents
    <3> QED
      BY <3>1 DEF D!RowOf
  <2> QED
    BY <2>1, <2>2
<1> QED
  BY <1>1, DeskInit, DeskStep, Composition, PTL DEF D!Spec, OutcomesFollowEntry, D!OutcomesFollowEntry

-----------------------------------------------------------------------------
(* PilotReview *)

Pilot == "v9_1_pilot_health"
Paper == "validation_gate"
Has(f, name, status) == name \in DOMAIN f /\ f[name].status = status

\* A live run has renewed the paper validation since the packet was made.
Renewed(f) == Pilot \in DOMAIN f /\ f[Paper].run > f[Pilot].run

\* What each gate found when it passed is still in the same records.
Linked(f) ==
  /\ Has(f, "v7_allocation_health", "PAPER_PLAN_READY") => Has(f, "v6_model", "VALIDATED_SHADOW")
  /\ Has(f, "v8_1_operational_health", "HEALTHY") =>
       /\ Has(f, "scan_health", "PASS")
       /\ Has(f, "v4_outcomes", "ROWS") /\ Has(f, "v4_shadow_observations", "ROWS")
  /\ Has(f, "v9_readiness", "ELIGIBLE") =>
       /\ Has(f, "v8_1_operational_health", "HEALTHY")
       /\ Has(f, "v7_1_evidence_health", "HEALTHY")
       /\ Has(f, "v7_3_challenger_health", "CHALLENGER_VALIDATED")
       /\ Has(f, "v4_6_cutover_evaluation", "ELIGIBLE")
       /\ Has(f, Paper, "LIMITED_LIVE_TEST_READY") \/ Renewed(f)
  /\ Has(f, Pilot, "PAPER_REHEARSAL_READY") =>
       Has(f, "v9_readiness", "ELIGIBLE") /\ Has(f, "v7_allocation_health", "PAPER_PLAN_READY")

\* All records of one full run, but for the two that live runs renew.
Whole(f) ==
  /\ DOMAIN f = V!Name
  /\ \A n \in V!Name : f[n].run \in Nat /\ f[n].run <= reviews
  /\ \A n \in V!Name : f[n].run = f[Pilot].run \/ (n \in V!LiveRecords /\ f[n].run > f[Pilot].run)

ReviewInv ==
  /\ reviews \in Nat
  /\ mode = "idle" \/ mode = "full" \/ mode = "live"
  /\ Linked(head) /\ (head = V!None \/ Whole(head))
  /\ mode = "full" => Linked(records) /\ \A n \in DOMAIN records : n \in V!Name /\ records[n].run = reviews
  /\ mode = "live" =>
       /\ Linked(records) /\ Whole(records) /\ records[Pilot].run < reviews
       /\ head # V!None
       /\ records["v4_outcomes"].run < reviews => records["v4_outcomes"] = head["v4_outcomes"]

-----------------------------------------------------------------------------
\* The stages of production.yml are fourteen, each of its own name.
LEMMA OrderIs ==
  /\ Len(V!Order) = 14 /\ DOMAIN V!Order = 1..14
  /\ V!Name = {V!Order[i] : i \in 1..14}
  /\ \A i, j \in 1..14 : V!Order[i] = V!Order[j] => i = j
BY DEF V!Order, V!Name, V!ToSet

\* What a gate that passes has found.
LEMMA ReportsAre ==
  ASSUME NEW name \in V!Name, NEW status \in V!Reports(name)
  PROVE  /\ name = "v7_allocation_health" /\ status = "PAPER_PLAN_READY" =>
              V!Status("v6_model") = "VALIDATED_SHADOW"
         /\ name = "v8_1_operational_health" /\ status = "HEALTHY" =>
              /\ V!Status("scan_health") = "PASS"
              /\ V!Status("v4_outcomes") = "ROWS" /\ V!Status("v4_shadow_observations") = "ROWS"
         /\ name = "v9_readiness" /\ status = "ELIGIBLE" =>
              /\ V!Status("v8_1_operational_health") = "HEALTHY"
              /\ V!Status("v7_1_evidence_health") = "HEALTHY"
              /\ V!Status("v7_3_challenger_health") = "CHALLENGER_VALIDATED"
              /\ V!Status("v4_6_cutover_evaluation") = "ELIGIBLE"
              /\ V!Status(Paper) = "LIMITED_LIVE_TEST_READY"
         /\ name = Pilot /\ status = "PAPER_REHEARSAL_READY" =>
              /\ V!Status("v9_readiness") = "ELIGIBLE"
              /\ V!Status("v7_allocation_health") = "PAPER_PLAN_READY"
<1>1. CASE name = "v7_allocation_health"
  <2>1. status \in V!Allocation
    BY <1>1 DEF V!Reports
  <2> QED
    BY <1>1, <2>1 DEF V!Allocation, Pilot
<1>2. CASE name = "v8_1_operational_health"
  <2>1. status = V!OperationalHealth
    BY <1>2 DEF V!Reports
  <2> QED
    BY <1>2, <2>1 DEF V!OperationalHealth, Pilot
<1>3. CASE name = "v9_readiness"
  <2>1. status = V!Readiness
    BY <1>3 DEF V!Reports
  <2> QED
    BY <1>3, <2>1 DEF V!Readiness, V!Eligible, Pilot, Paper
<1>4. CASE name = Pilot
  <2>1. status = IF V!PacketReady THEN "PAPER_REHEARSAL_READY" ELSE "BLOCKED_PAPER_REHEARSAL"
    BY <1>4 DEF V!Reports, Pilot
  <2> QED
    BY <1>4, <2>1 DEF V!PacketReady, Pilot
<1> QED
  BY <1>1, <1>2, <1>3, <1>4 DEF Pilot

\* What a stage read is in the run's records.
LEMMA StatusIs ==
  ASSUME NEW name, NEW status, status # "", V!Status(name) = status
  PROVE  Has(records, name, status)
BY DEF V!Status, Has

\* A write adds or replaces one record.
LEMMA WriteIs ==
  ASSUME NEW name, V!Write(name)
  PROVE  /\ UNCHANGED <<triggers, snapshots, mode, head, reviews>>
         /\ \E status \in V!Reports(name) :
              /\ DOMAIN records' = DOMAIN records \cup {name}
              /\ records'[name].run = reviews /\ records'[name].status = status
              /\ \A n \in DOMAIN records \ {name} : records'[n] = records[n]
BY DEF V!Write

-----------------------------------------------------------------------------
LEMMA ReviewInit == V!Init => ReviewInv
BY DEF V!Init, ReviewInv, V!None, Linked, Has

\* A full run goes from stage to stage.
LEMMA FullStep == ReviewInv /\ V!FullStage => ReviewInv'
<1> SUFFICES ASSUME ReviewInv, V!FullStage PROVE ReviewInv'
  OBVIOUS
<1>1. mode = "full"
  BY DEF V!FullStage
<1>2. PICK i \in 1..14 : DOMAIN records = {V!Order[j] : j \in 1..(i - 1)} /\ V!Write(V!Order[i])
  BY OrderIs DEF V!FullStage
<1> DEFINE name == V!Order[i]
<1>3. name \in V!Name /\ name \notin DOMAIN records
  BY <1>2, OrderIs
<1>4. V!Write(name)
  BY <1>2
<1> HIDE DEF name
<1>5. PICK status \in V!Reports(name) :
        /\ DOMAIN records' = DOMAIN records \cup {name}
        /\ records'[name].run = reviews /\ records'[name].status = status
        /\ \A n \in DOMAIN records \ {name} : records'[n] = records[n]
  BY <1>4, WriteIs
<1>6. UNCHANGED <<mode, head, reviews>>
  BY <1>4, WriteIs
<1>7. \A n, s : Has(records, n, s) => Has(records', n, s)
  BY <1>3, <1>5 DEF Has
<1>8. \A n, s : Has(records', n, s) /\ n # name => Has(records, n, s)
  BY <1>5 DEF Has
<1>9. \A s : Has(records', name, s) => s = status
  BY <1>5 DEF Has
<1>10. \A n \in DOMAIN records' : n \in V!Name /\ records'[n].run = reviews
  BY <1>1, <1>3, <1>5 DEF ReviewInv
<1>11. reviews \in Nat /\ Linked(records) /\ ~Renewed(records)
  <2>1. /\ Linked(records) /\ reviews \in Nat
        /\ \A n \in DOMAIN records : n \in V!Name /\ records[n].run = reviews
    BY <1>1 DEF ReviewInv
  <2>2. Pilot \notin DOMAIN records
    <3>1. Pilot = V!Order[14]
      BY DEF Pilot, V!Order
    <3>2. \A j \in 1..(i - 1) : V!Order[j] # V!Order[14]
      BY OrderIs
    <3> QED
      BY <1>2, <3>1, <3>2
  <2> QED
    BY <2>1, <2>2 DEF Renewed
<1>12. Linked(records')
  <2>1. Has(records', "v7_allocation_health", "PAPER_PLAN_READY") => Has(records', "v6_model", "VALIDATED_SHADOW")
    <3>1. CASE name = "v7_allocation_health"
      BY <1>3, <1>7, <1>9, <3>1, ReportsAre, StatusIs
    <3>2. CASE name # "v7_allocation_health"
      BY <1>7, <1>8, <1>11, <3>2 DEF Linked
    <3> QED
      BY <3>1, <3>2
  <2>2. Has(records', "v8_1_operational_health", "HEALTHY") =>
          /\ Has(records', "scan_health", "PASS")
          /\ Has(records', "v4_outcomes", "ROWS") /\ Has(records', "v4_shadow_observations", "ROWS")
    <3>1. CASE name = "v8_1_operational_health"
      BY <1>3, <1>7, <1>9, <3>1, ReportsAre, StatusIs
    <3>2. CASE name # "v8_1_operational_health"
      BY <1>7, <1>8, <1>11, <3>2 DEF Linked
    <3> QED
      BY <3>1, <3>2
  <2>3. Has(records', "v9_readiness", "ELIGIBLE") =>
          /\ Has(records', "v8_1_operational_health", "HEALTHY")
          /\ Has(records', "v7_1_evidence_health", "HEALTHY")
          /\ Has(records', "v7_3_challenger_health", "CHALLENGER_VALIDATED")
          /\ Has(records', "v4_6_cutover_evaluation", "ELIGIBLE")
          /\ Has(records', Paper, "LIMITED_LIVE_TEST_READY")
    <3>1. CASE name = "v9_readiness"
      BY <1>3, <1>7, <1>9, <3>1, ReportsAre, StatusIs
    <3>2. CASE name # "v9_readiness"
      BY <1>7, <1>8, <1>11, <3>2 DEF Linked
    <3> QED
      BY <3>1, <3>2
  <2>4. Has(records', Pilot, "PAPER_REHEARSAL_READY") =>
          Has(records', "v9_readiness", "ELIGIBLE") /\ Has(records', "v7_allocation_health", "PAPER_PLAN_READY")
    <3>1. CASE name = Pilot
      BY <1>3, <1>7, <1>9, <3>1, ReportsAre, StatusIs
    <3>2. CASE name # Pilot
      BY <1>7, <1>8, <1>11, <3>2 DEF Linked
    <3> QED
      BY <3>1, <3>2
  <2> QED
    BY <2>1, <2>2, <2>3, <2>4 DEF Linked
<1>13. Linked(head)' /\ (head = V!None \/ Whole(head))'
  BY <1>6 DEF ReviewInv, Linked, Has, Renewed, Whole
<1>14. Linked(records)' /\ mode' = "full" /\ reviews' \in Nat
  BY <1>1, <1>6, <1>11, <1>12 DEF Linked, Has, Renewed
<1> QED
  BY <1>6, <1>10, <1>13, <1>14 DEF ReviewInv

\* A live run renews the paper validation or the outcome ledger.
LEMMA LiveStep == ReviewInv /\ V!LiveStage => ReviewInv'
<1> SUFFICES ASSUME ReviewInv, V!LiveStage PROVE ReviewInv'
  OBVIOUS
<1>1. PICK name \in V!LiveRecords : mode = "live" /\ records[name].run < reviews /\ V!Write(name)
  BY DEF V!LiveStage
<1>2. PICK status \in V!Reports(name) :
        /\ DOMAIN records' = DOMAIN records \cup {name}
        /\ records'[name].run = reviews /\ records'[name].status = status
        /\ \A n \in DOMAIN records \ {name} : records'[n] = records[n]
  BY <1>1, WriteIs
<1>3. UNCHANGED <<mode, head, reviews>>
  BY <1>1, WriteIs
<1>4. /\ Linked(records) /\ Whole(records) /\ records[Pilot].run < reviews /\ reviews \in Nat
      /\ head # V!None
      /\ records["v4_outcomes"].run < reviews => records["v4_outcomes"] = head["v4_outcomes"]
  BY <1>1 DEF ReviewInv
<1>5. /\ Pilot \in V!Name /\ V!LiveRecords \subseteq V!Name /\ Pilot \notin V!LiveRecords
      /\ V!LiveRecords = {Paper, "v4_outcomes"} /\ Paper # "v4_outcomes"
  BY DEF V!Name, V!ToSet, V!Order, V!LiveRecords, Pilot, Paper
<1>6. /\ DOMAIN records' = V!Name /\ records'[Pilot] = records[Pilot]
      /\ \A n \in V!Name \ {name} : records'[n] = records[n]
  BY <1>1, <1>2, <1>4, <1>5 DEF Whole
<1>7. \A n, s : n # name => (Has(records', n, s) <=> Has(records, n, s))
  BY <1>1, <1>2, <1>4, <1>5, <1>6 DEF Has, Whole
<1>8. Renewed(records) => Renewed(records')
  <2>1. CASE name = Paper
    BY <1>2, <1>4, <1>5, <1>6, <2>1 DEF Renewed, Whole
  <2>2. CASE name # Paper
    BY <1>4, <1>5, <1>6, <2>2 DEF Renewed, Whole
  <2> QED
    BY <2>1, <2>2
<1>9. name = Paper => Renewed(records')
  BY <1>2, <1>4, <1>5, <1>6 DEF Renewed, Whole
<1>10. name = "v4_outcomes" /\ Has(records, name, "ROWS") => Has(records', name, "ROWS")
  <2> SUFFICES ASSUME name = "v4_outcomes", Has(records, name, "ROWS")
               PROVE  Has(records', name, "ROWS")
    OBVIOUS
  <2>1. head[name].status = "ROWS"
    BY <1>1, <1>4 DEF Has
  <2>2. V!Reports(name) = {"ROWS"}
    BY <1>4, <2>1 DEF V!Reports, V!Ledger
  <2> QED
    BY <1>2, <2>2 DEF Has
<1>11. Linked(records')
  <2>1. Has(records, "v4_outcomes", "ROWS") => Has(records', "v4_outcomes", "ROWS")
    BY <1>7, <1>10
  <2>2. Has(records, Paper, "LIMITED_LIVE_TEST_READY") \/ Renewed(records) =>
          Has(records', Paper, "LIMITED_LIVE_TEST_READY") \/ Renewed(records')
    BY <1>7, <1>8, <1>9
  <2>3. \A n, s : n \notin {Paper, "v4_outcomes"} => (Has(records', n, s) <=> Has(records, n, s))
    BY <1>1, <1>5, <1>7
  <2> QED
    BY <1>4, <2>1, <2>2, <2>3 DEF Linked, Pilot, Paper
<1>12. Whole(records)'
  <2>1. reviews' = reviews
    BY <1>3
  <2> QED
    BY <1>1, <1>2, <1>4, <1>5, <1>6, <2>1 DEF Whole
<1>13. Linked(records)' /\ Linked(head)' /\ (head = V!None \/ Whole(head))'
  BY <1>3, <1>11 DEF ReviewInv, Linked, Has, Renewed, Whole
<1>14. records'["v4_outcomes"].run < reviews => records'["v4_outcomes"] = head["v4_outcomes"]
  <2>1. CASE name = "v4_outcomes"
    BY <1>2, <1>4, <2>1
  <2>2. CASE name # "v4_outcomes"
    BY <1>4, <1>5, <1>6, <2>2
  <2> QED
    BY <2>1, <2>2
<1> QED
  BY <1>1, <1>3, <1>4, <1>6, <1>12, <1>13, <1>14 DEF ReviewInv

LEMMA ReviewStep == ReviewInv /\ [V!Next]_(V!vars) => ReviewInv'
<1> SUFFICES ASSUME ReviewInv, [V!Next]_(V!vars) PROVE ReviewInv'
  OBVIOUS
<1>1. CASE V!Matured
  BY <1>1 DEF V!Matured, ReviewInv, Linked, Has, Renewed, Whole
<1>2. CASE V!StartFull
  <2>1. /\ reviews' = reviews + 1 /\ mode' = "full" /\ records' = V!None /\ UNCHANGED head
    BY <1>2 DEF V!StartFull
  <2>2. Linked(records)' /\ DOMAIN records' = {}
    BY <2>1 DEF V!None, Linked, Has
  <2>3. Linked(head)' /\ (head = V!None \/ Whole(head))'
    BY <2>1 DEF ReviewInv, Linked, Has, Renewed, Whole, V!None
  <2> QED
    BY <2>1, <2>2, <2>3 DEF ReviewInv
<1>3. CASE V!StartLive
  <2>1. /\ head # V!None /\ reviews' = reviews + 1 /\ mode' = "live"
        /\ records' = head /\ UNCHANGED head
    BY <1>3 DEF V!StartLive
  <2>2. Whole(head) /\ Linked(head) /\ reviews \in Nat
    BY <2>1 DEF ReviewInv
  <2>3. Whole(head)' /\ Whole(records)'
    BY <2>1, <2>2 DEF Whole
  <2>4. Linked(head)' /\ Linked(records)'
    BY <2>1, <2>2 DEF Linked, Has, Renewed
  <2>5. Pilot \in V!Name
    BY DEF V!Name, V!ToSet, V!Order, Pilot
  <2>6. records'[Pilot].run < reviews'
    BY <2>1, <2>2, <2>5 DEF Whole
  <2>7. head' # V!None /\ records'["v4_outcomes"] = head'["v4_outcomes"]
    BY <2>1
  <2> QED
    BY <2>1, <2>2, <2>3, <2>4, <2>6, <2>7 DEF ReviewInv
<1>4. CASE V!FullStage
  BY <1>4, FullStep
<1>5. CASE V!LiveStage
  BY <1>5, LiveStep
<1>6. CASE V!Publish
  <2>1. head' = records /\ mode' = "idle" /\ UNCHANGED reviews
    BY <1>6 DEF V!Publish
  <2>2. (mode = "full" /\ DOMAIN records = V!Name) \/ mode = "live"
    BY <1>6 DEF V!Publish
  <2>3. Linked(records) /\ reviews \in Nat
    BY <2>2 DEF ReviewInv
  <2>4. Whole(records)
    <3>1. CASE mode = "full" /\ DOMAIN records = V!Name
      <4>1. Pilot \in V!Name
        BY DEF V!Name, V!ToSet, V!Order, Pilot
      <4> QED
        BY <3>1, <4>1 DEF ReviewInv, Whole
    <3>2. CASE mode = "live"
      BY <3>2 DEF ReviewInv
    <3> QED
      BY <2>2, <3>1, <3>2
  <2>5. Whole(head)' /\ Linked(head)'
    BY <2>1, <2>3, <2>4 DEF Whole, Linked, Has, Renewed
  <2> QED
    BY <2>1, <2>3, <2>5 DEF ReviewInv
<1>7. CASE V!Fail
  <2>1. mode' = "idle" /\ UNCHANGED <<head, reviews>>
    BY <1>7 DEF V!Fail
  <2> QED
    BY <2>1 DEF ReviewInv, Linked, Has, Renewed, Whole
<1>8. CASE UNCHANGED V!vars
  BY <1>8 DEF V!vars, ReviewInv, Linked, Has, Renewed, Whole
<1> QED
  BY <1>1, <1>2, <1>3, <1>4, <1>5, <1>6, <1>7, <1>8 DEF V!Next

(***************************************************************************)
(* A published packet was made by one full run whose gates all passed.  The *)
(* live runs that keep it renew the paper validation and the outcome ledger *)
(* alone, and only the paper validation can have closed since.              *)
(***************************************************************************)
THEOREM PacketsAreWhole == Spec => []PacketFollowsItsGates
<1>1. ReviewInv => PacketFollowsItsGates
  <2> SUFFICES ASSUME ReviewInv, head # V!None, head[Pilot].status = "PAPER_REHEARSAL_READY"
               PROVE  /\ \A n \in V!Name : \/ head[n].run = head[Pilot].run
                                           \/ n \in V!LiveRecords /\ head[n].run > head[Pilot].run
                      /\ \A n \in DOMAIN V!Gates : \/ head[n].status = V!Gates[n]
                                                   \/ n = Paper /\ head[n].run > head[Pilot].run
    BY DEF PacketFollowsItsGates, V!PacketFollowsItsGates, Pilot, Paper
  <2>1. Whole(head) /\ Linked(head)
    BY DEF ReviewInv
  <2>2. Has(head, Pilot, "PAPER_REHEARSAL_READY")
    <3>1. Pilot \in V!Name
      BY DEF V!Name, V!ToSet, V!Order, Pilot
    <3> QED
      BY <2>1, <3>1 DEF Has, Whole
  <2>3. /\ Has(head, "v9_readiness", "ELIGIBLE")
        /\ Has(head, "v7_allocation_health", "PAPER_PLAN_READY")
    BY <2>1, <2>2 DEF Linked
  <2>4. /\ Has(head, "v6_model", "VALIDATED_SHADOW")
        /\ Has(head, "v8_1_operational_health", "HEALTHY")
        /\ Has(head, "v7_1_evidence_health", "HEALTHY")
        /\ Has(head, "v7_3_challenger_health", "CHALLENGER_VALIDATED")
        /\ Has(head, "v4_6_cutover_evaluation", "ELIGIBLE")
        /\ Has(head, Paper, "LIMITED_LIVE_TEST_READY") \/ Renewed(head)
    BY <2>1, <2>3 DEF Linked
  <2>5. /\ Has(head, "scan_health", "PASS") /\ Has(head, "v4_outcomes", "ROWS")
        /\ Has(head, "v4_shadow_observations", "ROWS")
    BY <2>1, <2>4 DEF Linked
  <2>6. \A n \in DOMAIN V!Gates :
          \/ n = Paper /\ V!Gates[n] = "LIMITED_LIVE_TEST_READY"
          \/ Has(head, n, V!Gates[n])
    BY <2>3, <2>4, <2>5 DEF V!Gates, Paper
  <2> QED
    BY <2>1, <2>4, <2>6 DEF Whole, Has, Renewed
<1> QED
  BY <1>1, ReviewInit, ReviewStep, Composition, PTL DEF V!Spec

-----------------------------------------------------------------------------
(* ModelCutover *)

FitStatus == {"", "INSUFFICIENT_DATA", "SHADOW_ONLY", "VALIDATED_SHADOW"}
Observation ==
  [v3 : BOOLEAN, v45 : BOOLEAN, status : FitStatus, bars : Nat, from : Nat, hit : BOOLEAN]
RunnerType ==
  [at : {"idle", "outcomes", "resolve", "record", "health", "monitor", "evaluate", "enforce",
         "publish"},
   t0 : Nat, eligible : BOOLEAN]

CutoverType ==
  /\ day \in 1..MaxDay
  /\ DOMAIN ledger \subseteq (1..day) \X Ticker /\ \A k \in DOMAIN ledger : ledger[k] \in Observation
  /\ runner \in RunnerType /\ (runner.at # "idle" => runner.t0 = day)
  /\ model.status \in FitStatus

(***************************************************************************)
(* A label that is still in reach was measured on the first Mature sessions *)
(* after its cohort, all of them past.                                      *)
(***************************************************************************)
HitBy(k) == \E d \in (k[1] + 1)..(k[1] + Mature) : <<k[2], d>> \in touched
Labels ==
  \A k \in DOMAIN ledger :
    ledger[k].from > 0 /\ day - k[1] <= Window =>
      /\ k[1] + Mature <= day
      /\ ledger[k].from = k[1] + 1
      /\ ledger[k].hit <=> HitBy(k)

CutoverInv == CutoverType /\ Labels

-----------------------------------------------------------------------------
LEMMA SizesAre ==
  /\ Mature \in Nat \ {0} /\ Horizon \in Int /\ Window \in Int /\ MaxDay \in Nat \ {0}
  /\ Mature <= Horizon /\ Horizon <= Window
BY InstanceAssumption DEF C!HorizonAssumption, C!SizesAssumption

\* Within reach, a session's future is every session since.
LEMMA FutureIs ==
  ASSUME NEW k, NEW t0 \in 1..MaxDay, k[1] \in 1..t0
  PROVE  /\ C!Future(k, t0) \subseteq Nat /\ IsFiniteSet(C!Future(k, t0))
         /\ Cardinality(C!Future(k, t0)) \in Nat
         /\ t0 - k[1] <= Window => C!Future(k, t0) = (k[1] + 1)..t0
<1>1. C!Future(k, t0) \subseteq 1..MaxDay
  BY DEF C!Future, C!Day
<1>2. IsFiniteSet(1..MaxDay)
  BY SizesAre, FS_Interval
<1>3. IsFiniteSet(C!Future(k, t0)) /\ Cardinality(C!Future(k, t0)) \in Nat
  BY <1>1, <1>2, FS_Subset, FS_CardinalityType
<1>4. ASSUME t0 - k[1] <= Window PROVE C!Future(k, t0) = (k[1] + 1)..t0
  <2>1. \A d \in Int : d > k[1] /\ d <= t0 => d \in 1..MaxDay /\ d > t0 - Window
    BY <1>4, SizesAre
  <2> QED
    BY <2>1, SizesAre DEF C!Future, C!Day
<1> QED
  BY <1>1, <1>3, <1>4, SizesAre

\* The first n sessions of an interval.
LEMMA HeadIs ==
  ASSUME NEW a \in Nat, NEW b \in Nat, NEW n \in Nat, a + n <= b
  PROVE  C!Head((a + 1)..b, n) = (a + 1)..(a + n)
<1> SUFFICES ASSUME NEW d \in (a + 1)..b
             PROVE  C!Cardinality({e \in (a + 1)..b : e < d}) < n <=> d <= a + n
  BY DEF C!Head
<1>1. {e \in (a + 1)..b : e < d} = (a + 1)..(d - 1)
  OBVIOUS
<1>2. Cardinality((a + 1)..(d - 1)) = d - 1 - a
  BY FS_Interval
<1>3. C!Cardinality({e \in (a + 1)..b : e < d}) = d - 1 - a
  BY <1>1, <1>2, SameCardinality
<1> QED
  BY <1>3

\* Some session is among the first.
LEMMA HeadNotEmpty ==
  ASSUME NEW S \in SUBSET Nat, S # {}, NEW n \in Nat \ {0}
  PROVE  C!Head(S, n) # {} /\ C!Head(S, n) \subseteq S
<1>1. PICK x \in S : \A y \in S : x <= y
  BY Smallest
<1>2. {e \in S : e < x} = {}
  <2>1. \A e \in S : e \in Nat /\ x \in Nat /\ x <= e
    BY <1>1
  <2>2. \A e \in S : ~(e < x)
    BY <2>1
  <2> QED
    BY <2>2
<1>3. C!Cardinality({e \in S : e < x}) = 0
  BY <1>2, SameCardinality, FS_EmptySet
<1>4. x \in C!Head(S, n)
  BY <1>3 DEF C!Head
<1> QED
  BY <1>4 DEF C!Head

\* What a resolution leaves of an observation.
LEMMA ResolvedIs ==
  ASSUME NEW k, NEW t0 \in 1..MaxDay, k[1] \in 1..t0, NEW o \in Observation
  PROVE  LET r == C!Resolved(k, o, t0) IN
         /\ r \in Observation
         /\ r.v3 = o.v3 /\ r.v45 = o.v45 /\ r.status = o.status /\ r.bars >= o.bars
         /\ t0 - k[1] <= Window =>
              IF k[1] + Mature <= t0 THEN r.from = k[1] + 1 /\ (r.hit <=> HitBy(k))
              ELSE r.from = o.from /\ r.hit = o.hit
<1> DEFINE future == C!Future(k, t0)
           available == IF Cardinality(future) < Horizon THEN Cardinality(future) ELSE Horizon
           seen == [o EXCEPT !.bars = IF @ < available THEN available ELSE @]
           window == C!Head(future, Mature)
           hit == \E d \in window : <<k[2], d>> \in touched
           r == C!Resolved(k, o, t0)
<1>1. r = IF available < Mature THEN seen
          ELSE [seen EXCEPT !.from = C!Min(window), !.hit = hit]
  BY SameCardinality DEF C!Resolved
<1>2. future \subseteq Nat /\ IsFiniteSet(future) /\ Cardinality(future) \in Nat
  BY FutureIs
<1>3. available \in Nat
  BY <1>2, SizesAre
<1>4. available >= Mature <=> Cardinality(future) >= Mature
  BY <1>2, SizesAre
<1>5. ASSUME available >= Mature PROVE C!Min(window) \in Nat
  <2>1. future # {}
    BY <1>4, <1>5, SizesAre, FS_EmptySet
  <2>2. window # {} /\ window \subseteq future
    BY <1>2, <2>1, SizesAre, HeadNotEmpty
  <2> QED
    BY <1>2, <2>2, Smallest
<1>6. ASSUME t0 - k[1] <= Window
      PROVE  /\ available >= Mature <=> k[1] + Mature <= t0
             /\ k[1] + Mature <= t0 => C!Min(window) = k[1] + 1 /\ (hit <=> HitBy(k))
  <2>1. future = (k[1] + 1)..t0
    BY <1>6, FutureIs
  <2>2. Cardinality(future) = t0 - k[1]
    BY <2>1, SizesAre, FS_Interval
  <2>3. available >= Mature <=> k[1] + Mature <= t0
    BY <1>4, <2>2, SizesAre
  <2>4. ASSUME k[1] + Mature <= t0
        PROVE  C!Min(window) = k[1] + 1 /\ (hit <=> HitBy(k))
    <3>1. window = (k[1] + 1)..(k[1] + Mature)
      BY <2>1, <2>4, SizesAre, HeadIs
    <3> DEFINE W == (k[1] + 1)..(k[1] + Mature)
    <3>2. W \in SUBSET Nat /\ k[1] + 1 \in W /\ \A y \in W : k[1] + 1 <= y
      BY SizesAre
    <3> HIDE DEF W
    <3>3. C!Min(W) = k[1] + 1
      <4>1. PICK x \in W : C!Min(W) = x /\ \A y \in W : x <= y
        BY <3>2, Smallest
      <4> QED
        BY <3>2, <4>1
    <3>4. hit <=> HitBy(k)
      BY <3>1 DEF HitBy
    <3> QED
      BY <3>1, <3>3, <3>4 DEF W
  <2> QED
    BY <2>3, <2>4
<1> HIDE DEF available, window, hit, r
<1>7. /\ seen \in Observation /\ seen.bars >= o.bars
      /\ seen.v3 = o.v3 /\ seen.v45 = o.v45 /\ seen.status = o.status
      /\ seen.from = o.from /\ seen.hit = o.hit
  BY <1>3 DEF Observation
<1> HIDE DEF seen
<1>8. hit \in BOOLEAN
  BY DEF hit
<1>9. CASE available < Mature
  <2>1. ~(available >= Mature)
    BY <1>3, <1>9, SizesAre
  <2> QED
    BY <1>1, <1>6, <1>7, <1>9, <2>1 DEF r
<1>10. CASE ~(available < Mature)
  <2>1. available >= Mature
    BY <1>3, <1>10, SizesAre
  <2>2. r = [seen EXCEPT !.from = C!Min(window), !.hit = hit] /\ C!Min(window) \in Nat
    BY <1>1, <1>5, <1>10, <2>1
  <2>3. /\ r \in Observation /\ r.bars = seen.bars
        /\ r.v3 = seen.v3 /\ r.v45 = seen.v45 /\ r.status = seen.status
        /\ r.from = C!Min(window) /\ r.hit = hit
    BY <1>7, <1>8, <2>2 DEF Observation
  <2> QED
    BY <1>6, <1>7, <2>1, <2>3 DEF r
<1> QED
  BY <1>9, <1>10

\* What no step does to the ledger.
CohortKept ==
  \A k \in DOMAIN ledger :
    /\ k \in DOMAIN ledger' /\ C!Choice(ledger'[k]) = C!Choice(ledger[k])
    /\ ledger'[k].bars >= ledger[k].bars
    /\ \A j \in DOMAIN ledger' : j[1] = k[1] => j \in DOMAIN ledger
    /\ ledger[k].from > 0 /\ runner.t0 - k[1] <= Window =>
         ledger'[k].from = ledger[k].from /\ ledger'[k].hit = ledger[k].hit

LEMMA CutoverInit == C!Init => CutoverInv
<1> SUFFICES ASSUME C!Init PROVE CutoverInv
  OBVIOUS
<1>1. CutoverType
  <2>1. day = 1 /\ day \in 1..MaxDay
    BY SizesAre DEF C!Init
  <2>2. runner \in RunnerType /\ runner.at = "idle" /\ model.status \in FitStatus
    BY DEF C!Init, C!Idle, C!NoModel, RunnerType, FitStatus
  <2> QED
    BY <2>1, <2>2 DEF C!Init, C!Empty, CutoverType
<1>2. Labels
  BY DEF C!Init, C!Empty, Labels
<1> QED
  BY <1>1, <1>2 DEF CutoverInv

LEMMA FittedStatus == \A outcomes : C!Fitted(outcomes).status \in FitStatus
BY DEF C!Fitted, FitStatus

\* A run resolves: the day is the run's, and what is in reach stays as it was.
LEMMA ResolveStep ==
  ASSUME CutoverInv, C!ResolveHistories
  PROVE  CutoverInv' /\ CohortKept
<1>1. /\ runner.at = "resolve" /\ runner' = [runner EXCEPT !.at = "record"]
      /\ UNCHANGED <<day, touched, model>>
  BY DEF C!ResolveHistories, C!Stage, C!Elsewhere
<1>2. PICK resolvable :
        ledger' = [k \in DOMAIN ledger |->
                     IF k[2] \in resolvable THEN C!Resolved(k, ledger[k], runner.t0) ELSE ledger[k]]
  BY DEF C!ResolveHistories
<1>3. /\ day \in 1..MaxDay /\ runner.t0 = day
      /\ \A k \in DOMAIN ledger : k[1] \in 1..day /\ ledger[k] \in Observation
  BY <1>1 DEF CutoverInv, CutoverType
<1>4. DOMAIN ledger' = DOMAIN ledger
  BY <1>2
<1>5. ASSUME NEW k \in DOMAIN ledger
      PROVE  /\ ledger'[k] \in Observation
             /\ C!Choice(ledger'[k]) = C!Choice(ledger[k]) /\ ledger'[k].bars >= ledger[k].bars
             /\ day - k[1] <= Window =>
                  IF ledger'[k] # ledger[k] /\ k[1] + Mature <= day
                  THEN ledger'[k].from = k[1] + 1 /\ (ledger'[k].hit <=> HitBy(k))
                  ELSE ledger'[k].from = ledger[k].from /\ ledger'[k].hit = ledger[k].hit
  <2>1. CASE k[2] \in resolvable
    <3>1. ledger'[k] = C!Resolved(k, ledger[k], day)
      BY <1>2, <1>3, <2>1
    <3> QED
      BY <1>3, <3>1, ResolvedIs DEF C!Choice
  <2>2. CASE k[2] \notin resolvable
    <3>1. ledger'[k] = ledger[k]
      BY <1>2, <2>2
    <3>2. ledger[k].bars \in Nat
      BY <1>3 DEF Observation
    <3> QED
      BY <1>3, <3>1, <3>2
  <2> QED
    BY <2>1, <2>2
<1>6. ASSUME NEW k \in DOMAIN ledger, ledger[k].from > 0, day - k[1] <= Window
      PROVE  /\ k[1] + Mature <= day /\ ledger[k].from = k[1] + 1 /\ (ledger[k].hit <=> HitBy(k))
             /\ ledger'[k].from = ledger[k].from /\ ledger'[k].hit = ledger[k].hit
  <2>1. k[1] + Mature <= day /\ ledger[k].from = k[1] + 1 /\ (ledger[k].hit <=> HitBy(k))
    BY <1>6 DEF CutoverInv, Labels
  <2>2. ledger[k].hit \in BOOLEAN /\ ledger'[k].hit \in BOOLEAN
    BY <1>3, <1>5 DEF Observation
  <2> QED
    BY <1>5, <1>6, <2>1, <2>2
<1>7. CohortKept
  BY <1>3, <1>4, <1>5, <1>6 DEF CohortKept
<1>8. \A k : HitBy(k)' <=> HitBy(k)
  BY <1>1 DEF HitBy
<1>9. Labels'
  <2> SUFFICES ASSUME NEW k \in DOMAIN ledger, ledger'[k].from > 0, day - k[1] <= Window
               PROVE  k[1] + Mature <= day /\ ledger'[k].from = k[1] + 1 /\ (ledger'[k].hit <=> HitBy(k))
    BY <1>1, <1>4, <1>8 DEF Labels
  <2>1. CASE ledger'[k] # ledger[k] /\ k[1] + Mature <= day
    BY <1>5, <2>1
  <2>2. CASE ~(ledger'[k] # ledger[k] /\ k[1] + Mature <= day)
    <3>1. ledger'[k].from = ledger[k].from
      BY <1>5, <2>2
    <3> QED
      BY <1>6, <3>1
  <2> QED
    BY <2>1, <2>2
<1>10. CutoverType'
  <2>1. runner' \in RunnerType /\ runner'.t0 = runner.t0
    BY <1>1 DEF CutoverInv, CutoverType, RunnerType
  <2> QED
    BY <1>1, <1>3, <1>4, <1>5, <2>1 DEF CutoverInv, CutoverType
<1> QED
  BY <1>7, <1>9, <1>10 DEF CutoverInv

\* A cohort is recorded only for a session that has none.
LEMMA RecordStep ==
  ASSUME CutoverInv, C!RecordSnapshot
  PROVE  CutoverInv' /\ CohortKept
<1>1. /\ runner.at = "record" /\ runner' = [runner EXCEPT !.at = "health"]
      /\ UNCHANGED <<day, touched, model>>
  BY DEF C!RecordSnapshot, C!Stage, C!Elsewhere
<1>2. /\ day \in 1..MaxDay /\ runner.t0 = day /\ model.status \in FitStatus
      /\ DOMAIN ledger \subseteq (1..day) \X Ticker
      /\ \A k \in DOMAIN ledger : ledger[k] \in Observation
  BY <1>1 DEF CutoverInv, CutoverType
<1>3. runner' \in RunnerType /\ runner'.t0 = runner.t0
  BY <1>1 DEF CutoverInv, CutoverType, RunnerType
<1>4. CASE UNCHANGED ledger
  <2>1. CohortKept
    BY <1>2, <1>4 DEF CohortKept, Observation
  <2>2. CutoverType' /\ Labels'
    BY <1>1, <1>2, <1>3, <1>4 DEF CutoverInv, CutoverType, Labels, HitBy
  <2> QED
    BY <2>1, <2>2 DEF CutoverInv
<1>5. CASE ledger' # ledger
  <2>1. ~C!Recorded(day)
    BY <1>2, <1>5 DEF C!RecordSnapshot
  <2>2. PICK v3 \in Offered[day] : \E v45 \in IF model.version = {} THEN {{}} ELSE SUBSET v3 \ {{}} :
          LET added == C!Snapshot(day, v3, v45)
          IN ledger' = [k \in DOMAIN ledger \cup DOMAIN added |->
                          IF k \in DOMAIN added THEN added[k] ELSE ledger[k]]
    BY <1>2, <1>5 DEF C!RecordSnapshot
  <2>3. PICK v45 \in SUBSET v3 :
          LET added == C!Snapshot(day, v3, v45)
          IN ledger' = [k \in DOMAIN ledger \cup DOMAIN added |->
                          IF k \in DOMAIN added THEN added[k] ELSE ledger[k]]
    BY <2>2
  <2> DEFINE added == C!Snapshot(day, v3, v45)
  <2>4. v3 \subseteq Ticker
    BY <1>2, InstanceAssumption DEF C!SizesAssumption
  <2>5. /\ DOMAIN added = {day} \X v3
        /\ \A k \in DOMAIN added : added[k] \in Observation /\ added[k].from = 0
    <3>1. DOMAIN added = {day} \X (v3 \cup v45)
      BY DEF C!Snapshot
    <3>2. \A k \in DOMAIN added :
            added[k] = [v3 |-> k[2] \in v3, v45 |-> k[2] \in v45, status |-> model.status,
                        bars |-> 0, from |-> 0, hit |-> FALSE]
      BY DEF C!Snapshot
    <3>3. v3 \cup v45 = v3
      BY <2>3
    <3> HIDE DEF added
    <3>4. ASSUME NEW k \in DOMAIN added PROVE added[k] \in Observation /\ added[k].from = 0
      <4> DEFINE isV3 == k[2] \in v3
                 isV45 == k[2] \in v45
      <4>1. isV3 \in BOOLEAN /\ isV45 \in BOOLEAN
        OBVIOUS
      <4>2. added[k] = [v3 |-> isV3, v45 |-> isV45, status |-> model.status,
                        bars |-> 0, from |-> 0, hit |-> FALSE]
        BY <3>2, Zenon
      <4> HIDE DEF isV3, isV45
      <4> QED
        BY <1>2, <4>1, <4>2 DEF Observation
    <3> QED
      BY <3>1, <3>3, <3>4
  <2> HIDE DEF added
  <2>6. /\ DOMAIN ledger' = DOMAIN ledger \cup DOMAIN added
        /\ \A k \in DOMAIN ledger' : ledger'[k] = IF k \in DOMAIN added THEN added[k] ELSE ledger[k]
    BY <2>3 DEF added
  <2>7. \A k \in DOMAIN ledger, j \in DOMAIN added : k[1] # j[1]
    BY <2>1, <2>5 DEF C!Recorded
  <2>8. \A k \in DOMAIN ledger : k \notin DOMAIN added /\ ledger'[k] = ledger[k]
    BY <2>6, <2>7
  <2>9. CohortKept
    <3>1. \A k \in DOMAIN ledger : ledger[k].bars \in Nat
      BY <1>2 DEF Observation
    <3>2. \A k \in DOMAIN ledger : \A j \in DOMAIN ledger' : j[1] = k[1] => j \in DOMAIN ledger
      BY <2>6, <2>7
    <3> QED
      BY <2>6, <2>8, <3>1, <3>2 DEF CohortKept
  <2>10. CutoverType'
    <3>1. DOMAIN added \subseteq (1..day) \X Ticker
      BY <1>2, <2>4, <2>5
    <3>2. DOMAIN ledger' \subseteq (1..day) \X Ticker
      BY <1>2, <2>6, <3>1
    <3>3. \A k \in DOMAIN ledger' : ledger'[k] \in Observation
      BY <1>2, <2>5, <2>6
    <3> QED
      BY <1>1, <1>2, <1>3, <3>2, <3>3 DEF CutoverType
  <2>11. Labels'
    <3>1. \A k \in DOMAIN added : ~(ledger'[k].from > 0)
      BY <2>5, <2>6
    <3>2. \A k : HitBy(k)' <=> HitBy(k)
      BY <1>1 DEF HitBy
    <3> QED
      BY <1>1, <2>6, <2>8, <3>1, <3>2 DEF CutoverInv, Labels
  <2> QED
    BY <2>9, <2>10, <2>11 DEF CutoverInv
<1> QED
  BY <1>4, <1>5

\* A new session's bar is after every label that is in reach.
LEMMA SessionStep ==
  ASSUME CutoverInv, C!NextSession
  PROVE  CutoverInv' /\ CohortKept
<1>1. /\ day < MaxDay /\ runner.at = "idle" /\ day' = day + 1
      /\ UNCHANGED <<ledger, model, runner>>
  BY DEF C!NextSession, C!documents
<1>2. PICK up : touched' = touched \cup {<<t, day + 1>> : t \in up}
  BY DEF C!NextSession
<1>3. /\ day \in 1..MaxDay
      /\ DOMAIN ledger \subseteq (1..day) \X Ticker
      /\ \A k \in DOMAIN ledger : ledger[k] \in Observation
  BY DEF CutoverInv, CutoverType
<1>4. CohortKept
  BY <1>1, <1>3 DEF CohortKept, Observation
<1>5. CutoverType'
  <2>1. day' \in 1..MaxDay /\ DOMAIN ledger \subseteq (1..day') \X Ticker
    BY <1>1, <1>3, SizesAre
  <2> QED
    BY <1>1, <2>1 DEF CutoverInv, CutoverType
<1>6. Labels'
  <2> SUFFICES ASSUME NEW k \in DOMAIN ledger', ledger'[k].from > 0, day' - k[1] <= Window
               PROVE  /\ k[1] + Mature <= day' /\ ledger'[k].from = k[1] + 1
                      /\ ledger'[k].hit <=> HitBy(k)'
    BY DEF Labels
  <2>1. k \in DOMAIN ledger /\ ledger[k].from > 0 /\ k[1] \in Nat /\ day \in Nat /\ day - k[1] <= Window
    BY <1>1, <1>3, SizesAre
  <2>2. k[1] + Mature <= day /\ ledger[k].from = k[1] + 1 /\ (ledger[k].hit <=> HitBy(k))
    BY <2>1 DEF CutoverInv, Labels
  <2>3. \A d \in (k[1] + 1)..(k[1] + Mature) : <<k[2], d>> \in touched' <=> <<k[2], d>> \in touched
    <3>1. \A d \in (k[1] + 1)..(k[1] + Mature) : d # day + 1
      BY <2>1, <2>2, SizesAre
    <3> QED
      BY <1>2, <3>1
  <2>4. HitBy(k)' <=> HitBy(k)
    BY <2>3 DEF HitBy
  <2> QED
    BY <1>1, <2>1, <2>2, <2>4, SizesAre
<1> QED
  BY <1>4, <1>5, <1>6 DEF CutoverInv

LEMMA CutoverStep ==
  ASSUME CutoverInv, C!Next
  PROVE  CutoverInv' /\ CohortKept
<1>a. ASSUME UNCHANGED <<day, touched, ledger>>, model'.status \in FitStatus,
             runner' \in RunnerType, runner'.at # "idle" => runner'.t0 = day
      PROVE  CutoverInv' /\ CohortKept
  <2>1. CutoverType' /\ Labels'
    BY <1>a DEF CutoverInv, CutoverType, Labels, HitBy
  <2>2. CohortKept
    BY <1>a DEF CutoverInv, CutoverType, CohortKept, Observation
  <2> QED
    BY <2>1, <2>2 DEF CutoverInv
<1> DEFINE Stays == UNCHANGED <<day, touched, ledger, model>>
<1>b. /\ runner \in RunnerType /\ (runner.at # "idle" => runner.t0 = day)
      /\ day \in Nat /\ model.status \in FitStatus
  BY SizesAre DEF CutoverInv, CutoverType
<1>1. CASE C!NextSession
  BY <1>1, SessionStep
<1>2. CASE C!Start
  <2>1. Stays /\ runner' = [at |-> "outcomes", t0 |-> day, eligible |-> FALSE]
    BY <1>2 DEF C!Start, C!documents
  <2> QED
    BY <1>a, <1>b, <2>1 DEF RunnerType
<1>3. CASE C!FitCalibration
  <2>1. /\ UNCHANGED <<day, touched, ledger>> /\ model'.status \in FitStatus
        /\ runner.at = "outcomes" /\ runner' = [runner EXCEPT !.at = "resolve"]
    BY <1>3, FittedStatus DEF C!FitCalibration, C!Stage, C!Elsewhere
  <2> QED
    BY <1>a, <1>b, <2>1 DEF RunnerType
<1>4. CASE C!ResolveHistories
  BY <1>4, ResolveStep
<1>5. CASE C!RecordSnapshot
  BY <1>5, RecordStep
<1>6. CASE C!WriteHealth \/ C!MonitorModel
  <2>1. Stays /\ runner.at # "idle"
        /\ (runner' = [runner EXCEPT !.at = "monitor"] \/ runner' = [runner EXCEPT !.at = "evaluate"])
    BY <1>6 DEF C!WriteHealth, C!MonitorModel, C!Stage, C!Elsewhere, C!documents
  <2> QED
    BY <1>a, <1>b, <2>1 DEF RunnerType
<1>7. CASE C!Evaluate
  <2>1. PICK answer \in BOOLEAN :
          /\ Stays /\ runner.at = "evaluate"
          /\ runner' = [runner EXCEPT !.at = "enforce", !.eligible = C!Eligible(model, work, answer)]
    BY <1>7 DEF C!Evaluate, C!Elsewhere, C!documents
  <2>2. C!Eligible(model, work, answer) \in BOOLEAN
    BY DEF C!Eligible
  <2> QED
    BY <1>a, <1>b, <2>1, <2>2 DEF RunnerType
<1>8. CASE C!EnforceSafety
  <2>1. Stays /\ runner.at # "idle" /\ runner' = [runner EXCEPT !.at = "publish"]
    BY <1>8 DEF C!EnforceSafety, C!Stage, C!Elsewhere
  <2> QED
    BY <1>a, <1>b, <2>1 DEF RunnerType
<1>10. CASE C!Publish \/ C!FailRun
  <2>1. Stays /\ runner' = C!Idle
    BY <1>10 DEF C!Publish, C!FailRun, C!documents
  <2> QED
    BY <1>a, <1>b, <2>1 DEF RunnerType, C!Idle
<1>9. CASE C!OperatorStep
  <2>1. Stays /\ UNCHANGED runner
    BY <1>9 DEF C!OperatorStep, C!OperatorEvaluates, C!OperatorActivates, C!OperatorCopies,
                C!OperatorStops, C!OperatorRollsBack, C!Command
  <2> QED
    BY <1>a, <1>b, <2>1
<1> QED
  BY <1>1, <1>2, <1>3, <1>4, <1>5, <1>6, <1>7, <1>8, <1>9, <1>10 DEF C!Next, C!RunStep

LEMMA CutoverInductive == CutoverInv /\ [C!Next]_(C!vars) => CutoverInv'
<1>1. CutoverInv /\ UNCHANGED C!vars => CutoverInv'
  BY DEF C!vars, C!documents, CutoverInv, CutoverType, Labels, HitBy
<1> QED
  BY <1>1, CutoverStep

(***************************************************************************)
(* The cohort of a session is as it was first recorded: no ticker comes or  *)
(* goes, no resolution rewrites the ranking, and its bars only grow.        *)
(***************************************************************************)
THEOREM CohortsAreImmutable == Spec => CohortFrozen
<1> DEFINE Step ==
      \A k \in DOMAIN ledger :
        /\ k \in DOMAIN ledger' /\ C!Choice(ledger'[k]) = C!Choice(ledger[k])
        /\ ledger'[k].bars >= ledger[k].bars
        /\ \A j \in DOMAIN ledger' : j[1] = k[1] => j \in DOMAIN ledger
<1>1. CutoverInv /\ [C!Next]_(C!vars) => [Step]_(C!vars)
  BY CutoverStep DEF CohortKept
<1> QED
  BY <1>1, CutoverInit, CutoverInductive, Composition, PTL DEF CohortFrozen, C!CohortFrozen

(***************************************************************************)
(* A label that is still in reach is not measured anew.                     *)
(***************************************************************************)
THEOREM LabelsAreSettled == Spec => LabelSettles
<1> DEFINE Step ==
      \A k \in DOMAIN ledger :
        ledger[k].from > 0 /\ runner.t0 - k[1] <= Window
          => ledger'[k].from = ledger[k].from /\ ledger'[k].hit = ledger[k].hit
<1>1. CutoverInv /\ [C!Next]_(C!vars) => [Step]_(C!vars)
  BY CutoverStep DEF CohortKept
<1> QED
  BY <1>1, CutoverInit, CutoverInductive, Composition, PTL DEF LabelSettles, C!LabelSettles

\* The operator's desk keeps its field, whatever command is at work.
DeskShape == "at" \in DOMAIN desk

LEMMA DeskShapeInductive == DeskShape /\ [C!Next]_(C!vars) => DeskShape'
<1>1. DeskShape /\ UNCHANGED desk => DeskShape'
  BY DEF DeskShape
<1>2. DeskShape /\ C!OperatorStep => DeskShape'
  <2> SUFFICES ASSUME DeskShape, C!OperatorStep PROVE DeskShape'
    OBVIOUS
  <2>1. CASE C!OperatorEvaluates
    <3>1. PICK verdict \in BOOLEAN : desk' = [at |-> "decided", eligible |-> verdict, payload |-> C!NoModel]
      BY <2>1 DEF C!OperatorEvaluates, C!Command, C!Eligible
    <3> QED
      BY <3>1 DEF DeskShape
  <2>2. CASE C!OperatorActivates
    <3>1. desk' = [desk EXCEPT !.at = "activated", !.payload = model]
      BY <2>2 DEF C!OperatorActivates, C!Command
    <3> QED
      BY <3>1 DEF DeskShape
  <2>3. CASE C!OperatorCopies \/ C!OperatorStops \/ C!OperatorRollsBack
    <3>1. desk' = C!AtDesk
      BY <2>3 DEF C!OperatorCopies, C!OperatorStops, C!OperatorRollsBack, C!Command
    <3> QED
      BY <3>1 DEF DeskShape, C!AtDesk
  <2> QED
    BY <2>1, <2>2, <2>3 DEF C!OperatorStep
<1>3. C!NextSession \/ C!RunStep \/ C!FailRun => UNCHANGED desk
  BY DEF C!NextSession, C!FailRun, C!RunStep, C!Start, C!FitCalibration, C!ResolveHistories,
         C!RecordSnapshot, C!WriteHealth, C!MonitorModel, C!Evaluate, C!EnforceSafety, C!Publish,
         C!Elsewhere
<1> QED
  BY <1>1, <1>2, <1>3 DEF C!Next, C!vars

(***************************************************************************)
(* Refitting does not change what is served: that takes the operator's      *)
(* command or a rollback.                                                   *)
(***************************************************************************)
THEOREM ServedStays == Spec => RetrainingServesTheSame
<1> DEFINE Step == C!Served' # C!Served => desk' # desk \/ cutover'.mode = "SHADOW"
<1>1. DeskShape /\ [C!Next]_(C!vars) => [Step]_(C!vars)
  <2> SUFFICES ASSUME DeskShape, C!Next PROVE Step
    OBVIOUS
  <2>1. CASE UNCHANGED <<active, cutover>>
    BY <2>1 DEF C!Served, C!Routed, C!ServedModel
  <2>2. CASE C!OperatorStep
    <3>1. CASE C!OperatorEvaluates \/ C!OperatorStops
      BY <2>1, <3>1 DEF C!OperatorEvaluates, C!OperatorStops
    <3>2. CASE C!OperatorActivates
      <4>1. desk.at = "decided" /\ desk' = [desk EXCEPT !.at = "activated", !.payload = model]
        BY <3>2 DEF C!OperatorActivates, C!Command
      <4>2. desk' # desk
        BY <4>1 DEF DeskShape
      <4> QED
        BY <4>2
    <3>3. CASE C!OperatorCopies
      BY <3>3 DEF C!OperatorCopies, C!Command, C!AtDesk
    <3>4. CASE C!OperatorRollsBack
      BY <3>4 DEF C!OperatorRollsBack, C!RolledBack
    <3> QED
      BY <2>2, <3>1, <3>2, <3>3, <3>4 DEF C!OperatorStep
  <2>3. CASE C!EnforceSafety
    BY <2>1, <2>3 DEF C!EnforceSafety, C!RolledBack
  <2>4. CASE C!NextSession \/ C!FailRun \/ (C!RunStep /\ ~C!EnforceSafety)
    BY <2>1, <2>4 DEF C!NextSession, C!FailRun, C!RunStep, C!Start, C!FitCalibration, C!ResolveHistories,
                      C!RecordSnapshot, C!WriteHealth, C!MonitorModel, C!Evaluate, C!Publish, C!documents
  <2> QED
    BY <2>2, <2>3, <2>4 DEF C!Next
<1>2. C!Init => DeskShape
  BY DEF C!Init, C!AtDesk, DeskShape
<1> QED
  BY <1>1, <1>2, DeskShapeInductive, Composition, PTL DEF RetrainingServesTheSame, C!RetrainingServesTheSame

(***************************************************************************)
(* What DegradedIsRolledBack rests on.                                      *)
(***************************************************************************)
\* A run that is about to enforce a good verdict has its two health records with it.
VerdictOnWork ==
  /\ cutover.mode \in {"PRIMARY", "SHADOW"}
  /\ runner.at = "enforce" /\ runner.eligible => work.monitor = "HEALTHY" /\ work.evidence = "HEALTHY"

\* Health records for which a model is not to be primary.
Ill(w) == w.monitor # "HEALTHY" \/ w.evidence # "HEALTHY"

(* A run whose health records are not both HEALTHY leaves the model in shadow when it
   enforces its verdict, and is published with these records and that cutover, unless
   the operator has activated a model in between (v4_cutover.py, line 46). *)
UnhealthyIsCaught ==
  [][/\ runner.at = "enforce" /\ runner'.at = "publish" /\ Ill(work) =>
          cutover'.mode = "SHADOW" /\ work' = work
     /\ pub' # pub => runner.at = "publish" /\ pub' = work /\ cutover' = cutover
     /\ runner.at = "publish" => work' = work \/ runner'.at = "idle"
     /\ cutover.mode = "SHADOW" /\ cutover'.mode = "PRIMARY" => desk'.at = "activated"]_(C!vars)

LEMMA VerdictStep == CutoverInv /\ VerdictOnWork /\ [C!Next]_(C!vars) => VerdictOnWork'
<1> SUFFICES ASSUME CutoverInv, VerdictOnWork, [C!Next]_(C!vars) PROVE VerdictOnWork'
  OBVIOUS
<1>1. runner \in RunnerType
  BY DEF CutoverInv, CutoverType
<1>2. CASE C!NextSession
  BY <1>2 DEF C!NextSession, C!documents, VerdictOnWork
<1>3. CASE C!Start
  <2>1. runner'.at = "outcomes" /\ UNCHANGED cutover
    BY <1>3 DEF C!Start, C!documents
  <2> QED
    BY <2>1 DEF VerdictOnWork
<1>4. CASE C!FitCalibration \/ C!ResolveHistories \/ C!RecordSnapshot \/ C!WriteHealth \/ C!MonitorModel
  <2>1. /\ UNCHANGED cutover
        /\ \E to \in {"resolve", "record", "health", "monitor", "evaluate"} : runner' = [runner EXCEPT !.at = to]
    BY <1>4 DEF C!FitCalibration, C!ResolveHistories, C!RecordSnapshot, C!WriteHealth, C!MonitorModel,
                C!Stage, C!documents
  <2>2. runner'.at # "enforce"
    BY <1>1, <2>1 DEF RunnerType
  <2> QED
    BY <2>1, <2>2 DEF VerdictOnWork
<1>5. CASE C!Evaluate
  <2>1. PICK answer \in BOOLEAN :
          /\ UNCHANGED <<cutover, work>>
          /\ runner' = [runner EXCEPT !.at = "enforce", !.eligible = C!Eligible(model, work, answer)]
    BY <1>5 DEF C!Evaluate, C!documents
  <2>2. runner'.eligible => C!Eligible(model, work, answer)
    BY <1>1, <2>1 DEF RunnerType
  <2> QED
    BY <2>1, <2>2 DEF VerdictOnWork, C!Eligible
<1>6. CASE C!EnforceSafety \/ C!Publish \/ C!FailRun
  <2>1. runner'.at \in {"idle", "publish"} /\ cutover' \in {cutover, C!RolledBack}
    BY <1>1, <1>6 DEF C!EnforceSafety, C!Publish, C!FailRun, C!documents, C!Idle, C!Stage, RunnerType
  <2> QED
    BY <2>1 DEF VerdictOnWork, C!RolledBack
<1>7. CASE C!OperatorStep
  <2>1. UNCHANGED <<runner, work>>
    BY <1>7 DEF C!OperatorStep, C!OperatorEvaluates, C!OperatorActivates, C!OperatorCopies,
                C!OperatorStops, C!OperatorRollsBack, C!Command
  <2>2. cutover' = cutover \/ cutover'.mode \in {"PRIMARY", "SHADOW"}
    BY <1>7 DEF C!OperatorStep, C!OperatorEvaluates, C!OperatorActivates, C!OperatorCopies,
                C!OperatorStops, C!OperatorRollsBack, C!RolledBack
  <2> QED
    BY <2>1, <2>2 DEF VerdictOnWork
<1>8. CASE UNCHANGED C!vars
  BY <1>8 DEF C!vars, C!documents, VerdictOnWork
<1> QED
  BY <1>2, <1>3, <1>4, <1>5, <1>6, <1>7, <1>8 DEF C!Next, C!RunStep

(***************************************************************************)
(* A run rolls a degraded model back before it publishes the record: what   *)
(* DegradedIsRolledBack adds is only that a run gets there.                 *)
(***************************************************************************)
THEOREM RolledBackAtPublication == Spec => UnhealthyIsCaught
<1> DEFINE Enforced == runner.at = "enforce" /\ runner'.at = "publish" /\ Ill(work) =>
                         cutover'.mode = "SHADOW" /\ work' = work
           Published == pub' # pub => runner.at = "publish" /\ pub' = work /\ cutover' = cutover
           Carried == runner.at = "publish" => work' = work \/ runner'.at = "idle"
           Commanded == cutover.mode = "SHADOW" /\ cutover'.mode = "PRIMARY" => desk'.at = "activated"
           Step == Enforced /\ Published /\ Carried /\ Commanded
<1>1. C!Init => VerdictOnWork /\ DeskShape
  BY DEF C!Init, C!RolledBack, C!Idle, C!AtDesk, VerdictOnWork, DeskShape
<1>2. CutoverInv /\ VerdictOnWork /\ DeskShape /\ [C!Next]_(C!vars) => [Step]_(C!vars)
  <2> SUFFICES ASSUME CutoverInv, VerdictOnWork, DeskShape, C!Next PROVE Step
    OBVIOUS
  <2>1. runner \in RunnerType
    BY DEF CutoverInv, CutoverType
  <2>2. CASE C!EnforceSafety
    <3>1. /\ runner.at = "enforce" /\ UNCHANGED <<work, pub>>
          /\ cutover' = IF cutover.mode = "PRIMARY" /\ ~runner.eligible THEN C!RolledBack ELSE cutover
      BY <2>2 DEF C!EnforceSafety, C!Stage, C!Elsewhere
    <3>2. Ill(work) => ~runner.eligible
      BY <3>1 DEF VerdictOnWork, Ill
    <3> QED
      BY <3>1, <3>2 DEF VerdictOnWork, C!RolledBack
  <2>3. CASE C!Publish
    BY <2>3 DEF C!Publish, C!documents, C!Idle
  <2>4. CASE C!OperatorStep
    <3>1. UNCHANGED <<runner, work, pub>>
      BY <2>4 DEF C!OperatorStep, C!OperatorEvaluates, C!OperatorActivates, C!OperatorCopies,
                  C!OperatorStops, C!OperatorRollsBack, C!Command
    <3>2. C!OperatorActivates => desk'.at = "activated"
      BY DEF C!OperatorActivates, C!Command, DeskShape
    <3>3. ~C!OperatorActivates => cutover' \in {cutover, C!RolledBack}
      BY <2>4 DEF C!OperatorStep, C!OperatorEvaluates, C!OperatorCopies, C!OperatorStops, C!OperatorRollsBack
    <3> QED
      BY <3>1, <3>2, <3>3 DEF C!RolledBack
  <2>5. CASE C!NextSession \/ C!FailRun \/ (C!RunStep /\ ~C!EnforceSafety /\ ~C!Publish)
    <3>1. UNCHANGED <<cutover, pub>>
      BY <2>5 DEF C!NextSession, C!FailRun, C!RunStep, C!Start, C!FitCalibration, C!ResolveHistories,
             C!RecordSnapshot, C!WriteHealth, C!MonitorModel, C!Evaluate, C!documents, C!Elsewhere
    <3>2. \/ runner.at \notin {"enforce", "publish"}
          \/ runner' = C!Idle
      BY <2>5 DEF C!NextSession, C!FailRun, C!RunStep, C!Start, C!FitCalibration, C!ResolveHistories,
             C!RecordSnapshot, C!WriteHealth, C!MonitorModel, C!Evaluate, C!Stage
    <3>3. C!Idle.at = "idle"
      BY DEF C!Idle
    <3> QED
      BY <3>1, <3>2, <3>3
  <2> QED
    BY <2>2, <2>3, <2>4, <2>5 DEF C!Next
<1> QED
  BY <1>1, <1>2, CutoverInit, CutoverInductive, VerdictStep, DeskShapeInductive, Composition,
     PTL DEF UnhealthyIsCaught

-----------------------------------------------------------------------------
(* PaperBooks *)

Position ==
  [ticker : Symbol, at : Nat, status : {"OPEN"} \cup P!Closed, exit : Int, by : Int]

\* Runs are over when they are recorded, and bars touch known levels only.
BooksType ==
  /\ kind \in {"pick", "challenger", "flow", "quant"}
  /\ now \in Nat \ {0} /\ listed \subseteq Symbol
  /\ \A x \in reached : x[2] \in Nat /\ x[3] \in P!Level
  /\ \A k \in DOMAIN book : book[k] \in Position
  /\ \A r \in saved : r.t0 \in Nat /\ r.at \in Nat /\ r.t0 <= r.at /\ r.at <= now
  /\ torn \subseteq 0..now

(***************************************************************************)
(* The daily pick has one trade for a day.  The challenger has one for each *)
(* run that tore, and one more only once its decision is saved.             *)
(***************************************************************************)
EnteredOn(d) == {k \in DOMAIN book : P!Day(book[k].at) = d}
TornOn(d) == {t \in torn : P!Day(t) = d}
DecidedOn(d) == IF d \in decided THEN 1 ELSE 0
Selections ==
  /\ IsFiniteSet(torn)
  /\ kind = "pick" =>
       \A j, k \in DOMAIN book : P!Day(book[j].at) = P!Day(book[k].at) => j = k
  /\ kind = "challenger" =>
       /\ IsFiniteSet(DOMAIN book)
       /\ \A d \in Nat : Cardinality(EnteredOn(d)) <= Cardinality(TornOn(d)) + DecidedOn(d)

(***************************************************************************)
(* A trade is open as long as no saved run had a touch of it in view, and    *)
(* was closed by a run that is over before the next one begins.             *)
(***************************************************************************)
NothingMissed ==
  \A k \in DOMAIN book, r \in saved :
    book[k].status = "OPEN" /\ book[k].ticker \in r.listed => P!Touches(book[k], r.t0) = {}
ClosedByThen ==
  \A k \in DOMAIN book :
    book[k].status # "OPEN" =>
      (\E r \in saved : book[k].by <= r.at) \/ \E t \in torn : book[k].by <= t

BooksInv ==
  /\ BooksType /\ Selections /\ NothingMissed /\ ClosedByThen
  /\ P!FirstTouchDecides /\ P!OverdueIsClosed

\* What BookAssumption and ClockAssumption say of the constants.
LEMMA ClockIs ==
  /\ Book \subseteq {"pick", "challenger", "flow", "quant"}
  /\ {Slots, LastDay, From, Until, Hold, Period} \subseteq Nat
  /\ Slots > 1 /\ Hold > 0 /\ 0 \notin Weekend
BY InstanceAssumption DEF P!BookAssumption, P!ClockAssumption

\* A bar is on the day that its number counts to.
LEMMA DayIs ==
  ASSUME NEW t \in Nat
  PROVE  P!Day(t) \in Nat /\ P!Day(t) * Slots <= t /\ t < (P!Day(t) + 1) * Slots
<1>1. Slots \in Nat /\ Slots > 0
  BY ClockIs
<1> QED
  BY <1>1, Z3 DEF P!Day

LEMMA Multiples ==
  ASSUME NEW m \in Nat, NEW n \in Nat, m <= n
  PROVE  m * Slots <= n * Slots
<1>1. Slots \in Nat
  BY ClockIs
<1> QED
  BY <1>1, Z3

LEMMA DaysPass ==
  ASSUME NEW s \in Nat, NEW t \in Nat, s <= t
  PROVE  P!Day(s) <= P!Day(t)
<1>1. /\ P!Day(s) \in Nat /\ P!Day(s) * Slots <= s
      /\ P!Day(t) \in Nat /\ t < (P!Day(t) + 1) * Slots
  BY DayIs
<1>2. Slots \in Nat
  BY ClockIs
<1>3. P!Day(s) > P!Day(t) => (P!Day(t) + 1) * Slots <= P!Day(s) * Slots
  <2> DEFINE a == P!Day(t) + 1
             b == P!Day(s)
  <2>1. a \in Nat /\ b \in Nat /\ (P!Day(s) > P!Day(t) => a <= b)
    BY <1>1
  <2>2. a <= b => a * Slots <= b * Slots
    BY <2>1, Multiples
  <2> QED
    BY <2>1, <2>2
<1> QED
  <2> DEFINE a == (P!Day(t) + 1) * Slots
             b == P!Day(s) * Slots
  <2>1. a \in Nat /\ b \in Nat /\ b <= s /\ t < a /\ (P!Day(s) > P!Day(t) => a <= b)
    BY <1>1, <1>2, <1>3
  <2> HIDE DEF a, b
  <2> QED
    BY <1>1, <2>1

\* The greatest of a set of numbers with a bound.
LEMMA Greatest ==
  ASSUME NEW n \in Nat, NEW S \in SUBSET (0..n), S # {}
  PROVE  P!Max(S) \in S /\ \A y \in S : y <= P!Max(S)
<1> DEFINE gaps == {n - x : x \in S}
<1>1. gaps \subseteq Nat /\ gaps # {}
  <2>1. \A x \in S : n - x \in Nat
    OBVIOUS
  <2>2. PICK x : x \in S
    OBVIOUS
  <2>3. n - x \in gaps
    BY <2>2
  <2> QED
    BY <2>1, <2>3
<1>2. PICK least \in gaps : \A y \in gaps : least <= y
  BY <1>1, Smallest
<1>3. PICK x \in S : least = n - x
  BY <1>2
<1>4. \A y \in S : y <= x
  <2> SUFFICES ASSUME NEW y \in S PROVE y <= x
    OBVIOUS
  <2>1. n - x <= n - y
    BY <1>2, <1>3
  <2> QED
    BY <2>1
<1> QED
  BY <1>4 DEF P!Max

\* No session before today's is later than the expected one.
LEMMA SessionIs ==
  ASSUME now \in Nat \ {0}
  PROVE  /\ P!SessionAt(now) \in Nat
         /\ \A d \in Nat : P!Business(d) /\ d < P!Day(now) => d <= P!SessionAt(now)
<1> DEFINE S == {d \in 0..P!Day(now) : P!Business(d) /\ d * Slots + 1 <= now}
<1>1. Slots \in Nat /\ P!Day(now) \in Nat /\ P!Day(now) * Slots <= now
  BY ClockIs, DayIs
<1>2. 0 \in S
  BY <1>1, ClockIs DEF P!Business
<1>3. P!Max(S) \in S /\ \A y \in S : y <= P!Max(S)
  <2> HIDE DEF S
  <2>1. S \subseteq 0..P!Day(now)
    BY DEF S
  <2> QED
    BY <1>1, <1>2, <2>1, Greatest
<1>4. ASSUME NEW d \in Nat, P!Business(d), d < P!Day(now)
      PROVE  d \in S
  <2>1. (d + 1) * Slots <= P!Day(now) * Slots
    <3>1. d + 1 \in Nat /\ d + 1 <= P!Day(now)
      BY <1>1, <1>4
    <3> QED
      BY <1>1, <3>1, Multiples
  <2>2. (d + 1) * Slots = d * Slots + Slots
    BY <1>1, Z3
  <2>3. d * Slots \in Nat
    BY <1>1
  <2>4. d * Slots + 1 <= now
    <3> DEFINE a == d * Slots
               b == P!Day(now) * Slots
    <3>1. a \in Nat /\ b \in Nat /\ a + Slots <= b /\ b <= now
      BY <1>1, <2>1, <2>2, <2>3
    <3> HIDE DEF a, b
    <3>2. a + 1 <= now
      BY <1>1, <3>1, ClockIs
    <3> QED
      BY <3>2 DEF a
  <2> QED
    BY <1>1, <1>4, <2>4
<1> QED
  BY <1>3, <1>4 DEF P!SessionAt

-----------------------------------------------------------------------------
\* When a stage enters a trade: at its clock, or for the session it expects.
Entering == IF kind = "quant" THEN P!SessionAt(now) ELSE now
IsFresh(e) == \E t \in Symbol : e = P!Trade(t, Entering)

LEMMA FreshIs ==
  ASSUME now \in Nat \ {0}, NEW e, IsFresh(e)
  PROVE  e \in Position /\ e.status = "OPEN" /\ e.at = Entering
<1>1. Entering \in Nat
  BY SessionIs DEF Entering
<1> QED
  BY <1>1 DEF IsFresh, P!Trade, P!Never, Position

\* No run that is over has a bar of a trade entered now in view.
LEMMA FreshUnseen ==
  ASSUME BooksType, NEW e, IsFresh(e), NEW t \in Nat, t <= now
  PROVE  /\ P!Touches(e, t) = {}
         /\ kind # "quant" => P!BusinessDays(P!Day(e.at), P!Day(t)) < Hold
         /\ kind = "quant" => P!Cardinality(P!Sessions(e, t)) < Hold
<1>1. now \in Nat \ {0} /\ e.at = Entering /\ Hold > 0 /\ Hold \in Nat
  BY ClockIs, FreshIs DEF BooksType
<1>2. P!Day(t) \in Nat /\ P!Day(now) \in Nat /\ P!Day(t) <= P!Day(now)
  BY <1>1, DayIs, DaysPass
<1>3. ASSUME NEW d \in Nat, P!Business(d), d < P!Day(t), kind = "quant"
      PROVE  ~(d > e.at)
  <2>1. d < P!Day(now)
    BY <1>2, <1>3
  <2>2. P!SessionAt(now) \in Nat /\ d <= P!SessionAt(now)
    BY <1>1, <1>3, <2>1, SessionIs
  <2> QED
    BY <1>1, <1>3, <2>2 DEF Entering
<1>4. P!Touches(e, t) = {}
  <2> SUFFICES ASSUME NEW x \in P!Touches(e, t) PROVE FALSE
    OBVIOUS
  <2>1. x \in reached /\ P!InView(e, x[2], t) /\ x[2] \in Nat
    BY DEF P!Touches, P!Counts, BooksType
  <2>2. kind = "quant"
    BY <1>1, <2>1 DEF P!InView, P!After, Entering
  <2>3. P!Day(x[2]) \in Nat /\ P!Business(P!Day(x[2])) /\ P!Day(x[2]) < P!Day(t) /\ P!Day(x[2]) > e.at
    BY <2>1, <2>2, DayIs DEF P!InView, P!IsBar, P!After
  <2> QED
    BY <1>3, <2>2, <2>3
<1>5. ASSUME kind # "quant" PROVE P!BusinessDays(P!Day(e.at), P!Day(t)) < Hold
  <2>1. e.at = now
    BY <1>1, <1>5 DEF Entering
  <2>2. P!Day(now)..(P!Day(t) - 1) = {}
    BY <1>2
  <2>3. {x \in P!Day(now)..(P!Day(t) - 1) : P!Business(x)} = {}
    BY <2>2
  <2>4. P!Cardinality({}) = 0
    BY SameCardinality, FS_EmptySet
  <2> QED
    BY <1>1, <2>1, <2>3, <2>4 DEF P!BusinessDays
<1>6. ASSUME kind = "quant" PROVE P!Cardinality(P!Sessions(e, t)) < Hold
  <2>1. P!Sessions(e, t) = {}
    <3> SUFFICES ASSUME NEW d \in P!Sessions(e, t) PROVE FALSE
      OBVIOUS
    <3>1. e.at \in Nat
      BY <1>1, FreshIs DEF Position
    <3>2. d \in Nat /\ d > e.at /\ d < P!Day(t) /\ P!Business(d)
      BY <1>2, <3>1 DEF P!Sessions
    <3> QED
      BY <1>3, <1>6, <3>2
  <2>2. P!Cardinality({}) = 0
    BY SameCardinality, FS_EmptySet
  <2> QED
    BY <1>1, <2>1, <2>2
<1> QED
  BY <1>4, <1>5, <1>6

-----------------------------------------------------------------------------
\* A trade is seen by its ticker and the time it was entered.
LEMMA SameView ==
  ASSUME NEW e, NEW f, e.ticker = f.ticker, e.at = f.at, NEW t
  PROVE  /\ P!Touches(e, t) = P!Touches(f, t) /\ P!Sessions(e, t) = P!Sessions(f, t)
         /\ (P!AnyBar(e, t) <=> P!AnyBar(f, t))
<1>1. P!Sessions(e, t) = P!Sessions(f, t)
  BY DEF P!Sessions
<1>2. \A b : P!InView(e, b, t) <=> P!InView(f, b, t)
  BY DEF P!InView, P!After
<1>3. \A b : P!Counts(e, b, t) <=> P!Counts(f, b, t)
  BY <1>1, <1>2 DEF P!Counts
<1> QED
  BY <1>1, <1>2, <1>3 DEF P!Touches, P!AnyBar

LEMMA ClosingIs ==
  ASSUME NEW e \in Position, NEW status \in P!Closed, NEW exit \in Int, NEW t \in Nat
  PROVE  /\ P!Close(e, status, exit, t) \in Position
         /\ P!Close(e, status, exit, t).ticker = e.ticker /\ P!Close(e, status, exit, t).at = e.at
         /\ P!Close(e, status, exit, t).status = status
         /\ P!Close(e, status, exit, t).exit = exit /\ P!Close(e, status, exit, t).by = t
<1> DEFINE closed == [e EXCEPT !.status = status, !.exit = exit, !.by = t]
           Statuses == {"OPEN"} \cup P!Closed
<1>1. P!Close(e, status, exit, t) = closed
  BY DEF P!Close
<1>2. e \in [ticker : Symbol, at : Nat, status : Statuses, exit : Int, by : Int] /\ status \in Statuses
  BY DEF Position
<1> HIDE DEF Statuses
<1>3. closed \in [ticker : Symbol, at : Nat, status : Statuses, exit : Int, by : Int]
  <2> DEFINE a == [e EXCEPT !.status = status]
             b == [a EXCEPT !.exit = exit]
             c == [b EXCEPT !.by = t]
  <2>1. a \in [ticker : Symbol, at : Nat, status : Statuses, exit : Int, by : Int]
    BY <1>2
  <2>2. b \in [ticker : Symbol, at : Nat, status : Statuses, exit : Int, by : Int]
    <3> HIDE DEF a
    <3> QED
      BY <2>1
  <2>3. c \in [ticker : Symbol, at : Nat, status : Statuses, exit : Int, by : Int]
    <3>1. t \in Int
      OBVIOUS
    <3> HIDE DEF b
    <3> QED
      BY <2>2, <3>1
  <2>4. closed = c
    OBVIOUS
  <2> QED
    BY <2>3, <2>4
<1>4. /\ closed.ticker = e.ticker /\ closed.at = e.at
      /\ closed.status = status /\ closed.exit = exit /\ closed.by = t
  BY <1>2
<1> QED
  BY <1>1, <1>3, <1>4 DEF Position, Statuses

\* The first touches that a run at t0 has in view: those that close a trade.
FirstTouches(e, status, exit, t0) ==
  /\ \E x \in P!Touches(e, t0) :
       P!Mark(x[2]) = exit /\ x[3] = (IF status = "STOP" THEN "stop" ELSE "target")
  /\ \A x \in P!Touches(e, t0) :
       P!Mark(x[2]) >= exit /\ (P!Mark(x[2]) = exit /\ x[3] = "stop" => status = "STOP")

LEMMA JudgedIs ==
  ASSUME BooksType, NEW e \in Position, NEW t0 \in Nat
  PROVE  \/ P!Judged(e, t0) = e /\ P!Touches(e, t0) = {} /\ ~P!Overdue(e, t0)
         \/ P!Judged(e, t0) = P!Close(e, "EXPIRED", t0, t0) /\ P!Touches(e, t0) = {}
         \/ \E status \in {"STOP", "TARGET"}, exit \in Nat :
              P!Judged(e, t0) = P!Close(e, status, exit, t0) /\ FirstTouches(e, status, exit, t0)
<1> DEFINE stops == P!Hits(e, "stop", t0)
           targets == P!Hits(e, "target", t0)
<1>1. \A x \in P!Touches(e, t0) : x[2] \in Nat /\ P!Mark(x[2]) \in Nat /\ x[3] \in {"stop", "target"}
  <2> SUFFICES ASSUME NEW x \in P!Touches(e, t0)
               PROVE  x[2] \in Nat /\ P!Mark(x[2]) \in Nat /\ x[3] \in {"stop", "target"}
    OBVIOUS
  <2>1. x[2] \in Nat /\ x[3] \in {"stop", "target"}
    BY DEF P!Touches, P!Level, BooksType
  <2>2. P!Mark(x[2]) \in Nat
    <3>1. P!Day(x[2]) \in Nat /\ Slots \in Nat
      BY <2>1, DayIs, ClockIs
    <3>2. P!Day(x[2]) * Slots + 1 \in Nat
      BY <3>1
    <3> QED
      BY <2>1, <3>2 DEF P!Mark
  <2> QED
    BY <2>1, <2>2
<1>2. \A level : \A m : m \in P!Hits(e, level, t0) <=>
                          \E x \in P!Touches(e, t0) : x[3] = level /\ m = P!Mark(x[2])
  BY DEF P!Hits
<1>3. stops \subseteq Nat /\ targets \subseteq Nat
  BY <1>1, <1>2
<1>4. stops # {} => P!Min(stops) \in stops /\ \A m \in stops : P!Min(stops) <= m
  BY <1>3, Smallest
<1>5. targets # {} => P!Min(targets) \in targets /\ \A m \in targets : P!Min(targets) <= m
  BY <1>3, Smallest
<1>6. \A x \in P!Touches(e, t0) : \/ x[3] = "stop" /\ P!Mark(x[2]) \in stops
                                  \/ x[3] = "target" /\ P!Mark(x[2]) \in targets
  BY <1>1, <1>2
<1> HIDE DEF stops, targets
<1>7. P!Judged(e, t0) =
        IF P!StopFirst(stops, targets) THEN P!Close(e, "STOP", P!Min(stops), t0)
        ELSE IF targets # {} THEN P!Close(e, "TARGET", P!Min(targets), t0)
        ELSE IF P!Overdue(e, t0) THEN P!Close(e, "EXPIRED", t0, t0) ELSE e
  BY DEF P!Judged, stops, targets
<1>8. CASE P!StopFirst(stops, targets)
  <2>1. stops # {} /\ P!Min(stops) \in Nat /\ (targets = {} \/ P!Min(stops) <= P!Min(targets))
    BY <1>3, <1>4, <1>8 DEF P!StopFirst
  <2>2. \A m \in targets : P!Min(stops) <= m
    <3> SUFFICES ASSUME NEW m \in targets PROVE P!Min(stops) <= m
      OBVIOUS
    <3>1. m \in Nat /\ P!Min(targets) \in Nat /\ P!Min(targets) <= m
      BY <1>3, <1>5
    <3> QED
      BY <2>1, <3>1
  <2>3. FirstTouches(e, "STOP", P!Min(stops), t0)
    <3>1. \E x \in P!Touches(e, t0) : P!Mark(x[2]) = P!Min(stops) /\ x[3] = "stop"
      BY <1>2, <1>4, <2>1 DEF stops
    <3>2. \A x \in P!Touches(e, t0) : P!Mark(x[2]) >= P!Min(stops)
      BY <1>1, <1>4, <1>6, <2>1, <2>2
    <3> QED
      BY <3>1, <3>2 DEF FirstTouches
  <2> QED
    BY <1>7, <1>8, <2>1, <2>3
<1>9. CASE ~P!StopFirst(stops, targets) /\ targets # {}
  <2>1. P!Min(targets) \in Nat /\ (stops # {} => P!Min(targets) < P!Min(stops))
    <3>1. P!Min(targets) \in Nat
      BY <1>3, <1>5, <1>9
    <3>2. ASSUME stops # {} PROVE P!Min(targets) < P!Min(stops)
      <4>1. P!Min(stops) \in Nat
        BY <1>3, <1>4, <3>2
      <4>2. ~(P!Min(stops) <= P!Min(targets))
        BY <1>9, <3>2 DEF P!StopFirst
      <4> QED
        BY <3>1, <4>1, <4>2
    <3> QED
      BY <3>1, <3>2
  <2>2. \A m \in stops : P!Min(targets) < m
    <3> SUFFICES ASSUME NEW m \in stops PROVE P!Min(targets) < m
      OBVIOUS
    <3>1. m \in Nat /\ P!Min(stops) \in Nat /\ P!Min(stops) <= m
      BY <1>3, <1>4
    <3> QED
      BY <2>1, <3>1
  <2>3. FirstTouches(e, "TARGET", P!Min(targets), t0)
    <3>1. \E x \in P!Touches(e, t0) : P!Mark(x[2]) = P!Min(targets) /\ x[3] = "target"
      BY <1>2, <1>5, <1>9 DEF targets
    <3>2. \A x \in P!Touches(e, t0) :
            /\ P!Mark(x[2]) >= P!Min(targets)
            /\ ~(P!Mark(x[2]) = P!Min(targets) /\ x[3] = "stop")
      BY <1>1, <1>5, <1>6, <1>9, <2>1, <2>2
    <3> QED
      BY <3>1, <3>2 DEF FirstTouches
  <2> QED
    BY <1>7, <1>9, <2>1, <2>3
<1>10. CASE ~P!StopFirst(stops, targets) /\ targets = {}
  <2>1. stops = {}
    BY <1>10 DEF P!StopFirst
  <2>2. P!Touches(e, t0) = {}
    BY <1>6, <1>10, <2>1
  <2> QED
    BY <1>7, <1>10, <2>2
<1> QED
  BY <1>8, <1>9, <1>10

-----------------------------------------------------------------------------
\* What a run that saves does to a trade it knows: it leaves it, without a touch
\* in view and not overdue if it could be judged, or it closes it.
Stays(e, f, t0) ==
  /\ f = e
  /\ e.status = "OPEN" =>
       /\ e.ticker \in listed => P!Touches(e, t0) = {}
       /\ (kind = "quant" => e.ticker \in listed) => ~P!Overdue(e, t0)
Expires(e, f, t0) ==
  /\ e.status = "OPEN" /\ f = P!Close(e, "EXPIRED", t0, t0)
  /\ e.ticker \in listed => P!Touches(e, t0) = {}
Resolves(e, f, t0) ==
  /\ e.status = "OPEN"
  /\ \E status \in {"STOP", "TARGET"}, exit \in Nat :
       f = P!Close(e, status, exit, t0) /\ FirstTouches(e, status, exit, t0)

LEMMA MonitoredIs ==
  ASSUME BooksType, NEW t0 \in Nat, ~P!Raises, NEW k \in DOMAIN book, NEW f, f = P!Monitored(t0)[k]
  PROVE  Stays(book[k], f, t0) \/ Expires(book[k], f, t0) \/ Resolves(book[k], f, t0)
<1> DEFINE e == book[k]
<1>1. f = IF ~P!Open(e) THEN e ELSE IF P!Blind(e) THEN P!Unseen(e, t0) ELSE P!Judged(e, t0)
  BY DEF P!Monitored
<1>2. e \in Position
  BY DEF BooksType
<1>3. kind \in {"challenger", "flow"} /\ P!Open(e) => ~P!Blind(e)
  BY DEF P!Raises
<1> SUFFICES Stays(e, f, t0) \/ Expires(e, f, t0) \/ Resolves(e, f, t0)
  OBVIOUS
<1> HIDE DEF e
<1>4. CASE ~P!Open(e)
  BY <1>1, <1>4 DEF P!Open, Stays
<1>5. CASE P!Open(e) /\ P!Blind(e)
  <2>1. kind \in {"pick", "quant"} /\ e.ticker \notin listed /\ e.status = "OPEN"
    BY <1>3, <1>5 DEF P!Blind, P!Open, BooksType
  <2>2. f = P!Unseen(e, t0)
    BY <1>1, <1>5
  <2>3. CASE kind = "pick" /\ P!Overdue(e, t0)
    BY <2>1, <2>2, <2>3 DEF P!Unseen, Expires
  <2>4. CASE ~(kind = "pick" /\ P!Overdue(e, t0))
    BY <2>1, <2>2, <2>4 DEF P!Unseen, Stays
  <2> QED
    BY <2>3, <2>4
<1>6. CASE P!Open(e) /\ ~P!Blind(e)
  <2>1. f = P!Judged(e, t0) /\ e.status = "OPEN"
    BY <1>1, <1>6 DEF P!Open
  <2>2. \/ f = e /\ P!Touches(e, t0) = {} /\ ~P!Overdue(e, t0)
        \/ f = P!Close(e, "EXPIRED", t0, t0) /\ P!Touches(e, t0) = {}
        \/ \E status \in {"STOP", "TARGET"}, exit \in Nat :
             f = P!Close(e, status, exit, t0) /\ FirstTouches(e, status, exit, t0)
    BY <1>2, <2>1, JudgedIs
  <2> QED
    BY <2>1, <2>2 DEF Stays, Expires, Resolves
<1> QED
  BY <1>4, <1>5, <1>6

\* A run enters fresh trades; a pick or a challenger, one, and only if it may.
LEMMA EntriesAre ==
  ASSUME BooksType, NEW t0, NEW entries \in P!Entries(t0)
  PROVE  /\ \A k \in DOMAIN entries : IsFresh(entries[k])
         /\ kind \in {"pick", "challenger"} => \E id : DOMAIN entries \subseteq {id}
         /\ kind = "pick" /\ DOMAIN entries # {} => ~P!SelectedToday
         /\ kind = "challenger" /\ DOMAIN entries # {} => P!MayDecide
<1>1. listed \subseteq Symbol
  BY DEF BooksType
<1>2. CASE kind \in {"pick", "challenger"}
  <2>1. entries \in P!PickCandidate(t0) \cup {P!NoEntry}
    BY <1>2 DEF P!Entries, P!DailyPick, P!ChallengerPick
  <2>2. DOMAIN P!NoEntry = {}
    BY DEF P!NoEntry
  <2>3. CASE entries # P!NoEntry
    <3>1. PICK t \in listed : entries = P!Entry(<<t, t0>>, now)
      BY <2>1, <2>3 DEF P!PickCandidate
    <3>2. DOMAIN entries = {<<t, t0>>} /\ entries[<<t, t0>>] = P!Trade(t, now)
      BY <3>1 DEF P!Entry
    <3>3. IsFresh(P!Trade(t, now))
      BY <1>1, <1>2 DEF IsFresh, Entering
    <3>4. (kind = "pick" => ~P!SelectedToday) /\ (kind = "challenger" => P!MayDecide)
      BY <1>2, <2>3 DEF P!Entries, P!DailyPick, P!ChallengerPick
    <3> QED
      BY <1>2, <3>2, <3>3, <3>4
  <2> QED
    BY <2>2, <2>3
<1>3. CASE kind = "flow"
  <2>1. PICK buys \in SUBSET (listed \X Setup) :
          entries = [k \in buys \ DOMAIN book |-> P!Trade(k[1], now)]
    BY <1>3 DEF P!Entries, P!FlowSignals
  <2>2. \A k \in DOMAIN entries : k[1] \in Symbol /\ entries[k] = P!Trade(k[1], now)
    BY <1>1, <2>1
  <2> QED
    BY <1>3, <2>2 DEF IsFresh, Entering
<1>4. CASE kind = "quant"
  <2>1. PICK cohort \in SUBSET (listed \X Strategy) :
          entries = [k \in (cohort \X {P!SessionAt(now)}) \ DOMAIN book |->
                       P!Trade(k[1][1], P!SessionAt(now))]
    BY <1>4 DEF P!Entries, P!CohortTrades
  <2>2. \A k \in DOMAIN entries : k[1][1] \in Symbol /\ entries[k] = P!Trade(k[1][1], P!SessionAt(now))
    <3> SUFFICES ASSUME NEW k \in DOMAIN entries
                 PROVE  k[1][1] \in Symbol /\ entries[k] = P!Trade(k[1][1], P!SessionAt(now))
      OBVIOUS
    <3>1. k \in (cohort \X {P!SessionAt(now)}) \ DOMAIN book
      BY <2>1
    <3>2. k[1] \in listed \X Strategy
      BY <2>1, <3>1
    <3> QED
      BY <1>1, <2>1, <3>1, <3>2
  <2> QED
    BY <1>4, <2>2 DEF IsFresh, Entering
<1> QED
  BY <1>2, <1>3, <1>4 DEF BooksType

LEMMA SaveIs ==
  ASSUME BooksType, NEW t0 \in Nat, P!Save(t0)
  PROVE  /\ UNCHANGED <<kind, now, reached, listed>> /\ P!MayRun(t0)
         /\ \E entries \in P!Entries(t0) :
              /\ DOMAIN book' = DOMAIN book \cup DOMAIN entries
              /\ \A k \in DOMAIN book' \ DOMAIN book : book'[k] = entries[k]
         /\ \A k \in DOMAIN book :
              \/ Stays(book[k], book'[k], t0)
              \/ Expires(book[k], book'[k], t0)
              \/ Resolves(book[k], book'[k], t0)
         /\ \A k \in DOMAIN book' \ DOMAIN book : IsFresh(book'[k])
<1>1. UNCHANGED <<kind, now, reached, listed>> /\ P!MayRun(t0) /\ ~P!Raises
  BY DEF P!Save
<1>2. PICK entries \in P!Entries(t0) : book' = P!Kept(entries, t0)
  BY DEF P!Save
<1>3. /\ DOMAIN book' = DOMAIN book \cup DOMAIN entries
      /\ \A k \in DOMAIN book : book'[k] = P!Monitored(t0)[k]
      /\ \A k \in DOMAIN book' \ DOMAIN book : book'[k] = entries[k]
  BY <1>2 DEF P!Kept
<1>4. ASSUME NEW k \in DOMAIN book
      PROVE  \/ Stays(book[k], book'[k], t0)
             \/ Expires(book[k], book'[k], t0)
             \/ Resolves(book[k], book'[k], t0)
  BY <1>1, <1>3, MonitoredIs
<1>5. \A k \in DOMAIN entries : IsFresh(entries[k])
  BY EntriesAre
<1> QED
  BY <1>1, <1>3, <1>4, <1>5

-----------------------------------------------------------------------------
\* What the three properties say of one trade, given the runs.
TouchDecides(e, runs) ==
  /\ e.status = "STOP" => P!Reaches(e, "stop")
  /\ e.status = "TARGET" => P!Reaches(e, "target")
  /\ e.status \in P!Closed =>
       \A r \in runs : r.t0 <= e.by /\ e.ticker \in r.listed =>
         \A x \in P!Touches(e, r.t0) :
           /\ e.status # "EXPIRED" /\ P!Mark(x[2]) >= e.exit
           /\ P!Mark(x[2]) = e.exit /\ x[3] = "stop" => e.status = "STOP"
IsClosed(e, r) ==
  e.status = "OPEN" /\ (kind = "quant" => e.ticker \in r.listed) =>
    /\ kind = "pick" => P!BusinessDays(P!Day(e.at), P!Day(r.at)) < Hold
    /\ kind \in {"challenger", "flow"} =>
         ~P!AnyBar(e, r.t0) \/ P!BusinessDays(P!Day(e.at), P!Day(r.at)) < Hold
    /\ kind = "quant" => P!Cardinality(P!Sessions(e, r.t0)) < Hold

LEMMA TouchDecidesIs == P!FirstTouchDecides <=> \A k \in DOMAIN book : TouchDecides(book[k], saved)
BY DEF P!FirstTouchDecides, TouchDecides

LEMMA IsClosedIs ==
  kind \in {"pick", "challenger", "flow", "quant"} =>
    (P!OverdueIsClosed <=> \A k \in DOMAIN book, r \in saved : IsClosed(book[k], r))
BY DEF P!OverdueIsClosed, IsClosed

\* A touched level of a trade that is being judged is reached by its bars.
LEMMA ReachesIs ==
  ASSUME NEW e, NEW f, e.ticker = f.ticker, e.at = f.at, NEW t, NEW x \in P!Touches(e, t),
         P!Mark(x[2]) = f.exit
  PROVE  P!Reaches(f, x[3])
BY DEF P!Touches, P!Counts, P!InView, P!After, P!Reaches

\* No run but the one at t0 had a touch of the trade in view.
OthersSawNothing(e, t0, runs) ==
  \A r \in runs : \/ e.ticker \in r.listed => P!Touches(e, r.t0) = {}
                  \/ r.t0 = t0 /\ r.listed = listed

\* A closing run makes the first touch decide, however many runs were lost.
LEMMA ClosingDecides ==
  ASSUME BooksType, NEW t0 \in Nat, NEW e \in Position, NEW f, NEW runs,
         Expires(e, f, t0) \/ Resolves(e, f, t0),
         OthersSawNothing(e, t0, runs)
  PROVE  f \in Position /\ f.status # "OPEN" /\ f.by = t0 /\ TouchDecides(f, runs)
<1>1. CASE Expires(e, f, t0)
  <2>1. f \in Position /\ f.ticker = e.ticker /\ f.at = e.at /\ f.status = "EXPIRED" /\ f.by = t0
    BY <1>1, ClosingIs DEF Expires, P!Closed
  <2>2. ASSUME NEW r \in runs, f.ticker \in r.listed PROVE P!Touches(f, r.t0) = {}
    <3>1. P!Touches(f, r.t0) = P!Touches(e, r.t0)
      BY <2>1, SameView
    <3> QED
      BY <1>1, <2>1, <2>2, <3>1 DEF Expires, OthersSawNothing
  <2> QED
    BY <2>1, <2>2 DEF TouchDecides
<1>2. CASE Resolves(e, f, t0)
  <2>1. PICK status \in {"STOP", "TARGET"}, exit \in Nat :
          f = P!Close(e, status, exit, t0) /\ FirstTouches(e, status, exit, t0)
    BY <1>2 DEF Resolves
  <2>2. /\ f \in Position /\ f.ticker = e.ticker /\ f.at = e.at
        /\ f.status = status /\ f.exit = exit /\ f.by = t0
    BY <2>1, ClosingIs DEF P!Closed
  <2>3. PICK x \in P!Touches(e, t0) :
          P!Mark(x[2]) = exit /\ x[3] = (IF status = "STOP" THEN "stop" ELSE "target")
    BY <2>1 DEF FirstTouches
  <2>4. P!Reaches(f, x[3])
    BY <2>2, <2>3, ReachesIs
  <2>5. ASSUME NEW r \in runs, f.ticker \in r.listed, NEW y \in P!Touches(f, r.t0)
        PROVE  P!Mark(y[2]) >= exit /\ (P!Mark(y[2]) = exit /\ y[3] = "stop" => status = "STOP")
    <3>1. P!Touches(f, r.t0) = P!Touches(e, r.t0)
      BY <2>2, SameView
    <3>2. r.t0 = t0 /\ r.listed = listed
      BY <2>2, <2>5, <3>1 DEF OthersSawNothing
    <3>3. y \in P!Touches(e, t0)
      BY <2>5, <3>1, <3>2
    <3> QED
      BY <2>1, <3>3 DEF FirstTouches
  <2> QED
    BY <2>2, <2>3, <2>4, <2>5 DEF TouchDecides
<1> QED
  BY <1>1, <1>2

\* What the invariants ask of one trade.
TradeInv(f, runs, breaks) ==
  /\ f \in Position
  /\ f.status # "OPEN" => (\E r \in runs : f.by <= r.at) \/ \E t \in breaks : f.by <= t
  /\ TouchDecides(f, runs)
  /\ \A r \in runs : /\ IsClosed(f, r)
                     /\ f.status = "OPEN" /\ f.ticker \in r.listed => P!Touches(f, r.t0) = {}

LEMMA TradeInvIs ==
  BooksType => (NothingMissed /\ ClosedByThen /\ P!FirstTouchDecides /\ P!OverdueIsClosed
                  <=> \A k \in DOMAIN book : TradeInv(book[k], saved, torn))
BY TouchDecidesIs, IsClosedIs DEF BooksType, NothingMissed, ClosedByThen, TradeInv

LEMMA CountsAre ==
  ASSUME now \in Nat, NEW e \in Position, NEW t \in Nat
  PROVE  /\ P!BusinessDays(P!Day(e.at), P!Day(now)) \in Nat
         /\ P!Cardinality(P!Sessions(e, t)) \in Nat
<1>1. e.at \in Nat /\ P!Day(e.at) \in Nat /\ P!Day(now) \in Nat /\ P!Day(t) \in Nat
  BY DayIs DEF Position
<1>2. \A a, b \in Int : \A S : S \subseteq a..b => P!Cardinality(S) \in Nat
  BY SameCardinality, FS_Interval, FS_Subset, FS_CardinalityType
<1>3. P!Cardinality({x \in P!Day(e.at)..(P!Day(now) - 1) : P!Business(x)}) \in Nat
  <2> DEFINE S == {x \in P!Day(e.at)..(P!Day(now) - 1) : P!Business(x)}
  <2>1. S \subseteq P!Day(e.at)..(P!Day(now) - 1)
    OBVIOUS
  <2> HIDE DEF S
  <2>2. IsFiniteSet(P!Day(e.at)..(P!Day(now) - 1))
    BY <1>1, FS_Interval
  <2>3. P!Cardinality(S) \in Nat
    BY <2>1, <2>2, FS_Subset, FS_CardinalityType, SameCardinality
  <2> QED
    BY <2>3 DEF S
<1>4. P!Sessions(e, t) \subseteq (e.at + 1)..(P!Day(t) - 1)
  BY DEF P!Sessions
<1>5. P!Cardinality(P!Sessions(e, t)) \in Nat
  BY <1>1, <1>2, <1>4
<1> QED
  BY <1>3, <1>5 DEF P!BusinessDays

\* What a run that saves keeps of the invariant, when it is over at `now'.
LEMMA SavingStep ==
  ASSUME BooksInv, NEW t0 \in Nat, t0 <= now, P!Save(t0),
         saved \subseteq saved', saved' \subseteq saved \cup {[t0 |-> t0, at |-> now, listed |-> listed]},
         torn \subseteq torn', torn' \subseteq torn \cup {now},
         (\E r \in saved' : r.at = now) \/ now \in torn'
  PROVE  /\ BooksType' /\ NothingMissed' /\ ClosedByThen'
         /\ P!FirstTouchDecides' /\ P!OverdueIsClosed'
<1> DEFINE mine == [t0 |-> t0, at |-> now, listed |-> listed]
<1>1. /\ BooksType /\ now \in Nat \ {0}
      /\ \A k \in DOMAIN book : TradeInv(book[k], saved, torn)
  BY TradeInvIs DEF BooksInv, BooksType
<1>2. /\ UNCHANGED <<kind, now, reached, listed>> /\ P!MayRun(t0)
      /\ \A k \in DOMAIN book : \/ Stays(book[k], book'[k], t0)
                                \/ Expires(book[k], book'[k], t0)
                                \/ Resolves(book[k], book'[k], t0)
      /\ \A k \in DOMAIN book' \ DOMAIN book : IsFresh(book'[k])
  BY <1>1, SaveIs
<1>3. \A r \in saved' : r \in saved \/ r = mine
  OBVIOUS
<1>4. \A r \in saved' : r.t0 \in Nat /\ r.at \in Nat /\ r.t0 <= now /\ r.at <= now /\ r.t0 <= r.at
  BY <1>1, <1>3 DEF BooksType
<1>5. ASSUME NEW k \in DOMAIN book' PROVE TradeInv(book'[k], saved', torn')
  <2>1. CASE k \notin DOMAIN book
    <3> DEFINE f == book'[k]
    <3>1. IsFresh(f)
      BY <1>2, <1>5, <2>1
    <3> HIDE DEF f
    <3>2. f \in Position /\ f.status = "OPEN"
      BY <1>1, <3>1, FreshIs
    <3>3. ASSUME NEW r \in saved'
          PROVE  IsClosed(f, r) /\ P!Touches(f, r.t0) = {}
      <4>1. P!Touches(f, r.t0) = {} /\ (kind = "quant" => P!Cardinality(P!Sessions(f, r.t0)) < Hold)
        BY <1>1, <1>4, <3>1, FreshUnseen
      <4>2. kind # "quant" => P!BusinessDays(P!Day(f.at), P!Day(r.at)) < Hold
        BY <1>1, <1>4, <3>1, FreshUnseen
      <4> QED
        BY <4>1, <4>2 DEF IsClosed
    <3>4. TradeInv(f, saved', torn')
      BY <3>2, <3>3 DEF TradeInv, TouchDecides, P!Closed
    <3> QED
      BY <3>4 DEF f
  <2>2. CASE k \in DOMAIN book /\ Stays(book[k], book'[k], t0)
    <3> DEFINE e == book[k]
    <3>1. book'[k] = e /\ Stays(e, e, t0) /\ TradeInv(e, saved, torn)
      BY <1>1, <2>2 DEF Stays
    <3> SUFFICES TradeInv(e, saved', torn')
      BY <3>1
    <3> HIDE DEF e
    <3>2. CASE e.status = "OPEN"
      <4>1. e.ticker \in mine.listed => P!Touches(e, mine.t0) = {}
        BY <3>1, <3>2 DEF Stays
      <4>2. IsClosed(e, mine)
        <5>1. e \in Position /\ Hold \in Nat
          BY <3>1, ClockIs DEF TradeInv
        <5>2. /\ P!BusinessDays(P!Day(e.at), P!Day(now)) \in Nat
              /\ P!Cardinality(P!Sessions(e, t0)) \in Nat
          BY <1>1, <5>1, CountsAre
        <5>3. (kind = "quant" => e.ticker \in listed) => ~P!Overdue(e, t0)
          BY <3>1, <3>2 DEF Stays
        <5>4. CASE kind = "pick"
          BY <5>1, <5>2, <5>3, <5>4 DEF P!Overdue, IsClosed
        <5>5. CASE kind \in {"challenger", "flow"}
          <6>1. P!Overdue(e, t0) <=> P!AnyBar(e, t0) /\ P!BusinessDays(P!Day(e.at), P!Day(now)) >= Hold
            <7>1. CASE kind = "challenger"
              BY <7>1 DEF P!Overdue
            <7>2. CASE kind = "flow"
              BY <7>2 DEF P!Overdue
            <7> QED
              BY <5>5, <7>1, <7>2
          <6> QED
            BY <5>1, <5>2, <5>3, <5>5, <6>1 DEF IsClosed
        <5>6. CASE kind = "quant"
          BY <5>1, <5>2, <5>3, <5>6 DEF P!Overdue, IsClosed
        <5> QED
          BY <1>1, <5>4, <5>5, <5>6 DEF BooksType
      <4>3. \A r \in saved' :
              IsClosed(e, r) /\ (e.ticker \in r.listed => P!Touches(e, r.t0) = {})
        BY <1>3, <3>1, <3>2, <4>1, <4>2 DEF TradeInv
      <4>4. e \in Position
        BY <3>1 DEF TradeInv
      <4> QED
        BY <3>2, <4>3, <4>4 DEF TradeInv, TouchDecides, P!Closed
    <3>3. CASE e.status # "OPEN"
      <4>1. e \in Position /\ ((\E r \in saved : e.by <= r.at) \/ \E t \in torn : e.by <= t)
        BY <3>1, <3>3 DEF TradeInv
      <4>2. ~(t0 <= e.by)
        <5>1. (\A r \in saved : r.at < t0 /\ r.at \in Nat) /\ \A t \in torn : t < t0 /\ t \in Nat
          BY <1>1, <1>2 DEF P!MayRun, BooksType
        <5>2. e.by \in Int
          BY <4>1 DEF Position
        <5> QED
          BY <4>1, <5>1, <5>2
      <4>3. TouchDecides(e, saved')
        BY <1>3, <3>1, <4>2 DEF TradeInv, TouchDecides
      <4> QED
        BY <3>3, <4>1, <4>3 DEF TradeInv, IsClosed
    <3> QED
      BY <3>2, <3>3
  <2>3. CASE k \in DOMAIN book /\ (Expires(book[k], book'[k], t0) \/ Resolves(book[k], book'[k], t0))
    <3> DEFINE e == book[k]
               f == book'[k]
    <3>1. e \in Position /\ TradeInv(e, saved, torn) /\ (Expires(e, f, t0) \/ Resolves(e, f, t0))
      BY <1>1, <2>3 DEF BooksType
    <3> HIDE DEF e, f
    <3>2. e.status = "OPEN"
      BY <3>1 DEF Expires, Resolves
    <3>3. OthersSawNothing(e, t0, saved')
      BY <1>3, <3>1, <3>2 DEF TradeInv, OthersSawNothing
    <3>4. f \in Position /\ f.status # "OPEN" /\ f.by = t0 /\ TouchDecides(f, saved')
      BY <1>1, <3>1, <3>3, ClosingDecides
    <3>5. (\E r \in saved' : f.by <= r.at) \/ \E t \in torn' : f.by <= t
      BY <3>4
    <3>6. TradeInv(f, saved', torn')
      BY <3>4, <3>5 DEF TradeInv, IsClosed
    <3> QED
      BY <3>6 DEF f
  <2> QED
    BY <1>2, <1>5, <2>1, <2>2, <2>3
<1>6. BooksType'
  <2>1. \A k \in DOMAIN book' : book'[k] \in Position
    BY <1>5 DEF TradeInv
  <2>2. torn' \subseteq 0..now
    BY <1>1 DEF BooksType
  <2> QED
    BY <1>1, <1>2, <1>4, <2>1, <2>2 DEF BooksType
<1>7. \A f, runs, breaks : TradeInv(f, runs, breaks)' <=> TradeInv(f, runs, breaks)
  BY <1>2 DEF TradeInv, TouchDecides, IsClosed, P!Touches, P!Reaches, P!Sessions, P!AnyBar, P!InView, P!After,
              P!Counts, P!Mark
<1>8. \A k \in DOMAIN book' : TradeInv(book[k], saved, torn)'
  BY <1>5, <1>7
<1> QED
  <2>1. (BooksType => (NothingMissed /\ ClosedByThen /\ P!FirstTouchDecides /\ P!OverdueIsClosed
                         <=> \A k \in DOMAIN book : TradeInv(book[k], saved, torn)))'
    BY TradeInvIs, PTL
  <2> QED
    BY <1>6, <1>8, <2>1

-----------------------------------------------------------------------------
\* A saving run keeps when its trades were entered; a new one is entered now.
LEMMA EnteredAt ==
  ASSUME BooksType, NEW t0 \in Nat, P!Save(t0)
  PROVE  /\ DOMAIN book \subseteq DOMAIN book'
         /\ \A k \in DOMAIN book : book'[k].at = book[k].at
         /\ kind # "quant" => \A k \in DOMAIN book' \ DOMAIN book : book'[k].at = now
<1>1. ASSUME NEW k \in DOMAIN book PROVE book'[k].at = book[k].at
  <2>1. book[k] \in Position
    BY DEF BooksType
  <2>2. \/ Stays(book[k], book'[k], t0)
        \/ Expires(book[k], book'[k], t0)
        \/ Resolves(book[k], book'[k], t0)
    BY SaveIs
  <2> QED
    BY <2>1, <2>2, ClosingIs DEF Stays, Expires, Resolves, P!Closed
<1>2. ASSUME NEW k \in DOMAIN book' \ DOMAIN book PROVE book'[k].at = Entering
  <2>1. IsFresh(book'[k]) /\ now \in Nat \ {0}
    BY SaveIs DEF BooksType
  <2> QED
    BY <2>1, FreshIs
<1>3. DOMAIN book \subseteq DOMAIN book'
  BY SaveIs
<1> QED
  BY <1>1, <1>2, <1>3 DEF Entering

LEMMA OneNewEntry ==
  ASSUME BooksType, NEW t0 \in Nat, P!Save(t0), kind \in {"pick", "challenger"}
  PROVE  \E id : /\ DOMAIN book' \subseteq DOMAIN book \cup {id}
                 /\ DOMAIN book' # DOMAIN book =>
                      (kind = "pick" => ~P!SelectedToday) /\ (kind = "challenger" => P!MayDecide)
<1>1. PICK entries \in P!Entries(t0) : DOMAIN book' = DOMAIN book \cup DOMAIN entries
  BY SaveIs
<1>2. /\ \E id : DOMAIN entries \subseteq {id}
      /\ kind = "pick" /\ DOMAIN entries # {} => ~P!SelectedToday
      /\ kind = "challenger" /\ DOMAIN entries # {} => P!MayDecide
  BY EntriesAre
<1>3. DOMAIN book' # DOMAIN book => DOMAIN entries # {}
  BY <1>1
<1> QED
  BY <1>1, <1>2, <1>3

LEMMA AtMostOneMore ==
  ASSUME NEW S, NEW T, NEW id, IsFiniteSet(S), T \subseteq S \cup {id}
  PROVE  IsFiniteSet(T) /\ Cardinality(T) \in Nat /\ Cardinality(S) \in Nat /\ Cardinality(T) <= Cardinality(S) + 1
<1>1. IsFiniteSet(S \cup {id}) /\ Cardinality(S \cup {id}) <= Cardinality(S) + 1
  <2>1. Cardinality(S) \in Nat
    BY FS_CardinalityType
  <2>2. /\ IsFiniteSet(S \cup {id})
        /\ Cardinality(S \cup {id}) = IF id \in S THEN Cardinality(S) ELSE Cardinality(S) + 1
    BY FS_AddElement
  <2> QED
    BY <2>1, <2>2
<1> QED
  BY <1>1, FS_Subset, FS_CardinalityType

LEMMA SelectionsStep ==
  ASSUME BooksType, Selections, NEW t0 \in Nat, t0 <= now, P!StageSaves(t0) \/ P!StageTears(t0)
  PROVE  Selections'
<1>1. P!Save(t0) /\ UNCHANGED <<kind, now>>
  BY DEF P!StageSaves, P!StageTears, P!Save
<1>2. /\ DOMAIN book \subseteq DOMAIN book'
      /\ \A k \in DOMAIN book : book'[k].at = book[k].at
      /\ kind # "quant" => \A k \in DOMAIN book' \ DOMAIN book : book'[k].at = now
  BY <1>1, EnteredAt
<1>3. IsFiniteSet(torn) /\ IsFiniteSet(torn')
  BY FS_AddElement DEF Selections, P!StageSaves, P!StageTears
<1>4. ASSUME kind = "pick", NEW j \in DOMAIN book', NEW k \in DOMAIN book',
             P!Day(book'[j].at) = P!Day(book'[k].at)
      PROVE  j = k
  <2>1. PICK id : /\ DOMAIN book' \subseteq DOMAIN book \cup {id}
                  /\ DOMAIN book' # DOMAIN book => ~P!SelectedToday
    BY <1>1, <1>4, OneNewEntry
  <2>2. CASE j \in DOMAIN book /\ k \in DOMAIN book
    BY <1>2, <1>4, <2>2 DEF Selections
  <2>3. CASE j \notin DOMAIN book /\ k \notin DOMAIN book
    BY <2>1, <2>3
  <2>4. ASSUME NEW x \in DOMAIN book, NEW y \in DOMAIN book' \ DOMAIN book,
               P!Day(book'[x].at) = P!Day(book'[y].at)
        PROVE  FALSE
    <3>1. ~P!SelectedToday
      BY <2>1, <2>4
    <3>2. P!Day(book[x].at) = P!Day(now)
      BY <1>2, <1>4, <2>4
    <3> QED
      BY <3>1, <3>2 DEF P!SelectedToday
  <2> QED
    BY <1>4, <2>2, <2>3, <2>4
<1>5. ASSUME kind = "challenger"
      PROVE  /\ IsFiniteSet(DOMAIN book')
             /\ \A d \in Nat : Cardinality(EnteredOn(d)') <= Cardinality(TornOn(d)') + DecidedOn(d)'
  <2>1. PICK id : /\ DOMAIN book' \subseteq DOMAIN book \cup {id}
                  /\ DOMAIN book' # DOMAIN book => P!MayDecide
    BY <1>1, <1>5, OneNewEntry
  <2>2. IsFiniteSet(DOMAIN book) /\ IsFiniteSet(DOMAIN book')
    BY <1>5, <2>1, AtMostOneMore DEF Selections
  <2>3. ASSUME NEW d \in Nat
        PROVE  Cardinality(EnteredOn(d)') <= Cardinality(TornOn(d)') + DecidedOn(d)'
    <3> DEFINE news == EnteredOn(d)'
               cuts == TornOn(d)'
    <3>1. EnteredOn(d) \subseteq DOMAIN book /\ TornOn(d) \subseteq torn /\ cuts \subseteq torn'
      BY DEF EnteredOn, TornOn
    <3>2. IsFiniteSet(EnteredOn(d)) /\ IsFiniteSet(TornOn(d)) /\ IsFiniteSet(cuts)
      BY <1>3, <2>2, <3>1, FS_Subset
    <3>3. TornOn(d) \subseteq cuts
      BY <1>1 DEF TornOn, P!StageSaves, P!StageTears
    <3>4. news \subseteq EnteredOn(d) \cup {id}
      BY <1>2, <2>1 DEF EnteredOn
    <3>5. d # P!Day(now) \/ DOMAIN book' = DOMAIN book => news = EnteredOn(d)
      BY <1>2, <1>5 DEF EnteredOn
    <3>6. DecidedOn(d)' \in {0, 1} /\ DecidedOn(d) \in {0, 1} /\ DecidedOn(d)' >= DecidedOn(d)
      BY DEF DecidedOn, P!StageSaves, P!StageTears
    <3>7. Cardinality(EnteredOn(d)) <= Cardinality(TornOn(d)) + DecidedOn(d)
      BY <1>5 DEF Selections
    <3> HIDE DEF news, cuts
    <3>8. /\ Cardinality(EnteredOn(d)) \in Nat /\ Cardinality(TornOn(d)) \in Nat /\ Cardinality(cuts) \in Nat
          /\ Cardinality(TornOn(d)) <= Cardinality(cuts)
      BY <3>2, <3>3, FS_CardinalityType, FS_Subset
    <3>9. Cardinality(news) \in Nat /\ Cardinality(news) <= Cardinality(EnteredOn(d)) + 1
      BY <3>2, <3>4, AtMostOneMore
    <3>10. CASE d # P!Day(now) \/ DOMAIN book' = DOMAIN book
      <4>1. Cardinality(news) = Cardinality(EnteredOn(d))
        BY <3>5, <3>10
      <4>2. Cardinality(news) <= Cardinality(cuts) + DecidedOn(d)'
        BY <3>6, <3>7, <3>8, <4>1
      <4> QED
        BY <4>2 DEF news, cuts
    <3>11. CASE d = P!Day(now) /\ DOMAIN book' # DOMAIN book
      <4>1. P!MayDecide /\ DecidedOn(d) = 0
        BY <2>1, <3>11 DEF P!MayDecide, DecidedOn
      <4>2. CASE P!StageSaves(t0)
        <5>1. DecidedOn(d)' = 1
          BY <1>5, <3>11, <4>1, <4>2 DEF P!StageSaves, DecidedOn
        <5>2. Cardinality(news) <= Cardinality(cuts) + DecidedOn(d)'
          BY <3>7, <3>8, <3>9, <4>1, <5>1
        <5> QED
          BY <5>2 DEF news, cuts
      <4>3. CASE P!StageTears(t0)
        <5>1. torn' = torn \cup {now} /\ \A t \in torn : t < t0 /\ t \in Nat
          BY <1>1, <4>3 DEF P!StageTears, P!Save, P!MayRun, BooksType
        <5>2. now \notin TornOn(d) /\ cuts = TornOn(d) \cup {now}
          BY <1>1, <3>11, <5>1 DEF TornOn, cuts, BooksType
        <5>3. Cardinality(cuts) = Cardinality(TornOn(d)) + 1
          BY <3>2, <5>2, FS_AddElement
        <5>4. Cardinality(news) <= Cardinality(cuts) + DecidedOn(d)'
          BY <3>6, <3>7, <3>8, <3>9, <4>1, <5>3
        <5> QED
          BY <5>4 DEF news, cuts
      <4> QED
        BY <4>2, <4>3
    <3> QED
      BY <3>10, <3>11
  <2> QED
    BY <2>2, <2>3
<1> QED
  BY <1>1, <1>3, <1>4, <1>5 DEF Selections

LEMMA BooksInit == P!Init => BooksInv
<1> SUFFICES ASSUME P!Init PROVE BooksInv
  OBVIOUS
<1>1. DOMAIN book = {} /\ saved = {} /\ torn = {} /\ reached = {} /\ now = 1 /\ listed = Symbol /\ kind \in Book
  BY DEF P!Init, P!NoEntry
<1>2. BooksType
  BY <1>1, ClockIs DEF BooksType
<1>3. Selections
  <2>1. IsFiniteSet({}) /\ Cardinality({}) = 0
    BY FS_EmptySet
  <2>2. ASSUME NEW d \in Nat PROVE Cardinality(EnteredOn(d)) <= Cardinality(TornOn(d)) + DecidedOn(d)
    <3>1. EnteredOn(d) = {} /\ TornOn(d) = {} /\ DecidedOn(d) \in {0, 1}
      BY <1>1 DEF EnteredOn, TornOn, DecidedOn
    <3> QED
      BY <2>1, <3>1
  <2> QED
    BY <1>1, <2>1, <2>2 DEF Selections
<1>4. \A k \in DOMAIN book : TradeInv(book[k], saved, torn)
  BY <1>1
<1> QED
  BY <1>2, <1>3, <1>4, TradeInvIs DEF BooksInv

\* The next bar completes: what was in view of a run stays what it was.
LEMMA TickStep == BooksInv /\ P!Tick => BooksInv'
<1> SUFFICES ASSUME BooksInv, P!Tick PROVE BooksInv'
  OBVIOUS
<1>1. /\ BooksType /\ now' = P!Later /\ UNCHANGED <<kind, book, decided, saved, torn>>
      /\ \E hit \in {{}} \cup IF P!IsBar(now) THEN P!Touching ELSE {} : reached' = reached \cup hit
      /\ listed' \in IF P!Later \in Refresh THEN SUBSET Symbol ELSE {listed}
  BY DEF P!Tick, BooksInv
<1>2. PICK hit : reached' = reached \cup hit /\ \A x \in hit : x[2] = now /\ x[3] \in P!Level
  <2>1. \A x \in UNION P!Touching : x[2] = now /\ x[3] \in P!Level
    BY DEF P!Touching
  <2> QED
    BY <1>1, <2>1
<1>3. now' \in Nat \ {0} /\ now <= now'
  <2>1. now \in Nat /\ now > 0 /\ Slots \in Nat /\ P!Day(now) \in Nat /\ now < (P!Day(now) + 1) * Slots
    BY <1>1, DayIs, ClockIs DEF BooksType
  <2>2. (P!Day(now) + 1) * Slots \in Nat
    BY <2>1
  <2> QED
    BY <1>1, <2>1, <2>2 DEF P!Later
<1>4. BooksType'
  <2>1. listed' \subseteq Symbol
    BY <1>1 DEF BooksType
  <2>2. \A x \in reached' : x[2] \in Nat /\ x[3] \in P!Level
    BY <1>1, <1>2 DEF BooksType
  <2>3. (\A r \in saved : r.at <= now') /\ torn \subseteq 0..now'
    BY <1>1, <1>3 DEF BooksType
  <2> QED
    BY <1>1, <1>3, <2>1, <2>2, <2>3 DEF BooksType
<1>5. Selections'
  BY <1>1 DEF BooksInv, Selections, EnteredOn, TornOn, DecidedOn
<1>6. \A e : \A t \in Nat : t <= now => P!Touches(e, t)' = P!Touches(e, t)
  <2> SUFFICES ASSUME NEW e, NEW t \in Nat, t <= now PROVE P!Touches(e, t)' = P!Touches(e, t)
    OBVIOUS
  <2>1. \A b : P!Counts(e, b, t)' <=> P!Counts(e, b, t)
    BY <1>1 DEF P!Counts, P!InView, P!After, P!Sessions
  <2>2. ~P!Counts(e, now, t)
    BY <1>1 DEF P!Counts, P!InView, BooksType
  <2> QED
    BY <1>2, <2>1, <2>2 DEF P!Touches
<1>7. ASSUME NEW k \in DOMAIN book PROVE TradeInv(book[k], saved, torn)'
  <2> DEFINE e == book[k]
  <2>1. TradeInv(e, saved, torn)
    BY TradeInvIs, <1>1 DEF BooksInv
  <2>2. \A r \in saved : P!Touches(e, r.t0)' = P!Touches(e, r.t0)
    BY <1>1, <1>6 DEF BooksType
  <2>3. \A level : P!Reaches(e, level) => P!Reaches(e, level)'
    BY <1>1, <1>2 DEF P!Reaches, P!After, P!Mark
  <2>4. \A r : IsClosed(e, r)' <=> IsClosed(e, r)
    BY <1>1 DEF IsClosed, P!Sessions, P!AnyBar, P!InView, P!After
  <2>5. \A x : P!Mark(x)' = P!Mark(x)
    BY <1>1 DEF P!Mark
  <2> QED
    BY <1>1, <2>1, <2>2, <2>3, <2>4, <2>5 DEF TradeInv, TouchDecides
<1>8. (BooksType => (NothingMissed /\ ClosedByThen /\ P!FirstTouchDecides /\ P!OverdueIsClosed
                       <=> \A k \in DOMAIN book : TradeInv(book[k], saved, torn)))'
  BY TradeInvIs, PTL
<1> QED
  BY <1>1, <1>4, <1>5, <1>7, <1>8 DEF BooksInv

LEMMA BooksInductive == BooksInv /\ [P!Next]_(P!vars) => BooksInv'
<1>1. ASSUME BooksInv, NEW t0 \in (now - MaxDelay)..now, P!StageSaves(t0) \/ P!StageTears(t0)
      PROVE  BooksInv'
  <2>1. t0 \in Nat /\ t0 <= now /\ P!Save(t0)
    BY <1>1, InstanceAssumption DEF P!StageSaves, P!StageTears, P!Save, P!MayRun, P!ClockAssumption, BooksInv, BooksType
  <2>2. /\ saved \subseteq saved' /\ saved' \subseteq saved \cup {[t0 |-> t0, at |-> now, listed |-> listed]}
        /\ torn \subseteq torn' /\ torn' \subseteq torn \cup {now}
        /\ (\E r \in saved' : r.at = now) \/ now \in torn'
    <3> DEFINE mine == [t0 |-> t0, at |-> now, listed |-> listed]
    <3>1. CASE P!StageSaves(t0)
      <4>1. saved' = saved \cup {mine} /\ torn' = torn /\ mine.at = now
        BY <3>1 DEF P!StageSaves
      <4>2. mine \in saved'
        BY <4>1
      <4> QED
        BY <4>1, <4>2
    <3>2. CASE P!StageTears(t0)
      BY <3>2 DEF P!StageTears
    <3> QED
      BY <1>1, <3>1, <3>2
  <2> QED
    BY <1>1, <2>1, <2>2, SavingStep, SelectionsStep DEF BooksInv
<1>2. ASSUME BooksInv, UNCHANGED P!vars PROVE BooksInv'
  <2>1. UNCHANGED <<kind, now, reached, listed, book, decided, saved, torn>>
    BY <1>2 DEF P!vars
  <2>2. BooksType' /\ Selections'
    BY <1>2, <2>1 DEF BooksInv, BooksType, Selections, EnteredOn, TornOn, DecidedOn
  <2>3. \A f, runs, breaks : TradeInv(f, runs, breaks)' <=> TradeInv(f, runs, breaks)
    BY <2>1 DEF TradeInv, TouchDecides, IsClosed, P!Touches, P!Reaches, P!Sessions, P!AnyBar, P!InView,
                P!After, P!Counts, P!Mark
  <2>4. \A k \in DOMAIN book' : TradeInv(book[k], saved, torn)'
    BY <1>2, <2>1, <2>3, TradeInvIs DEF BooksInv
  <2>5. (BooksType => (NothingMissed /\ ClosedByThen /\ P!FirstTouchDecides /\ P!OverdueIsClosed
                         <=> \A k \in DOMAIN book : TradeInv(book[k], saved, torn)))'
    BY TradeInvIs, PTL
  <2> QED
    BY <2>2, <2>4, <2>5 DEF BooksInv
<1> QED
  BY <1>1, <1>2, TickStep DEF P!Next

(***************************************************************************)
(* A trade's outcome is its first touch, whatever runs were lost.            *)
(***************************************************************************)
THEOREM FirstTouchIsOutcome == Spec => []FirstTouchDecides
<1>1. BooksInv => FirstTouchDecides
  BY DEF BooksInv, FirstTouchDecides
<1> QED
  BY <1>1, BooksInit, BooksInductive, Composition, PTL DEF P!Spec

(***************************************************************************)
(* No trade outlives its holding period past a saved run.                   *)
(***************************************************************************)
THEOREM HoldingPeriodsEnd == Spec => []OverdueIsClosed
<1>1. BooksInv => OverdueIsClosed
  BY DEF BooksInv, OverdueIsClosed
<1> QED
  BY <1>1, BooksInit, BooksInductive, Composition, PTL DEF P!Spec

(***************************************************************************)
(* One pick a day, and one decision of the challenger a day but for the      *)
(* runs that tore.                                                          *)
(***************************************************************************)
THEOREM SelectedOnce == Spec => []OneSelectionADay
<1>1. BooksInv => OneSelectionADay
  <2> SUFFICES ASSUME BooksInv, kind \in {"pick", "challenger"}, NEW d \in 0..LastDay
               PROVE  Cardinality(EnteredOn(d)) <= 1 + Cardinality(TornOn(d))
    BY SameCardinality DEF OneSelectionADay, P!OneSelectionADay, EnteredOn, TornOn
  <2>1. Cardinality(TornOn(d)) \in Nat
    <3>1. IsFiniteSet(torn) /\ TornOn(d) \subseteq torn
      BY DEF BooksInv, Selections, TornOn
    <3> QED
      BY <3>1, FS_Subset, FS_CardinalityType
  <2>2. CASE kind = "pick"
    <3>1. \A j, k \in EnteredOn(d) : j = k
      BY <2>2 DEF BooksInv, Selections, EnteredOn
    <3>2. \E id : EnteredOn(d) \subseteq {id}
      BY <3>1
    <3>3. Cardinality(EnteredOn(d)) \in Nat /\ Cardinality(EnteredOn(d)) <= 1
      <4>1. PICK id : EnteredOn(d) \subseteq {id}
        BY <3>2
      <4>2. IsFiniteSet({id}) /\ Cardinality({id}) = 1
        BY FS_Singleton
      <4> QED
        BY <4>1, <4>2, FS_Subset, FS_CardinalityType
    <3> QED
      BY <2>1, <3>3
  <2>3. CASE kind = "challenger"
    <3>1. DecidedOn(d) \in {0, 1} /\ IsFiniteSet(EnteredOn(d))
      <4>1. EnteredOn(d) \subseteq DOMAIN book /\ IsFiniteSet(DOMAIN book)
        BY <2>3 DEF EnteredOn, BooksInv, Selections
      <4> QED
        BY <4>1, FS_Subset DEF DecidedOn
    <3>2. Cardinality(EnteredOn(d)) <= Cardinality(TornOn(d)) + DecidedOn(d)
      BY <2>3 DEF BooksInv, Selections
    <3> QED
      BY <2>1, <3>1, <3>2, FS_CardinalityType
  <2> QED
    BY <2>2, <2>3
<1> QED
  BY <1>1, BooksInit, BooksInductive, Composition, PTL DEF P!Spec

-----------------------------------------------------------------------------
(* PaperAllocation *)

\* Counting, in terms of a set: what holds of 0, and of the next number with each
\* before n, holds up to n.
LEMMA CountingUp ==
  ASSUME NEW n \in Nat, NEW S, 0 \in S, \A k \in 0..n : k \in S /\ k < n => k + 1 \in S
  PROVE  \A k \in 0..n : k \in S
<1> SUFFICES ASSUME {k \in 0..n : k \notin S} # {} PROVE FALSE
  OBVIOUS
<1>1. PICK x \in {k \in 0..n : k \notin S} : \A y \in {k \in 0..n : k \notin S} : x <= y
  <2>1. {k \in 0..n : k \notin S} \subseteq Nat
    OBVIOUS
  <2> QED
    BY <2>1, Smallest
<1>2. x # 0 /\ x - 1 \in 0..n /\ x - 1 < n /\ ~(x <= x - 1)
  BY <1>1
<1>3. x - 1 \in S
  BY <1>1, <1>2
<1> QED
  BY <1>1, <1>2, <1>3

\* The partial sums of a sequence.
Adds(f, v) == \A i \in 0..Len(v) : f[i] = IF i = 0 THEN 0 ELSE f[i - 1] + v[i]

LEMMA SumsExist ==
  ASSUME NEW v \in Seq(Nat)
  PROVE  \E f \in [0..Len(v) -> Nat] : Adds(f, v)
<1> DEFINE n == Len(v)
           Upto(k) == \E f \in [0..k -> Nat] : \A i \in 0..k : f[i] = IF i = 0 THEN 0 ELSE f[i - 1] + v[i]
           S == {k \in 0..n : Upto(k)}
<1>0. n \in Nat /\ \A i \in 1..n : v[i] \in Nat
  OBVIOUS
<1> HIDE DEF n
<1>1. 0 \in S
  <2> DEFINE z == [i \in 0..0 |-> 0]
  <2>1. z \in [0..0 -> Nat]
    OBVIOUS
  <2>2. \A i \in 0..0 : z[i] = IF i = 0 THEN 0 ELSE z[i - 1] + v[i]
    OBVIOUS
  <2>3. Upto(0)
    <3> HIDE DEF z
    <3> QED
      BY <2>1, <2>2
  <2>4. 0 \in 0..n
    BY <1>0
  <2> HIDE DEF Upto
  <2> QED
    BY <2>3, <2>4
<1>2. \A k \in 0..n : k \in S /\ k < n => k + 1 \in S
  <2> SUFFICES ASSUME NEW k \in 0..n, Upto(k), k < n PROVE Upto(k + 1) /\ k + 1 \in 0..n
    <3> HIDE DEF Upto
    <3> QED
      OBVIOUS
  <2>1. PICK f \in [0..k -> Nat] : \A i \in 0..k : f[i] = IF i = 0 THEN 0 ELSE f[i - 1] + v[i]
    OBVIOUS
  <2> DEFINE g == [i \in 0..(k + 1) |-> IF i = k + 1 THEN f[k] + v[k + 1] ELSE f[i]]
  <2>2. k + 1 \in 1..n /\ v[k + 1] \in Nat /\ f[k] \in Nat
    BY <1>0
  <2>3. g \in [0..(k + 1) -> Nat]
    BY <2>1, <2>2
  <2>4. ASSUME NEW i \in 0..(k + 1) PROVE g[i] = IF i = 0 THEN 0 ELSE g[i - 1] + v[i]
    <3>1. CASE i = k + 1
      <4>1. g[i] = f[k] + v[k + 1] /\ g[i - 1] = f[k]
        BY <3>1, <2>2
      <4> QED
        BY <3>1, <4>1, <2>2
    <3>2. CASE i # k + 1
      <4>1. i \in 0..k /\ g[i] = f[i] /\ (i # 0 => g[i - 1] = f[i - 1])
        BY <3>2, <2>2
      <4> QED
        BY <2>1, <4>1
    <3> QED
      BY <3>1, <3>2
  <2>5. Upto(k + 1)
    <3> HIDE DEF g
    <3> QED
      BY <2>3, <2>4
  <2> HIDE DEF Upto
  <2> QED
    BY <1>0, <2>2, <2>5
<1>3. n \in S
  <2> HIDE DEF S
  <2>1. \A k \in 0..n : k \in S
    BY <1>0, <1>1, <1>2, CountingUp
  <2> QED
    BY <1>0, <2>1
<1> QED
  BY <1>3 DEF n, Adds

\* Partial sums are determined by the numbers up to there.
Agree(v, w, n) ==
  Len(v) \in Nat /\ Len(w) \in Nat /\ n \in 0..Len(v) /\ n \in 0..Len(w) /\ \A i \in 1..n : v[i] = w[i]

LEMMA SumsAgree ==
  \A v, w, f, g, n : Agree(v, w, n) /\ Adds(f, v) /\ Adds(g, w) => f[n] = g[n]
<1> SUFFICES ASSUME NEW v, NEW w, NEW f, NEW g, NEW n, Agree(v, w, n), Adds(f, v), Adds(g, w)
             PROVE  f[n] = g[n]
  OBVIOUS
<1>0. n \in Nat /\ n <= Len(v) /\ n <= Len(w) /\ Len(v) \in Nat /\ Len(w) \in Nat /\ \A i \in 1..n : v[i] = w[i]
  BY DEF Agree
<1> DEFINE S == {k \in 0..n : f[k] = g[k]}
<1>1. 0 \in S
  BY <1>0 DEF Adds
<1>2. \A k \in 0..n : k \in S /\ k < n => k + 1 \in S
  <2> SUFFICES ASSUME NEW k \in 0..n, f[k] = g[k], k < n PROVE f[k + 1] = g[k + 1]
    BY <1>0
  <2>1. f[k + 1] = f[k] + v[k + 1]
    BY <1>0 DEF Adds
  <2>2. g[k + 1] = g[k] + w[k + 1]
    BY <1>0 DEF Adds
  <2> QED
    BY <1>0, <2>1, <2>2
<1>3. n \in S
  <2> HIDE DEF S
  <2>1. \A k \in 0..n : k \in S
    BY <1>0, <1>1, <1>2, CountingUp
  <2> QED
    BY <1>0, <2>1
<1> QED
  BY <1>3

\* Sum adds the numbers of a sequence.
LEMMA SumIs ==
  ASSUME NEW v \in Seq(Nat)
  PROVE  \E f \in [0..Len(v) -> Nat] : Adds(f, v) /\ A!Sum(v) = f[Len(v)]
<1> DEFINE Sums(f) == f = [i \in 0..Len(v) |-> IF i = 0 THEN 0 ELSE f[i - 1] + v[i]]
<1>1. PICK f \in [0..Len(v) -> Nat] : Adds(f, v)
  BY SumsExist
<1>2. Sums(f)
  BY <1>1 DEF Adds
<1> DEFINE h == CHOOSE g : Sums(g)
<1>3. Sums(h)
  <2> HIDE DEF Sums
  <2> QED
    BY <1>2
<1>4. Adds(h, v)
  <2> HIDE DEF h
  <2> QED
    BY <1>3 DEF Adds
<1>5. Len(v) \in Nat
  OBVIOUS
<1>6. \A k \in 0..Len(v) : h[k] = f[k]
  <2> HIDE DEF h
  <2>1. \A k \in 0..Len(v) : Agree(v, v, k)
    BY <1>5 DEF Agree
  <2> QED
    BY <1>1, <1>4, <2>1, SumsAgree
<1>7. A!Sum(v) = h[Len(v)]
  BY DEF A!Sum
<1> HIDE DEF h
<1> QED
  BY <1>1, <1>5, <1>6, <1>7

LEMMA SumType == \A v \in Seq(Nat) : A!Sum(v) \in Nat
<1> SUFFICES ASSUME NEW v \in Seq(Nat) PROVE A!Sum(v) \in Nat
  OBVIOUS
<1>1. Len(v) \in Nat
  OBVIOUS
<1> QED
  BY <1>1, SumIs

LEMMA SumEmpty == A!Sum(<<>>) = 0
<1> DEFINE v == <<>>
<1>1. v \in Seq(Nat) /\ Len(v) = 0
  OBVIOUS
<1> HIDE DEF v
<1>2. PICK f \in [0..Len(v) -> Nat] : Adds(f, v) /\ A!Sum(v) = f[Len(v)]
  BY <1>1, SumIs
<1>3. A!Sum(v) = 0
  BY <1>1, <1>2 DEF Adds
<1> QED
  BY <1>3 DEF v

\* One number more.
LEMMA SumOneMore ==
  ASSUME NEW v \in Seq(Nat), NEW w \in Seq(Nat), Len(w) = Len(v) + 1, \A i \in 1..Len(v) : w[i] = v[i]
  PROVE  A!Sum(w) = A!Sum(v) + w[Len(w)]
<1>1. Len(v) \in Nat /\ Len(w) \in Nat /\ Len(v) <= Len(v) /\ Len(v) <= Len(w) /\ Len(w) # 0
      /\ Len(w) - 1 = Len(v) /\ Len(w) \in 0..Len(w)
  OBVIOUS
<1>2. PICK f \in [0..Len(v) -> Nat] : Adds(f, v) /\ A!Sum(v) = f[Len(v)]
  BY SumIs
<1>3. PICK g \in [0..Len(w) -> Nat] : Adds(g, w) /\ A!Sum(w) = g[Len(w)]
  BY SumIs
<1>4. Agree(v, w, Len(v))
  BY <1>1 DEF Agree
<1>5. f[Len(v)] = g[Len(v)]
  <2>1. Adds(f, v)
    BY <1>2
  <2>2. Adds(g, w)
    BY <1>3
  <2>3. Agree(v, w, Len(v)) /\ Adds(f, v) /\ Adds(g, w) => f[Len(v)] = g[Len(v)]
    BY SumsAgree
  <2> QED
    BY <1>4, <2>1, <2>2, <2>3
<1>6. g[Len(w)] = g[Len(w) - 1] + w[Len(w)]
  BY <1>1, <1>3, Zenon DEF Adds
<1> QED
  BY <1>1, <1>2, <1>3, <1>5, <1>6


\* A line of the plan, a row of V6 and the shares it is given.
Allotted == [row : Candidates, shares : Nat \ {0}]

LEMMA RowIs ==
  ASSUME NEW row \in Candidates
  PROVE  row.entry \in Nat /\ row.risk \in Nat /\ row.risk > 0 /\ row.entry > row.risk
BY InstanceAssumption DEF A!RowsAssumption

LEMMA LimitsAre ==
  /\ MaxPositions \in Nat /\ MaxSectorPositions \in Nat /\ MaxThemePositions \in Nat
  /\ RiskBudget \in Nat /\ TotalRiskLimit \in Nat /\ MaxNotional \in Nat /\ MaxRows \in Nat
BY InstanceAssumption DEF A!LimitsAssumption

LEMMA RisksAre ==
  ASSUME NEW plan \in Seq(Allotted)
  PROVE  /\ A!Risks(plan) \in Seq(Nat) /\ Len(A!Risks(plan)) = Len(plan)
         /\ \A i \in 1..Len(plan) : A!Risks(plan)[i] = plan[i].shares * plan[i].row.risk
<1>1. \A p \in Allotted : p.shares * p.row.risk \in Nat
  BY RowIs DEF Allotted
<1>2. \A i \in 1..Len(plan) : plan[i] \in Allotted
  OBVIOUS
<1> QED
  BY <1>1, <1>2 DEF A!Risks

\* What one more position does to the plan's risk.
LEMMA RiskAppend ==
  ASSUME NEW plan \in Seq(Allotted), NEW e \in Allotted
  PROVE  /\ A!Sum(A!Risks(plan)) \in Nat
         /\ A!Sum(A!Risks(Append(plan, e))) = A!Sum(A!Risks(plan)) + e.shares * e.row.risk
<1> DEFINE more == Append(plan, e)
<1>1. more \in Seq(Allotted) /\ Len(more) = Len(plan) + 1 /\ more[Len(plan) + 1] = e
      /\ Len(plan) \in Nat /\ \A i \in 1..Len(plan) : more[i] = plan[i]
  OBVIOUS
<1> HIDE DEF more
<1>2. A!Risks(plan) \in Seq(Nat) /\ A!Risks(more) \in Seq(Nat)
      /\ Len(A!Risks(more)) = Len(plan) + 1 /\ Len(A!Risks(plan)) = Len(plan)
  BY <1>1, RisksAre
<1> DEFINE Risk(p) == p.shares * p.row.risk
<1>3. \A i \in 1..Len(plan) : A!Risks(plan)[i] = Risk(plan[i])
  BY RisksAre
<1>4. \A i \in 1..(Len(plan) + 1) : A!Risks(more)[i] = Risk(more[i])
  <2>1. \A i \in 1..Len(more) : A!Risks(more)[i] = Risk(more[i])
    BY <1>1, RisksAre
  <2> QED
    BY <1>1, <2>1
<1>5. A!Risks(more)[Len(plan) + 1] = Risk(e) /\ \A i \in 1..Len(plan) : A!Risks(more)[i] = A!Risks(plan)[i]
  <2> HIDE DEF Risk
  <2> QED
    BY <1>1, <1>3, <1>4
<1>6. A!Sum(A!Risks(more)) = A!Sum(A!Risks(plan)) + A!Risks(more)[Len(A!Risks(more))]
  BY <1>2, <1>5, SumOneMore
<1> QED
  BY <1>2, <1>5, <1>6, SumType DEF more

\* What it does to the positions that share a field.
LEMMA SharingAppend ==
  ASSUME NEW plan \in Seq(Allotted), NEW e \in Allotted, NEW field, NEW value
  PROVE  /\ IsFiniteSet(A!Sharing(plan, field, value))
         /\ A!Cardinality(A!Sharing(plan, field, value)) \in Nat
         /\ A!Cardinality(A!Sharing(Append(plan, e), field, value)) =
              A!Cardinality(A!Sharing(plan, field, value)) + (IF e.row[field] = value THEN 1 ELSE 0)
<1> DEFINE S == A!Sharing(plan, field, value)
           T == A!Sharing(Append(plan, e), field, value)
<1>1. IsFiniteSet(S) /\ Len(plan) + 1 \notin S
  <2>1. S \subseteq 1..Len(plan) /\ IsFiniteSet(1..Len(plan)) /\ Len(plan) \in Nat
    BY FS_Interval DEF A!Sharing
  <2> QED
    BY <2>1, FS_Subset
<1>2. T = IF e.row[field] = value THEN S \cup {Len(plan) + 1} ELSE S
  <2>1. DOMAIN Append(plan, e) = 1..(Len(plan) + 1) /\ DOMAIN plan = 1..Len(plan) /\ Len(plan) \in Nat
    OBVIOUS
  <2>2. \A i \in 1..Len(plan) : Append(plan, e)[i] = plan[i]
    OBVIOUS
  <2>3. Append(plan, e)[Len(plan) + 1] = e
    OBVIOUS
  <2> QED
    BY <2>1, <2>2, <2>3 DEF A!Sharing
<1> HIDE DEF S, T
<1>3. Cardinality(S) \in Nat /\ Cardinality(S \cup {Len(plan) + 1}) = Cardinality(S) + 1
  BY <1>1, FS_AddElement, FS_CardinalityType
<1>4. Cardinality(T) = Cardinality(S) + (IF e.row[field] = value THEN 1 ELSE 0)
  BY <1>2, <1>3
<1> QED
  BY <1>1, <1>3, <1>4, SameCardinality DEF S, T

LEMMA AtMostAppend ==
  ASSUME NEW plan \in Seq(Allotted), NEW e \in Allotted, NEW field, NEW n \in Nat, A!AtMost(plan, field, n)
  PROVE  A!AtMost(Append(plan, e), field, n) <=>
           A!Cardinality(A!Sharing(plan, field, e.row[field])) + 1 <= n
<1> DEFINE more == Append(plan, e)
           Count(q, value) == A!Cardinality(A!Sharing(q, field, value))
<1>1. DOMAIN more = 1..(Len(plan) + 1) /\ DOMAIN plan = 1..Len(plan) /\ Len(plan) \in Nat
      /\ more[Len(plan) + 1] = e /\ \A i \in 1..Len(plan) : more[i] = plan[i]
  OBVIOUS
<1>2. \A value : /\ Count(plan, value) \in Nat
                 /\ Count(more, value) = Count(plan, value) + (IF e.row[field] = value THEN 1 ELSE 0)
  BY SharingAppend
<1>3. \A i \in 1..Len(plan) : Count(plan, plan[i].row[field]) <= n
  BY <1>1 DEF A!AtMost
<1>4. A!AtMost(more, field, n) <=> \A i \in 1..(Len(plan) + 1) : Count(more, more[i].row[field]) <= n
  BY <1>1 DEF A!AtMost
<1> HIDE DEF more, Count
<1>5. (\A i \in 1..(Len(plan) + 1) : Count(more, more[i].row[field]) <= n) <=> Count(plan, e.row[field]) + 1 <= n
  <2>1. Count(more, more[Len(plan) + 1].row[field]) = Count(plan, e.row[field]) + 1
    BY <1>1, <1>2
  <2>2. ASSUME Count(plan, e.row[field]) + 1 <= n, NEW i \in 1..Len(plan)
        PROVE  Count(more, more[i].row[field]) <= n
    <3>1. more[i].row[field] = plan[i].row[field]
      BY <1>1
    <3>2. CASE plan[i].row[field] = e.row[field]
      BY <1>1, <1>2, <2>1, <2>2, <3>1, <3>2
    <3>3. CASE plan[i].row[field] # e.row[field]
      BY <1>2, <1>3, <3>1, <3>3
    <3> QED
      BY <3>2, <3>3
  <2>3. Len(plan) + 1 \in 1..(Len(plan) + 1) /\ \A i \in 1..(Len(plan) + 1) : i = Len(plan) + 1 \/ i \in 1..Len(plan)
    BY <1>1
  <2> QED
    BY <1>1, <2>1, <2>2, <2>3
<1> QED
  BY <1>4, <1>5 DEF more, Count

LEMMA DivisionIs ==
  ASSUME NEW m \in Nat, NEW d \in Nat, d > 0
  PROVE  /\ m \div d \in Nat /\ (m \div d) * d <= m
         /\ m \div d < 1 => m < d
OBVIOUS

\* What is left for a row in a plan within the limits.
LEMMA SharesAre ==
  ASSUME totalRisk \in Nat, totalRisk <= TotalRiskLimit, NEW row \in Candidates
  PROVE  /\ A!Shares(row) \in Nat
         /\ A!Shares(row) * row.risk <= RiskBudget
         /\ totalRisk + A!Shares(row) * row.risk <= TotalRiskLimit
         /\ A!Shares(row) * row.entry <= MaxNotional
         /\ A!Shares(row) < 1 => \/ row.risk > RiskBudget
                                 \/ totalRisk + row.risk > TotalRiskLimit
                                 \/ row.entry > MaxNotional
<1> DEFINE allowed == A!AllowedRisk
           byRisk == allowed \div row.risk
           byNotional == MaxNotional \div row.entry
           n == A!Shares(row)
<1>1. row.entry \in Nat /\ row.risk \in Nat /\ row.risk > 0 /\ row.entry > 0
  BY RowIs
<1>2. allowed \in Nat /\ allowed <= RiskBudget /\ totalRisk + allowed <= TotalRiskLimit
      /\ (allowed = RiskBudget \/ totalRisk + allowed = TotalRiskLimit)
  BY LimitsAre DEF A!AllowedRisk
<1>3. n = (IF byRisk <= byNotional THEN byRisk ELSE byNotional)
  BY DEF A!Shares
<1> HIDE DEF allowed
<1>4. /\ byRisk \in Nat /\ byRisk * row.risk <= allowed
      /\ byRisk < 1 => allowed < row.risk
  BY <1>1, <1>2, DivisionIs
<1>5. /\ byNotional \in Nat /\ byNotional * row.entry <= MaxNotional
      /\ byNotional < 1 => MaxNotional < row.entry
  BY <1>1, LimitsAre, DivisionIs
<1> HIDE DEF byRisk, byNotional, n
<1>6. n \in Nat /\ n <= byRisk /\ n <= byNotional /\ (n < 1 => byRisk < 1 \/ byNotional < 1)
  BY <1>3, <1>4, <1>5
<1>7. n * row.risk <= byRisk * row.risk /\ n * row.entry <= byNotional * row.entry
  <2>1. \A x, y, z \in Nat : x <= y => x * z <= y * z
    OBVIOUS
  <2> QED
    BY <1>1, <1>4, <1>5, <1>6, <2>1
<1>8. n * row.risk \in Nat /\ n * row.entry \in Nat /\ byRisk * row.risk \in Nat /\ byNotional * row.entry \in Nat
  BY <1>1, <1>4, <1>5, <1>6
<1>9. n * row.risk <= allowed /\ n * row.entry <= MaxNotional
  BY <1>2, <1>4, <1>5, <1>7, <1>8, LimitsAre
<1>10. n * row.risk <= RiskBudget /\ totalRisk + n * row.risk <= TotalRiskLimit
  BY <1>2, <1>8, <1>9, LimitsAre
<1>11. ASSUME n < 1
       PROVE  row.risk > RiskBudget \/ totalRisk + row.risk > TotalRiskLimit \/ row.entry > MaxNotional
  BY <1>1, <1>2, <1>4, <1>5, <1>6, <1>11, LimitsAre
<1> QED
  BY <1>6, <1>9, <1>10, <1>11 DEF n

\* Why a ranked row cannot be given a share: none of it passes as the plan grows.
Blocked(row) ==
  \/ Len(selected) >= MaxPositions
  \/ A!Held("ticker", row.ticker) >= 1
  \/ A!Held("sector", row.sector) >= MaxSectorPositions
  \/ A!Held("theme", row.theme) >= MaxThemePositions
  \/ row.risk > RiskBudget
  \/ totalRisk + row.risk > TotalRiskLimit
  \/ row.entry > MaxNotional

(***************************************************************************)
(* The loop's invariant.  The risk that is accumulated is that of the plan, *)
(* the plan keeps the limits, and every ranked row that has been looked at  *)
(* is blocked: by itself, or by what was taken before or at it.             *)
(***************************************************************************)
PlanInv ==
  /\ rows \in Seq(Candidates) /\ next \in 1..(Len(rows) + 1)
  /\ selected \in Seq(Allotted)
  /\ totalRisk = A!Sum(A!Risks(selected))
  /\ A!Within(selected)
  /\ ~validated => next = 1
  /\ \A i \in 1..(next - 1) : rows[i].ranked => Blocked(rows[i])

LEMMA PlanInit == A!Init => PlanInv
<1> SUFFICES ASSUME A!Init PROVE PlanInv
  OBVIOUS
<1>1. rows \in Seq(Candidates) /\ next = 1
  <2>1. PICK n \in 0..MaxRows : rows \in [1..n -> Candidates]
    BY DEF A!Init
  <2> QED
    BY <2>1, LimitsAre DEF A!Init
<1>2. selected = <<>> /\ selected \in Seq(Allotted) /\ Len(selected) = 0 /\ DOMAIN selected = {}
  BY DEF A!Init
<1>3. totalRisk = 0 /\ A!Sum(A!Risks(selected)) = 0
  <2>1. A!Risks(selected) \in Seq(Nat) /\ Len(A!Risks(selected)) = 0
    BY <1>2, RisksAre
  <2>2. A!Risks(selected) = <<>>
    BY <2>1
  <2> QED
    BY <2>2, SumEmpty DEF A!Init
<1>4. A!Within(selected)
  BY <1>2, <1>3, LimitsAre DEF A!Within, A!AtMost
<1> QED
  BY <1>1, <1>2, <1>3, <1>4 DEF PlanInv

\* What Within comes to for a plan and one more position.
LEMMA WithinAppend ==
  ASSUME PlanInv, NEW e \in Allotted
  PROVE  A!Within(Append(selected, e)) <=>
           /\ Len(selected) + 1 <= MaxPositions
           /\ A!Held("ticker", e.row["ticker"]) + 1 <= 1
           /\ A!Held("sector", e.row["sector"]) + 1 <= MaxSectorPositions
           /\ A!Held("theme", e.row["theme"]) + 1 <= MaxThemePositions
           /\ totalRisk + e.shares * e.row.risk <= TotalRiskLimit
           /\ e.shares * e.row.risk <= RiskBudget /\ e.shares * e.row.entry <= MaxNotional
<1> DEFINE more == Append(selected, e)
<1>1. selected \in Seq(Allotted) /\ totalRisk = A!Sum(A!Risks(selected)) /\ A!Within(selected)
  BY DEF PlanInv
<1>2. Len(more) = Len(selected) + 1 /\ DOMAIN more = 1..(Len(selected) + 1) /\ DOMAIN selected = 1..Len(selected)
      /\ Len(selected) \in Nat /\ more[Len(selected) + 1] = e /\ \A i \in 1..Len(selected) : more[i] = selected[i]
  BY <1>1
<1>3. /\ A!AtMost(more, "ticker", 1) <=> A!Held("ticker", e.row["ticker"]) + 1 <= 1
      /\ A!AtMost(more, "sector", MaxSectorPositions) <=>
           A!Held("sector", e.row["sector"]) + 1 <= MaxSectorPositions
      /\ A!AtMost(more, "theme", MaxThemePositions) <=> A!Held("theme", e.row["theme"]) + 1 <= MaxThemePositions
  BY <1>1, AtMostAppend, LimitsAre DEF A!Within, A!Held
<1>4. A!Sum(A!Risks(more)) = totalRisk + e.shares * e.row.risk
  BY <1>1, RiskAppend
<1> DEFINE Small(p) == p.shares * p.row.risk <= RiskBudget /\ p.shares * p.row.entry <= MaxNotional
<1>5. (\A i \in DOMAIN more : Small(more[i])) <=> Small(e)
  <2>1. \A i \in DOMAIN selected : Small(selected[i])
    BY <1>1 DEF A!Within
  <2> HIDE DEF Small, more
  <2> QED
    BY <1>2, <2>1
<1>6. A!Within(more) <=> /\ Len(more) <= MaxPositions
                         /\ A!AtMost(more, "ticker", 1)
                         /\ A!AtMost(more, "sector", MaxSectorPositions)
                         /\ A!AtMost(more, "theme", MaxThemePositions)
                         /\ A!Sum(A!Risks(more)) <= TotalRiskLimit
                         /\ \A i \in DOMAIN more : Small(more[i])
  BY DEF A!Within
<1> HIDE DEF more, Small
<1>7. A!Within(more) <=> /\ Len(selected) + 1 <= MaxPositions
                         /\ A!Held("ticker", e.row["ticker"]) + 1 <= 1
                         /\ A!Held("sector", e.row["sector"]) + 1 <= MaxSectorPositions
                         /\ A!Held("theme", e.row["theme"]) + 1 <= MaxThemePositions
                         /\ totalRisk + e.shares * e.row.risk <= TotalRiskLimit
                         /\ Small(e)
  BY <1>2, <1>3, <1>4, <1>5, <1>6
<1> QED
  BY <1>7, Zenon DEF more, Small

LEMMA FieldsAre ==
  \A row \in Candidates : row.ticker = row["ticker"] /\ row.sector = row["sector"] /\ row.theme = row["theme"]
OBVIOUS

LEMMA HeldType ==
  ASSUME selected \in Seq(Allotted), NEW field, NEW value
  PROVE  A!Held(field, value) \in Nat
<1>1. IsFiniteSet(A!Sharing(selected, field, value))
  <2>1. A!Sharing(selected, field, value) \subseteq 1..Len(selected) /\ Len(selected) \in Nat
    BY DEF A!Sharing
  <2>2. IsFiniteSet(1..Len(selected))
    BY <2>1, FS_Interval
  <2> QED
    BY <2>1, <2>2, FS_Subset
<1> QED
  BY <1>1, FS_CardinalityType, SameCardinality DEF A!Held

LEMMA ConsiderStep == PlanInv /\ A!Consider => PlanInv'
<1> SUFFICES ASSUME PlanInv, A!Consider PROVE PlanInv'
  OBVIOUS
<1>0. PICK row \in Candidates : row = rows[next]
  BY DEF PlanInv, A!Consider
<1> DEFINE e == [row |-> row, shares |-> A!Shares(row)]
<1>1. /\ rows \in Seq(Candidates) /\ next \in 1..Len(rows) /\ Len(rows) \in Nat
      /\ rows' = rows /\ next' = next + 1 /\ validated /\ validated' = validated
  BY DEF PlanInv, A!Consider
<1>2. selected \in Seq(Allotted) /\ A!Within(selected) /\ totalRisk = A!Sum(A!Risks(selected))
  BY DEF PlanInv
<1>3. totalRisk \in Nat /\ totalRisk <= TotalRiskLimit /\ Len(selected) \in Nat
  BY <1>2, RisksAre, SumType DEF A!Within
<1>4. \A field, value : A!Held(field, value) \in Nat
  BY <1>2, HeldType
<1>5. row.entry \in Nat /\ row.risk \in Nat
  BY <1>1, RowIs
<1>6. CASE A!Accepted(row)
  <2>1. selected' = Append(selected, e) /\ totalRisk' = totalRisk + e.shares * row.risk
    BY <1>0, <1>6 DEF A!Consider
  <2>2. e \in Allotted /\ e.row = row /\ e.shares = A!Shares(row) /\ e.shares >= 1 /\ e.shares \in Nat
    BY <1>1, <1>3, <1>6, SharesAre DEF A!Accepted, Allotted
  <2>3. A!Within(selected')
    <3>1. A!Held("ticker", row.ticker) = 0 /\ A!Held("sector", row.sector) < MaxSectorPositions
          /\ A!Held("theme", row.theme) < MaxThemePositions /\ Len(selected) < MaxPositions
      BY <1>6 DEF A!Accepted
    <3>2. /\ A!Held("ticker", e.row["ticker"]) + 1 <= 1
          /\ A!Held("sector", e.row["sector"]) + 1 <= MaxSectorPositions
          /\ A!Held("theme", e.row["theme"]) + 1 <= MaxThemePositions
          /\ Len(selected) + 1 <= MaxPositions
      BY <1>1, <1>3, <1>4, <2>2, <3>1, FieldsAre, LimitsAre
    <3>3. /\ totalRisk + e.shares * e.row.risk <= TotalRiskLimit
          /\ e.shares * e.row.risk <= RiskBudget /\ e.shares * e.row.entry <= MaxNotional
      BY <1>1, <1>3, <2>2, SharesAre
    <3> HIDE DEF e
    <3> QED
      BY <2>1, <2>2, <3>2, <3>3, WithinAppend
  <2>4. e.shares * row.risk \in Nat
    BY <1>5, <2>2
  <2>5. selected' \in Seq(Allotted) /\ Len(selected') = Len(selected) + 1
    BY <1>2, <2>1, <2>2
  <2>6. totalRisk' = A!Sum(A!Risks(selected'))
    <3> HIDE DEF e
    <3> QED
      BY <1>2, <2>1, <2>2, RiskAppend
  <2>7. \A field, value : A!Held(field, value)' \in Nat /\ A!Held(field, value)' >= A!Held(field, value)
    <3> SUFFICES ASSUME NEW field, NEW value
                 PROVE  A!Held(field, value)' \in Nat /\ A!Held(field, value)' >= A!Held(field, value)
      OBVIOUS
    <3>1. A!Held(field, value)' = A!Cardinality(A!Sharing(Append(selected, e), field, value))
      BY <2>1 DEF A!Held
    <3> HIDE DEF e
    <3> QED
      BY <1>2, <1>4, <2>2, <3>1, SharingAppend DEF A!Held
  <2>8. \A c \in Candidates : Blocked(c) => Blocked(c)'
    <3> SUFFICES ASSUME NEW c \in Candidates, Blocked(c) PROVE Blocked(c)'
      OBVIOUS
    <3>1. c.risk \in Nat /\ c.entry \in Nat
      BY RowIs
    <3>2. totalRisk' \in Nat /\ totalRisk' >= totalRisk
      BY <1>3, <2>1, <2>4
    <3>3. Len(selected) >= MaxPositions => Len(selected') >= MaxPositions
      BY <1>3, <2>5, LimitsAre
    <3>4. totalRisk + c.risk > TotalRiskLimit => totalRisk' + c.risk > TotalRiskLimit
      BY <1>3, <3>1, <3>2, LimitsAre
    <3>5. \A field, value, n : n \in Nat /\ A!Held(field, value) >= n => A!Held(field, value)' >= n
      <4> SUFFICES ASSUME NEW field, NEW value, NEW n \in Nat, A!Held(field, value) >= n
                   PROVE  A!Held(field, value)' >= n
        OBVIOUS
      <4>1. A!Held(field, value) \in Nat /\ A!Held(field, value)' \in Nat
            /\ A!Held(field, value)' >= A!Held(field, value)
        BY <1>4, <2>7
      <4> QED
        BY <4>1
    <3>6. /\ A!Held("ticker", c.ticker) >= 1 => A!Held("ticker", c.ticker)' >= 1
          /\ A!Held("sector", c.sector) >= MaxSectorPositions => A!Held("sector", c.sector)' >= MaxSectorPositions
          /\ A!Held("theme", c.theme) >= MaxThemePositions => A!Held("theme", c.theme)' >= MaxThemePositions
      BY <3>5, LimitsAre
    <3> QED
      BY <3>3, <3>4, <3>6 DEF Blocked
  <2>9. Blocked(row)'
    <3>1. A!Held("ticker", row.ticker)' >= 1
      <4>1. A!Held("ticker", row.ticker)' = A!Cardinality(A!Sharing(Append(selected, e), "ticker", row.ticker))
        BY <2>1 DEF A!Held
      <4>2. e.row["ticker"] = row.ticker
        BY <2>2, FieldsAre
      <4> HIDE DEF e
      <4>3. A!Cardinality(A!Sharing(Append(selected, e), "ticker", row.ticker)) =
              A!Held("ticker", row.ticker) + 1
        BY <1>2, <2>2, <4>2, SharingAppend DEF A!Held
      <4> QED
        BY <1>4, <4>1, <4>3
    <3> QED
      BY <3>1 DEF Blocked
  <2>10. (\A i \in 1..(next - 1) : rows[i].ranked => Blocked(rows[i]))'
    <3> SUFFICES ASSUME NEW i \in 1..next, rows[i].ranked PROVE Blocked(rows[i])'
      BY <1>1
    <3>0. PICK c \in Candidates : c = rows[i]
      BY <1>1
    <3>3. Blocked(c)' => Blocked(rows[i])'
      BY <1>1, <3>0 DEF Blocked, A!Held
    <3>1. CASE i = next
      BY <1>0, <2>9, <3>0, <3>1, <3>3
    <3>2. CASE i # next
      BY <1>1, <2>8, <3>0, <3>2, <3>3 DEF PlanInv
    <3> QED
      BY <3>1, <3>2
  <2> HIDE DEF e
  <2> QED
    BY <1>1, <2>3, <2>5, <2>6, <2>10 DEF PlanInv
<1>7. CASE ~A!Accepted(row)
  <2>1. selected' = selected /\ totalRisk' = totalRisk
    BY <1>0, <1>7 DEF A!Consider
  <2>2. row.ranked => Blocked(row)
    BY <1>1, <1>3, <1>4, <1>5, <1>7, SharesAre, LimitsAre DEF A!Accepted, Blocked
  <2>3. \A c : Blocked(c)' <=> Blocked(c)
    BY <2>1 DEF Blocked, A!Held
  <2>4. A!Within(selected') /\ totalRisk' = A!Sum(A!Risks(selected'))
    BY <1>2, <2>1
  <2> QED
    BY <1>0, <1>1, <1>2, <2>1, <2>2, <2>3, <2>4 DEF PlanInv
<1> QED
  BY <1>6, <1>7

LEMMA PlanInductive == PlanInv /\ [A!Next]_(A!vars) => PlanInv'
<1> SUFFICES ASSUME PlanInv, [A!Next]_(A!vars) PROVE PlanInv'
  OBVIOUS
<1>1. CASE A!Consider
  BY <1>1, ConsiderStep
<1>2. CASE UNCHANGED A!vars
  BY <1>2 DEF PlanInv, Blocked, A!vars, A!Within, A!AtMost, A!Held
<1> QED
  BY <1>1, <1>2 DEF A!Next

(***************************************************************************)
(* The paper allocator's plan keeps every limit of its settings, and one     *)
(* pass over the candidates is enough: at its end not a single share of a    *)
(* ranked row that was turned down would fit (v7/allocator.py, lines        *)
(* 88-127).                                                                 *)
(***************************************************************************)
THEOREM OnePassIsEnough == Spec => []PlanIsMaximal
<1>1. PlanInv => PlanIsMaximal
  <2> SUFFICES ASSUME PlanInv PROVE A!PlanIsMaximal
    BY DEF PlanIsMaximal
  <2>1. ASSUME validated, next > Len(rows), NEW i \in 1..Len(rows), rows[i].ranked,
               A!Within(Append(selected, [row |-> rows[i], shares |-> 1]))
        PROVE  FALSE
    <3> DEFINE e == [row |-> rows[i], shares |-> 1]
    <3>1. rows[i] \in Candidates /\ e \in Allotted /\ Blocked(rows[i])
      BY <2>1 DEF PlanInv, Allotted
    <3>2. e.row = rows[i] /\ e.shares = 1 /\ rows[i].risk \in Nat /\ rows[i].entry \in Nat
      BY <3>1, RowIs
    <3>3. A!Within(Append(selected, e))
      BY <2>1
    <3> HIDE DEF e
    <3>4. /\ Len(selected) + 1 <= MaxPositions
          /\ A!Held("ticker", e.row["ticker"]) + 1 <= 1
          /\ A!Held("sector", e.row["sector"]) + 1 <= MaxSectorPositions
          /\ A!Held("theme", e.row["theme"]) + 1 <= MaxThemePositions
          /\ totalRisk + e.shares * e.row.risk <= TotalRiskLimit
          /\ e.shares * e.row.risk <= RiskBudget /\ e.shares * e.row.entry <= MaxNotional
      BY <3>1, <3>3, WithinAppend
    <3>5. selected \in Seq(Allotted) /\ Len(selected) \in Nat /\ totalRisk \in Nat
      BY RisksAre, SumType DEF PlanInv
    <3>6. A!Held("ticker", rows[i].ticker) \in Nat /\ A!Held("sector", rows[i].sector) \in Nat
          /\ A!Held("theme", rows[i].theme) \in Nat
      BY <3>5, HeldType
    <3>7. /\ Len(selected) + 1 <= MaxPositions
          /\ A!Held("ticker", rows[i].ticker) + 1 <= 1
          /\ A!Held("sector", rows[i].sector) + 1 <= MaxSectorPositions
          /\ A!Held("theme", rows[i].theme) + 1 <= MaxThemePositions
      BY <3>1, <3>2, <3>4, FieldsAre
    <3>8. /\ totalRisk + rows[i].risk <= TotalRiskLimit
          /\ rows[i].risk <= RiskBudget /\ rows[i].entry <= MaxNotional
      <4>1. 1 * rows[i].risk = rows[i].risk /\ 1 * rows[i].entry = rows[i].entry
        BY <3>2
      <4> QED
        BY <3>2, <3>4, <4>1
    <3>9. Blocked(rows[i])
      BY <3>1
    <3>10. ~(Len(selected) >= MaxPositions)
      BY <3>5, <3>7, LimitsAre
    <3>11. ~(A!Held("ticker", rows[i].ticker) >= 1)
      BY <3>6, <3>7
    <3>12. ~(A!Held("sector", rows[i].sector) >= MaxSectorPositions)
      BY <3>6, <3>7, LimitsAre
    <3>13. ~(A!Held("theme", rows[i].theme) >= MaxThemePositions)
      BY <3>6, <3>7, LimitsAre
    <3>14. ~(rows[i].risk > RiskBudget) /\ ~(rows[i].entry > MaxNotional)
           /\ ~(totalRisk + rows[i].risk > TotalRiskLimit)
      BY <3>2, <3>5, <3>8, LimitsAre
    <3> QED
      BY <3>9, <3>10, <3>11, <3>12, <3>13, <3>14, Zenon DEF Blocked
  <2> QED
    BY <2>1 DEF A!PlanIsMaximal, PlanInv
<1> QED
  BY <1>1, PlanInit, PlanInductive, Composition, PTL DEF A!Spec

=============================================================================
