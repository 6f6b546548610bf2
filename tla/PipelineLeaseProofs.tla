------------------------ MODULE PipelineLeaseProofs ------------------------
(***************************************************************************)
(* The safety of PipelineLease for any set of owners, any lease lengths    *)
(* and any number of generations.  The invariants the runs check are not   *)
(* inductive: that a locked transaction is current needs to know that a    *)
(* statement still fresh while it waits scanned the current generation.    *)
(***************************************************************************)
EXTENDS PipelineLease, TLAPS

\* What a statement that waits on an unchanged row has established.
FreshIsCurrent ==
  \A o \in Owner :
    \/ txn[o].phase = "waiting" /\ txn[o].fresh
    \/ beat[o].phase = "waiting" /\ beat[o].fresh
    => /\ row.owner = o /\ row.generation = token[o] /\ row.status = "running"

\* No token and no commit is ahead of the row.
NothingAhead ==
  /\ \A o \in Owner : token[o] <= row.generation
  /\ committed <= row.generation

Inv == TypeOK /\ HistoryExact /\ LockedIsCurrent /\ FreshIsCurrent /\ NothingAhead

-----------------------------------------------------------------------------
(* The initial state, before any acquire, satisfies the invariant. *)
LEMMA InitInv == Init => Inv
<1> SUFFICES ASSUME Init PROVE Inv
  OBVIOUS
<1> USE DEF Init, NoRow, IdleBeat, IdleTxn
<1>1. TypeOK
  BY DEF TypeOK, Row, Beat, Txn
<1>2. HistoryExact
  BY DEF HistoryExact
<1>3. LockedIsCurrent /\ FreshIsCurrent /\ NothingAhead
  BY DEF LockedIsCurrent, FreshIsCurrent, NothingAhead
<1>4. QED
  BY <1>1, <1>2, <1>3 DEF Inv

(* Forgetting what waiting statements scanned keeps their types. *)
LEMMA ChangedTypes ==
  ASSUME NEW b \in [Owner -> Beat],
         NEW t \in [Owner -> Txn],
         Changed(b, t)
  PROVE  /\ beat' \in [Owner -> Beat]
         /\ txn' \in [Owner -> Txn]
         /\ \A o \in Owner : /\ beat'[o].phase = b[o].phase /\ ~beat'[o].fresh
                             /\ txn'[o].phase = t[o].phase /\ ~txn'[o].fresh
BY DEF Changed, Beat, Txn

(* Every step of an owner and of the database clock keeps the types. *)
LEMMA TypeStep == TypeOK /\ [Next]_vars => TypeOK'
<1> SUFFICES ASSUME TypeOK, [Next]_vars PROVE TypeOK'
  OBVIOUS
<1>1. ASSUME NEW o \in Owner, NEW ttl \in TTL, Acquire(o, ttl) PROVE TypeOK'
  <2>1. ttl \in Nat
    BY TTLAssumption
  <2>2. row' \in Row /\ row'.owner \in Owner /\ row'.generation # 0
    BY <1>1, <2>1 DEF Acquire, Abandoned, NextGeneration, TypeOK, Row
  <2>3. history' \subseteq [generation : Nat \ {0}, owner : Owner, outcome : Outcome]
    BY <1>1 DEF Acquire, Abandoned, NextGeneration, Ended, TypeOK, Row, Outcome
  <2>4. token' \in [Owner -> Nat] /\ committed' \in Nat
    BY <1>1 DEF Acquire, Abandoned, NextGeneration, TypeOK, Row
  <2>5. QED
    BY <1>1, <2>2, <2>3, <2>4, ChangedTypes DEF Acquire, Abandoned, NextGeneration, TypeOK
<1>2. ASSUME NEW o \in Owner, NEW ttl \in TTL, HeartbeatScan(o, ttl) PROVE TypeOK'
  BY <1>2, TTLAssumption DEF HeartbeatScan, TypeOK, Beat
<1>3. ASSUME NEW o \in Owner, NEW ttl \in TTL, HeartbeatRecheck(o, ttl) PROVE TypeOK'
  <2>1. [beat EXCEPT ![o] = IdleBeat] \in [Owner -> Beat]
    BY DEF TypeOK, Beat, IdleBeat
  <2>2. CASE OwnedBy(o)
    <3>1. row' \in Row /\ row'.owner = row.owner /\ row'.generation = row.generation
      BY <1>3, <2>2, TTLAssumption DEF HeartbeatRecheck, TypeOK, Row
    <3>2. QED
      BY <1>3, <2>1, <2>2, <3>1, ChangedTypes DEF HeartbeatRecheck, TypeOK, OwnedBy, Live
  <2>3. CASE ~OwnedBy(o)
    <3>1. beat' = [beat EXCEPT ![o] = IdleBeat] /\ row' = row /\ txn' = txn
      BY <1>3, <2>3 DEF HeartbeatRecheck
    <3>2. QED
      BY <1>3, <2>1, <3>1 DEF HeartbeatRecheck, TypeOK
  <2>4. QED
    BY <2>2, <2>3
<1>4. ASSUME NEW o \in Owner, HeartbeatApply(o) PROVE TypeOK'
  <2>1. [beat EXCEPT ![o] = IdleBeat] \in [Owner -> Beat]
    BY DEF TypeOK, Beat, IdleBeat
  <2>2. /\ row' \in Row /\ row'.owner = row.owner
        /\ row'.generation = row.generation /\ row'.status = row.status
    BY <1>4 DEF HeartbeatApply, TypeOK, Row, Beat
  <2>3. QED
    BY <1>4, <2>1, <2>2, ChangedTypes DEF HeartbeatApply, TypeOK
<1>5. ASSUME NEW o \in Owner, AssertScan(o) \/ AssertLock(o) \/ CommitFenced(o)
                              \/ AbortFenced(o)
      PROVE TypeOK'
  <2>1. txn' \in [Owner -> Txn]
    <3>1. \E t \in Txn : txn' = [txn EXCEPT ![o] = t]
      BY <1>5 DEF AssertScan, AssertLock, CommitFenced, AbortFenced, Txn, IdleTxn
    <3>2. QED
      BY <3>1 DEF TypeOK
  <2>2. UNCHANGED <<row, history, token, beat>> /\ committed' \in {committed, token[o]}
    BY <1>5 DEF AssertScan, AssertLock, CommitFenced, AbortFenced
  <2>3. QED
    BY <2>1, <2>2 DEF TypeOK
<1>6. ASSUME NEW o \in Owner, Crash(o) PROVE TypeOK'
  <2>1. token' \in [Owner -> Nat]
    BY <1>6 DEF Crash, TypeOK
  <2>2. beat' \in [Owner -> Beat]
    BY <1>6 DEF Crash, TypeOK, Beat, IdleBeat
  <2>3. txn' \in [Owner -> Txn]
    BY <1>6 DEF Crash, TypeOK, Txn, IdleTxn
  <2>4. QED
    BY <1>6, <2>1, <2>2, <2>3 DEF Crash, TypeOK
<1>7. ASSUME NEW o \in Owner, NEW outcome \in Outcome, Finish(o, outcome)
      PROVE TypeOK'
  <2>1. [txn EXCEPT ![o] = IdleTxn] \in [Owner -> Txn]
    BY DEF TypeOK, Txn, IdleTxn
  <2>2. row' \in Row /\ row'.status = outcome
    BY <1>7 DEF Finish, Ending, TypeOK, Row
  <2>3. history' \subseteq [generation : Nat \ {0}, owner : Owner, outcome : Outcome]
    BY <1>7 DEF Finish, Ending, Ended, OwnedBy, Live, TypeOK, Row, Outcome
  <2>4. QED
    BY <1>7, <2>1, <2>2, <2>3, ChangedTypes DEF Finish, Ending, TypeOK
<1>8. ASSUME Tick PROVE TypeOK'
  <2>1. row' \in Row /\ row'.owner = row.owner
        /\ row'.generation = row.generation /\ row'.status = row.status
    <3>1. row' = [row EXCEPT !.left = Sooner(row.left)]
      BY <1>8 DEF Tick
    <3>2. row.left \in Nat /\ Sooner(row.left) \in Nat
      BY DEF Sooner, TypeOK, Row
    <3>3. QED
      BY <3>1, <3>2 DEF TypeOK, Row
  <2>2. beat' \in [Owner -> Beat]
    BY <1>8 DEF Tick, Sooner, TypeOK, Beat
  <2>3. QED
    BY <1>8, <2>1, <2>2 DEF Tick, TypeOK
<1>9. ASSUME UNCHANGED vars PROVE TypeOK'
  BY <1>9 DEF vars, TypeOK
<1>10. QED
  BY <1>1, <1>2, <1>3, <1>4, <1>5, <1>6, <1>7, <1>8, <1>9 DEF Next, OwnerStep

-----------------------------------------------------------------------------
(* A step that leaves the row's owner, generation and status alone, records
   nothing and takes no lock keeps what relates statements to the row. *)
LEMMA FenceStep == Inv /\ [Next]_vars => LockedIsCurrent' /\ FreshIsCurrent' /\ NothingAhead'
<1> SUFFICES ASSUME Inv, [Next]_vars
             PROVE LockedIsCurrent' /\ FreshIsCurrent' /\ NothingAhead'
  OBVIOUS
<1> USE DEF Inv, LockedIsCurrent, FreshIsCurrent, NothingAhead
<1>0. TypeOK /\ TypeOK'
  BY TypeStep
<1>1. ASSUME NEW o \in Owner, NEW ttl \in TTL, Acquire(o, ttl)
      PROVE LockedIsCurrent' /\ FreshIsCurrent' /\ NothingAhead'
  <2>1. \A p \in Owner : txn'[p].phase # "locked" /\ ~txn'[p].fresh /\ ~beat'[p].fresh
    <3>1. Changed(beat, txn) /\ \A p \in Owner : txn[p].phase # "locked"
      BY <1>1 DEF Acquire, Abandoned, NextGeneration, Unlocked
    <3>2. QED
      BY <1>0, <3>1, ChangedTypes DEF TypeOK
  <2>2. row'.generation = row.generation + 1 /\ row.generation \in Nat
    BY <1>0, <1>1 DEF Acquire, Abandoned, NextGeneration, TypeOK, Row
  <2>3. \A p \in Owner : token'[p] <= row'.generation
    BY <1>0, <1>1, <2>2 DEF Acquire, Abandoned, NextGeneration, TypeOK
  <2>4. QED
    BY <1>0, <1>1, <2>1, <2>2, <2>3 DEF Acquire, Abandoned, NextGeneration, TypeOK
<1>2. ASSUME NEW o \in Owner, NEW ttl \in TTL, HeartbeatScan(o, ttl)
      PROVE LockedIsCurrent' /\ FreshIsCurrent' /\ NothingAhead'
  BY <1>0, <1>2 DEF HeartbeatScan, OwnedBy, Live, TypeOK
<1>3. ASSUME NEW o \in Owner, NEW ttl \in TTL, HeartbeatRecheck(o, ttl)
      PROVE LockedIsCurrent' /\ FreshIsCurrent' /\ NothingAhead'
  <2>1. [beat EXCEPT ![o] = IdleBeat] \in [Owner -> Beat]
    BY <1>0 DEF TypeOK, Beat, IdleBeat
  <2>2. CASE OwnedBy(o)
    <3>1. \A p \in Owner : txn'[p].phase # "locked" /\ ~txn'[p].fresh /\ ~beat'[p].fresh
      <4>1. /\ Changed([beat EXCEPT ![o] = IdleBeat], txn)
            /\ \A p \in Owner : txn[p].phase # "locked"
        BY <1>3, <2>2 DEF HeartbeatRecheck, Unlocked
      <4>2. txn \in [Owner -> Txn]
        BY <1>0 DEF TypeOK
      <4>3. \A p \in Owner : txn'[p].phase = txn[p].phase /\ ~txn'[p].fresh /\ ~beat'[p].fresh
        <5> DEFINE b == [beat EXCEPT ![o] = IdleBeat]
        <5>1. b \in [Owner -> Beat] /\ Changed(b, txn)
          BY <2>1, <4>1
        <5> HIDE DEF b
        <5> QED
          BY <4>2, <5>1, ChangedTypes
      <4>4. QED
        BY <4>1, <4>3
    <3>2. row'.generation = row.generation /\ UNCHANGED <<token, committed>>
      BY <1>0, <1>3, <2>2 DEF HeartbeatRecheck, TypeOK, Row
    <3>3. QED
      BY <3>1, <3>2
  <2>3. CASE ~OwnedBy(o)
    <3>1. /\ beat' = [beat EXCEPT ![o] = IdleBeat]
          /\ UNCHANGED <<row, txn, token, committed>>
      BY <1>3, <2>3 DEF HeartbeatRecheck
    <3>2. QED
      BY <1>0, <3>1 DEF TypeOK, Beat, IdleBeat
  <2>4. QED
    BY <2>2, <2>3
<1>4. ASSUME NEW o \in Owner, HeartbeatApply(o)
      PROVE LockedIsCurrent' /\ FreshIsCurrent' /\ NothingAhead'
  <2>1. [beat EXCEPT ![o] = IdleBeat] \in [Owner -> Beat]
    BY <1>0 DEF TypeOK, Beat, IdleBeat
  <2>2. \A p \in Owner : txn'[p].phase # "locked" /\ ~txn'[p].fresh /\ ~beat'[p].fresh
    <3>1. /\ Changed([beat EXCEPT ![o] = IdleBeat], txn)
          /\ \A p \in Owner : txn[p].phase # "locked"
      BY <1>4 DEF HeartbeatApply, Unlocked
    <3>2. txn \in [Owner -> Txn]
      BY <1>0 DEF TypeOK
    <3>3. \A p \in Owner : txn'[p].phase = txn[p].phase /\ ~txn'[p].fresh /\ ~beat'[p].fresh
      <4> DEFINE b == [beat EXCEPT ![o] = IdleBeat]
      <4>1. b \in [Owner -> Beat] /\ Changed(b, txn)
        BY <2>1, <3>1
      <4> HIDE DEF b
      <4> QED
        BY <3>2, <4>1, ChangedTypes
    <3>4. QED
      BY <3>1, <3>3
  <2>3. row'.generation = row.generation /\ UNCHANGED <<token, committed>>
    BY <1>0, <1>4 DEF HeartbeatApply, TypeOK, Row
  <2>4. QED
    BY <2>2, <2>3
<1>5. ASSUME NEW o \in Owner, AssertScan(o) \/ AbortFenced(o)
      PROVE LockedIsCurrent' /\ FreshIsCurrent' /\ NothingAhead'
  <2>1. CASE AssertScan(o)
    BY <1>0, <2>1 DEF AssertScan, OwnedBy, Live, TypeOK
  <2>2. CASE AbortFenced(o)
    BY <1>0, <2>2 DEF AbortFenced, TypeOK, IdleTxn
  <2>3. QED
    BY <1>5, <2>1, <2>2
<1>6. ASSUME NEW o \in Owner, AssertLock(o)
      PROVE LockedIsCurrent' /\ FreshIsCurrent' /\ NothingAhead'
  <2>1. UNCHANGED <<row, token, beat, committed>>
    BY <1>6 DEF AssertLock
  <2>2. \A p \in Owner : p # o => txn'[p] = txn[p] /\ txn[p].phase # "locked"
    BY <1>0, <1>6 DEF AssertLock, Unlocked, TypeOK
  <2>3. CASE txn[o].fresh \/ OwnedBy(o)
    <3>1. row.owner = o /\ row.generation = token[o] /\ row.status = "running"
      BY <1>6, <2>3 DEF AssertLock, StillOwned, OwnedBy, Live
    <3>2. txn'[o].phase = "locked" /\ ~txn'[o].fresh
      BY <1>0, <1>6, <2>3 DEF AssertLock, StillOwned, TypeOK
    <3>3. QED
      BY <2>1, <2>2, <3>1, <3>2
  <2>4. CASE ~(txn[o].fresh \/ OwnedBy(o))
    <3>1. txn'[o].phase = "idle"
      BY <1>0, <1>6, <2>4 DEF AssertLock, StillOwned, TypeOK, IdleTxn
    <3>2. QED
      BY <2>1, <2>2, <3>1
  <2>5. QED
    BY <2>3, <2>4
<1>7. ASSUME NEW o \in Owner, CommitFenced(o)
      PROVE LockedIsCurrent' /\ FreshIsCurrent' /\ NothingAhead'
  BY <1>0, <1>7 DEF CommitFenced, TypeOK, IdleTxn, Row
<1>8. ASSUME NEW o \in Owner, NEW outcome \in Outcome, Finish(o, outcome)
      PROVE LockedIsCurrent' /\ FreshIsCurrent' /\ NothingAhead'
  <2>1. [txn EXCEPT ![o] = IdleTxn] \in [Owner -> Txn]
    BY <1>0 DEF TypeOK, Txn, IdleTxn
  <2>2. \A p \in Owner : ~txn'[p].fresh /\ ~beat'[p].fresh
    BY <1>0, <1>8, <2>1, ChangedTypes DEF Finish, Ending, TypeOK
  <2>3. \A p \in Owner : txn'[p].phase # "locked"
    <3>1. Changed(beat, [txn EXCEPT ![o] = IdleTxn]) /\ txn[o].phase = "locked"
      BY <1>8 DEF Finish, Ending
    <3>2. \A p \in Owner : txn'[p].phase = [txn EXCEPT ![o] = IdleTxn][p].phase
      BY <2>1, <3>1 DEF Changed, Txn
    <3>3. \A p \in Owner : [txn EXCEPT ![o] = IdleTxn][p].phase # "locked"
      BY <1>0, <3>1 DEF TypeOK, IdleTxn
    <3>4. QED
      BY <3>2, <3>3
  <2>4. row'.generation = row.generation /\ token' = token /\ committed' = token[o]
    BY <1>0, <1>8 DEF Finish, Ending, TypeOK, Row
  <2>5. QED
    BY <2>2, <2>3, <2>4
<1>9. ASSUME NEW o \in Owner, Crash(o)
      PROVE LockedIsCurrent' /\ FreshIsCurrent' /\ NothingAhead'
  <2>1. /\ UNCHANGED <<row, committed>>
        /\ \A p \in Owner : p # o => UNCHANGED <<token[p], beat[p], txn[p]>>
    BY <1>0, <1>9 DEF Crash, TypeOK
  <2>2. token'[o] = 0 /\ txn'[o].phase = "idle" /\ beat'[o].phase = "idle"
    BY <1>0, <1>9 DEF Crash, TypeOK, IdleTxn, IdleBeat
  <2>3. row.generation \in Nat
    BY <1>0 DEF TypeOK, Row
  <2>4. LockedIsCurrent'
    BY <2>1, <2>2
  <2>5. FreshIsCurrent'
    BY <2>1, <2>2
  <2>6. NothingAhead'
    BY <2>1, <2>2, <2>3
  <2>7. QED
    BY <2>4, <2>5, <2>6
<1>10. ASSUME Tick
       PROVE LockedIsCurrent' /\ FreshIsCurrent' /\ NothingAhead'
  <2>1. /\ row'.owner = row.owner /\ row'.generation = row.generation
        /\ row'.status = row.status /\ UNCHANGED <<token, txn, committed>>
    BY <1>0, <1>10 DEF Tick, TypeOK, Row
  <2>2. \A p \in Owner : beat'[p].phase = beat[p].phase /\ beat'[p].fresh = beat[p].fresh
    BY <1>0, <1>10 DEF Tick, TypeOK, Beat
  <2>3. QED
    BY <2>1, <2>2
<1>11. ASSUME UNCHANGED vars
       PROVE LockedIsCurrent' /\ FreshIsCurrent' /\ NothingAhead'
  BY <1>11 DEF vars
<1>12. QED
  BY <1>1, <1>2, <1>3, <1>4, <1>5, <1>6, <1>7, <1>8, <1>9, <1>10, <1>11 DEF Next, OwnerStep

(* The history stays exact: acquire and finish end the running generation
   once, and no other step records an outcome or changes the generation. *)
LEMMA HistoryStep == Inv /\ [Next]_vars => HistoryExact'
<1> SUFFICES ASSUME Inv, [Next]_vars PROVE HistoryExact'
  OBVIOUS
<1> USE DEF Inv
<1>0. TypeOK /\ TypeOK' /\ row.generation \in Nat
  BY TypeStep DEF TypeOK, Row
<1>1. ASSUME NEW o \in Owner, NEW ttl \in TTL, Acquire(o, ttl) PROVE HistoryExact'
  <2>1. row'.generation = row.generation + 1 /\ row'.status = "running"
    BY <1>1 DEF Acquire, Abandoned, NextGeneration
  <2>2. CASE row.status = "running"
    <3>1. history' = history \cup {Ended("abandoned")}
      BY <1>1, <2>2 DEF Acquire, Abandoned, NextGeneration
    <3>2. Ended("abandoned").generation = row.generation /\ row.generation # 0
      BY <1>0, <2>2 DEF Ended, TypeOK
    <3>3. QED
      BY <1>0, <2>1, <2>2, <3>1, <3>2 DEF HistoryExact, TypeOK
  <2>3. CASE row.status # "running"
    BY <1>0, <1>1, <2>1, <2>3 DEF Acquire, Abandoned, NextGeneration, HistoryExact, TypeOK
  <2>4. QED
    BY <2>2, <2>3
<1>2. ASSUME NEW o \in Owner, NEW outcome \in Outcome, Finish(o, outcome)
      PROVE HistoryExact'
  <2>1. /\ row'.generation = row.generation /\ row'.status # "running"
        /\ history' = history \cup {Ended(outcome)} /\ row.status = "running"
    BY <1>0, <1>2 DEF Finish, Ending, OwnedBy, Live, TypeOK, Row
  <2>2. Ended(outcome).generation = row.generation
    BY DEF Ended
  <2>3. QED
    BY <1>0, <2>1, <2>2 DEF HistoryExact, TypeOK
<1>3. ASSUME \/ Tick \/ UNCHANGED vars
             \/ \E o \in Owner :
                  \/ \E ttl \in TTL : HeartbeatScan(o, ttl) \/ HeartbeatRecheck(o, ttl)
                  \/ HeartbeatApply(o) \/ AssertScan(o) \/ AssertLock(o)
                  \/ CommitFenced(o) \/ AbortFenced(o) \/ Crash(o)
      PROVE HistoryExact'
  <2>1. /\ row'.generation = row.generation /\ row'.status = row.status
        /\ history' = history
    BY <1>0, <1>3 DEF Tick, vars, HeartbeatScan, HeartbeatRecheck, HeartbeatApply, AssertScan,
       AssertLock, CommitFenced, AbortFenced, Crash, TypeOK, Row
  <2>2. QED
    BY <2>1 DEF HistoryExact
<1>4. QED
  BY <1>1, <1>2, <1>3 DEF Next, OwnerStep

-----------------------------------------------------------------------------
(* The inductive invariant holds in every state the pipeline can reach. *)
THEOREM Invariance == Spec => []Inv
<1>1. Inv /\ [Next]_vars => Inv'
  BY TypeStep, FenceStep, HistoryStep DEF Inv
<1>2. QED
  BY InitInv, <1>1, PTL DEF Spec

(* The variables keep their types, for any owners and lease lengths. *)
THEOREM TypeCorrect == Spec => []TypeOK
BY Invariance, PTL DEF Inv

(* pipeline_lease_history has one outcome for each ended generation and none
   for a running one, whatever the owners, takeovers and crashes. *)
THEOREM HistoryIsExact == Spec => []HistoryExact
BY Invariance, PTL DEF Inv

(* A transaction that passed assert_owned keeps the current generation until
   it ends, even past the expiry of its lease. *)
THEOREM FenceHolds == Spec => []LockedIsCurrent
BY Invariance, PTL DEF Inv

(* A superseded owner's fenced work never commits: commits are made by the
   current generation and their generations only grow. *)
THEOREM FencedCommits == Spec => NoStaleCommit
<1>1. Inv /\ [Next]_vars
        => [committed' # committed => /\ committed' = row.generation
                                      /\ committed < committed']_vars
  <2> SUFFICES ASSUME Inv, Next, committed' # committed
               PROVE committed' = row.generation /\ committed < committed'
    OBVIOUS
  <2>1. row.generation \in Nat /\ committed \in Nat /\ committed <= row.generation
    BY DEF Inv, TypeOK, Row, NothingAhead
  <2>2. PICK o \in Owner : CommitFenced(o) \/ \E outcome \in Outcome :
                                                Finish(o, outcome)
    BY DEF Next, OwnerStep, Tick, Acquire, HeartbeatScan, HeartbeatRecheck, HeartbeatApply,
           AssertScan, AssertLock, AbortFenced, Crash
  <2>3. txn[o].phase = "locked" /\ committed' = token[o]
    BY <2>2 DEF CommitFenced, Finish
  <2>4. committed' = row.generation
    BY <2>3 DEF Inv, LockedIsCurrent
  <2>5. QED
    BY <2>1, <2>4
<1>2. QED
  BY <1>1, Invariance, PTL DEF Spec, NoStaleCommit

-----------------------------------------------------------------------------
(* What a step is for LeaseRecord: acquire begins a generation, finish ends one,
   the commit of a fenced transaction publishes, and the rest is nothing. *)
LEMMA RecordStep ==
  Inv /\ [Next]_vars => [Kept!Next]_<<row.generation, Holder, history, committed>>
<1> SUFFICES ASSUME Inv, [Next]_vars
             PROVE  Kept!Next \/ UNCHANGED <<row.generation, Holder, history, committed>>
  OBVIOUS
<1>1. /\ row \in Row /\ NoOwner \notin Owner
      /\ row.status = "running" => row.owner \in Owner
      /\ \A o \in Owner : txn[o].phase = "locked" =>
           row.owner = o /\ row.generation = token[o] /\ row.status = "running"
  BY NoOwnerAssumption DEF Inv, TypeOK, LockedIsCurrent
<1>2. ASSUME NEW o \in Owner, NEW ttl \in TTL, Acquire(o, ttl) PROVE Kept!Begin(o)
  <2>1. row'.generation = row.generation + 1 /\ Holder' = o /\ UNCHANGED committed
    BY <1>2 DEF Acquire, NextGeneration, Holder
  <2>2. history' = history \cup (IF Holder = NoOwner THEN {} ELSE {Kept!Entry("abandoned")})
    BY <1>1, <1>2 DEF Acquire, Abandoned, Ended, Holder, Kept!Entry
  <2> QED
    BY <2>1, <2>2 DEF Kept!Begin
<1>3. ASSUME NEW o \in Owner, NEW outcome \in Outcome, Finish(o, outcome)
      PROVE  outcome \in {"completed", "failed"} /\ Kept!End(outcome)
  <2>1. outcome \in {"completed", "failed"} /\ Holder = row.owner /\ Holder # NoOwner
    BY <1>1, <1>3 DEF Finish, Ending, Holder
  <2>2. row'.generation = row.generation /\ Holder' = NoOwner /\ committed' = row.generation
    BY <1>1, <1>3, <2>1 DEF Finish, Holder, Row
  <2>3. history' = history \cup {Kept!Entry(outcome)}
    BY <1>3, <2>1 DEF Finish, Ended, Kept!Entry
  <2> QED
    BY <2>1, <2>2, <2>3 DEF Kept!End
<1>4. ASSUME NEW o \in Owner, CommitFenced(o) PROVE Kept!Publish
  <2>1. Holder # NoOwner /\ committed' = row.generation /\ UNCHANGED <<row, history>>
    BY <1>1, <1>4 DEF CommitFenced, Holder
  <2> QED
    BY <2>1 DEF Kept!Publish, Holder
<1>5. ASSUME \/ Tick \/ UNCHANGED vars
             \/ \E o \in Owner :
                  \/ \E ttl \in TTL : HeartbeatScan(o, ttl) \/ HeartbeatRecheck(o, ttl)
                  \/ HeartbeatApply(o) \/ AssertScan(o) \/ AssertLock(o)
                  \/ AbortFenced(o) \/ Crash(o)
      PROVE  UNCHANGED <<row.generation, Holder, history, committed>>
  <2>1. /\ row'.owner = row.owner /\ row'.generation = row.generation /\ row'.status = row.status
        /\ UNCHANGED <<history, committed>>
    BY <1>1, <1>5 DEF Tick, vars, HeartbeatScan, HeartbeatRecheck, HeartbeatApply, AssertScan,
       AssertLock, AbortFenced, Crash, Row
  <2> QED
    BY <2>1 DEF Holder
<1> QED
  BY <1>2, <1>3, <1>4, <1>5 DEF Next, OwnerStep, Kept!Next

(* The lease implements the record of generations its callers rely on, for any
   owners, lease lengths, waits and crashes. *)
THEOREM RecordKept == Spec => ImplementsRecord
<1>1. Init => Kept!Init
  BY DEF Init, NoRow, Kept!Init, Holder
<1> QED
  BY <1>1, RecordStep, Invariance, PTL DEF Spec, ImplementsRecord, Kept!Spec

-----------------------------------------------------------------------------
(* The safety under OrphanLapses: a lease whose owner lost its token only runs
   down.  Nobody extends it, a heartbeat that still waits included, nobody takes
   it over while it is live, and each tick of the database's clock shortens it. *)
RunsDown ==
  [][Orphaned /\ Live => /\ Orphaned' /\ row'.generation = row.generation
                         /\ row'.left <= row.left
                         /\ Tick => row'.left < row.left]_vars

(* An orphaned lease that is live gets shorter until it has lapsed, for any number
   of other owners and whatever they try meanwhile (pipeline_lease.py, lines
   29, 52-59). *)
THEOREM OrphansRunDown == Spec => RunsDown
<1>1. Inv /\ [Next]_vars => [Orphaned /\ Live => /\ Orphaned' /\ row'.generation = row.generation
                                                 /\ row'.left <= row.left
                                                 /\ Tick => row'.left < row.left]_vars
  <2> SUFFICES ASSUME Inv, Next, Orphaned, Live
               PROVE  /\ Orphaned' /\ row'.generation = row.generation
                      /\ row'.left <= row.left
                      /\ Tick => row'.left < row.left
    OBVIOUS
  <2>1. /\ row \in Row /\ row.owner \in Owner /\ row.generation # 0 /\ row.left \in Nat /\ row.left > 0
        /\ row.status = "running" /\ token \in [Owner -> Nat] /\ token[row.owner] # row.generation
    BY DEF Inv, TypeOK, Row, Orphaned, Live
  <2>2. \A o \in Owner : ~OwnedBy(o)
    BY <2>1 DEF OwnedBy
  <2>3. \A o \in Owner : /\ txn[o].phase # "locked"
                         /\ ~(beat[o].phase = "waiting" /\ beat[o].fresh)
    BY <2>1 DEF Inv, LockedIsCurrent, FreshIsCurrent
  <2>4. CASE Tick
    <3>1. row' = [row EXCEPT !.left = row.left - 1] /\ token' = token
      BY <2>1, <2>4 DEF Tick, Sooner
    <3> QED
      BY <2>1, <3>1 DEF Orphaned, Row
  <2>5. CASE \E o \in Owner : OwnerStep(o)
    <3> PICK o \in Owner : OwnerStep(o)
      BY <2>5
    <3>1. row' = row
      BY <2>2, <2>3 DEF OwnerStep, Acquire, HeartbeatScan, HeartbeatRecheck, HeartbeatApply, AssertScan,
         AssertLock, CommitFenced, AbortFenced, Finish, Crash
    <3>2. token' = token \/ token' = [token EXCEPT ![o] = 0]
      BY DEF OwnerStep, Acquire, HeartbeatScan, HeartbeatRecheck, HeartbeatApply, AssertScan,
         AssertLock, CommitFenced, AbortFenced, Finish, Crash
    <3>3. Orphaned'
      BY <2>1, <3>1, <3>2 DEF Orphaned
    <3>4. ~Tick
      <4>1. Tick => row'.left < row.left
        BY <2>1 DEF Tick, Sooner, Row
      <4> QED
        BY <2>1, <3>1, <4>1
    <3> QED
      BY <2>1, <3>1, <3>3, <3>4
  <2> QED
    BY <2>4, <2>5 DEF Next
<1> QED
  BY <1>1, Invariance, PTL DEF Spec, RunsDown
=============================================================================
