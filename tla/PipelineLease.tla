--------------------------- MODULE PipelineLease ---------------------------
(***************************************************************************)
(* Recovery ownership of one pipeline scope (scanner/pipeline_lease.py,    *)
(* sql/003_pipeline_lease.sql).                                           *)
(*                                                                         *)
(* The table row of the scope names an owner, a generation and an expiry.  *)
(* `acquire' replaces a row that is not running or has expired, `heartbeat'*)
(* extends it, and the owner's worker calls `assert_owned' on the cursor   *)
(* of the transaction that publishes, or `finish' to end the lease.        *)
(*                                                                         *)
(* Time is the database's: the row keeps the time LEFT until expires_at    *)
(* and Tick lets one unit of it pass.                                      *)
(*                                                                         *)
(* PostgreSQL (READ COMMITTED) evaluates the WHERE clause and the SET list *)
(* of an UPDATE, and the WHERE clause of a SELECT ... FOR UPDATE, before   *)
(* it waits for the row's lock.  They are evaluated again only if a        *)
(* transaction CHANGED the row during the wait.  So `heartbeat' and        *)
(* `assert_owned' are two steps each: a scan, and the effect once the row  *)
(* is free.  `fresh' says that the row scanned is still the current one.   *)
(***************************************************************************)
EXTENDS Integers, FiniteSets

CONSTANTS
  Owner,          \* owner identities (one supervisor and one worker each)
  NoOwner,        \* the owner column of the absent row
  TTL,            \* the lease lengths callers ask for, in clock units
  MaxGeneration   \* bound: generations the model lets `acquire' hand out

ASSUME NoOwnerAssumption == NoOwner \notin Owner
ASSUME TTLAssumption == TTL \subseteq Nat \ {0}
ASSUME MaxGenerationAssumption == MaxGeneration \in Nat

VARIABLES
  row,        \* the pipeline_lease row of the scope (generation 0: no row)
  history,    \* pipeline_lease_history: records of ended generations
  token,      \* generation of the Lease object each owner holds (0: none)
  beat,       \* each owner's heartbeat statement
  txn,        \* each owner's fenced transaction
  committed   \* generation whose fenced work committed last (0: none)

vars == <<row, history, token, beat, txn, committed>>

Outcome == {"completed", "failed", "abandoned"}
NoRow == [owner |-> NoOwner, generation |-> 0, status |-> "failed", left |-> 0]
Row == [owner : Owner \cup {NoOwner}, generation : Nat,
        status : {"running", "completed", "failed"}, left : Nat]

Beat == [phase : {"idle", "waiting"}, left : Nat, fresh : BOOLEAN]
Txn == [phase : {"idle", "waiting", "locked"}, fresh : BOOLEAN]
IdleBeat == [phase |-> "idle", left |-> 0, fresh |-> FALSE]
IdleTxn == [phase |-> "idle", fresh |-> FALSE]

TypeOK ==
  /\ row \in Row
  /\ row.status = "running" => row.owner \in Owner /\ row.generation # 0
  /\ history \subseteq [generation : Nat \ {0}, owner : Owner, outcome : Outcome]
  /\ token \in [Owner -> Nat]
  /\ beat \in [Owner -> Beat]
  /\ txn \in [Owner -> Txn]
  /\ committed \in Nat

-----------------------------------------------------------------------------

\* The row is locked by the fenced transaction that passed assert_owned.
Unlocked == \A o \in Owner : txn[o].phase # "locked"

\* status = 'running' AND expires_at > clock_timestamp()
Live == row.status = "running" /\ row.left > 0

\* Forms with a slip in them, each the mutation of the definition after it.
OwnedByScope(o) == token[o] # 0 /\ Live

\* The WHERE clause of heartbeat and assert_owned for the token of o.
OwnedBy(o) ==
  /\ token[o] # 0
  /\ row.generation = token[o]
  /\ row.owner = o
  /\ Live

Ended(outcome) ==
  [generation |-> row.generation, owner |-> row.owner, outcome |-> outcome]

\* What acquire adds to the history for the row it replaces.
Abandoned == IF row.status = "running" THEN {Ended("abandoned")} ELSE {}

\* The generation acquire hands out.
NextGeneration == row.generation + 1

\* The outcomes finish accepts.
Ending == {"completed", "failed"}

\* What assert_owned relies on once the row's lock is its own.
LockIsEnough(o) == TRUE
StillOwned(o) == txn[o].fresh \/ OwnedBy(o)

\* A committed change of the row: waiting statements must re-evaluate it.
Changed(b, t) ==
  /\ beat' = [o \in Owner |-> [b[o] EXCEPT !.fresh = FALSE]]
  /\ txn' = [o \in Owner |-> [t[o] EXCEPT !.fresh = FALSE]]

Init ==
  /\ row = NoRow
  /\ history = {}
  /\ token = [o \in Owner |-> 0]
  /\ beat = [o \in Owner |-> IdleBeat]
  /\ txn = [o \in Owner |-> IdleTxn]
  /\ committed = 0

\* acquire: refused (None) while the row is live, which changes nothing; so is
\* a refusal on a row scanned live that expired during the wait for its lock.
Acquire(o, ttl) ==
  /\ Unlocked
  /\ ~Live
  /\ row.generation < MaxGeneration
  /\ history' = history \cup Abandoned
  /\ row' = [owner |-> o, generation |-> NextGeneration,
             status |-> "running", left |-> ttl]
  /\ token' = [token EXCEPT ![o] = NextGeneration]
  /\ Changed(beat, txn)
  /\ UNCHANGED committed

\* heartbeat: the UPDATE finds the row and computes its new expires_at.
HeartbeatScan(o, ttl) ==
  /\ beat[o].phase = "idle"
  /\ OwnedBy(o)
  /\ beat' = [beat EXCEPT ![o] = [phase |-> "waiting", left |-> ttl, fresh |-> TRUE]]
  /\ UNCHANGED <<row, history, token, txn, committed>>

\* The UPDATE gets the row unchanged: nothing is evaluated again.
HeartbeatApply(o) ==
  /\ beat[o].phase = "waiting"
  /\ beat[o].fresh
  /\ Unlocked
  /\ row' = [row EXCEPT !.left = beat[o].left]
  /\ Changed([beat EXCEPT ![o] = IdleBeat], txn)
  /\ UNCHANGED <<history, token, committed>>

\* The row changed during the wait: re-evaluate, then extend or LEASE_LOST.
HeartbeatRecheck(o, ttl) ==
  /\ beat[o].phase = "waiting"
  /\ ~beat[o].fresh
  /\ Unlocked
  /\ \/ /\ OwnedBy(o)
        /\ row' = [row EXCEPT !.left = ttl]
        /\ Changed([beat EXCEPT ![o] = IdleBeat], txn)
     \/ /\ ~OwnedBy(o)
        /\ beat' = [beat EXCEPT ![o] = IdleBeat]
        /\ UNCHANGED <<row, txn>>
  /\ UNCHANGED <<history, token, committed>>

\* assert_owned: the SELECT ... FOR UPDATE finds the row.
AssertScan(o) ==
  /\ txn[o].phase = "idle"
  /\ OwnedBy(o)
  /\ txn' = [txn EXCEPT ![o] = [phase |-> "waiting", fresh |-> TRUE]]
  /\ UNCHANGED <<row, history, token, beat, committed>>

\* assert_owned: the row is locked, or PIPELINE_LEASE_LOST aborts the caller.
AssertLock(o) ==
  /\ txn[o].phase = "waiting"
  /\ Unlocked
  /\ txn' = [txn EXCEPT ![o] =
               IF StillOwned(o)
               THEN [phase |-> "locked", fresh |-> FALSE] ELSE IdleTxn]
  /\ UNCHANGED <<row, history, token, beat, committed>>

\* The caller's transaction commits its publication under the row lock.
CommitFenced(o) ==
  /\ txn[o].phase = "locked"
  /\ txn' = [txn EXCEPT ![o] = IdleTxn]
  /\ committed' = token[o]
  /\ UNCHANGED <<row, history, token, beat>>

\* finish: asserts ownership again, records the outcome, ends the lease.
Finish(o, outcome) ==
  /\ outcome \in Ending
  /\ txn[o].phase = "locked"
  /\ OwnedBy(o)
  /\ history' = history \cup {Ended(outcome)}
  /\ row' = [row EXCEPT !.status = outcome]
  /\ Changed(beat, [txn EXCEPT ![o] = IdleTxn])
  /\ committed' = token[o]
  /\ UNCHANGED token

\* The caller's transaction rolls back (an error, or finish found it expired).
AbortFenced(o) ==
  /\ txn[o].phase # "idle"
  /\ txn' = [txn EXCEPT ![o] = IdleTxn]
  /\ UNCHANGED <<row, history, token, beat, committed>>

\* The owner's process dies: its sessions close, its Lease object is gone.
Crash(o) ==
  /\ token[o] # 0
  /\ token' = [token EXCEPT ![o] = 0]
  /\ beat' = [beat EXCEPT ![o] = IdleBeat]
  /\ txn' = [txn EXCEPT ![o] = IdleTxn]
  /\ UNCHANGED <<row, history, committed>>

Sooner(n) == IF n > 0 THEN n - 1 ELSE 0

\* The database clock moves; an expiry computed earlier comes closer too.
Tick ==
  /\ row.left > 0 \/ \E o \in Owner : beat[o].left > 0
  /\ row' = [row EXCEPT !.left = Sooner(row.left)]
  /\ beat' = [o \in Owner |-> [beat[o] EXCEPT !.left = Sooner(beat[o].left)]]
  /\ UNCHANGED <<history, token, txn, committed>>

OwnerStep(o) ==
  \/ \E ttl \in TTL : Acquire(o, ttl) \/ HeartbeatScan(o, ttl) \/ HeartbeatRecheck(o, ttl)
  \/ HeartbeatApply(o)
  \/ AssertScan(o) \/ AssertLock(o)
  \/ CommitFenced(o) \/ AbortFenced(o)
  \/ \E outcome \in Outcome : Finish(o, outcome)
  \/ Crash(o)

Next == Tick \/ \E o \in Owner : OwnerStep(o)

Spec == Init /\ [][Next]_vars
\* Only the database clock is certain to move.
FairSpec == Spec /\ WF_vars(Tick)

-----------------------------------------------------------------------------
(* Every ended generation has exactly one outcome in pipeline_lease_history,
   and the current one has none before it ends: acquire, finish and the
   primary key of the history table agree on who ended what. *)
HistoryExact ==
  /\ \A g \in 1..row.generation :
       IF g = row.generation /\ row.status = "running"
       THEN \A h \in history : h.generation # g
       ELSE \E h \in history : h.generation = g
                            /\ \A k \in history : k.generation = g => k = h
  /\ \A h \in history : h.generation <= row.generation

(* A transaction that passed assert_owned holds the lease of the current
   generation until it ends: nobody took over, even if the lease expired
   meanwhile (acquire waits on the row lock that assert_owned took). *)
LockedIsCurrent ==
  \A o \in Owner : txn[o].phase = "locked" =>
    /\ row.owner = o /\ row.generation = token[o] /\ row.status = "running"
    /\ \A p \in Owner : txn[p].phase = "locked" => p = o

(* Fenced work commits in generation order, and only for the generation that
   is current at the commit: a superseded owner publishes nothing. *)
NoStaleCommit ==
  [][committed' # committed => /\ committed' = row.generation
                               /\ committed < committed']_vars

Holder == IF row.status = "running" THEN row.owner ELSE NoOwner

Kept == INSTANCE LeaseRecord
  WITH Nobody <- NoOwner, generation <- row.generation, holder <- Holder,
       record <- history, published <- committed

(* Seen without clocks, locks, waits and crashes, the scope is a record of
   generations that follow one another, of which only the held one publishes
   (pipeline_lease.py, lines 52-73): whatever a statement checked before it
   waited, it takes effect for the generation that is then current. *)
ImplementsRecord == Kept!Spec

(* The lease of an owner that lost its token (its process died) stops
   blocking `acquire': the scope is never stuck with a dead owner. *)
Orphaned == row.status = "running" /\ token[row.owner] # row.generation
OrphanLapses == Orphaned ~> ~Live

=============================================================================
