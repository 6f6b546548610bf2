---------------------------- MODULE SnapshotReads ----------------------------
(***************************************************************************)
(* Transaction visibility of the bitemporal warehouse:                     *)
(* scanner/consumer_snapshot.py, scanner/catalogue_snapshot.py, the point  *)
(* in time reads of scanner/bitemporal_warehouse.py, and the triggers of   *)
(* sql/006 and sql/007.                                                    *)
(*                                                                         *)
(* Writers append observations and catalogue revisions in transactions of  *)
(* their own, stamped with the transaction's id.  The warehouse gate       *)
(* captures a boundary, that is a time and a database snapshot, and        *)
(* freezes the universe in the same transaction.  Every stage of the run   *)
(* then reads "at the boundary" while the writers go on.                   *)
(***************************************************************************)
EXTENDS Integers

CONSTANTS
  Writer,      \* connections that ingest
  Instrument,  \* instrument ids
  Symbol,      \* canonical symbols
  Universe,    \* payloads of the live_universe dataset
  Capture,     \* executions of the warehouse gate
  None,        \* no symbol (a deleted instrument), no universe yet
  MaxXid,      \* bound: transactions that write
  MaxRow,      \* bound: rows that are written
  MaxClock     \* bound: the server's clock

ASSUME NoneAssumption == None \notin Symbol /\ None \notin Universe
ASSUME BoundAssumption == MaxXid \in Nat /\ MaxRow \in Nat /\ MaxClock \in Nat
\* The migration stamps the rows it finds with its own transaction id, 0 here.
Xid == 0..MaxXid

VARIABLES
  clock,        \* the server's clock
  tx,           \* tx[w]: the id of the writer's open transaction, 0 without one
  nextXid,      \* the next transaction id
  nextRow,      \* the next value of the tables' sequences
  fate,         \* fate[x]: "unused", "open", "committed", "aborted"
  observation,  \* rows of market_observation
  revision,     \* rows of instrument_catalogue_revision
  universe,     \* the run's live_universe dataset, as committed
  phase,        \* phase[c]: where the gate's transaction is
  boundary,     \* boundary[c]: [at, low, high, active], the run's pinned boundary
  view,         \* view[c]: the universe in the transaction's own snapshot
  frozen,       \* frozen_catalogue's copy
  shown         \* history: what the database showed the capturing transaction

stored == <<observation, revision>>
captures == <<phase, boundary, view, frozen, shown>>
ids == <<tx, nextXid, nextRow, fate>>
vars == <<clock, ids, stored, universe, captures>>

Fate == {"unused", "open", "committed", "aborted"}
Id == 1..MaxRow
Observation == [id : Id, xid : Xid, inst : Instrument, at : 0..MaxClock]
Revision == [id : 0..MaxRow, xid : Xid, inst : Instrument, symbol : Symbol \cup {None},
             at : 0..MaxClock]
Boundary == [at : 0..MaxClock, low : 1..(MaxXid + 1), high : 1..(MaxXid + 1),
             active : SUBSET Xid]
Shown == [rows : SUBSET (Symbol \X Observation), universe : Universe \cup {None}]

TypeOK ==
  /\ clock \in 0..MaxClock
  /\ tx \in [Writer -> Xid]
  /\ nextXid \in 1..(MaxXid + 1)
  /\ nextRow \in 1..(MaxRow + 1)
  /\ fate \in [Xid -> Fate]
  /\ observation \subseteq Observation
  /\ revision \subseteq Revision
  /\ universe \in Universe
  /\ phase \in [Capture -> {"idle", "stated", "pinned", "frozen"}]
  /\ boundary \in [Capture -> Boundary]
  /\ view \in [Capture -> Universe \cup {None}]
  /\ frozen \in [Capture -> Universe \cup {None}]
  /\ shown \in [Capture -> Shown]
  /\ \A c \in Capture : frozen[c] # None <=> phase[c] = "frozen"

Blank == [at |-> 0, low |-> 1, high |-> 1, active |-> {}]

\* Some instruments are known since the migration, under any symbols.
Init ==
  /\ clock = 0
  /\ tx = [w \in Writer |-> 0]
  /\ nextXid = 1
  /\ nextRow = 1
  /\ fate = [x \in Xid |-> IF x = 0 THEN "committed" ELSE "unused"]
  /\ observation = {}
  /\ \E known \in SUBSET Instrument, name \in [Instrument -> Symbol] :
       revision = {[id |-> 0, xid |-> 0, inst |-> i, symbol |-> name[i], at |-> 0] : i \in known}
  /\ universe \in Universe
  /\ phase = [c \in Capture |-> "idle"]
  /\ boundary = [c \in Capture |-> Blank]
  /\ view = [c \in Capture |-> None]
  /\ frozen = [c \in Capture |-> None]
  /\ shown = [c \in Capture |-> [rows |-> {}, universe |-> None]]

-----------------------------------------------------------------------------
\* pg_current_xact_id: the transaction's id, assigned at its first write.
IdOf(w) == IF tx[w] = 0 THEN nextXid ELSE tx[w]

\* w's transaction writes a row, and takes an id if it has none.
Writes(w) ==
  /\ IdOf(w) <= MaxXid
  /\ nextRow <= MaxRow
  /\ tx' = [tx EXCEPT ![w] = IdOf(w)]
  /\ nextXid' = IF tx[w] = 0 THEN nextXid + 1 ELSE nextXid
  /\ nextRow' = nextRow + 1
  /\ fate' = [fate EXCEPT ![IdOf(w)] = "open"]

\* The revisions of an instrument that w's own statements see.
SeenBy(w, i) == {r \in revision : /\ r.inst = i
                                  /\ fate[r.xid] = "committed" \/ (tx[w] # 0 /\ r.xid = tx[w])}
LastOf(R) == CHOOSE r \in R : \A s \in R : s.id <= r.id
Exists(w, i) == SeenBy(w, i) # {} /\ LastOf(SeenBy(w, i)).symbol # None
\* Row locks: another open transaction wrote the instrument.  Foreign key: rows
\* refer to it.
WrittenByOther(w, i) ==
  \E r \in revision : r.inst = i /\ fate[r.xid] = "open" /\ r.xid # tx[w]
Referenced(i) == \E o \in observation : o.inst = i /\ fate[o.xid] # "aborted"

\* ingest_observations appends a version; its time is the fetch's, not the commit's.
Observe(w, i, at) ==
  /\ Writes(w)
  /\ Exists(w, i)
  /\ ~\E r \in revision : r.inst = i /\ r.symbol = None /\ fate[r.xid] = "open"
  /\ at <= clock
  /\ observation' = observation \cup {[id |-> nextRow, xid |-> IdOf(w), inst |-> i, at |-> at]}
  /\ UNCHANGED <<clock, revision, universe, captures>>

\* instrument is inserted, renamed or deleted: its trigger appends a revision.
Revise(w, i, symbol) ==
  /\ Writes(w)
  /\ ~WrittenByOther(w, i)
  /\ SeenBy(w, i) # {} => Exists(w, i)
  /\ symbol = None => Exists(w, i) /\ ~Referenced(i)
  /\ revision' = revision \cup {[id |-> nextRow, xid |-> IdOf(w), inst |-> i,
                                 symbol |-> symbol, at |-> clock]}
  /\ UNCHANGED <<clock, observation, universe, captures>>

\* A writer's transaction ends; a failed one leaves no visible row.
End(w, how) ==
  /\ tx[w] # 0
  /\ fate' = [fate EXCEPT ![tx[w]] = how]
  /\ tx' = [tx EXCEPT ![w] = 0]
  /\ UNCHANGED <<clock, nextXid, nextRow, stored, universe, captures>>

\* write_dataset replaces the run's universe while the gate runs.
Rewrite(u) ==
  /\ u # universe
  /\ universe' = u
  /\ UNCHANGED <<clock, ids, stored, captures>>

Tick ==
  /\ clock < MaxClock
  /\ clock' = clock + 1
  /\ UNCHANGED <<ids, stored, universe, captures>>

-----------------------------------------------------------------------------
AnyXid(x, c) == TRUE
\* pg_visible_in_snapshot(x, snapshot): x had ended when the snapshot was taken.
InSnapshot(x, c) ==
  \/ x < boundary[c].low
  \/ x < boundary[c].high /\ x \notin boundary[c].active

\* What a read at the boundary may use: the time filter and the visibility clause.
Seen(R, c) == {r \in R : /\ r.at <= boundary[c].at
                         /\ fate[r.xid] = "committed"
                         /\ InSnapshot(r.xid, c)}

\* ORDER BY ingested_at DESC, observation_id DESC; revision_id DESC.
Before(o, p) == o.at < p.at \/ (o.at = p.at /\ o.id < p.id)
Newest(O) == {o \in O : \A p \in O : p.inst = o.inst => p = o \/ Before(p, o)}
Current(C) == {c \in C : \A d \in C : d.inst = c.inst => d.id <= c.id}

\* point_in_time: the newest version of each visible instrument's bar, under the
\* instrument's visible symbol.
Read(O, C) == {p \in Symbol \X Newest(O) :
                 \E c \in Current(C) : c.symbol = p[1] /\ c.inst = p[2].inst}
PinnedRead(c) == Read(Seen(observation, c), Seen(revision, c))

\* capture_boundary's statement arrives: statement_timestamp.
State(c) ==
  /\ phase[c] = "idle"
  /\ phase' = [phase EXCEPT ![c] = "stated"]
  /\ boundary' = [boundary EXCEPT ![c].at = clock]
  /\ UNCHANGED <<clock, ids, stored, universe, view, frozen, shown>>

Open == {x \in Xid : fate[x] = "open"}
\* The least id still open, or the next one.
IsLow(x) == (x \in Open \/ (Open = {} /\ x = nextXid)) /\ \A y \in Open : x <= y

\* The rows a statement of this moment sees, up to the boundary's time.
Now(R, c) == {r \in R : r.at <= boundary[c].at /\ fate[r.xid] = "committed"}

\* The REPEATABLE READ snapshot is taken and pg_current_snapshot reports it.
Pin(c) ==
  /\ phase[c] = "stated"
  /\ phase' = [phase EXCEPT ![c] = "pinned"]
  /\ \E x \in 1..(MaxXid + 1) :
       /\ IsLow(x)
       /\ boundary' = [boundary EXCEPT ![c].low = x, ![c].high = nextXid, ![c].active = Open]
  /\ view' = [view EXCEPT ![c] = universe]
  /\ shown' = [shown EXCEPT ![c] = [rows |-> Read(Now(observation, c), Now(revision, c)),
                                    universe |-> universe]]
  /\ UNCHANGED <<clock, ids, stored, universe, frozen>>

\* What a later statement of the capturing transaction reads.
UniverseIn(c) == view[c]

\* freeze_catalogues copies the universe in the same transaction, which commits.
Freeze(c) ==
  /\ phase[c] = "pinned"
  /\ phase' = [phase EXCEPT ![c] = "frozen"]
  /\ frozen' = [frozen EXCEPT ![c] = UniverseIn(c)]
  /\ UNCHANGED <<clock, ids, stored, universe, boundary, view, shown>>

Next ==
  \/ Tick
  \/ \E w \in Writer, i \in Instrument :
       \/ \E at \in 0..MaxClock : Observe(w, i, at)
       \/ \E symbol \in Symbol \cup {None} : Revise(w, i, symbol)
  \/ \E w \in Writer, how \in {"committed", "aborted"} : End(w, how)
  \/ \E u \in Universe : Rewrite(u)
  \/ \E c \in Capture : State(c) \/ Pin(c) \/ Freeze(c)

Spec == Init /\ [][Next]_vars

-----------------------------------------------------------------------------
(* A read at the boundary returns, whenever it runs, exactly what the database
   showed the transaction that captured the boundary: writers that were open
   then, late commits, renames and corrections cannot change it. *)
ReplaysCapture ==
  \A c \in Capture : phase[c] \in {"pinned", "frozen"} => PinnedRead(c) = shown[c].rows

(* The frozen universe belongs to the boundary it is stored under, although a
   universe may be rewritten between the capture and the copy. *)
FrozenAtBoundary ==
  \A c \in Capture : phase[c] = "frozen" => frozen[c] = shown[c].universe
=============================================================================
