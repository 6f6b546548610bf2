---------------------------- MODULE BoundaryProofs ----------------------------
(***************************************************************************)
(* Proofs about reads at a boundary.  For any writers, instruments,        *)
(* symbols and captures, and any number of transactions and rows: a read   *)
(* at a boundary replays what the capturing transaction saw, and the       *)
(* frozen universe is the boundary's.  For any writers, tickers and events *)
(* of a catalyst provider: its locks, its revisions and the answers about  *)
(* it at a boundary.                                                       *)
(***************************************************************************)
EXTENDS SnapshotReads, CatalystWarehouse, TLAPS, WellFoundedInduction, FiniteSetTheorems

\* Transaction ids are assigned in order, and a writer holds an open one.
Assigned ==
  /\ \A x \in Xid : fate[x] = "unused" <=> nextXid <= x
  /\ \A w \in Writer : tx[w] # 0 => fate[tx[w]] = "open"
  /\ \A w, v \in Writer : tx[w] # 0 /\ tx[w] = tx[v] => w = v

Pinned(c) == phase[c] \in {"pinned", "frozen"}

\* A transaction that a boundary sees has ended: nothing can be added to it.
SeenEnded ==
  \A c \in Capture : Pinned(c) =>
    \A x \in Xid : InSnapshot(x, c) => fate[x] \in {"committed", "aborted"}

\* The capturing transaction keeps its own view of the universe.
ViewKept ==
  \A c \in Capture : /\ phase[c] = "pinned" => view[c] = shown[c].universe
                     /\ phase[c] = "pinned" => view[c] \in Universe

Inv == TypeOK /\ Assigned /\ SeenEnded /\ ViewKept /\ ReplaysCapture /\ FrozenAtBoundary

-----------------------------------------------------------------------------
(* The id a writer writes under is in range and not yet ended. *)
LEMMA WriterId ==
  ASSUME TypeOK, Assigned, NEW w \in Writer, Writes(w)
  PROVE  /\ IdOf(w) \in Xid
         /\ fate[IdOf(w)] \in {"unused", "open"}
         /\ nextRow \in Id
         /\ fate' = [fate EXCEPT ![IdOf(w)] = "open"]
         /\ tx' = [tx EXCEPT ![w] = IdOf(w)]
         /\ IdOf(w) # 0
BY BoundAssumption DEF TypeOK, Assigned, Writes, IdOf, Xid, Id

LEMMA InitInv == Init => Inv
<1> SUFFICES ASSUME Init PROVE Inv
  OBVIOUS
<1> USE DEF Init
<1>1. TypeOK
  <2>1. Blank \in Boundary
    BY BoundAssumption DEF Blank, Boundary, Xid
  <2>2. 0 \in Xid /\ 0 \in 0..MaxRow /\ 0 \in 0..MaxClock
    BY BoundAssumption DEF Xid
  <2>3. revision \subseteq Revision
    BY <2>2 DEF Revision
  <2>4. \A c \in Capture : frozen[c] # None <=> phase[c] = "frozen"
    OBVIOUS
  <2>5. shown \in [Capture -> Shown]
    BY DEF Shown
  <2>6. /\ clock \in 0..MaxClock /\ nextXid \in 1..(MaxXid + 1) /\ nextRow \in 1..(MaxRow + 1)
        /\ tx \in [Writer -> Xid] /\ fate \in [Xid -> Fate]
    BY <2>2, BoundAssumption DEF Fate
  <2>7. boundary \in [Capture -> Boundary]
    BY <2>1
  <2>8. QED
    BY <2>3, <2>4, <2>5, <2>6, <2>7 DEF TypeOK
<1>2. Assigned
  BY BoundAssumption DEF Assigned, Xid
<1>3. SeenEnded /\ ViewKept /\ ReplaysCapture /\ FrozenAtBoundary
  BY DEF SeenEnded, ViewKept, ReplaysCapture, FrozenAtBoundary, Pinned
<1>4. QED
  BY <1>1, <1>2, <1>3 DEF Inv

(* Every step keeps the types. *)
LEMMA TypeStep ==
  ASSUME TypeOK, Assigned, ViewKept, [Next]_vars
  PROVE  TypeOK'
<1> USE BoundAssumption DEF TypeOK
<1>1. CASE Tick
  BY <1>1 DEF Tick, ids, stored, captures
<1>2. ASSUME NEW w \in Writer, NEW i \in Instrument, NEW at \in 0..MaxClock, Observe(w, i, at)
      PROVE  TypeOK'
  <2>1. Writes(w)
    BY <1>2 DEF Observe
  <2>2. [id |-> nextRow, xid |-> IdOf(w), inst |-> i, at |-> at] \in Observation
    BY <2>1, WriterId DEF Observation
  <2>3. tx' \in [Writer -> Xid] /\ fate' \in [Xid -> Fate]
    BY <2>1, WriterId DEF Fate
  <2>4. nextXid' \in 1..(MaxXid + 1) /\ nextRow' \in 1..(MaxRow + 1)
    BY <2>1 DEF Writes, IdOf
  <2>5. observation' \subseteq Observation
    BY <1>2, <2>2 DEF Observe
  <2>6. QED
    BY <1>2, <2>3, <2>4, <2>5 DEF Observe, captures
<1>3. ASSUME NEW w \in Writer, NEW i \in Instrument, NEW symbol \in Symbol \cup {None},
             Revise(w, i, symbol)
      PROVE  TypeOK'
  <2>1. Writes(w)
    BY <1>3 DEF Revise
  <2>2. nextRow \in 0..MaxRow
    BY <2>1, WriterId DEF Id
  <2>3. [id |-> nextRow, xid |-> IdOf(w), inst |-> i, symbol |-> symbol, at |-> clock] \in Revision
    BY <2>1, <2>2, WriterId DEF Revision
  <2>4. tx' \in [Writer -> Xid] /\ fate' \in [Xid -> Fate]
    BY <2>1, WriterId DEF Fate
  <2>5. nextXid' \in 1..(MaxXid + 1) /\ nextRow' \in 1..(MaxRow + 1)
    BY <2>1 DEF Writes, IdOf
  <2>6. revision' \subseteq Revision
    BY <1>3, <2>3 DEF Revise
  <2>7. QED
    BY <1>3, <2>4, <2>5, <2>6 DEF Revise, captures
<1>4. ASSUME NEW w \in Writer, NEW how \in {"committed", "aborted"}, End(w, how) PROVE TypeOK'
  <2>1. tx' \in [Writer -> Xid] /\ fate' \in [Xid -> Fate]
    BY <1>4 DEF End, Fate, Xid
  <2>2. QED
    BY <1>4, <2>1 DEF End, stored, captures
<1>5. ASSUME NEW u \in Universe, Rewrite(u) PROVE TypeOK'
  BY <1>5 DEF Rewrite, ids, stored, captures
<1>6. ASSUME NEW c \in Capture, State(c) PROVE TypeOK'
  <2>1. [boundary[c] EXCEPT !.at = clock] \in Boundary
    BY DEF Boundary
  <2>2. boundary' \in [Capture -> Boundary]
    BY <1>6, <2>1 DEF State
  <2>3. QED
    BY <1>6, <2>2 DEF State, ids, stored
<1>7. ASSUME NEW c \in Capture, Pin(c) PROVE TypeOK'
  <2>1. PICK x \in 1..(MaxXid + 1) :
          boundary' = [boundary EXCEPT ![c].low = x, ![c].high = nextXid, ![c].active = Open]
    BY <1>7 DEF Pin
  <2>2. Open \subseteq Xid
    BY DEF Open
  <2>3. [boundary[c] EXCEPT !.low = x, !.high = nextXid, !.active = Open] \in Boundary
    <3>1. boundary[c] \in Boundary /\ nextXid \in 1..(MaxXid + 1) /\ Open \in SUBSET Xid
      BY <2>2
    <3>2. QED
      BY <3>1 DEF Boundary
  <2>4. boundary' = [boundary EXCEPT ![c] =
                      [boundary[c] EXCEPT !.low = x, !.high = nextXid, !.active = Open]]
    BY <2>1
  <2>5. boundary' \in [Capture -> Boundary]
    BY <2>3, <2>4
  <2>6. Read(Now(observation, c), Now(revision, c)) \in SUBSET (Symbol \X Observation)
    BY DEF Read, Now, Newest
  <2>7. shown' \in [Capture -> Shown]
    BY <1>7, <2>6 DEF Pin, Shown
  <2>8. QED
    BY <1>7, <2>5, <2>7 DEF Pin, ids, stored
<1>8. ASSUME NEW c \in Capture, Freeze(c) PROVE TypeOK'
  <2>1. view[c] \in Universe /\ view[c] # None
    BY <1>8, NoneAssumption DEF Freeze, ViewKept
  <2>2. QED
    BY <1>8, <2>1 DEF Freeze, UniverseIn, ids, stored
<1>9. CASE UNCHANGED vars
  BY <1>9 DEF vars, ids, stored, captures
<1>10. QED
  BY <1>1, <1>2, <1>3, <1>4, <1>5, <1>6, <1>7, <1>8, <1>9 DEF Next

(* Only the transaction ids of writers move, and in order. *)
LEMMA AssignedStep ==
  ASSUME TypeOK, TypeOK', Assigned, [Next]_vars
  PROVE  Assigned'
<1> USE BoundAssumption DEF TypeOK, Xid
<1>1. ASSUME NEW w \in Writer, Writes(w) PROVE Assigned'
  <2>1. IdOf(w) \in Xid /\ IdOf(w) # 0
    BY <1>1, WriterId
  <2>2. CASE tx[w] = 0
    BY <1>1, <2>1, <2>2 DEF Assigned, Writes, IdOf
  <2>3. CASE tx[w] # 0
    BY <1>1, <2>1, <2>3 DEF Assigned, Writes, IdOf
  <2>4. QED
    BY <2>2, <2>3
<1>2. ASSUME NEW w \in Writer, NEW how \in {"committed", "aborted"}, End(w, how)
      PROVE  Assigned'
  BY <1>2 DEF Assigned, End
<1>3. CASE UNCHANGED ids
  BY <1>3 DEF Assigned, ids
<1>4. QED
  BY <1>1, <1>2, <1>3 DEF Next, Observe, Revise, Tick, Rewrite, State, Pin, Freeze, vars

-----------------------------------------------------------------------------
(* What a capture has pinned, no step of another actor touches. *)
LEMMA PinKept ==
  ASSUME TypeOK, [Next]_vars, NEW c \in Capture, Pinned(c)
  PROVE  boundary'[c] = boundary[c] /\ shown'[c] = shown[c] /\ view'[c] = view[c]
<1>1. CASE UNCHANGED captures
  BY <1>1 DEF captures
<1>2. ASSUME NEW d \in Capture, State(d) \/ Pin(d) \/ Freeze(d)
      PROVE  boundary'[c] = boundary[c] /\ shown'[c] = shown[c] /\ view'[c] = view[c]
  <2>1. CASE Freeze(d)
    BY <2>1 DEF Freeze
  <2>2. CASE State(d) \/ Pin(d)
    <3>1. d # c
      BY <2>2 DEF State, Pin, Pinned
    <3>2. QED
      BY <2>2, <3>1 DEF State, Pin, TypeOK
  <2>3. QED
    BY <1>2, <2>1, <2>2
<1>3. QED
  BY <1>1, <1>2 DEF Next, Observe, Revise, End, Tick, Rewrite, vars

(* A transaction that a pinned boundary sees keeps its fate. *)
LEMMA FateKept ==
  ASSUME TypeOK, Assigned, SeenEnded, [Next]_vars, NEW c \in Capture, Pinned(c),
         NEW x \in Xid, InSnapshot(x, c)
  PROVE  fate'[x] = fate[x]
<1>1. fate[x] \in {"committed", "aborted"}
  BY DEF SeenEnded
<1>2. ASSUME NEW w \in Writer, Writes(w) PROVE fate'[x] = fate[x]
  BY <1>1, <1>2, WriterId DEF TypeOK
<1>3. ASSUME NEW w \in Writer, NEW how \in {"committed", "aborted"}, End(w, how)
      PROVE  fate'[x] = fate[x]
  BY <1>1, <1>3 DEF End, Assigned, TypeOK
<1>4. CASE UNCHANGED ids
  BY <1>4 DEF ids
<1>5. QED
  BY <1>2, <1>3, <1>4 DEF Next, Observe, Revise, Tick, Rewrite, State, Pin, Freeze, vars

(* A snapshot taken now sees exactly the transactions that have ended. *)
LEMMA SnapshotNow ==
  ASSUME TypeOK, Assigned, NEW c \in Capture, Pin(c), NEW x \in Xid
  PROVE  /\ InSnapshot(x, c)' <=> fate[x] \in {"committed", "aborted"}
         /\ boundary'[c].at = boundary[c].at
<1>1. PICK low \in 1..(MaxXid + 1) :
        /\ IsLow(low)
        /\ boundary' = [boundary EXCEPT ![c].low = low, ![c].high = nextXid, ![c].active = Open]
  BY DEF Pin
<1>2. /\ boundary'[c].low = low /\ boundary'[c].high = nextXid
      /\ boundary'[c].active = Open /\ boundary'[c].at = boundary[c].at
  BY <1>1 DEF TypeOK, Boundary
<1>3. x < low => fate[x] \in {"committed", "aborted"}
  BY <1>1, BoundAssumption DEF IsLow, Open, Assigned, TypeOK, Fate, Xid
<1>4. x < nextXid /\ x \notin Open <=> fate[x] \in {"committed", "aborted"}
  BY BoundAssumption DEF Open, Assigned, TypeOK, Fate, Xid
<1>5. QED
  BY <1>2, <1>3, <1>4 DEF InSnapshot

LEMMA SeenEndedStep ==
  ASSUME TypeOK, TypeOK', Assigned, SeenEnded, [Next]_vars
  PROVE  SeenEnded'
<1> SUFFICES ASSUME NEW c \in Capture, Pinned(c)', NEW x \in Xid, InSnapshot(x, c)'
             PROVE  fate'[x] \in {"committed", "aborted"}
  BY DEF SeenEnded
<1>1. CASE Pinned(c)
  <2>1. InSnapshot(x, c)
    BY <1>1, PinKept DEF InSnapshot
  <2>2. QED
    BY <1>1, <2>1, FateKept DEF SeenEnded
<1>2. CASE ~Pinned(c)
  <2>1. Pin(c)
    BY <1>2 DEF Pinned, Next, vars, captures, Observe, Revise, End, Tick, Rewrite, State, Pin,
                Freeze, TypeOK
  <2>2. QED
    BY <2>1, SnapshotNow DEF Pin, ids
<1>3. QED
  BY <1>1, <1>2

-----------------------------------------------------------------------------
(* The rows a pinned boundary sees never change: new rows belong to open
   transactions, and those the boundary does not see. *)
LEMMA SeenKept ==
  ASSUME TypeOK, Assigned, SeenEnded, [Next]_vars, NEW c \in Capture, Pinned(c)
  PROVE  /\ Seen(observation, c)' = Seen(observation, c)
         /\ Seen(revision, c)' = Seen(revision, c)
<1>1. boundary'[c] = boundary[c]
  BY PinKept
<1>2. \A x \in Xid : InSnapshot(x, c)' <=> InSnapshot(x, c)
  BY <1>1 DEF InSnapshot
<1>3. \A x \in Xid : InSnapshot(x, c) => fate'[x] = fate[x]
  BY FateKept
<1>4. ASSUME NEW r, r \in (observation' \ observation) \cup (revision' \ revision)
      PROVE  r.xid \in Xid /\ ~InSnapshot(r.xid, c)
  <2>1. PICK w \in Writer : Writes(w) /\ r.xid = IdOf(w)
    <3>1. ASSUME NEW w \in Writer, NEW i \in Instrument, NEW at \in 0..MaxClock, Observe(w, i, at)
          PROVE  Writes(w) /\ r.xid = IdOf(w)
      BY <1>4, <3>1 DEF Observe
    <3>2. ASSUME NEW w \in Writer, NEW i \in Instrument, NEW symbol \in Symbol \cup {None},
                 Revise(w, i, symbol)
          PROVE  Writes(w) /\ r.xid = IdOf(w)
      BY <1>4, <3>2 DEF Revise
    <3>3. ~UNCHANGED stored
      BY <1>4 DEF stored
    <3>4. QED
      BY <3>1, <3>2, <3>3 DEF Next, vars, End, Tick, Rewrite, State, Pin, Freeze
  <2>2. IdOf(w) \in Xid /\ fate[IdOf(w)] \in {"unused", "open"}
    BY <2>1, WriterId
  <2>3. QED
    BY <2>1, <2>2 DEF SeenEnded
<1>5. observation \subseteq observation' /\ revision \subseteq revision'
  BY DEF Next, vars, stored, Observe, Revise, End, Tick, Rewrite, State, Pin, Freeze
<1>6. \A r \in observation \cup revision : r.xid \in Xid
  BY DEF TypeOK, Observation, Revision
<1>7. ASSUME NEW r, r \in observation' \cup revision', r.xid \in Xid
      PROVE  /\ fate'[r.xid] = "committed" /\ InSnapshot(r.xid, c)'
             <=> /\ fate[r.xid] = "committed" /\ InSnapshot(r.xid, c)
  BY <1>2, <1>3, <1>7
<1>8. Seen(observation, c)' = Seen(observation, c)
  <2>1. \A r : r \in Seen(observation, c)' <=> r \in Seen(observation, c)
    BY <1>1, <1>4, <1>5, <1>6, <1>7, <1>2 DEF Seen
  <2>2. QED
    BY <2>1 DEF Seen
<1>9. Seen(revision, c)' = Seen(revision, c)
  <2>1. \A r : r \in Seen(revision, c)' <=> r \in Seen(revision, c)
    BY <1>1, <1>4, <1>5, <1>6, <1>7, <1>2 DEF Seen
  <2>2. QED
    BY <2>1 DEF Seen
<1>10. QED
  BY <1>8, <1>9

(* The capturing transaction itself sees the boundary's rows. *)
LEMMA SeenAtPin ==
  ASSUME TypeOK, Assigned, NEW c \in Capture, Pin(c)
  PROVE  /\ Seen(observation, c)' = Now(observation, c)
         /\ Seen(revision, c)' = Now(revision, c)
<1>1. /\ \A x \in Xid : InSnapshot(x, c)' <=> fate[x] \in {"committed", "aborted"}
      /\ 0 \in Xid /\ boundary'[c].at = boundary[c].at
  BY SnapshotNow, BoundAssumption DEF Xid
<1>2. observation' = observation /\ revision' = revision /\ fate' = fate
  BY DEF Pin, stored, ids
<1>3. \A r \in observation \cup revision : r.xid \in Xid
  BY DEF TypeOK, Observation, Revision
<1>4. QED
  BY <1>1, <1>2, <1>3 DEF Seen, Now

LEMMA ReplayStep ==
  ASSUME TypeOK, TypeOK', Assigned, SeenEnded, ReplaysCapture, [Next]_vars
  PROVE  ReplaysCapture'
<1> SUFFICES ASSUME NEW c \in Capture, Pinned(c)'
             PROVE  PinnedRead(c)' = shown'[c].rows
  BY DEF ReplaysCapture, Pinned
<1>1. PinnedRead(c)' = Read(Seen(observation, c)', Seen(revision, c)')
  BY DEF PinnedRead, Read, Newest, Current, Before
<1>2. CASE Pinned(c)
  <2>1. shown'[c] = shown[c]
    BY <1>2, PinKept
  <2>2. PinnedRead(c)' = PinnedRead(c)
    BY <1>1, <1>2, SeenKept DEF PinnedRead
  <2>3. QED
    BY <1>2, <2>1, <2>2 DEF ReplaysCapture, Pinned
<1>3. CASE ~Pinned(c)
  <2>1. Pin(c)
    BY <1>3 DEF Pinned, Next, vars, captures, Observe, Revise, End, Tick, Rewrite, State, Pin,
                Freeze, TypeOK
  <2>2. PinnedRead(c)' = Read(Now(observation, c), Now(revision, c))
    BY <1>1, <2>1, SeenAtPin
  <2>3. QED
    BY <2>1, <2>2 DEF Pin, TypeOK
<1>4. QED
  BY <1>2, <1>3

(* The frozen copy is the one in the capturing transaction's own view. *)
LEMMA FrozenStep ==
  ASSUME TypeOK, TypeOK', ViewKept, FrozenAtBoundary, [Next]_vars
  PROVE  ViewKept' /\ FrozenAtBoundary'
<1> SUFFICES ASSUME NEW c \in Capture
             PROVE  /\ phase'[c] = "pinned" => view'[c] = shown'[c].universe /\ view'[c] \in Universe
                    /\ phase'[c] = "frozen" => frozen'[c] = shown'[c].universe
  BY DEF ViewKept, FrozenAtBoundary
<1>1. CASE UNCHANGED captures
  BY <1>1 DEF captures, ViewKept, FrozenAtBoundary
<1>2. ASSUME NEW d \in Capture, State(d)
      PROVE  /\ phase'[c] = "pinned" => view'[c] = shown'[c].universe /\ view'[c] \in Universe
             /\ phase'[c] = "frozen" => frozen'[c] = shown'[c].universe
  BY <1>2 DEF State, ViewKept, FrozenAtBoundary, TypeOK
<1>3. ASSUME NEW d \in Capture, Pin(d)
      PROVE  /\ phase'[c] = "pinned" => view'[c] = shown'[c].universe /\ view'[c] \in Universe
             /\ phase'[c] = "frozen" => frozen'[c] = shown'[c].universe
  <2>1. CASE c = d
    BY <1>3, <2>1 DEF Pin, TypeOK
  <2>2. CASE c # d
    BY <1>3, <2>2 DEF Pin, ViewKept, FrozenAtBoundary, TypeOK
  <2>3. QED
    BY <2>1, <2>2
<1>4. ASSUME NEW d \in Capture, Freeze(d)
      PROVE  /\ phase'[c] = "pinned" => view'[c] = shown'[c].universe /\ view'[c] \in Universe
             /\ phase'[c] = "frozen" => frozen'[c] = shown'[c].universe
  BY <1>4 DEF Freeze, UniverseIn, ViewKept, FrozenAtBoundary, TypeOK
<1>5. QED
  BY <1>1, <1>2, <1>3, <1>4 DEF Next, vars, Observe, Revise, End, Tick, Rewrite

-----------------------------------------------------------------------------
(* The inductive invariant holds in every reachable state. *)
THEOREM Invariance == Spec => []Inv
<1>1. Inv /\ [Next]_vars => Inv'
  BY TypeStep, AssignedStep, SeenEndedStep, ReplayStep, FrozenStep DEF Inv
<1>2. QED
  BY <1>1, InitInv, PTL DEF Spec

(* Types; and a capture is frozen exactly when its copy exists. *)
THEOREM TypeCorrect == Spec => []TypeOK
<1>1. Inv => TypeOK
  BY DEF Inv
<1>2. QED
  BY <1>1, Invariance, PTL

(* Reads at a boundary are repeatable for ever, whatever the writers do. *)
THEOREM Repeatable == Spec => []ReplaysCapture
<1>1. Inv => ReplaysCapture
  BY DEF Inv
<1>2. QED
  BY <1>1, Invariance, PTL

(* The frozen catalogue belongs to the boundary it is stored under. *)
THEOREM FrozenWithBoundary == Spec => []FrozenAtBoundary
<1>1. Inv => FrozenAtBoundary
  BY DEF Inv
<1>2. QED
  BY <1>1, Invariance, PTL

-----------------------------------------------------------------------------
(* The catalyst plane.                                                      *)

Item == [date : Int, stamp : Int]
Batch == [payload : [Event -> Item \cup {Nil}], at : Nat, rejected : SUBSET Ticker]
EventRow == [event : Event, payload : Item \cup {Nil}, from : Nat, to : Nat \cup {Nil}]
Found == {"PROVIDER_PAYLOAD_REJECTED", "EVENTS", "NO_EVENT"}
CheckRow == [ticker : Ticker, at : Nat, status : Found, ids : SUBSET Event]
CatalystTypes ==
  /\ time \in Nat
  /\ style \in Style
  /\ pc \in [Collector -> {"idle", "fetch", "lock", "read", "write", "done"}]
  /\ anchor \in [Collector -> Nat]
  /\ batch \in [Collector -> Batch]
  /\ todo \in [Collector -> Seq(Ticker)]
  /\ keys \in [Collector -> SUBSET Key]
  /\ seen \in [Collector -> [Event -> Nat \cup {Nil}]]
  /\ knownAt \in [Collector -> [Event -> Nat \cup {Nil}]]
  /\ holder \in [Key -> Collector \cup {Nil}]
  /\ rev \in Seq(EventRow)
  /\ check \in Seq(CheckRow)
  /\ captured \subseteq [at : Nat, revs : Nat, checks : Nat]

\* The advisory locks w holds, and those of the transaction it is in.
Held(w) == {k \in Key : holder[k] = w}
Writing(w) == pc[w] \in {"lock", "read", "write"}
Wanted(w) == ToSet(Transaction(todo[w]))

\* A writer holds the locks of its transaction that it has taken, in their order.
LocksFor(w) ==
  /\ Held(w) \cup keys[w] = IF Writing(w) THEN KeysOf(batch[w], Wanted(w)) ELSE {}
  /\ pc[w] \in {"read", "write"} => keys[w] = {}
  /\ \A k \in Held(w), l \in keys[w] : k # l /\ Precedes(k, l)
LocksOrdered == \A w \in Collector : LocksFor(w)

\* What a writer read of an event, and when: not before the revision it found.
ReadFor(w) ==
  \A e \in Event :
    /\ seen[w][e] # Nil => /\ seen[w][e] \in DOMAIN rev
                           /\ rev[seen[w][e]].event = e
                           /\ knownAt[w][e] # Nil
                           /\ rev[seen[w][e]].from <= knownAt[w][e]
    /\ knownAt[w][e] # Nil => knownAt[w][e] <= time
    /\ /\ Writing(w)
       /\ IF style = "ticker" THEN EventKey(e) \in Held(w)
          ELSE pc[w] = "write" /\ e \in Rows(batch[w], Wanted(w))
       => knownAt[w][e] # Nil
RevisionRead == \A w \in Collector : ReadFor(w)

\* Only the last revision of an event is active.
LastIsActive ==
  \A i \in DOMAIN rev :
    /\ rev[i].to = Nil <=> \A j \in DOMAIN rev : i < j => rev[j].event # rev[i].event
    /\ rev[i].from <= time

\* A boundary shows the revisions of the events of every check it shows.
ChecksBacked ==
  /\ \A i \in DOMAIN check : \A e \in check[i].ids : \E j \in DOMAIN rev : rev[j].event = e
  /\ \A b \in captured :
       /\ b.revs <= Len(rev) /\ b.checks <= Len(check)
       /\ \A i \in 1..b.revs : rev[i].from <= b.at
       /\ \A i \in 1..b.checks : \A e \in check[i].ids : \E j \in 1..b.revs : rev[j].event = e

CatalystInv == CatalystTypes /\ LocksOrdered /\ RevisionRead /\ LastIsActive /\ ChecksBacked
               /\ HistoryContiguous

LEMMA NilApart == Nil \notin Nat /\ Nil \notin Collector
BY CatalystAssumption

LEMMA Keys == /\ \A t : BatchKey(t)[1] = "batch" /\ BatchKey(t)[2] = t
              /\ \A e : EventKey(e)[1] = "event" /\ EventKey(e)[2] = e
              /\ \A k \in Key : \/ \E t \in Ticker : k = BatchKey(t)
                                \/ \E e \in Event : k = EventKey(e)
BY DEF BatchKey, EventKey, Key

LEMMA TransactionOf ==
  ASSUME NEW s \in Seq(Ticker)
  PROVE  Transaction(s) \in Seq(Ticker) /\ ToSet(Transaction(s)) \subseteq Ticker /\ Len(Transaction(s)) <= Len(s)
<1>1. Transaction(s) \in Seq(Ticker) /\ Len(Transaction(s)) <= Len(s)
  BY DEF Transaction
<1> QED
  BY <1>1 DEF ToSet

LEMMA KeysOfType ==
  ASSUME NEW b, NEW T \in SUBSET Ticker
  PROVE  KeysOf(b, T) \subseteq Key /\ Rows(b, T) \subseteq Event
BY DEF KeysOf, Key, Rows, Events

LEMMA NoBatchType == NoBatch \in Batch
BY DEF NoBatch, Batch, NoEvents

\* What is left of a writer when it proceeds to its next transaction, if any.
LEMMA ProceedTypes ==
  ASSUME CatalystTypes, NEW w \in Collector, NEW b \in Batch, NEW s \in Seq(Ticker), Proceed(w, b, s)
  PROVE  /\ pc' \in [Collector -> {"idle", "fetch", "lock", "read", "write", "done"}]
         /\ batch' \in [Collector -> Batch]
         /\ todo' \in [Collector -> Seq(Ticker)]
         /\ keys' \in [Collector -> SUBSET Key]
         /\ seen' \in [Collector -> [Event -> Nat \cup {Nil}]]
         /\ knownAt' \in [Collector -> [Event -> Nat \cup {Nil}]]
<1>1. KeysOf(b, ToSet(Transaction(s))) \in SUBSET Key
  BY TransactionOf, KeysOfType
<1>2. NoEvents \in [Event -> Nat \cup {Nil}]
  BY DEF NoEvents
<1>3. (IF s = <<>> THEN NoBatch ELSE b) \in Batch
  BY NoBatchType
<1> QED
  BY <1>1, <1>2, <1>3 DEF Proceed, CatalystTypes

\* The batch that a fetch leaves.
Answered(w, answer, bad) ==
  [payload |-> [e \in Event |-> IF e \in DOMAIN answer THEN Payload(answer[e], anchor[w]) ELSE Nil],
   at |-> IF style = "bulk" THEN anchor[w] ELSE time,
   rejected |-> bad]

LEMMA AnsweredType ==
  ASSUME CatalystTypes, NEW w \in Collector, NEW E \in SUBSET Event, NEW answer \in [E -> Dates],
         NEW bad \in SUBSET Ticker
  PROVE  Answered(w, answer, bad) \in Batch
<1>1. \A e \in E : Payload(answer[e], anchor[w]) \in Item
  <2>1. anchor[w] \in Nat /\ \A e \in E : answer[e] \in Nat
    BY CatalystAssumption DEF CatalystTypes
  <2> QED
    BY <2>1 DEF Payload, Item
<1>2. [e \in Event |-> IF e \in DOMAIN answer THEN Payload(answer[e], anchor[w]) ELSE Nil]
        \in [Event -> Item \cup {Nil}]
  BY <1>1
<1> QED
  BY <1>2 DEF Answered, Batch, CatalystTypes

LEMMA OrdersType == \A order \in Orders : order \in Seq(Ticker)
<1>1. Cardinality(Ticker) \in Nat
  BY CatalystAssumption, FS_CardinalityType
<1> QED
  BY <1>1 DEF Orders

\* A fetch ends in a transaction, or in none.
LEMMA FetchIs ==
  ASSUME CatalystTypes, NEW w \in Collector, NEW order \in Orders, NEW bad \in {{}} \cup {{t} : t \in Ticker},
         NEW E \in SUBSET Event, NEW answer \in [E -> Dates], Fetch(w, order, answer, bad)
  PROVE  /\ pc[w] = "fetch"
         /\ \E b \in Batch, s \in Seq(Ticker) : Proceed(w, b, s)
         /\ UNCHANGED <<time, style, anchor, holder, tables, captured>>
<1> DEFINE b == Answered(w, answer, bad)
           s == IF style = "ticker" /\ bad # {} THEN <<>> ELSE order
<1>1. Proceed(w, b, s)
  BY Zenon DEF Fetch, Answered
<1>2. b \in Batch
  BY AnsweredType
<1>3. s \in Seq(Ticker)
  BY OrdersType
<1> HIDE DEF b, s
<1> QED
  BY <1>1, <1>2, <1>3 DEF Fetch

\* An enumeration of a finite set of events names each of them once.
LEMMA Enumerated ==
  ASSUME NEW S \in SUBSET Event
  PROVE  /\ Cardinality(S) \in Nat
         /\ SetToSeq(S) \in [1..Cardinality(S) -> S]
         /\ IsInjective(SetToSeq(S))
         /\ \A e \in S : \E i \in 1..Cardinality(S) : SetToSeq(S)[i] = e
<1>1. IsFiniteSet(S)
  BY CatalystAssumption, FS_Subset
<1>2. Cardinality(S) \in Nat /\ ExistsBijection(1..Cardinality(S), S)
  BY <1>1, FS_CardinalityType
<1> DEFINE n == Cardinality(S)
           f == SetToSeq(S)
<1>3. \E g \in [1..n -> S] : IsInjective(g)
  <2>1. PICK g \in Bijection(1..n, S) : TRUE
    BY <1>2 DEF ExistsBijection
  <2>2. g \in [1..n -> S] /\ IsInjective(g)
    BY DEF Bijection, Injection, IsInjective
  <2> QED
    BY <2>2
<1>4. f \in [1..n -> S] /\ IsInjective(f)
  BY <1>3, Zenon DEF SetToSeq
<1>5. \A e \in S : \E i \in 1..n : f[i] = e
  <2>1. Cardinality(1..n) = n
    BY <1>2, FS_Interval
  <2> HIDE DEF f
  <2>2. f \in Injection(1..n, S)
    BY <1>4 DEF Injection, IsInjective
  <2>3. Cardinality(1..n) = Cardinality(S)
    BY <2>1
  <2> HIDE DEF n
  <2>4. f \in Surjection(1..n, S)
    BY <1>1, <2>2, <2>3, FS_Injection
  <2> QED
    BY <2>4 DEF Surjection
<1> QED
  BY <1>2, <1>4, <1>5

LEMMA SequenceOf ==
  ASSUME NEW S, NEW n \in Nat, NEW f \in [1..n -> S]
  PROVE  f \in Seq(S) /\ Len(f) = n
OBVIOUS

LEMMA Joined ==
  ASSUME NEW S, NEW p \in Seq(S), NEW q \in Seq(S)
  PROVE  /\ p \o q \in Seq(S) /\ Len(p \o q) = Len(p) + Len(q)
         /\ DOMAIN (p \o q) = 1..Len(p) + Len(q)
         /\ \A i \in 1..Len(p) : (p \o q)[i] = p[i]
         /\ \A i \in Len(p)+1..Len(p)+Len(q) : (p \o q)[i] = q[i - Len(p)]
OBVIOUS

\* What the revisions of a transaction do to the table: rows that were there keep all
\* but their end, and each changed event has a new row.
Revised(w, changed) ==
  /\ Len(rev) <= Len(rev')
  /\ \A i \in DOMAIN rev :
       /\ rev'[i].event = rev[i].event /\ rev'[i].payload = rev[i].payload
       /\ rev'[i].from = rev[i].from
       /\ rev'[i].to = IF \E e \in changed : seen[w][e] = i THEN knownAt[w][rev[i].event]
                       ELSE rev[i].to
  /\ \A i \in DOMAIN rev' \ DOMAIN rev :
       /\ rev'[i].event \in changed /\ rev'[i].to = Nil
       /\ rev'[i].from = knownAt[w][rev'[i].event]
  /\ \A i, j \in DOMAIN rev' \ DOMAIN rev : rev'[i].event = rev'[j].event => i = j
  /\ \A e \in changed : \E i \in DOMAIN rev' \ DOMAIN rev : rev'[i].event = e

LEMMA RevisedIs ==
  ASSUME CatalystTypes, RevisionRead, NEW w \in Collector, NEW changed \in SUBSET Event,
         \A e \in changed : knownAt[w][e] # Nil /\ batch[w].payload[e] \in Item \cup {Nil},
         rev' = Superseded(changed, w) \o Appended(changed, w)
  PROVE  rev' \in Seq(EventRow) /\ Revised(w, changed)
<1> DEFINE n == Cardinality(changed)
           f == SetToSeq(changed)
           p == Superseded(changed, w)
           q == Appended(changed, w)
<1>1. /\ n \in Nat /\ f \in [1..n -> changed] /\ \A i, j \in 1..n : f[i] = f[j] => i = j
      /\ \A e \in changed : \E i \in 1..n : f[i] = e
  BY Enumerated DEF IsInjective
<1>2. \A e \in changed : knownAt[w][e] \in Nat /\ e \in Event
  BY DEF CatalystTypes
<1>3. rev \in Seq(EventRow) /\ Len(rev) \in Nat /\ DOMAIN rev = 1..Len(rev)
  BY DEF CatalystTypes
<1>4. /\ DOMAIN p = DOMAIN rev
      /\ \A i \in DOMAIN rev :
           /\ p[i] \in EventRow
           /\ p[i].event = rev[i].event /\ p[i].payload = rev[i].payload /\ p[i].from = rev[i].from
           /\ p[i].to = IF \E e \in changed : seen[w][e] = i THEN knownAt[w][rev[i].event]
                        ELSE rev[i].to
  <2>1. DOMAIN p = DOMAIN rev
    BY DEF Superseded
  <2>2. ASSUME NEW i \in DOMAIN rev
        PROVE  /\ p[i] \in EventRow
               /\ p[i].event = rev[i].event /\ p[i].payload = rev[i].payload /\ p[i].from = rev[i].from
               /\ p[i].to = IF \E e \in changed : seen[w][e] = i THEN knownAt[w][rev[i].event]
                            ELSE rev[i].to
    <3>1. rev[i] \in EventRow
      BY <1>3
    <3>2. CASE \E e \in changed : seen[w][e] = i
      <4>1. p[i] = [rev[i] EXCEPT !.to = knownAt[w][rev[i].event]]
        BY <3>2 DEF Superseded
      <4>2. knownAt[w][rev[i].event] \in Nat
        <5>1. PICK e \in changed : seen[w][e] = i
          BY <3>2
        <5>2. seen[w][e] # Nil
          BY <1>3, <5>1, NilApart
        <5>3. rev[i].event = e
          BY <5>1, <5>2 DEF RevisionRead, ReadFor
        <5> QED
          BY <1>2, <5>3
      <4> QED
        BY <3>1, <3>2, <4>1, <4>2 DEF EventRow
    <3>3. CASE ~\E e \in changed : seen[w][e] = i
      <4>1. p[i] = rev[i]
        BY <3>3 DEF Superseded
      <4> QED
        BY <3>1, <3>3, <4>1
    <3> QED
      BY <3>2, <3>3
  <2> QED
    BY <2>1, <2>2
<1>5. /\ DOMAIN q = 1..n
      /\ \A i \in 1..n : /\ q[i] \in EventRow
                         /\ q[i].event = f[i] /\ q[i].from = knownAt[w][f[i]] /\ q[i].to = Nil
  <2>1. q = [i \in 1..n |-> [event |-> f[i], payload |-> batch[w].payload[f[i]],
                             from |-> knownAt[w][f[i]], to |-> Nil]]
    BY <1>1 DEF Appended
  <2> HIDE DEF q, f, n
  <2>2. ASSUME NEW i \in 1..n
        PROVE  /\ q[i] \in EventRow
               /\ q[i].event = f[i] /\ q[i].from = knownAt[w][f[i]] /\ q[i].to = Nil
    <3>1. /\ f[i] \in changed /\ f[i] \in Event /\ knownAt[w][f[i]] \in Nat
          /\ batch[w].payload[f[i]] \in Item \cup {Nil}
      BY <1>1, <1>2
    <3>2. q[i] = [event |-> f[i], payload |-> batch[w].payload[f[i]],
                  from |-> knownAt[w][f[i]], to |-> Nil]
      BY <2>1
    <3> QED
      BY <3>1, <3>2 DEF EventRow
  <2> QED
    BY <2>1, <2>2
<1> HIDE DEF p, q, f, n
<1>6. p \in Seq(EventRow) /\ Len(p) = Len(rev) /\ q \in Seq(EventRow) /\ Len(q) = n
  <2>1. p \in [1..Len(rev) -> EventRow]
    <3>1. p = [i \in DOMAIN p |-> p[i]]
      BY DEF p, Superseded
    <3> QED
      BY <1>3, <1>4, <3>1
  <2>2. q \in [1..n -> EventRow]
    <3>1. q = [i \in DOMAIN q |-> q[i]]
      BY DEF q, Appended
    <3> QED
      BY <1>5, <3>1
  <2> QED
    BY <1>1, <1>3, <2>1, <2>2, SequenceOf
<1>7. rev' = p \o q
  BY DEF p, q
<1> DEFINE m == Len(rev)
<1>8. /\ rev' \in Seq(EventRow) /\ Len(rev') = m + n /\ DOMAIN rev' = 1..m + n
      /\ \A i \in 1..m : rev'[i] = p[i]
      /\ \A i \in m+1..m+n : rev'[i] = q[i - m]
  <2>1. Len(p) = m /\ Len(q) = n
    BY <1>6
  <2>2. p \in Seq(EventRow) /\ q \in Seq(EventRow)
    BY <1>6
  <2>3. /\ p \o q \in Seq(EventRow) /\ Len(p \o q) = Len(p) + Len(q)
        /\ DOMAIN (p \o q) = 1..Len(p) + Len(q)
        /\ \A i \in 1..Len(p) : (p \o q)[i] = p[i]
        /\ \A i \in Len(p)+1..Len(p)+Len(q) : (p \o q)[i] = q[i - Len(p)]
    BY <2>2, Joined
  <2> HIDE DEF m
  <2> QED
    BY <1>7, <2>1, <2>3
<1>m. m \in Nat /\ DOMAIN rev = 1..m
  BY <1>3
<1> HIDE DEF m
<1>9. \A i \in DOMAIN rev' \ DOMAIN rev : i \in Nat /\ i - m \in 1..n /\ rev'[i] = q[i - m]
  <2> SUFFICES ASSUME NEW i \in DOMAIN rev' \ DOMAIN rev
               PROVE  i \in Nat /\ i - m \in 1..n /\ rev'[i] = q[i - m]
    OBVIOUS
  <2>1. i \in m+1..m+n
    BY <1>1, <1>8, <1>m
  <2> QED
    BY <1>1, <1>8, <1>m, <2>1
<1>10. \A i \in 1..n : m + i \in DOMAIN rev' \ DOMAIN rev /\ rev'[m + i] = q[i]
  <2> SUFFICES ASSUME NEW i \in 1..n
               PROVE  m + i \in DOMAIN rev' \ DOMAIN rev /\ rev'[m + i] = q[i]
    OBVIOUS
  <2>1. m + i \in m+1..m+n /\ (m + i) - m = i
    BY <1>1, <1>m
  <2>2. rev'[m + i] = q[(m + i) - m]
    BY <1>8, <2>1
  <2> QED
    BY <1>1, <1>8, <1>m, <2>1, <2>2
<1>11. \A i \in DOMAIN rev' \ DOMAIN rev :
         /\ rev'[i].event \in changed /\ rev'[i].to = Nil
         /\ rev'[i].from = knownAt[w][rev'[i].event]
  BY <1>1, <1>5, <1>9
<1>12. \A i, j \in DOMAIN rev' \ DOMAIN rev : rev'[i].event = rev'[j].event => i = j
  <2> SUFFICES ASSUME NEW i \in DOMAIN rev' \ DOMAIN rev, NEW j \in DOMAIN rev' \ DOMAIN rev,
                      rev'[i].event = rev'[j].event
               PROVE  i = j
    OBVIOUS
  <2>1. f[i - m] = f[j - m]
    BY <1>5, <1>9
  <2>2. i - m = j - m
    BY <1>1, <1>9, <2>1
  <2> QED
    BY <1>9, <1>m, <2>2
<1>13. \A e \in changed : \E i \in DOMAIN rev' \ DOMAIN rev : rev'[i].event = e
  <2> SUFFICES ASSUME NEW e \in changed PROVE \E i \in DOMAIN rev' \ DOMAIN rev : rev'[i].event = e
    OBVIOUS
  <2>1. PICK i \in 1..n : f[i] = e
    BY <1>1
  <2>2. m + i \in DOMAIN rev' \ DOMAIN rev /\ rev'[m + i].event = e
    BY <1>5, <1>10, <2>1
  <2> QED
    BY <2>2
<1>14. \A i \in DOMAIN rev : rev'[i] = p[i]
  BY <1>8, <1>m
<1>15. Len(rev) <= Len(rev')
  BY <1>1, <1>8, <1>m DEF m
<1>16. \A i \in DOMAIN rev :
         /\ rev'[i].event = rev[i].event /\ rev'[i].payload = rev[i].payload
         /\ rev'[i].from = rev[i].from
         /\ rev'[i].to = IF \E e \in changed : seen[w][e] = i THEN knownAt[w][rev[i].event]
                         ELSE rev[i].to
  BY <1>4, <1>14
<1> QED
  BY <1>8, <1>11, <1>12, <1>13, <1>15, <1>16 DEF Revised

\* The checks of a transaction are appended to those that were there.
Verified(w) ==
  /\ Len(check) <= Len(check')
  /\ \A i \in DOMAIN check : check'[i] = check[i]
  /\ \A i \in DOMAIN check' \ DOMAIN check : check'[i].ids \subseteq Rows(batch[w], Wanted(w))

LEMMA VerifiedIs ==
  ASSUME CatalystTypes, NEW w \in Collector,
         check' = check \o Checks(Transaction(todo[w]), batch[w])
  PROVE  check' \in Seq(CheckRow) /\ Verified(w)
<1> DEFINE s == Transaction(todo[w])
           q == Checks(s, batch[w])
           m == Len(check)
           n == Len(s)
<1>1. /\ s \in Seq(Ticker) /\ n \in Nat /\ DOMAIN s = 1..n
      /\ \A i \in 1..n : s[i] \in Ticker /\ s[i] \in ToSet(s)
  <2>1. s \in Seq(Ticker)
    BY TransactionOf DEF CatalystTypes
  <2> HIDE DEF s
  <2> QED
    BY <2>1 DEF ToSet
<1>2. check \in Seq(CheckRow) /\ m \in Nat /\ DOMAIN check = 1..m
  BY DEF CatalystTypes
<1>3. batch[w].at \in Nat
  BY DEF CatalystTypes, Batch
<1> HIDE DEF s
<1>4. /\ q \in [1..n -> CheckRow]
      /\ \A i \in 1..n : q[i].ids \subseteq Rows(batch[w], ToSet(s))
  <2>1. q = [i \in 1..n |-> [ticker |-> s[i], at |-> batch[w].at, status |-> Status(batch[w], s[i]),
                             ids |-> Rows(batch[w], {s[i]})]]
    BY <1>1 DEF Checks
  <2>2. ASSUME NEW i \in 1..n
        PROVE  /\ Status(batch[w], s[i]) \in Found
               /\ Rows(batch[w], {s[i]}) \subseteq Event
               /\ Rows(batch[w], {s[i]}) \subseteq Rows(batch[w], ToSet(s))
    <3>1. Status(batch[w], s[i]) \in Found
      BY DEF Status, Found
    <3>2. Rows(batch[w], {s[i]}) \subseteq Event
      BY DEF Rows, Events
    <3>3. Rows(batch[w], {s[i]}) \subseteq Rows(batch[w], ToSet(s))
      BY <1>1 DEF Rows, Events
    <3> QED
      BY <3>1, <3>2, <3>3
  <2> HIDE DEF q, n
  <2> QED
    BY <1>1, <1>3, <2>1, <2>2 DEF CheckRow
<1>5. check' = check \o q
  BY DEF q, s
<1> HIDE DEF q, n
<1>6. q \in Seq(CheckRow) /\ Len(q) = n
  BY <1>1, <1>4, SequenceOf
<1>7. /\ check \o q \in Seq(CheckRow) /\ Len(check \o q) = m + n
      /\ DOMAIN (check \o q) = 1..m + n
      /\ \A i \in 1..m : (check \o q)[i] = check[i]
      /\ \A i \in m+1..m+n : (check \o q)[i] = q[i - m]
  <2>1. /\ check \o q \in Seq(CheckRow) /\ Len(check \o q) = Len(check) + Len(q)
        /\ DOMAIN (check \o q) = 1..Len(check) + Len(q)
        /\ \A i \in 1..Len(check) : (check \o q)[i] = check[i]
        /\ \A i \in Len(check)+1..Len(check)+Len(q) : (check \o q)[i] = q[i - Len(check)]
    BY <1>2, <1>6, Joined
  <2> QED
    BY <1>6, <2>1
<1>8. /\ check' \in Seq(CheckRow) /\ Len(check') = m + n /\ DOMAIN check' = 1..m + n
      /\ \A i \in 1..m : check'[i] = check[i]
      /\ \A i \in m+1..m+n : check'[i] = q[i - m]
  BY <1>5, <1>7
<1>9. Len(check) <= Len(check')
  BY <1>1, <1>2, <1>8
<1> HIDE DEF m
<1>10. \A i \in DOMAIN check' \ DOMAIN check : check'[i].ids \subseteq Rows(batch[w], ToSet(s))
  <2> SUFFICES ASSUME NEW i \in DOMAIN check' \ DOMAIN check
               PROVE  check'[i].ids \subseteq Rows(batch[w], ToSet(s))
    OBVIOUS
  <2>1. i \in m+1..m+n /\ i - m \in 1..n
    BY <1>1, <1>2, <1>8
  <2>2. check'[i] = q[i - m]
    BY <1>8, <2>1
  <2> QED
    BY <1>4, <2>1, <2>2
<1>11. \A i \in DOMAIN check : check'[i] = check[i]
  BY <1>2, <1>8
<1> QED
  BY <1>8, <1>9, <1>10, <1>11 DEF Verified, Wanted, s

\* A transaction that writes knows when it read each event it is about.
LEMMA KnownRows ==
  ASSUME CatalystTypes, LocksOrdered, RevisionRead, NEW w \in Collector, pc[w] = "write",
         NEW e \in Rows(batch[w], Wanted(w))
  PROVE  e \in Event /\ knownAt[w][e] # Nil
<1>1. e \in Event
  BY DEF Rows, Events
<1>2. EventKey(e) \in Held(w)
  <2>1. EventKey(e) \in KeysOf(batch[w], Wanted(w))
    BY DEF KeysOf
  <2>2. Held(w) \cup keys[w] = KeysOf(batch[w], Wanted(w)) /\ keys[w] = {}
    BY DEF LocksOrdered, LocksFor, Writing
  <2> QED
    BY <2>1, <2>2
<1> QED
  BY <1>1, <1>2 DEF RevisionRead, ReadFor, Writing

Changed(w) == {e \in Rows(batch[w], Wanted(w)) : Differs(w, e)}

LEMMA CommitIs ==
  ASSUME CatalystTypes, LocksOrdered, RevisionRead, NEW w \in Collector, Commit(w)
  PROVE  /\ pc[w] = "write"
         /\ \A e \in Changed(w) : Active(e) = seen[w][e] /\ e \in Event /\ knownAt[w][e] # Nil
         /\ rev' \in Seq(EventRow) /\ Revised(w, Changed(w))
         /\ check' \in Seq(CheckRow) /\ Verified(w)
         /\ \E b \in Batch, s \in Seq(Ticker) : Proceed(w, b, s)
         /\ Release(w)
         /\ UNCHANGED <<time, style, anchor, captured>>
<1> DEFINE s == Transaction(todo[w])
<1>1. /\ pc[w] = "write" /\ Release(w) /\ UNCHANGED <<time, style, anchor, captured>>
      /\ \A e \in Changed(w) : Active(e) = seen[w][e]
      /\ rev' = Superseded(Changed(w), w) \o Appended(Changed(w), w)
      /\ check' = check \o Checks(s, batch[w])
      /\ \/ Proceed(w, batch[w], SubSeq(todo[w], Len(s) + 1, Len(todo[w])))
         \/ Proceed(w, batch[w], <<>>)
  BY DEF Commit, Changed, Wanted
<1>2. \A e \in Changed(w) : e \in Event /\ knownAt[w][e] # Nil
  BY <1>1, KnownRows DEF Changed
<1>3. \A e \in Changed(w) : batch[w].payload[e] \in Item \cup {Nil}
  BY <1>2 DEF CatalystTypes, Batch
<1>4. rev' \in Seq(EventRow) /\ Revised(w, Changed(w))
  BY <1>1, <1>2, <1>3, RevisedIs
<1>5. check' \in Seq(CheckRow) /\ Verified(w)
  BY <1>1, VerifiedIs
<1>6. \E b \in Batch, u \in Seq(Ticker) : Proceed(w, b, u)
  <2>1. todo[w] \in Seq(Ticker) /\ batch[w] \in Batch
    BY DEF CatalystTypes
  <2>2. SubSeq(todo[w], Len(s) + 1, Len(todo[w])) \in Seq(Ticker)
    <3>1. s \in Seq(Ticker) /\ Len(s) \in Nat
      BY <2>1, TransactionOf
    <3> HIDE DEF s
    <3> QED
      BY <2>1, <3>1
  <2>3. <<>> \in Seq(Ticker)
    OBVIOUS
  <2> HIDE DEF s
  <2> QED
    BY <1>1, <2>1, <2>2, <2>3
<1> QED
  BY <1>1, <1>2, <1>4, <1>5, <1>6

LEMMA ActiveIs ==
  ASSUME NEW e \in Event
  PROVE  Active(e) # Nil => /\ Active(e) \in DOMAIN rev /\ rev[Active(e)].event = e
                            /\ rev[Active(e)].to = Nil
<1> DEFINE A == {i \in DOMAIN rev : rev[i].event = e /\ rev[i].to = Nil}
<1>1. A # {} => Active(e) \in A
  BY Zenon DEF Active
<1>2. A = {} => Active(e) = Nil
  BY DEF Active
<1> QED
  BY <1>1, <1>2

LEMMA ReleaseIs ==
  ASSUME CatalystTypes, NEW w \in Collector, Release(w)
  PROVE  /\ holder' \in [Key -> Collector \cup {Nil}]
         /\ \A k \in Key : holder'[k] = IF holder[k] = w THEN Nil ELSE holder[k]
BY DEF Release, CatalystTypes

LEMMA LockIs ==
  ASSUME CatalystTypes, NEW w \in Collector, Lock(w)
  PROVE  \E k \in Due(w) :
           /\ pc[w] = "lock" /\ k \in Key /\ k \in keys[w] /\ holder[k] = Nil
           /\ holder' = [holder EXCEPT ![k] = w]
           /\ keys' = [keys EXCEPT ![w] = keys[w] \ {k}]
           /\ \/ UNCHANGED <<seen, knownAt>> /\ (style = "ticker" => k[1] # "event")
              \/ \E e \in Event : /\ k = EventKey(e)
                                  /\ seen' = [seen EXCEPT ![w][e] = Active(e)]
                                  /\ knownAt' = [knownAt EXCEPT ![w][e] = time]
           /\ pc' = [pc EXCEPT ![w] = IF keys'[w] # {} THEN "lock"
                                      ELSE IF style = "bulk" THEN "read" ELSE "write"]
           /\ UNCHANGED <<time, style, anchor, batch, todo, tables, captured>>
<1>1. PICK k \in Due(w) :
        /\ holder[k] = Nil
        /\ holder' = [holder EXCEPT ![k] = w]
        /\ keys' = [keys EXCEPT ![w] = @ \ {k}]
        /\ IF style = "ticker" /\ k[1] = "event"
             THEN /\ seen' = [seen EXCEPT ![w][k[2]] = Active(k[2])]
                  /\ knownAt' = [knownAt EXCEPT ![w][k[2]] = KnowledgeTime(w)]
             ELSE UNCHANGED <<seen, knownAt>>
  BY DEF Lock
<1>2. k \in keys[w] /\ k \in Key
  BY DEF Due, CatalystTypes
<1>3. \/ UNCHANGED <<seen, knownAt>> /\ (style = "ticker" => k[1] # "event")
      \/ \E e \in Event : /\ k = EventKey(e)
                          /\ seen' = [seen EXCEPT ![w][e] = Active(e)]
                          /\ knownAt' = [knownAt EXCEPT ![w][e] = time]
  <2>1. CASE ~(style = "ticker" /\ k[1] = "event")
    BY <1>1, <2>1
  <2>2. CASE style = "ticker" /\ k[1] = "event"
    <3>1. PICK e \in Event : k = EventKey(e)
      BY <1>2, <2>2, Keys
    <3>2. k[2] = e
      BY <3>1, Keys
    <3>3. /\ seen' = [seen EXCEPT ![w][e] = Active(e)]
          /\ knownAt' = [knownAt EXCEPT ![w][e] = time]
      BY <1>1, <2>2, <3>2 DEF KnowledgeTime
    <3> QED
      BY <3>1, <3>3
  <2> QED
    BY <2>1, <2>2
<1> QED
  BY <1>1, <1>2, <1>3 DEF Lock

LEMMA ReadIs ==
  ASSUME CatalystTypes, NEW w \in Collector, ReadActive(w)
  PROVE  \E rows \in SUBSET Event :
           /\ pc[w] = "read" /\ rows = Rows(batch[w], ToSet(todo[w]))
           /\ seen' = [seen EXCEPT ![w] = [e \in Event |-> IF e \in rows THEN Active(e) ELSE Nil]]
           /\ knownAt' = [knownAt EXCEPT ![w] = [e \in Event |-> IF e \in rows THEN time ELSE Nil]]
           /\ pc' = [pc EXCEPT ![w] = "write"]
           /\ UNCHANGED <<time, style, anchor, batch, todo, keys, holder, tables, captured>>
<1> DEFINE r == Rows(batch[w], ToSet(todo[w]))
<1>1. r \in SUBSET Event
  BY DEF Rows, Events
<1> QED
  BY <1>1 DEF ReadActive, KnowledgeTime

LEMMA AbortIs ==
  ASSUME CatalystTypes, NEW w \in Collector, Abort(w)
  PROVE  /\ Release(w) /\ UNCHANGED <<time, style, anchor, tables, captured>>
         /\ \E b \in Batch, s \in Seq(Ticker) : Proceed(w, b, s)
<1>1. NoBatch \in Batch /\ <<>> \in Seq(Ticker)
  BY NoBatchType
<1> QED
  BY <1>1 DEF Abort

LEMMA CatalystTypeStep ==
  ASSUME CatalystTypes, LocksOrdered, RevisionRead, [CatalystNext]_plane
  PROVE  CatalystTypes'
<1>1. CASE Pass
  BY <1>1 DEF Pass, CatalystTypes, work, tables
<1>2. CASE CaptureBoundary
  <2>1. Len(rev) \in Nat /\ Len(check) \in Nat /\ time \in Nat
    BY DEF CatalystTypes
  <2>2. captured' \subseteq [at : Nat, revs : Nat, checks : Nat]
    BY <1>2, <2>1 DEF CaptureBoundary, CatalystTypes
  <2> QED
    BY <1>2, <2>2 DEF CaptureBoundary, CatalystTypes, work, tables
<1>3. ASSUME NEW w \in Collector, Begin(w) PROVE CatalystTypes'
  BY <1>3 DEF Begin, CatalystTypes, tables
<1>4. ASSUME NEW w \in Collector, FetchFails(w) PROVE CatalystTypes'
  BY <1>4 DEF FetchFails, CatalystTypes, tables
<1>5. ASSUME NEW w \in Collector, Lock(w) PROVE CatalystTypes'
  <2>1. PICK k \in Due(w) :
           /\ k \in Key
           /\ holder' = [holder EXCEPT ![k] = w]
           /\ keys' = [keys EXCEPT ![w] = keys[w] \ {k}]
           /\ \/ UNCHANGED <<seen, knownAt>>
              \/ \E e \in Event : /\ seen' = [seen EXCEPT ![w][e] = Active(e)]
                                  /\ knownAt' = [knownAt EXCEPT ![w][e] = time]
           /\ pc' = [pc EXCEPT ![w] = IF keys'[w] # {} THEN "lock"
                                      ELSE IF style = "bulk" THEN "read" ELSE "write"]
           /\ UNCHANGED <<time, style, anchor, batch, todo, tables, captured>>
    BY <1>5, LockIs
  <2>2. /\ pc' \in [Collector -> {"idle", "fetch", "lock", "read", "write", "done"}]
        /\ keys' \in [Collector -> SUBSET Key]
        /\ holder' \in [Key -> Collector \cup {Nil}]
    BY <2>1 DEF CatalystTypes
  <2>3. /\ seen' \in [Collector -> [Event -> Nat \cup {Nil}]]
        /\ knownAt' \in [Collector -> [Event -> Nat \cup {Nil}]]
    <3>1. \A e \in Event : Active(e) \in Nat \cup {Nil}
      BY ActiveIs DEF CatalystTypes
    <3>2. CASE UNCHANGED <<seen, knownAt>>
      BY <3>2 DEF CatalystTypes
    <3>3. ASSUME NEW e \in Event, seen' = [seen EXCEPT ![w][e] = Active(e)],
                 knownAt' = [knownAt EXCEPT ![w][e] = time]
          PROVE  /\ seen' \in [Collector -> [Event -> Nat \cup {Nil}]]
                 /\ knownAt' \in [Collector -> [Event -> Nat \cup {Nil}]]
      <4>1. Active(e) \in Nat \cup {Nil} /\ time \in Nat \cup {Nil}
        BY <3>1 DEF CatalystTypes
      <4>2. /\ seen \in [Collector -> [Event -> Nat \cup {Nil}]]
            /\ knownAt \in [Collector -> [Event -> Nat \cup {Nil}]]
        BY DEF CatalystTypes
      <4> QED
        BY <3>3, <4>1, <4>2
    <3> QED
      BY <2>1, <3>2, <3>3
  <2> QED
    BY <2>1, <2>2, <2>3 DEF CatalystTypes, tables
<1>6. ASSUME NEW w \in Collector, ReadActive(w) PROVE CatalystTypes'
  <2>1. PICK rows \in SUBSET Event :
           /\ seen' = [seen EXCEPT ![w] = [e \in Event |-> IF e \in rows THEN Active(e) ELSE Nil]]
           /\ knownAt' = [knownAt EXCEPT ![w] = [e \in Event |-> IF e \in rows THEN time ELSE Nil]]
           /\ pc' = [pc EXCEPT ![w] = "write"]
           /\ UNCHANGED <<time, style, anchor, batch, todo, keys, holder, tables, captured>>
    BY <1>6, ReadIs
  <2>2. \A e \in Event : Active(e) \in Nat \cup {Nil}
    BY ActiveIs DEF CatalystTypes
  <2>3. /\ [e \in Event |-> IF e \in rows THEN Active(e) ELSE Nil] \in [Event -> Nat \cup {Nil}]
        /\ [e \in Event |-> IF e \in rows THEN time ELSE Nil] \in [Event -> Nat \cup {Nil}]
    BY <2>2 DEF CatalystTypes
  <2> QED
    BY <2>1, <2>3 DEF CatalystTypes, tables
<1>7. ASSUME NEW w \in Collector, Commit(w) PROVE CatalystTypes'
  <2>1. PICK b \in Batch, s \in Seq(Ticker) : Proceed(w, b, s)
    BY <1>7, CommitIs
  <2>2. rev' \in Seq(EventRow) /\ check' \in Seq(CheckRow) /\ holder' \in [Key -> Collector \cup {Nil}]
    BY <1>7, CommitIs, ReleaseIs
  <2>3. UNCHANGED <<time, style, anchor, captured>>
    BY <1>7, CommitIs
  <2>4. /\ pc' \in [Collector -> {"idle", "fetch", "lock", "read", "write", "done"}]
        /\ batch' \in [Collector -> Batch]
        /\ todo' \in [Collector -> Seq(Ticker)]
        /\ keys' \in [Collector -> SUBSET Key]
        /\ seen' \in [Collector -> [Event -> Nat \cup {Nil}]]
        /\ knownAt' \in [Collector -> [Event -> Nat \cup {Nil}]]
    BY <2>1, ProceedTypes
  <2> QED
    BY <2>2, <2>3, <2>4 DEF CatalystTypes
<1>8. ASSUME NEW w \in Collector, Abort(w) PROVE CatalystTypes'
  <2>1. PICK b \in Batch, s \in Seq(Ticker) : Proceed(w, b, s)
    BY <1>8, AbortIs
  <2>2. holder' \in [Key -> Collector \cup {Nil}] /\ UNCHANGED <<time, style, anchor, rev, check, captured>>
    BY <1>8, AbortIs, ReleaseIs DEF tables
  <2>3. /\ pc' \in [Collector -> {"idle", "fetch", "lock", "read", "write", "done"}]
        /\ batch' \in [Collector -> Batch]
        /\ todo' \in [Collector -> Seq(Ticker)]
        /\ keys' \in [Collector -> SUBSET Key]
        /\ seen' \in [Collector -> [Event -> Nat \cup {Nil}]]
        /\ knownAt' \in [Collector -> [Event -> Nat \cup {Nil}]]
    BY <2>1, ProceedTypes
  <2> QED
    BY <2>2, <2>3 DEF CatalystTypes
<1>9. ASSUME NEW w \in Collector, NEW order \in Orders, NEW bad \in {{}} \cup {{t} : t \in Ticker},
             NEW E \in SUBSET Event, NEW answer \in [E -> Dates], Fetch(w, order, answer, bad)
      PROVE  CatalystTypes'
  <2>1. PICK b \in Batch, s \in Seq(Ticker) : Proceed(w, b, s)
    BY <1>9, FetchIs
  <2>2. UNCHANGED <<time, style, anchor, holder, rev, check, captured>>
    BY <1>9, FetchIs DEF tables
  <2>3. /\ pc' \in [Collector -> {"idle", "fetch", "lock", "read", "write", "done"}]
        /\ batch' \in [Collector -> Batch]
        /\ todo' \in [Collector -> Seq(Ticker)]
        /\ keys' \in [Collector -> SUBSET Key]
        /\ seen' \in [Collector -> [Event -> Nat \cup {Nil}]]
        /\ knownAt' \in [Collector -> [Event -> Nat \cup {Nil}]]
    BY <2>1, ProceedTypes
  <2> QED
    BY <2>2, <2>3 DEF CatalystTypes
<1>10. CASE UNCHANGED plane
  BY <1>10 DEF plane, work, tables, CatalystTypes
<1> QED
  BY <1>1, <1>2, <1>3, <1>4, <1>5, <1>6, <1>7, <1>8, <1>9, <1>10 DEF CatalystNext

-----------------------------------------------------------------------------
(* Locks.                                                                   *)

LEMMA OthersLocks ==
  ASSUME NEW v \in Collector, LocksFor(v), style' = style, pc'[v] = pc[v], keys'[v] = keys[v],
         batch'[v] = batch[v], todo'[v] = todo[v], Held(v)' = Held(v)
  PROVE  LocksFor(v)'
<1>1. Writing(v)' = Writing(v) /\ Wanted(v)' = Wanted(v)
  BY DEF Writing, Wanted, Transaction
<1>2. KeysOf(batch[v], Wanted(v))' = KeysOf(batch[v], Wanted(v))
  BY <1>1 DEF KeysOf, Rows, Events
<1>3. \A k, l : Precedes(k, l)' = Precedes(k, l)
  BY DEF Precedes
<1> QED
  BY <1>1, <1>2, <1>3 DEF LocksFor

LEMMA ProceedLocks ==
  ASSUME CatalystTypes, NEW w \in Collector, NEW b \in Batch, NEW s \in Seq(Ticker), Proceed(w, b, s),
         style' = style, Held(w)' = {}
  PROVE  LocksFor(w)'
<1>1. /\ pc'[w] = IF s = <<>> THEN "done" ELSE "lock"
      /\ batch'[w] = IF s = <<>> THEN NoBatch ELSE b
      /\ todo'[w] = s
      /\ keys'[w] = KeysOf(b, ToSet(Transaction(s)))
  BY DEF Proceed, CatalystTypes
<1>2. Wanted(w)' = ToSet(Transaction(s))
  BY <1>1 DEF Wanted, Transaction
<1>3. s = <<>> => keys'[w] = {}
  <2>1. s = <<>> => ToSet(Transaction(s)) = {}
    BY DEF Transaction, ToSet
  <2>2. KeysOf(b, {}) = {}
    BY DEF KeysOf, Rows, Events
  <2> QED
    BY <1>1, <2>1, <2>2
<1>4. CASE s = <<>>
  BY <1>1, <1>3, <1>4 DEF LocksFor, Writing
<1>5. CASE s # <<>>
  <2>1. keys'[w] = KeysOf(batch[w], Wanted(w))' /\ Writing(w)' /\ pc'[w] = "lock"
    BY <1>1, <1>2, <1>5 DEF Writing, KeysOf, Rows, Events
  <2> QED
    BY <2>1 DEF LocksFor
<1> QED
  BY <1>4, <1>5

LEMMA ProceedOthers ==
  ASSUME CatalystTypes, NEW w \in Collector, NEW b \in Batch, NEW s \in Seq(Ticker), Proceed(w, b, s),
         NEW v \in Collector, v # w
  PROVE  /\ pc'[v] = pc[v] /\ keys'[v] = keys[v] /\ batch'[v] = batch[v] /\ todo'[v] = todo[v]
         /\ seen'[v] = seen[v] /\ knownAt'[v] = knownAt[v]
BY DEF Proceed, CatalystTypes

LEMMA ReleaseHeld ==
  ASSUME CatalystTypes, NEW w \in Collector, Release(w)
  PROVE  Held(w)' = {} /\ \A v \in Collector : v # w => Held(v)' = Held(v)
<1>1. \A k \in Key : holder'[k] = IF holder[k] = w THEN Nil ELSE holder[k]
  BY ReleaseIs
<1>2. Nil # w /\ \A v \in Collector : Nil # v
  BY NilApart
<1> QED
  BY <1>1, <1>2 DEF Held

LEMMA ProceedLocksAll ==
  ASSUME CatalystTypes, LocksOrdered, NEW w \in Collector, NEW b \in Batch, NEW s \in Seq(Ticker),
         Proceed(w, b, s), style' = style, Held(w)' = {},
         \A v \in Collector : v # w => Held(v)' = Held(v)
  PROVE  LocksOrdered'
<1>1. LocksFor(w)'
  BY ProceedLocks
<1>2. ASSUME NEW v \in Collector, v # w PROVE LocksFor(v)'
  <2>1. LocksFor(v)
    BY DEF LocksOrdered
  <2> QED
    BY <1>2, <2>1, ProceedOthers, OthersLocks
<1> QED
  BY <1>1, <1>2 DEF LocksOrdered

\* A writer that holds no lock moves, or one that holds all it wants.
LEMMA MoveLocks ==
  ASSUME CatalystTypes, LocksOrdered, NEW w \in Collector, NEW to \in {"idle", "fetch", "read", "write", "done"},
         \/ ~Writing(w) /\ to \in {"idle", "fetch", "done"}
         \/ pc[w] = "read" /\ to = "write",
         pc' = [pc EXCEPT ![w] = to], UNCHANGED <<style, batch, todo, keys, holder>>
  PROVE  LocksOrdered'
<1>0. \A v \in Collector : Held(v)' = Held(v)
  BY DEF Held
<1>1. LocksFor(w)'
  <2>1. pc'[w] = to
    BY DEF CatalystTypes
  <2>2. LocksFor(w)
    BY DEF LocksOrdered
  <2>3. KeysOf(batch[w], Wanted(w))' = KeysOf(batch[w], Wanted(w))
    BY DEF KeysOf, Rows, Events, Wanted, Transaction
  <2>4. \A k, l : Precedes(k, l)' = Precedes(k, l)
    BY DEF Precedes
  <2>5. CASE ~Writing(w) /\ to \in {"idle", "fetch", "done"}
    BY <1>0, <2>1, <2>2, <2>3, <2>4, <2>5 DEF LocksFor, Writing
  <2>6. CASE pc[w] = "read" /\ to = "write"
    BY <1>0, <2>1, <2>2, <2>3, <2>4, <2>6 DEF LocksFor, Writing
  <2> QED
    BY <2>5, <2>6
<1>2. ASSUME NEW v \in Collector, v # w PROVE LocksFor(v)'
  <2>1. LocksFor(v) /\ pc'[v] = pc[v]
    BY <1>2 DEF LocksOrdered, CatalystTypes
  <2> QED
    BY <1>0, <2>1, OthersLocks
<1> QED
  BY <1>1, <1>2 DEF LocksOrdered

LEMMA LockLocks ==
  ASSUME CatalystTypes, LocksOrdered, NEW w \in Collector, Lock(w)
  PROVE  LocksOrdered'
<1>1. PICK k \in Due(w) :
        /\ pc[w] = "lock" /\ k \in Key /\ k \in keys[w] /\ holder[k] = Nil
        /\ holder' = [holder EXCEPT ![k] = w]
        /\ keys' = [keys EXCEPT ![w] = keys[w] \ {k}]
        /\ pc' = [pc EXCEPT ![w] = IF keys'[w] # {} THEN "lock"
                                   ELSE IF style = "bulk" THEN "read" ELSE "write"]
        /\ UNCHANGED <<time, style, anchor, batch, todo, tables, captured>>
  BY LockIs
<1>2. Held(w)' = Held(w) \cup {k} /\ \A v \in Collector : v # w => Held(v)' = Held(v)
  <2>1. \A l \in Key : holder'[l] = IF l = k THEN w ELSE holder[l]
    BY <1>1 DEF CatalystTypes
  <2> QED
    BY <1>1, <2>1, NilApart DEF Held
<1>3. LocksFor(w)'
  <2>1. keys'[w] = keys[w] \ {k}
    BY <1>1 DEF CatalystTypes
  <2>2. LocksFor(w)
    BY DEF LocksOrdered
  <2>3. KeysOf(batch[w], Wanted(w))' = KeysOf(batch[w], Wanted(w))
    BY <1>1 DEF KeysOf, Rows, Events, Wanted, Transaction
  <2>4. \A l, m : Precedes(l, m)' = Precedes(l, m)
    BY <1>1 DEF Precedes
  <2>5. pc'[w] = IF keys'[w] # {} THEN "lock" ELSE IF style = "bulk" THEN "read" ELSE "write"
    BY <1>1 DEF CatalystTypes
  <2>6. Writing(w) /\ Writing(w)'
    BY <1>1, <2>5 DEF Writing
  <2>7. Held(w)' \cup keys'[w] = KeysOf(batch[w], Wanted(w))'
    BY <1>1, <1>2, <2>1, <2>2, <2>3, <2>6 DEF LocksFor
  <2>8. \A h \in Held(w)', l \in keys'[w] : h # l /\ Precedes(h, l)'
    BY <1>1, <1>2, <2>1, <2>2, <2>4 DEF LocksFor, Due
  <2> QED
    BY <2>5, <2>6, <2>7, <2>8 DEF LocksFor
<1>4. ASSUME NEW v \in Collector, v # w PROVE LocksFor(v)'
  <2>1. LocksFor(v) /\ pc'[v] = pc[v] /\ keys'[v] = keys[v]
    BY <1>1, <1>4 DEF LocksOrdered, CatalystTypes
  <2> QED
    BY <1>1, <1>2, <1>4, <2>1, OthersLocks
<1> QED
  BY <1>3, <1>4 DEF LocksOrdered

LEMMA LocksStep ==
  ASSUME CatalystTypes, LocksOrdered, RevisionRead, [CatalystNext]_plane
  PROVE  LocksOrdered'
<1>1. CASE Pass \/ CaptureBoundary \/ UNCHANGED plane
  <2>1. UNCHANGED <<style, work, holder>>
    BY <1>1 DEF Pass, CaptureBoundary, plane
  <2>2. ASSUME NEW v \in Collector PROVE LocksFor(v)'
    <3>1. LocksFor(v) /\ Held(v)' = Held(v)
      BY <2>1 DEF LocksOrdered, Held
    <3> QED
      BY <2>1, <3>1, OthersLocks DEF work
  <2> QED
    BY <2>2 DEF LocksOrdered
<1>3. ASSUME NEW w \in Collector, Begin(w) PROVE LocksOrdered'
  BY <1>3, MoveLocks DEF Begin, Writing
<1>4. ASSUME NEW w \in Collector, FetchFails(w) PROVE LocksOrdered'
  BY <1>4, MoveLocks DEF FetchFails, Writing
<1>5. ASSUME NEW w \in Collector, Lock(w) PROVE LocksOrdered'
  BY <1>5, LockLocks
<1>6. ASSUME NEW w \in Collector, ReadActive(w) PROVE LocksOrdered'
  BY <1>6, MoveLocks DEF ReadActive
<1>7. ASSUME NEW w \in Collector, Commit(w) PROVE LocksOrdered'
  <2>1. PICK b \in Batch, s \in Seq(Ticker) : Proceed(w, b, s)
    BY <1>7, CommitIs
  <2>2. Release(w) /\ style' = style
    BY <1>7, CommitIs
  <2> QED
    BY <2>1, <2>2, ReleaseHeld, ProceedLocksAll
<1>8. ASSUME NEW w \in Collector, Abort(w) PROVE LocksOrdered'
  <2>1. PICK b \in Batch, s \in Seq(Ticker) : Proceed(w, b, s)
    BY <1>8, AbortIs
  <2>2. Release(w) /\ style' = style
    BY <1>8, AbortIs
  <2> QED
    BY <2>1, <2>2, ReleaseHeld, ProceedLocksAll
<1>9. ASSUME NEW w \in Collector, NEW order \in Orders, NEW bad \in {{}} \cup {{t} : t \in Ticker},
             NEW E \in SUBSET Event, NEW answer \in [E -> Dates], Fetch(w, order, answer, bad)
      PROVE  LocksOrdered'
  <2>1. PICK b \in Batch, s \in Seq(Ticker) : Proceed(w, b, s)
    BY <1>9, FetchIs
  <2>2. pc[w] = "fetch" /\ UNCHANGED <<style, holder>>
    BY <1>9, FetchIs
  <2>3. Held(w)' = {}
    BY <2>2 DEF LocksOrdered, LocksFor, Writing, Held
  <2>4. \A v \in Collector : Held(v)' = Held(v)
    BY <2>2 DEF Held
  <2> QED
    BY <2>1, <2>2, <2>3, <2>4, ProceedLocksAll
<1> QED
  BY <1>1, <1>3, <1>4, <1>5, <1>6, <1>7, <1>8, <1>9 DEF CatalystNext

-----------------------------------------------------------------------------
(* What a writer read.                                                      *)

\* The table keeps its rows, but for their ends, and time passes.
RowsKept ==
  /\ \A i \in DOMAIN rev : i \in DOMAIN rev' /\ rev'[i].event = rev[i].event /\ rev'[i].from = rev[i].from
  /\ time <= time' /\ time \in Nat /\ time' \in Nat

LEMMA RowsStay ==
  ASSUME CatalystTypes, UNCHANGED rev, time' \in Nat, time <= time'
  PROVE  RowsKept
BY DEF RowsKept, CatalystTypes

LEMMA OthersRead ==
  ASSUME CatalystTypes, NEW v \in Collector, ReadFor(v), RowsKept, style' = style, pc'[v] = pc[v],
         batch'[v] = batch[v], todo'[v] = todo[v], Held(v)' = Held(v),
         seen'[v] = seen[v], knownAt'[v] = knownAt[v]
  PROVE  ReadFor(v)'
<1>1. Writing(v)' = Writing(v) /\ Rows(batch[v], Wanted(v))' = Rows(batch[v], Wanted(v))
  BY DEF Writing, Wanted, Transaction, Rows, Events
<1> SUFFICES ASSUME NEW e \in Event
             PROVE  /\ seen'[v][e] # Nil => /\ seen'[v][e] \in DOMAIN rev'
                                            /\ rev'[seen'[v][e]].event = e
                                            /\ knownAt'[v][e] # Nil
                                            /\ rev'[seen'[v][e]].from <= knownAt'[v][e]
                    /\ knownAt'[v][e] # Nil => knownAt'[v][e] <= time'
                    /\ /\ Writing(v)'
                       /\ IF style' = "ticker" THEN EventKey(e) \in Held(v)'
                          ELSE pc'[v] = "write" /\ e \in Rows(batch[v], Wanted(v))'
                       => knownAt'[v][e] # Nil
  BY DEF ReadFor
<1>2. knownAt[v][e] # Nil => knownAt[v][e] \in Nat
  BY DEF CatalystTypes
<1>3. knownAt[v][e] # Nil => knownAt[v][e] <= time'
  BY <1>2 DEF ReadFor, RowsKept
<1>4. seen[v][e] # Nil => /\ seen[v][e] \in DOMAIN rev'
                          /\ rev'[seen[v][e]].event = e
                          /\ knownAt[v][e] # Nil
                          /\ rev'[seen[v][e]].from <= knownAt[v][e]
  BY DEF ReadFor, RowsKept
<1> QED
  BY <1>1, <1>3, <1>4 DEF ReadFor

LEMMA ProceedRead ==
  ASSUME CatalystTypes, NEW w \in Collector, NEW b \in Batch, NEW s \in Seq(Ticker), Proceed(w, b, s),
         Held(w)' = {}
  PROVE  ReadFor(w)'
<1>1. \A e \in Event : seen'[w][e] = Nil /\ knownAt'[w][e] = Nil
  BY DEF Proceed, CatalystTypes, NoEvents
<1>2. pc'[w] # "write"
  BY DEF Proceed, CatalystTypes
<1> QED
  BY <1>1, <1>2 DEF ReadFor

LEMMA ProceedReadAll ==
  ASSUME CatalystTypes, RevisionRead, NEW w \in Collector, NEW b \in Batch, NEW s \in Seq(Ticker),
         Proceed(w, b, s), style' = style, Held(w)' = {}, RowsKept,
         \A v \in Collector : v # w => Held(v)' = Held(v)
  PROVE  RevisionRead'
<1>1. ReadFor(w)'
  BY ProceedRead
<1>2. ASSUME NEW v \in Collector, v # w PROVE ReadFor(v)'
  <2>1. ReadFor(v)
    BY DEF RevisionRead
  <2> QED
    BY <1>2, <2>1, ProceedOthers, OthersRead
<1> QED
  BY <1>1, <1>2 DEF RevisionRead

\* A writer that has read nothing yet moves outside of a transaction.
LEMMA MoveRead ==
  ASSUME CatalystTypes, RevisionRead, NEW w \in Collector, NEW to \in {"fetch", "done"},
         pc' = [pc EXCEPT ![w] = to],
         UNCHANGED <<time, style, batch, todo, seen, knownAt, holder, rev>>
  PROVE  RevisionRead'
<1>0. RowsKept /\ \A v \in Collector : Held(v)' = Held(v)
  BY RowsStay DEF Held, CatalystTypes
<1>1. ReadFor(w)'
  <2>1. ~Writing(w)'
    BY DEF Writing, CatalystTypes
  <2>2. ReadFor(w)
    BY DEF RevisionRead
  <2> QED
    BY <2>1, <2>2 DEF ReadFor
<1>2. ASSUME NEW v \in Collector, v # w PROVE ReadFor(v)'
  <2>1. ReadFor(v) /\ pc'[v] = pc[v]
    BY <1>2 DEF RevisionRead, CatalystTypes
  <2> QED
    BY <1>0, <2>1, OthersRead
<1> QED
  BY <1>1, <1>2 DEF RevisionRead

LEMMA LockRead ==
  ASSUME CatalystTypes, RevisionRead, LastIsActive, NEW w \in Collector, Lock(w)
  PROVE  RevisionRead'
<1>1. PICK k \in Due(w) :
        /\ pc[w] = "lock" /\ k \in Key /\ k \in keys[w] /\ holder[k] = Nil
        /\ holder' = [holder EXCEPT ![k] = w]
        /\ \/ UNCHANGED <<seen, knownAt>> /\ (style = "ticker" => k[1] # "event")
           \/ \E e \in Event : /\ k = EventKey(e)
                               /\ seen' = [seen EXCEPT ![w][e] = Active(e)]
                               /\ knownAt' = [knownAt EXCEPT ![w][e] = time]
        /\ pc' = [pc EXCEPT ![w] = IF keys'[w] # {} THEN "lock"
                                   ELSE IF style = "bulk" THEN "read" ELSE "write"]
        /\ UNCHANGED <<time, style, anchor, batch, todo, tables, captured>>
  BY LockIs
<1>2. Held(w)' = Held(w) \cup {k} /\ \A v \in Collector : v # w => Held(v)' = Held(v)
  <2>1. \A l \in Key : holder'[l] = IF l = k THEN w ELSE holder[l]
    BY <1>1 DEF CatalystTypes
  <2> QED
    BY <1>1, <2>1, NilApart DEF Held
<1>3. time \in Nat /\ time' = time /\ rev' = rev /\ RowsKept
  BY <1>1, RowsStay DEF CatalystTypes, tables
<1>4. pc'[w] = "write" => style # "bulk"
  BY <1>1 DEF CatalystTypes
<1>5. ReadFor(w)'
  <2>0. ReadFor(w) /\ Writing(w)
    BY <1>1 DEF RevisionRead, Writing
  <2>s. style = "ticker" \/ style = "bulk"
    BY CatalystAssumption DEF CatalystTypes
  <2> SUFFICES ASSUME NEW e \in Event
               PROVE  /\ seen'[w][e] # Nil => /\ seen'[w][e] \in DOMAIN rev
                                              /\ rev[seen'[w][e]].event = e
                                              /\ knownAt'[w][e] # Nil
                                              /\ rev[seen'[w][e]].from <= knownAt'[w][e]
                      /\ knownAt'[w][e] # Nil => knownAt'[w][e] <= time
                      /\ style = "ticker" /\ EventKey(e) \in Held(w)' => knownAt'[w][e] # Nil
    BY <1>1, <1>3, <1>4, <2>s DEF ReadFor
  <2>1. CASE k = EventKey(e) /\ seen'[w][e] = Active(e) /\ knownAt'[w][e] = time
    <3>1. time # Nil
      BY <1>3, NilApart
    <3> QED
      BY <1>3, <2>1, <3>1, ActiveIs DEF LastIsActive
  <2>2. CASE /\ seen'[w][e] = seen[w][e] /\ knownAt'[w][e] = knownAt[w][e]
             /\ style = "ticker" => k # EventKey(e)
    BY <1>2, <2>0, <2>2 DEF ReadFor
  <2>3. CASE UNCHANGED <<seen, knownAt>> /\ (style = "ticker" => k[1] # "event")
    BY <2>2, <2>3, Keys
  <2>4. ASSUME NEW f \in Event, k = EventKey(f), seen' = [seen EXCEPT ![w][f] = Active(f)],
               knownAt' = [knownAt EXCEPT ![w][f] = time]
        PROVE  \/ k = EventKey(e) /\ seen'[w][e] = Active(e) /\ knownAt'[w][e] = time
               \/ /\ seen'[w][e] = seen[w][e] /\ knownAt'[w][e] = knownAt[w][e]
                  /\ style = "ticker" => k # EventKey(e)
    <3>1. CASE f = e
      BY <2>4, <3>1 DEF CatalystTypes
    <3>2. CASE f # e
      <4>1. k # EventKey(e)
        BY <2>4, <3>2, Keys
      <4>2. seen'[w][e] = seen[w][e] /\ knownAt'[w][e] = knownAt[w][e]
        BY <2>4, <3>2 DEF CatalystTypes
      <4> QED
        BY <4>1, <4>2
    <3> QED
      BY <3>1, <3>2
  <2> QED
    BY <1>1, <2>1, <2>2, <2>3, <2>4
<1>6. ASSUME NEW v \in Collector, v # w PROVE ReadFor(v)'
  <2>1. ReadFor(v) /\ pc'[v] = pc[v] /\ seen'[v] = seen[v] /\ knownAt'[v] = knownAt[v]
    BY <1>1, <1>6 DEF RevisionRead, CatalystTypes
  <2> QED
    BY <1>1, <1>2, <1>3, <1>6, <2>1, OthersRead
<1> QED
  BY <1>5, <1>6 DEF RevisionRead

LEMMA ActiveRead ==
  ASSUME CatalystTypes, LocksOrdered, RevisionRead, LastIsActive, NEW w \in Collector, ReadActive(w)
  PROVE  RevisionRead'
<1>1. PICK rows \in SUBSET Event :
        /\ pc[w] = "read" /\ rows = Rows(batch[w], ToSet(todo[w]))
        /\ seen' = [seen EXCEPT ![w] = [e \in Event |-> IF e \in rows THEN Active(e) ELSE Nil]]
        /\ knownAt' = [knownAt EXCEPT ![w] = [e \in Event |-> IF e \in rows THEN time ELSE Nil]]
        /\ pc' = [pc EXCEPT ![w] = "write"]
        /\ UNCHANGED <<time, style, anchor, batch, todo, keys, holder, tables, captured>>
  BY ReadIs
<1>2. \A v \in Collector : Held(v)' = Held(v)
  BY <1>1 DEF Held
<1>3. time \in Nat /\ time' = time /\ rev' = rev /\ RowsKept
  BY <1>1, RowsStay DEF CatalystTypes, tables
<1>4. ReadFor(w)'
  <2>1. \A e \in Event : /\ seen'[w][e] = IF e \in rows THEN Active(e) ELSE Nil
                         /\ knownAt'[w][e] = IF e \in rows THEN time ELSE Nil
    <3> DEFINE f == [e \in Event |-> IF e \in rows THEN Active(e) ELSE Nil]
               g == [e \in Event |-> IF e \in rows THEN time ELSE Nil]
    <3>1. seen' = [seen EXCEPT ![w] = f] /\ knownAt' = [knownAt EXCEPT ![w] = g]
      BY <1>1
    <3> HIDE DEF f, g
    <3>2. seen'[w] = f /\ knownAt'[w] = g
      BY <3>1 DEF CatalystTypes
    <3> QED
      BY <3>2 DEF f, g
  <2>2. Rows(batch[w], Wanted(w)) \subseteq rows
    <3>1. todo[w] \in Seq(Ticker)
      BY DEF CatalystTypes
    <3>2. Wanted(w) \subseteq ToSet(todo[w])
      <4>1. CASE todo[w] = <<>> \/ style = "bulk"
        BY <4>1 DEF Wanted, Transaction
      <4>2. CASE todo[w] # <<>> /\ style # "bulk"
        <5>1. Head(todo[w]) \in ToSet(todo[w])
          BY <3>1, <4>2 DEF ToSet
        <5> QED
          BY <4>2, <5>1 DEF Wanted, Transaction, ToSet
      <4> QED
        BY <4>1, <4>2
    <3> QED
      BY <1>1, <3>2 DEF Rows, Events
  <2>3. \A e \in Event : EventKey(e) \in Held(w) => e \in Rows(batch[w], Wanted(w))
    <3>1. Held(w) \subseteq KeysOf(batch[w], Wanted(w))
      BY <1>1 DEF LocksOrdered, LocksFor, Writing
    <3> QED
      BY <3>1, Keys DEF KeysOf
  <2>4. Rows(batch[w], Wanted(w))' = Rows(batch[w], Wanted(w))
    BY <1>1 DEF Rows, Events, Wanted, Transaction
  <2> SUFFICES ASSUME NEW e \in Event
               PROVE  /\ seen'[w][e] # Nil => /\ seen'[w][e] \in DOMAIN rev
                                              /\ rev[seen'[w][e]].event = e
                                              /\ knownAt'[w][e] # Nil
                                              /\ rev[seen'[w][e]].from <= knownAt'[w][e]
                      /\ knownAt'[w][e] # Nil => knownAt'[w][e] <= time
                      /\ EventKey(e) \in Held(w) \/ e \in Rows(batch[w], Wanted(w))
                         => knownAt'[w][e] # Nil
    BY <1>1, <1>2, <1>3, <2>4 DEF ReadFor
  <2>5. time # Nil
    BY <1>3, NilApart
  <2>6. CASE e \in rows
    <3>1. seen'[w][e] = Active(e) /\ knownAt'[w][e] = time
      BY <2>1, <2>6
    <3> QED
      BY <1>3, <2>5, <3>1, ActiveIs DEF LastIsActive
  <2>7. CASE e \notin rows
    <3>1. seen'[w][e] = Nil /\ knownAt'[w][e] = Nil
      BY <2>1, <2>7
    <3> QED
      BY <2>2, <2>3, <2>7, <3>1
  <2> QED
    BY <2>6, <2>7
<1>5. ASSUME NEW v \in Collector, v # w PROVE ReadFor(v)'
  <2>1. ReadFor(v) /\ pc'[v] = pc[v] /\ seen'[v] = seen[v] /\ knownAt'[v] = knownAt[v]
    BY <1>1, <1>5 DEF RevisionRead, CatalystTypes
  <2> QED
    BY <1>1, <1>2, <1>3, <1>5, <2>1, OthersRead
<1> QED
  BY <1>4, <1>5 DEF RevisionRead

LEMMA ReadStep ==
  ASSUME CatalystTypes, LocksOrdered, RevisionRead, LastIsActive, [CatalystNext]_plane
  PROVE  RevisionRead'
<1>1. CASE Pass \/ CaptureBoundary \/ UNCHANGED plane
  <2>1. UNCHANGED <<style, work, holder, rev>> /\ time' \in {time, time + 1}
    BY <1>1 DEF Pass, CaptureBoundary, plane, tables
  <2>2. RowsKept
    BY <2>1, RowsStay DEF CatalystTypes
  <2>3. ASSUME NEW v \in Collector PROVE ReadFor(v)'
    <3>1. ReadFor(v) /\ Held(v)' = Held(v)
      BY <2>1 DEF RevisionRead, Held
    <3> QED
      BY <2>1, <2>2, <3>1, OthersRead DEF work
  <2> QED
    BY <2>3 DEF RevisionRead
<1>3. ASSUME NEW w \in Collector, Begin(w) PROVE RevisionRead'
  BY <1>3, MoveRead DEF Begin, tables
<1>4. ASSUME NEW w \in Collector, FetchFails(w) PROVE RevisionRead'
  BY <1>4, MoveRead DEF FetchFails, tables
<1>5. ASSUME NEW w \in Collector, Lock(w) PROVE RevisionRead'
  BY <1>5, LockRead
<1>6. ASSUME NEW w \in Collector, ReadActive(w) PROVE RevisionRead'
  BY <1>6, ActiveRead
<1>7. ASSUME NEW w \in Collector, Commit(w) PROVE RevisionRead'
  <2>1. PICK b \in Batch, s \in Seq(Ticker) : Proceed(w, b, s)
    BY <1>7, CommitIs
  <2>2. Release(w) /\ style' = style /\ time' = time /\ rev' \in Seq(EventRow) /\ Revised(w, Changed(w))
    BY <1>7, CommitIs
  <2>3. RowsKept
    <3>1. rev \in Seq(EventRow) /\ time \in Nat
      BY DEF CatalystTypes
    <3> QED
      BY <2>2, <3>1 DEF RowsKept, Revised
  <2> QED
    BY <2>1, <2>2, <2>3, ReleaseHeld, ProceedReadAll
<1>8. ASSUME NEW w \in Collector, Abort(w) PROVE RevisionRead'
  <2>1. PICK b \in Batch, s \in Seq(Ticker) : Proceed(w, b, s)
    BY <1>8, AbortIs
  <2>2. Release(w) /\ UNCHANGED <<time, style, rev>>
    BY <1>8, AbortIs DEF tables
  <2>3. RowsKept
    BY <2>2, RowsStay DEF CatalystTypes
  <2> QED
    BY <2>1, <2>2, <2>3, ReleaseHeld, ProceedReadAll
<1>9. ASSUME NEW w \in Collector, NEW order \in Orders, NEW bad \in {{}} \cup {{t} : t \in Ticker},
             NEW E \in SUBSET Event, NEW answer \in [E -> Dates], Fetch(w, order, answer, bad)
      PROVE  RevisionRead'
  <2>1. PICK b \in Batch, s \in Seq(Ticker) : Proceed(w, b, s)
    BY <1>9, FetchIs
  <2>2. pc[w] = "fetch" /\ UNCHANGED <<time, style, holder, rev>>
    BY <1>9, FetchIs DEF tables
  <2>3. Held(w)' = {}
    BY <2>2 DEF LocksOrdered, LocksFor, Writing, Held
  <2>4. RowsKept /\ \A v \in Collector : Held(v)' = Held(v)
    BY <2>2, RowsStay DEF Held, CatalystTypes
  <2> QED
    BY <2>1, <2>2, <2>3, <2>4, ProceedReadAll
<1> QED
  BY <1>1, <1>3, <1>4, <1>5, <1>6, <1>7, <1>8, <1>9 DEF CatalystNext

-----------------------------------------------------------------------------
(* The tables.                                                              *)

LEMMA RowTypes ==
  ASSUME CatalystTypes
  PROVE  /\ time \in Nat /\ Len(rev) \in Nat /\ DOMAIN rev = 1..Len(rev)
         /\ \A i \in DOMAIN rev : /\ rev[i].event \in Event /\ rev[i].from \in Nat
                                /\ rev[i].to \in Nat \cup {Nil}
<1>1. rev \in Seq(EventRow) /\ time \in Nat
  BY DEF CatalystTypes
<1>2. \A i \in DOMAIN rev : rev[i] \in EventRow
  BY <1>1
<1> QED
  BY <1>1, <1>2 DEF EventRow

\* A commit closes exactly the active revisions of the events it changes.
LEMMA ClosedAre ==
  ASSUME CatalystTypes, RevisionRead, LastIsActive, NEW w \in Collector, NEW changed \in SUBSET Event,
         \A e \in changed : Active(e) = seen[w][e], NEW i \in DOMAIN rev
  PROVE  /\ (\E e \in changed : seen[w][e] = i) <=> rev[i].event \in changed /\ rev[i].to = Nil
         /\ rev[i].event \in changed /\ rev[i].to = Nil => seen[w][rev[i].event] = i
<1>0. i \in Nat /\ DOMAIN rev \subseteq Nat /\ Nil \notin Nat
  BY NilApart DEF CatalystTypes
<1>1. ASSUME NEW e \in changed, seen[w][e] = i PROVE rev[i].event \in changed /\ rev[i].to = Nil
  <2>1. Active(e) = i /\ i # Nil
    BY <1>0, <1>1
  <2> QED
    BY <2>1, ActiveIs
<1>2. ASSUME rev[i].event \in changed, rev[i].to = Nil PROVE seen[w][rev[i].event] = i
  <2> DEFINE e == rev[i].event
             A == {k \in DOMAIN rev : rev[k].event = e /\ rev[k].to = Nil}
  <2>1. i \in A
    BY <1>2
  <2>2. Active(e) \in A
    BY <2>1, Zenon DEF Active
  <2> DEFINE a == Active(e)
  <2>3. a \in DOMAIN rev /\ rev[a].event = e /\ rev[a].to = Nil
    BY <2>2
  <2> HIDE DEF a
  <2>4. ~(a < i) /\ ~(i < a)
    BY <1>2, <2>3 DEF LastIsActive
  <2>5. a = i
    BY <1>0, <2>3, <2>4
  <2>6. seen[w][e] = Active(e)
    BY <1>2
  <2> QED
    BY <2>5, <2>6 DEF a
<1> QED
  BY <1>1, <1>2

LEMMA HistoryStep ==
  ASSUME CatalystTypes, RevisionRead, LastIsActive, HistoryContiguous, NEW w \in Collector,
         NEW changed \in SUBSET Event,
         \A e \in changed : Active(e) = seen[w][e] /\ knownAt[w][e] # Nil,
         rev' \in Seq(EventRow), Revised(w, changed), time' = time
  PROVE  LastIsActive' /\ HistoryContiguous'
<1> DEFINE m == Len(rev)
           n == Len(rev')
           New == m+1..n
<1>1. m \in Nat /\ n \in Nat /\ m <= n /\ DOMAIN rev = 1..m /\ DOMAIN rev' = 1..n
  BY DEF CatalystTypes, Revised
<1>2. DOMAIN rev' \ DOMAIN rev = New
  BY <1>1
<1> HIDE DEF m, n
<1>3. \A i \in 1..m :
        /\ rev'[i].event = rev[i].event /\ rev'[i].from = rev[i].from
        /\ rev'[i].to = IF rev[i].event \in changed /\ rev[i].to = Nil
                        THEN knownAt[w][rev[i].event] ELSE rev[i].to
        /\ rev[i].event \in changed /\ rev[i].to = Nil => seen[w][rev[i].event] = i
  <2> SUFFICES ASSUME NEW i \in 1..m
               PROVE  /\ rev'[i].event = rev[i].event /\ rev'[i].from = rev[i].from
                      /\ rev'[i].to = IF rev[i].event \in changed /\ rev[i].to = Nil
                                      THEN knownAt[w][rev[i].event] ELSE rev[i].to
                      /\ rev[i].event \in changed /\ rev[i].to = Nil => seen[w][rev[i].event] = i
    OBVIOUS
  <2>1. i \in DOMAIN rev
    BY <1>1
  <2>2. /\ (\E e \in changed : seen[w][e] = i) <=> rev[i].event \in changed /\ rev[i].to = Nil
        /\ rev[i].event \in changed /\ rev[i].to = Nil => seen[w][rev[i].event] = i
    BY <2>1, ClosedAre
  <2>3. /\ rev'[i].event = rev[i].event /\ rev'[i].from = rev[i].from
        /\ rev'[i].to = IF \E e \in changed : seen[w][e] = i THEN knownAt[w][rev[i].event]
                        ELSE rev[i].to
    BY <2>1 DEF Revised
  <2> QED
    BY <2>2, <2>3
<1>4. /\ \A i \in New : /\ rev'[i].event \in changed /\ rev'[i].to = Nil
                        /\ rev'[i].from = knownAt[w][rev'[i].event]
      /\ \A i, j \in New : rev'[i].event = rev'[j].event => i = j
      /\ \A e \in changed : \E i \in New : rev'[i].event = e
  BY <1>2 DEF Revised
<1>5. \A e \in changed : e \in Event /\ knownAt[w][e] \in Nat /\ knownAt[w][e] <= time
  BY DEF CatalystTypes, RevisionRead, ReadFor
<1>6. \A i \in 1..m : /\ rev[i].to \in Nat \cup {Nil} /\ rev[i].from \in Nat
                      /\ rev[i].to = Nil <=> \A j \in 1..m : i < j => rev[j].event # rev[i].event
                      /\ rev[i].from <= time
  BY <1>1, RowTypes DEF LastIsActive
<1>7. Nil \notin Nat
  BY NilApart
<1>8. \A i \in 1..n : i \in 1..m \/ i \in New
  BY <1>1
<1>9. \A i \in 1..m, j \in New : i < j /\ i \in 1..n /\ j \in 1..n
  BY <1>1
<1> HIDE DEF New
<1>10. ASSUME NEW i \in 1..n
       PROVE  /\ rev'[i].to = Nil <=> \A j \in 1..n : i < j => rev'[j].event # rev'[i].event
              /\ rev'[i].from <= time
  <2>1. CASE i \in 1..m
    <3>1. rev'[i].from <= time
      BY <1>3, <1>6, <2>1
    <3>2. CASE rev[i].event \in changed
      <4>1. rev'[i].to # Nil
        BY <1>3, <1>5, <1>7, <2>1, <3>2
      <4>2. \E j \in New : rev'[j].event = rev[i].event
        BY <1>4, <3>2
      <4> QED
        BY <1>3, <1>9, <2>1, <3>1, <4>1, <4>2
    <3>3. CASE rev[i].event \notin changed
      <4>1. rev'[i].to = rev[i].to /\ rev'[i].event = rev[i].event
        BY <1>3, <2>1, <3>3
      <4>2. \A j \in New : rev'[j].event # rev[i].event
        BY <1>4, <3>3
      <4>3. (\A j \in 1..n : i < j => rev'[j].event # rev[i].event)
              <=> (\A j \in 1..m : i < j => rev[j].event # rev[i].event)
        <5>1. ASSUME NEW j \in 1..m PROVE j \in 1..n /\ rev'[j].event = rev[j].event
          BY <1>1, <1>3
        <5> QED
          BY <1>8, <4>2, <5>1
      <4> QED
        BY <1>6, <2>1, <3>1, <4>1, <4>3
    <3> QED
      BY <3>2, <3>3
  <2>2. CASE i \in New
    <3>1. rev'[i].to = Nil /\ rev'[i].from <= time
      BY <1>4, <1>5, <2>2
    <3>2. ASSUME NEW j \in 1..n, i < j PROVE rev'[j].event # rev'[i].event
      <4>1. j \in New
        <5>1. j \notin 1..m
          BY <1>1, <1>9, <2>2, <3>2
        <5> QED
          BY <1>8, <5>1
      <4> QED
        BY <1>1, <1>4, <2>2, <3>2, <4>1
    <3> QED
      BY <3>1, <3>2
  <2> QED
    BY <1>8, <2>1, <2>2
<1>11. ASSUME NEW i \in 1..n, NEW j \in 1..n, i < j, rev'[i].event = rev'[j].event,
              \A k \in i+1..j-1 : rev'[k].event # rev'[i].event
       PROVE  rev'[i].to = rev'[j].from /\ rev'[i].from <= rev'[j].from
  <2>1. CASE j \in 1..m
    <3>1. i \in 1..m
      BY <1>1, <1>11, <2>1
    <3>2. \A k \in i+1..j-1 : rev[k].event # rev[i].event
      <4>1. \A k \in i+1..j-1 : k \in 1..m
        BY <1>1, <2>1, <3>1
      <4> QED
        BY <1>3, <1>11, <3>1, <4>1
    <3>3. rev[i].event = rev[j].event
      BY <1>3, <1>11, <2>1, <3>1
    <3>4. rev[i].to = rev[j].from /\ rev[i].from <= rev[j].from
      BY <1>1, <1>11, <2>1, <3>1, <3>2, <3>3 DEF HistoryContiguous
    <3>5. rev[i].to # Nil
      BY <1>6, <1>7, <2>1, <3>4
    <3> QED
      BY <1>3, <2>1, <3>1, <3>4, <3>5
  <2>2. CASE j \in New
    <3>1. i \notin New
      BY <1>1, <1>4, <1>11, <2>2
    <3>2. i \in 1..m
      BY <1>8, <3>1
    <3>3. \A k \in 1..m : i < k => rev[k].event # rev[i].event
      <4>1. \A k \in 1..m : i < k => k \in i+1..j-1
        BY <1>1, <1>9, <2>2
      <4> QED
        BY <1>3, <1>11, <3>2, <4>1
    <3>4. rev[i].to = Nil
      BY <1>6, <3>2, <3>3
    <3>5. rev[i].event \in changed /\ rev'[j].from = knownAt[w][rev[i].event]
      BY <1>3, <1>4, <1>11, <2>2, <3>2
    <3>6. rev'[i].to = knownAt[w][rev[i].event] /\ seen[w][rev[i].event] = i
          /\ rev'[i].from = rev[i].from
      BY <1>3, <3>2, <3>4, <3>5
    <3>7. rev[i].from <= knownAt[w][rev[i].event]
      <4>1. i # Nil /\ rev[i].event \in Event
        BY <1>5, <1>7, <3>2, <3>5
      <4> QED
        BY <3>6, <4>1 DEF RevisionRead, ReadFor
    <3> QED
      BY <3>5, <3>6, <3>7
  <2> QED
    BY <1>8, <2>1, <2>2
<1>12. LastIsActive'
  BY <1>1, <1>10 DEF LastIsActive
<1>13. HistoryContiguous'
  BY <1>1, <1>11 DEF HistoryContiguous
<1> QED
  BY <1>12, <1>13

LEMMA BackedStep ==
  ASSUME CatalystTypes, RevisionRead, ChecksBacked, NEW w \in Collector,
         rev' \in Seq(EventRow), Revised(w, Changed(w)), check' \in Seq(CheckRow), Verified(w),
         captured' = captured
  PROVE  ChecksBacked'
<1>1. /\ Len(rev) \in Nat /\ Len(rev') \in Nat /\ Len(rev) <= Len(rev')
      /\ DOMAIN rev = 1..Len(rev) /\ DOMAIN rev' = 1..Len(rev')
      /\ \A i \in DOMAIN rev : rev'[i].event = rev[i].event /\ rev'[i].from = rev[i].from
  BY DEF CatalystTypes, Revised
<1>2. /\ Len(check) \in Nat /\ Len(check') \in Nat /\ Len(check) <= Len(check')
      /\ DOMAIN check = 1..Len(check) /\ DOMAIN check' = 1..Len(check')
      /\ \A i \in DOMAIN check : check'[i] = check[i]
  BY DEF CatalystTypes, Verified
<1>3. \A e : (\E j \in DOMAIN rev : rev[j].event = e) => \E j \in DOMAIN rev' : rev'[j].event = e
  BY <1>1
<1>4. ASSUME NEW i \in DOMAIN check', NEW e \in check'[i].ids
      PROVE  \E j \in DOMAIN rev' : rev'[j].event = e
  <2>1. CASE i \in DOMAIN check
    BY <1>2, <1>3, <1>4, <2>1 DEF ChecksBacked
  <2>2. CASE i \notin DOMAIN check
    <3>1. e \in Rows(batch[w], Wanted(w))
      BY <1>4, <2>2 DEF Verified
    <3>2. CASE e \in Changed(w)
      BY <3>2 DEF Revised
    <3>3. CASE e \notin Changed(w)
      <4>1. seen[w][e] # Nil /\ e \in Event
        BY <3>1, <3>3 DEF Changed, Differs, Rows, Events
      <4>2. seen[w][e] \in DOMAIN rev /\ rev[seen[w][e]].event = e
        BY <4>1 DEF RevisionRead, ReadFor
      <4> QED
        BY <1>3, <4>2
    <3> QED
      BY <3>2, <3>3
  <2> QED
    BY <2>1, <2>2
<1>5. ASSUME NEW b \in captured
      PROVE  /\ b.revs <= Len(rev') /\ b.checks <= Len(check')
             /\ \A i \in 1..b.revs : rev'[i].from <= b.at
             /\ \A i \in 1..b.checks : \A e \in check'[i].ids : \E j \in 1..b.revs : rev'[j].event = e
  <2>1. /\ b.revs \in Nat /\ b.checks \in Nat /\ b.revs <= Len(rev) /\ b.checks <= Len(check)
        /\ \A i \in 1..b.revs : rev[i].from <= b.at
        /\ \A i \in 1..b.checks : \A e \in check[i].ids : \E j \in 1..b.revs : rev[j].event = e
    BY DEF ChecksBacked, CatalystTypes
  <2>2. 1..b.revs \subseteq DOMAIN rev /\ 1..b.checks \subseteq DOMAIN check
    BY <1>1, <1>2, <2>1
  <2>3. /\ \A i \in 1..b.revs : rev'[i].event = rev[i].event /\ rev'[i].from = rev[i].from
        /\ \A i \in 1..b.checks : check'[i] = check[i]
    BY <1>1, <1>2, <2>2
  <2>4. b.revs <= Len(rev') /\ b.checks <= Len(check')
    BY <1>1, <1>2, <2>1
  <2> QED
    BY <2>1, <2>3, <2>4
<1> QED
  BY <1>4, <1>5 DEF ChecksBacked

LEMMA CaptureStep ==
  ASSUME CatalystTypes, LastIsActive, ChecksBacked, CaptureBoundary
  PROVE  ChecksBacked'
<1> DEFINE b == [at |-> time, revs |-> Len(rev), checks |-> Len(check)]
<1>1. captured' = captured \cup {b} /\ UNCHANGED <<time, rev, check>>
  BY DEF CaptureBoundary, tables
<1>2. DOMAIN rev = 1..Len(rev) /\ DOMAIN check = 1..Len(check) /\ Len(rev) \in Nat /\ Len(check) \in Nat
  BY DEF CatalystTypes
<1>3. /\ b.revs <= Len(rev) /\ b.checks <= Len(check)
      /\ \A i \in 1..b.revs : rev[i].from <= b.at
      /\ \A i \in 1..b.checks : \A e \in check[i].ids : \E j \in 1..b.revs : rev[j].event = e
  BY <1>2 DEF LastIsActive, ChecksBacked
<1> HIDE DEF b
<1> QED
  BY <1>1, <1>3 DEF ChecksBacked

\* Every other step leaves the tables alone.
LEMMA TablesStay ==
  ASSUME CatalystTypes, LastIsActive, ChecksBacked, HistoryContiguous,
         UNCHANGED <<rev, check>>, captured' = captured, time' \in Nat, time <= time'
  PROVE  LastIsActive' /\ ChecksBacked' /\ HistoryContiguous'
<1>1. ASSUME NEW i \in DOMAIN rev PROVE rev[i].from <= time'
  <2>1. rev[i].from \in Nat /\ rev[i].from <= time /\ time \in Nat
    BY RowTypes DEF LastIsActive
  <2> QED
    BY <2>1
<1>2. LastIsActive'
  BY <1>1 DEF LastIsActive
<1> QED
  BY <1>2 DEF ChecksBacked, HistoryContiguous

LEMMA TablesStep ==
  ASSUME CatalystInv, [CatalystNext]_plane
  PROVE  LastIsActive' /\ ChecksBacked' /\ HistoryContiguous'
<1> USE DEF CatalystInv
<1>1. CASE CaptureBoundary
  BY <1>1, CaptureStep DEF CaptureBoundary, tables, LastIsActive, HistoryContiguous
<1>2. CASE Pass \/ UNCHANGED plane
  <2>1. UNCHANGED <<rev, check>> /\ captured' = captured /\ time' \in {time, time + 1} /\ time \in Nat
    BY <1>2 DEF Pass, plane, tables, CatalystTypes
  <2> QED
    BY <2>1, TablesStay
<1>3. ASSUME NEW w \in Collector, Begin(w) \/ FetchFails(w) \/ Lock(w) \/ ReadActive(w) \/ Abort(w)
      PROVE  LastIsActive' /\ ChecksBacked' /\ HistoryContiguous'
  <2>1. UNCHANGED <<rev, check>> /\ captured' = captured /\ time' = time
    BY <1>3 DEF Begin, FetchFails, Lock, ReadActive, Abort, tables
  <2>2. time \in Nat
    BY DEF CatalystTypes
  <2> QED
    BY <2>1, <2>2, TablesStay
<1>4. ASSUME NEW w \in Collector, NEW order \in Orders, NEW bad \in {{}} \cup {{t} : t \in Ticker},
             NEW E \in SUBSET Event, NEW answer \in [E -> Dates], Fetch(w, order, answer, bad)
      PROVE  LastIsActive' /\ ChecksBacked' /\ HistoryContiguous'
  <2>1. UNCHANGED <<rev, check>> /\ captured' = captured /\ time' = time
    BY <1>4, FetchIs DEF tables
  <2>2. time \in Nat
    BY DEF CatalystTypes
  <2> QED
    BY <2>1, <2>2, TablesStay
<1>5. ASSUME NEW w \in Collector, Commit(w)
      PROVE  LastIsActive' /\ ChecksBacked' /\ HistoryContiguous'
  <2>1. /\ \A e \in Changed(w) : Active(e) = seen[w][e] /\ e \in Event /\ knownAt[w][e] # Nil
        /\ rev' \in Seq(EventRow) /\ Revised(w, Changed(w))
        /\ check' \in Seq(CheckRow) /\ Verified(w)
        /\ captured' = captured /\ time' = time
    BY <1>5, CommitIs
  <2>2. Changed(w) \in SUBSET Event
    BY <2>1
  <2>3. LastIsActive' /\ HistoryContiguous'
    BY <2>1, <2>2, HistoryStep
  <2> QED
    BY <2>1, <2>3, BackedStep
<1> QED
  BY <1>1, <1>2, <1>3, <1>4, <1>5 DEF CatalystNext

LEMMA CatalystStart == CatalystInit => CatalystInv
<1> SUFFICES ASSUME CatalystInit PROVE CatalystInv
  OBVIOUS
<1>1. CatalystTypes
  <2>1. NoBatch \in Batch /\ NoEvents \in [Event -> Nat \cup {Nil}] /\ <<>> \in Seq(Ticker)
    BY NoBatchType DEF NoEvents
  <2> QED
    BY <2>1 DEF CatalystInit, CatalystTypes
<1>2. \A w \in Collector : Held(w) = {} /\ keys[w] = {} /\ ~Writing(w)
  BY NilApart DEF CatalystInit, Held, Writing
<1>3. LocksOrdered
  BY <1>2 DEF LocksOrdered, LocksFor, Writing
<1>4. RevisionRead
  <2>1. \A w \in Collector, e \in Event : seen[w][e] = Nil /\ knownAt[w][e] = Nil
    BY DEF CatalystInit, NoEvents
  <2> QED
    BY <1>2, <2>1 DEF RevisionRead, ReadFor
<1>5. LastIsActive /\ ChecksBacked /\ HistoryContiguous
  BY DEF CatalystInit, LastIsActive, ChecksBacked, HistoryContiguous
<1> QED
  BY <1>1, <1>3, <1>4, <1>5 DEF CatalystInv

LEMMA CatalystStep == CatalystInv /\ [CatalystNext]_plane => CatalystInv'
<1> SUFFICES ASSUME CatalystInv, [CatalystNext]_plane PROVE CatalystInv'
  OBVIOUS
<1>1. CatalystTypes'
  BY CatalystTypeStep DEF CatalystInv
<1>2. LocksOrdered'
  BY LocksStep DEF CatalystInv
<1>3. RevisionRead'
  BY ReadStep DEF CatalystInv
<1>4. LastIsActive' /\ ChecksBacked' /\ HistoryContiguous'
  BY TablesStep
<1> QED
  BY <1>1, <1>2, <1>3, <1>4 DEF CatalystInv

LEMMA CatalystAlways == CatalystSpec => []CatalystInv
BY CatalystStart, CatalystStep, PTL DEF CatalystSpec

(***************************************************************************)
(* The revisions of an event follow one another without gap or overlap,    *)
(* for any number of writers, in whatever order they lock, read, commit    *)
(* and abort: only the last one is active, and a commit closes exactly     *)
(* that one, at the time from which its own is known.                      *)
(***************************************************************************)
THEOREM HistoryHolds == CatalystSpec => []HistoryContiguous
<1>1. CatalystInv => HistoryContiguous
  BY DEF CatalystInv
<1> QED
  BY <1>1, CatalystAlways, PTL

(***************************************************************************)
(* Whatever a boundary cuts off, the events of every check it shows are    *)
(* readable at it.                                                         *)
(***************************************************************************)
THEOREM ChecksAreEvidence == CatalystSpec => []ManifestReadable
<1>1. ASSUME CatalystInv PROVE ManifestReadable
  <2> SUFFICES ASSUME NEW b \in captured, NEW t \in Ticker, NEW i \in ChecksAt(b, t),
                      NEW e \in check[i].ids
               PROVE  Visible(b, e) # {}
    BY DEF ManifestReadable
  <2>1. i \in 1..b.checks
    BY DEF ChecksAt
  <2>2. PICK j \in 1..b.revs : rev[j].event = e
    BY <1>1, <2>1 DEF CatalystInv, ChecksBacked
  <2>3. rev[j].from <= b.at
    BY <1>1 DEF CatalystInv, ChecksBacked
  <2> QED
    BY <2>2, <2>3 DEF Visible, UpTo
<1> QED
  BY <1>1, CatalystAlways, PTL

-----------------------------------------------------------------------------
(* A boundary's answers.                                                    *)

\* Everything a step leaves of the rows a boundary shows: all but their end.
SameShown(b) ==
  /\ \A i \in 1..b.revs : /\ rev'[i].event = rev[i].event /\ rev'[i].payload = rev[i].payload
                          /\ rev'[i].from = rev[i].from
  /\ \A i \in 1..b.checks : check'[i] = check[i]
  /\ style' = style

LEMMA StepShowsSame ==
  ASSUME CatalystInv, [CatalystNext]_plane, NEW b \in captured
  PROVE  SameShown(b)
<1> USE DEF CatalystInv
<1>1. CASE UNCHANGED <<rev, check, style>>
  BY <1>1 DEF SameShown
<1>2. ASSUME NEW w \in Collector, Commit(w) PROVE SameShown(b)
  <2>1. Revised(w, Changed(w)) /\ Verified(w) /\ style' = style
    BY <1>2, CommitIs
  <2>2. 1..b.revs \subseteq DOMAIN rev /\ 1..b.checks \subseteq DOMAIN check
    <3>1. b.revs \in Nat /\ b.checks \in Nat /\ b.revs <= Len(rev) /\ b.checks <= Len(check)
      BY DEF ChecksBacked, CatalystTypes
    <3>2. /\ Len(rev) \in Nat /\ DOMAIN rev = 1..Len(rev)
          /\ Len(check) \in Nat /\ DOMAIN check = 1..Len(check)
      BY DEF CatalystTypes
    <3> QED
      BY <3>1, <3>2
  <2> QED
    BY <2>1, <2>2 DEF SameShown, Revised, Verified
<1>3. ASSUME NEW w \in Collector,
             Begin(w) \/ FetchFails(w) \/ Lock(w) \/ ReadActive(w) \/ Abort(w)
      PROVE  SameShown(b)
  BY <1>1, <1>3 DEF Begin, FetchFails, Lock, ReadActive, Abort, tables
<1>4. ASSUME NEW w \in Collector, NEW order \in Orders, NEW bad \in {{}} \cup {{t} : t \in Ticker},
             NEW E \in SUBSET Event, NEW answer \in [E -> Dates], Fetch(w, order, answer, bad)
      PROVE  SameShown(b)
  BY <1>1, <1>4, FetchIs DEF tables
<1>5. CASE Pass \/ CaptureBoundary \/ UNCHANGED plane
  BY <1>1, <1>5 DEF Pass, CaptureBoundary, plane, tables
<1> QED
  BY <1>2, <1>3, <1>4, <1>5 DEF CatalystNext

LEMMA Smallest ==
  ASSUME NEW S \in SUBSET Nat, S # {}
  PROVE  \E x \in S : \A y \in S : x <= y
<1>1. PICK x \in S : \A y \in S : <<y, x>> \notin OpToRel(<, Nat)
  BY WFMin, NatLessThanWellFounded, Zenon
<1>2. \A y \in S : ~(y < x)
  BY <1>1, Zenon DEF OpToRel
<1> QED
  BY <1>2

LEMMA Largest ==
  ASSUME NEW S \in SUBSET Nat, NEW bound \in Nat, S # {}, \A x \in S : x <= bound
  PROVE  \E x \in S : \A y \in S : y <= x
<1> DEFINE K == {bound - x : x \in S}
<1>1. K \in SUBSET Nat /\ K # {}
  <2>1. \A x \in S : bound - x \in Nat
    OBVIOUS
  <2>2. PICK x \in S : TRUE
    OBVIOUS
  <2>3. bound - x \in K
    BY <2>2
  <2> QED
    BY <2>1, <2>3
<1>2. PICK k \in K : \A l \in K : k <= l
  BY <1>1, Smallest
<1>3. PICK x \in S : k = bound - x
  OBVIOUS
<1>4. \A y \in S : bound - x <= bound - y
  BY <1>2, <1>3
<1> QED
  BY <1>4

\* Among entries with times there is a newest one, the later of equals.
LEMMA NewestExists ==
  ASSUME NEW n \in Nat, NEW V \in SUBSET (1..n), V # {}, NEW f \in [V -> Nat],
         NEW bound \in Nat, \A i \in V : f[i] <= bound
  PROVE  \E i \in V : \A j \in V : f[j] < f[i] \/ (f[j] = f[i] /\ j <= i)
<1> DEFINE F == {f[i] : i \in V}
<1>1. F \in SUBSET Nat /\ F # {} /\ \A x \in F : x <= bound
  OBVIOUS
<1>2. PICK x \in F : \A y \in F : y <= x
  BY <1>1, Largest
<1>3. \A j \in V : f[j] <= x /\ x \in Nat
  BY <1>1, <1>2
<1> DEFINE I == {i \in V : f[i] = x}
<1>4. I \in SUBSET Nat /\ I # {} /\ \A i \in I : i <= n
  <2>1. PICK i \in V : f[i] = x
    BY <1>2
  <2>2. i \in I
    BY <2>1
  <2>3. \A j \in I : j \in Nat /\ j <= n
    OBVIOUS
  <2> QED
    BY <2>2, <2>3
<1>5. PICK i \in I : \A j \in I : j <= i
  BY <1>4, Largest
<1>6. \A j \in V : f[j] < f[i] \/ (f[j] = f[i] /\ j <= i)
  BY <1>3, <1>5
<1> QED
  BY <1>5, <1>6

LEMMA BoundaryTypes ==
  ASSUME CatalystInv, NEW b \in captured
  PROVE  /\ b.revs \in Nat /\ b.checks \in Nat /\ b.at \in Nat
         /\ \A i \in 1..b.revs : rev[i].from \in Nat
         /\ \A i \in 1..b.checks : check[i].at \in Nat
<1>1. /\ b.revs \in Nat /\ b.checks \in Nat /\ b.at \in Nat
      /\ b.revs <= Len(rev) /\ b.checks <= Len(check)
  BY DEF CatalystInv, CatalystTypes, ChecksBacked
<1>2. \A i \in 1..b.revs : rev[i].from \in Nat
  <2>1. \A i \in 1..b.revs : i \in DOMAIN rev
    BY <1>1, RowTypes DEF CatalystInv
  <2> QED
    BY <2>1, RowTypes DEF CatalystInv
<1>3. \A i \in 1..b.checks : check[i].at \in Nat
  <2>1. check \in Seq(CheckRow) /\ Len(check) \in Nat
    BY DEF CatalystInv, CatalystTypes
  <2>2. \A i \in 1..b.checks : check[i] \in CheckRow
    BY <1>1, <2>1
  <2> QED
    BY <2>2 DEF CheckRow
<1> QED
  BY <1>1, <1>2, <1>3

LEMMA SameVisible ==
  ASSUME CatalystInv, NEW b \in captured, SameShown(b), NEW e
  PROVE  /\ Visible(b, e)' = Visible(b, e)
         /\ LatestRevision(b, e)' = LatestRevision(b, e)
         /\ Visible(b, e) # {} => LatestRevision(b, e) \in 1..b.revs
<1>1. Visible(b, e)' = Visible(b, e)
  BY DEF Visible, UpTo, SameShown
<1>2. \A i \in Visible(b, e) : i \in 1..b.revs /\ rev'[i].from = rev[i].from
  BY DEF Visible, UpTo, SameShown
<1> DEFINE V == Visible(b, e)
<1>3. LatestRevision(b, e) = CHOOSE i \in V : \A j \in V : rev[j].from < rev[i].from
                                                          \/ (rev[j].from = rev[i].from /\ j <= i)
  BY DEF LatestRevision
<1>4. LatestRevision(b, e)' = CHOOSE i \in V : \A j \in V : rev'[j].from < rev'[i].from
                                                           \/ (rev'[j].from = rev'[i].from /\ j <= i)
  BY <1>1 DEF LatestRevision
<1>5. V # {} => \E i \in V : \A j \in V : rev[j].from < rev[i].from
                                          \/ (rev[j].from = rev[i].from /\ j <= i)
  <2> SUFFICES ASSUME V # {}
               PROVE  \E i \in V : \A j \in V : rev[j].from < rev[i].from
                                                \/ (rev[j].from = rev[i].from /\ j <= i)
    OBVIOUS
  <2> DEFINE f == [i \in V |-> rev[i].from]
  <2>1. V \in SUBSET (1..b.revs) /\ f \in [V -> Nat] /\ b.revs \in Nat /\ b.at \in Nat
        /\ \A i \in V : f[i] <= b.at
    BY <1>2, BoundaryTypes DEF Visible
  <2>2. \A i \in V : f[i] = rev[i].from
    OBVIOUS
  <2> HIDE DEF f, V
  <2>3. PICK i \in V : \A j \in V : f[j] < f[i] \/ (f[j] = f[i] /\ j <= i)
    BY <2>1, NewestExists
  <2> QED
    BY <2>2, <2>3
<1> HIDE DEF V
<1>6. (CHOOSE i \in V : \A j \in V : rev[j].from < rev[i].from
                                     \/ (rev[j].from = rev[i].from /\ j <= i))
      = CHOOSE i \in V : \A j \in V : rev'[j].from < rev'[i].from
                                      \/ (rev'[j].from = rev'[i].from /\ j <= i)
  BY <1>2 DEF V
<1>7. V # {} => LatestRevision(b, e) \in V
  BY <1>3, <1>5
<1> QED
  BY <1>1, <1>2, <1>3, <1>4, <1>6, <1>7 DEF V

LEMMA SameContext ==
  ASSUME CatalystInv, NEW b \in captured, SameShown(b), NEW t
  PROVE  Context(b, t)' = Context(b, t)
<1>1. ASSUME NEW e, Visible(b, e) # {}
      PROVE  InWindow(rev[LatestRevision(b, e)].payload.date, b.at)'
               <=> InWindow(rev[LatestRevision(b, e)].payload.date, b.at)
  <2>1. LatestRevision(b, e)' = LatestRevision(b, e) /\ LatestRevision(b, e) \in 1..b.revs
    BY <1>1, SameVisible
  <2> DEFINE i == LatestRevision(b, e)
  <2>2. rev'[i].payload.date = rev[i].payload.date /\ style' = style
    BY <2>1 DEF SameShown
  <2>3. rev[LatestRevision(b, e)].payload.date' = rev[LatestRevision(b, e)].payload.date
    BY <2>1, <2>2
  <2> QED
    BY <2>2, <2>3 DEF InWindow
<1>2. \A e : Visible(b, e)' = Visible(b, e)
  BY SameVisible
<1> QED
  BY <1>1, <1>2 DEF Context, Events

LEMMA SameChecks ==
  ASSUME CatalystInv, NEW b \in captured, SameShown(b), NEW t
  PROVE  /\ ChecksAt(b, t)' = ChecksAt(b, t)
         /\ LatestCheck(b, t)' = LatestCheck(b, t)
         /\ ChecksAt(b, t) # {} => LatestCheck(b, t) \in 1..b.checks
<1>1. ChecksAt(b, t)' = ChecksAt(b, t)
  BY DEF ChecksAt, SameShown
<1>2. \A i \in ChecksAt(b, t) : i \in 1..b.checks /\ check'[i].at = check[i].at
  BY DEF ChecksAt, SameShown
<1> DEFINE V == ChecksAt(b, t)
<1>3. LatestCheck(b, t) = CHOOSE i \in V : \A j \in V : check[j].at < check[i].at
                                                       \/ (check[j].at = check[i].at /\ j <= i)
  BY DEF LatestCheck
<1>4. LatestCheck(b, t)' = CHOOSE i \in V : \A j \in V : check'[j].at < check'[i].at
                                                        \/ (check'[j].at = check'[i].at /\ j <= i)
  BY <1>1 DEF LatestCheck
<1>5. V # {} => \E i \in V : \A j \in V : check[j].at < check[i].at
                                          \/ (check[j].at = check[i].at /\ j <= i)
  <2> SUFFICES ASSUME V # {}
               PROVE  \E i \in V : \A j \in V : check[j].at < check[i].at
                                                \/ (check[j].at = check[i].at /\ j <= i)
    OBVIOUS
  <2> DEFINE f == [i \in V |-> check[i].at]
  <2>1. V \in SUBSET (1..b.checks) /\ f \in [V -> Nat] /\ b.checks \in Nat /\ b.at \in Nat
        /\ \A i \in V : f[i] <= b.at
    BY <1>2, BoundaryTypes DEF ChecksAt
  <2>2. \A i \in V : f[i] = check[i].at
    OBVIOUS
  <2> HIDE DEF f, V
  <2>3. PICK i \in V : \A j \in V : f[j] < f[i] \/ (f[j] = f[i] /\ j <= i)
    BY <2>1, NewestExists
  <2> QED
    BY <2>2, <2>3
<1> HIDE DEF V
<1>6. (CHOOSE i \in V : \A j \in V : check[j].at < check[i].at
                                     \/ (check[j].at = check[i].at /\ j <= i))
      = CHOOSE i \in V : \A j \in V : check'[j].at < check'[i].at
                                      \/ (check'[j].at = check'[i].at /\ j <= i)
  BY <1>2 DEF V
<1>7. V # {} => LatestCheck(b, t) \in V
  BY <1>3, <1>5
<1> QED
  BY <1>1, <1>2, <1>3, <1>4, <1>6, <1>7 DEF V

LEMMA SameAnswers ==
  ASSUME CatalystInv, NEW b \in captured, SameShown(b), NEW t
  PROVE  Resolve(b, t)' = Resolve(b, t) /\ Context(b, t)' = Context(b, t)
<1>1. Context(b, t)' = Context(b, t)
  BY SameContext
<1>2. ChecksAt(b, t)' = ChecksAt(b, t)
  BY SameChecks
<1>3. CASE ChecksAt(b, t) = {}
  BY <1>1, <1>2, <1>3 DEF Resolve
<1>4. CASE ChecksAt(b, t) # {}
  <2>1. LatestCheck(b, t)' = LatestCheck(b, t) /\ LatestCheck(b, t) \in 1..b.checks
    BY <1>4, SameChecks
  <2>2. check[LatestCheck(b, t)]' = check[LatestCheck(b, t)]
    BY <2>1 DEF SameShown
  <2> QED
    BY <1>1, <1>2, <1>4, <2>2 DEF Resolve
<1> QED
  BY <1>1, <1>3, <1>4

(***************************************************************************)
(* What a strategy is told about a ticker at a boundary never changes      *)
(* again, however many revisions supersede those it shows.                 *)
(***************************************************************************)
THEOREM AnswersStay == CatalystSpec => BoundaryStable
<1> DEFINE Same == \A b \in captured, t \in Ticker :
                     Resolve(b, t)' = Resolve(b, t) /\ Context(b, t)' = Context(b, t)
<1>1. CatalystInv /\ [CatalystNext]_plane => [Same]_plane
  BY StepShowsSame, SameAnswers
<1>2. BoundaryStable <=> [][Same]_plane
  BY DEF BoundaryStable
<1> HIDE DEF Same
<1> QED
  BY <1>1, <1>2, CatalystAlways, PTL DEF CatalystSpec

-----------------------------------------------------------------------------
(* Waiting.                                                                 *)

\* A finite set of numbers has a largest one: a smallest set without would lose it by
\* losing an element.
LEMMA LargestOfFinite ==
  ASSUME NEW S \in SUBSET Nat, IsFiniteSet(S), S # {}
  PROVE  \E x \in S : \A y \in S : y <= x
<1> DEFINE Tops(T) == \E x \in T : \A y \in T : y <= x
           B == {k \in Nat : \E T \in SUBSET Nat : /\ IsFiniteSet(T) /\ Cardinality(T) = k /\ T # {}
                                                   /\ ~Tops(T)}
<1>1. SUFFICES ASSUME ~Tops(S) PROVE FALSE
  OBVIOUS
<1> HIDE DEF Tops
<1>2. Cardinality(S) \in Nat
  BY FS_CardinalityType
<1>3. B # {} /\ B \in SUBSET Nat
  <2>1. Cardinality(S) \in B
    BY <1>1, <1>2
  <2> QED
    BY <2>1
<1>4. PICK k \in B : \A l \in B : k <= l
  BY <1>3, Smallest
<1>5. PICK T \in SUBSET Nat : IsFiniteSet(T) /\ Cardinality(T) = k /\ T # {} /\ ~Tops(T)
  OBVIOUS
<1>6. PICK x \in T : TRUE
  BY <1>5
<1> DEFINE R == T \ {x}
<1>7. R \in SUBSET Nat /\ IsFiniteSet(R) /\ Cardinality(R) = k - 1 /\ k \in Nat
  BY <1>5, <1>6, FS_RemoveElement
<1>8. CASE R = {}
  <2>1. T = {x}
    BY <1>6, <1>8
  <2>2. Tops(T)
    BY <2>1 DEF Tops
  <2> QED
    BY <1>5, <2>2
<1>9. CASE R # {}
  <2>1. Tops(R)
    <3>1. SUFFICES ASSUME ~Tops(R) PROVE FALSE
      OBVIOUS
    <3>2. k - 1 \in Nat
      BY <1>7, FS_CardinalityType
    <3>3. k - 1 \in B
      BY <1>7, <1>9, <3>1, <3>2
    <3> QED
      BY <1>4, <1>7, <3>3
  <2>2. PICK y \in R : \A z \in R : z <= y
    BY <2>1 DEF Tops
  <2>3. CASE x <= y
    <3>1. \A z \in T : z <= y
      BY <2>2, <2>3
    <3>2. Tops(T)
      BY <2>2, <3>1 DEF Tops
    <3> QED
      BY <1>5, <3>2
  <2>4. CASE ~(x <= y)
    <3>1. \A z \in T : z <= x
      BY <1>6, <1>7, <2>2, <2>4
    <3>2. Tops(T)
      BY <1>6, <3>1 DEF Tops
    <3> QED
      BY <1>5, <3>2
  <2> QED
    BY <1>6, <2>3, <2>4
<1> QED
  BY <1>8, <1>9

\* Whoever waits for a key its holder has waits for an earlier one than the holder does.
LEMMA WaitsAscend ==
  ASSUME CatalystInv, NEW v \in Collector, NEW k \in Key, holder[k] = v, NEW l \in Due(v)
  PROVE  k # l /\ Precedes(k, l)
BY DEF CatalystInv, LocksOrdered, LocksFor, Held, Due

\* Sorted locks: the greatest key that is waited for in a circle would have a greater.
LEMMA SortedWait ==
  ASSUME CatalystInv, style = "bulk", NEW W \in SUBSET Collector, W # {},
         \A w \in W : \E k \in Due(w) : holder[k] \in W
  PROVE  FALSE
<1> DEFINE Waited == {k \in Key : \E w \in W : k \in Due(w) /\ holder[k] \in W}
<1>1. ASSUME NEW w \in W PROVE \E k \in Due(w) : k \in Waited
  <2>1. PICK k \in Due(w) : holder[k] \in W
    OBVIOUS
  <2>2. k \in Key
    BY DEF Due, CatalystInv, CatalystTypes
  <2> QED
    BY <2>1, <2>2
<1>2. ASSUME NEW k \in Waited PROVE \E l \in Waited : k # l /\ Precedes(k, l)
  <2>1. holder[k] \in W /\ k \in Key
    OBVIOUS
  <2> DEFINE v == holder[k]
  <2>2. PICK l \in Due(v) : l \in Waited
    BY <1>1, <2>1
  <2> QED
    BY <2>1, <2>2, WaitsAscend
<1>3. Waited # {} /\ Waited \subseteq Key
  BY <1>1
<1> HIDE DEF Waited
<1> DEFINE E == {e \in Event : EventKey(e) \in Waited}
           T == {t \in Ticker : BatchKey(t) \in Waited}
<1>4. CASE E # {}
  <2>1. E \in SUBSET Nat /\ IsFiniteSet(E)
    BY CatalystAssumption, FS_Subset
  <2>2. PICK e \in E : \A f \in E : f <= e
    BY <1>4, <2>1, LargestOfFinite
  <2>3. PICK l \in Waited : EventKey(e) # l /\ Precedes(EventKey(e), l)
    BY <1>2
  <2>4. PICK f \in Event : l = EventKey(f)
    <3>1. l[1] = "event"
      BY <2>3, Keys DEF Precedes
    <3> QED
      BY <1>3, <3>1, Keys
  <2>5. e <= f /\ f # e /\ f \in E
    BY <2>3, <2>4, Keys DEF Precedes
  <2> QED
    BY <2>1, <2>2, <2>5
<1>5. CASE E = {}
  <2>0. \A k \in Waited : \E t \in Ticker : k = BatchKey(t)
    BY <1>3, <1>5, Keys
  <2>1. T \in SUBSET Nat /\ IsFiniteSet(T) /\ T # {}
    <3>1. T # {}
      BY <1>3, <2>0
    <3> QED
      BY <3>1, CatalystAssumption, FS_Subset
  <2>2. PICK t \in T : \A u \in T : u <= t
    BY <2>1, LargestOfFinite
  <2>3. PICK l \in Waited : BatchKey(t) # l /\ Precedes(BatchKey(t), l)
    BY <1>2
  <2>4. PICK u \in Ticker : l = BatchKey(u)
    BY <2>0
  <2>5. t <= u /\ u # t /\ u \in T
    BY <2>3, <2>4, Keys DEF Precedes
  <2> QED
    BY <2>1, <2>2, <2>5
<1> QED
  BY <1>4, <1>5

\* In the transaction of one ticker whoever has, or is due to take, an event's key has
\* the ticker's batch key.
LEMMA BatchFirst ==
  ASSUME CatalystInv, style = "ticker", NEW w \in Collector, pc[w] = "lock", NEW e \in Event,
         EventKey(e) \in Held(w) \cup Due(w)
  PROVE  BatchKey(TickerOf[e]) \in Held(w)
<1>1. /\ Held(w) \cup keys[w] = KeysOf(batch[w], Wanted(w))
      /\ \A k \in Held(w), l \in keys[w] : k # l /\ Precedes(k, l)
  BY DEF CatalystInv, LocksOrdered, LocksFor, Writing
<1>2. EventKey(e) \in KeysOf(batch[w], Wanted(w))
  BY <1>1 DEF Due
<1>3. TickerOf[e] \in Wanted(w)
  BY <1>2, Keys DEF KeysOf, Rows, Events
<1>4. BatchKey(TickerOf[e]) \in Held(w) \cup keys[w]
  BY <1>1, <1>3 DEF KeysOf
<1>5. ASSUME BatchKey(TickerOf[e]) \in keys[w] PROVE FALSE
  <2>1. Precedes(EventKey(e), BatchKey(TickerOf[e]))
    BY <1>1, <1>5 DEF Due
  <2> QED
    BY <2>1, Keys DEF Precedes
<1> QED
  BY <1>4, <1>5

LEMMA OneTicker ==
  ASSUME CatalystInv, style = "ticker", NEW w \in Collector
  PROVE  \A t, u \in Wanted(w) : t = u
<1>1. Transaction(todo[w]) \in {<<>>, <<Head(todo[w])>>}
  BY DEF Transaction
<1> QED
  BY <1>1 DEF Wanted, ToSet

\* The batch key of a ticker keeps others away from its events.
LEMMA TickerWait ==
  ASSUME CatalystInv, style = "ticker", NEW W \in SUBSET Collector, W # {},
         \A w \in W : pc[w] = "lock" /\ \E k \in Due(w) : holder[k] \in W
  PROVE  FALSE
<1>1. ASSUME NEW w \in W, NEW k \in Due(w), holder[k] \in W
      PROVE  k \in Key /\ k \in keys[w] /\ k \in Held(holder[k]) /\ k \notin Held(w)
  <2>1. k \in Key /\ k \in keys[w]
    BY DEF Due, CatalystInv, CatalystTypes
  <2> QED
    BY <2>1 DEF Held, CatalystInv, LocksOrdered, LocksFor
<1>2. ASSUME NEW w \in W, NEW k \in Due(w), holder[k] \in W, NEW e \in Event, k = EventKey(e)
      PROVE  FALSE
  <2> DEFINE v == holder[k]
  <2>1. k \in Held(v) /\ k \notin Held(w) /\ v \in W
    BY <1>1, <1>2
  <2>2. BatchKey(TickerOf[e]) \in Held(w) /\ BatchKey(TickerOf[e]) \in Held(v)
    BY <1>2, <2>1, BatchFirst
  <2>3. v = w
    BY <2>2 DEF Held
  <2> QED
    BY <2>1, <2>3
<1>3. PICK w \in W : TRUE
  OBVIOUS
<1>4. PICK k \in Due(w) : holder[k] \in W
  OBVIOUS
<1>5. k \in Key
  BY <1>1, <1>4
<1>6. CASE \E t \in Ticker : k = BatchKey(t)
  <2>1. PICK t \in Ticker : k = BatchKey(t)
    BY <1>6
  <2> DEFINE v == holder[k]
  <2>2. v \in W /\ k \in Held(v)
    BY <1>1, <1>4
  <2> HIDE DEF v
  <2>3. PICK l \in Due(v) : holder[l] \in W
    BY <2>2
  <2>4. l \in Key /\ l \in keys[v] /\ l \notin Held(v)
    BY <1>1, <2>2, <2>3
  <2>5. CASE \E e \in Event : l = EventKey(e)
    BY <1>2, <2>2, <2>3, <2>5
  <2>6. CASE \E u \in Ticker : l = BatchKey(u)
    <3>1. PICK u \in Ticker : l = BatchKey(u)
      BY <2>6
    <3>2. k \in KeysOf(batch[v], Wanted(v)) /\ l \in KeysOf(batch[v], Wanted(v))
      BY <2>2, <2>4 DEF CatalystInv, LocksOrdered, LocksFor, Writing
    <3>3. t \in Wanted(v) /\ u \in Wanted(v)
      BY <2>1, <3>1, <3>2, Keys DEF KeysOf
    <3>4. t = u
      BY <2>2, <3>3, OneTicker
    <3> QED
      BY <2>1, <2>2, <2>4, <3>1, <3>4
  <2> QED
    BY <2>4, <2>5, <2>6, Keys
<1>7. CASE \E e \in Event : k = EventKey(e)
  BY <1>2, <1>4, <1>7
<1> QED
  BY <1>5, <1>6, <1>7, Keys

(***************************************************************************)
(* Writers never wait for each other's advisory locks in a circle, however *)
(* many there are and whatever their providers answered: a transaction for *)
(* all tickers takes sorted locks, and one of a single ticker holds the    *)
(* ticker's batch lock before it asks for its events.                      *)
(***************************************************************************)
THEOREM NoCircle == CatalystSpec => []NoLockCycle
<1>1. ASSUME CatalystInv PROVE NoLockCycle
  <2> SUFFICES ASSUME NEW W \in (SUBSET Collector) \ {{}},
                      \A w \in W : pc[w] = "lock" /\ \E k \in Due(w) : holder[k] \in W
               PROVE  FALSE
    BY DEF NoLockCycle
  <2>1. style \in {"bulk", "ticker"}
    BY <1>1, CatalystAssumption DEF CatalystInv, CatalystTypes
  <2>2. CASE style = "bulk"
    BY <1>1, <2>2, SortedWait
  <2>3. CASE style = "ticker"
    BY <1>1, <2>3, TickerWait
  <2> QED
    BY <2>1, <2>2, <2>3
<1> QED
  BY <1>1, CatalystAlways, PTL

=============================================================================
