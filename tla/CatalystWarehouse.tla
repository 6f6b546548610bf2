-------------------------- MODULE CatalystWarehouse --------------------------
(***************************************************************************)
(* The catalyst plane: collection (scanner/catalyst_data_plane.py,         *)
(* scanner/catalyst_adapters.py), the two writers of one provider's events *)
(* (scanner/catalyst_bulk.py under scanner/catalyst_db_bounds.py, and      *)
(* scanner/catalyst_ingestion.py, scanner/catalyst_warehouse.py), and the  *)
(* reads at a boundary (scanner/catalyst_contract.py, catalyst_pipeline.py)*)
(*                                                                         *)
(* The scheduled collector and the production run's own one write the same *)
(* provider concurrently.  A bulk writer persists all tickers in a single  *)
(* transaction under sorted advisory locks; a ticker writer uses one       *)
(* transaction per ticker and takes the locks as it goes.  A revision is   *)
(* known from the server's clock under its lock; a check carries the time  *)
(* of its fetch.  Consumers read both at a captured boundary.              *)
(***************************************************************************)
EXTENDS Integers, Sequences, FiniteSets, SequencesExt

CONSTANTS
  Collector,
  Ticker,    \* tickers, numbers in the order of their names
  Event,     \* provider event ids, numbers in the order of their names
  TickerOf,  \* the ticker of each event
  Style,     \* the styles of provider considered: "bulk" (Alpha), "ticker" (news, filings)
  FetchBack, \* how old an event a ticker writer collects (72h)
  Back,      \* how old an event a consumer reads (48h for news)
  Ahead,     \* how far ahead the calendar is collected and read (14d)
  MaxAge,    \* the age a consumer accepts for a check
  Dates,     \* bound: dates of events
  MaxTime,   \* bound: the clock
  MaxRev,    \* bound: revisions
  MaxCapture, \* bound: captured boundaries
  Nil

ASSUME CatalystAssumption ==
  /\ Ticker \subseteq Nat /\ Event \subseteq Nat
  /\ TickerOf \in [Event -> Ticker]
  /\ Style \subseteq {"bulk", "ticker"}
  /\ IsFiniteSet(Ticker) /\ IsFiniteSet(Event)
  /\ {FetchBack, Back, Ahead, MaxAge, MaxTime, MaxRev, MaxCapture} \subseteq Nat
  /\ Dates \subseteq Nat
  /\ Nil \notin Nat \cup Collector

Time == 0..MaxTime
BatchKey(t) == <<"batch", t>>
EventKey(e) == <<"event", e>>
Key == {BatchKey(t) : t \in Ticker} \cup {EventKey(e) : e \in Event}

VARIABLES
  time,
  style,     \* how this provider is collected and written
  pc,        \* pc[w]: "idle", "fetch", "lock", "read", "write", "done"
  anchor,    \* anchor[w]: checked_at of the collection
  batch,     \* batch[w]: [payload of each event, time of the check, rejected tickers]
  todo,      \* todo[w]: tickers whose transaction is open or to come
  keys,      \* keys[w]: advisory locks the transaction has yet to take
  seen,      \* seen[w][e]: the active revision it read
  knownAt,   \* knownAt[w][e]: the knowledge time of its revision
  holder,    \* holder[k]: the writer that holds an advisory lock
  rev,       \* warehouse_catalyst, in the order of visibility
  check,     \* catalyst_check, in the same order
  captured   \* captured boundaries: time and database snapshot

work == <<pc, anchor, batch, todo, keys, seen, knownAt>>
tables == <<rev, check>>
plane == <<time, style, work, holder, tables, captured>>

Events(T) == {e \in Event : TickerOf[e] \in T}
NoEvents == [e \in Event |-> Nil]
NoBatch == [payload |-> NoEvents, at |-> 0, rejected |-> {}]

CatalystInit ==
  /\ time = 0
  /\ style \in Style
  /\ pc = [w \in Collector |-> "idle"]
  /\ anchor = [w \in Collector |-> 0]
  /\ batch = [w \in Collector |-> NoBatch]
  /\ todo = [w \in Collector |-> <<>>]
  /\ keys = [w \in Collector |-> {}]
  /\ seen = [w \in Collector |-> NoEvents]
  /\ knownAt = [w \in Collector |-> NoEvents]
  /\ holder = [k \in Key |-> Nil]
  /\ rev = <<>> /\ check = <<>>
  /\ captured = {}

Pass ==
  /\ time < MaxTime
  /\ time' = time + 1
  /\ UNCHANGED <<style, work, holder, tables, captured>>

-----------------------------------------------------------------------------
\* run: a collection starts and fixes its knowledge time.
Begin(w) ==
  /\ pc[w] = "idle"
  /\ pc' = [pc EXCEPT ![w] = "fetch"]
  /\ anchor' = [anchor EXCEPT ![w] = time]
  /\ UNCHANGED <<time, style, batch, todo, keys, seen, knownAt, holder, tables, captured>>

\* The dates of the events of an answer that an adapter keeps.
Collected(d, at) == IF style = "bulk" THEN at <= d /\ d <= at + Ahead
                    ELSE at - FetchBack <= d /\ d <= at
\* A news or filing payload holds the time of its collection.
Payload(d, at) == [date |-> d, stamp |-> IF style = "bulk" THEN 0 ELSE at]

\* The batch keys of tickers, then the keys of their events: sorted in the transaction
\* for all tickers, in the order of the provider's answer in that of one ticker.
InAnswersOrder(k, l) == k[1] = "batch" \/ l[1] = "event"
Precedes(k, l) == IF k[1] = l[1] THEN style = "bulk" => k[2] <= l[2] ELSE k[1] = "batch"
Due(w) == {k \in keys[w] : \A l \in keys[w] : Precedes(k, l)}
Rows(b, T) == {e \in Events(T) : b.payload[e] # Nil}
KeysOf(b, T) == {BatchKey(t) : t \in T} \cup {EventKey(e) : e \in Rows(b, T)}

\* The locks of the next transaction: all tickers, or the first of the list.
Transaction(s) == IF style = "bulk" \/ s = <<>> THEN s ELSE <<Head(s)>>
Proceed(w, b, s) ==
  /\ batch' = [batch EXCEPT ![w] = IF s = <<>> THEN NoBatch ELSE b]
  /\ todo' = [todo EXCEPT ![w] = s]
  /\ keys' = [keys EXCEPT ![w] = KeysOf(b, ToSet(Transaction(s)))]
  /\ pc' = [pc EXCEPT ![w] = IF s = <<>> THEN "done" ELSE "lock"]
  /\ seen' = [seen EXCEPT ![w] = NoEvents]
  /\ knownAt' = [knownAt EXCEPT ![w] = NoEvents]

\* The provider lists the events of answer with their dates: a scheduled event moves,
\* and a filing's time depends on the source.  Some tickers have malformed rows.
\* Threads of a ticker provider finish in any order and may fail for a ticker;
\* a batch of it that was rejected in part is not persisted at all.
Fetch(w, order, answer, bad) ==
  /\ pc[w] = "fetch"
  /\ style = "bulk" => ToSet(order) = Ticker
  /\ \A e \in DOMAIN answer : TickerOf[e] \in ToSet(order) /\ Collected(answer[e], anchor[w])
  /\ LET b == [payload |-> [e \in Event |-> IF e \in DOMAIN answer THEN Payload(answer[e], anchor[w])
                                            ELSE Nil],
               at |-> IF style = "bulk" THEN anchor[w] ELSE time,
               rejected |-> bad]
     IN  Proceed(w, b, IF style = "ticker" /\ bad # {} THEN <<>> ELSE order)
  /\ UNCHANGED <<time, style, anchor, holder, tables, captured>>

\* The calendar request fails twice, or its answer is an error page.
FetchFails(w) ==
  /\ pc[w] = "fetch"
  /\ pc' = [pc EXCEPT ![w] = "done"]
  /\ UNCHANGED <<time, style, anchor, batch, todo, keys, seen, knownAt, holder, tables, captured>>

Active(e) == LET A == {i \in DOMAIN rev : rev[i].event = e /\ rev[i].to = Nil}
             IN  IF A = {} THEN Nil ELSE CHOOSE i \in A : TRUE
AtAnchor(w) == anchor[w]
\* The knowledge time of a revision is read under its lock.
KnowledgeTime(w) == time

\* pg_advisory_xact_lock.  A ticker writer reads the active revision at once.
Lock(w) ==
  /\ pc[w] = "lock"
  /\ \E k \in Due(w) :
       /\ holder[k] = Nil
       /\ holder' = [holder EXCEPT ![k] = w]
       /\ keys' = [keys EXCEPT ![w] = @ \ {k}]
       /\ IF style = "ticker" /\ k[1] = "event"
            THEN /\ seen' = [seen EXCEPT ![w][k[2]] = Active(k[2])]
                 /\ knownAt' = [knownAt EXCEPT ![w][k[2]] = KnowledgeTime(w)]
            ELSE UNCHANGED <<seen, knownAt>>
  /\ pc' = [pc EXCEPT ![w] = IF keys'[w] # {} THEN "lock"
                             ELSE IF style = "bulk" THEN "read" ELSE "write"]
  /\ UNCHANGED <<time, style, anchor, batch, todo, tables, captured>>

\* persist_alpha reads all active revisions once it holds every lock.
ReadActive(w) ==
  /\ pc[w] = "read"
  /\ LET rows == Rows(batch[w], ToSet(todo[w])) IN
     /\ seen' = [seen EXCEPT ![w] = [e \in Event |-> IF e \in rows THEN Active(e) ELSE Nil]]
     /\ knownAt' = [knownAt EXCEPT ![w] = [e \in Event |-> IF e \in rows THEN KnowledgeTime(w) ELSE Nil]]
  /\ pc' = [pc EXCEPT ![w] = "write"]
  /\ UNCHANGED <<time, style, anchor, batch, todo, keys, holder, tables, captured>>

OnlyKnownEvents(w, e) == seen[w][e] # Nil /\ rev[seen[w][e]].payload # batch[w].payload[e]
\* A revision is written when the payload's hash differs from the active one's.
Differs(w, e) == seen[w][e] = Nil \/ rev[seen[w][e]].payload # batch[w].payload[e]

Status(b, t) == IF t \in b.rejected THEN "PROVIDER_PAYLOAD_REJECTED"
                ELSE IF Rows(b, {t}) # {} THEN "EVENTS" ELSE "NO_EVENT"

\* The revisions and the checks of a transaction.
Superseded(changed, w) ==
  [i \in DOMAIN rev |-> IF \E e \in changed : seen[w][e] = i
                          THEN [rev[i] EXCEPT !.to = knownAt[w][rev[i].event]] ELSE rev[i]]
Appended(changed, w) ==
  LET order == SetToSeq(changed)
  IN  [i \in DOMAIN order |-> [event |-> order[i], payload |-> batch[w].payload[order[i]],
                               from |-> knownAt[w][order[i]], to |-> Nil]]
Checks(s, b) ==
  [i \in DOMAIN s |-> [ticker |-> s[i], at |-> b.at, status |-> Status(b, s[i]),
                       ids |-> Rows(b, {s[i]})]]

Release(w) == holder' = [k \in Key |-> IF holder[k] = w THEN Nil ELSE holder[k]]

\* The transaction commits: revisions and checks become visible together, and the
\* unique index admits one active revision.  A ticker writer goes on, unless the
\* acknowledgement is lost.
Commit(w) ==
  /\ pc[w] = "write"
  /\ LET s == Transaction(todo[w])
         changed == {e \in Rows(batch[w], ToSet(s)) : Differs(w, e)}
     IN  /\ \A e \in changed : Active(e) = seen[w][e]
         /\ Len(rev) + Cardinality(changed) <= MaxRev
         /\ rev' = Superseded(changed, w) \o Appended(changed, w)
         /\ check' = check \o Checks(s, batch[w])
         /\ \/ Proceed(w, batch[w], SubSeq(todo[w], Len(s) + 1, Len(todo[w])))
            \/ Proceed(w, batch[w], <<>>)
  /\ Release(w)
  /\ UNCHANGED <<time, style, anchor, captured>>

\* A lock or statement timeout, the deadline, an unknown instrument, the end of the
\* process: the transaction is rolled back and the collection ends; tickers that
\* were committed before stay.
Abort(w) ==
  /\ pc[w] \in {"lock", "read", "write"}
  /\ Proceed(w, NoBatch, <<>>)
  /\ Release(w)
  /\ UNCHANGED <<time, style, anchor, tables, captured>>

\* The warehouse gate captures a boundary.
CaptureBoundary ==
  /\ Cardinality(captured) < MaxCapture
  /\ captured' = captured \cup {[at |-> time, revs |-> Len(rev), checks |-> Len(check)]}
  /\ UNCHANGED <<time, style, work, holder, tables>>

Orders == UNION {{s \in [1..n -> Ticker] : IsInjective(s)} : n \in 0..Cardinality(Ticker)}
CatalystNext ==
  \/ Pass \/ CaptureBoundary
  \/ \E w \in Collector :
       \/ Begin(w) \/ FetchFails(w) \/ Lock(w) \/ ReadActive(w) \/ Commit(w) \/ Abort(w)
       \/ \E order \in Orders, bad \in {{}} \cup {{t} : t \in Ticker} :
            \E E \in SUBSET Event : \E answer \in [E -> Dates] : Fetch(w, order, answer, bad)

CatalystSpec == CatalystInit /\ [][CatalystNext]_plane

-----------------------------------------------------------------------------
AnyCommitted(b) == DOMAIN rev
\* The revisions whose transaction the boundary's snapshot shows.
UpTo(b) == 1..b.revs
\* Those known at the boundary; known_to may have been closed since and is not
\* looked at.
Visible(b, e) == {i \in UpTo(b) : rev[i].event = e /\ rev[i].from <= b.at}
LatestRevision(b, e) == CHOOSE i \in Visible(b, e) : \A j \in Visible(b, e) :
                  rev[j].from < rev[i].from \/ (rev[j].from = rev[i].from /\ j <= i)

\* ProviderRequirement.window and catalyst_context.
InWindow(d, at) == IF style = "bulk" THEN at <= d /\ d <= at + Ahead ELSE at - Back <= d /\ d <= at
Context(b, t) == {e \in Events({t}) : Visible(b, e) # {} /\ InWindow(rev[LatestRevision(b, e)].payload.date, b.at)}

\* latest_catalyst_checks.
ChecksAt(b, t) == {i \in 1..b.checks : check[i].ticker = t /\ check[i].at <= b.at}
LatestCheck(b, t) == CHOOSE i \in ChecksAt(b, t) : \A j \in ChecksAt(b, t) :
                       check[j].at < check[i].at \/ (check[j].at = check[i].at /\ j <= i)

\* resolve_catalyst_state, for this provider.
Resolve(b, t) ==
  IF ChecksAt(b, t) = {} THEN "UNAVAILABLE"
  ELSE LET c == check[LatestCheck(b, t)] IN
       IF c.status = "PROVIDER_PAYLOAD_REJECTED" THEN "UNAVAILABLE"
       ELSE IF b.at - c.at > MaxAge THEN "STALE"
       ELSE IF c.status = "NO_EVENT" THEN IF Context(b, t) # {} THEN "AVAILABLE" ELSE "NO_EVENT"
       ELSE IF c.ids \subseteq Context(b, t) THEN "AVAILABLE" ELSE "UNAVAILABLE"

(* A check is evidence: whatever a boundary cuts off, the events a visible check
   vouches for are readable there, and a gate that counts the check can rely on
   them although it never reads an event. *)
ManifestReadable ==
  \A b \in captured, t \in Ticker : \A i \in ChecksAt(b, t) :
    \A e \in check[i].ids : Visible(b, e) # {}

(* The revisions of an event follow one another without gap or overlap in the order
   in which they became visible, however writers wait for each other: the newest
   by knowledge time is the one that was written last. *)
HistoryContiguous ==
  \A i, j \in DOMAIN rev :
    /\ i < j /\ rev[i].event = rev[j].event
    /\ \A k \in i+1..j-1 : rev[k].event # rev[i].event
    => rev[i].to = rev[j].from /\ rev[i].from <= rev[j].from

(* What a strategy is told about a ticker at a boundary is what the gate of that
   boundary could see, although writers supersede revisions afterwards. *)
BoundaryStable ==
  [][\A b \in captured, t \in Ticker :
       Resolve(b, t)' = Resolve(b, t) /\ Context(b, t)' = Context(b, t)]_plane

(* Writers of one provider wait for each other's advisory locks, in one transaction
   for all tickers or in many: they never wait in a circle. *)
NoLockCycle ==
  ~\E W \in (SUBSET Collector) \ {{}} : \A w \in W :
     pc[w] = "lock" /\ \E k \in Due(w) : holder[k] \in W

=============================================================================
