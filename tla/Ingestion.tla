------------------------------ MODULE Ingestion ------------------------------
(***************************************************************************)
(* Live (5m) warehouse ingestion: scanner/live_ingestion.py and the live   *)
(* path of scanner/warehouse_refresh.py, with the prefetcher of            *)
(* scanner/ingestion_fetch.py, the provider client of scanner/data.py, the *)
(* writer of scanner/bitemporal_warehouse.py and the deadline of           *)
(* scanner/ingestion_deadline.py.                                          *)
(*                                                                         *)
(* Provider threads answer in any order.  The main thread alone takes      *)
(* whole chunks in order, keeps the closed bars from the watermark on, and *)
(* commits them in batches.  One second refresh may recover the required   *)
(* symbols.  The process may be killed at any point.                       *)
(*                                                                         *)
(* Time is counted in bars: bar b is closed at time b, and an answer given *)
(* at time t holds bar t + 1 as it looks so far.                           *)
(***************************************************************************)
EXTENDS Integers, Sequences, FiniteSets, SequencesExt

CONSTANTS
  Universe,   \* the live universe, a sequence of distinct symbols
  Required,   \* the symbols of the CRITICAL_INTRADAY tier
  ChunkSize,  \* RETRY_CHUNK_SIZE
  Workers,    \* INTRADAY_FETCH_WORKERS
  FlushAt,    \* pending symbols that force a commit (100)
  Period,     \* bars an incremental request reaches back (2d)
  MaxAge,     \* bars a required symbol may be behind
  LastTime,   \* bound: the clock
  MaxStart    \* bound: ingestion processes, one after the other

Symbol == ToSet(Universe)
ASSUME UniverseAssumption == /\ Universe \in Seq(Symbol) /\ IsInjective(Universe)
                             /\ Universe # <<>>
                             /\ Required \subseteq Symbol
ASSUME SizeAssumption == /\ {ChunkSize, Workers, FlushAt, Period} \subseteq Nat \ {0}
                         /\ {MaxAge, LastTime, MaxStart} \subseteq Nat

Bar == 1..(LastTime + 1)
Missing == [final |-> FALSE, from |-> 0]
Nothing == [from |-> 1, to |-> 0, at |-> 0]
Frame == [from : Bar, to : 0..(LastTime + 1), at : 0..LastTime]

VARIABLES
  time,
  store,      \* store[s][b]: the current version of a bar in market_observation
  pc,         \* the ingestion process
  log,        \* the status of its warehouse_run_log row
  starts,     \* processes started
  recovering, \* the refresh is recover_required's
  work,       \* the tickers of the refresh, a sequence
  watermark,  \* newest stored bar of each ticker when the refresh began, 0 without one
  nextTask, nextChunk,
  pending,    \* futures submitted and not yet collected
  answered,   \* those of them whose thread is done
  received,   \* futures collected
  answer,     \* what each thread returned
  held,       \* pending_frames: rows normalised and not yet committed
  heldSize    \* pending_symbols

fetch == <<nextTask, nextChunk, pending, answered, received, answer>>
buffer == <<held, heldSize>>
refresh == <<recovering, work, watermark, fetch, buffer>>
ingestion == <<time, store, pc, log, starts, refresh>>

IngestInit ==
  /\ time = 0
  /\ store = [s \in Symbol |-> [b \in Bar |-> Missing]]
  /\ pc = "idle"
  /\ log = "none"
  /\ starts = 0
  /\ recovering = FALSE
  /\ work = <<>>
  /\ watermark = [s \in Symbol |-> 0]
  /\ nextTask = 1 /\ nextChunk = 1
  /\ pending = {} /\ answered = {} /\ received = {}
  /\ answer = [s \in Symbol |-> Nothing]
  /\ held = {} /\ heldSize = 0

Pass ==
  /\ time < LastTime
  /\ time' = time + 1
  /\ UNCHANGED <<store, pc, log, starts, refresh>>

-----------------------------------------------------------------------------
Larger(m, n) == IF m > n THEN m ELSE n
Stored(s) == {b \in Bar : store[s][b] # Missing}
Newest(s) == IF Stored(s) = {} THEN 0 ELSE CHOOSE b \in Stored(s) : \A c \in Stored(s) : c <= b

ChunkOf(i) == ((i - 1) \div ChunkSize) + 1
Chunks == IF work = <<>> THEN 0 ELSE ChunkOf(Len(work))
Chunk(c) == {work[i] : i \in {j \in 1..Len(work) : ChunkOf(j) = c}}

\* refresh: a run is logged, the watermarks are read, the fetch is planned.
Begin(tickers) ==
  /\ pc' = "fetch"
  /\ log' = "STARTED"
  /\ work' = tickers
  /\ watermark' = [s \in Symbol |-> Newest(s)]
  /\ nextTask' = 1 /\ nextChunk' = 1
  /\ pending' = {} /\ answered' = {} /\ received' = {}
  /\ answer' = [s \in Symbol |-> Nothing]
  /\ held' = {} /\ heldSize' = 0

\* A new process ingests the live universe.
Start ==
  /\ pc \in {"idle", "ended"}
  /\ starts < MaxStart
  /\ starts' = starts + 1
  /\ recovering' = FALSE
  /\ Begin(Universe)
  /\ UNCHANGED <<time, store>>

\* The prefetcher submits a task: bounded futures, bounded lookahead.
Admitted(i) ==
  /\ Cardinality(pending) < 2 * Workers
  /\ ChunkOf(i) < nextChunk + Larger(2, Workers)
ReceivedRows(c) == c <= Chunks /\ \A s \in Chunk(c) : s \in received /\ answer[s] # Nothing
\* The prefetcher counts every answer of a chunk, empty ones too.
Received(c) == c <= Chunks /\ Chunk(c) \subseteq received
CanSubmit == nextTask <= Len(work) /\ Admitted(nextTask)

Submit ==
  /\ pc = "fetch"
  /\ ~Received(nextChunk)
  /\ CanSubmit
  /\ pending' = pending \cup {work[nextTask]}
  /\ nextTask' = nextTask + 1
  /\ UNCHANGED <<time, store, pc, log, starts, recovering, work, watermark,
                 nextChunk, answered, received, answer, buffer>>

\* A symbol with history is asked for the incremental period, another for more.
Reach(s) == IF watermark[s] = 0 THEN 1 ELSE Larger(1, time + 1 - Period)

\* download_symbol's thread ends: rows up to the bar in progress, whose first
\* usable one may be late, or nothing after the retries.
Answer(s, f) ==
  /\ s \in pending \ answered
  /\ \/ f = Nothing
     \/ f.at = time /\ f.to = time + 1 /\ f.from \in Reach(s)..f.to
  /\ answer' = [answer EXCEPT ![s] = f]
  /\ answered' = answered \cup {s}
  /\ UNCHANGED <<time, store, pc, log, starts, recovering, work, watermark,
                 nextTask, nextChunk, pending, received, buffer>>

\* wait(FIRST_COMPLETED) hands over every future that is done.
Collect ==
  /\ pc = "fetch"
  /\ ~Received(nextChunk) /\ ~CanSubmit
  /\ answered # {}
  /\ pending' = pending \ answered
  /\ received' = received \cup answered
  /\ answered' = {}
  /\ UNCHANGED <<time, store, pc, log, starts, recovering, work, watermark,
                 nextTask, nextChunk, answer, buffer>>

KeptAfter(s) == {b \in answer[s].from..answer[s].to : b <= time /\ b > watermark[s]}
\* _completed_observations and the watermark: the rows of an answer that are kept.
Kept(s) == {b \in answer[s].from..answer[s].to : b <= time /\ b >= watermark[s]}
VersionOf(s, b) == [final |-> b <= answer[s].at, from |-> answer[s].from]
Rows(c) == UNION {{[symbol |-> s, bar |-> b, version |-> VersionOf(s, b)] : b \in Kept(s)}
                    : s \in Chunk(c)}

\* The chunk is yielded and normalised; a large batch is committed at once.
TakeChunk ==
  /\ pc = "fetch"
  /\ Received(nextChunk)
  /\ nextChunk' = nextChunk + 1
  /\ IF Rows(nextChunk) = {}
       THEN UNCHANGED <<pc, buffer>>
       ELSE /\ held' = held \cup Rows(nextChunk)
            /\ heldSize' = heldSize + Cardinality(Chunk(nextChunk))
            /\ pc' = IF heldSize' >= FlushAt THEN "flush" ELSE "fetch"
  /\ UNCHANGED <<time, store, log, starts, recovering, work, watermark,
                 nextTask, pending, answered, received, answer>>

NoTail == "finish"
AfterChunks == IF held # {} THEN "flush" ELSE "finish"
\* Every chunk was taken: the tail is committed.
Drain ==
  /\ pc = "fetch"
  /\ nextChunk > Chunks
  /\ pc' = AfterChunks
  /\ UNCHANGED <<time, store, log, starts, refresh>>

\* ingest_observations: a version is appended unless the current one says the same.
Merge(old, new) == IF old.final THEN old ELSE new
Written ==
  [s \in Symbol |-> [b \in Bar |->
     LET new == {r \in held : r.symbol = s /\ r.bar = b}
     IN  IF new = {} THEN store[s][b] ELSE Merge(store[s][b], (CHOOSE r \in new : TRUE).version)]]

Commit ==
  /\ pc = "flush"
  /\ store' = Written
  /\ held' = {} /\ heldSize' = 0
  /\ pc' = "fetch"
  /\ UNCHANGED <<time, log, starts, recovering, work, watermark, fetch>>

\* A database error: the batch is rolled back, or committed without an answer.
\* The fetchers are cancelled and joined.
CommitFails ==
  /\ pc = "flush"
  /\ store' \in {store, Written}
  /\ held' = {} /\ heldSize' = 0
  /\ pc' = "failed"
  /\ UNCHANGED <<time, log, starts, recovering, work, watermark, fetch>>

\* finish_run; when the database refuses the update, the failure is logged instead.
FinishRun ==
  /\ pc = "finish"
  /\ \/ pc' = "check" /\ log' = "AVAILABLE"
     \/ pc' = "failed" /\ log' = log
  /\ UNCHANGED <<time, store, starts, refresh>>
LogFailure ==
  /\ pc = "failed"
  /\ pc' = "ended"
  /\ log' \in {log, "FAILED"}
  /\ UNCHANGED <<time, store, starts, refresh>>

Fresh(s) == Newest(s) > 0 /\ time - Newest(s) <= MaxAge
\* In the order of the tier, on which nothing depends.
Targets == SetToSeq({s \in Required : ~Fresh(s)})

\* recover_required: one more refresh, of the required symbols that fail the tier.
Recover ==
  /\ pc = "check"
  /\ ~recovering
  /\ Targets # <<>>
  /\ recovering' = TRUE
  /\ Begin(Targets)
  /\ UNCHANGED <<time, store, starts>>
Finished ==
  /\ pc = "check"
  /\ recovering \/ Targets = <<>>
  /\ pc' = "ended"
  /\ UNCHANGED <<time, store, log, starts, refresh>>

\* run_bounded: the deadline kills the process group; a commit that was sent may land.
Kill ==
  /\ pc \notin {"idle", "ended"}
  /\ pc' = "ended"
  /\ store' \in IF pc = "flush" THEN {store, Written} ELSE {store}
  /\ UNCHANGED <<time, log, starts, refresh>>

Work == Submit \/ Collect \/ TakeChunk \/ Drain \/ Commit \/ CommitFails
        \/ FinishRun \/ LogFailure \/ Recover \/ Finished
Answers(s) == pc \in {"fetch", "flush"} /\ \E f \in Frame \cup {Nothing} : Answer(s, f)

IngestNext ==
  \/ Pass \/ Start \/ Kill
  \/ Submit \/ Collect \/ TakeChunk \/ Drain \/ Commit \/ CommitFails
  \/ FinishRun \/ LogFailure \/ Recover \/ Finished
  \/ \E s \in Symbol : Answers(s)

IngestSpec == IngestInit /\ [][IngestNext]_ingestion
\* The main thread runs, and each provider call ends: download_symbol bounds its retries.
FairIngest == IngestSpec /\ WF_ingestion(Work) /\ \A s \in Symbol : WF_ingestion(Answers(s))

-----------------------------------------------------------------------------
(* A refresh recorded AVAILABLE has committed, final, every bar it was given
   that had closed when the provider answered, and from the watermark on: no
   chunk and no tail batch is left in memory. *)
AvailableIsStored ==
  log = "AVAILABLE" /\ pc = "check" =>
    \A s \in ToSet(work), b \in Bar :
      /\ answer[s].from <= b /\ b <= answer[s].at /\ watermark[s] <= b
      => store[s][b].final

(* The newest bar of a symbol may have been in progress when it was fetched.  The
   batch that first stores a later one brings its final version as well, unless
   it comes from an answer that began after it. *)
UnfinishedIsRevised ==
  [][\A s \in Symbol :
       LET newest == Newest(s)
           later == Newest(s)'
       IN  0 < newest /\ newest < later =>
             store'[s][newest].final \/ store'[s][later].from > newest]_ingestion

(* The prefetcher never waits for nothing: a refresh ends by itself, without the
   deadline, in whatever order the answers come and whichever fail. *)
RefreshEnds == pc = "fetch" ~> pc = "ended"
=============================================================================
