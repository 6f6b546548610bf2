------------------------- MODULE PublicationControl -------------------------
(***************************************************************************)
(* The publication plane of scanner/control_plane.py over the tables of    *)
(* sql/002_postgres_control_plane.sql: runs, their stages, their dataset   *)
(* versions, the publication transaction and the publication head, driven  *)
(* by the runners of .github/workflows/production.yml.                     *)
(*                                                                         *)
(* A function of control_plane.py that is one transaction is one action.   *)
(* `publish' is one transaction too, but at READ COMMITTED each of its     *)
(* statements sees what others committed meanwhile, so its statements are  *)
(* steps; only its row locks and the commit make it atomic to others.      *)
(*                                                                         *)
(* A dataset's content is its set of rows, a row is the symbol it is about.*)
(* A version's hash and row count identify its content, so they are not    *)
(* kept apart from it; two statements that read hash and rows at different *)
(* moments disagree exactly when the content changed in between.           *)
(***************************************************************************)
EXTENDS Integers, FiniteSets

CONSTANTS
  Run,        \* pipeline run ids
  NoRun,      \* the head before the first publication
  Dataset, Required,
  Signal,     \* datasets whose rows carry an observation time
  Current,    \* datasets pruned of expired symbols (Signal among them)
  Symbol, Critical,  \* symbols, and those whose expiry blocks publication
  Missing,    \* no AVAILABLE version
  Payload,    \* Payload[d]: the contents stages may write to d
  Stage, SeedStage, Parents,
  Output,     \* Output[s]: the datasets the command of stage s writes
  Serial,     \* TRUE: the workflow's concurrency group admits one runner
  Reruns,     \* TRUE: a stage may begin again after it began
  MaxPasses   \* freshness passes of one publication

ASSUME NamesAssumption ==
  /\ NoRun \notin Run
  /\ Required \subseteq Dataset /\ Signal \subseteq Current /\ Current \subseteq Dataset
  /\ Critical \subseteq Symbol
  /\ \A c \in SUBSET Symbol : c # Missing
  /\ Payload \in [Dataset -> SUBSET (SUBSET Symbol)]
ASSUME StagesAssumption ==
  /\ SeedStage \in Stage
  /\ Parents \in [Stage -> SUBSET Stage]
  /\ Output \in [Stage -> SUBSET Dataset]
ASSUME PolicyAssumption == Serial \in BOOLEAN /\ Reruns \in BOOLEAN /\ MaxPasses \in Nat \ {0}

VARIABLES
  live,      \* runs whose workflow runner is alive
  runs,      \* pipeline_run.status
  stages,    \* pipeline_stage.status
  after,     \* after[r][s]: stages whose completed_at <= started_at of s
  versions,  \* the AVAILABLE dataset_version of each name
  carried,   \* names a run copied from the publication it was seeded from
  expired,   \* symbols whose observation in a run is older than the limit
  manifest,  \* publication_snapshot.metadata of a published run
  excluded,  \* freshness_exclusions recorded with the published run
  head,      \* publication_head: the run it points to
  pub        \* the publication transaction of each run's runner

vars == <<live, runs, stages, after, versions, carried, expired, manifest,
          excluded, head, pub>>

Content == SUBSET Symbol
Versions == [Dataset -> {Missing} \cup Content]
NoVersions == [d \in Dataset |-> Missing]
Phase == {"idle", "locked", "validated", "listed", "verified", "filtered"}
Idle == [phase |-> "idle", seen |-> NoVersions, changed |-> {}, out |-> {}, pass |-> 0]

TypeOK ==
  /\ live \subseteq Run
  /\ runs \in [Run -> {"ABSENT", "STARTED", "PUBLISHED", "FAILED"}]
  /\ stages \in [Run -> [Stage -> {"ABSENT", "STARTED", "PASS"}]]
  /\ after \in [Run -> [Stage -> SUBSET Stage]]
  /\ versions \in [Run -> Versions]
  /\ carried \in [Run -> SUBSET Dataset]
  /\ expired \in [Run -> SUBSET Symbol]
  /\ manifest \in [Run -> Versions]
  /\ excluded \in [Run -> SUBSET Symbol]
  /\ head \in Run \cup {NoRun}
  /\ pub \in [Run -> [phase : Phase, seen : Versions, changed : SUBSET Dataset,
                      out : SUBSET Symbol, pass : 0..MaxPasses-1]]

Init ==
  /\ live = {}
  /\ runs = [r \in Run |-> "ABSENT"]
  /\ stages = [r \in Run |-> [s \in Stage |-> "ABSENT"]]
  /\ after = [r \in Run |-> [s \in Stage |-> {}]]
  /\ versions = [r \in Run |-> NoVersions]
  /\ carried = [r \in Run |-> {}]
  /\ expired = [r \in Run |-> {}]
  /\ manifest = [r \in Run |-> NoVersions]
  /\ excluded = [r \in Run |-> {}]
  /\ head = NoRun
  /\ pub = [r \in Run |-> Idle]

-----------------------------------------------------------------------------
\* Forms with a slip in them, each named for it, stand before the definition
\* they are the mutation of.

\* No publication holds the pipeline_run row (SELECT ... FOR UPDATE).
RowFree(r) == pub[r].phase = "idle"

AnyRunner == TRUE
\* concurrency.group admits the next runner.
RunnerAdmitted == Serial => live = {}

\* UPDATE ... WHERE status <> 'PUBLISHED'
Failable(r) == runs[r] \in {"STARTED", "FAILED"}

\* start_run, by a new runner of the workflow.
StartRun(r) ==
  /\ RunnerAdmitted
  /\ runs[r] = "ABSENT"
  /\ live' = live \cup {r}
  /\ runs' = [runs EXCEPT ![r] = "STARTED"]
  /\ UNCHANGED <<stages, after, versions, carried, expired, manifest, excluded, head, pub>>

\* fail_run waits for a publication's lock, then reads the status it left.
FailRun(r) ==
  /\ r \in live
  /\ RowFree(r)
  /\ Failable(r)
  /\ runs' = [runs EXCEPT ![r] = "FAILED"]
  /\ UNCHANGED <<live, stages, after, versions, carried, expired, manifest, excluded,
                 head, pub>>

\* The runner ends or is killed: its processes die, its transaction rolls back.
RunnerStops(r) ==
  /\ r \in live
  /\ live' = live \ {r}
  /\ pub' = [pub EXCEPT ![r] = Idle]
  /\ UNCHANGED <<runs, stages, after, versions, carried, expired, manifest, excluded, head>>

\* The foreign key of a NEW row waits for the lock; an existing row does not.
NewRowAllowed(r, old, none) == old = none => RowFree(r)

\* The workflow begins a stage once.  What it waits for first is written in its
\* shell steps and not taken from the contract of the stages.
RunnerBegins(r, s) == Reruns \/ stages[r][s] = "ABSENT"

Passed(r) == {p \in Stage : stages[r][p] = "PASS"}

\* stage_started inserts the stage or resets it; no status of the run matters.
StageStarted(r, s) ==
  /\ r \in live
  /\ RunnerBegins(r, s)
  /\ NewRowAllowed(r, stages[r][s], "ABSENT")
  /\ stages' = [stages EXCEPT ![r][s] = "STARTED"]
  /\ after' = [after EXCEPT ![r][s] = Passed(r) \ {s}]
  /\ UNCHANGED <<live, runs, versions, carried, expired, manifest, excluded, head, pub>>

\* stage_finished: whoever began before it did not begin after it.
StageFinished(r, s) ==
  /\ r \in live
  /\ stages[r][s] = "STARTED"
  /\ stages' = [stages EXCEPT ![r][s] = "PASS"]
  /\ after' = [after EXCEPT ![r] = [t \in Stage |-> after[r][t] \ {s}]]
  /\ UNCHANGED <<live, runs, versions, carried, expired, manifest, excluded, head, pub>>

\* write_dataset by the command of a running stage: the version is replaced.
\* It waits for a publication's row locks on versions that its filter changed.
WriteDataset(r, s, d, c) ==
  /\ r \in live
  /\ stages[r][s] = "STARTED" /\ d \in Output[s]
  /\ d \notin pub[r].changed
  /\ NewRowAllowed(r, versions[r][d], Missing)
  /\ versions' = [versions EXCEPT ![r][d] = c]
  /\ carried' = [carried EXCEPT ![r] = @ \ {d}]
  /\ UNCHANGED <<live, runs, stages, after, expired, manifest, excluded, head, pub>>

\* publication_dataset: the names that a publication is made of.
Listed(r) == {d \in Dataset : manifest[r][d] # Missing}

\* seed_from_publication: a live run starts from the published versions.
SeedFromPublication(r) ==
  /\ r \in live
  /\ stages[r][SeedStage] = "STARTED"
  /\ RowFree(r)
  /\ head # NoRun
  /\ Required \subseteq Listed(head)
  /\ \A d \in Listed(head) : versions[r][d] = Missing
  /\ versions' = [versions EXCEPT ![r] =
                    [d \in Dataset |-> IF d \in Listed(head) THEN versions[head][d] ELSE @[d]]]
  /\ carried' = [carried EXCEPT ![r] = @ \cup Listed(head)]
  /\ UNCHANGED <<live, runs, stages, after, expired, manifest, excluded, head, pub>>

\* An observation of the run passes its age limit.
Expire(r, x) ==
  /\ r \in live
  /\ runs[r] = "STARTED"
  /\ x \notin expired[r]
  /\ expired' = [expired EXCEPT ![r] = @ \cup {x}]
  /\ UNCHANGED <<live, runs, stages, after, versions, carried, manifest, excluded, head, pub>>

-----------------------------------------------------------------------------
(* publish, statement by statement *)

Step(r, from, to) ==
  /\ r \in live
  /\ pub[r].phase = from
  /\ pub' = [pub EXCEPT ![r].phase = to]

\* SELECT status FROM pipeline_run ... FOR UPDATE
PublishLock(r) ==
  /\ Step(r, "idle", "locked")
  /\ runs[r] = "STARTED"
  /\ UNCHANGED <<live, runs, stages, after, versions, carried, expired, manifest, excluded, head>>

AllStagesBegun(r) == \A s \in Stage : stages[r][s] # "ABSENT"
StagesPassed(r) == Passed(r) = Stage
\* validate_stages: the whole stage set passed, each after its parents; the
\* tests of publish itself (none unfinished, at least one) are weaker.
StagesValid(r) ==
  \A s \in Stage : stages[r][s] = "PASS" /\ Parents[s] \subseteq after[r][s]

PublishValidate(r) ==
  /\ Step(r, "locked", "validated")
  /\ StagesValid(r)
  /\ UNCHANGED <<live, runs, stages, after, versions, carried, expired, manifest, excluded, head>>

AnyListed(r) == TRUE
\* No required name is missing among the AVAILABLE versions.
AllListed(r) == \A d \in Required : versions[r][d] # Missing

\* SELECT dataset_name, content_hash, row_count
PublishList(r) ==
  /\ r \in live
  /\ pub[r].phase = "validated"
  /\ AllListed(r)
  /\ pub' = [pub EXCEPT ![r].phase = "listed", ![r].seen = versions[r]]
  /\ UNCHANGED <<live, runs, stages, after, versions, carried, expired, manifest, excluded, head>>

\* The payloads hash to the hashes listed, else corrupt=name.
PublishVerify(r) ==
  /\ Step(r, "listed", "verified")
  /\ \A d \in Dataset : pub[r].seen[d] # Missing => versions[r][d] = pub[r].seen[d]
  /\ UNCHANGED <<live, runs, stages, after, versions, carried, expired, manifest, excluded, head>>

\* The symbols of signal rows that are past their age limit now.
ExpiredIn(r, v) ==
  {x \in expired[r] : \E d \in Signal : v[d] # Missing /\ x \in v[d]}

PruneSignals(v, x) ==
  [d \in Dataset |-> IF d \in Signal /\ v[d] # Missing THEN v[d] \ x ELSE v[d]]
\* The projection without the expired symbols, in every current output.
Prune(v, x) ==
  [d \in Dataset |-> IF d \in Current /\ v[d] # Missing THEN v[d] \ x ELSE v[d]]

Differs(v, w) == {d \in Dataset : v[d] # w[d]}

\* The last pass must be one that finds nothing.
PassesLeft(r) == pub[r].pass + 1 < MaxPasses

\* One pass that excludes rows; a critical symbol fails, so does a pass too many.
PublishFilter(r) ==
  LET gone == ExpiredIn(r, pub[r].seen)
      kept == Prune(pub[r].seen, gone)
  IN  /\ r \in live
      /\ pub[r].phase = "verified"
      /\ gone # {} /\ gone \cap Critical = {}
      /\ PassesLeft(r)
      /\ pub' = [pub EXCEPT ![r].seen = kept,
                            ![r].changed = @ \cup Differs(kept, pub[r].seen),
                            ![r].out = @ \cup gone,
                            ![r].pass = @ + 1]
      /\ UNCHANGED <<live, runs, stages, after, versions, carried, expired, manifest,
                     excluded, head>>

\* The pass that finds nothing to exclude.
PublishFresh(r) ==
  /\ ExpiredIn(r, pub[r].seen) = {}
  /\ Step(r, "verified", "filtered")
  /\ UNCHANGED <<live, runs, stages, after, versions, carried, expired, manifest, excluded, head>>

\* The manifest recomputed after the passes.
FinalManifest(r) == pub[r].seen

\* Snapshot, head and run change together at the commit; the client may still
\* hear an error (the deadline expired, or the acknowledgement was lost).
PublishCommit(r) ==
  /\ r \in live
  /\ pub[r].phase = "filtered"
  /\ versions' = [versions EXCEPT ![r] =
                    [d \in Dataset |-> IF d \in pub[r].changed THEN pub[r].seen[d]
                                       ELSE versions[r][d]]]
  /\ carried' = [carried EXCEPT ![r] = @ \ pub[r].changed]
  /\ manifest' = [manifest EXCEPT ![r] = FinalManifest(r)]
  /\ excluded' = [excluded EXCEPT ![r] = pub[r].out]
  /\ head' = r
  /\ runs' = [runs EXCEPT ![r] = "PUBLISHED"]
  /\ pub' = [pub EXCEPT ![r] = Idle]
  /\ UNCHANGED <<live, stages, after, expired>>

\* Any check of publish raises, or a bound of publication_bounds expires: the
\* connection closes and the transaction rolls back.
PublishAbort(r) ==
  /\ r \in live
  /\ pub[r].phase # "idle"
  /\ pub' = [pub EXCEPT ![r] = Idle]
  /\ UNCHANGED <<live, runs, stages, after, versions, carried, expired, manifest, excluded, head>>

RunStep(r) ==
  \/ StartRun(r) \/ FailRun(r) \/ RunnerStops(r)
  \/ \E s \in Stage : StageStarted(r, s) \/ StageFinished(r, s)
  \/ \E s \in Stage : \E d \in Output[s] : \E c \in Payload[d] : WriteDataset(r, s, d, c)
  \/ SeedFromPublication(r)
  \/ \E x \in Symbol : Expire(r, x)
  \/ PublishLock(r) \/ PublishValidate(r) \/ PublishList(r) \/ PublishVerify(r)
  \/ PublishFilter(r) \/ PublishFresh(r) \/ PublishCommit(r) \/ PublishAbort(r)

Next == \E r \in Run : RunStep(r)

Spec == Init /\ [][Next]_vars

-----------------------------------------------------------------------------
(* The head names a published run and every published run is complete: its
   manifest has every required dataset and describes exactly the versions
   that readers of the run get, after the exclusions of the last pass. *)
HeadIsComplete ==
  /\ head # NoRun => runs[head] = "PUBLISHED"
  /\ \A r \in Run : runs[r] = "PUBLISHED" =>
       /\ \A d \in Required : manifest[r][d] # Missing
       /\ \A d \in Dataset : manifest[r][d] # Missing => manifest[r][d] = versions[r][d]

(* A symbol that a freshness pass excluded is in no current output of the
   publication, though only the signal datasets carry its observation. *)
ExcludedNowhere ==
  \A r \in Run : \A d \in Current :
    manifest[r][d] # Missing => manifest[r][d] \cap excluded[r] = {}

(* No stage of a published run began before a stage it builds on had completed,
   whatever stages ran in the background while it was published
   (stage_contract.py, line 83, over the waits of production.yml). *)
PublishedInOrder ==
  \A r \in Run : runs[r] = "PUBLISHED" => \A s \in Stage : Parents[s] \subseteq after[r][s]

(* A finished run stays finished: a late fail_run never takes back a
   publication, and a failed run is never published. *)
FinishedStaysFinished ==
  [][\A r \in Run : runs[r] \in {"PUBLISHED", "FAILED"} => runs'[r] = runs[r]]_vars

(* A publication does not undo another: what a run carried over from the
   publication it was seeded from is still what the replaced head holds. *)
NothingCarriedBack ==
  [][head' # head => \A d \in carried'[head'] : versions'[head'][d] = versions[head][d]]_vars

\* What readers of the published mode see.
Published == IF head = NoRun THEN NoRun
             ELSE [run |-> head,
                   data |-> [d \in Dataset |-> IF d \in Listed(head) THEN versions[head][d]
                                               ELSE Missing]]

PublishedRuns == {r \in Run : runs[r] = "PUBLISHED"}

Register == INSTANCE PublicationRegister
  WITH current <- Published, published <- PublishedRuns, Nothing <- NoRun

(* Readers see a register that only a new, complete publication replaces:
   no run publishes twice and nothing changes the data under their feet. *)
ImplementsRegister == Register!Spec
=============================================================================
