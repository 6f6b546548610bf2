---------------------- MODULE PublicationControlProofs ----------------------
(***************************************************************************)
(* The safety of PublicationControl for any runs, datasets, contents and   *)
(* stages.  What holds however stages are begun is proved first; that a    *)
(* publication is complete and never changes afterwards needs the          *)
(* workflow's discipline (Reruns = FALSE: no stage begins twice).          *)
(***************************************************************************)
EXTENDS PublicationControl, TLAPS

PubRecord == [phase : Phase, seen : Versions, changed : SUBSET Dataset,
              out : SUBSET Symbol, pass : 0..MaxPasses-1]

\* A publication transaction locked the row of a run that can be published.
LockedIsStarted == \A r \in Run : pub[r].phase # "idle" => runs[r] = "STARTED"

\* Every stage of the run passed, in the order of the contract: no command of
\* it writes any more and no stage begins.
AllPassed(r) == \A s \in Stage : stages[r][s] = "PASS" /\ Parents[s] \subseteq after[r][s]

\* The transaction that has read the versions sees them as they are, but for
\* those it changed itself, complete and without the symbols it excluded.
ViewIsExact(r) ==
  /\ \A d \in Dataset \ pub[r].changed : pub[r].seen[d] = versions[r][d]
  /\ \A d \in Required : pub[r].seen[d] # Missing
  /\ \A d \in Current : pub[r].seen[d] # Missing => pub[r].seen[d] \cap pub[r].out = {}

Reading == {"listed", "verified", "filtered"}

RunInv(r) ==
  /\ pub[r].phase # "idle" => runs[r] = "STARTED"
  /\ pub[r].phase \notin Reading => pub[r].changed = {} /\ pub[r].out = {}
  /\ pub[r].phase \in Reading \cup {"validated"} => AllPassed(r)
  /\ pub[r].phase \in Reading => ViewIsExact(r)
  /\ runs[r] = "PUBLISHED" =>
       AllPassed(r) /\ manifest[r] = versions[r] /\ Required \subseteq Listed(r)
  /\ \A d \in Current : manifest[r][d] # Missing => manifest[r][d] \cap excluded[r] = {}

HeadPublished == head # NoRun => runs[head] = "PUBLISHED"

\* The inductive invariant under the workflow's discipline.
PubInv == TypeOK /\ HeadPublished /\ \A r \in Run : RunInv(r)

-----------------------------------------------------------------------------
(* The transaction record of a runner that runs no publication is typed. *)
LEMMA IdleType == Idle \in PubRecord
<1>1. NoVersions \in Versions
  BY DEF NoVersions, Versions
<1>2. 0 \in 0..MaxPasses-1
  BY PolicyAssumption
<1>3. QED
  BY <1>1, <1>2 DEF Idle, PubRecord, Phase

(* Pruning expired symbols from a projection leaves a projection. *)
LEMMA PruneType ==
  ASSUME NEW v \in Versions, NEW x \in SUBSET Symbol
  PROVE  Prune(v, x) \in Versions
<1>1. ASSUME NEW d \in Dataset, v[d] # Missing PROVE v[d] \ x \in Content
  BY <1>1 DEF Versions, Content
<1>2. QED
  BY <1>1 DEF Prune, Versions

(* The types hold before the first run. *)
LEMMA InitType == Init => TypeOK /\ LockedIsStarted
<1> SUFFICES ASSUME Init PROVE TypeOK /\ LockedIsStarted
  OBVIOUS
<1>1. NoVersions \in Versions
  BY DEF NoVersions, Versions
<1>2. pub \in [Run -> PubRecord]
  BY IdleType DEF Init
<1>3. TypeOK
  BY <1>1, <1>2 DEF Init, TypeOK, PubRecord
<1>4. LockedIsStarted
  BY DEF Init, LockedIsStarted, Idle
<1>5. QED
  BY <1>3, <1>4

(* Every operation keeps the types. *)
LEMMA TypeStep == TypeOK /\ [Next]_vars => TypeOK'
<1> SUFFICES ASSUME TypeOK, [Next]_vars PROVE TypeOK'
  OBVIOUS
<1>0. pub \in [Run -> PubRecord]
  BY DEF TypeOK, PubRecord
<1>1. ASSUME NEW r \in Run, StartRun(r) \/ FailRun(r) PROVE TypeOK'
  BY <1>1 DEF StartRun, FailRun, TypeOK
<1>2. ASSUME NEW r \in Run, RunnerStops(r) \/ PublishAbort(r) PROVE TypeOK'
  <2>1. pub' \in [Run -> PubRecord] /\ live' \subseteq Run
    BY <1>0, <1>2, IdleType DEF RunnerStops, PublishAbort, TypeOK
  <2>2. QED
    BY <1>2, <2>1 DEF RunnerStops, PublishAbort, TypeOK, PubRecord
<1>3. ASSUME NEW r \in Run, NEW s \in Stage, StageStarted(r, s) PROVE TypeOK'
  <2>1. Passed(r) \ {s} \subseteq Stage
    BY DEF Passed
  <2>2. QED
    BY <1>3, <2>1 DEF StageStarted, TypeOK
<1>4. ASSUME NEW r \in Run, NEW s \in Stage, StageFinished(r, s) PROVE TypeOK'
  <2>1. [t \in Stage |-> after[r][t] \ {s}] \in [Stage -> SUBSET Stage]
    BY DEF TypeOK
  <2>2. QED
    BY <1>4, <2>1 DEF StageFinished, TypeOK
<1>5. ASSUME NEW r \in Run, NEW s \in Stage, NEW d \in Output[s], NEW c \in Payload[d],
             WriteDataset(r, s, d, c)
      PROVE TypeOK'
  <2>1. d \in Dataset /\ c \in Content
    BY NamesAssumption, StagesAssumption DEF Content
  <2>2. [versions[r] EXCEPT ![d] = c] \in Versions
    BY <2>1 DEF TypeOK, Versions
  <2>3. versions' \in [Run -> Versions]
    BY <1>5, <2>2 DEF WriteDataset, TypeOK
  <2>4. carried' \in [Run -> SUBSET Dataset]
    BY <1>5 DEF WriteDataset, TypeOK
  <2>5. QED
    BY <1>5, <2>3, <2>4 DEF WriteDataset, TypeOK
<1>6. ASSUME NEW r \in Run, SeedFromPublication(r) PROVE TypeOK'
  <2>1. head \in Run /\ Listed(head) \subseteq Dataset
    BY <1>6 DEF SeedFromPublication, TypeOK, Listed
  <2>2. [d \in Dataset |-> IF d \in Listed(head) THEN versions[head][d]
                           ELSE versions[r][d]] \in Versions
    BY <2>1 DEF TypeOK, Versions
  <2>3. versions' \in [Run -> Versions]
    BY <1>6, <2>2 DEF SeedFromPublication, TypeOK
  <2>4. carried' \in [Run -> SUBSET Dataset]
    BY <1>6, <2>1 DEF SeedFromPublication, TypeOK
  <2>5. QED
    BY <1>6, <2>3, <2>4 DEF SeedFromPublication, TypeOK
<1>7. ASSUME NEW r \in Run, NEW x \in Symbol, Expire(r, x) PROVE TypeOK'
  BY <1>7 DEF Expire, TypeOK
<1>8. ASSUME NEW r \in Run, PublishLock(r) \/ PublishValidate(r) \/ PublishVerify(r)
                            \/ PublishFresh(r)
      PROVE TypeOK'
  <2>1. \E to \in Phase : pub' = [pub EXCEPT ![r].phase = to]
    BY <1>8 DEF PublishLock, PublishValidate, PublishVerify, PublishFresh, Step, Phase
  <2>2. pub' \in [Run -> PubRecord]
    BY <1>0, <2>1 DEF PubRecord
  <2>3. UNCHANGED <<live, runs, stages, after, versions, carried, expired, manifest,
                    excluded, head>>
    BY <1>8 DEF PublishLock, PublishValidate, PublishVerify, PublishFresh
  <2>4. QED
    BY <2>2, <2>3 DEF TypeOK, PubRecord
<1>9. ASSUME NEW r \in Run, PublishList(r) PROVE TypeOK'
  <2>1. versions[r] \in Versions /\ "listed" \in Phase
    BY DEF TypeOK, Phase
  <2>2. pub' = [pub EXCEPT ![r].phase = "listed", ![r].seen = versions[r]]
    BY <1>9 DEF PublishList
  <2>3. pub' \in [Run -> PubRecord]
    BY <1>0, <2>1, <2>2 DEF PubRecord
  <2>4. QED
    BY <1>9, <2>3 DEF PublishList, TypeOK, PubRecord
<1>10. ASSUME NEW r \in Run, PublishFilter(r) PROVE TypeOK'
  <2> DEFINE gone == ExpiredIn(r, pub[r].seen)
             kept == Prune(pub[r].seen, gone)
             diff == Differs(kept, pub[r].seen)
  <2>1. gone \subseteq Symbol /\ pub[r].seen \in Versions
    BY <1>0 DEF ExpiredIn, TypeOK, PubRecord
  <2>2. kept \in Versions
    BY <2>1, PruneType
  <2>3. diff \subseteq Dataset
    BY DEF Differs
  <2>4. pub[r].pass + 1 \in 0..MaxPasses-1
    BY <1>0, <1>10, PolicyAssumption DEF PublishFilter, PassesLeft, PubRecord
  <2>5. pub' = [pub EXCEPT ![r].seen = kept, ![r].changed = @ \cup diff,
                           ![r].out = @ \cup gone, ![r].pass = @ + 1]
    BY <1>10 DEF PublishFilter
  <2> HIDE DEF gone, kept, diff
  <2>6. pub' \in [Run -> PubRecord]
    BY <1>0, <2>1, <2>2, <2>3, <2>4, <2>5 DEF PubRecord
  <2>7. QED
    BY <1>10, <2>6 DEF PublishFilter, TypeOK, PubRecord
<1>11. ASSUME NEW r \in Run, PublishCommit(r) PROVE TypeOK'
  <2>1. pub[r].seen \in Versions /\ pub[r].out \subseteq Symbol
    BY <1>0 DEF PubRecord
  <2>2. [d \in Dataset |-> IF d \in pub[r].changed THEN pub[r].seen[d]
                           ELSE versions[r][d]] \in Versions
    BY <2>1 DEF TypeOK, Versions
  <2>3. versions' \in [Run -> Versions] /\ manifest' \in [Run -> Versions]
    BY <1>11, <2>1, <2>2 DEF PublishCommit, FinalManifest, TypeOK
  <2>4. /\ carried' \in [Run -> SUBSET Dataset]
        /\ excluded' \in [Run -> SUBSET Symbol]
        /\ pub' \in [Run -> PubRecord]
    BY <1>0, <1>11, <2>1, IdleType DEF PublishCommit, TypeOK
  <2>5. QED
    BY <1>11, <2>3, <2>4 DEF PublishCommit, TypeOK, PubRecord
<1>12. ASSUME UNCHANGED vars PROVE TypeOK'
  BY <1>12 DEF vars, TypeOK
<1>13. QED
  BY <1>1, <1>2, <1>3, <1>4, <1>5, <1>6, <1>7, <1>8, <1>9, <1>10, <1>11, <1>12
  DEF Next, RunStep

(* Every step changes the transaction and the status of one run only. *)
LEMMA LockedStep == TypeOK /\ LockedIsStarted /\ [Next]_vars => LockedIsStarted'
<1> SUFFICES ASSUME TypeOK, LockedIsStarted, [Next]_vars PROVE LockedIsStarted'
  OBVIOUS
<1> USE DEF LockedIsStarted, TypeOK
<1>1. ASSUME NEW r \in Run, StartRun(r) \/ FailRun(r) PROVE LockedIsStarted'
  BY <1>1 DEF StartRun, FailRun, RowFree
<1>2. ASSUME NEW r \in Run, RunnerStops(r) \/ PublishAbort(r) \/ PublishCommit(r)
      PROVE LockedIsStarted'
  BY <1>2 DEF RunnerStops, PublishAbort, PublishCommit, Idle
<1>3. ASSUME NEW r \in Run, PublishLock(r) \/ PublishValidate(r) \/ PublishList(r)
                            \/ PublishVerify(r) \/ PublishFilter(r) \/ PublishFresh(r)
      PROVE LockedIsStarted'
  <2>1. runs' = runs /\ \A q \in Run : q # r => pub'[q] = pub[q]
    BY <1>3 DEF PublishLock, PublishValidate, PublishList, PublishVerify, PublishFilter,
                PublishFresh, Step
  <2>2. runs[r] = "STARTED"
    BY <1>3 DEF PublishLock, PublishValidate, PublishList, PublishVerify, PublishFilter,
                PublishFresh, Step
  <2>3. QED
    BY <2>1, <2>2
<1>4. ASSUME UNCHANGED <<runs, pub>> PROVE LockedIsStarted'
  BY <1>4
<1>5. QED
  BY <1>1, <1>2, <1>3, <1>4 DEF Next, RunStep, vars, StageStarted, StageFinished,
     WriteDataset, SeedFromPublication, Expire

(* Every reachable state of the publication plane is typed; the count of the
   freshness passes stays below its bound (publish, control_plane.py). *)
THEOREM TypeCorrect == Spec => []TypeOK
<1>1. Init => TypeOK
  BY InitType
<1>2. QED
  BY <1>1, TypeStep, PTL DEF Spec

(* However stages are begun: fail_run never takes a publication back, and a
   failed run is never published, because each waits for the row's lock. *)
THEOREM Finished == Spec => FinishedStaysFinished
<1>1. TypeOK /\ LockedIsStarted /\ [Next]_vars =>
        [\A r \in Run : runs[r] \in {"PUBLISHED", "FAILED"} => runs'[r] = runs[r]]_vars
  <2> SUFFICES ASSUME TypeOK, LockedIsStarted, Next, NEW q \in Run,
                      runs[q] \in {"PUBLISHED", "FAILED"}
               PROVE  runs'[q] = runs[q]
    OBVIOUS
  <2> USE DEF TypeOK
  <2>1. ASSUME NEW r \in Run, StartRun(r) \/ FailRun(r) PROVE runs'[q] = runs[q]
    BY <2>1 DEF StartRun, FailRun, Failable
  <2>2. ASSUME NEW r \in Run, PublishCommit(r) PROVE runs'[q] = runs[q]
    BY <2>2 DEF PublishCommit, LockedIsStarted
  <2>3. ASSUME runs' = runs PROVE runs'[q] = runs[q]
    BY <2>3
  <2>4. QED
    BY <2>1, <2>2, <2>3 DEF Next, RunStep, RunnerStops, StageStarted, StageFinished,
       WriteDataset, SeedFromPublication, Expire, PublishLock, PublishValidate, PublishList,
       PublishVerify, PublishFilter, PublishFresh, PublishAbort
<1>2. QED
  BY <1>1, InitType, TypeStep, LockedStep, PTL DEF Spec, FinishedStaysFinished

-----------------------------------------------------------------------------
(* An operation on one run leaves the others' rows and transactions alone. *)
LEMMA OthersUntouched ==
  ASSUME TypeOK, NEW r \in Run, RunStep(r), NEW q \in Run, q # r
  PROVE  /\ pub'[q] = pub[q] /\ runs'[q] = runs[q] /\ stages'[q] = stages[q]
         /\ after'[q] = after[q] /\ versions'[q] = versions[q] /\ manifest'[q] = manifest[q]
         /\ excluded'[q] = excluded[q]
<1> USE DEF TypeOK
<1>1. CASE StartRun(r) \/ FailRun(r) \/ RunnerStops(r) \/ SeedFromPublication(r)
  BY <1>1 DEF StartRun, FailRun, RunnerStops, SeedFromPublication
<1>2. ASSUME NEW s \in Stage, StageStarted(r, s) \/ StageFinished(r, s)
      PROVE /\ stages'[q] = stages[q] /\ after'[q] = after[q]
            /\ UNCHANGED <<pub, runs, versions, manifest, excluded>>
  BY <1>2 DEF StageStarted, StageFinished
<1>3. ASSUME NEW s \in Stage, NEW d \in Output[s], NEW c \in Payload[d], WriteDataset(r, s, d, c)
      PROVE versions'[q] = versions[q] /\ UNCHANGED <<pub, runs, stages, after, manifest, excluded>>
  BY <1>3 DEF WriteDataset
<1>4. ASSUME NEW x \in Symbol, Expire(r, x)
      PROVE UNCHANGED <<pub, runs, stages, after, versions, manifest, excluded>>
  BY <1>4 DEF Expire
<1>5. CASE PublishLock(r) \/ PublishValidate(r) \/ PublishVerify(r) \/ PublishFresh(r)
  BY <1>5 DEF PublishLock, PublishValidate, PublishVerify, PublishFresh, Step
<1>6. CASE PublishList(r) \/ PublishFilter(r) \/ PublishAbort(r)
  BY <1>6 DEF PublishList, PublishFilter, PublishAbort
<1>7. CASE PublishCommit(r)
  BY <1>7 DEF PublishCommit
<1>8. QED
  BY <1>1, <1>2, <1>3, <1>4, <1>5, <1>6, <1>7 DEF RunStep

(* What RunInv says of a run depends on that run's rows only. *)
LEMMA RunInvKept ==
  ASSUME NEW q \in Run, RunInv(q),
         pub'[q] = pub[q], runs'[q] = runs[q], stages'[q] = stages[q],
         after'[q] = after[q], versions'[q] = versions[q], manifest'[q] = manifest[q], excluded'[q] = excluded[q]
  PROVE  RunInv(q)'
BY DEF RunInv, AllPassed, ViewIsExact, Listed, Reading

(* The invariant holds before the first run. *)
LEMMA InitPub == Init => PubInv
<1> SUFFICES ASSUME Init PROVE PubInv
  OBVIOUS
<1>1. HeadPublished
  BY DEF Init, HeadPublished
<1>2. ASSUME NEW r \in Run PROVE RunInv(r)
  <2>1. \A d \in Current : manifest[r][d] = Missing
    BY NamesAssumption DEF Init, NoVersions
  <2>2. QED
    BY <2>1 DEF Init, Idle, RunInv, Reading
<1>3. QED
  BY <1>1, <1>2, InitType DEF PubInv

(* A run that no stage can begin on again keeps what was validated: the
   operations on stages and versions are over once every stage passed. *)
LEMMA RunStepInv ==
  ASSUME ~Reruns, PubInv, TypeOK', NEW r \in Run, RunStep(r)
  PROVE  RunInv(r)'
<1> USE DEF PubInv
<1>0. TypeOK /\ RunInv(r)
  OBVIOUS
<1>1. CASE StartRun(r) \/ FailRun(r)
  <2>1. pub[r].phase = "idle" /\ runs'[r] \in {"STARTED", "FAILED"}
    BY <1>0, <1>1 DEF StartRun, FailRun, RowFree, TypeOK, RunInv
  <2>2. UNCHANGED <<pub, stages, after, versions, manifest, excluded>>
    BY <1>1 DEF StartRun, FailRun
  <2>3. QED
    BY <1>0, <2>1, <2>2 DEF RunInv, Reading, Listed
<1>2. CASE RunnerStops(r) \/ PublishAbort(r)
  <2>1. pub'[r] = Idle /\ UNCHANGED <<runs, stages, after, versions, manifest, excluded>>
    BY <1>0, <1>2 DEF RunnerStops, PublishAbort, TypeOK
  <2>2. QED
    BY <1>0, <2>1 DEF RunInv, Reading, Idle, AllPassed, Listed
<1>3. ASSUME NEW s \in Stage, StageStarted(r, s) \/ StageFinished(r, s) PROVE RunInv(r)'
  <2>1. ~AllPassed(r)
    BY <1>3 DEF StageStarted, StageFinished, RunnerBegins, AllPassed
  <2>2. UNCHANGED <<pub, runs, versions, manifest, excluded>>
    BY <1>3 DEF StageStarted, StageFinished
  <2>3. QED
    BY <1>0, <2>1, <2>2 DEF RunInv, Reading
<1>4. ASSUME NEW s \in Stage, NEW d \in Output[s], NEW c \in Payload[d],
             WriteDataset(r, s, d, c)
      PROVE  RunInv(r)'
  <2>1. ~AllPassed(r)
    BY <1>4 DEF WriteDataset, AllPassed
  <2>2. UNCHANGED <<pub, runs, stages, after, manifest, excluded>>
    BY <1>4 DEF WriteDataset
  <2>3. QED
    BY <1>0, <2>1, <2>2 DEF RunInv, Reading, AllPassed
<1>5. CASE SeedFromPublication(r)
  <2>1. ~AllPassed(r)
    BY <1>5, StagesAssumption DEF SeedFromPublication, AllPassed
  <2>2. UNCHANGED <<pub, runs, stages, after, manifest, excluded>>
    BY <1>5 DEF SeedFromPublication
  <2>3. QED
    BY <1>0, <2>1, <2>2 DEF RunInv, Reading, AllPassed
<1>6. ASSUME NEW x \in Symbol, Expire(r, x) PROVE RunInv(r)'
  BY <1>0, <1>6, RunInvKept DEF Expire
<1>7. CASE PublishLock(r) \/ PublishValidate(r) \/ PublishVerify(r) \/ PublishFresh(r)
  <2>1. UNCHANGED <<runs, stages, after, versions, manifest, excluded>>
    BY <1>7 DEF PublishLock, PublishValidate, PublishVerify, PublishFresh
  <2>2. /\ pub'[r].seen = pub[r].seen /\ pub'[r].changed = pub[r].changed
        /\ pub'[r].out = pub[r].out
    BY <1>0, <1>7 DEF PublishLock, PublishValidate, PublishVerify, PublishFresh, Step, TypeOK
  <2>3. CASE PublishLock(r)
    <3>1. pub'[r].phase = "locked" /\ pub[r].phase = "idle" /\ runs[r] = "STARTED"
      BY <1>0, <2>3 DEF PublishLock, Step, TypeOK
    <3>2. QED
      BY <1>0, <2>1, <2>2, <3>1 DEF RunInv, Reading, Listed
  <2>4. CASE PublishValidate(r)
    <3>1. pub'[r].phase = "validated" /\ pub[r].phase = "locked" /\ AllPassed(r)
      BY <1>0, <2>4 DEF PublishValidate, StagesValid, AllPassed, Step, TypeOK
    <3>2. QED
      BY <1>0, <2>1, <2>2, <3>1 DEF RunInv, Reading, Listed, AllPassed
  <2>5. CASE PublishVerify(r) \/ PublishFresh(r)
    <3>1. pub'[r].phase \in Reading /\ pub[r].phase \in Reading
      BY <1>0, <2>5 DEF PublishVerify, PublishFresh, Step, TypeOK, Reading
    <3>2. QED
      BY <1>0, <2>1, <2>2, <3>1 DEF RunInv, Reading, Listed, AllPassed, ViewIsExact
  <2>6. QED
    BY <1>7, <2>3, <2>4, <2>5
<1>8. CASE PublishList(r)
  <2>1. UNCHANGED <<runs, stages, after, versions, manifest, excluded>>
    BY <1>8 DEF PublishList
  <2>2. /\ pub[r].phase = "validated" /\ pub'[r].phase = "listed"
        /\ pub'[r].seen = versions[r] /\ pub'[r].changed = pub[r].changed
        /\ pub'[r].out = pub[r].out
    BY <1>0, <1>8 DEF PublishList, TypeOK
  <2>3. pub[r].changed = {} /\ pub[r].out = {} /\ AllPassed(r) /\ runs[r] = "STARTED"
    BY <1>0, <2>2 DEF RunInv, Reading
  <2>4. ViewIsExact(r)'
    BY <1>8, <2>1, <2>2, <2>3 DEF PublishList, AllListed, ViewIsExact
  <2>5. QED
    BY <1>0, <2>1, <2>2, <2>3, <2>4 DEF RunInv, Reading, Listed, AllPassed
<1>9. CASE PublishFilter(r)
  <2> DEFINE gone == ExpiredIn(r, pub[r].seen)
             kept == Prune(pub[r].seen, gone)
  <2>1. UNCHANGED <<runs, stages, after, versions, manifest, excluded>>
    BY <1>9 DEF PublishFilter
  <2>2. /\ pub[r].phase = "verified" /\ pub'[r].phase = "verified"
        /\ pub'[r].seen = kept /\ pub'[r].changed = pub[r].changed \cup Differs(kept, pub[r].seen)
        /\ pub'[r].out = pub[r].out \cup gone
    BY <1>0, <1>9 DEF PublishFilter, TypeOK
  <2>3. ViewIsExact(r) /\ AllPassed(r) /\ runs[r] = "STARTED"
    BY <1>0, <2>2 DEF RunInv, Reading
  <2>4. \A d \in Dataset : kept[d] = IF d \in Current /\ pub[r].seen[d] # Missing
                                     THEN pub[r].seen[d] \ gone ELSE pub[r].seen[d]
    BY DEF Prune
  <2>5. \A d \in Dataset \ pub'[r].changed : kept[d] = versions[r][d]
    BY <2>2, <2>3 DEF ViewIsExact, Differs
  <2>6. \A d \in Dataset : kept[d] # Missing <=> pub[r].seen[d] # Missing
    <3>1. \A d \in Dataset : pub[r].seen[d] # Missing => pub[r].seen[d] \ gone \in Content
      BY <1>0 DEF TypeOK, Versions, Content
    <3>2. QED
      BY <2>4, <3>1, NamesAssumption DEF Content
  <2> HIDE DEF gone, kept
  <2>7. \A d \in Current : kept[d] # Missing => kept[d] \cap pub'[r].out = {}
    BY <2>2, <2>3, <2>4, <2>6, NamesAssumption DEF ViewIsExact
  <2>8. ViewIsExact(r)'
    BY <2>1, <2>2, <2>3, <2>5, <2>6, <2>7, NamesAssumption DEF ViewIsExact
  <2>9. QED
    BY <1>0, <2>1, <2>2, <2>3, <2>8 DEF RunInv, Reading, Listed, AllPassed
<1>10. CASE PublishCommit(r)
  <2>1. pub[r].phase = "filtered" /\ ViewIsExact(r) /\ AllPassed(r)
    BY <1>0, <1>10 DEF PublishCommit, RunInv, Reading
  <2>2. /\ pub'[r] = Idle /\ manifest'[r] = pub[r].seen /\ excluded'[r] = pub[r].out
        /\ stages' = stages /\ after' = after
    BY <1>0, <1>10 DEF PublishCommit, FinalManifest, TypeOK
  <2>3. versions'[r] = [d \in Dataset |-> IF d \in pub[r].changed THEN pub[r].seen[d]
                                          ELSE versions[r][d]]
    BY <1>0, <1>10 DEF PublishCommit, TypeOK
  <2>4. versions'[r] = manifest'[r]
    <3>1. pub[r].seen \in [Dataset -> {Missing} \cup Content]
      BY <1>0 DEF TypeOK, Versions
    <3>2. \A d \in Dataset : versions'[r][d] = pub[r].seen[d]
      BY <2>1, <2>3 DEF ViewIsExact
    <3>3. QED
      BY <2>2, <2>3, <3>1, <3>2
  <2>5. Required \subseteq Listed(r)'
    BY <2>1, <2>2, NamesAssumption DEF ViewIsExact, Listed
  <2>6. QED
    BY <2>1, <2>2, <2>4, <2>5 DEF RunInv, Reading, Idle, AllPassed, ViewIsExact
<1>11. QED
  BY <1>1, <1>2, <1>3, <1>4, <1>5, <1>6, <1>7, <1>8, <1>9, <1>10 DEF RunStep

(* The head moves only to a run that is published in the same step, and a
   published run is never taken back. *)
LEMMA HeadStep ==
  ASSUME TypeOK, HeadPublished, \A q \in Run : RunInv(q), NEW r \in Run, RunStep(r)
  PROVE  HeadPublished'
<1> USE DEF TypeOK, HeadPublished
<1>1. CASE PublishCommit(r)
  BY <1>1 DEF PublishCommit
<1>2. CASE StartRun(r) \/ FailRun(r)
  BY <1>2 DEF StartRun, FailRun, Failable
<1>3. CASE UNCHANGED <<head, runs>>
  BY <1>3
<1>4. QED
  BY <1>1, <1>2, <1>3 DEF RunStep, RunnerStops, StageStarted, StageFinished, WriteDataset,
     SeedFromPublication, Expire, PublishLock, PublishValidate, PublishList, PublishVerify,
     PublishFilter, PublishFresh, PublishAbort

(* Every step keeps the invariant, if no stage begins twice. *)
LEMMA PubStep ==
  ASSUME ~Reruns
  PROVE  PubInv /\ [Next]_vars => PubInv'
<1> SUFFICES ASSUME PubInv, [Next]_vars PROVE PubInv'
  OBVIOUS
<1>0. TypeOK'
  BY TypeStep DEF PubInv
<1>1. ASSUME NEW r \in Run, RunStep(r) PROVE PubInv'
  <2>1. HeadPublished'
    BY <1>1, HeadStep DEF PubInv
  <2>2. ASSUME NEW q \in Run PROVE RunInv(q)'
    <3>1. CASE q = r
      BY <1>0, <1>1, <3>1, RunStepInv
    <3>2. CASE q # r
      BY <1>1, <3>2, OthersUntouched, RunInvKept DEF PubInv
    <3>3. QED
      BY <3>1, <3>2
  <2>3. QED
    BY <1>0, <2>1, <2>2 DEF PubInv
<1>2. CASE UNCHANGED vars
  <2>1. \A q \in Run : RunInv(q)'
    BY <1>2, RunInvKept DEF PubInv, vars
  <2>2. QED
    BY <1>0, <1>2, <2>1 DEF PubInv, HeadPublished, vars
<1>3. QED
  BY <1>1, <1>2 DEF Next

(* The invariant of every reachable state under the workflow's discipline. *)
THEOREM Invariance ==
  ASSUME ~Reruns
  PROVE  Spec => []PubInv
<1>1. Init => PubInv
  BY InitPub
<1>2. PubInv /\ [Next]_vars => PubInv'
  BY PubStep
<1>3. QED
  BY <1>1, <1>2, PTL DEF Spec

(* Whatever publish has committed is complete and is what its manifest says. *)
THEOREM Completeness ==
  ASSUME ~Reruns
  PROVE  Spec => []HeadIsComplete
<1>1. PubInv => HeadIsComplete
  BY NamesAssumption DEF PubInv, HeadPublished, RunInv, HeadIsComplete, Listed, TypeOK
<1>2. Spec => []PubInv
  BY Invariance
<1>3. QED
  BY <1>1, <1>2, PTL

(* What is published was computed in the order of the contract, whatever order
   the workflow began its stages in. *)
THEOREM Ordered ==
  ASSUME ~Reruns
  PROVE  Spec => []PublishedInOrder
<1>1. PubInv => PublishedInOrder
  BY DEF PubInv, RunInv, AllPassed, PublishedInOrder
<1>2. Spec => []PubInv
  BY Invariance
<1>3. QED
  BY <1>1, <1>2, PTL

(* A symbol excluded for freshness is in no current output that is published. *)
THEOREM Exclusion ==
  ASSUME ~Reruns
  PROVE  Spec => []ExcludedNowhere
<1>1. PubInv => ExcludedNowhere
  BY DEF PubInv, RunInv, ExcludedNowhere
<1>2. Spec => []PubInv
  BY Invariance
<1>3. QED
  BY <1>1, <1>2, PTL

-----------------------------------------------------------------------------
(* A published run is frozen: its stages are over, so nothing writes it. *)
LEMMA PublishedFrozen ==
  ASSUME ~Reruns, PubInv, NEW r \in Run, RunStep(r), NEW q \in Run, runs[q] = "PUBLISHED"
  PROVE  versions'[q] = versions[q] /\ manifest'[q] = manifest[q] /\ runs'[q] = "PUBLISHED"
<1>0. TypeOK /\ RunInv(q) /\ AllPassed(q)
  BY DEF PubInv, RunInv
<1>1. CASE q # r
  BY <1>0, <1>1, OthersUntouched
<1>2. CASE q = r
  <2> USE <1>0, <1>2 DEF TypeOK
  <2>1. ~StartRun(r) /\ ~FailRun(r) /\ ~PublishCommit(r)
    BY DEF StartRun, FailRun, Failable, PublishCommit, RunInv
  <2>2. ~SeedFromPublication(r)
    BY StagesAssumption DEF SeedFromPublication, AllPassed
  <2>3. \A s \in Stage : \A d \in Output[s] : \A c \in Payload[d] : ~WriteDataset(r, s, d, c)
    BY DEF WriteDataset, AllPassed
  <2>4. UNCHANGED <<runs, versions, manifest>>
    BY <2>1, <2>2, <2>3 DEF RunStep, RunnerStops, StageStarted, StageFinished, Expire,
       PublishLock, PublishValidate, PublishList, PublishVerify, PublishFilter, PublishFresh,
       PublishAbort
  <2>5. QED
    BY <2>4
<1>3. QED
  BY <1>1, <1>2

(* Each step is a publication of the abstract register or changes nothing of
   what its readers see. *)
LEMMA RegisterStep ==
  ASSUME ~Reruns
  PROVE  PubInv /\ PubInv' /\ [Next]_vars =>
           [Register!Next]_<<Published, PublishedRuns>>
<1> SUFFICES ASSUME PubInv, PubInv', [Next]_vars
             PROVE [Register!Next]_<<Published, PublishedRuns>>
  OBVIOUS
<1>0. TypeOK /\ TypeOK' /\ HeadPublished
  BY DEF PubInv
<1>1. ASSUME NEW r \in Run, PublishCommit(r)
      PROVE  Register!Publish(r)
  <2>1. runs[r] = "STARTED" /\ r # NoRun
    BY <1>1, NamesAssumption DEF PublishCommit, PubInv, RunInv
  <2>2. head' = r /\ PublishedRuns' = PublishedRuns \cup {r}
    BY <1>0, <1>1 DEF PublishCommit, TypeOK, PublishedRuns
  <2> DEFINE data == [d \in Dataset |-> IF d \in Listed(r)' THEN versions'[r][d] ELSE Missing]
  <2>3. Published' = [run |-> r, data |-> data]
    BY <2>1, <2>2 DEF Published, Listed
  <2>4. data \in [Dataset -> {Missing} \cup Content]
    BY <1>0 DEF TypeOK, Versions
  <2>5. \A d \in Required : data[d] # Missing
    <3>1. RunInv(r)' /\ runs'[r] = "PUBLISHED"
      BY <1>0, <1>1 DEF PubInv, PublishCommit, TypeOK
    <3>2. manifest'[r] = versions'[r] /\ Required \subseteq Listed(r)'
      BY <3>1 DEF RunInv
    <3>3. QED
      BY <3>2, NamesAssumption DEF Listed
  <2> HIDE DEF data
  <2>6. QED
    BY <2>1, <2>2, <2>3, <2>4, <2>5 DEF Register!Publish, Register!Complete, PublishedRuns
<1>2. ASSUME NEW r \in Run, RunStep(r), ~PublishCommit(r)
      PROVE  UNCHANGED <<Published, PublishedRuns>>
  <2>1. head' = head
    BY <1>2 DEF RunStep, StartRun, FailRun, RunnerStops, StageStarted, StageFinished,
       WriteDataset, SeedFromPublication, Expire, PublishLock, PublishValidate, PublishList,
       PublishVerify, PublishFilter, PublishFresh, PublishAbort
  <2>2. \A q \in Run : runs'[q] = "PUBLISHED" => runs[q] = "PUBLISHED"
    <3>1. CASE StartRun(r) \/ FailRun(r)
      BY <1>0, <3>1 DEF StartRun, FailRun, TypeOK
    <3>2. CASE runs' = runs
      BY <3>2
    <3>3. QED
      BY <1>2, <3>1, <3>2 DEF RunStep, RunnerStops, StageStarted, StageFinished,
         WriteDataset, SeedFromPublication, Expire, PublishLock, PublishValidate, PublishList,
         PublishVerify, PublishFilter, PublishFresh, PublishAbort
  <2>3. PublishedRuns' = PublishedRuns
    BY <1>2, <2>2, PublishedFrozen DEF PublishedRuns
  <2>4. head # NoRun => versions'[head] = versions[head] /\ manifest'[head] = manifest[head]
    BY <1>0, <1>2, PublishedFrozen DEF HeadPublished, TypeOK
  <2>5. Published' = Published
    BY <2>1, <2>4 DEF Published, Listed
  <2>6. QED
    BY <2>3, <2>5
<1>3. CASE UNCHANGED vars
  BY <1>3 DEF vars, Published, PublishedRuns, Listed
<1>4. QED
  BY <1>1, <1>2, <1>3 DEF Next, Register!Next

(* The publication plane implements the register its readers rely on. *)
THEOREM Refinement ==
  ASSUME ~Reruns
  PROVE  Spec => ImplementsRegister
<1>1. Init => Register!Init
  BY DEF Init, Register!Init, Published, PublishedRuns
<1>2. PubInv /\ PubInv' /\ [Next]_vars =>
        [Register!Next]_<<Published, PublishedRuns>>
  BY RegisterStep
<1>3. Spec => []PubInv
  BY Invariance
<1>4. QED
  BY <1>1, <1>2, <1>3, PTL DEF Spec, ImplementsRegister, Register!Spec

-----------------------------------------------------------------------------
(* One runner at a time (Serial): what a live run carried over from the head
   it was seeded from is what the head still holds, for no other run that is
   alive could have published since. *)
CarriedInv ==
  /\ \A q, r \in live : q = r
  /\ \A r \in live : runs[r] # "ABSENT"
  /\ \A r \in Run : runs[r] = "ABSENT" => carried[r] = {}
  /\ \A r \in live : \A d \in carried[r] : head # NoRun /\ versions[r][d] = versions[head][d]

LEMMA InitCarried == Init => CarriedInv
BY DEF Init, CarriedInv

(* What a run carried and what its head holds stay as they are when neither the
   head nor the versions move. *)
LEMMA CarriedKept ==
  ASSUME CarriedInv, UNCHANGED <<carried, versions, head>>, live' \subseteq live,
         \A r \in Run : (runs'[r] = "ABSENT") <=> (runs[r] = "ABSENT"), live \subseteq Run
  PROVE  CarriedInv'
BY DEF CarriedInv

LEMMA CarriedStep ==
  ASSUME Serial
  PROVE  TypeOK /\ CarriedInv /\ [Next]_vars => CarriedInv'
<1> SUFFICES ASSUME TypeOK, CarriedInv, [Next]_vars PROVE CarriedInv'
  OBVIOUS
<1>1. ASSUME NEW r \in Run, StartRun(r) PROVE CarriedInv'
  <2>1. live = {} /\ live' = {r} /\ runs[r] = "ABSENT" /\ carried[r] = {}
    BY <1>1 DEF StartRun, RunnerAdmitted, CarriedInv
  <2>2. runs' = [runs EXCEPT ![r] = "STARTED"] /\ UNCHANGED carried
    BY <1>1 DEF StartRun
  <2>3. QED
    BY <2>1, <2>2 DEF CarriedInv, TypeOK
<1>2. ASSUME NEW r \in Run, FailRun(r) PROVE CarriedInv'
  <2>1. runs[r] # "ABSENT" /\ runs' = [runs EXCEPT ![r] = "FAILED"]
    BY <1>2 DEF FailRun, Failable
  <2>2. \A q \in Run : (runs'[q] = "ABSENT") <=> (runs[q] = "ABSENT")
    BY <2>1 DEF TypeOK
  <2>3. QED
    BY <1>2, <2>2, CarriedKept DEF FailRun, TypeOK
<1>3. ASSUME NEW r \in Run, NEW s \in Stage, NEW d \in Output[s], NEW c \in Payload[d],
             WriteDataset(r, s, d, c)
      PROVE  CarriedInv'
  <2>1. /\ r \in live /\ versions' = [versions EXCEPT ![r][d] = c]
        /\ carried' = [carried EXCEPT ![r] = @ \ {d}] /\ UNCHANGED <<live, runs, head>>
    BY <1>3 DEF WriteDataset
  <2>2. live \subseteq {r}
    BY <2>1 DEF CarriedInv
  <2>3. carried'[r] = carried[r] \ {d} /\ \A q \in Run : q # r => carried'[q] = carried[q]
    BY <2>1 DEF TypeOK
  <2>4. /\ \A e \in Dataset : e # d => versions'[r][e] = versions[r][e]
        /\ \A q \in Run : q # r => versions'[q] = versions[q]
    BY <2>1 DEF TypeOK, Versions
  <2>5. ASSUME NEW e \in carried'[r] PROVE head # NoRun /\ versions'[r][e] = versions'[head][e]
    <3>1. e \in carried[r] /\ e # d /\ e \in Dataset
      BY <2>3, <2>5 DEF TypeOK
    <3>2. head # NoRun /\ versions[r][e] = versions[head][e] /\ head \in Run
      BY <2>1, <3>1 DEF CarriedInv, TypeOK
    <3>3. QED
      BY <2>4, <3>1, <3>2
  <2>6. QED
    BY <2>1, <2>2, <2>3, <2>5 DEF CarriedInv, TypeOK
<1>4. ASSUME NEW r \in Run, SeedFromPublication(r) PROVE CarriedInv'
  <2>1. /\ r \in live /\ head # NoRun /\ UNCHANGED <<live, runs, head>>
        /\ versions' = [versions EXCEPT ![r] =
                          [d \in Dataset |-> IF d \in Listed(head) THEN versions[head][d] ELSE versions[r][d]]]
        /\ carried' = [carried EXCEPT ![r] = @ \cup Listed(head)]
    BY <1>4 DEF SeedFromPublication
  <2>2. head \in Run /\ Listed(head) \subseteq Dataset /\ live \subseteq {r} /\ runs[r] # "ABSENT"
    BY <2>1 DEF CarriedInv, TypeOK, Listed
  <2>3. /\ carried'[r] = carried[r] \cup Listed(head)
        /\ \A q \in Run : q # r => carried'[q] = carried[q] /\ versions'[q] = versions[q]
        /\ \A d \in Dataset : versions'[r][d] = IF d \in Listed(head) THEN versions[head][d] ELSE versions[r][d]
    BY <2>1 DEF TypeOK
  <2>4. ASSUME NEW d \in carried'[r] PROVE versions'[r][d] = versions'[head][d]
    <3>1. d \in Dataset /\ (d \in Listed(head) \/ versions[r][d] = versions[head][d])
      BY <2>1, <2>2, <2>3, <2>4 DEF CarriedInv, TypeOK
    <3>2. QED
      BY <2>2, <2>3, <3>1
  <2>5. QED
    BY <2>1, <2>2, <2>3, <2>4 DEF CarriedInv, TypeOK
<1>5. ASSUME NEW r \in Run, PublishCommit(r) PROVE CarriedInv'
  <2>1. /\ r \in live /\ head' = r /\ UNCHANGED live
        /\ carried' = [carried EXCEPT ![r] = @ \ pub[r].changed]
        /\ runs' = [runs EXCEPT ![r] = "PUBLISHED"]
    BY <1>5 DEF PublishCommit
  <2>2. live \subseteq {r} /\ r # NoRun
    BY <2>1, NamesAssumption DEF CarriedInv
  <2>3. \A q \in Run : runs'[q] = "ABSENT" => q # r /\ runs[q] = "ABSENT" /\ carried'[q] = carried[q]
    BY <2>1 DEF TypeOK
  <2>4. runs'[r] = "PUBLISHED"
    BY <2>1 DEF TypeOK
  <2>5. QED
    BY <2>1, <2>2, <2>3, <2>4 DEF CarriedInv
<1>6. CASE UNCHANGED <<carried, versions, head, runs>> /\ live' \subseteq live
  BY <1>6, CarriedKept DEF TypeOK
<1>7. QED
  BY <1>1, <1>2, <1>3, <1>4, <1>5, <1>6
  DEF Next, RunStep, vars, RunnerStops, StageStarted, StageFinished, Expire, PublishLock, PublishValidate,
      PublishList, PublishVerify, PublishFilter, PublishFresh, PublishAbort

(* A publication never undoes another: with one runner at a time the head that
   it replaces is the one it was seeded from, for what it still carries. *)
THEOREM NothingUndone ==
  ASSUME Serial
  PROVE  Spec => NothingCarriedBack
<1> DEFINE Kept == head' # head => \A d \in carried'[head'] : versions'[head'][d] = versions[head][d]
<1>1. TypeOK /\ CarriedInv /\ [Next]_vars => [Kept]_vars
  <2> SUFFICES ASSUME TypeOK, CarriedInv, Next, head' # head, NEW d \in carried'[head']
               PROVE  versions'[head'][d] = versions[head][d]
    OBVIOUS
  <2>1. PICK r \in Run : PublishCommit(r)
    BY DEF Next, RunStep, StartRun, FailRun, RunnerStops, StageStarted, StageFinished, WriteDataset,
           SeedFromPublication, Expire, PublishLock, PublishValidate, PublishList, PublishVerify,
           PublishFilter, PublishFresh, PublishAbort
  <2>2. /\ r \in live /\ head' = r /\ carried' = [carried EXCEPT ![r] = @ \ pub[r].changed]
        /\ versions' = [versions EXCEPT ![r] = [e \in Dataset |-> IF e \in pub[r].changed THEN pub[r].seen[e]
                                                                  ELSE versions[r][e]]]
    BY <2>1 DEF PublishCommit
  <2>3. d \in carried[r] /\ d \notin pub[r].changed /\ d \in Dataset
    BY <2>2 DEF TypeOK
  <2>4. versions'[r][d] = versions[r][d]
    BY <2>2, <2>3 DEF TypeOK
  <2>5. QED
    BY <2>2, <2>3, <2>4 DEF CarriedInv
<1>2. TypeOK /\ CarriedInv /\ [Next]_vars => CarriedInv'
  BY CarriedStep
<1>3. Init => TypeOK
  BY InitType
<1>4. QED
  BY <1>1, <1>2, <1>3, InitCarried, TypeStep, PTL DEF Spec, NothingCarriedBack
=============================================================================
