------------------------ MODULE ImagePipeline_proofs ------------------------
(***************************************************************************)
(* What the image pipelines promise, for any images, commits, trees and    *)
(* bounds: what a consumer can verify is what the inspection found clean;  *)
(* the images a release lists are of that release's commit, signed and     *)
(* attested; a Caddy module that differs from upstream is explained by an  *)
(* override.                                                               *)
(*                                                                         *)
(* The invariant follows the outputs of the jobs.  A stage that a run has  *)
(* reached vouches for the outputs before it, and a run that starts again  *)
(* never starts behind an output that is missing: that is RunOK.  Build    *)
(* attempts are only added to, and the verdict `none' is never taken back  *)
(* (Grows), so that RunOK of the runs that wait, and what a signature      *)
(* vouches for, survive the steps of the run that executes.                *)
(***************************************************************************)
EXTENDS ImagePipeline, SequenceTheorems, FiniteSetTheorems, WellFoundedInduction, TLAPS

(* The stages behind the inspection.                                       *)
Publishing == {"push", "sign", "verify", "assets", "done"}

(* The build attempt n was made by a run of r's commit and event.          *)
Made(r, n, as) ==
    n \in 1 .. Len(as) /\ as[n].commit = r.commit /\ as[n].event = r.event

(* The build attempt n was made by a run of r's commit and event and its   *)
(* inspection found nothing.                                               *)
Good(r, n, as) ==
    Made(r, n, as) /\ as[n].defect = "none"

(* What r has pushed so far is what was inspected: the images before the   *)
(* next one while the push is under way, all of them after it.             *)
PushedGood(r, as, im) ==
    /\ r.stage = "push" => \A j \in 1 .. r.next - 1 : Good(r, r.digests[im[j]], as)
    /\ r.stage \in Publishing \ {"push"} => \A i \in DOMAIN r.digests : Good(r, r.digests[i], as)

(* Every image that r pushed has a statement of r's own commit and trigger *)
(* in sg.                                                                  *)
Published(r, sg) ==
    \A i \in DOMAIN r.digests :
       Statement(i, r.digests[i], verify_flags(r.commit, r.event, "release")) \in sg

(* What a workflow run has shown by the stage it stands at: release-please *)
(* names the release's own commit; a release tag is of the run's commit;   *)
(* an archive under inspection was built by this run; behind the           *)
(* inspection the outputs name a clean archive of this run and the pushed  *)
(* images are that archive; a release stands before or behind its assets   *)
(* only when all its images are signed and attested.                       *)
RunOK(r, as, sg, im, pl) ==
    /\ r.rp.created => r.rp.sha = ReleaseCommit(r.rp.version)
    /\ r.tag[1] = "release" => r.commit = ReleaseCommit(r.tag[2])
    /\ r.stage = "inspect" => Made(r, r.archive, as)
    /\ r.stage \in Publishing => Good(r, r.inspected, as)
    /\ PushedGood(r, as, im)
    /\ r.stage = "assets" => pl = "release" /\ r.event = "push"
    /\ r.stage \in {"assets", "done"} /\ pl = "release" /\ r.event = "push" => Published(r, sg)

(* RunOK of every run: of the one that executes and of the ones that may   *)
(* start again.                                                            *)
RunsInv == \A k \in 1 .. Len(runs) : RunOK(runs[k], attempts, attestations, IMAGES, pipeline)

(* What a certificate says of its content is true: an attempt with that    *)
(* commit and trigger, found clean.                                        *)
Vouched(s, as) ==
    /\ s.content \in 1 .. Len(as)
    /\ as[s.content].commit = s.commit /\ as[s.content].event = s.trigger /\ as[s.content].defect = "none"

(* Every signature vouches for what was inspected.                         *)
SignedInv == \A s \in signatures : Vouched(s, attempts)

(* Nothing is built before the checks of the inputs, the comparison of the *)
(* build lists among them, have passed.                                    *)
InputsInv == attempts # <<>> => inputs_ok

(* The inductive invariant.                                                *)
IInv == TypeOK /\ RunsInv /\ SignedInv /\ InputsInv /\ ReleaseIsItsCommit

------------------------------------------------------------------------------

(* A pipeline has at least one image.                                      *)
LEMMA ImagesType == DOMAIN IMAGES = 1 .. Len(IMAGES) /\ Len(IMAGES) \in Nat \ {0}
<1>1. DOMAIN ReleaseImages = 1 .. Len(ReleaseImages) /\ Len(ReleaseImages) \in Nat \ {0}
  BY ImagePipelineAssumption, EmptySeq, LenProperties
<1>2. DOMAIN <<"caddy">> = 1 .. Len(<<"caddy">>) /\ Len(<<"caddy">>) = 1
  OBVIOUS
<1> QED
  BY <1>1, <1>2 DEF IMAGES

(* Versions are numbers, and the commit of a version is a commit of main.  *)
LEMMA VersionsType ==
    /\ \A c \in 1 .. MaxCommit : ManifestVersion(c) \in Nat
    /\ Versions \subseteq Nat
    /\ \A v \in Versions : ReleaseCommit(v) \in 1 .. MaxCommit
<1>1. IsFiniteSet(1 .. MaxCommit)
  BY ImagePipelineAssumption, FS_Interval
<1>2. \A c \in 1 .. MaxCommit : ManifestVersion(c) \in Nat
  <2> SUFFICES ASSUME NEW c \in 1 .. MaxCommit PROVE ManifestVersion(c) \in Nat
    OBVIOUS
  <2>1. IsFiniteSet({d \in ReleaseCommits : d <= c})
    BY <1>1, FS_Subset, ImagePipelineAssumption
  <2> QED
    BY <2>1, FS_CardinalityType DEF ManifestVersion
<1>3. \A v \in Versions : ReleaseCommit(v) \in ReleaseCommits
  BY DEF Versions, ReleaseCommit
<1> QED
  BY <1>2, <1>3, ImagePipelineAssumption DEF Versions

(* The executing run is one of the runs.                                   *)
LEMMA RunType ==
    ASSUME TypeOK, active # 0
    PROVE  active \in 1 .. Len(runs) /\ Run \in RunRecord
  BY ElementOfSeq DEF TypeOK, Run

(* The images of the script are the keys of a run's digests.               *)
LEMMA NamesImages == \A k \in 1 .. Len(IMAGES) : IMAGES[k] \in Names
  BY ImagesType DEF Names

(* GoTo changes the stage and the position and keeps every output.         *)
LEMMA GoToFields ==
    ASSUME TypeOK, active # 0, NEW stage \in Stages, NEW q, q = GoTo(stage)
    PROVE  /\ q \in RunRecord
           /\ q.event = Run.event /\ q.commit = Run.commit /\ q.rp = Run.rp /\ q.tag = Run.tag
           /\ q.archive = Run.archive /\ q.inspected = Run.inspected /\ q.digests = Run.digests
           /\ q.stage = stage /\ q.next = 1
<1> DEFINE r == Run
<1>1. r \in RunRecord
  BY RunType
<1>2. q = [r EXCEPT !.stage = stage, !.next = 1]
  BY DEF GoTo
<1>3. 1 \in 1 .. Len(IMAGES)
  BY ImagesType
<1> HIDE DEF r
<1>4. /\ q \in RunRecord
      /\ q.event = r.event /\ q.commit = r.commit /\ q.rp = r.rp /\ q.tag = r.tag
      /\ q.archive = r.archive /\ q.inspected = r.inspected /\ q.digests = r.digests
      /\ q.stage = stage /\ q.next = 1
  BY <1>1, <1>2, <1>3 DEF RunRecord
<1> QED
  BY <1>4 DEF r

(* Loop keeps every output, and stays at the stage until the last image.   *)
LEMMA LoopFields ==
    ASSUME TypeOK, active # 0, NEW stage \in Stages, NEW q, q = Loop(stage)
    PROVE  /\ q \in RunRecord
           /\ q.event = Run.event /\ q.commit = Run.commit /\ q.rp = Run.rp /\ q.tag = Run.tag
           /\ q.archive = Run.archive /\ q.inspected = Run.inspected /\ q.digests = Run.digests
           /\ \/ Run.next = Len(IMAGES) /\ q.stage = stage
              \/ Run.next # Len(IMAGES) /\ q.stage = Run.stage /\ q.next = Run.next + 1
<1>1. CASE Run.next = Len(IMAGES)
  <2>1. q = GoTo(stage)
    BY <1>1 DEF Loop
  <2> QED
    BY <1>1, <2>1, GoToFields
<1>2. CASE Run.next # Len(IMAGES)
  <2> DEFINE r == Run
  <2>1. r \in RunRecord
    BY RunType
  <2>2. q = [r EXCEPT !.next = r.next + 1]
    BY <1>2 DEF Loop
  <2>3. r.next \in 1 .. Len(IMAGES) /\ r.next # Len(IMAGES)
    BY <2>1, <1>2 DEF RunRecord
  <2> HIDE DEF r
  <2>4. r.next + 1 \in 1 .. Len(IMAGES)
    BY <2>3, ImagesType
  <2>5. /\ q \in RunRecord
        /\ q.event = r.event /\ q.commit = r.commit /\ q.rp = r.rp /\ q.tag = r.tag
        /\ q.archive = r.archive /\ q.inspected = r.inspected /\ q.digests = r.digests
        /\ q.stage = r.stage /\ q.next = r.next + 1
    BY <2>1, <2>2, <2>4 DEF RunRecord
  <2> QED
    BY <1>2, <2>5 DEF r
<1> QED
  BY <1>1, <1>2

(* Attempts are added, none changes its commit or event, and a clean one   *)
(* stays clean.                                                            *)
Grows(as, bs) ==
    /\ Len(as) <= Len(bs)
    /\ \A n \in 1 .. Len(as) :
          /\ bs[n].commit = as[n].commit /\ bs[n].event = as[n].event
          /\ as[n].defect = "none" => bs[n].defect = "none"

(* RunOK survives when attempts grow and attestations are added.           *)
LEMMA RunKeeps ==
    ASSUME NEW as, NEW bs, NEW sg, NEW sh, NEW im, NEW pl, NEW r,
           Len(as) \in Nat, Len(bs) \in Nat, Grows(as, bs), sg \subseteq sh, RunOK(r, as, sg, im, pl)
    PROVE  RunOK(r, bs, sh, im, pl)
<1>0. \A a, b \in Nat : a <= b => 1 .. a \subseteq 1 .. b
  OBVIOUS
<1>1. ASSUME NEW n, Made(r, n, as) PROVE Made(r, n, bs)
  <2>1. n \in 1 .. Len(as)
    BY <1>1 DEF Made
  <2>2. Len(as) <= Len(bs)
    BY DEF Grows
  <2>3. n \in 1 .. Len(bs)
    BY <1>0, <2>1, <2>2
  <2> QED
    BY <1>1, <2>1, <2>3 DEF Made, Grows
<1>2. ASSUME NEW n, Good(r, n, as) PROVE Good(r, n, bs)
  BY <1>1, <1>2 DEF Good, Made, Grows
<1>3. PushedGood(r, as, im) => PushedGood(r, bs, im)
  BY <1>2 DEF PushedGood
<1>4. Published(r, sg) => Published(r, sh)
  BY DEF Published
<1> QED
  BY <1>1, <1>2, <1>3, <1>4 DEF RunOK

(* The pipeline and its tree never change, and so nothing that depends     *)
(* only on them.                                                           *)
LEMMA Frame ==
    ASSUME pipeline' = pipeline, tree' = tree
    PROVE  /\ IMAGES' = IMAGES /\ Names' = Names /\ RunRecord' = RunRecord
           /\ Attempt' = Attempt /\ Certificate' = Certificate
           /\ Nothing' = Nothing /\ inputs_ok' = inputs_ok
<1>1. IMAGES' = IMAGES
  BY DEF IMAGES
<1>2. Names' = Names
  BY <1>1 DEF Names
<1>3. RunRecord' = RunRecord
  BY <1>1, <1>2 DEF RunRecord
<1>4. Certificate' = Certificate
  BY <1>2 DEF Certificate
<1>5. Nothing' = Nothing
  BY <1>2 DEF Nothing
<1>6. Kinds' = Kinds /\ inputs_ok' = inputs_ok
  BY DEF Kinds, inputs_ok
<1>7. Attempt' = Attempt
  BY <1>6 DEF Attempt
<1> QED
  BY <1>1, <1>2, <1>3, <1>4, <1>5, <1>6, <1>7

(* A step that replaces one run by one that is OK keeps RunsInv.           *)
LEMMA RunsStep ==
    ASSUME TypeOK, RunsInv, pipeline' = pipeline, tree' = tree,
           NEW k \in 1 .. Len(runs), NEW q \in RunRecord,
           runs' = [runs EXCEPT ![k] = q],
           Len(attempts') \in Nat, Grows(attempts, attempts'), attestations \subseteq attestations',
           RunOK(q, attempts', attestations', IMAGES, pipeline)
    PROVE  runs' \in Seq(RunRecord) /\ Len(runs') = Len(runs) /\ RunsInv'
<1>1. runs' \in Seq(RunRecord) /\ Len(runs') = Len(runs)
  BY ExceptSeq DEF TypeOK
<1>2. \A j \in 1 .. Len(runs) : runs'[j] = IF j = k THEN q ELSE runs[j]
  BY DEF TypeOK
<1>3. \A j \in 1 .. Len(runs) : RunOK(runs[j], attempts', attestations', IMAGES, pipeline)
  <2> SUFFICES ASSUME NEW j \in 1 .. Len(runs) PROVE RunOK(runs[j], attempts', attestations', IMAGES, pipeline)
    OBVIOUS
  <2>1. RunOK(runs[j], attempts, attestations, IMAGES, pipeline) /\ Len(attempts) \in Nat
    BY LenProperties DEF RunsInv, TypeOK
  <2> QED
    BY <2>1, RunKeeps
<1>4. \A j \in 1 .. Len(runs) : RunOK(runs'[j], attempts', attestations', IMAGES, pipeline)
  BY <1>2, <1>3
<1> QED
  BY <1>1, <1>4, Frame DEF RunsInv

(* A step that leaves the runs alone keeps RunsInv.                        *)
LEMMA RunsStay ==
    ASSUME TypeOK, RunsInv, pipeline' = pipeline, tree' = tree, runs' = runs,
           Len(attempts') \in Nat, Grows(attempts, attempts'), attestations \subseteq attestations'
    PROVE  RunsInv'
<1>1. Len(attempts) \in Nat
  BY LenProperties DEF TypeOK
<1>2. \A j \in 1 .. Len(runs) : RunOK(runs[j], attempts', attestations', IMAGES, pipeline)
  BY <1>1, RunKeeps DEF RunsInv
<1> QED
  BY <1>2, Frame DEF RunsInv

(* Attempts that do not change grow.                                       *)
LEMMA Same ==
    ASSUME TypeOK, attempts' = attempts
    PROVE  Grows(attempts, attempts') /\ Len(attempts') \in Nat
  BY LenProperties DEF Grows, TypeOK

(* An inspection that passes has found no defect of any kind, whatever the *)
(* scanners do: cmd_inspect of both scripts fails on a scanner that is     *)
(* blind or fails.                                                         *)
LEMMA OnlyCleanPasses ==
    ASSUME NEW kind \in Kinds, NEW secrets, NEW cves, inspect_ok(kind, secrets, cves)
    PROVE  kind = "none"
<1>1. CASE pipeline = "release"
  BY <1>1 DEF inspect_ok, release_inspect, archive_clean, Kinds, ReleaseKinds, read_archive, unpack_layer,
              release_config, check_names, canary, gitleaks, grype, release_sbom
<1>2. CASE pipeline # "release"
  BY <1>2 DEF inspect_ok, caddy_inspect, archive_clean, Kinds, CaddyKinds, read_archive, unpack_layer,
              caddy_config, check_names, merged_files, check_binary, canary, gitleaks, grype, caddy_sbom
<1> QED
  BY <1>1, <1>2

(* The executing run is OK.                                                *)
LEMMA ActiveRun ==
    ASSUME TypeOK, RunsInv, active # 0
    PROVE  RunOK(Run, attempts, attestations, IMAGES, pipeline)
  BY RunType DEF RunsInv, Run

(* A build adds one attempt, of the run's commit and event.                *)
LEMMA BuildAttempts ==
    ASSUME TypeOK, BuildArchives
    PROVE  /\ attempts' \in Seq(Attempt) /\ Grows(attempts, attempts')
           /\ Len(attempts') = Len(attempts) + 1
           /\ attempts'[Len(attempts) + 1] = [commit |-> Run.commit, event |-> Run.event, defect |-> "unseen"]
<1> DEFINE a == [commit |-> Run.commit, event |-> Run.event, defect |-> "unseen"]
<1>1. Run \in RunRecord
  BY RunType DEF BuildArchives, At
<1>2. Run.commit \in 1 .. MaxCommit /\ Run.event \in Events
  BY <1>1 DEF RunRecord
<1>3. a \in Attempt
  BY <1>2 DEF Attempt
<1>4. attempts' = Append(attempts, a)
  BY DEF BuildArchives
<1> HIDE DEF a
<1>5. /\ attempts \in Seq(Attempt) /\ Len(attempts) \in Nat
      /\ attempts' \in Seq(Attempt) /\ Len(attempts') = Len(attempts) + 1
      /\ \A i \in 1 .. Len(attempts) : attempts'[i] = attempts[i]
      /\ attempts'[Len(attempts) + 1] = a
  BY <1>3, <1>4, AppendProperties, LenProperties DEF TypeOK
<1>6. Grows(attempts, attempts')
  BY <1>5 DEF Grows
<1> QED
  BY <1>5, <1>6 DEF a

(* An inspection that passes makes the attempt of the run's archive a      *)
(* clean one and changes no other.                                         *)
LEMMA InspectAttempts ==
    ASSUME TypeOK, RunsInv, cmd_inspect
    PROVE  /\ attempts' \in Seq(Attempt) /\ Grows(attempts, attempts')
           /\ Len(attempts') = Len(attempts) /\ Good(Run, Run.archive, attempts')
<1>1. active # 0 /\ Run.stage = "inspect"
  BY DEF cmd_inspect, At
<1> DEFINE n == Run.archive
<1>2. Made(Run, n, attempts)
  BY <1>1, ActiveRun DEF RunOK
<1>3. n \in 1 .. Len(attempts)
  BY <1>2 DEF Made
<1>4. PICK kind \in Kinds, secrets, cves \in {"works", "blind", "fails"} :
         /\ inspect_ok(kind, secrets, cves)
         /\ attempts' = [attempts EXCEPT ![Run.archive].defect = kind]
  BY DEF cmd_inspect
<1>5. kind = "none"
  BY <1>4, OnlyCleanPasses
<1> DEFINE a == [attempts[n] EXCEPT !.defect = "none"]
<1>6. attempts' = [attempts EXCEPT ![n] = a]
  BY <1>4, <1>5
<1>7. attempts[n] \in Attempt /\ Len(attempts) \in Nat
  BY <1>3, ElementOfSeq, LenProperties DEF TypeOK
<1>8. a \in Attempt /\ a.commit = attempts[n].commit /\ a.event = attempts[n].event /\ a.defect = "none"
  BY <1>7, <1>4, <1>5 DEF Attempt
<1> HIDE DEF a, n
<1>9. /\ attempts' \in Seq(Attempt) /\ Len(attempts') = Len(attempts)
      /\ \A j \in 1 .. Len(attempts) : attempts'[j] = IF j = n THEN a ELSE attempts[j]
  BY <1>3, <1>6, <1>8, ExceptSeq DEF TypeOK
<1>10. Grows(attempts, attempts')
  BY <1>7, <1>8, <1>9 DEF Grows
<1>11. Good(Run, n, attempts')
  BY <1>2, <1>3, <1>8, <1>9 DEF Made, Good
<1> QED
  BY <1>9, <1>10, <1>11 DEF n

(* StartRun: a new run has no outputs.                                     *)
LEMMA StartRuns ==
    ASSUME TypeOK, RunsInv, NEW event \in Events, StartRun(event)
    PROVE  runs' \in Seq(RunRecord) /\ active' \in 0 .. Len(runs') /\ RunsInv'
<1> DEFINE r == [event |-> event, commit |-> head, rp |-> NoRelease, stage |-> FirstStage(event),
                 next |-> 1, tag |-> <<"none", 0>>, archive |-> 0, inspected |-> 0, digests |-> Nothing]
<1>1. runs' = Append(runs, r) /\ active' = Len(runs) + 1 /\ pipeline' = pipeline /\ tree' = tree
      /\ attempts' = attempts /\ attestations' = attestations /\ head > 0
  BY DEF StartRun
<1>2. FirstStage(event) \in {"release-please", "build"}
  BY DEF FirstStage
<1>3. head \in 1 .. MaxCommit
  BY <1>1, ImagePipelineAssumption DEF TypeOK
<1>4. NoRelease \in [created : BOOLEAN, sha : 0 .. MaxCommit, version : Nat]
  BY ImagePipelineAssumption DEF NoRelease
<1>5. Nothing \in [Names -> Nat]
  BY DEF Nothing
<1>6. <<"none", 0>> \in {"none", "release", "caddy", "dryrun"} \X Nat /\ <<"none", 0>>[1] = "none"
  OBVIOUS
<1>7. 1 \in 1 .. Len(IMAGES)
  BY ImagesType
<1> DEFINE st == FirstStage(event)  no == <<"none", 0>>
<1>8. r = [event |-> event, commit |-> head, rp |-> NoRelease, stage |-> st,
           next |-> 1, tag |-> no, archive |-> 0, inspected |-> 0, digests |-> Nothing]
  OBVIOUS
<1> HIDE DEF st, no, r
<1>9. st \in {"release-please", "build"} /\ no[1] = "none" /\ no \in {"none", "release", "caddy", "dryrun"} \X Nat
  BY <1>2, <1>6 DEF st, no
<1>10. r \in RunRecord /\ r.rp = NoRelease /\ r.tag = no /\ r.stage = st
  BY <1>3, <1>4, <1>5, <1>7, <1>8, <1>9 DEF RunRecord, Stages
<1>11. RunOK(r, attempts, attestations, IMAGES, pipeline)
  BY <1>9, <1>10 DEF RunOK, PushedGood, Publishing, NoRelease
<1>12. /\ runs' \in Seq(RunRecord) /\ Len(runs) \in Nat /\ Len(runs') = Len(runs) + 1
       /\ \A i \in 1 .. Len(runs) : runs'[i] = runs[i]
       /\ runs'[Len(runs) + 1] = r
  BY <1>1, <1>10, AppendProperties, LenProperties DEF TypeOK
<1>13. \A i \in 1 .. Len(runs') : RunOK(runs'[i], attempts, attestations, IMAGES, pipeline)
  <2> SUFFICES ASSUME NEW i \in 1 .. Len(runs') PROVE RunOK(runs'[i], attempts, attestations, IMAGES, pipeline)
    OBVIOUS
  <2>1. CASE i \in 1 .. Len(runs)
    BY <2>1, <1>12 DEF RunsInv
  <2>2. CASE i = Len(runs) + 1
    BY <2>2, <1>11, <1>12
  <2> QED
    BY <2>1, <2>2, <1>12
<1>14. RunsInv'
  BY <1>1, <1>13, Frame DEF RunsInv
<1>15. active' \in 0 .. Len(runs')
  BY <1>1, <1>12
<1> QED
  BY <1>12, <1>14, <1>15

(* ReleasePlease: the release it creates is of the release's own commit.   *)
LEMMA PleaseRuns ==
    ASSUME TypeOK, RunsInv, ReleasePlease
    PROVE  runs' \in Seq(RunRecord) /\ active' \in 0 .. Len(runs') /\ RunsInv'
<1>1. active # 0 /\ Run.stage = "release-please" /\ pipeline' = pipeline /\ tree' = tree
      /\ attempts' = attempts /\ attestations' = attestations /\ active' = active
  BY DEF ReleasePlease, At
<1> DEFINE q == GoTo("build")
<1>2. PICK w : /\ runs' = [runs EXCEPT ![active] = [q EXCEPT !.rp = w]]
               /\ \/ w = NoRelease
                  \/ \E v \in Versions : w = [created |-> TRUE, sha |-> ReleaseCommit(v), version |-> v]
  BY DEF ReleasePlease, SetRun
<1>3. q \in RunRecord /\ q.tag = Run.tag /\ q.commit = Run.commit /\ q.stage = "build"
  BY <1>1, GoToFields DEF Stages
<1>4. /\ w \in [created : BOOLEAN, sha : 0 .. MaxCommit, version : Nat]
      /\ w.created => w.sha = ReleaseCommit(w.version)
  <2>1. CASE w = NoRelease
    BY <2>1, ImagePipelineAssumption DEF NoRelease
  <2>2. CASE \E v \in Versions : w = [created |-> TRUE, sha |-> ReleaseCommit(v), version |-> v]
    <3>1. PICK v \in Versions : w = [created |-> TRUE, sha |-> ReleaseCommit(v), version |-> v]
      BY <2>2
    <3>2. v \in Nat /\ ReleaseCommit(v) \in 0 .. MaxCommit
      BY VersionsType, ImagePipelineAssumption
    <3> QED
      BY <3>1, <3>2
  <2> QED
    BY <1>2, <2>1, <2>2
<1> HIDE DEF q
<1> DEFINE r == [q EXCEPT !.rp = w]
<1>5. r \in RunRecord /\ r.tag = q.tag /\ r.commit = q.commit /\ r.stage = q.stage /\ r.rp = w
  BY <1>3, <1>4 DEF RunRecord
<1>6. Run.tag[1] = "release" => Run.commit = ReleaseCommit(Run.tag[2])
  BY <1>1, ActiveRun DEF RunOK
<1> HIDE DEF r
<1>7. RunOK(r, attempts, attestations, IMAGES, pipeline)
  BY <1>3, <1>4, <1>5, <1>6 DEF RunOK, PushedGood, Publishing
<1>8. runs' = [runs EXCEPT ![active] = r] /\ active \in 1 .. Len(runs)
  BY <1>1, <1>2, RunType DEF r
<1>9. runs' \in Seq(RunRecord) /\ Len(runs') = Len(runs) /\ RunsInv'
  BY <1>1, <1>5, <1>7, <1>8, RunsStep, Same
<1> QED
  BY <1>1, <1>8, <1>9

(* release_build and caddy_build: the archive under inspection is this     *)
(* run's.                                                                  *)
LEMMA BuildRuns ==
    ASSUME TypeOK, RunsInv, BuildArchives
    PROVE  runs' \in Seq(RunRecord) /\ active' \in 0 .. Len(runs') /\ RunsInv'
<1>1. active # 0 /\ Run.stage = "build" /\ pipeline' = pipeline /\ tree' = tree
      /\ attestations' = attestations /\ active' = active
  BY DEF BuildArchives, At
<1> DEFINE q == GoTo("inspect")  n == Len(attempts) + 1
<1>2. runs' = [runs EXCEPT ![active] = [q EXCEPT !.archive = n]]
  BY DEF BuildArchives, SetRun
<1>3. /\ q \in RunRecord /\ q.tag = Run.tag /\ q.commit = Run.commit /\ q.event = Run.event /\ q.rp = Run.rp
      /\ q.stage = "inspect"
  BY <1>1, GoToFields DEF Stages
<1>4. /\ n \in 1 .. Len(attempts') /\ Len(attempts') \in Nat /\ n \in Nat
      /\ attempts'[n] = [commit |-> Run.commit, event |-> Run.event, defect |-> "unseen"]
  BY BuildAttempts, LenProperties DEF TypeOK
<1> HIDE DEF q, n
<1> DEFINE r == [q EXCEPT !.archive = n]
<1>5. /\ r \in RunRecord /\ r.tag = q.tag /\ r.commit = q.commit /\ r.event = q.event /\ r.rp = q.rp
      /\ r.stage = q.stage /\ r.archive = n
  BY <1>3, <1>4 DEF RunRecord
<1>6. /\ Run.tag[1] = "release" => Run.commit = ReleaseCommit(Run.tag[2])
      /\ Run.rp.created => Run.rp.sha = ReleaseCommit(Run.rp.version)
  BY <1>1, ActiveRun DEF RunOK
<1> HIDE DEF r
<1>7. Made(r, r.archive, attempts')
  BY <1>3, <1>4, <1>5 DEF Made
<1>8. RunOK(r, attempts', attestations', IMAGES, pipeline)
  BY <1>3, <1>5, <1>6, <1>7 DEF RunOK, PushedGood, Publishing
<1>9. runs' = [runs EXCEPT ![active] = r] /\ active \in 1 .. Len(runs)
  BY <1>1, <1>2, RunType DEF r
<1>10. runs' \in Seq(RunRecord) /\ Len(runs') = Len(runs) /\ RunsInv'
  BY <1>1, <1>4, <1>5, <1>8, <1>9, RunsStep, BuildAttempts
<1> QED
  BY <1>1, <1>9, <1>10

(* The tag of a release is of the run's commit, because release_context    *)
(* compares release-please's commit with it.                               *)
LEMMA TagFacts ==
    ASSUME TypeOK, NEW r \in RunRecord, context_ok(r),
           r.rp.created => r.rp.sha = ReleaseCommit(r.rp.version)
    PROVE  /\ tag(r) \in {"none", "release", "caddy", "dryrun"} \X Nat
           /\ tag(r)[1] = "release" => r.commit = ReleaseCommit(tag(r)[2])
<1>1. r.commit \in Nat /\ r.rp.version \in Nat
  BY ImagePipelineAssumption DEF RunRecord
<1>2. \A v \in Nat : /\ <<"release", v>> \in {"none", "release", "caddy", "dryrun"} \X Nat
                     /\ <<"caddy", v>> \in {"none", "release", "caddy", "dryrun"} \X Nat
                     /\ <<"dryrun", v>> \in {"none", "release", "caddy", "dryrun"} \X Nat
                     /\ <<"release", v>>[2] = v /\ <<"caddy", v>>[1] = "caddy" /\ <<"dryrun", v>>[1] = "dryrun"
  OBVIOUS
<1>3. CASE pipeline = "release"
  <2>1. tag(r) = IF r.event = "push" THEN <<"release", r.rp.version>> ELSE <<"dryrun", r.commit>>
    BY <1>3 DEF tag, release_tag
  <2>2. r.event = "push" => r.commit = ReleaseCommit(r.rp.version)
    BY <1>3 DEF context_ok, release_context
  <2> QED
    BY <1>1, <1>2, <2>1, <2>2
<1>4. CASE pipeline # "release"
  <2>1. tag(r) = <<"caddy", r.commit>> \/ tag(r) = <<"dryrun", r.commit>>
    BY <1>4 DEF tag, caddy_tag
  <2> QED
    BY <1>1, <1>2, <2>1
<1> QED
  BY <1>3, <1>4

(* cmd_inspect: the outputs name a clean archive.                          *)
LEMMA InspectRuns ==
    ASSUME TypeOK, RunsInv, cmd_inspect
    PROVE  runs' \in Seq(RunRecord) /\ active' \in 0 .. Len(runs') /\ RunsInv'
<1>1. active # 0 /\ Run.stage = "inspect" /\ pipeline' = pipeline /\ tree' = tree
      /\ attestations' = attestations /\ active' = active
  BY DEF cmd_inspect, At
<1> DEFINE q == GoTo("push")  n == Run.archive  t == tag(Run)
<1>2. runs' = [runs EXCEPT ![active] = [q EXCEPT !.inspected = n, !.tag = t]]
  BY DEF cmd_inspect, SetRun
<1>3. /\ q \in RunRecord /\ q.commit = Run.commit /\ q.event = Run.event /\ q.rp = Run.rp
      /\ q.stage = "push" /\ q.next = 1
  BY <1>1, GoToFields DEF Stages
<1>4. Run \in RunRecord /\ (Run.rp.created => Run.rp.sha = ReleaseCommit(Run.rp.version))
  BY <1>1, RunType, ActiveRun DEF RunOK
<1>5. context_ok(Run)
  BY DEF cmd_inspect
<1>6. /\ t \in {"none", "release", "caddy", "dryrun"} \X Nat
      /\ t[1] = "release" => Run.commit = ReleaseCommit(t[2])
  BY <1>4, <1>5, TagFacts
<1>7. Good(Run, n, attempts') /\ n \in Nat
  BY <1>4, InspectAttempts DEF RunRecord
<1> HIDE DEF q, n, t
<1> DEFINE r == [q EXCEPT !.inspected = n, !.tag = t]
<1>8. /\ r \in RunRecord /\ r.tag = t /\ r.commit = q.commit /\ r.event = q.event /\ r.rp = q.rp
      /\ r.stage = q.stage /\ r.next = q.next /\ r.inspected = n
  BY <1>3, <1>6, <1>7 DEF RunRecord
<1> HIDE DEF r
<1>9. Good(r, r.inspected, attempts')
  BY <1>3, <1>7, <1>8 DEF Good, Made
<1>10. RunOK(r, attempts', attestations', IMAGES, pipeline)
  BY <1>3, <1>4, <1>6, <1>8, <1>9 DEF RunOK, PushedGood, Publishing
<1>11. runs' = [runs EXCEPT ![active] = r] /\ active \in 1 .. Len(runs)
  BY <1>1, <1>2, RunType DEF r
<1>12. Len(attempts') \in Nat
  BY InspectAttempts, LenProperties DEF TypeOK
<1>13. runs' \in Seq(RunRecord) /\ Len(runs') = Len(runs) /\ RunsInv'
  BY <1>1, <1>8, <1>10, <1>11, <1>12, RunsStep, InspectAttempts
<1> QED
  BY <1>1, <1>11, <1>13

(* release_push and caddy_push: each image pushed is the inspected         *)
(* archive, and after the last one all are.                                *)
LEMMA PushRuns ==
    ASSUME TypeOK, RunsInv, PushNext
    PROVE  runs' \in Seq(RunRecord) /\ active' \in 0 .. Len(runs') /\ RunsInv'
<1>1. active # 0 /\ Run.stage = "push" /\ pipeline' = pipeline /\ tree' = tree
      /\ attempts' = attempts /\ attestations' = attestations /\ active' = active
  BY DEF PushNext, At
<1> DEFINE q == Loop("sign")  i == IMAGES[Run.next]  n == Run.inspected
<1>2. runs' = [runs EXCEPT ![active] = [q EXCEPT !.digests[i] = n]]
  BY DEF PushNext, SetRun, archive_ok
<1>3. /\ q \in RunRecord /\ q.commit = Run.commit /\ q.event = Run.event /\ q.rp = Run.rp /\ q.tag = Run.tag
      /\ q.inspected = Run.inspected /\ q.digests = Run.digests
      /\ \/ Run.next = Len(IMAGES) /\ q.stage = "sign"
         \/ Run.next # Len(IMAGES) /\ q.stage = "push" /\ q.next = Run.next + 1
  BY <1>1, LoopFields DEF Stages
<1>4. Run \in RunRecord /\ RunOK(Run, attempts, attestations, IMAGES, pipeline)
  BY <1>1, RunType, ActiveRun
<1>5. /\ Good(Run, n, attempts)
      /\ \A j \in 1 .. Run.next - 1 : Good(Run, Run.digests[IMAGES[j]], attempts)
  BY <1>1, <1>4 DEF RunOK, PushedGood, Publishing
<1>6. Run.next \in 1 .. Len(IMAGES) /\ Run.digests \in [Names -> Nat] /\ n \in Nat /\ Len(IMAGES) \in Nat
  BY <1>4, ImagesType DEF RunRecord
<1>7. i \in Names
  BY <1>6, NamesImages
<1> DEFINE d == [Run.digests EXCEPT ![i] = n]  r == [q EXCEPT !.digests = d]
<1>8. runs' = [runs EXCEPT ![active] = r] /\ active \in 1 .. Len(runs)
  BY <1>1, <1>2, <1>3, RunType
<1>9. d \in [Names -> Nat] /\ d[i] = n /\ (\A x \in Names : x # i => d[x] = Run.digests[x])
  BY <1>6, <1>7
<1> HIDE DEF q, i, n, d
<1>10. /\ r \in RunRecord /\ r.tag = q.tag /\ r.commit = q.commit /\ r.event = q.event /\ r.rp = q.rp
       /\ r.stage = q.stage /\ r.next = q.next /\ r.inspected = q.inspected /\ r.digests = d
  BY <1>3, <1>9 DEF RunRecord
<1> HIDE DEF r
<1>11. \A m : Good(Run, m, attempts) => Good(r, m, attempts)
  BY <1>3, <1>10 DEF Good, Made
<1>12. ASSUME NEW j \in 1 .. Run.next PROVE Good(r, d[IMAGES[j]], attempts)
  <2>1. IMAGES[j] \in Names
    BY <1>6, NamesImages
  <2>2. CASE IMAGES[j] = i
    BY <2>2, <1>5, <1>9, <1>11
  <2>3. CASE IMAGES[j] # i
    <3>1. j \in 1 .. Run.next - 1
      BY <2>3, <1>6 DEF i
    <3> QED
      BY <2>1, <2>3, <3>1, <1>5, <1>9, <1>11
  <2> QED
    BY <2>2, <2>3
<1>13. PushedGood(r, attempts, IMAGES)
  <2>1. CASE Run.next = Len(IMAGES) /\ q.stage = "sign"
    <3>1. ASSUME NEW x \in Names PROVE Good(r, d[x], attempts)
      <4>1. PICK k \in 1 .. Len(IMAGES) : x = IMAGES[k]
        BY ImagesType DEF Names
      <4> QED
        BY <4>1, <2>1, <1>12
    <3> QED
      BY <2>1, <3>1, <1>9, <1>10 DEF PushedGood
  <2>2. CASE q.stage = "push" /\ q.next = Run.next + 1
    <3>1. r.next - 1 = Run.next /\ r.stage = "push"
      BY <2>2, <1>6, <1>10
    <3> QED
      BY <3>1, <1>10, <1>12 DEF PushedGood
  <2> QED
    BY <1>3, <2>1, <2>2
<1>14. RunOK(r, attempts, attestations, IMAGES, pipeline)
  BY <1>3, <1>4, <1>5, <1>10, <1>11, <1>13 DEF RunOK, n
<1>15. runs' \in Seq(RunRecord) /\ Len(runs') = Len(runs) /\ RunsInv'
  BY <1>1, <1>8, <1>10, <1>14, RunsStep, Same
<1> QED
  BY <1>1, <1>8, <1>15

(* A run that goes to another stage with its outputs unchanged is OK when  *)
(* the new stage asks for nothing that the old one did not have.           *)
LEMMA Outputs ==
    ASSUME NEW r, NEW q, NEW as, NEW sg, NEW im, NEW pl, RunOK(r, as, sg, im, pl),
           q.event = r.event, q.commit = r.commit, q.rp = r.rp, q.tag = r.tag,
           q.archive = r.archive, q.inspected = r.inspected, q.digests = r.digests,
           r.stage \in Publishing, q.stage \in Publishing,
           q.stage # "push" => r.stage # "push",
           q.stage = "push" => q.next = 1,
           q.stage = "assets" => pl = "release" /\ q.event = "push",
           q.stage \in {"assets", "done"} /\ pl = "release" /\ q.event = "push" => Published(q, sg)
    PROVE  RunOK(q, as, sg, im, pl)
<1>1. \A n : Good(r, n, as) <=> Good(q, n, as)
  BY DEF Good, Made
<1>2. CASE q.stage = "push"
  <2>1. 1 .. q.next - 1 = {}
    BY <1>2
  <2>2. PushedGood(q, as, im)
    BY <1>2, <2>1 DEF PushedGood
  <2> QED
    BY <1>1, <1>2, <2>2 DEF RunOK, Publishing
<1>3. CASE q.stage # "push"
  <2>1. \A i \in DOMAIN r.digests : Good(r, r.digests[i], as)
    BY <1>3 DEF RunOK, PushedGood
  <2>2. PushedGood(q, as, im)
    BY <1>1, <1>3, <2>1 DEF PushedGood
  <2> QED
    BY <1>1, <2>2 DEF RunOK, Publishing
<1> QED
  BY <1>2, <1>3

(* release_sign and caddy_sign, also when they stop between signature and  *)
(* attestation.                                                            *)
LEMMA SignRuns ==
    ASSUME TypeOK, RunsInv, SignNext
    PROVE  runs' \in Seq(RunRecord) /\ active' \in 0 .. Len(runs') /\ RunsInv'
<1>1. active # 0 /\ Run.stage = "sign" /\ pipeline' = pipeline /\ tree' = tree /\ attempts' = attempts
  BY DEF SignNext, At
<1>2. CASE runs' = runs /\ attestations' = attestations /\ active' = 0
  BY <1>1, <1>2, RunsStay, Same, LenProperties DEF TypeOK
<1>3. CASE runs' = [runs EXCEPT ![active] = Loop("verify")] /\ active' = active
           /\ attestations \subseteq attestations'
  <2> DEFINE q == Loop("verify")
  <2>1. /\ q \in RunRecord
        /\ q.event = Run.event /\ q.commit = Run.commit /\ q.rp = Run.rp /\ q.tag = Run.tag
        /\ q.archive = Run.archive /\ q.inspected = Run.inspected /\ q.digests = Run.digests
        /\ q.stage \in {"sign", "verify"}
    BY <1>1, LoopFields DEF Stages
  <2>2. RunOK(Run, attempts, attestations, IMAGES, pipeline) /\ active \in 1 .. Len(runs)
    BY <1>1, RunType, ActiveRun
  <2> HIDE DEF q
  <2>3. RunOK(q, attempts, attestations, IMAGES, pipeline)
    BY <1>1, <2>1, <2>2, Outputs DEF Publishing
  <2>4. RunOK(q, attempts', attestations', IMAGES, pipeline)
    BY <1>1, <1>3, <2>3, RunKeeps, Same, LenProperties DEF TypeOK
  <2>5. runs' \in Seq(RunRecord) /\ Len(runs') = Len(runs) /\ RunsInv'
    BY <1>1, <1>3, <2>1, <2>2, <2>4, RunsStep, Same DEF q
  <2> QED
    BY <1>3, <2>2, <2>5
<1> QED
  BY <1>2, <1>3 DEF SignNext, SetRun

(* release_verify and caddy_verify: behind it every image is signed and    *)
(* attested.                                                               *)
LEMMA VerifyRuns ==
    ASSUME TypeOK, RunsInv, VerifyImages
    PROVE  runs' \in Seq(RunRecord) /\ active' \in 0 .. Len(runs') /\ RunsInv'
<1>1. active # 0 /\ Run.stage = "verify" /\ pipeline' = pipeline /\ tree' = tree
      /\ attempts' = attempts /\ attestations' = attestations /\ active' = active
  BY DEF VerifyImages, At
<1> DEFINE st == IF pipeline = "release" /\ Run.event = "push" THEN "assets" ELSE "done"
           q == GoTo(st)
<1>2. runs' = [runs EXCEPT ![active] = q]
  BY DEF VerifyImages, SetRun
<1>3. st \in {"assets", "done"} /\ (st = "assets" => pipeline = "release" /\ Run.event = "push")
  OBVIOUS
<1> HIDE DEF st
<1>4. /\ q \in RunRecord
      /\ q.event = Run.event /\ q.commit = Run.commit /\ q.rp = Run.rp /\ q.tag = Run.tag
      /\ q.archive = Run.archive /\ q.inspected = Run.inspected /\ q.digests = Run.digests
      /\ q.stage = st
  BY <1>1, <1>3, GoToFields DEF Stages
<1>5. RunOK(Run, attempts, attestations, IMAGES, pipeline) /\ active \in 1 .. Len(runs) /\ Run \in RunRecord
  BY <1>1, RunType, ActiveRun
<1>6. ASSUME pipeline = "release" PROVE Published(q, attestations)
  <2>1. \A i \in Names :
           Statement(i, Run.digests[i], verify_flags(Run.commit, Run.event, "release")) \in attestations
    BY <1>6 DEF VerifyImages, Flags
  <2>2. DOMAIN Run.digests = Names
    BY <1>5 DEF RunRecord
  <2> QED
    BY <1>4, <2>1, <2>2 DEF Published
<1> HIDE DEF q
<1>7. RunOK(q, attempts, attestations, IMAGES, pipeline)
  BY <1>1, <1>3, <1>4, <1>5, <1>6, Outputs DEF Publishing
<1>8. runs' \in Seq(RunRecord) /\ Len(runs') = Len(runs) /\ RunsInv'
  BY <1>1, <1>2, <1>4, <1>5, <1>7, RunsStep, Same
<1> QED
  BY <1>1, <1>5, <1>8

(* cmd_assets.                                                             *)
LEMMA AssetsRuns ==
    ASSUME TypeOK, RunsInv, cmd_assets
    PROVE  runs' \in Seq(RunRecord) /\ active' \in 0 .. Len(runs') /\ RunsInv'
<1>1. active # 0 /\ Run.stage = "assets" /\ pipeline' = pipeline /\ tree' = tree
      /\ attempts' = attempts /\ attestations' = attestations /\ active' = active
  BY DEF cmd_assets, At
<1> DEFINE q == GoTo("done")
<1>2. runs' = [runs EXCEPT ![active] = q]
  BY DEF cmd_assets, SetRun
<1>3. /\ q \in RunRecord
      /\ q.event = Run.event /\ q.commit = Run.commit /\ q.rp = Run.rp /\ q.tag = Run.tag
      /\ q.archive = Run.archive /\ q.inspected = Run.inspected /\ q.digests = Run.digests
      /\ q.stage = "done"
  BY <1>1, GoToFields DEF Stages
<1>4. RunOK(Run, attempts, attestations, IMAGES, pipeline) /\ active \in 1 .. Len(runs)
  BY <1>1, RunType, ActiveRun
<1> HIDE DEF q
<1>5. Published(q, attestations)
  BY <1>1, <1>3, <1>4 DEF RunOK, Published
<1>6. RunOK(q, attempts, attestations, IMAGES, pipeline)
  BY <1>1, <1>3, <1>4, <1>5, Outputs DEF Publishing
<1>7. runs' \in Seq(RunRecord) /\ Len(runs') = Len(runs) /\ RunsInv'
  BY <1>1, <1>2, <1>3, <1>4, <1>6, RunsStep, Same
<1> QED
  BY <1>1, <1>4, <1>7

(* A job starts again only in a run that has reached it, so the outputs of *)
(* the jobs before it are there.                                           *)
LEMMA RerunRuns ==
    ASSUME TypeOK, RunsInv, NEW k \in 1 .. Len(runs),
           NEW stage \in {"release-please", "build", "push", "verify", "assets"}, Rerun(k, stage)
    PROVE  runs' \in Seq(RunRecord) /\ active' \in 0 .. Len(runs') /\ RunsInv'
<1>1. pipeline' = pipeline /\ tree' = tree /\ attempts' = attempts /\ attestations' = attestations
      /\ active' = k /\ runs' = [runs EXCEPT ![k].stage = stage, ![k].next = 1]
      /\ Rank(stage) <= Rank(runs[k].stage)
      /\ (stage = "assets" => pipeline = "release" /\ runs[k].event = "push")
  BY DEF Rerun
<1> DEFINE r == runs[k]  q == [r EXCEPT !.stage = stage, !.next = 1]
<1>2. r \in RunRecord /\ RunOK(r, attempts, attestations, IMAGES, pipeline)
  BY ElementOfSeq DEF TypeOK, RunsInv
<1>3. runs' = [runs EXCEPT ![k] = q]
  BY <1>1, LenProperties DEF TypeOK
<1>4. 1 \in 1 .. Len(IMAGES)
  BY ImagesType
<1>5. Rank(stage) <= Rank(r.stage) /\ (stage = "assets" => pipeline = "release" /\ r.event = "push")
  BY <1>1
<1> HIDE DEF r
<1>6. /\ q \in RunRecord
      /\ q.event = r.event /\ q.commit = r.commit /\ q.rp = r.rp /\ q.tag = r.tag
      /\ q.archive = r.archive /\ q.inspected = r.inspected /\ q.digests = r.digests
      /\ q.stage = stage /\ q.next = 1
  BY <1>2, <1>4 DEF RunRecord, Stages
<1>7. r.stage \in Stages
  BY <1>2 DEF RunRecord
<1> HIDE DEF q
<1>8. /\ stage \in {"push", "verify", "assets"} => r.stage \in Publishing
      /\ stage \in {"verify", "assets"} => r.stage # "push"
      /\ stage = "assets" => r.stage \in {"assets", "done"}
  BY <1>5, <1>7 DEF Rank, Publishing, Stages
<1>9. CASE stage \in {"release-please", "build"}
  <2>1. RunOK(q, attempts, attestations, IMAGES, pipeline)
    BY <1>2, <1>6, <1>9 DEF RunOK, PushedGood, Publishing
  <2>2. runs' \in Seq(RunRecord) /\ Len(runs') = Len(runs) /\ RunsInv'
    BY <1>1, <1>3, <1>6, <2>1, RunsStep, Same
  <2> QED
    BY <1>1, <2>2
<1>10. CASE stage \in {"push", "verify", "assets"}
  <2>1. stage = "assets" => Published(q, attestations)
    BY <1>2, <1>5, <1>6, <1>8 DEF RunOK, Published
  <2>2. q.stage \in Publishing /\ q.stage # "done"
    BY <1>6, <1>10 DEF Publishing
  <2>3. RunOK(q, attempts, attestations, IMAGES, pipeline)
    BY <1>2, <1>5, <1>6, <1>8, <1>10, <2>1, <2>2, Outputs
  <2>4. runs' \in Seq(RunRecord) /\ Len(runs') = Len(runs) /\ RunsInv'
    BY <1>1, <1>3, <1>6, <2>3, RunsStep, Same
  <2> QED
    BY <1>1, <2>4
<1> QED
  BY <1>9, <1>10

(* What every step does to attempts, runs and certificates.                *)
Effect ==
    /\ pipeline' = pipeline /\ tree' = tree
    /\ attempts' \in Seq(Attempt) /\ Grows(attempts, attempts')
    /\ runs' \in Seq(RunRecord) /\ active' \in 0 .. Len(runs') /\ RunsInv'
    /\ signatures \subseteq signatures' /\ attestations \subseteq attestations'

(* A step that leaves runs, attempts and certificates alone.               *)
LEMMA Unmoved ==
    ASSUME TypeOK, RunsInv, pipeline' = pipeline, tree' = tree, runs' = runs, attempts' = attempts,
           signatures' = signatures, attestations' = attestations, active' \in {0, active}
    PROVE  Effect
<1>1. attempts' \in Seq(Attempt) /\ runs' \in Seq(RunRecord) /\ Len(runs') \in Nat
  BY LenProperties DEF TypeOK
<1>2. active' \in 0 .. Len(runs')
  BY <1>1 DEF TypeOK
<1> QED
  BY <1>1, <1>2, Same, RunsStay DEF Effect

(* Every step has that effect.                                             *)
LEMMA StepEffect ==
    ASSUME TypeOK, RunsInv, [Next]_vars
    PROVE  Effect
<1>1. attempts \in Seq(Attempt)
  BY DEF TypeOK
<1>2. ASSUME PushCommit PROVE Effect
  BY <1>2, Unmoved DEF PushCommit
<1>3. ASSUME NEW event \in {"push", "workflow_dispatch"}, StartRun(event) PROVE Effect
  <2>1. event \in Events
    BY DEF Events
  <2> QED
    BY <1>1, <1>3, <2>1, StartRuns, Same DEF StartRun, Effect
<1>4. ASSUME ReleasePlease PROVE Effect
  BY <1>1, <1>4, PleaseRuns, Same DEF ReleasePlease, Effect
<1>5. ASSUME BuildArchives PROVE Effect
  BY <1>5, BuildRuns, BuildAttempts DEF BuildArchives, Effect
<1>6. ASSUME cmd_inspect PROVE Effect
  BY <1>6, InspectRuns, InspectAttempts DEF cmd_inspect, Effect
<1>7. ASSUME PushNext PROVE Effect
  BY <1>1, <1>7, PushRuns, Same DEF PushNext, Effect
<1>8. ASSUME SignNext PROVE Effect
  BY <1>1, <1>8, SignRuns, Same DEF SignNext, Effect
<1>9. ASSUME VerifyImages PROVE Effect
  BY <1>1, <1>9, VerifyRuns, Same DEF VerifyImages, Effect
<1>10. ASSUME cmd_assets PROVE Effect
  BY <1>1, <1>10, AssetsRuns, Same DEF cmd_assets, Effect
<1>11. ASSUME EndRun PROVE Effect
  BY <1>11, Unmoved DEF EndRun
<1>12. ASSUME NEW k \in 1 .. Len(runs), NEW stage \in {"release-please", "build", "push", "verify", "assets"},
              Rerun(k, stage)
       PROVE  Effect
  BY <1>1, <1>12, RerunRuns, Same DEF Rerun, Effect
<1>13. ASSUME UNCHANGED vars PROVE Effect
  BY <1>13, Unmoved DEF vars
<1> QED
  BY <1>2, <1>3, <1>4, <1>5, <1>6, <1>7, <1>8, <1>9, <1>10, <1>11, <1>12, <1>13
     DEF Next, release_build, caddy_build, release_push, caddy_push, release_sign, caddy_sign,
         release_verify, caddy_verify

(* A signature is of an image that the run pushed, which is a clean        *)
(* attempt of its own.                                                     *)
LEMMA Signs ==
    ASSUME TypeOK, RunsInv, SignNext
    PROVE  \E s \in Certificate : /\ Vouched(s, attempts) /\ signatures' = signatures \cup {s}
                                  /\ attestations' = attestations \/ attestations' = attestations \cup {s}
<1> DEFINE i == IMAGES[Run.next]  s == Certified(i)
<1>1. active # 0 /\ Run.stage = "sign" /\ signatures' = signatures \cup {s}
      /\ (attestations' = attestations \/ attestations' = attestations \cup {s})
  BY DEF SignNext, At
<1>2. Run \in RunRecord /\ RunOK(Run, attempts, attestations, IMAGES, pipeline)
  BY <1>1, RunType, ActiveRun
<1>3. /\ Run.next \in 1 .. Len(IMAGES) /\ Run.digests \in [Names -> Nat]
      /\ Run.commit \in 1 .. MaxCommit /\ Run.event \in Events
  BY <1>2 DEF RunRecord
<1>4. i \in Names
  BY <1>3, NamesImages
<1>5. Good(Run, Run.digests[i], attempts)
  BY <1>1, <1>2, <1>3, <1>4 DEF RunOK, PushedGood, Publishing
<1>6. s = [image |-> i, content |-> Run.digests[i], identity |-> pipeline,
           commit |-> Run.commit, trigger |-> Run.event]
  BY DEF Certified
<1> HIDE DEF i, s
<1>7. s \in Certificate /\ Vouched(s, attempts)
  BY <1>3, <1>4, <1>5, <1>6 DEF Certificate, Vouched, Good, Made
<1> QED
  BY <1>1, <1>7

(* No other step signs or attests.                                         *)
LEMMA SignedSame ==
    ASSUME TypeOK, [Next]_vars, ~SignNext
    PROVE  signatures' = signatures /\ attestations' = attestations
  BY DEF Next, vars, PushCommit, StartRun, ReleasePlease, release_build, caddy_build, BuildArchives, cmd_inspect,
         release_push, caddy_push, PushNext, release_sign, caddy_sign, release_verify, caddy_verify, VerifyImages,
         cmd_assets, EndRun, Rerun

(* Certificates keep their type and what they vouch for.                   *)
LEMMA SignedNext ==
    ASSUME TypeOK, RunsInv, SignedInv, [Next]_vars
    PROVE  SignedInv' /\ (signatures \subseteq Certificate /\ attestations \subseteq signatures)'
<1>1. Effect /\ Len(attempts) \in Nat /\ Len(attempts') \in Nat
  BY StepEffect, LenProperties DEF Effect, TypeOK
<1>2. \A s : Vouched(s, attempts) => Vouched(s, attempts')
  <2>1. \A a, b \in Nat : a <= b => 1 .. a \subseteq 1 .. b
    OBVIOUS
  <2>2. 1 .. Len(attempts) \subseteq 1 .. Len(attempts')
    BY <1>1, <2>1 DEF Effect, Grows
  <2> QED
    BY <1>1, <2>2 DEF Vouched, Effect, Grows
<1>3. Certificate' = Certificate
  BY <1>1, Frame DEF Effect
<1>4. CASE SignNext
  <2>1. PICK s \in Certificate : /\ Vouched(s, attempts) /\ signatures' = signatures \cup {s}
                                 /\ attestations' = attestations \/ attestations' = attestations \cup {s}
    BY <1>4, Signs
  <2> QED
    BY <2>1, <1>2, <1>3 DEF SignedInv, TypeOK
<1>5. CASE ~SignNext
  BY <1>2, <1>3, <1>5, SignedSame DEF SignedInv, TypeOK
<1> QED
  BY <1>4, <1>5

(* Only a build adds an attempt, and a build has checked the inputs.       *)
LEMMA InputsNext ==
    ASSUME TypeOK, RunsInv, InputsInv, [Next]_vars
    PROVE  InputsInv'
<1>1. Effect
  BY StepEffect
<1>2. inputs_ok' = inputs_ok
  BY <1>1, Frame DEF Effect
<1>3. CASE BuildArchives
  BY <1>2, <1>3 DEF BuildArchives, InputsInv
<1>4. CASE cmd_inspect
  <2>1. Len(attempts') = Len(attempts) /\ attempts' \in Seq(Attempt) /\ attempts \in Seq(Attempt)
    BY <1>4, InspectAttempts DEF TypeOK
  <2>2. attempts = <<>> => attempts' = <<>>
    BY <2>1, EmptySeq
  <2> QED
    BY <1>2, <2>2 DEF InputsInv
<1>5. CASE attempts' = attempts
  BY <1>2, <1>5 DEF InputsInv
<1> QED
  BY <1>3, <1>4, <1>5
     DEF Next, vars, PushCommit, StartRun, ReleasePlease, release_build, caddy_build,
         release_push, caddy_push, PushNext, release_sign, caddy_sign, SignNext, release_verify, caddy_verify,
         VerifyImages, cmd_assets, EndRun, Rerun

(* The assets of a release list images that are signed and attested for    *)
(* its commit.                                                             *)
LEMMA AssetsNext ==
    ASSUME TypeOK, RunsInv, ReleaseIsItsCommit, [Next]_vars
    PROVE  ReleaseIsItsCommit' /\ assets' \in [Versions -> [Names -> Nat]]
<1>1. Effect /\ Names' = Names /\ Nothing' = Nothing
  BY StepEffect, Frame DEF Effect
<1>2. \A x : x \in signatures \cap attestations => x \in signatures' \cap attestations'
  BY <1>1 DEF Effect
<1>3. CASE assets' = assets
  BY <1>1, <1>2, <1>3 DEF ReleaseIsItsCommit, TypeOK
<1>4. CASE cmd_assets
  <2>1. active # 0 /\ Run.stage = "assets" /\ Run.event = "push" /\ Run.tag[1] = "release"
        /\ assets' = [assets EXCEPT ![Run.tag[2]] = Run.digests]
    BY <1>4 DEF cmd_assets, At, release_publish_context
  <2>2. Run \in RunRecord /\ RunOK(Run, attempts, attestations, IMAGES, pipeline)
    BY <2>1, RunType, ActiveRun
  <2>3. Run.digests \in [Names -> Nat] /\ DOMAIN Run.digests = Names
    BY <2>2 DEF RunRecord
  <2>4. Run.commit = ReleaseCommit(Run.tag[2]) /\ Published(Run, attestations)
    BY <2>1, <2>2 DEF RunOK
  <2>5. \A i \in Names : Statement(i, Run.digests[i], verify_flags(ReleaseCommit(Run.tag[2]), "push", "release"))
                            \in signatures \cap attestations
    BY <2>1, <2>3, <2>4 DEF Published, TypeOK
  <2>6. assets \in [Versions -> [Names -> Nat]]
    BY DEF TypeOK
  <2> DEFINE w == Run.tag[2]  d == Run.digests
  <2>7. /\ assets' \in [Versions -> [Names -> Nat]]
        /\ \A v \in Versions : assets'[v] = IF v = w THEN d ELSE assets[v]
    BY <2>1, <2>3, <2>6
  <2>8. \A i \in Names : Statement(i, d[i], verify_flags(ReleaseCommit(w), "push", "release"))
                            \in signatures \cap attestations
    BY <2>5
  <2> HIDE DEF w, d
  <2>9. ASSUME NEW v \in Versions, assets'[v] # Nothing, NEW i \in Names
        PROVE  Statement(i, assets'[v][i], verify_flags(ReleaseCommit(v), "push", "release"))
                  \in signatures \cap attestations
    <3>1. CASE v = w
      BY <3>1, <2>7, <2>8
    <3>2. CASE v # w
      BY <3>2, <2>7, <2>9 DEF ReleaseIsItsCommit
    <3> QED
      BY <3>1, <3>2
  <2> QED
    BY <1>1, <1>2, <2>7, <2>9 DEF ReleaseIsItsCommit
<1> QED
  BY <1>3, <1>4
     DEF Next, vars, PushCommit, StartRun, ReleasePlease, release_build, caddy_build, BuildArchives, cmd_inspect,
         release_push, caddy_push, PushNext, release_sign, caddy_sign, SignNext, release_verify, caddy_verify,
         VerifyImages, EndRun, Rerun

(* The commits of main and the released versions keep their types.         *)
LEMMA RestTyped ==
    ASSUME TypeOK, [Next]_vars
    PROVE  head' \in 0 .. MaxCommit /\ released' \subseteq Versions
<1>1. CASE PushCommit
  BY <1>1, ImagePipelineAssumption DEF PushCommit, TypeOK
<1>2. CASE ReleasePlease
  BY <1>2 DEF ReleasePlease, TypeOK
<1>3. CASE head' = head /\ released' = released
  BY <1>3 DEF TypeOK
<1> QED
  BY <1>1, <1>2, <1>3
     DEF Next, vars, StartRun, release_build, caddy_build, BuildArchives, cmd_inspect,
         release_push, caddy_push, PushNext, release_sign, caddy_sign, SignNext, release_verify, caddy_verify,
         VerifyImages, cmd_assets, EndRun, Rerun

(* The invariant holds at first.                                           *)
LEMMA InitIInv == Init => IInv
<1> SUFFICES ASSUME Init PROVE IInv
  OBVIOUS
<1>1. Len(runs) = 0 /\ Len(attempts) = 0 /\ runs \in Seq(RunRecord) /\ attempts \in Seq(Attempt)
  BY EmptySeq DEF Init
<1>2. Nothing \in [Names -> Nat]
  BY DEF Nothing
<1>3. TypeOK
  BY <1>1, <1>2, ImagePipelineAssumption DEF Init, TypeOK
<1>4. RunsInv /\ SignedInv /\ InputsInv
  BY <1>1 DEF Init, RunsInv, SignedInv, InputsInv
<1>5. ReleaseIsItsCommit
  BY DEF Init, ReleaseIsItsCommit
<1> QED
  BY <1>3, <1>4, <1>5 DEF IInv

(* Every step keeps the invariant.                                         *)
LEMMA NextIInv == IInv /\ [Next]_vars => IInv'
<1> SUFFICES ASSUME IInv, [Next]_vars PROVE IInv'
  OBVIOUS
<1> USE DEF IInv
<1>1. Effect
  BY StepEffect
<1>2. /\ RunRecord' = RunRecord /\ Attempt' = Attempt /\ Names' = Names
  BY <1>1, Frame DEF Effect
<1>3. SignedInv' /\ (signatures \subseteq Certificate /\ attestations \subseteq signatures)'
  BY SignedNext
<1>4. ReleaseIsItsCommit' /\ assets' \in [Versions -> [Names -> Nat]]
  BY AssetsNext
<1>5. head' \in 0 .. MaxCommit /\ released' \subseteq Versions
  BY RestTyped
<1>6. TypeOK'
  BY <1>1, <1>2, <1>3, <1>4, <1>5 DEF TypeOK, Effect
<1>7. RunsInv' /\ InputsInv'
  BY <1>1, InputsNext DEF Effect
<1> QED
  BY <1>3, <1>4, <1>6, <1>7

(* The inductive invariant holds in every behaviour.                       *)
THEOREM IInvariant == Spec => []IInv
  BY InitIInv, NextIInv, PTL DEF Spec

(* Type correctness: every run, attempt, certificate and release list of   *)
(* the pipelines (release_images.py, caddy_image.py) has the fields and    *)
(* the ranges TypeOK gives them.                                           *)
THEOREM TypeCorrect == Spec => []TypeOK
<1>1. IInv => TypeOK
  BY DEF IInv
<1> QED
  BY IInvariant, <1>1, PTL

(* What consumer_command or verify-command accepts was built by a push run *)
(* of the commit it names, and that very content passed cmd_inspect: for   *)
(* every number of runs, builds, images and reruns.                        *)
THEOREM SignedWasInspected == Spec => []VerifiedWasInspected
<1>1. IInv => VerifiedWasInspected
  <2> SUFFICES ASSUME IInv, NEW i \in Names, NEW n \in 0 .. Len(attempts), NEW c \in 1 .. MaxCommit,
                      consumer_command(i, n, c)
               PROVE  n # 0 /\ attempts[n] = [commit |-> c, event |-> "push", defect |-> "none"]
    BY DEF VerifiedWasInspected
  <2> DEFINE s == Statement(i, n, verify_flags(c, "push", pipeline))
  <2>1. Vouched(s, attempts) /\ s.content = n /\ s.commit = c /\ s.trigger = "push"
    BY DEF IInv, SignedInv, consumer_command, Statement, verify_flags
  <2>2. n \in 1 .. Len(attempts)
    BY <2>1 DEF Vouched
  <2>3. attempts[n] \in Attempt
    BY <2>2, ElementOfSeq DEF IInv, TypeOK
  <2>4. attempts[n].commit = c /\ attempts[n].event = "push" /\ attempts[n].defect = "none"
    BY <2>1 DEF Vouched
  <2>5. attempts[n] = [commit |-> c, event |-> "push", defect |-> "none"]
    BY <2>3, <2>4 DEF Attempt
  <2> QED
    BY <2>2, <2>5, LenProperties DEF IInv, TypeOK
<1> QED
  BY IInvariant, <1>1, PTL

(* The images that cmd_assets lists for a release were built from the      *)
(* release's own commit, and each is signed and attested.                  *)
THEOREM ReleaseFromItsCommit == Spec => []ReleaseIsItsCommit
<1>1. IInv => ReleaseIsItsCommit
  BY DEF IInv
<1> QED
  BY IInvariant, <1>1, PTL

(* A set of numbers that is not empty has a least one: the induction of    *)
(* the following lemmas.                                                   *)
LEMMA LeastNumber ==
    ASSUME NEW T, T \subseteq Nat, T # {}
    PROVE  \E m \in T : \A k \in T : ~(k < m)
<1>1. PICK m \in T : \A k \in T : ~(<<k, m>> \in OpToRel(<, Nat))
  BY NatLessThanWellFounded, WFMin
<1>2. \A k \in T : k < m => <<k, m>> \in OpToRel(<, Nat)
  BY DEF OpToRel
<1> QED
  BY <1>1, <1>2

(* The recursion equation of the loop in compare_buildlists: pass k adds   *)
(* what the modules of pass k - 1 raise.                                   *)
Passes(t, n, f) ==
    [k \in 0 .. n |-> IF k = 0 THEN Overridden(t) ELSE f[k - 1] \cup Raised(t, f[k - 1])]

(* The equation has a solution for every number of passes.                 *)
LEMMA PassesExist ==
    ASSUME NEW t, NEW N \in Nat
    PROVE  \E f : f = Passes(t, N, f)
<1> DEFINE A == Overridden(t)
           Grown(x) == x \cup Raised(t, x)
           P(n) == \E f : f = [k \in 0 .. n |-> IF k = 0 THEN A ELSE Grown(f[k - 1])]
           T == {n \in Nat : ~P(n)}
<1>1. ASSUME T # {} PROVE FALSE
  <2>1. PICK m \in T : \A k \in T : ~(k < m)
    BY <1>1, LeastNumber
  <2>2. m \in Nat /\ ~P(m)
    BY <2>1
  <2>3. P(0)
    <3> DEFINE f == [k \in 0 .. 0 |-> A]
    <3> HIDE DEF A, Grown
    <3>1. f = [k \in 0 .. 0 |-> IF k = 0 THEN A ELSE Grown(f[k - 1])]
      OBVIOUS
    <3> QED
      BY <3>1
  <2>4. m - 1 \in Nat /\ m - 1 < m
    BY <2>2, <2>3
  <2> HIDE DEF A, Grown
  <2>5. PICK f : f = [k \in 0 .. m - 1 |-> IF k = 0 THEN A ELSE Grown(f[k - 1])]
    <3>1. m - 1 \notin T
      BY <2>1, <2>4
    <3> QED
      BY <2>4, <3>1
  <2> DEFINE g == [k \in 0 .. m |-> IF k = 0 THEN A ELSE Grown(f[k - 1])]
  <2>6. \A k \in 0 .. m : k # 0 => k - 1 \in 0 .. m - 1 /\ k - 1 \in 0 .. m
    BY <2>2, <2>4
  <2>7. \A k \in 0 .. m - 1 : g[k] = f[k]
    <3> SUFFICES ASSUME NEW k \in 0 .. m - 1 PROVE g[k] = f[k]
      OBVIOUS
    <3>1. k \in 0 .. m
      BY <2>2
    <3>2. f[k] = IF k = 0 THEN A ELSE Grown(f[k - 1])
      BY <2>5
    <3> QED
      BY <3>1, <3>2
  <2>8. \A k \in 0 .. m : k # 0 => g[k - 1] = f[k - 1]
    BY <2>6, <2>7
  <2>9. g = [k \in 0 .. m |-> IF k = 0 THEN A ELSE Grown(g[k - 1])]
    BY <2>8
  <2> HIDE DEF g
  <2> QED
    BY <2>2, <2>9
<1>2. P(N)
  BY <1>1
<1> QED
  BY <1>2 DEF Passes

(* The loop finds nothing that is not in every set that holds the          *)
(* overrides and is closed under the module graph.                         *)
LEMMA ClosureIsLeast ==
    ASSUME NEW t, NEW S, Overridden(t) \subseteq S,
           \A e \in t.edges : e[1] \in S /\ Selected(t, e[2]) => e[2] \in S
    PROVE  explained(t) \subseteq S
<1> DEFINE N == Cardinality(Nodes)
           pass == CHOOSE f : f = Passes(t, N, f)
<1>1. N \in Nat
  <2>1. IsFiniteSet(Modules) /\ IsFiniteSet(1 .. MaxVersion)
    BY ImagePipelineAssumption, FS_Interval
  <2> QED
    BY <2>1, FS_Product, FS_CardinalityType DEF Nodes
<1>2. explained(t) = pass[N]
  BY DEF explained, Passes
<1> HIDE DEF N
<1>3. pass = Passes(t, N, pass)
  BY <1>1, PassesExist
<1> HIDE DEF pass
<1>4. \A x : x \subseteq S => Raised(t, x) \subseteq S
  BY DEF Raised
<1> DEFINE T == {k \in 0 .. N : ~(pass[k] \subseteq S)}
<1>5. ASSUME T # {} PROVE FALSE
  <2>1. PICK m \in T : \A k \in T : ~(k < m)
    <3>1. T \subseteq Nat
      BY <1>1
    <3> HIDE DEF T
    <3> QED
      BY <1>5, <3>1, LeastNumber
  <2>2. m \in 0 .. N /\ ~(pass[m] \subseteq S)
    BY <2>1
  <2>3. pass[m] = IF m = 0 THEN Overridden(t) ELSE pass[m - 1] \cup Raised(t, pass[m - 1])
    BY <1>3, <2>2 DEF Passes
  <2>4. m # 0
    BY <2>2, <2>3
  <2>5. m - 1 \in 0 .. N /\ m - 1 < m
    BY <1>1, <2>2, <2>4
  <2>6. pass[m - 1] \subseteq S
    BY <2>1, <2>5
  <2> QED
    BY <1>4, <2>2, <2>3, <2>4, <2>6
<1>6. N \in 0 .. N
  BY <1>1
<1> QED
  BY <1>2, <1>5, <1>6

(* In a Caddy image that anything was signed of, a module that differs     *)
(* from upstream follows from an annotated override along the edges of the *)
(* module graph: compare_buildlists was passed before the first build, and *)
(* its loop adds nothing else.                                             *)
THEOREM DifferencesExplained == Spec => []EveryDifferenceExplained
<1>1. IInv => EveryDifferenceExplained
  <2> SUFFICES ASSUME IInv, pipeline = "caddy", signatures # {},
                      NEW p \in Modules, tree.ours[p] # tree.upstream[p],
                      NEW S \in SUBSET Nodes, Overridden(tree) \subseteq S,
                      \A e \in tree.edges : e[1] \in S /\ Selected(tree, e[2]) => e[2] \in S
               PROVE  <<p, tree.ours[p]>> \in S
    BY DEF EveryDifferenceExplained
  <2>1. attempts # <<>>
    <3>1. PICK s \in signatures : s.content \in 1 .. Len(attempts)
      BY DEF IInv, SignedInv, Vouched
    <3> QED
      BY <3>1, EmptySeq
  <2>2. cmd_buildlist(tree)
    BY <2>1 DEF IInv, InputsInv, inputs_ok
  <2>3. <<p, tree.ours[p]>> \in explained(tree)
    BY <2>2 DEF cmd_buildlist, compare_buildlists
  <2>4. explained(tree) \subseteq S
    BY ClosureIsLeast
  <2> QED
    BY <2>3, <2>4
<1> QED
  BY IInvariant, <1>1, PTL
=============================================================================
