--------------------------- MODULE ImagePipeline ---------------------------
(***************************************************************************)
(* How our own images are built, inspected, pushed, signed, verified and   *)
(* published: release_images.py driven by release.yml for api, bff and     *)
(* migrator, and caddy_image.py driven by caddy-image.yml for Caddy.  Both *)
(* have the same steps; a behaviour is of one of them.                     *)
(*                                                                         *)
(* A workflow run goes through jobs (release-please, build, publish,       *)
(* verify, assets), a job through commands, a command through the images   *)
(* in the order of the script.  Any command may fail and leave what it     *)
(* did; a run may then be started again from any job it has reached, with  *)
(* the outputs of the jobs before it.  The runs of main are serialised.    *)
(*                                                                         *)
(* The content of an image is the number of the build attempt that made    *)
(* it; 0 is content that no attempt made.  What is wrong with an attempt   *)
(* is decided when it is first looked at.                                  *)
(***************************************************************************)
EXTENDS Naturals, Sequences, FiniteSets

CONSTANTS
    ReleaseImages,               \* the images of a release, in the script's order
    MaxCommit, ReleaseCommits,   \* commits of main; those that merge a release pull request
    Trees,                       \* the inputs of the images, as the checked-out tree has them
    Modules, MaxVersion,         \* Go modules and the versions 1 .. MaxVersion of each, 0 when absent
    MaxRuns, MaxAttempts         \* bounds on workflow runs and on builds

ASSUME ImagePipelineAssumption ==
    /\ ReleaseImages \in Seq(STRING) /\ ReleaseImages # <<>>
    /\ MaxCommit \in Nat /\ ReleaseCommits \subseteq 1 .. MaxCommit
    /\ MaxVersion \in Nat /\ MaxRuns \in Nat /\ MaxAttempts \in Nat
    /\ IsFiniteSet(Modules)

VARIABLES
    pipeline,    \* "release" or "caddy"
    tree,        \* the inputs every commit of the behaviour has
    head,        \* the last commit of main
    released,    \* versions release-please has created a release for
    runs,        \* the workflow runs
    active,      \* the run that is executing, 0 when none
    attempts,    \* builds: [commit, event, defect]
    signatures, attestations,   \* [image, content, identity, commit, trigger]
    assets       \* version -> image -> content, as images.txt of the release lists it

vars == <<pipeline, tree, head, released, runs, active, attempts, signatures, attestations, assets>>

IMAGES == IF pipeline = "release" THEN ReleaseImages ELSE <<"caddy">>
Names == {IMAGES[k] : k \in DOMAIN IMAGES}

\* The '.' entry of the release manifest in the tree of commit c.
ManifestVersion(c) == Cardinality({d \in ReleaseCommits : d <= c})
ReleaseCommit(v) == CHOOSE c \in ReleaseCommits : ManifestVersion(c) = v
Versions == {ManifestVersion(c) : c \in ReleaseCommits}

Nothing == [i \in Names |-> 0]
NoRelease == [created |-> FALSE, sha |-> 0, version |-> 0]
Run == runs[active]
At(stage) == active # 0 /\ Run.stage = stage

\* A step of the active run that leaves every other run alone.
SetRun(r) == runs' = [runs EXCEPT ![active] = r]
GoTo(stage) == [Run EXCEPT !.stage = stage, !.next = 1]

\* A command handles its images one after the other; the next command follows the last image.
Loop(next) == IF Run.next = Len(IMAGES) THEN GoTo(next) ELSE [Run EXCEPT !.next = @ + 1]

------------------------------------------------------------------------------
(* Inputs: the pinned bases and tools of a release, the Dockerfile and the Go modules of Caddy *)

parse_pins(t) == t.inputs # "pins"
parse_dockerfile(t) == t.inputs # "dockerfile"
parse_gomod(t) == t.inputs # "gomod"
check_main_go(t) == t.inputs # "main.go"
check_directory(t) == t.inputs # "directory"

\* Neither the go line nor the toolchain line of go.mod is above the builder's Go.
cmd_inputs(t) ==
    /\ parse_dockerfile(t) /\ parse_gomod(t) /\ check_main_go(t) /\ check_directory(t)
    /\ t.inputs # "go above builder"

Nodes == Modules \X (1 .. MaxVersion)
Selected(t, n) == t.ours[n[1]] = n[2]

\* The closure starts at the overrides that are in our build list.
Overridden(t) == {n \in Nodes : t.overrides[n[1]] # 0 /\ Selected(t, n)}

\* Mutant of Raised: a module raised by any module, explained or not, counts as explained.
RaisedByAny(t, S) == {e[2] : e \in {f \in t.edges : Selected(t, f[2])}}

Raised(t, S) == {e[2] : e \in {f \in t.edges : f[1] \in S /\ Selected(t, f[2])}}

\* The loop that ends when a pass adds nothing: a pass adds a node, so it ends after |Nodes| passes.
explained(t) ==
    LET pass[k \in 0 .. Cardinality(Nodes)] ==
          IF k = 0 THEN Overridden(t) ELSE pass[k - 1] \cup Raised(t, pass[k - 1])
    IN pass[Cardinality(Nodes)]

\* Overrides are selected and above upstream; any other difference is in the closure.
compare_buildlists(t) ==
    /\ \A p \in Modules : t.overrides[p] # 0 =>
          /\ t.ours[p] = t.overrides[p]
          /\ t.upstream[p] = 0 \/ t.ours[p] > t.upstream[p]
    /\ \A p \in Modules : t.ours[p] # t.upstream[p] => <<p, t.ours[p]>> \in explained(t)

\* Our build list against the one a scratch module that requires only Caddy gets.
cmd_buildlist(t) ==
    /\ parse_dockerfile(t) /\ parse_gomod(t) /\ compare_buildlists(t)
    /\ t.inputs # "go below Caddy"

inputs_ok == IF pipeline = "release" THEN parse_pins(tree) ELSE cmd_inputs(tree) /\ cmd_buildlist(tree)

------------------------------------------------------------------------------
(* Context: the tag a run builds, and the one it may publish *)

\* Mutant of release_context: the commit release-please released is not compared with the run's.
ReleaseContextAnyCommit(r) ==
    r.event = "push" =>
        r.rp.created /\ r.rp.version = ManifestVersion(r.commit)

release_context(r) ==
    r.event = "push" =>
        /\ r.rp.created
        /\ r.rp.sha = r.commit
        /\ r.rp.version = ManifestVersion(r.commit)

release_tag(r) == IF r.event = "push" THEN <<"release", r.rp.version>> ELSE <<"dryrun", r.commit>>

\* A Caddy tag names the commit, so that a consumer can check it.
caddy_tag(r) == IF r.event = "push" THEN <<"caddy", r.commit>> ELSE <<"dryrun", r.commit>>

context_ok(r) == IF pipeline = "release" THEN release_context(r) ELSE parse_gomod(tree)
tag(r) == IF pipeline = "release" THEN release_tag(r) ELSE caddy_tag(r)

release_publish_context(r) ==
    IF r.event = "push" THEN r.tag[1] = "release" ELSE r.tag = <<"dryrun", r.commit>>

caddy_publish_context(r) == r.tag = caddy_tag(r)

publish_context_ok(r) ==
    IF pipeline = "release" THEN release_publish_context(r) ELSE caddy_publish_context(r)

------------------------------------------------------------------------------
(* Inspection: the archive, its config and layers, the secret and vulnerability scans, the SBOM *)

ReleaseKinds == {"none", "archive", "layer", "config", "name", "secret", "spa", "cve", "sbom"}
CaddyKinds == {"none", "archive", "layer", "config", "name", "secret", "files", "binary", "modules", "cve", "sbom"}
Kinds == IF pipeline = "release" THEN ReleaseKinds ELSE CaddyKinds

read_archive(kind) == kind # "archive"
unpack_layer(kind) == kind # "layer"
release_config(kind) == kind # "config"
caddy_config(kind) == kind # "config"
check_names(kind) == kind # "name"
merged_files(kind) == kind # "files"
check_binary(kind) == kind \notin {"binary", "modules"}
release_sbom(kind) == kind # "sbom"
caddy_sbom(kind) == kind # "sbom"

\* A scan that fails is not clean; a scan that sees nothing reports nothing.
gitleaks(kind, scanner) == scanner = "blind" \/ (scanner = "works" /\ kind # "secret")

\* Fatal before any real scan: a token seeded in one layer must be found, its whiteout must be clean.
canary(scanner) == scanner = "works"

\* A scan that cannot show what it scanned, and with which database, is a problem of its own.
grype(kind, scanner) == scanner = "works" /\ kind # "cve"

archive_clean(kind, secrets) ==
    /\ parse_pins(tree) /\ canary(secrets)
    /\ read_archive(kind) /\ unpack_layer(kind) /\ check_names(kind) /\ gitleaks(kind, secrets)

release_inspect(kind, secrets, cves) ==
    /\ archive_clean(kind, secrets)
    /\ release_config(kind) /\ kind # "spa" /\ grype(kind, cves) /\ release_sbom(kind)

caddy_inspect(kind, secrets, cves) ==
    /\ parse_dockerfile(tree)
    /\ archive_clean(kind, secrets)
    /\ caddy_config(kind) /\ merged_files(kind) /\ check_binary(kind)
    /\ grype(kind, cves) /\ caddy_sbom(kind)

inspect_ok(kind, secrets, cves) ==
    IF pipeline = "release" THEN release_inspect(kind, secrets, cves) ELSE caddy_inspect(kind, secrets, cves)

------------------------------------------------------------------------------
(* The jobs *)

PushCommit ==
    /\ head < MaxCommit
    /\ head' = head + 1
    /\ UNCHANGED <<pipeline, tree, released, runs, active, attempts, signatures, attestations, assets>>

FirstStage(event) == IF pipeline = "release" /\ event = "push" THEN "release-please" ELSE "build"

\* A push of the last commit, or a dry run of it.  A waiting push run may be replaced by a newer one.
StartRun(event) ==
    /\ active = 0 /\ Len(runs) < MaxRuns /\ head > 0
    /\ runs' = Append(runs, [event |-> event, commit |-> head, rp |-> NoRelease, stage |-> FirstStage(event),
                             next |-> 1, tag |-> <<"none", 0>>, archive |-> 0, inspected |-> 0, digests |-> Nothing])
    /\ active' = Len(runs) + 1
    /\ UNCHANGED <<pipeline, tree, head, released, attempts, signatures, attestations, assets>>

\* It releases a release commit that has no release yet, which may be older than the run's commit.
ReleasePlease ==
    /\ At("release-please")
    /\ LET open == {v \in Versions : v \notin released /\ ReleaseCommit(v) <= head}
       IN \/ /\ open = {}
             /\ SetRun([GoTo("build") EXCEPT !.rp = NoRelease])
             /\ UNCHANGED released
          \/ \E v \in open :
                /\ SetRun([GoTo("build") EXCEPT !.rp = [created |-> TRUE, sha |-> ReleaseCommit(v), version |-> v]])
                /\ released' = released \cup {v}
    /\ UNCHANGED <<pipeline, tree, head, active, attempts, signatures, attestations, assets>>

\* The archives of all images, into a folder that is emptied first.
BuildArchives ==
    /\ At("build") /\ context_ok(Run) /\ inputs_ok
    /\ Len(attempts) < MaxAttempts
    /\ attempts' = Append(attempts, [commit |-> Run.commit, event |-> Run.event, defect |-> "unseen"])
    /\ SetRun([GoTo("inspect") EXCEPT !.archive = Len(attempts) + 1])
    /\ UNCHANGED <<pipeline, tree, head, released, active, signatures, attestations, assets>>

release_build == pipeline = "release" /\ BuildArchives
caddy_build == pipeline = "caddy" /\ BuildArchives

\* Tag, SHA-256 and config digest become outputs of the build job only when every check of every image passed.
cmd_inspect ==
    /\ At("inspect") /\ context_ok(Run)
    /\ \E kind \in Kinds, secrets, cves \in {"works", "blind", "fails"} :
          /\ inspect_ok(kind, secrets, cves)
          /\ attempts' = [attempts EXCEPT ![Run.archive].defect = kind]
    /\ SetRun([GoTo("push") EXCEPT !.inspected = Run.archive, !.tag = tag(Run)])
    /\ UNCHANGED <<pipeline, tree, head, released, active, signatures, attestations, assets>>

\* Mutant of archive_ok: the downloaded archive is pushed without a look at it.
ArchiveAny(n) == TRUE

\* SHA-256, config digest and tag of a downloaded archive are those the build job inspected.
archive_ok(n) == n = Run.inspected

\* The download may return any attempt's archive or a damaged one.  A push whose manifest does not name
\* the archive's config fails with the command, which has no outputs then.
PushNext ==
    /\ At("push") /\ publish_context_ok(Run)
    /\ \E n \in 0 .. Len(attempts) :
          /\ archive_ok(n)
          /\ SetRun([Loop("sign") EXCEPT !.digests[IMAGES[Run.next]] = n])
    /\ UNCHANGED <<pipeline, tree, head, released, active, attempts, signatures, attestations, assets>>

release_push == pipeline = "release" /\ PushNext
caddy_push == pipeline = "caddy" /\ PushNext

\* Cosign's certificate names the workflow, its commit and its trigger.
Certified(i) == [image |-> i, content |-> Run.digests[i], identity |-> pipeline,
                 commit |-> Run.commit, trigger |-> Run.event]

\* Each image is signed and its SBOMs attested before the next one; a failure may come in between.
SignNext ==
    /\ At("sign") /\ publish_context_ok(Run) /\ parse_pins(tree)
    /\ signatures' = signatures \cup {Certified(IMAGES[Run.next])}
    /\ \/ /\ attestations' = attestations \cup {Certified(IMAGES[Run.next])}
          /\ SetRun(Loop("verify"))
          /\ UNCHANGED active
       \/ active' = 0 /\ UNCHANGED <<runs, attestations>>
    /\ UNCHANGED <<pipeline, tree, head, released, attempts, assets>>

release_sign == pipeline = "release" /\ SignNext
caddy_sign == pipeline = "caddy" /\ SignNext

\* What a signature is checked against: never without a commit, which a Caddy release tag names itself.
verify_flags(commit, trigger, identity) == [identity |-> identity, commit |-> commit, trigger |-> trigger]
derive_flags(r) == verify_flags(r.tag[2], r.event, "caddy")
Flags(r) == IF pipeline = "caddy" THEN derive_flags(r) ELSE verify_flags(r.commit, r.event, "release")

Statement(i, n, flags) == [image |-> i, content |-> n, identity |-> flags.identity,
                           commit |-> flags.commit, trigger |-> flags.trigger]

classify_negative(i, n, flags) ==
    CASE Statement(i, n, flags) \in signatures -> "verified"
      [] Statement(i, n, flags) \notin signatures /\ \E s \in signatures : s.image = i /\ s.content = n -> "mismatch"
      [] OTHER -> "missing"

OtherIdentity == IF pipeline = "release" THEN "ci" ELSE "release"

\* Signatures and attestations of all images; and an unsigned base, another workflow's identity and a
\* dry run taken for a release do not verify.
VerifyImages ==
    /\ At("verify") /\ publish_context_ok(Run) /\ parse_pins(tree)
    /\ \A i \in Names : Statement(i, Run.digests[i], Flags(Run)) \in signatures \cap attestations
    /\ LET first == IMAGES[1]
           negative(n, flags, expect) == classify_negative(first, n, flags) \in expect
       IN /\ negative(0, Flags(Run), IF pipeline = "release" THEN {"missing"} ELSE {"missing", "mismatch"})
          /\ negative(Run.digests[first], verify_flags(Run.commit, Run.event, OtherIdentity), {"mismatch"})
          /\ Run.event = "workflow_dispatch" =>
                negative(Run.digests[first], verify_flags(Run.commit, "push", pipeline), {"mismatch"})
    /\ SetRun(GoTo(IF pipeline = "release" /\ Run.event = "push" THEN "assets" ELSE "done"))
    /\ UNCHANGED <<pipeline, tree, head, released, active, attempts, signatures, attestations, assets>>

release_verify == pipeline = "release" /\ VerifyImages
caddy_verify == pipeline = "caddy" /\ VerifyImages

\* images.txt and VERIFY.txt; an upload replaces the assets that are there.
cmd_assets ==
    /\ At("assets") /\ release_publish_context(Run) /\ Run.event = "push"
    /\ assets' = [assets EXCEPT ![Run.tag[2]] = Run.digests]
    /\ SetRun(GoTo("done"))
    /\ UNCHANGED <<pipeline, tree, head, released, active, attempts, signatures, attestations>>

\* Any command may fail, which ends the run where it stands; so does the end of the last job.
EndRun ==
    /\ active # 0
    /\ active' = 0
    /\ UNCHANGED <<pipeline, tree, head, released, runs, attempts, signatures, attestations, assets>>

Rank(stage) ==
    CASE stage = "release-please" -> 1
      [] stage \in {"build", "inspect"} -> 2
      [] stage \in {"push", "sign"} -> 3
      [] stage = "verify" -> 4
      [] OTHER -> 5

\* A job the run has reached starts again; the outputs of the jobs before it stand.
Rerun(k, stage) ==
    /\ active = 0
    /\ Rank(FirstStage(runs[k].event)) <= Rank(stage) /\ Rank(stage) <= Rank(runs[k].stage)
    /\ stage = "assets" => pipeline = "release" /\ runs[k].event = "push"
    /\ active' = k
    /\ runs' = [runs EXCEPT ![k].stage = stage, ![k].next = 1]
    /\ UNCHANGED <<pipeline, tree, head, released, attempts, signatures, attestations, assets>>

------------------------------------------------------------------------------
Init ==
    /\ pipeline \in {"release", "caddy"}
    /\ tree \in {t \in Trees : t.pipeline = pipeline}
    /\ head = 0 /\ released = {} /\ runs = <<>> /\ active = 0 /\ attempts = <<>>
    /\ signatures = {} /\ attestations = {}
    /\ assets = [v \in Versions |-> Nothing]

Next ==
    \/ PushCommit
    \/ \E event \in {"push", "workflow_dispatch"} : StartRun(event)
    \/ ReleasePlease \/ release_build \/ caddy_build \/ cmd_inspect
    \/ release_push \/ caddy_push \/ release_sign \/ caddy_sign
    \/ release_verify \/ caddy_verify \/ cmd_assets \/ EndRun
    \/ \E k \in 1 .. Len(runs), stage \in {"release-please", "build", "push", "verify", "assets"} : Rerun(k, stage)

Spec == Init /\ [][Next]_vars

------------------------------------------------------------------------------
(* Properties *)

Events == {"push", "workflow_dispatch"}
Stages == {"release-please", "build", "inspect", "push", "sign", "verify", "assets", "done"}

RunRecord ==
    [event : Events, commit : 1 .. MaxCommit,
     rp : [created : BOOLEAN, sha : 0 .. MaxCommit, version : Nat],
     stage : Stages, next : 1 .. Len(IMAGES),
     tag : {"none", "release", "caddy", "dryrun"} \X Nat,
     archive : Nat, inspected : Nat, digests : [Names -> Nat]]

Attempt == [commit : 1 .. MaxCommit, event : Events, defect : Kinds \cup {"unseen"}]

Certificate == [image : Names, content : Nat, identity : {pipeline}, commit : 1 .. MaxCommit, trigger : Events]

\* Every workflow run has a stage, an image to handle next and a digest per image; a certificate
\* names an image of the pipeline and a commit of main; the executing run is one of the runs.
TypeOK ==
    /\ pipeline \in {"release", "caddy"}
    /\ tree \in Trees
    /\ head \in 0 .. MaxCommit
    /\ released \subseteq Versions
    /\ runs \in Seq(RunRecord)
    /\ active \in 0 .. Len(runs)
    /\ attempts \in Seq(Attempt)
    /\ signatures \subseteq Certificate /\ attestations \subseteq signatures
    /\ assets \in [Versions -> [Names -> Nat]]

\* What a consumer checks: `consumer_command` for a release, `verify-command` for Caddy.  The trigger is
\* always push and the commit is the release's.
consumer_command(i, n, commit) == Statement(i, n, verify_flags(commit, "push", pipeline)) \in signatures

\* Whatever a consumer can verify was found clean by the inspection of the very content that was signed,
\* and was built by a push run of the commit the consumer names: nothing slips in between inspection and
\* signature, however the jobs fail and start again, and a dry run never passes for a release.
VerifiedWasInspected ==
    \A i \in Names, n \in 0 .. Len(attempts), c \in 1 .. MaxCommit : consumer_command(i, n, c) =>
       /\ n # 0
       /\ attempts[n] = [commit |-> c, event |-> "push", defect |-> "none"]

\* The images a release lists were built from that release's own commit, not from a later one whose
\* run release-please happened to release in, and each is signed and attested before the release
\* lists any of them.
ReleaseIsItsCommit ==
    \A v \in Versions : assets[v] # Nothing =>
       \A i \in Names :
          Statement(i, assets[v][i], verify_flags(ReleaseCommit(v), "push", "release"))
             \in signatures \cap attestations

\* A module that a verifiable Caddy image has at another version than upstream is there because of an
\* annotated override: the override asks for it, directly or through modules that are themselves in
\* the build list, which the comparison's loop over the module graph must find.
EveryDifferenceExplained ==
    pipeline = "caddy" /\ signatures # {} =>
       \A p \in Modules : tree.ours[p] # tree.upstream[p] =>
          \A S \in SUBSET Nodes :
             Overridden(tree) \subseteq S /\ (\A e \in tree.edges : e[1] \in S /\ Selected(tree, e[2]) => e[2] \in S)
                => <<p, tree.ours[p]>> \in S

=============================================================================
