----------------------------- MODULE DeployGate -----------------------------
(***************************************************************************)
(* The commands of deploy/compose/stackctl.py that start containers, and   *)
(* the gate in front of them: `assemble` copies the files of the clone     *)
(* into the stack folder, `scan` looks every image of the stack up in the  *)
(* vulnerability database and writes a result, `up`, `keyring prepare` and *)
(* `realm rebuild` go on only with a green result of the last 24 hours     *)
(* that was made for exactly these images and this policy.                 *)
(*                                                                         *)
(* Each command is a sequence of steps; it may fail or be killed between   *)
(* any two.  Time passes meanwhile, vulnerabilities become known,          *)
(* exceptions end, and the operator pulls the clone and edits the stack.   *)
(*                                                                         *)
(* An image is <<"pinned", v>>, a third-party image as version v of the    *)
(* clone pins it, or <<"release", r>>, the images of release r.  Version   *)
(* 0 is a missing file.  One tick of the clock is twelve hours.            *)
(***************************************************************************)
EXTENDS Naturals, FiniteSets, Sequences

CONSTANTS
    MaxFiles,     \* versions of the assembled files and pins in the clone (bound)
    MaxPolicy,    \* versions of scanner, exceptions.json and image_scan.py (bound)
    Releases,     \* releases the operator may deploy
    MaxTime,      \* ticks (bound)
    MaxKnown,     \* vulnerabilities that become known (bound)
    Through,      \* Through[p][i]: last day policy p excepts image i, 0 when it does not
    EditsDuring   \* commands during which the operator still edits

Never == MaxTime + 1
MAX_SCAN_AGE == 2
Day(t) == 1 + (t \div 2)
Pinned(v) == <<"pinned", v>>
Release(r) == <<"release", r>>
Images == {Pinned(v) : v \in 1 .. MaxFiles} \cup {Release(r) : r \in Releases}
Commands == {"idle", "assemble", "scan", "up", "prepare", "rebuild"}

ASSUME DeployGateAssumption ==
    /\ MaxFiles \in Nat \ {0} /\ MaxPolicy \in Nat \ {0} /\ MaxTime \in Nat /\ MaxKnown \in Nat
    /\ Releases \subseteq Nat \ {0}
    /\ Through \in [1 .. MaxPolicy -> [Images -> Nat]]
    /\ EditsDuring \subseteq {"assemble", "scan"}

VARIABLES
    now,        \* the clock
    known,      \* image -> tick its vulnerability entered the database, or Never
    clone,      \* [files, policy]: the checked-out versions
    stack,      \* [generated, config, manifest, env, images]: versions in the stack folder
    result,     \* the scan result beside the stack folder
    job,        \* the running command
    containers, \* images that containers were created from
    keycloak,   \* [running, realm, admin, realUser]
    bootstrap   \* the bootstrap administrator's secret is not retired

vars == <<now, known, clone, stack, result, job, containers, keycloak, bootstrap>>

NoResult == [exists |-> FALSE, refs |-> {}, policy |-> 0, at |-> 0, green |-> FALSE, through |-> Never]
Idle == [cmd |-> "idle", at |-> 0, refs |-> {}, policy |-> 0, entries |-> 0, db |-> {}, time |-> 0,
         trusted |-> TRUE, through |-> Never, found |-> FALSE]

------------------------------------------------------------------------------
(* The gate *)

\* The environment file names a release ...
env_ok == stack.env # 0

\* ... and images.txt, if saved, is the one of that release.
images_ok == stack.env = stack.images

\* The pinned images come from the clone, the release from the environment file.
deploy_refs == {Pinned(clone.files), Release(stack.env)}
deploy_refs_ok == env_ok /\ images_ok

scan_result_ok ==
    /\ result.exists /\ result.green
    /\ result.policy = clone.policy /\ result.refs = deploy_refs
    /\ now - result.at <= MAX_SCAN_AGE
    /\ Day(now) <= result.through

freshness_ok == deploy_refs_ok /\ scan_result_ok

\* The assembled files are the ones the manifest lists, and the ones of the clone.
manifest_ok ==
    /\ stack.manifest = <<stack.generated, stack.config>>
    /\ stack.generated = clone.files /\ stack.config = clone.files

\* Mutant of deploy_gate_ok: the assembled files are not compared with the clone.
DeployGateFreshOnly == freshness_ok

deploy_gate_ok == freshness_ok /\ manifest_ok

layout_ok == stack.generated # 0

\* The images of the merged configuration are the clone's pins and the saved release.
config_names_refs == stack.generated = clone.files /\ stack.env = stack.images

\* What needs no Docker: layout, environment, images.txt and assembled files.
static_ok == layout_ok /\ env_ok /\ images_ok /\ manifest_ok

\* What needs it: skipped, and so refused, while the environment file has a problem.
docker_ok == env_ok /\ config_names_refs

------------------------------------------------------------------------------
(* Commands *)

LastStep(cmd) == CASE cmd = "assemble" -> 4 [] cmd = "scan" -> 4 [] cmd = "up" -> 4
                   [] cmd = "prepare" -> 1 [] cmd = "rebuild" -> 4

Start(cmd) ==
    /\ job.cmd = "idle"
    /\ job' = [Idle EXCEPT !.cmd = cmd, !.at = 1, !.time = now]

At(cmd, n) == job.cmd = cmd /\ job.at = n
Advanced(j) == IF j.at = LastStep(j.cmd) THEN Idle ELSE [j EXCEPT !.at = @ + 1]
Advance == job' = Advanced(job)

\* The published Compose file must equal the committed one: `drift` refuses before any change.
cmd_assemble ==
    /\ job.cmd = "idle"
    /\ job' = [Idle EXCEPT !.cmd = "assemble", !.at = 1]
    /\ UNCHANGED <<now, known, clone, stack, result, containers, keycloak, bootstrap>>

\* rmtree of config, then each file from the clone as it is at that moment, the manifest of what
\* stands in the stack folder last.  The environment file is kept.
assemble_step ==
    /\ job.cmd = "assemble"
    /\ stack' = CASE job.at = 1 -> [stack EXCEPT !.config = 0]
                  [] job.at = 2 -> [stack EXCEPT !.generated = clone.files]
                  [] job.at = 3 -> [stack EXCEPT !.config = clone.files]
                  [] job.at = 4 -> [stack EXCEPT !.manifest = <<stack.generated, stack.config>>]
    /\ Advance
    /\ UNCHANGED <<now, known, clone, result, containers, keycloak, bootstrap>>

\* The bindings are read first ...
cmd_scan ==
    /\ job.cmd = "idle"
    /\ deploy_refs_ok
    /\ job' = [Idle EXCEPT !.cmd = "scan", !.at = 1, !.refs = deploy_refs, !.policy = clone.policy]
    /\ UNCHANGED <<now, known, clone, stack, result, containers, keycloak, bootstrap>>

\* ... then the exceptions are read again from the clone ...
scan_reads_exceptions ==
    /\ At("scan", 1)
    /\ job' = [job EXCEPT !.at = 2, !.entries = clone.policy]
    /\ UNCHANGED <<now, known, clone, stack, result, containers, keycloak, bootstrap>>

\* ... the database is updated, and the time of the scan is taken right after it ...
scan_updates_database ==
    /\ At("scan", 2)
    /\ \E ok \in BOOLEAN :
          job' = [job EXCEPT !.at = 3, !.time = now, !.trusted = ok,
                             !.db = IF ok THEN {i \in Images : known[i] <= now} ELSE {}]
    /\ UNCHANGED <<now, known, clone, stack, result, containers, keycloak, bootstrap>>

\* ... and each image is scanned; a scan that fails, or an image not scanned, is not trusted.
scan_targets ==
    /\ At("scan", 3)
    /\ \E ok \in BOOLEAN :
          LET hit == job.refs \cap job.db
              covered == {i \in hit : Through[job.entries][i] >= Day(now) /\ Through[job.entries][i] # 0}
              ends == {Never} \cup {Through[job.entries][i] : i \in covered}
          IN \E first \in ends :
                /\ \A e \in ends : first <= e
                /\ job' = [job EXCEPT !.at = 4, !.trusted = @ /\ ok, !.found = hit # covered, !.through = first]
    /\ UNCHANGED <<now, known, clone, stack, result, containers, keycloak, bootstrap>>

\* A red scan writes its result too.
scan_writes_result ==
    /\ At("scan", 4)
    /\ result' = [exists |-> TRUE, refs |-> job.refs, policy |-> job.policy, at |-> job.time,
                  green |-> job.trusted /\ ~job.found, through |-> job.through]
    /\ Advance
    /\ UNCHANGED <<now, known, clone, stack, containers, keycloak, bootstrap>>

\* What a container created from the assembled Compose files runs.
PinnedImage == Pinned(stack.generated)
ReleaseImage == Release(stack.env)

\* Keycloak imports the realm on its first start, and then makes the bootstrap administrator.
Started(k) ==
    IF k.realm THEN [k EXCEPT !.running = TRUE]
    ELSE [k EXCEPT !.running = TRUE, !.realm = TRUE, !.admin = bootstrap]

cmd_up ==
    /\ freshness_ok
    /\ Start("up")
    /\ UNCHANGED <<now, known, clone, stack, result, containers, keycloak, bootstrap>>

up_checks ==
    /\ At("up", 1)
    /\ static_ok /\ docker_ok
    /\ Advance
    /\ UNCHANGED <<now, known, clone, stack, result, containers, keycloak, bootstrap>>

\* Caddy alone, then its root is exported.
up_starts_caddy ==
    /\ At("up", 2)
    /\ containers' = containers \cup {PinnedImage}
    /\ Advance
    /\ UNCHANGED <<now, known, clone, stack, result, keycloak, bootstrap>>

\* `compose create bff` when the volume does not exist.
up_prepares_keyring ==
    /\ At("up", 3)
    /\ containers' \in {containers, containers \cup {ReleaseImage}}
    /\ Advance
    /\ UNCHANGED <<now, known, clone, stack, result, keycloak, bootstrap>>

\* `up -d` recreates what changed: only the images of the files remain.
up_starts_all ==
    /\ At("up", 4)
    /\ containers' = {PinnedImage, ReleaseImage}
    /\ keycloak' = Started(keycloak)
    /\ Advance
    /\ UNCHANGED <<now, known, clone, stack, result, bootstrap>>

cmd_keyring_prepare ==
    /\ deploy_gate_ok
    /\ Start("prepare")
    /\ UNCHANGED <<now, known, clone, stack, result, containers, keycloak, bootstrap>>

keyring_prepare ==
    /\ At("prepare", 1)
    /\ containers' \in {containers, containers \cup {ReleaseImage}}
    /\ Advance
    /\ UNCHANGED <<now, known, clone, stack, result, keycloak, bootstrap>>

cmd_realm_rebuild ==
    /\ deploy_gate_ok
    /\ Start("rebuild")
    /\ UNCHANGED <<now, known, clone, stack, result, containers, keycloak, bootstrap>>

\* The identity check reads a realm, or it fails and the rebuild is refused.
identity_facts_known == keycloak.realm

\* Users of the realm without the attribute synthetic=true.
users_without_synthetic == keycloak.realUser
bootstrap_retired == ~bootstrap

\* Mutant of rebuild_checks: the retired bootstrap secret is not looked at.
RebuildChecksUsersOnly ==
    /\ At("rebuild", 1)
    /\ identity_facts_known /\ ~users_without_synthetic
    /\ Advance
    /\ UNCHANGED <<now, known, clone, stack, result, containers, keycloak, bootstrap>>

\* The identity check must run, every user be synthetic, the bootstrap secret not be retired.
rebuild_checks ==
    /\ At("rebuild", 1)
    /\ identity_facts_known
    /\ ~users_without_synthetic
    /\ ~bootstrap_retired
    /\ Advance
    /\ UNCHANGED <<now, known, clone, stack, result, containers, keycloak, bootstrap>>

rebuild_stops_keycloak ==
    /\ At("rebuild", 2)
    /\ keycloak' = [keycloak EXCEPT !.running = FALSE]
    /\ Advance
    /\ UNCHANGED <<now, known, clone, stack, result, containers, bootstrap>>

rebuild_drops_database ==
    /\ At("rebuild", 3)
    /\ keycloak' = [running |-> keycloak.running, realm |-> FALSE, admin |-> FALSE, realUser |-> FALSE]
    /\ Advance
    /\ UNCHANGED <<now, known, clone, stack, result, containers, bootstrap>>

rebuild_starts_keycloak ==
    /\ At("rebuild", 4)
    /\ containers' = containers \cup {PinnedImage}
    /\ keycloak' = Started(keycloak)
    /\ Advance
    /\ UNCHANGED <<now, known, clone, stack, result, bootstrap>>

\* A refusal, a failing Docker or psql call, a kill: the command ends where it stands, and a
\* scan that ends so has written nothing.
CommandEnds ==
    /\ job.cmd # "idle"
    /\ job' = Idle
    /\ UNCHANGED <<now, known, clone, stack, result, containers, keycloak, bootstrap>>

------------------------------------------------------------------------------
(* The operator and the world *)

Editable == job.cmd \in {"idle"} \cup EditsDuring

\* A pull moves the clone forward: new pins and files, a new policy, or both.
PullClone ==
    /\ Editable
    /\ \E f \in clone.files .. MaxFiles, p \in clone.policy .. MaxPolicy :
          clone' = [files |-> f, policy |-> p]
    /\ UNCHANGED <<now, known, stack, result, job, containers, keycloak, bootstrap>>

SaveImages(r) ==
    /\ Editable
    /\ stack' = [stack EXCEPT !.images = r]
    /\ UNCHANGED <<now, known, clone, result, job, containers, keycloak, bootstrap>>

EditEnv(r) ==
    /\ Editable
    /\ stack' = [stack EXCEPT !.env = r]
    /\ UNCHANGED <<now, known, clone, result, job, containers, keycloak, bootstrap>>

\* Accounts are made in Keycloak whenever it runs, a command in progress or not: a real one.
CreateRealUser ==
    /\ keycloak.running /\ keycloak.realm
    /\ keycloak' = [keycloak EXCEPT !.realUser = TRUE]
    /\ UNCHANGED <<now, known, clone, stack, result, job, containers, bootstrap>>

\* The operator retires the bootstrap secret once the permanent administrator exists, and
\* rotates it when a rebuild asks for it.
RetireBootstrap ==
    /\ job.cmd = "idle"
    /\ keycloak.running /\ keycloak.admin
    /\ bootstrap' = FALSE
    /\ UNCHANGED <<now, known, clone, stack, result, job, containers, keycloak>>

RotateBootstrap ==
    /\ job.cmd = "idle"
    /\ bootstrap' = TRUE
    /\ UNCHANGED <<now, known, clone, stack, result, job, containers, keycloak>>

\* A High or Critical vulnerability of an image enters the database.
Disclose(i) ==
    /\ known[i] = Never
    /\ Cardinality({j \in Images : known[j] # Never}) < MaxKnown
    /\ known' = [known EXCEPT ![i] = now]
    /\ UNCHANGED <<now, clone, stack, result, job, containers, keycloak, bootstrap>>

Tick ==
    /\ now < MaxTime
    /\ now' = now + 1
    /\ UNCHANGED <<known, clone, stack, result, job, containers, keycloak, bootstrap>>

------------------------------------------------------------------------------
Init ==
    /\ now = 0
    /\ known = [i \in Images |-> Never]
    /\ clone = [files |-> 1, policy |-> 1]
    /\ stack = [generated |-> 0, config |-> 0, manifest |-> <<0, 0>>, env |-> 0, images |-> 0]
    /\ result = NoResult
    /\ job = Idle
    /\ containers = {}
    /\ keycloak = [running |-> FALSE, realm |-> FALSE, admin |-> FALSE, realUser |-> FALSE]
    /\ bootstrap = TRUE

Next ==
    \/ cmd_assemble \/ assemble_step
    \/ cmd_scan \/ scan_reads_exceptions \/ scan_updates_database \/ scan_targets \/ scan_writes_result
    \/ cmd_up \/ up_checks \/ up_starts_caddy \/ up_prepares_keyring \/ up_starts_all
    \/ cmd_keyring_prepare \/ keyring_prepare
    \/ cmd_realm_rebuild \/ rebuild_checks \/ rebuild_stops_keycloak
    \/ rebuild_drops_database \/ rebuild_starts_keycloak
    \/ CommandEnds
    \/ PullClone
    \/ \E r \in Releases : SaveImages(r) \/ EditEnv(r)
    \/ CreateRealUser \/ RetireBootstrap \/ RotateBootstrap
    \/ \E i \in Images : Disclose(i)
    \/ Tick

Spec == Init /\ [][Next]_vars

------------------------------------------------------------------------------
(* Properties *)

\* Every variable has its type, and a command in progress its fields.
TypeOK ==
    /\ now \in 0 .. MaxTime
    /\ known \in [Images -> 0 .. Never]
    /\ clone \in [files : 1 .. MaxFiles, policy : 1 .. MaxPolicy]
    /\ stack \in [generated : 0 .. MaxFiles, config : 0 .. MaxFiles,
                  manifest : (0 .. MaxFiles) \X (0 .. MaxFiles),
                  env : Releases \cup {0}, images : Releases \cup {0}]
    /\ DOMAIN job = DOMAIN Idle /\ DOMAIN result = DOMAIN NoResult
    /\ job.cmd \in Commands
    /\ job.cmd = "assemble" => job.at \in 1 .. 4
    /\ containers \subseteq {Pinned(v) : v \in 0 .. MaxFiles} \cup {Release(r) : r \in Releases \cup {0}}
    /\ keycloak \in [running : BOOLEAN, realm : BOOLEAN, admin : BOOLEAN, realUser : BOOLEAN]
    /\ bootstrap \in BOOLEAN

\* The clone's policy excepts image i on the day of tick t.
ExceptedAt(i, t) == Through[clone.policy][i] # 0 /\ Day(t) <= Through[clone.policy][i]

\* The images this step creates a container from, or starts Keycloak from.
StartedImages ==
    (containers' \ containers) \cup
    (IF keycloak'.running /\ ~keycloak.running THEN {PinnedImage} ELSE {})

\* No container starts from an image whose vulnerability was known more than 24 hours before the
\* command passed its gate, unless the policy of the clone excepts it that day: whatever is edited,
\* pulled or cut short between the scan and the gate, and whatever is disclosed, expires or fails
\* until the start (job.time is the gate's; nobody edits between the gate and the start).
NoKnownVulnerableStart ==
    [][ \A i \in StartedImages :
          \/ i \in Images /\ known[i] + MAX_SCAN_AGE >= job.time
          \/ i \in Images /\ ExceptedAt(i, job.time) ]_vars

\* Whenever Keycloak runs on an imported realm there is an administrator who can enter it,
\* however often a rebuild was cut between dropping the database and starting Keycloak again.
KeycloakHasAdmin == keycloak.running /\ keycloak.realm => keycloak.admin

=============================================================================
