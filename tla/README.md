# Decisya: a TLA+ verification project

Decisya is a multi-tenant finance platform (.NET, Phase 0): a browser shell talks
to a backend-for-frontend (`src/Decisya.Bff`), which signs users in at Keycloak,
keeps their tokens in Redis and forwards `/api` calls to `src/Decisya.Api`; the
API resolves the caller's tenant, runs the Tenancy, Entitlements, Audit and Admin
modules on PostgreSQL and sends messages with Wolverine.
`src/Decisya.Infrastructure.Migrator` provisions the database roles,
`deploy/compose/stackctl.py` runs the production stack. Source paths are relative
to the repository root; `PROJECT.json` maps every definition to its lines.

## Inventory

| Component | State | Operations | Interacts with | What is hard | What makes it correct |
|---|---|---|---|---|---|
| Token refresh (`Decisya.Bff/Session/AccessTokenProvider`, `RedisRefreshLock`, `KeycloakTokenClient`, `Proxy/AccessTokenMiddleware`, logout in `Endpoints/BffEndpoints`) | ticket tokens, refresh lock with TTL, Keycloak's rotated refresh token | forward, wait, refresh, write back, sign out, log out | Redis, Keycloak, other BFF instances | lock TTL, lost replies, crash between rotation and write, logout racing refresh | a deleted session stays deleted, tokens never go back, one refresh per expiry, a good session is not ended, everyone is answered |
| Ticket store (`RedisTicketStore`, `SessionFixationGuard`, `LogoutTokenValidator`, back-channel logout) | tickets, sid index sets, their TTLs | Store, Renew, Retrieve, Remove, RemoveAllForSessionId | Keycloak's back channel, the sign-in callback | a read and then a transaction, failed reads, replayed calls | a key never changes hands, back-channel logout finds every ticket of a living session and none of another |
| Tenant membership (`Modules.Tenancy/TenantMembershipGate`, its middleware) | tenants, memberships | EnsureAsync on every request | PostgreSQL, concurrent first sign-ins | two reads, one insert, unique violations | one Owner per tenant, no owner refused, nobody past the gate without a row |
| Entitlements (`Modules.Entitlements`: grant, revoke, trial, evaluation) with Audit (`Modules.Audit/AuditWriter`) | overrides, trials, audit rows | GrantOverride, RevokeOverride, StartTrial, IsEnabled | one transaction with the audit module | read-modify-write under READ COMMITTED, end-exclusive expiry | change and record together, one trial ever, an answer that was true at some moment |
| Request tenancy and messaging (`Api/Authentication`, `Api/Messaging`) | the scope's caller, envelope facts | CallerContext, envelope stamp and middleware | HTTP pipeline, Wolverine | a scope that is reused, a message without a tenant, chains of messages | work runs for the tenant that asked for it, a message is never an admin |
| Tenant isolation (`Infrastructure.Persistence/TenantDbContext`) | change tracker, filter | query filter, EnforceTenantIsolation | every module's DbContext | entities attached or modified across scopes | no row of another tenant is read or written |
| Rate limiting (`Bff/RateLimiting`) | per-client sliding windows, log slots | classify, acquire, dispose | chained limiters | counts at the limit, dispose once | the limit holds in every window, one log line per window |
| Key ring (`Bff/KeyRing`; `stackctl.py` secrets and keyring commands) | secret files, current and previous certificate pair, key files in the volume, role password | `secrets init/add/rotate/retire`, `keyring prepare/reset`, `check`, startup check, wrapping of new keys | file system, Docker volume, PostgreSQL, a BFF that restarts on its own | a command that stops between two files, a second command over the leftovers | no live key that nobody can decrypt; what the checks accept, the BFF starts with |
| Migrator (`Infrastructure.Migrator`) | roles, grants, migrations | RunAsync, ProvisionModuleRole, append-only grants | PostgreSQL | a stop between statements, rerun | a run that ends converges to one set of grants |
| Money (`SharedKernel/Money`) | none | Allocate | - | rounding, sign | the parts add up |
| SPA session (`Decisya.Web/src/session.ts`) | the page's session | loadSession, performSignOut | BFF | the session ends between two calls | the page never shows a session that is gone as ready |
| Deployment gate (`deploy/compose/stackctl.py`, `stackguards.py`) | clone, stack folder with manifest, scan result, containers, Keycloak's database | `assemble`, `scan`, `up`, `keyring prepare`, `realm rebuild` | Docker, vulnerability database, the operator's edits | a result that is stale when used, a command cut short, time | nothing known vulnerable for a day starts; no rebuild locks the operator out, or destroys a real user (not so, see Observations) |
| Image scan gate (`.github/scripts/image_scan.py`) | pins, exceptions, the gate's own files, the base commit | choose a mode, scan, except, compare with the base | Git, scanner and database, registry tags | two sides read at different times, the gate changing itself | a pull request adds no unexcepted finding; a compared change of the gate loses none (a change that is scanned in full is not compared, see Observations) |
| Image pipelines (`.github/scripts/release_images.py`, `caddy_image.py`, `release.yml`, `caddy-image.yml`) | archives, job outputs, signatures, attestations, release assets | inputs, buildlist, build, inspect, push, sign, verify, assets | GitHub Actions, registry, Sigstore, release-please | jobs that fail and start again, runs replaced by newer ones | what verifies was inspected; a release lists images of its own commit |
| Not planned: ServiceDefaults, AppHost, security headers, SPA hosting, other CI scripts, dev container | - | - | - | wiring, formatting, I/O | - |

## Modules

An action is one await of the code: one Redis command or transaction, one SQL
statement or commit, one call to Keycloak. Between two awaits nothing else of the
program is visible, so this is the finest interleaving the program has. A process
is one HTTP request; when it has been answered it is reused for the next one.

**`TokenRefresh`** (one session). `ticket`, `expired` and `lock` are the Redis
keys `decisya:bff:ticket:*` (its two tokens, numbered in the order Keycloak
issues them) and the refresh lock; `kcAlive`, `kcRt`, `kcAt`, `late` are Keycloak;
`pc`, `handle`, `sent`, `reply`, `result` are the locals of a request.
`StartRequest`, `TryAcquire`, `AcquireAborted`, `Poll`, `WaitTimesOut` are
`AccessTokenProvider.GetAsync`; `RereadUnderLock`, `KeycloakRefresh`,
`RefreshFails`, `ReplyLost`, `WriteBack`, `WriteBackFails`, `HandleInvalidGrant`
are `RefreshUnderLockAsync`; `Release`, `ReleaseFails` dispose the handle
(compare-and-delete); `SignOut` is the middleware on `SessionEnded`; `StartLogout`
to `LogoutDelete` are `POST /bff/logout`. `Faults` names what the environment may
do: failed reads, writes that throw with or without effect, lock commands that
throw, a TTL that ends under its holder, calls given up while under way (and
arriving later, `LateRefresh`), crashes (`"crash"` at any moment, `"halt"` at any but
during the process's own refresh at Keycloak, where a crash loses the update), replies
without rotation.

**`AtomicSession`** is what that amounts to when no update is lost: a session
whose ticket and Keycloak change in one step.

**`TicketIndex`** (all sessions). `ticket` and `index` are the ticket keys and the
`decisya:bff:sid:*` sets. `StartCallback` to `StoreFails` are a sign-in callback
(fixation guard with `RemoveAsync`, code exchange, the cookie handler's read of the
request's own cookie, `StoreAsync` or `RenewAsync`); `StartSignOut` and the
`Remove*` actions are a sign-out; `StartBackchannel`, `SMembers`, `RemoveAll` are
`RemoveAllForSessionIdAsync`. The rules of the logout-token validator are one
guard: a valid token names a session Keycloak has ended. A sid's set gets the TTL
of the newest ticket on every store and the tickets' lifetime is fixed, so a set
outlives its tickets (`IndexExpires`). A sign-in may store at any moment, also
between the two steps of a logout of the same sid; `late` is a history variable that
remembers such keys, and only the properties read it.

**`TenantProvisioning`**, over the abstract **`TenantOwnership`** (ask who owns
the tenant, claim it if nobody does, in one step). `tenants` and `memberships`
are committed rows; `ReadTenant`, `ReadMembership`, `Insert`, `Commit`, `Reread`
are the statements of `EnsureAsync`. `Insert` waits while another open transaction
has inserted the key, as PostgreSQL's unique index does.

**`Entitlements`** (one tenant, one feature outside the Free plan). `row`,
`trial`, `audit` are committed rows; `pend` is what an open transaction has
written over the override; `seen` is the tracked entity. `Start*`, `CheckTenant`,
`ReadOverride`, `GrantInsert`, `GrantReread`, `GrantUpdate`, `GrantConflict`,
`RevokeDelete`, `ReadTrial`, `TrialInsert`, `AppendAudit`, `Commit` are the three
handlers; `Fail` is a rollback, or a commit whose answer was lost. EF Core updates
only the columns that differ from what it read: `Replace` and `Pick`. `absent`,
`always` and `once` are history variables, written by every step and read by
nothing but the properties.

**`TenantScope`** (the API and its messages). A scope is a DI scope of one
request or message; `caller` is its `RequestCaller`, `origin` (history) for whom it
was opened; `tracked` is the change tracker of its `TenantDbContext`, an entity
being its state and its original and current tenant id; `rows` are the committed
rows. `StartRequest`, `StartAnonymous` are `CallerContextMiddleware`; `Send` goes
through `EnvelopeTenantStamp`, `SendUnstamped` around it; `ReceiveFresh`,
`ReceiveReused`, `Refuse` are `EnvelopeTenantMiddleware.Before`, in any scope at
all. `Query` has the tenant filter and `SaveChanges` the guard, then one
transaction whose updates and deletes name the original tenant id (the concurrency
token). The application code is unconstrained: `Track`, `Change` and `Remove` give
entities any tenant ids, and delivery options hold anything, so the properties say
that the guards suffice, not that the callers behave. Left out because the
architecture tests forbid them outside types marked `[AllowCrossTenant]`: raw SQL,
`IgnoreQueryFilters`; and, forbidden everywhere but in the stamp, setting a tenant on
Wolverine's own bus.

**`KeyRing`** (the BFF's Data Protection keys and the operator's commands). `file`
is the secrets folder (a file is absent, empty or the number of the value it holds;
a certificate and its password match when the numbers do), `role` the password
PostgreSQL has, `key` the key files in the volume, `bff` the certificates the
running BFF loaded. A command of `stackctl.py` is a plan, the sequence of writes it
makes: `cmd_*` are the checks before the first one, `write_atomic`, `alter_role`,
`keyring_create`, `keyring_delete` and so on the steps, and `Interrupted` or
`StepFails` may come before each. `StartedBff` is `KeyRingOptionsValidator` and
`KeyRingStartupCheck`; Docker restarts the BFF whenever it likes; `CreateKey` wraps
a new key with the current certificate.

**`DeployGate`** (`assemble`, `scan`, `up`, `keyring prepare`, `realm rebuild`).
`clone` is the checked-out version of files and of policy (scanner, exceptions,
script), `stack` the folder with generated files, manifest, environment file and
`images.txt`, `result` the scan result, `job` the running command and the step it is
at. One tick is twelve hours, so `MAX_SCAN_AGE` is two. The gate operators
(`freshness_ok`, `manifest_ok`, `deploy_gate_ok`, `static_ok`, `docker_ok`) are the
code's; every command may end before each of its steps. Assumed, because the code
does: one operator runs one command at a time; the clone moves forward; nobody edits
between the gate of a starting command and its start (`EditsDuring` has only
`assemble` and `scan`); the bootstrap secret is retired while a realm with an
administrator exists and no rebuild runs, as the runbook has it (`cmd_secrets_retire`
does not check it, so `KeycloakHasAdmin` rests on it). Real accounts are made whenever
Keycloak runs, in the middle of a rebuild too.

**`ImageGate`** (`image_scan.py` on a pull request against a base). `main` is the
base's pins, exceptions, script and scanner; `severity` and `fixed` are what the
database says, `moved` the tags rebuilt upstream, `day` the date, `last` the mode of
the check that has just passed. `select_mode` chooses among the full scan, the
comparison of a change to the gate (`gate-change`), the changed images (`delta`) and
the validation of the exceptions alone; `evaluate`, `compare_alias`, `new_findings`
are the verdict; `Faults` are what may fail or be defective in one run.
`PassSchedule` is the nightly full scan. A pull request is merged when its run
passed.

**`ImagePipeline`** (`release_images.py` and `caddy_image.py`; a behaviour is of one
of them). `runs` are workflow runs with the outputs of their jobs, `attempts` the
builds; the content of an image is the number of the attempt that made it. Commands
go through the images in the script's order; `EndRun` may come before each step, a
signature may come without its attestation, and `Rerun` starts a run again from any
job it has reached. `compare_buildlists` with its closure `explained` is the
algorithm of the Caddy script; its inputs are the small build lists of the MC module.

`MC*` modules hold model values and symmetry sets; `*_proofs` hold the theorems.

## Runs

| Run | Checks | Bounds |
|---|---|---|
| `refresh_faults` | `NoResurrection`, `StoredTokensMoveForward`, `LockNeverStolen` under every fault but `norotate` | 2 requests, 1 logout, 3 tokens |
| `refresh_lock` | `LockExclusion`, `NoNeedlessRefresh`, `LockHolderSendsCurrentToken`, `FaultFreeSignOut` and the refinement of `AtomicSession`, when no update is lost; every request and logout is answered, the lock never stays taken; lock commands fail, instances die (not with a refresh at Keycloak under way), replies may come without rotation | 2 requests, 1 logout, 4 tokens |
| `tickets` | `IndexNamesOwnSid`, `EveryTicketIndexed`, `LostTicketsAreEnded`, `KeyIdentityStable`, under every fault | 2 requests, 1 back-channel call, 3 keys, 2 sids |
| `provisioning` | one Owner, no wrong refusal, sound gate, everyone answered, refinement of `TenantOwnership` | 3 requests, 2 users, 1 tenant |
| `entitlements` | the six properties of commands and evaluation | 3 commands, 1 evaluation, clock 0..1, trial of one tick |
| `tenant_scope` | `OwnRowsOnly`, `RowsKeepTheirTenant`, `HandlerRunsForSender` | 2 scopes, 1 message, 2 users (one with an unacceptable id), 2 tenants, 1 row key |
| `key_ring` | `NoLiveKeyStranded`, `RunningBffReadsItsRing`, `CleanChecksMeanBffStarts`, `RotationEndsAgreed` | 3 certificates, 2 values of each credential, 2 key files, 2 of the credentials |
| `deploy_gate` | `NoKnownVulnerableStart`, `KeycloakHasAdmin` | 2 versions of files and of policy, 1 release, 4 instants of 12 hours, 1 disclosure at any moment |
| `image_gate` | `RatchetHolds`, `ScannerNeverGoesBlind` | every pull request over small sets of pins, scripts, scanners and exceptions, 1 failing part |
| `image_pipeline` | `VerifiedWasInspected`, `ReleaseIsItsCommit`, `EveryDifferenceExplained` | 2 commits (the second after the release commit, with its version), 2 runs, 2 builds, 2 release images; build lists of 3 modules and 2 versions |
| `logout_overlap` | violated: `LogoutLeavesNoTicket` | as `tickets`, no faults |
| `half_rotation` | violated: `CheckNamesHalfRotation` | as `key_ring` |

The two violated properties are what a comment of the repository says; see Findings.

Type correctness is proved of eight modules, so no run repeats it.

Why the bounds are enough. The races are between two holders, or a holder and a
logout, so two requests and a logout meet in every order; a third generation of
tokens is what a stale write-back would need to go back to, and processes are
reused, so later requests meet the leftovers of earlier ones. Two sids and three
keys let a stale index entry, a live ticket and a fresh key of another sid exist at
once. Two users and three requests give an owner racing itself and a stranger.
Three commands are a row, a change and a second change; a clock of two instants
has an instant before, at and (`Never`) after every end. Scopes and messages are
reused too: two scopes are a sender and a receiver, or two tenants at one row, and
chains of messages have any length. Every `Max...` constant
is a bound on a counter, and a guard of the action that counts. Certificates: a
current, a previous and a next one are three generations. A stale scan result needs
a tick more than `MAX_SCAN_AGE`. Two runs and two builds are a replaced run and a
rebuilt archive; one image more than one shows a command that stopped between images.

`EveryTicketIndexed` names its exception, the tickets in `late`; `LostTicketsAreEnded`
says what the exception can cost: such a ticket is of a session Keycloak has ended.
`ScannerNeverGoesBlind` is about the modes that compare; the full mode, which compares
nothing, is the subject of an observation. Deadlock is checked in every run but `image_pipeline`, where the
bound on runs and builds may leave nothing to do.

## Fairness

`TokenRefresh`: weak fairness of each request's and each logout's own steps (the
thread pool runs them, every await has a time-out); of the 10 s deadline of the
wait for the lock, a timer that runs through both halves of the polling loop; and
of `LockExpires`, because Redis expires keys. No fairness of Keycloak, of crashes
or of the next request. `TenantProvisioning`: weak fairness of each request's
statements, strong fairness of `Insert`, because PostgreSQL queues the waiters of
a lock and wakes them when its holder ends.

## Proofs

All for any sets of requests, keys, sids, users and tenants and any `Faults`, and
for any value of the bounds. The assumptions are the `ASSUME`s of the modules: the
types of the constants, that the marks for "none" (`Free`, `Gone`, `NoRow`,
`NoWrite`, `NoTenant`...) are no values, that a trial lasts and fits the clock, that
there is a reason to give, that a release has an image. TLC evaluates them in the
runs. Each proof has an inductive invariant, from which the properties follow.

- `TokenRefresh_proofs`: type correctness; `NoResurrection` (only sign-in sets a
  ticket, and the write-back is conditional); `LockExclusion`, from
  `HandleOwnsLock` (who has a handle is the lock's value, if no TTL ends under a
  holder), because exclusion itself says nothing about who may release;
  `StoredTokensMoveForward` from `ForwardInv`: nothing anyone holds is newer than
  Keycloak's counters, and while a grant waits to be stored it is the only one and
  every other copy of a refresh token is older than the one Keycloak accepts, so
  nobody else can get a newer grant before it lands. The lock is not needed for it.
  `LockNeverStolen` needs only that a release deletes the key of its own value.
  `NoNeedlessRefresh` and `LockHolderSendsCurrentToken` are about the re-read under
  the lock: who works under the lock has a handle (`WorkHoldsLock`), and as long as no
  update is lost the stored refresh token, or the one of the grant that waits to be
  stored, is the one Keycloak accepts, and so is the one a holder sends (`SyncInv`).
  `FaultFreeSignOut` adds that a request on its way to sign out knows that the session
  is over (`OverInv`), which nothing undoes. From the same invariants
  `RefreshIsAtomic`: when `Faults` has no lost update, `Spec` implements
  `AtomicSession`, whose session is the ticket with the pending grant laid over it;
  the step that talks to Keycloak is the atomic refresh and the write-back a stutter.
- `TicketIndex_proofs`: type correctness, `IndexNamesOwnSid`,
  `EveryTicketIndexed`, `LostTicketsAreEnded`, `KeyIdentityStable`. The inductive
  invariant adds: behind
  the guard a callback has no cookie left, so it resumes no session
  (`GuardHolds`); sets, cookies and calls name minted keys only (`MintedOnly`); a
  remove that knows a sid knows the right one; a call that has read the members
  has them all but those stored since (`MembersComplete`), and those are of an ended
  session, because a logout token is only valid after the end (`LateAreEnded`).
- `TenantProvisioning_proofs`: type correctness, `OneOwner`,
  `OwnerNeverRefused`, `PassedGateIsMember`, and
  `Spec => ImplementsTenantOwnership`. The inductive invariant adds: at most one
  open transaction has inserted a given tenant (`OneInserter`); a tenant that was
  seen or lost to another exists, and one whose insert waits for its commit does
  not (`Working`); a refused request's tenant belongs to someone else.
- `TenantScope_proofs`: type correctness, `HandlerRunsForSender`, `OwnRowsOnly`,
  `RowsKeepTheirTenant`, for any sets of scopes, messages, users, tenants and keys.
  The inductive invariant adds: a caller that is set is the one the scope was opened
  for (`CallerIsOrigin`); an envelope that can be read says for whom its sender
  worked (`EnvelopeIsSender`), because the stamp overwrites and what goes around the
  stamp has no caller id.
- `Entitlements_proofs`: type correctness and all six properties, for any number of
  commands and evaluations, any clock and any trial length. The inductive invariant
  adds: a record is of a command that ended with success or a lost answer
  (`EndedInv`); at most one open transaction has written the override, and at most one
  the trial, and nobody changes the row meanwhile (`WriteInv`, `TrialInv`); a revoke
  about to delete read a row that is still there or was gone meanwhile (`RevokeInv`);
  an evaluation past its first read, of a tenant entitled so far, will find the trial
  active, because the override was not and a trial is never moved (`EvaluationInv`).
- `KeyRing_proofs`: type correctness, `RunningBffReadsItsRing`, `NoLiveKeyStranded`,
  `CleanChecksMeanBffStarts`, `RotationEndsAgreed`, for any credentials, any number of
  key files and any number of certificates. The plans of the commands are spelled out
  first; the inductive invariant then follows the four certificate files through every
  step of `init`, `add`, rotation and retirement (`PhaseInv`), says when the halves of a
  pair may disagree (`PasswordInv`, `TornInv`) and that a certificate which a live key
  or the running BFF needs will be in the folder whatever the command in progress still
  writes (`Held`, `HeldInv`): "some pair opens it now" is not inductive, because a
  rotation goes through a state in which only the command's own copy tells which
  certificate comes next.
- `DeployGate_proofs`: type correctness, `NoKnownVulnerableStart`,
  `KeycloakHasAdmin`, for any number of versions, releases, ticks
  and disclosures and any policy. The gate reads a result, so the inductive invariant
  says what a result means: a green one that still has the clone's policy lists images
  that became known after the scan or are excepted for as long as the result says
  (`ResultInv`). It holds because a scan's exceptions are never older than the policy
  it will write (`ScanInv`): a pull in between makes the result one of an older
  policy. `StartInv` carries the gate's verdict to the start. `RealmInv`: the
  bootstrap secret is there whenever the realm is not, and past its checks a rebuild
  meets no retired secret.
- `ImagePipeline_proofs`: type correctness, `VerifiedWasInspected`,
  `ReleaseIsItsCommit`, `EveryDifferenceExplained`, for any images, commits, trees,
  runs and builds. The inductive invariant (`RunOK`) says what a run has shown by the
  stage it stands at, so that a job which starts again finds the outputs it needs: an
  archive under inspection is the run's own, behind the inspection the outputs name a
  clean attempt of the run's commit, what was pushed is that attempt, and behind the
  verification everything is signed and attested. Build attempts only grow and stay
  clean (`Grows`), which carries it over the steps of other runs. What a certificate
  says is then true (`SignedInv`). `EveryDifferenceExplained` needs an induction over
  the passes of the comparison's loop: it is made with the least counterexample
  (`LeastNumber`, from the well-foundedness of `<` on `Nat`), once for the existence of
  the recursive function and once for what it contains (`ClosureIsLeast`).

Only model-checked: `EveryRequestAnswered` (of both modules) and
`LockEventuallyFree`, because liveness under fairness is out of the prover's reach;
and the two properties of `ImageGate`, which are not proved yet. The induction
principles of the library take an operator as a parameter and cannot be used; the
one induction over data, that of `explained`, is made by hand.

## Findings and observations

Two findings, each with a run of its own over the same module as the passing run;
`PROJECT.json` quotes the comments they contradict.

- `half_rotation`: a certificate rotation cut between the new certificate and its
  password leaves secrets that `check` accepts and the BFF refuses; the comment in
  `rotate_certificate` says `check` names every interruption.
- `logout_overlap`: a sign-in that stores its ticket between the two steps of a
  back-channel logout keeps it, in no index set; the comment says the logout deletes
  every ticket indexed under the sid (`LogoutLeavesNoTicket`). That such a ticket is of
  an ended session, so that it cannot be refreshed, is `LostTicketsAreEnded`.

Observations, without a run of their own. The models have the behaviour; TLC shows it
when the formula given is made a property of the run's module.

1. A failed Redis read under the lock is taken for "the ticket is gone", and the
   middleware then deletes a good session, though a transient failure is documented to
   keep it: `SignOutOnlyWhenOver` with `Faults = {"read"}`.
2. When the lock's TTL ends between Keycloak's rotation and the write-back, the second
   holder's re-read after `invalid_grant` still shows the old token and ends a good
   session; the comment says the re-read tells the cases apart: `SignOutOnlyWhenOver`
   with `Faults = {"ttl"}`.
3. Of two concurrent re-grants the second to commit leaves the first one's expiry in
   place when it asks for the expiry it had read, because EF Core writes only the
   columns that differ; the module's document says the last writer wins. In
   `Entitlements`: a grant whose `verdict` becomes `"ok"` leaves `row'.exp` as asked.
4. A real account made after `realm rebuild` has counted the users (`stackctl.py:1600`)
   and before it stops Keycloak (1610) is dropped with the database; the docstring says
   the command is allowed only while every user is synthetic. In `DeployGate`:
   `[][keycloak.realUser => keycloak'.realUser]_vars`.
5. The full mode of `image_scan.py`, which every doubt leads to, scans the new side
   only: a change of the gate that comes with an unclassified path is not compared with
   the gate it replaces, though the comment at `image_scan.py:49` says the comparison
   scans both sides. In `ImageGate`: `ScannerNeverGoesBlind` without `last' = "full"`.

## Not modelled

Wall-clock durations (time-outs and TTLs are events that may come at any time);
Redis losing data; writes whose caller gave up and that Redis applies later; the
contents of cookies, tokens and claims; HTTP bodies and headers; telemetry; more
than one feature or tenant in `Entitlements`; catalog lookups; two operators of one
stack; the rules on one rendered configuration, container, Dockerfile, archive, SBOM
or report beyond "there is a problem of this kind"; races inside GitHub, the registry
or Sigstore. The other
components of the inventory are not modelled yet; `PROJECT.json` says of each why
or in which module it is planned.

## Plan

1. Done: `TokenRefresh`, `AtomicSession`, `TicketIndex`, `TenantProvisioning`,
   `TenantOwnership`, `Entitlements`, `TenantScope`, `KeyRing`, `DeployGate`,
   `ImageGate`, `ImagePipeline`; the proofs named above.
2. Proofs: `RatchetHolds` and `ScannerNeverGoesBlind` of
   `ImageGate`, which are about one run of the gate over all pull requests.
3. Then `Migrator`, `MoneyAllocate` (against a reference definition), `SpaSession`,
   `RateLimiter`.
