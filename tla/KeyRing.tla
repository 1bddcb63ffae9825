------------------------------ MODULE KeyRing ------------------------------
(***************************************************************************)
(* The secret files of the production stack and the Data Protection key    *)
(* ring of the BFF (deploy/compose/stackctl.py, stackguards.py and         *)
(* src/Decisya.Bff/KeyRing).                                               *)
(*                                                                         *)
(* `stackctl secrets init | add | rotate | retire` writes the files one    *)
(* after the other, each by an atomic rename; the process can die between  *)
(* two of them, and nothing is journalled.  `stackctl keyring prepare |    *)
(* reset` and `up` work on the volume of the key files.  Meanwhile the BFF *)
(* may run with the certificates it read when it started, wrap new keys    *)
(* with the current one, and be restarted by Docker at any moment.         *)
(*                                                                         *)
(* A credential is its number; Absent means no file and Empty an empty     *)
(* file.  PKCS#12 number n opens with password number n only.              *)
(***************************************************************************)
EXTENDS Integers, Sequences, FiniteSets

CONSTANTS Logicals,  \* the credentials besides the certificate
          MaxCerts,  \* certificates generated (bound)
          MaxGen,    \* values generated of every other credential (bound)
          Slots      \* names of key files in the volume (bound)

Absent == -1
Empty == 0
DP_LOGICAL == "dataprotection_cert"
AllLogicals == {"migrator_db", "redis", "keycloak_bootstrap"}

ASSUME KeyRingAssumption ==
    /\ Logicals \subseteq AllLogicals
    /\ MaxCerts \in Nat \ {0}
    /\ MaxGen \in 1 .. MaxCerts

VARIABLES
    file,    \* the secrets folder: file name -> Absent, Empty or a number
    gen,     \* credential -> how many values were generated
    role,    \* the password of the migrator's role in Postgres (Empty: no database yet)
    job,     \* the stackctl command that is running
    volume,  \* the key-ring volume: exists, owner and modes prepared, odd entries
    key,     \* slot -> the key file in it
    bff,     \* the BFF process: running, and the certificates it loaded
    forced,  \* an operator gave up a certificate that live keys still need
    torn     \* a rotation was cut between the new certificate and its password

vars == <<file, gen, role, job, volume, key, bff, forced, torn>>

------------------------------------------------------------------------------
(* Files, credentials and their shapes *)

DP_SECRETS == {"cert", "certPw", "prev", "prevPw"}

\* The source file first, the file derived from it second, as the dict of the code.
FilesOf(l) == CASE l = "migrator_db"        -> <<"dbPw", "dbConn">>
                [] l = "redis"              -> <<"redisAcl", "redisConn">>
                [] l = "keycloak_bootstrap" -> <<"bootstrap">>

Range2(s) == {s[i] : i \in DOMAIN s}
SECRET_FILE_NAMES == DP_SECRETS \cup UNION {Range2(FilesOf(l)) : l \in Logicals}
Number == 0 .. MaxCerts
Bound(l) == IF l = DP_LOGICAL THEN MaxCerts ELSE MaxGen

\* A write in a plan: file name and content.  Every file of a credential carries the same value.
Write(f, v) == [op |-> "write", name |-> f, val |-> v]
files_for(l, n) ==
    IF l = DP_LOGICAL
    THEN <<Write("cert", n), Write("certPw", n), Write("prev", Empty), Write("prevPw", Empty)>>
    ELSE [i \in DOMAIN FilesOf(l) |-> Write(FilesOf(l)[i], n)]

\* Only the previous pair and the bootstrap password may be empty.
shape_ok(f, v) ==
    /\ v # Absent
    /\ v = Empty => f \in {"prev", "prevPw", "bootstrap"}

\* Mutant of derived_ok: the previous certificate is not compared with the current one.
DerivedOkPairsOnly(f) ==
    /\ \A l \in Logicals : \A i, j \in DOMAIN FilesOf(l) : f[FilesOf(l)[i]] = f[FilesOf(l)[j]]
    /\ (f["prev"] = Empty) <=> (f["prevPw"] = Empty)

derived_ok(f) ==
    /\ \A l \in Logicals : \A i, j \in DOMAIN FilesOf(l) : f[FilesOf(l)[i]] = f[FilesOf(l)[j]]
    /\ (f["prev"] = Empty) <=> (f["prevPw"] = Empty)
    /\ f["prev"] # Empty => f["prev"] # f["cert"]

\* `check` finds nothing to say about the secrets.
secrets_clean(f) ==
    /\ \A n \in SECRET_FILE_NAMES : shape_ok(n, f[n])
    /\ derived_ok(f)

------------------------------------------------------------------------------
(* Key files *)

\* What a key file's text holds, as the patterns of the rule see it.
Text(kind) ==
    [plain   |-> kind \in {"clear", "nullwrapped"},
     secrets |-> IF kind \in {"wrapped", "nullwrapped"} THEN 1 ELSE 0,
     certDecryptor |-> kind = "wrapped"]

\* One rule in Python, in the shell of the one-shot containers and in the BFF.
keyring_rule_ok(kind) ==
    LET t == Text(kind) IN
    /\ ~t.plain
    /\ IF t.secrets = 0 THEN kind = "revocation" ELSE t.secrets = 1 /\ t.certDecryptor

NoKey == [kind |-> "none", cert |-> Empty, live |-> FALSE]
KeyFile == [kind : {"none", "clear", "nullwrapped", "wrapped", "revocation"},
            cert : Number, live : BOOLEAN]
Present == {s \in Slots : key[s].kind # "none"}

\* The counts of the read-only `verify` container that make a problem.
keyring_clean ==
    /\ ~volume.odd
    /\ \A s \in Present : keyring_rule_ok(key[s].kind)
    /\ volume.prepared

------------------------------------------------------------------------------
(* The BFF *)

\* The certificate a pair of files yields, if the password opens the PKCS#12.
TryLoad(c, p) == IF c > Empty /\ c = p THEN c ELSE Empty

Stopped == [up |-> FALSE, cur |-> Empty, prev |-> Empty]

OptionsValid(f) ==
    /\ TryLoad(f["cert"], f["certPw"]) # Empty
    /\ (f["prev"] = Empty) <=> (f["prevPw"] = Empty)
    /\ f["prev"] # Empty =>
          /\ TryLoad(f["prev"], f["prevPw"]) # Empty
          /\ f["prev"] # f["cert"]

Unwraps(cur, prev, s) == key[s].kind = "wrapped" /\ key[s].cert \in {cur, prev} \ {Empty}

\* Mutant of StartupCheck: only the live keys are looked at, not every file.
StartupCheckLiveOnly(cur, prev) ==
    /\ volume.exists /\ volume.prepared
    /\ \A s \in Present : key[s].live => key[s].kind # "wrapped" \/ Unwraps(cur, prev, s)

StartupCheck(cur, prev) ==
    /\ volume.exists /\ volume.prepared
    /\ \A s \in Present : key[s].live => key[s].kind # "wrapped" \/ Unwraps(cur, prev, s)
    /\ \A s \in Present : keyring_rule_ok(key[s].kind)

\* Docker mounts every secret file, so each must exist; the host starts only when the options
\* validate and the check passes, and exits otherwise.
StartedBff(f) ==
    LET cur == TryLoad(f["cert"], f["certPw"])
        prev == TryLoad(f["prev"], f["prevPw"]) IN
    IF /\ \A n \in DP_SECRETS : f[n] # Absent
       /\ OptionsValid(f)
       /\ StartupCheck(cur, prev)
    THEN [up |-> TRUE, cur |-> cur, prev |-> prev]
    ELSE Stopped

------------------------------------------------------------------------------
(* Commands: a plan of steps, of which the process runs one at a time *)

Idle == [cmd |-> "idle", at |-> 0, what |-> "none", old |-> Empty, oldPw |-> Empty]
Do(op) == [op |-> op, name |-> "none", val |-> Empty]

InitPlan ==
    LET W(l) == files_for(l, gen[l])
        Db == IF "migrator_db" \in Logicals THEN W("migrator_db") ELSE <<>>
        Boot == IF "keycloak_bootstrap" \in Logicals THEN W("keycloak_bootstrap") ELSE <<>>
        Redis == IF "redis" \in Logicals THEN W("redis") ELSE <<>>
    IN Db \o Boot \o Redis \o W(DP_LOGICAL)

\* Mutant of RotatePlan: the new pair first, then the old one.
RotatePlanCurrentFirst(j) ==
    <<Write("cert", gen[DP_LOGICAL]), Write("certPw", gen[DP_LOGICAL]),
      Write("prev", j.old), Write("prevPw", j.oldPw)>>

RotatePlan(j) ==
    <<Write("prev", j.old), Write("prevPw", j.oldPw),
      Write("cert", gen[DP_LOGICAL]), Write("certPw", gen[DP_LOGICAL])>>

\* Mutant of RotateDbPlan: the files first, then the role.
RotateDbPlanFilesFirst(l) == files_for(l, gen[l]) \o <<Do("alterRole")>>

RotateDbPlan(l) == <<Do("alterRole")>> \o files_for(l, gen[l])

Plan(j) ==
    CASE j.cmd = "init"       -> InitPlan
      [] j.cmd = "add"        -> files_for(DP_LOGICAL, gen[DP_LOGICAL])
      [] j.cmd = "rotateCert" -> RotatePlan(j)
      [] j.cmd = "rotate"     -> files_for(j.what, gen[j.what])
      [] j.cmd = "rotateDb"   -> RotateDbPlan(j.what)
      [] j.cmd = "retirePrev" -> <<Write("prev", Empty), Write("prevPw", Empty)>>
      [] j.cmd = "retireBoot" -> <<Write("bootstrap", Empty)>>
      [] j.cmd = "prepare"    -> <<Do("createVolume"), Do("prepare")>>
      [] j.cmd = "reset"      -> <<Do("stop"), Do("delete"), Do("prepare")>>
      [] j.cmd = "resetAll"   -> <<Do("stop"), Do("deleteAll"), Do("prepare")>>
      [] j.cmd = "up"         -> <<Do("createVolume"), Do("prepare"), Do("start")>>

Begin(cmd, what, old, oldPw) ==
    /\ job.cmd = "idle"
    /\ job' = [cmd |-> cmd, at |-> 1, what |-> what, old |-> old, oldPw |-> oldPw]

\* A fresh value of credential l: its number is the next one.
Generate(l) ==
    /\ gen[l] < Bound(l)
    /\ gen' = [gen EXCEPT ![l] = @ + 1]

cmd_secrets_init ==
    /\ \A f \in SECRET_FILE_NAMES : file[f] = Absent
    /\ \A l \in DOMAIN gen : gen[l] < Bound(l)
    /\ gen' = [l \in DOMAIN gen |-> gen[l] + 1]
    /\ Begin("init", "none", Empty, Empty)
    /\ UNCHANGED <<file, role, volume, key, bff, forced, torn>>

\* On a stack that has the other secrets; refused when any of the four files exists.
cmd_secrets_add ==
    /\ \E f \in SECRET_FILE_NAMES : file[f] # Absent
    /\ \A f \in DP_SECRETS : file[f] = Absent
    /\ Generate(DP_LOGICAL)
    /\ Begin("add", "none", Empty, Empty)
    /\ UNCHANGED <<file, role, volume, key, bff, forced, torn>>

\* A live key needs certificate c, or the running BFF will wrap the next one with it.
Needed(c) == \/ \E s \in Present : key[s].kind = "wrapped" /\ key[s].live /\ key[s].cert = c
             \/ bff.up /\ bff.cur = c

rotate_certificate(dropPrevious) ==
    /\ \A f \in DP_SECRETS : shape_ok(f, file[f])
    /\ (file["prev"] = Empty) <=> (file["prevPw"] = Empty)
    /\ file["prev"] # Empty => dropPrevious
    /\ Generate(DP_LOGICAL)
    /\ Begin("rotateCert", "none", file["cert"], file["certPw"])
    /\ forced' = (forced \/ (file["prev"] \notin {Empty, file["cert"]} /\ Needed(file["prev"])))
    /\ UNCHANGED <<file, role, volume, key, bff, torn>>

\* --apply-db alters the role first; --files-only, and the other credentials, only write files.
cmd_secrets_rotate(l, applyDb) ==
    /\ applyDb => l = "migrator_db"
    /\ \A f \in Range2(FilesOf(l)) : file[f] # Absent
    /\ Generate(l)
    /\ Begin(IF applyDb THEN "rotateDb" ELSE "rotate", l, Empty, Empty)
    /\ UNCHANGED <<file, role, volume, key, bff, forced, torn>>

\* Nothing to do when both files are empty already.
retire_previous_certificate ==
    /\ file["prev"] # Absent /\ file["prevPw"] # Absent
    /\ ~(file["prev"] = Empty /\ file["prevPw"] = Empty)
    /\ Begin("retirePrev", "none", Empty, Empty)
    /\ forced' = (forced \/ (file["prev"] \notin {Empty, file["cert"]} /\ Needed(file["prev"])))
    /\ UNCHANGED <<file, gen, role, volume, key, bff, torn>>

cmd_secrets_retire ==
    /\ "keycloak_bootstrap" \in Logicals
    /\ file["bootstrap"] # Absent
    /\ Begin("retireBoot", "none", Empty, Empty)
    /\ UNCHANGED <<file, gen, role, volume, key, bff, forced, torn>>

cmd_keyring_prepare ==
    /\ Begin("prepare", "none", Empty, Empty)
    /\ UNCHANGED <<file, gen, role, volume, key, bff, forced, torn>>

cmd_keyring_reset(allKeys) ==
    /\ volume.exists
    /\ Begin(IF allKeys THEN "resetAll" ELSE "reset", "none", Empty, Empty)
    /\ UNCHANGED <<file, gen, role, volume, key, bff, forced, torn>>

\* `up` refuses while the static checks, the secrets among them, find a problem.
cmd_up ==
    /\ secrets_clean(file)
    /\ Begin("up", "none", Empty, Empty)
    /\ UNCHANGED <<file, gen, role, volume, key, bff, forced, torn>>

------------------------------------------------------------------------------
(* One step of the running command *)

Advance == job' = IF job.at = Len(Plan(job)) THEN Idle ELSE [job EXCEPT !.at = @ + 1]
Step(op) == job.cmd # "idle" /\ Plan(job)[job.at].op = op

write_atomic ==
    /\ Step("write")
    /\ file' = [file EXCEPT ![Plan(job)[job.at].name] = Plan(job)[job.at].val]
    /\ Advance
    /\ UNCHANGED <<gen, role, volume, key, bff, forced, torn>>

alter_role ==
    /\ Step("alterRole")
    /\ role # Empty
    /\ role' = gen["migrator_db"]
    /\ Advance
    /\ UNCHANGED <<file, gen, volume, key, bff, forced, torn>>

\* Compose creates the volume when it does not exist; Docker's default owner and modes.
keyring_create ==
    /\ Step("createVolume")
    /\ volume' = IF volume.exists THEN volume ELSE [exists |-> TRUE, prepared |-> FALSE, odd |-> FALSE]
    /\ Advance
    /\ UNCHANGED <<file, gen, role, key, bff, forced, torn>>

\* Refused, and nothing changed, when the volume is gone or holds an odd entry.
keyring_prepare ==
    /\ Step("prepare")
    /\ volume.exists /\ ~volume.odd
    /\ volume' = [volume EXCEPT !.prepared = TRUE]
    /\ Advance
    /\ UNCHANGED <<file, gen, role, key, bff, forced, torn>>

stop_bff ==
    /\ Step("stop")
    /\ bff' = Stopped
    /\ Advance
    /\ UNCHANGED <<file, gen, role, volume, key, forced, torn>>

\* Deletes the key files that fail the rule; with --all-keys every key file.
keyring_delete ==
    /\ job.cmd \in {"reset", "resetAll"}
    /\ Plan(job)[job.at].op \in {"delete", "deleteAll"}
    /\ volume.exists /\ ~volume.odd
    /\ key' = [s \in Slots |->
                 IF Plan(job)[job.at].op = "delete" /\ keyring_rule_ok(key[s].kind)
                 THEN key[s] ELSE NoKey]
    /\ Advance
    /\ UNCHANGED <<file, gen, role, volume, bff, forced, torn>>

\* `compose up -d`: a BFF that runs keeps running, one that does not is started; the database
\* is initialised on its first start with the password of that moment.
compose_up ==
    /\ Step("start")
    /\ bff' = IF bff.up THEN bff ELSE StartedBff(file)
    /\ role' = IF role = Empty /\ "migrator_db" \in Logicals THEN file["dbPw"] ELSE role
    /\ Advance
    /\ UNCHANGED <<file, gen, volume, key, forced, torn>>

\* A step that Docker or psql fails raises StackError: the command ends where it is.
StepFails ==
    /\ job.cmd # "idle"
    /\ Plan(job)[job.at].op # "write"
    /\ job' = Idle
    /\ UNCHANGED <<file, gen, role, volume, key, bff, forced, torn>>

\* The process is killed, or the NAS loses power, between two steps.
Interrupted ==
    /\ job.cmd # "idle"
    /\ job' = Idle
    /\ torn' = (torn \/ (job.cmd = "rotateCert" /\ job.at = 4))
    /\ UNCHANGED <<file, gen, role, volume, key, bff, forced>>

------------------------------------------------------------------------------
(* The BFF and the operator beside stackctl *)

\* Docker starts or restarts the container: no check of stackctl stands before it.
RestartBff ==
    /\ bff' = StartedBff(file)
    /\ UNCHANGED <<file, gen, role, job, volume, key, forced, torn>>

StopBff ==
    /\ bff.up
    /\ bff' = Stopped
    /\ UNCHANGED <<file, gen, role, job, volume, key, forced, torn>>

\* The framework writes a new key, wrapped with the certificate of this process.
CreateKey(s) ==
    /\ bff.up
    /\ key[s].kind = "none"
    /\ key' = [key EXCEPT ![s] = [kind |-> "wrapped", cert |-> bff.cur, live |-> TRUE]]
    /\ UNCHANGED <<file, gen, role, job, volume, bff, forced, torn>>

\* Ninety days and ten hours pass: no session of the key is left.
ExpireKey(s) ==
    /\ key[s].live
    /\ key' = [key EXCEPT ![s] = [kind |-> key[s].kind, cert |-> key[s].cert, live |-> FALSE]]
    /\ UNCHANGED <<file, gen, role, job, volume, bff, forced, torn>>

\* "a half-written set is the operator's to remove": init or add stopped half way.
RemoveHalfWritten ==
    /\ job.cmd = "idle"
    /\ \E fs \in {DP_SECRETS, SECRET_FILE_NAMES} :
          /\ \E f \in fs : file[f] = Absent
          /\ \E f \in fs : file[f] # Absent
          /\ \E f \in DP_SECRETS : file[f] = Absent
          /\ file' = [f \in SECRET_FILE_NAMES |-> IF f \in fs THEN Absent ELSE file[f]]
    /\ UNCHANGED <<gen, role, job, volume, key, bff, forced, torn>>

\* `down --volumes`, or the operator removes the volume: the ring is gone with it.
RemoveVolume ==
    /\ volume.exists /\ ~bff.up
    /\ volume' = [exists |-> FALSE, prepared |-> FALSE, odd |-> FALSE]
    /\ key' = [s \in Slots |-> NoKey]
    /\ UNCHANGED <<file, gen, role, job, bff, forced, torn>>

------------------------------------------------------------------------------
NoVolume == [exists |-> FALSE, prepared |-> FALSE, odd |-> FALSE]

\* A new stack, or one of before the certificate: its ring is in clear.
Init ==
    /\ job = Idle /\ bff = Stopped /\ forced = FALSE /\ torn = FALSE
    /\ \/ /\ file = [f \in SECRET_FILE_NAMES |-> Absent]
          /\ gen = [l \in Logicals \cup {DP_LOGICAL} |-> 0]
          /\ role = Empty
          /\ volume = NoVolume
          /\ key = [s \in Slots |-> NoKey]
       \/ /\ file = [f \in SECRET_FILE_NAMES |-> IF f \in DP_SECRETS THEN Absent ELSE 1]
          /\ gen = [l \in Logicals \cup {DP_LOGICAL} |-> IF l = DP_LOGICAL THEN 0 ELSE 1]
          /\ role = IF "migrator_db" \in Logicals THEN 1 ELSE Empty
          /\ \E odd \in BOOLEAN : volume = [exists |-> TRUE, prepared |-> FALSE, odd |-> odd]
          /\ \E k \in {"clear", "nullwrapped"} : \E s \in Slots :
                key = [t \in Slots |-> IF t = s THEN [kind |-> k, cert |-> Empty, live |-> TRUE] ELSE NoKey]

Next ==
    \/ cmd_secrets_init
    \/ cmd_secrets_add
    \/ \E drop \in BOOLEAN : rotate_certificate(drop)
    \/ \E l \in Logicals, db \in BOOLEAN : cmd_secrets_rotate(l, db)
    \/ retire_previous_certificate
    \/ cmd_secrets_retire
    \/ cmd_keyring_prepare
    \/ \E all \in BOOLEAN : cmd_keyring_reset(all)
    \/ cmd_up
    \/ write_atomic
    \/ alter_role
    \/ keyring_create
    \/ keyring_prepare
    \/ stop_bff
    \/ keyring_delete
    \/ compose_up
    \/ StepFails
    \/ Interrupted
    \/ RestartBff
    \/ StopBff
    \/ \E s \in Slots : CreateKey(s) \/ ExpireKey(s)
    \/ RemoveHalfWritten
    \/ RemoveVolume

Spec == Init /\ [][Next]_vars

------------------------------------------------------------------------------
(* Properties *)

Content == Number \cup {Absent}

Commands == {"idle", "init", "add", "rotateCert", "rotate", "rotateDb", "retirePrev", "retireBoot",
             "prepare", "reset", "resetAll", "up"}

\* Every variable has its type; a command in progress stands at a step of its plan.
TypeOK ==
    /\ file \in [SECRET_FILE_NAMES -> Content]
    /\ gen \in [Logicals \cup {DP_LOGICAL} -> Number]
    /\ role \in Number
    /\ volume \in [exists : BOOLEAN, prepared : BOOLEAN, odd : BOOLEAN]
    /\ key \in [Slots -> KeyFile]
    /\ bff \in [up : BOOLEAN, cur : Number, prev : Number]
    /\ forced \in BOOLEAN /\ torn \in BOOLEAN
    /\ job \in [cmd : Commands, at : Nat, what : Logicals \cup {"none"}, old : Number, oldPw : Number]
    /\ job.cmd # "idle" => job.at \in 1 .. Len(Plan(job))
    /\ job.cmd \in {"rotate", "rotateDb"} => job.what \in Logicals
    /\ job.cmd = "rotateDb" => job.what = "migrator_db"
    /\ job.cmd = "retireBoot" => "keycloak_bootstrap" \in Logicals

Opens(c) == \/ file["cert"] = c /\ file["certPw"] = c
            \/ file["prev"] = c /\ file["prevPw"] = c

\* As long as no operator dropped or retired a previous certificate that was still needed, the
\* secrets folder holds, at every instant of every command and after every interruption, a pair
\* that opens the certificate of every live key: no rotation strands a session.
NoLiveKeyStranded ==
    ~forced =>
        \A s \in Slots : key[s].kind = "wrapped" /\ key[s].live => Opens(key[s].cert)

\* A BFF that runs reads every live key of the ring it writes to, and the ring holds nothing
\* that is not wrapped: the start-up check cannot be undone by what stackctl does meanwhile.
RunningBffReadsItsRing ==
    bff.up => /\ \A s \in Present : keyring_rule_ok(key[s].kind)
              /\ \A s \in Present : key[s].kind = "wrapped" /\ key[s].live =>
                                       key[s].cert \in {bff.cur, bff.prev} \ {Empty}

\* Every interruption but one is named: unless a rotation was once cut between the new certificate
\* and its password, or a needed certificate was given up, a clean `check` of the secrets and a
\* clean `verify` of the volume with no command running mean that the BFF starts.
CleanChecksMeanBffStarts ==
    (/\ job.cmd = "idle" /\ ~torn /\ ~forced
     /\ secrets_clean(file)
     /\ volume.exists /\ keyring_clean) => StartedBff(file).up

\* "an interruption leaves the same certificate in both places, which `check` names": with no
\* command running, secrets that `check` accepts are secrets the BFF accepts.
CheckNamesHalfRotation ==
    (job.cmd = "idle" /\ secrets_clean(file)) => OptionsValid(file)

\* A database rotation that runs to its end leaves role, password file and connection string on
\* one value, whatever an earlier rotation that was cut short left behind.
RotationEndsAgreed ==
    [][ (job.cmd = "rotateDb" /\ file["dbConn"] # file'["dbConn"]) =>
          role' = file'["dbPw"] /\ file'["dbPw"] = file'["dbConn"] ]_vars
=============================================================================
