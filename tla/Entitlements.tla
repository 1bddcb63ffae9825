---------------------------- MODULE Entitlements ----------------------------
(***************************************************************************)
(* The admin commands on one tenant's entitlements (GrantOverrideHandler,  *)
(* RevokeOverrideHandler, StartTrialHandler with AuditWriter) and the      *)
(* evaluation that reads them (EntitlementService), for one feature that   *)
(* is not in the Free plan.                                                *)
(*                                                                         *)
(* Each command is one PostgreSQL transaction under READ COMMITTED: every  *)
(* statement sees what is committed, a write of a row or of a unique key   *)
(* that another open transaction has written waits for it to end, and EF   *)
(* Core's savepoint undoes a failed SaveChanges alone.  An UPDATE names    *)
(* the columns whose value differs from what was read, and its row by id.  *)
(***************************************************************************)
EXTENDS Naturals

CONSTANTS Commands,     \* admin commands, each runs once
          Evaluators,   \* concurrent IsEnabledAsync calls
          Reasons,      \* reasons an admin may give
          NoRow,        \* no override (or no trial) in the table
          NoWrite,      \* the transaction has written nothing
          MaxTime,      \* bound on the clock
          TrialLength   \* 14 days, in ticks of the clock

ASSUME TimeAssumption == MaxTime \in Nat /\ TrialLength \in Nat \ {0}
ASSUME TrialFits == TrialLength <= MaxTime

(* An override without an expiry outlasts the clock.                       *)
Never == MaxTime + 1
Time == 0..MaxTime
Expiries == Time \cup {Never}

VARIABLES
  now,           \* the clock
  tenantExists,  \* Tenancy has the target tenant's row
  row,           \* the tenant's override of the feature, NoRow if none
  trial,         \* when the tenant's trial started, NoRow if it did not
  audit,         \* commands with a committed audit record
  pc,            \* where each command is
  asked,         \* the command itself: kind, reason, exp, and its instant
  seen,          \* the override the command's last read returned
  pend,          \* what its open transaction wrote over the override
  verdict,       \* the command's outcome
  epc, at, answer,  \* each evaluation: where it is, its instant, its result
  absent,        \* history: no override was committed at some time in c
  always, once   \* history: entitled throughout, at some time in e

command == <<pc, asked, seen, pend, verdict>>
tables == <<row, trial, audit>>
evaluation == <<epc, at, answer>>
history == <<absent, always, once>>
vars == <<now, tenantExists, tables, command, evaluation, history>>

Kinds == {"grant", "revoke", "trial"}
Asked == [kind : Kinds, reason : Reasons, exp : Expiries, at : Time]
Overrides == [id : Commands, reason : Reasons, exp : Expiries, granted : Time]
Steps == {"new", "exists", "read", "write", "reread", "rewrite", "audit",
          "commit", "done"}

ASSUME NullAssumption ==
  /\ NoRow \notin Overrides /\ NoRow \notin Time
  /\ NoWrite \notin Overrides /\ NoWrite # NoRow
ASSUME ReasonsAssumption == Reasons # {}

(* Rows are overrides, a transaction's write is a row, a deletion or       *)
(* nothing, and every command and evaluation stands at one of its steps.   *)
TypeOK ==
  /\ now \in Time
  /\ tenantExists \in BOOLEAN
  /\ row \in Overrides \cup {NoRow}
  /\ trial \in Time \cup {NoRow}
  /\ audit \subseteq Commands
  /\ pc \in [Commands -> Steps]
  /\ asked \in [Commands -> Asked]
  /\ seen \in [Commands -> Overrides \cup {NoRow}]
  /\ pend \in [Commands -> Overrides \cup {NoRow, NoWrite}]
  /\ verdict \in [Commands -> {"none", "ok", "refused", "notFound",
                               "trialUsed", "conflict", "error"}]
  /\ epc \in [Evaluators -> {"idle", "override", "trial"}]
  /\ at \in [Evaluators -> Time]
  /\ answer \in [Evaluators -> {"none", "enabled", "disabled"}]
  /\ absent \in [Commands -> BOOLEAN]
  /\ always \in [Evaluators -> BOOLEAN]
  /\ once \in [Evaluators -> BOOLEAN]

Unasked == [kind |-> "revoke", reason |-> CHOOSE r \in Reasons : TRUE,
            exp |-> 0, at |-> 0]

Init ==
  /\ now = 0
  /\ tenantExists = FALSE
  /\ row = NoRow
  /\ trial = NoRow
  /\ audit = {}
  /\ pc = [c \in Commands |-> "new"]
  /\ asked = [c \in Commands |-> Unasked]
  /\ seen = [c \in Commands |-> NoRow]
  /\ pend = [c \in Commands |-> NoWrite]
  /\ verdict = [c \in Commands |-> "none"]
  /\ epc = [e \in Evaluators |-> "idle"]
  /\ at = [e \in Evaluators |-> 0]
  /\ answer = [e \in Evaluators |-> "none"]
  /\ absent = [c \in Commands |-> FALSE]
  /\ always = [e \in Evaluators |-> FALSE]
  /\ once = [e \in Evaluators |-> FALSE]

-----------------------------------------------------------------------------
Goto(c, step) == pc' = [pc EXCEPT ![c] = step]

(* The command is over; an open transaction is rolled back.                *)
End(c, v) ==
  /\ Goto(c, "done")
  /\ verdict' = [verdict EXCEPT ![c] = v]
  /\ pend' = [pend EXCEPT ![c] = NoWrite]

(* The caller is no platform admin or unknown, or the command is invalid.  *)
Refuse(c) ==
  /\ pc[c] = "new"
  /\ End(c, "refused")
  /\ UNCHANGED <<now, tenantExists, tables, asked, seen, evaluation>>

ExpiryInFuture(e) == e > now

StartGrant(c) ==
  /\ pc[c] = "new"
  /\ \E reason \in Reasons, e \in Expiries :
       /\ ExpiryInFuture(e)
       /\ asked' = [asked EXCEPT ![c] =
            [kind |-> "grant", reason |-> reason, exp |-> e, at |-> now]]
  /\ Goto(c, "exists")
  /\ UNCHANGED <<now, tenantExists, tables, seen, pend, verdict, evaluation>>

StartRevoke(c) ==
  /\ pc[c] = "new"
  /\ asked' = [asked EXCEPT ![c].kind = "revoke"]
  /\ Goto(c, "exists")
  /\ UNCHANGED <<now, tenantExists, tables, seen, pend, verdict, evaluation>>

StartTrial(c) ==
  /\ pc[c] = "new"
  /\ asked' = [asked EXCEPT ![c].kind = "trial"]
  /\ Goto(c, "exists")
  /\ UNCHANGED <<now, tenantExists, tables, seen, pend, verdict, evaluation>>

TargetExists == tenantExists

(* ITenantExistence.ExistsAsync; a trial takes its instant after it.       *)
CheckTenant(c) ==
  /\ pc[c] = "exists"
  /\ \/ /\ TargetExists
        /\ Goto(c, "read")
        /\ asked' = [asked EXCEPT ![c].at =
                       IF asked[c].kind = "trial" THEN now ELSE @]
        /\ UNCHANGED <<pend, verdict>>
     \/ /\ ~TargetExists
        /\ End(c, "notFound")
        /\ UNCHANGED asked
  /\ UNCHANGED <<now, tenantExists, tables, seen, evaluation>>

-----------------------------------------------------------------------------
(* The transaction begins and reads the override.                          *)
ReadOverride(c) ==
  /\ pc[c] = "read" /\ asked[c].kind # "trial"
  /\ seen' = [seen EXCEPT ![c] = row]
  /\ \/ asked[c].kind = "revoke" /\ row = NoRow /\ Goto(c, "audit")
     \/ (asked[c].kind = "grant" \/ row # NoRow) /\ Goto(c, "write")
  /\ UNCHANGED <<now, tenantExists, tables, asked, pend, verdict, evaluation>>

(* No other open transaction has written the override's row or key.        *)
OverrideFree(c) == \A q \in Commands \ {c} : pend[q] = NoWrite

(* Mutant of SameRow: the row must also be unchanged since the read.       *)
SameVersion(old) == row = old
(* The WHERE clause of an UPDATE or DELETE: the row read, by its id.       *)
SameRow(old) == row # NoRow /\ row.id = old.id

NewOverride(c) ==
  [id |-> c, reason |-> asked[c].reason, exp |-> asked[c].exp,
   granted |-> asked[c].at]

Pick(old, new, stored) == IF new = old THEN stored ELSE new

(* FeatureOverride.Replace, saved: a column whose new value is the one     *)
(* that was read is not in the UPDATE and stays as it is stored.           *)
Replace(c) ==
  [row EXCEPT !.reason = Pick(seen[c].reason, asked[c].reason, @),
              !.exp = Pick(seen[c].exp, asked[c].exp, @),
              !.granted = Pick(seen[c].granted, asked[c].at, @)]

(* ck_feature_overrides_expiry.                                            *)
CheckExpiry(o) == o.exp > o.granted

(* UpsertAsync when its read found nothing: INSERT.  A unique violation is *)
(* caught once and everything read again.                                  *)
GrantInsert(c) ==
  /\ pc[c] \in {"write", "rewrite"}
  /\ asked[c].kind = "grant" /\ seen[c] = NoRow
  /\ OverrideFree(c)
  /\ \/ /\ row = NoRow
        /\ pend' = [pend EXCEPT ![c] = NewOverride(c)]
        /\ Goto(c, "audit")
        /\ UNCHANGED verdict
     \/ /\ row # NoRow /\ pc[c] = "write"
        /\ Goto(c, "reread")
        /\ UNCHANGED <<pend, verdict>>
     \/ /\ row # NoRow /\ pc[c] = "rewrite"
        /\ End(c, "error")
  /\ UNCHANGED <<now, tenantExists, tables, asked, seen, evaluation>>

(* The second UpsertAsync reads.                                           *)
GrantReread(c) ==
  /\ pc[c] = "reread"
  /\ seen' = [seen EXCEPT ![c] = row]
  /\ Goto(c, "rewrite")
  /\ UNCHANGED <<now, tenantExists, tables, asked, pend, verdict, evaluation>>

(* A Replace that changes no column sends no UPDATE at all.                *)
NothingToSave(c) ==
  /\ seen[c].reason = asked[c].reason
  /\ seen[c].exp = asked[c].exp
  /\ seen[c].granted = asked[c].at

GrantUnchanged(c) ==
  /\ pc[c] \in {"write", "rewrite"}
  /\ asked[c].kind = "grant" /\ seen[c] # NoRow
  /\ NothingToSave(c)
  /\ Goto(c, "audit")
  /\ UNCHANGED <<now, tenantExists, tables, asked, seen, pend, verdict,
                 evaluation>>

(* UpsertAsync when its read found the row: UPDATE.                        *)
GrantUpdate(c) ==
  /\ pc[c] \in {"write", "rewrite"}
  /\ asked[c].kind = "grant" /\ seen[c] # NoRow
  /\ ~NothingToSave(c)
  /\ OverrideFree(c)
  /\ SameRow(seen[c])
  /\ \/ /\ CheckExpiry(Replace(c))
        /\ pend' = [pend EXCEPT ![c] = Replace(c)]
        /\ Goto(c, "audit")
        /\ UNCHANGED verdict
     \/ /\ ~CheckExpiry(Replace(c))
        /\ End(c, "error")
  /\ UNCHANGED <<now, tenantExists, tables, asked, seen, evaluation>>

(* No row with the id any more: DbUpdateConcurrencyException, a 404.       *)
GrantConflict(c) ==
  /\ pc[c] \in {"write", "rewrite"}
  /\ asked[c].kind = "grant" /\ seen[c] # NoRow
  /\ ~NothingToSave(c)
  /\ OverrideFree(c)
  /\ ~SameRow(seen[c])
  /\ End(c, "conflict")
  /\ UNCHANGED <<now, tenantExists, tables, asked, seen, evaluation>>

(* RevokeOverrideHandler: DELETE; no row with the id any more is what was  *)
(* asked for.                                                              *)
RevokeDelete(c) ==
  /\ pc[c] = "write" /\ asked[c].kind = "revoke"
  /\ OverrideFree(c)
  /\ \/ SameRow(seen[c]) /\ pend' = [pend EXCEPT ![c] = NoRow]
     \/ ~SameRow(seen[c]) /\ UNCHANGED pend
  /\ Goto(c, "audit")
  /\ UNCHANGED <<now, tenantExists, tables, asked, seen, verdict, evaluation>>

-----------------------------------------------------------------------------
(* StartTrialHandler: any trial, ever, refuses another.                    *)
ReadTrial(c) ==
  /\ pc[c] = "read" /\ asked[c].kind = "trial"
  /\ \/ /\ trial # NoRow
        /\ End(c, "trialUsed")
     \/ /\ trial = NoRow
        /\ Goto(c, "write")
        /\ UNCHANGED <<pend, verdict>>
  /\ UNCHANGED <<now, tenantExists, tables, asked, seen, evaluation>>

(* Mutant of TrialFree: no unique index on the tenant's trial.             *)
TrialAlwaysFree(c) == TRUE
(* No other open transaction has inserted the tenant's trial.              *)
TrialFree(c) ==
  \A q \in Commands \ {c} :
    ~(asked[q].kind = "trial" /\ pc[q] \in {"audit", "commit"})

(* The unique index decides the race.                                      *)
TrialInsert(c) ==
  /\ pc[c] = "write" /\ asked[c].kind = "trial"
  /\ TrialFree(c)
  /\ \/ /\ trial = NoRow
        /\ Goto(c, "audit")
        /\ UNCHANGED <<pend, verdict>>
     \/ /\ trial # NoRow
        /\ End(c, "trialUsed")
  /\ UNCHANGED <<now, tenantExists, tables, asked, seen, evaluation>>

-----------------------------------------------------------------------------
(* Mutant of AppendRecord: the record is committed on its own.             *)
AppendApart(c) == audit' = audit \cup {c}
(* AuditWriter.AppendAsync inserts in the command's open transaction.      *)
AppendRecord(c) == audit' = audit

AppendAudit(c) ==
  /\ pc[c] = "audit"
  /\ AppendRecord(c)
  /\ Goto(c, "commit")
  /\ UNCHANGED <<now, tenantExists, row, trial, asked, seen, pend, verdict,
                 evaluation>>

(* Mutant of Apply: the record is left out.                                *)
ApplyUnaudited(c) ==
  /\ row' = IF pend[c] = NoWrite THEN row ELSE pend[c]
  /\ trial' = IF asked[c].kind = "trial" THEN asked[c].at ELSE trial
  /\ audit' = audit
(* COMMIT: the change and its audit record become visible together.        *)
Apply(c) ==
  /\ row' = IF pend[c] = NoWrite THEN row ELSE pend[c]
  /\ trial' = IF asked[c].kind = "trial" THEN asked[c].at ELSE trial
  /\ audit' = audit \cup {c}

Commit(c) ==
  /\ pc[c] = "commit"
  /\ Apply(c)
  /\ End(c, "ok")
  /\ UNCHANGED <<now, tenantExists, asked, seen, evaluation>>

(* Any statement, the audit insert or the commit fails, the request is     *)
(* cancelled, or the process dies: a rollback, unless only the answer to   *)
(* COMMIT was lost.                                                        *)
Fail(c) ==
  /\ pc[c] \notin {"new", "done"}
  /\ \/ UNCHANGED tables
     \/ pc[c] = "commit" /\ Apply(c)
  /\ End(c, "error")
  /\ UNCHANGED <<now, tenantExists, asked, seen, evaluation>>

-----------------------------------------------------------------------------
(* FeatureOverride.IsActiveAt and TrialGrant.IsActiveAt: end-exclusive.    *)
(* Mutant of OverrideActive: the end counts.                               *)
OverrideActiveAtEnd(o, i) == o # NoRow /\ i <= o.exp
OverrideActive(o, i) == o # NoRow /\ i < o.exp
TrialActive(t, i) == t # NoRow /\ t <= i /\ i < t + TrialLength

Evaluated(e, a) ==
  /\ answer' = [answer EXCEPT ![e] = a]
  /\ epc' = [epc EXCEPT ![e] = "idle"]

(* IsEnabledAsync takes its instant.                                       *)
StartEvaluation(e) ==
  /\ epc[e] = "idle"
  /\ epc' = [epc EXCEPT ![e] = "override"]
  /\ at' = [at EXCEPT ![e] = now]
  /\ answer' = [answer EXCEPT ![e] = "none"]
  /\ UNCHANGED <<now, tenantExists, tables, command>>

(* Mutant of EvaluateOverride: an inactive override denies.                *)
OverrideDecides(e) ==
  /\ epc[e] = "override"
  /\ \/ OverrideActive(row, at[e]) /\ Evaluated(e, "enabled")
     \/ row # NoRow /\ ~OverrideActive(row, at[e]) /\ Evaluated(e, "disabled")
     \/ row = NoRow /\ epc' = [epc EXCEPT ![e] = "trial"] /\ UNCHANGED answer
  /\ UNCHANGED <<now, tenantExists, tables, command, at>>
(* First read: an active override grants.                                  *)
EvaluateOverride(e) ==
  /\ epc[e] = "override"
  /\ \/ /\ OverrideActive(row, at[e])
        /\ Evaluated(e, "enabled")
     \/ /\ ~OverrideActive(row, at[e])
        /\ epc' = [epc EXCEPT ![e] = "trial"]
        /\ UNCHANGED answer
  /\ UNCHANGED <<now, tenantExists, tables, command, at>>

(* Second read: an active trial of Pro grants.                             *)
EvaluateTrial(e) ==
  /\ epc[e] = "trial"
  /\ \/ TrialActive(trial, at[e]) /\ Evaluated(e, "enabled")
     \/ ~TrialActive(trial, at[e]) /\ Evaluated(e, "disabled")
  /\ UNCHANGED <<now, tenantExists, tables, command, at>>

(* Time passes.                                                            *)
Tick ==
  /\ now < MaxTime
  /\ now' = now + 1
  /\ UNCHANGED <<tenantExists, tables, command, evaluation>>

(* Just-in-time provisioning creates the tenant (TenantProvisioning).      *)
Provision ==
  /\ ~tenantExists
  /\ tenantExists' = TRUE
  /\ UNCHANGED <<now, tables, command, evaluation>>

-----------------------------------------------------------------------------
(* What the tables entitle the tenant to at instant i.                     *)
Entitled(o, t, i) ==
  \/ o # NoRow /\ o.exp > i
  \/ t # NoRow /\ i \in t..(t + TrialLength - 1)

(* The history variables, in every step.                                   *)
Observe ==
  /\ absent' = [c \in Commands |->
       /\ pc'[c] # "new"
       /\ (pc[c] \notin {"new", "done"} /\ row' = NoRow)
          \/ absent[c] \/ (pc[c] = "new" /\ row = NoRow)]
  /\ always' = [e \in Evaluators |->
       IF epc'[e] = "idle" /\ epc[e] = "idle" THEN always[e]
       ELSE /\ Entitled(row', trial', at'[e])
            /\ epc[e] = "idle" \/ always[e]]
  /\ once' = [e \in Evaluators |->
       IF epc'[e] = "idle" /\ epc[e] = "idle" THEN once[e]
       ELSE \/ Entitled(row', trial', at'[e])
            \/ epc[e] # "idle" /\ once[e]]

CommandStep(c) ==
  \/ Refuse(c) \/ StartGrant(c) \/ StartRevoke(c) \/ StartTrial(c)
  \/ CheckTenant(c) \/ ReadOverride(c) \/ GrantInsert(c) \/ GrantReread(c)
  \/ GrantUpdate(c) \/ GrantUnchanged(c) \/ GrantConflict(c)
  \/ RevokeDelete(c)
  \/ ReadTrial(c) \/ TrialInsert(c)
  \/ AppendAudit(c) \/ Commit(c) \/ Fail(c)

Next ==
  /\ \/ \E c \in Commands : CommandStep(c)
     \/ \E e \in Evaluators :
          StartEvaluation(e) \/ EvaluateOverride(e) \/ EvaluateTrial(e)
     \/ Tick
     \/ Provision
  /\ Observe

Spec == Init /\ [][Next]_vars

-----------------------------------------------------------------------------
(***************************************************************************)
(* Properties                                                              *)
(***************************************************************************)

(* NFR-37: a command that succeeded has its audit record, one that was     *)
(* turned down has none, and whoever wrote the override is on record.      *)
AuditMatchesOutcome ==
  /\ \A c \in Commands : verdict[c] = "ok" => c \in audit
  /\ \A c \in audit : verdict[c] \in {"ok", "error"}
  /\ row # NoRow => row.id \in audit

(* A rolled-back command leaves no record: every record without a success  *)
(* is a commit whose answer was lost, in one step with its change.         *)
RecordsCommitWithChanges ==
  [][ /\ row' # row \/ trial' # trial => audit' # audit
      /\ audit' # audit => \E c \in Commands : pc[c] = "commit" /\ pc'[c] = "done"
    ]_vars

(* One trial per tenant, ever: a trial that was started is never replaced  *)
(* or moved, however many admins race.                                     *)
OneTrialEver == [][trial # NoRow => trial' = trial]_vars

(* A revoke that reports success took effect: at some moment while it ran  *)
(* the override was gone, also when its own DELETE found nothing.          *)
RevokeTookEffect ==
  \A c \in Commands :
    verdict[c] = "ok" /\ asked[c].kind = "revoke" => absent[c]

(* IsEnabledAsync reads twice, while commands commit in between: a tenant  *)
(* that is entitled throughout is never denied ...                         *)
NoFalseDenial ==
  \A e \in Evaluators : answer[e] = "disabled" => ~always[e]

(* ... and one that was at no moment entitled is never allowed.            *)
NoFalseGrant ==
  \A e \in Evaluators : answer[e] = "enabled" => once[e]
=============================================================================
