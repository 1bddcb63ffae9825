-------------------------- MODULE TenantProvisioning --------------------------
(***************************************************************************)
(* Just-in-time provisioning of tenants (TenantMembershipMiddleware and    *)
(* TenantMembershipGate.EnsureAsync) by requests that race on PostgreSQL   *)
(* under READ COMMITTED.  Every read is a snapshot of what is committed;   *)
(* the insert of a tenant and its Owner membership is one SaveChanges,     *)
(* that is one transaction, and an insert whose key another transaction    *)
(* has inserted but not committed waits for that transaction to end.       *)
(***************************************************************************)
CONSTANTS Requests,  \* the concurrent requests of all API instances
          Users,     \* subjects of access tokens
          Tenants,   \* values of the tenant_id claim
          NoTenant   \* a token without the claim, or an ungated endpoint

ASSUME NoTenantAssumption == NoTenant \notin Tenants

VARIABLES
  tenants,      \* committed rows of tenancy.tenants
  memberships,  \* committed rows of tenancy.memberships, all with role Owner
  of,           \* the tenant and the user each request runs for
  pc,           \* where each request is
  verdict       \* what the request came to, until the next one begins

vars == <<tenants, memberships, of, pc, verdict>>

Steps == {"idle", "tenantRead", "membershipRead", "insert", "commit", "reread"}
Verdicts == {"none", "passed", "refused", "failed"}

TypeOK ==
  /\ tenants \subseteq Tenants
  /\ memberships \subseteq Tenants \X Users
  /\ of \in [Requests -> [tenant : Tenants \cup {NoTenant}, user : Users]]
  /\ pc \in [Requests -> Steps]
  /\ verdict \in [Requests -> Verdicts]

Init ==
  /\ tenants = {}
  /\ memberships = {}
  /\ of \in [Requests -> [tenant : {NoTenant}, user : Users]]
  /\ pc = [r \in Requests |-> "idle"]
  /\ verdict = [r \in Requests |-> "none"]

-----------------------------------------------------------------------------
HasOwnMembership(r) == <<of[r].tenant, of[r].user>> \in memberships

Goto(r, step) == pc' = [pc EXCEPT ![r] = step]

(* EnsureAsync is over: the request goes on, is refused (403), or ends in  *)
(* the generic 500.                                                        *)
Answer(r, v) ==
  /\ Goto(r, "idle")
  /\ verdict' = [verdict EXCEPT ![r] = v]

(* Mutant of Gated: the middleware lets every request through.             *)
NeverGated(t) == FALSE
(* Only a request that resolved to a tenant is gated.                      *)
Gated(t) == t # NoTenant

(* A request arrives; ungated ones pass at once.                           *)
StartRequest(r) ==
  /\ pc[r] = "idle"
  /\ \E t \in Tenants \cup {NoTenant}, u \in Users :
       /\ of' = [of EXCEPT ![r] = [tenant |-> t, user |-> u]]
       /\ verdict' = [verdict EXCEPT ![r] = IF Gated(t) THEN "none" ELSE "passed"]
       /\ Goto(r, IF Gated(t) THEN "tenantRead" ELSE "idle")
  /\ UNCHANGED <<tenants, memberships>>

(* Does the tenant exist?                                                  *)
ReadTenant(r) ==
  /\ pc[r] = "tenantRead"
  /\ \/ of[r].tenant \in tenants /\ Goto(r, "membershipRead")
     \/ of[r].tenant \notin tenants /\ Goto(r, "insert")
  /\ UNCHANGED <<tenants, memberships, of, verdict>>

(* It does: the caller is a member or is refused; nobody is added to it.   *)
ReadMembership(r) ==
  /\ pc[r] = "membershipRead"
  /\ \/ HasOwnMembership(r) /\ Answer(r, "passed")
     \/ ~HasOwnMembership(r) /\ Answer(r, "refused")
  /\ UNCHANGED <<tenants, memberships, of>>

(* Mutant of KeyTaken: no primary key, so no insert waits for another.     *)
NothingTaken(t) == FALSE
(* Another transaction has inserted t and has not ended.                   *)
KeyTaken(t) == \E q \in Requests : pc[q] = "commit" /\ of[q].tenant = t

(* SaveChanges runs the two inserts: they wait, they violate PK_tenants,   *)
(* or they are done and only the commit is left.                           *)
Insert(r) ==
  /\ pc[r] = "insert"
  /\ ~KeyTaken(of[r].tenant)
  /\ \/ of[r].tenant \in tenants /\ Goto(r, "reread")
     \/ of[r].tenant \notin tenants /\ Goto(r, "commit")
  /\ UNCHANGED <<tenants, memberships, of, verdict>>

(* Both rows become visible together.                                      *)
Saved(r) ==
  /\ tenants' = tenants \cup {of[r].tenant}
  /\ memberships' = memberships \cup {<<of[r].tenant, of[r].user>>}

Commit(r) ==
  /\ pc[r] = "commit"
  /\ Saved(r)
  /\ Answer(r, "passed")
  /\ UNCHANGED of

(* Mutants of Reread: the loser of the race is refused without a look; it  *)
(* tries the insert again.                                                 *)
RetryInsert(r) ==
  /\ pc[r] = "reread"
  /\ Goto(r, "insert")
  /\ UNCHANGED <<tenants, memberships, of, verdict>>
RefuseLoser(r) ==
  /\ pc[r] = "reread"
  /\ Answer(r, "refused")
  /\ UNCHANGED <<tenants, memberships, of>>
(* The race was lost to a transaction that has committed: was it our own   *)
(* user's?                                                                 *)
Reread(r) ==
  /\ pc[r] = "reread"
  /\ \/ HasOwnMembership(r) /\ Answer(r, "passed")
     \/ ~HasOwnMembership(r) /\ Answer(r, "refused")
  /\ UNCHANGED <<tenants, memberships, of>>

(* A database error, a cancelled request or a dead API instance: nothing   *)
(* is committed, unless the answer to COMMIT was all that was lost.        *)
Fail(r) ==
  /\ pc[r] # "idle"
  /\ \/ UNCHANGED <<tenants, memberships>>
     \/ pc[r] = "commit" /\ Saved(r)
  /\ Answer(r, "failed")
  /\ UNCHANGED of

-----------------------------------------------------------------------------
Step(r) ==
  \/ ReadTenant(r) \/ ReadMembership(r) \/ Insert(r)
  \/ Commit(r) \/ Reread(r) \/ Fail(r)

Next == \E r \in Requests : StartRequest(r) \/ Step(r)

Spec == Init /\ [][Next]_vars

(* Each request's statements run.  An insert that waits for another        *)
(* transaction is woken when that one ends (PostgreSQL queues the waiters  *)
(* of a lock), so it is not overtaken forever.                             *)
Work(r) ==
  ReadTenant(r) \/ ReadMembership(r) \/ Insert(r) \/ Commit(r) \/ Reread(r)

FairSpec ==
  Spec /\ \A r \in Requests : WF_vars(Work(r)) /\ SF_vars(Insert(r))

-----------------------------------------------------------------------------
(***************************************************************************)
(* Properties                                                              *)
(***************************************************************************)

(* NFR-32: a tenant has exactly one Owner, from the moment it exists, and  *)
(* no membership is without its tenant.                                    *)
OneOwner ==
  /\ \A t \in tenants : \E u \in Users : <<t, u>> \in memberships
  /\ \A m \in memberships : m[1] \in tenants
  /\ \A t \in Tenants, u, v \in Users :
       <<t, u>> \in memberships /\ <<t, v>> \in memberships => u = v

(* A caller who owns the tenant is never refused, also when it lost the    *)
(* race against another request of its own.                                *)
OwnerNeverRefused ==
  \A r \in Requests : verdict[r] = "refused" => ~HasOwnMembership(r)

(* Whoever gets past the gate for a tenant is a member of it: the owner    *)
(* policy and the handlers behind it always find the caller's row.         *)
PassedGateIsMember ==
  \A r \in Requests :
    verdict[r] = "passed" /\ of[r].tenant # NoTenant => HasOwnMembership(r)

(* Waiting for another transaction's insert never lasts forever.           *)
EveryRequestAnswered ==
  \A r \in Requests : pc[r] # "idle" ~> pc[r] = "idle"

Ownership == INSTANCE TenantOwnership WITH owners <- memberships

(* Two reads, one insert and one re-read are as good as asking atomically  *)
(* who owns the tenant and claiming it if nobody does.                     *)
ImplementsTenantOwnership == Ownership!ASpec
=============================================================================
