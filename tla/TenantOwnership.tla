--------------------------- MODULE TenantOwnership ---------------------------
(***************************************************************************)
(* What just-in-time provisioning promises: the first caller to reach a    *)
(* tenant owns it, for good, and every answer a request gets agrees with   *)
(* that owner.                                                             *)
(***************************************************************************)
CONSTANTS Requests, Users, Tenants, NoTenant

VARIABLES owners,   \* pairs <<tenant, user>>
          of,       \* the tenant and the user of each request
          verdict   \* what each request was told, "none" until it is

avars == <<owners, of, verdict>>

AInit ==
  /\ owners = {}
  /\ of \in [Requests -> [tenant : {NoTenant}, user : Users]]
  /\ verdict = [r \in Requests |-> "none"]

(* A request begins, for a user of some tenant; one without a tenant is    *)
(* nobody's business and passes.                                           *)
Ask(r) ==
  /\ \E t \in Tenants \cup {NoTenant}, u \in Users :
       /\ of' = [of EXCEPT ![r] = [tenant |-> t, user |-> u]]
       /\ verdict' = [verdict EXCEPT ![r] =
                        IF t = NoTenant THEN "passed" ELSE "none"]
  /\ UNCHANGED owners

(* Nobody owns t yet: u does from now on.                                  *)
Claim(t, u) ==
  /\ \A v \in Users : <<t, v>> \notin owners
  /\ owners' = owners \cup {<<t, u>>}

(* The answer agrees with the owner: passed only for the owner, refused    *)
(* only when someone else owns the tenant.                                 *)
Tell(r) ==
  /\ verdict[r] = "none" /\ of[r].tenant \in Tenants
  /\ \E a \in {"passed", "refused", "failed"} :
       /\ verdict' = [verdict EXCEPT ![r] = a]
       /\ a = "passed" => <<of[r].tenant, of[r].user>> \in owners'
       /\ a = "refused" =>
            \E v \in Users \ {of[r].user} : <<of[r].tenant, v>> \in owners'
  /\ \/ UNCHANGED owners
     \/ Claim(of[r].tenant, of[r].user)
  /\ UNCHANGED of

ANext == \E r \in Requests : Ask(r) \/ Tell(r)

ASpec == AInit /\ [][ANext]_avars
=============================================================================
