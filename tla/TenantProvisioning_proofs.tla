--------------------- MODULE TenantProvisioning_proofs ----------------------
(* Proofs about TenantProvisioning, for any sets of requests, users and    *)
(* tenants, with failures at every step.                                   *)
EXTENDS TenantProvisioning, TLAPS

(* What a request at work knows: its tenant exists once it has been seen   *)
(* or lost, and does not while its own insert is waiting to commit.        *)
Working ==
  \A r \in Requests :
    /\ pc[r] # "idle" => of[r].tenant \in Tenants /\ verdict[r] = "none"
    /\ pc[r] \in {"membershipRead", "reread"} => of[r].tenant \in tenants
    /\ pc[r] = "commit" => of[r].tenant \notin tenants

(* The primary key lets one transaction at a time insert a tenant.         *)
OneInserter ==
  \A r, q \in Requests :
    pc[r] = "commit" /\ pc[q] = "commit" /\ of[r].tenant = of[q].tenant => r = q

(* Whoever was refused has met another owner.                              *)
RefusedForAnother ==
  \A r \in Requests : verdict[r] = "refused" =>
    /\ of[r].tenant \in Tenants
    /\ \E v \in Users \ {of[r].user} : <<of[r].tenant, v>> \in memberships

(***************************************************************************)
(* The inductive invariant: OneOwner needs OneInserter and Working, and    *)
(* the verdicts are compared with the owner, who never changes.            *)
(***************************************************************************)
PInv ==
  /\ TypeOK /\ Working /\ OneInserter /\ OneOwner
  /\ RefusedForAnother /\ PassedGateIsMember

(* What a reader may conclude from a membership it does or does not see.   *)
LEMMA NotMember ==
  ASSUME TypeOK, OneOwner, NEW r \in Requests,
         of[r].tenant \in tenants, ~HasOwnMembership(r)
  PROVE  \E v \in Users \ {of[r].user} : <<of[r].tenant, v>> \in memberships
BY DEF TypeOK, OneOwner, HasOwnMembership

(* The parts of a request's identity have their types.                     *)
LEMMA OfTypes ==
  ASSUME TypeOK, NEW r \in Requests
  PROVE  /\ of[r].tenant \in Tenants \cup {NoTenant}
         /\ of[r].user \in Users
BY DEF TypeOK

(* Each part of the invariant is preserved by every step.                  *)
(* Types.                                                                 *)
LEMMA TypeStep ==
  ASSUME TypeOK, Working, [Next]_vars PROVE TypeOK'
<1> USE NoTenantAssumption, OfTypes DEF TypeOK, Steps, Verdicts, Working
<1> USE DEF Goto, Answer
<1>1. CASE UNCHANGED vars
  BY <1>1 DEF vars
<1>2. ASSUME NEW r \in Requests, StartRequest(r) PROVE TypeOK'
  BY <1>2 DEF StartRequest, Gated
<1>3. ASSUME NEW r \in Requests, ReadTenant(r) PROVE TypeOK'
  BY <1>3 DEF ReadTenant
<1>4. ASSUME NEW r \in Requests, ReadMembership(r) PROVE TypeOK'
  BY <1>4 DEF ReadMembership
<1>5. ASSUME NEW r \in Requests, Insert(r) PROVE TypeOK'
  BY <1>5 DEF Insert, KeyTaken
<1>6. ASSUME NEW r \in Requests, Commit(r) PROVE TypeOK'
  BY <1>6 DEF Commit, Saved
<1>7. ASSUME NEW r \in Requests, Reread(r) PROVE TypeOK'
  BY <1>7 DEF Reread
<1>8. ASSUME NEW r \in Requests, Fail(r) PROVE TypeOK'
  BY <1>8 DEF Fail, Saved
<1> QED
  BY <1>1, <1>2, <1>3, <1>4, <1>5, <1>6, <1>7, <1>8 DEF Next, Step

(* What a request at work knows stays true.                               *)
LEMMA WorkingStep ==
  ASSUME TypeOK, Working, OneInserter, [Next]_vars PROVE Working'
<1> USE NoTenantAssumption, OfTypes DEF TypeOK, Working, OneInserter
<1> USE DEF Goto, Answer
<1>1. CASE UNCHANGED vars
  BY <1>1 DEF vars
<1>2. ASSUME NEW r \in Requests, StartRequest(r) PROVE Working'
  BY <1>2 DEF StartRequest, Gated
<1>3. ASSUME NEW r \in Requests, ReadTenant(r) PROVE Working'
  BY <1>3 DEF ReadTenant
<1>4. ASSUME NEW r \in Requests, ReadMembership(r) PROVE Working'
  BY <1>4 DEF ReadMembership
<1>5. ASSUME NEW r \in Requests, Insert(r) PROVE Working'
  BY <1>5 DEF Insert, KeyTaken
<1>6. ASSUME NEW r \in Requests, Commit(r) PROVE Working'
  BY <1>6 DEF Commit, Saved
<1>7. ASSUME NEW r \in Requests, Reread(r) PROVE Working'
  BY <1>7 DEF Reread
<1>8. ASSUME NEW r \in Requests, Fail(r) PROVE Working'
  BY <1>8 DEF Fail, Saved
<1> QED
  BY <1>1, <1>2, <1>3, <1>4, <1>5, <1>6, <1>7, <1>8 DEF Next, Step

(* One inserter per tenant.                                               *)
LEMMA OneInserterStep ==
  ASSUME TypeOK, OneInserter, [Next]_vars PROVE OneInserter'
<1> USE NoTenantAssumption, OfTypes DEF TypeOK, OneInserter
<1> USE DEF Goto, Answer
<1>1. CASE UNCHANGED vars
  BY <1>1 DEF vars
<1>2. ASSUME NEW r \in Requests, StartRequest(r) PROVE OneInserter'
  BY <1>2 DEF StartRequest, Gated
<1>3. ASSUME NEW r \in Requests, ReadTenant(r) PROVE OneInserter'
  BY <1>3 DEF ReadTenant
<1>4. ASSUME NEW r \in Requests, ReadMembership(r) PROVE OneInserter'
  BY <1>4 DEF ReadMembership
<1>5. ASSUME NEW r \in Requests, Insert(r) PROVE OneInserter'
  BY <1>5 DEF Insert, KeyTaken
<1>6. ASSUME NEW r \in Requests, Commit(r) PROVE OneInserter'
  BY <1>6 DEF Commit, Saved
<1>7. ASSUME NEW r \in Requests, Reread(r) PROVE OneInserter'
  BY <1>7 DEF Reread
<1>8. ASSUME NEW r \in Requests, Fail(r) PROVE OneInserter'
  BY <1>8 DEF Fail, Saved
<1> QED
  BY <1>1, <1>2, <1>3, <1>4, <1>5, <1>6, <1>7, <1>8 DEF Next, Step

(* Adding a new tenant with its first membership keeps one owner each.     *)
LEMMA SavedKeepsOneOwner ==
  ASSUME TypeOK, OneOwner, NEW r \in Requests,
         of[r].tenant \in Tenants, of[r].tenant \notin tenants, Saved(r)
  PROVE  OneOwner'
<1> DEFINE t == of[r].tenant
           u == of[r].user
<1>1. u \in Users
  BY OfTypes
<1>2. /\ tenants' = tenants \cup {t}
      /\ memberships' = memberships \cup {<<t, u>>}
  BY DEF Saved
<1>3. \A v \in Users : <<t, v>> \notin memberships
  BY DEF OneOwner
<1> HIDE DEF t, u
<1>4. \A s \in tenants' : \E v \in Users : <<s, v>> \in memberships'
  BY <1>1, <1>2 DEF OneOwner
<1>5. \A m \in memberships' : m[1] \in tenants'
  BY <1>2 DEF OneOwner
<1>6. \A s \in Tenants, v, w \in Users :
        <<s, v>> \in memberships' /\ <<s, w>> \in memberships' => v = w
  BY <1>2, <1>3 DEF OneOwner
<1> QED
  BY <1>4, <1>5, <1>6 DEF OneOwner

(* One owner per tenant: only a commit adds one, to a tenant without.     *)
LEMMA OneOwnerStep ==
  ASSUME TypeOK, Working, OneOwner, [Next]_vars PROVE OneOwner'
<1> USE NoTenantAssumption, OfTypes DEF TypeOK, Working, OneOwner
<1> USE DEF Goto, Answer
<1>1. CASE UNCHANGED vars
  BY <1>1 DEF vars
<1>2. ASSUME NEW r \in Requests, StartRequest(r) PROVE OneOwner'
  BY <1>2 DEF StartRequest, Gated
<1>3. ASSUME NEW r \in Requests, ReadTenant(r) PROVE OneOwner'
  BY <1>3 DEF ReadTenant
<1>4. ASSUME NEW r \in Requests, ReadMembership(r) PROVE OneOwner'
  BY <1>4 DEF ReadMembership
<1>5. ASSUME NEW r \in Requests, Insert(r) PROVE OneOwner'
  BY <1>5 DEF Insert, KeyTaken
<1>6. ASSUME NEW r \in Requests, Commit(r) PROVE OneOwner'
  <2>1. of[r].tenant \in Tenants /\ of[r].tenant \notin tenants /\ Saved(r)
    BY <1>6 DEF Commit
  <2> QED
    BY <2>1, SavedKeepsOneOwner
<1>7. ASSUME NEW r \in Requests, Reread(r) PROVE OneOwner'
  BY <1>7 DEF Reread
<1>8. ASSUME NEW r \in Requests, Fail(r) PROVE OneOwner'
  <2>1. CASE UNCHANGED <<tenants, memberships>>
    BY <2>1
  <2>2. CASE pc[r] = "commit" /\ Saved(r)
    <3>1. of[r].tenant \in Tenants /\ of[r].tenant \notin tenants
      BY <2>2
    <3> QED
      BY <2>2, <3>1, SavedKeepsOneOwner
  <2> QED
    BY <1>8, <2>1, <2>2 DEF Fail
<1> QED
  BY <1>1, <1>2, <1>3, <1>4, <1>5, <1>6, <1>7, <1>8 DEF Next, Step

(* A refusal stays justified.                                             *)
LEMMA RefusedStep ==
  ASSUME TypeOK, Working, OneOwner, RefusedForAnother, [Next]_vars PROVE RefusedForAnother'
<1> USE NoTenantAssumption, OfTypes DEF TypeOK, Working, RefusedForAnother
<1> USE DEF Goto, Answer
<1>1. CASE UNCHANGED vars
  BY <1>1 DEF vars
<1>2. ASSUME NEW r \in Requests, StartRequest(r) PROVE RefusedForAnother'
  BY <1>2 DEF StartRequest, Gated
<1>3. ASSUME NEW r \in Requests, ReadTenant(r) PROVE RefusedForAnother'
  BY <1>3 DEF ReadTenant
<1>4. ASSUME NEW r \in Requests, ReadMembership(r) PROVE RefusedForAnother'
  BY <1>4, NotMember DEF ReadMembership
<1>5. ASSUME NEW r \in Requests, Insert(r) PROVE RefusedForAnother'
  BY <1>5 DEF Insert, KeyTaken
<1>6. ASSUME NEW r \in Requests, Commit(r) PROVE RefusedForAnother'
  BY <1>6 DEF Commit, Saved
<1>7. ASSUME NEW r \in Requests, Reread(r) PROVE RefusedForAnother'
  BY <1>7, NotMember DEF Reread
<1>8. ASSUME NEW r \in Requests, Fail(r) PROVE RefusedForAnother'
  BY <1>8 DEF Fail, Saved
<1> QED
  BY <1>1, <1>2, <1>3, <1>4, <1>5, <1>6, <1>7, <1>8 DEF Next, Step

(* Whoever passed stays a member.                                         *)
LEMMA PassedStep ==
  ASSUME TypeOK, Working, PassedGateIsMember, [Next]_vars PROVE PassedGateIsMember'
<1> USE NoTenantAssumption, OfTypes DEF TypeOK, Working, PassedGateIsMember, HasOwnMembership
<1> USE DEF Goto, Answer
<1>1. CASE UNCHANGED vars
  BY <1>1 DEF vars
<1>2. ASSUME NEW r \in Requests, StartRequest(r) PROVE PassedGateIsMember'
  BY <1>2 DEF StartRequest, Gated
<1>3. ASSUME NEW r \in Requests, ReadTenant(r) PROVE PassedGateIsMember'
  BY <1>3 DEF ReadTenant
<1>4. ASSUME NEW r \in Requests, ReadMembership(r) PROVE PassedGateIsMember'
  BY <1>4 DEF ReadMembership
<1>5. ASSUME NEW r \in Requests, Insert(r) PROVE PassedGateIsMember'
  BY <1>5 DEF Insert, KeyTaken
<1>6. ASSUME NEW r \in Requests, Commit(r) PROVE PassedGateIsMember'
  BY <1>6 DEF Commit, Saved
<1>7. ASSUME NEW r \in Requests, Reread(r) PROVE PassedGateIsMember'
  BY <1>7 DEF Reread
<1>8. ASSUME NEW r \in Requests, Fail(r) PROVE PassedGateIsMember'
  BY <1>8 DEF Fail, Saved
<1> QED
  BY <1>1, <1>2, <1>3, <1>4, <1>5, <1>6, <1>7, <1>8 DEF Next, Step

LEMMA Inductive == Spec => []PInv
<1>1. Init => PInv
  BY NoTenantAssumption
  DEF Init, PInv, TypeOK, Steps, Verdicts, Working, OneInserter, OneOwner,
      RefusedForAnother, PassedGateIsMember
<1>2. PInv /\ [Next]_vars => PInv'
  BY TypeStep, WorkingStep, OneInserterStep, OneOwnerStep, RefusedStep,
     PassedStep
  DEF PInv
<1> QED
  BY <1>1, <1>2, PTL DEF Spec

(* Every state is well typed.                                              *)
THEOREM TypeCorrect == Spec => []TypeOK
<1>1. PInv => TypeOK
  BY DEF PInv
<1> QED
  BY <1>1, Inductive, PTL

(* NFR-32: however many requests race, a tenant has exactly one Owner.     *)
THEOREM ExactlyOneOwner == Spec => []OneOwner
<1>1. PInv => OneOwner
  BY DEF PInv
<1> QED
  BY <1>1, Inductive, PTL

(* The owner of a tenant is never refused.                                 *)
THEOREM NoWrongRefusal == Spec => []OwnerNeverRefused
<1>1. PInv => OwnerNeverRefused
  <2> SUFFICES ASSUME PInv, NEW r \in Requests, verdict[r] = "refused"
               PROVE  ~HasOwnMembership(r)
    BY DEF OwnerNeverRefused
  <2>1. PICK v \in Users \ {of[r].user} : <<of[r].tenant, v>> \in memberships
    BY DEF PInv, RefusedForAnother
  <2>2. of[r].tenant \in Tenants /\ of[r].user \in Users
    BY OfTypes DEF PInv, RefusedForAnother
  <2> QED
    BY <2>1, <2>2 DEF PInv, OneOwner, HasOwnMembership
<1> QED
  BY <1>1, Inductive, PTL

(* Whoever passes the gate for a tenant is a member of it.                 *)
THEOREM GateIsSound == Spec => []PassedGateIsMember
<1>1. PInv => PassedGateIsMember
  BY DEF PInv
<1> QED
  BY <1>1, Inductive, PTL

-----------------------------------------------------------------------------
(* The racing reads and inserts implement the atomic TenantOwnership.      *)
THEOREM Refinement == Spec => ImplementsTenantOwnership
<1>1. Init => Ownership!AInit
  BY DEF Init, Ownership!AInit
<1>2. PInv /\ [Next]_vars => [Ownership!ANext]_(Ownership!avars)
  <2> SUFFICES ASSUME PInv, [Next]_vars
               PROVE  Ownership!ANext \/ UNCHANGED Ownership!avars
    OBVIOUS
  <2> USE NoTenantAssumption
      DEF Goto, Answer, Ownership!avars, HasOwnMembership
  <2> USE DEF PInv, TypeOK, Working, OneOwner
  <2>1. CASE UNCHANGED vars
    BY <2>1 DEF vars
  <2>2. ASSUME NEW r \in Requests, StartRequest(r) PROVE Ownership!Ask(r)
    BY <2>2 DEF StartRequest, Gated, Ownership!Ask
  <2>3. ASSUME NEW r \in Requests, ReadTenant(r) \/ Insert(r)
        PROVE  UNCHANGED Ownership!avars
    BY <2>3 DEF ReadTenant, Insert
  <2>4. ASSUME NEW r \in Requests, ReadMembership(r) PROVE Ownership!Tell(r)
    BY <2>4, NotMember DEF ReadMembership, Ownership!Tell
  <2>5. ASSUME NEW r \in Requests, Commit(r) PROVE Ownership!Tell(r)
    BY <2>5 DEF Commit, Saved, Ownership!Tell, Ownership!Claim
  <2>6. ASSUME NEW r \in Requests, Reread(r) PROVE Ownership!Tell(r)
    BY <2>6, NotMember DEF Reread, Ownership!Tell
  <2>7. ASSUME NEW r \in Requests, Fail(r) PROVE Ownership!Tell(r)
    BY <2>7 DEF Fail, Saved, Ownership!Tell, Ownership!Claim
  <2> QED
    BY <2>1, <2>2, <2>3, <2>4, <2>5, <2>6, <2>7
    DEF Next, Step, Ownership!ANext
<1> QED
  BY <1>1, <1>2, Inductive, PTL
  DEF Spec, ImplementsTenantOwnership, Ownership!ASpec
=============================================================================
