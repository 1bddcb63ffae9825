------------------------ MODULE TenantScope_proofs -------------------------
(* Proofs about TenantScope, for any sets of scopes, messages, users,      *)
(* tenants and row keys.                                                   *)
EXTENDS TenantScope, TLAPS

-----------------------------------------------------------------------------
(***************************************************************************)
(* The inductive invariant.  A caller that is set is the one the scope was *)
(* opened for; an envelope that can be read says for whom the sender       *)
(* worked; and a handler's scope has that caller.                          *)
(***************************************************************************)
CallerIsOrigin ==
  \A s \in Scopes : caller[s].res # Invalid =>
    /\ s \in open
    /\ caller[s].res = origin[s].tenant
    /\ caller[s].user = origin[s].user

EnvelopeIsSender ==
  \A m \in Messages :
    /\ Readable(envelope[m]) => envelope[m] = from[m]
    /\ mpc[m] = "handled" => Readable(envelope[m]) /\ at[m] \in Scopes
    /\ mpc[m] # "handled" => at[m] = NoScope

IInv == TypeOK /\ CallerIsOrigin /\ EnvelopeIsSender /\ HandlerRunsForSender

-----------------------------------------------------------------------------
(* What the delivery options held does not matter.                         *)
LEMMA StampOverwrites ==
  ASSUME TypeOK, NEW s \in Scopes, NEW options \in Parties
  PROVE Stamp(s, options) = [tenant |-> caller[s].res, user |-> caller[s].user]
<1> DEFINE r == Stamp(s, options)
<1>1. r \in Parties /\ r.tenant = caller[s].res /\ r.user = caller[s].user
  BY DEF Stamp, Parties, TypeOK, Callers
<1>2. r = [tenant |-> r.tenant, user |-> r.user]
  BY <1>1 DEF Parties
<1> QED
  BY <1>1, <1>2

(* A change of one entry keeps the change tracker's type ...               *)
LEMMA EntryType ==
  ASSUME TypeOK, NEW s \in Scopes, NEW i \in Ids, NEW e \in Entries, Entry(s, i, e)
  PROVE tracked' \in [Scopes -> [Ids -> Entries]]
  BY DEF TypeOK, Entry

(* ... and reads or writes no row unless it loads or drops one.            *)
LEMMA EntryReachesNothing ==
  ASSUME TypeOK, NEW s \in Scopes, NEW i \in Ids, NEW e, Entry(s, i, e),
         e.state # "unchanged", tracked[s][i].state # "deleted",
         NEW t \in Scopes, NEW j \in Ids
  PROVE ~Reaches(t, j)
  BY DEF TypeOK, Entry, Reaches

(* Each part is preserved by every step.                                   *)
(* The types are preserved; the admin fact never meets a tenant.           *)
LEMMA TypeStep ==
  ASSUME TypeOK, [Next]_vars PROVE TypeOK'
<1> USE ValuesAssumption DEF TypeOK, Resolutions, Parties, Callers, Entries, scopes, messages
<1>1. CASE UNCHANGED vars
  BY <1>1 DEF vars
<1>2. ASSUME NEW s \in Scopes, StartRequest(s) PROVE TypeOK'
  <2>1. PICK c \in Claims :
          /\ Identified(c)
          /\ caller' = [caller EXCEPT ![s] = Set(c.tenant, c.sub, c.admin, c.mfa)]
          /\ origin' = [origin EXCEPT ![s] = [tenant |-> c.tenant, user |-> c.sub]]
    BY <1>2 DEF StartRequest
  <2>2. Set(c.tenant, c.sub, c.admin, c.mfa) \in Callers
    BY DEF Set, Claims
  <2>3. [tenant |-> c.tenant, user |-> c.sub] \in Parties
    BY DEF Claims
  <2> QED
    BY <1>2, <2>1, <2>2, <2>3 DEF StartRequest
<1>3. ASSUME NEW s \in Scopes, StartAnonymous(s) PROVE TypeOK'
  BY <1>3 DEF StartAnonymous
<1>4. ASSUME NEW s \in Scopes, CloseScope(s) PROVE TypeOK'
  BY <1>4 DEF CloseScope, Unset, Nobody, Detached
<1>5. ASSUME NEW s \in Scopes, NEW m \in Messages, Send(s, m) PROVE TypeOK'
  <2>1. [tenant |-> caller[s].res, user |-> caller[s].user] \in Parties
    OBVIOUS
  <2> QED
    BY <1>5, <2>1, StampOverwrites DEF Send
<1>6. ASSUME NEW s \in Scopes, NEW m \in Messages, SendUnstamped(s, m) PROVE TypeOK'
  BY <1>6 DEF SendUnstamped
<1>7. ASSUME NEW s \in Scopes, NEW m \in Messages, ReceiveFresh(m, s) PROVE TypeOK'
  BY <1>7 DEF ReceiveFresh, Readable, Set
<1>8. ASSUME NEW s \in Scopes, NEW m \in Messages, ReceiveReused(m, s) PROVE TypeOK'
  BY <1>8 DEF ReceiveReused, Readable, SameCaller
<1>9. ASSUME NEW s \in Scopes, NEW m \in Messages, Refuse(m, s) PROVE TypeOK'
  BY <1>9 DEF Refuse, Stopped, Nobody
<1>10. ASSUME NEW m \in Messages, HandlerEnds(m) PROVE TypeOK'
  BY <1>10 DEF HandlerEnds, Stopped, Nobody
<1>11. ASSUME NEW s \in Scopes, NEW i \in Ids, Query(s, i) PROVE TypeOK'
  BY <1>11 DEF Query, Entry, CurrentTenantFilter
<1>12. ASSUME NEW s \in Scopes, NEW i \in Ids, Track(s, i) PROVE TypeOK'
  BY <1>12, EntryType DEF Track
<1>13. ASSUME NEW s \in Scopes, NEW i \in Ids, Change(s, i) PROVE TypeOK'
  BY <1>13, EntryType DEF Change
<1>14. ASSUME NEW s \in Scopes, NEW i \in Ids, Remove(s, i) PROVE TypeOK'
  <2>1. [state |-> "deleted", orig |-> tracked[s][i].orig, cur |-> Untenanted] \in Entries
    OBVIOUS
  <2>2. Detached \in Entries
    BY DEF Detached
  <2> QED
    BY <1>14, <2>1, <2>2, EntryType DEF Remove
<1>15. ASSUME NEW s \in Scopes, SaveChanges(s) PROVE TypeOK'
  BY <1>15 DEF SaveChanges, Dirty, Written, Accepted, Detached, EnforceTenantIsolation, Isolated, RowFound
<1> QED
  BY <1>1, <1>2, <1>3, <1>4, <1>5, <1>6, <1>7, <1>8, <1>9, <1>10, <1>11, <1>12, <1>13, <1>14, <1>15 DEF Next

(* A caller is set once, from the token or the envelope of its scope.      *)
LEMMA CallerIsOriginStep ==
  ASSUME TypeOK, CallerIsOrigin, EnvelopeIsSender, [Next]_vars PROVE CallerIsOrigin'
<1> USE ValuesAssumption DEF TypeOK, Resolutions, Parties, Callers, CallerIsOrigin, EnvelopeIsSender, scopes, messages
<1>1. CASE UNCHANGED vars
  BY <1>1 DEF vars
<1>2. ASSUME NEW s \in Scopes, StartRequest(s) PROVE CallerIsOrigin'
  BY <1>2 DEF StartRequest, Identified, Set, Claims
<1>3. ASSUME NEW s \in Scopes, StartAnonymous(s) PROVE CallerIsOrigin'
  BY <1>3 DEF StartAnonymous
<1>4. ASSUME NEW s \in Scopes, CloseScope(s) PROVE CallerIsOrigin'
  BY <1>4 DEF CloseScope, Unset, Nobody, Detached
<1>5. ASSUME NEW s \in Scopes, NEW m \in Messages, Send(s, m) PROVE CallerIsOrigin'
  BY <1>5 DEF Send, Stamp
<1>6. ASSUME NEW s \in Scopes, NEW m \in Messages, SendUnstamped(s, m) PROVE CallerIsOrigin'
  BY <1>6 DEF SendUnstamped
<1>7. ASSUME NEW s \in Scopes, NEW m \in Messages, ReceiveFresh(m, s) PROVE CallerIsOrigin'
  BY <1>7 DEF ReceiveFresh, Readable, Set
<1>8. ASSUME NEW s \in Scopes, NEW m \in Messages, ReceiveReused(m, s) PROVE CallerIsOrigin'
  BY <1>8 DEF ReceiveReused, Readable, SameCaller
<1>9. ASSUME NEW s \in Scopes, NEW m \in Messages, Refuse(m, s) PROVE CallerIsOrigin'
  BY <1>9 DEF Refuse, Stopped, Nobody
<1>10. ASSUME NEW m \in Messages, HandlerEnds(m) PROVE CallerIsOrigin'
  BY <1>10 DEF HandlerEnds, Stopped, Nobody
<1>11. ASSUME NEW s \in Scopes, NEW i \in Ids, Query(s, i) PROVE CallerIsOrigin'
  BY <1>11 DEF Query, Entry, CurrentTenantFilter
<1>12. ASSUME NEW s \in Scopes, NEW i \in Ids, Track(s, i) PROVE CallerIsOrigin'
  BY <1>12 DEF Track, Entry
<1>13. ASSUME NEW s \in Scopes, NEW i \in Ids, Change(s, i) PROVE CallerIsOrigin'
  BY <1>13 DEF Change, Entry
<1>14. ASSUME NEW s \in Scopes, NEW i \in Ids, Remove(s, i) PROVE CallerIsOrigin'
  BY <1>14 DEF Remove, Entry, Detached
<1>15. ASSUME NEW s \in Scopes, SaveChanges(s) PROVE CallerIsOrigin'
  BY <1>15 DEF SaveChanges, Dirty, Written, Accepted, Detached, EnforceTenantIsolation, Isolated, RowFound
<1> QED
  BY <1>1, <1>2, <1>3, <1>4, <1>5, <1>6, <1>7, <1>8, <1>9, <1>10, <1>11, <1>12, <1>13, <1>14, <1>15 DEF Next

(* The stamp writes the caller; what comes around the stamp is unreadable. *)
LEMMA EnvelopeIsSenderStep ==
  ASSUME TypeOK, CallerIsOrigin, EnvelopeIsSender, [Next]_vars PROVE EnvelopeIsSender'
<1> USE ValuesAssumption DEF TypeOK, Resolutions, Parties, Callers, CallerIsOrigin, EnvelopeIsSender, Readable, scopes, messages
<1>1. CASE UNCHANGED vars
  BY <1>1 DEF vars
<1>2. ASSUME NEW s \in Scopes, StartRequest(s) PROVE EnvelopeIsSender'
  BY <1>2 DEF StartRequest, Identified, Set, Claims
<1>3. ASSUME NEW s \in Scopes, StartAnonymous(s) PROVE EnvelopeIsSender'
  BY <1>3 DEF StartAnonymous
<1>4. ASSUME NEW s \in Scopes, CloseScope(s) PROVE EnvelopeIsSender'
  BY <1>4 DEF CloseScope, Unset, Nobody, Detached
<1>5. ASSUME NEW s \in Scopes, NEW m \in Messages, Send(s, m) PROVE EnvelopeIsSender'
  <2>1. PICK options \in Parties : envelope' = [envelope EXCEPT ![m] = Stamp(s, options)]
    BY <1>5 DEF Send
  <2>2. caller[s].res = origin[s].tenant /\ caller[s].user = origin[s].user
    BY <1>5 DEF Send
  <2>3. origin[s] = [tenant |-> origin[s].tenant, user |-> origin[s].user]
    BY DEF Parties
  <2>4. Stamp(s, options) = origin[s]
    BY <2>2, <2>3, StampOverwrites
  <2> QED
    BY <1>5, <2>1, <2>4 DEF Send
<1>6. ASSUME NEW s \in Scopes, NEW m \in Messages, SendUnstamped(s, m) PROVE EnvelopeIsSender'
  BY <1>6 DEF SendUnstamped
<1>7. ASSUME NEW s \in Scopes, NEW m \in Messages, ReceiveFresh(m, s) PROVE EnvelopeIsSender'
  BY <1>7 DEF ReceiveFresh, Readable, Set
<1>8. ASSUME NEW s \in Scopes, NEW m \in Messages, ReceiveReused(m, s) PROVE EnvelopeIsSender'
  BY <1>8 DEF ReceiveReused, Readable, SameCaller
<1>9. ASSUME NEW s \in Scopes, NEW m \in Messages, Refuse(m, s) PROVE EnvelopeIsSender'
  BY <1>9 DEF Refuse, Stopped, Nobody
<1>10. ASSUME NEW m \in Messages, HandlerEnds(m) PROVE EnvelopeIsSender'
  BY <1>10 DEF HandlerEnds, Stopped, Nobody
<1>11. ASSUME NEW s \in Scopes, NEW i \in Ids, Query(s, i) PROVE EnvelopeIsSender'
  BY <1>11 DEF Query, Entry, CurrentTenantFilter
<1>12. ASSUME NEW s \in Scopes, NEW i \in Ids, Track(s, i) PROVE EnvelopeIsSender'
  BY <1>12 DEF Track, Entry
<1>13. ASSUME NEW s \in Scopes, NEW i \in Ids, Change(s, i) PROVE EnvelopeIsSender'
  BY <1>13 DEF Change, Entry
<1>14. ASSUME NEW s \in Scopes, NEW i \in Ids, Remove(s, i) PROVE EnvelopeIsSender'
  BY <1>14 DEF Remove, Entry, Detached
<1>15. ASSUME NEW s \in Scopes, SaveChanges(s) PROVE EnvelopeIsSender'
  BY <1>15 DEF SaveChanges, Dirty, Written, Accepted, Detached, EnforceTenantIsolation, Isolated, RowFound
<1> QED
  BY <1>1, <1>2, <1>3, <1>4, <1>5, <1>6, <1>7, <1>8, <1>9, <1>10, <1>11, <1>12, <1>13, <1>14, <1>15 DEF Next

(* A handler's scope keeps its caller while the handler runs.              *)
LEMMA HandlerStep ==
  ASSUME IInv, [Next]_vars PROVE HandlerRunsForSender'
<1> USE ValuesAssumption DEF IInv, TypeOK, Resolutions, Parties, Callers, CallerIsOrigin, EnvelopeIsSender, HandlerRunsForSender, Readable, scopes, messages
<1>1. CASE UNCHANGED vars
  BY <1>1 DEF vars
<1>2. ASSUME NEW s \in Scopes, StartRequest(s) PROVE HandlerRunsForSender'
  BY <1>2 DEF StartRequest, Identified, Set, Claims
<1>3. ASSUME NEW s \in Scopes, StartAnonymous(s) PROVE HandlerRunsForSender'
  BY <1>3 DEF StartAnonymous
<1>4. ASSUME NEW s \in Scopes, CloseScope(s) PROVE HandlerRunsForSender'
  BY <1>4 DEF CloseScope, Unset, Nobody, Detached
<1>5. ASSUME NEW s \in Scopes, NEW m \in Messages, Send(s, m) PROVE HandlerRunsForSender'
  BY <1>5 DEF Send, Stamp
<1>6. ASSUME NEW s \in Scopes, NEW m \in Messages, SendUnstamped(s, m) PROVE HandlerRunsForSender'
  BY <1>6 DEF SendUnstamped
<1>7. ASSUME NEW s \in Scopes, NEW m \in Messages, ReceiveFresh(m, s) PROVE HandlerRunsForSender'
  BY <1>7 DEF ReceiveFresh, Readable, Set
<1>8. ASSUME NEW s \in Scopes, NEW m \in Messages, ReceiveReused(m, s) PROVE HandlerRunsForSender'
  BY <1>8 DEF ReceiveReused, Readable, SameCaller
<1>9. ASSUME NEW s \in Scopes, NEW m \in Messages, Refuse(m, s) PROVE HandlerRunsForSender'
  BY <1>9 DEF Refuse, Stopped, Nobody
<1>10. ASSUME NEW m \in Messages, HandlerEnds(m) PROVE HandlerRunsForSender'
  BY <1>10 DEF HandlerEnds, Stopped, Nobody
<1>11. ASSUME NEW s \in Scopes, NEW i \in Ids, Query(s, i) PROVE HandlerRunsForSender'
  BY <1>11 DEF Query, Entry, CurrentTenantFilter
<1>12. ASSUME NEW s \in Scopes, NEW i \in Ids, Track(s, i) PROVE HandlerRunsForSender'
  BY <1>12 DEF Track, Entry
<1>13. ASSUME NEW s \in Scopes, NEW i \in Ids, Change(s, i) PROVE HandlerRunsForSender'
  BY <1>13 DEF Change, Entry
<1>14. ASSUME NEW s \in Scopes, NEW i \in Ids, Remove(s, i) PROVE HandlerRunsForSender'
  BY <1>14 DEF Remove, Entry, Detached
<1>15. ASSUME NEW s \in Scopes, SaveChanges(s) PROVE HandlerRunsForSender'
  BY <1>15 DEF SaveChanges, Dirty, Written, Accepted, Detached, EnforceTenantIsolation, Isolated, RowFound
<1> QED
  BY <1>1, <1>2, <1>3, <1>4, <1>5, <1>6, <1>7, <1>8, <1>9, <1>10, <1>11, <1>12, <1>13, <1>14, <1>15 DEF Next

LEMMA Inductive == Spec => []IInv
<1>1. Init => IInv
  BY ValuesAssumption DEF Init, IInv, TypeOK, CallerIsOrigin, EnvelopeIsSender, HandlerRunsForSender,
     Readable, Unset, Nobody, Detached, Callers, Parties, Resolutions, Entries
<1>2. IInv /\ [Next]_vars => IInv'
  BY TypeStep, CallerIsOriginStep, EnvelopeIsSenderStep, HandlerStep DEF IInv
<1> QED
  BY <1>1, <1>2, PTL DEF Spec

-----------------------------------------------------------------------------
(* Every reachable state is well typed.                                    *)
THEOREM TypeCorrect == Spec => []TypeOK
<1>1. IInv => TypeOK
  BY DEF IInv
<1> QED
  BY <1>1, Inductive, PTL

(* EnvelopeTenantMiddleware: a handler runs as the caller whose scope sent *)
(* the message, through any chain of messages and any reuse of scopes.     *)
THEOREM HandlersRunForTheirSender == Spec => []HandlerRunsForSender
<1>1. IInv => HandlerRunsForSender
  BY DEF IInv
<1> QED
  BY <1>1, Inductive, PTL

(* TenantDbContext: what a scope reads and writes belongs to the tenant it *)
(* was opened for.                                                         *)
THEOREM TenantsAreIsolated == Spec => OwnRowsOnly
<1>1. ASSUME IInv, [Next]_vars, NEW t \in Scopes, NEW j \in Ids, Reaches(t, j)
      PROVE {rows[j], rows'[j]} \subseteq {NoRow, origin[t].tenant}
  <2> USE ValuesAssumption, <1>1 DEF IInv, TypeOK, Resolutions, Callers, Entries, CallerIsOrigin, Reaches, scopes, messages
  <2>1. CASE UNCHANGED vars
    BY <2>1 DEF vars
  <2>2. ASSUME NEW s \in Scopes, StartRequest(s) PROVE {rows[j], rows'[j]} \subseteq {NoRow, origin[t].tenant}
    BY <2>2 DEF StartRequest, Identified, Set, Claims
  <2>3. ASSUME NEW s \in Scopes, StartAnonymous(s) PROVE {rows[j], rows'[j]} \subseteq {NoRow, origin[t].tenant}
    BY <2>3 DEF StartAnonymous
  <2>4. ASSUME NEW s \in Scopes, CloseScope(s) PROVE {rows[j], rows'[j]} \subseteq {NoRow, origin[t].tenant}
    BY <2>4 DEF CloseScope, Unset, Nobody, Detached
  <2>5. ASSUME NEW s \in Scopes, NEW m \in Messages, Send(s, m) PROVE {rows[j], rows'[j]} \subseteq {NoRow, origin[t].tenant}
    BY <2>5 DEF Send, Stamp
  <2>6. ASSUME NEW s \in Scopes, NEW m \in Messages, SendUnstamped(s, m) PROVE {rows[j], rows'[j]} \subseteq {NoRow, origin[t].tenant}
    BY <2>6 DEF SendUnstamped
  <2>7. ASSUME NEW s \in Scopes, NEW m \in Messages, ReceiveFresh(m, s) PROVE {rows[j], rows'[j]} \subseteq {NoRow, origin[t].tenant}
    BY <2>7 DEF ReceiveFresh, Readable, Set
  <2>8. ASSUME NEW s \in Scopes, NEW m \in Messages, ReceiveReused(m, s) PROVE {rows[j], rows'[j]} \subseteq {NoRow, origin[t].tenant}
    BY <2>8 DEF ReceiveReused, Readable, SameCaller
  <2>9. ASSUME NEW s \in Scopes, NEW m \in Messages, Refuse(m, s) PROVE {rows[j], rows'[j]} \subseteq {NoRow, origin[t].tenant}
    BY <2>9 DEF Refuse, Stopped, Nobody
  <2>10. ASSUME NEW m \in Messages, HandlerEnds(m) PROVE {rows[j], rows'[j]} \subseteq {NoRow, origin[t].tenant}
    BY <2>10 DEF HandlerEnds, Stopped, Nobody
  <2>11. ASSUME NEW s \in Scopes, NEW i \in Ids, Query(s, i) PROVE {rows[j], rows'[j]} \subseteq {NoRow, origin[t].tenant}
    BY <2>11 DEF Query, Entry, CurrentTenantFilter
  <2>12. ASSUME NEW s \in Scopes, NEW i \in Ids, Track(s, i) PROVE {rows[j], rows'[j]} \subseteq {NoRow, origin[t].tenant}
    BY <2>12, EntryReachesNothing DEF Track
  <2>13. ASSUME NEW s \in Scopes, NEW i \in Ids, Change(s, i) PROVE {rows[j], rows'[j]} \subseteq {NoRow, origin[t].tenant}
    BY <2>13, EntryReachesNothing DEF Change
  <2>14. ASSUME NEW s \in Scopes, NEW i \in Ids, Remove(s, i) PROVE {rows[j], rows'[j]} \subseteq {NoRow, origin[t].tenant}
    BY <2>14, EntryReachesNothing DEF Remove, Detached
  <2>15. ASSUME NEW s \in Scopes, SaveChanges(s) PROVE {rows[j], rows'[j]} \subseteq {NoRow, origin[t].tenant}
    BY <2>15 DEF SaveChanges, Dirty, Written, Accepted, Detached, EnforceTenantIsolation, Isolated, RowFound
  <2> QED
    BY <2>1, <2>2, <2>3, <2>4, <2>5, <2>6, <2>7, <2>8, <2>9, <2>10, <2>11, <2>12, <2>13, <2>14, <2>15 DEF Next
<1>2. IInv /\ [Next]_vars =>
        [\A s \in Scopes, i \in Ids : Reaches(s, i) =>
           {rows[i], rows'[i]} \subseteq {NoRow, origin[s].tenant}]_vars
  BY <1>1
<1> QED
  BY <1>2, Inductive, PTL DEF Spec, OwnRowsOnly

(* The guard and the concurrency token keep a row with its tenant.         *)
THEOREM TenantOfRowIsFixed == Spec => RowsKeepTheirTenant
<1>1. ASSUME IInv, [Next]_vars, NEW j \in Ids, rows[j] # NoRow, rows'[j] # NoRow
      PROVE rows'[j] = rows[j]
  <2> USE ValuesAssumption, <1>1 DEF IInv, TypeOK, Resolutions, Callers, Entries, scopes, messages
  <2>1. CASE UNCHANGED vars
    BY <2>1 DEF vars
  <2>2. ASSUME NEW s \in Scopes, StartRequest(s) PROVE rows'[j] = rows[j]
    BY <2>2 DEF StartRequest, Identified, Set, Claims
  <2>3. ASSUME NEW s \in Scopes, StartAnonymous(s) PROVE rows'[j] = rows[j]
    BY <2>3 DEF StartAnonymous
  <2>4. ASSUME NEW s \in Scopes, CloseScope(s) PROVE rows'[j] = rows[j]
    BY <2>4 DEF CloseScope, Unset, Nobody, Detached
  <2>5. ASSUME NEW s \in Scopes, NEW m \in Messages, Send(s, m) PROVE rows'[j] = rows[j]
    BY <2>5 DEF Send, Stamp
  <2>6. ASSUME NEW s \in Scopes, NEW m \in Messages, SendUnstamped(s, m) PROVE rows'[j] = rows[j]
    BY <2>6 DEF SendUnstamped
  <2>7. ASSUME NEW s \in Scopes, NEW m \in Messages, ReceiveFresh(m, s) PROVE rows'[j] = rows[j]
    BY <2>7 DEF ReceiveFresh, Readable, Set
  <2>8. ASSUME NEW s \in Scopes, NEW m \in Messages, ReceiveReused(m, s) PROVE rows'[j] = rows[j]
    BY <2>8 DEF ReceiveReused, Readable, SameCaller
  <2>9. ASSUME NEW s \in Scopes, NEW m \in Messages, Refuse(m, s) PROVE rows'[j] = rows[j]
    BY <2>9 DEF Refuse, Stopped, Nobody
  <2>10. ASSUME NEW m \in Messages, HandlerEnds(m) PROVE rows'[j] = rows[j]
    BY <2>10 DEF HandlerEnds, Stopped, Nobody
  <2>11. ASSUME NEW s \in Scopes, NEW i \in Ids, Query(s, i) PROVE rows'[j] = rows[j]
    BY <2>11 DEF Query, Entry, CurrentTenantFilter
  <2>12. ASSUME NEW s \in Scopes, NEW i \in Ids, Track(s, i) PROVE rows'[j] = rows[j]
    BY <2>12 DEF Track, Entry
  <2>13. ASSUME NEW s \in Scopes, NEW i \in Ids, Change(s, i) PROVE rows'[j] = rows[j]
    BY <2>13 DEF Change, Entry
  <2>14. ASSUME NEW s \in Scopes, NEW i \in Ids, Remove(s, i) PROVE rows'[j] = rows[j]
    BY <2>14 DEF Remove, Entry, Detached
  <2>15. ASSUME NEW s \in Scopes, SaveChanges(s) PROVE rows'[j] = rows[j]
    BY <2>15 DEF SaveChanges, Dirty, Written, Accepted, Detached, EnforceTenantIsolation, Isolated, RowFound
  <2> QED
    BY <2>1, <2>2, <2>3, <2>4, <2>5, <2>6, <2>7, <2>8, <2>9, <2>10, <2>11, <2>12, <2>13, <2>14, <2>15 DEF Next
<1>2. IInv /\ [Next]_vars =>
        [\A i \in Ids : rows[i] # NoRow /\ rows'[i] # NoRow => rows'[i] = rows[i]]_vars
  BY <1>1
<1> QED
  BY <1>2, Inductive, PTL DEF Spec, RowsKeepTheirTenant
=============================================================================
