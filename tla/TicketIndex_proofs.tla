------------------------ MODULE TicketIndex_proofs -------------------------
(* Proofs about TicketIndex, for any sets of requests, back-channel calls, *)
(* keys and sids and any combination of faults.                            *)
EXTENDS TicketIndex, TLAPS

-----------------------------------------------------------------------------
(***************************************************************************)
(* The inductive invariant.  Behind the guard no request reaches the       *)
(* cookie handler with a session cookie, so a sign-in always mints a key;  *)
(* keys not minted yet are in no ticket and no set; a RemoveAsync that     *)
(* knows a sid knows the right one; and a logout at work is of a session   *)
(* that has ended, so what is stored meanwhile is of an ended session too. *)
(***************************************************************************)
Deleting == {"guardRead", "guardDelete", "signOutRead", "signOutDelete"}

GuardHolds ==
  \A r \in Requests :
    /\ resumed[r] = NoKey
    /\ pc[r] \in Deleting => header[r] \in minted
    /\ pc[r] \notin Deleting => header[r] = NoKey

MintedOnly ==
  /\ \A k \in Keys \ minted : ticket[k] = Absent
  /\ \A s \in Sids : index[s] \subseteq minted
  /\ \A c \in Calls : members[c] \subseteq minted
  /\ late \subseteq minted

RemoveKnowsSid ==
  \A r \in Requests :
    pc[r] \in {"guardDelete", "signOutDelete"} =>
      sid[r] = NoSid \/ ticket[header[r]] \in {sid[r], Absent}

CallsHaveSid ==
  \A c \in Calls :
    /\ pc[c] \in {"idle", "smembers", "removeAll"}
    /\ pc[c] # "idle" => sid[c] \in Sids \ alive
    /\ pc[c] # "removeAll" => members[c] = {}

(* What a call has read is everything its sid owns, but for the tickets    *)
(* stored while a logout of that sid was at work.                          *)
MembersComplete ==
  \A c \in Calls : pc[c] = "removeAll" =>
    \A k \in Keys : ticket[k] = sid[c] => k \in members[c] \/ k \in late

LateAreEnded == \A k \in late : ticket[k] \notin alive

IInv ==
  /\ TypeOK /\ GuardHolds /\ MintedOnly /\ RemoveKnowsSid /\ CallsHaveSid
  /\ IndexNamesOwnSid /\ EveryTicketIndexed /\ MembersComplete
  /\ LateAreEnded

(* Each part is preserved by every step.                                   *)
(* The types are preserved: a key being removed is one that was minted.   *)
LEMMA TypeStep ==
  ASSUME TypeOK, GuardHolds, CallsHaveSid, [Next]_vars PROVE TypeOK'
<1> USE ConstantsAssumption DEF TypeOK, Procs, Owners, Steps, GuardHolds, Deleting, CallsHaveSid
<1> USE DEF Goto, Respond, Answer
<1>1. CASE UNCHANGED vars
  BY <1>1 DEF vars
<1>2. ASSUME NEW r \in Requests, StartCallback(r) PROVE TypeOK'
  BY <1>2 DEF StartCallback, GuardApplies
<1>3. ASSUME NEW r \in Requests, GuardSkips(r) PROVE TypeOK'
  BY <1>3 DEF GuardSkips
<1>4. ASSUME NEW r \in Requests, StartSignOut(r) PROVE TypeOK'
  BY <1>4 DEF StartSignOut, Live
<1>5. ASSUME NEW r \in Requests, RemoveRead(r) PROVE TypeOK'
  BY <1>5 DEF RemoveRead, Retrieve
<1>6. ASSUME NEW r \in Requests, RemoveDelete(r) PROVE TypeOK'
  BY <1>6 DEF RemoveDelete, SetRemove
<1>7. ASSUME NEW r \in Requests, RemoveFails(r) PROVE TypeOK'
  BY <1>7 DEF RemoveFails, SetRemove
<1>8. ASSUME NEW r \in Requests, CodeExchange(r) PROVE TypeOK'
  BY <1>8 DEF CodeExchange
<1>9. ASSUME NEW r \in Requests, ExchangeFails(r) PROVE TypeOK'
  BY <1>9 DEF ExchangeFails
<1>10. ASSUME NEW r \in Requests, EnsureCookieTicket(r) PROVE TypeOK'
  BY <1>10 DEF EnsureCookieTicket, Live
<1>11. ASSUME NEW r \in Requests, Store(r) PROVE TypeOK'
  BY <1>11 DEF Store, SessionKey, WriteTicket, SetAdd, BeingLoggedOut
<1>12. ASSUME NEW r \in Requests, StoreFails(r) PROVE TypeOK'
  BY <1>12 DEF StoreFails, SessionKey, WriteTicket, SetAdd, BeingLoggedOut
<1>13. ASSUME NEW c \in Calls, StartBackchannel(c) PROVE TypeOK'
  BY <1>13 DEF StartBackchannel
<1>14. ASSUME NEW c \in Calls, SMembers(c) PROVE TypeOK'
  BY <1>14 DEF SMembers
<1>15. ASSUME NEW c \in Calls, RemoveAll(c) PROVE TypeOK'
  BY <1>15 DEF RemoveAll, DeleteMembers
<1>16. ASSUME NEW c \in Calls, RemoveAllFails(c) PROVE TypeOK'
  BY <1>16 DEF RemoveAllFails
<1>17. ASSUME NEW s \in Sids, KeycloakEnds(s) PROVE TypeOK'
  BY <1>17 DEF KeycloakEnds
<1>18. ASSUME NEW s \in Sids, IndexExpires(s) PROVE TypeOK'
  BY <1>18 DEF IndexExpires
<1>19. ASSUME NEW k \in Keys, TicketExpires(k) PROVE TypeOK'
  BY <1>19 DEF TicketExpires, Live
<1> QED
  BY <1>1, <1>2, <1>3, <1>4, <1>5, <1>6, <1>7, <1>8, <1>9, <1>10, <1>11, <1>12, <1>13, <1>14, <1>15, <1>16, <1>17, <1>18, <1>19 DEF Next, RequestStep, CallStep

(* The fixation guard: no cookie gets past it.                            *)
LEMMA GuardHoldsStep ==
  ASSUME TypeOK, GuardHolds, [Next]_vars PROVE GuardHolds'
<1> USE ConstantsAssumption DEF TypeOK, Procs, Owners, GuardHolds, Deleting
<1> USE DEF Goto, Respond, Answer
<1>1. CASE UNCHANGED vars
  BY <1>1 DEF vars
<1>2. ASSUME NEW r \in Requests, StartCallback(r) PROVE GuardHolds'
  BY <1>2 DEF StartCallback, GuardApplies
<1>3. ASSUME NEW r \in Requests, GuardSkips(r) PROVE GuardHolds'
  BY <1>3 DEF GuardSkips
<1>4. ASSUME NEW r \in Requests, StartSignOut(r) PROVE GuardHolds'
  BY <1>4 DEF StartSignOut, Live
<1>5. ASSUME NEW r \in Requests, RemoveRead(r) PROVE GuardHolds'
  BY <1>5 DEF RemoveRead, Retrieve
<1>6. ASSUME NEW r \in Requests, RemoveDelete(r) PROVE GuardHolds'
  BY <1>6 DEF RemoveDelete, SetRemove
<1>7. ASSUME NEW r \in Requests, RemoveFails(r) PROVE GuardHolds'
  BY <1>7 DEF RemoveFails, SetRemove
<1>8. ASSUME NEW r \in Requests, CodeExchange(r) PROVE GuardHolds'
  BY <1>8 DEF CodeExchange
<1>9. ASSUME NEW r \in Requests, ExchangeFails(r) PROVE GuardHolds'
  BY <1>9 DEF ExchangeFails
<1>10. ASSUME NEW r \in Requests, EnsureCookieTicket(r) PROVE GuardHolds'
  BY <1>10 DEF EnsureCookieTicket, Live
<1>11. ASSUME NEW r \in Requests, Store(r) PROVE GuardHolds'
  BY <1>11 DEF Store, SessionKey, WriteTicket, SetAdd, BeingLoggedOut
<1>12. ASSUME NEW r \in Requests, StoreFails(r) PROVE GuardHolds'
  BY <1>12 DEF StoreFails, SessionKey, WriteTicket, SetAdd, BeingLoggedOut
<1>13. ASSUME NEW c \in Calls, StartBackchannel(c) PROVE GuardHolds'
  BY <1>13 DEF StartBackchannel
<1>14. ASSUME NEW c \in Calls, SMembers(c) PROVE GuardHolds'
  BY <1>14 DEF SMembers
<1>15. ASSUME NEW c \in Calls, RemoveAll(c) PROVE GuardHolds'
  BY <1>15 DEF RemoveAll, DeleteMembers
<1>16. ASSUME NEW c \in Calls, RemoveAllFails(c) PROVE GuardHolds'
  BY <1>16 DEF RemoveAllFails
<1>17. ASSUME NEW s \in Sids, KeycloakEnds(s) PROVE GuardHolds'
  BY <1>17 DEF KeycloakEnds
<1>18. ASSUME NEW s \in Sids, IndexExpires(s) PROVE GuardHolds'
  BY <1>18 DEF IndexExpires
<1>19. ASSUME NEW k \in Keys, TicketExpires(k) PROVE GuardHolds'
  BY <1>19 DEF TicketExpires, Live
<1> QED
  BY <1>1, <1>2, <1>3, <1>4, <1>5, <1>6, <1>7, <1>8, <1>9, <1>10, <1>11, <1>12, <1>13, <1>14, <1>15, <1>16, <1>17, <1>18, <1>19 DEF Next, RequestStep, CallStep

(* Keys that were never minted are used nowhere.                          *)
LEMMA MintedOnlyStep ==
  ASSUME TypeOK, GuardHolds, CallsHaveSid, MintedOnly, [Next]_vars PROVE MintedOnly'
<1> USE ConstantsAssumption DEF TypeOK, Procs, Owners, CallsHaveSid, GuardHolds, Deleting, MintedOnly
<1> USE DEF Goto, Respond, Answer
<1>1. CASE UNCHANGED vars
  BY <1>1 DEF vars
<1>2. ASSUME NEW r \in Requests, StartCallback(r) PROVE MintedOnly'
  BY <1>2 DEF StartCallback, GuardApplies
<1>3. ASSUME NEW r \in Requests, GuardSkips(r) PROVE MintedOnly'
  BY <1>3 DEF GuardSkips
<1>4. ASSUME NEW r \in Requests, StartSignOut(r) PROVE MintedOnly'
  BY <1>4 DEF StartSignOut, Live
<1>5. ASSUME NEW r \in Requests, RemoveRead(r) PROVE MintedOnly'
  BY <1>5 DEF RemoveRead, Retrieve
<1>6. ASSUME NEW r \in Requests, RemoveDelete(r) PROVE MintedOnly'
  BY <1>6 DEF RemoveDelete, SetRemove
<1>7. ASSUME NEW r \in Requests, RemoveFails(r) PROVE MintedOnly'
  BY <1>7 DEF RemoveFails, SetRemove
<1>8. ASSUME NEW r \in Requests, CodeExchange(r) PROVE MintedOnly'
  BY <1>8 DEF CodeExchange
<1>9. ASSUME NEW r \in Requests, ExchangeFails(r) PROVE MintedOnly'
  BY <1>9 DEF ExchangeFails
<1>10. ASSUME NEW r \in Requests, EnsureCookieTicket(r) PROVE MintedOnly'
  BY <1>10 DEF EnsureCookieTicket, Live
<1>11. ASSUME NEW r \in Requests, Store(r) PROVE MintedOnly'
  BY <1>11 DEF Store, SessionKey, WriteTicket, SetAdd, BeingLoggedOut
<1>12. ASSUME NEW r \in Requests, StoreFails(r) PROVE MintedOnly'
  BY <1>12 DEF StoreFails, SessionKey, WriteTicket, SetAdd, BeingLoggedOut
<1>13. ASSUME NEW c \in Calls, StartBackchannel(c) PROVE MintedOnly'
  BY <1>13 DEF StartBackchannel
<1>14. ASSUME NEW c \in Calls, SMembers(c) PROVE MintedOnly'
  BY <1>14 DEF SMembers
<1>15. ASSUME NEW c \in Calls, RemoveAll(c) PROVE MintedOnly'
  BY <1>15 DEF RemoveAll, DeleteMembers
<1>16. ASSUME NEW c \in Calls, RemoveAllFails(c) PROVE MintedOnly'
  BY <1>16 DEF RemoveAllFails
<1>17. ASSUME NEW s \in Sids, KeycloakEnds(s) PROVE MintedOnly'
  BY <1>17 DEF KeycloakEnds
<1>18. ASSUME NEW s \in Sids, IndexExpires(s) PROVE MintedOnly'
  BY <1>18 DEF IndexExpires
<1>19. ASSUME NEW k \in Keys, TicketExpires(k) PROVE MintedOnly'
  BY <1>19 DEF TicketExpires, Live
<1> QED
  BY <1>1, <1>2, <1>3, <1>4, <1>5, <1>6, <1>7, <1>8, <1>9, <1>10, <1>11, <1>12, <1>13, <1>14, <1>15, <1>16, <1>17, <1>18, <1>19 DEF Next, RequestStep, CallStep

(* A RemoveAsync that learnt a sid still has the right one.               *)
LEMMA RemoveKnowsSidStep ==
  ASSUME TypeOK, GuardHolds, MintedOnly, RemoveKnowsSid, [Next]_vars PROVE RemoveKnowsSid'
<1> USE ConstantsAssumption DEF TypeOK, Procs, Owners, GuardHolds, Deleting, MintedOnly, RemoveKnowsSid
<1> USE DEF Goto, Respond, Answer
<1>1. CASE UNCHANGED vars
  BY <1>1 DEF vars
<1>2. ASSUME NEW r \in Requests, StartCallback(r) PROVE RemoveKnowsSid'
  BY <1>2 DEF StartCallback, GuardApplies
<1>3. ASSUME NEW r \in Requests, GuardSkips(r) PROVE RemoveKnowsSid'
  BY <1>3 DEF GuardSkips
<1>4. ASSUME NEW r \in Requests, StartSignOut(r) PROVE RemoveKnowsSid'
  BY <1>4 DEF StartSignOut, Live
<1>5. ASSUME NEW r \in Requests, RemoveRead(r) PROVE RemoveKnowsSid'
  BY <1>5 DEF RemoveRead, Retrieve
<1>6. ASSUME NEW r \in Requests, RemoveDelete(r) PROVE RemoveKnowsSid'
  BY <1>6 DEF RemoveDelete, SetRemove
<1>7. ASSUME NEW r \in Requests, RemoveFails(r) PROVE RemoveKnowsSid'
  BY <1>7 DEF RemoveFails, SetRemove
<1>8. ASSUME NEW r \in Requests, CodeExchange(r) PROVE RemoveKnowsSid'
  BY <1>8 DEF CodeExchange
<1>9. ASSUME NEW r \in Requests, ExchangeFails(r) PROVE RemoveKnowsSid'
  BY <1>9 DEF ExchangeFails
<1>10. ASSUME NEW r \in Requests, EnsureCookieTicket(r) PROVE RemoveKnowsSid'
  BY <1>10 DEF EnsureCookieTicket, Live
<1>11. ASSUME NEW r \in Requests, Store(r) PROVE RemoveKnowsSid'
  BY <1>11 DEF Store, SessionKey, WriteTicket, SetAdd, BeingLoggedOut
<1>12. ASSUME NEW r \in Requests, StoreFails(r) PROVE RemoveKnowsSid'
  BY <1>12 DEF StoreFails, SessionKey, WriteTicket, SetAdd, BeingLoggedOut
<1>13. ASSUME NEW c \in Calls, StartBackchannel(c) PROVE RemoveKnowsSid'
  BY <1>13 DEF StartBackchannel
<1>14. ASSUME NEW c \in Calls, SMembers(c) PROVE RemoveKnowsSid'
  BY <1>14 DEF SMembers
<1>15. ASSUME NEW c \in Calls, RemoveAll(c) PROVE RemoveKnowsSid'
  BY <1>15 DEF RemoveAll, DeleteMembers
<1>16. ASSUME NEW c \in Calls, RemoveAllFails(c) PROVE RemoveKnowsSid'
  BY <1>16 DEF RemoveAllFails
<1>17. ASSUME NEW s \in Sids, KeycloakEnds(s) PROVE RemoveKnowsSid'
  BY <1>17 DEF KeycloakEnds
<1>18. ASSUME NEW s \in Sids, IndexExpires(s) PROVE RemoveKnowsSid'
  BY <1>18 DEF IndexExpires
<1>19. ASSUME NEW k \in Keys, TicketExpires(k) PROVE RemoveKnowsSid'
  BY <1>19 DEF TicketExpires, Live
<1> QED
  BY <1>1, <1>2, <1>3, <1>4, <1>5, <1>6, <1>7, <1>8, <1>9, <1>10, <1>11, <1>12, <1>13, <1>14, <1>15, <1>16, <1>17, <1>18, <1>19 DEF Next, RequestStep, CallStep

(* A back-channel call at work has a sid, and members only to delete.     *)
LEMMA CallsHaveSidStep ==
  ASSUME TypeOK, CallsHaveSid, [Next]_vars PROVE CallsHaveSid'
<1> USE ConstantsAssumption DEF TypeOK, Procs, Owners, CallsHaveSid
<1> USE DEF Goto, Respond, Answer
<1>1. CASE UNCHANGED vars
  BY <1>1 DEF vars
<1>2. ASSUME NEW r \in Requests, StartCallback(r) PROVE CallsHaveSid'
  BY <1>2 DEF StartCallback, GuardApplies
<1>3. ASSUME NEW r \in Requests, GuardSkips(r) PROVE CallsHaveSid'
  BY <1>3 DEF GuardSkips
<1>4. ASSUME NEW r \in Requests, StartSignOut(r) PROVE CallsHaveSid'
  BY <1>4 DEF StartSignOut, Live
<1>5. ASSUME NEW r \in Requests, RemoveRead(r) PROVE CallsHaveSid'
  BY <1>5 DEF RemoveRead, Retrieve
<1>6. ASSUME NEW r \in Requests, RemoveDelete(r) PROVE CallsHaveSid'
  BY <1>6 DEF RemoveDelete, SetRemove
<1>7. ASSUME NEW r \in Requests, RemoveFails(r) PROVE CallsHaveSid'
  BY <1>7 DEF RemoveFails, SetRemove
<1>8. ASSUME NEW r \in Requests, CodeExchange(r) PROVE CallsHaveSid'
  BY <1>8 DEF CodeExchange
<1>9. ASSUME NEW r \in Requests, ExchangeFails(r) PROVE CallsHaveSid'
  BY <1>9 DEF ExchangeFails
<1>10. ASSUME NEW r \in Requests, EnsureCookieTicket(r) PROVE CallsHaveSid'
  BY <1>10 DEF EnsureCookieTicket, Live
<1>11. ASSUME NEW r \in Requests, Store(r) PROVE CallsHaveSid'
  BY <1>11 DEF Store, SessionKey, WriteTicket, SetAdd, BeingLoggedOut
<1>12. ASSUME NEW r \in Requests, StoreFails(r) PROVE CallsHaveSid'
  BY <1>12 DEF StoreFails, SessionKey, WriteTicket, SetAdd, BeingLoggedOut
<1>13. ASSUME NEW c \in Calls, StartBackchannel(c) PROVE CallsHaveSid'
  BY <1>13 DEF StartBackchannel
<1>14. ASSUME NEW c \in Calls, SMembers(c) PROVE CallsHaveSid'
  BY <1>14 DEF SMembers
<1>15. ASSUME NEW c \in Calls, RemoveAll(c) PROVE CallsHaveSid'
  BY <1>15 DEF RemoveAll, DeleteMembers
<1>16. ASSUME NEW c \in Calls, RemoveAllFails(c) PROVE CallsHaveSid'
  BY <1>16 DEF RemoveAllFails
<1>17. ASSUME NEW s \in Sids, KeycloakEnds(s) PROVE CallsHaveSid'
  BY <1>17 DEF KeycloakEnds
<1>18. ASSUME NEW s \in Sids, IndexExpires(s) PROVE CallsHaveSid'
  BY <1>18 DEF IndexExpires
<1>19. ASSUME NEW k \in Keys, TicketExpires(k) PROVE CallsHaveSid'
  BY <1>19 DEF TicketExpires, Live
<1> QED
  BY <1>1, <1>2, <1>3, <1>4, <1>5, <1>6, <1>7, <1>8, <1>9, <1>10, <1>11, <1>12, <1>13, <1>14, <1>15, <1>16, <1>17, <1>18, <1>19 DEF Next, RequestStep, CallStep

(* Index sets and the sets calls have read name their own sid's tickets.  *)
LEMMA OwnSidStep ==
  ASSUME TypeOK, GuardHolds, MintedOnly, CallsHaveSid, IndexNamesOwnSid, [Next]_vars PROVE IndexNamesOwnSid'
<1> USE ConstantsAssumption DEF TypeOK, Procs, Owners, GuardHolds, Deleting, MintedOnly, CallsHaveSid, IndexNamesOwnSid
<1> USE DEF Goto, Respond, Answer
<1>1. CASE UNCHANGED vars
  BY <1>1 DEF vars
<1>2. ASSUME NEW r \in Requests, StartCallback(r) PROVE IndexNamesOwnSid'
  BY <1>2 DEF StartCallback, GuardApplies
<1>3. ASSUME NEW r \in Requests, GuardSkips(r) PROVE IndexNamesOwnSid'
  BY <1>3 DEF GuardSkips
<1>4. ASSUME NEW r \in Requests, StartSignOut(r) PROVE IndexNamesOwnSid'
  BY <1>4 DEF StartSignOut, Live
<1>5. ASSUME NEW r \in Requests, RemoveRead(r) PROVE IndexNamesOwnSid'
  BY <1>5 DEF RemoveRead, Retrieve
<1>6. ASSUME NEW r \in Requests, RemoveDelete(r) PROVE IndexNamesOwnSid'
  BY <1>6 DEF RemoveDelete, SetRemove
<1>7. ASSUME NEW r \in Requests, RemoveFails(r) PROVE IndexNamesOwnSid'
  BY <1>7 DEF RemoveFails, SetRemove
<1>8. ASSUME NEW r \in Requests, CodeExchange(r) PROVE IndexNamesOwnSid'
  BY <1>8 DEF CodeExchange
<1>9. ASSUME NEW r \in Requests, ExchangeFails(r) PROVE IndexNamesOwnSid'
  BY <1>9 DEF ExchangeFails
<1>10. ASSUME NEW r \in Requests, EnsureCookieTicket(r) PROVE IndexNamesOwnSid'
  BY <1>10 DEF EnsureCookieTicket, Live
<1>11. ASSUME NEW r \in Requests, Store(r) PROVE IndexNamesOwnSid'
  BY <1>11 DEF Store, SessionKey, WriteTicket, SetAdd, BeingLoggedOut
<1>12. ASSUME NEW r \in Requests, StoreFails(r) PROVE IndexNamesOwnSid'
  BY <1>12 DEF StoreFails, SessionKey, WriteTicket, SetAdd, BeingLoggedOut
<1>13. ASSUME NEW c \in Calls, StartBackchannel(c) PROVE IndexNamesOwnSid'
  BY <1>13 DEF StartBackchannel
<1>14. ASSUME NEW c \in Calls, SMembers(c) PROVE IndexNamesOwnSid'
  BY <1>14 DEF SMembers
<1>15. ASSUME NEW c \in Calls, RemoveAll(c) PROVE IndexNamesOwnSid'
  BY <1>15 DEF RemoveAll, DeleteMembers
<1>16. ASSUME NEW c \in Calls, RemoveAllFails(c) PROVE IndexNamesOwnSid'
  BY <1>16 DEF RemoveAllFails
<1>17. ASSUME NEW s \in Sids, KeycloakEnds(s) PROVE IndexNamesOwnSid'
  BY <1>17 DEF KeycloakEnds
<1>18. ASSUME NEW s \in Sids, IndexExpires(s) PROVE IndexNamesOwnSid'
  BY <1>18 DEF IndexExpires
<1>19. ASSUME NEW k \in Keys, TicketExpires(k) PROVE IndexNamesOwnSid'
  BY <1>19 DEF TicketExpires, Live
<1> QED
  BY <1>1, <1>2, <1>3, <1>4, <1>5, <1>6, <1>7, <1>8, <1>9, <1>10, <1>11, <1>12, <1>13, <1>14, <1>15, <1>16, <1>17, <1>18, <1>19 DEF Next, RequestStep, CallStep

(* Tickets stay indexed, and a call's members stay complete.              *)
LEMMA IndexedStep ==
  ASSUME IInv, [Next]_vars PROVE (EveryTicketIndexed /\ MembersComplete)'
<1> USE ConstantsAssumption DEF IInv, TypeOK, Procs, Owners, GuardHolds, Deleting, MintedOnly, RemoveKnowsSid, CallsHaveSid, EveryTicketIndexed, MembersComplete, IndexNamesOwnSid
<1> USE DEF Goto, Respond, Answer
<1>1. CASE UNCHANGED vars
  BY <1>1 DEF vars
<1>2. ASSUME NEW r \in Requests, StartCallback(r) PROVE (EveryTicketIndexed /\ MembersComplete)'
  BY <1>2 DEF StartCallback, GuardApplies
<1>3. ASSUME NEW r \in Requests, GuardSkips(r) PROVE (EveryTicketIndexed /\ MembersComplete)'
  BY <1>3 DEF GuardSkips
<1>4. ASSUME NEW r \in Requests, StartSignOut(r) PROVE (EveryTicketIndexed /\ MembersComplete)'
  BY <1>4 DEF StartSignOut, Live
<1>5. ASSUME NEW r \in Requests, RemoveRead(r) PROVE (EveryTicketIndexed /\ MembersComplete)'
  BY <1>5 DEF RemoveRead, Retrieve
<1>6. ASSUME NEW r \in Requests, RemoveDelete(r) PROVE (EveryTicketIndexed /\ MembersComplete)'
  BY <1>6 DEF RemoveDelete, SetRemove
<1>7. ASSUME NEW r \in Requests, RemoveFails(r) PROVE (EveryTicketIndexed /\ MembersComplete)'
  BY <1>7 DEF RemoveFails, SetRemove
<1>8. ASSUME NEW r \in Requests, CodeExchange(r) PROVE (EveryTicketIndexed /\ MembersComplete)'
  BY <1>8 DEF CodeExchange
<1>9. ASSUME NEW r \in Requests, ExchangeFails(r) PROVE (EveryTicketIndexed /\ MembersComplete)'
  BY <1>9 DEF ExchangeFails
<1>10. ASSUME NEW r \in Requests, EnsureCookieTicket(r) PROVE (EveryTicketIndexed /\ MembersComplete)'
  BY <1>10 DEF EnsureCookieTicket, Live
<1>11. ASSUME NEW r \in Requests, Store(r) PROVE (EveryTicketIndexed /\ MembersComplete)'
  BY <1>11 DEF Store, SessionKey, WriteTicket, SetAdd, BeingLoggedOut
<1>12. ASSUME NEW r \in Requests, StoreFails(r) PROVE (EveryTicketIndexed /\ MembersComplete)'
  BY <1>12 DEF StoreFails, SessionKey, WriteTicket, SetAdd, BeingLoggedOut
<1>13. ASSUME NEW c \in Calls, StartBackchannel(c) PROVE (EveryTicketIndexed /\ MembersComplete)'
  BY <1>13 DEF StartBackchannel
<1>14. ASSUME NEW c \in Calls, SMembers(c) PROVE (EveryTicketIndexed /\ MembersComplete)'
  BY <1>14 DEF SMembers
<1>15. ASSUME NEW c \in Calls, RemoveAll(c) PROVE (EveryTicketIndexed /\ MembersComplete)'
  BY <1>15 DEF RemoveAll, DeleteMembers
<1>16. ASSUME NEW c \in Calls, RemoveAllFails(c) PROVE (EveryTicketIndexed /\ MembersComplete)'
  BY <1>16 DEF RemoveAllFails
<1>17. ASSUME NEW s \in Sids, KeycloakEnds(s) PROVE (EveryTicketIndexed /\ MembersComplete)'
  BY <1>17 DEF KeycloakEnds
<1>18. ASSUME NEW s \in Sids, IndexExpires(s) PROVE (EveryTicketIndexed /\ MembersComplete)'
  BY <1>18 DEF IndexExpires
<1>19. ASSUME NEW k \in Keys, TicketExpires(k) PROVE (EveryTicketIndexed /\ MembersComplete)'
  BY <1>19 DEF TicketExpires, Live
<1> QED
  BY <1>1, <1>2, <1>3, <1>4, <1>5, <1>6, <1>7, <1>8, <1>9, <1>10, <1>11, <1>12, <1>13, <1>14, <1>15, <1>16, <1>17, <1>18, <1>19 DEF Next, RequestStep, CallStep

(* What is stored during a logout is of a session that has ended.         *)
LEMMA LateStep ==
  ASSUME TypeOK, GuardHolds, MintedOnly, CallsHaveSid, LateAreEnded, [Next]_vars
  PROVE  LateAreEnded'
<1> USE ConstantsAssumption DEF TypeOK, Procs, Owners, GuardHolds, Deleting, MintedOnly, CallsHaveSid, LateAreEnded
<1> USE DEF Goto, Respond, Answer
<1>1. CASE UNCHANGED vars
  BY <1>1 DEF vars
<1>2. ASSUME NEW r \in Requests, StartCallback(r) PROVE LateAreEnded'
  BY <1>2 DEF StartCallback, GuardApplies
<1>3. ASSUME NEW r \in Requests, GuardSkips(r) PROVE LateAreEnded'
  BY <1>3 DEF GuardSkips
<1>4. ASSUME NEW r \in Requests, StartSignOut(r) PROVE LateAreEnded'
  BY <1>4 DEF StartSignOut, Live
<1>5. ASSUME NEW r \in Requests, RemoveRead(r) PROVE LateAreEnded'
  BY <1>5 DEF RemoveRead, Retrieve
<1>6. ASSUME NEW r \in Requests, RemoveDelete(r) PROVE LateAreEnded'
  BY <1>6 DEF RemoveDelete, SetRemove
<1>7. ASSUME NEW r \in Requests, RemoveFails(r) PROVE LateAreEnded'
  BY <1>7 DEF RemoveFails, SetRemove
<1>8. ASSUME NEW r \in Requests, CodeExchange(r) PROVE LateAreEnded'
  BY <1>8 DEF CodeExchange
<1>9. ASSUME NEW r \in Requests, ExchangeFails(r) PROVE LateAreEnded'
  BY <1>9 DEF ExchangeFails
<1>10. ASSUME NEW r \in Requests, EnsureCookieTicket(r) PROVE LateAreEnded'
  BY <1>10 DEF EnsureCookieTicket, Live
<1>11. ASSUME NEW r \in Requests, Store(r) PROVE LateAreEnded'
  BY <1>11 DEF Store, SessionKey, WriteTicket, SetAdd, BeingLoggedOut
<1>12. ASSUME NEW r \in Requests, StoreFails(r) PROVE LateAreEnded'
  BY <1>12 DEF StoreFails, SessionKey, WriteTicket, SetAdd, BeingLoggedOut
<1>13. ASSUME NEW c \in Calls, StartBackchannel(c) PROVE LateAreEnded'
  BY <1>13 DEF StartBackchannel
<1>14. ASSUME NEW c \in Calls, SMembers(c) PROVE LateAreEnded'
  BY <1>14 DEF SMembers
<1>15. ASSUME NEW c \in Calls, RemoveAll(c) PROVE LateAreEnded'
  BY <1>15 DEF RemoveAll, DeleteMembers
<1>16. ASSUME NEW c \in Calls, RemoveAllFails(c) PROVE LateAreEnded'
  BY <1>16 DEF RemoveAllFails
<1>17. ASSUME NEW s \in Sids, KeycloakEnds(s) PROVE LateAreEnded'
  BY <1>17 DEF KeycloakEnds
<1>18. ASSUME NEW s \in Sids, IndexExpires(s) PROVE LateAreEnded'
  BY <1>18 DEF IndexExpires
<1>19. ASSUME NEW k \in Keys, TicketExpires(k) PROVE LateAreEnded'
  BY <1>19 DEF TicketExpires, Live
<1> QED
  BY <1>1, <1>2, <1>3, <1>4, <1>5, <1>6, <1>7, <1>8, <1>9, <1>10, <1>11, <1>12, <1>13, <1>14, <1>15, <1>16, <1>17, <1>18, <1>19 DEF Next, RequestStep, CallStep

-----------------------------------------------------------------------------
(* The invariant holds initially and every step preserves it.              *)
LEMMA Inductive == Spec => []IInv
<1>1. Init => IInv
  BY ConstantsAssumption
  DEF Init, IInv, TypeOK, Steps, Procs, Owners, GuardHolds, Deleting,
      MintedOnly, RemoveKnowsSid, CallsHaveSid, IndexNamesOwnSid,
      EveryTicketIndexed, MembersComplete, LateAreEnded
<1>2. IInv /\ [Next]_vars => IInv'
  BY TypeStep, GuardHoldsStep, MintedOnlyStep, RemoveKnowsSidStep,
     CallsHaveSidStep, OwnSidStep, IndexedStep, LateStep
  DEF IInv
<1> QED
  BY <1>1, <1>2, PTL DEF Spec

(* Every state is well typed: in particular RemoveAsync and the back-      *)
(* channel calls only ever use keys and sids that exist.                   *)
THEOREM TypeCorrect == Spec => []TypeOK
<1>1. IInv => TypeOK
  BY DEF IInv
<1> QED
  BY <1>1, Inductive, PTL

(* A back-channel logout can delete tickets of its own sid only, whatever  *)
(* stale members failed reads have left in the index.                      *)
THEOREM LogoutStaysInItsSession == Spec => []IndexNamesOwnSid
<1>1. IInv => IndexNamesOwnSid
  BY DEF IInv
<1> QED
  BY <1>1, Inductive, PTL

(* Every ticket is in its sid's set, whatever reads and writes fail, unless *)
(* it was stored between the two steps of a logout of that sid.             *)
THEOREM LogoutFindsEveryTicket == Spec => []EveryTicketIndexed
<1>1. IInv => EveryTicketIndexed
  BY DEF IInv
<1> QED
  BY <1>1, Inductive, PTL

(* As long as Keycloak's session lives, each of its tickets is in the set   *)
(* its back-channel logout will read: sign-ins that race logouts, replayed  *)
(* calls and failed commands lose tickets of ended sessions only.           *)
THEOREM LiveSessionsCanBeLoggedOut == Spec => []LostTicketsAreEnded
<1>1. IInv => LostTicketsAreEnded
  BY DEF IInv, TypeOK, EveryTicketIndexed, LateAreEnded, LostTicketsAreEnded
<1> QED
  BY <1>1, Inductive, PTL

(* A key never changes hands and never comes back: the fixation guard and  *)
(* the fresh key of StoreAsync at work.                                    *)
THEOREM KeysAreNeverRebound == Spec => KeyIdentityStable
<1>1. IInv /\ [Next]_vars
        => [\A k \in minted : ticket'[k] \in {ticket[k], Absent}]_vars
  <2> SUFFICES ASSUME IInv, [Next]_vars, NEW q \in minted
               PROVE  ticket'[q] \in {ticket[q], Absent}
    OBVIOUS
  <2> USE DEF IInv, TypeOK, GuardHolds, Deleting
  <2>1. CASE UNCHANGED vars
    BY <2>1 DEF vars
  <2>2. ASSUME NEW r \in Requests, StartCallback(r) PROVE ticket'[q] \in {ticket[q], Absent}
    BY <2>2 DEF StartCallback, GuardApplies
  <2>3. ASSUME NEW r \in Requests, GuardSkips(r) PROVE ticket'[q] \in {ticket[q], Absent}
    BY <2>3 DEF GuardSkips
  <2>4. ASSUME NEW r \in Requests, StartSignOut(r) PROVE ticket'[q] \in {ticket[q], Absent}
    BY <2>4 DEF StartSignOut, Live
  <2>5. ASSUME NEW r \in Requests, RemoveRead(r) PROVE ticket'[q] \in {ticket[q], Absent}
    BY <2>5 DEF RemoveRead, Retrieve
  <2>6. ASSUME NEW r \in Requests, RemoveDelete(r) PROVE ticket'[q] \in {ticket[q], Absent}
    BY <2>6 DEF RemoveDelete, SetRemove
  <2>7. ASSUME NEW r \in Requests, RemoveFails(r) PROVE ticket'[q] \in {ticket[q], Absent}
    BY <2>7 DEF RemoveFails, SetRemove
  <2>8. ASSUME NEW r \in Requests, CodeExchange(r) PROVE ticket'[q] \in {ticket[q], Absent}
    BY <2>8 DEF CodeExchange
  <2>9. ASSUME NEW r \in Requests, ExchangeFails(r) PROVE ticket'[q] \in {ticket[q], Absent}
    BY <2>9 DEF ExchangeFails
  <2>10. ASSUME NEW r \in Requests, EnsureCookieTicket(r) PROVE ticket'[q] \in {ticket[q], Absent}
    BY <2>10 DEF EnsureCookieTicket, Live
  <2>11. ASSUME NEW r \in Requests, Store(r) PROVE ticket'[q] \in {ticket[q], Absent}
    BY <2>11 DEF Store, SessionKey, WriteTicket, SetAdd, BeingLoggedOut
  <2>12. ASSUME NEW r \in Requests, StoreFails(r) PROVE ticket'[q] \in {ticket[q], Absent}
    BY <2>12 DEF StoreFails, SessionKey, WriteTicket, SetAdd, BeingLoggedOut
  <2>13. ASSUME NEW c \in Calls, StartBackchannel(c) PROVE ticket'[q] \in {ticket[q], Absent}
    BY <2>13 DEF StartBackchannel
  <2>14. ASSUME NEW c \in Calls, SMembers(c) PROVE ticket'[q] \in {ticket[q], Absent}
    BY <2>14 DEF SMembers
  <2>15. ASSUME NEW c \in Calls, RemoveAll(c) PROVE ticket'[q] \in {ticket[q], Absent}
    BY <2>15 DEF RemoveAll, DeleteMembers
  <2>16. ASSUME NEW c \in Calls, RemoveAllFails(c) PROVE ticket'[q] \in {ticket[q], Absent}
    BY <2>16 DEF RemoveAllFails
  <2>17. ASSUME NEW s \in Sids, KeycloakEnds(s) PROVE ticket'[q] \in {ticket[q], Absent}
    BY <2>17 DEF KeycloakEnds
  <2>18. ASSUME NEW s \in Sids, IndexExpires(s) PROVE ticket'[q] \in {ticket[q], Absent}
    BY <2>18 DEF IndexExpires
  <2>19. ASSUME NEW k \in Keys, TicketExpires(k) PROVE ticket'[q] \in {ticket[q], Absent}
    BY <2>19 DEF TicketExpires, Live
  <2> QED
    BY <2>1, <2>2, <2>3, <2>4, <2>5, <2>6, <2>7, <2>8, <2>9, <2>10, <2>11, <2>12, <2>13, <2>14, <2>15, <2>16, <2>17, <2>18, <2>19 DEF Next, RequestStep, CallStep
<1> QED
  BY <1>1, Inductive, PTL DEF Spec, KeyIdentityStable
=============================================================================
