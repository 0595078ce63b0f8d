---------------------------- MODULE Access_proofs ----------------------------
(***************************************************************************)
(* Proofs about sessions, cached decisions and the permissions of the      *)
(* document, for any users, connections, requests and lifetimes.           *)
(***************************************************************************)
EXTENDS Access, TLAPS

-----------------------------------------------------------------------------
(* The permissions of the document *)

\* A request that arrives is well-formed and at its first query.
LEMMA ArrivalType ==
  ASSUME NEW r \in Requests
  PROVE  r \in InFlight
BY DEF Requests, Request, InFlight, Grantable

\* A request in flight is a record: a slot that is not in flight is Idle.
LEMMA RequestType ==
  ASSUME DocTypeOK, NEW q \in Slots, requests[q] # Idle
  PROVE  requests[q] \in InFlight
BY DEF DocTypeOK

\* A request goes to its next query or is done.
LEMMA GotoType ==
  ASSUME DocTypeOK, NEW q \in Slots, requests[q] # Idle,
         NEW at \in {"caller", "target", "write", "answer"},
         Goto(q, at) \/ Done(q)
  PROVE  requests' \in [Slots -> {Idle} \cup InFlight]
<1>1. [requests[q] EXCEPT !.at = at] \in InFlight
  BY RequestType DEF InFlight
<1>2. CASE Goto(q, at)
  BY <1>1, <1>2 DEF Goto, DocTypeOK
<1>3. CASE Done(q)
  BY <1>3 DEF Done, DocTypeOK
<1> QED
  BY <1>2, <1>3

\* The permissions keep their type and their one owner through every query.
LEMMA QueryKeepsDocument ==
  ASSUME DocTypeOK, OwnersAgree, NEW q \in Slots,
         CallerChecked(q) \/ TargetChecked(q) \/ Write(q) \/ Fail(q)
  PROVE  DocTypeOK' /\ OwnersAgree'
<1>1. CASE CallerChecked(q)
  <2>1. requests[q] # Idle /\ UNCHANGED <<perm, document, handled, errors>>
    BY <1>1 DEF CallerChecked
  <2>2. Goto(q, "target") \/ Goto(q, "write") \/ Done(q)
    BY <1>1 DEF CallerChecked
  <2> QED
    BY <2>1, <2>2, GotoType DEF DocTypeOK, OwnersAgree
<1>2. CASE TargetChecked(q)
  <2>1. requests[q] # Idle /\ UNCHANGED <<perm, document, handled, errors>>
    BY <1>2 DEF TargetChecked
  <2>2. Goto(q, "write") \/ Done(q)
    BY <1>2 DEF TargetChecked
  <2> QED
    BY <2>1, <2>2, GotoType DEF DocTypeOK, OwnersAgree
<1>3. CASE Write(q)
  <2> DEFINE r == requests[q]
  <2>1. /\ r # Idle /\ UNCHANGED <<handled, errors>>
        /\ r.caller \in Users /\ r.target \in Users
        /\ r.kind = "grant" => r.role \in Grantable
    BY <1>3, RequestType DEF Write, InFlight
  <2>2. CASE r.kind = "grant" /\ GrantPermission(q)
    <3>1. requests' \in [Slots -> {Idle} \cup InFlight]
      BY <2>1, <2>2, GotoType DEF GrantPermission
    <3>2. perm' = [perm EXCEPT ![r.target] = r.role] /\ UNCHANGED document
      BY <2>2 DEF GrantPermission
    <3> QED
      BY <2>1, <2>2, <3>1, <3>2 DEF DocTypeOK, OwnersAgree, Grantable, Roles
  <2>3. CASE r.kind = "revoke" /\ RevokePermission(q)
    <3>1. requests' \in [Slots -> {Idle} \cup InFlight]
      BY <2>1, <2>3, GotoType DEF RevokePermission
    <3>2. perm' = [perm EXCEPT ![r.target] = "none"] /\ UNCHANGED document
      BY <2>3 DEF RevokePermission
    <3> QED
      BY <2>1, <2>3, <3>1, <3>2 DEF DocTypeOK, OwnersAgree, Roles
  <2>4. CASE r.kind = "transfer" /\ TransferOwnershipForUser(q)
    <3>1. requests' \in [Slots -> {Idle} \cup InFlight]
      BY <2>1, <2>4, GotoType DEF TransferOwnershipForUser
    <3>2. CASE OwnerUnderLock(r) /\ TransferOwnership(r)
      <4>1. /\ perm[r.caller] = "owner" /\ document.owner = r.caller /\ ~document.closed
            /\ \A u \in Users : perm[u] = "owner" => u = r.caller
        BY <2>1, <3>2 DEF OwnerUnderLock, OwnersAgree
      <4>2. /\ perm' = [perm EXCEPT ![r.caller] = "editor", ![r.target] = "owner"]
            /\ document' = [document EXCEPT !.owner = r.target]
        BY <3>2 DEF TransferOwnership
      <4>3. perm' \in [Users -> Roles \cup {"none"}]
        BY <2>1, <4>2 DEF DocTypeOK, Roles
      <4>4. document' \in [owner : Users, closed : BOOLEAN] /\ document'.owner = r.target
            /\ document'.closed = document.closed
        BY <2>1, <4>2 DEF DocTypeOK
      <4>5. \A u \in Users : perm'[u] = "owner" => u = r.target
        BY <2>1, <4>1, <4>2 DEF DocTypeOK
      <4> QED
        BY <2>1, <3>1, <4>1, <4>3, <4>4, <4>5 DEF DocTypeOK, OwnersAgree
    <3>3. CASE UNCHANGED <<perm, document>>
      BY <2>1, <3>1, <3>3 DEF DocTypeOK, OwnersAgree
    <3> QED
      BY <2>4, <3>2, <3>3 DEF TransferOwnershipForUser
  <2>5. CASE r.kind = "delete" /\ RevokeDocumentAccess(q)
    <3>1. requests' \in [Slots -> {Idle} \cup InFlight]
      BY <2>1, <2>5, GotoType DEF RevokeDocumentAccess
    <3>2. perm' = [u \in Users |-> "none"] /\ document' = [document EXCEPT !.closed = TRUE]
      BY <2>5 DEF RevokeDocumentAccess
    <3> QED
      BY <2>1, <3>1, <3>2 DEF DocTypeOK, OwnersAgree
  <2> QED
    BY <1>3, <2>2, <2>3, <2>4, <2>5 DEF Write
<1>4. CASE Fail(q)
  <2>1. requests' \in [Slots -> {Idle} \cup InFlight]
    BY <1>4, GotoType DEF Fail
  <2>2. errors' \in 0..MaxErrors
    BY <1>4, DocumentsAssumption DEF Fail, DocTypeOK
  <2> QED
    BY <1>4, <2>1, <2>2 DEF Fail, DocTypeOK, OwnersAgree
<1> QED
  BY <1>1, <1>2, <1>3, <1>4

-----------------------------------------------------------------------------
(* Well-formedness *)

\* The sessions, decisions, lookups and ages: what TypeOK says beyond the document.
SessionType ==
  [stage : {"none", "ticket", "warming", "looking", "looked", "joined", "gone"},
   user : Users, role : Roles \cup {"none"},
   open : BOOLEAN, closing : BOOLEAN, had : BOOLEAN]

LookupType ==
  [at : {"asked", "read"}, session : Sessions, role : Roles \cup {"none"}, age : 0..TTL]

\* A lookup in flight is a record: only NoLookup has no session.
LEMMA LookupInFlight ==
  ASSUME TypeOK, NEW l \in Lookups, lookup[l].at \in {"asked", "read"}
  PROVE  lookup[l] \in LookupType
BY DEF TypeOK, NoLookup, LookupType

\* The records that the steps of a connection make of a session.
LEMMA SessionFields ==
  ASSUME NEW e \in SessionType, NEW b \in BOOLEAN, NEW role \in Roles \cup {"none"},
         NEW stage \in {"none", "ticket", "warming", "looking", "looked", "joined", "gone"}
  PROVE  /\ [e EXCEPT !.stage = stage, !.open = TRUE, !.had = b] \in SessionType
         /\ [e EXCEPT !.stage = stage] \in SessionType
         /\ [e EXCEPT !.stage = stage, !.open = FALSE] \in SessionType
         /\ [e EXCEPT !.stage = stage, !.role = role] \in SessionType
         /\ [e EXCEPT !.role = role] \in SessionType
         /\ [e EXCEPT !.closing = b] \in SessionType
         /\ [e EXCEPT !.had = b] \in SessionType
         /\ [e EXCEPT !.open = FALSE, !.stage = IF @ = "joined" THEN "gone" ELSE @] \in SessionType
<1>1. [e EXCEPT !.stage = stage, !.open = TRUE, !.had = b] \in SessionType
  BY DEF SessionType
<1>2. [e EXCEPT !.stage = stage] \in SessionType /\ [e EXCEPT !.role = role] \in SessionType
  BY DEF SessionType
<1>3. [e EXCEPT !.stage = stage, !.open = FALSE] \in SessionType
  BY DEF SessionType
<1>4. [e EXCEPT !.stage = stage, !.role = role] \in SessionType
  BY DEF SessionType
<1>5. [e EXCEPT !.closing = b] \in SessionType
  BY DEF SessionType
<1>6. [e EXCEPT !.had = b] \in SessionType
  BY DEF SessionType
<1>7. [e EXCEPT !.open = FALSE, !.stage = IF @ = "joined" THEN "gone" ELSE @] \in SessionType
  BY DEF SessionType
<1> QED
  BY <1>1, <1>2, <1>3, <1>4, <1>5, <1>6, <1>7

\* What the roles pushed by an answer are: a role for the users concerned.
LEMMA PushedType ==
  ASSUME NEW r \in InFlight, r.kind # "delete"
  PROVE  \A u \in DOMAIN RolesPushed(r) : RolesPushed(r)[u] \in Roles
<1>1. CASE r.kind = "grant"
  BY <1>1 DEF RolesPushed, InFlight, Grantable, Roles
<1>2. CASE r.kind = "revoke"
  BY <1>2 DEF RolesPushed, Roles
<1>3. CASE r.kind = "transfer"
  BY <1>3 DEF RolesPushed, Roles
<1> QED
  BY <1>1, <1>2, <1>3 DEF InFlight

\* An answer changes the role of sessions, or that they are being closed, and
\* leaves no decision where it changed a role.
LEMMA AnswerEffect ==
  ASSUME TypeOK, NEW q \in Slots, Answer(q)
  PROVE  /\ session' \in [Sessions -> SessionType]
         /\ \A s \in Sessions :
              /\ session'[s].stage = session[s].stage /\ session'[s].user = session[s].user
              /\ session'[s].had = session[s].had
              /\ \/ cache'[s] = cache[s] /\ session'[s].role = session[s].role
                 \/ cache'[s] = None
         /\ cache' \in [Sessions -> [allowed : BOOLEAN, age : 0..TTL]]
         /\ UNCHANGED <<perm, document, handled, errors, lookup, since>> /\ Done(q)
<1> DEFINE r == requests[q]
<1>1. /\ r \in InFlight /\ session \in [Sessions -> SessionType]
      /\ cache \in [Sessions -> [allowed : BOOLEAN, age : 0..TTL]]
      /\ None \in [allowed : BOOLEAN, age : 0..TTL]
  BY RequestType, AccessAssumption DEF Answer, TypeOK, SessionType, None
<1>2. CASE r.kind = "delete"
  <2>1. session' = [s \in Sessions |->
          IF At(s, "joined") /\ session[s].open THEN [session[s] EXCEPT !.closing = TRUE]
          ELSE session[s]]
    BY <1>2 DEF Answer, DisconnectAllSessions
  <2>2. session' \in [Sessions -> SessionType]
    BY <1>1, <2>1, SessionFields
  <2>3. \A s \in Sessions :
          /\ session'[s].stage = session[s].stage /\ session'[s].user = session[s].user
          /\ session'[s].had = session[s].had /\ session'[s].role = session[s].role
    BY <1>1, <2>1 DEF SessionType
  <2> QED
    BY <1>1, <1>2, <2>2, <2>3 DEF Answer, DisconnectAllSessions
<1>3. CASE r.kind # "delete"
  <2> DEFINE roleOf == RolesPushed(r)
             live == SessionsByUserId(DOMAIN roleOf)
  <2>1. /\ session' = [s \in Sessions |->
             IF s \in live THEN [session[s] EXCEPT !.role = roleOf[session[s].user]]
             ELSE session[s]]
        /\ cache' = [s \in Sessions |-> IF s \in live THEN None ELSE cache[s]]
    BY <1>3 DEF Answer, PushPermissionChanged, SetSessionRoleLive
  <2>2. \A s \in live : roleOf[session[s].user] \in Roles
    BY <1>1, <1>3, PushedType DEF SessionsByUserId
  <2> HIDE DEF roleOf, live
  <2> QED
    BY <1>1, <2>1, <2>2 DEF Answer, SessionType
<1> QED
  BY <1>2, <1>3 DEF Answer

\* Every step keeps the types and the one owner of the document.
LEMMA WellFormedStep ==
  ASSUME WellFormed, [Next]_vars
  PROVE  WellFormed'
<1> USE DEF WellFormed
<1>1. /\ session \in [Sessions -> SessionType]
      /\ cache \in [Sessions -> [allowed : BOOLEAN, age : 0..TTL]]
      /\ lookup \in [Lookups -> {NoLookup} \cup LookupType]
      /\ since \in [Users -> 0..TTL]
      /\ None \in [allowed : BOOLEAN, age : 0..TTL] /\ 0 \in 0..TTL
  BY AccessAssumption DEF TypeOK, SessionType, LookupType, None
<1>2. ASSUME /\ session' \in [Sessions -> SessionType]
             /\ cache' \in [Sessions -> [allowed : BOOLEAN, age : 0..TTL]]
             /\ lookup' \in [Lookups -> {NoLookup} \cup LookupType]
             /\ since' \in [Users -> 0..TTL]
             /\ DocTypeOK' /\ OwnersAgree'
      PROVE  WellFormed'
  BY <1>2 DEF TypeOK, SessionType, LookupType, NoLookup
<1>3. ASSUME UNCHANGED docVars PROVE DocTypeOK' /\ OwnersAgree'
  BY <1>3 DEF TypeOK, docVars, DocTypeOK, OwnersAgree, InFlight
<1>4. ASSUME NEW q \in Slots, Arrive(q), UNCHANGED <<session, cache, lookup, since>>
      PROVE  WellFormed'
  <2>1. requests' \in [Slots -> {Idle} \cup InFlight]
    BY <1>4, ArrivalType DEF Arrive, TypeOK, DocTypeOK
  <2>2. handled' \in 0..MaxRequests
    BY <1>4, DocumentsAssumption DEF Arrive, TypeOK, DocTypeOK
  <2>3. DocTypeOK' /\ OwnersAgree'
    BY <1>4, <2>1, <2>2 DEF Arrive, TypeOK, DocTypeOK, OwnersAgree, InFlight
  <2> QED
    BY <1>1, <1>2, <1>4, <2>3
<1>5. ASSUME NEW q \in Slots, Query(q) PROVE WellFormed'
  <2>1. DocTypeOK' /\ OwnersAgree'
    BY <1>5, QueryKeepsDocument DEF Query, TypeOK
  <2>2. session' \in [Sessions -> SessionType]
    <3>1. \A s \in Sessions : [session[s] EXCEPT !.had = TRUE] \in SessionType
      BY <1>1, SessionFields
    <3> QED
      BY <1>1, <1>5, <3>1 DEF Query
  <2>3. since' \in [Users -> 0..TTL] /\ UNCHANGED <<cache, lookup>>
    BY <1>1, <1>5 DEF Query
  <2> QED
    BY <1>1, <1>2, <2>1, <2>2, <2>3
<1>6. ASSUME NEW q \in Slots, Answer(q) PROVE WellFormed'
  <2>1. /\ session' \in [Sessions -> SessionType]
        /\ cache' \in [Sessions -> [allowed : BOOLEAN, age : 0..TTL]]
        /\ UNCHANGED <<perm, document, handled, errors, lookup, since>>
        /\ requests' = [requests EXCEPT ![q] = Idle]
    BY <1>6, AnswerEffect DEF Done
  <2>2. DocTypeOK' /\ OwnersAgree'
    BY <2>1 DEF TypeOK, DocTypeOK, OwnersAgree, InFlight
  <2> QED
    BY <1>1, <1>2, <2>1, <2>2
<1>7. ASSUME NEW s \in Sessions, NEW u \in Users, IssueTicket(s, u) PROVE WellFormed'
  <2>1. Ticket(u) \in SessionType
    BY DEF Ticket, NoSession, SessionType
  <2>2. session' \in [Sessions -> SessionType] /\ UNCHANGED <<docVars, cache, lookup, since>>
    BY <1>1, <1>7, <2>1 DEF IssueTicket
  <2> QED
    BY <1>1, <1>2, <1>3, <2>2
<1>8. ASSUME NEW s \in Sessions,
             Hello(s) \/ Warmed(s) \/ RoleRead(s) \/ Joined(s) \/ SocketCloses(s)
      PROVE  WellFormed'
  <2>1. \A e \in SessionType : [session EXCEPT ![s] = e] \in [Sessions -> SessionType]
    BY <1>1
  <2>2. [NoSession EXCEPT !.stage = "gone"] \in SessionType
    BY DocumentsAssumption DEF NoSession, SessionType
  <2>3. Hello(s) => session' \in [Sessions -> SessionType]
    <3>1. Consumed(s) \in SessionType
      BY <1>1, SessionFields DEF Consumed
    <3> QED
      BY <1>1, <2>2, <3>1 DEF Hello
  <2>4. Warmed(s) => session' \in [Sessions -> SessionType]
    BY <1>1 DEF Warmed, SessionType
  <2>5. RoleRead(s) => session' \in [Sessions -> SessionType]
    <3>1. perm[session[s].user] \in Roles \cup {"none"}
      BY <1>1 DEF SessionType, TypeOK, DocTypeOK
    <3>2. /\ [session[s] EXCEPT !.stage = "gone", !.open = FALSE] \in SessionType
          /\ [session[s] EXCEPT !.stage = "looked", !.role = perm[session[s].user]] \in SessionType
      BY <1>1, <3>1, SessionFields
    <3>3. RoleRead(s) =>
            \/ session' = [session EXCEPT ![s] =
                           [session[s] EXCEPT !.stage = "gone", !.open = FALSE]]
            \/ session' = [session EXCEPT ![s] =
                           [session[s] EXCEPT !.stage = "looked", !.role = perm[session[s].user]]]
      BY <1>1 DEF RoleRead
    <3> QED
      BY <2>1, <3>2, <3>3
  <2>6. Joined(s) => session' \in [Sessions -> SessionType]
    BY <1>1 DEF Joined, SessionType
  <2>7. SocketCloses(s) => session' \in [Sessions -> SessionType]
    <3>1. SocketCloses(s) => session' = [session EXCEPT ![s] =
            [session[s] EXCEPT !.open = FALSE, !.stage = IF @ = "joined" THEN "gone" ELSE @]]
      BY <1>1 DEF SocketCloses
    <3>2. [session[s] EXCEPT !.open = FALSE, !.stage = IF @ = "joined" THEN "gone" ELSE @]
            \in SessionType
      BY <1>1, SessionFields
    <3> QED
      BY <2>1, <3>1, <3>2
  <2>8. UNCHANGED <<docVars, cache, lookup, since>>
    BY <1>8 DEF Hello, Warmed, RoleRead, Joined, SocketCloses
  <2> QED
    BY <1>1, <1>2, <1>3, <1>8, <2>3, <2>4, <2>5, <2>6, <2>7, <2>8
<1>9. ASSUME NEW l \in Lookups, NEW s \in Sessions, Authorize(l, s) PROVE WellFormed'
  <2>1. lookup' \in [Lookups -> {NoLookup} \cup LookupType]
    BY <1>1, <1>9 DEF Authorize, LookupType
  <2> QED
    BY <1>1, <1>2, <1>3, <1>9, <2>1 DEF Authorize
<1>10. ASSUME NEW l \in Lookups, LookupReads(l) PROVE WellFormed'
  <2>1. lookup[l] \in LookupType
    BY <1>10, LookupInFlight DEF LookupReads
  <2>2. perm[session[lookup[l].session].user] \in Roles \cup {"none"}
    BY <1>1, <2>1 DEF LookupType, SessionType, TypeOK, DocTypeOK
  <2>3. lookup' \in [Lookups -> {NoLookup} \cup LookupType]
    BY <1>1, <1>10, <2>1, <2>2 DEF LookupReads, LookupType
  <2> QED
    BY <1>1, <1>2, <1>3, <1>10, <2>3 DEF LookupReads
<1>11. ASSUME NEW l \in Lookups, LookupEnds(l) PROVE WellFormed'
  <2>1. lookup[l] \in LookupType
    BY <1>11, LookupInFlight DEF LookupEnds
  <2>2. Decision(l) \in [allowed : BOOLEAN, age : 0..TTL]
    BY <1>1, <2>1 DEF Decision, LookupType, CanWrite
  <2>3. cache' \in [Sessions -> [allowed : BOOLEAN, age : 0..TTL]]
    BY <1>1, <1>11, <2>2 DEF LookupEnds
  <2>4. session' \in [Sessions -> SessionType]
    <3> DEFINE role == IF lookup[l].role = "none" THEN "viewer" ELSE lookup[l].role
               s == lookup[l].session
    <3>1. role \in Roles \cup {"none"} /\ s \in Sessions
      BY <2>1 DEF LookupType, Roles
    <3>2. [session[s] EXCEPT !.role = role] \in SessionType
      BY <1>1, <3>1, SessionFields
    <3>3. session' = [session EXCEPT ![s] = [session[s] EXCEPT !.role = role]]
      BY <1>11 DEF LookupEnds
    <3> HIDE DEF role, s
    <3> QED
      BY <1>1, <3>2, <3>3
  <2>5. lookup' \in [Lookups -> {NoLookup} \cup LookupType]
    BY <1>1, <1>11 DEF LookupEnds
  <2> QED
    BY <1>1, <1>2, <1>3, <1>11, <2>3, <2>4, <2>5 DEF LookupEnds
<1>12. ASSUME NEW l \in Lookups, LookupFails(l) PROVE WellFormed'
  <2>1. lookup' \in [Lookups -> {NoLookup} \cup LookupType]
    BY <1>1, <1>12 DEF LookupFails
  <2>2. errors' \in 0..MaxErrors
    BY <1>12, DocumentsAssumption DEF LookupFails, TypeOK, DocTypeOK
  <2>3. DocTypeOK' /\ OwnersAgree'
    BY <1>12, <2>2 DEF LookupFails, TypeOK, DocTypeOK, OwnersAgree, InFlight
  <2> QED
    BY <1>1, <1>2, <1>12, <2>1, <2>3 DEF LookupFails
<1>13. CASE Tick
  <2>1. \A age \in 0..TTL : Older(age) \in 0..TTL
    BY AccessAssumption DEF Older
  <2>2. \A s \in Sessions : Older(cache[s].age) # TTL => cache[s].age + 1 \in 0..TTL
    BY <1>1, AccessAssumption DEF Older
  <2>3. cache' \in [Sessions -> [allowed : BOOLEAN, age : 0..TTL]]
    BY <1>1, <1>13, <2>2 DEF Tick
  <2>4. \A l \in Lookups : lookup[l] # NoLookup =>
          [lookup[l] EXCEPT !.age = Older(@)] \in LookupType
    BY <1>1, <2>1 DEF LookupType
  <2>5. lookup' \in [Lookups -> {NoLookup} \cup LookupType]
    BY <1>13, <2>4 DEF Tick
  <2>6. since' \in [Users -> 0..TTL]
    BY <1>1, <1>13, <2>1 DEF Tick
  <2> QED
    BY <1>1, <1>2, <1>3, <1>13, <2>3, <2>5, <2>6 DEF Tick
<1>14. CASE UNCHANGED vars
  BY <1>1, <1>2, <1>3, <1>14 DEF vars
<1> QED
  BY <1>4, <1>5, <1>6, <1>7, <1>8, <1>9, <1>10, <1>11, <1>12, <1>13, <1>14 DEF Next

-----------------------------------------------------------------------------
(* Decisions and admissions *)

Settled(s) == session[s].stage \in {"joined", "gone"}

\* Who may write now could write just now.
SinceFollows == \A u \in Users : CanWrite(perm[u]) => since[u] = 0

\* Decisions and lookups are only about sessions whose handshake is over, and
\* which will not change their user any more.
DecidedAfterHandshake ==
  /\ \A s \in Sessions : Fresh(s) => Settled(s)
  /\ \A l \in Lookups : lookup[l] # NoLookup => Settled(lookup[l].session)

\* A role that was read and allows writing was the user's less than the
\* lookup's age ago: the decision made of it will be stamped with that age.
LookupsRecent ==
  \A l \in Lookups :
    lookup[l].at = "read" /\ CanWrite(lookup[l].role) =>
      since[session[lookup[l].session].user] <= lookup[l].age

\* had is set before the handshake reads a role, and when it reads one.
Rechecked ==
  \A s \in Sessions :
    /\ session[s].stage \in {"warming", "looking"} /\ perm[session[s].user] # "none" =>
         session[s].had
    /\ session[s].stage \in {"looked", "joined"} => session[s].had

\* What is said of ages and decisions.
Aged ==
  /\ SinceFollows /\ DecidedAfterHandshake /\ LookupsRecent
  /\ AllowedRecently /\ RoleMatchesDecision

IInv == WellFormed /\ Aged /\ Rechecked

\* A step of a handshake concerns one session that has not settled, or closes
\* the socket of one that has.
Handshake(s, u) ==
  \/ IssueTicket(s, u) \/ Hello(s) \/ Warmed(s) \/ RoleRead(s) \/ Joined(s)
  \/ SocketCloses(s)

\* A step of a handshake touches no right, and no session that is already settled.
LEMMA HandshakeEffect ==
  ASSUME WellFormed, NEW s \in Sessions, NEW u \in Users, Handshake(s, u)
  PROVE  /\ UNCHANGED <<docVars, cache, lookup, since>>
         /\ \A t \in Sessions : Settled(t) =>
              Settled(t)' /\ session'[t].user = session[t].user
                         /\ session'[t].role = session[t].role
<1>1. session \in [Sessions -> SessionType]
  BY DEF WellFormed, TypeOK, SessionType
<1>2. UNCHANGED <<docVars, cache, lookup, since>>
  BY DEF Handshake, IssueTicket, Hello, Warmed, RoleRead, Joined, SocketCloses
<1>3. \A t \in Sessions \ {s} : session'[t] = session[t]
  BY <1>1 DEF Handshake, IssueTicket, Hello, Warmed, RoleRead, Joined, SocketCloses
<1>4. Settled(s) => SocketCloses(s)
  BY DEF Handshake, IssueTicket, Hello, Warmed, RoleRead, Joined, Settled, At
<1>5. SocketCloses(s) => session'[s].user = session[s].user /\ session'[s].role = session[s].role
                          /\ session'[s].stage \in {session[s].stage, "gone"}
  BY <1>1 DEF SocketCloses, SessionType
<1> QED
  BY <1>2, <1>3, <1>4, <1>5 DEF Settled

\* Steps that leave the decisions and the lookups alone, and by which no user
\* is longer without the right to write.
LEMMA QuietStep ==
  ASSUME IInv, WellFormed', UNCHANGED <<cache, lookup>>,
         \A u \in Users : since'[u] <= since[u] /\ (CanWrite(perm'[u]) => since'[u] = 0),
         \A t \in Sessions : Settled(t) =>
           Settled(t)' /\ session'[t].user = session[t].user /\ session'[t].role = session[t].role
  PROVE  Aged'
<1>1. /\ session \in [Sessions -> SessionType] /\ session' \in [Sessions -> SessionType]
      /\ cache \in [Sessions -> [allowed : BOOLEAN, age : 0..TTL]]
      /\ lookup \in [Lookups -> {NoLookup} \cup LookupType]
      /\ since \in [Users -> 0..TTL] /\ since' \in [Users -> 0..TTL]
  BY DEF IInv, WellFormed, TypeOK, SessionType, LookupType
<1>2. SinceFollows'
  BY DEF SinceFollows
<1>3. DecidedAfterHandshake'
  BY <1>1 DEF IInv, Aged, DecidedAfterHandshake, Fresh, LookupType, Settled
<1>4. LookupsRecent'
  <2> SUFFICES ASSUME NEW l \in Lookups, lookup[l].at = "read", CanWrite(lookup[l].role)
               PROVE  since'[session'[lookup[l].session].user] <= lookup[l].age
    BY DEF LookupsRecent
  <2> DEFINE s == lookup[l].session
  <2>1. lookup[l] \in LookupType /\ lookup[l] # NoLookup
    BY <1>1 DEF NoLookup
  <2>2. s \in Sessions /\ session'[s].user = session[s].user /\ session[s].user \in Users
    BY <1>1, <2>1 DEF IInv, Aged, DecidedAfterHandshake, LookupType, SessionType
  <2>3. since[session[s].user] <= lookup[l].age
    BY DEF IInv, Aged, LookupsRecent
  <2>4. lookup[l].age \in Int /\ since[session[s].user] \in Int /\ since'[session[s].user] \in Int
    BY <1>1, <2>1, <2>2, AccessAssumption DEF LookupType
  <2>5. since'[session[s].user] <= since[session[s].user]
    BY <2>2
  <2> QED
    BY <2>2, <2>3, <2>4, <2>5
<1>5. AllowedRecently'
  <2> SUFFICES ASSUME NEW s \in Sessions, Fresh(s), cache[s].allowed
               PROVE  since'[session'[s].user] <= cache[s].age
    BY DEF AllowedRecently, Fresh
  <2>1. session'[s].user = session[s].user /\ session[s].user \in Users
    BY <1>1 DEF IInv, Aged, DecidedAfterHandshake, SessionType
  <2>2. since[session[s].user] <= cache[s].age
    BY DEF IInv, Aged, AllowedRecently
  <2>3. /\ cache[s].age \in Int /\ since[session[s].user] \in Int
        /\ since'[session[s].user] \in Int /\ since'[session[s].user] <= since[session[s].user]
    BY <1>1, <2>1, AccessAssumption
  <2> QED
    BY <2>1, <2>2, <2>3
<1>6. RoleMatchesDecision'
  BY <1>1 DEF IInv, Aged, RoleMatchesDecision, DecidedAfterHandshake, Fresh
<1> QED
  BY <1>2, <1>3, <1>4, <1>5, <1>6 DEF Aged

\* No step but a Tick takes a user further from the last moment of writing.
LEMMA QueryAges ==
  ASSUME IInv, NEW q \in Slots, Query(q)
  PROVE  \A u \in Users : since'[u] <= since[u] /\ (CanWrite(perm'[u]) => since'[u] = 0)
<1>1. \A u \in Users : since[u] \in 0..TTL
  BY DEF IInv, WellFormed, TypeOK
<1>2. since' = [u \in Users |-> IF CanWrite(perm'[u]) THEN 0 ELSE since[u]]
  BY DEF Query
<1> QED
  BY <1>1, <1>2, AccessAssumption

\* An answer that changes a session's role leaves it without a decision.
LEMMA AnswerStep ==
  ASSUME IInv, WellFormed', NEW q \in Slots, Answer(q)
  PROVE  Aged'
<1>1. /\ \A s \in Sessions :
           /\ session'[s].stage = session[s].stage /\ session'[s].user = session[s].user
           /\ \/ cache'[s] = cache[s] /\ session'[s].role = session[s].role
              \/ cache'[s] = None
      /\ UNCHANGED <<perm, lookup, since>>
  BY AnswerEffect DEF IInv, WellFormed
<1>2. ~(None.age < TTL)
  BY AccessAssumption DEF None
<1>3. \A s \in Sessions : Fresh(s)' =>
        cache'[s] = cache[s] /\ session'[s].role = session[s].role /\ Fresh(s)
  BY <1>1, <1>2 DEF Fresh
<1>4. \A l \in Lookups : lookup[l] # NoLookup => lookup[l].session \in Sessions
  BY DEF IInv, WellFormed, TypeOK
<1>5. SinceFollows' /\ DecidedAfterHandshake'
  BY <1>1, <1>3, <1>4 DEF IInv, Aged, SinceFollows, DecidedAfterHandshake, Settled
<1>6. LookupsRecent'
  BY <1>1, <1>4 DEF IInv, Aged, LookupsRecent, NoLookup
<1>7. AllowedRecently' /\ RoleMatchesDecision'
  BY <1>1, <1>3 DEF IInv, Aged, AllowedRecently, RoleMatchesDecision
<1> QED
  BY <1>5, <1>6, <1>7 DEF Aged

\* A lookup starts, is answered or fails: no decision changes, and the role
\* that is read is the user's of this moment.
LEMMA LookupStep ==
  ASSUME IInv, WellFormed', NEW l \in Lookups,
         (\E s \in Sessions : Authorize(l, s)) \/ LookupReads(l) \/ LookupFails(l)
  PROVE  Aged'
<1>1. /\ lookup \in [Lookups -> {NoLookup} \cup LookupType]
      /\ session \in [Sessions -> SessionType] /\ since \in [Users -> 0..TTL]
  BY DEF IInv, WellFormed, TypeOK, SessionType, LookupType
<1>2. UNCHANGED <<perm, session, cache, since>>
  BY DEF Authorize, LookupReads, LookupFails, docVars
<1>3. SinceFollows' /\ AllowedRecently' /\ RoleMatchesDecision'
  BY <1>2 DEF IInv, Aged, SinceFollows, AllowedRecently, RoleMatchesDecision, Fresh
<1>4. \A k \in Lookups \ {l} : lookup'[k] = lookup[k]
  BY <1>1 DEF Authorize, LookupReads, LookupFails
<1>5. ASSUME NEW s \in Sessions, Authorize(l, s)
      PROVE  DecidedAfterHandshake' /\ LookupsRecent'
  <2>1. lookup'[l] = [at |-> "asked", session |-> s, role |-> "none", age |-> 0] /\ Settled(s)
    BY <1>1, <1>5 DEF Authorize, At, Settled
  <2> QED
    BY <1>2, <1>4, <2>1 DEF IInv, Aged, DecidedAfterHandshake, LookupsRecent, Settled, Fresh
<1>6. ASSUME LookupReads(l) PROVE DecidedAfterHandshake' /\ LookupsRecent'
  <2>1. lookup[l] \in LookupType /\ lookup[l] # NoLookup
    BY <1>6, LookupInFlight DEF IInv, WellFormed, LookupReads, NoLookup
  <2>2. /\ lookup'[l].session = lookup[l].session /\ lookup'[l].age = lookup[l].age
        /\ lookup'[l].role = perm[session[lookup[l].session].user]
    BY <1>1, <1>6, <2>1 DEF LookupReads, LookupType
  <2>3. CanWrite(lookup'[l].role) => since[session[lookup[l].session].user] = 0
    BY <1>1, <2>1, <2>2 DEF IInv, Aged, SinceFollows, LookupType, SessionType
  <2>4. lookup[l].age \in 0..TTL /\ \A n \in 0..TTL : 0 <= n
    BY <2>1, AccessAssumption DEF LookupType
  <2>5. DecidedAfterHandshake'
    BY <1>2, <1>4, <2>1, <2>2 DEF IInv, Aged, DecidedAfterHandshake, Settled, Fresh
  <2>6. LookupsRecent'
    BY <1>2, <1>4, <2>2, <2>3, <2>4 DEF IInv, Aged, LookupsRecent
  <2> QED
    BY <2>5, <2>6
<1>7. ASSUME LookupFails(l) PROVE DecidedAfterHandshake' /\ LookupsRecent'
  <2>1. lookup'[l] = NoLookup
    BY <1>1, <1>7 DEF LookupFails
  <2> QED
    BY <1>2, <1>4, <2>1 DEF IInv, Aged, DecidedAfterHandshake, LookupsRecent, Settled, Fresh, NoLookup
<1> QED
  BY <1>3, <1>5, <1>6, <1>7 DEF Aged

\* A decision is made of the role that was read and of the lookup's age.
LEMMA LookupEndsStep ==
  ASSUME IInv, WellFormed', NEW l \in Lookups, LookupEnds(l)
  PROVE  Aged'
<1> DEFINE role == IF lookup[l].role = "none" THEN "viewer" ELSE lookup[l].role
<1>1. /\ lookup \in [Lookups -> {NoLookup} \cup LookupType]
      /\ session \in [Sessions -> SessionType] /\ since \in [Users -> 0..TTL]
      /\ cache \in [Sessions -> [allowed : BOOLEAN, age : 0..TTL]]
  BY DEF IInv, WellFormed, TypeOK, SessionType, LookupType
<1>2. lookup[l] \in LookupType /\ lookup[l] # NoLookup
  BY LookupInFlight DEF IInv, WellFormed, LookupEnds, NoLookup
<1>3. PICK s \in Sessions : s = lookup[l].session /\ Settled(s)
  BY <1>2 DEF IInv, Aged, DecidedAfterHandshake, LookupType
<1>4. /\ \A t \in Sessions : session'[t].user = session[t].user
                              /\ session'[t].stage = session[t].stage
      /\ session'[s].role = role /\ cache'[s] = Decision(l)
      /\ \A t \in Sessions \ {s} : session'[t] = session[t] /\ cache'[t] = cache[t]
      /\ lookup'[l] = NoLookup /\ \A k \in Lookups \ {l} : lookup'[k] = lookup[k]
      /\ UNCHANGED <<perm, since>>
  BY <1>1, <1>3 DEF LookupEnds, SessionType, docVars
<1>5. CanWrite(role) = CanWrite(lookup[l].role)
  BY DEF CanWrite
<1>6. Fresh(s)' => cache'[s].allowed = CanWrite(lookup[l].role) /\ cache'[s].age = lookup[l].age
  <2>1. CASE lookup[l].age < TTL
    <3>1. cache'[s] = [allowed |-> CanWrite(lookup[l].role), age |-> lookup[l].age]
      BY <1>4, <2>1 DEF Decision
    <3> QED
      BY <3>1
  <2>2. CASE ~(lookup[l].age < TTL)
    BY <1>4, <2>2, AccessAssumption DEF Fresh, Decision, None
  <2> QED
    BY <2>1, <2>2
<1>7. SinceFollows'
  BY <1>4 DEF IInv, Aged, SinceFollows
<1>8. DecidedAfterHandshake'
  BY <1>1, <1>3, <1>4 DEF IInv, Aged, DecidedAfterHandshake, Settled, Fresh, LookupType
<1>9. LookupsRecent'
  <2>1. \A k \in Lookups : lookup[k].at = "read" => lookup[k].session \in Sessions
    BY LookupInFlight DEF IInv, WellFormed, LookupType
  <2> QED
    BY <1>4, <2>1 DEF IInv, Aged, LookupsRecent, NoLookup
<1>10. since[session[s].user] <= lookup[l].age \/ ~CanWrite(lookup[l].role)
  BY <1>3 DEF IInv, Aged, LookupsRecent, LookupEnds
<1>11. AllowedRecently'
  BY <1>4, <1>6, <1>10 DEF IInv, Aged, AllowedRecently, Fresh
<1>12. RoleMatchesDecision'
  BY <1>4, <1>5, <1>6 DEF IInv, Aged, RoleMatchesDecision, Fresh
<1> QED
  BY <1>7, <1>8, <1>9, <1>11, <1>12 DEF Aged

\* Time ages decisions, lookups and the memory of writing alike.
LEMMA TickStep ==
  ASSUME IInv, WellFormed', Tick
  PROVE  Aged'
<1>1. /\ lookup \in [Lookups -> {NoLookup} \cup LookupType]
      /\ session \in [Sessions -> SessionType] /\ since \in [Users -> 0..TTL]
      /\ cache \in [Sessions -> [allowed : BOOLEAN, age : 0..TTL]]
  BY DEF IInv, WellFormed, TypeOK, SessionType, LookupType
<1>2. UNCHANGED <<perm, session>>
  BY DEF Tick, docVars
<1>3. \A u \in Users : since'[u] <= Older(since[u]) /\ (CanWrite(perm[u]) => since'[u] = 0)
  <2>1. since' = [u \in Users |-> IF CanWrite(perm[u]) THEN 0 ELSE Older(since[u])]
    BY DEF Tick
  <2> QED
    BY <1>1, <2>1, AccessAssumption DEF Older
<1>4. \A a, b \in 0..TTL : a <= b => Older(a) <= Older(b)
  BY AccessAssumption DEF Older
<1>5. SinceFollows'
  BY <1>2, <1>3 DEF SinceFollows
<1>6. \A s \in Sessions : Fresh(s)' =>
        /\ Fresh(s) /\ cache'[s].allowed = cache[s].allowed
        /\ cache'[s].age = Older(cache[s].age)
  <2> TAKE s \in Sessions
  <2>1. cache'[s] = IF Older(cache[s].age) = TTL THEN None ELSE [cache[s] EXCEPT !.age = @ + 1]
    BY DEF Tick
  <2>2. cache[s] \in [allowed : BOOLEAN, age : 0..TTL]
    BY <1>1
  <2>3. CASE Older(cache[s].age) = TTL
    BY <2>1, <2>3, AccessAssumption DEF Fresh, None
  <2>4. CASE Older(cache[s].age) # TTL
    <3>1. cache'[s] = [cache[s] EXCEPT !.age = @ + 1]
      BY <2>1, <2>4
    <3>2. cache'[s].allowed = cache[s].allowed /\ cache'[s].age = cache[s].age + 1
      BY <2>2, <3>1
    <3>3. cache[s].age < TTL /\ Older(cache[s].age) = cache[s].age + 1
      BY <2>2, <2>4, AccessAssumption DEF Older
    <3> QED
      BY <3>2, <3>3 DEF Fresh
  <2> QED
    BY <2>3, <2>4
<1>7. \A l \in Lookups :
        /\ lookup[l] = NoLookup => lookup'[l] = NoLookup
        /\ lookup[l] # NoLookup =>
             /\ lookup[l] \in LookupType /\ lookup'[l].at = lookup[l].at
             /\ lookup'[l].session = lookup[l].session /\ lookup'[l].role = lookup[l].role
             /\ lookup'[l].age = Older(lookup[l].age)
  BY <1>1 DEF Tick, LookupType
<1>8. DecidedAfterHandshake'
  BY <1>2, <1>6, <1>7 DEF IInv, Aged, DecidedAfterHandshake, Settled
<1>9. LookupsRecent'
  <2> SUFFICES ASSUME NEW l \in Lookups, lookup'[l].at = "read", CanWrite(lookup'[l].role)
               PROVE  since'[session[lookup'[l].session].user] <= lookup'[l].age
    BY <1>2 DEF LookupsRecent
  <2>1. /\ lookup[l] \in LookupType /\ lookup[l].at = "read" /\ CanWrite(lookup[l].role)
        /\ lookup'[l].session = lookup[l].session /\ lookup'[l].age = Older(lookup[l].age)
    BY <1>7 DEF NoLookup
  <2>2. PICK u \in Users : u = session[lookup[l].session].user
    BY <1>1, <2>1 DEF LookupType, SessionType
  <2>3. since[u] <= lookup[l].age /\ lookup[l].age \in 0..TTL /\ since[u] \in 0..TTL
    BY <1>1, <2>1, <2>2 DEF IInv, Aged, LookupsRecent, LookupType
  <2>4. since'[u] <= Older(since[u]) /\ Older(since[u]) <= Older(lookup[l].age)
    BY <1>3, <1>4, <2>3
  <2>5. since'[u] \in Int /\ Older(since[u]) \in Int /\ Older(lookup[l].age) \in Int
    BY <2>3, AccessAssumption DEF Older, WellFormed, TypeOK
  <2> QED
    BY <2>1, <2>2, <2>4, <2>5
<1>10. AllowedRecently'
  <2> SUFFICES ASSUME NEW s \in Sessions, Fresh(s)', cache'[s].allowed
               PROVE  since'[session[s].user] <= cache'[s].age
    BY <1>2 DEF AllowedRecently
  <2>1. Fresh(s) /\ cache[s].allowed /\ cache'[s].age = Older(cache[s].age)
    BY <1>6
  <2>2. PICK u \in Users : u = session[s].user
    BY <1>1 DEF SessionType
  <2>3. since[u] <= cache[s].age /\ cache[s].age \in 0..TTL /\ since[u] \in 0..TTL
    BY <1>1, <2>1, <2>2 DEF IInv, Aged, AllowedRecently
  <2>4. since'[u] <= Older(since[u]) /\ Older(since[u]) <= Older(cache[s].age)
    BY <1>3, <1>4, <2>3
  <2>5. since'[u] \in Int /\ Older(since[u]) \in Int /\ Older(cache[s].age) \in Int
    BY <2>3, AccessAssumption DEF Older, WellFormed, TypeOK
  <2> QED
    BY <2>1, <2>2, <2>4, <2>5
<1>11. RoleMatchesDecision'
  BY <1>2, <1>6 DEF IInv, Aged, RoleMatchesDecision
<1> QED
  BY <1>5, <1>8, <1>9, <1>10, <1>11 DEF Aged

\* The history of a handshake: what the database said while it went on.
LEMMA RecheckedStep ==
  ASSUME IInv, [Next]_vars
  PROVE  Rechecked'
<1>1. session \in [Sessions -> SessionType]
  BY DEF IInv, WellFormed, TypeOK, SessionType
<1>2. Rechecked
  BY DEF IInv
<1>3. ASSUME UNCHANGED perm,
             \A s \in Sessions : /\ session'[s].stage = session[s].stage
                                 /\ session'[s].user = session[s].user
                                 /\ session'[s].had = session[s].had
      PROVE  Rechecked'
  BY <1>2, <1>3 DEF Rechecked
<1>4. ASSUME NEW s \in Sessions, NEW u \in Users, Handshake(s, u) PROVE Rechecked'
  <2>1. \A t \in Sessions \ {s} : session'[t] = session[t]
    BY <1>1, <1>4 DEF Handshake, IssueTicket, Hello, Warmed, RoleRead, Joined, SocketCloses
  <2>2. UNCHANGED perm
    BY <1>4, HandshakeEffect DEF IInv, docVars
  <2>3. /\ session'[s].stage \in {"warming", "looking"} /\ perm[session'[s].user] # "none" =>
             session'[s].had
        /\ session'[s].stage \in {"looked", "joined"} => session'[s].had
    <3>1. CASE IssueTicket(s, u)
      BY <1>1, <3>1 DEF IssueTicket, Ticket, NoSession
    <3>2. CASE Hello(s)
      <4>1. session'[s].stage = "gone" \/ session'[s] = Consumed(s)
        BY <1>1, <3>2 DEF Hello, NoSession
      <4>2. /\ Consumed(s).stage = "warming" /\ Consumed(s).user = session[s].user
            /\ perm[session[s].user] # "none" => Consumed(s).had
        BY <1>1 DEF Consumed, SessionType
      <4> QED
        BY <4>1, <4>2
    <3>3. CASE Warmed(s)
      BY <1>1, <1>2, <3>3 DEF Warmed, Rechecked, SessionType, At
    <3>4. CASE RoleRead(s)
      BY <1>1, <1>2, <3>4 DEF RoleRead, Rechecked, SessionType, At
    <3>5. CASE Joined(s)
      BY <1>1, <1>2, <3>5 DEF Joined, Rechecked, SessionType, At
    <3>6. CASE SocketCloses(s)
      BY <1>1, <1>2, <3>6 DEF SocketCloses, Rechecked, SessionType
    <3> QED
      BY <1>4, <3>1, <3>2, <3>3, <3>4, <3>5, <3>6 DEF Handshake
  <2> QED
    BY <1>2, <2>1, <2>2, <2>3 DEF Rechecked
<1>5. ASSUME NEW q \in Slots, Query(q) PROVE Rechecked'
  <2> SUFFICES ASSUME NEW s \in Sessions
               PROVE /\ session'[s].stage \in {"warming", "looking"}
                           /\ perm'[session'[s].user] # "none" => session'[s].had
                     /\ session'[s].stage \in {"looked", "joined"} => session'[s].had
    BY DEF Rechecked
  <2>1. session'[s] =
          IF perm'[session[s].user] # "none" /\ session[s].stage \in {"warming", "looking"}
          THEN [session[s] EXCEPT !.had = TRUE] ELSE session[s]
    BY <1>5 DEF Query
  <2>2. session'[s].stage = session[s].stage /\ session'[s].user = session[s].user
    BY <1>1, <2>1 DEF SessionType
  <2>3. session[s].had => session'[s].had
    BY <1>1, <2>1 DEF SessionType
  <2>4. session[s].stage \in {"looked", "joined"} => session[s].had
    BY <1>2 DEF Rechecked
  <2>5. session[s].stage \in {"warming", "looking"} /\ perm'[session[s].user] # "none" =>
          session'[s].had
    BY <1>1, <2>1 DEF SessionType
  <2> QED
    BY <2>2, <2>3, <2>4, <2>5
<1>6. ASSUME NEW q \in Slots, Answer(q) PROVE Rechecked'
  BY <1>3, <1>6, AnswerEffect DEF IInv, WellFormed
<1>7. ASSUME NEW l \in Lookups, LookupEnds(l) PROVE Rechecked'
  <2>1. lookup[l].session \in Sessions
    BY <1>7, LookupInFlight DEF IInv, WellFormed, LookupEnds, LookupType
  <2>2. \A s \in Sessions : /\ session'[s].stage = session[s].stage
                            /\ session'[s].user = session[s].user
                            /\ session'[s].had = session[s].had
    BY <1>1, <1>7, <2>1 DEF LookupEnds, SessionType
  <2> QED
    BY <1>3, <1>7, <2>2 DEF LookupEnds, docVars
<1>8. ASSUME UNCHANGED <<perm, session>> PROVE Rechecked'
  BY <1>3, <1>8
<1>9. ASSUME NEW q \in Slots, Arrive(q), UNCHANGED <<session, cache, lookup, since>>
      PROVE  Rechecked'
  BY <1>8, <1>9 DEF Arrive
<1>10. ASSUME NEW l \in Lookups,
              (\E s \in Sessions : Authorize(l, s)) \/ LookupReads(l) \/ LookupFails(l)
       PROVE  Rechecked'
  BY <1>8, <1>10 DEF Authorize, LookupReads, LookupFails, docVars
<1>11. Tick \/ UNCHANGED vars => UNCHANGED <<perm, session>>
  BY DEF Tick, vars, docVars
<1>12. CASE \E s \in Sessions, u \in Users : Handshake(s, u)
  BY <1>4, <1>12
<1>13. CASE \E s \in Sessions :
              Hello(s) \/ Warmed(s) \/ RoleRead(s) \/ Joined(s) \/ SocketCloses(s)
  BY <1>4, <1>13, DocumentsAssumption DEF Handshake
<1> QED
  BY <1>5, <1>6, <1>7, <1>8, <1>9, <1>10, <1>11, <1>12, <1>13 DEF Next, Handshake

-----------------------------------------------------------------------------
(* The theorems *)

\* The state in which the document was created and nobody is connected.
LEMMA InitIInv == Init => IInv
<1> SUFFICES ASSUME Init PROVE IInv
  OBVIOUS
<1> USE DocumentsAssumption, AccessAssumption
<1>1. DocTypeOK
  BY DEF Init, DocInit, DocTypeOK, Roles
<1>2. OwnersAgree
  BY DEF Init, DocInit, OwnersAgree
<1>3. NoSession \in SessionType /\ None \in [allowed : BOOLEAN, age : 0..TTL]
        /\ 0 \in 0..TTL
  BY DEF NoSession, SessionType, None
<1>4. /\ session \in [Sessions -> SessionType]
      /\ cache \in [Sessions -> [allowed : BOOLEAN, age : 0..TTL]]
      /\ lookup \in [Lookups -> {NoLookup} \cup LookupType] /\ since \in [Users -> 0..TTL]
  BY <1>3 DEF Init
<1>5. WellFormed
  BY <1>1, <1>2, <1>4 DEF WellFormed, TypeOK, SessionType, LookupType
<1>6. \A s \in Sessions : ~Fresh(s)
  BY DEF Init, Fresh, None
<1>7. SinceFollows /\ DecidedAfterHandshake /\ AllowedRecently /\ RoleMatchesDecision
  BY <1>6 DEF Init, SinceFollows, DecidedAfterHandshake, AllowedRecently, RoleMatchesDecision
<1>8. LookupsRecent
  BY DEF Init, LookupsRecent, NoLookup
<1>9. Rechecked
  BY DEF Init, Rechecked, NoSession
<1> QED
  BY <1>5, <1>7, <1>8, <1>9 DEF IInv, Aged

\* Every step keeps the inductive invariant: the requests change rights, the
\* lookups the cache, the handshakes the sessions.
LEMMA IInvStep == IInv /\ [Next]_vars => IInv'
<1> SUFFICES ASSUME IInv, [Next]_vars PROVE IInv'
  OBVIOUS
<1>1. WellFormed' /\ Rechecked'
  BY WellFormedStep, RecheckedStep DEF IInv
<1>2. SinceFollows /\ \A u \in Users : since[u] \in Int
  BY AccessAssumption DEF IInv, Aged, WellFormed, TypeOK
<1>3. ASSUME UNCHANGED <<perm, cache, lookup, since>>,
             \A t \in Sessions : Settled(t) =>
               Settled(t)' /\ session'[t].user = session[t].user
                          /\ session'[t].role = session[t].role
      PROVE  Aged'
  <2>1. \A u \in Users : since'[u] <= since[u] /\ (CanWrite(perm'[u]) => since'[u] = 0)
    BY <1>2, <1>3 DEF SinceFollows
  <2> QED
    BY <1>1, <1>3, <2>1, QuietStep
<1>4. ASSUME UNCHANGED <<perm, session, cache, lookup, since>> PROVE Aged'
  BY <1>3, <1>4 DEF Settled
<1>5. ASSUME NEW s \in Sessions, NEW u \in Users, Handshake(s, u) PROVE Aged'
  BY <1>3, <1>5, HandshakeEffect DEF IInv, docVars
<1>6. ASSUME NEW q \in Slots, Query(q) PROVE Aged'
  <2>1. \A t \in Sessions :
          /\ session'[t].stage = session[t].stage /\ session'[t].user = session[t].user
          /\ session'[t].role = session[t].role
    BY <1>6 DEF Query, IInv, WellFormed, TypeOK
  <2>2. UNCHANGED <<cache, lookup>>
    BY <1>6 DEF Query
  <2> QED
    BY <1>1, <1>6, <2>1, <2>2, QueryAges, QuietStep DEF Settled
<1>7. ASSUME NEW q \in Slots, Answer(q) PROVE Aged'
  BY <1>1, <1>7, AnswerStep
<1>8. ASSUME NEW l \in Lookups, LookupEnds(l) PROVE Aged'
  BY <1>1, <1>8, LookupEndsStep
<1>9. ASSUME NEW l \in Lookups,
             (\E s \in Sessions : Authorize(l, s)) \/ LookupReads(l) \/ LookupFails(l)
      PROVE  Aged'
  BY <1>1, <1>9, LookupStep
<1>10. ASSUME Tick PROVE Aged'
  BY <1>1, <1>10, TickStep
<1>11. ASSUME NEW q \in Slots, Arrive(q), UNCHANGED <<session, cache, lookup, since>>
       PROVE  Aged'
  BY <1>4, <1>11 DEF Arrive
<1>12. ASSUME UNCHANGED vars PROVE Aged'
  BY <1>4, <1>12 DEF vars, docVars
<1>13. ASSUME NEW s \in Sessions,
              Hello(s) \/ Warmed(s) \/ RoleRead(s) \/ Joined(s) \/ SocketCloses(s)
       PROVE  Aged'
  BY <1>5, <1>13, DocumentsAssumption DEF Handshake
<1>14. Aged'
  BY <1>5, <1>6, <1>7, <1>8, <1>9, <1>10, <1>11, <1>12, <1>13 DEF Next, Handshake
<1> QED
  BY <1>1, <1>14 DEF IInv, Aged

\* The inductive invariant holds in every reachable state.
LEMMA AlwaysIInv == Spec => []IInv
BY InitIInv, IInvStep, PTL DEF Spec

\* Every variable keeps its type; nobody but the user documents.owner_id names
\* has the owner's role, and on a deleted document nobody has, however the
\* queries of transfers, grants, revocations and deletions interleave
\* (documentStore.ts transferOwnership(), grantPermission()).
THEOREM WellFormedAlways == Spec => []WellFormed
<1>1. IInv => WellFormed
  BY DEF IInv
<1> QED
  BY <1>1, AlwaysIInv, PTL

\* A cached decision that allows writing was true less than its age ago, and it
\* agrees with the role the session shows, whatever lookups and revocations
\* overtook one another (documentCoordinator.ts authorizeSession(),
\* setSessionRoleLive()).
THEOREM DecisionsHoldAlways == Spec => []DecisionsHold
<1>1. IInv => DecisionsHold
  BY DEF IInv, Aged, DecisionsHold
<1> QED
  BY <1>1, AlwaysIInv, PTL

\* Whoever joins had a role at some moment of this handshake (gateway.ts: the
\* role is read again after the ticket was consumed).
THEOREM AdmissionRecheckedAlways == Spec => []AdmissionRechecked
<1>1. IInv => AdmissionRechecked
  BY DEF IInv, Rechecked, AdmissionRechecked, At
<1> QED
  BY <1>1, AlwaysIInv, PTL

=============================================================================
