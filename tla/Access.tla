------------------------------- MODULE Access -------------------------------
(***************************************************************************)
(* Who may open a session on the document and write in it                  *)
(* (packages/server/src/gateway.ts, ticketStore.ts, and the decision cache *)
(* of documentCoordinator.ts), while REST requests change the permissions  *)
(* (module Documents).                                                     *)
(*                                                                         *)
(* A connection is opened with a ticket; the handshake burns it, waits for *)
(* the document to warm up, looks the user's role up again and joins.  An  *)
(* operation is allowed by a cached decision or by a lookup, which answers *)
(* later: requests are answered, decisions age and other lookups overtake  *)
(* it in between.  Time is a Tick that ages every decision, every lookup   *)
(* and the memory of when a user could last write; the decision lives for  *)
(* TTL ticks.                                                              *)
(***************************************************************************)
EXTENDS Documents

CONSTANTS
  Sessions,  \* connections
  Lookups,   \* role lookups that can be in flight at once
  TTL        \* AUTH_DECISION_TTL_MS, in ticks

ASSUME AccessAssumption == TTL \in Nat \ {0}

VARIABLES
  session,  \* the connections, with the coordinator's sessions
  cache,    \* authDecisionCache: a session's decision and its age
  lookup,   \* authorizeSession() calls that await the role
  since     \* history: ticks since the user's row last allowed writing

vars == <<docVars, session, cache, lookup, since>>

CanWrite(role) == role \in {"owner", "editor"}

None == [allowed |-> FALSE, age |-> TTL]

NoLookup == [at |-> "idle"]

NoSession == [stage |-> "none", user |-> Founder, role |-> "none",
              open |-> FALSE, closing |-> FALSE, had |-> FALSE]

Init ==
  /\ DocInit
  /\ session = [s \in Sessions |-> NoSession]
  /\ cache = [s \in Sessions |-> None]
  /\ lookup = [l \in Lookups |-> NoLookup]
  /\ since = [u \in Users |-> 0]

-----------------------------------------------------------------------------
(* Opening a connection *)

At(s, stage) == session[s].stage = stage

\* issue(): a ticket of the user's, not used so far.
Ticket(u) == [NoSession EXCEPT !.stage = "ticket", !.user = u]

\* POST rt-ticket: the role is looked up, then the ticket is issued.
IssueTicket(s, u) ==
  /\ At(s, "none") /\ perm[u] # "none"
  /\ session' = [session EXCEPT ![s] = Ticket(u)]
  /\ UNCHANGED <<docVars, cache, lookup, since>>

\* consume(): the ticket is burned, whatever becomes of it.
Consumed(s) ==
  [session[s] EXCEPT !.stage = "warming", !.open = TRUE, !.had = perm[session[s].user] # "none"]

\* HELLO presents the ticket.  It may have expired, and the account may have
\* connected too often.
Hello(s) ==
  /\ At(s, "ticket")
  /\ \/ session' = [session EXCEPT ![s] = Consumed(s)]
     \/ session' = [session EXCEPT ![s] = [NoSession EXCEPT !.stage = "gone"]]
  /\ UNCHANGED <<docVars, cache, lookup, since>>

\* coordinator.ready; a socket that closed meanwhile is noticed here.
Warmed(s) ==
  /\ At(s, "warming")
  /\ session' = [session EXCEPT ![s].stage = IF session[s].open THEN "looking" ELSE "gone"]
  /\ UNCHANGED <<docVars, cache, lookup, since>>

\* Mutant: the ticket is enough.
RoleTrusted(s) ==
  /\ At(s, "looking")
  /\ session' = [session EXCEPT ![s].stage = "looked", ![s].role = "viewer"]
  /\ UNCHANGED <<docVars, cache, lookup, since>>

\* The database answers getUserRole(); the handshake goes on later.
RoleRead(s) ==
  /\ At(s, "looking")
  /\ IF perm[session[s].user] = "none"
     THEN session' = [session EXCEPT ![s].stage = "gone", ![s].open = FALSE]
     ELSE session' = [session EXCEPT ![s].stage = "looked", ![s].role = perm[session[s].user]]
  /\ UNCHANGED <<docVars, cache, lookup, since>>

\* coordinator.join(), without another look at the socket.
Joined(s) ==
  /\ At(s, "looked")
  /\ session' = [session EXCEPT ![s].stage = "joined"]
  /\ UNCHANGED <<docVars, cache, lookup, since>>

\* The close handler leaves only a session that has joined.
SocketCloses(s) ==
  /\ session[s].open
  /\ session' = [session EXCEPT ![s].open = FALSE,
                                ![s].stage = IF @ = "joined" THEN "gone" ELSE @]
  /\ UNCHANGED <<docVars, cache, lookup, since>>

-----------------------------------------------------------------------------
(* Deciding about an operation *)

Fresh(s) == cache[s].age < TTL

\* An operation arrives and no decision is fresh: the role is asked for.  The
\* time the decision will be stamped with is the time of this call.
Authorize(l, s) ==
  /\ lookup[l] = NoLookup /\ At(s, "joined") /\ session[s].open /\ ~Fresh(s)
  /\ lookup' = [lookup EXCEPT ![l] = [at |-> "asked", session |-> s, role |-> "none", age |-> 0]]
  /\ UNCHANGED <<docVars, session, cache, since>>

LookupReads(l) ==
  /\ lookup[l].at = "asked"
  /\ lookup' = [lookup EXCEPT ![l].at = "read",
                              ![l].role = perm[session[lookup[l].session].user]]
  /\ UNCHANGED <<docVars, session, cache, since>>

\* Mutant: the decision is stamped with the time the lookup ended.
DecisionStampedLate(l) == [allowed |-> CanWrite(lookup[l].role), age |-> 0]

Decision(l) ==
  IF lookup[l].age < TTL THEN [allowed |-> CanWrite(lookup[l].role), age |-> lookup[l].age]
  ELSE None

\* The rest of authorizeSession(): the role and the decision together.
LookupEnds(l) ==
  /\ lookup[l].at = "read"
  /\ LET s == lookup[l].session
     IN  /\ session' = [session EXCEPT ![s].role =
                          IF lookup[l].role = "none" THEN "viewer" ELSE lookup[l].role]
         /\ cache' = [cache EXCEPT ![s] = Decision(l)]
  /\ lookup' = [lookup EXCEPT ![l] = NoLookup]
  /\ UNCHANGED <<docVars, since>>

LookupFails(l) ==
  /\ lookup[l].at = "asked" /\ errors < MaxErrors
  /\ errors' = errors + 1
  /\ lookup' = [lookup EXCEPT ![l] = NoLookup]
  /\ UNCHANGED <<perm, document, requests, handled, session, cache, since>>

-----------------------------------------------------------------------------
(* The answer of a request *)

\* getSessionsByUserId() for each of the users.
SessionsByUserId(users) == {s \in Sessions : At(s, "joined") /\ session[s].user \in users}

\* Mutant: the role is pushed and the cached decision stays.
SetRoleOnly(live, roleOf) ==
  /\ session' = [s \in Sessions |->
       IF s \in live THEN [session[s] EXCEPT !.role = roleOf[session[s].user]] ELSE session[s]]
  /\ UNCHANGED cache

\* setSessionRoleLive() for each of the sessions: the role, and no decision.
SetSessionRoleLive(live, roleOf) ==
  /\ session' = [s \in Sessions |->
       IF s \in live THEN [session[s] EXCEPT !.role = roleOf[session[s].user]] ELSE session[s]]
  /\ cache' = [s \in Sessions |-> IF s \in live THEN None ELSE cache[s]]

\* pushPermissionChanged() for every user of roleOf; losing all access makes the
\* session a viewer's.
PushPermissionChanged(roleOf) == SetSessionRoleLive(SessionsByUserId(DOMAIN roleOf), roleOf)

\* Of a transfer, the new owner is pushed last.
RolesPushed(r) ==
  CASE r.kind = "grant"    -> [u \in {r.target} |-> r.role]
    [] r.kind = "revoke"   -> [u \in {r.target} |-> "viewer"]
    [] r.kind = "transfer" -> [u \in {r.caller, r.target} |->
                                 IF u = r.target THEN "owner" ELSE "editor"]

\* disconnectAllSessions()
DisconnectAllSessions ==
  /\ session' = [s \in Sessions |->
       IF At(s, "joined") /\ session[s].open THEN [session[s] EXCEPT !.closing = TRUE]
       ELSE session[s]]
  /\ UNCHANGED cache

Answer(q) ==
  /\ requests[q] # Idle /\ requests[q].at = "answer"
  /\ IF requests[q].kind = "delete" THEN DisconnectAllSessions
     ELSE PushPermissionChanged(RolesPushed(requests[q]))
  /\ Done(q)
  /\ UNCHANGED <<perm, document, handled, errors, lookup, since>>

-----------------------------------------------------------------------------
(* Time, and the whole *)

\* Mutant: ages grow for ever.
OlderForever(age) == age + 1

Older(age) == IF age < TTL THEN age + 1 ELSE TTL

Tick ==
  /\ cache' = [s \in Sessions |-> IF Older(cache[s].age) = TTL THEN None
                                  ELSE [cache[s] EXCEPT !.age = @ + 1]]
  /\ lookup' = [l \in Lookups |-> IF lookup[l] = NoLookup THEN NoLookup
                                  ELSE [lookup[l] EXCEPT !.age = Older(@)]]
  /\ since' = [u \in Users |-> IF CanWrite(perm[u]) THEN 0 ELSE Older(since[u])]
  /\ UNCHANGED <<docVars, session>>

\* A query of a request; the history follows the rows it changes.
Query(q) ==
  /\ CallerChecked(q) \/ TargetChecked(q) \/ Write(q) \/ Fail(q)
  /\ since' = [u \in Users |-> IF CanWrite(perm'[u]) THEN 0 ELSE since[u]]
  /\ session' = [s \in Sessions |->
       IF perm'[session[s].user] # "none" /\ session[s].stage \in {"warming", "looking"}
       THEN [session[s] EXCEPT !.had = TRUE] ELSE session[s]]
  /\ UNCHANGED <<cache, lookup>>

Next ==
  \/ \E q \in Slots : Arrive(q) /\ UNCHANGED <<session, cache, lookup, since>>
  \/ \E q \in Slots : Query(q) \/ Answer(q)
  \/ \E s \in Sessions, u \in Users : IssueTicket(s, u)
  \/ \E s \in Sessions : Hello(s) \/ Warmed(s) \/ RoleRead(s) \/ Joined(s) \/ SocketCloses(s)
  \/ \E l \in Lookups, s \in Sessions : Authorize(l, s)
  \/ \E l \in Lookups : LookupReads(l) \/ LookupEnds(l) \/ LookupFails(l)
  \/ Tick

Spec == Init /\ [][Next]_vars

-----------------------------------------------------------------------------
(* Properties *)

TypeOK ==
  /\ DocTypeOK
  /\ session \in [Sessions ->
       [stage : {"none", "ticket", "warming", "looking", "looked", "joined", "gone"},
        user : Users, role : Roles \cup {"none"},
        open : BOOLEAN, closing : BOOLEAN, had : BOOLEAN]]
  /\ cache \in [Sessions -> [allowed : BOOLEAN, age : 0..TTL]]
  /\ lookup \in [Lookups -> {NoLookup} \cup
       [at : {"asked", "read"}, session : Sessions, role : Roles \cup {"none"}, age : 0..TTL]]
  /\ since \in [Users -> 0..TTL]

\* Every variable has its type, and the document's two records of its owner agree.
WellFormed == TypeOK /\ OwnersAgree

AllowedRecently ==
  \A s \in Sessions :
    Fresh(s) /\ cache[s].allowed => since[session[s].user] <= cache[s].age

RoleMatchesDecision ==
  \A s \in Sessions : Fresh(s) => cache[s].allowed = CanWrite(session[s].role)

\* Cached decisions hold.  Writing outlives a revocation by less than the decision's
\* lifetime: whatever lookups were overtaken by the revocation or by one another, a
\* decision that still allows was true less than its age ago (authorizeSession(),
\* documentCoordinator.ts:440-460).  And the role that a session shows and the
\* decision its operations meet never say different things, though a push and a
\* lookup both write them.
DecisionsHold == AllowedRecently /\ RoleMatchesDecision

\* Nobody joins on a ticket alone: at some moment of the handshake the database
\* gave the user a role (gateway.ts:419-432).
AdmissionRechecked ==
  \A s \in Sessions : At(s, "joined") => session[s].had

=============================================================================
