----------------------------- MODULE Documents -----------------------------
(***************************************************************************)
(* The permissions of one document and the REST requests that change them  *)
(* (packages/server/src/documentService.ts, db/documentStore.ts and the    *)
(* handlers of httpApp.ts).                                                *)
(*                                                                         *)
(* A request awaits one database query after the other, and the queries of *)
(* other requests fall between them: what an earlier query answered may no *)
(* longer be so when a later one runs.  Each query is a step here.  The    *)
(* answer, with the notifications it pushes to the connected sessions, is  *)
(* the last step of a request and is taken by the module that knows the    *)
(* sessions (Access).  The title and the list of documents are left out.   *)
(***************************************************************************)
EXTENDS Integers, FiniteSets, Sequences

CONSTANTS
  Users,        \* the accounts
  Founder,      \* the one that created the document
  Slots,        \* requests that can be in flight at once
  MaxRequests,  \* bound: requests handled
  MaxErrors     \* bound: database queries that fail

ASSUME DocumentsAssumption ==
  Founder \in Users /\ MaxRequests \in Nat /\ MaxErrors \in Nat

VARIABLES
  perm,      \* document_permissions: a user's role, or "none"
  document,  \* documents: owner_id, and whether access_revoked_at is set
  requests,  \* the requests in flight
  handled,   \* requests started so far
  errors     \* queries that failed so far

docVars == <<perm, document, requests, handled, errors>>

Roles == {"owner", "editor", "viewer"}

\* GRANTABLE_ROLES
Grantable == {"editor", "viewer"}

Idle == [kind |-> "idle"]

Request(kind, caller, target, role) ==
  [kind |-> kind, caller |-> caller, target |-> target, role |-> role, at |-> "caller"]

Requests ==
  {Request("grant", c, u, g) : c \in Users, u \in Users, g \in Grantable}
    \cup {Request(k, c, u, "none") : k \in {"revoke", "transfer"}, c \in Users, u \in Users}
    \cup {Request("delete", c, c, "none") : c \in Users}

\* createDocument(), and grants that were answered: the others are editors.
DocInit ==
  /\ perm = [u \in Users |-> IF u = Founder THEN "owner" ELSE "editor"]
  /\ document = [owner |-> Founder, closed |-> FALSE]
  /\ requests = [q \in Slots |-> Idle]
  /\ handled = 0 /\ errors = 0

-----------------------------------------------------------------------------
(* The steps of a request *)

Goto(q, at) == requests' = [requests EXCEPT ![q].at = at]

Done(q) == requests' = [requests EXCEPT ![q] = Idle]

Arrive(q) ==
  /\ requests[q] = Idle /\ handled < MaxRequests
  /\ \E r \in Requests : requests' = [requests EXCEPT ![q] = r]
  /\ handled' = handled + 1
  /\ UNCHANGED <<perm, document, errors>>

\* Only the owner may go on, and not to grant a role to themselves.
CallerChecked(q) ==
  LET r == requests[q]
  IN  /\ r # Idle /\ r.at = "caller"
      /\ CASE perm[r.caller] # "owner" -> Done(q)
           [] r.kind = "grant" /\ r.target = r.caller -> Done(q)
           [] r.kind = "revoke" -> Goto(q, "target")
           [] OTHER -> Goto(q, "write")
      /\ UNCHANGED <<perm, document, handled, errors>>

\* A revocation looks its target up before it deletes the row.
TargetChecked(q) ==
  LET r == requests[q]
  IN  /\ r # Idle /\ r.at = "target"
      /\ IF perm[r.target] \in {"none", "owner"} THEN Done(q) ELSE Goto(q, "write")
      /\ UNCHANGED <<perm, document, handled, errors>>

\* INSERT .. ON CONFLICT DO UPDATE: whatever the target's row said.
GrantPermission(q) ==
  /\ perm' = [perm EXCEPT ![requests[q].target] = requests[q].role]
  /\ Goto(q, "answer")
  /\ UNCHANGED document

RevokePermission(q) ==
  /\ perm' = [perm EXCEPT ![requests[q].target] = "none"]
  /\ Goto(q, "answer")
  /\ UNCHANGED document

\* Mutant: the transfer trusts the role that was looked up before.
TrustedOwner(r) == TRUE

\* The transaction locks the owner's row and looks again who the owner is.
OwnerUnderLock(r) == perm[r.caller] = "owner" /\ perm[r.target] # "none"

TransferOwnership(r) ==
  /\ perm' = [perm EXCEPT ![r.caller] = "editor", ![r.target] = "owner"]
  /\ document' = [document EXCEPT !.owner = r.target]

\* The rest of transferOwnershipForUser(): whoever lost the race is refused.
TransferOwnershipForUser(q) ==
  \/ /\ OwnerUnderLock(requests[q])
     /\ TransferOwnership(requests[q]) /\ Goto(q, "answer")
  \/ /\ ~OwnerUnderLock(requests[q])
     /\ Done(q) /\ UNCHANGED <<perm, document>>

\* The document is closed for everybody, and its content kept.
RevokeDocumentAccess(q) ==
  /\ document' = [document EXCEPT !.closed = TRUE]
  /\ perm' = [u \in Users |-> "none"]
  /\ Goto(q, "answer")

Write(q) ==
  /\ requests[q] # Idle /\ requests[q].at = "write"
  /\ \/ requests[q].kind = "grant" /\ GrantPermission(q)
     \/ requests[q].kind = "revoke" /\ RevokePermission(q)
     \/ requests[q].kind = "transfer" /\ TransferOwnershipForUser(q)
     \/ requests[q].kind = "delete" /\ RevokeDocumentAccess(q)
  /\ UNCHANGED <<handled, errors>>

\* A query fails, and the handler with it: what was written before it stays,
\* and nothing that follows it happens, the notifications included.
Fail(q) ==
  /\ requests[q] # Idle /\ errors < MaxErrors
  /\ errors' = errors + 1
  /\ Done(q)
  /\ UNCHANGED <<perm, document, handled>>

-----------------------------------------------------------------------------
\* The requests, at any of their queries.  A grant names a role.
InFlight ==
  {r \in [kind : {"grant", "revoke", "transfer", "delete"}, caller : Users, target : Users,
          role : Grantable \cup {"none"}, at : {"caller", "target", "write", "answer"}] :
     r.kind = "grant" => r.role # "none"}

DocTypeOK ==
  /\ perm \in [Users -> Roles \cup {"none"}]
  /\ document \in [owner : Users, closed : BOOLEAN]
  /\ requests \in [Slots -> {Idle} \cup InFlight]
  /\ handled \in 0..MaxRequests /\ errors \in 0..MaxErrors

\* No second owner, and no other than documents.owner_id names, however a
\* transfer, a grant, a revocation and a deletion fall together
\* (transferOwnership(), documentStore.ts:351-400).
OwnersAgree == \A u \in Users : perm[u] = "owner" => document.owner = u /\ ~document.closed

\* "Exactly one owner per document, at all times"
\* (migrations/1788134520000_create-document-permissions.js): it is not so when
\* a grant, whose checks are separate queries, meets a transfer of ownership
\* (documentService.ts:402-443, documentStore.ts:300-319).
AlwaysOwned == document.closed \/ \E u \in Users : perm[u] = "owner"
=============================================================================
