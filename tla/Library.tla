------------------------------ MODULE Library ------------------------------
(***************************************************************************)
(* The documents of a user over REST: creating them under an               *)
(* Idempotency-Key, listing them page by page, renaming, handing over and  *)
(* deleting them (packages/server/src/documentService.ts,                  *)
(* db/documentStore.ts, the routes of httpApp.ts), by browsers that are    *)
(* signed in as Accounts has it.                                           *)
(*                                                                         *)
(* Each action is one query, or one transaction at its commit.  Time       *)
(* counts in parts of a millisecond: updated_at keeps them, a JavaScript   *)
(* Date does not.                                                          *)
(***************************************************************************)
EXTENDS Accounts

CONSTANTS
  Requests,      \* slots for the requests under way
  Keys,          \* values of the Idempotency-Key header
  Titles,        \* request bodies
  PageSize,      \* the limit of a listing
  PartsPerMs,    \* parts of a millisecond
  Errands        \* bounds, each a possible mix of errands next to one of sign-ins; its
                 \* shelf holds the times at which the first documents were last changed

ASSUME LibraryAssumption ==
  /\ PageSize \in Nat \ {0} /\ PartsPerMs \in Nat \ {0}
  /\ \A mix \in Errands :
       /\ mix.signIns \in SignIns
       /\ mix.shelf \in Seq(Nat)
       /\ {mix.posts, mix.walks, mix.renames, mix.transfers, mix.deletes, mix.ticks, mix.faults,
          mix.days} \subseteq Nat

VARIABLES
  documents,     \* rows of documents: [updated, title, open, mine], named by their index
  keyRows,       \* rows of idempotency_keys: [key, title, document, fresh]
  requests,      \* requests[r]: the request in slot r
  walk,          \* the listing under way: its cursor, what it has shown, the documents as
                 \* it began, the times written since, the documents these set back
  now,           \* the time
  made,          \* [key, document]: documents created for a key
  replies,       \* [key, title, document]: answers 201 to requests with a key
  marred,        \* keys whose requests overlapped or broke off, or whose row grew old
  errands        \* what the bounds still allow

library == <<documents, keyRows, requests, walk, now, made, replies, marred, errands>>
allVars == <<accounts, library>>

NoRequest == [kind |-> "none", at |-> "none", key |-> "none", title |-> "none", document |-> 0,
              reached |-> 0]

\* Keyset cursors name the last document shown, and its time in whole milliseconds.
NoCursor == [ms |-> 0, id |-> 0]

NoWalk == [at |-> "none", cursor |-> NoCursor, shown |-> <<>>, since |-> <<>>, written |-> {},
           setBack |-> {}]

LibraryInit ==
  /\ AccountsInit
  /\ errands \in Errands /\ errands.signIns = signLeft
  /\ documents = [i \in DOMAIN errands.shelf |->
                    [updated |-> errands.shelf[i], title |-> "old", open |-> TRUE,
                     mine |-> TRUE]]
  /\ keyRows = {}
  /\ requests = [r \in Requests |-> NoRequest]
  /\ walk = NoWalk
  /\ now = PartsPerMs + CHOOSE n \in {0} \cup {documents[i].updated : i \in DOMAIN documents} :
                 \A i \in DOMAIN documents : documents[i].updated <= n
  /\ made = {} /\ replies = {} /\ marred = {}

Ran(what) == errands[what] > 0 /\ errands' = [errands EXCEPT ![what] = @ - 1]

-----------------------------------------------------------------------------
(* POST /v1/documents *)

Ask(r, kind, at, key, title, document) ==
  /\ requests[r] = NoRequest
  /\ \E b \in Browsers : RequireAuth(b)
  /\ requests' = [requests EXCEPT ![r] = [kind |-> kind, at |-> at, key |-> key,
                                          title |-> title, document |-> document,
                                          reached |-> now]]

AskedWith(key) == {r \in Requests : requests[r].key = key}

\* A request with a key; the browser sends it again when it is not answered.
Post(r, key, title) ==
  /\ Ran("posts")
  /\ Ask(r, "post", "find", key, title, 0)
  /\ marred' = IF AskedWith(key) = {} THEN marred ELSE marred \cup {key}
  /\ UNCHANGED <<accounts, documents, keyRows, walk, now, made, replies>>

GoOn(r, at) == requests' = [requests EXCEPT ![r].at = at, ![r].reached = now]

\* Mutant: a stored answer is replayed whatever the request asks for.
ReplayableAnyBody(key, title) == {row \in keyRows : row.key = key /\ row.fresh}

\* The rows that answer a request: its key's, for the same body.
Replayable(key, title) ==
  {row \in keyRows : row.key = key /\ row.fresh /\ row.title = title}

\* findIdempotencyRecord(), which passes over rows of more than 24 hours: the
\* stored answer is replayed, refused for another body, or there is none.
FindIdempotencyRecord(r) ==
  LET q == requests[r]
      rows == {row \in keyRows : row.key = q.key /\ row.fresh}
  IN  /\ q.at = "find"
      /\ \/ \E row \in Replayable(q.key, q.title) :
              requests' = [requests EXCEPT ![r].at = "reply", ![r].document = row.document]
         \/ rows # {} /\ Replayable(q.key, q.title) = {} /\ GoOn(r, "refused")
         \/ rows = {} /\ GoOn(r, "create")
      /\ UNCHANGED <<accounts, documents, keyRows, walk, now, made, replies, marred, errands>>

\* now() in a transaction: the time it began, however long ago it has got its locks
\* and committed.
Begun(r) == requests[r].reached..now

\* Document d gets updated_at = t.
Stamped(d, t) ==
  walk' = [walk EXCEPT !.written = @ \cup {t},
                       !.setBack = IF d \in DOMAIN documents /\ t < documents[d].updated
                                   THEN @ \cup {d} ELSE @]

\* createDocument(): the row and its owner's permission in one transaction.
CreateDocument(r) ==
  LET d == Len(documents) + 1
  IN  /\ requests[r].at = "create"
      /\ \E t \in Begun(r) :
           /\ documents' = Append(documents, [updated |-> t, title |-> requests[r].title,
                                             open |-> TRUE, mine |-> TRUE])
           /\ Stamped(d, t)
      /\ requests' = [requests EXCEPT ![r].at = "save", ![r].document = d]
      /\ made' = made \cup {[key |-> requests[r].key, document |-> d]}
      /\ UNCHANGED <<accounts, keyRows, now, replies, marred, errands>>

\* Mutant: without ON CONFLICT DO NOTHING on a primary key.
SavedAgain(r) ==
  LET q == requests[r]
  IN  keyRows' = keyRows \cup {[key |-> q.key, title |-> q.title, document |-> q.document,
                                fresh |-> TRUE]}

\* The row of the key; it is left as it is when there is one already.
Saved(r) ==
  LET q == requests[r]
  IN  keyRows' = IF \E row \in keyRows : row.key = q.key THEN keyRows
                 ELSE keyRows \cup {[key |-> q.key, title |-> q.title, document |-> q.document,
                                     fresh |-> TRUE]}

SaveIdempotencyRecord(r) ==
  /\ requests[r].at = "save"
  /\ Saved(r)
  /\ GoOn(r, "reply")
  /\ UNCHANGED <<accounts, documents, walk, now, made, replies, marred, errands>>

\* The answer arrives, or is lost.
Reply(r) ==
  LET q == requests[r]
  IN  /\ q.at \in {"reply", "refused"}
      /\ requests' = [requests EXCEPT ![r] = NoRequest]
      /\ \/ /\ replies' = IF q.kind = "post" /\ q.at = "reply"
                          THEN replies \cup {[key |-> q.key, title |-> q.title,
                                              document |-> q.document]}
                          ELSE replies
            /\ UNCHANGED errands
         \/ Ran("faults") /\ UNCHANGED replies
      /\ UNCHANGED <<accounts, documents, keyRows, walk, now, made, marred>>

\* A query throws: what earlier queries wrote stays.  Only between the document
\* and the row of its key does that matter to the key.
RequestFails(r) ==
  /\ requests[r].at \in {"find", "create", "save", "role", "write"}
  /\ Ran("faults")
  /\ marred' = IF requests[r].at = "save" THEN marred \cup {requests[r].key} ELSE marred
  /\ requests' = [requests EXCEPT ![r] = NoRequest]
  /\ UNCHANGED <<accounts, documents, keyRows, walk, now, made, replies>>

\* A row is 24 hours old.
KeyAges(row) ==
  /\ row.fresh
  /\ Ran("days")
  /\ keyRows' = (keyRows \ {row}) \cup {[row EXCEPT !.fresh = FALSE]}
  /\ marred' = marred \cup {row.key}
  /\ UNCHANGED <<accounts, documents, requests, walk, now, made, replies>>

-----------------------------------------------------------------------------
(* PATCH and DELETE of a document, and its transfer, by its owner *)

Rename(r, d, title) ==
  /\ Ran("renames")
  /\ Ask(r, "rename", "role", "none", title, d)
  /\ UNCHANGED <<accounts, documents, keyRows, walk, now, made, replies, marred>>

Delete(r, d) ==
  /\ Ran("deletes")
  /\ Ask(r, "delete", "role", "none", "none", d)
  /\ UNCHANGED <<accounts, documents, keyRows, walk, now, made, replies, marred>>

\* POST .../transfer-ownership, to another user of the document.
Transfer(r, d) ==
  /\ Ran("transfers")
  /\ Ask(r, "transfer", "role", "none", "none", d)
  /\ UNCHANGED <<accounts, documents, keyRows, walk, now, made, replies, marred>>

\* The permission row says owner; a deleted document has no permission rows.
Owns(d) == documents[d].open /\ documents[d].mine

\* getUserRole(), and for a transfer findUserById().
RoleOfOwner(r) ==
  /\ requests[r].at = "role"
  /\ GoOn(r, IF Owns(requests[r].document) THEN "write" ELSE "refused")
  /\ UNCHANGED <<accounts, documents, keyRows, walk, now, made, replies, marred, errands>>

\* updateDocumentTitle(), whatever became of the document since the role was read.
UpdateDocumentTitle(r) ==
  LET d == requests[r].document
  IN  /\ requests[r].kind = "rename" /\ requests[r].at = "write"
      /\ \E t \in Begun(r) :
           /\ documents' = [documents EXCEPT ![d].title = requests[r].title, ![d].updated = t]
           /\ Stamped(d, t)
      /\ GoOn(r, "reply")
      /\ UNCHANGED <<accounts, keyRows, now, made, replies, marred, errands>>

\* transferOwnership(): the owner looked up again under the lock of its row, which
\* becomes an editor's.  Refused as well when the other user has no access.
TransferOwnership(r) ==
  LET d == requests[r].document
  IN  /\ requests[r].kind = "transfer" /\ requests[r].at = "write"
      /\ \/ /\ Owns(d)
            /\ \E t \in Begun(r) :
                 /\ documents' = [documents EXCEPT ![d].mine = FALSE, ![d].updated = t]
                 /\ Stamped(d, t)
            /\ GoOn(r, "reply")
         \/ GoOn(r, "refused") /\ UNCHANGED <<documents, walk>>
      /\ UNCHANGED <<accounts, keyRows, now, made, replies, marred, errands>>

\* revokeDocumentAccess(): marked, and all its permission rows removed.
RevokeDocumentAccess(r) ==
  /\ requests[r].kind = "delete" /\ requests[r].at = "write"
  /\ documents' = [documents EXCEPT ![requests[r].document].open = FALSE]
  /\ GoOn(r, "reply")
  /\ UNCHANGED <<accounts, keyRows, walk, now, made, replies, marred, errands>>

-----------------------------------------------------------------------------
(* GET /v1/documents, page after page *)

Millisecond(t) == t \div PartsPerMs

\* Mutant: the cursor is the last document's time alone, and includes it.
AtOrBelow(d, cursor) == cursor = NoCursor \/ Millisecond(documents[d].updated) <= cursor.ms

\* (updated_at, id) < (the time of the cursor, its id).
Below(d, cursor) ==
  \/ cursor = NoCursor
  \/ documents[d].updated < cursor.ms * PartsPerMs
  \/ documents[d].updated = cursor.ms * PartsPerMs /\ d < cursor.id

Newer(d, e) ==
  \/ documents[d].updated > documents[e].updated
  \/ documents[d].updated = documents[e].updated /\ d > e

\* ORDER BY updated_at DESC, id DESC.
Listed(found) ==
  [i \in 1..Cardinality(found) |->
     CHOOSE d \in found : Cardinality({e \in found : Newer(e, d)}) = i - 1]

\* encodeDocumentListCursor(): Date and toISOString() keep milliseconds.
CursorOf(d) == [ms |-> Millisecond(documents[d].updated), id |-> d]

OpenDocuments == {d \in DOMAIN documents : documents[d].open}

WalkStarts ==
  /\ walk.at \in {"none", "done"}
  /\ \E b \in Browsers : RequireAuth(b)
  /\ Ran("walks")
  /\ walk' = [NoWalk EXCEPT !.at = "page", !.since = documents]
  /\ UNCHANGED <<accounts, documents, keyRows, requests, now, made, replies, marred>>

\* listDocumentsForUser(): one more row than the limit tells whether there are more.
NextPage ==
  LET rows == Listed({d \in OpenDocuments : Below(d, walk.cursor)})
      more == Len(rows) > PageSize
      page == IF more THEN SubSeq(rows, 1, PageSize) ELSE rows
  IN  /\ walk.at = "page"
      /\ \E b \in Browsers : RequireAuth(b)
      /\ walk' = [walk EXCEPT !.at = IF more THEN "page" ELSE "done",
                              !.cursor = IF more THEN CursorOf(page[PageSize]) ELSE @,
                              !.shown = @ \o page]
      /\ UNCHANGED <<accounts, documents, keyRows, requests, now, made, replies, marred, errands>>

Tick ==
  /\ Ran("ticks")
  /\ now' = now + 1
  /\ UNCHANGED <<accounts, documents, keyRows, requests, walk, made, replies, marred>>

LibraryNext ==
  \/ AccountsNext /\ UNCHANGED library
  \/ \E r \in Requests :
       \/ \E key \in Keys, title \in Titles : Post(r, key, title)
       \/ \E d \in DOMAIN documents :
            Delete(r, d) \/ Transfer(r, d) \/ \E title \in Titles : Rename(r, d, title)
       \/ FindIdempotencyRecord(r) \/ CreateDocument(r) \/ SaveIdempotencyRecord(r)
       \/ RoleOfOwner(r) \/ UpdateDocumentTitle(r) \/ TransferOwnership(r) \/ RevokeDocumentAccess(r)
       \/ Reply(r) \/ RequestFails(r)
  \/ \E row \in keyRows : KeyAges(row)
  \/ WalkStarts \/ NextPage \/ Tick

LibrarySpec == LibraryInit /\ [][LibraryNext]_allVars

-----------------------------------------------------------------------------
(* Properties *)

\* Type invariant.
TypeOK ==
  /\ AccountsTypes
  /\ documents \in Seq([updated : Nat, title : Titles \cup {"old"}, open : BOOLEAN,
                        mine : BOOLEAN])
  /\ \A row \in keyRows : row.key \in Keys /\ row.document \in DOMAIN documents
  /\ \A p, q \in keyRows : p.key = q.key => p = q
  /\ \A r \in Requests : requests[r].document \in 0..Len(documents)
  /\ walk.at \in {"none", "page", "done"} /\ now \in Nat

\* A key makes one document (documentService.ts:128-136): however often a request
\* is repeated because its answer was lost, the key creates one document at most
\* and every success names it, and none answers a request with another body.
\* Requests with one key that overlap, a failure between the document and the row
\* of its key, and a row that grew old each let it make another.
KeyHonoured ==
  \A key \in Keys \ marred :
    /\ \A m, n \in made : m.key = key /\ n.key = key => m = n
    /\ \A p, q \in replies : p.key = key /\ q.key = key => p = q
    /\ \A p \in replies : p.key = key => [key |-> key, document |-> p.document] \in made

\* No other document had a time in the millisecond of d when the walk began, and
\* none was given one since.
AloneInItsMillisecond(d) ==
  /\ \A e \in DOMAIN walk.since :
       e # d => Millisecond(walk.since[e].updated) # Millisecond(walk.since[d].updated)
  /\ \A t \in walk.written : Millisecond(t) # Millisecond(walk.since[d].updated)

Shown(d) == \E i \in DOMAIN walk.shown : walk.shown[i] = d

\* A walk through the pages shows no document twice whose updated_at did not go
\* back meanwhile, and shows every document that stays as it was
\* (documentStore.ts:200-212), if no other has a time in its millisecond: the cursor
\* drops the microseconds.
WalkComplete ==
  /\ \A i, j \in DOMAIN walk.shown :
       i # j /\ walk.shown[i] = walk.shown[j] => walk.shown[i] \in walk.setBack
  /\ walk.at = "done" =>
       \A d \in DOMAIN walk.since :
         walk.since[d].open /\ documents[d] = walk.since[d] /\ AloneInItsMillisecond(d) => Shown(d)

\* Refuted.  "cursor pagination walks every document exactly once"
\* (packages/server/src/db/documents.db.test.ts:313): no document is shown twice.
\* transferOwnership() and a rename write now(), the time their transaction began;
\* one that began earlier and commits later sets updated_at back.
ShownOnce == \A i, j \in DOMAIN walk.shown : walk.shown[i] = walk.shown[j] => i = j

\* Refuted.  The same sentence: every document that stays as it was is shown, whoever
\* shares its millisecond (documentStore.ts:202-204 has the id for a tie-breaker).
NoneLeftOut ==
  walk.at = "done" =>
    \A d \in DOMAIN walk.since : walk.since[d].open /\ documents[d] = walk.since[d] => Shown(d)

=============================================================================
