# Confluence Editor in TLA+

Specifications of the collaborative text editor in this repository: the
convergence engine that every replica runs, the server that orders, stores and
relays its operations, the synchronisation of a client with that server across
lost connections and reloaded pages, the page the user types into, and what
surrounds them: presence, permissions, accounts, garbage collection, audits and
the wire format. TLC checks them on small instances; TLAPS proves what the write
path, the audit, the synchronisation, presence, the permissions, the accounts and the
document list promise for all instances.

## 1. The system

Paths are relative to `src/packages/`.

| Component | State | Operations | Hard behaviour | What makes it correct |
|---|---|---|---|---|
| Fugue tree (`engine/src/fugueTree.ts`) | nodes with ordered left and right children, tombstone flag, attribution, subtree sizes | attach, setDeleted, remove, traversal, lookups by index | concurrent siblings, incremental sizes | the order is the same on all replicas; lookups agree with the traversal |
| Engine (`engine/src/engine.ts`) | Lamport clock, applied set, causal buffer, delete contexts, undo and redo stacks | localInsert, localDelete, undo, redo, applyRemote, drain, collect | any arrival order, duplicates, concurrent delete and undelete | equal operations give equal states; nothing stays buffered |
| Write path (`server/src/writePath.ts`) | none of its own; works on the coordinator | processIncomingOperation: breaker, role, rate limit, apply, number, relay, commit, acknowledge | awaits between the steps, commits that fail | acknowledged means stored; one number names one operation |
| Document coordinator (`server/src/documentCoordinator.ts`) | engine, currentSeq, lastCommittedSeq, commit queue, sessions, breaker, decision cache | join, leave, enqueueCommit, warmStart, rebuildFromLog, freeze, authorizeSession | restart, rebuild during writes, lookups in flight | the restarted document contains all it promised; decisions are at most two seconds old |
| Operation store (`server/src/db/operationStore.ts`) | operations, documents.current_seq, snapshots, sessions, audit_runs | commitOperations, warmStart, loadOperationLogRange, writeSnapshot, getStabilityFrontier | partial failure, lost answers, unique keys | transactions are all or nothing |
| Snapshotter, offline-window sweep, garbage collection, audit (`server/src/snapshotter.ts`, `offlineWindowScheduler.ts`, `gcScheduler.ts`, `auditScheduler.ts`) | flags, ages of buffered operations, frontier, last result | run on timers over the live document | read something, await, use it | what is refused is never applied; what is forgotten nobody needs; an audit tells the truth |
| Gateway, handshake, send queues, ack batcher (`server/src/`) | sockets, three lanes per session | admission, HELLO, catch-up or snapshot, relay | a relay overtaking the state it builds on | a client holds the document after it synchronised |
| Synchronisation client (`client/src/sync/`) | connection state, unacknowledged queue, durable queue, gap tracker | connect, resend, reconcile, apply | reconnection in every phase, tab restart | no edit is lost or applied twice |
| Page and input (`client/src/binding/`, `input/`, `sentinel/`, `editor/`) | text nodes and their index, the selection, a composition | one handler per browser event, remote operations, mounting | events and edits of others in any order | the page shows the engine's text; an edit lands where it was meant |
| Presence (`server/src/presenceManager.ts`, `heartbeat.ts`, `client/src/presence/`) | room, stale timers, overlay | join, leave, update, roster | reconnections, silence, shed frames | an overlay follows the room |
| Accounts and documents (`server/src/authService.ts`, `documentService.ts`, `ticketStore.ts`, `db/`) | refresh tokens, permissions, idempotency keys, tickets | login, refresh, grant, transfer, create, list, admit | one query after the other, others between them | one owner; a session holds; a key makes one document |
| Wire format (`protocol/src/`) | bytes | encode, decode | boundaries of lengths, damaged frames | what is written is read, and nothing else is |

A client sends operations over its session; the gateway hands each message to
`processIncomingOperation`, which applies it to the coordinator's engine, relays
it to the other sessions and stores it through the commit queue. Joining clients
get a snapshot of the engine or the missing rows of the log. Timers run the sweep,
garbage collection and the audit on the same engine. REST requests change
permissions and documents in the database, and tell the connected sessions.

## 2. Modules

```
FugueTree <- Engine <- Replication <- MCReplication
                    <- Collection
                    <- Messages    <- Editor (with Page) <- MCEditor
WritePath <- Audit             <- MCWritePath
          <- WritePath_proofs <- Restart_proofs <- Audit_proofs (with Audit)
SharedDocument <- Sync         (INSTANCE, refined)  <- Sync_proofs <- SyncClaims_proofs
Documents <- Access            <- MCAccess, Access_proofs
Accounts  <- Library           <- MCLibrary, Library_proofs
Wire                           <- MCWire
Presence                       <- MCPresence, Presence_proofs
```

In every module an action is what the code does between two awaits, and `Budgets`
(or `SignIns`, `Errands`, `FaultModels`) is a set of mixes of bounds of which a
behaviour has one from the start: many small mixes show more than one large one.
A definition marked *Mutant* stands before the one it spoils and is used by
nothing.

### Engine

**FugueTree** is a data structure as operators on a function from identifiers to
node records. An identifier is `<<counter, replica>>`; `Root` stands for the
sentinel node and for `null`. Sibling insertion, the size updates along the
lineage, the traversal and the size-guided descents are each one operator with
the source's name. The character is reduced to `bind`: whether it continues a
grapheme cluster, the only thing about it that a decision depends on.

**Engine** is the class as a record, each method as an operator from record to
record. `Drain` is the fixpoint of `DrainPass`, a backward sweep over `pending`
that applies what is ready and drops duplicates. Undo and redo are `Reverse1` on
the two stacks, with the `hadEffect` flag of an entry.

**Replication** gives every replica an engine and lets any minted operation be
delivered to anyone, in any order and repeatedly. `fifo` in a budget restricts
delivery to the order in which a replica minted its operations, which is what the
server provides, and is used where a disagreement should not depend on reordering.

**Collection** is garbage collection on that engine: the server's engine forgets,
the clients' never do.

| Action | Code |
|---|---|
| `Type`, `Erase`, `TakeBack` | localInsertText(), localDelete() and undo() of a client |
| `Integrate` | processIncomingOperation(): apply or buffer, number, relay, setDeleteContext() |
| `Sweep`, `Refused` | the offline-window sweep with rejectPending(); handleOpReject() with tryRevertLocalInsert() |
| `Hear` | a relay or an acknowledgement at a client |
| `Heartbeat` | the row upsertSessionHeartbeat() writes some time after a ping, GREATEST of what it holds |
| `Age` | undoHorizonMaxAgeMs passes for one more delete |
| `AskFrontier` | runOneDocument() of the scheduler asks for the frontier: the least row of the sessions seen in the last ten minutes, or documents.current_seq when there is none; any client may have been silent that long |
| `Cycle` | the answer is there and the engine collects: `Candidates`, `Collectible`, `RemoveAll` |

**Messages** is what operations travel in: runs of characters typed in a row,
batches of deletes, and the chain blocks of a snapshot, grouped and expanded as the
two sides do it.

### Server

**WritePath** is the server side of one document:

| Action | Code |
|---|---|
| `Receive` | processIncomingOperation to its first await: breaker check, start of the role lookup |
| `Deny`, `RunFastPath`, `RunSlowPath` | the rest up to the awaited commit: refusal, or apply, number, relay and queue |
| `StoreCommits`, `StoreFails` | commitOperations in the database; a failure may have stored the rows and lost the answer |
| `SettleCommit` | the continuations: lastCommittedSeq, acknowledgement, breaker, snapshot scheduling |
| `WriteSnapshot` | writeSnapshotNow with the engine and currentSeq of that moment |
| `Sweep` | runOneDocument of the offline window |
| `Freeze`, `Unfreeze`, `RebuildRead`, `RebuildSwap` | the operator's commands; the rebuild is cut at its await |
| `Leave`, `Join` | a socket closes; a client returns under a new replica id |
| `Crash`, `WarmStart` | the process dies; snapshot and suffix are replayed, or warm start throws |

The engine is reduced here to the set of operations applied and the causal buffer,
with `Dep` saying which operation's node an operation refers to. All operations are
inserts: a delete or an undelete waits for its target in the same way, and the
effect on the tree is Engine's subject. A client follows a script of messages and
sends one only when it knows what the message refers to. Role lookups may answer in
any order, as concurrent queries of a connection pool do, or, when a budget is
`ordered`, in order per session, as with a warm decision cache.

**Audit** puts the periodic audit next to it: `AuditStarts` captures the live
text, `LogRead`, `LatestRead` and `ListRead` are its queries with what it computes
after each, `AuditRecorded` writes the row and the two health figures, `AuditThrows`
is a query that fails. Equal sets of operations stand for equal texts.

**WritePath_proofs**, **Restart_proofs** and **Audit_proofs** hold the theorems about
these two, each resting on the one before it; **Access_proofs** and **Library_proofs**
those about the modules below.

**Documents** has the permissions of one document under REST requests that come one
query at a time: `CallerChecked`, `TargetChecked`, `Write` (grant, revoke, transfer
under its row lock, delete) and `Fail`. **Access** adds the sessions: `IssueTicket`,
`Hello`, `Warmed`, `RoleRead`, `Joined` and `SocketCloses` are handleHandshakeInner()
cut at its awaits; `Authorize`, `LookupReads`, `LookupEnds` and `LookupFails` are
authorizeSession() around its query; `Answer` is what a handler pushes to the
sessions after its last query. Time is a `Tick` that ages decisions and lookups.

**Accounts** has login, refresh and logout over families of refresh tokens, each
query an action named for it (`FindRefreshToken`, `MarkRefreshTokenUsed`,
`InsertRefreshToken`, `RevokeFamily`, `CreateRefreshFamily`), with calls of one
browser that overlap, answers that are lost and queries that fail. The cookie of
refresh has the path `/v1/auth/refresh`, so that a logout normally does not receive
it; the model allows both. **Library** extends it with the documents of a signed-in
user: `Post`, `FindIdempotencyRecord`, `CreateDocument`, `SaveIdempotencyRecord`,
`Reply`; `Rename`, `Transfer`, `Delete` with their role check as a query of its own;
and `WalkStarts`, `NextPage`, the keyset listing. A transaction is one step, its commit;
`updated_at` is the time it began (`Begun`), any since its request got so far, so that
the column can go back. Once the user has handed a document over, its new owner does
nothing with it here.

**Presence** is the room, the heartbeat, the presence lane and the limiter on the
server, and the connection, the pings, the coalescer and the overlay on the client.
Timers are punctual: `Tick` waits for those that are due. A ping and its pong are
one step; the delay of a reconnection is arbitrary. A client that finds its connection
stalled calls close() (`CloseStalled`), and its close event comes any time later
(`CloseEvent`). Only what the code lets renew the gap tracker renews it: a pong, a
snapshot, or a catch-up that brings something (`new` in `Synced`). `Deliver` is a frame that
leaves a lane when the client handles it. The limiter's hits are positions in the
record of what was relayed, which holds the times themselves.

### Client

**SharedDocument** is what synchronisation promises a user, without messages: each
edit they type is saved at most once, or refused and kept as refused, or still
unsaved; only a page that closes may forget one. It has four actions over `text`,
`status` and `closings`.

**Sync** is one client and the server, with everybody else reduced to `PeerEdit`.
It implements SharedDocument: `text` is the log with each operation read as the
edit it carries, and the status of an edit is where Sync finds it (`Edit`): in the
log, among the preserved rejections, in the unacknowledged queue, or nowhere.
`ImplementsDocument` is that refinement, checked by `sync`.

| Action | Code |
|---|---|
| `OpenSocket`, `Drop` | onOpen() of a new socket, onClose() with the retry of scheduleReconnect() |
| `Reload` | the page goes; beginConnect(), finishAsyncDurableInit() of the next one |
| `Admit`, `SendCatchup`, `SendAlreadyHave` | handleHandshakeInner(), cut at its awaits: join, WELCOME and snapshot; the range; ALREADY_HAVE |
| `CloseMalformed`, `NoticeClose` | a second frame during the handshake; the socket's close event |
| `RejectMismatch`, `AcceptOperation` | processIncomingOperation(): foreign replica id; apply or buffer, number, relay |
| `Commit`, `Sweep` | the commit with its acknowledgement; the offline-window sweep with its rejection |
| `ReceiveWelcome`, `ReceiveSnapshot`, `ReceiveBegin` | frames handled at once, with the engine rebuilt |
| `ReceiveChained` | CATCHUP_CHUNK, CATCHUP_END, ALREADY_HAVE: work chained on handshakeGate |
| `RunChunk`, `RunYield`, `RunEnd`, `FinishHandshake` | that work, with the macrotask between chunks |
| `ReceiveAck`, `ReceiveReject`, `ReceiveOp` | handleOpsMessage(), handleOps() |
| `Type` | localInsert() and sendOperation() |
| `Flush`, `CommitRows`, `LoseRows` | the durable queue's debounced flush(); an IndexedDB transaction commits, or fails |

The durable queue is asynchronous, and nobody waits for it. add() leaves its row to the
next flush (`unstored`), ack() starts a transaction at once, which takes the waiting rows
along (`flushing`), and only what has been committed (`stored`) is there for the next
page. Transactions commit in the order they began; one that fails is not retried.
A frame waits on its connection until its role lookup has answered, so that one whose
lookup is faster overtakes (`TakeOperation`).

Three things are abstracted. The server is its log: an operation enters it when it
is integrated and `committed` follows, because WritePath has shown how the two
relate; commits do not fail here and the server does not crash. An engine is the
set of its nodes and of its buffered operations, and all operations are inserts. An
identifier is the keystroke and the connection that minted it, so that an operation
minted again after a reconnection is the same edit under another identifier. When
reconcileOfflineQueue() inserts again it converts its anchor to an index and back,
and the parent it arrives at may be another node than the anchor (a descendant of
it, or a neighbour); the model takes the anchor itself, `Root` when it is gone,
which agrees in what matters here: the parent is a node of the new engine or an
operation minted just before. Editor has the conversion.

The order of frames is an explicit choice. The server sends on two lanes
(ConnectionSendQueues), of which the ops lane is emptied first, but only a socket
whose write is delayed lets one lane overtake the other. `FaultModels` is a set of
sets of what the environment may do:

| Fault | Meaning |
|---|---|
| `others` | others edit the document |
| `closings` | the page closes and opens again |
| `lanes` | the ops lane of a congested socket overtakes the control lane |
| `commit_lag` | a client is admitted while commits are outstanding |
| `relay_first` | operations are relayed while the catch-up range is being read |
| `late_frames` | frames of an old connection are handled after the next HELLO |
| `early_typing` | the user types between HELLO and the new engine |
| `joining_drop` | the connection breaks during the handshake |
| `lookups` | role lookups of one session answer in any order |
| `lagging_rows` | the page closes before the rows of operations that were answered are removed |
| `stale_rows` | or the rows of operations that have been minted again |
| `lost_rows` | a transaction of the durable queue fails |

Each of them can happen to the program. They are a parameter because the properties
of Sync differ in what they survive; section 3 says which property holds under which.

**Page** is the text in the browser: runs of text nodes, the index over them,
positions and offsets in UTF-16 units, and what a deleting command takes. A
character is a letter, a mark that joins the cluster before it, an emoji of two
units, or a newline; a rule for `Intl.Segmenter` over these four stands for the
browser's.

**Editor** is a tab on top of Page, Engine and Messages. The events of the browser
are `Type`, `Delete`, `CompositionStart`, `CompositionEnd`, `UndoRedo` and
`ForeignChange` (an extension rewrites the text, the sentinel's callback follows);
`HearRelay` and `HearAcks` are what arrives; `Drop`, `OpenSocket`, `ReplaceEngine` and
`BecomeSynced` a lost connection, the socket that is opened next and the handshake on
it, with reconcileOfflineQueue() on the engine itself. `TakeFrames` and `OthersEdit` are
everybody else. Without a socket sendFrame() does nothing; while one is connecting it
throws (`SendThrows`), when the engine has minted everything and the queue has taken all
characters of an insertion but of several deletes only the first. A handler that threw
does nothing more (`Continue`), and leaves what it had done: the page is not written.
One case is left out: a composition that is committed while a socket is connecting
leaves the browser's own preview in the page, of which the model has no picture.

### Wire

**Wire** gives every message of the three channels and the structure snapshot by a
layout, a sequence of fields; one operator writes a field and one reads it. A reader
takes a sequence of bytes to the set of what it reads: the empty set is a
ProtocolDecodeError. The behaviours encode a message, then cut, pad, alter one byte
or misdirect the frame.

## 3. Runs

| Run | Instance | Shows |
|---|---|---|
| `convergence` | 3 replicas, 2 inserts, 2 deletes, 1 repeated delivery, any order; and 2 replicas, in order, with ordinary characters and marks: 3 inserts, 1 delete, 1 undo or redo, or 2 inserts, 1 delete, 2 undo or redo | equal operations give equal documents and nothing stays buffered (`StateConvergence`); identifiers are causal, marks come first, lookups match the traversal (`WellFormed`); a character lands at its index and no node moves (`EditsKeepPlace`); redo inverts undo |
| `write_path` | 2 clients, 4 messages of 5 operations; one of six mixes: a failed commit with a crash, with a rebuild (lookups of a session in order), or with a freeze and a refusal; a crash, a snapshot and a departure without failures; an audit next to a failure and two snapshots, or to a snapshot and a crash | acknowledgement, numbering, relay, buffer, catch-up bound, restart, audit; with fairness, every send settles |
| `sync` | 2 edits, 3 connections; with others and 1 peer edit: `lanes`, `commit_lag`, `relay_first` and `joining_drop`, alone, with `lookups`, and with `lookups` and `early_typing`; with a page that closes once: `lanes`, `commit_lag`, `joining_drop`, `lookups`, `early_typing` and `lagging_rows`, with and without `lost_rows` | the client and the server implement SharedDocument; the reported sequence number covers no operation of others that is missing; nothing is refused, and what the server keeps back waits for something that comes; a durable queue at rest has what memory has |
| `retries` | 2 edits, 1 peer edit, 3 connections, chunks of 2; `relay_first` and `lookups`, alone and with `lanes`, `commit_lag` and `joining_drop`; with fairness | the reported number is honest, a synced and quiet client shows the document and nothing else, unsaved text is on the screen; every edit settles |
| `access` | 2 users, 2 requests in flight, 1 failed query, 1 session, 2 lookups, decisions of 2 ticks | the two records of the owner agree; cached decisions age out and agree with the role shown; admission looks the role up again |
| `collection` | 2 clients of which 1 types, 2 characters, 3 edits of which at most 1 inserts, 2 delete and 1 undoes, a horizon of 1 operation, 1 cycle, any clients silent when it asks | what is forgotten every client the frontier was taken from knew to be deleted; the tree stays whole; texts agree, whoever was silent; an undo within the horizon, in the measure the code takes, is accepted |
| `wire` | every kind of message with values at the boundaries of a varint and of UTF-8; 7 patched bytes | what is written is read, and what is damaged or sent by the wrong side is refused or is a message an encoder could have written |
| `editor` | 3 characters (newline, emoji, mark) in runs of 2; 3 events of which at most 2 are the user's, 1 by others, 1 foreign, 1 loss of the connection; all deleting commands | the page shows the engine's text; frames are the queue; texts agree at rest; a composition lands where it began; no cluster is cut |
| `presence` | 1 client with 1 or 2 connections and a clock, 2 clients with 3 connections, each with losses, departures, moves or shed frames | an overlay shows the room; updates on time are relayed within the rate; a session that fell silent leaves the room, and a client that hears nothing closes its connection |
| `library` | 1 browser, 2 calls and 2 requests at a time, 2 keys, pages of 1 over 4 documents, half a millisecond as the unit of time; a rename next to a transfer, a deletion or a creation | sessions hold, keys make one document, walks are complete |

The larger runs take one to two and a half minutes with two workers (`write_path`
263 000 states, `convergence`, `retries` 306 000, `sync` 1 467 000); the
others up to a minute.

What Sync's properties survive, found by enabling the faults one by one. A property
that some fault breaks has the fault as a premise, so that the mixes of the runs
check it wherever it can hold:

| Property | Fails with |
|---|---|
| `ImplementsDocument` | `late_frames` (the old frame and the operation minted in its place are both saved), `stale_rows` (the next page mints the old row once more) |
| `ForeignCeilingHonest` | none |
| `CeilingHonest` | `joining_drop` (overclaim, section 9) |
| `SyncedSeesAll` in `ScreenHonest` | `commit_lag` (missed range, section 9), `joining_drop`, `lanes` (a relay that overtakes the snapshot is lost with the engine it was applied to) |
| `UnsavedShown` in `ScreenHonest` | `early_typing`; `joining_drop` with the others |
| `NothingRefused` | `early_typing` (the operation carries the old replica id); that nothing is parked or rejected, also `lookups` (a later operation is taken before the one it refers to) |
| `RowsComplete` | `lost_rows` |
| `EditSettles` | none within its bound; with `early_typing` an edit may need one connection more than the bound has |

`late_frames` is enabled in no run: it needs an operation of a connection the client
has given up to be still under way when the server answers the next HELLO. Nor is
`stale_rows`; what it does is at the end of this section.

Premises elsewhere:

* `Restartable` speaks of behaviours that are `calm` (no failed commit, no rebuild)
  and `ordered` (lookups of a session in order), and not of ones in which a snapshot
  holds an operation that a crash lost (`Haunted`). After a failed commit,
  lastCommittedSeq passes over the gap and an operation that refers to the lost one
  is stored all the same, so that the log no longer replays; a rebuild may install
  an engine without operations that are acknowledged a moment later; with lookups
  out of order two buffered operations are numbered in arrival order, and a crash
  between their commits leaves the dependent one alone in the log; a haunted
  snapshot hides the operation that gets the lost one's number.
* `OpsAccounted` and `AckedDurable` look at the places of an operation and at the log. An
  operation that a rebuild installs an engine without is still accounted for by its row or
  its queued commit; that the engine then differs from the log is what `Restartable` and
  `AuditTells` would show, and have the rebuild as a premise.
* `AuditTells` asks for a document that did not move (`Still`) only where the code
  compares with the live text.
* `EverySendSettles` excepts senders whose connection is gone, and operations whose
  commit failed, which the code never answers.
* `StateConvergence` compares whole trees as long as nobody has sent an undelete;
  with undeletes it compares the order of nodes, and `UndoConverges` is the run that
  fails. `SameText` excepts nodes two clients deleted and one took back, for the same
  reason, and refused operations that could not be taken back.
* `PageIntact` compares the page with the engine unless something has changed the engine
  that the page is not told of (`unshown`): an undo, a new connection until it is synced,
  or an edit whose send threw, since it was made while a socket was connecting. The page
  is behind until the next mount, and the next keystroke trips the assertion of DomWriter
  (section 9).
* `SameTextAtRest` excepts tabs that have undone something (section 9) and tabs with
  `Orphans`: deletes that were minted while a socket was connecting and are in no queue.
  `NothingOrphaned` shows them, below.
* `KeyHonoured` excepts keys whose requests overlap, break off between the document
  and the row of the key, or are older than a day. `WalkComplete` excepts, for
  being left out, documents in a millisecond in which another one was when the walk
  began or was put since, and, for being shown twice, documents whose `updated_at` went
  back during the walk; `NoneLeftOut` and `ShownOnce`, below, are without these premises.
  `SessionHolds` speaks of calls that neither overlap nor lose their answers, and of
  families no two calls worked on at once.

Two runs expect a violation. Each states a sentence of the repository about the
code, and TLC shows an execution in which it fails:

| Run | Sentence | Execution |
|---|---|---|
| `undo_diverges` | arrival order does not matter for undelete (`engine.ts:329`) | an undelete and a concurrent delete of the same node, delivered in two orders |
| `ownerless` | exactly one owner, at all times (`create-document-permissions.js:33`) | a grant to a user is checked, ownership is transferred to that user, the grant is written over the owner's row |

More sentences do not hold. Each is a definition of its module, marked *Refuted*; no
run has it. With the definition as the only property, TLC finds the execution in the
instance named, within a minute:

| Definition | Sentence | Instance | Execution |
|---|---|---|---|
| `HorizonCountsOperations` | a tombstone is kept until its deleter has minted `maxOpsPerReplica` further operations (`engine.ts:755`, `884`) | `collection` with `Typists = {1, 2}`, `MaxTyped = 2`, `MaxErased = 1`, `MaxUndone = 0`, `MaxOps = 2` | one client deletes, the other types, the first hears it and types: the tombstone is forgotten although its deleter has minted one operation since |
| `OverlayShowsOthers` | the overlay has the other participants (`presenceOverlay.ts:24`, `67`) | `presence` | a client joins and is sent the roster, with itself in it |
| `StallIsReal` | only a connection that has been silent is closed (`gapTracker.ts:108-111`) | `presence` | an idle client reconnects after an outage; its handshake brings nothing new, and the first tick closes the connection |
| `NothingOrphaned` | the engine has nothing that is not queued (`syncClient.ts:696-700`) | `editor` | the connection is lost and a new socket is connecting; a selection of three characters is deleted: three deletes are in the engine, one is in the queue |
| `SavedOnce` | what was typed offline lands in the document exactly once (`reconcileOfflineQueue.ts:20`, `unackedQueue.ts:61-65`) | `sync` with `MaxEdits = 1`, `FaultModels = {{"closings", "stale_rows"}}` | an operation is minted again after a reconnection, sent and saved; the page closes before the row of the old one is removed, and the next page mints that one again |
| `ShownOnce` | cursor pagination walks every document exactly once (`documents.db.test.ts:313`) | `library` | a transfer and a rename of one document, of which the second to commit began first: `updated_at` goes back below the cursor of a walk that has shown the document |
| `NoneLeftOut` | the same | `library` | two documents of one millisecond, the first of them last on its page |

## 4. Bounds

Convergence and buffering questions are about pairs of concurrent operations seen in
both orders by a third party, so three replicas with two inserts and two deletes
contain every pairwise conflict (siblings, a child of a sibling, two deletes of one
node, a delete of a parent) and a chain of three for the drain. Lookups need a
tombstone with children on both sides, and marks a base and two concurrent
followers: three inserts. `duplicates` bounds only repeated deliveries of buffered
operations; repeated deliveries of applied ones are unbounded and change nothing.

In WritePath a chain of three operations of one client and two of another produce
every case of the slow path: the message buffered, resolved together, resolved by
another client's message. `Ceiling = 3` lies within reach so that the breaker trips;
`MaxPending = 1` makes the buffer overflow; `SweepTimeout = 2` leaves one sweep of
grace. The proofs hold for all values of these constants. The audited mixes have one
sender, and two snapshots, the least a bisection can go wrong with.

In Sync two edits give a chain inside the unacknowledged queue, and with the peer's
edit a chain across clients. Three connections are one that loses something, one
that breaks during the recovery and one that finishes it. The last connection of the
bound does not break and the page is not closed on it, since nothing could follow.
`ChunkSize` is 1 where the handshake breaks between chunks and 2 where a chunk shall
hold an operation together with the one it refers to (the code's limit is 256
operations).
Others edit in the mixes without a page that closes, and the other way round. Once no
page can read the rows of the durable queue any more they are not written
(`PageMayClose`).

In Access two requests are a pair that races; two lookups are one that overtakes
another; `TTL = 2` tells a fresh decision from one that has aged and one that is
gone. In Collection a horizon of one operation puts a delete inside it, at it and
beyond it; three edits are a delete, an operation that outpaces it and one that
refers to what is forgotten. A horizon of one operation cannot tell the replica's own
operations from the Lamport counters the code compares; the instance of
`HorizonCountsOperations` has one of two. Rows
and ages stand still once the last cycle has asked, as nobody reads them again. In Wire
`MaxBytes = 3` and `MaxSafe = 2^20 - 1` stand for
10 and 2^53 - 1, because integers of TLC have 32 bits: the longest encodings are read
whole and the ones beyond are refused in the same way. In Editor runs of two
characters make every insertion at a boundary, split and removal of a run happen;
`CapOps = 2` lets a paste run into the offline cap. In Presence `Window = 2` and
`MaxUpdates = 2` with `Coalesce = 1` keep the code's relation (20 updates 50 ms apart
fill the window of 1000 ms), and `PingEvery < Gap < Stale` keeps the order of its
times; each session stands for a socket, a session id and a replica id, which the
code never uses twice. In Library a shelf has two documents in one millisecond
between others, or two of the same time; one tick of the clock makes two transactions
that set the same row begin and commit in opposite orders.

SYMMETRY is used where model values are interchangeable and no liveness is checked:
requests and lookups in Access, clients in Presence.

Deadlock is checked in `convergence` only, where something can always be delivered
once more. Elsewhere the system rests when scripts and budgets are used up and
nothing is in flight; and after a warm start that throws the document stays closed.

## 5. Fairness

`write_path` assumes weak fairness of four things. A role lookup answers (a query of
the pool either returns or rejects; a rejection is a refusal here), the store answers
the head of the commit queue, the continuation of a settled promise runs, and the sweep
timer fires. The first and third are the event loop's guarantee; the second is the
pool's, which errors rather than hangs; the fourth is `setInterval`. Nothing is
assumed of clients, operators, crashes, audits or failures. `Sweep` is what settles
a message that is buffered forever.

`retries` assumes weak fairness of both sides' event loops (a frame that arrived is
handled, a callback that is due runs, an awaited query answers), of the commit
queue, of the sweep's interval and of the client's reconnection timer, which
`scheduleReconnect` arms after every close. Nobody has to type, drop, reload or
flush. A connection may break as often as the bound allows; that edits settle under
an endless series of broken connections is false and not claimed.

Presence states its timers as deadlines instead: the clock does not pass one that is
due, so that "within 8 seconds of silence" is a safety property. The other runs
check safety only.

## 6. Proofs

Everything here holds for every value of the constants. What is assumed of them are
the assumptions the modules state: `WritePathAssumption` (a well-formed `Dep` and
`Script`, natural bounds), `SentOnceAssumption` (a script types each operation once,
as a client mints its identifiers), `DocumentsAssumption`, `AccessAssumption`,
`AccountsAssumption`, `BrowsersAssumption` (finitely many browsers, none of which is
called "none"), `LibraryAssumption`, `SyncAssumption` (natural bounds, at least one
connection, chunks that hold something), and `PresenceAssumption` (positive times, and as
many updates as the limiter allows take the coalescer at least the window: 20 times
50 ms is 1000 ms).

### Write path

| Theorem | Property | Module |
|---|---|---|
| `TypeCorrect`, `AckedIsDurable`, `SequenceDiscipline`, `CatchupBoundIsStable` | `TypeOK`, `AckedDurable`, `SeqDiscipline`, `CatchupBoundStable` | WritePath_proofs |
| `RelayedRowsMatchLog`, `OperationsAreAccounted` | `RelayedMatchesLog`, `OpsAccounted` | WritePath_proofs |
| `RestartsFromLog` | `Restartable` | Restart_proofs |
| `AuditedIsWritePath`, `AuditsReportNoFalseHole` | AuditSpec implements Spec; `NoFalseHole` | Audit_proofs |

`AckedDurable` is not inductive. `commitOperations` treats every unique violation
as a resent duplicate (`operationStore.ts:613`), so an operation whose sequence
number were taken would be skipped, reported as committed and acknowledged. That
it is never skipped needs that no row has reached the numbers of a queued entry,
which needs that entries hold disjoint ascending ranges below `currentSeq`, that
rows lie at or below `documents.current_seq`, and that a restart resumes there.
The inductive invariant is

    DurabilityInv == TypeOK /\ SeqDiscipline /\ CommittedLogged /\ AckedDurable

where `CommittedLogged` covers the moment between the commit and the
acknowledgement. `DurabilityStep` shows that every action preserves it;
`DurabilityPublish`, `DurabilityOutcome` and `DurabilitySettle` treat the actions that
move numbers. `CatchupBoundIsStable` follows: new rows come from the head of the
queue, and its range starts above `lastCommittedSeq`.

`RelayedMatchesLog` and `OpsAccounted` are about operations where that was about
numbers. Their invariant, `OperationsInv`, says that an operation that was sent waits
for its lookup, waits in the causal buffer, has entered (engine, queue, log, snapshot,
relays) or was refused, and never two of these (`PlacesApart`, `Single`); that the
buffer holds nothing the drain could apply (`BufferDry`), which is why it is enough to
look at what just came; and that the rows of log, queue and relays pair numbers and
operations one to one (`RowsAgree`). Its hard step is a message that is taken in:
`FastNumbered` and `SlowNumbered` show that the fast path, which numbers a whole
message, and the slow path, which numbers what the drain finalized, both make entries
that are `WellNumbered`; everything else (`PublishEffect`, `OperationsPublished`) uses
only that.

`Restartable` has premises because the code has no right to more (section 3), and
`RestartInv` has them too: while they hold, nothing fails and the engine has applied
exactly what is written (`ServesWritten`); log and queue leave out no number
(`Gapless`); a row comes after the row it refers to (`CausalRows`), because what a
message refers to has arrived or is ahead of it in its session (`AwaitedFollow`); and a
snapshot has everything written up to its number (`SnapshotsComplete`).

`AuditedIsWritePath` makes all of this true of the composition that `write_path`
checks: the steps of an audit leave the variables of WritePath alone.
`AuditsReportNoFalseHole` follows from `RestartInv`, whose gapless, causally ordered
log has no hole to find.

### Permissions and admission

| Theorem | Property |
|---|---|
| `WellFormedAlways` | `WellFormed` |
| `DecisionsHoldAlways` | `DecisionsHold` |
| `AdmissionRecheckedAlways` | `AdmissionRechecked` |

The invariant is `IInv == WellFormed /\ Aged /\ Rechecked`. `OwnersAgree` survives
the interleaving of two transfers because the transaction looks at the owner again
under the lock. `DecisionsHold` needs `Aged`: a lookup that read a right and has not
yet answered is at least as old as the loss of that right (`LookupsRecent`), so that
its answer may overwrite a decision pushed meanwhile only with one stamped to age out
in time. `Rechecked` says of each stage
of a handshake what was looked up before it.

### Accounts and the list of documents

| Theorem | Property |
|---|---|
| `LibraryTypesAlways` | `TypeOK` |
| `SessionsHold` | `SessionHolds` |
| `KeysHonoured` | `KeyHonoured` |
| `WalksComplete` | `WalkComplete` |

`LibraryInv` is the conjunction of three arguments that meet only in the types:

* `AccountsInv`: no two browsers hold tokens of one family (`Owned`); the token of a
  login that is about to be answered is known to nobody (`LoginsFresh`); one call at a
  time works on a family that is not raced, and what it read of the family still holds
  when it writes (`OneCall`), which is why such a family has one usable token
  (`OneUsable`); and a calm browser presents its cookie and can go on with what it
  gets (`CalmSessions`). `SessionHolds` speaks of browsers without calls only; the
  invariant follows a call through each of its queries.
* `KeysAccounted`: what a key has made is in the row of the key or in the hands of the
  one request that is about to write that row (`Accounted`), and every answer repeats
  that row.
* `WalkInv`: nothing shown is below the cursor unless it was set back, what stayed as it
  was is shown or below it (`PagesKept`), and a document has the time it had when the
  walk began or one written since (`TimesKnown`). Nothing is assumed of the order of
  these times. `StampKeepsWalk` is the step that writes one, `CloseKeepsWalk` every other
  one. The page itself is `ListedInOrder`: sorting by the
  number of newer documents lists each document once (`Places`), for any finite set
  under any strict order. The cursor drops what is below a millisecond: `CursorMoves`
  and `AloneIsEarlier` are where a document alone in its millisecond is needed, and
  `Floor`, `WholeInOrder` and `FloorInOrder` are what they use of the division.

### Presence

| Theorem | Property |
|---|---|
| `OverlayFollowsRoomAlways` | `OverlayFollowsRoom` |
| `RoomIsTimelyAlways` | `RoomIsTimely` |

The invariant is

    IInv == Shape /\ Carets /\ Silences /\ Stalls /\ Paces /\ OverlayFollowsRoom

* `Shape`: types, and who is where. Sessions are opened in their order and an unopened
  one is as it was made; only an open socket has a lane; a client's socket is its own.
* `Carets`: those of one session come in the order they were put, from the one relayed
  last over those under way to the one that is pending; and what a roster had of a
  caret is what it was then (`SeenBefore`). It is needed because the overlay starts a
  participant without a position: a caret that came back to the value of the roster
  could not be told from one that never moved.
* `Silences` and `Stalls`: a session in the room has one timer, set at `Stale` after
  what was heard last; a synced client has a ping due within `Gap + PingEvery` of the
  last sign of life on its connection, or of its opening, and the ping timer is what
  looks at the stall. The gap tracker may hold an older time than that, so that the
  bound is an upper one: the client may give up much earlier (`StallIsReal`).
* `Paces`: the limiter counts whatever was relayed within the window (`Limited`);
  updates of a session are sent `Coalesce` apart, and are relayed that far apart
  unless one was late (`Apart`, `NextApart`). `NeverFull` concludes that a limiter that
  is full then means somebody was late, and `RecordGrows` that no window overflows,
  wherever it starts.

`OverlayFollowsRoom` is inductive next to these. `Shown` folds a lane into what is
shown, and two lemmas say what a proof needs of it: `ShownAppend` for a frame that
enters the lane, `ShownTail` for the one that leaves it. `QuietSteps` takes the steps
that touch neither a caret nor a lane together, so that only moves, flushes, rosters
and updates need the carets in detail. That the room and the lanes change in one step
(`Told`) is what the argument rests on: each of `join`, `leave`, `sendRoster` and
`handleUpdate` queues its frames before it yields.

### Synchronisation

| Theorem | Property |
|---|---|
| `SyncTypesAlways` | `TypeOK` |
| `DocumentImplemented` | `ImplementsDocument` |
| `NothingRefusedAlways` | `NothingRefused` |
| `ForeignCeilingHonestAlways` (in SyncClaims_proofs) | `ForeignCeilingHonest` |
| `RowsCompleteAlways` (in SyncClaims_proofs) | `RowsComplete` |

All are of `Spec /\ Orderly`, behaviours that have none of the faults `late_frames`,
`lookups`, `lagging_rows` and `stale_rows`; all the others of section 2 are allowed,
together, a failing durable queue among them. The four are not alike:

* with `late_frames` or `stale_rows` the refinement is false (section 3): the code saves
  an edit twice. Without the first, a session is admitted when the ones before it are
  closed; without the second, no page closes on the row of an operation that has been
  minted again;
* with `lookups` or `lagging_rows` TLC finds the refinement true (`sync`), and it
  is not proved. The first breaks what the argument below says of the order of a session's
  operations, the second that what is queued is not saved, refused or under way in
  another copy.

Orderly lookups are what a warm decision cache gives, and not what the code guarantees.
TLC finds `ForeignCeilingHonest` true with late frames too; its proof rests on `IInv`
and has the premise for that reason only.

The invariant is

    IInv == Types /\ Talks /\ Successions /\ Renewals /\ Carried /\ Identity /\ Fates

* `Talks`, `Successions`, `Renewals` are about connections. Nothing but HELLO is first
  on a connection; a session that has joined is alone, all before it closed, and an
  engine of a connection exists only then; ALREADY_HAVE finds that engine, because a
  frame that makes it is ahead in the same lane. So operations are never minted again
  while an old connection can still deliver them.
* `Carried`: what frames tell the client is in the log.
* `Identity`: identifiers. Whatever is met anywhere was minted (`Minted`), of a queued
  edit no later copy exists (`Newest`), operations hang under earlier ones (`Descent`,
  `ParentsFirst`), and the log has every edit once (`LoggedOnce`).
* `Fates`: what becomes of an operation. One that is under way and would be taken is
  not saved, refused or parked (`Lively`), is the only such copy of its edit (`Single`)
  and follows its parent (`Forward`); a parked one, with lookups in order, waits
  for a parent that will not come (`Hopeless`). What is queued is not refused, and no other copy of it is saved or
  under way (`Unsaved`). An operation whose answer is outstanding is queued, or its edit
  is settled (`Answers`). ALREADY_HAVE tells of the operations HELLO reported which of
  them are saved (`Reported`). The rows of IndexedDB, stored, waiting or in a transaction
  under way (`Noted`), that are rejections are in memory (`Stored`); what is known of the
  unsaved ones is the guard of `Reload`.

`Single` with `Lively` is what keeps an edit from being saved twice, and needs
`Reported` for the one step that makes another copy, `FinishHandshake`: it mints again
what HELLO reported and ALREADY_HAVE lacks, and by then the old session is closed and
what it still had is gone. `Forward`, `Hopeless` and `ParentsFirst` are there for the
server: an operation that is taken and has its parent lets nothing parked through, so
that the log grows by one entry a step. This is a consequence of the premise that the
lookups of a session answer in order. Where they do not, an operation may be parked until
its parent is taken, and one step may save several; `ParkedWaits`, the part of
`NothingRefused` that TLC checks for that case, says what such an operation waits for.

The proof has a lemma per action. Those that only take frames away and add nothing are
`Calm`, and most parts of the invariant are carried over for all of them at once
(`CalmKeeps`); `Type` and `FinishHandshake` both queue and send operations that are
`Fresh`, and share `MintsStep`; received frames share `ConsumedKeeps`.

For the refinement every step is one of SharedDocument or not seen in it
(`DocumentStep`). `EditIs` reads the status of an edit off the sets of edits in the log,
in the rejections and in the queue, and `SilentStutters` says that a step that moves no
edit between them is a stutter. What remains is `AcceptMaps` and `PeerEditMaps` (`Save`),
`RejectMaps` (`Refuse`, or a stutter when the edit is saved or refused already),
`TypeMaps`, `ReloadMaps` (`ClosePage`, with the edits the durable queue did not have) and
`FinishMaps` (a stutter: what leaves the queue is in the log or queued again).

`NothingRefused` is proved, under the same premise, with one more conjunction next to
`IInv`:

    Accepting == Unrefused /\ Greeted /\ Based /\ \A n \in Connections : Rooted(n)

The server refuses an operation of another replica than the session's, and parks one
whose parent it does not have. `Rooted` says neither can come: what is under way on a
connection is of its replica, and its parent is saved or under way with it; `Forward`
of `IInv` adds that it is ahead. To keep `Rooted` when something is typed the engine
must not have what the server will never get: `Based` says that it holds what is saved
or queued, that the engine of the connection holds what is saved or under way there,
and of what HELLO reported only what is saved. `Greeted` closes the circle: until HELLO
is taken nothing on the connection makes an engine, so that nothing is typed into it.
`Type` and `FinishHandshake` mint operations, and share `MintingAccepts`; it is
`TypeAccepts` that needs the absence of `early_typing`.

`ForeignCeilingHonest` needs to know what the numbers of the client stand for, in
every queue they pass through on their way to `highestAppliedSeq`. Its invariant is
`IInv /\ Claiming`, with

    Claiming == \E floor \in Nat : Standing(floor)
    Standing(floor) ==
      /\ LogCausal /\ OneCopy /\ Dry /\ Elders /\ RenewedOnce /\ Chained /\ Books /\ Claims
      /\ Floor(floor)

`floor` is the number HELLO reported on the connection of the engine. It is
quantified because the code keeps it nowhere once the catch-up is sent; `OpenSocket`
and `Reload` choose a new one, every other step keeps it.

* `Claims`: an entry of another client up to `applied` is integrated if its parent in
  the log is, or has none. It is stronger than the property, which speaks of ancestors
  all the way down: the first entry that is rooted and missing has a parent that is
  neither (`ClaimsHonest`, by a least counterexample instead of an induction).
* `Recent(floor)`: one that was claimed since HELLO is at least buffered. A claim from
  before HELLO may be of an entry the new engine does not even hold, because its parent
  was an operation of the client's own that died with the old engine.
* `Books`: what `confirmed`, `livePending`, `catchupPending` and `seen` note is in the
  log under that number, and what was seen is claimed, integrated, or buffered and noted.
* `Floor(floor)`: the frames to the client carry numbers of the log above the floor
  (`Sounds`), and the chunks under way and those that wait leave no number out
  (`ControlCovers`, `GateCovers`).
* `RenewedOnce`, `Chained`: one frame of a connection makes its engine, and a catch-up
  is only handled after it.
* `LogCausal`, `OneCopy`, `Dry`, `Elders`: parents are logged before their children, two
  operations with one identifier are one, the engine has integrated what it can, and
  nothing it holds hangs under an operation that is yet to be minted.

The core is `ArrivalClaims`: entries from above the floor that are given to the engine
cannot integrate one from below it (`NothingEarly`), as an engine that is `Dry` has
nothing left whose ancestors are all there, and parents come earlier in the log. So
no arrival makes a parent appear under an entry that was claimed and is missing.
`NewBringsNothing` says the same of what the client mints. The two ceilings,
`LiveCeiling` and `CatchupCeiling`, then only ever pass entries that are integrated,
buffered, or the client's own. `recomputeCatchupSeqCeiling` goes all the way to `seen`
once nothing is pending, and that is where `GateCovers` is needed (`SeenMore`): the
chunks that came brought every number up to there.

`RowsComplete` is about a durable queue with no transaction under way, and its invariant
about one with any number of them. `Mirrored` says that what memory has is what the rows will
come to: the row of an operation `Survives` when it is stored, put by a transaction or
waiting, and no transaction removes it afterwards, and those operations are the queued
ones; the rejections are the rows noted anywhere. `RowsBegun` gives what survives when
transactions begin, whichever they are, and `CommitMirrors` that a commit changes nothing of
it, since transactions commit in the order they began. `MirroredWhen` is what `Type`, the
answers and `FinishHandshake` then have to show: that rows are put and removed as the queue
grows and shrinks. A reload starts with what is stored, and with no reload left nobody
asks any more (`RowsKept`).

## 7. Only model-checked

* The engine and the tree, and Collection, Messages and Wire with them: what their
  recursive functions compute for every tree or frame needs induction over data,
  which the provers here do not offer.
* Liveness (`EverySendSettles`, `EditSettles`).
* The rest of `AuditTells`: `NamedIsFirst` is about what a bisection finds for every
  number of snapshots, which is induction over its steps; `IntactIsOk` needs that an
  engine equals the replay of its log also where the premises of `Restartable` do not
  hold.
* Sync where role lookups of a session answer out of order or a page closes on rows that
  should be gone: `sync` and `retries` check it, the theorems leave it out.
* What Sync says of the client's own operations below the number it reports, and of
  the screen (`CeilingHonest`, `ScreenHonest`). Both need that no connection breaks
  during a handshake, and relate the log to all operations of the client that are
  queued, under way or minted again; `OneCopy`, `Books` and `Fates` are where a proof
  would start.
* Editor.

## 8. Not modelled

* **Close events after a rebuild**: `RebuildSwap` lets all sessions leave at once, where
  `disconnectAllSessions()` sends each GOODBYE in one loop and they leave as their
  sockets close. GOODBYE is ahead of anything sent to them in between, and a message
  they still deliver is the model's message that was received before the swap and whose
  lookup answers after it.
* **Composition of Sync and WritePath**: a server crash under a client, commits that
  fail under a handshake (`handshake.ts:94`, `226`), replica ids that are handed out
  again after a crash (`documentCoordinator.ts:674`). Each module fills the time of its
  run, and their product is out of TLC's reach.
* **Sync with deletes and undo**: Editor has reconciliation of deletes on the engine
  itself, within one lost connection; Sync has the lossy handshakes, with inserts.
* **Presence**: colours, geometry and the throttled redraw of the overlay; LEAVE,
  which the client never sends.
* **Accounts**: registration, password hashing, signatures, the rate limits of
  login and tickets, validation of bodies.
* **HTTP surface**: routing, the read-only and operator routes but freeze, unfreeze
  and rebuild, configuration, metrics, logging, the dashboard and the telemetry of
  the client. They keep no state a property is about.
* **The browser**: layout, the event loop's tasks inside a handler, Unicode tables.
* The test-only crash and override hooks; in WritePath the replica check of
  `processIncomingOperation` (there a client always uses its own replica id; Sync has
  the check) and the alert thresholds of the breaker.

## 9. Known divergences

What came up of the code while modelling, beyond the two runs that expect a
violation; the definitions named are those that section 3 lists as refuted. Most are
behaviours of a module here, which a property leaves out by a premise that section 3
names; the others are outside the models.

Durability and synchronisation:

* *Snapshot ahead of the log.* `writeSnapshotNow` stamps a snapshot with `currentSeq`,
  which counts numbers whose commits are queued (`snapshotter.ts:74`). After a crash
  that loses them the next operation gets such a number, and a warm start skips its
  row although it was acknowledged (`writePath.ts:156`). `Haunted` is this state.
* *Overclaim.* `handleSnapshot` counts own unacknowledged operations
  (`syncClient.ts:1262`). When the connection breaks before ALREADY_HAVE, an
  ALREADY_CURRENT handshake drops them from the engine as unacknowledged and from the
  queue as saved, against `syncClient.ts:381-384`.
* *Missed range.* The catch-up ends at `lastCommittedSeq`, while ALREADY_HAVE counts
  what the engine has applied (`handshake.ts:164`). An own operation numbered before
  the author reconnects and committed after it is not in the range, not relayed, not
  resent, against `handshake.ts:137-140`.
* A failed commit leaves `lastCommittedSeq` passing a gap
  (`documentCoordinator.ts:226`); the slow path numbers drained operations in arrival
  order (`writePath.ts:563`); `rebuildFromLog` compares a log with an engine whose
  commits are queued (`documentCoordinator.ts:943`).
* The removal of an acknowledged row from the durable queue is started at once and not
  waited for, and the row of the operation minted in its place is put after 200 ms
  (`syncClient.ts:1439`). A page that closes when only the first has been stored has neither;
  one that closes before that has the old row, and the next page mints it again although
  the copy was sent (`SavedOnce`). A transaction that fails is not retried
  (`durableQueue.ts:227-232`).
* A role lookup is awaited per message (`writePath.ts:219`), so that a session's operation can
  be taken before the one it refers to, and be refused by the sweep if that one never comes.
* Undeletes are dropped by reconciliation as "never minted"
  (`reconcileOfflineQueue.ts:259`), although undo sends them.

The page:

* An edit while a new socket is connecting throws when it is sent, after the engine and
  the queue have taken it: the page does not show it until something mounts it anew, and
  of several deletes only the first is queued (`syncClient.ts:738-742`, `910-915`,
  `NothingOrphaned`). Undo and redo fail in the same way after the engine has undone.
* Undo and redo change the engine and not the DOM (`syncClient.ts:813-838`); the next
  keystroke trips `DomWriter.assertConsistent` (`domWriter.ts:163-172`).
* `captureCaret` looks positions of the old page up in the engine that has applied
  the new operations (`EditorView.tsx:172`, `caretTracker.ts:75`): the caret moves
  with every remote edit before it, and one at the end of a text from which others
  deleted jumps to the start. Mounting a new engine loses the caret.
* Between the replacement of the engine and "synced", input uses indexes of the page
  that is still shown (`inputPipeline.ts:161`).
* A replacement deletes before it inserts, and the insertion alone may be refused by
  the offline cap (`inputPipeline.ts:203-210`).
* A composition begun at a character that is minted again on reconnection no longer
  finds it, and its text lands at the start (`compositionController.ts:239`).
* A lone surrogate becomes U+FFFD in runs and snapshots (`codec.ts:134`).

Garbage collection:

* The undo horizon is measured in Lamport counters (`engine.ts:785`), which also grow
  by the operations of others; `HorizonCountsOperations` shows it. `UndoHonoured` is about the
  measure the code takes.
* A session that was silent for ten minutes does not hold the frontier back
  (`operationStore.ts:671-693`), so that a client may come back to tombstones it did
  not know deleted and type next to them; such an operation is refused by the sweep.
  With nobody seen for ten minutes everything that is committed counts as stable.

Permissions, accounts, presence, audit:

* A grant may also write a row for a document deleted meanwhile
  (`documentStore.ts:166`, `309`), and a permission change whose handler fails after
  its write is not pushed (`documentService.ts:431`); the decision the server
  cached ends after two seconds, the role the client was told stays.
* Overlapping refreshes end a session as if the token had been stolen; a failure
  between `markRefreshTokenUsed` and `insertRefreshToken`, or a lost answer, ends it at
  the next refresh; a logout that does not receive the cookie leaves the family usable.
* A row of an idempotency key that is older than a day is neither used nor replaced:
  the key is never idempotent again. The cursor of the list has milliseconds and the
  column microseconds, so that documents that share a millisecond can be left out
  (`NoneLeftOut`), and `updated_at` goes back when two transactions that set it commit in
  another order than they began (`documentStore.ts:389`, `ShownOnce`). Commits do not touch
  `updated_at`, which the list is ordered by.
* A session whose socket closed while its role was looked up joins all the same and
  stays in the room until the stale timer (`gateway.ts:424`); a session that went
  stale and pings again does not come back into the room (`heartbeat.ts:72`); a
  handshake that brings nothing new does not renew the gap tracker, so that after an
  idle outage every new connection is closed at its first tick (`syncClient.ts:1835`,
  `StallIsReal`); the overlay holds its own client, and its density tier counts one
  too many (`presenceManager.ts:81`, `OverlayShowsOthers`); a congested socket
  sheds the newest presence frame whatever it is, also a JOIN, a LEAVE or the roster (`sendQueues.ts:34`); disconnecting while a ticket is fetched
  still opens a socket (`syncClient.ts:1016-1030`). No caller of
  `sendPresenceUpdate` exists in the client.
* The row that holds the frontier back for a new session is written without waiting
  (`gateway.ts:529`); Collection starts with rows.
* An audit of a document that is edited may report a mismatch, and when lookups answer
  out of order a hole, with nothing lost; it is why `AuditTells` has its premises. Its
  bisection is right only because a snapshot that disagrees is followed by ones that
  do.
