-------------------------------- MODULE Sync --------------------------------
(***************************************************************************)
(* One client and the server, from HELLO to SYNC_COMPLETE and back:        *)
(* client/src/sync/syncClient.ts with its queues, and the server's         *)
(* gateway.ts, handshake.ts and sendQueues.ts.                             *)
(*                                                                         *)
(* The server is reduced to its log.  An operation enters the log when the *)
(* server integrates it; it is relayed at that moment and committed later  *)
(* (WritePath has the details).  All operations are inserts, and an engine *)
(* is the set of operations it has integrated with the ones it buffers.    *)
(* Everybody else who edits the document is PeerEdit.                      *)
(*                                                                         *)
(* An identifier is a pair <<edit, replica>>: an edit is a keystroke, and  *)
(* a keystroke that is minted again after a reconnection keeps its edit    *)
(* and changes its replica.  The n-th connection is replica n; the peers   *)
(* are replica 0.                                                          *)
(***************************************************************************)
EXTENDS Integers, Sequences, FiniteSets, SequencesExt, FiniteSetsExt

CONSTANTS
  MaxEdits,        \* bound: keystrokes of the client
  MaxPeerEdits,    \* bound: edits of the others
  MaxConnections,  \* bound: sockets the client opens
  MaxReloads,      \* bound: times the page closes and opens again
  ChunkSize,       \* operations of a CATCHUP_CHUNK
  FaultModels      \* which adversities the environment is allowed: one of these sets

(***************************************************************************)
(*  others        others edit the document                                 *)
(*  closings      the page closes and opens again                          *)
(*  lanes         the ops lane of a congested socket overtakes control     *)
(*  commit_lag    a client is admitted while commits are outstanding       *)
(*  relay_first   relays start while the catch-up range is being read      *)
(*  late_frames   frames of an old connection arrive after the next HELLO  *)
(*  early_typing  the user types between HELLO and the new engine          *)
(*  joining_drop  the connection breaks during the handshake               *)
(*  lookups       role lookups of one session answer in any order          *)
(*  lagging_rows  the page closes before the durable rows of answered      *)
(*                operations are removed                                   *)
(*  stale_rows    or those of operations that have been minted again       *)
(*  lost_rows     a transaction of the durable queue fails                 *)
(***************************************************************************)
AllFaults == {"others", "closings", "lanes", "commit_lag", "relay_first", "late_frames",
              "early_typing", "joining_drop", "lookups", "lagging_rows", "stale_rows", "lost_rows"}

ASSUME SyncAssumption ==
  /\ MaxEdits \in Nat /\ MaxPeerEdits \in Nat /\ MaxReloads \in Nat
  /\ MaxConnections \in Nat \ {0} /\ ChunkSize \in Nat \ {0}
  /\ FaultModels \subseteq SUBSET AllFaults

Edits == 1..MaxEdits
PeerEdits == (MaxEdits + 1)..(MaxEdits + MaxPeerEdits)
Connections == 1..MaxConnections
Ids == (Edits \X Connections) \cup (PeerEdits \X {0})

\* The parent of an insert: Root, or the node it hangs under.
Root == <<0, 0>>
Op(id, parent) == [id |-> id, parent |-> parent]
Operations == [id : Ids, parent : Ids \cup {Root}]

IdsOf(ops) == {o.id : o \in ops}

\* Older operations first, and of one keystroke the one minted first.
Older(a, b) == a.id[1] < b.id[1] \/ (a.id[1] = b.id[1] /\ a.id[2] < b.id[2])

InOrder(S) ==
  [k \in 1..Cardinality(S) |-> CHOOSE o \in S : Cardinality({p \in S : Older(p, o)}) = k - 1]

\* What of a queue is in a set, in the order of the queue.
Kept(queue, S) ==
  LET at == {i \in DOMAIN queue : queue[i] \in S}
  IN  IF at = DOMAIN queue THEN queue
      ELSE [k \in 1..Cardinality(at) |->
              queue[CHOOSE i \in at : Cardinality({j \in at : j < i}) = k - 1]]

Dropped(queue, S) == Kept(queue, ToSet(queue) \ S)

VARIABLES
  faults,       \* the adversities of this behaviour
  \* the server
  log,          \* operations in the order of their sequence numbers
  committed,    \* coordinator.lastCommittedSeq
  parked,       \* engine.pending of the server
  session,      \* session[n]: what the gateway keeps of connection n
  \* the network
  up,           \* up[n]: frames from the client on connection n
  ops,          \* frames to the client on the ops lane of the current connection
  control,      \* and on the control lane
  \* the client
  conn,         \* number of sockets opened
  open,         \* the current socket is open
  synced,       \* the connection state is "synced"
  engine,       \* [replica, nodes, pending], replica 0 before the first snapshot
  unacked,      \* UnackedQueue, in insertion order
  helloUnacked, \* helloUnackedIds
  seqs,         \* highestAppliedSeq and the bookkeeping behind it
  gate,         \* callbacks chained on handshakeGate that have not run
  rejected,     \* the preserved rejections
  stored,       \* rows of the durable queue: <<"unacked" or "rejected", operation>>
  flushing,     \* IndexedDB transactions under way, in the order they commit
  unstored,     \* rows to put that wait for the next of them
  typed,        \* number of edits typed
  reloads       \* times the page was closed

server == <<log, committed, parked>>
network == <<up, ops, control>>
durable == <<stored, flushing, unstored>>
client == <<engine, unacked, helloUnacked, seqs, gate, rejected, durable, typed, reloads>>
vars == <<faults, server, session, network, conn, open, synced, client>>

-----------------------------------------------------------------------------
(* Engines *)

NoEngine == [replica |-> 0, nodes |-> {}, pending |-> {}]

HasEngine == engine.replica # 0

\* The operations of P that are integrated once those of N are.
Resolved(N, P) ==
  UNION {S \in SUBSET P : \A o \in S : o.parent \in IdsOf(N \cup S) \cup {Root}}

\* applyRemote() of each of the operations.
ApplyAll(e, new) ==
  LET nodes == e.nodes \cup Resolved(e.nodes, e.pending \cup new)
  IN  [e EXCEPT !.nodes = nodes, !.pending = (e.pending \cup new) \ nodes]

\* seedEngineFromSnapshot(), replaySnapshotNodesInto().
Seeded(replica, nodes) == ApplyAll([NoEngine EXCEPT !.replica = replica], nodes)

\* Mutant: unacknowledged operations stay in the base of the new engine.
WholeBase(nodes, queue) == nodes

\* The nodes of the resident engine without the operations still to be replayed.
CleanCatchupBase(nodes, queue) == {o \in nodes : o.id \notin IdsOf(ToSet(queue))}

-----------------------------------------------------------------------------
(* The client's record of how much of the log it has *)

ResetSeqs(seq) ==
  [applied |-> seq, catchupPending |-> {}, seen |-> seq, confirmed |-> {}, livePending |-> {}]

\* recomputeCatchupSeqCeiling(): everything seen, or all before the first
\* operation still buffered.
RecomputeCatchupSeqCeiling(q, e) ==
  LET left == {p \in q.catchupPending : p.op \in e.pending}
      safe == IF left = {} THEN q.seen ELSE Min({p.seq : p \in left}) - 1
  IN  [q EXCEPT !.catchupPending = left, !.applied = Max({@, safe})]

\* Mutant: any confirmed number advances the ceiling.
JumpingCeiling(q, e) == [q EXCEPT !.applied = Max({@} \cup q.confirmed)]

\* advanceLiveSeqCeiling(): only through numbers confirmed one by one.
AdvanceLiveSeqCeiling(q, e) ==
  LET left == {p \in q.livePending : p.op \in e.pending}
      confirmed == q.confirmed \cup {p.seq : p \in q.livePending \ left}
      reached == {n \in confirmed \cup {q.applied} :
                    n >= q.applied /\ (q.applied + 1)..n \subseteq confirmed}
      applied == Max(reached)
  IN  [q EXCEPT !.livePending = left, !.applied = applied,
                !.confirmed = confirmed \ ((q.applied + 1)..applied)]

-----------------------------------------------------------------------------
(* Frames *)

Welcome(mode) == [kind |-> "welcome", mode |-> mode]
Entry(seq) == [seq |-> seq, op |-> log[seq]]

\* loadOperationLogRange()
LoadOperationLogRange(from, to) == {Entry(seq) : seq \in (from + 1)..to}

\* buildSnapshotMessage(): the resident engine, at the number of its last operation.
SnapshotMessage == [kind |-> "snapshot", seq |-> Len(log), nodes |-> ToSet(log)]

Reaches(n) == n = conn /\ open

Joined(n) == session[n].stage \in {"catchup", "checking", "joined"}

SendControl(n, frames) ==
  /\ control' = IF Reaches(n) THEN control \o frames ELSE control
  /\ UNCHANGED ops

\* ConnectionSendQueues: the ops lane is emptied before the control lane, but on
\* a socket that takes every frame at once there is no telling the lanes apart.
SendOps(n, frames) ==
  IF "lanes" \in faults
  THEN /\ ops' = IF Reaches(n) THEN ops \o frames ELSE ops
       /\ UNCHANGED control
  ELSE SendControl(n, frames)

-----------------------------------------------------------------------------
(* The server: admission *)

NewSession == [stage |-> "open", unacked |-> {}, from |-> 0, to |-> 0]

SyncMode(hello) ==
  IF ~hello.resident \/ hello.seq = 0 \/ hello.seq > Len(log) THEN "snapshot"
  ELSE IF hello.seq = Len(log) THEN "current" ELSE "catchup"

\* handleHandshakeInner() once the coordinator is ready and the role is known,
\* up to the next await: the session joins, and is sent WELCOME and a snapshot.
Admit(n) ==
  LET hello == Head(up[n])
      mode == SyncMode(hello)
  IN  /\ session[n].stage = "open" /\ up[n] # <<>>
      /\ "late_frames" \notin faults => \A m \in 1..(n - 1) : session[m].stage = "closed"
      /\ "commit_lag" \notin faults => committed = Len(log)
      /\ up' = [up EXCEPT ![n] = Tail(@)]
      /\ session' = [session EXCEPT ![n] =
           [stage |-> IF mode = "catchup" THEN "catchup" ELSE "checking",
            unacked |-> hello.unacked, from |-> hello.seq, to |-> committed]]
      /\ SendControl(n, <<Welcome(mode)>>
           \o IF mode = "snapshot"
              THEN <<SnapshotMessage>> ELSE <<>>)
      /\ UNCHANGED <<faults, server, conn, open, synced, client>>

\* A frame that arrives while HELLO is being handled is not a HELLO.
CloseMalformed(n) ==
  /\ session[n].stage = "open" /\ Len(up[n]) > 1
  /\ session' = [session EXCEPT ![n] = [NewSession EXCEPT !.stage = "closed"]]
  /\ up' = [up EXCEPT ![n] = <<>>]
  /\ UNCHANGED <<faults, server, ops, control, conn, open, synced, client>>

\* Mutant: the last chunk is not sent unless it is full.
FullChunks(from, to) ==
  [k \in 1..((to - from) \div ChunkSize) |->
     [kind |-> "chunk", through |-> from + k * ChunkSize,
      entries |-> LoadOperationLogRange(from + (k - 1) * ChunkSize, from + k * ChunkSize)]]

\* chunkCatchupOperations() of the range.
Chunks(from, to) ==
  [k \in 1..((to - from + ChunkSize - 1) \div ChunkSize) |->
     LET through == Min({from + k * ChunkSize, to})
     IN  [kind |-> "chunk", through |-> through,
          entries |-> LoadOperationLogRange(from + (k - 1) * ChunkSize, through)]]

\* The range has been read.
SendCatchup(n) ==
  /\ session[n].stage = "catchup"
  /\ session' = [session EXCEPT ![n].stage = "checking"]
  /\ SendControl(n, <<[kind |-> "begin"]>> \o Chunks(session[n].from, session[n].to)
                      \o <<[kind |-> "end", to |-> session[n].to]>>)
  /\ UNCHANGED <<faults, server, up, conn, open, synced, client>>

\* findExistingStamps(): what is committed.
ExistingStamps(stamps) == stamps \cap {log[i].id : i \in 1..committed}

\* engine.hasApplied()
Applied(stamp) == stamp \in IdsOf(ToSet(log))

\* Mutant: only what is committed counts as already there.
AlreadyHaveCommitted(stamps) == ExistingStamps(stamps)

\* buildAlreadyHaveMessage()
AlreadyHave(stamps) == ExistingStamps(stamps) \cup {s \in stamps : Applied(s)}

SendAlreadyHave(n) ==
  /\ session[n].stage = "checking"
  /\ session' = [session EXCEPT ![n].stage = "joined"]
  /\ SendControl(n, <<[kind |-> "have", ids |-> AlreadyHave(session[n].unacked)]>>)
  /\ UNCHANGED <<faults, server, up, conn, open, synced, client>>

\* The socket's close event.
NoticeClose(n) ==
  /\ n <= conn /\ ~Reaches(n) /\ session[n].stage # "closed"
  /\ session' = [session EXCEPT ![n] = [NewSession EXCEPT !.stage = "closed"]]
  /\ up' = [up EXCEPT ![n] = <<>>]
  /\ UNCHANGED <<faults, server, ops, control, conn, open, synced, client>>

-----------------------------------------------------------------------------
(* The server: operations *)

\* The operation and the parked ones it lets through, in a possible order.
Integrated(op) ==
  LET free == Resolved(ToSet(log) \cup {op}, parked)
  IN  <<op>> \o InOrder(free)

ToWireMessage(op, seq) == [kind |-> "op", seq |-> seq, op |-> op]

\* The entries are numbered and relayed to every session but their author's.
Integrate(op) ==
  LET new == Integrated(op)
      relays == [i \in DOMAIN new |-> ToWireMessage(new[i], Len(log) + i)]
      foreign == {frame \in ToSet(relays) : frame.op.id[2] # conn}
  IN  /\ "relay_first" \notin faults => \A n \in Connections : session[n].stage # "catchup"
      /\ log' = log \o new
      /\ parked' = parked \ ToSet(new)
      /\ IF conn > 0 /\ Joined(conn) THEN SendOps(conn, Kept(relays, foreign))
         ELSE UNCHANGED <<ops, control>>

\* The role lookup is part of the time a frame waits on its connection; a lookup
\* that answers before an earlier one lets its frame overtake.
TakeOperation(n, i) ==
  /\ Joined(n) /\ i \in DOMAIN up[n]
  /\ "lookups" \notin faults => i = 1
  /\ up' = [up EXCEPT ![n] = RemoveAt(@, i)]
  /\ UNCHANGED <<faults, session, committed, conn, open, synced, client>>

\* sendOpReject()
SendOpReject(n, op) == SendOps(n, <<[kind |-> "reject", op |-> op]>>)

RejectMismatch(n, i) ==
  LET op == up[n][i].op
  IN  /\ TakeOperation(n, i)
      /\ op.id[2] # n
      /\ SendOpReject(n, op)
      /\ UNCHANGED <<log, parked>>

AcceptOperation(n, i) ==
  LET op == up[n][i].op
  IN  /\ TakeOperation(n, i)
      /\ op.id[2] = n
      /\ IF op.parent \in IdsOf(ToSet(log)) \cup {Root} THEN Integrate(op)
         ELSE /\ parked' = parked \cup {op}
              /\ UNCHANGED <<log, ops, control>>

\* An operation of another client arrives.
PeerEdit ==
  LET made == {i \in DOMAIN log : log[i].id[2] = 0}
  IN  /\ "others" \in faults /\ Cardinality(made) < MaxPeerEdits
      /\ \E parent \in IdsOf(ToSet(log)) \cup {Root} :
           Integrate(Op(<<MaxEdits + Cardinality(made) + 1, 0>>, parent))
      /\ UNCHANGED <<faults, committed, session, up, conn, open, synced, client>>

\* The commit of the next entry; its author is sent an acknowledgement.
Commit ==
  LET op == log[committed + 1]
      author == op.id[2]
  IN  /\ committed < Len(log)
      /\ committed' = committed + 1
      /\ IF author # 0 /\ Joined(author)
         THEN SendOps(author, <<[kind |-> "ack", seq |-> committed + 1, id |-> op.id]>>)
         ELSE UNCHANGED <<ops, control>>
      /\ UNCHANGED <<faults, log, parked, session, up, conn, open, synced, client>>

\* The offline-window sweep gives up on a parked operation.
Sweep(op) ==
  /\ op \in parked
  /\ parked' = parked \ {op}
  /\ IF Joined(op.id[2]) THEN SendOpReject(op.id[2], op)
     ELSE UNCHANGED <<ops, control>>
  /\ UNCHANGED <<faults, log, committed, session, up, conn, open, synced, client>>

-----------------------------------------------------------------------------
(* The client: connections *)

\* A macrotask runs when no callback of handshakeGate is due.
EventLoopIdle == gate # <<>> => gate[1].kind = "yield"

\* onOpen(): a new generation, whose HELLO reports what is unacknowledged.
OpenSocket ==
  /\ EventLoopIdle /\ ~open /\ conn < MaxConnections
  /\ conn' = conn + 1
  /\ open' = TRUE
  /\ gate' = <<>>
  /\ helloUnacked' = IdsOf(ToSet(unacked))
  /\ up' = [up EXCEPT ![conn + 1] =
       <<[kind |-> "hello", seq |-> seqs.applied, unacked |-> IdsOf(ToSet(unacked)),
          resident |-> HasEngine]>>]
  /\ UNCHANGED <<faults, server, session, ops, control, synced, engine, unacked, seqs, rejected,
                 durable, typed, reloads>>

LoseConnection ==
  /\ open' = FALSE /\ synced' = FALSE
  /\ ops' = <<>> /\ control' = <<>>

\* onClose(), for whatever reason.  The last connection of the bound stays.
Drop ==
  /\ EventLoopIdle /\ open /\ conn < MaxConnections
  /\ "joining_drop" \notin faults => synced \/ session[conn].stage = "closed"
  /\ LoseConnection
  /\ UNCHANGED <<faults, server, session, up, conn, client>>

-----------------------------------------------------------------------------
(* The client: the durable queue *)

UnackedRow(op) == <<"unacked", op>>

RejectedRow(op) == <<"rejected", op>>

StoredAs(kind) == {row[2] : row \in {r \in stored : r[1] = kind}}

\* flush(): a transaction takes all the rows that wait; ack() adds a removal.
Transaction(put, removed) == [put |-> put, removed |-> removed]

\* Bound: once no page can read them any more, rows are not written.
PageMayClose == "closings" \in faults /\ reloads < MaxReloads

\* Transactions begin and rows wait.
WriteRows(transactions, waiting) ==
  IF PageMayClose
  THEN flushing' = flushing \o transactions /\ unstored' = waiting /\ UNCHANGED stored
  ELSE UNCHANGED durable

\* Mutant: what is put is written after what is removed.
WrittenPutLast(transaction) ==
  {row \in stored : row[1] = "unacked" => row[2].id \notin transaction.removed}
  \cup transaction.put

\* What a transaction leaves.
Written(transaction) ==
  {row \in stored \cup transaction.put :
     row[1] = "unacked" => row[2].id \notin transaction.removed}

\* The trailing edge of the 200 ms debounce.
Flush ==
  /\ unstored # {} /\ PageMayClose
  /\ WriteRows(<<Transaction(unstored, {})>>, {})
  /\ UNCHANGED <<faults, server, session, network, conn, open, synced, engine, unacked, helloUnacked,
                 seqs, gate, rejected, typed, reloads>>

\* A transaction commits, or fails and is not tried again.
EndTransaction(left) ==
  /\ flushing # <<>> /\ PageMayClose
  /\ stored' = left
  /\ flushing' = Tail(flushing)
  /\ UNCHANGED <<faults, server, session, network, conn, open, synced, engine, unacked, helloUnacked,
                 seqs, gate, rejected, unstored, typed, reloads>>

CommitRows == EndTransaction(Written(Head(flushing)))

LoseRows == "lost_rows" \in faults /\ EndTransaction(stored)

\* Of the operations no longer queued whose rows are still there, the ones that
\* were answered and not minted again.
Answered(op) == op.id \in IdsOf(ToSet(log)) \/ (op \in rejected /\ RejectedRow(op) \notin stored)

RowsMayLag ==
  \A op \in StoredAs("unacked") \ ToSet(unacked) :
    IF Answered(op) THEN "lagging_rows" \in faults ELSE "stale_rows" \in faults

\* The page closes and opens again: memory is gone, loadUnacked() and
\* loadRejected() restore the rows that are stored, the operations in the order
\* of their minting, and the first HELLO has no engine to offer.
Reload ==
  /\ typed > 0 /\ conn < MaxConnections /\ PageMayClose
  /\ RowsMayLag
  /\ reloads' = reloads + 1
  /\ LoseConnection
  /\ engine' = NoEngine
  /\ seqs' = ResetSeqs(0)
  /\ unacked' = InOrder(StoredAs("unacked"))
  /\ rejected' = StoredAs("rejected")
  /\ helloUnacked' = {} /\ gate' = <<>> /\ flushing' = <<>> /\ unstored' = {}
  /\ UNCHANGED <<faults, server, session, up, conn, stored, typed>>

-----------------------------------------------------------------------------
(* The client: the handshake *)

\* The next frame: the ops lane first.
Receives(kind) ==
  /\ EventLoopIdle /\ open /\ ops \o control # <<>>
  /\ Head(ops \o control).kind = kind
  /\ IF ops # <<>> THEN ops' = Tail(ops) /\ UNCHANGED control
                   ELSE control' = Tail(control) /\ UNCHANGED ops
  /\ UNCHANGED <<faults, server, session, up, conn, open, synced, typed, reloads>>

Frame == Head(ops \o control)

\* rebuildEngineForReconnect(): replaySnapshotNodesInto() a new engine.
Rebuild ==
  /\ engine' = Seeded(conn, CleanCatchupBase(engine.nodes, unacked))
  /\ seqs' = ResetSeqs(seqs.applied)

ReceiveWelcome ==
  /\ Receives("welcome")
  /\ IF Frame.mode = "current" THEN Rebuild ELSE UNCHANGED <<engine, seqs>>
  /\ UNCHANGED <<unacked, helloUnacked, gate, rejected, durable>>

\* handleSnapshot()
ReceiveSnapshot ==
  /\ Receives("snapshot")
  /\ engine' = Seeded(conn, Frame.nodes)
  /\ seqs' = ResetSeqs(Frame.seq)
  /\ UNCHANGED <<unacked, helloUnacked, gate, rejected, durable>>

\* handleCatchupBegin()
ReceiveBegin ==
  /\ Receives("begin")
  /\ Rebuild
  /\ UNCHANGED <<unacked, helloUnacked, gate, rejected, durable>>

\* Mutant: mutateAdvanceSeqPerChunk, progress is recorded when a chunk is received.
ReceiveChainedEagerly ==
  /\ \E kind \in {"chunk", "end", "have"} : Receives(kind)
  /\ gate' = Append(gate, Frame)
  /\ seqs' = IF Frame.kind = "chunk" THEN [seqs EXCEPT !.applied = Max({@, Frame.through})]
             ELSE seqs
  /\ UNCHANGED <<engine, unacked, helloUnacked, rejected, durable>>

\* handleCatchupChunk(), handleCatchupEnd() and handleAlreadyHave() chain their
\* work onto handshakeGate.
ReceiveChained ==
  /\ \E kind \in {"chunk", "end", "have"} : Receives(kind)
  /\ gate' = Append(gate, Frame)
  /\ UNCHANGED <<engine, unacked, helloUnacked, seqs, rejected, durable>>

RunYield ==
  /\ gate # <<>> /\ gate[1].kind = "yield"
  /\ gate' = Tail(gate)
  /\ UNCHANGED <<faults, server, session, network, conn, open, synced, engine, unacked, helloUnacked,
                 seqs, rejected, durable, typed, reloads>>

RunChunk ==
  /\ gate # <<>> /\ gate[1].kind = "chunk"
  /\ engine' = ApplyAll(engine, {entry.op : entry \in gate[1].entries})
  /\ seqs' = RecomputeCatchupSeqCeiling(
       [seqs EXCEPT !.catchupPending = @ \cup gate[1].entries,
                    !.seen = Max({@, gate[1].through})], engine')
  /\ gate' = <<[kind |-> "yield"]>> \o Tail(gate)
  /\ UNCHANGED <<faults, server, session, network, conn, open, synced, unacked, helloUnacked,
                 rejected, durable, typed, reloads>>

RunEnd ==
  /\ gate # <<>> /\ gate[1].kind = "end"
  /\ seqs' = RecomputeCatchupSeqCeiling([seqs EXCEPT !.seen = Max({@, gate[1].to})], engine)
  /\ gate' = Tail(gate)
  /\ UNCHANGED <<faults, server, session, network, conn, open, synced, engine, unacked, helloUnacked,
                 rejected, durable, typed, reloads>>

\* ack() of each of the operations; the first takes the rows that wait along.
Removals(queue) ==
  [i \in DOMAIN queue |-> Transaction(IF i = 1 THEN unstored ELSE {}, {queue[i].id})]

\* The reported operations the server does not have.
ToReconcile(reported, had) == Dropped(reported, {op \in ToSet(reported) : op.id \in had})

\* Mutants: the operations are sent as they are, the parent is not resolved, and
\* the replica id is one ahead.
ResentAsIs(queue) == queue

RemintedUnresolved(queue) ==
  [i \in DOMAIN queue |-> Op(<<queue[i].id[1], engine.replica>>, queue[i].parent)]

RemintedAhead(queue) ==
  [i \in DOMAIN queue |-> Op(<<queue[i].id[1], engine.replica + 1>>, Root)]

\* reconcileOfflineQueue(): each is minted again by the new engine, below what
\* its parent has become.
Reminted(queue) ==
  LET New(id) == <<id[1], engine.replica>>
      Anchor(id) == IF id \in IdsOf(ToSet(queue)) THEN New(id)
                    ELSE IF id \in IdsOf(engine.nodes) THEN id ELSE Root
  IN  [i \in DOMAIN queue |-> Op(New(queue[i].id), Anchor(queue[i].parent))]

\* Mutant: the operations minted again are not queued again.
ForgetResent(rest, resent) == rest

QueueAgain(rest, resent) == rest \o resent

\* finishHandshakeAfterAlreadyHave(), which may find the socket closed.
FinishHandshake ==
  LET hello == {op \in ToSet(unacked) : op.id \in helloUnacked}
      reported == Kept(unacked, hello)
      resent == Reminted(ToReconcile(reported, gate[1].ids))
  IN  /\ gate # <<>> /\ gate[1].kind = "have"
      /\ gate' = Tail(gate)
      /\ unacked' = QueueAgain(Dropped(unacked, hello), resent)
      /\ WriteRows(Removals(reported), (IF reported = <<>> THEN unstored ELSE {})
                                       \cup {UnackedRow(op) : op \in ToSet(resent)})
      /\ engine' = ApplyAll(engine, ToSet(resent))
      /\ up' = IF open THEN [up EXCEPT ![conn] = @ \o [i \in DOMAIN resent |->
                                [kind |-> "op", op |-> resent[i]]]]
               ELSE up
      /\ synced' = TRUE
      /\ UNCHANGED <<faults, server, session, ops, control, conn, open, helloUnacked, seqs, rejected,
                     typed, reloads>>

-----------------------------------------------------------------------------
(* The client: operations *)

Without(queue, id) == Dropped(queue, {op \in ToSet(queue) : op.id = id})

\* handleOpsMessage(), an OP_ACK: the number is the client's own.
ReceiveAck ==
  /\ Receives("ack")
  /\ unacked' = Without(unacked, Frame.id)
  /\ WriteRows(<<Transaction(unstored, {Frame.id})>>, {})
  /\ seqs' = AdvanceLiveSeqCeiling([seqs EXCEPT !.confirmed = @ \cup {Frame.seq}], engine)
  /\ UNCHANGED <<engine, helloUnacked, gate, rejected>>

\* tryRevertLocalInsert(): a leaf disappears, anything else stays.
Reverted(e, op) ==
  IF \E o \in e.nodes : o.parent = op.id THEN e ELSE [e EXCEPT !.nodes = @ \ {op}]

\* Mutant: the text of a rejected operation is not preserved.
PreserveNothing(preserved, op) == preserved

PreserveRejected(preserved, op) == preserved \cup {op}

\* handleOpsMessage(), an OP_REJECT: preserve, never destroy.
ReceiveReject ==
  /\ Receives("reject")
  /\ unacked' = Without(unacked, Frame.op.id)
  /\ WriteRows(<<Transaction(unstored, {Frame.op.id})>>, {RejectedRow(Frame.op)})
  /\ rejected' = PreserveRejected(rejected, Frame.op)
  /\ engine' = Reverted(engine, Frame.op)
  /\ UNCHANGED <<helloUnacked, seqs, gate>>

\* handleOps(): ignored without an engine.
ReceiveOp ==
  LET entry == [seq |-> Frame.seq, op |-> Frame.op]
      applied == ApplyAll(engine, {Frame.op})
      noted == IF Frame.op \in applied.pending
               THEN [seqs EXCEPT !.livePending = @ \cup {entry}]
               ELSE [seqs EXCEPT !.confirmed = @ \cup {Frame.seq}]
  IN  /\ Receives("op")
      /\ engine' = IF HasEngine THEN applied ELSE engine
      /\ seqs' = IF HasEngine THEN AdvanceLiveSeqCeiling(noted, applied) ELSE seqs
      /\ UNCHANGED <<unacked, helloUnacked, gate, rejected, durable>>

\* localInsert() and sendOperation().
Type ==
  /\ EventLoopIdle /\ HasEngine /\ typed < MaxEdits
  /\ "early_typing" \notin faults => ~open \/ engine.replica = conn
  /\ typed' = typed + 1
  /\ \E parent \in IdsOf(engine.nodes) \cup {Root} :
       LET op == Op(<<typed + 1, engine.replica>>, parent)
       IN  /\ engine' = ApplyAll(engine, {op})
           /\ unacked' = Append(unacked, op)
           /\ WriteRows(<<>>, unstored \cup {UnackedRow(op)})
           /\ up' = IF open THEN [up EXCEPT ![conn] = Append(@, [kind |-> "op", op |-> op])]
                    ELSE up
  /\ UNCHANGED <<faults, server, session, ops, control, conn, open, synced, helloUnacked, seqs, gate,
                 rejected, reloads>>

-----------------------------------------------------------------------------

Init ==
  /\ faults \in FaultModels
  /\ log = <<>> /\ committed = 0 /\ parked = {}
  /\ session = [n \in Connections |-> NewSession]
  /\ up = [n \in Connections |-> <<>>] /\ ops = <<>> /\ control = <<>>
  /\ conn = 0 /\ open = FALSE /\ synced = FALSE
  /\ engine = NoEngine /\ unacked = <<>> /\ helloUnacked = {}
  /\ seqs = ResetSeqs(0) /\ gate = <<>> /\ rejected = {}
  /\ stored = {} /\ flushing = <<>> /\ unstored = {} /\ typed = 0 /\ reloads = 0

Handshake(n) == Admit(n) \/ CloseMalformed(n) \/ SendCatchup(n) \/ SendAlreadyHave(n)
                \/ NoticeClose(n)

Take(n) == \E i \in DOMAIN up[n] : RejectMismatch(n, i) \/ AcceptOperation(n, i)

Receive == ReceiveWelcome \/ ReceiveSnapshot \/ ReceiveBegin \/ ReceiveChained
           \/ ReceiveAck \/ ReceiveReject \/ ReceiveOp

Run == RunYield \/ RunChunk \/ RunEnd \/ FinishHandshake

Next ==
  \/ \E n \in Connections : Handshake(n) \/ Take(n)
  \/ PeerEdit \/ Commit
  \/ \E op \in parked : Sweep(op)
  \/ OpenSocket \/ Drop \/ Reload
  \/ Receive \/ Run
  \/ Type \/ Flush \/ CommitRows \/ LoseRows

Spec == Init /\ [][Next]_vars

\* Both sides keep handling what has arrived, commits succeed, the sweep and the
\* reconnection timer fire.  Nobody has to type, and nothing has to break.
Fairness ==
  /\ \A n \in Connections : WF_vars(Handshake(n)) /\ WF_vars(Take(n))
  /\ WF_vars(Commit)
  /\ WF_vars(\E op \in parked : Sweep(op))
  /\ WF_vars(OpenSocket)
  /\ WF_vars(Receive) /\ WF_vars(Run)

FairSpec == Spec /\ Fairness

-----------------------------------------------------------------------------
(* Properties *)

Frames == [kind : {"welcome"}, mode : {"current", "catchup", "snapshot"}]
  \cup [kind : {"snapshot"}, seq : Nat, nodes : SUBSET Operations]
  \cup [kind : {"begin", "yield"}]
  \cup [kind : {"chunk"}, through : Nat, entries : SUBSET [seq : Nat, op : Operations]]
  \cup [kind : {"end"}, to : Nat]
  \cup [kind : {"have"}, ids : SUBSET Ids]
  \cup [kind : {"ack"}, seq : Nat, id : Ids]
  \cup [kind : {"reject"}, op : Operations]
  \cup [kind : {"op"}, seq : Nat, op : Operations]

ClientFrames == [kind : {"op"}, op : Operations]
  \cup [kind : {"hello"}, seq : Nat, unacked : SUBSET Ids, resident : BOOLEAN]

Rows == {"unacked", "rejected"} \X Operations

Transactions == [put : SUBSET Rows, removed : SUBSET Ids]

\* Every variable has its type (syncClient.ts:268-508, gateway.ts:225-250).
TypeOK ==
  /\ log \in Seq(Operations) /\ committed \in 0..Len(log) /\ parked \subseteq Operations
  /\ session \in [Connections ->
       [stage : {"open", "catchup", "checking", "joined", "closed"}, unacked : SUBSET Ids,
        from : Nat, to : Nat]]
  /\ up \in [Connections -> Seq(ClientFrames)]
  /\ ops \in Seq(Frames) /\ control \in Seq(Frames) /\ gate \in Seq(Frames)
  /\ conn \in 0..MaxConnections /\ open \in BOOLEAN /\ synced \in BOOLEAN
  /\ engine \in [replica : 0..MaxConnections, nodes : SUBSET Operations,
                 pending : SUBSET Operations]
  /\ unacked \in Seq(Operations) /\ helloUnacked \subseteq Ids
  /\ seqs \in [applied : Nat, catchupPending : SUBSET [seq : Nat, op : Operations], seen : Nat,
               confirmed : SUBSET Nat, livePending : SUBSET [seq : Nat, op : Operations]]
  /\ rejected \subseteq Operations
  /\ stored \cup unstored \subseteq Rows
  /\ flushing \in Seq(Transactions)
  /\ typed \in 0..MaxEdits /\ reloads \in 0..MaxReloads

\* highestAppliedSeq never overclaims: of the log up to it, the client's engine
\* has everything but what is queued to be minted again (syncClient.ts:378-388),
\* as long as no connection breaks during a handshake, see README.
CeilingHonest ==
  HasEngine /\ "joining_drop" \notin faults =>
    \A i \in 1..Min({seqs.applied, Len(log)}) : log[i] \in engine.nodes \cup ToSet(unacked)

\* All that can be missing are operations of its own, and what hangs below them:
\* a connection that breaks before ALREADY_HAVE is the only leak.
ForeignCeilingHonest ==
  LET missing == {o \in ToSet(log) : o.id[1] \in Edits /\ o \notin engine.nodes}
      rooted == Resolved({}, ToSet(log) \ missing)
  IN  HasEngine => \A i \in 1..Min({seqs.applied, Len(log)}) :
                     log[i] \in rooted => log[i] \in engine.nodes

Quiet ==
  /\ open /\ synced /\ session[conn].stage = "joined" /\ committed = Len(log)
  /\ ops = <<>> /\ control = <<>> /\ gate = <<>> /\ up[conn] = <<>>

SyncedSeesAll == Quiet /\ "commit_lag" \notin faults => engine.nodes = ToSet(log)

UnsavedShown ==
  synced /\ "joining_drop" \notin faults => ToSet(unacked) \subseteq engine.nodes

\* The screen is honest.  A client that is synced, with nothing on its way in either
\* direction, shows the document the server has, all of it and nothing else, if no
\* commit was outstanding when it was admitted (handshake.ts:116-128,
\* finishHandshakeAfterAlreadyHave()); and once a handshake is through, what is
\* queued is on the screen: the user sees the text they have typed
\* (buildCleanCatchupBase(), reconcileOfflineQueue()).
ScreenHonest == SyncedSeesAll /\ UnsavedShown

\* The operations under way on a connection.
UnderWay(n) == {up[n][i].op : i \in {j \in DOMAIN up[n] : up[n][j].kind = "op"}}

\* What the server has given up, as far as the client can know.
GivenUp ==
  rejected \cup {f.op : f \in {frame \in ToSet(ops) \cup ToSet(control) : frame.kind = "reject"}}

\* An operation the server keeps back waits for one that is on its way on the same
\* connection, or kept back too, unless the sweep has given that one up.
ParkedWaits ==
  \A op \in parked : Reaches(op.id[2]) =>
    op.parent \in IdsOf(UnderWay(op.id[2]) \cup parked \cup GivenUp)

\* With typing suspended between HELLO and the new engine, the server has no
\* reason to reject an operation: each carries the replica of its session
\* (reconcileOfflineQueue.ts:1-14), and none has to wait for its parent as long as
\* the role lookups of a session answer in order (writePath.ts:219).  Lookups out of
\* order only delay: what waits, waits for something that comes.
NothingRefused ==
  "early_typing" \notin faults =>
    /\ \A n \in Connections : Joined(n) => \A op \in UnderWay(n) : op.id[2] = n
    /\ "lookups" \notin faults => rejected = {} /\ parked = {}
    /\ ParkedWaits

\* Refuted, with the fault stale_rows.  What was typed offline is minted again and
\* lands "in the final document, exactly once" (reconcileOfflineQueue.ts:20,
\* unackedQueue.ts:56-71), although a page dies between the resent frames and the
\* removal of the rows they replace.
SavedOnce == \A i, j \in DOMAIN log : log[i].id[1] = log[j].id[1] => i = j

\* A durable queue at rest holds what memory holds: a page that closes then forgets
\* nothing (durableQueue.ts:219-270, unackedQueue.ts:43-73, syncClient.ts:1583-1595).
RowsComplete ==
  flushing = <<>> /\ unstored = {} /\ PageMayClose /\ "lost_rows" \notin faults =>
    StoredAs("unacked") = ToSet(unacked) /\ StoredAs("rejected") = rejected

Edit(e) ==
  IF e > typed THEN "unused"
  ELSE IF \E i \in DOMAIN log : log[i].id[1] = e THEN "saved"
  ELSE IF \E o \in rejected : o.id[1] = e THEN "refused"
  ELSE IF \E o \in ToSet(unacked) : o.id[1] = e THEN "unsaved"
  ELSE "forgotten"

Document == INSTANCE SharedDocument WITH
  text <- [i \in DOMAIN log |-> log[i].id[1]],
  status <- [e \in Edits |-> Edit(e)],
  closings <- reloads

\* The client and the server implement the shared document: through every loss
\* of the connection, an edit is saved once, refused aloud, or still queued, and
\* only a page that closes forgets one (RC-33d, DUR-05, DUR-07, API Spec 5.5).
ImplementsDocument == Document!Spec

\* What the user has typed is in the end saved or refused, if the page stays
\* open (reconcileOfflineQueue() and the retries of scheduleReconnect()).
EditSettles == \A e \in Edits : Edit(e) = "unsaved" ~> Edit(e) \in {"saved", "refused"}
=============================================================================
