----------------------------- MODULE WritePath -----------------------------
(***************************************************************************)
(* The server side of one document: packages/server/src/writePath.ts with  *)
(* the coordinator state it works on (documentCoordinator.ts), the         *)
(* operation store (db/operationStore.ts), the snapshotter and the         *)
(* offline-window sweep.                                                   *)
(*                                                                         *)
(* Each action is one stretch of code between two awaits.  The engine is   *)
(* abstracted to the set of operations it has applied: an operation is     *)
(* ready when the one it refers to (Dep) has been applied.  A client is    *)
(* abstracted to the fixed sequence of messages it will send (Script) and  *)
(* the operations it knows; it sends an operation only when it knows what  *)
(* the operation refers to.                                                *)
(***************************************************************************)
EXTENDS Integers, Sequences, FiniteSets

CONSTANTS
  Sessions,      \* clients of the document
  Ops,           \* operations, all of them inserts
  NoOp,          \* stands for "refers to nothing"
  Dep,           \* Dep[o]: the operation whose node o refers to, or NoOp
  Script,        \* Script[s]: the messages of client s, each a sequence of Ops
  Ceiling,       \* structureSizeCeiling of the circuit breaker
  SweepTimeout,  \* pendingRejectTimeoutMs, counted in sweeps
  MaxPending,    \* maxPendingPerDocument
  Budgets        \* bounds: how often what may happen, each a possible mix, see Init

ASSUME WritePathAssumption ==
  /\ NoOp \notin Ops
  /\ Dep \in [Ops -> Ops \cup {NoOp}]
  /\ Script \in [Sessions -> Seq(Seq(Ops))]
  /\ \A s \in Sessions : \A k \in 1..Len(Script[s]) : Script[s][k] # <<>>
  /\ SweepTimeout \in Nat \ {0}
  /\ Ceiling \in Nat /\ MaxPending \in Nat
  /\ Budgets \subseteq [failures : Nat, crashes : Nat, snapshots : Nat, leaves : Nat,
                         freezes : Nat, denials : Nat, rebuilds : Nat, calm : BOOLEAN,
                         ordered : BOOLEAN, senders : SUBSET Sessions]

\* An operation is sent in one place: its identifier is minted once, and what a
\* connection leaves unacknowledged is minted again under another.
ASSUME SentOnceAssumption ==
  \A s, t \in Sessions : \A k \in DOMAIN Script[s], l \in DOMAIN Script[t] :
    \A i \in DOMAIN Script[s][k], j \in DOMAIN Script[t][l] :
      Script[s][k][i] = Script[t][l][j] => s = t /\ k = l /\ i = j

VARIABLES
  \* the process
  phase,            \* "up", "down", or "failed": warm start threw
  epoch,            \* epoch[s]: which session (replica id) of client s is current
  live,             \* clients whose session has joined
  awaiting,         \* messages past the breaker check, waiting for authorization
  applied,          \* operations the engine has applied
  pending,          \* engine.pending with pendingOpOrigin: [op, session, epoch, at]
  age,              \* age[o]: sweeps since o was first seen pending
  currentSeq,
  lastCommittedSeq,
  queue,            \* the commit queue; only its head has been handed to the store
  snapshotInFlight,
  tripped,          \* circuitBreakerState.tripped
  frozen,           \* manuallyFrozen
  rebuilding,       \* rebuildFromLog() has read the log and not yet replayed it
  rebuildLog,       \* the operations it read
  \* the database
  log,              \* rows of the operations table: [seq, op]
  docSeq,           \* documents.current_seq
  snapshots,        \* rows of the snapshots table: [seq, ops]
  \* the clients
  next,             \* next[s]: index of the message client s sends next
  known,            \* known[s]: operations client s has
  acked,            \* operations acknowledged to the session that sent them
  rejected,         \* operations refused by OP_REJECT or evicted by the sweep
  lost,             \* operations whose commit failed, or that a crash or rebuild dropped
  relayed,          \* relayed[s]: [seq, op] sent to the current session of s
  budget            \* what the bounds still allow

sessionVars == <<epoch, live, awaiting>>
engineVars == <<applied, pending, age>>
commitVars == <<currentSeq, lastCommittedSeq, queue, snapshotInFlight>>
breakerVars == <<tripped, frozen>>
rebuildVars == <<rebuilding, rebuildLog>>
database == <<log, docSeq, snapshots>>
clients == <<next, known, acked, rejected, lost, relayed>>
vars == <<phase, sessionVars, engineVars, commitVars, breakerVars, rebuildVars,
          database, clients, budget>>

ToSet(s) == {s[i] : i \in DOMAIN s}

Init ==
  /\ phase = "up"
  /\ epoch = [s \in Sessions |-> 0] /\ live = Sessions /\ awaiting = {}
  /\ applied = {} /\ pending = {} /\ age = [o \in Ops |-> 0]
  /\ currentSeq = 0 /\ lastCommittedSeq = 0 /\ queue = <<>> /\ snapshotInFlight = FALSE
  /\ tripped = FALSE /\ frozen = FALSE
  /\ rebuilding = FALSE /\ rebuildLog = {}
  /\ log = {} /\ docSeq = 0 /\ snapshots = {}
  /\ next = [s \in Sessions |-> 1]
  /\ known = [s \in Sessions |-> {}]
  /\ acked = {} /\ rejected = {} /\ lost = {}
  /\ relayed = [s \in Sessions |-> {}]
  \* failed commits, crashes of the process, snapshots written, sessions that end,
  \* manual freezes, messages that are refused, rebuilds from the log; calm: no
  \* commit fails and no log is rebuilt; ordered: a session's lookups answer in
  \* order; senders: the clients that type
  /\ budget \in Budgets

-----------------------------------------------------------------------------
(* Receiving and authorizing a message *)

\* A message is named by its client, that client's session, and its index.
MessageOps(m) == Script[m.session][m.index]

\* processIncomingOperation() up to its first await: the breaker is checked,
\* then the role lookup starts.
Receive(s) ==
  LET m == [session |-> s, epoch |-> epoch[s], index |-> next[s]]
      ops == MessageOps(m)
  IN  /\ phase = "up" /\ s \in live
      /\ s \in budget.senders
      /\ next[s] <= Len(Script[s])
      /\ \A i \in DOMAIN ops :
           Dep[ops[i]] \in known[s] \cup {NoOp} \cup {ops[j] : j \in 1..(i-1)}
      /\ next' = [next EXCEPT ![s] = @ + 1]
      /\ known' = [known EXCEPT ![s] = @ \cup ToSet(ops)]
      /\ \/ /\ tripped \/ frozen
            /\ rejected' = rejected \cup ToSet(ops)
            /\ UNCHANGED awaiting
         \/ /\ ~tripped /\ ~frozen
            /\ awaiting' = awaiting \cup {m}
            /\ UNCHANGED rejected
      /\ UNCHANGED <<phase, epoch, live, engineVars, commitVars, breakerVars, rebuildVars,
                     database, acked, lost, relayed, budget>>

\* The role lookup of message m answers now.
Answers(m) ==
  /\ phase = "up"
  /\ m \in awaiting
  /\ budget.ordered => \A n \in awaiting : n.session = m.session => n.index >= m.index
  /\ awaiting' = awaiting \ {m}

\* PERMISSION_DENIED or RATE_LIMITED: nothing but the rejection.  A session that
\* keeps exceeding its rate has its socket closed, and leaves when that is noticed.
Deny(m) ==
  /\ Answers(m)
  /\ budget.denials > 0
  /\ rejected' = rejected \cup ToSet(MessageOps(m))
  /\ budget' = [budget EXCEPT !.denials = @ - 1]
  /\ UNCHANGED <<phase, epoch, live, engineVars, commitVars, breakerVars, rebuildVars,
                 database, next, known, acked, lost, relayed>>

-----------------------------------------------------------------------------
(* Applying an authorized message *)

\* Mutant: a single drain() sweep.
ResolvedOnePass(A, P) == {o \in P : Dep[o] \in A \cup {NoOp}}

\* The operations of P that become ready, in any number of drain() sweeps, once
\* A is applied.
Resolved(A, P) ==
  UNION {S \in SUBSET P : \A o \in S : Dep[o] \in A \cup S \cup {NoOp}}

PendingOps == {p.op : p \in pending}

\* What the engine has applied once the first i operations of m have arrived.
AppliedAfter(m, i) ==
  applied \cup Resolved(applied, PendingOps \cup {MessageOps(m)[j] : j \in 1..i})

AppliedBy(m) == AppliedAfter(m, Len(MessageOps(m)))

\* Operation i of m was buffered when it arrived.
Buffered(m, i) == MessageOps(m)[i] \notin AppliedAfter(m, i)

\* With its origin and a position that puts the operations of this message
\* first, in their order, and the pending ones after them in arrival order.
Item(m, i, at) ==
  [op |-> MessageOps(m)[i], session |-> m.session, epoch |-> m.epoch, at |-> at]

Indices(m) == 1..Len(MessageOps(m))

Drained(m) == {p \in pending : p.op \in AppliedBy(m)}

\* Mutant: operations of earlier messages that drained are not finalized.
ToFinalizeOwnOnly(m) ==
  {Item(m, i, i - Len(MessageOps(m))) : i \in {j \in Indices(m) : ~Buffered(m, j)}}

ToFinalize(m) ==
  {Item(m, i, i - Len(MessageOps(m))) : i \in {j \in Indices(m) : ~Buffered(m, j)}}
    \cup Drained(m)

LastAt == CHOOSE n \in {0} \cup {p.at : p \in pending} : \A p \in pending : p.at <= n

StillPending(m) ==
  (pending \ Drained(m))
    \cup {Item(m, i, LastAt + i) : i \in {j \in Indices(m) : Buffered(m, j)}}

IsFast(m) == Drained(m) = {} /\ \A i \in Indices(m) : ~Buffered(m, i)

Entry(start, ops, item, path, last) ==
  [start |-> start, ops |-> ops, session |-> item.session, epoch |-> item.epoch,
   status |-> "queued", path |-> path, last |-> last]

Rows(e) == {[seq |-> e.start + i - 1, op |-> e.ops[i]] : i \in DOMAIN e.ops}

EndSeq(e) == e.start + Len(e.ops) - 1

\* What a joined session of client s is sent of these entries: all but its own.
RelayedTo(s, entries) ==
  UNION {Rows(entries[i]) : i \in {j \in DOMAIN entries :
           <<entries[j].session, entries[j].epoch>> # <<s, epoch[s]>>}}

\* Mutant: one sequence number per message.
ReservePerMessage(endSeq) == currentSeq' = currentSeq + 1

Reserve(endSeq) == currentSeq' = endSeq

\* Mutant: later commits overtake earlier ones.
EnqueueFirst(entries) == queue' = entries \o queue

Enqueue(entries) == queue' = queue \o entries

\* The message is applied, sequence numbers up to endSeq are reserved, the
\* operations are relayed and their commits queued, all in one stretch.
Publish(m, entries, endSeq) ==
  /\ applied' = AppliedBy(m)
  /\ pending' = StillPending(m)
  /\ Reserve(endSeq)
  /\ Enqueue(entries)
  /\ relayed' = [s \in Sessions |->
                   IF s \in live THEN relayed[s] \cup RelayedTo(s, entries) ELSE relayed[s]]
  /\ known' = [s \in Sessions |->
                 IF s \in live THEN known[s] \cup {r.op : r \in RelayedTo(s, entries)}
                 ELSE known[s]]
  /\ UNCHANGED <<phase, epoch, live, age, lastCommittedSeq, snapshotInFlight, breakerVars,
                 rebuildVars, database, next, acked, rejected, lost, budget>>

RunFastPath(m) ==
  LET ops == MessageOps(m)
  IN  /\ Answers(m)
      /\ IsFast(m)
      /\ Publish(m, <<Entry(currentSeq + 1, ops, m, "fast", TRUE)>>, currentSeq + Len(ops))

\* The finalized items in order, one queue entry each.
Finalized(items) ==
  {f \in [1..Cardinality(items) -> items] : \A i, j \in DOMAIN f : i < j => f[i].at < f[j].at}

RunSlowPath(m) ==
  /\ Answers(m)
  /\ ~IsFast(m)
  /\ \E f \in Finalized(ToFinalize(m)) :
       Publish(m, [i \in DOMAIN f |->
                     Entry(currentSeq + i, <<f[i].op>>, f[i], "slow", i = Len(f))],
               currentSeq + Len(f))

-----------------------------------------------------------------------------
(* The commit queue and the store *)

GreaterOf(a, b) == IF a < b THEN b ELSE a

\* The transaction of an entry.  A row whose seq or stamp is already there is
\* skipped: both are unique, and the code does not tell the two violations apart.
StoreRows(e) ==
  /\ log' = log \cup {r \in Rows(e) : \A q \in log : q.seq # r.seq /\ q.op # r.op}
  /\ docSeq' = GreaterOf(docSeq, EndSeq(e))

\* Mutant: the newest entry is settled instead of the one that was stored.
OutcomeOfLast(status) == queue' = [queue EXCEPT ![Len(queue)].status = status]

Outcome(status) == queue' = [queue EXCEPT ![1].status = status]

HeadQueued == phase = "up" /\ queue # <<>> /\ queue[1].status = "queued"

StoreCommits ==
  /\ HeadQueued
  /\ StoreRows(queue[1])
  /\ Outcome("committed")
  /\ UNCHANGED <<phase, sessionVars, engineVars, currentSeq, lastCommittedSeq,
                 snapshotInFlight, breakerVars, rebuildVars, snapshots, clients, budget>>

\* commitOperations() throws: the transaction is rolled back, or its COMMIT went
\* through and only the answer was lost.
StoreFails ==
  /\ HeadQueued
  /\ budget.failures > 0 /\ ~budget.calm
  /\ StoreRows(queue[1]) \/ UNCHANGED <<log, docSeq>>
  /\ Outcome("failed")
  /\ budget' = [budget EXCEPT !.failures = @ - 1]
  /\ UNCHANGED <<phase, sessionVars, engineVars, currentSeq, lastCommittedSeq,
                 snapshotInFlight, breakerVars, rebuildVars, snapshots, clients>>

\* Mutant: the acknowledgement does not depend on the outcome of the commit.
AcksAlways(e) ==
  IF e.session \in live /\ epoch[e.session] = e.epoch THEN ToSet(e.ops) ELSE {}

\* What the settled entry acknowledges: only after its commit, and only to the
\* session that sent it, if that is still joined.
Acks(e) ==
  IF e.status = "committed" /\ e.session \in live /\ epoch[e.session] = e.epoch
  THEN ToSet(e.ops) ELSE {}

\* Mutant: the bound of a catch-up is the last reserved sequence number.
CommittedUpToReserved(e) == currentSeq

\* enqueueCommit()'s continuation.
CommittedUpTo(e) == IF e.status = "committed" THEN EndSeq(e) ELSE lastCommittedSeq

\* maybeScheduleSnapshot() and evaluateCircuitBreaker() follow the last commit
\* of a message; the fast path skips them when its commit failed.
Trailing(e) == e.last /\ (e.path = "fast" => e.status = "committed")

\* evaluateCircuitBreaker(): tripped, or recovered, by the number of nodes.
ShouldBeTripped == Cardinality(applied) >= Ceiling

SettleCommit ==
  LET entry == queue[1]
  IN  /\ phase = "up" /\ queue # <<>> /\ entry.status # "queued"
      /\ queue' = Tail(queue)
      /\ lastCommittedSeq' = CommittedUpTo(entry)
      /\ acked' = acked \cup Acks(entry)
      /\ lost' = IF entry.status = "failed" THEN lost \cup ToSet(entry.ops) ELSE lost
      /\ tripped' = IF Trailing(entry) THEN ShouldBeTripped ELSE tripped
      /\ \/ UNCHANGED snapshotInFlight
         \/ Trailing(entry) /\ budget.snapshots > 0 /\ snapshotInFlight' = TRUE
      /\ UNCHANGED <<phase, sessionVars, engineVars, currentSeq, frozen, rebuildVars,
                     database, next, known, rejected, relayed, budget>>

\* Mutant: the snapshot is stamped with what has been committed.
SnapshotRowCommitted == [seq |-> lastCommittedSeq, ops |-> applied]

\* The row writeSnapshotNow() inserts: the engine and currentSeq as they are now.
SnapshotRow == [seq |-> currentSeq, ops |-> applied]

\* The deferred write; it fails when the table has a row for that seq already.
WriteSnapshot ==
  /\ phase = "up" /\ snapshotInFlight
  /\ snapshotInFlight' = FALSE
  /\ snapshots' = IF \E r \in snapshots : r.seq = currentSeq THEN snapshots
                  ELSE snapshots \cup {SnapshotRow}
  /\ budget' = [budget EXCEPT !.snapshots = @ - 1]
  /\ UNCHANGED <<phase, sessionVars, engineVars, currentSeq, lastCommittedSeq, queue,
                 breakerVars, rebuildVars, log, docSeq, clients>>

-----------------------------------------------------------------------------
(* The offline-window sweep, the operator's commands, sessions *)

\* Mutant: only the size of the buffer is bounded, not the age of its entries.
SweptBySize == {p \in pending : Cardinality({q \in pending : q.at > p.at}) < MaxPending}

\* runOneDocument(): what has not waited too long, of that the newest MaxPending.
Swept ==
  LET young == {p \in pending : age[p.op] < SweepTimeout}
  IN  {p \in young : Cardinality({q \in young : q.at > p.at}) < MaxPending}

\* Ages stop counting at the timeout.
Older(n) == IF n < SweepTimeout THEN n + 1 ELSE n

\* Mutant: a rejected operation stays in the engine's buffer.
SweepKeeps ==
  /\ phase = "up" /\ pending # {}
  /\ age' = [o \in Ops |-> IF \E p \in Swept : p.op = o THEN Older(age[o]) ELSE 0]
  /\ rejected' = rejected \cup {p.op : p \in pending \ Swept}
  /\ UNCHANGED <<phase, sessionVars, applied, pending, commitVars, breakerVars, rebuildVars,
                 database, next, known, acked, lost, relayed, budget>>

Sweep ==
  /\ phase = "up" /\ pending # {}
  /\ pending' = Swept
  /\ age' = [o \in Ops |-> IF \E p \in Swept : p.op = o THEN Older(age[o]) ELSE 0]
  /\ rejected' = rejected \cup {p.op : p \in pending \ Swept}
  /\ UNCHANGED <<phase, sessionVars, applied, commitVars, breakerVars, rebuildVars,
                 database, next, known, acked, lost, relayed, budget>>

Freeze ==
  /\ phase = "up" /\ ~frozen
  /\ budget.freezes > 0
  /\ frozen' = TRUE
  /\ budget' = [budget EXCEPT !.freezes = @ - 1]
  /\ UNCHANGED <<phase, sessionVars, engineVars, commitVars, tripped, rebuildVars,
                 database, clients>>

Unfreeze ==
  /\ phase = "up" /\ frozen
  /\ frozen' = FALSE
  /\ UNCHANGED <<phase, sessionVars, engineVars, commitVars, tripped, rebuildVars,
                 database, clients, budget>>

Logged == {r.op : r \in log}

\* rebuildFromLog() up to the answer of the store.
RebuildRead ==
  /\ phase = "up" /\ ~rebuilding
  /\ budget.rebuilds > 0 /\ ~budget.calm
  /\ rebuilding' = TRUE
  /\ rebuildLog' = Logged
  /\ budget' = [budget EXCEPT !.rebuilds = @ - 1]
  /\ UNCHANGED <<phase, sessionVars, engineVars, commitVars, breakerVars, database, clients>>

\* The rest: a log that does not replay, or replays to the live text, changes
\* nothing; otherwise the engine is replaced and every session is closed.  One loop
\* sends all of them GOODBYE; each leaves on its own close event.  Until then it is
\* sent nothing that its client reads, for GOODBYE comes first, and what still arrives
\* from it is as if it had been received before, its lookup unanswered.
RebuildSwap ==
  LET replayed == Resolved({}, rebuildLog)
      changed == replayed = rebuildLog /\ replayed # applied
  IN  /\ phase = "up" /\ rebuilding
      /\ rebuilding' = FALSE
      /\ rebuildLog' = {}
      /\ \/ ~changed /\ UNCHANGED <<live, applied, pending, lost, relayed>>
         \/ /\ changed
            /\ applied' = replayed
            /\ pending' = {}
            /\ lost' = lost \cup PendingOps
            /\ live' = {}
            /\ relayed' = [s \in Sessions |-> {}]
      /\ UNCHANGED <<phase, epoch, awaiting, age, commitVars, breakerVars, database,
                     next, known, acked, rejected, budget>>

\* A socket closes; what it sent goes on being processed.
Leave(s) ==
  /\ phase = "up" /\ s \in live
  /\ budget.leaves > 0
  /\ live' = live \ {s}
  /\ relayed' = [relayed EXCEPT ![s] = {}]
  /\ budget' = [budget EXCEPT !.leaves = @ - 1]
  /\ UNCHANGED <<phase, epoch, awaiting, engineVars, commitVars, breakerVars, rebuildVars,
                 database, next, known, acked, rejected, lost>>

\* The client reconnects under a new replica id and takes the server's state.
Join(s) ==
  /\ phase = "up" /\ s \notin live
  /\ live' = live \cup {s}
  /\ epoch' = [epoch EXCEPT ![s] = @ + 1]
  /\ known' = [known EXCEPT ![s] = applied]
  /\ UNCHANGED <<phase, awaiting, engineVars, commitVars, breakerVars, rebuildVars,
                 database, next, acked, rejected, lost, relayed, budget>>

-----------------------------------------------------------------------------
(* Crash and warm start *)

InFlight ==
  PendingOps \cup (UNION {ToSet(MessageOps(m)) : m \in awaiting})
             \cup (UNION {ToSet(queue[i].ops) : i \in DOMAIN queue})

\* The process dies: only the database and the clients keep what they have.
Crash ==
  /\ phase = "up"
  /\ budget.crashes > 0
  /\ phase' = "down"
  /\ live' = {} /\ awaiting' = {}
  /\ applied' = {} /\ pending' = {} /\ age' = [o \in Ops |-> 0]
  /\ currentSeq' = 0 /\ lastCommittedSeq' = 0 /\ queue' = <<>> /\ snapshotInFlight' = FALSE
  /\ tripped' = FALSE /\ frozen' = FALSE
  /\ rebuilding' = FALSE /\ rebuildLog' = {}
  /\ lost' = lost \cup InFlight
  /\ relayed' = [s \in Sessions |-> {}]
  /\ budget' = [budget EXCEPT !.crashes = @ - 1]
  /\ UNCHANGED <<epoch, database, next, known, acked, rejected>>

\* The nodes of the snapshot with the greatest seq; none if there is no snapshot.
LatestOps ==
  UNION {r.ops : r \in {x \in snapshots : \A y \in snapshots : y.seq <= x.seq}}

\* The rows after that snapshot.
Suffix == {q.op : q \in {x \in log : \A r \in snapshots : x.seq > r.seq}}

\* Mutant: the snapshot is not loaded before the rows after it.
ReplayedSuffix == Resolved({}, Suffix)

Replayed == LatestOps \cup Resolved(LatestOps, Suffix)

\* warmStart(): the latest snapshot, then the rows after it; it throws when an
\* operation of the suffix stays pending.
WarmStart ==
  /\ phase = "down"
  /\ \/ /\ Suffix \subseteq Replayed
        /\ phase' = "up"
        /\ applied' = Replayed
        /\ currentSeq' = docSeq
        /\ lastCommittedSeq' = docSeq
     \/ /\ ~(Suffix \subseteq Replayed)
        /\ phase' = "failed"
        /\ UNCHANGED <<applied, currentSeq, lastCommittedSeq>>
  /\ UNCHANGED <<sessionVars, pending, age, queue, snapshotInFlight, breakerVars,
                 rebuildVars, database, clients, budget>>

Next ==
  \/ \E s \in Sessions : Receive(s) \/ Leave(s) \/ Join(s)
  \/ \E m \in awaiting : Deny(m) \/ RunFastPath(m) \/ RunSlowPath(m)
  \/ StoreCommits \/ StoreFails \/ SettleCommit \/ WriteSnapshot
  \/ Sweep \/ Freeze \/ Unfreeze \/ RebuildRead \/ RebuildSwap
  \/ Crash \/ WarmStart

Spec == Init /\ [][Next]_vars

\* The event loop answers every lookup, drains the commit queue and runs the
\* sweep timer; nothing obliges clients or operators to do anything.
Fairness ==
  /\ WF_vars(\E m \in awaiting : RunFastPath(m) \/ RunSlowPath(m))
  /\ WF_vars(StoreCommits) /\ WF_vars(SettleCommit) /\ WF_vars(Sweep)

FairSpec == Spec /\ Fairness

-----------------------------------------------------------------------------
(* Properties *)

Row == [seq : Nat \ {0}, op : Ops]

EntryType ==
  [start : Nat \ {0}, ops : Seq(Ops) \ {<<>>}, session : Sessions, epoch : Nat,
   status : {"queued", "committed", "failed"}, path : {"fast", "slow"}, last : BOOLEAN]

SessionTypes ==
  /\ phase \in {"up", "down", "failed"}
  /\ epoch \in [Sessions -> Nat]
  /\ live \subseteq Sessions
  /\ \A m \in awaiting : /\ m.session \in Sessions /\ m.epoch \in Nat
                         /\ m.index \in 1..Len(Script[m.session])

EngineTypes ==
  /\ applied \subseteq Ops
  /\ IsFiniteSet(pending)
  /\ \A p \in pending : p.op \in Ops /\ p.session \in Sessions /\ p.epoch \in Nat
  /\ age \in [Ops -> Nat]
  /\ rebuildLog \subseteq Ops

FlagTypes ==
  /\ snapshotInFlight \in BOOLEAN /\ tripped \in BOOLEAN
  /\ frozen \in BOOLEAN /\ rebuilding \in BOOLEAN

CommitTypes ==
  /\ currentSeq \in Nat /\ lastCommittedSeq \in Nat
  /\ queue \in Seq(EntryType)
  /\ \A i \in DOMAIN queue : i > 1 => queue[i].status = "queued"

DatabaseTypes ==
  /\ log \subseteq Row
  /\ docSeq \in Nat
  /\ snapshots \subseteq [seq : Nat, ops : SUBSET Ops]

ClientTypes ==
  /\ next \in [Sessions -> Nat \ {0}]
  /\ known \in [Sessions -> SUBSET Ops]
  /\ acked \subseteq Ops /\ rejected \subseteq Ops /\ lost \subseteq Ops
  /\ relayed \in [Sessions -> SUBSET Row]

\* Type invariant: among others, a queue entry covers at least one operation,
\* and only the head of the commit queue has been handed to the store.
TypeOK ==
  SessionTypes /\ EngineTypes /\ FlagTypes /\ CommitTypes /\ DatabaseTypes /\ ClientTypes

\* Sequence numbers are reserved, queued and stored in one increasing order:
\* queue entries hold disjoint ascending ranges that nothing in the log has
\* reached and no catch-up was promised, below what is reserved; and a restart
\* resumes above every row.
SeqDiscipline ==
  /\ phase # "up" => queue = <<>>
  /\ phase = "up" => docSeq <= currentSeq
  /\ lastCommittedSeq <= currentSeq
  /\ \A r \in log : r.seq <= docSeq
  /\ \A i \in DOMAIN queue :
       /\ lastCommittedSeq < queue[i].start
       /\ EndSeq(queue[i]) <= currentSeq
       /\ \A j \in DOMAIN queue : i < j => EndSeq(queue[i]) < queue[j].start
       /\ queue[i].status = "queued" => \A r \in log : r.seq < queue[i].start

\* An entry the store has committed is in the log while its acknowledgement waits.
CommittedLogged ==
  \A i \in DOMAIN queue : queue[i].status = "committed" => ToSet(queue[i].ops) \subseteq Logged

\* "The ack is a durability promise": an acknowledged operation is in the log,
\* although a row whose sequence number was taken would be skipped silently and
\* acknowledged all the same.
AckedDurable == acked \subseteq Logged

\* A sequence number names one operation: what a joined session was told about
\* it is what the log says, in both directions.
RelayedMatchesLog ==
  \A s \in Sessions : \A r \in relayed[s], q \in log : r.seq = q.seq <=> r.op = q.op

\* Nothing the engine shows is forgotten by the write path: each operation it
\* has applied is logged, waits in the commit queue, is known to be lost, or
\* came with a snapshot.
AppliedAccounted ==
  applied \subseteq Logged \cup lost
                    \cup (UNION {ToSet(queue[i].ops) : i \in DOMAIN queue})
                    \cup (UNION {r.ops : r \in snapshots})

\* A client told that an operation was refused never finds it applied, however
\* the sweep races the arrival of what the operation was waiting for.
RejectedNotApplied == rejected \cap (applied \cup Logged) = {}

\* I9 on the server: whatever is still buffered refers to something the engine
\* does not have, so that the sweep only ever evicts what could not be applied.
PendingBlocked ==
  \A p \in pending : p.op \notin applied /\ Dep[p.op] \notin applied \cup {NoOp}

\* What becomes of an operation that arrived.
OpsAccounted == AppliedAccounted /\ RejectedNotApplied /\ PendingBlocked

\* A catch-up that was answered up to lastCommittedSeq never misses a row: rows
\* that land later lie above it.
CatchupBoundStable == [][\A r \in log' \ log : r.seq > lastCommittedSeq]_vars

\* An acknowledged operation is in the state the server serves, also after it
\* restarted from a snapshot and the log.
AckedServed == phase = "up" => acked \subseteq applied

\* The log replays at any moment: a crash now would be followed by a warm start
\* that finds every operation's dependency.
LogReplayable == Suffix \subseteq Replayed

\* "CERTAIN the full prefix [0..that] has been durably committed, in order, with
\* no gaps" (lastCommittedSeq), as long as no commit fails.
LastCommittedIsPrefix ==
  \A n \in 1..lastCommittedSeq : \E r \in log : r.seq = n

\* A snapshot holds an operation whose commit a crash lost.
Haunted == lost \cap UNION {r.ops : r \in snapshots} # {}

\* A crash at any moment is followed by a warm start that succeeds, and what was
\* acknowledged is served, in calm and ordered behaviours; the only leak is a
\* snapshot of operations that were never committed (see README for both).
Restartable ==
  budget.calm /\ budget.ordered /\ ~Haunted =>
    AckedServed /\ LogReplayable /\ LastCommittedIsPrefix

\* Every operation a client sent is eventually acknowledged or refused, unless
\* the store failed to commit it, or the connection it was sent on is gone.
EverySendSettles ==
  \A s \in Sessions : \A k \in 1..Len(Script[s]) :
    next[s] > k ~> \/ ToSet(Script[s][k]) \subseteq acked \cup rejected \cup lost
                   \/ s \notin live \/ epoch[s] > 0

=============================================================================
