---------------------------- MODULE Restart_proofs ----------------------------
(***************************************************************************)
(* A crash at any moment is followed by a warm start that succeeds: proofs *)
(* for any clients, scripts and bounds, in the calm and ordered behaviours *)
(* that Restartable speaks of.                                             *)
(***************************************************************************)
EXTENDS WritePath_proofs

-----------------------------------------------------------------------------
(* The inductive invariant.  That the log replays rests on what the engine,  *)
(* the queue, the snapshots and the clients have in common at any moment.    *)

\* The rows that are stored or will be.
Written == log \cup QueueRows

WrittenOps == Logged \cup QueuedOps

\* No commit fails and no rebuild is under way.
NothingFails ==
  ~rebuilding /\ \A i \in DOMAIN queue : queue[i].status # "failed"

\* The engine has applied exactly what is written.
ServesWritten == phase = "up" => applied = WrittenOps

\* The last number that was reserved, by this process or as far as a next one knows.
Reserved == IF phase = "up" THEN currentSeq ELSE docSeq

\* A snapshot holds all that is written up to its number, and only what is written.
SnapshotsComplete ==
  /\ SnapshotOps \subseteq WrittenOps
  /\ \A r \in snapshots : /\ r.seq <= Reserved
                          /\ \A x \in Written : x.seq <= r.seq => x.op \in r.ops

\* No number is left out, in the log or in what will be logged.
Gapless ==
  /\ \A n \in 1..docSeq : \E x \in log : x.seq = n
  /\ phase = "up" => \A n \in 1..currentSeq : \E x \in Written : x.seq = n

\* What a row refers to is written under a smaller number.
CausalRows ==
  \A x \in Written : Dep[x.op] = NoOp \/ \E y \in Written : y.op = Dep[x.op] /\ y.seq < x.seq

\* lastCommittedSeq does not run ahead of the database.
CommittedStored ==
  /\ lastCommittedSeq <= docSeq
  /\ \A i \in DOMAIN queue : queue[i].status = "committed" => EndSeq(queue[i]) <= docSeq

\* The operations of client s that wait for their lookups, before index k.
AwaitedFrom(s, k) ==
  UNION {ToSet(MessageOps(n)) : n \in {x \in awaiting : x.session = s /\ x.index < k}}

\* What has arrived at the engine, or never will.
Arrived == applied \cup rejected \cup PendingOps

\* All that a joined client knows has arrived, or is on its way from itself.
KnownArrives == \A s \in live : known[s] \subseteq Arrived \cup AwaitedFrom(s, next[s])

\* The buffer waits only for what was refused, or for itself.
BufferBlocked == \A p \in pending : Dep[p.op] \in rejected \cup PendingOps

\* What a message refers to is ahead of it.
AwaitedFollow ==
  \A m \in awaiting : \A i \in Indices(m) :
    Dep[MessageOps(m)[i]] \in Arrived \cup {NoOp} \cup {MessageOps(m)[j] : j \in 1..(i-1)}
                                \cup AwaitedFrom(m.session, m.index)

RestartParts ==
  /\ NothingFails /\ ServesWritten /\ SnapshotsComplete /\ Gapless /\ CausalRows
  /\ CommittedStored /\ KnownArrives /\ BufferBlocked /\ AwaitedFollow

BudgetFields ==
  budget \in [failures : Int, crashes : Int, snapshots : Int, leaves : Int,
              freezes : Int, denials : Int, rebuilds : Int, calm : BOOLEAN,
              ordered : BOOLEAN, senders : SUBSET Sessions]

RestartInv ==
  /\ OperationsInv
  /\ BudgetFields /\ IsFiniteSet(snapshots)
  /\ budget.calm /\ budget.ordered /\ ~Haunted => RestartParts

-----------------------------------------------------------------------------
(* Lemmas about rows *)

\* Rows are their number and their operation.
LEMMA SameRow ==
  ASSUME NEW r \in Row, NEW q \in Row, r.seq = q.seq, r.op = q.op
  PROVE  r = q
BY DEF Row

\* The rows of the queue are rows of the table to come.
LEMMA WrittenRows ==
  ASSUME TypeOK
  PROVE  /\ Written \subseteq Row
         /\ {x.op : x \in Written} = WrittenOps
         /\ \A i \in DOMAIN queue : Rows(queue[i]) \subseteq QueueRows
<1>1. \A i \in DOMAIN queue : Rows(queue[i]) \subseteq Row
  <2>1. \A i \in DOMAIN queue : queue[i] \in EntryType
    BY DEF TypeOK, CommitTypes
  <2> QED
    BY <2>1, EntryRows
<1>2. QueueRows \subseteq Row
  BY <1>1 DEF QueueRows, RowsOf
<1>3. {x.op : x \in Written} = WrittenOps
  BY QueueRowsOps DEF Written, WrittenOps, Logged
<1>4. \A i \in DOMAIN queue : Rows(queue[i]) \subseteq QueueRows
  BY DEF QueueRows, RowsOf
<1> QED
  BY <1>2, <1>3, <1>4 DEF Written, TypeOK, DatabaseTypes

\* A commit stores all rows of its entry: none is skipped.
LEMMA StoredWhole ==
  ASSUME TypeOK, RowsAgree, HeadQueued, StoreRows(queue[1])
  PROVE  Rows(queue[1]) \subseteq log'
<1>1. 1 \in DOMAIN queue
  BY DEF HeadQueued, TypeOK, CommitTypes
<1>2. Rows(queue[1]) \subseteq Written /\ Written \subseteq Row
  BY <1>1, WrittenRows DEF Written
<1>3. ASSUME NEW r \in Rows(queue[1]) PROVE r \in log'
  <2>1. CASE \A q \in log : q.seq # r.seq /\ q.op # r.op
    BY <2>1 DEF StoreRows
  <2>2. CASE \E q \in log : q.seq = r.seq \/ q.op = r.op
    <3>1. PICK q \in log : q.seq = r.seq \/ q.op = r.op
      BY <2>2
    <3>2. q.seq = r.seq /\ q.op = r.op
      BY <1>2, <3>1 DEF RowsAgree, Written
    <3>3. q = r
      BY <1>2, <3>2, SameRow DEF Written
    <3> QED
      BY <3>3 DEF StoreRows
  <2> QED
    BY <2>1, <2>2
<1> QED
  BY <1>3

\* All rows of a committed entry are in the log.
LEMMA CommittedWhole ==
  ASSUME TypeOK, RowsAgree, CommittedLogged, NEW i \in DOMAIN queue,
         queue[i].status = "committed"
  PROVE  Rows(queue[i]) \subseteq log
<1>1. Rows(queue[i]) \subseteq Written /\ Written \subseteq Row
  BY WrittenRows DEF Written
<1>2. ASSUME NEW r \in Rows(queue[i]) PROVE r \in log
  <2>1. r.op \in ToSet(queue[i].ops)
    BY RowsOps
  <2>2. PICK q \in log : q.op = r.op
    BY <2>1 DEF CommittedLogged, Logged
  <2>3. q.seq = r.seq
    BY <1>1, <2>2 DEF RowsAgree, Written
  <2> QED
    BY <1>1, <2>2, <2>3, SameRow DEF Written
<1> QED
  BY <1>2

\* A written row up to the end of the log is in the log.
LEMMA WrittenLogged ==
  ASSUME TypeOK, RowsAgree, Gapless, NEW x \in Written, x.seq <= docSeq
  PROVE  x \in log
<1>1. x \in Row /\ docSeq \in Nat /\ Written \subseteq Row
  BY WrittenRows DEF TypeOK, DatabaseTypes
<1>2. x.seq \in 1..docSeq
  BY <1>1 DEF Row
<1>3. PICK z \in log : z.seq = x.seq
  BY <1>2 DEF Gapless
<1>4. z.op = x.op
  BY <1>3 DEF RowsAgree, Written
<1> QED
  BY <1>1, <1>3, <1>4, SameRow DEF Written

\* What a row of the log refers to is in the log, under a smaller number.
LEMMA CausalLog ==
  ASSUME OperationsInv, RestartParts, NEW x \in log, Dep[x.op] # NoOp
  PROVE  \E y \in log : y.op = Dep[x.op] /\ y.seq < x.seq
<1>1. TypeOK /\ RowsAgree /\ SeqDiscipline
  BY DEF OperationsInv, DurabilityInv
<1>2. PICK y \in Written : y.op = Dep[x.op] /\ y.seq < x.seq
  BY DEF RestartParts, CausalRows, Written
<1>3. y.seq <= docSeq
  <2>1. x.seq \in Nat /\ y.seq \in Nat /\ docSeq \in Nat /\ x.seq <= docSeq
    BY <1>1, WrittenRows DEF TypeOK, DatabaseTypes, Row, SeqDiscipline
  <2> QED
    BY <1>2, <2>1
<1>4. y \in log
  BY <1>1, <1>3, WrittenLogged DEF RestartParts
<1> QED
  BY <1>2, <1>4

\* The latest snapshot holds all that is logged up to the number of any snapshot.
LEMMA LatestHolds ==
  ASSUME TypeOK, IsFiniteSet(snapshots), SnapshotsComplete,
         NEW x \in log, NEW r \in snapshots, x.seq <= r.seq
  PROVE  x.op \in LatestOps
<1> DEFINE f == [y \in snapshots |-> y.seq]
<1>1. /\ \A y \in snapshots : y.seq \in Nat
      /\ x.seq \in Nat
  BY DEF TypeOK, DatabaseTypes, Row
<1>2. f \in [snapshots -> Int]
  BY <1>1
<1>3. PICK n \in snapshots : \A y \in snapshots : f[y] <= f[n]
  <2> HIDE DEF f
  <2> QED
    BY <1>2, GreatestExists
<1>4. \A y \in snapshots : y.seq <= n.seq
  BY <1>3
<1>5. x.seq <= n.seq
  BY <1>1, <1>4
<1>6. x.op \in n.ops
  BY <1>5 DEF SnapshotsComplete, Written
<1> QED
  BY <1>4, <1>6 DEF LatestOps

\* What the property says follows: the log replays on the latest snapshot.
LEMMA PartsSuffice ==
  ASSUME OperationsInv, IsFiniteSet(snapshots), RestartParts
  PROVE  AckedServed /\ LogReplayable /\ LastCommittedIsPrefix
<1>1. TypeOK /\ RowsAgree /\ SeqDiscipline /\ AckedDurable
  BY DEF OperationsInv, DurabilityInv
<1>2. /\ ServesWritten /\ SnapshotsComplete /\ Gapless /\ CausalRows /\ CommittedStored
  BY DEF RestartParts
<1>3. AckedServed
  BY <1>1, <1>2 DEF AckedServed, AckedDurable, ServesWritten, WrittenOps
<1>4. LastCommittedIsPrefix
  <2>1. docSeq \in Nat /\ lastCommittedSeq \in Nat /\ lastCommittedSeq <= docSeq
    BY <1>1, <1>2 DEF TypeOK, CommitTypes, DatabaseTypes, CommittedStored
  <2>2. \A n \in 1..lastCommittedSeq : n \in 1..docSeq
    BY <2>1
  <2> QED
    BY <1>2, <2>2 DEF Gapless, LastCommittedIsPrefix
<1>5. ASSUME NEW o \in Suffix PROVE Dep[o] \in LatestOps \cup Suffix \cup {NoOp}
  <2>1. PICK x \in log : x.op = o
    BY DEF Suffix
  <2>2. CASE Dep[o] = NoOp
    BY <2>2
  <2>3. CASE Dep[o] # NoOp
    <3>1. PICK y \in log : y.op = Dep[o] /\ y.seq < x.seq
      BY <2>1, <2>3, CausalLog
    <3>2. CASE \A r \in snapshots : y.seq > r.seq
      BY <3>1, <3>2 DEF Suffix
    <3>3. CASE ~(\A r \in snapshots : y.seq > r.seq)
      <4>1. PICK r \in snapshots : ~(y.seq > r.seq)
        BY <3>3
      <4>2. y.seq <= r.seq
        BY <1>1, <4>1 DEF TypeOK, DatabaseTypes, Row
      <4> QED
        BY <1>1, <1>2, <3>1, <4>2, LatestHolds
    <3> QED
      BY <3>2, <3>3
  <2> QED
    BY <2>2, <2>3
<1>6. Suffix \subseteq Resolved(LatestOps, Suffix)
  <2>1. Suffix \in SUBSET Suffix
    OBVIOUS
  <2> QED
    BY <1>5, <2>1, ResolvedGreatest
<1>7. LogReplayable
  BY <1>6 DEF LogReplayable, Replayed
<1> QED
  BY <1>3, <1>4, <1>7

-----------------------------------------------------------------------------
(* Every step keeps RestartInv *)

\* The bounds of a behaviour do not change their kind.
LEMMA BudgetKeeps ==
  ASSUME BudgetFields, [Next]_vars
  PROVE  BudgetFields' /\ budget'.calm = budget.calm /\ budget'.ordered = budget.ordered
<1> DEFINE B == [failures : Int, crashes : Int, snapshots : Int, leaves : Int,
                 freezes : Int, denials : Int, rebuilds : Int, calm : BOOLEAN,
                 ordered : BOOLEAN, senders : SUBSET Sessions]
           Same(b) == b \in B /\ b.calm = budget.calm /\ b.ordered = budget.ordered
<1>1. budget \in B
  BY DEF BudgetFields
<1>2. /\ Same([budget EXCEPT !.failures = @ - 1]) /\ Same([budget EXCEPT !.crashes = @ - 1])
      /\ Same([budget EXCEPT !.snapshots = @ - 1]) /\ Same([budget EXCEPT !.leaves = @ - 1])
      /\ Same([budget EXCEPT !.freezes = @ - 1]) /\ Same([budget EXCEPT !.denials = @ - 1])
      /\ Same([budget EXCEPT !.rebuilds = @ - 1]) /\ Same(budget)
  BY <1>1
<1> HIDE DEF Same, B
<1>3. Same(budget')
  <2>1. CASE UNCHANGED vars
    BY <1>2, <2>1 DEF vars
  <2>2. ASSUME NEW s \in Sessions, Receive(s) \/ Leave(s) \/ Join(s) PROVE Same(budget')
    BY <1>2, <2>2 DEF Receive, Leave, Join
  <2>3. ASSUME NEW m \in awaiting, Deny(m) \/ RunFastPath(m) \/ RunSlowPath(m)
        PROVE  Same(budget')
    BY <1>2, <2>3 DEF Deny, RunFastPath, RunSlowPath, Publish
  <2>4. CASE StoreCommits \/ StoreFails \/ SettleCommit \/ WriteSnapshot
    BY <1>2, <2>4 DEF StoreCommits, StoreFails, SettleCommit, WriteSnapshot
  <2>5. CASE Sweep \/ Freeze \/ Unfreeze \/ RebuildRead \/ RebuildSwap \/ Crash \/ WarmStart
    BY <1>2, <2>5 DEF Sweep, Freeze, Unfreeze, RebuildRead, RebuildSwap, Crash, WarmStart
  <2> QED
    BY <2>1, <2>2, <2>3, <2>4, <2>5 DEF Next
<1> QED
  BY <1>3 DEF Same, B, BudgetFields

\* What was lost stays lost and a snapshot stays in its table; only one is added.
LEMMA HauntedForGood ==
  ASSUME IsFiniteSet(snapshots), [Next]_vars
  PROVE  lost \subseteq lost' /\ (Haunted => Haunted') /\ IsFiniteSet(snapshots')
<1> USE DEF sessionVars, engineVars, commitVars, breakerVars, rebuildVars, database, clients
<1>1. lost \subseteq lost' /\ (snapshots' = snapshots \/ snapshots' = snapshots \cup {SnapshotRow})
  <2>1. CASE UNCHANGED vars
    BY <2>1 DEF vars
  <2>2. ASSUME NEW s \in Sessions, Receive(s) \/ Leave(s) \/ Join(s)
        PROVE  lost' = lost /\ snapshots' = snapshots
    BY <2>2 DEF Receive, Leave, Join
  <2>3. ASSUME NEW m \in awaiting, Deny(m) \/ RunFastPath(m) \/ RunSlowPath(m)
        PROVE  lost' = lost /\ snapshots' = snapshots
    BY <2>3 DEF Deny, RunFastPath, RunSlowPath, Publish
  <2>4. CASE StoreCommits \/ StoreFails \/ SettleCommit \/ WriteSnapshot
    BY <2>4 DEF StoreCommits, StoreFails, SettleCommit, WriteSnapshot
  <2>5. CASE Sweep \/ Freeze \/ Unfreeze \/ RebuildRead \/ RebuildSwap \/ Crash \/ WarmStart
    BY <2>5 DEF Sweep, Freeze, Unfreeze, RebuildRead, RebuildSwap, Crash, WarmStart
  <2> QED
    BY <2>1, <2>2, <2>3, <2>4, <2>5 DEF Next
<1>2. IsFiniteSet(snapshots')
  BY <1>1, FS_AddElement
<1>3. SnapshotOps \subseteq SnapshotOps'
  BY <1>1 DEF SnapshotOps
<1>4. Haunted => Haunted'
  <2>1. (Haunted <=> lost \cap SnapshotOps # {}) /\ (Haunted' <=> lost' \cap SnapshotOps' # {})
    BY DEF Haunted, SnapshotOps
  <2> QED
    BY <1>1, <1>3, <2>1
<1> QED
  BY <1>1, <1>2, <1>4

\* A step that leaves the rows, the engine and the snapshots where they are.
LEMMA RowsStill ==
  ASSUME NothingFails, ServesWritten, SnapshotsComplete, Gapless, CausalRows, CommittedStored,
         UNCHANGED <<phase, applied, log, docSeq, queue, snapshots, currentSeq,
                     lastCommittedSeq, rebuilding>>
  PROVE  /\ NothingFails' /\ ServesWritten' /\ SnapshotsComplete' /\ Gapless' /\ CausalRows'
         /\ CommittedStored'
<1>1. /\ QueueRows' = QueueRows /\ QueuedOps' = QueuedOps /\ Logged' = Logged
      /\ SnapshotOps' = SnapshotOps
  BY DEF QueueRows, RowsOf, Rows, QueuedOps, ToSet, Logged, SnapshotOps
<1>2. Written' = Written /\ WrittenOps' = WrittenOps /\ Reserved' = Reserved
  BY <1>1 DEF Written, WrittenOps, Reserved
<1>3. NothingFails' /\ ServesWritten' /\ CommittedStored'
  BY <1>2 DEF NothingFails, ServesWritten, CommittedStored, EndSeq
<1>4. SnapshotsComplete' /\ Gapless' /\ CausalRows'
  BY <1>1, <1>2 DEF SnapshotsComplete, Gapless, CausalRows
<1> QED
  BY <1>3, <1>4

\* A step of the store, the snapshotter or the operator.
LEMMA ClientsStill ==
  ASSUME KnownArrives, BufferBlocked, AwaitedFollow,
         UNCHANGED <<live, awaiting, applied, pending, next, known, rejected>>
  PROVE  KnownArrives' /\ BufferBlocked' /\ AwaitedFollow'
<1>1. PendingOps' = PendingOps /\ Arrived' = Arrived
  BY DEF PendingOps, Arrived
<1>2. \A s, k : (AwaitedFrom(s, k))' = AwaitedFrom(s, k)
  BY DEF AwaitedFrom, MessageOps
<1>3. KnownArrives' /\ BufferBlocked'
  BY <1>1, <1>2 DEF KnownArrives, BufferBlocked
<1>4. AwaitedFollow'
  BY <1>1, <1>2 DEF AwaitedFollow, MessageOps, Indices
<1> QED
  BY <1>3, <1>4

\* What has arrived stays so, and what was awaited arrives or still is.
LEMMA ClientsAdvance ==
  ASSUME KnownArrives, AwaitedFollow, Arrived \subseteq Arrived',
         awaiting' \subseteq awaiting, next' = next,
         \A s, k : AwaitedFrom(s, k) \subseteq Arrived' \cup (AwaitedFrom(s, k))',
         \A s \in live' : \/ s \in live /\ known'[s] \subseteq known[s] \cup Arrived'
                          \/ known'[s] \subseteq Arrived'
  PROVE  KnownArrives' /\ AwaitedFollow'
<1>1. ASSUME NEW s \in live' PROVE known'[s] \subseteq Arrived' \cup (AwaitedFrom(s, next[s]))'
  BY DEF KnownArrives
<1>2. KnownArrives'
  BY <1>1 DEF KnownArrives, AwaitedFrom, MessageOps
<1>3. ASSUME NEW m \in awaiting', NEW i \in Indices(m)
      PROVE  Dep[MessageOps(m)[i]] \in Arrived' \cup {NoOp}
               \cup {MessageOps(m)[j] : j \in 1..(i-1)} \cup (AwaitedFrom(m.session, m.index))'
  <2>1. Dep[MessageOps(m)[i]] \in Arrived \cup {NoOp} \cup {MessageOps(m)[j] : j \in 1..(i-1)}
                                    \cup AwaitedFrom(m.session, m.index)
    BY DEF AwaitedFollow
  <2>2. AwaitedFrom(m.session, m.index) \subseteq
          Arrived' \cup (AwaitedFrom(m.session, m.index))'
    OBVIOUS
  <2> QED
    BY <2>1, <2>2
<1>4. AwaitedFollow'
  BY <1>3 DEF AwaitedFollow, AwaitedFrom, MessageOps, Indices
<1> QED
  BY <1>2, <1>4

\* When the lookup of m answers, only its own operations are awaited no longer.
LEMMA AnsweredLess ==
  ASSUME SessionTypes, NEW m \in awaiting, awaiting' = awaiting \ {m}
  PROVE  \A s, k : AwaitedFrom(s, k) \subseteq MessageSet(m) \cup (AwaitedFrom(s, k))'
<1>1. ToSet(MessageOps(m)) = MessageSet(m)
  BY MessageSetIs
<1>2. ASSUME NEW s, NEW k, NEW o \in AwaitedFrom(s, k)
      PROVE  o \in MessageSet(m) \cup (AwaitedFrom(s, k))'
  <2>1. PICK n \in awaiting : n.session = s /\ n.index < k /\ o \in ToSet(MessageOps(n))
    BY DEF AwaitedFrom
  <2>2. CASE n = m
    BY <1>1, <2>1, <2>2
  <2>3. CASE n # m
    BY <2>1, <2>3 DEF AwaitedFrom, MessageOps
  <2> QED
    BY <2>2, <2>3
<1> QED
  BY <1>2

\* Refusals, evictions, sessions that come and go, freezes: operations are where
\* they were, or refused.
LEMMA RestartQuiet ==
  ASSUME OperationsInv, RestartParts,
         \/ \E m \in awaiting : Deny(m)
         \/ \E s \in Sessions : Leave(s) \/ Join(s)
         \/ Sweep \/ Freeze \/ Unfreeze \/ UNCHANGED vars
  PROVE  RestartParts'
<1> USE DEF sessionVars, engineVars, commitVars, breakerVars, rebuildVars, database, clients
<1>1. TypeOK /\ Single
  BY DEF OperationsInv, DurabilityInv
<1>2. UNCHANGED <<phase, applied, log, docSeq, queue, snapshots, currentSeq,
                  lastCommittedSeq, rebuilding>>
  BY DEF Deny, Leave, Join, Sweep, Freeze, Unfreeze, vars
<1>3. /\ NothingFails' /\ ServesWritten' /\ SnapshotsComplete' /\ Gapless' /\ CausalRows'
      /\ CommittedStored'
  BY <1>2, RowsStill DEF RestartParts
<1>4. KnownArrives /\ BufferBlocked /\ AwaitedFollow
  BY DEF RestartParts
<1>5. KnownArrives' /\ BufferBlocked' /\ AwaitedFollow'
  <2>1. ASSUME NEW m \in awaiting, Deny(m) PROVE KnownArrives' /\ BufferBlocked' /\ AwaitedFollow'
    <3>1. /\ UNCHANGED <<live, applied, pending, next, known>>
          /\ awaiting' = awaiting \ {m} /\ rejected' = rejected \cup ToSet(MessageOps(m))
      BY <2>1 DEF Deny, Answers
    <3>2. ToSet(MessageOps(m)) = MessageSet(m)
      BY <1>1, MessageSetIs DEF TypeOK
    <3>3. PendingOps' = PendingOps
      BY <3>1 DEF PendingOps
    <3>4. Arrived \subseteq Arrived' /\ MessageSet(m) \subseteq Arrived'
      BY <3>1, <3>2, <3>3 DEF Arrived
    <3>5. \A s, k : AwaitedFrom(s, k) \subseteq Arrived' \cup (AwaitedFrom(s, k))'
      BY <1>1, <3>1, <3>4, AnsweredLess DEF TypeOK
    <3>6. KnownArrives' /\ AwaitedFollow'
      BY <1>4, <3>1, <3>4, <3>5, ClientsAdvance
    <3>7. BufferBlocked'
      BY <1>4, <3>1, <3>3 DEF BufferBlocked
    <3> QED
      BY <3>6, <3>7
  <2>2. ASSUME Sweep PROVE KnownArrives' /\ BufferBlocked' /\ AwaitedFollow'
    <3>1. /\ UNCHANGED <<live, awaiting, applied, next, known>>
          /\ pending' = Swept /\ Swept \subseteq pending
          /\ rejected' = rejected \cup {p.op : p \in pending \ Swept}
      BY <2>2 DEF Sweep, Swept
    <3>2. rejected \subseteq rejected' /\ PendingOps \subseteq rejected' \cup PendingOps'
      BY <3>1 DEF PendingOps
    <3>3. Arrived \subseteq Arrived'
      BY <3>1, <3>2 DEF Arrived
    <3>4. \A s, k : AwaitedFrom(s, k) \subseteq Arrived' \cup (AwaitedFrom(s, k))'
      BY <3>1 DEF AwaitedFrom, MessageOps
    <3>5. KnownArrives' /\ AwaitedFollow'
      BY <1>4, <3>1, <3>3, <3>4, ClientsAdvance
    <3>6. BufferBlocked'
      BY <1>4, <3>1, <3>2 DEF BufferBlocked
    <3> QED
      BY <3>5, <3>6
  <2>3. ASSUME NEW s \in Sessions, Leave(s) \/ Join(s)
        PROVE  KnownArrives' /\ BufferBlocked' /\ AwaitedFollow'
    <3>1. /\ UNCHANGED <<awaiting, applied, pending, next, rejected>>
          /\ \/ live' = live \ {s} /\ known' = known
             \/ live' = live \cup {s} /\ known' = [known EXCEPT ![s] = applied]
      BY <2>3 DEF Leave, Join
    <3>2. PendingOps' = PendingOps /\ Arrived' = Arrived
      BY <3>1 DEF PendingOps, Arrived
    <3>3. \A t, k : AwaitedFrom(t, k) \subseteq Arrived' \cup (AwaitedFrom(t, k))'
      BY <3>1 DEF AwaitedFrom, MessageOps
    <3>4. known \in [Sessions -> SUBSET Ops] /\ live \subseteq Sessions
      BY <1>1 DEF TypeOK, ClientTypes, SessionTypes
    <3>5. \A t \in live' : \/ t \in live /\ known'[t] \subseteq known[t] \cup Arrived'
                           \/ known'[t] \subseteq Arrived'
      <4>1. applied \subseteq Arrived'
        BY <3>2 DEF Arrived
      <4> QED
        BY <3>1, <3>4, <4>1
    <3>6. KnownArrives' /\ AwaitedFollow'
      BY <1>4, <3>1, <3>2, <3>3, <3>5, ClientsAdvance
    <3>7. BufferBlocked'
      BY <1>4, <3>1, <3>2 DEF BufferBlocked
    <3> QED
      BY <3>6, <3>7
  <2>4. CASE Freeze \/ Unfreeze \/ UNCHANGED vars
    <3>1. UNCHANGED <<live, awaiting, applied, pending, next, known, rejected>>
      BY <2>4 DEF Freeze, Unfreeze, vars
    <3> QED
      BY <1>4, <3>1, ClientsStill
  <2> QED
    BY <2>1, <2>2, <2>3, <2>4
<1> QED
  BY <1>3, <1>5 DEF RestartParts

\* A message is received from a joined client: it refers to what the client knows.
LEMMA RestartReceived ==
  ASSUME OperationsInv, RestartParts, NEW s \in Sessions, Receive(s)
  PROVE  RestartParts'
<1> USE DEF sessionVars, engineVars, commitVars, breakerVars, rebuildVars, database, clients
<1>1. PICK k \in Nat : k = next[s]
  BY DEF OperationsInv, DurabilityInv, TypeOK, ClientTypes
<1> DEFINE ops == Script[s][k]
           m == [session |-> s, epoch |-> epoch[s], index |-> k]
<1>2. TypeOK /\ OnlySent
  BY DEF OperationsInv, DurabilityInv
<1>3. /\ s \in live /\ MessageOps(m) = ops
      /\ \A i \in DOMAIN ops : Dep[ops[i]] \in known[s] \cup {NoOp} \cup {ops[j] : j \in 1..(i-1)}
      /\ next' = [next EXCEPT ![s] = k + 1]
      /\ known' = [known EXCEPT ![s] = @ \cup ToSet(ops)]
      /\ \/ rejected' = rejected \cup ToSet(ops) /\ awaiting' = awaiting
         \/ awaiting' = awaiting \cup {m} /\ rejected' = rejected
      /\ UNCHANGED <<live, applied, pending>>
  BY <1>1 DEF Receive, MessageOps
<1>4. UNCHANGED <<phase, applied, log, docSeq, queue, snapshots, currentSeq,
                  lastCommittedSeq, rebuilding>>
  BY DEF Receive
<1>5. /\ NothingFails' /\ ServesWritten' /\ SnapshotsComplete' /\ Gapless' /\ CausalRows'
      /\ CommittedStored'
  BY <1>4, RowsStill DEF RestartParts
<1>6. PendingOps' = PendingOps /\ Arrived \subseteq Arrived' /\ rejected \subseteq rejected'
  BY <1>3 DEF PendingOps, Arrived
<1>7. \A t, n : AwaitedFrom(t, n) \subseteq (AwaitedFrom(t, n))'
  <2>1. awaiting \subseteq awaiting'
    BY <1>3
  <2> QED
    BY <2>1 DEF AwaitedFrom, MessageOps
<1>8. ToSet(ops) \subseteq Arrived' \cup (AwaitedFrom(s, k + 1))'
  <2>1. CASE rejected' = rejected \cup ToSet(ops)
    BY <2>1 DEF Arrived
  <2>2. CASE awaiting' = awaiting \cup {m}
    <3>1. m \in awaiting' /\ m.session = s /\ m.index < k + 1
      BY <1>3, <2>2
    <3>2. MessageOps(m) = ops
      BY <1>3
    <3> HIDE DEF m
    <3> QED
      BY <3>1, <3>2 DEF AwaitedFrom, MessageOps
  <2> QED
    BY <1>3, <2>1, <2>2
<1>9. known \in [Sessions -> SUBSET Ops] /\ next \in [Sessions -> Nat \ {0}]
      /\ live \subseteq Sessions
  BY <1>2 DEF TypeOK, ClientTypes, SessionTypes
<1>10. KnownArrives'
  <2>1. ASSUME NEW t \in live, t # s PROVE known'[t] \subseteq Arrived' \cup (AwaitedFrom(t, next[t]))'
    <3>1. known'[t] = known[t] /\ next'[t] = next[t]
      BY <1>3, <1>9, <2>1
    <3>2. PICK n : n = next[t]
      OBVIOUS
    <3>3. known[t] \subseteq Arrived \cup AwaitedFrom(t, n)
      BY <3>2 DEF RestartParts, KnownArrives
    <3>4. known'[t] \subseteq Arrived' \cup (AwaitedFrom(t, n))'
      BY <1>6, <1>7, <3>1, <3>3
    <3> QED
      BY <3>1, <3>2, <3>4 DEF AwaitedFrom, MessageOps
  <2>2. known'[s] \subseteq Arrived' \cup (AwaitedFrom(s, next[s]))'
    <3>1. known'[s] = known[s] \cup ToSet(ops) /\ next'[s] = k + 1
      BY <1>3, <1>9
    <3>2. known[s] \subseteq Arrived \cup AwaitedFrom(s, k)
      BY <1>1, <1>3 DEF RestartParts, KnownArrives
    <3>3. (AwaitedFrom(s, k))' \subseteq (AwaitedFrom(s, k + 1))'
      <4>1. \A x : x \in awaiting' /\ x.session = s /\ x.index < k => x.index < k + 1
        <5>1. \A x \in awaiting : x.index \in Int
          BY <1>2 DEF TypeOK, SessionTypes
        <5>2. m.index = k
          OBVIOUS
        <5> HIDE DEF m
        <5>3. \A x \in awaiting' : x.index \in Int
          BY <1>3, <5>1, <5>2
        <5> QED
          BY <5>3
      <4> QED
        BY <4>1 DEF AwaitedFrom, MessageOps
    <3>4. known'[s] \subseteq Arrived' \cup (AwaitedFrom(s, k + 1))'
      BY <1>6, <1>7, <1>8, <3>1, <3>2, <3>3
    <3> QED
      BY <3>1, <3>4 DEF AwaitedFrom, MessageOps
  <2> QED
    BY <1>3, <2>1, <2>2 DEF KnownArrives
<1>11. BufferBlocked'
  BY <1>3, <1>6 DEF RestartParts, BufferBlocked
<1>12. AwaitedFollow'
  <2>1. ASSUME NEW n \in awaiting, NEW i \in Indices(n)
        PROVE  Dep[MessageOps(n)[i]] \in Arrived' \cup {NoOp}
                 \cup {MessageOps(n)[j] : j \in 1..(i-1)} \cup (AwaitedFrom(n.session, n.index))'
    <3>1. Dep[MessageOps(n)[i]] \in Arrived \cup {NoOp} \cup {MessageOps(n)[j] : j \in 1..(i-1)}
                                      \cup AwaitedFrom(n.session, n.index)
      BY DEF RestartParts, AwaitedFollow
    <3>2. AwaitedFrom(n.session, n.index) \subseteq (AwaitedFrom(n.session, n.index))'
      BY <1>7
    <3> QED
      BY <1>6, <3>1, <3>2
  <2>2. ASSUME NEW i \in DOMAIN ops
        PROVE  Dep[ops[i]] \in Arrived' \cup {NoOp} \cup {ops[j] : j \in 1..(i-1)}
                                 \cup (AwaitedFrom(s, k))'
    <3>1. known[s] \subseteq Arrived \cup AwaitedFrom(s, k)
      BY <1>1, <1>3 DEF RestartParts, KnownArrives
    <3> QED
      BY <1>3, <1>6, <1>7, <3>1
  <2>3. ASSUME NEW n \in awaiting'
        PROVE  n \in awaiting \/ (n.session = s /\ n.index = k /\ MessageOps(n) = ops
                                  /\ Indices(n) = DOMAIN ops)
    <3>1. ops \in Seq(Ops)
      BY <1>1, <1>9, WritePathAssumption DEF Receive
    <3>2. n \in awaiting \/ n = m
      BY <1>3
    <3>3. CASE n = m
      BY <1>3, <3>1, <3>3 DEF Indices
    <3> QED
      BY <3>2, <3>3
  <2>4. ASSUME NEW n \in awaiting', NEW i \in Indices(n)
        PROVE  Dep[MessageOps(n)[i]] \in Arrived' \cup {NoOp}
                 \cup {MessageOps(n)[j] : j \in 1..(i-1)} \cup (AwaitedFrom(n.session, n.index))'
    <3>1. CASE n \in awaiting
      BY <2>1, <3>1
    <3>2. CASE n \notin awaiting
      <4>1. n.session = s /\ n.index = k /\ MessageOps(n) = ops /\ i \in DOMAIN ops
        BY <2>3, <3>2
      <4>2. Dep[ops[i]] \in Arrived' \cup {NoOp} \cup {ops[j] : j \in 1..(i-1)}
                              \cup (AwaitedFrom(s, k))'
        BY <2>2, <4>1
      <4>3. (AwaitedFrom(n.session, n.index))' = (AwaitedFrom(s, k))'
        BY <4>1
      <4> QED
        BY <4>1, <4>2, <4>3
    <3> QED
      BY <3>1, <3>2
  <2> QED
    BY <2>4 DEF AwaitedFollow, AwaitedFrom, MessageOps, Indices
<1> QED
  BY <1>5, <1>10, <1>11, <1>12 DEF RestartParts

\* The head is stored: what was written is written, and the log has no gap up to it.
LEMMA RestartStored ==
  ASSUME OperationsInv, RestartParts, StoreCommits
  PROVE  RestartParts'
<1> USE DEF sessionVars, engineVars, commitVars, breakerVars, rebuildVars, database, clients
<1>1. TypeOK /\ RowsAgree /\ SeqDiscipline /\ CommittedLogged
  BY DEF OperationsInv, DurabilityInv
<1>2. /\ HeadQueued /\ phase = "up" /\ StoreRows(queue[1]) /\ Outcome("committed")
      /\ UNCHANGED <<phase, live, awaiting, applied, pending, next, known, rejected, snapshots,
                     currentSeq, lastCommittedSeq, rebuilding>>
  BY DEF StoreCommits, HeadQueued
<1>3. /\ QueueRows' = QueueRows /\ QueuedOps' = QueuedOps
      /\ log \subseteq log' /\ log' \subseteq log \cup QueueRows
      /\ Logged \subseteq Logged' /\ Logged' \subseteq Logged \cup QueuedOps
  BY <1>1, <1>2, OutcomeRows
<1>4. Written' = Written /\ WrittenOps' = WrittenOps /\ SnapshotOps' = SnapshotOps
  BY <1>2, <1>3 DEF Written, WrittenOps, SnapshotOps
<1>5. /\ DOMAIN queue' = DOMAIN queue /\ 1 \in DOMAIN queue
      /\ queue'[1].status = "committed"
      /\ \A i \in DOMAIN queue :
           /\ queue'[i].start = queue[i].start /\ queue'[i].ops = queue[i].ops
           /\ i > 1 => queue'[i] = queue[i]
           /\ i = 1 \/ i > 1
  BY <1>1, <1>2, OutcomeTypes DEF TypeOK, CommitTypes, HeadQueued
<1>6. /\ docSeq \in Nat /\ docSeq' \in Nat /\ docSeq <= docSeq' /\ EndSeq(queue[1]) <= docSeq'
      /\ EndSeq(queue[1]) \in Nat /\ queue[1].start <= EndSeq(queue[1])
      /\ docSeq' = GreaterOf(docSeq, EndSeq(queue[1]))
  <2>1. docSeq \in Nat /\ queue[1] \in EntryType
    BY <1>1, <1>5 DEF TypeOK, DatabaseTypes, CommitTypes
  <2>2. docSeq' = GreaterOf(docSeq, EndSeq(queue[1]))
    BY <1>2 DEF StoreRows
  <2>3. EndSeq(queue[1]) \in Nat /\ queue[1].start <= EndSeq(queue[1])
    BY <2>1, EntryRows
  <2>4. docSeq' \in Nat /\ docSeq <= docSeq' /\ EndSeq(queue[1]) <= docSeq'
    BY <2>1, <2>2, <2>3 DEF GreaterOf
  <2> QED
    BY <2>1, <2>2, <2>3, <2>4
<1>7. NothingFails' /\ ServesWritten'
  BY <1>2, <1>4, <1>5 DEF RestartParts, NothingFails, ServesWritten
<1>8. SnapshotsComplete' /\ CausalRows'
  BY <1>2, <1>4 DEF RestartParts, SnapshotsComplete, CausalRows, Reserved
<1>9. ASSUME NEW n \in 1..docSeq' PROVE \E x \in log' : x.seq = n
  <2>1. CASE n <= docSeq
    <3>1. n \in 1..docSeq
      BY <1>6, <2>1
    <3> QED
      BY <1>3, <3>1 DEF RestartParts, Gapless
  <2>2. CASE ~(n <= docSeq)
    <3>1. n <= EndSeq(queue[1])
      BY <1>6, <2>2 DEF GreaterOf
    <3>2. n \in 1..currentSeq
      <4>1. EndSeq(queue[1]) <= currentSeq /\ currentSeq \in Nat
        BY <1>1, <1>5 DEF SeqDiscipline, TypeOK, CommitTypes
      <4> QED
        BY <1>6, <3>1, <4>1
    <3>3. PICK x \in Written : x.seq = n
      BY <1>2, <3>2 DEF RestartParts, Gapless
    <3>4. x \notin log
      BY <1>1, <1>6, <2>2, <3>3 DEF SeqDiscipline
    <3>5. PICK i \in DOMAIN queue : x \in Rows(queue[i])
      BY <3>3, <3>4 DEF Written, QueueRows, RowsOf
    <3>6. i = 1
      <4>1. SUFFICES ASSUME i > 1 PROVE FALSE
        BY <1>5
      <4>2. queue[i] \in EntryType
        BY <1>1 DEF TypeOK, CommitTypes
      <4>3. queue[i].start <= x.seq /\ queue[i].start \in Nat
        BY <3>5, <4>2, EntryRows DEF EntryType
      <4>4. EndSeq(queue[1]) < queue[i].start
        BY <1>1, <1>5, <4>1 DEF SeqDiscipline
      <4> QED
        BY <1>6, <3>1, <3>3, <4>3, <4>4
    <3>7. x \in log'
      BY <1>1, <1>2, <3>5, <3>6, StoredWhole
    <3> QED
      BY <3>3, <3>7
  <2> QED
    BY <2>1, <2>2
<1>10. Gapless'
  BY <1>2, <1>4, <1>9 DEF RestartParts, Gapless
<1>11. CommittedStored'
  <2>1. lastCommittedSeq' <= docSeq'
    <3>1. lastCommittedSeq \in Nat /\ lastCommittedSeq <= docSeq
      BY <1>1 DEF RestartParts, CommittedStored, TypeOK, CommitTypes
    <3> QED
      BY <1>2, <1>6, <3>1
  <2>2. ASSUME NEW i \in DOMAIN queue', queue'[i].status = "committed"
        PROVE  EndSeq(queue'[i]) <= docSeq'
    <3>1. CASE i = 1
      BY <1>5, <1>6, <3>1 DEF EndSeq
    <3>2. CASE i > 1
      BY <1>1, <1>5, <2>2, <3>2 DEF TypeOK, CommitTypes
    <3> QED
      BY <1>5, <3>1, <3>2
  <2> QED
    BY <2>1, <2>2 DEF CommittedStored, EndSeq
<1>12. KnownArrives' /\ BufferBlocked' /\ AwaitedFollow'
  BY <1>2, ClientsStill DEF RestartParts
<1> QED
  BY <1>7, <1>8, <1>10, <1>11, <1>12 DEF RestartParts

\* A committed head leaves the queue: its rows are in the log.
LEMMA RestartSettled ==
  ASSUME OperationsInv, RestartParts, SettleCommit
  PROVE  RestartParts'
<1> USE DEF sessionVars, engineVars, commitVars, breakerVars, rebuildVars, database, clients
<1>1. TypeOK /\ RowsAgree /\ SeqDiscipline /\ CommittedLogged
  BY DEF OperationsInv, DurabilityInv
<1>2. /\ phase = "up" /\ queue # <<>> /\ queue[1].status # "queued" /\ queue' = Tail(queue)
      /\ lastCommittedSeq' = CommittedUpTo(queue[1])
      /\ UNCHANGED <<phase, live, awaiting, applied, pending, next, known, rejected, snapshots,
                     currentSeq, log, docSeq, rebuilding>>
  BY DEF SettleCommit
<1>3. /\ 1 \in DOMAIN queue /\ queue[1] \in EntryType /\ \A i \in DOMAIN queue : i = 1 \/ i > 1
      /\ \A i \in DOMAIN queue' : i + 1 \in DOMAIN queue /\ queue'[i] = queue[i + 1]
      /\ \A i \in DOMAIN queue : i > 1 => i - 1 \in DOMAIN queue' /\ queue'[i - 1] = queue[i]
  BY <1>1, <1>2, QueueHead DEF TypeOK, CommitTypes
<1>4. queue[1].status = "committed"
  BY <1>2, <1>3 DEF RestartParts, NothingFails, EntryType
<1>5. Rows(queue[1]) \subseteq log
  BY <1>1, <1>3, <1>4, CommittedWhole
<1>6. Written' = Written
  <2>1. RowsOf(queue') \subseteq RowsOf(queue)
    BY <1>3 DEF RowsOf
  <2>2. RowsOf(queue) \subseteq RowsOf(queue') \cup Rows(queue[1])
    BY <1>3 DEF RowsOf
  <2>3. QueueRows' = RowsOf(queue')
    BY DEF QueueRows, RowsOf, Rows
  <2> QED
    BY <1>2, <1>5, <2>1, <2>2, <2>3 DEF Written, QueueRows
<1>7. WrittenOps' = WrittenOps
  <2>1. {x.op : x \in Written} = WrittenOps
    BY <1>1, WrittenRows
  <2>2. WrittenOps' = {x.op : x \in Written'}
    <3>1. QueuedOps' = {r.op : r \in RowsOf(queue')}
      BY RowsOfOps DEF QueuedOps, ToSet
    <3>2. QueueRows' = RowsOf(queue')
      BY DEF QueueRows, RowsOf, Rows
    <3> QED
      BY <3>1, <3>2 DEF WrittenOps, Written, Logged
  <2> QED
    BY <1>6, <2>1, <2>2
<1>8. NothingFails' /\ ServesWritten' /\ SnapshotsComplete' /\ Gapless' /\ CausalRows'
  <2>1. SnapshotOps' = SnapshotOps /\ Reserved' = Reserved
    BY <1>2 DEF SnapshotOps, Reserved
  <2>2. NothingFails'
    BY <1>2, <1>3 DEF RestartParts, NothingFails
  <2>3. ServesWritten' /\ SnapshotsComplete' /\ Gapless' /\ CausalRows'
    BY <1>2, <1>6, <1>7, <2>1
       DEF RestartParts, ServesWritten, SnapshotsComplete, Gapless, CausalRows
  <2> QED
    BY <2>2, <2>3
<1>9. CommittedStored'
  <2>1. lastCommittedSeq' <= docSeq
    BY <1>2, <1>3, <1>4 DEF RestartParts, CommittedStored, CommittedUpTo
  <2>2. \A i \in DOMAIN queue' : queue'[i].status = "committed" => EndSeq(queue'[i]) <= docSeq
    BY <1>3 DEF RestartParts, CommittedStored
  <2> QED
    BY <1>2, <2>1, <2>2 DEF CommittedStored, EndSeq
<1>10. KnownArrives' /\ BufferBlocked' /\ AwaitedFollow'
  BY <1>2, ClientsStill DEF RestartParts
<1> QED
  BY <1>8, <1>9, <1>10 DEF RestartParts

\* A snapshot is taken of all that is written.
LEMMA RestartSnapshot ==
  ASSUME OperationsInv, RestartParts, WriteSnapshot
  PROVE  RestartParts'
<1> USE DEF sessionVars, engineVars, commitVars, breakerVars, rebuildVars, database, clients
<1>1. TypeOK
  BY DEF OperationsInv, DurabilityInv
<1>2. /\ phase = "up"
      /\ snapshots' = snapshots \/ snapshots' = snapshots \cup {SnapshotRow}
      /\ UNCHANGED <<phase, live, awaiting, applied, pending, next, known, rejected, queue,
                     currentSeq, lastCommittedSeq, log, docSeq, rebuilding>>
  BY DEF WriteSnapshot
<1>3. SnapshotRow.seq = currentSeq /\ SnapshotRow.ops = applied
  BY DEF SnapshotRow
<1>4. /\ QueueRows' = QueueRows /\ QueuedOps' = QueuedOps /\ Logged' = Logged
  BY <1>2 DEF QueueRows, RowsOf, Rows, QueuedOps, ToSet, Logged
<1>5. Written' = Written /\ WrittenOps' = WrittenOps /\ Reserved' = Reserved
  BY <1>2, <1>4 DEF Written, WrittenOps, Reserved
<1>6. applied = WrittenOps
  BY <1>2 DEF RestartParts, ServesWritten
<1>7. SnapshotOps' \subseteq SnapshotOps \cup applied
  BY <1>2, <1>3 DEF SnapshotOps
<1>8. SnapshotsComplete'
  <2>1. \A x \in Written : x.op \in WrittenOps
    BY <1>1, WrittenRows
  <2>2. currentSeq <= Reserved
    BY <1>1, <1>2 DEF Reserved, TypeOK, CommitTypes
  <2> QED
    BY <1>2, <1>3, <1>5, <1>6, <1>7, <2>1, <2>2 DEF RestartParts, SnapshotsComplete
<1>9. NothingFails' /\ ServesWritten' /\ Gapless' /\ CausalRows' /\ CommittedStored'
  BY <1>2, <1>5
     DEF RestartParts, NothingFails, ServesWritten, Gapless, CausalRows, CommittedStored, EndSeq
<1>10. KnownArrives' /\ BufferBlocked' /\ AwaitedFollow'
  BY <1>2, ClientsStill DEF RestartParts
<1> QED
  BY <1>8, <1>9, <1>10 DEF RestartParts

\* The process dies: unless a snapshot holds an operation that is lost with it, the
\* log alone has all that the snapshots and its own rows refer to.
LEMMA RestartCrashed ==
  ASSUME OperationsInv, RestartParts, Crash, ~Haunted'
  PROVE  RestartParts'
<1>1. TypeOK /\ RowsAgree /\ SeqDiscipline
  BY DEF OperationsInv, DurabilityInv
<1>2. /\ phase = "up" /\ phase' = "down" /\ live' = {} /\ awaiting' = {} /\ pending' = {}
      /\ queue' = <<>> /\ lastCommittedSeq' = 0 /\ ~rebuilding'
      /\ lost' = lost \cup InFlight
      /\ UNCHANGED <<log, docSeq, snapshots>>
  BY DEF Crash, database
<1>3. QueuedOps \subseteq lost'
  BY <1>2 DEF InFlight, QueuedOps
<1>4. SnapshotOps \cap QueuedOps = {}
  <2>1. Haunted' <=> lost' \cap SnapshotOps' # {}
    BY DEF Haunted, SnapshotOps
  <2>2. SnapshotOps' = SnapshotOps
    BY <1>2 DEF SnapshotOps
  <2> QED
    BY <1>3, <2>1, <2>2
<1>5. /\ QueueRows' = {} /\ QueuedOps' = {} /\ Logged' = Logged /\ SnapshotOps' = SnapshotOps
  BY <1>2 DEF QueueRows, RowsOf, QueuedOps, Logged, SnapshotOps
<1>6. Written' = log /\ WrittenOps' = Logged /\ Reserved' = docSeq /\ log \subseteq Written
  BY <1>2, <1>5 DEF Written, WrittenOps, Reserved
<1>7. NothingFails' /\ ServesWritten'
  BY <1>2 DEF NothingFails, ServesWritten
<1>8. SnapshotsComplete'
  <2>1. SnapshotOps \subseteq Logged
    BY <1>4 DEF RestartParts, SnapshotsComplete, WrittenOps
  <2>2. ASSUME NEW r \in snapshots PROVE r.seq <= docSeq
    <3>1. r.seq \in Nat /\ docSeq \in Nat /\ currentSeq \in Nat /\ r.seq <= currentSeq
      BY <1>1, <1>2 DEF TypeOK, DatabaseTypes, CommitTypes, RestartParts, SnapshotsComplete,
                        Reserved
    <3>2. SUFFICES ASSUME docSeq < r.seq PROVE FALSE
      BY <3>1
    <3>3. r.seq \in 1..currentSeq
      BY <3>1, <3>2
    <3>4. PICK x \in Written : x.seq = r.seq
      BY <1>2, <3>3 DEF RestartParts, Gapless
    <3>5. x \in QueueRows
      BY <1>1, <3>1, <3>2, <3>4 DEF Written, SeqDiscipline
    <3>6. x.op \in QueuedOps
      BY <3>5, QueueRowsOps
    <3>7. x.seq <= r.seq
      BY <3>1, <3>4
    <3>8. x.op \in r.ops
      BY <3>7 DEF RestartParts, SnapshotsComplete
    <3>9. x.op \in SnapshotOps
      BY <3>8 DEF SnapshotOps
    <3> QED
      BY <1>4, <3>6, <3>9
  <2>3. \A r \in snapshots : \A x \in log : x.seq <= r.seq => x.op \in r.ops
    BY <1>6 DEF RestartParts, SnapshotsComplete
  <2> QED
    BY <1>2, <1>5, <1>6, <2>1, <2>2, <2>3 DEF SnapshotsComplete
<1>9. Gapless'
  BY <1>2 DEF RestartParts, Gapless
<1>10. CausalRows'
  <2>1. ASSUME NEW x \in log, Dep[x.op] # NoOp
        PROVE  \E y \in log : y.op = Dep[x.op] /\ y.seq < x.seq
    BY <2>1, CausalLog
  <2> QED
    BY <1>6, <2>1 DEF CausalRows
<1>11. CommittedStored'
  <2>1. docSeq \in Nat
    BY <1>1 DEF TypeOK, DatabaseTypes
  <2> QED
    BY <1>2, <2>1 DEF CommittedStored
<1>12. KnownArrives' /\ BufferBlocked' /\ AwaitedFollow'
  BY <1>2 DEF KnownArrives, BufferBlocked, AwaitedFollow
<1> QED
  BY <1>7, <1>8, <1>9, <1>10, <1>11, <1>12 DEF RestartParts

\* The document is opened again: the engine is the latest snapshot and the rows
\* after it, which is all that is logged.
LEMMA RestartWarm ==
  ASSUME OperationsInv, IsFiniteSet(snapshots), RestartParts, WarmStart
  PROVE  RestartParts'
<1> USE DEF sessionVars, engineVars, commitVars, breakerVars, rebuildVars, database, clients
<1>1. TypeOK /\ SeqDiscipline /\ AtRest
  BY DEF OperationsInv, DurabilityInv
<1>2. /\ phase = "down" /\ UNCHANGED <<live, awaiting, pending, queue, log, docSeq, snapshots,
                                       rebuilding>>
      /\ \/ /\ phase' = "up" /\ Suffix \subseteq Replayed /\ applied' = Replayed
            /\ currentSeq' = docSeq /\ lastCommittedSeq' = docSeq
         \/ phase' = "failed" /\ UNCHANGED <<applied, currentSeq, lastCommittedSeq>>
  BY DEF WarmStart
<1>3. queue = <<>> /\ live = {} /\ awaiting = {} /\ pending = {}
  BY <1>1, <1>2 DEF SeqDiscipline, AtRest
<1>4. /\ QueueRows = {} /\ QueuedOps = {} /\ QueueRows' = {} /\ QueuedOps' = {}
      /\ Logged' = Logged /\ SnapshotOps' = SnapshotOps
  BY <1>2, <1>3 DEF QueueRows, RowsOf, QueuedOps, Logged, SnapshotOps
<1>5. /\ Written = log /\ Written' = log /\ WrittenOps = Logged /\ WrittenOps' = Logged
      /\ Reserved = docSeq /\ Reserved' = docSeq
  BY <1>2, <1>4 DEF Written, WrittenOps, Reserved
<1>6. ASSUME Suffix \subseteq Replayed PROVE Replayed = Logged
  <2>1. Replayed \subseteq Logged
    <3>1. LatestOps \subseteq Logged
      BY <1>5 DEF RestartParts, SnapshotsComplete, LatestOps, SnapshotOps
    <3>2. Resolved(LatestOps, Suffix) \subseteq Logged
      BY ResolvedSubset DEF Suffix, Logged
    <3> QED
      BY <3>1, <3>2 DEF Replayed
  <2>2. ASSUME NEW x \in log PROVE x.op \in Replayed
    <3>1. CASE \A r \in snapshots : x.seq > r.seq
      BY <1>6, <3>1 DEF Suffix
    <3>2. CASE ~(\A r \in snapshots : x.seq > r.seq)
      <4>1. PICK r \in snapshots : ~(x.seq > r.seq)
        BY <3>2
      <4>2. x.seq <= r.seq
        BY <1>1, <4>1 DEF TypeOK, DatabaseTypes, Row
      <4> QED
        BY <1>1, <4>2, LatestHolds DEF RestartParts, Replayed
    <3> QED
      BY <3>1, <3>2
  <2> QED
    BY <2>1, <2>2 DEF Logged
<1>7. ServesWritten'
  BY <1>2, <1>5, <1>6 DEF ServesWritten
<1>8. NothingFails' /\ SnapshotsComplete' /\ CausalRows'
  BY <1>2, <1>4, <1>5 DEF RestartParts, NothingFails, SnapshotsComplete, CausalRows
<1>9. Gapless'
  BY <1>2, <1>5 DEF RestartParts, Gapless
<1>10. CommittedStored'
  <2>1. docSeq \in Nat
    BY <1>1 DEF TypeOK, DatabaseTypes
  <2> QED
    BY <1>2, <1>3, <2>1 DEF RestartParts, CommittedStored
<1>11. KnownArrives' /\ BufferBlocked' /\ AwaitedFollow'
  BY <1>2, <1>3 DEF KnownArrives, BufferBlocked, AwaitedFollow
<1> QED
  BY <1>7, <1>8, <1>9, <1>10, <1>11 DEF RestartParts

\* When lookups answer in order, what a message refers to has arrived or is of it.
LEMMA InOrderFollows ==
  ASSUME OperationsInv, RestartParts, NEW m \in awaiting,
         \A n \in awaiting : n.session = m.session => n.index >= m.index,
         NEW i \in Indices(m)
  PROVE  Dep[MessageOps(m)[i]] \in Arrived \cup {NoOp} \cup {MessageOps(m)[j] : j \in 1..(i-1)}
<1>1. \A n \in awaiting : n.index \in Int
  BY DEF OperationsInv, DurabilityInv, TypeOK, SessionTypes
<1>2. AwaitedFrom(m.session, m.index) = {}
  BY <1>1 DEF AwaitedFrom
<1> QED
  BY <1>2 DEF RestartParts, AwaitedFollow

\* A message never unblocks what waits in the buffer: that waits for what was refused.
LEMMA NothingDrains ==
  ASSUME OperationsInv, RestartParts, NEW m \in awaiting
  PROVE  Fresh(m) \subseteq MessageSet(m)
<1> DEFINE D == Fresh(m) \cap PendingOps
<1>1. TypeOK /\ PlacesApart /\ BufferDry
  BY DEF OperationsInv, DurabilityInv
<1>2. Fresh(m) \subseteq PendingOps \cup MessageSet(m)
  BY <1>1, EngineEffect
<1>3. MessageSet(m) \subseteq AwaitedOps
  BY <1>1, MessageSetIs DEF AwaitedOps, TypeOK
<1>4. ASSUME NEW o \in D PROVE Dep[o] \in applied \cup D \cup {NoOp}
  <2>1. Dep[o] \in applied \cup Fresh(m) \cup {NoOp}
    BY ResolvedClosed DEF Fresh
  <2>2. Dep[o] \in rejected \cup PendingOps
    BY DEF PendingOps, RestartParts, BufferBlocked
  <2>3. rejected \cap Fresh(m) = {}
    BY <1>1, <1>2, <1>3 DEF PlacesApart
  <2>4. CASE Dep[o] \in Fresh(m)
    BY <2>2, <2>3, <2>4
  <2> QED
    BY <2>1, <2>4
<1>5. D \subseteq Resolved(applied, PendingOps)
  <2>1. D \in SUBSET PendingOps
    OBVIOUS
  <2> HIDE DEF D
  <2> QED
    BY <1>4, <2>1, ResolvedGreatest
<1> QED
  BY <1>1, <1>2, <1>5 DEF BufferDry

\* A message is applied and published: its rows follow what they refer to.
LEMMA RestartPublished ==
  ASSUME OperationsInv, RestartParts, budget.ordered,
         NEW m \in awaiting, RunFastPath(m) \/ RunSlowPath(m)
  PROVE  RestartParts'
<1>1. TypeOK /\ PlacesApart /\ RowsAgree /\ DurabilityInv /\ SeqDiscipline
  BY DEF OperationsInv, DurabilityInv
<1>2. /\ phase = "up" /\ awaiting' = awaiting \ {m}
      /\ \A n \in awaiting : n.session = m.session => n.index >= m.index
  BY DEF RunFastPath, RunSlowPath, Answers
<1>3. PICK entries \in Seq(EntryType), last \in Nat :
        Publish(m, entries, last) /\ WellNumbered(entries, m, last)
  BY <1>1, Published
<1>4. /\ applied' = applied \cup Fresh(m)
      /\ PendingOps' = (PendingOps \cup MessageSet(m)) \ Fresh(m)
      /\ QueueRows' = QueueRows \cup RowsOf(entries)
      /\ QueuedOps' = QueuedOps \cup Fresh(m)
      /\ \A s \in Sessions : known'[s] \subseteq known[s] \cup Fresh(m)
      /\ currentSeq' = last
      /\ UNCHANGED <<phase, live, lastCommittedSeq, rebuildVars, database, next, rejected>>
  BY <1>1, <1>2, <1>3, PublishEffect
<1>5. /\ Fresh(m) \subseteq MessageSet(m)
      /\ MessageSet(m) \cap PendingOps = {} /\ MessageSet(m) \cap EnteredOps = {}
      /\ MessageSet(m) \cap rejected = {}
  <2>1. MessageSet(m) \subseteq AwaitedOps
    BY <1>1, MessageSetIs DEF AwaitedOps, TypeOK
  <2> QED
    BY <1>1, <2>1, NothingDrains, EngineEffect DEF PlacesApart
<1>6. /\ Logged' = Logged /\ SnapshotOps' = SnapshotOps /\ log' = log /\ docSeq' = docSeq
      /\ snapshots' = snapshots /\ rebuilding' = rebuilding
  BY <1>4 DEF Logged, SnapshotOps, database, rebuildVars
<1>7. /\ Written' = Written \cup RowsOf(entries)
      /\ WrittenOps' = WrittenOps \cup Fresh(m)
      /\ Reserved = currentSeq /\ Reserved' = last /\ currentSeq <= last
      /\ currentSeq \in Nat
  BY <1>1, <1>2, <1>3, <1>4, <1>6
     DEF Written, WrittenOps, Reserved, WellNumbered, TypeOK, CommitTypes
<1>8. /\ \A r \in RowsOf(entries) : /\ r.op \in Fresh(m) /\ r.seq \in Int
                                    /\ currentSeq < r.seq /\ r.seq <= last
      /\ \A o \in Fresh(m) : \E r \in RowsOf(entries) : r.op = o
  BY <1>3 DEF WellNumbered
<1>9. \A x \in Written : x.seq \in Nat /\ x.seq <= currentSeq
  BY <1>1, <1>2, RowsEntered DEF Written
<1>10. applied = WrittenOps
  BY <1>2 DEF RestartParts, ServesWritten
<1>11. ServesWritten'
  BY <1>4, <1>7, <1>10 DEF ServesWritten
<1>12. SnapshotsComplete'
  <2>1. \A r \in snapshots : r.seq \in Nat /\ r.seq <= currentSeq
    BY <1>1, <1>7 DEF RestartParts, SnapshotsComplete, TypeOK, DatabaseTypes
  <2>2. \A r \in snapshots : r.seq <= last
    BY <1>7, <2>1
  <2>3. ASSUME NEW r \in snapshots, NEW x \in Written', x.seq <= r.seq PROVE x.op \in r.ops
    <3>1. x \in Written
      BY <1>7, <1>8, <2>1, <2>3
    <3> QED
      BY <2>3, <3>1 DEF RestartParts, SnapshotsComplete
  <2> QED
    BY <1>6, <1>7, <2>2, <2>3 DEF RestartParts, SnapshotsComplete
<1>13. Gapless'
  <2>1. ASSUME NEW n \in 1..last PROVE \E x \in Written' : x.seq = n
    <3>1. CASE n <= currentSeq
      <4>1. n \in 1..currentSeq
        BY <1>7, <3>1
      <4> QED
        BY <1>2, <1>7, <4>1 DEF RestartParts, Gapless
    <3>2. CASE ~(n <= currentSeq)
      <4>1. n \in (currentSeq + 1)..last
        BY <1>7, <3>2
      <4> QED
        BY <1>3, <1>7, <4>1 DEF WellNumbered
    <3> QED
      BY <3>1, <3>2
  <2> QED
    BY <1>4, <1>6, <2>1 DEF RestartParts, Gapless
<1>14. ASSUME NEW x \in RowsOf(entries), Dep[x.op] # NoOp
       PROVE  \E y \in Written' : y.op = Dep[x.op] /\ y.seq < x.seq
  <2>1. PICK i \in Indices(m) : x.op = MessageOps(m)[i]
    BY <1>5, <1>8 DEF MessageSet
  <2>2. Dep[x.op] \in Arrived \cup {NoOp} \cup {MessageOps(m)[j] : j \in 1..(i-1)}
    BY <1>2, <2>1, InOrderFollows
  <2>3. Dep[x.op] \in applied \cup Fresh(m)
    <3>1. x.op \in Resolved(applied, PendingOps \cup MessageSet(m))
      BY <1>8 DEF Fresh
    <3>2. Dep[x.op] \in applied \cup Fresh(m) \cup {NoOp}
      BY <3>1, ResolvedClosed DEF Fresh
    <3> QED
      BY <1>14, <3>2
  <2>4. CASE Dep[x.op] \in applied
    <3>1. PICK y \in Written : y.op = Dep[x.op]
      BY <1>1, <1>10, <2>4, WrittenRows
    <3> QED
      BY <1>7, <1>8, <1>9, <3>1
  <2>5. CASE Dep[x.op] \in Fresh(m)
    <3>1. Dep[x.op] \notin Arrived
      BY <1>5, <2>5 DEF Arrived, EnteredOps
    <3>2. PICK j \in 1..(i-1) : Dep[x.op] = MessageOps(m)[j]
      BY <1>14, <2>2, <3>1
    <3>3. j \in Indices(m) /\ j < i
      BY <1>1, MessageType DEF Indices, TypeOK
    <3>4. PICK y \in RowsOf(entries) : y.op = Dep[x.op]
      BY <1>8, <2>5
    <3>5. y.seq < x.seq
      BY <1>3, <2>1, <3>2, <3>3, <3>4 DEF WellNumbered
    <3> QED
      BY <1>7, <3>4, <3>5
  <2> QED
    BY <2>3, <2>4, <2>5
<1>15. CausalRows'
  BY <1>7, <1>14 DEF RestartParts, CausalRows
<1>16. NothingFails' /\ CommittedStored'
  <2>1. queue' = queue \o entries /\ queue \in Seq(EntryType)
    BY <1>1, <1>3 DEF Publish, Enqueue, TypeOK, CommitTypes
  <2>2. \A i \in DOMAIN queue' : \/ i \in DOMAIN queue /\ queue'[i] = queue[i]
                                 \/ \E j \in DOMAIN entries : queue'[i] = entries[j]
    BY <2>1
  <2>3. \A i \in DOMAIN queue' : \/ i \in DOMAIN queue /\ queue'[i] = queue[i]
                                 \/ queue'[i].status = "queued"
    BY <1>3, <2>2 DEF WellNumbered
  <2> QED
    BY <1>4, <1>6, <2>3 DEF RestartParts, NothingFails, CommittedStored, EndSeq
<1>17. KnownArrives' /\ AwaitedFollow'
  <2>1. Arrived \subseteq Arrived' /\ MessageSet(m) \subseteq Arrived' /\ Fresh(m) \subseteq Arrived'
    BY <1>4 DEF Arrived
  <2>2. \A s, k : AwaitedFrom(s, k) \subseteq Arrived' \cup (AwaitedFrom(s, k))'
    BY <1>1, <1>2, <2>1, AnsweredLess DEF TypeOK
  <2>3. \A s \in live' : s \in live /\ known'[s] \subseteq known[s] \cup Arrived'
    BY <1>1, <1>4, <2>1 DEF TypeOK, SessionTypes
  <2>4. awaiting' \subseteq awaiting /\ next' = next
    BY <1>2, <1>4
  <2> QED
    BY <2>1, <2>2, <2>3, <2>4, ClientsAdvance DEF RestartParts
<1>18. BufferBlocked'
  <2>1. ASSUME NEW o \in PendingOps' PROVE Dep[o] \in rejected \cup PendingOps'
    <3>1. CASE o \in PendingOps
      <4>1. Dep[o] \in rejected \cup PendingOps
        BY <3>1 DEF PendingOps, RestartParts, BufferBlocked
      <4> QED
        BY <1>4, <1>5, <4>1
    <3>2. CASE o \in MessageSet(m)
      <4>1. o \notin Fresh(m) /\ Dep[o] \notin applied \cup Fresh(m) \cup {NoOp}
        <5>1. o \in PendingOps \cup MessageSet(m) /\ o \notin Fresh(m)
          BY <1>4, <3>2
        <5> QED
          BY <5>1, ResolvedMaximal DEF Fresh
      <4>2. PICK i \in Indices(m) : o = MessageOps(m)[i]
        BY <3>2 DEF MessageSet
      <4>3. Dep[o] \in Arrived \cup {NoOp} \cup {MessageOps(m)[j] : j \in 1..(i-1)}
        BY <1>2, <4>2, InOrderFollows
      <4>4. \A j \in 1..(i-1) : j \in Indices(m)
        BY <1>1, MessageType DEF Indices, TypeOK
      <4>5. Dep[o] \in rejected \cup PendingOps \cup MessageSet(m)
        BY <4>1, <4>3, <4>4 DEF Arrived, MessageSet
      <4> QED
        BY <1>4, <1>5, <4>1, <4>5
    <3> QED
      BY <1>4, <3>1, <3>2
  <2> QED
    BY <1>4, <2>1 DEF BufferBlocked, PendingOps
<1> QED
  BY <1>11, <1>12, <1>13, <1>15, <1>16, <1>17, <1>18 DEF RestartParts

\* Every step of the write path keeps the invariant.
LEMMA RestartStep ==
  ASSUME RestartInv, [Next]_vars
  PROVE  RestartInv'
<1>1. OperationsInv' /\ BudgetFields' /\ IsFiniteSet(snapshots')
  BY OperationsStep, BudgetKeeps, HauntedForGood DEF RestartInv
<1>2. budget'.calm = budget.calm /\ budget'.ordered = budget.ordered /\ (Haunted => Haunted')
  BY BudgetKeeps, HauntedForGood DEF RestartInv
<1>3. ASSUME budget.calm, budget.ordered, ~Haunted' PROVE RestartParts'
  <2>1. OperationsInv /\ IsFiniteSet(snapshots) /\ RestartParts
    BY <1>2, <1>3 DEF RestartInv
  <2>2. ~StoreFails /\ ~RebuildRead /\ ~RebuildSwap
    BY <1>3, <2>1 DEF StoreFails, RebuildRead, RebuildSwap, RestartParts, NothingFails
  <2> QED
    BY <1>3, <2>1, <2>2, RestartQuiet, RestartReceived, RestartPublished, RestartStored,
       RestartSettled, RestartSnapshot, RestartCrashed, RestartWarm DEF Next
<1> QED
  BY <1>1, <1>2, <1>3 DEF RestartInv

\* At first no snapshot covers more than the log.
LEMMA RestartInit == Init => RestartInv
<1> SUFFICES ASSUME Init PROVE RestartInv
  OBVIOUS
<1>1. OperationsInv
  BY OperationsInit
<1>2. BudgetFields
  <2>1. budget \in [failures : Nat, crashes : Nat, snapshots : Nat, leaves : Nat,
                    freezes : Nat, denials : Nat, rebuilds : Nat, calm : BOOLEAN,
                    ordered : BOOLEAN, senders : SUBSET Sessions]
    BY WritePathAssumption DEF Init
  <2> QED
    BY <2>1 DEF BudgetFields
<1>3. IsFiniteSet(snapshots)
  BY FS_EmptySet DEF Init
<1>4. /\ Written = {} /\ WrittenOps = {} /\ SnapshotOps = {} /\ Arrived = {}
  BY DEF Init, Written, QueueRows, RowsOf, WrittenOps, Logged, QueuedOps, SnapshotOps, Arrived,
         PendingOps
<1>5. NothingFails /\ ServesWritten /\ SnapshotsComplete /\ Gapless /\ CausalRows
      /\ CommittedStored
  BY <1>4 DEF Init, NothingFails, ServesWritten, SnapshotsComplete, Gapless, CausalRows,
              CommittedStored
<1>6. KnownArrives /\ BufferBlocked /\ AwaitedFollow
  BY DEF Init, KnownArrives, BufferBlocked, AwaitedFollow
<1> QED
  BY <1>1, <1>2, <1>3, <1>5, <1>6 DEF RestartInv, RestartParts

\* The inductive invariant holds in every reachable state.
LEMMA RestartInvariant == Spec => []RestartInv
BY RestartInit, RestartStep, PTL DEF Spec

\* A crash at any moment is followed by a warm start that succeeds and serves what
\* was acknowledged, and lastCommittedSeq bounds a log without gaps, unless a commit
\* failed, a rebuild ran, lookups overtook each other, or a snapshot kept an operation
\* that a crash lost.
THEOREM RestartsFromLog == Spec => []Restartable
<1>1. RestartInv => Restartable
  BY PartsSuffice DEF RestartInv, Restartable
<1> QED
  BY <1>1, RestartInvariant, PTL

=============================================================================
