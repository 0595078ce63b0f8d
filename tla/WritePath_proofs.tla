-------------------------- MODULE WritePath_proofs --------------------------
(***************************************************************************)
(* Proofs about the write path, for any clients, scripts and bounds: what  *)
(* is committed stays, and no operation is applied, logged or relayed      *)
(* twice, or after its sender was told that it was refused.                *)
(***************************************************************************)
EXTENDS WritePath, FiniteSetTheorems, WellFoundedInduction, TLAPS

-----------------------------------------------------------------------------
(* Lemmas about the operators of the model *)

\* drain() applies nothing that was not handed to the engine.
LEMMA ResolvedSubset ==
  ASSUME NEW A, NEW P
  PROVE  Resolved(A, P) \subseteq P
BY DEF Resolved

\* A message that waits for authorization is a nonempty sequence of operations.
LEMMA MessageType ==
  ASSUME SessionTypes, NEW m \in awaiting
  PROVE  /\ MessageOps(m) \in Seq(Ops)
         /\ MessageOps(m) # <<>>
         /\ Len(MessageOps(m)) \in Nat \ {0}
         /\ \A i \in Indices(m) : MessageOps(m)[i] \in Ops
<1>1. m.session \in Sessions /\ m.index \in 1..Len(Script[m.session])
  BY DEF SessionTypes
<1>2. Script[m.session] \in Seq(Seq(Ops)) /\ Script[m.session][m.index] # <<>>
  BY <1>1, WritePathAssumption
<1>3. MessageOps(m) \in Seq(Ops) /\ MessageOps(m) # <<>>
  BY <1>1, <1>2 DEF MessageOps
<1>4. Len(MessageOps(m)) \in Nat \ {0}
  BY <1>3
<1> QED
  BY <1>3, <1>4 DEF Indices

\* What a message applies are operations.
LEMMA AppliedByType ==
  ASSUME SessionTypes, EngineTypes, NEW m \in awaiting
  PROVE  AppliedBy(m) \subseteq Ops
<1>1. {MessageOps(m)[j] : j \in 1..Len(MessageOps(m))} \subseteq Ops
  BY MessageType DEF Indices
<1>2. PendingOps \subseteq Ops
  BY DEF PendingOps, EngineTypes
<1> QED
  BY <1>1, <1>2, ResolvedSubset DEF AppliedBy, AppliedAfter, EngineTypes

\* The items a message finalizes or leaves pending are finitely many and have
\* an operation and an origin.
LEMMA ItemTypes ==
  ASSUME SessionTypes, EngineTypes, NEW m \in awaiting
  PROVE  \A S \in {ToFinalize(m), StillPending(m)} :
           /\ IsFiniteSet(S)
           /\ \A p \in S : p.op \in Ops /\ p.session \in Sessions /\ p.epoch \in Nat
<1> DEFINE Ready == {j \in Indices(m) : ~Buffered(m, j)}
           Late == {j \in Indices(m) : Buffered(m, j)}
           Mine == {Item(m, i, i - Len(MessageOps(m))) : i \in Ready}
           Waiting == {Item(m, i, LastAt + i) : i \in Late}
<1>1. IsFiniteSet(Indices(m))
  BY MessageType, FS_Interval DEF Indices
<1>2. IsFiniteSet(Ready) /\ IsFiniteSet(Late)
  BY <1>1, FS_Subset
<1>3. IsFiniteSet(Mine) /\ IsFiniteSet(Waiting)
  <2> DEFINE f == [i \in Ready |-> Item(m, i, i - Len(MessageOps(m)))]
             g == [i \in Late |-> Item(m, i, LastAt + i)]
  <2>1. f \in Surjection(Ready, Mine) /\ g \in Surjection(Late, Waiting)
    BY DEF Surjection
  <2> HIDE DEF f, g, Mine, Waiting, Ready, Late
  <2> QED
    BY <1>2, <2>1, FS_Surjection
<1>4. IsFiniteSet(Drained(m)) /\ IsFiniteSet(pending \ Drained(m))
  BY FS_Subset DEF Drained, EngineTypes
<1>5. IsFiniteSet(ToFinalize(m)) /\ IsFiniteSet(StillPending(m))
  BY <1>3, <1>4, FS_Union DEF ToFinalize, StillPending
<1>6. \A p \in Mine \cup Waiting : p.op \in Ops /\ p.session \in Sessions /\ p.epoch \in Nat
  BY MessageType DEF Item, SessionTypes
<1>7. \A p \in pending : p.op \in Ops /\ p.session \in Sessions /\ p.epoch \in Nat
  BY DEF EngineTypes
<1> QED
  BY <1>5, <1>6, <1>7 DEF ToFinalize, StillPending, Drained

-----------------------------------------------------------------------------
(* Type correctness *)

\* The rows of a queue entry are numbered from its start to its EndSeq.
LEMMA EntryRows ==
  ASSUME NEW e \in EntryType
  PROVE  /\ ToSet(e.ops) \subseteq Ops
         /\ EndSeq(e) \in Nat /\ e.start <= EndSeq(e)
         /\ Rows(e) \subseteq Row
         /\ \A r \in Rows(e) : e.start <= r.seq /\ r.seq <= EndSeq(e)
         /\ \A o \in ToSet(e.ops) : \E r \in Rows(e) : r.op = o
<1>1. /\ e.start \in Nat /\ e.start > 0
      /\ e.ops \in Seq(Ops) /\ e.ops # <<>>
  BY DEF EntryType
<1>2. Len(e.ops) \in Nat /\ Len(e.ops) > 0 /\ DOMAIN e.ops = 1..Len(e.ops)
  BY <1>1
<1>3. \A i \in DOMAIN e.ops :
        /\ e.ops[i] \in Ops
        /\ e.start + i - 1 \in Nat \ {0}
        /\ e.start <= e.start + i - 1
        /\ e.start + i - 1 <= e.start + Len(e.ops) - 1
  BY <1>1, <1>2
<1>4. Rows(e) \subseteq Row
  BY <1>3 DEF Rows, Row
<1>5. \A r \in Rows(e) : e.start <= r.seq /\ r.seq <= EndSeq(e)
  BY <1>3 DEF Rows, EndSeq
<1>6. ASSUME NEW o \in ToSet(e.ops) PROVE \E r \in Rows(e) : r.op = o
  <2>1. PICK i \in DOMAIN e.ops : o = e.ops[i]
    BY DEF ToSet
  <2> DEFINE row == [seq |-> e.start + i - 1, op |-> e.ops[i]]
  <2>2. row \in Rows(e) /\ row.op = o
    BY <2>1 DEF Rows
  <2> HIDE DEF row
  <2> QED
    BY <2>2
<1>7. ToSet(e.ops) \subseteq Ops
  BY <1>3 DEF ToSet
<1>8. EndSeq(e) \in Nat /\ e.start <= EndSeq(e)
  BY <1>1, <1>2 DEF EndSeq
<1> QED
  BY <1>4, <1>5, <1>6, <1>7, <1>8

\* A fast-path entry and the slow-path entries are queue entries.
LEMMA EntryTypes ==
  ASSUME TypeOK, NEW m \in awaiting
  PROVE  /\ Entry(currentSeq + 1, MessageOps(m), m, "fast", TRUE) \in EntryType
         /\ \A f \in Finalized(ToFinalize(m)) :
              /\ DOMAIN f = 1..Len(f) /\ Len(f) \in Nat
              /\ [i \in DOMAIN f |-> Entry(currentSeq + i, <<f[i].op>>, f[i], "slow", i = Len(f))]
                   \in Seq(EntryType)
<1>1. currentSeq \in Nat
  BY DEF TypeOK, CommitTypes
<1>2. m.session \in Sessions /\ m.epoch \in Nat
  BY DEF TypeOK, SessionTypes
<1>3. Entry(currentSeq + 1, MessageOps(m), m, "fast", TRUE) \in EntryType
  <2>1. MessageOps(m) \in Seq(Ops) \ {<<>>}
    BY MessageType DEF TypeOK
  <2> QED
    BY <1>1, <1>2, <2>1 DEF Entry, EntryType
<1>4. ASSUME NEW f \in Finalized(ToFinalize(m))
      PROVE  /\ DOMAIN f = 1..Len(f) /\ Len(f) \in Nat
             /\ [i \in DOMAIN f |-> Entry(currentSeq + i, <<f[i].op>>, f[i], "slow", i = Len(f))]
                  \in Seq(EntryType)
  <2> DEFINE items == ToFinalize(m)
             n == Cardinality(items)
             E(i) == Entry(currentSeq + i, <<f[i].op>>, f[i], "slow", i = Len(f))
  <2>1. /\ IsFiniteSet(items)
        /\ \A p \in items : p.op \in Ops /\ p.session \in Sessions /\ p.epoch \in Nat
    BY ItemTypes DEF TypeOK
  <2>2. n \in Nat
    BY <2>1, FS_CardinalityType
  <2>3. f \in [1..n -> items]
    BY DEF Finalized
  <2>4. DOMAIN f = 1..n /\ Len(f) = n
    <3> HIDE DEF items, n
    <3> QED
      BY <2>2, <2>3
  <2>5. ASSUME NEW i \in 1..n
        PROVE  E(i) \in EntryType
    <3>1. f[i].op \in Ops /\ f[i].session \in Sessions /\ f[i].epoch \in Nat
      BY <2>1, <2>3
    <3>2. <<f[i].op>> \in Seq(Ops) /\ <<f[i].op>> # <<>>
      BY <3>1
    <3>3. currentSeq + i \in Nat \ {0}
      BY <1>1, <2>2
    <3>4. (i = Len(f)) \in BOOLEAN
      OBVIOUS
    <3> QED
      BY <3>1, <3>2, <3>3, <3>4 DEF Entry, EntryType
  <2>6. [i \in 1..n |-> E(i)] \in Seq(EntryType)
    <3> HIDE DEF E, n
    <3> QED
      BY <2>2, <2>5
  <2> QED
    BY <2>2, <2>4, <2>6
<1> QED
  BY <1>3, <1>4

\* Publishing well-typed entries keeps the types.
LEMMA PublishTypes ==
  ASSUME TypeOK, NEW m \in awaiting, NEW entries \in Seq(EntryType), NEW endSeq \in Nat,
         \A i \in DOMAIN entries : entries[i].status = "queued",
         awaiting' = awaiting \ {m}, Publish(m, entries, endSeq)
  PROVE  TypeOK'
<1> USE DEF TypeOK
<1>1. SessionTypes'
  BY DEF SessionTypes, Publish
<1>2. EngineTypes'
  BY AppliedByType, ItemTypes DEF EngineTypes, Publish, rebuildVars
<1>3. FlagTypes'
  BY DEF FlagTypes, Publish, breakerVars, rebuildVars
<1>4. CommitTypes'
  BY DEF CommitTypes, Publish, Reserve, Enqueue
<1>5. DatabaseTypes'
  BY DEF DatabaseTypes, Publish, database
<1>6. ASSUME NEW s \in Sessions PROVE RelayedTo(s, entries) \subseteq Row
  <2>1. \A i \in DOMAIN entries : Rows(entries[i]) \subseteq Row
    BY EntryRows
  <2> QED
    BY <2>1 DEF RelayedTo
<1>7. ClientTypes'
  <2>1. relayed' \in [Sessions -> SUBSET Row]
    BY <1>6 DEF ClientTypes, Publish
  <2>2. known' \in [Sessions -> SUBSET Ops]
    BY <1>6 DEF ClientTypes, Publish, Row
  <2> QED
    BY <2>1, <2>2 DEF ClientTypes, Publish
<1> QED
  BY <1>1, <1>2, <1>3, <1>4, <1>5, <1>7

\* The head of a nonempty queue is an entry, and so is every other position.
LEMMA QueueHead ==
  ASSUME CommitTypes, queue # <<>>
  PROVE  /\ queue[1] \in EntryType
         /\ Tail(queue) \in Seq(EntryType)
         /\ \A i \in DOMAIN queue : queue[i] \in EntryType
         /\ Len(Tail(queue)) = Len(queue) - 1
         /\ \A i \in DOMAIN Tail(queue) : i + 1 \in DOMAIN queue /\ Tail(queue)[i] = queue[i + 1]
BY DEF CommitTypes

\* The outcome of a commit only changes the status of the head.
LEMMA OutcomeTypes ==
  ASSUME CommitTypes, queue # <<>>, NEW status \in {"committed", "failed"}, Outcome(status)
  PROVE  /\ queue' \in Seq(EntryType)
         /\ DOMAIN queue' = DOMAIN queue /\ queue' # <<>>
         /\ queue'[1].status = status
         /\ \A i \in DOMAIN queue :
              /\ queue'[i].start = queue[i].start /\ queue'[i].ops = queue[i].ops
              /\ i > 1 => queue'[i] = queue[i]
<1>1. queue \in Seq(EntryType) /\ 1 \in DOMAIN queue /\ queue[1] \in EntryType
  BY DEF CommitTypes
<1>2. queue' = [queue EXCEPT ![1] = [queue[1] EXCEPT !.status = status]]
  BY DEF Outcome
<1>3. [queue[1] EXCEPT !.status = status] \in EntryType
  BY <1>1 DEF EntryType
<1>4. queue' \in Seq(EntryType) /\ DOMAIN queue' = DOMAIN queue /\ queue' # <<>>
  BY <1>1, <1>2, <1>3
<1>5. /\ queue'[1] = [queue[1] EXCEPT !.status = status]
      /\ \A i \in DOMAIN queue : i > 1 => queue'[i] = queue[i]
  BY <1>1, <1>2
<1>6. /\ queue'[1].status = status
      /\ queue'[1].start = queue[1].start /\ queue'[1].ops = queue[1].ops
  BY <1>1, <1>5 DEF EntryType
<1>7. \A i \in DOMAIN queue : i = 1 \/ i > 1
  BY <1>1
<1> QED
  BY <1>4, <1>5, <1>6, <1>7

\* The rows a transaction writes are rows.
LEMMA StoreTypes ==
  ASSUME DatabaseTypes, NEW e \in EntryType, StoreRows(e)
  PROVE  log' \subseteq Row /\ docSeq' \in Nat
BY EntryRows DEF StoreRows, DatabaseTypes, GreaterOf

\* Every step keeps the types.
LEMMA TypeStep ==
  ASSUME TypeOK, [Next]_vars
  PROVE  TypeOK'
<1> USE DEF TypeOK, sessionVars, engineVars, commitVars, breakerVars, rebuildVars, database,
            clients
<1>1. ASSUME NEW s \in Sessions, Receive(s) PROVE TypeOK'
  <2> DEFINE m == [session |-> s, epoch |-> epoch[s], index |-> next[s]]
  <2>1. next[s] \in 1..Len(Script[s]) /\ epoch[s] \in Nat
    BY <1>1, WritePathAssumption DEF Receive, ClientTypes, SessionTypes
  <2>2. MessageOps(m) \in Seq(Ops)
    BY <2>1, WritePathAssumption DEF MessageOps
  <2>3. ToSet(MessageOps(m)) \subseteq Ops
    BY <2>2 DEF ToSet
  <2>4. SessionTypes'
    BY <1>1, <2>1 DEF SessionTypes, Receive
  <2>5. ClientTypes'
    BY <1>1, <2>1, <2>3 DEF ClientTypes, Receive
  <2> QED
    BY <1>1, <2>4, <2>5 DEF Receive, EngineTypes, FlagTypes, CommitTypes, DatabaseTypes
<1>2. ASSUME NEW s \in Sessions, Leave(s) PROVE TypeOK'
  BY <1>2 DEF Leave, SessionTypes, EngineTypes, FlagTypes, CommitTypes, DatabaseTypes,
              ClientTypes
<1>3. ASSUME NEW s \in Sessions, Join(s) PROVE TypeOK'
  <2>1. SessionTypes'
    BY <1>3 DEF Join, SessionTypes
  <2>2. ClientTypes'
    BY <1>3 DEF Join, ClientTypes, EngineTypes
  <2> QED
    BY <1>3, <2>1, <2>2 DEF Join, EngineTypes, FlagTypes, CommitTypes, DatabaseTypes
<1>4. ASSUME NEW m \in awaiting, Deny(m) PROVE TypeOK'
  <2>1. ToSet(MessageOps(m)) \subseteq Ops
    BY MessageType DEF ToSet
  <2> QED
    BY <1>4, <2>1 DEF Deny, Answers, SessionTypes, EngineTypes, FlagTypes, CommitTypes,
                      DatabaseTypes, ClientTypes
<1>5. ASSUME NEW m \in awaiting, RunFastPath(m) PROVE TypeOK'
  <2> DEFINE entries == <<Entry(currentSeq + 1, MessageOps(m), m, "fast", TRUE)>>
             endSeq == currentSeq + Len(MessageOps(m))
  <2>1. entries \in Seq(EntryType) /\ \A i \in DOMAIN entries : entries[i].status = "queued"
    BY EntryTypes DEF Entry
  <2>2. endSeq \in Nat
    BY MessageType DEF CommitTypes
  <2>3. awaiting' = awaiting \ {m} /\ Publish(m, entries, endSeq)
    BY <1>5 DEF RunFastPath, Answers
  <2> QED
    BY <2>1, <2>2, <2>3, PublishTypes
<1>6. ASSUME NEW m \in awaiting, RunSlowPath(m) PROVE TypeOK'
  <2>1. PICK f \in Finalized(ToFinalize(m)) :
          Publish(m, [i \in DOMAIN f |->
                        Entry(currentSeq + i, <<f[i].op>>, f[i], "slow", i = Len(f))],
                  currentSeq + Len(f))
    BY <1>6 DEF RunSlowPath
  <2> DEFINE entries == [i \in DOMAIN f |->
                           Entry(currentSeq + i, <<f[i].op>>, f[i], "slow", i = Len(f))]
  <2>2. entries \in Seq(EntryType) /\ Len(f) \in Nat
    BY EntryTypes
  <2>3. \A i \in DOMAIN entries : entries[i].status = "queued"
    BY DEF Entry
  <2>4. currentSeq + Len(f) \in Nat
    BY <2>2 DEF CommitTypes
  <2>5. awaiting' = awaiting \ {m}
    BY <1>6 DEF RunSlowPath, Answers
  <2> HIDE DEF entries
  <2> QED
    BY <2>1, <2>2, <2>3, <2>4, <2>5, PublishTypes DEF entries
<1>7. CASE StoreCommits
  <2>1. CommitTypes'
    BY <1>7, OutcomeTypes DEF StoreCommits, HeadQueued, CommitTypes
  <2>2. DatabaseTypes'
    BY <1>7, QueueHead, StoreTypes DEF StoreCommits, HeadQueued, DatabaseTypes
  <2> QED
    BY <1>7, <2>1, <2>2 DEF StoreCommits, SessionTypes, EngineTypes, FlagTypes, ClientTypes
<1>8. CASE StoreFails
  <2>1. CommitTypes'
    BY <1>8, OutcomeTypes DEF StoreFails, HeadQueued, CommitTypes
  <2>2. DatabaseTypes'
    BY <1>8, QueueHead, StoreTypes DEF StoreFails, HeadQueued, DatabaseTypes
  <2> QED
    BY <1>8, <2>1, <2>2 DEF StoreFails, SessionTypes, EngineTypes, FlagTypes, ClientTypes
<1>9. CASE SettleCommit
  <2>1. queue[1] \in EntryType /\ ToSet(queue[1].ops) \subseteq Ops /\ EndSeq(queue[1]) \in Nat
    BY <1>9, QueueHead, EntryRows DEF SettleCommit
  <2>2. CommitTypes'
    BY <1>9, <2>1, QueueHead DEF SettleCommit, CommitTypes, CommittedUpTo
  <2>3. FlagTypes'
    <3>1. ShouldBeTripped \in BOOLEAN
      BY DEF ShouldBeTripped
    <3>2. /\ tripped' = IF Trailing(queue[1]) THEN ShouldBeTripped ELSE tripped
          /\ snapshotInFlight' = snapshotInFlight \/ snapshotInFlight' = TRUE
          /\ UNCHANGED <<frozen, rebuilding>>
      BY <1>9 DEF SettleCommit
    <3> QED
      BY <3>1, <3>2, Zenon DEF FlagTypes
  <2>4. ClientTypes'
    BY <1>9, <2>1 DEF SettleCommit, ClientTypes, Acks
  <2> QED
    BY <1>9, <2>2, <2>3, <2>4 DEF SettleCommit, SessionTypes, EngineTypes, DatabaseTypes
<1>10. CASE WriteSnapshot
  <2>1. DatabaseTypes'
    BY <1>10 DEF WriteSnapshot, SnapshotRow, DatabaseTypes, CommitTypes, EngineTypes
  <2> QED
    BY <1>10, <2>1 DEF WriteSnapshot, SessionTypes, EngineTypes, FlagTypes, CommitTypes,
                       ClientTypes
<1>11. CASE Sweep
  <2>1. Swept \subseteq pending
    BY DEF Swept
  <2>2. IsFiniteSet(Swept)
    BY <2>1, FS_Subset DEF EngineTypes
  <2>3. EngineTypes'
    BY <1>11, <2>1, <2>2 DEF Sweep, EngineTypes, Older
  <2>4. ClientTypes'
    BY <1>11 DEF Sweep, ClientTypes, EngineTypes
  <2> QED
    BY <1>11, <2>3, <2>4 DEF Sweep, SessionTypes, FlagTypes, CommitTypes, DatabaseTypes
<1>12. CASE Freeze \/ Unfreeze
  BY <1>12 DEF Freeze, Unfreeze, SessionTypes, EngineTypes, FlagTypes, CommitTypes,
               DatabaseTypes, ClientTypes
<1>13. CASE RebuildRead
  <2>1. Logged \subseteq Ops
    BY DEF Logged, DatabaseTypes, Row
  <2> QED
    BY <1>13, <2>1 DEF RebuildRead, SessionTypes, EngineTypes, FlagTypes, CommitTypes,
                       DatabaseTypes, ClientTypes
<1>14. CASE RebuildSwap
  <2>1. Resolved({}, rebuildLog) \subseteq Ops /\ PendingOps \subseteq Ops
    BY ResolvedSubset DEF EngineTypes, PendingOps
  <2>2. EngineTypes'
    BY <1>14, <2>1, FS_EmptySet DEF RebuildSwap, EngineTypes
  <2>3. ClientTypes' /\ SessionTypes'
    BY <1>14, <2>1 DEF RebuildSwap, ClientTypes, SessionTypes
  <2> QED
    BY <1>14, <2>2, <2>3 DEF RebuildSwap, FlagTypes, CommitTypes, DatabaseTypes
<1>15. CASE Crash
  <2>1. InFlight \subseteq Ops
    <3>1. \A m \in awaiting : ToSet(MessageOps(m)) \subseteq Ops
      BY MessageType DEF ToSet, Indices
    <3>2. \A i \in DOMAIN queue : ToSet(queue[i].ops) \subseteq Ops
      BY QueueHead, EntryRows
    <3>3. PendingOps \subseteq Ops
      BY DEF PendingOps, EngineTypes
    <3>4. UNION {ToSet(MessageOps(m)) : m \in awaiting} \subseteq Ops
      BY <3>1
    <3>5. UNION {ToSet(queue[i].ops) : i \in DOMAIN queue} \subseteq Ops
      BY <3>2
    <3> QED
      BY <3>3, <3>4, <3>5 DEF InFlight
  <2>2. EngineTypes'
    BY <1>15, FS_EmptySet DEF Crash, EngineTypes
  <2>3. ClientTypes' /\ SessionTypes'
    BY <1>15, <2>1 DEF Crash, ClientTypes, SessionTypes
  <2>4. CommitTypes'
    BY <1>15 DEF Crash, CommitTypes
  <2> QED
    BY <1>15, <2>2, <2>3, <2>4 DEF Crash, FlagTypes, DatabaseTypes
<1>16. CASE WarmStart
  <2>1. Replayed \subseteq Ops
    <3>1. LatestOps \subseteq Ops /\ Suffix \subseteq Ops
      BY DEF LatestOps, Suffix, DatabaseTypes, Row
    <3> QED
      BY <3>1, ResolvedSubset DEF Replayed
  <2>2. EngineTypes'
    BY <1>16, <2>1 DEF WarmStart, EngineTypes
  <2>3. CommitTypes' /\ SessionTypes'
    BY <1>16 DEF WarmStart, CommitTypes, SessionTypes, DatabaseTypes
  <2> QED
    BY <1>16, <2>2, <2>3 DEF WarmStart, FlagTypes, DatabaseTypes, ClientTypes
<1>17. CASE UNCHANGED vars
  BY <1>17 DEF vars, SessionTypes, EngineTypes, FlagTypes, CommitTypes, DatabaseTypes,
               ClientTypes
<1> QED
  BY <1>1, <1>2, <1>3, <1>4, <1>5, <1>6, <1>7, <1>8, <1>9, <1>10, <1>11, <1>12, <1>13,
     <1>14, <1>15, <1>16, <1>17 DEF Next

\* The types of the initial states.
LEMMA TypeInit == Init => TypeOK
<1> SUFFICES ASSUME Init PROVE TypeOK
  OBVIOUS
<1>1. SessionTypes /\ CommitTypes
  BY DEF Init, SessionTypes, CommitTypes
<1>2. EngineTypes
  BY FS_EmptySet DEF Init, EngineTypes
<1>3. FlagTypes
  BY DEF Init, FlagTypes
<1>4. DatabaseTypes /\ ClientTypes
  BY DEF Init, DatabaseTypes, ClientTypes
<1> QED
  BY <1>1, <1>2, <1>3, <1>4 DEF TypeOK

\* The types of every variable, along every behaviour of the write path.
THEOREM TypeCorrect == Spec => []TypeOK
<1>1. TypeOK /\ [Next]_vars => TypeOK'
  BY TypeStep
<1> QED
  BY <1>1, TypeInit, PTL DEF Spec

-----------------------------------------------------------------------------
(* Sequence numbers and durability.  AckedDurable is not inductive: that the *)
(* rows of a committed entry are in the log rests on its sequence numbers    *)
(* being free when it is stored, hence on the order of the whole queue and   *)
(* on where a restart resumes.                                               *)

DurabilityInv == TypeOK /\ SeqDiscipline /\ CommittedLogged /\ AckedDurable

\* Steps that touch neither the queue nor the log nor the counters.
LEMMA DurabilityFrame ==
  ASSUME SeqDiscipline, CommittedLogged, AckedDurable,
         UNCHANGED <<phase, queue, currentSeq, lastCommittedSeq, log, docSeq, acked>>
  PROVE  SeqDiscipline' /\ CommittedLogged' /\ AckedDurable'
BY DEF SeqDiscipline, CommittedLogged, AckedDurable, Logged

\* Entries above currentSeq may be queued.
LEMMA DurabilityPublish ==
  ASSUME DurabilityInv, phase = "up",
         NEW m, NEW entries \in Seq(EntryType), NEW endSeq \in Nat,
         Publish(m, entries, endSeq), currentSeq <= endSeq,
         \A i \in DOMAIN entries :
           /\ entries[i].status = "queued"
           /\ currentSeq < entries[i].start /\ EndSeq(entries[i]) <= endSeq
           /\ \A j \in DOMAIN entries : i < j => EndSeq(entries[i]) < entries[j].start
  PROVE  SeqDiscipline' /\ CommittedLogged' /\ AckedDurable'
<1>1. /\ queue \in Seq(EntryType) /\ currentSeq \in Nat /\ lastCommittedSeq \in Nat
      /\ docSeq \in Nat /\ \A r \in log : r.seq \in Nat
  BY DEF DurabilityInv, TypeOK, CommitTypes, DatabaseTypes, Row
<1>2. /\ UNCHANGED <<phase, lastCommittedSeq, log, docSeq, acked>>
      /\ currentSeq' = endSeq /\ queue' = queue \o entries
  BY DEF Publish, Reserve, Enqueue, database
<1>3. \A e \in EntryType : EndSeq(e) \in Nat /\ e.start \in Nat
  BY EntryRows DEF EntryType
<1>4. /\ \A i \in DOMAIN queue : queue[i] \in EntryType
      /\ \A i \in DOMAIN entries : entries[i] \in EntryType
  BY <1>1
<1>5. \A i \in DOMAIN queue' :
        \/ i \in DOMAIN queue /\ queue'[i] = queue[i]
        \/ /\ i > Len(queue) /\ i - Len(queue) \in DOMAIN entries
           /\ queue'[i] = entries[i - Len(queue)]
  BY <1>1, <1>2
<1>6. \A i \in DOMAIN queue' : i \in Nat /\ (i \in DOMAIN queue <=> i <= Len(queue))
  BY <1>1, <1>2
<1>7. SeqDiscipline
  BY DEF DurabilityInv
<1>8. \A i \in DOMAIN queue' :
        /\ lastCommittedSeq < queue'[i].start
        /\ EndSeq(queue'[i]) <= endSeq
        /\ queue'[i].status = "queued" => \A r \in log : r.seq < queue'[i].start
  BY <1>1, <1>3, <1>4, <1>5, <1>7 DEF SeqDiscipline
<1>9. ASSUME NEW i \in DOMAIN queue', NEW j \in DOMAIN queue', i < j
      PROVE  EndSeq(queue'[i]) < queue'[j].start
  <2>1. CASE i \in DOMAIN queue /\ j \in DOMAIN queue
    BY <1>5, <1>6, <1>7, <1>9, <2>1 DEF SeqDiscipline
  <2>2. CASE i \in DOMAIN queue /\ j \notin DOMAIN queue
    <3>1. queue'[i] = queue[i] /\ EndSeq(queue[i]) <= currentSeq /\ EndSeq(queue[i]) \in Nat
      BY <1>3, <1>4, <1>5, <1>6, <1>7, <2>2 DEF SeqDiscipline
    <3>2. j - Len(queue) \in DOMAIN entries /\ queue'[j] = entries[j - Len(queue)]
      BY <1>5, <2>2
    <3>3. currentSeq < entries[j - Len(queue)].start /\ entries[j - Len(queue)].start \in Nat
      BY <1>3, <1>4, <3>2
    <3> QED
      BY <1>1, <3>1, <3>2, <3>3
  <2>3. CASE i \notin DOMAIN queue
    <3>1. /\ i - Len(queue) \in DOMAIN entries /\ queue'[i] = entries[i - Len(queue)]
          /\ j - Len(queue) \in DOMAIN entries /\ queue'[j] = entries[j - Len(queue)]
      BY <1>1, <1>5, <1>6, <1>9, <2>3
    <3>2. i - Len(queue) < j - Len(queue)
      BY <1>1, <1>6, <1>9
    <3> QED
      BY <3>1, <3>2
  <2> QED
    BY <2>1, <2>2, <2>3
<1>10. \A i \in DOMAIN queue' :
         queue'[i].status = "committed" => i \in DOMAIN queue /\ queue'[i] = queue[i]
  BY <1>5
<1>11. SeqDiscipline'
  <2>1. endSeq \in Nat /\ docSeq <= endSeq /\ lastCommittedSeq <= endSeq
    BY <1>1, <1>7 DEF SeqDiscipline
  <2>2. \A r \in log : r.seq <= docSeq
    BY <1>7 DEF SeqDiscipline
  <2> QED
    BY <1>2, <1>8, <1>9, <2>1, <2>2 DEF SeqDiscipline, EndSeq
<1>12. CommittedLogged' /\ AckedDurable'
  <2>1. Logged' = Logged
    BY <1>2 DEF Logged
  <2>2. \A i \in DOMAIN queue' :
          queue'[i].status = "committed" => ToSet(queue'[i].ops) \subseteq Logged
    BY <1>10 DEF DurabilityInv, CommittedLogged
  <2> QED
    BY <1>2, <2>1, <2>2 DEF DurabilityInv, CommittedLogged, AckedDurable
<1> QED
  BY <1>11, <1>12

\* Storing the head adds rows numbered above the log and the last promise, and
\* leaves every operation of the head logged.
LEMMA StoreHead ==
  ASSUME DurabilityInv, HeadQueued, StoreRows(queue[1])
  PROVE  /\ ToSet(queue[1].ops) \subseteq Logged' /\ Logged \subseteq Logged'
         /\ \A r \in log' : \/ r \in log
                            \/ /\ lastCommittedSeq < queue[1].start /\ queue[1].start <= r.seq
                               /\ r.seq <= EndSeq(queue[1])
         /\ docSeq' \in Nat /\ docSeq <= docSeq' /\ EndSeq(queue[1]) <= docSeq'
         /\ docSeq' <= currentSeq
<1> DEFINE e == queue[1]
<1>1. e \in EntryType /\ 1 \in DOMAIN queue
  BY QueueHead DEF HeadQueued, DurabilityInv, TypeOK, CommitTypes
<1>2. /\ \A r \in log : r.seq < e.start
      /\ lastCommittedSeq < e.start
      /\ EndSeq(e) <= currentSeq /\ docSeq <= currentSeq
  BY <1>1 DEF HeadQueued, DurabilityInv, SeqDiscipline
<1>3. /\ docSeq \in Nat /\ currentSeq \in Nat /\ e.start \in Nat /\ EndSeq(e) \in Nat
      /\ \A r \in log : r.seq \in Nat
  BY <1>1, EntryRows DEF DurabilityInv, TypeOK, CommitTypes, DatabaseTypes, Row, EntryType
<1>4. /\ Rows(e) \subseteq Row
      /\ \A r \in Rows(e) : e.start <= r.seq /\ r.seq <= EndSeq(e)
      /\ \A o \in ToSet(e.ops) : \E r \in Rows(e) : r.op = o
  BY <1>1, EntryRows
<1>5. log' = log \cup {r \in Rows(e) : \A q \in log : q.seq # r.seq /\ q.op # r.op}
  BY DEF StoreRows
<1>6. \A r \in Rows(e), q \in log : q.seq # r.seq
  BY <1>2, <1>3, <1>4 DEF Row
<1>7. ASSUME NEW o \in ToSet(e.ops) PROVE o \in Logged'
  <2>1. PICK r \in Rows(e) : r.op = o
    BY <1>4
  <2>2. CASE \E q \in log : q.op = o
    BY <1>5, <2>2 DEF Logged
  <2>3. CASE \A q \in log : q.op # o
    <3>1. r \in log'
      BY <1>5, <1>6, <2>1, <2>3
    <3> QED
      BY <2>1, <3>1 DEF Logged
  <2> QED
    BY <2>2, <2>3
<1>8. Logged \subseteq Logged'
  BY <1>5 DEF Logged
<1>9. docSeq' = GreaterOf(docSeq, EndSeq(e))
  BY DEF StoreRows
<1> HIDE DEF e
<1>10. /\ docSeq' \in Nat /\ docSeq <= docSeq' /\ EndSeq(e) <= docSeq'
       /\ docSeq' <= currentSeq
  BY <1>2, <1>3, <1>9 DEF GreaterOf
<1> QED
  BY <1>2, <1>4, <1>5, <1>7, <1>8, <1>10 DEF e

\* The outcome of the head, with or without its rows, keeps the discipline.
LEMMA DurabilityOutcome ==
  ASSUME DurabilityInv, HeadQueued, NEW status \in {"committed", "failed"}, Outcome(status),
         UNCHANGED <<phase, currentSeq, lastCommittedSeq, acked>>,
         StoreRows(queue[1]) \/ (status = "failed" /\ UNCHANGED <<log, docSeq>>)
  PROVE  SeqDiscipline' /\ CommittedLogged' /\ AckedDurable'
<1>1. /\ DOMAIN queue' = DOMAIN queue /\ queue # <<>> /\ 1 \in DOMAIN queue
      /\ queue'[1].status = status
      /\ \A i \in DOMAIN queue :
           /\ queue'[i].start = queue[i].start /\ queue'[i].ops = queue[i].ops
           /\ i > 1 => queue'[i] = queue[i]
           /\ i = 1 \/ i > 1
  BY OutcomeTypes DEF DurabilityInv, TypeOK, CommitTypes, HeadQueued
<1>2. \A i \in DOMAIN queue : EndSeq(queue'[i]) = EndSeq(queue[i])
  BY <1>1 DEF EndSeq
<1>3. /\ \A i \in DOMAIN queue : queue[i].start \in Nat /\ EndSeq(queue[i]) \in Nat
      /\ docSeq \in Nat /\ currentSeq \in Nat /\ \A r \in log : r.seq \in Nat
  <2>1. \A i \in DOMAIN queue : queue[i] \in EntryType
    BY DEF DurabilityInv, TypeOK, CommitTypes
  <2> QED
    BY <2>1, EntryRows DEF EntryType, DurabilityInv, TypeOK, CommitTypes, DatabaseTypes, Row
<1>4. /\ \A r \in log' : r.seq \in Nat
      /\ \A r \in log' : r \in log \/ r.seq <= EndSeq(queue[1])
      /\ docSeq' <= currentSeq /\ \A r \in log' : r.seq <= docSeq'
  <2>1. CASE StoreRows(queue[1])
    <3>1. \A r \in log' : r.seq \in Nat
      BY <2>1, QueueHead, StoreTypes, <1>1 DEF DurabilityInv, TypeOK, Row
    <3>2. \A r \in log : r.seq <= docSeq
      BY DEF DurabilityInv, SeqDiscipline
    <3>3. /\ \A r \in log' : r \in log \/ r.seq <= EndSeq(queue[1])
          /\ docSeq' \in Nat /\ docSeq <= docSeq' /\ EndSeq(queue[1]) <= docSeq'
          /\ docSeq' <= currentSeq
      BY <2>1, StoreHead
    <3> QED
      BY <1>1, <1>3, <3>1, <3>2, <3>3
  <2>2. CASE UNCHANGED <<log, docSeq>>
    BY <1>3, <2>2 DEF DurabilityInv, SeqDiscipline, HeadQueued
  <2> QED
    BY <2>1, <2>2
<1>5. ASSUME NEW i \in DOMAIN queue, queue'[i].status = "queued", NEW r \in log'
      PROVE  r.seq < queue[i].start
  <2>1. i > 1 /\ queue[i].status = "queued"
    BY <1>1, <1>5
  <2>2. EndSeq(queue[1]) < queue[i].start
    BY <1>1, <2>1 DEF DurabilityInv, SeqDiscipline
  <2>3. \A q \in log : q.seq < queue[i].start
    BY <2>1 DEF DurabilityInv, SeqDiscipline
  <2> QED
    BY <1>1, <1>3, <1>4, <2>2, <2>3
<1>6. SeqDiscipline'
  <2>1. /\ phase = "up" /\ phase' = "up" /\ lastCommittedSeq <= currentSeq
        /\ \A i \in DOMAIN queue :
             /\ lastCommittedSeq < queue[i].start
             /\ EndSeq(queue[i]) <= currentSeq
             /\ \A j \in DOMAIN queue : i < j => EndSeq(queue[i]) < queue[j].start
    BY DEF DurabilityInv, SeqDiscipline, HeadQueued
  <2>2. \A i \in DOMAIN queue' :
          /\ lastCommittedSeq' < queue'[i].start
          /\ EndSeq(queue'[i]) <= currentSeq'
          /\ \A j \in DOMAIN queue' : i < j => EndSeq(queue'[i]) < queue'[j].start
          /\ queue'[i].status = "queued" => \A r \in log' : r.seq < queue'[i].start
    BY <1>1, <1>2, <1>5, <2>1
  <2> QED
    BY <1>4, <2>1, <2>2 DEF SeqDiscipline
<1>7. Logged \subseteq Logged'
  BY StoreHead DEF Logged
<1>8. CommittedLogged'
  <2>1. ASSUME NEW i \in DOMAIN queue', queue'[i].status = "committed"
        PROVE  ToSet(queue'[i].ops) \subseteq Logged'
    <3>1. CASE i = 1
      BY <1>1, <2>1, <3>1, StoreHead
    <3>2. CASE i > 1
      BY <1>1, <1>7, <2>1, <3>2 DEF DurabilityInv, CommittedLogged
    <3> QED
      BY <1>1, <3>1, <3>2
  <2> QED
    BY <2>1 DEF CommittedLogged
<1>9. AckedDurable'
  BY <1>7 DEF DurabilityInv, AckedDurable
<1> QED
  BY <1>6, <1>8, <1>9

\* Settling the head moves the promise to its end, below the rest of the queue.
LEMMA DurabilitySettle ==
  ASSUME DurabilityInv, SettleCommit
  PROVE  SeqDiscipline' /\ CommittedLogged' /\ AckedDurable'
<1> DEFINE e == queue[1]
<1>1. /\ queue # <<>> /\ 1 \in DOMAIN queue
      /\ \A i \in DOMAIN queue : queue[i] \in EntryType
      /\ \A i \in DOMAIN queue' : i \in Nat /\ i + 1 \in DOMAIN queue /\ i + 1 > 1
                                  /\ queue'[i] = queue[i + 1]
  BY QueueHead DEF SettleCommit, DurabilityInv, TypeOK, CommitTypes
<1>2. /\ UNCHANGED <<phase, currentSeq, log, docSeq>> /\ phase = "up"
      /\ lastCommittedSeq' = CommittedUpTo(e)
      /\ acked' = acked \cup Acks(e)
  BY DEF SettleCommit, database
<1>3. /\ \A i \in DOMAIN queue : queue[i].start \in Nat /\ EndSeq(queue[i]) \in Nat
      /\ currentSeq \in Nat /\ lastCommittedSeq \in Nat
  BY <1>1, EntryRows DEF EntryType, DurabilityInv, TypeOK, CommitTypes
<1>4. SeqDiscipline
  BY DEF DurabilityInv
<1>5. /\ lastCommittedSeq' <= currentSeq
      /\ \A i \in DOMAIN queue' : lastCommittedSeq' < queue'[i].start
  BY <1>1, <1>2, <1>3, <1>4 DEF SeqDiscipline, CommittedUpTo
<1>6. \A i \in DOMAIN queue' :
        /\ EndSeq(queue'[i]) <= currentSeq
        /\ \A j \in DOMAIN queue' : i < j => EndSeq(queue'[i]) < queue'[j].start
        /\ queue'[i].status = "queued" => \A r \in log : r.seq < queue'[i].start
  BY <1>1, <1>4 DEF SeqDiscipline
<1>7. SeqDiscipline'
  BY <1>2, <1>4, <1>5, <1>6 DEF SeqDiscipline
<1>8. Logged' = Logged
  BY <1>2 DEF Logged
<1>9. CommittedLogged'
  BY <1>1, <1>8 DEF DurabilityInv, CommittedLogged
<1>10. AckedDurable'
  BY <1>1, <1>2, <1>8 DEF DurabilityInv, CommittedLogged, AckedDurable, Acks
<1> QED
  BY <1>7, <1>9, <1>10

\* Every step keeps DurabilityInv, and adds rows above lastCommittedSeq only.
LEMMA DurabilityStep ==
  ASSUME DurabilityInv, [Next]_vars
  PROVE  DurabilityInv' /\ \A r \in log' \ log : r.seq > lastCommittedSeq
<1> DEFINE Goal == /\ SeqDiscipline' /\ CommittedLogged' /\ AckedDurable'
                   /\ \A r \in log' \ log : r.seq > lastCommittedSeq
<1>0. TypeOK /\ TypeOK' /\ SeqDiscipline /\ CommittedLogged /\ AckedDurable
  BY TypeStep DEF DurabilityInv
<1> SUFFICES Goal
  BY <1>0 DEF DurabilityInv
<1>1. CASE UNCHANGED <<phase, queue, currentSeq, lastCommittedSeq, log, docSeq, acked>>
  <2>1. SeqDiscipline' /\ CommittedLogged' /\ AckedDurable'
    BY <1>0, <1>1, DurabilityFrame
  <2> QED
    BY <1>1, <2>1
<1>2. ASSUME NEW m \in awaiting, RunFastPath(m) PROVE Goal
  <2> DEFINE n == Len(MessageOps(m))
             entries == <<Entry(currentSeq + 1, MessageOps(m), m, "fast", TRUE)>>
  <2>1. currentSeq \in Nat /\ n \in Nat \ {0}
    BY <1>0, MessageType DEF TypeOK, CommitTypes
  <2>2. entries \in Seq(EntryType)
    <3> DEFINE x == Entry(currentSeq + 1, MessageOps(m), m, "fast", TRUE)
    <3>1. x \in EntryType
      BY <1>0, EntryTypes
    <3> HIDE DEF x
    <3>2. <<x>> \in Seq(EntryType)
      BY <3>1
    <3> QED
      BY <3>2 DEF x
  <2>3. DOMAIN entries = {1} /\ entries[1].status = "queued"
        /\ entries[1].start = currentSeq + 1 /\ EndSeq(entries[1]) = currentSeq + n
    BY <2>1 DEF Entry, EndSeq
  <2>4. phase = "up" /\ Publish(m, entries, currentSeq + n) /\ log' = log
    BY <1>2 DEF RunFastPath, Answers, Publish, database
  <2> HIDE DEF entries, n
  <2>5. /\ currentSeq + n \in Nat /\ currentSeq <= currentSeq + n
        /\ \A i \in DOMAIN entries :
             /\ entries[i].status = "queued"
             /\ currentSeq < entries[i].start /\ EndSeq(entries[i]) <= currentSeq + n
             /\ \A j \in DOMAIN entries : i < j => EndSeq(entries[i]) < entries[j].start
    BY <2>1, <2>3
  <2>6. SeqDiscipline' /\ CommittedLogged' /\ AckedDurable'
    BY <2>2, <2>4, <2>5, DurabilityPublish
  <2> QED
    BY <2>4, <2>6
<1>3. ASSUME NEW m \in awaiting, RunSlowPath(m) PROVE Goal
  <2>1. PICK f \in Finalized(ToFinalize(m)) :
          Publish(m, [i \in DOMAIN f |->
                        Entry(currentSeq + i, <<f[i].op>>, f[i], "slow", i = Len(f))],
                  currentSeq + Len(f))
    BY <1>3 DEF RunSlowPath
  <2> DEFINE entries == [i \in DOMAIN f |->
                           Entry(currentSeq + i, <<f[i].op>>, f[i], "slow", i = Len(f))]
  <2>2. entries \in Seq(EntryType) /\ Len(f) \in Nat /\ DOMAIN f = 1..Len(f)
    BY <1>0, EntryTypes
  <2>3. currentSeq \in Nat
    BY <1>0 DEF TypeOK, CommitTypes
  <2>4. \A i \in DOMAIN entries :
          /\ i \in 1..Len(f) /\ entries[i].status = "queued"
          /\ entries[i].start = currentSeq + i /\ EndSeq(entries[i]) = currentSeq + i
    <3> SUFFICES ASSUME NEW i \in 1..Len(f)
                 PROVE  /\ entries[i].status = "queued"
                        /\ entries[i].start = currentSeq + i
                        /\ EndSeq(entries[i]) = currentSeq + i
      BY <2>2
    <3>1. entries[i] = Entry(currentSeq + i, <<f[i].op>>, f[i], "slow", i = Len(f))
      BY <2>2
    <3> QED
      BY <2>3, <3>1 DEF Entry, EndSeq
  <2>5. phase = "up" /\ log' = log
    BY <1>3, <2>1 DEF RunSlowPath, Answers, Publish, database
  <2>6. Publish(m, entries, currentSeq + Len(f))
    BY <2>1
  <2> HIDE DEF entries
  <2>7. /\ currentSeq + Len(f) \in Nat /\ currentSeq <= currentSeq + Len(f)
        /\ \A i \in DOMAIN entries :
             /\ entries[i].status = "queued"
             /\ currentSeq < entries[i].start /\ EndSeq(entries[i]) <= currentSeq + Len(f)
             /\ \A j \in DOMAIN entries : i < j => EndSeq(entries[i]) < entries[j].start
    BY <2>2, <2>3, <2>4
  <2>8. SeqDiscipline' /\ CommittedLogged' /\ AckedDurable'
    BY <2>2, <2>5, <2>6, <2>7, DurabilityPublish
  <2> QED
    BY <2>5, <2>8
<1>4. CASE StoreCommits
  <2>1. /\ HeadQueued /\ StoreRows(queue[1]) /\ Outcome("committed")
        /\ UNCHANGED <<phase, currentSeq, lastCommittedSeq, acked>>
    BY <1>4 DEF StoreCommits, clients
  <2>2. SeqDiscipline' /\ CommittedLogged' /\ AckedDurable'
    BY <2>1, DurabilityOutcome
  <2>3. \A r \in log' \ log : r.seq > lastCommittedSeq
    <3>1. queue[1].start \in Nat /\ lastCommittedSeq \in Nat /\ \A r \in log' : r.seq \in Nat
      BY <1>0, <2>1, QueueHead DEF TypeOK, CommitTypes, DatabaseTypes, HeadQueued, EntryType, Row
    <3> QED
      BY <2>1, <3>1, StoreHead
  <2> QED
    BY <2>2, <2>3
<1>5. CASE StoreFails
  <2>1. /\ HeadQueued /\ (StoreRows(queue[1]) \/ UNCHANGED <<log, docSeq>>)
        /\ Outcome("failed") /\ UNCHANGED <<phase, currentSeq, lastCommittedSeq, acked>>
    BY <1>5 DEF StoreFails, clients
  <2>2. SeqDiscipline' /\ CommittedLogged' /\ AckedDurable'
    BY <2>1, DurabilityOutcome
  <2>3. \A r \in log' \ log : r.seq > lastCommittedSeq
    <3>1. queue[1].start \in Nat /\ lastCommittedSeq \in Nat /\ \A r \in log' : r.seq \in Nat
      BY <1>0, <2>1, QueueHead DEF TypeOK, CommitTypes, DatabaseTypes, HeadQueued, EntryType, Row
    <3> QED
      BY <2>1, <3>1, StoreHead
  <2> QED
    BY <2>2, <2>3
<1>6. CASE SettleCommit
  <2>1. log' = log
    BY <1>6 DEF SettleCommit, database
  <2> QED
    BY <1>6, <2>1, DurabilitySettle
<1>7. CASE Crash
  BY <1>0, <1>7 DEF Crash, database, SeqDiscipline, CommittedLogged, AckedDurable, Logged
<1>8. CASE WarmStart
  <2>1. /\ queue = <<>> /\ queue' = <<>> /\ UNCHANGED <<log, docSeq, acked>>
        /\ docSeq \in Nat
        /\ \/ currentSeq' = docSeq /\ lastCommittedSeq' = docSeq
           \/ phase' = "failed" /\ UNCHANGED <<currentSeq, lastCommittedSeq>>
    BY <1>0, <1>8 DEF WarmStart, database, clients, SeqDiscipline, TypeOK, DatabaseTypes
  <2> QED
    BY <1>0, <2>1 DEF SeqDiscipline, CommittedLogged, AckedDurable, Logged
<1> USE DEF sessionVars, engineVars, commitVars, breakerVars, rebuildVars, database, clients
<1>9. ASSUME NEW s \in Sessions, Receive(s) \/ Leave(s) \/ Join(s)
      PROVE  UNCHANGED <<phase, queue, currentSeq, lastCommittedSeq, log, docSeq, acked>>
  BY <1>9 DEF Receive, Leave, Join
<1>10. ASSUME NEW m \in awaiting, Deny(m)
       PROVE  UNCHANGED <<phase, queue, currentSeq, lastCommittedSeq, log, docSeq, acked>>
  BY <1>10 DEF Deny
<1>11. ASSUME WriteSnapshot \/ Sweep \/ Freeze \/ Unfreeze \/ RebuildRead \/ RebuildSwap
              \/ UNCHANGED vars
       PROVE  UNCHANGED <<phase, queue, currentSeq, lastCommittedSeq, log, docSeq, acked>>
  BY <1>11 DEF WriteSnapshot, Sweep, Freeze, Unfreeze, RebuildRead, RebuildSwap, vars
<1> HIDE DEF Goal
<1> QED
  BY <1>1, <1>2, <1>3, <1>4, <1>5, <1>6, <1>7, <1>8, <1>9, <1>10, <1>11 DEF Next

\* Nothing is acknowledged at first.
LEMMA DurabilityInit ==
  ASSUME Init
  PROVE  SeqDiscipline /\ CommittedLogged /\ AckedDurable
BY DEF Init, SeqDiscipline, CommittedLogged, AckedDurable

\* Along every behaviour: crashes, restarts, failed and half-failed commits,
\* rebuilds and reordered authorizations included.
LEMMA DurabilityInvariant == Spec => []DurabilityInv
<1>1. Init => DurabilityInv
  <2>1. Init => TypeOK
    BY TypeInit
  <2> QED
    BY <2>1, DurabilityInit DEF DurabilityInv
<1>2. DurabilityInv /\ [Next]_vars => DurabilityInv'
  BY DurabilityStep
<1> QED
  BY <1>1, <1>2, PTL DEF Spec

\* An operation whose sender was told it is saved is in the operations table.
THEOREM AckedIsDurable == Spec => []AckedDurable
<1>1. DurabilityInv => AckedDurable
  BY DEF DurabilityInv
<1> QED
  BY <1>1, DurabilityInvariant, PTL

\* Sequence numbers are reserved, queued and stored in one increasing order, so
\* that no row is ever skipped because its number is taken.
THEOREM SequenceDiscipline == Spec => []SeqDiscipline
<1>1. DurabilityInv => SeqDiscipline
  BY DEF DurabilityInv
<1> QED
  BY <1>1, DurabilityInvariant, PTL

\* Rows land above lastCommittedSeq: a catch-up answered up to it was complete
\* for good, as far as rows that will ever exist are concerned.
THEOREM CatchupBoundIsStable == Spec => CatchupBoundStable
<1>1. DurabilityInv /\ [Next]_vars => [\A r \in log' \ log : r.seq > lastCommittedSeq]_vars
  BY DurabilityStep
<1> QED
  BY <1>1, DurabilityInvariant, PTL DEF Spec, CatchupBoundStable

-----------------------------------------------------------------------------
(* Lemmas about the operators of the model *)

\* A finite set on which a number is defined has an element where it is greatest.
LEMMA GreatestExists ==
  ASSUME NEW S, IsFiniteSet(S), S # {}, NEW f \in [S -> Int]
  PROVE  \E n \in S : \A x \in S : f[x] <= f[n]
<1> DEFINE Greatest(T, n) == n \in T /\ \A x \in T : f[x] <= f[n]
           Bad == {T \in FiniteSubsetsOf(S) : T # {} /\ \A n \in T : ~Greatest(T, n)}
<1>1. SUFFICES ASSUME Bad # {} PROVE FALSE
  <2>1. S \in FiniteSubsetsOf(S)
    BY DEF FiniteSubsetsOf
  <2> QED
    BY <2>1
<1>2. Bad \subseteq FiniteSubsetsOf(S)
  OBVIOUS
<1>3. PICK T \in Bad : \A U \in Bad : <<U, T>> \notin StrictSubsetOrdering(S)
  <2> HIDE DEF Bad
  <2> QED
    BY <1>1, <1>2, FS_StrictSubsetOrderingWellFounded, WFMin
<1>4. T \subseteq S /\ IsFiniteSet(T) /\ T # {} /\ \A n \in T : ~Greatest(T, n)
  BY DEF FiniteSubsetsOf
<1>5. PICK y \in T : TRUE
  BY <1>4
<1>6. T \ {y} \in FiniteSubsetsOf(S) /\ <<T \ {y}, T>> \in StrictSubsetOrdering(S)
  BY <1>4, FS_Subset DEF FiniteSubsetsOf, StrictSubsetOrdering
<1>7. T \ {y} \notin Bad
  BY <1>3, <1>6
<1>8. CASE T \ {y} = {}
  <2>1. T = {y} /\ f[y] \in Int
    BY <1>4, <1>5, <1>8
  <2>2. Greatest(T, y)
    BY <2>1
  <2> QED
    BY <1>4, <1>5, <2>2
<1>9. CASE T \ {y} # {}
  <2>1. PICK n \in T \ {y} : \A x \in T \ {y} : f[x] <= f[n]
    BY <1>6, <1>7, <1>9
  <2>2. \A x \in T : f[x] \in Int
    BY <1>4
  <2>3. CASE f[y] <= f[n]
    <3>1. Greatest(T, n)
      BY <2>1, <2>3
    <3> QED
      BY <1>4, <3>1
  <2>4. CASE ~(f[y] <= f[n])
    <3>1. Greatest(T, y)
      BY <2>1, <2>2, <2>4
    <3> QED
      BY <1>4, <1>5, <3>1
  <2> QED
    BY <2>3, <2>4
<1> QED
  BY <1>8, <1>9

\* drain() leaves nothing behind that could be applied: an operation that waited
\* and whose dependency is applied, or becomes so, is applied.
LEMMA ResolvedMaximal ==
  ASSUME NEW A, NEW P, NEW o \in P, Dep[o] \in A \cup Resolved(A, P) \cup {NoOp}
  PROVE  o \in Resolved(A, P)
<1> DEFINE R == Resolved(A, P)
           S == R \cup {o}
<1>1. \A x \in R : Dep[x] \in A \cup R \cup {NoOp}
  BY DEF Resolved
<1>2. S \in SUBSET P /\ \A x \in S : Dep[x] \in A \cup S \cup {NoOp}
  BY <1>1, ResolvedSubset
<1>3. S \subseteq R
  <2> HIDE DEF S
  <2> QED
    BY <1>2 DEF Resolved
<1> QED
  BY <1>3

\* What drain() applies refers to something applied.
LEMMA ResolvedClosed ==
  ASSUME NEW A, NEW P, NEW o \in Resolved(A, P)
  PROVE  Dep[o] \in A \cup Resolved(A, P) \cup {NoOp}
BY DEF Resolved

\* A set that needs nothing from outside is applied as a whole.
LEMMA ResolvedGreatest ==
  ASSUME NEW A, NEW P, NEW S \in SUBSET P, \A o \in S : Dep[o] \in A \cup S \cup {NoOp}
  PROVE  S \subseteq Resolved(A, P)
BY DEF Resolved

\* drain() finds nothing more when it is run again.
LEMMA DrainedDry ==
  ASSUME NEW A, NEW P
  PROVE  Resolved(A \cup Resolved(A, P), P \ Resolved(A, P)) = {}
<1> DEFINE R == Resolved(A, P)
           S == Resolved(A \cup R, P \ R)
<1>1. S \subseteq P \ R /\ R \subseteq P
  BY ResolvedSubset
<1>2. \A o \in S \cup R : Dep[o] \in A \cup (S \cup R) \cup {NoOp}
  BY ResolvedClosed
<1>3. S \cup R \subseteq R
  <2> HIDE DEF R, S
  <2>1. S \cup R \in SUBSET P
    BY <1>1
  <2> QED
    BY <1>2, <2>1, ResolvedGreatest DEF R
<1> QED
  BY <1>1, <1>3

\* Fewer waiting operations: nothing becomes ready by forgetting some.
LEMMA ResolvedMonotone ==
  ASSUME NEW A, NEW P, NEW Q \in SUBSET P, Resolved(A, P) = {}
  PROVE  Resolved(A, Q) = {}
BY DEF Resolved

-----------------------------------------------------------------------------
(* Where an operation is *)

SentOps ==
  {o \in Ops : \E s \in Sessions : \E k \in DOMAIN Script[s] :
                 k < next[s] /\ o \in ToSet(Script[s][k])}

AwaitedOps == UNION {ToSet(MessageOps(m)) : m \in awaiting}

QueuedOps == UNION {ToSet(queue[i].ops) : i \in DOMAIN queue}

RowsOf(entries) == UNION {Rows(entries[i]) : i \in DOMAIN entries}

QueueRows == RowsOf(queue)

SnapshotOps == UNION {r.ops : r \in snapshots}

RelayedRows == UNION {relayed[s] : s \in Sessions}

\* The operations that got past the engine.
EnteredOps ==
  applied \cup Logged \cup QueuedOps \cup SnapshotOps \cup {r.op : r \in RelayedRows}

\* An operation that was sent waits for its lookup, waits in the engine's buffer,
\* has entered or was refused, and never two of these.
PlacesApart ==
  /\ AwaitedOps \cap PendingOps = {} /\ AwaitedOps \cap EnteredOps = {}
  /\ PendingOps \cap EnteredOps = {}
  /\ rejected \cap (AwaitedOps \cup PendingOps \cup EnteredOps) = {}

\* A message is looked up once, and buffered operations are buffered once.
Single ==
  /\ \A m, n \in awaiting : m.session = n.session /\ m.index = n.index => m = n
  /\ \A p, q \in pending : p.op = q.op => p = q

\* All of them were sent, and what was sent refers to what was sent.
OnlySent ==
  /\ AwaitedOps \cup PendingOps \cup EnteredOps \cup rejected \subseteq SentOps
  /\ \A s \in Sessions : known[s] \subseteq SentOps
  /\ \A m \in awaiting : m.index < next[m.session]
  /\ \A o \in SentOps : Dep[o] \in SentOps \cup {NoOp}

\* The operations sent before message m: none of them refers to one of m's.
Preceding(m, B) ==
  /\ B \cap ToSet(MessageOps(m)) = {}
  /\ \A o \in B : Dep[o] \in B \cup {NoOp}
  /\ \A i \in Indices(m) :
       Dep[MessageOps(m)[i]] \in B \cup {NoOp} \cup {MessageOps(m)[j] : j \in 1..(i-1)}

InOrder == \A m \in awaiting : \E B \in SUBSET Ops : Preceding(m, B)

\* The buffer is dry, and its entries have a position.
BufferDry ==
  /\ Resolved(applied, PendingOps) = {}
  /\ \A p \in pending : p.at \in Int

\* A sequence number names one operation, wherever the two were written down.
RowsAgree ==
  /\ \A r, q \in log \cup QueueRows \cup RelayedRows : r.seq = q.seq <=> r.op = q.op
  /\ \A r \in RelayedRows : r.seq <= currentSeq

\* A process that is not up has nothing under way; a rebuild replays old rows.
AtRest ==
  /\ phase # "up" => awaiting = {} /\ pending = {} /\ live = {} /\ RelayedRows = {}
  /\ rebuildLog \subseteq Logged

OperationsInv ==
  /\ DurabilityInv
  /\ PlacesApart /\ Single /\ OnlySent /\ InOrder /\ BufferDry /\ RowsAgree /\ AtRest
  /\ AppliedAccounted

-----------------------------------------------------------------------------
(* Applying a message *)

MessageSet(m) == {MessageOps(m)[j] : j \in Indices(m)}

\* The operations of a message, as a sequence and as a set.
LEMMA MessageSetIs ==
  ASSUME SessionTypes, NEW m \in awaiting
  PROVE  ToSet(MessageOps(m)) = MessageSet(m) /\ MessageSet(m) \subseteq Ops
BY MessageType DEF ToSet, MessageSet, Indices

\* The operations of a message are all different.
LEMMA MessageInjective ==
  ASSUME SessionTypes, NEW m \in awaiting, NEW i \in Indices(m), NEW j \in Indices(m),
         MessageOps(m)[i] = MessageOps(m)[j]
  PROVE  i = j
<1>1. m.session \in Sessions /\ m.index \in DOMAIN Script[m.session]
  BY WritePathAssumption DEF SessionTypes
<1>2. i \in DOMAIN Script[m.session][m.index] /\ j \in DOMAIN Script[m.session][m.index]
  BY MessageType DEF Indices, MessageOps
<1> QED
  BY <1>1, <1>2, SentOnceAssumption DEF MessageOps

\* An operation of a message that was buffered when it arrived stays so for the
\* whole of the message: no later operation of the message can unblock it.
LEMMA BufferedForGood ==
  ASSUME SessionTypes, InOrder, NEW m \in awaiting, NEW i \in Indices(m), Buffered(m, i)
  PROVE  MessageOps(m)[i] \notin AppliedBy(m)
<1> DEFINE ops == MessageOps(m)
           P == PendingOps \cup {ops[j] : j \in 1..Len(ops)}
           Pi == PendingOps \cup {ops[j] : j \in 1..i}
           R == Resolved(applied, P)
<1>1. SUFFICES ASSUME ops[i] \in AppliedBy(m) PROVE FALSE
  OBVIOUS
<1>2. i \in Nat /\ Len(ops) \in Nat /\ i <= Len(ops) /\ 1 <= i
  BY MessageType DEF Indices
<1>3. ops[i] \notin applied /\ ops[i] \notin Resolved(applied, Pi)
  BY DEF Buffered, AppliedAfter
<1>4. ops[i] \in R
  BY <1>1, <1>3 DEF AppliedBy, AppliedAfter
<1>5. PICK B \in SUBSET Ops : Preceding(m, B)
  BY DEF InOrder
<1>6. /\ \A j \in 1..Len(ops) : ops[j] \notin B
      /\ \A o \in B : Dep[o] \in B \cup {NoOp}
      /\ \A j \in 1..Len(ops) :
           Dep[ops[j]] \in B \cup {NoOp} \cup {ops[k] : k \in 1..(j-1)}
  BY <1>5, MessageSetIs DEF Preceding, Indices, MessageSet
<1> DEFINE S == R \cap (B \cup {ops[j] : j \in 1..i})
<1>7. S \subseteq Pi
  BY <1>2, <1>6, ResolvedSubset
<1>8. ASSUME NEW o \in S PROVE Dep[o] \in applied \cup S \cup {NoOp}
  <2>1. Dep[o] \in applied \cup R \cup {NoOp}
    BY ResolvedClosed
  <2>2. Dep[o] \in B \cup {NoOp} \cup {ops[j] : j \in 1..i}
    <3>1. CASE o \in B
      BY <1>6, <3>1
    <3>2. CASE o \notin B
      <4>1. PICK j \in 1..i : o = ops[j]
        BY <3>2
      <4>2. j \in 1..Len(ops) /\ \A k \in 1..(j-1) : k \in 1..i
        BY <1>2, <4>1
      <4> QED
        BY <1>6, <4>1, <4>2
    <3> QED
      BY <3>1, <3>2
  <2> QED
    BY <2>1, <2>2
<1>9. S \subseteq Resolved(applied, Pi)
  <2> HIDE DEF S, Pi
  <2> QED
    BY <1>7, <1>8, ResolvedGreatest
<1>10. ops[i] \in S
  BY <1>2, <1>4
<1> QED
  BY <1>3, <1>9, <1>10

\* The engine's side of a message: what becomes applied was waiting in the buffer
\* or is of the message, and the rest of both is buffered.
Fresh(m) == Resolved(applied, PendingOps \cup MessageSet(m))

\* What the engine applies are operations it had pending or that just came, and
\* those it does not apply it keeps.
LEMMA EngineEffect ==
  ASSUME TypeOK, OperationsInv, NEW m \in awaiting
  PROVE  /\ AppliedBy(m) = applied \cup Fresh(m)
         /\ Fresh(m) \subseteq PendingOps \cup MessageSet(m)
         /\ Fresh(m) \cap applied = {}
         /\ MessageSet(m) \cap PendingOps = {} /\ MessageSet(m) \cap EnteredOps = {}
         /\ \A i \in Indices(m) : Buffered(m, i) <=> MessageOps(m)[i] \notin Fresh(m)
         /\ {x.op : x \in ToFinalize(m)} = Fresh(m)
         /\ {x.op : x \in StillPending(m)} = (PendingOps \cup MessageSet(m)) \ Fresh(m)
<1>1. AppliedBy(m) = applied \cup Fresh(m)
  BY DEF AppliedBy, AppliedAfter, Fresh, MessageSet, Indices
<1>2. Fresh(m) \subseteq PendingOps \cup MessageSet(m)
  BY ResolvedSubset DEF Fresh
<1>3. MessageSet(m) \subseteq AwaitedOps
  BY MessageSetIs DEF AwaitedOps, TypeOK
<1>4. MessageSet(m) \cap PendingOps = {} /\ MessageSet(m) \cap EnteredOps = {}
  BY <1>3 DEF OperationsInv, PlacesApart
<1>5. Fresh(m) \cap applied = {}
  BY <1>2, <1>4 DEF OperationsInv, PlacesApart, EnteredOps
<1>6. ASSUME NEW i \in Indices(m) PROVE Buffered(m, i) <=> MessageOps(m)[i] \notin Fresh(m)
  <2>1. MessageOps(m)[i] \in MessageSet(m)
    BY DEF MessageSet
  <2>2. MessageOps(m)[i] \notin applied
    BY <1>4, <2>1 DEF EnteredOps
  <2>3. AppliedAfter(m, i) \subseteq AppliedBy(m)
    <3> DEFINE P == PendingOps \cup {MessageOps(m)[j] : j \in 1..Len(MessageOps(m))}
               Pi == PendingOps \cup {MessageOps(m)[j] : j \in 1..i}
    <3>1. i <= Len(MessageOps(m)) /\ i \in Nat /\ Len(MessageOps(m)) \in Nat
      BY MessageType DEF Indices, TypeOK
    <3>2. Pi \subseteq P
      BY <3>1
    <3>3. Resolved(applied, Pi) \subseteq Resolved(applied, P)
      <4> HIDE DEF Pi, P
      <4>1. Resolved(applied, Pi) \in SUBSET P
        BY <3>2, ResolvedSubset
      <4> QED
        BY <4>1, ResolvedClosed, ResolvedGreatest
    <3> QED
      BY <3>3 DEF AppliedBy, AppliedAfter
  <2>4. Buffered(m, i) => MessageOps(m)[i] \notin AppliedBy(m)
    BY BufferedForGood DEF OperationsInv, TypeOK
  <2>5. MessageOps(m)[i] \in AppliedBy(m) <=> MessageOps(m)[i] \in Fresh(m)
    BY <1>1, <2>2
  <2> QED
    BY <2>3, <2>4, <2>5 DEF Buffered
<1>7. {x.op : x \in Drained(m)} = Fresh(m) \cap PendingOps
  BY <1>1 DEF Drained, PendingOps, OperationsInv, PlacesApart, EnteredOps
<1>8. {x.op : x \in pending \ Drained(m)} = PendingOps \ Fresh(m)
  BY <1>1 DEF Drained, PendingOps, OperationsInv, PlacesApart, EnteredOps
<1>9. \A i, n : Item(m, i, n).op = MessageOps(m)[i]
  BY DEF Item
<1>10. {x.op : x \in ToFinalize(m)} = Fresh(m)
  <2> DEFINE Mine == {Item(m, i, i - Len(MessageOps(m))) : i \in {j \in Indices(m) : ~Buffered(m, j)}}
  <2>1. {x.op : x \in Mine} = {MessageOps(m)[i] : i \in {j \in Indices(m) : ~Buffered(m, j)}}
    BY <1>9
  <2>2. {x.op : x \in Mine} = Fresh(m) \cap MessageSet(m)
    BY <1>6, <2>1 DEF MessageSet
  <2>3. ToFinalize(m) = Mine \cup Drained(m)
    BY DEF ToFinalize
  <2> HIDE DEF Mine
  <2> QED
    BY <1>2, <1>7, <2>2, <2>3
<1>11. {x.op : x \in StillPending(m)} = (PendingOps \cup MessageSet(m)) \ Fresh(m)
  <2> DEFINE Late == {Item(m, i, LastAt + i) : i \in {j \in Indices(m) : Buffered(m, j)}}
  <2>1. {x.op : x \in Late} = {MessageOps(m)[i] : i \in {j \in Indices(m) : Buffered(m, j)}}
    BY <1>9
  <2>2. {x.op : x \in Late} = MessageSet(m) \ Fresh(m)
    BY <1>6, <2>1 DEF MessageSet
  <2>3. StillPending(m) = (pending \ Drained(m)) \cup Late
    BY DEF StillPending
  <2> HIDE DEF Late
  <2> QED
    BY <1>8, <2>2, <2>3
<1> QED
  BY <1>1, <1>2, <1>4, <1>5, <1>6, <1>10, <1>11

\* Buffered operations are buffered once, at a position that is a number.
LEMMA BufferEffect ==
  ASSUME TypeOK, OperationsInv, NEW m \in awaiting
  PROVE  /\ LastAt \in Int
         /\ \A x \in ToFinalize(m) \cup StillPending(m) : x.at \in Int
         /\ \A x, y \in ToFinalize(m) : x.op = y.op => x = y
         /\ \A x, y \in StillPending(m) : x.op = y.op => x = y
<1>1. IsFiniteSet(pending) /\ \A p \in pending : p.at \in Int
  BY DEF TypeOK, EngineTypes, OperationsInv, BufferDry
<1>2. LastAt \in Int
  <2>1. \E n \in {0} \cup {p.at : p \in pending} : \A p \in pending : p.at <= n
    <3>1. CASE pending = {}
      BY <3>1
    <3>2. CASE pending # {}
      <4> DEFINE f == [p \in pending |-> p.at]
      <4>1. f \in [pending -> Int]
        BY <1>1
      <4> HIDE DEF f
      <4>2. PICK n \in pending : \A p \in pending : f[p] <= f[n]
        BY <1>1, <3>2, <4>1, GreatestExists
      <4> QED
        BY <4>2 DEF f
    <3> QED
      BY <3>1, <3>2
  <2>2. LastAt \in {0} \cup {p.at : p \in pending}
    BY <2>1 DEF LastAt
  <2> QED
    BY <1>1, <2>2
<1>3. Len(MessageOps(m)) \in Nat /\ Indices(m) \subseteq Nat
  BY MessageType DEF Indices, TypeOK
<1>4. ASSUME NEW x \in ToFinalize(m) \cup StillPending(m)
      PROVE  \/ x \in pending
             \/ \E i \in Indices(m) : \/ x = Item(m, i, i - Len(MessageOps(m))) /\ x \in ToFinalize(m)
                                      \/ x = Item(m, i, LastAt + i) /\ x \in StillPending(m)
  BY DEF ToFinalize, StillPending, Drained
<1>5. \A i, n : Item(m, i, n).at = n /\ Item(m, i, n).op = MessageOps(m)[i]
  BY DEF Item
<1>6. \A x \in ToFinalize(m) \cup StillPending(m) : x.at \in Int
  BY <1>1, <1>2, <1>3, <1>4, <1>5
<1>7. \A x \in pending : x.op \in PendingOps
  BY DEF PendingOps
<1>8. \A i \in Indices(m) : MessageOps(m)[i] \notin PendingOps
  BY EngineEffect DEF MessageSet
<1>9. \A x, y \in pending : x.op = y.op => x = y
  BY DEF OperationsInv, Single
<1>10. \A i, j \in Indices(m) : MessageOps(m)[i] = MessageOps(m)[j] => i = j
  BY MessageInjective DEF TypeOK
<1>11. ASSUME NEW x \in ToFinalize(m), NEW y \in ToFinalize(m), x.op = y.op PROVE x = y
  <2>1. /\ x \in pending \/ \E i \in Indices(m) : x = Item(m, i, i - Len(MessageOps(m)))
        /\ y \in pending \/ \E i \in Indices(m) : y = Item(m, i, i - Len(MessageOps(m)))
    BY DEF ToFinalize, Drained
  <2> QED
    BY <1>5, <1>7, <1>8, <1>9, <1>10, <1>11, <2>1
<1>12. ASSUME NEW x \in StillPending(m), NEW y \in StillPending(m), x.op = y.op PROVE x = y
  <2>1. /\ x \in pending \/ \E i \in Indices(m) : x = Item(m, i, LastAt + i)
        /\ y \in pending \/ \E i \in Indices(m) : y = Item(m, i, LastAt + i)
    BY DEF StillPending
  <2> QED
    BY <1>5, <1>7, <1>8, <1>9, <1>10, <1>12, <2>1
<1> QED
  BY <1>2, <1>6, <1>11, <1>12

\* What a message puts into the queue: one row for each operation it made the
\* engine apply, numbered anew, without repetition, its own in their order.
WellNumbered(entries, m, last) ==
  /\ \A i \in DOMAIN entries : entries[i].status = "queued"
  /\ currentSeq <= last
  /\ {r.op : r \in RowsOf(entries)} = Fresh(m)
  /\ \A r \in RowsOf(entries) : r.seq \in Int /\ currentSeq < r.seq /\ r.seq <= last
  /\ \A n \in (currentSeq + 1)..last : \E r \in RowsOf(entries) : r.seq = n
  /\ \A r, q \in RowsOf(entries) : r.seq = q.seq <=> r.op = q.op
  /\ \A r, q \in RowsOf(entries) : \A i, j \in Indices(m) :
       r.op = MessageOps(m)[i] /\ q.op = MessageOps(m)[j] /\ i < j => r.seq < q.seq

\* The operations of an entry are those of its rows.
LEMMA RowsOps ==
  ASSUME NEW e
  PROVE  {r.op : r \in Rows(e)} = ToSet(e.ops)
<1>1. {r.op : r \in Rows(e)} = {[seq |-> e.start + i - 1, op |-> e.ops[i]].op : i \in DOMAIN e.ops}
  BY DEF Rows
<1>2. {[seq |-> e.start + i - 1, op |-> e.ops[i]].op : i \in DOMAIN e.ops} = ToSet(e.ops)
  BY DEF ToSet
<1> QED
  BY <1>1, <1>2

\* One entry takes the next numbers for the operations of a message that apply at
\* once.
LEMMA FastNumbered ==
  ASSUME TypeOK, OperationsInv, NEW m \in awaiting, IsFast(m)
  PROVE  LET entries == <<Entry(currentSeq + 1, MessageOps(m), m, "fast", TRUE)>>
         IN  WellNumbered(entries, m, currentSeq + Len(MessageOps(m)))
<1> DEFINE e == Entry(currentSeq + 1, MessageOps(m), m, "fast", TRUE)
           ops == MessageOps(m)
<1>1. DOMAIN <<e>> = {1} /\ <<e>>[1] = e
  OBVIOUS
<1>2. RowsOf(<<e>>) = Rows(e)
  <2> HIDE DEF e
  <2> QED
    BY <1>1 DEF RowsOf
<1>3. e.start = currentSeq + 1 /\ e.ops = ops
  BY DEF Entry
<1>4. currentSeq \in Nat /\ Len(ops) \in Nat /\ DOMAIN ops = Indices(m)
  BY MessageType DEF TypeOK, CommitTypes, Indices
<1>5. Rows(e) = {[seq |-> currentSeq + 1 + i - 1, op |-> ops[i]] : i \in Indices(m)}
  BY <1>3, <1>4 DEF Rows
<1>6. Indices(m) = 1..Len(ops)
  BY DEF Indices
<1> HIDE DEF e
<1>7. {r.op : r \in Rows(e)} = Fresh(m)
  <2>1. {r.op : r \in Rows(e)} = MessageSet(m)
    BY <1>3, RowsOps, MessageSetIs DEF TypeOK
  <2>2. MessageSet(m) \subseteq Fresh(m)
    BY EngineEffect DEF IsFast, MessageSet
  <2>3. Fresh(m) \cap PendingOps = {}
    BY EngineEffect DEF IsFast, Drained, PendingOps
  <2> QED
    BY <2>1, <2>2, <2>3, EngineEffect
<1>8. \A r \in Rows(e) : \E i \in 1..Len(ops) : r.seq = currentSeq + i /\ r.op = ops[i]
  BY <1>4, <1>5, <1>6
<1>9. \A i \in 1..Len(ops) : \E r \in Rows(e) : r.seq = currentSeq + i /\ r.op = ops[i]
  <2> TAKE i \in 1..Len(ops)
  <2> DEFINE r == [seq |-> currentSeq + 1 + i - 1, op |-> ops[i]]
  <2>1. r \in Rows(e)
    BY <1>5, <1>6
  <2>2. r.seq = currentSeq + i /\ r.op = ops[i]
    BY <1>4
  <2> HIDE DEF r
  <2> QED
    BY <2>1, <2>2
<1>10. \A i, j \in 1..Len(ops) : ops[i] = ops[j] => i = j
  BY <1>6, MessageInjective DEF TypeOK
<1>11. \A r \in Rows(e) : r.seq \in Int /\ currentSeq < r.seq /\ r.seq <= currentSeq + Len(ops)
  BY <1>4, <1>8
<1>12. \A n \in (currentSeq + 1)..(currentSeq + Len(ops)) : \E r \in Rows(e) : r.seq = n
  <2> TAKE n \in (currentSeq + 1)..(currentSeq + Len(ops))
  <2>1. n - currentSeq \in 1..Len(ops) /\ currentSeq + (n - currentSeq) = n
    BY <1>4
  <2> QED
    BY <1>9, <2>1
<1>13. \A r, q \in Rows(e) : r.seq = q.seq <=> r.op = q.op
  BY <1>4, <1>8, <1>10
<1> QED
  <2>1. currentSeq <= currentSeq + Len(ops)
    BY <1>4
  <2>2. \A r, q \in Rows(e) : \A i, j \in Indices(m) :
          r.op = ops[i] /\ q.op = ops[j] /\ i < j => r.seq < q.seq
    BY <1>4, <1>6, <1>8, <1>10
  <2>3. \A i \in DOMAIN <<e>> : <<e>>[i].status = "queued"
    BY <1>1 DEF e, Entry
  <2> QED
    BY <1>2, <1>7, <1>11, <1>12, <1>13, <2>1, <2>2, <2>3 DEF WellNumbered, e

\* The slow path finalizes every item once, in the order of their positions.
LEMMA FinalizedBijective ==
  ASSUME TypeOK, OperationsInv, NEW m \in awaiting, NEW f \in Finalized(ToFinalize(m))
  PROVE  /\ DOMAIN f = 1..Len(f) /\ Len(f) \in Nat
         /\ \A x \in ToFinalize(m) : \E i \in 1..Len(f) : f[i] = x
         /\ \A i \in 1..Len(f) : f[i] \in ToFinalize(m)
         /\ \A i, j \in 1..Len(f) : f[i] = f[j] => i = j
<1> DEFINE items == ToFinalize(m)
           n == Cardinality(items)
<1>1. DOMAIN f = 1..Len(f) /\ Len(f) \in Nat
  BY EntryTypes
<1>2. f \in [1..n -> items] /\ \A i, j \in DOMAIN f : i < j => f[i].at < f[j].at
  BY DEF Finalized
<1>3. IsFiniteSet(items) /\ n \in Nat
  BY ItemTypes, FS_CardinalityType DEF TypeOK
<1>4. \A x \in items : x.at \in Int
  BY BufferEffect
<1> HIDE DEF items, n
<1>5. DOMAIN f = 1..n
  BY <1>2
<1>6. ASSUME NEW i \in 1..n, NEW j \in 1..n, f[i] = f[j] PROVE i = j
  <2>1. ~(i < j) /\ ~(j < i)
    BY <1>2, <1>4, <1>5, <1>6
  <2> QED
    BY <1>3, <2>1
<1>7. f \in Injection(1..n, items)
  BY <1>2, <1>5, <1>6 DEF Injection, IsInjective
<1>8. IsFiniteSet(1..n) /\ Cardinality(1..n) = Cardinality(items)
  BY <1>3, FS_Interval DEF n
<1>9. f \in Surjection(1..n, items)
  BY <1>3, <1>7, <1>8, FS_Injection
<1>10. \A x \in items : \E i \in 1..n : f[i] = x
  BY <1>9 DEF Surjection
<1> QED
  BY <1>1, <1>2, <1>5, <1>6, <1>10 DEF items

\* Otherwise each operation is an entry of its own, numbered in the order in which
\* the engine finalized them.
LEMMA SlowNumbered ==
  ASSUME TypeOK, OperationsInv, NEW m \in awaiting, NEW f \in Finalized(ToFinalize(m))
  PROVE  LET entries == [i \in DOMAIN f |->
                           Entry(currentSeq + i, <<f[i].op>>, f[i], "slow", i = Len(f))]
         IN  WellNumbered(entries, m, currentSeq + Len(f))
<1> DEFINE E(i) == Entry(currentSeq + i, <<f[i].op>>, f[i], "slow", i = Len(f))
           entries == [i \in DOMAIN f |-> E(i)]
<1>1. /\ DOMAIN f = 1..Len(f) /\ Len(f) \in Nat /\ currentSeq \in Nat
      /\ \A x \in ToFinalize(m) : \E i \in 1..Len(f) : f[i] = x
      /\ \A i \in 1..Len(f) : f[i] \in ToFinalize(m)
      /\ \A i, j \in 1..Len(f) : f[i] = f[j] => i = j
  BY FinalizedBijective DEF TypeOK, CommitTypes
<1>2. ASSUME NEW i \in 1..Len(f)
      PROVE  Rows(entries[i]) = {[seq |-> currentSeq + i, op |-> f[i].op]}
  <2>1. entries[i] = E(i) /\ E(i).start = currentSeq + i /\ E(i).ops = <<f[i].op>>
    BY <1>1 DEF Entry
  <2>2. DOMAIN <<f[i].op>> = {1} /\ currentSeq + i + 1 - 1 = currentSeq + i
    BY <1>1
  <2> HIDE DEF entries, E
  <2>3. Rows(entries[i]) = {[seq |-> currentSeq + i + k - 1, op |-> <<f[i].op>>[k]] : k \in {1}}
    BY <2>1, <2>2 DEF Rows
  <2> QED
    BY <2>2, <2>3
<1>3. DOMAIN entries = 1..Len(f)
  BY <1>1
<1> HIDE DEF entries
<1>4. RowsOf(entries) = {[seq |-> currentSeq + i, op |-> f[i].op] : i \in 1..Len(f)}
  BY <1>2, <1>3 DEF RowsOf
<1>5. \A r \in RowsOf(entries) : \E i \in 1..Len(f) : r.seq = currentSeq + i /\ r.op = f[i].op
  BY <1>4
<1>6. \A i \in 1..Len(f) : \E r \in RowsOf(entries) : r.seq = currentSeq + i /\ r.op = f[i].op
  <2> TAKE i \in 1..Len(f)
  <2> DEFINE r == [seq |-> currentSeq + i, op |-> f[i].op]
  <2>1. r \in RowsOf(entries) /\ r.seq = currentSeq + i /\ r.op = f[i].op
    BY <1>4
  <2> HIDE DEF r
  <2> QED
    BY <2>1
<1>7. {r.op : r \in RowsOf(entries)} = Fresh(m)
  <2>1. {r.op : r \in RowsOf(entries)} = {f[i].op : i \in 1..Len(f)}
    BY <1>5, <1>6
  <2>2. {f[i].op : i \in 1..Len(f)} = {x.op : x \in ToFinalize(m)}
    BY <1>1
  <2> QED
    BY <2>1, <2>2, EngineEffect
<1>8. \A i, j \in 1..Len(f) : f[i].op = f[j].op => i = j
  BY <1>1, BufferEffect
<1>9. \A r \in RowsOf(entries) :
        r.seq \in Int /\ currentSeq < r.seq /\ r.seq <= currentSeq + Len(f)
  BY <1>1, <1>5
<1>10. \A n \in (currentSeq + 1)..(currentSeq + Len(f)) : \E r \in RowsOf(entries) : r.seq = n
  <2> TAKE n \in (currentSeq + 1)..(currentSeq + Len(f))
  <2>1. n - currentSeq \in 1..Len(f) /\ currentSeq + (n - currentSeq) = n
    BY <1>1
  <2> QED
    BY <1>6, <2>1
<1>11. \A r, q \in RowsOf(entries) : r.seq = q.seq <=> r.op = q.op
  BY <1>1, <1>5, <1>8
<1>12. \A i \in Indices(m) : \A x \in ToFinalize(m) :
         x.op = MessageOps(m)[i] => x.at = i - Len(MessageOps(m))
  <2>1. \A x \in pending : x.op \in PendingOps
    BY DEF PendingOps
  <2>2. MessageSet(m) \cap PendingOps = {}
    BY EngineEffect
  <2>3. \A i \in Indices(m) : MessageOps(m)[i] \in MessageSet(m)
    BY DEF MessageSet
  <2>4. \A x \in ToFinalize(m) :
          x \in pending \/ \E i \in Indices(m) : x = Item(m, i, i - Len(MessageOps(m)))
    BY DEF ToFinalize, Drained
  <2>5. \A i, j \in Indices(m) : MessageOps(m)[i] = MessageOps(m)[j] => i = j
    BY MessageInjective DEF TypeOK
  <2>6. \A i, n : Item(m, i, n).at = n /\ Item(m, i, n).op = MessageOps(m)[i]
    BY DEF Item
  <2> QED
    BY <2>1, <2>2, <2>3, <2>4, <2>5, <2>6
<1>13. ASSUME NEW r \in RowsOf(entries), NEW q \in RowsOf(entries),
              NEW i \in Indices(m), NEW j \in Indices(m),
              r.op = MessageOps(m)[i], q.op = MessageOps(m)[j], i < j
       PROVE  r.seq < q.seq
  <2>1. PICK a \in 1..Len(f), b \in 1..Len(f) :
          /\ r.seq = currentSeq + a /\ r.op = f[a].op
          /\ q.seq = currentSeq + b /\ q.op = f[b].op
    BY <1>5
  <2>2. f[a].at = i - Len(MessageOps(m)) /\ f[b].at = j - Len(MessageOps(m))
    BY <1>1, <1>12, <1>13, <2>1
  <2>3. Len(MessageOps(m)) \in Nat /\ i \in Int /\ j \in Int
    BY MessageType DEF TypeOK, Indices
  <2>4. b < a => f[b].at < f[a].at
    BY <1>1 DEF Finalized
  <2>5. a # b /\ ~(b < a)
    BY <1>1, <1>13, <2>2, <2>3, <2>4
  <2> QED
    BY <1>1, <2>1, <2>5
<1>14. \A i \in DOMAIN entries : entries[i].status = "queued"
  BY <1>1 DEF entries, Entry
<1>15. currentSeq <= currentSeq + Len(f)
  BY <1>1
<1> HIDE DEF entries
<1>16. WellNumbered(entries, m, currentSeq + Len(f))
  BY <1>7, <1>9, <1>10, <1>11, <1>13, <1>14, <1>15 DEF WellNumbered
<1> QED
  BY <1>16 DEF entries

\* Both paths publish well-numbered entries.
LEMMA Published ==
  ASSUME TypeOK, OperationsInv, NEW m \in awaiting, RunFastPath(m) \/ RunSlowPath(m)
  PROVE  /\ phase = "up" /\ awaiting' = awaiting \ {m}
         /\ \E entries \in Seq(EntryType), last \in Nat :
              Publish(m, entries, last) /\ WellNumbered(entries, m, last)
<1>1. currentSeq \in Nat /\ Len(MessageOps(m)) \in Nat
  BY MessageType DEF TypeOK, CommitTypes
<1>2. phase = "up" /\ awaiting' = awaiting \ {m}
  BY DEF RunFastPath, RunSlowPath, Answers
<1>3. CASE RunFastPath(m)
  <2> DEFINE e == Entry(currentSeq + 1, MessageOps(m), m, "fast", TRUE)
  <2>1. WellNumbered(<<e>>, m, currentSeq + Len(MessageOps(m)))
    BY <1>3, FastNumbered DEF RunFastPath
  <2>2. Publish(m, <<e>>, currentSeq + Len(MessageOps(m)))
    BY <1>3 DEF RunFastPath
  <2>3. e \in EntryType
    BY EntryTypes
  <2> HIDE DEF e
  <2>4. <<e>> \in Seq(EntryType)
    BY <2>3
  <2>5. currentSeq + Len(MessageOps(m)) \in Nat
    BY <1>1
  <2> QED
    BY <1>2, <2>1, <2>2, <2>4, <2>5
<1>4. CASE RunSlowPath(m)
  <2>1. PICK f \in Finalized(ToFinalize(m)) :
          Publish(m, [i \in DOMAIN f |->
                        Entry(currentSeq + i, <<f[i].op>>, f[i], "slow", i = Len(f))],
                  currentSeq + Len(f))
    BY <1>4 DEF RunSlowPath
  <2> DEFINE entries == [i \in DOMAIN f |->
                           Entry(currentSeq + i, <<f[i].op>>, f[i], "slow", i = Len(f))]
  <2>2. WellNumbered(entries, m, currentSeq + Len(f))
    BY SlowNumbered
  <2>3. entries \in Seq(EntryType)
    BY EntryTypes
  <2>4. currentSeq + Len(f) \in Nat
    <3>1. Len(f) \in Nat
      BY EntryTypes
    <3> QED
      BY <1>1, <3>1
  <2>5. Publish(m, entries, currentSeq + Len(f))
    BY <2>1
  <2> HIDE DEF entries
  <2> QED
    BY <1>2, <2>2, <2>3, <2>4, <2>5
<1> QED
  BY <1>3, <1>4

\* No two messages share an operation.
LEMMA MessagesDisjoint ==
  ASSUME SessionTypes, Single, NEW m \in awaiting, NEW n \in awaiting,
         NEW o \in ToSet(MessageOps(m)), o \in ToSet(MessageOps(n))
  PROVE  m = n
<1>1. /\ m.session \in Sessions /\ m.index \in DOMAIN Script[m.session]
      /\ n.session \in Sessions /\ n.index \in DOMAIN Script[n.session]
  BY WritePathAssumption DEF SessionTypes
<1>2. PICK i \in DOMAIN Script[m.session][m.index], j \in DOMAIN Script[n.session][n.index] :
        Script[m.session][m.index][i] = o /\ Script[n.session][n.index][j] = o
  BY DEF ToSet, MessageOps
<1>3. m.session = n.session /\ m.index = n.index
  BY <1>1, <1>2, SentOnceAssumption
<1> QED
  BY <1>3 DEF Single

\* When its lookup answers, a message's operations wait for it no longer.
LEMMA AwaitedLess ==
  ASSUME SessionTypes, Single, NEW m \in awaiting, awaiting' = awaiting \ {m}
  PROVE  AwaitedOps' = AwaitedOps \ MessageSet(m) /\ MessageSet(m) \subseteq AwaitedOps
<1>1. AwaitedOps' = UNION {ToSet(MessageOps(n)) : n \in awaiting \ {m}}
  BY DEF AwaitedOps, MessageOps
<1>2. \A n \in awaiting \ {m} : ToSet(MessageOps(n)) \cap ToSet(MessageOps(m)) = {}
  BY MessagesDisjoint
<1>3. ToSet(MessageOps(m)) = MessageSet(m)
  BY MessageSetIs
<1> QED
  BY <1>1, <1>2, <1>3 DEF AwaitedOps

\* The operations of entries are those of their rows.
LEMMA RowsOfOps ==
  ASSUME NEW entries
  PROVE  {r.op : r \in RowsOf(entries)} = UNION {ToSet(entries[i].ops) : i \in DOMAIN entries}
<1>1. {r.op : r \in RowsOf(entries)} =
        UNION {{r.op : r \in Rows(entries[i])} : i \in DOMAIN entries}
  BY DEF RowsOf
<1>2. \A i \in DOMAIN entries : {r.op : r \in Rows(entries[i])} = ToSet(entries[i].ops)
  BY RowsOps
<1> QED
  BY <1>1, <1>2

\* The queue holds the rows of the operations it holds.
LEMMA QueueRowsOps == {r.op : r \in QueueRows} = QueuedOps
BY RowsOfOps DEF QueueRows, QueuedOps

\* What publishing does to the rows and operations that are under way.
LEMMA PublishEffect ==
  ASSUME TypeOK, OperationsInv, NEW m \in awaiting, awaiting' = awaiting \ {m},
         NEW entries \in Seq(EntryType), NEW last \in Nat,
         Publish(m, entries, last), WellNumbered(entries, m, last)
  PROVE  /\ applied' = applied \cup Fresh(m)
         /\ PendingOps' = (PendingOps \cup MessageSet(m)) \ Fresh(m)
         /\ AwaitedOps' = AwaitedOps \ MessageSet(m)
         /\ QueueRows' = QueueRows \cup RowsOf(entries)
         /\ QueuedOps' = QueuedOps \cup Fresh(m)
         /\ \A s \in Sessions : relayed'[s] \subseteq relayed[s] \cup RowsOf(entries)
         /\ RelayedRows' \subseteq RelayedRows \cup RowsOf(entries)
         /\ \A s \in Sessions : known'[s] \subseteq known[s] \cup Fresh(m)
         /\ currentSeq' = last
         /\ UNCHANGED <<phase, epoch, live, age, lastCommittedSeq, snapshotInFlight,
                        breakerVars, rebuildVars, database, next, acked, rejected, lost, budget>>
<1>1. applied' = applied \cup Fresh(m)
  BY EngineEffect DEF Publish
<1>2. PendingOps' = (PendingOps \cup MessageSet(m)) \ Fresh(m)
  BY EngineEffect DEF Publish, PendingOps
<1>3. AwaitedOps' = AwaitedOps \ MessageSet(m)
  BY AwaitedLess DEF OperationsInv, TypeOK
<1>4. queue' = queue \o entries /\ queue \in Seq(EntryType)
  BY DEF Publish, Enqueue, TypeOK, CommitTypes
<1>5. /\ \A i \in DOMAIN queue' : \/ i \in DOMAIN queue /\ queue'[i] = queue[i]
                                  \/ \E j \in DOMAIN entries : queue'[i] = entries[j]
      /\ \A i \in DOMAIN queue : i \in DOMAIN queue' /\ queue'[i] = queue[i]
      /\ \A j \in DOMAIN entries : Len(queue) + j \in DOMAIN queue'
                                   /\ queue'[Len(queue) + j] = entries[j]
  BY <1>4
<1>6. QueueRows' = QueueRows \cup RowsOf(entries)
  <2>1. RowsOf(queue') = RowsOf(queue) \cup RowsOf(entries)
    <3>1. RowsOf(queue') \subseteq RowsOf(queue) \cup RowsOf(entries)
      BY <1>5 DEF RowsOf
    <3>2. RowsOf(queue) \subseteq RowsOf(queue') /\ RowsOf(entries) \subseteq RowsOf(queue')
      BY <1>5 DEF RowsOf
    <3> QED
      BY <3>1, <3>2
  <2>2. QueueRows' = RowsOf(queue')
    BY DEF QueueRows, RowsOf, Rows
  <2> QED
    BY <2>1, <2>2 DEF QueueRows
<1>7. QueuedOps' = QueuedOps \cup Fresh(m)
  <2>1. QueuedOps' = {r.op : r \in RowsOf(queue')}
    BY RowsOfOps DEF QueuedOps, ToSet
  <2>2. QueueRows' = RowsOf(queue')
    BY DEF QueueRows, RowsOf, Rows
  <2> QED
    BY <1>6, <2>1, <2>2, QueueRowsOps DEF WellNumbered
<1>8. \A s \in Sessions : RelayedTo(s, entries) \subseteq RowsOf(entries)
  BY DEF RelayedTo, RowsOf
<1>9. \A s \in Sessions : relayed'[s] \subseteq relayed[s] \cup RowsOf(entries)
  BY <1>8 DEF Publish
<1>10. RelayedRows' \subseteq RelayedRows \cup RowsOf(entries)
  BY <1>9 DEF RelayedRows
<1>11. \A s \in Sessions : known'[s] \subseteq known[s] \cup Fresh(m)
  <2>1. \A s \in Sessions : {r.op : r \in RelayedTo(s, entries)} \subseteq Fresh(m)
    BY <1>8 DEF WellNumbered
  <2> QED
    BY <2>1 DEF Publish
<1>12. /\ currentSeq' = last
       /\ UNCHANGED <<phase, epoch, live, age, lastCommittedSeq, snapshotInFlight,
                      breakerVars, rebuildVars, database, next, acked, rejected, lost, budget>>
  BY DEF Publish, Reserve
<1> QED
  BY <1>1, <1>2, <1>3, <1>6, <1>7, <1>9, <1>10, <1>11, <1>12

-----------------------------------------------------------------------------
(* Every step keeps OperationsInv *)

OperationsParts ==
  /\ PlacesApart /\ Single /\ OnlySent /\ InOrder /\ BufferDry /\ RowsAgree /\ AtRest
  /\ AppliedAccounted

\* A step that sends nothing new and publishes nothing: operations only leave the
\* lookups and the buffer, and only those that left are refused.
LEMMA NothingNew ==
  ASSUME TypeOK, OperationsParts, next' = next,
         awaiting' \subseteq awaiting, pending' \subseteq pending,
         EnteredOps' \subseteq EnteredOps,
         rejected' \subseteq rejected \cup (AwaitedOps \ AwaitedOps') \cup (PendingOps \ PendingOps'),
         \A s \in Sessions : known'[s] \subseteq known[s] \cup EnteredOps,
         Resolved(applied', PendingOps') = {},
         (log \cup QueueRows \cup RelayedRows)' \subseteq log \cup QueueRows \cup RelayedRows,
         RelayedRows' \subseteq RelayedRows,
         RelayedRows' = {} \/ currentSeq' = currentSeq,
         AtRest', AppliedAccounted'
  PROVE  OperationsParts'
<1> USE DEF OperationsParts
<1>1. AwaitedOps' \subseteq AwaitedOps
  BY DEF AwaitedOps, MessageOps
<1>2. PendingOps' \subseteq PendingOps
  BY DEF PendingOps
<1>3. PlacesApart'
  BY <1>1, <1>2 DEF PlacesApart
<1>4. Single'
  BY DEF Single
<1>5. SentOps' = SentOps
  BY DEF SentOps
<1>6. OnlySent'
  BY <1>1, <1>2, <1>5 DEF OnlySent
<1>7. InOrder'
  BY DEF InOrder, Preceding, MessageOps, Indices
<1>8. BufferDry'
  BY DEF BufferDry
<1>9. RowsAgree'
  BY DEF RowsAgree
<1> QED
  BY <1>3, <1>4, <1>6, <1>7, <1>8, <1>9

\* A step that touches neither the engine's operations nor where rows are.
LEMMA NothingMoves ==
  ASSUME UNCHANGED <<applied, log, queue, snapshots, relayed>>
  PROVE  /\ EnteredOps' = EnteredOps
         /\ (log \cup QueueRows \cup RelayedRows)' = log \cup QueueRows \cup RelayedRows
         /\ RelayedRows' = RelayedRows
         /\ QueuedOps' = QueuedOps /\ SnapshotOps' = SnapshotOps /\ Logged' = Logged
<1>1. QueueRows' = QueueRows /\ RelayedRows' = RelayedRows
  BY DEF QueueRows, RowsOf, Rows, RelayedRows
<1>2. QueuedOps' = QueuedOps /\ SnapshotOps' = SnapshotOps /\ Logged' = Logged
  BY DEF QueuedOps, ToSet, SnapshotOps, Logged
<1>3. EnteredOps' = EnteredOps
  BY <1>1, <1>2 DEF EnteredOps
<1> QED
  BY <1>1, <1>2, <1>3

\* What the write path still has to account for.
LEMMA AccountedIs == AppliedAccounted <=> applied \subseteq Logged \cup lost \cup QueuedOps \cup SnapshotOps
BY DEF AppliedAccounted, QueuedOps, SnapshotOps

\* A step that leaves the operations where they are, as far as anything but the
\* lookups, the buffer and the refusals is concerned.
LEMMA NothingEnters ==
  ASSUME TypeOK, OperationsParts,
         UNCHANGED <<phase, next, applied, log, queue, snapshots, relayed, currentSeq, lost>>,
         awaiting' \subseteq awaiting, pending' \subseteq pending,
         rejected' \subseteq rejected \cup (AwaitedOps \ AwaitedOps') \cup (PendingOps \ PendingOps'),
         \A s \in Sessions : known'[s] \subseteq known[s] \cup EnteredOps,
         phase # "up" => live' = {}, rebuildLog' \subseteq Logged
  PROVE  OperationsParts'
<1> USE DEF OperationsParts
<1>1. /\ EnteredOps' = EnteredOps
      /\ (log \cup QueueRows \cup RelayedRows)' = log \cup QueueRows \cup RelayedRows
      /\ RelayedRows' = RelayedRows
      /\ QueuedOps' = QueuedOps /\ SnapshotOps' = SnapshotOps /\ Logged' = Logged
  BY NothingMoves
<1>2. Resolved(applied', PendingOps') = {}
  <2>1. PendingOps' \in SUBSET PendingOps
    BY DEF PendingOps
  <2>2. Resolved(applied, PendingOps') = {}
    BY <2>1, ResolvedMonotone DEF BufferDry
  <2> QED
    BY <2>2 DEF Resolved
<1>3. AtRest'
  BY <1>1 DEF AtRest
<1>4. AppliedAccounted'
  <2>1. applied \subseteq Logged \cup lost \cup QueuedOps \cup SnapshotOps
    BY AccountedIs
  <2> QED
    BY <1>1, <2>1 DEF AppliedAccounted, QueuedOps, SnapshotOps
<1> QED
  BY <1>1, <1>2, <1>3, <1>4, NothingNew

\* Refusals, evictions, sessions that come and go, freezes.
LEMMA OperationsQuiet ==
  ASSUME TypeOK, OperationsParts,
         \/ \E m \in awaiting : Deny(m)
         \/ \E s \in Sessions : Leave(s) \/ Join(s)
         \/ Sweep \/ Freeze \/ Unfreeze \/ RebuildRead \/ UNCHANGED vars
  PROVE  OperationsParts'
<1> USE DEF sessionVars, engineVars, commitVars, breakerVars, rebuildVars, database, clients
<1>1. rebuildLog \subseteq Logged /\ (phase # "up" => live = {})
  BY DEF OperationsParts, AtRest
<1>2. ASSUME NEW m \in awaiting, Deny(m) PROVE OperationsParts'
  <2>1. /\ UNCHANGED <<phase, next, applied, log, queue, snapshots, relayed, currentSeq, lost>>
        /\ UNCHANGED <<pending, known, live, rebuildLog>>
        /\ awaiting' = awaiting \ {m} /\ rejected' = rejected \cup ToSet(MessageOps(m))
    BY <1>2 DEF Deny, Answers
  <2>2. AwaitedOps' = AwaitedOps \ MessageSet(m) /\ MessageSet(m) \subseteq AwaitedOps
    BY <2>1, AwaitedLess DEF OperationsParts, TypeOK
  <2>3. ToSet(MessageOps(m)) = MessageSet(m)
    BY MessageSetIs DEF TypeOK
  <2>4. rejected' \subseteq rejected \cup (AwaitedOps \ AwaitedOps') \cup (PendingOps \ PendingOps')
    BY <2>1, <2>2, <2>3
  <2>5. awaiting' \subseteq awaiting /\ \A s \in Sessions : known'[s] \subseteq known[s] \cup EnteredOps
    BY <2>1
  <2> QED
    BY <1>1, <2>1, <2>4, <2>5, NothingEnters
<1>3. CASE Sweep
  <2>1. /\ UNCHANGED <<phase, next, applied, log, queue, snapshots, relayed, currentSeq, lost>>
        /\ UNCHANGED <<awaiting, known, live, rebuildLog>>
        /\ pending' = Swept /\ Swept \subseteq pending
        /\ rejected' = rejected \cup {p.op : p \in pending \ Swept}
    BY <1>3 DEF Sweep, Swept
  <2>2. {p.op : p \in pending \ Swept} \subseteq PendingOps \ PendingOps'
    BY <2>1 DEF PendingOps, OperationsParts, Single
  <2>3. rejected' \subseteq rejected \cup (AwaitedOps \ AwaitedOps') \cup (PendingOps \ PendingOps')
    BY <2>1, <2>2
  <2>4. pending' \subseteq pending /\ \A s \in Sessions : known'[s] \subseteq known[s] \cup EnteredOps
    BY <2>1
  <2> QED
    BY <1>1, <2>1, <2>3, <2>4, NothingEnters
<1>4. CASE Freeze \/ Unfreeze \/ RebuildRead \/ UNCHANGED vars
  <2>1. /\ UNCHANGED <<phase, next, applied, log, queue, snapshots, relayed, currentSeq, lost>>
        /\ UNCHANGED <<awaiting, pending, known, live, rejected>>
        /\ rebuildLog' = rebuildLog \/ rebuildLog' = Logged
    BY <1>4 DEF Freeze, Unfreeze, RebuildRead, vars
  <2> QED
    BY <1>1, <2>1, NothingEnters
<1>5. ASSUME NEW s \in Sessions, Join(s) PROVE OperationsParts'
  <2>1. /\ UNCHANGED <<phase, next, applied, log, queue, snapshots, relayed, currentSeq, lost>>
        /\ UNCHANGED <<awaiting, pending, rebuildLog, rejected>> /\ phase = "up"
        /\ known' = [known EXCEPT ![s] = applied]
    BY <1>5 DEF Join
  <2>2. \A t \in Sessions : known'[t] \subseteq known[t] \cup EnteredOps
    BY <2>1 DEF EnteredOps, TypeOK, ClientTypes
  <2> QED
    BY <1>1, <2>1, <2>2, NothingEnters
<1>6. ASSUME NEW s \in Sessions, Leave(s) PROVE OperationsParts'
  <2>1. /\ UNCHANGED <<phase, next, applied, log, queue, snapshots, currentSeq, lost>>
        /\ UNCHANGED <<awaiting, pending, known, rebuildLog, rejected>> /\ phase = "up"
        /\ relayed' = [relayed EXCEPT ![s] = {}]
    BY <1>6 DEF Leave
  <2>2. RelayedRows' \subseteq RelayedRows
    BY <2>1 DEF RelayedRows, TypeOK, ClientTypes
  <2>3. /\ QueueRows' = QueueRows /\ QueuedOps' = QueuedOps
        /\ SnapshotOps' = SnapshotOps /\ Logged' = Logged
    BY <2>1 DEF QueueRows, RowsOf, Rows, QueuedOps, ToSet, SnapshotOps, Logged
  <2>4. EnteredOps' \subseteq EnteredOps
    BY <2>1, <2>2, <2>3 DEF EnteredOps
  <2>5. (log \cup QueueRows \cup RelayedRows)' \subseteq log \cup QueueRows \cup RelayedRows
    BY <2>1, <2>2, <2>3
  <2>6. Resolved(applied', PendingOps') = {}
    BY <2>1 DEF OperationsParts, BufferDry, PendingOps
  <2>7. AtRest'
    BY <1>1, <2>1, <2>3 DEF AtRest
  <2>8. AppliedAccounted'
    BY <2>1, <2>3 DEF OperationsParts, AppliedAccounted, QueuedOps, SnapshotOps
  <2>9. awaiting' \subseteq awaiting /\ pending' \subseteq pending /\ rejected' \subseteq rejected
        /\ \A t \in Sessions : known'[t] \subseteq known[t] \cup EnteredOps
    BY <2>1
  <2> QED
    BY <2>1, <2>2, <2>4, <2>5, <2>6, <2>7, <2>8, <2>9, NothingNew
<1> QED
  BY <1>2, <1>3, <1>4, <1>5, <1>6

\* The rows a commit may add are rows of the queue; the queue keeps its rows until
\* its head is settled.
LEMMA OutcomeRows ==
  ASSUME TypeOK, HeadQueued, NEW status \in {"committed", "failed"}, Outcome(status),
         StoreRows(queue[1]) \/ UNCHANGED <<log, docSeq>>
  PROVE  /\ QueueRows' = QueueRows /\ QueuedOps' = QueuedOps
         /\ log \subseteq log' /\ log' \subseteq log \cup QueueRows
         /\ Logged \subseteq Logged' /\ Logged' \subseteq Logged \cup QueuedOps
<1>1. /\ DOMAIN queue' = DOMAIN queue /\ 1 \in DOMAIN queue
      /\ \A i \in DOMAIN queue :
           queue'[i].start = queue[i].start /\ queue'[i].ops = queue[i].ops
  BY OutcomeTypes DEF TypeOK, CommitTypes, HeadQueued
<1>2. \A i \in DOMAIN queue : Rows(queue'[i]) = Rows(queue[i])
  BY <1>1 DEF Rows
<1>3. QueueRows' = QueueRows
  <2>1. RowsOf(queue') = RowsOf(queue)
    BY <1>1, <1>2 DEF RowsOf
  <2>2. QueueRows' = RowsOf(queue')
    BY DEF QueueRows, RowsOf, Rows
  <2> QED
    BY <2>1, <2>2 DEF QueueRows
<1>4. QueuedOps' = QueuedOps
  BY <1>1 DEF QueuedOps, ToSet
<1>5. log \subseteq log' /\ log' \subseteq log \cup QueueRows
  BY <1>1 DEF StoreRows, QueueRows, RowsOf
<1>6. Logged \subseteq Logged' /\ Logged' \subseteq Logged \cup QueuedOps
  <2>1. Logged' \subseteq Logged \cup {r.op : r \in QueueRows}
    BY <1>5 DEF Logged
  <2> QED
    BY <1>5, <2>1, QueueRowsOps DEF Logged
<1> QED
  BY <1>3, <1>4, <1>5, <1>6

\* The first entry of the queue is written, or its transaction fails.
LEMMA OperationsStored ==
  ASSUME TypeOK, OperationsParts, StoreCommits \/ StoreFails
  PROVE  OperationsParts'
<1> USE DEF sessionVars, engineVars, commitVars, breakerVars, rebuildVars, database, clients
<1>1. /\ HeadQueued /\ (StoreRows(queue[1]) \/ UNCHANGED <<log, docSeq>>)
      /\ \E status \in {"committed", "failed"} : Outcome(status)
      /\ UNCHANGED <<phase, next, awaiting, pending, applied, snapshots, relayed, currentSeq,
                     lost, known, live, rebuildLog, rejected>>
  BY DEF StoreCommits, StoreFails
<1>2. /\ QueueRows' = QueueRows /\ QueuedOps' = QueuedOps
      /\ log \subseteq log' /\ log' \subseteq log \cup QueueRows
      /\ Logged \subseteq Logged' /\ Logged' \subseteq Logged \cup QueuedOps
  BY <1>1, OutcomeRows
<1>3. RelayedRows' = RelayedRows /\ SnapshotOps' = SnapshotOps
  BY <1>1 DEF RelayedRows, SnapshotOps
<1>4. EnteredOps' \subseteq EnteredOps
  BY <1>1, <1>2, <1>3 DEF EnteredOps
<1>5. (log \cup QueueRows \cup RelayedRows)' \subseteq log \cup QueueRows \cup RelayedRows
  BY <1>2, <1>3
<1>6. Resolved(applied', PendingOps') = {}
  BY <1>1 DEF OperationsParts, BufferDry, PendingOps
<1>7. AtRest'
  BY <1>1, <1>2, <1>3 DEF OperationsParts, AtRest
<1>8. AppliedAccounted'
  <2>1. applied \subseteq Logged \cup lost \cup QueuedOps \cup SnapshotOps
    BY AccountedIs DEF OperationsParts
  <2>2. applied' \subseteq (Logged \cup lost \cup QueuedOps \cup SnapshotOps)'
    BY <1>1, <1>2, <1>3, <2>1
  <2> QED
    BY <2>2 DEF AppliedAccounted, QueuedOps, SnapshotOps
<1>9. awaiting' \subseteq awaiting /\ pending' \subseteq pending /\ rejected' \subseteq rejected
      /\ \A t \in Sessions : known'[t] \subseteq known[t] \cup EnteredOps
  BY <1>1
<1> QED
  BY <1>1, <1>3, <1>4, <1>5, <1>6, <1>7, <1>8, <1>9, NothingNew

\* The head of the queue is settled: its operations are logged or lost by then.
LEMMA OperationsSettled ==
  ASSUME DurabilityInv, OperationsParts, SettleCommit
  PROVE  OperationsParts'
<1> USE DEF sessionVars, engineVars, commitVars, breakerVars, rebuildVars, database, clients
<1> DEFINE e == queue[1]
<1>1. /\ phase = "up" /\ queue # <<>> /\ e.status # "queued" /\ queue' = Tail(queue)
      /\ lost' = IF e.status = "failed" THEN lost \cup ToSet(e.ops) ELSE lost
      /\ UNCHANGED <<phase, next, awaiting, pending, applied, snapshots, relayed, currentSeq,
                     log, known, live, rebuildLog, rejected>>
  BY DEF SettleCommit
<1>2. /\ 1 \in DOMAIN queue /\ e \in EntryType /\ \A i \in DOMAIN queue : i = 1 \/ i > 1
      /\ \A i \in DOMAIN queue' : i + 1 \in DOMAIN queue /\ queue'[i] = queue[i + 1]
      /\ \A i \in DOMAIN queue : i > 1 => i - 1 \in DOMAIN queue' /\ queue'[i - 1] = queue[i]
  BY <1>1, QueueHead DEF DurabilityInv, TypeOK, CommitTypes
<1>3. QueueRows' \subseteq QueueRows
  <2>1. RowsOf(queue') \subseteq RowsOf(queue)
    BY <1>2 DEF RowsOf
  <2>2. QueueRows' = RowsOf(queue')
    BY DEF QueueRows, RowsOf, Rows
  <2> QED
    BY <2>1, <2>2 DEF QueueRows
<1>4. QueuedOps' \subseteq QueuedOps /\ QueuedOps \subseteq QueuedOps' \cup ToSet(e.ops)
  <2> DEFINE S(q) == UNION {ToSet(q[i].ops) : i \in DOMAIN q}
  <2>1. S(queue') \subseteq S(queue)
    BY <1>2
  <2>2. S(queue) \subseteq S(queue') \cup ToSet(e.ops)
    BY <1>2
  <2>3. QueuedOps' = S(queue')
    BY DEF QueuedOps, ToSet
  <2> QED
    BY <2>1, <2>2, <2>3 DEF QueuedOps
<1>5. RelayedRows' = RelayedRows /\ SnapshotOps' = SnapshotOps /\ Logged' = Logged
  BY <1>1 DEF RelayedRows, SnapshotOps, Logged
<1>6. EnteredOps' \subseteq EnteredOps
  BY <1>1, <1>4, <1>5 DEF EnteredOps
<1>7. (log \cup QueueRows \cup RelayedRows)' \subseteq log \cup QueueRows \cup RelayedRows
  BY <1>1, <1>3, <1>5
<1>8. Resolved(applied', PendingOps') = {}
  BY <1>1 DEF OperationsParts, BufferDry, PendingOps
<1>9. AtRest'
  BY <1>1, <1>5 DEF OperationsParts, AtRest
<1>10. AppliedAccounted'
  <2>1. applied \subseteq Logged \cup lost \cup QueuedOps \cup SnapshotOps
    BY AccountedIs DEF OperationsParts
  <2>2. ToSet(e.ops) \subseteq Logged \cup lost'
    BY <1>1, <1>2 DEF DurabilityInv, CommittedLogged, EntryType
  <2>3. applied' \subseteq (Logged \cup lost \cup QueuedOps \cup SnapshotOps)'
    BY <1>1, <1>4, <1>5, <2>1, <2>2
  <2> QED
    BY <2>3 DEF AppliedAccounted, QueuedOps, SnapshotOps
<1>11. awaiting' \subseteq awaiting /\ pending' \subseteq pending /\ rejected' \subseteq rejected
       /\ \A t \in Sessions : known'[t] \subseteq known[t] \cup EnteredOps
  BY <1>1
<1> QED
  BY <1>1, <1>5, <1>6, <1>7, <1>8, <1>9, <1>10, <1>11, NothingNew DEF DurabilityInv

\* Snapshots hold, and restarts and rebuilds bring back, only what had entered.
LEMMA OperationsRestored ==
  ASSUME TypeOK, OperationsParts, WriteSnapshot \/ RebuildSwap \/ Crash \/ WarmStart
  PROVE  OperationsParts'
<1> USE DEF sessionVars, engineVars, commitVars, breakerVars, rebuildVars, database, clients
<1>1. applied \subseteq Logged \cup lost \cup QueuedOps \cup SnapshotOps
  BY AccountedIs DEF OperationsParts
<1>2. CASE WriteSnapshot
  <2>1. /\ UNCHANGED <<phase, next, awaiting, pending, applied, queue, relayed, currentSeq,
                       lost, log, known, live, rebuildLog, rejected>>
        /\ snapshots \subseteq snapshots' /\ snapshots' \subseteq snapshots \cup {SnapshotRow}
    BY <1>2 DEF WriteSnapshot
  <2>2. SnapshotRow.ops = applied
    BY DEF SnapshotRow
  <2>3. SnapshotOps \subseteq SnapshotOps' /\ SnapshotOps' \subseteq SnapshotOps \cup applied
    BY <2>1, <2>2 DEF SnapshotOps
  <2>4. /\ QueueRows' = QueueRows /\ QueuedOps' = QueuedOps
        /\ RelayedRows' = RelayedRows /\ Logged' = Logged
    BY <2>1 DEF QueueRows, RowsOf, Rows, QueuedOps, ToSet, RelayedRows, Logged
  <2>5. EnteredOps' \subseteq EnteredOps
    BY <2>1, <2>3, <2>4 DEF EnteredOps
  <2>6. (log \cup QueueRows \cup RelayedRows)' \subseteq log \cup QueueRows \cup RelayedRows
    BY <2>1, <2>4
  <2>7. Resolved(applied', PendingOps') = {}
    BY <2>1 DEF OperationsParts, BufferDry, PendingOps
  <2>8. AtRest'
    BY <2>1, <2>4 DEF OperationsParts, AtRest
  <2>9. AppliedAccounted'
    <3>1. applied' \subseteq (Logged \cup lost \cup QueuedOps \cup SnapshotOps)'
      BY <1>1, <2>1, <2>3, <2>4
    <3> QED
      BY <3>1 DEF AppliedAccounted, QueuedOps, SnapshotOps
  <2>10. awaiting' \subseteq awaiting /\ pending' \subseteq pending /\ rejected' \subseteq rejected
         /\ \A t \in Sessions : known'[t] \subseteq known[t] \cup EnteredOps
    BY <2>1
  <2> QED
    BY <2>1, <2>4, <2>5, <2>6, <2>7, <2>8, <2>9, <2>10, NothingNew
<1>3. CASE RebuildSwap
  <2>1. /\ UNCHANGED <<phase, next, awaiting, queue, snapshots, currentSeq, log, known, rejected>>
        /\ phase = "up" /\ rebuildLog' = {}
        /\ \/ UNCHANGED <<live, applied, pending, lost, relayed>>
           \/ /\ applied' = Resolved({}, rebuildLog) /\ pending' = {} /\ live' = {}
              /\ relayed' = [s \in Sessions |-> {}]
    BY <1>3 DEF RebuildSwap
  <2>2. /\ QueueRows' = QueueRows /\ QueuedOps' = QueuedOps
        /\ SnapshotOps' = SnapshotOps /\ Logged' = Logged
    BY <2>1 DEF QueueRows, RowsOf, Rows, QueuedOps, ToSet, SnapshotOps, Logged
  <2>3. RelayedRows' = RelayedRows \/ RelayedRows' = {}
    BY <2>1 DEF RelayedRows
  <2>4. Resolved({}, rebuildLog) \subseteq Logged
    BY ResolvedSubset DEF OperationsParts, AtRest
  <2>5. EnteredOps' \subseteq EnteredOps
    BY <2>1, <2>2, <2>3, <2>4 DEF EnteredOps
  <2>6. (log \cup QueueRows \cup RelayedRows)' \subseteq log \cup QueueRows \cup RelayedRows
    BY <2>1, <2>2, <2>3
  <2>7. Resolved(applied', PendingOps') = {}
    <3>1. CASE UNCHANGED <<applied, pending>>
      BY <3>1 DEF OperationsParts, BufferDry, PendingOps
    <3>2. CASE pending' = {}
      <4>1. PendingOps' = {}
        BY <3>2 DEF PendingOps
      <4>2. Resolved(applied', {}) = {}
        BY ResolvedSubset
      <4> QED
        BY <4>1, <4>2
    <3> QED
      BY <2>1, <3>1, <3>2
  <2>8. AtRest'
    BY <2>1 DEF AtRest
  <2>9. AppliedAccounted'
    <3>1. applied' \subseteq (Logged \cup lost \cup QueuedOps \cup SnapshotOps)'
      BY <1>1, <2>1, <2>2, <2>4
    <3> QED
      BY <3>1 DEF AppliedAccounted, QueuedOps, SnapshotOps
  <2>10. awaiting' \subseteq awaiting /\ pending' \subseteq pending /\ rejected' \subseteq rejected
         /\ \A t \in Sessions : known'[t] \subseteq known[t] \cup EnteredOps
    BY <2>1
  <2> QED
    BY <2>1, <2>3, <2>5, <2>6, <2>7, <2>8, <2>9, <2>10, NothingNew
<1>4. CASE Crash
  <2>1. /\ UNCHANGED <<next, snapshots, log, known, rejected>>
        /\ phase' = "down" /\ live' = {} /\ awaiting' = {} /\ applied' = {} /\ pending' = {}
        /\ queue' = <<>> /\ rebuildLog' = {} /\ relayed' = [s \in Sessions |-> {}]
    BY <1>4 DEF Crash
  <2>2. /\ QueueRows' = {} /\ QueuedOps' = {} /\ RelayedRows' = {} /\ PendingOps' = {}
        /\ SnapshotOps' = SnapshotOps /\ Logged' = Logged
    BY <2>1 DEF QueueRows, RowsOf, Rows, QueuedOps, SnapshotOps, Logged, RelayedRows, PendingOps
  <2>3. EnteredOps' \subseteq EnteredOps
    BY <2>1, <2>2 DEF EnteredOps
  <2>4. (log \cup QueueRows \cup RelayedRows)' \subseteq log \cup QueueRows \cup RelayedRows
    BY <2>1, <2>2
  <2>5. Resolved(applied', PendingOps') = {}
    <3>1. Resolved(applied', {}) = {}
      BY ResolvedSubset
    <3> QED
      BY <2>2, <3>1
  <2>6. AtRest' /\ AppliedAccounted'
    BY <2>1, <2>2 DEF AtRest, AppliedAccounted
  <2>7. awaiting' \subseteq awaiting /\ pending' \subseteq pending /\ rejected' \subseteq rejected
        /\ \A t \in Sessions : known'[t] \subseteq known[t] \cup EnteredOps
    BY <2>1
  <2> QED
    BY <2>1, <2>2, <2>3, <2>4, <2>5, <2>6, <2>7, NothingNew
<1>5. CASE WarmStart
  <2>1. /\ UNCHANGED <<next, awaiting, pending, live, queue, snapshots, log, known, rejected,
                       rebuildLog, relayed, lost>>
        /\ phase = "down" /\ phase' \in {"up", "failed"}
        /\ applied' = Replayed \/ applied' = applied
    BY <1>5 DEF WarmStart
  <2>2. /\ pending = {} /\ awaiting = {} /\ live = {} /\ RelayedRows = {}
        /\ rebuildLog \subseteq Logged
    BY <2>1 DEF OperationsParts, AtRest
  <2>3. /\ QueueRows' = QueueRows /\ QueuedOps' = QueuedOps /\ RelayedRows' = {}
        /\ SnapshotOps' = SnapshotOps /\ Logged' = Logged /\ PendingOps' = {}
    BY <2>1, <2>2 DEF QueueRows, RowsOf, Rows, QueuedOps, ToSet, SnapshotOps, Logged,
                      RelayedRows, PendingOps
  <2>4. Replayed \subseteq SnapshotOps \cup Logged
    <3>1. LatestOps \subseteq SnapshotOps
      BY DEF LatestOps, SnapshotOps
    <3>2. Suffix \subseteq Logged
      BY DEF Suffix, Logged
    <3>3. Resolved(LatestOps, Suffix) \subseteq Suffix
      BY ResolvedSubset
    <3> QED
      BY <3>1, <3>2, <3>3 DEF Replayed
  <2>5. EnteredOps' \subseteq EnteredOps
    BY <2>1, <2>3, <2>4 DEF EnteredOps
  <2>6. (log \cup QueueRows \cup RelayedRows)' \subseteq log \cup QueueRows \cup RelayedRows
    BY <2>1, <2>3
  <2>7. Resolved(applied', PendingOps') = {}
    <3>1. Resolved(applied', {}) = {}
      BY ResolvedSubset
    <3> QED
      BY <2>3, <3>1
  <2>8. AtRest'
    BY <2>1, <2>2, <2>3 DEF AtRest
  <2>9. AppliedAccounted'
    <3>1. applied' \subseteq (Logged \cup lost \cup QueuedOps \cup SnapshotOps)'
      BY <1>1, <2>1, <2>3, <2>4
    <3> QED
      BY <3>1 DEF AppliedAccounted, QueuedOps, SnapshotOps
  <2>10. awaiting' \subseteq awaiting /\ pending' \subseteq pending /\ rejected' \subseteq rejected
         /\ \A t \in Sessions : known'[t] \subseteq known[t] \cup EnteredOps
         /\ RelayedRows' \subseteq RelayedRows
    BY <2>1, <2>2, <2>3
  <2> QED
    BY <2>1, <2>3, <2>5, <2>6, <2>7, <2>8, <2>9, <2>10, NothingNew
<1> QED
  BY <1>2, <1>3, <1>4, <1>5

\* Whatever has been written down has entered, under a number reserved by now.
LEMMA RowsEntered ==
  ASSUME DurabilityInv, RowsAgree, phase = "up", NEW r \in log \cup QueueRows \cup RelayedRows
  PROVE  r.op \in EnteredOps /\ r.seq \in Nat \ {0} /\ r.seq <= currentSeq
<1>1. currentSeq \in Nat /\ docSeq \in Nat /\ docSeq <= currentSeq
  BY DEF DurabilityInv, TypeOK, CommitTypes, DatabaseTypes, SeqDiscipline
<1>2. CASE r \in log
  BY <1>1, <1>2 DEF DurabilityInv, TypeOK, DatabaseTypes, Row, SeqDiscipline, EnteredOps, Logged
<1>3. CASE r \in QueueRows
  <2>1. PICK i \in DOMAIN queue : r \in Rows(queue[i])
    BY <1>3 DEF QueueRows, RowsOf
  <2>2. queue[i] \in EntryType /\ EndSeq(queue[i]) <= currentSeq
    BY DEF DurabilityInv, TypeOK, CommitTypes, SeqDiscipline
  <2>3. r \in Row /\ r.seq <= EndSeq(queue[i]) /\ EndSeq(queue[i]) \in Nat
    BY <2>1, <2>2, EntryRows
  <2>4. r.op \in QueuedOps
    BY <1>3, QueueRowsOps
  <2> QED
    BY <1>1, <2>2, <2>3, <2>4 DEF Row, EnteredOps
<1>4. CASE r \in RelayedRows
  BY <1>4 DEF RowsAgree, EnteredOps, RelayedRows, DurabilityInv, TypeOK, ClientTypes, Row
<1> QED
  BY <1>2, <1>3, <1>4

\* A message is applied, and what it let through is published.
LEMMA OperationsPublished ==
  ASSUME DurabilityInv, OperationsParts, NEW m \in awaiting, RunFastPath(m) \/ RunSlowPath(m)
  PROVE  OperationsParts'
<1>1. TypeOK /\ OperationsInv
  BY DEF DurabilityInv, OperationsInv, OperationsParts
<1>2. phase = "up" /\ awaiting' = awaiting \ {m}
  BY <1>1, Published
<1>3. PICK entries \in Seq(EntryType), last \in Nat :
        Publish(m, entries, last) /\ WellNumbered(entries, m, last)
  BY <1>1, Published
<1>4. /\ applied' = applied \cup Fresh(m)
      /\ PendingOps' = (PendingOps \cup MessageSet(m)) \ Fresh(m)
      /\ AwaitedOps' = AwaitedOps \ MessageSet(m)
      /\ QueueRows' = QueueRows \cup RowsOf(entries)
      /\ QueuedOps' = QueuedOps \cup Fresh(m)
      /\ RelayedRows' \subseteq RelayedRows \cup RowsOf(entries)
      /\ \A s \in Sessions : known'[s] \subseteq known[s] \cup Fresh(m)
      /\ currentSeq' = last
      /\ UNCHANGED <<phase, rebuildVars, database, next, rejected, lost>>
  BY <1>1, <1>2, <1>3, PublishEffect
<1>5. /\ Fresh(m) \subseteq PendingOps \cup MessageSet(m)
      /\ MessageSet(m) \subseteq AwaitedOps
  BY <1>1, <1>2, EngineEffect, AwaitedLess DEF OperationsInv, TypeOK
<1>6. SnapshotOps' = SnapshotOps /\ Logged' = Logged /\ log' = log
  BY <1>4 DEF SnapshotOps, Logged, database
<1>7. EnteredOps' \subseteq EnteredOps \cup Fresh(m)
  BY <1>3, <1>4, <1>6 DEF EnteredOps, WellNumbered
<1>8. PlacesApart'
  BY <1>4, <1>5, <1>7 DEF OperationsParts, PlacesApart
<1>9. Single' /\ BufferDry'
  <2>1. pending' = StillPending(m)
    BY <1>3 DEF Publish
  <2>2. \A p, q \in pending' : p.op = q.op => p = q
    BY <1>1, <2>1, BufferEffect
  <2>3. \A p \in pending' : p.at \in Int
    BY <1>1, <2>1, BufferEffect
  <2>4. Resolved(applied', PendingOps') = {}
    BY <1>4, DrainedDry DEF Fresh
  <2> QED
    BY <1>2, <2>2, <2>3, <2>4 DEF OperationsParts, Single, BufferDry
<1>10. OnlySent' /\ InOrder'
  <2>1. SentOps' = SentOps
    BY <1>4 DEF SentOps
  <2>2. OnlySent'
    BY <1>2, <1>4, <1>5, <1>7, <2>1 DEF OperationsParts, OnlySent
  <2>3. InOrder'
    BY <1>2 DEF OperationsParts, InOrder, Preceding, MessageOps, Indices
  <2> QED
    BY <2>2, <2>3
<1>11. RowsAgree'
  <2> DEFINE Old == log \cup QueueRows \cup RelayedRows
             New == RowsOf(entries)
  <2>1. ASSUME NEW r \in Old PROVE r.op \in EnteredOps /\ r.seq \in Nat /\ r.seq <= currentSeq
    BY <1>2, RowsEntered DEF OperationsParts
  <2>2. ASSUME NEW r \in New
        PROVE  r.op \in Fresh(m) /\ r.seq \in Int /\ currentSeq < r.seq /\ r.seq <= last
    BY <1>3 DEF WellNumbered
  <2>3. Fresh(m) \cap EnteredOps = {}
    BY <1>5 DEF OperationsParts, PlacesApart
  <2>4. (log \cup QueueRows \cup RelayedRows)' \subseteq Old \cup New
    BY <1>4, <1>6
  <2>5. currentSeq \in Nat
    BY <1>1 DEF TypeOK, CommitTypes
  <2>6. ASSUME NEW r \in Old \cup New, NEW q \in Old \cup New PROVE r.seq = q.seq <=> r.op = q.op
    <3>1. CASE r \in Old /\ q \in Old
      BY <3>1 DEF OperationsParts, RowsAgree
    <3>2. CASE r \in New /\ q \in New
      BY <1>3, <3>2 DEF WellNumbered
    <3>3. CASE r \in Old /\ q \in New
      <4>1. /\ r.op \in EnteredOps /\ r.seq \in Nat /\ r.seq <= currentSeq
            /\ q.op \in Fresh(m) /\ q.seq \in Int /\ currentSeq < q.seq
        BY <2>1, <2>2, <3>3
      <4> QED
        BY <2>3, <2>5, <4>1
    <3>4. CASE r \in New /\ q \in Old
      <4>1. /\ q.op \in EnteredOps /\ q.seq \in Nat /\ q.seq <= currentSeq
            /\ r.op \in Fresh(m) /\ r.seq \in Int /\ currentSeq < r.seq
        BY <2>1, <2>2, <3>4
      <4> QED
        BY <2>3, <2>5, <4>1
    <3> QED
      BY <3>1, <3>2, <3>3, <3>4
  <2>7. \A r \in RelayedRows' : r.seq <= last
    <3>1. currentSeq <= last
      BY <1>3 DEF WellNumbered
    <3>2. RelayedRows' \subseteq Old \cup New
      BY <1>4
    <3> QED
      BY <2>1, <2>2, <2>5, <3>1, <3>2
  <2> HIDE DEF Old, New
  <2> QED
    BY <1>4, <2>4, <2>6, <2>7 DEF RowsAgree
<1>12. AtRest'
  BY <1>2, <1>4, <1>6 DEF OperationsParts, AtRest, rebuildVars
<1>13. AppliedAccounted'
  <2>1. applied \subseteq Logged \cup lost \cup QueuedOps \cup SnapshotOps
    BY AccountedIs DEF OperationsParts
  <2>2. applied' \subseteq (Logged \cup lost \cup QueuedOps \cup SnapshotOps)'
    BY <1>4, <1>6, <2>1
  <2> QED
    BY <2>2 DEF AppliedAccounted, QueuedOps, SnapshotOps
<1> QED
  BY <1>8, <1>9, <1>10, <1>11, <1>12, <1>13 DEF OperationsParts

\* A message is received: its operations were never seen before, and refer to what
\* its client had seen by then.
LEMMA OperationsReceived ==
  ASSUME TypeOK, OperationsParts, NEW s \in Sessions, Receive(s)
  PROVE  OperationsParts'
<1> USE DEF sessionVars, engineVars, commitVars, breakerVars, rebuildVars, database, clients
<1> DEFINE k == next[s]
           ops == Script[s][k]
           m == [session |-> s, epoch |-> epoch[s], index |-> k]
<1>1. /\ k \in DOMAIN Script[s] /\ k \in Nat \ {0} /\ ops \in Seq(Ops)
      /\ MessageOps(m) = ops
  <2>1. k \in Nat \ {0} /\ k <= Len(Script[s]) /\ Script[s] \in Seq(Seq(Ops))
    BY WritePathAssumption DEF Receive, TypeOK, ClientTypes
  <2>2. k \in DOMAIN Script[s]
    BY <2>1
  <2> QED
    BY <2>1, <2>2 DEF MessageOps
<1>2. /\ phase = "up"
      /\ \A i \in DOMAIN ops : Dep[ops[i]] \in known[s] \cup {NoOp} \cup {ops[j] : j \in 1..(i-1)}
      /\ next' = [next EXCEPT ![s] = k + 1]
      /\ known' = [known EXCEPT ![s] = @ \cup ToSet(ops)]
      /\ \/ rejected' = rejected \cup ToSet(ops) /\ awaiting' = awaiting
         \/ awaiting' = awaiting \cup {m} /\ rejected' = rejected
      /\ UNCHANGED <<phase, live, applied, pending, currentSeq, queue, log, snapshots,
                     relayed, rebuildLog, lost>>
  BY <1>1 DEF Receive
<1>3. ToSet(ops) \subseteq Ops
  BY <1>1 DEF ToSet
<1>4. ToSet(ops) \cap SentOps = {}
  <2> SUFFICES ASSUME NEW o \in ToSet(ops), o \in SentOps PROVE FALSE
    OBVIOUS
  <2>1. PICK t \in Sessions : \E l \in DOMAIN Script[t] : l < next[t] /\ o \in ToSet(Script[t][l])
    BY DEF SentOps
  <2>2. PICK l \in DOMAIN Script[t] : l < next[t] /\ o \in ToSet(Script[t][l])
    BY <2>1
  <2>3. PICK i \in DOMAIN ops, j \in DOMAIN Script[t][l] : ops[i] = o /\ Script[t][l][j] = o
    BY <2>2 DEF ToSet
  <2>4. s = t /\ k = l
    BY <1>1, <2>3, SentOnceAssumption
  <2> QED
    BY <1>1, <2>2, <2>4
<1>5. SentOps' = SentOps \cup ToSet(ops)
  <2>1. \A t \in Sessions : next[t] \in Nat /\ next'[t] = IF t = s THEN k + 1 ELSE next[t]
    BY <1>2 DEF TypeOK, ClientTypes
  <2>2. \A t \in Sessions : \A l \in DOMAIN Script[t] : l \in Nat
    BY WritePathAssumption
  <2>3. \A t \in Sessions : \A l \in DOMAIN Script[t] :
          l < next'[t] <=> l < next[t] \/ (t = s /\ l = k)
    BY <1>1, <2>1, <2>2
  <2> QED
    BY <1>1, <1>3, <2>3 DEF SentOps
<1>6. /\ AwaitedOps' \subseteq AwaitedOps \cup (ToSet(ops) \ rejected')
      /\ rejected' \subseteq rejected \cup ToSet(ops)
      /\ rejected' = rejected \/ AwaitedOps' = AwaitedOps
  <2>1. CASE rejected' = rejected \cup ToSet(ops) /\ awaiting' = awaiting
    BY <2>1 DEF AwaitedOps, MessageOps
  <2>2. CASE awaiting' = awaiting \cup {m} /\ rejected' = rejected
    <3>1. AwaitedOps' = AwaitedOps \cup ToSet(ops)
      BY <1>1, <2>2 DEF AwaitedOps, MessageOps
    <3>2. rejected \subseteq SentOps
      BY DEF OperationsParts, OnlySent
    <3> QED
      BY <1>4, <2>2, <3>1, <3>2
  <2> QED
    BY <1>2, <2>1, <2>2
<1>7. EnteredOps' = EnteredOps /\ PendingOps' = PendingOps /\ RelayedRows' = RelayedRows
      /\ (log \cup QueueRows \cup RelayedRows)' = log \cup QueueRows \cup RelayedRows
      /\ Logged' = Logged /\ QueuedOps' = QueuedOps /\ SnapshotOps' = SnapshotOps
  BY <1>2, NothingMoves DEF PendingOps
<1>8. AwaitedOps \cup PendingOps \cup EnteredOps \cup rejected \subseteq SentOps
  BY DEF OperationsParts, OnlySent
<1>9. PlacesApart'
  BY <1>4, <1>6, <1>7, <1>8 DEF OperationsParts, PlacesApart
<1>10. Single'
  <2>1. \A n \in awaiting : n.session = s => n.index < k
    BY DEF OperationsParts, OnlySent
  <2>2. \A n \in awaiting : ~(n.session = m.session /\ n.index = m.index)
    BY <1>1, <2>1
  <2>3. \A n1, n2 \in awaiting' : n1.session = n2.session /\ n1.index = n2.index => n1 = n2
    BY <1>2, <2>2 DEF OperationsParts, Single
  <2> QED
    BY <1>2, <2>3 DEF OperationsParts, Single
<1>11. \A o \in ToSet(ops) : Dep[o] \in SentOps' \cup {NoOp}
  <2> SUFFICES ASSUME NEW i \in DOMAIN ops PROVE Dep[ops[i]] \in SentOps' \cup {NoOp}
    BY DEF ToSet
  <2>1. \A j \in 1..(i-1) : ops[j] \in ToSet(ops)
    BY <1>1 DEF ToSet
  <2>2. known[s] \subseteq SentOps
    BY DEF OperationsParts, OnlySent
  <2> QED
    BY <1>2, <1>5, <2>1, <2>2
<1>12. OnlySent'
  <2>1. (AwaitedOps \cup PendingOps \cup EnteredOps \cup rejected)' \subseteq SentOps'
    BY <1>5, <1>6, <1>7, <1>8
  <2>2. \A t \in Sessions : known'[t] \subseteq SentOps'
    BY <1>2, <1>5 DEF OperationsParts, OnlySent, TypeOK, ClientTypes
  <2>3. \A n \in awaiting' : n.index < next'[n.session]
    <3>1. \A n \in awaiting : n.session \in Sessions /\ n.index \in Nat /\ n.index < next[n.session]
      BY WritePathAssumption DEF OperationsParts, OnlySent, TypeOK, SessionTypes
    <3>2. \A t \in Sessions : next[t] \in Nat /\ next[t] <= next'[t]
      BY <1>2 DEF TypeOK, ClientTypes
    <3>3. m.index < next'[m.session]
      BY <1>1, <1>2 DEF TypeOK, ClientTypes
    <3>4. \A n \in awaiting : next'[n.session] \in Nat
      BY <1>1, <1>2, <3>1 DEF TypeOK, ClientTypes
    <3> QED
      BY <1>2, <3>1, <3>2, <3>3, <3>4
  <2>4. \A o \in SentOps' : Dep[o] \in SentOps' \cup {NoOp}
    BY <1>5, <1>11 DEF OperationsParts, OnlySent
  <2> QED
    BY <2>1, <2>2, <2>3, <2>4 DEF OnlySent
<1>13. InOrder'
  <2>1. Preceding(m, SentOps)
    <3>1. \A i \in DOMAIN ops :
            Dep[ops[i]] \in SentOps \cup {NoOp} \cup {ops[j] : j \in 1..(i-1)}
      BY <1>2 DEF OperationsParts, OnlySent
    <3>2. Indices(m) = DOMAIN ops
      BY <1>1 DEF Indices
    <3> QED
      BY <1>1, <1>4, <3>1, <3>2 DEF Preceding, OperationsParts, OnlySent
  <2>2. SentOps \in SUBSET Ops
    BY DEF SentOps
  <2>3. \A n \in awaiting' : \E B \in SUBSET Ops : Preceding(n, B)
    BY <1>2, <2>1, <2>2 DEF OperationsParts, InOrder
  <2> QED
    BY <2>3 DEF InOrder, Preceding, MessageOps, Indices
<1>14. BufferDry' /\ RowsAgree' /\ AtRest'
  BY <1>2, <1>7 DEF OperationsParts, BufferDry, RowsAgree, AtRest
<1>15. AppliedAccounted'
  <2>1. applied' \subseteq (Logged \cup lost \cup QueuedOps \cup SnapshotOps)'
    BY <1>2, <1>7, AccountedIs DEF OperationsParts
  <2> QED
    BY <2>1 DEF AppliedAccounted, QueuedOps, SnapshotOps
<1> QED
  BY <1>9, <1>10, <1>12, <1>13, <1>14, <1>15 DEF OperationsParts

\* Every step of the write path keeps the invariant.
LEMMA OperationsStep ==
  ASSUME OperationsInv, [Next]_vars
  PROVE  OperationsInv'
<1>1. DurabilityInv /\ TypeOK /\ OperationsParts
  BY DEF OperationsInv, OperationsParts, DurabilityInv
<1>2. DurabilityInv'
  BY <1>1, DurabilityStep
<1>3. OperationsParts'
  BY <1>1, OperationsQuiet, OperationsStored, OperationsSettled, OperationsRestored,
     OperationsPublished, OperationsReceived DEF Next
<1> QED
  BY <1>2, <1>3 DEF OperationsInv, OperationsParts

\* Nothing is under way at first.
LEMMA OperationsInit == Init => OperationsInv
<1> SUFFICES ASSUME Init PROVE OperationsInv
  OBVIOUS
<1>1. /\ AwaitedOps = {} /\ PendingOps = {} /\ QueuedOps = {} /\ Logged = {}
      /\ SnapshotOps = {} /\ RelayedRows = {} /\ QueueRows = {}
      /\ applied = {} /\ rejected = {} /\ log = {} /\ pending = {} /\ awaiting = {}
      /\ rebuildLog = {} /\ phase = "up"
  BY DEF Init, AwaitedOps, PendingOps, QueuedOps, Logged, SnapshotOps, RelayedRows, QueueRows,
         RowsOf
<1>2. EnteredOps = {}
  BY <1>1 DEF EnteredOps
<1>3. SentOps = {}
  <2>1. \A s \in Sessions : next[s] = 1
    BY DEF Init
  <2>2. \A s \in Sessions : \A k \in DOMAIN Script[s] : ~(k < 1)
    BY WritePathAssumption
  <2> QED
    BY <2>1, <2>2 DEF SentOps
<1>4. PlacesApart /\ Single /\ InOrder
  BY <1>1, <1>2 DEF PlacesApart, Single, InOrder
<1>5. OnlySent
  BY <1>1, <1>2, <1>3 DEF OnlySent, Init
<1>6. BufferDry
  BY <1>1, ResolvedSubset DEF BufferDry
<1>7. RowsAgree /\ AtRest /\ AppliedAccounted
  BY <1>1 DEF RowsAgree, AtRest, AppliedAccounted
<1>8. DurabilityInv
  BY TypeInit, DurabilityInit DEF DurabilityInv
<1> QED
  BY <1>4, <1>5, <1>6, <1>7, <1>8 DEF OperationsInv

\* The inductive invariant holds in every reachable state.
LEMMA OperationsInvariant == Spec => []OperationsInv
BY OperationsInit, OperationsStep, PTL DEF Spec

\* A sequence number names one operation: what a session was told about it is what
\* the log says, whatever was lost, rebuilt or restarted in between.
THEOREM RelayedRowsMatchLog == Spec => []RelayedMatchesLog
<1>1. OperationsInv => RelayedMatchesLog
  BY DEF OperationsInv, RowsAgree, RelayedMatchesLog, RelayedRows
<1> QED
  BY <1>1, OperationsInvariant, PTL

\* Nothing the engine shows is forgotten, nothing refused is ever applied or logged,
\* and the sweep only ever finds what cannot be applied.
THEOREM OperationsAreAccounted == Spec => []OpsAccounted
<1>1. ASSUME OperationsInv PROVE OpsAccounted
  <2>1. AppliedAccounted
    BY <1>1 DEF OperationsInv
  <2>2. RejectedNotApplied
    BY <1>1 DEF OperationsInv, PlacesApart, EnteredOps, RejectedNotApplied
  <2>3. ASSUME NEW p \in pending
        PROVE  p.op \notin applied /\ Dep[p.op] \notin applied \cup {NoOp}
    <3>1. p.op \in PendingOps /\ Resolved(applied, PendingOps) = {}
      BY <1>1 DEF PendingOps, OperationsInv, BufferDry
    <3>2. p.op \notin applied
      BY <1>1, <3>1 DEF OperationsInv, PlacesApart, EnteredOps
    <3>3. Dep[p.op] \notin applied \cup {NoOp}
      BY <3>1, ResolvedMaximal
    <3> QED
      BY <3>2, <3>3
  <2> QED
    BY <2>1, <2>2, <2>3 DEF OpsAccounted, PendingBlocked
<1> QED
  BY <1>1, OperationsInvariant, PTL

=============================================================================
