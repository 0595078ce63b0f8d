------------------------------ MODULE Messages ------------------------------
(***************************************************************************)
(* What the operations of an engine travel in: the messages of the ops     *)
(* channel and the structure snapshot (packages/protocol/src/expand.ts and *)
(* snapshotBody.ts, snapshotSeed.ts, client/src/sync/wireHelpers.ts).      *)
(*                                                                         *)
(* An operation of Engine carries no character; here chars says which      *)
(* character an identifier has, and a message carries it.  The bytes of a  *)
(* message are module Wire.                                                *)
(***************************************************************************)
EXTENDS Engine

\* The characters that new operations add, after those that are known.
Learn(chars, valued) ==
  [id \in {v.op.id : v \in {w \in ToSet(valued) : w.op.kind = "insert"}} |->
     (CHOOSE v \in ToSet(valued) : v.op.id = id).value] @@ chars

\* An operation with the character it inserts; the others insert none.
Valued(op, chars) == [op |-> op, value |-> IF op.kind = "insert" THEN chars[op.id] ELSE "none"]

\* The longest stretches of s in which every element follows on from the last.
Stretches(s, Follows(_, _)) ==
  LET extend(groups, x) ==
        IF groups # <<>> /\ Follows(x, Last(Last(groups)))
        THEN Append(Front(groups), Append(Last(groups), x))
        ELSE Append(groups, <<x>>)
  IN  FoldLeft(extend, <<>>, s)

-----------------------------------------------------------------------------
(* Operations as messages *)

\* Mutant: whether a character binds to the one before it is not compared.
ContinuesRunAnyBind(next, prev) ==
  /\ next.side = "R" /\ next.parent = prev.id
  /\ next.id[2] = prev.id[2] /\ next.id[1] = prev.id[1] + 1

\* Typed one right after the other, with nothing between their counters.
ContinuesRun(next, prev) ==
  /\ next.bind = prev.bind
  /\ next.side = "R" /\ next.parent = prev.id
  /\ next.id[2] = prev.id[2] /\ next.id[1] = prev.id[1] + 1

ContinuesBatch(next, prev) == next.id[2] = prev.id[2] /\ next.id[1] = prev.id[1] + 1

OperationToOpsMessage(op, chars) ==
  CASE op.kind = "insert" -> [kind |-> "opInsert", id |-> op.id, parent |-> op.parent,
                              side |-> op.side, bind |-> op.bind, value |-> chars[op.id]]
    [] op.kind = "delete" -> [kind |-> "opDelete", id |-> op.id, target |-> op.target]
    [] op.kind = "undelete" -> [kind |-> "opUndelete", id |-> op.id, target |-> op.target]

InsertRun(group, chars) ==
  [kind |-> "opInsertRun", firstId |-> group[1].id, firstParent |-> group[1].parent,
   firstSide |-> group[1].side, bind |-> group[1].bind,
   values |-> [k \in DOMAIN group |-> chars[group[k].id]]]

DeleteBatch(group) ==
  [kind |-> "opDeleteBatch", by |-> group[1].id[2], atFirst |-> group[1].id[1],
   targets |-> [k \in DOMAIN group |-> group[k].target]]

OperationsToRunMessages(ops, chars) ==
  LET groups == Stretches(ops, ContinuesRun)
  IN  [g \in DOMAIN groups |-> IF Len(groups[g]) > 1 THEN InsertRun(groups[g], chars)
                               ELSE OperationToOpsMessage(groups[g][1], chars)]

DeleteOperationsToMessages(ops, chars) ==
  LET groups == Stretches(ops, ContinuesBatch)
  IN  [g \in DOMAIN groups |-> IF Len(groups[g]) > 1 THEN DeleteBatch(groups[g])
                               ELSE OperationToOpsMessage(groups[g][1], chars)]

OperationsToWireMessages(ops, chars) ==
  LET groups == Stretches(ops, LAMBDA next, prev : next.kind = prev.kind)
      messages(group) ==
        CASE group[1].kind = "insert" -> OperationsToRunMessages(group, chars)
          [] group[1].kind = "delete" -> DeleteOperationsToMessages(group, chars)
          [] group[1].kind = "undelete" ->
               [k \in DOMAIN group |-> OperationToOpsMessage(group[k], chars)]
  IN  FlattenSeq([g \in DOMAIN groups |-> messages(groups[g])])

-----------------------------------------------------------------------------
(* Messages as operations, each with the character it inserts *)

\* Element k of a run hangs to the right of element k - 1.
ExpandInsertRun(m) ==
  LET id(k) == <<m.firstId[1] + k - 1, m.firstId[2]>>
  IN  [k \in DOMAIN m.values |->
         [op |-> InsertOp(id(k), IF k = 1 THEN m.firstParent ELSE id(k - 1),
                          IF k = 1 THEN m.firstSide ELSE "R", m.bind),
          value |-> m.values[k]]]

ExpandDeleteBatch(m) ==
  [k \in DOMAIN m.targets |-> [op |-> DeleteOp(<<m.atFirst + k - 1, m.by>>, m.targets[k]),
                               value |-> "none"]]

ToOperations(m) ==
  CASE m.kind = "opInsert" ->
         <<[op |-> InsertOp(m.id, m.parent, m.side, m.bind), value |-> m.value]>>
    [] m.kind = "opInsertRun" -> ExpandInsertRun(m)
    [] m.kind = "opDelete" -> <<[op |-> DeleteOp(m.id, m.target), value |-> "none"]>>
    [] m.kind = "opDeleteBatch" -> ExpandDeleteBatch(m)
    [] m.kind = "opUndelete" -> <<[op |-> UndeleteOp(m.id, m.target), value |-> "none"]>>

-----------------------------------------------------------------------------
(* The structure snapshot *)

\* Engine.nodes: the nodes in document order, the deleted ones included.
Nodes(e, chars) ==
  LET order == ToArray(e.tree)
      node(id) == [id |-> id, parent |-> e.tree[id].parent, side |-> e.tree[id].side,
                   bind |-> e.tree[id].bind, deleted |-> e.tree[id].deleted,
                   deletedBy |-> e.tree[id].deletedBy, value |-> chars[id]]
  IN  [i \in DOMAIN order |-> node(order[i])]

\* Mutant: deleted and live characters share a block.
CanChainAfterDeleted(next, prev) == ContinuesRun(next, prev)

CanChainAfter(next, prev) ==
  /\ ContinuesRun(next, prev)
  /\ next.deleted = prev.deleted /\ next.deletedBy = prev.deletedBy

\* A block keeps the fields of its first node and the characters of all.
GroupIntoChainBlocks(nodes) ==
  LET groups == Stretches(nodes, CanChainAfter)
  IN  [g \in DOMAIN groups |->
         [first |-> groups[g][1], values |-> [k \in DOMAIN groups[g] |-> groups[g][k].value]]]

DecodeChainBlocks(blocks) ==
  LET id(b, k) == <<b.first.id[1] + k - 1, b.first.id[2]>>
      node(b, k) == IF k = 1 THEN b.first
                    ELSE [b.first EXCEPT !.id = id(b, k), !.parent = id(b, k - 1), !.side = "R",
                                         !.value = b.values[k]]
  IN  FlattenSeq([g \in DOMAIN blocks |->
                    [k \in DOMAIN blocks[g].values |-> node(blocks[g], k)]])

\* All the inserts, which wait for one another as they must, then the deletes.
ReplaySnapshotNodesInto(e, nodes) ==
  LET inserted == [i \in DOMAIN nodes |-> InsertOp(nodes[i].id, nodes[i].parent, nodes[i].side,
                                                   nodes[i].bind)]
      gone == SelectSeq(nodes, LAMBDA n : n.deleted)
  IN  FoldLeft(ApplyRemote, FoldLeft(ApplyRemote, e, inserted),
               [i \in DOMAIN gone |-> DeleteOp(gone[i].deletedBy, gone[i].id)])

SeedEngineFromSnapshot(replica, nodes) == ReplaySnapshotNodesInto(NewEngine(replica), nodes)
=============================================================================
