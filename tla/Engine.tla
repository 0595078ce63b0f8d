------------------------------- MODULE Engine -------------------------------
(***************************************************************************)
(* The convergence engine of one replica (packages/engine/src/engine.ts),  *)
(* as operators on an engine record:                                       *)
(*                                                                         *)
(*   me            this replica's identifier                               *)
(*   clock         the Lamport clock                                       *)
(*   tree          the node structure (module FugueTree)                   *)
(*   applied       identifiers of the operations already applied           *)
(*   pending       operations waiting for a node they refer to             *)
(*   deleteContext sequence number and time of a delete operation, by its  *)
(*                 identifier; only the server's engine fills it           *)
(*   maxCounter    greatest counter applied from each replica              *)
(*   undo, redo    stacks of [op, hadEffect], the top last                 *)
(*                                                                         *)
(* The test-only clockEvents log is left out.                              *)
(***************************************************************************)
EXTENDS FugueTree

NewEngine(replica) ==
  [me |-> replica, clock |-> 0, tree |-> EmptyTree, applied |-> {}, pending |-> <<>>,
   deleteContext |-> <<>>, maxCounter |-> <<>>, undo |-> <<>>, redo |-> <<>>]

InsertOp(id, parent, side, bind) ==
  [kind |-> "insert", id |-> id, parent |-> parent, side |-> side, bind |-> bind]

DeleteOp(id, target) == [kind |-> "delete", id |-> id, target |-> target]

UndeleteOp(id, target) == [kind |-> "undelete", id |-> id, target |-> target]

\* The node an operation is about.
TargetOf(op) == IF op.kind = "insert" THEN op.id ELSE op.target

\* f with k mapped to v, whether or not k was in its domain.
Put(f, k, v) == (k :> v) @@ f

Without(f, k) == [x \in DOMAIN f \ {k} |-> f[x]]

-----------------------------------------------------------------------------
(* The clock *)

Mint(e) == [e EXCEPT !.clock = @ + 1]

\* The identifier the last Mint(e) produced.
Minted(e) == <<e.clock, e.me>>

\* Mutant: remote counters do not lift the clock.
ObserveNothing(e, remoteCounter) == e

Observe(e, remoteCounter) == [e EXCEPT !.clock = IF remoteCounter > @ THEN remoteCounter ELSE @]

-----------------------------------------------------------------------------
(* Applying operations *)

Ready(e, op) ==
  IF op.kind = "insert" THEN op.parent = Null \/ HasIdentifier(e.tree, op.parent)
  ELSE HasIdentifier(e.tree, op.target)

ApplyInsert(e, op) == [e EXCEPT !.tree = Attach(@, op.id, op.bind, op.parent, op.side)]

\* Mutant: the delete that arrives last keeps the attribution.
LastArrival(current, id) == id

\* Mutant: the least delete keeps the attribution; null is the least of all.
EarliestDelete(current, id) == IF IdLess(id, current) THEN id ELSE current

\* The greatest delete keeps the attribution, whichever arrived last.
LatestDelete(current, id) == IF current = Null \/ IdLess(current, id) THEN id ELSE current

\* Mutant: a childless node is removed at once instead of being marked.
ApplyDeleteHard(e, op) ==
  [e EXCEPT !.tree = IF IsLeaf(@, op.target) THEN RemoveLeaf(@, op.target)
                     ELSE SetDeleted(@, op.target, TRUE, op.id)]

ApplyDelete(e, op) ==
  [e EXCEPT !.tree = SetDeleted(@, op.target, TRUE,
                                LatestDelete(@[op.target].deletedBy, op.id))]

\* Only the replica that holds the attribution may revive the node.
ApplyUndelete(e, op) ==
  LET by == e.tree[op.target].deletedBy
  IN  IF by # Null /\ by[2] = op.id[2]
      THEN [e EXCEPT !.tree = SetDeleted(@, op.target, FALSE, Null),
                     !.deleteContext = Without(@, by)]
      ELSE e

ApplyEffect(e, op) ==
  CASE op.kind = "insert"   -> ApplyInsert(e, op)
    [] op.kind = "delete"   -> ApplyDelete(e, op)
    [] op.kind = "undelete" -> ApplyUndelete(e, op)

Seen(e, replica) == IF replica \in DOMAIN e.maxCounter THEN e.maxCounter[replica] ELSE 0

DoApply(e, op) ==
  LET observed == Observe(e, op.id[1])
      counted == IF op.id[1] > Seen(e, op.id[2])
                 THEN [observed EXCEPT !.maxCounter = Put(@, op.id[2], op.id[1])]
                 ELSE observed
  IN  [ApplyEffect(counted, op) EXCEPT !.applied = @ \cup {op.id}]

\* One sweep over pending, from its end: apply what is ready, drop duplicates.
DrainPass(e) ==
  LET visit(op, acc) ==
        IF op.id \in acc.applied THEN acc
        ELSE IF Ready(acc, op) THEN DoApply(acc, op)
        ELSE [acc EXCEPT !.pending = <<op>> \o @]
  IN  FoldRight(visit, e.pending, [e EXCEPT !.pending = <<>>])

\* Mutant: a single sweep.
DrainOnce(e) == DrainPass(e)

\* Sweeps until one makes no progress; each sweep that does shortens pending.
Drain(e) == FoldLeft(LAMBDA acc, op : DrainPass(acc), e, e.pending)

ApplyRemote(e, op) ==
  IF op.id \in e.applied THEN e
  ELSE IF Ready(e, op) THEN Drain(DoApply(e, op))
  ELSE [e EXCEPT !.pending = Append(@, op)]

-----------------------------------------------------------------------------
(* Local edits: each returns the new engine and the operations to send *)

LocalInsert(e, index, bind) ==
  LET at == DecidePlacement(e.tree, index)
      m == Mint(e)
      op == InsertOp(Minted(m), at.parent, at.side, bind)
  IN  [engine |-> [ApplyInsert(m, op) EXCEPT
                     !.applied = @ \cup {op.id},
                     !.undo = Append(@, [op |-> op, hadEffect |-> TRUE]),
                     !.redo = <<>>],
       ops |-> <<op>>]

\* Up to count deletes, all at the same visible index of the shrinking text.
LocalDelete(e, index, count) ==
  LET step(r, k) ==
        IF index >= r.engine.tree[Root].vis THEN r
        ELSE LET m == Mint(r.engine)
                 op == DeleteOp(Minted(m), NodeAtVisible(m.tree, index))
             IN  [engine |-> [ApplyDelete(m, op) EXCEPT
                                !.applied = @ \cup {op.id},
                                !.undo = Append(@, [op |-> op, hadEffect |-> TRUE])],
                  ops |-> Append(r.ops, op)]
  IN  FoldLeft(step, [engine |-> [e EXCEPT !.redo = <<>>], ops |-> <<>>],
               [k \in 1..count |-> k])

-----------------------------------------------------------------------------
(* Undo and redo *)

StandardInverse(op, id) ==
  IF op.kind = "delete" THEN UndeleteOp(id, op.target) ELSE DeleteOp(id, TargetOf(op))

RepeatSameKind(op, id) == [op EXCEPT !.id = id]

\* Mutant: every entry counts as one that had an effect.
ReverseAsEffective(e, entry) ==
  LET m == Mint(e)
      inv == StandardInverse(entry.op, Minted(m))
      done == [ApplyEffect(m, inv) EXCEPT !.applied = @ \cup {inv.id}]
  IN  [engine |-> done, ops |-> <<inv>>, push |-> <<[op |-> inv, hadEffect |-> TRUE]>>]

\* Reverse one stack entry; what entry to push on the other stack is returned
\* with the operation.  An entry whose target is gone is dropped.
Reverse1(e, entry) ==
  LET target == TargetOf(entry.op)
      m == Mint(e)
      inv == IF entry.hadEffect THEN StandardInverse(entry.op, Minted(m))
             ELSE RepeatSameKind(entry.op, Minted(m))
      done == [ApplyEffect(m, inv) EXCEPT !.applied = @ \cup {inv.id}]
  IN  IF ~HasIdentifier(e.tree, target)
      THEN [engine |-> e, ops |-> <<>>, push |-> <<>>]
      ELSE [engine |-> done, ops |-> <<inv>>,
            push |-> <<[op |-> inv,
                        hadEffect |-> e.tree[target].deleted # done.tree[target].deleted]>>]

Undo(e) ==
  LET r == Reverse1([e EXCEPT !.undo = Front(@)], Last(e.undo))
  IN  [engine |-> [r.engine EXCEPT !.redo = @ \o r.push], ops |-> r.ops]

Redo(e) ==
  LET r == Reverse1([e EXCEPT !.redo = Front(@)], Last(e.redo))
  IN  [engine |-> [r.engine EXCEPT !.undo = @ \o r.push], ops |-> r.ops]

=============================================================================
