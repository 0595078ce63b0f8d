---------------------------- MODULE Replication ----------------------------
(***************************************************************************)
(* Replicas that edit their own copy of one document and deliver their     *)
(* operations to each other in any order, any number of times.  This is    *)
(* the contract of packages/engine: everything above it (server relay,     *)
(* catch-up, resending) only decides which deliveries happen when.         *)
(***************************************************************************)
EXTENDS Engine

CONSTANTS
  Replicas,     \* replica identifiers, ordered positive integers
  Budgets       \* bounds: what may happen, each a possible mix, see Init

\* The replicas that take part, the kinds of character typed (TRUE continues a
\* cluster), whether a replica's operations arrive in the order it minted them,
\* and how many characters are typed and deleted, steps undone and redone, and
\* operations that still wait in pending delivered again.
ASSUME ReplicationAssumption ==
  /\ Replicas \subseteq Nat \ {0}
  /\ Budgets \subseteq [who : SUBSET Replicas, binds : SUBSET BOOLEAN, fifo : BOOLEAN,
                        inserts : Nat, deletes : Nat, undos : Nat, duplicates : Nat]

VARIABLES
  engine,   \* engine[r]: the engine record of replica r
  sent,     \* every operation minted so far; any of them may be delivered
  budget    \* what the bounds still allow

vars == <<engine, sent, budget>>

Init ==
  /\ engine = [r \in Replicas |-> NewEngine(r)]
  /\ sent = {}
  /\ budget \in Budgets

Tree(r) == engine[r].tree

\* Replica r has made a local step with outcome [engine, ops].
Publish(r, outcome) ==
  /\ engine' = [engine EXCEPT ![r] = outcome.engine]
  /\ sent' = sent \cup ToSet(outcome.ops)

Insert(r, index, bind) ==
  LET outcome == LocalInsert(engine[r], index, bind)
  IN  /\ budget.inserts > 0
      /\ bind => index > 0
      /\ Publish(r, outcome)
      /\ budget' = [budget EXCEPT !.inserts = @ - 1]

Delete(r, index, count) ==
  LET outcome == LocalDelete(engine[r], index, count)
  IN  /\ count <= budget.deletes
      /\ Publish(r, outcome)
      /\ budget' = [budget EXCEPT !.deletes = @ - count]

UndoStep(r) ==
  /\ budget.undos > 0
  /\ engine[r].undo # <<>>
  /\ Publish(r, Undo(engine[r]))
  /\ budget' = [budget EXCEPT !.undos = @ - 1]

RedoStep(r) ==
  /\ budget.undos > 0
  /\ engine[r].redo # <<>>
  /\ Publish(r, Redo(engine[r]))
  /\ budget' = [budget EXCEPT !.undos = @ - 1]

\* A delivery of an operation that still waits in pending appends it once more,
\* so those are bounded; one of an operation already applied changes nothing.
Deliver(r, op) ==
  LET repeated == \E i \in DOMAIN engine[r].pending : engine[r].pending[i] = op
      earlier == {o \in sent : o.id[2] = op.id[2] /\ IdLess(o.id, op.id)}
  IN  /\ budget.fifo => earlier \subseteq {o \in sent : o.id \in engine[r].applied}
                                          \cup ToSet(engine[r].pending)
      /\ repeated => budget.duplicates > 0
      /\ engine' = [engine EXCEPT ![r] = ApplyRemote(@, op)]
      /\ budget' = [budget EXCEPT !.duplicates = IF repeated THEN @ - 1 ELSE @]
      /\ UNCHANGED sent

Next ==
  \E r \in budget.who :
    \/ \E index \in 0..Tree(r)[Root].vis, bind \in budget.binds : Insert(r, index, bind)
    \/ \E index \in 0..(Tree(r)[Root].vis - 1), count \in 1..budget.deletes :
         Delete(r, index, count)
    \/ UndoStep(r)
    \/ RedoStep(r)
    \/ \E op \in sent : Deliver(r, op)

Spec == Init /\ [][Next]_vars

-----------------------------------------------------------------------------
(* Properties *)

OpIds == {op.id : op \in sent}

\* Type invariant: engines hold identifiers of minted operations only, and a
\* node is attributed to a delete exactly when it is a tombstone (Node.deletedBy).
TypeOK ==
  /\ \A op \in sent : op.kind \in {"insert", "delete", "undelete"} /\ op.id[2] \in Replicas
  /\ \A r \in Replicas :
       /\ engine[r].clock \in Nat
       /\ engine[r].applied \subseteq OpIds
       /\ ToSet(engine[r].pending) \subseteq sent
       /\ NodeIds(Tree(r)) \subseteq engine[r].applied
       /\ \A n \in NodeIds(Tree(r)) : Tree(r)[n].deleted <=> Tree(r)[n].deletedBy # Null

\* Strong convergence: replicas that have applied the same operations hold the
\* nodes in the same order, tombstones included, and, as long as nobody revives a
\* node, the same tree with its attributions and sizes (UndoConverges says what
\* else is promised), whatever the delivery order.  And whoever has received
\* everything has applied everything (I9): drain() repeats its sweep until no
\* operation becomes ready.
StateConvergence ==
  /\ \A a, b \in Replicas :
       engine[a].applied = engine[b].applied =>
         /\ ToArray(Tree(a)) = ToArray(Tree(b))
         /\ (\A op \in sent : op.kind # "undelete") => Tree(a) = Tree(b)
  /\ \A r \in Replicas :
       OpIds = engine[r].applied \cup {op.id : op \in ToSet(engine[r].pending)}
         => engine[r].pending = <<>>

\* What engine.ts:329-331 says of undelete: whether a node lives is the same on
\* every replica "regardless of arrival order".
UndoConverges ==
  \A a, b \in Replicas : engine[a].applied = engine[b].applied => Tree(a) = Tree(b)

\* I1 and causality: identifiers are never reused, and an operation's identifier
\* is greater than that of the node it refers to, because observe() lifts the
\* clock above everything a replica has applied.
LamportOrder ==
  /\ \A o1, o2 \in sent : o1.id = o2.id => o1 = o2
  /\ \A op \in sent :
       IdLess(IF op.kind = "insert" THEN op.parent ELSE op.target, op.id)

\* I8: among the children of one side of a node, cluster continuations come
\* before ordinary characters on every replica.
MarksFirst ==
  \A r \in Replicas :
    LET t == Tree(r)
        order == ToArray(t)
    IN  \A i \in DOMAIN order : \A j \in 1..(i - 1) :
          t[order[i]].bind /\ ~t[order[j]].bind
            => t[order[i]].parent # t[order[j]].parent \/ t[order[i]].side # t[order[j]].side

\* The lookups that descend the incrementally kept sizes agree with the
\* traversal: nodeAtVisible() with the visible sequence, resolveCaret() with the
\* number of visible nodes at or before the anchor.
LookupsMatchTraversal ==
  \A r \in Replicas :
    LET t == Tree(r)
        all == ToArray(t)
        shown == Visible(t)
    IN  /\ t[Root].vis = Len(shown) /\ t[Root].tot = Len(all)
        /\ \A i \in DOMAIN shown : NodeAtVisible(t, i - 1) = shown[i]
        /\ \A i \in DOMAIN all :
             VisibleIndexRightOf(t, all[i]) =
               Cardinality({j \in 1..i : ~t[all[j]].deleted})

\* What holds of every engine at any time.
WellFormed == TypeOK /\ LamportOrder /\ MarksFirst /\ LookupsMatchTraversal

LandsAtIndex(r) ==
  \A index \in 0..Tree(r)[Root].vis, bind \in budget.binds :
    budget'.inserts < budget.inserts /\ Insert(r, index, bind)
      => Visible(Tree(r)') = InsertAt(Visible(Tree(r)), index + 1, Minted(engine[r]'))

KeepsOrder(r) ==
  LET old == ToArray(Tree(r))
      new == ToArray(Tree(r)')
      held == ToSet(old)
  IN  Tree(r)' # Tree(r) /\ new # old => SelectSeq(new, LAMBDA n : n \in held) = old

\* A character typed at a visible index appears at exactly that index of the
\* typing replica, tombstones and concurrent siblings notwithstanding
\* (decidePlacement); and no step of any replica removes a node or swaps two nodes
\* it holds (I3 and I5).
EditsKeepPlace == [][\A r \in Replicas : LandsAtIndex(r) /\ KeepsOrder(r)]_vars

\* An undo followed at once by a redo shows the same text again, also when the
\* undone operation had no visible effect (stepUndoRedo, hadEffect).
RedoInvertsUndo ==
  \A r \in Replicas :
    engine[r].undo # <<>> =>
      LET back == Undo(engine[r]).engine
      IN  back.redo # <<>> => Visible(Redo(back).engine.tree) = Visible(Tree(r))

=============================================================================
