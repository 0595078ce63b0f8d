----------------------------- MODULE FugueTree -----------------------------
(***************************************************************************)
(* The sequence structure of one replica (packages/engine/src/fugueTree.ts *)
(* and identifier.ts).                                                     *)
(*                                                                         *)
(* A tree is a function from identifiers to node records; Root is always   *)
(* in its domain.  A node keeps its parent, its side, its ordered arrays   *)
(* of left and right children, the tombstone fields, and the two subtree   *)
(* sizes that the index lookups descend by.  The sizes are maintained      *)
(* incrementally, as in the code, so that a lookup can be compared with    *)
(* the traversal it stands for.  The character a node carries is           *)
(* abstracted: only whether it continues a grapheme cluster (bind)         *)
(* influences any decision.                                                *)
(***************************************************************************)
EXTENDS Integers, Sequences, FiniteSets, SequencesExt

\* An identifier is a pair <<c, r>>: Lamport counter and replica.
\* Root is the sentinel {c: 0, r: 0}; as a parent or a deletedBy it is null.
Root == <<0, 0>>
Null == Root

IdLess(a, b) == a[1] < b[1] \/ (a[1] = b[1] /\ a[2] < b[2])

TreeNode(parent, side, bind) ==
  [parent |-> parent, side |-> side, bind |-> bind,
   deleted |-> FALSE, deletedBy |-> Null,
   left |-> <<>>, right |-> <<>>, vis |-> 0, tot |-> 0]

EmptyTree == Root :> [TreeNode(Root, "R", FALSE) EXCEPT !.deleted = TRUE]

HasIdentifier(t, id) == id # Root /\ id \in DOMAIN t

NodeIds(t) == DOMAIN t \ {Root}

-----------------------------------------------------------------------------
(* Sibling order and attachment *)

\* Mutant: siblings are ordered by replica only.
RankByReplica(bind, id) == <<0, id[2]>>

SiblingRank(bind, id) == <<IF bind THEN 0 ELSE 1, id[2]>>

SiblingLess(ra, rb) == ra[1] < rb[1] \/ (ra[1] = rb[1] /\ ra[2] < rb[2])

\* Mutant: siblings are kept in order of arrival.
AppendSibling(t, siblings, id, bind) == Append(siblings, id)

\* A new sibling goes before the first one that is strictly greater.
InsertSibling(t, siblings, id, bind) ==
  LET greater(s) == SiblingLess(SiblingRank(bind, id), SiblingRank(t[s].bind, s))
      i == SelectInSeq(siblings, greater)
  IN  InsertAt(siblings, IF i = 0 THEN Len(siblings) + 1 ELSE i, id)

\* A node and its ancestors, the root included.
Lineage(t, id) ==
  LET up[n \in DOMAIN t] == IF n = Root THEN {n} ELSE {n} \cup up[t[n].parent]
  IN  up[id]

UpdateSize(t, id, deltaTotal, deltaVisible) ==
  [n \in Lineage(t, id) |->
     [t[n] EXCEPT !.tot = @ + deltaTotal, !.vis = @ + deltaVisible]] @@ t

Attach(t, id, bind, parent, side) ==
  LET linked == IF side = "L"
                THEN [t EXCEPT ![parent].left = InsertSibling(t, @, id, bind)]
                ELSE [t EXCEPT ![parent].right = InsertSibling(t, @, id, bind)]
  IN  UpdateSize(linked @@ (id :> TreeNode(parent, side, bind)), id, 1, 1)

\* Mutant: the sizes change although the flag does not.
SetDeletedAlways(t, id, deleted, deletedBy) ==
  UpdateSize([t EXCEPT ![id].deleted = deleted, ![id].deletedBy = deletedBy],
             id, 0, IF deleted THEN -1 ELSE 1)

SetDeleted(t, id, deleted, deletedBy) ==
  LET marked == [t EXCEPT ![id].deleted = deleted, ![id].deletedBy = deletedBy]
  IN  IF t[id].deleted = deleted THEN marked
      ELSE UpdateSize(marked, id, 0, IF deleted THEN -1 ELSE 1)

\* remove() and the successful case of tryRemoveLeaf(): unlink a childless node.
RemoveLeaf(t, id) ==
  LET p == t[id].parent
      unlinked == [t EXCEPT ![p].left = Remove(@, id), ![p].right = Remove(@, id)]
      sized == UpdateSize(unlinked, id, -1, IF t[id].deleted THEN 0 ELSE -1)
  IN  [n \in DOMAIN t \ {id} |-> sized[n]]

IsLeaf(t, id) == t[id].left = <<>> /\ t[id].right = <<>>

-----------------------------------------------------------------------------
(* Traversal and the lookups by visible index *)

\* In-order traversal: left children, the node, right children.
ToArray(t) ==
  LET walk[n \in DOMAIN t] ==
        LET below(kids) ==
              FlattenSeq([i \in DOMAIN kids |->
                            IF t[kids[i]].tot > 0 THEN walk[kids[i]] ELSE <<>>])
        IN  below(t[n].left) \o (IF n = Root THEN <<>> ELSE <<n>>) \o below(t[n].right)
  IN  walk[Root]

Visible(t) == LET live(n) == ~t[n].deleted IN SelectSeq(ToArray(t), live)

\* The visible nodes of the first k subtrees of kids.
VisOfFirst(t, kids, k) ==
  LET sum[i \in 0..Len(kids)] == IF i = 0 THEN 0 ELSE sum[i-1] + t[kids[i]].vis
  IN  sum[k]

VisOf(t, kids) == VisOfFirst(t, kids, Len(kids))

SelfVis(t, n) == IF n = Root \/ t[n].deleted THEN 0 ELSE 1

\* The node at a visible index (from 0), found by descending the sizes.
NodeAtVisible(t, index) ==
  LET walk[n \in DOMAIN t, k \in 0..t[Root].vis] ==
        LET inLeft == VisOf(t, t[n].left)
            into(kids, j) ==
              LET i == Min({h \in DOMAIN kids : j < VisOfFirst(t, kids, h)})
              IN  walk[kids[i], j - VisOfFirst(t, kids, i - 1)]
        IN  IF k < inLeft THEN into(t[n].left, k)
            ELSE IF k - inLeft < SelfVis(t, n) THEN n
            ELSE into(t[n].right, k - inLeft - SelfVis(t, n))
  IN  walk[Root, index]

LeftmostDescendant(t, id) ==
  LET down[n \in DOMAIN t] == IF t[n].left = <<>> THEN n ELSE down[Head(t[n].left)]
  IN  down[id]

\* Mutant: the right children of the left origin are not looked at.
PlaceRight(t, index) ==
  [parent |-> IF index = 0 THEN Root ELSE NodeAtVisible(t, index - 1), side |-> "R"]

\* Where a character typed at a visible index attaches.
DecidePlacement(t, index) ==
  LET leftOrigin == IF index = 0 THEN Root ELSE NodeAtVisible(t, index - 1)
  IN  IF t[leftOrigin].right = <<>>
      THEN [parent |-> leftOrigin, side |-> "R"]
      ELSE [parent |-> LeftmostDescendant(t, Head(t[leftOrigin].right)), side |-> "L"]

\* The visible index right of an anchor: what resolveCaret() answers.
VisibleIndexRightOf(t, id) ==
  LET upTo(kids, n) == VisOfFirst(t, kids, SelectInSeq(kids, LAMBDA k : k = n) - 1)
      up[n \in DOMAIN t] ==
        IF n = Root THEN 0
        ELSE LET p == t[n].parent
             IN  up[p] + (IF t[n].side = "L" THEN upTo(t[p].left, n)
                          ELSE VisOf(t, t[p].left) + SelfVis(t, p) + upTo(t[p].right, n))
  IN  IF ~HasIdentifier(t, id) THEN 0
      ELSE VisOf(t, t[id].left) + SelfVis(t, id) + up[id]

=============================================================================
