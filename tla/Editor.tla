------------------------------- MODULE Editor -------------------------------
(***************************************************************************)
(* One open tab, from the keyboard to the wire: the input pipeline, the    *)
(* composition and undo controllers, the mutation sentinel and the editor  *)
(* view of packages/client/src/{input,sentinel,editor}, on top of Page     *)
(* (the text nodes), Engine and Messages.  The rest of the world is the    *)
(* server's log, an engine that has applied it, and the edits of others.   *)
(*                                                                         *)
(* JavaScript runs one handler at a time, so a handler is one action.  An  *)
(* action of the browser is a beforeinput, composition or keydown event    *)
(* with a selection; the browser puts a selection only between clusters.   *)
(* A lost connection is followed by a new socket, which is connecting for  *)
(* a while, and by one handshake in two steps (Sync has the rest): the     *)
(* engine is replaced, and later everything is synced.                     *)
(***************************************************************************)
EXTENDS Messages, Page

CONSTANTS
  Base,          \* the characters of the document at the start
  Texts,         \* texts that are typed or pasted
  Compositions,  \* texts that an input method shows or commits
  PeerTexts,     \* characters that others insert
  Erasures,      \* the deleting commands that occur
  Replicas,      \* the replica identifiers of the tab, one per connection
  CapOps,        \* OFFLINE_CAP_OPS
  MaxInputs,     \* bound: events of the user
  MaxOthers,     \* bound: edits of others
  MaxForeign,    \* bound: changes to the page by others than its writer
  MaxEvents      \* bound: all of these, and losses of the connection

Author == 9   \* wrote the document at the start
Others == 2   \* the others, as one replica

AllErasures == {"selection", "clusterBackward", "clusterForward", "wordBackward", "wordForward",
                "lineBackward"}

ASSUME EditorAssumption ==
  /\ Base \in Seq(Characters) /\ Erasures \subseteq AllErasures
  /\ Texts \cup Compositions \subseteq Seq(Characters) /\ PeerTexts \subseteq Characters
  /\ Replicas \in Seq(Nat \ {0, Author, Others}) /\ Replicas # <<>>
  /\ {CapOps, MaxInputs, MaxOthers, MaxForeign, MaxEvents} \subseteq Nat

VARIABLES
  tab,    \* the state of the page, see Init
  up,     \* frames under way to the server
  log,    \* the operations in the order of their sequence numbers, with their characters
  other,  \* the engine of the others and its characters
  heard,  \* entries of the log the tab has received
  link,   \* stage of the connection, its number, the end of the catch-up, operations of HELLO
  undone, \* the user has undone or redone something
  spent   \* events so far, for the bounds

vars == <<tab, up, log, other, heard, link, undone, spent>>

-----------------------------------------------------------------------------
(* Initial state *)

BindOf(char) == char = "mark"

BaseOps ==
  [k \in DOMAIN Base |->
     [op |-> InsertOp(<<k, Author>>, IF k = 1 THEN Null ELSE <<k-1, Author>>, "R", BindOf(Base[k])),
      value |-> Base[k]]]

ApplyAll(e, entries) == FoldLeft(LAMBDA acc, v : ApplyRemote(acc, v.op), e, entries)

NoCharacters == Learn(<<>>, <<>>)

Caret(p) == [anchor |-> p, focus |-> p]

EngineText(t) ==
  LET shown == Visible(t.engine.tree) IN [i \in DOMAIN shown |-> t.chars[shown[i]]]

\* DomWriter.mount(): the old nodes go, and the selection with them.
Mount(t) == [t EXCEPT !.runs = RunsForText(EngineText(t), 0), !.unshown = FALSE,
                      !.selection = Caret(Position(0, 0))]

Init ==
  /\ tab = Mount([engine |-> ApplyAll(NewEngine(Replicas[1]), BaseOps),
                  chars |-> Learn(NoCharacters, BaseOps),
                  runs |-> <<>>,                      \* the render index and its text nodes
                  selection |-> Caret(Position(0, 0)),
                  mounted |-> TRUE,                   \* mountedEngineRef is the engine
                  unshown |-> FALSE,                  \* the engine changed behind the page's back
                  composing |-> FALSE,
                  anchorId |-> Null,                  \* compositionAnchor
                  unacked |-> <<>>,                   \* UnackedQueue
                  offline |-> FALSE,                  \* offlineStartMs is set
                  count |-> 0])                       \* opsCount
  /\ up = <<>>
  /\ log = BaseOps
  /\ other = [engine |-> ApplyAll(NewEngine(Others), BaseOps), chars |-> Learn(NoCharacters, BaseOps)]
  /\ heard = Len(BaseOps)
  /\ link = [stage |-> "up", number |-> 1, bound |-> 0, hello |-> {}]
  /\ undone = FALSE
  /\ spent = [inputs |-> 0, others |-> 0, foreign |-> 0, drops |-> 0]

-----------------------------------------------------------------------------
(* SyncClient: a local edit changes the engine and the queue, and is sent *)

\* assertOfflineWindowNotExceeded(), whose ten minutes are left out.
CanAccept(t) == t.offline => t.count < CapOps

\* Without a socket send() is not called, and only while one is connecting it throws.
SendThrows == link.stage = "connecting"

\* The tab and the frames after a new engine state and its operations, of which these
\* are queued.  What throws here has changed the engine and does not reach the page.
Sent(t, r, queued, frames) ==
  LET threw == SendThrows /\ r.ops # <<>>
  IN  [tab |-> [t EXCEPT !.engine = r.engine, !.unacked = @ \o queued, !.count = @ + Len(queued),
                         !.unshown = @ \/ threw],
       frames |-> frames, threw |-> threw]

\* sendOperation() of each, until one throws: the others are in the engine only.
Queued(ops) == IF SendThrows THEN SubSeq(ops, 1, Min({1, Len(ops)})) ELSE ops

EachAlone(ops, chars) == [k \in DOMAIN ops |-> OperationToOpsMessage(ops[k], chars)]

SentEachAlone(t, r) == Sent(t, r, Queued(r.ops), EachAlone(r.ops, t.chars))

SyncDelete(t, at, n) == SentEachAlone(t, LocalDelete(t.engine, at, n))

\* A result of the engine after the operations so far.
Then(ops, r) == [r EXCEPT !.ops = ops \o @]

\* One insert per character, each at the index behind the last.
LocalInsertText(e, at, text) ==
  LET step(r, k) == Then(r.ops, LocalInsert(r.engine, at + k - 1, BindOf(text[k])))
  IN  FoldLeft(step, [engine |-> e, ops |-> <<>>], [k \in DOMAIN text |-> k])

Typed(ops, text) == [k \in DOMAIN text |-> [op |-> ops[k], value |-> text[k]]]

\* The tab has the characters; all operations are queued, and go out as runs of them.
SentAsRuns(t, r, chars) ==
  Sent([t EXCEPT !.chars = chars], r, r.ops, OperationsToRunMessages(r.ops, chars))

SentText(t, r, text) == SentAsRuns(t, r, Learn(t.chars, Typed(r.ops, text)))

SyncInsertText(t, at, text) == SentText(t, LocalInsertText(t.engine, at, text), text)

-----------------------------------------------------------------------------
(* The input pipeline *)

\* What a handler has done so far; one that threw does nothing more.
Started(t) == [tab |-> t, frames |-> <<>>, threw |-> FALSE]

Continue(h, r) == [h EXCEPT !.tab = r.tab, !.frames = @ \o r.frames, !.threw = r.threw]

PlaceCaretAt(t, v) == [t EXCEPT !.selection = Caret(VisToDom(t.runs, v))]

\* assertConsistent() throws after the text nodes have changed; the browser moves a
\* selection in a rewritten node to the node's start.
Rewritten(h, runs, v) ==
  LET t == [h.tab EXCEPT !.runs = runs]
      node == Min({t.selection.anchor.node, Len(runs)})
  IN  IF MaterializedText(runs) = EngineText(t) THEN [h EXCEPT !.tab = PlaceCaretAt(t, v)]
      ELSE [h EXCEPT !.tab = [t EXCEPT !.selection = Caret(Position(node, 0))], !.threw = TRUE]

\* The page is written only after the operations were sent.
Written(h, runs, v) == IF h.threw THEN h ELSE Rewritten(h, runs, v)

\* The range between two positions of the page.
VisRange(t, selection) ==
  LET ordered(ends) == [start |-> Min(ends), end |-> Max(ends)]
  IN  ordered({SafeDomToVis(t.runs, selection.anchor), SafeDomToVis(t.runs, selection.focus)})

DeleteRangeAt(h, at, n) ==
  IF h.threw \/ n <= 0 \/ ~CanAccept(h.tab) THEN h
  ELSE Written(Continue(h, SyncDelete(h.tab, at, n)), DeleteRange(h.tab.runs, at, n), at)

\* The engine throws at an index it does not have, before it has minted anything.
InsertTextAt(h, at, text) ==
  IF h.threw \/ text = <<>> \/ ~CanAccept(h.tab) THEN h
  ELSE IF at > h.tab.engine.tree[Root].vis THEN [h EXCEPT !.threw = TRUE]
  ELSE Written(Continue(h, SyncInsertText(h.tab, at, text)),
               InsertText(h.tab.runs, at, text), at + Len(text))

\* Deletes what is selected, if anything is.
DeleteVisRange(t, range) == DeleteRangeAt(Started(t), range.start, range.end - range.start)

ReplaceRangeThenInsert(t, selection, text) ==
  LET insertFor(range) == InsertTextAt(DeleteVisRange(t, range), range.start, text)
  IN  insertFor(VisRange(t, selection))

\* The piece a deleting command takes when nothing is selected.
TakenSpan(command, text, offset) ==
  CASE command = "clusterBackward" -> ClusterBefore(text, offset)
    [] command = "clusterForward"  -> ClusterAfter(text, offset)
    [] command = "wordBackward"    -> WordBefore(text, offset)
    [] command = "wordForward"     -> WordAfter(text, offset)
    [] command = "lineBackward"    -> Span(LineStartBefore(text, offset), offset)
    [] command = "selection"       -> NoSpan

\* Deletes a piece of the text, if there is one.
DeleteSpan(t, text, span) ==
  IF span = NoSpan THEN Started(t)
  ELSE DeleteVisRange(t, [start |-> Utf16ToScalar(text, span.from),
                          end |-> Utf16ToScalar(text, span.to)])

EraseAt(t, command, text, range) ==
  IF range.end > range.start THEN DeleteVisRange(t, range)
  ELSE DeleteSpan(t, text, TakenSpan(command, text, ScalarToUtf16(text, range.start)))

Erase(t, command, selection) ==
  EraseAt(t, command, MaterializedText(t.runs), VisRange(t, selection))

-----------------------------------------------------------------------------
(* The composition controller *)

\* The node left of an index, null at the start of the document and past its end.
ResolvePresenceAnchor(e, v) ==
  LET shown == Visible(e.tree) IN IF v \in DOMAIN shown THEN shown[v] ELSE Null

\* What the index says now is kept as a node.
Anchored(h, v) ==
  IF h.threw THEN h
  ELSE [h EXCEPT !.tab.anchorId = ResolvePresenceAnchor(h.tab.engine, v)]

\* What is selected goes first.
ComposeFrom(t, selection) ==
  LET composeAt(range) ==
        Anchored(DeleteVisRange([t EXCEPT !.composing = TRUE], range), range.start)
  IN  composeAt(VisRange(t, selection))

\* Mutant: the text goes where the caret was shown when the composition began.
WhereItWasShown(t) == Min({SafeDomToVis(t.runs, t.selection.anchor), t.engine.tree[Root].vis})

InsertionPoint(t) == VisibleIndexRightOf(t.engine.tree, t.anchorId)

\* Everything is shown anew, with the caret behind what was inserted.
ShowCommitted(t, at, r) ==
  LET inserted == Len(r.tab.unacked) - Len(t.unacked)
  IN  [tab |-> PlaceCaretAt(Mount(r.tab), at + inserted), frames |-> r.frames]

\* The text is inserted, if it may be.
CommitComposition(t, text) ==
  LET ended == [t EXCEPT !.composing = FALSE, !.anchorId = Null]
      commitAt(at) ==
        ShowCommitted(t, at, IF text # <<>> /\ CanAccept(t) THEN SyncInsertText(ended, at, text)
                             ELSE [tab |-> ended, frames |-> <<>>])
  IN  commitAt(InsertionPoint(t))

-----------------------------------------------------------------------------
(* Undo and redo, which tell the page nothing *)

Reversal(t, r) == SentEachAlone([t EXCEPT !.unshown = @ \/ r.ops # <<>>], r)

-----------------------------------------------------------------------------
(* The editor view and the sentinel *)

\* captureCaret() and restoreCaret(): the positions of the page that is still shown
\* are looked up in the engine that has the new operations already.
Remounted(t) ==
  LET visAt(p) == DomToVis(t.runs, p)
      m == Mount(t)
      again(p) ==
        VisToDom(m.runs, Min({VisibleIndexRightOf(t.engine.tree,
                                                  ResolvePresenceAnchor(t.engine, visAt(p))),
                              TotalVisibleLength(m.runs)}))
  IN  IF OutOfRange \in {visAt(t.selection.anchor), visAt(t.selection.focus)} THEN m
      ELSE [m EXCEPT !.selection = [anchor |-> again(t.selection.anchor),
                                    focus |-> again(t.selection.focus)]]

\* onRemoteOpsApplied(): not before the new engine is mounted, nor into a composition.
ShowRemoteOps(t) ==
  IF ~t.mounted THEN [t EXCEPT !.unshown = TRUE]
  ELSE IF t.composing THEN t
  ELSE Remounted(t)

\* MutationSentinel.reconcile(): the caret keeps its number.
Reconciled(t) ==
  LET v == DomToVis(t.runs, t.selection.anchor)
      m == Mount(t)
  IN  PlaceCaretAt(m, Min({IF v = OutOfRange THEN 0 ELSE v, TotalVisibleLength(m.runs)}))

-----------------------------------------------------------------------------
(* A new connection *)

\* Mutant: what has not been acknowledged stays in the base.
BaseAsItIs(nodes, ids) == nodes

\* Without unacknowledged inserts, and as if unacknowledged deletes had not been.
BuildCleanCatchupBase(nodes, ids) ==
  LET kept == SelectSeq(nodes, LAMBDA n : n.id \notin ids)
  IN  [i \in DOMAIN kept |-> IF kept[i].deleted /\ kept[i].deletedBy \in ids
                             THEN [kept[i] EXCEPT !.deleted = FALSE, !.deletedBy = Null]
                             ELSE kept[i]]

IdSeq(ops) == [k \in DOMAIN ops |-> ops[k].id]

IdsOf(ops) == Range(IdSeq(ops))

\* rebuildEngineForReconnect() of a catch-up, seedEngineFromSnapshot() of a snapshot.
Replaced(t, replica, form) ==
  LET nodes == IF form = "catchup"
               THEN BuildCleanCatchupBase(Nodes(t.engine, t.chars), IdsOf(t.unacked))
               ELSE DecodeChainBlocks(GroupIntoChainBlocks(Nodes(other.engine, other.chars)))
      known == [i \in DOMAIN nodes |-> [op |-> [kind |-> "insert", id |-> nodes[i].id],
                                        value |-> nodes[i].value]]
  IN  [t EXCEPT !.engine = SeedEngineFromSnapshot(replica, nodes),
                !.chars = Learn(@, known), !.mounted = FALSE, !.unshown = TRUE]

\* Its place among all nodes, 0 if there is no such node.
StructuralIndexOf(e, id) == SelectInSeq(ToArray(e.tree), LAMBDA x : x = id)

\* The visible nodes before a node, and with it.
VisibleIndexBefore(e, id) ==
  LET before == SubSeq(ToArray(e.tree), 1, StructuralIndexOf(e, id) - 1)
  IN  Len(SelectSeq(before, LAMBDA x : ~e.tree[x].deleted))

VisibleIndexAfter(e, id) ==
  IF ~HasIdentifier(e.tree, id) THEN 0
  ELSE VisibleIndexBefore(e, id) + SelfVis(e.tree, id)

\* One queued operation minted again where it belongs now; r.renamed says what the
\* operations before it are called now.
Reconcile(r, op) ==
  LET now(id) == IF id \in DOMAIN r.renamed THEN r.renamed[id] ELSE id
      at == IF op.side = "R" THEN VisibleIndexAfter(r.engine, now(op.parent))
            ELSE VisibleIndexBefore(r.engine, now(op.parent))
      target == now(op.target)
      done(one) == [engine |-> one.engine, ops |-> r.ops \o one.ops,
                    renamed |-> Put(r.renamed, op.id, one.ops[1].id),
                    chars |-> IF op.kind # "insert" THEN r.chars
                              ELSE Put(r.chars, one.ops[1].id, r.chars[op.id])]
  IN  CASE op.kind = "insert" ->
             done(LocalInsert(r.engine, IF op.parent = Null THEN 0 ELSE at, op.bind))
        [] op.kind = "delete" ->
             IF ~HasIdentifier(r.engine.tree, target) \/ r.engine.tree[target].deleted THEN r
             ELSE done(LocalDelete(r.engine, VisibleIndexBefore(r.engine, target), 1))
        [] op.kind = "undelete" -> r

ReconcileOfflineQueue(e, queue, chars) ==
  FoldLeft(Reconcile, [engine |-> e, ops |-> <<>>, renamed |-> <<>>, chars |-> chars], queue)

-----------------------------------------------------------------------------
(* Actions of the user and the browser *)

\* Between two clusters of what is shown; the whole, as positions of the root.
Selections ==
  LET text == MaterializedText(tab.runs)
      at == {VisToDom(tab.runs, n) : n \in Boundaries(text, ClusterBoundary)}
  IN  {tab.selection} \cup {Caret(p) : p \in at}
        \cup {[anchor |-> Position(0, 0), focus |-> Position(0, Len(tab.runs))]}

\* An event of a kind, of which there are at most max.
Spend(kind, max) ==
  /\ spent[kind] < max
  /\ spent.inputs + spent.others + spent.foreign + spent.drops < MaxEvents
  /\ spent' = [spent EXCEPT ![kind] = @ + 1]

\* The frames go out if there is an open socket; the tab has a new state.
Handled(h) ==
  /\ tab' = h.tab
  /\ up' = IF link.stage \in {"down", "connecting"} THEN up ELSE up \o h.frames
  /\ UNCHANGED <<log, other, heard, link>>

\* An event of the user, who has selected something or left the caret where it was.
Input(handler(_)) ==
  /\ Spend("inputs", MaxInputs)
  /\ \E selection \in Selections : Handled(handler(selection))
  /\ UNCHANGED undone

Type ==
  /\ ~tab.composing
  /\ \E text \in Texts :
       Input(LAMBDA s : ReplaceRangeThenInsert([tab EXCEPT !.selection = s], s, text))

Delete ==
  /\ ~tab.composing
  /\ \E command \in Erasures : Input(LAMBDA s : Erase([tab EXCEPT !.selection = s], command, s))

CompositionStart ==
  /\ ~tab.composing
  /\ Input(LAMBDA s : ComposeFrom([tab EXCEPT !.selection = s], s))

\* Either compositionend brings the text, empty if the composition was abandoned, or
\* the watchdog takes the text of the last compositionupdate, if there was one.  No
\* text is committed while a socket is connecting, see README.
CompositionEnd ==
  /\ tab.composing
  /\ \E text \in Compositions \cup {<<>>} :
       /\ SendThrows => text = <<>>
       /\ Handled(CommitComposition(tab, text))
  /\ UNCHANGED <<undone, spent>>

\* By key or by menu; the microtask that does it runs before the next event.
UndoRedo ==
  /\ Spend("inputs", MaxInputs)
  /\ CanAccept(tab)
  /\ \/ tab.engine.undo # <<>> /\ Handled(Reversal(tab, Undo(tab.engine)))
     \/ tab.engine.redo # <<>> /\ Handled(Reversal(tab, Redo(tab.engine)))
  /\ undone' = TRUE

\* An extension or the spelling checker rewrites the text; the observer's callback
\* runs before the next event.  During a composition it does not observe.
ForeignChange ==
  /\ ~tab.composing /\ Spend("foreign", MaxForeign)
  /\ tab' = Reconciled(tab)
  /\ UNCHANGED <<up, log, other, heard, link, undone>>

-----------------------------------------------------------------------------
(* Actions of the connection and of the others *)

\* The server numbers the operations of the next n frames.
Number(n) ==
  LET entries == FlattenSeq([k \in 1..n |-> ToOperations(up[k])])
  IN  /\ log' = log \o entries
      /\ other' = [engine |-> ApplyAll(other.engine, entries),
                   chars |-> Learn(other.chars, entries)]

\* What is under way arrives.
TakeFrames ==
  /\ up # <<>>
  /\ Number(Len(up))
  /\ up' = <<>>
  /\ UNCHANGED <<tab, heard, link, undone, spent>>

\* A result of the engine of the others is in the log.
OthersDid(r, char) ==
  LET entry == [op |-> r.ops[1], value |-> char]
  IN  /\ other' = [engine |-> r.engine, chars |-> Learn(other.chars, <<entry>>)]
      /\ log' = Append(log, entry)

\* Somebody else inserts or deletes a character.
OthersEdit ==
  /\ Spend("others", MaxOthers)
  /\ \E v \in 0..other.engine.tree[Root].vis :
       \/ \E char \in PeerTexts : OthersDid(LocalInsert(other.engine, v, BindOf(char)), char)
       \/ /\ v < other.engine.tree[Root].vis
          /\ OthersDid(LocalDelete(other.engine, v, 1), "none")
  /\ UNCHANGED <<tab, up, heard, link, undone>>

Own(entry) == entry.op.id[2] = tab.engine.me

\* The acknowledgements up to the next relay.
HearAcks ==
  /\ link.stage = "up" /\ heard < Len(log) /\ Own(log[heard + 1])
  /\ \E last \in (heard + 1)..Len(log) :
       LET acked == {log[i].op.id : i \in (heard + 1)..last}
       IN  /\ \A i \in (heard + 1)..last : Own(log[i])
           /\ last < Len(log) => ~Own(log[last + 1])
           /\ heard' = last
           /\ tab' = [tab EXCEPT !.unacked = SelectSeq(@, LAMBDA o : o.id \notin acked)]
  /\ UNCHANGED <<up, log, other, link, undone, spent>>

\* A relay, which the page shows if it can.
HearRelay ==
  /\ link.stage = "up" /\ heard < Len(log) /\ ~Own(log[heard + 1])
  /\ LET entry == log[heard + 1]
     IN  tab' = ShowRemoteOps([tab EXCEPT !.engine = ApplyRemote(@, entry.op),
                                          !.chars = Learn(@, <<entry>>)])
  /\ heard' = heard + 1
  /\ UNCHANGED <<up, log, other, link, undone, spent>>

\* noteNotSynced() counts from the first state that is not synced.
NoteNotSynced(t) == IF t.offline THEN t ELSE [t EXCEPT !.offline = TRUE, !.count = 0]

\* The connection breaks; of the frames under way only the first arrive.
Drop ==
  /\ link.stage # "down" /\ Spend("drops", Len(Replicas) - 1)
  /\ link' = [link EXCEPT !.stage = "down"]
  /\ \E n \in 0..Len(up) : Number(n)
  /\ up' = <<>>
  /\ tab' = NoteNotSynced(tab)
  /\ UNCHANGED <<heard, undone>>

\* openSocketNow(): from here on the client has a socket, which is not open yet.
OpenSocket ==
  /\ link.stage = "down"
  /\ link' = [link EXCEPT !.stage = "connecting"]
  /\ UNCHANGED <<tab, up, log, other, heard, undone, spent>>

\* WELCOME on the open socket, and SNAPSHOT or CATCHUP_BEGIN.
ReplaceEngine ==
  /\ link.stage = "connecting"
  /\ \E form \in {"catchup", "snapshot"} :
       /\ tab' = Replaced(tab, Replicas[link.number + 1], form)
       /\ heard' = IF form = "catchup" THEN heard ELSE Len(log)
  /\ link' = [stage |-> "loading", number |-> link.number + 1, bound |-> Len(log),
              hello |-> IdsOf(tab.unacked)]
  /\ UNCHANGED <<up, log, other, undone, spent>>

\* The view mounts an engine it has not shown before.
MountIfNewEngine(t) == IF t.mounted THEN t ELSE Mount([t EXCEPT !.mounted = TRUE])

\* The queue minted again is sent, and the new engine is mounted.
Requeued(r) ==
  /\ tab' = MountIfNewEngine([tab EXCEPT
                 !.engine = r.engine, !.chars = r.chars,
                 !.unacked = SelectSeq(@, LAMBDA o : o.id \notin link.hello) \o r.ops,
                 !.offline = FALSE, !.count = 0])
  /\ up' = up \o OperationsToWireMessages(r.ops, r.chars)

\* The rest of the catch-up, ALREADY_HAVE and SYNC_COMPLETE.
BecomeSynced ==
  /\ link.stage = "loading"
  /\ LET missing == SubSeq(log, heard + 1, link.bound)
         have == {log[i].op.id : i \in 1..link.bound}
         queue == SelectSeq(tab.unacked, LAMBDA o : o.id \in link.hello \ have)
     IN  Requeued(ReconcileOfflineQueue(ApplyAll(tab.engine, missing), queue,
                                        Learn(tab.chars, missing)))
  /\ heard' = link.bound
  /\ link' = [link EXCEPT !.stage = "up"]
  /\ UNCHANGED <<log, other, undone, spent>>

Next ==
  \/ Type \/ Delete \/ UndoRedo
  \/ CompositionStart \/ CompositionEnd
  \/ ForeignChange
  \/ TakeFrames \/ OthersEdit \/ HearAcks \/ HearRelay
  \/ Drop \/ OpenSocket \/ ReplaceEngine \/ BecomeSynced

Spec == Init /\ [][Next]_vars

-----------------------------------------------------------------------------
(* Properties *)

TypeOK ==
  /\ tab.runs \in Seq(Runs) /\ tab.engine.me \in ToSet(Replicas)
  /\ DOMAIN tab.chars \subseteq Nat \X Nat /\ Range(tab.chars) \subseteq Characters
  /\ {tab.mounted, tab.unshown, tab.composing, tab.offline, undone} \subseteq BOOLEAN
  /\ tab.count \in Nat
  /\ {p.node : p \in {tab.selection.anchor, tab.selection.focus}} \subseteq 0..Len(tab.runs)
  /\ heard \in 0..Len(log)
  /\ link.stage \in {"up", "down", "connecting", "loading"} /\ link.number \in DOMAIN Replicas

\* The page shows the engine's text, unless something changed the engine that the
\* page is not told of: an undo, an edit while a socket is connecting, or a new
\* connection until it is synced
\* (domWriter.ts:163-172, EditorView.tsx:133-178).
ShownMatchesEngine ==
  ~tab.unshown /\ ~tab.composing => MaterializedText(tab.runs) = EngineText(tab)

\* Every variable has its type, and through insertions, splits, deletions across
\* runs and mounts the render index agrees with the text nodes, and these with the
\* engine (domWriter.ts:163-193).
PageIntact == TypeOK /\ IndexConsistent(tab.runs) /\ ShownMatchesEngine

\* While the connection is up the queue of unacknowledged operations is exactly what
\* is under way: numbered by the server and not yet acknowledged, or in a frame, whose
\* expansion gives back the operations as they were minted, in that order
\* (syncClient.ts:785-792, wireHelpers.ts:105-209, expand.ts:94-120).
QueueIsUnderWay ==
  LET numbered == SelectSeq(SubSeq(log, heard + 1, Len(log)), Own)
      framed == FlattenSeq([k \in DOMAIN up |-> ToOperations(up[k])])
  IN  link.stage = "up" =>
        [k \in DOMAIN tab.unacked |-> Valued(tab.unacked[k], tab.chars)] = numbered \o framed

\* What the tab has deleted in its own engine only.
Orphans ==
  {id \in NodeIds(tab.engine.tree) :
     LET by == tab.engine.tree[id].deletedBy
     IN  /\ tab.engine.tree[id].deleted /\ by # Null /\ by[2] \in ToSet(Replicas)
         /\ by \notin IdsOf(tab.unacked) \cup {log[i].op.id : i \in DOMAIN log}}

\* With nothing under way the tab and the others have the same text, whatever was
\* typed, composed or erased offline and minted again; undo is excepted, and deletes
\* that were minted and not queued, see README
\* (reconcileOfflineQueue.ts:226-265, syncClient.ts:1427-1459).
SameTextAtRest ==
  link.stage = "up" /\ up = <<>> /\ heard = Len(log) /\ ~undone /\ Orphans = {}
    => EngineText(tab) = EngineText(other)

\* Refuted.  An edit of a client that is not synced is queued if the engine has it:
\* otherwise the screen would show "content that was never durably captured", and
\* "`engine` and the durable queue" would be "mutually inconsistent"
\* (syncClient.ts:696-700).
NothingOrphaned == Orphans = {}

\* The visible nodes after fresh ones were put behind an anchor, or behind what is left
\* before it.
PutBehind(e, anchor, fresh) ==
  LET n == VisibleIndexAfter(e, anchor)
  IN  SubSeq(Visible(e.tree), 1, n) \o fresh
        \o SubSeq(Visible(e.tree), n + 1, e.tree[Root].vis)

\* What an input method commits stands right behind the character it was begun at,
\* or behind what is left before it, whatever others inserted or deleted meanwhile
\* (compositionController.ts:29-40, IME-03).
CommitLandsAtAnchor ==
  [][tab.composing /\ ~tab'.composing
       => Visible(tab'.engine.tree) =
            PutBehind(tab.engine, tab.anchorId,
                      IdSeq(SubSeq(tab'.unacked, Len(tab.unacked) + 1, Len(tab'.unacked))))]_vars

\* A piece between two clusters is taken out of a text.
ClustersTakenOut(old, new) ==
  \E from, to \in Boundaries(old, ClusterBoundary) :
    new = SubSeq(old, 1, from) \o SubSeq(old, to + 1, Len(old))

CaretBetweenClusters(t) ==
  {t.selection.anchor, t.selection.focus} \subseteq
    {VisToDom(t.runs, n) : n \in Boundaries(MaterializedText(t.runs), ClusterBoundary)}

\* A step of the user that deletes and does not insert.
Erasing ==
  /\ spent'.inputs # spent.inputs /\ ~undone'
  /\ tab'.engine.clock # tab.engine.clock
  /\ NodeIds(tab'.engine.tree) = NodeIds(tab.engine.tree)

\* What the user erases is made of whole clusters: no mark is left without its base
\* (graphemeSegmentation.ts:38-62, inputPipeline.ts:237-290).
ErasesWholeClusters ==
  [][Erasing /\ ~tab.unshown /\ CaretBetweenClusters(tab)
       => ClustersTakenOut(EngineText(tab), EngineText(tab'))]_vars
=============================================================================
