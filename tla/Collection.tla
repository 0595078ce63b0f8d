----------------------------- MODULE Collection -----------------------------
(***************************************************************************)
(* Garbage collection of one document: the server's engine forgets deleted *)
(* characters (Engine.collect() in packages/engine/src/engine.ts, run by   *)
(* packages/server/src/gcScheduler.ts), the clients never do.              *)
(*                                                                         *)
(* A delete may be forgotten when its sequence number is at or below the   *)
(* stability frontier, which a query takes from the rows of the sessions   *)
(* seen in the last ten minutes, and when it is past the undo horizon.     *)
(* The rows follow the pings of the clients by queries nobody waits for,   *)
(* and the answer is waited for before anything is collected.  A client    *)
(* that was silent for ten minutes holds nothing back; it, and the others, *)
(* go on typing next to what the server has forgotten: such an operation   *)
(* finds no parent, waits in the buffer, and the sweep refuses it.         *)
(*                                                                         *)
(* Acknowledgements and relays come to a client in the order of the log    *)
(* (module Sync has the handshakes that end a silence, module WritePath    *)
(* the commits).                                                           *)
(***************************************************************************)
EXTENDS Engine

CONSTANTS
  Clients,   \* replicas of the connected clients
  Typists,   \* bound: the clients that type
  Base,      \* characters in the document at the start
  MaxTyped, MaxErased, MaxUndone,  \* bounds: edits of each kind
  MaxEdits,  \* bound: edits
  MaxOps,    \* undoHorizonMaxOpsPerReplica
  MaxCycles  \* bound: collection cycles

ASSUME CollectionAssumption ==
  /\ Clients \subseteq Nat \ {0} /\ Typists \subseteq Clients /\ Base \in Nat
  /\ MaxTyped \in Nat /\ MaxErased \in Nat /\ MaxUndone \in Nat /\ MaxEdits \in Nat
  /\ MaxOps \in Nat \ {0} /\ MaxCycles \in Nat

VARIABLES
  server,    \* the coordinator's engine
  log,       \* the operations it has numbered, in order
  client,    \* the engine of each client
  up, down,  \* frames under way to the server and to a client
  applied,   \* lastAppliedSeq of each client
  acked,     \* sessions.last_ack_seq
  asked,     \* the collection cycle under way, if any, with the frontier it was told
  aged,      \* operations up to this number are past undoHorizonMaxAgeMs
  kept,      \* refused operations a client could not take back
  spent      \* edits of each kind and cycles so far

vars == <<server, log, client, up, down, applied, acked, asked, aged, kept, spent>>

rows == <<acked, asked>>

-----------------------------------------------------------------------------
(* Engine.collect() *)

\* Mutant: what a delete has to be older than is not looked at.
CandidatesUnstable(e, frontier, old) ==
  {n \in NodeIds(e.tree) :
     LET by == e.tree[n].deletedBy
     IN  e.tree[n].deleted /\ by # Null /\ by \in DOMAIN e.deleteContext
           /\ (e.deleteContext[by] <= old \/ Seen(e, by[2]) - by[1] >= MaxOps)}

\* Mutant: the horizon is one operation shorter.
CandidatesEarly(e, frontier, old) ==
  {n \in NodeIds(e.tree) :
     LET by == e.tree[n].deletedBy
     IN  e.tree[n].deleted /\ by # Null /\ by \in DOMAIN e.deleteContext
           /\ e.deleteContext[by] <= frontier
           /\ (e.deleteContext[by] <= old \/ Seen(e, by[2]) - by[1] >= MaxOps - 1)}

\* Deleted, stable, and past the undo horizon in time or in operations.
Candidates(e, frontier, old) ==
  {n \in NodeIds(e.tree) :
     LET by == e.tree[n].deletedBy
     IN  e.tree[n].deleted /\ by # Null /\ by \in DOMAIN e.deleteContext
           /\ e.deleteContext[by] <= frontier
           /\ (e.deleteContext[by] <= old \/ Seen(e, by[2]) - by[1] >= MaxOps)}

\* Without the nodes that a node outside hangs from.
Unanchored(t, nodes) == nodes \ {t[n].parent : n \in NodeIds(t) \ nodes}

\* Mutant: one pass.
CollectibleOnce(t, nodes) == Unanchored(t, nodes)

\* The fixpoint: each pass but the last takes a node out.
Collectible(t, nodes) ==
  LET after[i \in 0..Cardinality(nodes)] ==
        IF i = 0 THEN nodes ELSE Unanchored(t, after[i-1])
  IN  after[Cardinality(nodes)]

\* Children before their parents.
RemoveAll(t, nodes) ==
  LET after[rest \in SUBSET nodes] ==
        IF rest = {} THEN t
        ELSE LET top == CHOOSE n \in rest : t[n].parent \notin rest
             IN  RemoveLeaf(after[rest \ {top}], top)
  IN  after[nodes]

Collect(e, frontier, old) ==
  LET gone == Collectible(e.tree, Candidates(e, frontier, old))
      contexts == {e.tree[n].deletedBy : n \in gone}
  IN  [e EXCEPT !.tree = RemoveAll(@, gone),
                !.deleteContext = [d \in DOMAIN @ \ contexts |-> @[d]]]

-----------------------------------------------------------------------------
(* Initial state: the document holds Base characters that everybody has *)

Author == 1

BaseOps == [k \in 1..Base |-> InsertOp(<<k, Author>>, IF k = 1 THEN Null ELSE <<k-1, Author>>,
                                       "R", FALSE)]

Loaded(replica) == FoldLeft(ApplyRemote, NewEngine(replica), BaseOps)

Init ==
  /\ server = Loaded(0)
  /\ log = BaseOps
  /\ client = [c \in Clients |-> Loaded(c)]
  /\ up = [c \in Clients |-> <<>>] /\ down = [c \in Clients |-> <<>>]
  /\ applied = [c \in Clients |-> Base]
  /\ acked = [c \in Clients |-> Base]
  /\ asked = {}
  /\ aged = 0
  /\ kept = {}
  /\ spent = [typed |-> 0, erased |-> 0, undone |-> 0, cycles |-> 0]

-----------------------------------------------------------------------------
(* Editing *)

\* A local edit: the engine has done it, its operations are on their way.
Edit(c, r) ==
  /\ r.ops # <<>> /\ spent.typed + spent.erased + spent.undone < MaxEdits
  /\ client' = [client EXCEPT ![c] = r.engine]
  /\ up' = [up EXCEPT ![c] = @ \o r.ops]
  /\ UNCHANGED <<server, log, down, applied, rows, aged, kept>>

Type(c) ==
  /\ c \in Typists
  /\ spent.typed < MaxTyped /\ spent' = [spent EXCEPT !.typed = @ + 1]
  /\ \E i \in 0..client[c].tree[Root].vis : Edit(c, LocalInsert(client[c], i, FALSE))

Erase(c) ==
  /\ spent.erased < MaxErased /\ spent' = [spent EXCEPT !.erased = @ + 1]
  /\ \E i \in 0..(client[c].tree[Root].vis - 1) : Edit(c, LocalDelete(client[c], i, 1))

TakeBack(c) ==
  /\ spent.undone < MaxUndone /\ spent' = [spent EXCEPT !.undone = @ + 1]
  /\ client[c].undo # <<>> /\ Edit(c, Undo(client[c]))

\* The server integrates an operation, numbers it, tells everybody, and keeps
\* the number of a delete; or the operation waits for a node it does not have.
Integrate(c) ==
  /\ up[c] # <<>>
  /\ LET op == Head(up[c])
         e == ApplyRemote(server, op)
         seq == Len(log) + 1
     IN  /\ server' = IF op.kind = "delete" /\ op.id \in e.applied
                      THEN [e EXCEPT !.deleteContext = Put(@, op.id, seq)] ELSE e
         /\ IF op.id \in e.applied
            THEN /\ log' = Append(log, op)
                 /\ down' = [d \in Clients |-> Append(down[d], [kind |-> "op", op |-> op])]
            ELSE UNCHANGED <<log, down>>
  /\ up' = [up EXCEPT ![c] = Tail(@)]
  /\ UNCHANGED <<client, applied, rows, aged, kept, spent>>

\* runOneDocument() of the offline-window scheduler: an operation that waited
\* too long leaves the buffer, and its author is told.
Sweep(op) ==
  /\ op \in ToSet(server.pending)
  /\ server' = [server EXCEPT !.pending = Remove(@, op)]
  /\ down' = [down EXCEPT ![op.id[2]] = Append(@, [kind |-> "reject", op |-> op])]
  /\ UNCHANGED <<log, client, up, applied, rows, aged, kept, spent>>

\* A relayed operation, or the acknowledgement of an own one.
Hear(c) ==
  /\ down[c] # <<>> /\ Head(down[c]).kind = "op"
  /\ client' = [client EXCEPT ![c] = ApplyRemote(@, Head(down[c]).op)]
  /\ applied' = [applied EXCEPT ![c] = @ + 1]
  /\ down' = [down EXCEPT ![c] = Tail(@)]
  /\ UNCHANGED <<server, log, up, rows, aged, kept, spent>>

\* Mutant: a refused insert stays on the screen.
RevertNothing(e, op) == e

\* tryRevertLocalInsert(): the character goes if nothing hangs from it.
Revert(e, op) ==
  IF op.kind = "insert" /\ HasIdentifier(e.tree, op.id) /\ IsLeaf(e.tree, op.id)
  THEN [e EXCEPT !.tree = RemoveLeaf(@, op.id)] ELSE e

Refused(c) ==
  /\ down[c] # <<>> /\ Head(down[c]).kind = "reject"
  /\ LET op == Head(down[c]).op
         clean == op.kind = "insert" /\ HasIdentifier(client[c].tree, op.id)
                    /\ IsLeaf(client[c].tree, op.id)
     IN  /\ client' = [client EXCEPT ![c] = Revert(@, op)]
         /\ kept' = IF clean THEN kept ELSE kept \cup {op}
  /\ down' = [down EXCEPT ![c] = Tail(@)]
  /\ UNCHANGED <<server, log, up, applied, rows, aged, spent>>

-----------------------------------------------------------------------------
(* The frontier, and a collection cycle *)

\* Mutant: the row holds the number the client waits for.
NextBeat(row, beat) == beat + 1

\* GREATEST(sessions.last_ack_seq, EXCLUDED.last_ack_seq)
Greatest(row, beat) == IF beat > row THEN beat ELSE row

\* A ping carries lastAppliedSeq; nobody waits for the query it causes
\* (upsertSessionHeartbeat()), so that the row is written with the number the
\* client had at some earlier moment, and earlier ones may come later.
\* (After the last cycle has asked, nobody reads the rows: MaxCycles.)
Heartbeat(c) ==
  /\ spent.cycles < MaxCycles
  /\ \E beat \in Base..applied[c] : acked' = [acked EXCEPT ![c] = Greatest(@, beat)]
  /\ UNCHANGED <<server, log, client, up, down, applied, asked, aged, kept, spent>>

\* undoHorizonMaxAgeMs passes for one delete more, and all before it.
Age ==
  /\ spent.cycles < MaxCycles \/ asked # {}
  /\ \E n \in aged + 1 .. Len(log) : log[n].kind = "delete" /\ aged' = n
  /\ UNCHANGED <<server, log, client, up, down, applied, rows, kept, spent>>

\* Mutant: a session that has been seen for long holds nothing back either.
FrontierOfSome(awake) == IF awake = {} THEN Len(log) ELSE Max({acked[c] : c \in awake})

\* getStabilityFrontier(): the least number that the row of a session seen in
\* the last ten minutes holds; documents.current_seq when there is none.
StabilityFrontier(awake) ==
  IF awake = {} THEN Len(log) ELSE Min({acked[c] : c \in awake})

\* runOneDocument() of the scheduler asks for the frontier.  Any client may have
\* been silent for ten minutes then, its network gone or its machine asleep:
\* what it sends and is sent waits, and last_seen_at matters to this query only.
AskFrontier ==
  /\ asked = {} /\ spent.cycles < MaxCycles
  /\ spent' = [spent EXCEPT !.cycles = @ + 1]
  /\ \E awake \in SUBSET Clients :
       asked' = {[frontier |-> StabilityFrontier(awake), from |-> awake]}
  /\ UNCHANGED <<server, log, client, up, down, applied, acked, aged, kept>>

\* It has been told and collects.  A sweep that runs out of its budget, or a
\* query that fails, collects nothing.
Cycle ==
  /\ asked' = {}
  /\ \E cycle \in asked : server' \in {server, Collect(server, cycle.frontier, aged)}
  /\ UNCHANGED <<log, client, up, down, applied, acked, aged, kept, spent>>

Next ==
  \/ \E c \in Clients : Type(c) \/ Erase(c) \/ TakeBack(c) \/ Integrate(c)
  \/ \E c \in Clients : Hear(c) \/ Refused(c) \/ Heartbeat(c)
  \/ \E op \in ToSet(server.pending) : Sweep(op)
  \/ Age \/ AskFrontier \/ Cycle

Spec == Init /\ [][Next]_vars

-----------------------------------------------------------------------------
(* Properties *)

TypeOK ==
  /\ DOMAIN client = Clients /\ DOMAIN up = Clients /\ DOMAIN down = Clients
  /\ \A c \in Clients : applied[c] \in 0..Len(log) /\ acked[c] \in 0..applied[c]
  /\ aged \in 0..Len(log)
  /\ \A cycle \in asked : cycle.frontier \in Base..Len(log) /\ cycle.from \subseteq Clients
  /\ kept \cap ToSet(log) = {}
  /\ DOMAIN server.deleteContext \subseteq server.applied

\* Forgetting leaves a tree: no node loses its parent, and the sizes that guide
\* the lookups count what is left (collect(), engine.ts:742-868).
TreeIntact ==
  /\ \A n \in NodeIds(server.tree) :
       /\ server.tree[n].parent \in DOMAIN server.tree
       /\ n \in ToSet(server.tree[server.tree[n].parent].left
                        \o server.tree[server.tree[n].parent].right)
  /\ server.tree[Root].tot = Cardinality(NodeIds(server.tree))
  /\ server.tree[Root].vis = Len(Visible(server.tree))

\* Every variable has its type and the server's engine is a tree.
WellFormed == TypeOK /\ TreeIntact

\* What the server forgets, every client that the frontier was taken from knows
\* to be deleted: it has the delete that the server went by
\* (getStabilityFrontier(), I8).  One that was silent then may not know.
ForgottenIsStable ==
  [][\A n \in NodeIds(server.tree) \ NodeIds(server'.tree) :
       \A cycle \in asked : \A c \in cycle.from :
         server.tree[n].deletedBy \in client[c].applied]_vars

Inserted(ops) == {op.id : op \in {o \in ToSet(ops) : o.kind = "insert"}}

\* Two clients have deleted the node and one has taken it back: the engines may
\* disagree about it whether or not anything is collected (README).
Contested ==
  \E i, j, k \in DOMAIN log :
    /\ log[i].kind = "delete" /\ log[j].kind = "delete" /\ log[k].kind = "undelete"
    /\ log[i].target = log[j].target /\ log[i].target = log[k].target
    /\ log[i].id[2] # log[j].id[2]

\* With nothing under way, server and clients show the same characters in the
\* same order, although the trees they read them from differ; only a refused
\* operation that could not be taken back tells them apart (R0012).
SameText ==
  (/\ \A c \in Clients : up[c] = <<>> /\ down[c] = <<>>
   /\ server.pending = <<>> /\ kept = {} /\ ~Contested)
  => \A c \in Clients : Visible(client[c].tree) = Visible(server.tree)

\* An undo within the horizon is never refused: the delete has not aged, and
\* the number the undo mints is at most MaxOps above the delete's.  That is the
\* measure the code takes (engine.ts:785); see HorizonCountsOperations.
UndoHonoured ==
  \A c \in Clients : \A f \in ToSet(down[c]) :
    f.kind = "reject" /\ f.op.kind = "undelete"
      => \E i \in DOMAIN log :
           /\ log[i].kind = "delete" /\ log[i].target = f.op.target
           /\ i <= aged \/ log[i].id[2] # c \/ f.op.id[1] - log[i].id[1] > MaxOps

\* Refuted.  What the server has forgotten was deleted long enough ago, or "the
\* deleting replica has minted options.maxOpsPerReplica or more further
\* operations since" (engine.ts:755): its numbers also grow by the operations of
\* others that it hears of.
HorizonCountsOperations ==
  \A n \in Inserted(log) \ NodeIds(server.tree) :
    \E i \in DOMAIN log :
      LET by == log[i].id
      IN  /\ log[i].kind = "delete" /\ log[i].target = n
          /\ \/ i <= aged
             \/ Cardinality({id \in client[by[2]].applied :
                               id[2] = by[2] /\ id[1] > by[1]}) >= MaxOps

=============================================================================
