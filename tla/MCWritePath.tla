---------------------------- MODULE MCWritePath ----------------------------
(***************************************************************************)
(* Two clients of one document.  Client s1 types a, b after a and c after  *)
(* b; client s2, once it has a, types d next to a and e next to d.         *)
(***************************************************************************)
EXTENDS Audit, TLC

CONSTANTS s1, s2, a, b, c, d, e

MCSessions == {s1, s2}

MCOps == {a, b, c, d, e}

MCDep == (a :> NoOp) @@ (b :> a) @@ (c :> b) @@ (d :> a) @@ (e :> d)

\* Messages of one operation each, so that their lookups can answer in any order,
\* and one of two.
MCScript == (s1 :> <<<<a>>, <<b>>, <<c>>>>) @@ (s2 :> <<<<d, e>>>>)

None == [failures |-> 0, crashes |-> 0, snapshots |-> 0, leaves |-> 0, freezes |-> 0,
         denials |-> 0, rebuilds |-> 0, calm |-> FALSE, ordered |-> FALSE,
         senders |-> MCSessions]

Calm == [None EXCEPT !.calm = TRUE, !.ordered = TRUE]

\* A commit fails around a crash, a rebuild (with the lookups of a session in order,
\* for the size of it), or a freeze and a denial.
MCTroubles == {[None EXCEPT !.failures = 1, !.crashes = 1],
               [None EXCEPT !.failures = 1, !.rebuilds = 1, !.ordered = TRUE],
               [None EXCEPT !.failures = 1, !.freezes = 1, !.denials = 1]}

\* A session leaves and the process restarts from a snapshot.
MCRestart == {[Calm EXCEPT !.crashes = 1, !.snapshots = 1, !.leaves = 1]}

\* An audit next to two snapshots and a failing commit, and in a calm behaviour.
MCAudited == {[None EXCEPT !.failures = 1, !.snapshots = 2, !.senders = {s1}],
              [Calm EXCEPT !.snapshots = 1, !.crashes = 1, !.senders = {s1}]}

MCBudgets == MCTroubles \cup MCRestart \cup MCAudited
=============================================================================
