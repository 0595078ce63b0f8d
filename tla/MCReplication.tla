--------------------------- MODULE MCReplication ---------------------------
(***************************************************************************)
(* Replication with three replicas whose operations arrive in any order    *)
(* and more than once, and with two that type marks, undo and redo.        *)
(***************************************************************************)
EXTENDS Replication

MCBudget(who, binds, fifo, inserts, deletes, undos, duplicates) ==
  [who |-> who, binds |-> binds, fifo |-> fifo, inserts |-> inserts,
   deletes |-> deletes, undos |-> undos, duplicates |-> duplicates]

MCBudgets ==
  {MCBudget({1, 2, 3}, {FALSE}, FALSE, 2, 2, 0, 1),
   MCBudget({1, 2}, BOOLEAN, TRUE, 3, 1, 1, 0),
   MCBudget({1, 2}, BOOLEAN, TRUE, 2, 1, 2, 0)}

MCUndone == {MCBudget({1, 2}, {FALSE}, TRUE, 1, 2, 1, 0)}
=============================================================================
