----------------------------- MODULE MCPresence -----------------------------
(***************************************************************************)
(* Presence with one client, who moves much or stays long, and with two,   *)
(* who come and go, have their lanes shed, or fall silent.                 *)
(***************************************************************************)
EXTENDS Presence, TLC

MCBudget(who, sessions, moves, losses, clogs, quits, ticks) ==
  [who |-> who, sessions |-> sessions, moves |-> moves, losses |-> losses,
   clogs |-> clogs, quits |-> quits, ticks |-> ticks]

MCBudgets ==
  LET One == {CHOOSE c \in Clients : TRUE}
  IN  {MCBudget(One, 1, 3, 0, 0, 0, 5), MCBudget(One, 2, 0, 1, 0, 0, 6),
       MCBudget(Clients, 3, 0, 1, 0, 0, 0), MCBudget(Clients, 3, 0, 0, 0, 1, 0),
       MCBudget(Clients, 3, 1, 0, 0, 0, 1), MCBudget(Clients, 2, 1, 0, 1, 0, 1),
       MCBudget(Clients, 2, 0, 1, 0, 0, 4)}

MCInterchangeable == Permutations(Clients)
=============================================================================
