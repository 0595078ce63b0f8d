----------------------------- MODULE MCLibrary -----------------------------
(***************************************************************************)
(* One browser with two tabs: calls that overlap while it signs in and     *)
(* out, documents created with two keys, and walks over a shelf of four.   *)
(***************************************************************************)
EXTENDS Library

NoSignIns == [logins |-> 0, refreshes |-> 0, logouts |-> 0, lapses |-> 0, expiries |-> 0,
              losses |-> 0, failures |-> 0]

MCBusy ==
  {[NoSignIns EXCEPT !.logins = 1, !.refreshes = 3, !.logouts = 1, !.lapses = 1, !.losses = 1],
   [NoSignIns EXCEPT !.logins = 1, !.refreshes = 2, !.logouts = 1, !.expiries = 1, !.failures = 1]}

MCLapse == [NoSignIns EXCEPT !.refreshes = 1, !.lapses = 1]

MCSignIns == MCBusy \cup {NoSignIns, MCLapse}

NoErrands == [posts |-> 0, walks |-> 0, renames |-> 0, transfers |-> 0, deletes |-> 0,
              ticks |-> 0, faults |-> 0, days |-> 0, shelf |-> <<>>, signIns |-> NoSignIns]

\* A shelf with two documents in one millisecond between others, and one with two
\* of the same time.
MCShelves == {<<0, 2, 3, 5>>, <<1, 3, 3, 4>>}

MCErrands ==
  {[NoErrands EXCEPT !.signIns = s] : s \in MCBusy}
    \cup {[NoErrands EXCEPT !.posts = 4, !.faults = 2], [NoErrands EXCEPT !.posts = 3, !.days = 1],
          [NoErrands EXCEPT !.posts = 1, !.walks = 1, !.shelf = <<1>>, !.signIns = MCLapse]}
    \cup {[NoErrands EXCEPT !.walks = 1, !.renames = 1, !.deletes = 1, !.ticks = 1,
                            !.shelf = times] : times \in MCShelves}
    \cup {[NoErrands EXCEPT !.walks = 1, !.renames = 1, !.posts = 1, !.ticks = 1,
                            !.shelf = times] : times \in MCShelves}
    \cup {[NoErrands EXCEPT !.walks = 1, !.renames = 1, !.transfers = 1, !.ticks = 1,
                            !.shelf = times] : times \in MCShelves}
=============================================================================
