--------------------------- MODULE SharedDocument ---------------------------
(***************************************************************************)
(* What synchronisation promises the user of a client: every edit they     *)
(* type enters the document at most once, in the end it is saved or they   *)
(* are told that it was refused, and only closing the page can make the    *)
(* client forget one.  Sync implements this specification.                 *)
(***************************************************************************)
EXTENDS Integers, Sequences

CONSTANTS
  Edits,      \* keystrokes of the client
  PeerEdits   \* edits of everybody else

VARIABLES
  text,       \* the edits in the document, in the order the server numbered them
  status,     \* of each edit of the client
  closings    \* times the client's page has been closed

Statuses == {"unused", "unsaved", "saved", "refused", "forgotten"}

TypeOK ==
  /\ text \in Seq(Edits \cup PeerEdits)
  /\ status \in [Edits -> Statuses]
  /\ closings \in Nat

Init == text = <<>> /\ status = [e \in Edits |-> "unused"] /\ closings = 0

Type(e) ==
  /\ status[e] = "unused"
  /\ status' = [status EXCEPT ![e] = "unsaved"]
  /\ UNCHANGED <<text, closings>>

Saved(es) == [e \in Edits |-> IF \E i \in DOMAIN es : es[i] = e THEN "saved" ELSE status[e]]

\* One edit arrives, and others that were waiting for it.  An edit that the
\* client has forgotten may still be on its way.
Save ==
  LET es == SubSeq(text', Len(text) + 1, Len(text'))
  IN  /\ es # <<>> /\ es \in Seq(Edits \cup PeerEdits)
      /\ \A i, j \in DOMAIN es : i # j => es[i] # es[j]
      /\ \A i \in DOMAIN es, k \in DOMAIN text : text[k] # es[i]
      /\ \A i \in DOMAIN es : es[i] \in Edits => status[es[i]] \in {"unsaved", "forgotten"}
      /\ text' = text \o es
      /\ status' = Saved(es)
      /\ UNCHANGED closings

Refuse(e) ==
  /\ status[e] = "unsaved"
  /\ status' = [status EXCEPT ![e] = "refused"]
  /\ UNCHANGED <<text, closings>>

\* The page closes.  What had not been stored locally is forgotten, and what has
\* been refused may be tried again.
ClosePage ==
  /\ closings' = closings + 1
  /\ UNCHANGED text
  /\ \E F \in SUBSET {e \in Edits : status[e] \in {"unsaved", "refused"}},
        R \in SUBSET {e \in Edits : status[e] = "refused"} :
       status' = [e \in Edits |-> IF e \in F THEN "forgotten"
                                  ELSE IF e \in R THEN "unsaved" ELSE status[e]]

Next == (\E e \in Edits : Type(e) \/ Refuse(e)) \/ Save \/ ClosePage

vars == <<text, status, closings>>

Spec == Init /\ [][Next]_vars
=============================================================================
