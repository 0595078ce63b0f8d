------------------------------- MODULE Audit -------------------------------
(***************************************************************************)
(* The periodic audit of an open document (packages/server/src/audit.ts,   *)
(* auditScheduler.ts) on top of the write path: the log is replayed from   *)
(* its beginning and compared with the snapshots and with the live engine. *)
(*                                                                         *)
(* The live text is captured first, then the log, the latest snapshot and, *)
(* on a mismatch, all snapshots are read, each in a query of its own, with *)
(* the document in use meanwhile.  Equal sets of operations stand for      *)
(* equal texts.                                                            *)
(***************************************************************************)
EXTENDS WritePath

CONSTANT Audited  \* the budgets under which the document is audited, once

VARIABLES
  audit,          \* the audit in progress
  verdicts,       \* rows of the audit_runs table: [result, divergence]
  health,         \* lastAuditSuccessAt and auditMismatchCount: what the last one did
  auditsLeft      \* bound

auditVars == <<audit, verdicts, health, auditsLeft>>
allVars == <<vars, auditVars>>

NoAudit ==
  [stage |-> "none", live |-> {}, log |-> {}, latest |-> 0, result |-> "none",
   divergence |-> 0, named |-> {}]

AuditInit ==
  /\ Init
  /\ audit = NoAudit /\ verdicts = {} /\ health = "unknown"
  /\ auditsLeft = IF budget \in Audited THEN 1 ELSE 0

-----------------------------------------------------------------------------
(* What an audit computes *)

\* The operations replayThrough() has applied of the rows up to n; what is not
\* ready stays pending and does not show.
ReplayThrough(rows, n) == Resolved({}, {r.op : r \in {x \in rows : x.seq <= n}})

Matches(rows, snapshot) == ReplayThrough(rows, snapshot.seq) = snapshot.ops

\* Rows whose operation never became ready.
Stuck(rows) == {r \in rows : r.op \notin Resolved({}, {x.op : x \in rows})}

LeastSeq(rows) == CHOOSE n \in {r.seq : r \in rows} : \A r \in rows : n <= r.seq

\* listSnapshots(): ordered by seq.
InSeqOrder(rows) ==
  CHOOSE f \in [1..Cardinality(rows) -> rows] :
    \A i, j \in DOMAIN f : i < j => f[i].seq < f[j].seq

\* Mutant: the search goes on above a snapshot that disagrees.
BisectUpwards(rows, list) ==
  LET n == Len(list)
      FirstBad[lo \in 1..(n + 1), hi \in 0..n, bad \in 1..n] ==
        IF lo > hi THEN bad
        ELSE LET mid == (lo + hi) \div 2
             IN  IF Matches(rows, list[mid]) THEN FirstBad[mid + 1, hi, bad]
                 ELSE FirstBad[mid + 1, hi, mid]
  IN  list[FirstBad[1, n, n]]

\* bisectSnapshotDivergence(): a binary search for the first snapshot that
\* disagrees with the replay; the last one if the search never narrows.
Bisect(rows, list) ==
  LET n == Len(list)
      FirstBad[lo \in 1..(n + 1), hi \in 0..n, bad \in 1..n] ==
        IF lo > hi THEN bad
        ELSE LET mid == (lo + hi) \div 2
             IN  IF Matches(rows, list[mid]) THEN FirstBad[mid + 1, hi, bad]
                 ELSE FirstBad[lo, mid - 1, mid]
  IN  list[FirstBad[1, n, n]]

\* getLatestSnapshot(), none if nothing was ever snapshotted.
LatestSnapshot == {r \in snapshots : \A q \in snapshots : q.seq <= r.seq}

\* The row that writeAuditRun() inserts.
AuditRun == [result |-> audit.result, divergence |-> audit.divergence]

Judged(result, divergence) ==
  audit' = [audit EXCEPT !.stage = "judged", !.result = result, !.divergence = divergence]

-----------------------------------------------------------------------------
(* The queries of an audit *)

\* runAllOpenDocuments(): the live text is read before anything is awaited.
AuditStarts ==
  /\ phase = "up"
  /\ audit.stage = "none" /\ auditsLeft > 0
  /\ audit' = [NoAudit EXCEPT !.stage = "log", !.live = applied]
  /\ auditsLeft' = auditsLeft - 1
  /\ UNCHANGED <<vars, verdicts, health>>

\* loadFullOperationLogWithSeq(), then the replay: an operation that stays
\* pending is an error, named by the first row that is stuck.
LogRead ==
  /\ audit.stage = "log"
  /\ IF Stuck(log) # {}
     THEN audit' = [audit EXCEPT !.stage = "judged", !.log = log, !.result = "error",
                                 !.divergence = LeastSeq(Stuck(log))]
     ELSE audit' = [audit EXCEPT !.stage = "latest", !.log = log]
  /\ UNCHANGED <<vars, verdicts, health, auditsLeft>>

\* getLatestSnapshot(): the first disagreement to look for; without one, the
\* live text is compared with the replay of the whole log.
LatestRead ==
  /\ audit.stage = "latest"
  /\ \/ /\ \E r \in LatestSnapshot : ~Matches(audit.log, r)
        /\ audit' = [audit EXCEPT !.stage = "list"]
     \/ /\ \A r \in LatestSnapshot : Matches(audit.log, r)
        /\ Judged(IF audit.live = {r.op : r \in audit.log} THEN "ok" ELSE "mismatch", 0)
  /\ UNCHANGED <<vars, verdicts, health, auditsLeft>>

\* listSnapshots(), and the bisection over what it returned.
ListRead ==
  LET bad == Bisect(audit.log, InSeqOrder(snapshots))
  IN  /\ audit.stage = "list"
      /\ audit' = [audit EXCEPT !.stage = "judged", !.result = "mismatch",
                                !.divergence = bad.seq, !.named = {bad}]
      /\ UNCHANGED <<vars, verdicts, health, auditsLeft>>

\* recordAndLog(), and what the scheduler does with the result.
AuditRecorded ==
  /\ audit.stage = "judged"
  /\ verdicts' = verdicts \cup {AuditRun}
  /\ health' = IF audit.result = "ok" THEN "succeeded" ELSE "mismatched"
  /\ audit' = NoAudit
  /\ UNCHANGED <<vars, auditsLeft>>

\* A query of the audit throws: the scheduler logs it and goes on.
AuditThrows ==
  /\ audit.stage # "none"
  /\ audit' = NoAudit
  /\ UNCHANGED <<vars, verdicts, health, auditsLeft>>

\* A crash takes the audit and what the process remembers of it.
AuditNext ==
  \/ /\ Next
     /\ IF phase' = "up" THEN UNCHANGED auditVars
        ELSE audit' = NoAudit /\ health' = "unknown" /\ UNCHANGED <<verdicts, auditsLeft>>
  \/ AuditStarts \/ LogRead \/ LatestRead \/ ListRead \/ AuditRecorded \/ AuditThrows

AuditSpec == AuditInit /\ [][AuditNext]_allVars /\ Fairness

-----------------------------------------------------------------------------
(* Properties *)

\* Nothing moved since the audit captured the live text: what it read is what
\* there still is, and no commit is on its way.
Still == queue = <<>> /\ audit.live = applied /\ audit.log = log

\* "error" in a calm and ordered behaviour: the log has no hole unless something was
\* lost, even while the document is edited.
NoFalseHole ==
  audit.stage = "judged" /\ audit.result = "error" /\ budget.calm /\ budget.ordered
    => lost # {}

\* A document that did not move meanwhile is called intact, although snapshots run
\* ahead of the log.
IntactIsOk == audit.stage = "judged" /\ Still /\ lost = {} => audit.result = "ok"

\* A divergence that is named is the first snapshot that disagrees, which a binary
\* search finds only if none after it agrees.
NamedIsFirst ==
  audit.stage = "judged" =>
    \A r \in audit.named :
      /\ ~Matches(audit.log, r)
      /\ \A q \in snapshots : q.seq < r.seq => Matches(audit.log, q)

\* An audit tells the truth (audit.ts:121-220) as long as no operation was lost.
AuditTells == NoFalseHole /\ IntactIsOk /\ NamedIsFirst

=============================================================================
