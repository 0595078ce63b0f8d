----------------------------- MODULE Audit_proofs -----------------------------
(***************************************************************************)
(* An audit disturbs nothing: the document that is audited is the document *)
(* of WritePath, so that its theorems hold of it.  And an audit reports no *)
(* hole in the log of a document that lost nothing.                        *)
(***************************************************************************)
EXTENDS Audit, Restart_proofs

\* The queries of an audit change nothing but the audit.
LEMMA AuditReadsOnly == ASSUME [AuditNext]_allVars PROVE [Next]_vars
BY DEF AuditNext, AuditStarts, LogRead, LatestRead, ListRead, AuditRecorded, AuditThrows, allVars

\* Every behaviour of an audited document is one of the write path.
THEOREM AuditedIsWritePath == AuditSpec => Spec
<1>1. AuditInit => Init
  BY DEF AuditInit
<1>2. [AuditNext]_allVars => [Next]_vars
  BY AuditReadsOnly
<1> QED
  BY <1>1, <1>2, PTL DEF AuditSpec, Spec

\* In a calm and ordered behaviour that lost nothing every row of the log replays.
LEMMA NothingStuck ==
  ASSUME RestartInv, budget.calm, budget.ordered, lost = {}
  PROVE  Stuck(log) = {}
<1>1. ~Haunted
  BY DEF Haunted
<1>2. OperationsInv /\ RestartParts
  BY <1>1 DEF RestartInv
<1>3. ASSUME NEW o \in Logged PROVE Dep[o] \in Logged \cup {NoOp}
  <2>1. PICK x \in log : x.op = o
    BY DEF Logged
  <2>2. Dep[x.op] # NoOp => \E y \in log : y.op = Dep[x.op]
    BY <1>2, CausalLog
  <2> QED
    BY <2>1, <2>2 DEF Logged
<1>4. Logged \subseteq Resolved({}, Logged)
  <2>1. Logged \in SUBSET Logged
    OBVIOUS
  <2> QED
    BY <1>3, <2>1, ResolvedGreatest
<1> QED
  BY <1>4 DEF Stuck, Logged

\* "error" is only ever written down by reading the log.
AuditInv ==
  /\ {"stage", "result"} \subseteq DOMAIN audit
  /\ audit.result = "error" => audit.stage = "judged"
  /\ NoFalseHole

\* The steps of the write path and of the audit keep what the audit has noted
\* true: a hole it names is a row that is lost for good.
LEMMA AuditStep ==
  ASSUME RestartInv, AuditInv, [AuditNext]_allVars
  PROVE  AuditInv'
<1>1. /\ budget'.calm = budget.calm /\ budget'.ordered = budget.ordered
      /\ lost \subseteq lost'
  BY AuditReadsOnly, BudgetKeeps, HauntedForGood DEF RestartInv
<1>2. DOMAIN NoAudit = {"stage", "live", "log", "latest", "result", "divergence", "named"}
      /\ NoAudit.result = "none" /\ NoAudit.stage = "none"
  BY DEF NoAudit
<1>3. CASE UNCHANGED audit
  BY <1>1, <1>3 DEF AuditInv, NoFalseHole
<1>4. CASE audit' = NoAudit
  BY <1>2, <1>4 DEF AuditInv, NoFalseHole
<1>5. CASE AuditStarts
  <2>1. audit' = [NoAudit EXCEPT !.stage = "log", !.live = applied]
    BY <1>5 DEF AuditStarts
  <2> QED
    BY <1>2, <2>1 DEF AuditInv, NoFalseHole
<1>6. CASE LogRead
  <2>1. CASE Stuck(log) # {}
    <3>1. audit' = [audit EXCEPT !.stage = "judged", !.log = log, !.result = "error",
                                 !.divergence = LeastSeq(Stuck(log))]
      BY <1>6, <2>1 DEF LogRead
    <3>2. DOMAIN audit' = DOMAIN audit /\ audit'.stage = "judged"
      BY <3>1 DEF AuditInv
    <3>3. budget.calm /\ budget.ordered => lost # {}
      BY <2>1, NothingStuck
    <3> QED
      BY <1>1, <3>2, <3>3 DEF AuditInv, NoFalseHole
  <2>2. CASE Stuck(log) = {}
    <3>1. audit' = [audit EXCEPT !.stage = "latest", !.log = log] /\ audit.stage = "log"
      BY <1>6, <2>2 DEF LogRead
    <3>2. DOMAIN audit' = DOMAIN audit /\ audit'.stage = "latest" /\ audit'.result = audit.result
      BY <3>1 DEF AuditInv
    <3> QED
      BY <3>1, <3>2 DEF AuditInv, NoFalseHole
  <2> QED
    BY <2>1, <2>2
<1>7. CASE LatestRead
  <2>1. audit.stage = "latest"
    BY <1>7 DEF LatestRead
  <2>2. CASE audit' = [audit EXCEPT !.stage = "list"]
    <3>1. DOMAIN audit' = DOMAIN audit /\ audit'.stage = "list" /\ audit'.result = audit.result
      BY <2>2 DEF AuditInv
    <3> QED
      BY <2>1, <3>1 DEF AuditInv, NoFalseHole
  <2>3. ASSUME NEW result \in {"ok", "mismatch"}, Judged(result, 0) PROVE AuditInv'
    <3>1. DOMAIN audit' = DOMAIN audit /\ audit'.result = result
      BY <2>3 DEF AuditInv, Judged
    <3> QED
      BY <3>1 DEF AuditInv, NoFalseHole
  <2> QED
    BY <1>7, <2>2, <2>3 DEF LatestRead
<1>8. CASE ListRead
  <2>1. PICK bad : audit' = [audit EXCEPT !.stage = "judged", !.result = "mismatch",
                                          !.divergence = bad.seq, !.named = {bad}]
    BY <1>8 DEF ListRead
  <2>2. DOMAIN audit' = DOMAIN audit /\ audit'.result = "mismatch"
    BY <2>1 DEF AuditInv
  <2> QED
    BY <2>2 DEF AuditInv, NoFalseHole
<1> QED
  BY <1>3, <1>4, <1>5, <1>6, <1>7, <1>8
     DEF AuditNext, AuditRecorded, AuditThrows, allVars, auditVars

\* An audit of a calm and ordered document that lost nothing never reports a hole in
\* its log, although the log is read while the document is edited and snapshotted.
THEOREM AuditsReportNoFalseHole == AuditSpec => []NoFalseHole
<1>1. AuditInit => AuditInv
  BY DEF AuditInit, NoAudit, AuditInv, NoFalseHole
<1>2. RestartInv /\ AuditInv /\ [AuditNext]_allVars => AuditInv'
  BY AuditStep
<1>3. AuditInv => NoFalseHole
  BY DEF AuditInv
<1> QED
  BY <1>1, <1>2, <1>3, AuditedIsWritePath, RestartInvariant, PTL DEF AuditSpec

=============================================================================
