-------------------- MODULE HypothesisRunner_proofs ----------------------
(***************************************************************************)
(* Proofs about HypothesisRunner, for every value of its constants.        *)
(*                                                                         *)
(* Frontier, InputsCurrent and TerminalLast are not inductive alone: a     *)
(* stage is started from a row computed one transaction earlier (ctx), and *)
(* a recovery rewrites the row of the stage the process is at.  Control    *)
(* says what the process may rely on at each of these points.              *)
(***************************************************************************)
EXTENDS HypothesisRunner, Checkpoints_proofs

Control ==
    /\ pc = "start" =>
         /\ row[at].status \in {"NONE", "PENDING"} /\ ~Skipped(row, at)
         /\ \A p \in 1..(at - 1) : Passed(row, p)
         /\ ctx.status = "RUNNING"
         /\ \A p \in Stages : Adjacent(row, p, at) => row[p].outputs \subseteq ctx.inputs
    /\ pc = "handler" => row[at].status = "RUNNING"
    /\ pc \in {"decide", "stopped"} => Failed(row[at])

TableOK == row \in [Stages -> Row] /\ TableInv(row)
ProcOK  == /\ pc \in {"idle", "scan", "start", "handler", "decide", "stopped"}
           /\ at \in Stages /\ ctx \in Row /\ outcome \in Outcomes
LogOK   == activity \subseteq Log /\ codex \in {"clear", "unresolved", "spawned"}
CountOK == /\ nextId \in Nat /\ failures \in Nat /\ faults \in Nat
           /\ upgrades \in Nat /\ grants \in Nat

IInv == TableOK /\ ProcOK /\ LogOK /\ CountOK /\ Control

(* The inductive invariant implies the properties it was found for.         *)
LEMMA IInvImplies == IInv => TypeOK /\ Frontier /\ InputsCurrent /\ TerminalLast
  BY DEF IInv, TableOK, ProcOK, LogOK, CountOK, TypeOK, Frontier, InputsCurrent,
         TerminalLast, TableInv

-----------------------------------------------------------------------------
(* The pieces actions are made of.                                          *)

(* Returning leaves a well-formed idle process.                             *)
LEMMA ReturnOK ==
    ASSUME NEW s \in 0..12, NEW st \in Status \cup {"RAISED"}, Return(s, st)
    PROVE  ProcOK' /\ Control'
  BY NoRowType DEF Return, ProcOK, Control, Outcomes, Stages

(* Starting the loop over leaves a well-formed scanning process.            *)
LEMMA RescanOK ==
    ASSUME Rescan
    PROVE  ProcOK' /\ Control'
  BY NoRowType DEF Rescan, Goto, ProcOK, Control, Outcomes, NoOutcome, Stages, Status

(* The process only goes to a recovery decision at a failed row.            *)
LEMMA GotoFailedOK ==
    ASSUME NEW s \in Stages, NEW p \in {"decide", "stopped"}, Goto(p, s),
           Failed(row'[s])
    PROVE  ProcOK' /\ Control'
  BY NoRowType DEF Goto, ProcOK, Control, Outcomes, NoOutcome, Stages, Status

(* The counters stay counters: nothing counted, a fault, a grant.           *)
LEMMA NoFaultOK ==
    ASSUME CountOK, NoFault, UNCHANGED nextId
    PROVE  CountOK'
  BY DEF CountOK, NoFault, counts

(* One more fault.                                                          *)
LEMMA FaultOK ==
    ASSUME CountOK, Fault, UNCHANGED nextId
    PROVE  CountOK'
  BY DEF CountOK, Fault

(* One more operator intervention.                                          *)
LEMMA GrantOK ==
    ASSUME CountOK, Grant, UNCHANGED nextId
    PROVE  CountOK'
  BY DEF CountOK, Grant

(* An event of the attempt a row stands for belongs to the log.             *)
LEMMA EventOK ==
    ASSUME TableOK, NEW s \in Stages,
           NEW k \in {"start", "output", "failure", "decision", "stop", "confirmed"}
    PROVE  <<k, s, row[s].attempt>> \in Log
<1>1. row[s].attempt \in Nat
  BY DEF TableOK, Row
<1> QED
  BY <1>1 DEF Log

(* Nothing follows a row that is not a success.                             *)
LEMMA NothingLater ==
    ASSUME TableOK, NEW s \in Stages, Exists(row[s]), row[s].status # "SUCCEEDED"
    PROVE  Later(row, s) = {}
<1>1. SUFFICES ASSUME NEW t \in (s + 1)..REPORT, Exists(row[t]) PROVE FALSE
  BY DEF Later
<1>2. t \in Stages /\ s \in 1..(t - 1)
  BY DEF Stages, REPORT
<1>3. Behind(row, t)
  BY <1>1, <1>2 DEF TableOK, TableInv, FrontierIn
<1> QED
  BY <1>2, <1>3 DEF Behind

(* Rewriting a row that nothing follows.                                    *)
LEMMA TouchOK ==
    ASSUME TableOK, NEW s \in Stages, NEW r \in Row, Exists(row[s]),
           Later(row, s) = {}, Exists(r), r.inputs = row[s].inputs, SetRow(s, r)
    PROVE  TableOK' /\ row'[s] = r
<1>1. row' = [row EXCEPT ![s] = r]
  BY DEF SetRow
<1>2. TableInv([row EXCEPT ![s] = r])
  BY RewriteLast DEF TableOK
<1>3. [row EXCEPT ![s] = r] \in [Stages -> Row] /\ [row EXCEPT ![s] = r][s] = r
  BY ExceptAt DEF TableOK
<1> QED
  BY <1>1, <1>2, <1>3 DEF TableOK

(* Replaying a failed or interrupted row.                                   *)
LEMMA ReopenOK ==
    ASSUME TableOK, NEW s \in Stages, Exists(row[s]),
           row' = ReplaceFrom(row, s, Reopened(row[s]))
    PROVE  TableOK'
<1>1. /\ Reopened(row[s]) \in Row /\ Exists(Reopened(row[s]))
      /\ row[s].inputs \subseteq Reopened(row[s]).inputs
  BY RewriteType DEF TableOK
<1> QED
  BY <1>1, TableType, Restart DEF TableOK

(* Dropping a stage and everything after it.                                *)
LEMMA CutOK ==
    ASSUME TableOK, NEW s \in Stages, row' = InvalidateFrom(row, s)
    PROVE  TableOK'
<1>1. s \in 1..13
  BY DEF Stages
<1>2. TableInv(InvalidateFrom(row, s))
  BY <1>1, Cut DEF TableOK
<1>3. InvalidateFrom(row, s) \in [Stages -> Row]
  BY NoRowType DEF InvalidateFrom, TableOK
<1> QED
  BY <1>2, <1>3 DEF TableOK

(* Steps that leave the table, or the log, alone.                           *)
LEMMA SameTableOK ==
    ASSUME TableOK, UNCHANGED row
    PROVE  TableOK'
  BY DEF TableOK

(* The log and the open call are unchanged.                                 *)
LEMMA SameLogOK ==
    ASSUME LogOK, UNCHANGED <<activity, codex>>
    PROVE  LogOK'
  BY DEF LogOK

(* What a handler raises is a failure.                                      *)
LEMMA RaisedType ==
    ASSUME NEW s \in Stages, NEW e \in Errors, NEW f \in Raised(s, e)
    PROVE  f \in FailureRecord
<1>1. \A x \in Errors, b \in BOOLEAN : /\ Blocked(x, b) \in FailureRecord
                                       /\ FailedFor(x) \in FailureRecord
  BY DEF Blocked, FailedFor, FailureRecord
<1>2. \E b \in BOOLEAN : f = Blocked(e, b) \/ f = FailedFor(e)
  BY DEF Raised
<1> QED
  BY <1>1, <1>2

(* What a handler returns is a result.                                      *)
LEMMA ResultsType ==
    ASSUME TableOK, NEW s \in Stages, NEW res \in Results(s)
    PROVE  res \in ResultRecord
<1>1. \A p \in Stages : row[p] \in Row /\ row[p].attempt \in Nat /\ row[p].validated \in Nat
  BY DEF TableOK, Row
<1>2. \A v \in Verdicts, n \in Nat :
        [Plain EXCEPT !.verdict = v, !.validated = n] \in ResultRecord
  BY DEF Plain, ResultRecord, Verdicts, Gates
<1>3. \A g \in Gates : [Plain EXCEPT !.gate = g] \in ResultRecord
  BY DEF Plain, ResultRecord, Verdicts, Gates
<1>4. /\ Plain \in ResultRecord
      /\ [Plain EXCEPT !.builds = TRUE] \in ResultRecord
      /\ [Plain EXCEPT !.verdict = "HOLD", !.unmet = TRUE] \in ResultRecord
      /\ [Plain EXCEPT !.verdict = "HOLD"] \in ResultRecord
  BY DEF Plain, ResultRecord, Verdicts, Gates
<1>5. \A n \in Nat : [Plain EXCEPT !.validated = n] \in ResultRecord
  BY DEF Plain, ResultRecord, Verdicts, Gates
<1>6. InitialResults \subseteq ResultRecord /\ CweResults \subseteq ResultRecord
  BY <1>4 DEF InitialResults, CweResults
<1>7. PocResults \subseteq ResultRecord
  BY <1>1, <1>4, <1>5 DEF PocResults, POC_EXECUTION, Stages
<1>8. FinalResults \subseteq ResultRecord
  <2>1. row[POC_EXECUTION].validated \in Nat
    BY <1>1 DEF POC_EXECUTION, Stages
  <2> QED
    BY <2>1, <1>2 DEF FinalResults, FinalVerdict, Verdicts
<1>9. GateResults \subseteq ResultRecord
  BY <1>3, RunnerAssumption DEF GateResults
<1>10. FindingResults \subseteq ResultRecord
  <2>1. row[VERIFICATION_FINAL].validated \in Nat
    BY <1>1 DEF VERIFICATION_FINAL, Stages
  <2> QED
    BY <2>1, <1>2 DEF FindingResults, Verdicts
<1>11. ReportResults \subseteq ResultRecord
  <2>1. row[FINDING].validated \in Nat
    BY <1>1 DEF FINDING, Stages
  <2> QED
    BY <2>1, <1>2 DEF ReportResults, Verdicts
<1>12. \/ Results(s) \in {InitialResults, PocResults, FinalResults, CweResults,
                         GateResults, FindingResults, ReportResults}
       \/ Results(s) = {Plain}
  BY DEF Results
<1> QED
  BY <1>4, <1>6, <1>7, <1>8, <1>9, <1>10, <1>11, <1>12

-----------------------------------------------------------------------------
(* The invariant is preserved by every action.                              *)

(* A row at which the loop stops: the earlier stages are behind it.         *)
LEMMA ScanningBehind ==
    ASSUME TableOK, NEW s \in Stages, Scanning(s)
    PROVE  /\ ~Skipped(row, s)
           /\ \A p \in 1..(s - 1) : Passed(row, p)
  BY DEF Scanning, Passed

(* A terminal PoC or initial verification whose evidence is read again.     *)
LEMMA VerifyTerminalOK ==
    ASSUME IInv, NEW s \in Stages, Reusable(row[s]), EndsVerified(row[s], s),
           VerifyTerminal(s)
    PROVE  IInv'
<1> USE DEF IInv
<1>1. row[s] \in Row /\ Exists(row[s]) /\ Later(row, s) = {}
  BY DEF TableOK, TableInv, TerminalLastIn, Reusable, Exists
<1>2. CASE UNCHANGED <<row, activity>> /\ NoFault /\ Return(s, "SUCCEEDED")
  BY <1>2, ReturnOK, NoFaultOK, SameTableOK, SameLogOK
     DEF VerifyTerminal, Status, Stages
<1>3. CASE /\ Fault
           /\ SetRow(s, MarkedFailed(row[s], Blocked("EVIDENCE", FALSE), row[s].outputs))
           /\ activity' = activity \cup {<<"failure", s, row[s].attempt>>}
           /\ Return(s, "BLOCKED")
  <2> DEFINE r == MarkedFailed(row[s], Blocked("EVIDENCE", FALSE), row[s].outputs)
  <2>1. Blocked("EVIDENCE", FALSE) \in FailureRecord /\ row[s].outputs \in RefSets
    BY <1>1 DEF Blocked, FailureRecord, Errors, Row
  <2>2. r \in Row /\ Exists(r) /\ r.inputs = row[s].inputs
    BY <1>1, <2>1, MarkedFailedType DEF FailureRecord, Exists
  <2> HIDE DEF r
  <2>3. SetRow(s, r)
    BY <1>3 DEF r
  <2>4. TableOK'
    BY <1>1, <2>2, <2>3, TouchOK
  <2>5. LogOK'
    BY <1>3, EventOK DEF LogOK, VerifyTerminal
  <2> QED
    BY <1>3, <2>4, <2>5, ReturnOK, FaultOK DEF VerifyTerminal, Status, Stages
<1>4. CASE Fault /\ UNCHANGED <<row, activity>> /\ Return(s, "RAISED")
  BY <1>4, ReturnOK, FaultOK, SameTableOK, SameLogOK DEF VerifyTerminal, Stages
<1> QED
  BY <1>2, <1>3, <1>4 DEF VerifyTerminal

(* A stopped, inconclusive PoC becomes a terminal HOLD or stays blocked.    *)
LEMMA PromotePocOK ==
    ASSUME IInv, NEW s \in Stages, Failed(row[s]), PromotePocOrReturn(s)
    PROVE  IInv'
<1> USE DEF IInv
<1>1. row[s] \in Row /\ Exists(row[s]) /\ Later(row, s) = {} /\ row[s].status \in Status
  BY NothingLater DEF TableOK, Row, Failed, Exists
<1>2. CASE /\ NoFault /\ SetRow(s, PromotedPoc(row[s]))
           /\ activity' = activity \cup {<<"output", s, row[s].attempt>>}
           /\ Return(s, "SUCCEEDED")
  <2>1. TableOK'
    BY <1>1, <1>2, RewriteType, TouchOK
  <2>2. LogOK'
    BY <1>2, EventOK DEF LogOK, PromotePocOrReturn
  <2> QED
    BY <1>2, <2>1, <2>2, ReturnOK, NoFaultOK DEF PromotePocOrReturn, Status, Stages
<1>3. CASE /\ Fault \/ NoFault
           /\ UNCHANGED <<row, activity>> /\ Return(s, row[s].status)
  BY <1>1, <1>3, ReturnOK, FaultOK, NoFaultOK, SameTableOK, SameLogOK
     DEF PromotePocOrReturn, Stages
<1> QED
  BY <1>2, <1>3 DEF PromotePocOrReturn

(* Steps that change nothing durable and return a stored status.            *)
LEMMA QuietReturn ==
    ASSUME IInv, NEW s \in Stages, NEW st \in Status, Return(s, st),
           UNCHANGED <<durable, nextId>>, NoFault
    PROVE  IInv'
  BY ReturnOK, NoFaultOK, SameTableOK, SameLogOK DEF IInv, durable, Stages

(* Entering resume_hypothesis.                                              *)
LEMMA ResumeKeeps ==
    ASSUME IInv, Resume
    PROVE  IInv'
<1>1. POC_EXECUTION \in Stages /\ row[POC_EXECUTION].status \in Status
  BY DEF POC_EXECUTION, Stages, IInv, TableOK, Row
<1>2. CASE TerminalPoc(row[POC_EXECUTION]) /\ VerifyTerminal(POC_EXECUTION)
  BY <1>1, <1>2, VerifyTerminalOK DEF TerminalPoc, Reusable, EndsVerified
<1>3. CASE ResumeOpen
  BY <1>3, RescanOK, NoFaultOK, SameTableOK, SameLogOK DEF ResumeOpen, IInv, durable
<1> QED
  BY <1>2, <1>3 DEF Resume, ResumeTerminal

(* A row whose version moved on.                                            *)
LEMMA StaleStageKeeps ==
    ASSUME IInv, NEW s \in Stages, StaleStage(s)
    PROVE  IInv'
<1> USE DEF IInv
<1>1. row[s].status \in Status /\ Exists(row[s])
  BY DEF TableOK, Row, StaleStage, Stale
<1>2. UNCHANGED <<activity, codex, nextId>> /\ NoFault
  BY DEF StaleStage
<1>3. CASE Return(s, row[s].status) /\ UNCHANGED row
  BY <1>1, <1>2, <1>3, ReturnOK, NoFaultOK, SameTableOK, SameLogOK DEF Stages
<1>4. CASE row' = ReplaceFrom(row, s, Reopened(row[s])) /\ Rescan
  BY <1>1, <1>2, <1>4, RescanOK, NoFaultOK, ReopenOK, SameLogOK
<1>5. CASE row' = InvalidateFrom(row, s) /\ Rescan
  <2>1. TableOK'
    BY <1>5, CutOK
  <2> QED
    BY <1>2, <1>5, <2>1, RescanOK, NoFaultOK, SameLogOK
<1> QED
  BY <1>3, <1>4, <1>5 DEF StaleStage

(* An exhausted or bundle-blocked initial verification is promoted.         *)
LEMMA PromoteInitialKeeps ==
    ASSUME IInv, NEW s \in Stages, Failed(row[s]),
           SetRow(s, PromotedInitial(row[s])),
           activity' = activity \cup {<<"output", s, row[s].attempt>>},
           Rescan, UNCHANGED <<codex, nextId>>, NoFault
    PROVE  IInv'
<1>1. row[s] \in Row /\ Exists(row[s]) /\ Later(row, s) = {}
  BY NothingLater DEF IInv, TableOK, Failed, Exists
<1>2. TableOK'
  BY <1>1, RewriteType, TouchOK DEF IInv
<1>3. LogOK'
  BY EventOK DEF IInv, LogOK
<1> QED
  BY <1>2, <1>3, RescanOK, NoFaultOK DEF IInv

(* A replay after a confirmed cleanup.                                      *)
LEMMA ReplayConfirmedKeeps ==
    ASSUME IInv, NEW s \in Stages, ReplayConfirmed(s)
    PROVE  IInv'
<1>1. Exists(row[s])
  BY DEF ReplayConfirmed, Recoverable, Exists
<1> QED
  BY <1>1, RescanOK, NoFaultOK, ReopenOK, SameLogOK DEF IInv, ReplayConfirmed

(* A row left RUNNING by a dead process.                                    *)
LEMMA InterruptedKeeps ==
    ASSUME IInv, NEW s \in Stages, Interrupted(s)
    PROVE  IInv'
<1> USE DEF IInv
<1> DEFINE r == MarkedFailed(row[s], Blocked("INTERRUPTED", TRUE), {})
<1>1. row[s] \in Row /\ Exists(row[s]) /\ Later(row, s) = {}
  BY NothingLater DEF TableOK, Interrupted, Exists
<1>2. /\ Blocked("INTERRUPTED", TRUE) \in FailureRecord /\ {} \in RefSets
      /\ Blocked("INTERRUPTED", TRUE).status = "BLOCKED"
  BY DEF Blocked, FailureRecord, Errors, RefSets
<1>3. r \in Row /\ r.inputs = row[s].inputs /\ r.status = "BLOCKED"
  BY <1>1, <1>2, MarkedFailedType
<1>4. SetRow(s, r)
  BY DEF Interrupted
<1> HIDE DEF r
<1>5. TableOK' /\ Failed(row'[s])
  BY <1>1, <1>3, <1>4, TouchOK DEF Exists, Failed
<1>6. LogOK'
  BY EventOK DEF LogOK, Interrupted
<1> QED
  BY <1>5, <1>6, GotoFailedOK, NoFaultOK DEF Interrupted

(* The four failures a resume may replay.                                   *)
LEMMA ReplayGuardedKeeps ==
    ASSUME IInv, NEW s \in Stages, ReplayGuarded(s)
    PROVE  IInv'
<1> USE DEF IInv
<1>1. row[s] \in Row /\ row[s].status \in Status /\ Failed(row[s])
  BY DEF TableOK, Row, ReplayGuarded, Recoverable, Failed
<1>2. Exists(row[s]) /\ Later(row, s) = {}
  BY <1>1, NothingLater DEF Failed, Exists
<1>3. UNCHANGED <<activity, codex, nextId>> /\ NoFault
  BY DEF ReplayGuarded
<1>4. CASE row' = ReplaceFrom(row, s, Reopened(row[s])) /\ Rescan
  BY <1>2, <1>3, <1>4, RescanOK, NoFaultOK, ReopenOK, SameLogOK
<1>5. CASE SetRow(s, Stopped(row[s])) /\ Return(s, row[s].status)
  <2>1. TableOK'
    BY <1>1, <1>2, <1>5, RewriteType, TouchOK DEF Exists
  <2> QED
    BY <1>1, <1>3, <1>5, <2>1, ReturnOK, NoFaultOK, SameLogOK DEF Stages
<1>6. CASE UNCHANGED row /\ Return(s, row[s].status)
  BY <1>1, <1>3, <1>6, ReturnOK, NoFaultOK, SameTableOK, SameLogOK DEF Stages
<1> QED
  BY <1>4, <1>5, <1>6 DEF ReplayGuarded

(* Any other failure: recovered when retryable, else reported.              *)
LEMMA RecoverFailedKeeps ==
    ASSUME IInv, NEW s \in Stages, RecoverFailed(s)
    PROVE  IInv'
<1> USE DEF IInv
<1>1. row[s].status \in Status /\ Failed(row[s])
  BY DEF TableOK, Row, RecoverFailed
<1>2. UNCHANGED <<durable, nextId>> /\ NoFault
  BY DEF RecoverFailed
<1>3. CASE Goto("decide", s)
  BY <1>1, <1>2, <1>3, GotoFailedOK, NoFaultOK, SameTableOK, SameLogOK DEF durable
<1>4. CASE Return(s, row[s].status)
  BY <1>1, <1>2, <1>4, QuietReturn
<1> QED
  BY <1>3, <1>4 DEF RecoverFailed

(* A REVISE decision of the gate.                                           *)
LEMMA PrepareGateRevisionKeeps ==
    ASSUME IInv, NEW s \in Stages, PrepareGateRevision(s)
    PROVE  IInv'
<1>1. s = TECH_GATE /\ Exists(row[s])
  BY DEF PrepareGateRevision, Revises, Reusable, Exists
<1>2. Behind(row, s) /\ POC_CANDIDATE \in 1..(s - 1)
  BY <1>1 DEF IInv, TableOK, TableInv, FrontierIn, POC_CANDIDATE, TECH_GATE
<1>3. Exists(row[POC_CANDIDATE])
  BY <1>2 DEF Behind, Exists, Skipped, SkippedOnHold, POC_CANDIDATE, CWE, TECH_GATE,
              SCOPE_GATE, FINDING, REPORT
<1>4. TableOK'
  BY <1>3, RevisingTable DEF IInv, TableOK, PrepareGateRevision
<1> QED
  BY <1>4, RescanOK, NoFaultOK, SameLogOK DEF IInv, PrepareGateRevision

(* Preparing a stage: the row mark_running will write is computed.          *)
LEMMA PrepareKeeps ==
    ASSUME IInv, NEW s \in Stages, Prepare(s)
    PROVE  IInv'
<1> USE DEF IInv
<1>1. row \in [Stages -> Row] /\ row[s] \in Row
  BY DEF TableOK
<1>2. row[s].status \in {"NONE", "PENDING"}
  BY <1>1 DEF Prepare, Recoverable, Row, Status
<1>3. /\ ~Skipped(row, s) /\ \A p \in 1..(s - 1) : Passed(row, p)
      /\ \A p \in 1..(s - 1) : Exists(row[p]) => row[p].status = "SUCCEEDED"
  <2>1. ~Skipped(row, s) /\ \A p \in 1..(s - 1) : Passed(row, p)
    BY ScanningBehind DEF Prepare, Open
  <2> QED
    BY <2>1 DEF Passed, Reusable, TableOK, TableInv, HoldSkipsIn, Stages
<1>4. TableOK'
  <2>1. CASE row' = row
    BY <2>1 DEF TableOK
  <2>2. CASE row' = InvalidateFrom(row, s)
    BY <2>2, CutOK
  <2> QED BY <2>1, <2>2 DEF Prepare
<1>5. /\ row'[s].status = row[s].status
      /\ \A p \in 1..(s - 1) : row'[p] = row[p]
  BY <1>1, <1>2, NoRowType DEF Prepare, InvalidateFrom, Stages
<1>6. /\ ctx' \in Row /\ ctx'.status = "RUNNING" /\ ctx'.attempt \in Nat
      /\ InputRefsFor(row, s) \subseteq ctx'.inputs
  BY <1>1, RunningType DEF Prepare, CountOK
<1>7. ProcOK' /\ CountOK' /\ LogOK'
  <2>1. nextId' \in Nat
    BY DEF Prepare, CountOK
  <2>2. CountOK'
    BY <2>1 DEF Prepare, CountOK, NoFault, counts
  <2>3. ProcOK'
    BY <1>6 DEF Prepare, ProcOK, Outcomes, NoOutcome, Status
  <2>4. LogOK'
    BY SameLogOK DEF Prepare
  <2> QED BY <2>2, <2>3, <2>4
<1>8. \A p \in Stages : Adjacent(row, p, s) => row[p].outputs \subseteq ctx'.inputs
  <2>1. SUFFICES ASSUME NEW p \in Stages, Adjacent(row, p, s)
                 PROVE  row[p].outputs \subseteq InputRefsFor(row, s)
    BY <1>6
  <2>2. CASE Exists(row[s])
    BY <2>1, <2>2 DEF TableOK, TableInv, InputsCurrentIn, InputRefsFor
  <2>3. CASE ~Exists(row[s])
    <3>1. p \in Sources(row, s)
      BY <2>1, <1>3 DEF Sources, Adjacent, Stages, Exists
    <3> QED
      BY <3>1, <2>3 DEF InputRefsFor
  <2> QED BY <2>2, <2>3
<1>9. Control'
  <2>1. pc' = "start" /\ at' = s
    BY DEF Prepare
  <2>2. \A p \in 1..(s - 1) : p \in Stages
    BY DEF Stages
  <2>3. ~Skipped(row', s) /\ \A p \in 1..(s - 1) : Passed(row', p)
    <3>1. \A q \in 1..s : q \in SkippedOnHold => Held(row') = Held(row)
      BY <1>5 DEF Held, SkippedOnHold, VERIFICATION_FINAL, CWE, TECH_GATE, SCOPE_GATE,
                  FINDING, REPORT, Stages
    <3>2. \A q \in 1..s : Skipped(row', q) <=> Skipped(row, q)
      BY <3>1 DEF Skipped
    <3> QED
      BY <3>2, <1>3, <1>5 DEF Passed, Stages
  <2>4. \A p \in Stages : Adjacent(row', p, s) => row'[p].outputs \subseteq ctx'.inputs
    <3>1. SUFFICES ASSUME NEW p \in Stages, Adjacent(row', p, s)
                   PROVE  row'[p].outputs \subseteq ctx'.inputs
      OBVIOUS
    <3>2. Adjacent(row, p, s) /\ row'[p] = row[p]
      BY <3>1, <1>5 DEF Adjacent, Stages
    <3> QED
      BY <3>2, <1>8
  <2> QED
    BY <2>1, <2>3, <2>4, <1>2, <1>5, <1>6 DEF Control
<1> QED
  BY <1>4, <1>7, <1>9

(* Any stop of the loop.                                                    *)
LEMMA ScanKeeps ==
    ASSUME IInv, NEW s \in Stages, Scan(s)
    PROVE  IInv'
<1>1. row[s].status \in Status
  BY DEF IInv, TableOK, Row
<1>2. CASE PocDecided(s)
  BY <1>2, PromotePocOK DEF PocDecided, PriorDecision, Failed
<1>3. CASE PocStaysClosed(s)
  BY <1>1, <1>3, QuietReturn DEF PocStaysClosed
<1>4. CASE StaleStage(s)
  BY <1>4, StaleStageKeeps
<1>5. CASE PromoteInitial(s)
  BY <1>5, PromoteInitialKeeps DEF PromoteInitial, PromotableInitial, Failed
<1>6. CASE ReplayConfirmed(s)
  BY <1>6, ReplayConfirmedKeeps
<1>7. CASE Interrupted(s)
  BY <1>7, InterruptedKeeps
<1>8. CASE ReplayGuarded(s)
  BY <1>8, ReplayGuardedKeeps
<1>9. CASE RecoverFailed(s)
  BY <1>9, RecoverFailedKeeps
<1>10. CASE ReuseTerminal(s)
  BY <1>10, VerifyTerminalOK DEF ReuseTerminal
<1>11. CASE ReuseEnds(s)
  BY <1>11, QuietReturn DEF ReuseEnds, Status
<1>12. CASE PrepareGateRevision(s)
  BY <1>12, PrepareGateRevisionKeeps
<1>13. CASE Prepare(s)
  BY <1>13, PrepareKeeps
<1> QED
  BY <1>2, <1>3, <1>4, <1>5, <1>6, <1>7, <1>8, <1>9, <1>10, <1>11, <1>12, <1>13
     DEF Scan

(* The stage starts, unless its start event is already on record.           *)
LEMMA MarkRunningKeeps ==
    ASSUME IInv, NEW s \in Stages, MarkRunning(s)
    PROVE  IInv'
<1> USE DEF IInv
<1>1. /\ row[s].status \in {"NONE", "PENDING"} /\ ~Skipped(row, s)
      /\ \A p \in 1..(s - 1) : Passed(row, p)
      /\ ctx \in Row /\ ctx.status = "RUNNING"
      /\ \A p \in Stages : Adjacent(row, p, s) => row[p].outputs \subseteq ctx.inputs
  BY DEF MarkRunning, Control, ProcOK
<1>2. CASE /\ SetRow(s, ctx) /\ Goto("handler", s)
           /\ activity' = activity \cup {<<"start", s, ctx.attempt>>}
  <2>1. row' = [row EXCEPT ![s] = ctx]
    BY <1>2 DEF SetRow
  <2>2. TableInv([row EXCEPT ![s] = ctx])
    BY <1>1, Begin DEF TableOK
  <2>3. [row EXCEPT ![s] = ctx] \in [Stages -> Row] /\ [row EXCEPT ![s] = ctx][s] = ctx
    BY <1>1, ExceptAt DEF TableOK
  <2>4. TableOK' /\ row'[s].status = "RUNNING"
    BY <1>1, <2>1, <2>2, <2>3 DEF TableOK
  <2>5. ctx.attempt \in Nat
    BY <1>1 DEF Row
  <2>6. LogOK'
    BY <1>2, <2>5 DEF LogOK, Log, MarkRunning
  <2>7. ProcOK' /\ Control'
    BY <1>2, <2>4, NoRowType DEF Goto, ProcOK, Control, Outcomes, NoOutcome, Status
  <2> QED
    BY <2>4, <2>6, <2>7, NoFaultOK DEF MarkRunning
<1>3. CASE UNCHANGED <<row, activity>> /\ Return(s, "RAISED")
  BY <1>3, ReturnOK, NoFaultOK, SameTableOK, SameLogOK DEF MarkRunning, Stages
<1> QED
  BY <1>2, <1>3 DEF MarkRunning

(* The handler returns.                                                     *)
LEMMA CompleteKeeps ==
    ASSUME IInv, NEW s \in Stages, Complete(s)
    PROVE  IInv'
<1> USE DEF IInv
<1>1. row[s] \in Row /\ Exists(row[s]) /\ Later(row, s) = {}
  BY NothingLater DEF TableOK, Control, Complete, Exists
<1>2. PICK res \in Results(s) : SetRow(s, Completed(row[s], s, res))
  BY DEF Complete
<1>3. res \in ResultRecord
  BY ResultsType
<1>4. TableOK'
  BY <1>1, <1>2, <1>3, CompletedType, TouchOK DEF Exists
<1>5. LogOK'
  BY EventOK DEF LogOK, Complete
<1>6. ProcOK' /\ Control'
  BY ReturnOK, RescanOK DEF Complete, Status, Stages
<1> QED
  BY <1>4, <1>5, <1>6, NoFaultOK DEF Complete

(* A row is marked failed by its own process.                               *)
LEMMA MarkFailureOK ==
    ASSUME TableOK, NEW s \in Stages, row[s].status = "RUNNING",
           NEW f \in FailureRecord, NEW e \in RefSets,
           SetRow(s, MarkedFailed(row[s], f, e))
    PROVE  TableOK' /\ Failed(row'[s])
<1>1. row[s] \in Row /\ Exists(row[s]) /\ Later(row, s) = {}
  BY NothingLater DEF TableOK, Exists
<1>2. /\ MarkedFailed(row[s], f, e) \in Row
      /\ MarkedFailed(row[s], f, e).inputs = row[s].inputs
      /\ Failed(MarkedFailed(row[s], f, e))
  BY <1>1, MarkedFailedType DEF FailureRecord, Failed
<1>3. Exists(MarkedFailed(row[s], f, e))
  BY <1>2 DEF Failed, Exists
<1> QED
  BY <1>1, <1>2, <1>3, TouchOK

(* The handler raises.                                                      *)
LEMMA FailKeeps ==
    ASSUME IInv, NEW s \in Stages, Fail(s)
    PROVE  IInv'
<1> USE DEF IInv
<1>0. PICK e \in FailKinds : \E f \in Raised(s, e) :
        /\ SetRow(s, MarkedFailed(row[s], f, {Ref("evidence", s, row[s].attempt)}))
        /\ codex' = IF e \in {"CLEANUP", "IN_FLIGHT"} /\ codex = "clear"
                    THEN "spawned" ELSE codex
        /\ IF f.retryable THEN Goto("decide", s) ELSE Return(s, f.status)
  BY DEF Fail
<1>1. PICK f \in Raised(s, e) :
        /\ SetRow(s, MarkedFailed(row[s], f, {Ref("evidence", s, row[s].attempt)}))
        /\ codex' = IF e \in {"CLEANUP", "IN_FLIGHT"} /\ codex = "clear"
                    THEN "spawned" ELSE codex
        /\ IF f.retryable THEN Goto("decide", s) ELSE Return(s, f.status)
  BY <1>0
<1>2. f \in FailureRecord /\ f.status \in Status
  BY RaisedType, RunnerAssumption DEF FailureRecord, Status
<1>3. {Ref("evidence", s, row[s].attempt)} \in RefSets
  <2>1. row[s].attempt \in Nat
    BY DEF TableOK, Row
  <2>2. Ref("evidence", s, row[s].attempt) \in Refs
    BY <2>1, RefType DEF Stages
  <2> QED
    BY <2>2 DEF RefSets
<1>4. TableOK' /\ Failed(row'[s])
  BY <1>1, <1>2, <1>3, MarkFailureOK DEF Fail, Control
<1>5. ProcOK' /\ Control'
  BY <1>1, <1>2, <1>4, GotoFailedOK, ReturnOK DEF Stages
<1>6. LogOK'
  BY <1>1, EventOK DEF LogOK, Fail
<1>7. CountOK'
  BY DEF CountOK, Fail
<1> QED
  BY <1>4, <1>5, <1>6, <1>7

(* The task is cancelled.                                                   *)
LEMMA CancelKeeps ==
    ASSUME IInv, NEW s \in Stages, Cancel(s)
    PROVE  IInv'
<1> USE DEF IInv
<1>1. Blocked("CANCELLED", TRUE) \in FailureRecord /\ {} \in RefSets
  BY DEF Blocked, FailureRecord, Errors, RefSets
<1>2. TableOK'
  BY <1>1, MarkFailureOK DEF Cancel, Control
<1>3. LogOK'
  BY EventOK DEF LogOK, Cancel
<1> QED
  BY <1>2, <1>3, ReturnOK, FaultOK DEF Cancel, Stages

(* Recovery after a failure on record: exhausted, stopped or restarted.     *)
LEMMA DecideKeeps ==
    ASSUME IInv, NEW s \in Stages, Decide(s)
    PROVE  IInv'
<1> USE DEF IInv
<1>1. row[s] \in Row /\ row[s].status \in Status /\ Failed(row[s])
  BY DEF TableOK, Row, Control, Decide, RecoveryExhausted, RecoveryStop, AfterStop,
         RecoveryRestart, Deciding
<1>2. Exists(row[s]) /\ Later(row, s) = {}
  BY <1>1, NothingLater DEF Failed, Exists
<1>3. CASE RecoveryExhausted(s)
  <2>1. TableOK'
    BY <1>1, <1>2, <1>3, RewriteType, TouchOK DEF RecoveryExhausted
  <2> QED
    BY <1>3, <2>1, ReturnOK, NoFaultOK, SameLogOK DEF RecoveryExhausted, Status, Stages
<1>4. CASE RecoveryStop(s)
  <2>1. /\ Stopped(row[s]) \in Row /\ Stopped(row[s]).inputs = row[s].inputs
        /\ Failed(Stopped(row[s])) /\ Exists(Stopped(row[s]))
    BY <1>1, <1>2, RewriteType DEF Failed, Exists
  <2>2. TableOK' /\ Failed(row'[s])
    BY <1>2, <1>4, <2>1, TouchOK DEF RecoveryStop
  <2>3. LogOK'
    BY <1>4, EventOK DEF LogOK, RecoveryStop
  <2>4. ProcOK' /\ Control'
    BY <1>1, <1>4, <2>2, GotoFailedOK, ReturnOK DEF RecoveryStop, Stages
  <2> QED
    BY <1>4, <2>2, <2>3, <2>4, NoFaultOK DEF RecoveryStop
<1>5. CASE AfterStop(s)
  <2>1. CASE PromotePocOrReturn(s)
    BY <1>1, <2>1, PromotePocOK
  <2>2. CASE /\ UNCHANGED <<codex, nextId>> /\ NoFault
             /\ SetRow(s, PromotedInitial(row[s]))
             /\ activity' = activity \cup {<<"output", s, row[s].attempt>>}
             /\ Rescan
    BY <1>1, <2>2, PromoteInitialKeeps
  <2>3. CASE /\ UNCHANGED <<codex, nextId>> /\ NoFault
             /\ UNCHANGED <<row, activity>> /\ Return(s, row[s].status)
    BY <1>1, <2>3, QuietReturn DEF durable
  <2> QED
    BY <1>5, <2>1, <2>2, <2>3 DEF AfterStop
<1>6. CASE RecoveryRestart(s)
  <2>1. LogOK'
    BY <1>6, EventOK DEF LogOK, RecoveryRestart
  <2>2. PICK action \in {"RETRY", "REGENERATE", "REBUILD"} :
          LET k == RestartStage(s, action)
          IN  IF k = 0 THEN UNCHANGED row /\ Return(s, row[s].status)
              ELSE row' = Recovering(row, s, k, action = "REBUILD") /\ Rescan
    BY <1>6 DEF RecoveryRestart
  <2> DEFINE k == RestartStage(s, action)
  <2>3. CASE k = 0
    BY <1>1, <1>6, <2>1, <2>2, <2>3, ReturnOK, NoFaultOK, SameTableOK
       DEF RecoveryRestart, Stages
  <2>4. CASE k # 0
    <3>1. k = s \/ (k < s /\ k \in {VERIFICATION_INITIAL, POC_CANDIDATE})
      BY <2>4 DEF RestartStage, VERIFICATION_INITIAL, POC_CANDIDATE, POC_EXECUTION, Stages
    <3>2. k \in Stages /\ Exists(row[k])
      <4>1. CASE k = s
        BY <4>1, <1>2
      <4>2. CASE k # s
        <5>1. Behind(row, s)
          BY <1>2 DEF TableOK, TableInv, FrontierIn
        <5>2. k \in 1..(s - 1) /\ k \notin SkippedOnHold
          BY <3>1, <4>2 DEF Stages, VERIFICATION_INITIAL, POC_CANDIDATE, SkippedOnHold,
                            CWE, TECH_GATE, SCOPE_GATE, FINDING, REPORT
        <5>3. row[k].status = "SUCCEEDED"
          BY <5>1, <5>2 DEF Behind, Skipped
        <5> QED
          BY <5>2, <5>3 DEF Exists, Stages
      <4> QED BY <4>1, <4>2
    <3>3. row' = Recovering(row, s, k, action = "REBUILD") /\ Rescan
      BY <2>2, <2>4
    <3>4. TableOK'
      BY <3>2, <3>3, RecoveringTable DEF TableOK
    <3> QED
      BY <1>6, <2>1, <3>3, <3>4, RescanOK, NoFaultOK DEF RecoveryRestart
  <2> QED BY <2>3, <2>4
<1> QED
  BY <1>3, <1>4, <1>5, <1>6 DEF Decide

(* Crashes, sibling hypotheses, operators, new code.                        *)
LEMMA SurroundingsKeep ==
    ASSUME IInv,
           \/ Crash \/ SiblingUnresolved \/ ConfirmCleanup \/ ReconcileUnspawned
           \/ \E s \in Stages : ReopenBudget(s) \/ Upgrade(s)
    PROVE  IInv'
<1> USE DEF IInv
<1>1. Covered \subseteq Log
  BY EventOK DEF Covered
<1>2. CASE Crash
  <2>1. ProcOK' /\ Control'
    BY <1>2, NoRowType DEF Crash, ProcOK, Control, Stages
  <2>2. LogOK'
    BY <1>2 DEF Crash, LogOK
  <2> QED
    BY <1>2, <2>1, <2>2, FaultOK, SameTableOK DEF Crash
<1>3. CASE SiblingUnresolved
  <2>1. ProcOK' /\ Control'
    BY <1>3 DEF SiblingUnresolved, ProcOK, Control
  <2> QED
    BY <1>3, <2>1, FaultOK, SameTableOK DEF SiblingUnresolved, LogOK
<1>4. CASE ConfirmCleanup
  <2>1. ProcOK' /\ Control'
    BY <1>4 DEF ConfirmCleanup, ProcOK, Control
  <2>2. PICK s \in {0} \cup Stages :
          activity' = activity \cup Covered \cup
                        (IF s = 0 THEN {} ELSE {<<"confirmed", s, row[s].attempt>>})
    BY <1>4 DEF ConfirmCleanup
  <2>3. LogOK'
    BY <1>1, <1>4, <2>2, EventOK DEF ConfirmCleanup, LogOK
  <2> QED
    BY <1>4, <2>1, <2>3, GrantOK, SameTableOK DEF ConfirmCleanup
<1>5. CASE ReconcileUnspawned
  <2>1. ProcOK' /\ Control'
    BY <1>5 DEF ReconcileUnspawned, ProcOK, Control
  <2> QED
    BY <1>1, <1>5, <2>1, NoFaultOK, SameTableOK DEF ReconcileUnspawned, LogOK
<1>6. ASSUME NEW s \in Stages, ReopenBudget(s) PROVE IInv'
  <2> DEFINE r == [Reopened(row[s]) EXCEPT !.current = row[s].current]
  <2>1. row[s] \in Row /\ Exists(row[s]) /\ Later(row, s) = {}
    BY <1>6, NothingLater DEF TableOK, ReopenBudget, Exists
  <2>2. Reopened(row[s]) \in Row /\ row[s].current \in BOOLEAN
    BY <2>1, RewriteType DEF Row
  <2>3. r \in Row
    BY <2>2 DEF Row
  <2>4. r.inputs = row[s].inputs /\ Exists(r)
    BY <2>1 DEF Row, Reopened, Exists
  <2>5. SetRow(s, r)
    BY <1>6 DEF ReopenBudget
  <2> HIDE DEF r
  <2>6. TableOK'
    BY <2>1, <2>3, <2>4, <2>5, TouchOK
  <2>7. ProcOK' /\ Control'
    BY <1>6 DEF ReopenBudget, ProcOK, Control, Outcomes, NoOutcome, Status
  <2> QED
    BY <1>6, <2>6, <2>7, GrantOK, SameLogOK DEF ReopenBudget
<1>7. ASSUME NEW s \in Stages, Upgrade(s) PROVE IInv'
  <2> DEFINE r == [row[s] EXCEPT !.current = FALSE]
  <2>1. row' = [row EXCEPT ![s] = r]
    BY <1>7 DEF Upgrade, SetRow
  <2>2. r \in Row
    BY ZenonT(60) DEF TableOK, Row
  <2>3. TableInv([row EXCEPT ![s] = r])
    BY Age DEF TableOK
  <2> HIDE DEF r
  <2>4. TableOK'
    BY <2>1, <2>2, <2>3, ExceptAt DEF TableOK
  <2>5. ProcOK' /\ Control'
    BY <1>7 DEF Upgrade, ProcOK, Control, Outcomes, NoOutcome, Status
  <2>6. CountOK'
    BY <1>7 DEF Upgrade, CountOK
  <2> QED
    BY <1>7, <2>4, <2>5, <2>6, SameLogOK DEF Upgrade
<1> QED
  BY <1>2, <1>3, <1>4, <1>5, <1>6, <1>7

-----------------------------------------------------------------------------
(* A fresh hypothesis: the PRO_CON row is seeded PENDING with the proposal. *)
LEMMA InitOK == Init => IInv
<1> SUFFICES ASSUME Init PROVE IInv
  OBVIOUS
<1> DEFINE first == [NoRow EXCEPT !.status = "PENDING", !.inputs = {ProposalRef}]
<1>1. {ProposalRef} \in RefSets
  <2>1. ProposalRef \in Refs
    BY RefType DEF ProposalRef
  <2> QED
    BY <2>1 DEF RefSets
<1>2. first \in Row /\ first.status = "PENDING"
  BY <1>1, NoRowType DEF Row, Status
<1>3. row = [s \in Stages |-> IF s = PRO_CON THEN first ELSE NoRow]
  BY DEF Init
<1> HIDE DEF first
<1>4. row \in [Stages -> Row] /\ \A s \in Stages : row[s].status # "SUCCEEDED"
  BY <1>2, <1>3, NoRowType
<1>5. \A s \in Stages : Exists(row[s]) => s = 1
  BY <1>3, NoRowType DEF Exists, PRO_CON
<1>6. FrontierIn(row)
  BY <1>5 DEF FrontierIn, Behind
<1>7. HoldSkipsIn(row)
  BY <1>4 DEF HoldSkipsIn, Skipped, Held, VERIFICATION_FINAL, Stages
<1>8. InputsCurrentIn(row)
  BY <1>5 DEF InputsCurrentIn, Adjacent, Stages
<1>9. TerminalLastIn(row)
  BY <1>4 DEF TerminalLastIn, Reusable
<1>10. ProcOK /\ LogOK /\ CountOK /\ Control
  BY NoRowType DEF Init, ProcOK, LogOK, CountOK, Control, Outcomes, NoOutcome, Status, Stages
<1> QED
  BY <1>4, <1>6, <1>7, <1>8, <1>9, <1>10 DEF IInv, TableOK, TableInv

(* Every step of the runner and its surroundings preserves the invariant.   *)
LEMMA NextKeeps == IInv /\ [Next]_vars => IInv'
<1> SUFFICES ASSUME IInv, [Next]_vars PROVE IInv'
  OBVIOUS
<1>1. CASE UNCHANGED vars
  BY <1>1 DEF vars, counts, IInv, TableOK, ProcOK, LogOK, CountOK, Control
<1>2. CASE Resume
  BY <1>2, ResumeKeeps
<1>3. CASE LoopDone
  BY <1>3, QuietReturn DEF LoopDone, Status, REPORT, Stages
<1>4. ASSUME NEW s \in Stages, Scan(s) PROVE IInv'
  BY <1>4, ScanKeeps
<1>5. ASSUME NEW s \in Stages, MarkRunning(s) PROVE IInv'
  BY <1>5, MarkRunningKeeps
<1>6. ASSUME NEW s \in Stages, Complete(s) PROVE IInv'
  BY <1>6, CompleteKeeps
<1>7. ASSUME NEW s \in Stages, Fail(s) PROVE IInv'
  BY <1>7, FailKeeps
<1>8. ASSUME NEW s \in Stages, Cancel(s) PROVE IInv'
  BY <1>8, CancelKeeps
<1>9. ASSUME NEW s \in Stages, Decide(s) PROVE IInv'
  BY <1>9, DecideKeeps
<1>10. CASE \/ Crash \/ SiblingUnresolved \/ ConfirmCleanup \/ ReconcileUnspawned
            \/ \E s \in Stages : ReopenBudget(s) \/ Upgrade(s)
  BY <1>10, SurroundingsKeep
<1> QED
  BY <1>1, <1>2, <1>3, <1>4, <1>5, <1>6, <1>7, <1>8, <1>9, <1>10 DEF Next

(* The strengthening holds in every reachable state.                        *)
LEMMA Inductive == Spec => []IInv
  BY InitOK, NextKeeps, PTL DEF Spec

(* Every checkpoint the store writes is a well-formed row.                  *)
THEOREM TypeCorrect == Spec => []TypeOK
  BY Inductive, IInvImplies, PTL

(* For every failure pattern, number of crashes and recovery limit: no row  *)
(* stands on a stage that is not done (invalidate_from, replace_from and    *)
(* the order in which resume_hypothesis walks the stages).                  *)
THEOREM FrontierHolds == Spec => []Frontier
  BY Inductive, IInvImplies, PTL

(* No stage result outlives the result it was computed from, although       *)
(* reusable() never compares the two.                                       *)
THEOREM InputsStayCurrent == Spec => []InputsCurrent
  BY Inductive, IInvImplies, PTL

(* Nothing is run after a result that ends the hypothesis.                  *)
THEOREM TerminalIsLast == Spec => []TerminalLast
  BY Inductive, IInvImplies, PTL
=============================================================================
