------------------------ MODULE HypothesisRunner -------------------------
(***************************************************************************)
(* SimpleRuntimeRunner.resume_hypothesis for one hypothesis: the loop over *)
(* the twelve stages, automatic recovery, Technical Gate revisions, and    *)
(* the crashes, upgrades and operator interventions between two resumes.   *)
(*                                                                         *)
(* An action is one database transaction of the code together with the     *)
(* in-memory steps around it, so Crash can separate any two transactions.  *)
(* The per-analysis run lease excludes a second runner.  This is the       *)
(* composed runtime: the runner has a recovery coordinator, an artifact    *)
(* repository and an offline base image probe.                             *)
(***************************************************************************)
EXTENDS Checkpoints

CONSTANTS
    Codex,         \* codex_invalid_output_resume: the provider is Codex
    GateDecisions, \* what the Technical Gate may decide
    FailStages,    \* stages whose handler may fail
    FailKinds,     \* error codes those failures may carry
    MaxFailures,   \* bound: handler failures
    MaxFaults,     \* bound: crashes, cancellations, unreadable evidence,
                   \*        calls a sibling hypothesis leaves unresolved
    MaxUpgrades,   \* bound: stage version bumps
    MaxGrants      \* bound: operator confirmations and budget increases

ASSUME RunnerAssumption ==
    /\ Codex \in BOOLEAN
    /\ GateDecisions \subseteq Gates \ {"none"}
    /\ FailStages \subseteq Stages /\ FailKinds \subseteq Errors
    /\ {MaxFailures, MaxFaults, MaxUpgrades, MaxGrants} \subseteq Nat

VARIABLES
    row,        \* the checkpoint table, durable
    activity,   \* the append-only activity log, durable
    codex,      \* is a Codex call of the analysis left IN_FLIGHT, and has it
                \* left an attempt or a child row ("spawned")?  durable
    pc, at,     \* the running process: where it is, and at which stage
    ctx,        \* the row mark_running is about to write
    outcome,    \* the RunOutcome last returned, until something else happens
    nextId,     \* fresh attempt ids (uuid4)
    failures, faults, upgrades, grants      \* what the bounds count

durable == <<row, activity, codex>>
counts  == <<failures, faults, upgrades, grants>>
vars    == <<row, activity, codex, pc, at, ctx, outcome, nextId, counts>>

(* Stages whose STAGE_VERSION has ever been raised above "1".               *)
Upgradable == {VERIFICATION_INITIAL, POC_CANDIDATE, POC_EXECUTION,
               VERIFICATION_FINAL, TECH_GATE, REPORT}

(* Events of the log: what happened, at which stage, in which attempt.  An  *)
(* event id is derived from exactly these three, and an event is written    *)
(* once: a second one with the same id raises and rolls its transaction     *)
(* back.  "confirmed" is an operator's cleanup confirmation.                *)
Log == {"start", "output", "failure", "decision", "stop", "confirmed"}
          \X Stages \X Nat

Outcomes == [stage : 0..12, status : Status \cup {"RAISED"}]
NoOutcome == [stage |-> 0, status |-> "NONE"]

Init == /\ row = [s \in Stages |-> IF s = PRO_CON
                    THEN [NoRow EXCEPT !.status = "PENDING",
                                       !.inputs = {ProposalRef}]
                    ELSE NoRow]
        /\ activity = {}
        /\ codex = "clear"
        /\ pc = "idle" /\ at = 1 /\ ctx = NoRow
        /\ outcome = NoOutcome
        /\ nextId = 1
        /\ failures = 0 /\ faults = 0 /\ upgrades = 0 /\ grants = 0

-----------------------------------------------------------------------------
Return(s, st) == /\ pc' = "idle" /\ ctx' = NoRow
                 /\ at' = 1
                 /\ outcome' = [stage |-> s, status |-> st]

Goto(p, s) == pc' = p /\ at' = s /\ ctx' = NoRow /\ outcome' = NoOutcome
Rescan     == Goto("scan", 1)

SetRow(s, r) == row' = [row EXCEPT ![s] = r]

NoFault == UNCHANGED counts
Fault   == /\ faults < MaxFaults /\ faults' = faults + 1
           /\ UNCHANGED <<failures, upgrades, grants>>
Grant   == /\ grants < MaxGrants /\ grants' = grants + 1
           /\ UNCHANGED <<failures, faults, upgrades>>

(* A recovery decision is already on record for this very execution.        *)
PriorDecision(s) ==
    /\ s = POC_EXECUTION /\ row[s].status = "BLOCKED"
    /\ row[s].error = "INCONCLUSIVE" /\ row[s].attempt # 0
    /\ <<"decision", s, row[s].attempt>> \in activity

CodexRetry(r) == Codex /\ r.error = "INVALID_OUTPUT" /\ r.number < MaxRecovery

PocClosed(s) == /\ s = POC_EXECUTION /\ Failed(row[s])
                /\ ~row[s].retryable /\ ~CodexRetry(row[s])

(* A StageFailure with the status it is recorded under.                     *)
Blocked(e, retryable) == [error |-> e, retryable |-> retryable, status |-> "BLOCKED"]
FailedFor(e) == [error |-> e, retryable |-> FALSE, status |-> "FAILED"]

(* _verified_initial_terminal, _verified_poc_terminal: a terminal row is    *)
(* believed only while its evidence can be read.  The failure event of a    *)
(* row that was promoted from a failure is already on record.               *)

ReportsOnly(s) ==       \* mutant: reports the block and does not store it
    /\ UNCHANGED <<codex, nextId, row, activity>>
    /\ \/ NoFault /\ Return(s, "SUCCEEDED")
       \/ Fault /\ Return(s, "BLOCKED")
VerifyTerminal(s) ==
    /\ UNCHANGED <<codex, nextId>>
    /\ \/ /\ UNCHANGED <<row, activity>> /\ NoFault
          /\ Return(s, "SUCCEEDED")
       \/ /\ Fault /\ <<"failure", s, row[s].attempt>> \notin activity
          /\ SetRow(s, MarkedFailed(row[s], Blocked("EVIDENCE", FALSE), row[s].outputs))
          /\ activity' = activity \cup {<<"failure", s, row[s].attempt>>}
          /\ Return(s, "BLOCKED")
       \/ /\ Fault /\ <<"failure", s, row[s].attempt>> \in activity
          /\ UNCHANGED <<row, activity>>
          /\ Return(s, "RAISED")

(* _promote_stopped_inconclusive_poc: needs the agent's own STOP for this   *)
(* attempt; otherwise the recorded decision keeps the row as it is.         *)
Promotable(s) == <<"stop", s, row[s].attempt>> \in activity /\ row[s].current

PromotePocOrReturn(s) ==
    /\ UNCHANGED <<codex, nextId>>
    /\ \/ /\ Promotable(s) /\ NoFault
          /\ SetRow(s, PromotedPoc(row[s]))
          /\ activity' = activity \cup {<<"output", s, row[s].attempt>>}
          /\ Return(s, "SUCCEEDED")
       \/ /\ IF Promotable(s) THEN Fault ELSE NoFault   \* unreadable evidence
          /\ UNCHANGED <<row, activity>>
          /\ Return(s, row[s].status)

-----------------------------------------------------------------------------
(* Entering resume_hypothesis.                                              *)

ResumeTerminal ==
    /\ pc = "idle"
    /\ TerminalPoc(row[POC_EXECUTION])
    /\ VerifyTerminal(POC_EXECUTION)

ResumeAlways ==         \* mutant: the settled PoC is not looked at first
    /\ pc = "idle" /\ Rescan /\ UNCHANGED <<durable, nextId>> /\ NoFault
ResumeOpen ==
    /\ pc = "idle"
    /\ ~TerminalPoc(row[POC_EXECUTION]) /\ ~PriorDecision(POC_EXECUTION)
    /\ ~PocClosed(POC_EXECUTION)
    /\ Rescan
    /\ UNCHANGED <<durable, nextId>> /\ NoFault

-----------------------------------------------------------------------------
(* The loop over HYPOTHESIS_STAGES.  It passes over a stage HOLD skips and  *)
(* over a reusable success that neither ends the run nor restarts the PoC;  *)
(* passing changes nothing, so an action of the loop is its next stop.      *)

Scanning(s) == /\ pc = "scan" /\ ~Passed(row, s)
               /\ \A p \in 1..(s - 1) : Passed(row, p)

LoopDone ==
    /\ pc = "scan" /\ \A s \in Stages : Passed(row, s)
    /\ Return(REPORT, "SUCCEEDED")
    /\ UNCHANGED <<durable, nextId>> /\ NoFault

(* The two checks of a settled PoC are made twice: before the loop and at   *)
(* the stage.  The second time they find nothing the first has not found.   *)
AtPoc(s) == (pc = "idle" /\ s = POC_EXECUTION) \/ Scanning(s)

PocDecided(s) ==
    /\ AtPoc(s) /\ PriorDecision(s)
    /\ PromotePocOrReturn(s)

PocStaysClosed(s) ==
    /\ AtPoc(s) /\ ~PriorDecision(s) /\ PocClosed(s)
    /\ Return(s, row[s].status)
    /\ UNCHANGED <<durable, nextId>> /\ NoFault

(* A row the loop may still work on.                                        *)
Open(s) == Scanning(s) /\ ~PriorDecision(s) /\ ~PocClosed(s)

Stale(s) == Exists(row[s]) /\ ~row[s].current

OfflineBase(s) == /\ s = VERIFICATION_INITIAL /\ row[s].status = "BLOCKED"
                  /\ row[s].error = "OFFLINE_BASE"
CorrectableEnv(s) == /\ s = VERIFICATION_INITIAL /\ row[s].status = "BLOCKED"
                     /\ row[s].error = "ENVIRONMENT"
AnchorFailed(s) == /\ s \in {VERIFICATION_INITIAL, VERIFICATION_FINAL}
                   /\ row[s].status = "FAILED" /\ row[s].error = "ANCHOR"
InvalidOutput(s) == Failed(row[s]) /\ row[s].error = "INVALID_OUTPUT" /\ Codex

SpentLate(s) == row[s].number > MaxRecovery     \* mutant: off by one
Spent(s) == row[s].number >= MaxRecovery

(* The version moved on: an exhausted anchor failure and an uncorrectable   *)
(* environment stay as they are, two failures keep their attempt count, and *)
(* everything else is dropped together with all later rows.                 *)
StaleReturns(s) ==
    \/ AnchorFailed(s) /\ Spent(s)
    \/ CorrectableEnv(s) /\ (Spent(s) \/ codex # "clear")
StaleKeepsCount(s) ==
    \/ CorrectableEnv(s) /\ ~StaleReturns(s)
    \/ s = POC_EXECUTION /\ InvalidOutput(s) /\ ~Spent(s)

StaleStage(s) ==
    /\ Open(s) /\ Stale(s) /\ ~OfflineBase(s)
    /\ UNCHANGED <<activity, codex, nextId>> /\ NoFault
    /\ \/ /\ StaleReturns(s)
          /\ Return(s, row[s].status) /\ UNCHANGED row
       \/ /\ StaleKeepsCount(s)
          /\ row' = ReplaceFrom(row, s, Reopened(row[s]))
          /\ Rescan
       \/ /\ ~StaleReturns(s) /\ ~StaleKeepsCount(s)
          /\ row' = InvalidateFrom(row, s)
          /\ Rescan

(* _recover_existing, for a row that is neither PENDING nor SUCCEEDED.      *)
Recoverable(s) ==
    /\ Open(s) /\ (Stale(s) => OfflineBase(s))
    /\ row[s].status \in {"RUNNING", "BLOCKED", "FAILED"}

PromotableInitial(s) ==
    /\ s = VERIFICATION_INITIAL /\ row[s].status = "BLOCKED"
    /\ row[s].error \in {"BUNDLE", "EXHAUSTED"}
    /\ row[s].current /\ row[s].attempt # 0 /\ row[s].env = 0

PromoteInitial(s) ==
    /\ Recoverable(s) /\ PromotableInitial(s)
    /\ SetRow(s, PromotedInitial(row[s]))
    /\ activity' = activity \cup {<<"output", s, row[s].attempt>>}
    /\ Rescan
    /\ UNCHANGED <<codex, nextId>> /\ NoFault

CleanupReplay(s) ==
    /\ codex = "clear"
    /\ row[s].status = "RUNNING" \/ row[s].error \in {"CLEANUP", "IN_FLIGHT"}
    /\ <<"confirmed", s, row[s].attempt>> \in activity

ReplayConfirmed(s) ==
    /\ Recoverable(s) /\ CleanupReplay(s)
    /\ row' = ReplaceFrom(row, s, Reopened(row[s]))
    /\ Rescan
    /\ UNCHANGED <<activity, codex, nextId>> /\ NoFault

Interrupted(s) ==
    /\ Recoverable(s) /\ ~CleanupReplay(s) /\ row[s].status = "RUNNING"
    /\ SetRow(s, MarkedFailed(row[s], Blocked("INTERRUPTED", TRUE), {}))
    /\ activity' = activity \cup {<<"failure", s, row[s].attempt>>}
    /\ Goto("decide", s)
    /\ UNCHANGED <<codex, nextId>> /\ NoFault

(* The four failures a resume may replay once their cause can be gone.      *)
Guarded(s) == \/ OfflineBase(s) \/ CorrectableEnv(s)
              \/ AnchorFailed(s) \/ InvalidOutput(s)
MayReplay(s) == ~Spent(s) /\ (InvalidOutput(s) \/ codex = "clear")

ReplayGuarded(s) ==
    /\ Recoverable(s) /\ ~CleanupReplay(s) /\ row[s].status # "RUNNING"
    /\ Guarded(s)
    /\ UNCHANGED <<activity, codex, nextId>> /\ NoFault
    /\ \/ /\ MayReplay(s)
          /\ row' = ReplaceFrom(row, s, Reopened(row[s]))
          /\ Rescan
       \/ /\ ~MayReplay(s) \/ OfflineBase(s)     \* the probe may fail
          /\ IF InvalidOutput(s) THEN SetRow(s, Stopped(row[s]))
                                 ELSE UNCHANGED row
          /\ Return(s, row[s].status)

RecoverFailed(s) ==
    /\ Recoverable(s) /\ ~CleanupReplay(s) /\ Failed(row[s]) /\ ~Guarded(s)
    /\ UNCHANGED <<durable, nextId>> /\ NoFault
    /\ IF row[s].retryable THEN Goto("decide", s)
                           ELSE Return(s, row[s].status)

(* A stored success that ends the run, or sends the PoC back.               *)

ReuseTerminal(s) ==
    Scanning(s) /\ Reusable(row[s]) /\ EndsVerified(row[s], s) /\ VerifyTerminal(s)

ReuseEnds(s) ==
    /\ Scanning(s) /\ Reusable(row[s]) /\ Ends(row[s], s)
    /\ Return(s, "SUCCEEDED")
    /\ UNCHANGED <<durable, nextId>> /\ NoFault

PrepareGateRevision(s) ==
    /\ Scanning(s) /\ Reusable(row[s]) /\ Revises(row[s], s)
    /\ row' = Revising(row)
    /\ Rescan
    /\ UNCHANGED <<activity, codex, nextId>> /\ NoFault

-----------------------------------------------------------------------------
(* Running a stage: invalidate_from unless the row is a PENDING seed, then  *)
(* mark_running in a second transaction, then the handler.                  *)

Prepare(s) ==
    /\ Open(s) /\ ~Stale(s)
    /\ row[s].status # "SUCCEEDED" /\ ~Recoverable(s)
    /\ row' = IF row[s].status = "PENDING" THEN row ELSE InvalidateFrom(row, s)
    /\ pc' = "start" /\ at' = s /\ ctx' = Running(row, s, nextId)
    /\ nextId' = IF ctx'.attempt = nextId THEN nextId + 1 ELSE nextId
    /\ outcome' = NoOutcome
    /\ UNCHANGED <<activity, codex>> /\ NoFault

(* The start event of an attempt is written once: a second mark_running     *)
(* with the same attempt id raises and its transaction is rolled back.      *)
MarkRunningAgain(s) ==  \* mutant: a second start event is ignored
    /\ pc = "start" /\ at = s /\ SetRow(s, ctx) /\ Goto("handler", s)
    /\ activity' = activity \cup {<<"start", s, ctx.attempt>>}
    /\ UNCHANGED <<codex, nextId>> /\ NoFault
MarkRunning(s) ==
    /\ pc = "start" /\ at = s
    /\ UNCHANGED <<codex, nextId>> /\ NoFault
    /\ \/ /\ <<"start", s, ctx.attempt>> \notin activity
          /\ SetRow(s, ctx)
          /\ activity' = activity \cup {<<"start", s, ctx.attempt>>}
          /\ Goto("handler", s)
       \/ /\ <<"start", s, ctx.attempt>> \in activity
          /\ UNCHANGED <<row, activity>>
          /\ Return(s, "RAISED")

Plain == [verdict |-> "none", gate |-> "none", validated |-> 0,
          builds |-> FALSE, unmet |-> FALSE]

(* What the handlers may return, from the StageResults they construct.      *)
InitialResults == {[Plain EXCEPT !.builds = TRUE],
                   [Plain EXCEPT !.verdict = "HOLD", !.unmet = TRUE]}

PocResults == {Plain, [Plain EXCEPT !.validated = row[POC_EXECUTION].attempt]}
                \cup (IF Spent(POC_EXECUTION) THEN {[Plain EXCEPT !.verdict = "HOLD"]} ELSE {})

(* The final verdict rests on the PoC the current execution validated.      *)
FinalVerdict(validated) ==
    {[Plain EXCEPT !.verdict = v, !.validated = validated] :
        v \in {"FALSE", "HOLD"} \cup (IF validated # 0 THEN {"TRUE"} ELSE {})}
FinalOnCandidate == FinalVerdict(row[POC_CANDIDATE].attempt)    \* mutant
FinalResults     == FinalVerdict(row[POC_EXECUTION].validated)

CweResults == {r \in {Plain} : row[VERIFICATION_FINAL].verdict = "TRUE"}

GateResults == {[Plain EXCEPT !.gate = g] : g \in GateDecisions}

Accepted == row[TECH_GATE].status = "SUCCEEDED" /\ row[TECH_GATE].gate = "ACCEPT"

FindingResults ==
    LET f == row[VERIFICATION_FINAL]
    IN  {r \in {[Plain EXCEPT !.verdict = "TRUE", !.validated = f.validated]} :
            /\ f.verdict = "TRUE" /\ f.validated # 0 /\ Accepted
            /\ row[SCOPE_GATE].outputs # {}}

ReportResults ==
    {r \in {[Plain EXCEPT !.verdict = "TRUE", !.validated = row[FINDING].validated]} :
        row[FINDING].status = "SUCCEEDED" /\ Accepted}

Results(s) == CASE s = VERIFICATION_INITIAL -> InitialResults
                [] s = POC_EXECUTION        -> PocResults
                [] s = VERIFICATION_FINAL   -> FinalResults
                [] s = CWE                  -> CweResults
                [] s = TECH_GATE            -> GateResults
                [] s = FINDING              -> FindingResults
                [] s = REPORT               -> ReportResults
                [] OTHER                    -> {Plain}

Complete(s) ==
    /\ pc = "handler" /\ at = s
    /\ \E res \in Results(s) : SetRow(s, Completed(row[s], s, res))
    /\ activity' = activity \cup {<<"output", s, row[s].attempt>>}
    /\ IF s = CHAINING /\ Held(row) THEN Return(s, "SUCCEEDED") ELSE Rescan
    /\ UNCHANGED <<codex, nextId>> /\ NoFault

(* What a handler may raise.  A provider failure is BLOCKED when it may be  *)
(* retried and FAILED otherwise; the environment codes are always BLOCKED.  *)
Raised(s, e) ==
    CASE e = "TRANSIENT"      -> {Blocked(e, TRUE), FailedFor(e)}
      [] e = "INCONCLUSIVE"   -> IF s = POC_EXECUTION /\ ~Spent(s)
                                 THEN {Blocked(e, TRUE)} ELSE {}
      [] e = "INVALID_OUTPUT" -> {Blocked(e, TRUE), FailedFor(e)}
      [] e = "BUDGET"         -> {FailedFor(e)}
      [] e = "CLEANUP"        -> IF Codex /\ codex = "clear" THEN {FailedFor(e)} ELSE {}
      [] e = "IN_FLIGHT"      -> IF Codex THEN {FailedFor(e)} ELSE {}
      [] e = "ANCHOR"         -> IF s \in {VERIFICATION_INITIAL, VERIFICATION_FINAL}
                                 THEN {FailedFor(e)} ELSE {}
      [] e = "OFFLINE_BASE"   -> IF s = VERIFICATION_INITIAL
                                 THEN {Blocked(e, FALSE)} ELSE {}
      [] e = "ENVIRONMENT"    -> IF s = VERIFICATION_INITIAL
                                 THEN {Blocked(e, FALSE), Blocked(e, TRUE)} ELSE {}
      [] e = "BUNDLE"         -> IF s = VERIFICATION_INITIAL
                                 THEN {Blocked(e, TRUE)} ELSE {}
      [] OTHER -> {}

Fail(s) ==
    /\ pc = "handler" /\ at = s /\ s \in FailStages
    /\ failures < MaxFailures /\ failures' = failures + 1
    /\ UNCHANGED <<faults, upgrades, grants, nextId>>
    /\ \E e \in FailKinds : \E f \in Raised(s, e) :
         /\ SetRow(s, MarkedFailed(row[s], f, {Ref("evidence", s, row[s].attempt)}))
         /\ codex' = IF e \in {"CLEANUP", "IN_FLIGHT"} /\ codex = "clear"
                     THEN "spawned" ELSE codex
         /\ IF f.retryable THEN Goto("decide", s) ELSE Return(s, f.status)
    /\ activity' = activity \cup {<<"failure", s, row[s].attempt>>}

(* asyncio cancellation: recorded as a retryable block and raised again.    *)
Cancel(s) ==
    /\ pc = "handler" /\ at = s
    /\ SetRow(s, MarkedFailed(row[s], Blocked("CANCELLED", TRUE), {}))
    /\ activity' = activity \cup {<<"failure", s, row[s].attempt>>}
    /\ Return(s, "RAISED")
    /\ UNCHANGED <<codex, nextId>> /\ Fault

-----------------------------------------------------------------------------
(* _recover_or_stop after the failure is on record.                         *)

Deciding(s) == pc = "decide" /\ at = s

RecoveryExhausted(s) ==
    /\ Deciding(s) /\ Spent(s)
    /\ SetRow(s, Exhausted(row[s]))
    /\ Return(s, "BLOCKED")
    /\ UNCHANGED <<activity, codex, nextId>> /\ NoFault

(* STOP, decided by the agent or by the coordinator's own fallback.         *)
RecoveryStop(s) ==
    /\ Deciding(s) /\ ~Spent(s)
    /\ SetRow(s, Stopped(row[s]))
    /\ \E agent \in BOOLEAN :
         activity' = activity \cup {<<"decision", s, row[s].attempt>>}
                        \cup (IF agent THEN {<<"stop", s, row[s].attempt>>} ELSE {})
    /\ IF row[s].status = "BLOCKED" /\ row[s].error \in {"BUNDLE", "INCONCLUSIVE"}
       THEN Goto("stopped", s) ELSE Return(s, row[s].status)
    /\ UNCHANGED <<codex, nextId>> /\ NoFault

(* The promotions that may follow a STOP, in a transaction of their own.    *)
AfterStop(s) ==
    /\ pc = "stopped" /\ at = s
    /\ IF s = POC_EXECUTION /\ row[s].error = "INCONCLUSIVE"
       THEN PromotePocOrReturn(s)
       ELSE /\ UNCHANGED <<codex, nextId>> /\ NoFault
            /\ \/ /\ PromotableInitial(s)
                  /\ SetRow(s, PromotedInitial(row[s]))
                  /\ activity' = activity \cup {<<"output", s, row[s].attempt>>}
                  /\ Rescan
               \/ /\ UNCHANGED <<row, activity>>
                  /\ Return(s, row[s].status)

(* _recovery_restart_stage; 0 when the stage has no environment to rebuild. *)
RestartStage(s, action) ==
    CASE action = "REBUILD" -> IF s < VERIFICATION_INITIAL THEN 0
                                                          ELSE VERIFICATION_INITIAL
      [] action = "REGENERATE" /\ s = POC_EXECUTION -> POC_CANDIDATE
      [] OTHER -> s

RecoveryRestart(s) ==
    /\ Deciding(s) /\ ~Spent(s)
    /\ activity' = activity \cup {<<"decision", s, row[s].attempt>>}
    /\ UNCHANGED <<codex, nextId>> /\ NoFault
    /\ \E action \in {"RETRY", "REGENERATE", "REBUILD"} :
         LET k == RestartStage(s, action)
         IN  IF k = 0 THEN UNCHANGED row /\ Return(s, row[s].status)
             ELSE /\ row' = Recovering(row, s, k, action = "REBUILD")
                  /\ Rescan

-----------------------------------------------------------------------------
(* The process and its surroundings.                                        *)

(* The process dies.  A Codex call that was under way stays IN_FLIGHT.      *)
Crash ==
    /\ pc # "idle" /\ Fault
    /\ pc' = "idle" /\ at' = 1 /\ ctx' = NoRow
    /\ codex' \in IF pc \in {"handler", "decide"} /\ Codex /\ codex = "clear"
                  THEN {"clear", "unresolved"} ELSE {codex}
    /\ UNCHANGED <<row, activity, outcome, nextId>>

SiblingUnresolved ==
    /\ pc # "idle" /\ Codex /\ codex = "clear" /\ Fault
    /\ codex' = "unresolved"
    /\ UNCHANGED <<row, activity, pc, at, ctx, outcome, nextId>>

(* A resolved call covers the rows that failed only because it was open.    *)
Covered == {<<"confirmed", s, row[s].attempt>> : s \in
               {t \in Stages : Failed(row[t]) /\ row[t].error = "IN_FLIGHT"}}

(* The operator confirms that no Codex child of the call is left: for the   *)
(* row s whose attempt made the call, or for a sibling's row (s = 0).       *)
ConfirmCleanup ==
    /\ pc = "idle" /\ codex # "clear" /\ Grant
    /\ codex' = "clear"
    /\ \E s \in {0} \cup {t \in Stages : \/ row[t].status = "RUNNING"
                                        \/ row[t].error = "CLEANUP"} :
         activity' = activity \cup Covered \cup
                        (IF s = 0 THEN {} ELSE {<<"confirmed", s, row[s].attempt>>})
    /\ UNCHANGED <<row, pc, at, ctx, outcome, nextId>>

(* The application finds that the reserved call never spawned a child.      *)
ReconcileUnspawned ==
    /\ pc = "idle" /\ codex = "unresolved"
    /\ codex' = "clear" /\ activity' = activity \cup Covered
    /\ UNCHANGED <<row, pc, at, ctx, outcome, nextId>> /\ NoFault

(* reopen_budget_failures: the ceilings were raised.                        *)
ReopenBudget(s) ==
    /\ pc = "idle" /\ Grant
    /\ row[s].status = "FAILED" /\ row[s].error = "BUDGET"
    /\ SetRow(s, [Reopened(row[s]) EXCEPT !.current = row[s].current])
    /\ outcome' = NoOutcome
    /\ UNCHANGED <<activity, codex, pc, at, ctx, nextId>>

(* New code is installed whose STAGE_VERSION of s is higher.                *)
Upgrade(s) ==
    /\ pc = "idle" /\ s \in Upgradable
    /\ upgrades < MaxUpgrades /\ upgrades' = upgrades + 1
    /\ Exists(row[s]) /\ row[s].current
    /\ SetRow(s, [row[s] EXCEPT !.current = FALSE])
    /\ outcome' = NoOutcome
    /\ UNCHANGED <<activity, codex, pc, at, ctx, nextId,
                   failures, faults, grants>>

Resume == ResumeTerminal \/ ResumeOpen

Scan(s) == \/ PocDecided(s) \/ PocStaysClosed(s) \/ StaleStage(s)
           \/ PromoteInitial(s) \/ ReplayConfirmed(s) \/ Interrupted(s)
           \/ ReplayGuarded(s) \/ RecoverFailed(s)
           \/ ReuseTerminal(s) \/ ReuseEnds(s) \/ PrepareGateRevision(s)
           \/ Prepare(s)

Decide(s) == RecoveryExhausted(s) \/ RecoveryStop(s) \/ AfterStop(s)
                \/ RecoveryRestart(s)

Next == \/ Resume \/ LoopDone
        \/ \E s \in Stages : Scan(s) \/ MarkRunning(s) \/ Complete(s)
                                \/ Fail(s) \/ Cancel(s) \/ Decide(s)
                                \/ ReopenBudget(s) \/ Upgrade(s)
        \/ Crash \/ SiblingUnresolved \/ ConfirmCleanup \/ ReconcileUnspawned

Spec == Init /\ [][Next]_vars

(* The process keeps running while it has something to do.  Resuming, the   *)
(* environment and the operator are not obliged to act; a handler always    *)
(* returns, because every call it makes has a timeout.                      *)
Step == /\ pc # "idle"
        /\ \/ LoopDone
           \/ \E s \in Stages : \/ Scan(s) \/ MarkRunning(s) \/ Complete(s)
                               \/ Fail(s) \/ Decide(s)
FairSpec == Spec /\ WF_vars(Step)

-----------------------------------------------------------------------------
TypeOK ==
    /\ row \in [Stages -> Row]
    /\ activity \subseteq Log
    /\ codex \in {"clear", "unresolved", "spawned"}
    /\ pc \in {"idle", "scan", "start", "handler", "decide", "stopped"}
    /\ at \in Stages /\ ctx \in Row
    /\ outcome \in Outcomes
    /\ nextId \in Nat /\ failures \in Nat /\ faults \in Nat
    /\ upgrades \in Nat /\ grants \in Nat

(* A row exists only behind successes: every earlier stage has succeeded,   *)
(* or is one that a HOLD verdict passes over.  The loop, the replays and    *)
(* the recovery decisions delete from a stage to the end; one that deleted  *)
(* less would leave results standing on a stage that is being redone.       *)
Frontier == FrontierIn(row)

(* Every row was computed from the outputs the row before it has NOW.       *)
(* reusable() compares a row with its own stored inputs only, never with    *)
(* what the previous stage holds, so nothing but the deletions keeps a      *)
(* downstream result from outliving the upstream result it was made from    *)
(* (docs/architecture/runtime-and-recovery.md, "이전 성공 결과의 입력").        *)
InputsCurrent == InputsCurrentIn(row)

(* The stages after the initial verification run in the environment it      *)
(* built last, never in one that a recovery has thrown away.                *)
EnvironmentCurrent ==
    \A s \in Stages : s > VERIFICATION_INITIAL /\ Exists(row[s]) =>
        row[s].env = row[VERIFICATION_INITIAL].env

(* A result that ends the hypothesis has no row after it: neither a refuted *)
(* or undecidable one nor a rejected PoC gets a report.                     *)
TerminalLast == TerminalLastIn(row)

(* A report is written only for a TRUE verdict on a PoC that the current    *)
(* execution validated and the current gate accepted.                       *)
ReportClosure ==
    row[REPORT].status = "SUCCEEDED" =>
        /\ row[VERIFICATION_FINAL].verdict = "TRUE"
        /\ row[TECH_GATE].gate = "ACCEPT"
        /\ row[REPORT].validated = row[POC_EXECUTION].attempt
        /\ row[POC_EXECUTION].validated = row[POC_EXECUTION].attempt

(* One failure lineage gets MaxRecovery attempts, whichever stages its      *)
(* recoveries restart from; each operator intervention, and each Codex call *)
(* that a fault left open and a resume found unspawned, may add one.        *)
AttemptsBounded ==
    \A s \in Stages : row[s].number <= MaxRecovery + grants + faults

(* Two Technical Gate revisions at most, counted through every recovery     *)
(* that restarts an earlier stage in between.                               *)
RevisionsBounded == \A s \in Stages : row[s].revisions <= 2

(* No event of a running attempt is on record yet, so that neither its      *)
(* success nor its failure can collide with an older one.  The PoC          *)
(* execution borrows its attempt id from the candidate.                     *)
RunningFresh ==
    \A s \in Stages : row[s].status = "RUNNING" =>
        \A k \in {"output", "failure", "decision", "stop"} :
            <<k, s, row[s].attempt>> \notin activity

(* What resume_hypothesis reported is what the table says: SUCCEEDED only   *)
(* when nothing is left to run, a failure only when it is stored.           *)
Finished == \/ row[REPORT].status = "SUCCEEDED" \/ Terminal(row)
            \/ /\ row[VERIFICATION_FINAL].status = "SUCCEEDED"
               /\ row[VERIFICATION_FINAL].verdict = "FALSE"
            \/ Held(row) /\ row[CHAINING].status = "SUCCEEDED"
OutcomeTruthful ==
    /\ outcome.status = "SUCCEEDED" => Finished
    /\ outcome.status \in {"BLOCKED", "FAILED"} =>
           row[outcome.stage].status = outcome.status

(* A recorded terminal PoC, and a PoC execution that is closed to retries,  *)
(* is not undone by a later version of an earlier stage (the comments of    *)
(* runner.py lines 93 and 177): only a new version of the execution stage   *)
(* itself, an operator's budget increase or lost evidence touches it.       *)
PocSettled == \/ TerminalPoc(row[POC_EXECUTION])
              \/ PocClosed(POC_EXECUTION)
PocSticky ==
    [][PocSettled => \/ row'[POC_EXECUTION].attempt = row[POC_EXECUTION].attempt
                     \/ grants' > grants]_vars

(* A resume always comes back: automatic recovery, gate revisions and       *)
(* replays are bounded by the code, whatever the handlers raise.            *)
ResumeReturns == (pc # "idle") ~> (pc = "idle")
=============================================================================
