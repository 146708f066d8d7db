--------------------------- MODULE Checkpoints ---------------------------
(***************************************************************************)
(* The checkpoint table of one hypothesis in SimpleRuntime: the rows the   *)
(* store keeps per stage, and what each store primitive does to them.      *)
(* Everything here is constant level: an operator takes the table T (a     *)
(* function from stages to rows) and returns a row or a new table.  Each   *)
(* operator that returns a table is ONE database transaction of the code.  *)
(***************************************************************************)
EXTENDS Naturals

CONSTANT
    MaxRecovery     \* MAX_RECOVERY_ATTEMPTS: attempts one failure lineage gets

ASSUME MaxRecoveryAssumption == MaxRecovery \in Nat \ {0}

-----------------------------------------------------------------------------
(* HYPOTHESIS_STAGES, in STAGE_ORDER.  A stage is its position.             *)
PRO_CON              == 1
VERIFICATION_INITIAL == 2
POC_CANDIDATE        == 3
POC_EXECUTION        == 4
VERIFICATION_FINAL   == 5
CWE                  == 6
TECH_GATE            == 7
SCOPE_GATE           == 8
PRIMITIVE_ADMISSION  == 9
CHAINING             == 10
FINDING              == 11
REPORT               == 12
Stages == 1..12

(* The stages the loop passes over once the final verdict is HOLD.          *)
SkippedOnHold == {CWE, TECH_GATE, SCOPE_GATE, FINDING, REPORT}

Status == {"NONE", "PENDING", "RUNNING", "SUCCEEDED", "BLOCKED", "FAILED"}

(* Error codes, grouped by what the runner does with them: ENVIRONMENT is   *)
(* the three correctable environment codes, BUDGET the four LLM ceilings,   *)
(* TRANSIENT every other code a handler raises.                             *)
Errors == {"none", "TRANSIENT", "INTERRUPTED", "CANCELLED", "INCONCLUSIVE",
           "EXHAUSTED", "INVALID_OUTPUT", "ANCHOR", "OFFLINE_BASE",
           "ENVIRONMENT", "BUNDLE", "BUDGET", "CLEANUP", "IN_FLIGHT",
           "EVIDENCE"}

Verdicts == {"none", "TRUE", "FALSE", "HOLD"}
Gates    == {"none", "ACCEPT", "REVISE", "REJECT"}

(* A StoredDataRef: what kind of artifact it is, the stage and the attempt  *)
(* that wrote it.                                                           *)
Ref(kind, s, a) == <<kind, s, a>>
Refs        == {"input", "output", "evidence", "decision", "policy"} \X (0..12) \X Nat
RefSets     == SUBSET Refs
ProposalRef == Ref("input", 0, 0)       \* the hypothesis proposal
PolicyRef   == Ref("policy", 0, 0)      \* the policy snapshot of the analysis

(* A StageCheckpoint.  Absent values are 0 (attempt, origin, env,           *)
(* validated), "none" or {}; a missing row has status NONE.                 *)
Row == [status    : Status,
        current   : BOOLEAN,     \* stage_version = STAGE_VERSION[stage]
        inputs    : RefSets,
        outputs   : RefSets,
        attempt   : Nat,         \* attempt_id
        number    : Nat,         \* attempt_number
        revisions : Nat,         \* gate_revision_count
        origin    : 0..12,       \* recovery_origin_stage; 0 = no lineage
        decisions : RefSets,     \* recovery_decision_refs
        error     : Errors,
        retryable : BOOLEAN,
        env       : Nat,         \* recipe and image: the attempt that built them
        verdict   : Verdicts,
        gate      : Gates,
        validated : Nat,         \* validated_poc_ref: the attempt it came from
        stop      : BOOLEAN,     \* poc_stop_decision_ref is set
        unmet     : BOOLEAN]     \* external prerequisite or environment block

NoRow == [status |-> "NONE", current |-> TRUE, inputs |-> {}, outputs |-> {},
          attempt |-> 0, number |-> 0, revisions |-> 0, origin |-> 0,
          decisions |-> {}, error |-> "none", retryable |-> FALSE, env |-> 0,
          verdict |-> "none", gate |-> "none", validated |-> 0,
          stop |-> FALSE, unmet |-> FALSE]

Exists(r) == r.status # "NONE"
Failed(r) == r.status \in {"BLOCKED", "FAILED"}

-----------------------------------------------------------------------------
(* Reading the table.                                                       *)

TerminalInitial(r) == /\ r.status = "SUCCEEDED" /\ r.current
                      /\ r.verdict = "HOLD" /\ r.unmet
                      /\ r.env = 0 /\ r.validated = 0

TerminalPoc(r) == /\ r.status = "SUCCEEDED" /\ r.current
                  /\ r.verdict = "HOLD" /\ r.validated = 0
                  /\ (r.number >= MaxRecovery \/ r.stop)

TerminalGateLate(r) == /\ r.status = "SUCCEEDED" /\ r.current    \* mutant: off by one
                       /\ \/ r.gate = "REJECT"
                          \/ r.gate = "REVISE" /\ r.revisions > 2

TerminalGate(r) == /\ r.status = "SUCCEEDED" /\ r.current
                   /\ \/ r.gate = "REJECT"
                      \/ r.gate = "REVISE" /\ r.revisions >= 2

(* Rows that end the hypothesis although later stages have no row.          *)
Terminal(T) == \/ TerminalInitial(T[VERIFICATION_INITIAL])
               \/ TerminalPoc(T[POC_EXECUTION])
               \/ TerminalGate(T[TECH_GATE])

Held(T) == /\ T[VERIFICATION_FINAL].status = "SUCCEEDED"
           /\ T[VERIFICATION_FINAL].verdict = "HOLD"

Skipped(T, s) == Held(T) /\ s \in SkippedOnHold
Reusable(r) == r.status = "SUCCEEDED" /\ r.current

(* Successes that end the run (two of them only after their evidence has    *)
(* been read again), and the one that sends the PoC back.                   *)
Ends(r, s) == \/ s = VERIFICATION_FINAL /\ r.verdict = "FALSE"
              \/ s = TECH_GATE /\ TerminalGate(r)
EndsVerified(r, s) == \/ s = VERIFICATION_INITIAL /\ TerminalInitial(r)
                      \/ s = POC_EXECUTION /\ (TerminalPoc(r) \/ r.stop)
Revises(r, s) == s = TECH_GATE /\ r.gate = "REVISE" /\ ~TerminalGate(r)

(* What the loop passes over without stopping.                              *)
PassedEvenIfOver(T, s) ==   \* mutant: a success that ends the run does not
    Skipped(T, s) \/ (Reusable(T[s]) /\ ~Revises(T[s], s))
Passed(T, s) ==
    \/ Skipped(T, s)
    \/ /\ Reusable(T[s]) /\ ~Revises(T[s], s)
       /\ ~Ends(T[s], s) /\ ~EndsVerified(T[s], s)

(* prior() is the rows of the earlier stages; preceding is the last of them.*)
Prior(T, s) == {p \in 1..(s - 1) : Exists(T[p])}
Latest(P)   == CHOOSE p \in P : \A q \in P : q <= p
Preceding(T, s) == IF Prior(T, s) = {} THEN 0 ELSE Latest(Prior(T, s))

(* input_refs_for: the row's own inputs, or what the nearest earlier        *)
(* success wrote (there is at most one nearest).                            *)
Sources(T, s) ==
    {p \in 1..(s - 1) : /\ T[p].status = "SUCCEEDED"
                        /\ \A q \in (p + 1)..(s - 1) : T[q].status # "SUCCEEDED"}
InputRefsFor(T, s) ==
    IF Exists(T[s]) THEN T[s].inputs ELSE UNION {T[p].outputs : p \in Sources(T, s)}

-----------------------------------------------------------------------------
(* Writing the table.                                                       *)

(* invalidate_from: drop the row of stage s and every later one.            *)
InvalidateFrom(T, s) == [t \in Stages |-> IF t >= s THEN NoRow ELSE T[t]]

(* replace_from: the same, and seed the row of s, in one transaction.       *)
ReplaceOnly(T, s, pending) == [T EXCEPT ![s] = pending]     \* mutant: later rows stay
ReplaceFrom(T, s, pending) ==
    [t \in Stages |-> IF t = s THEN pending ELSE IF t > s THEN NoRow ELSE T[t]]

(* The PENDING copy of a failed row a guarded replay seeds.                 *)
Reopened(r) == [r EXCEPT !.status = "PENDING", !.current = TRUE,
                         !.outputs = {}, !.attempt = 0, !.error = "none",
                         !.retryable = FALSE]

(* mark_running: the row the stage starts with.  The lineage, the decisions,*)
(* the environment and the gate count come from the PENDING seed, else from *)
(* the old row if it had an environment, else from the preceding row.       *)
InheritFrom(T, s) ==
    IF T[s].env # 0 THEN T[s]
    ELSE IF Preceding(T, s) = 0 THEN NoRow ELSE T[Preceding(T, s)]

AttemptNumber(T, s) ==
    IF T[s].status = "PENDING" THEN T[s].number + 1
    ELSE IF InheritFrom(T, s).origin # 0 THEN InheritFrom(T, s).number ELSE 1

(* A PoC execution without a row of its own takes its candidate's attempt.  *)
AttemptId(T, s, fresh) ==
    IF /\ s = POC_EXECUTION /\ ~Exists(T[s])
       /\ Preceding(T, s) = POC_CANDIDATE /\ T[POC_CANDIDATE].attempt # 0
    THEN T[POC_CANDIDATE].attempt ELSE fresh

Running(T, s, fresh) ==
    LET base == IF T[s].status = "PENDING" THEN T[s] ELSE InheritFrom(T, s)
        policy == IF s = SCOPE_GATE /\ ~Exists(T[s]) THEN {PolicyRef} ELSE {}
    IN  [NoRow EXCEPT
            !.status = "RUNNING",
            !.inputs = InputRefsFor(T, s) \cup policy \cup base.decisions,
            !.attempt = AttemptId(T, s, fresh),
            !.number = AttemptNumber(T, s),
            !.revisions = base.revisions,
            !.origin = base.origin,
            !.decisions = base.decisions,
            !.env = base.env]

(* complete: the handler's result becomes the row; a lineage that started   *)
(* at this stage is closed.                                                 *)
Completed(r, s, res) ==
    [r EXCEPT !.status = "SUCCEEDED",
              !.outputs = {Ref("output", s, r.attempt)},
              !.error = "none", !.retryable = FALSE,
              !.env = IF res.builds THEN r.attempt ELSE @,
              !.verdict = res.verdict, !.gate = res.gate,
              !.validated = res.validated, !.unmet = res.unmet,
              !.origin = IF @ = s THEN 0 ELSE @,
              !.decisions = IF r.origin = s THEN {} ELSE @]

(* mark_failure: the evidence replaces the outputs, everything else stays.  *)
MarkedFailed(r, f, evidence) ==
    [r EXCEPT !.status = f.status, !.error = f.error,
              !.retryable = f.retryable, !.outputs = evidence]

(* mark_recovery_exhausted and record_recovery_stop.                        *)
ExhaustedAsStatus(r) == [r EXCEPT !.status = "EXHAUSTED",   \* mutant: code as status
                                  !.retryable = FALSE]
Exhausted(r) == [r EXCEPT !.status = "BLOCKED", !.error = "EXHAUSTED",
                          !.retryable = FALSE]
Stopped(r) == [r EXCEPT !.retryable = FALSE]

(* The PENDING row a restart seeds.                                         *)
Seed(inputs, number, revisions, origin, decisions, env) ==
    [NoRow EXCEPT !.status = "PENDING", !.inputs = inputs, !.number = number,
                  !.revisions = revisions, !.origin = origin,
                  !.decisions = decisions, !.env = env]

(* prepare_recovery: one decision seeds the next attempt of the lineage at  *)
(* stage k, carrying the failed stage's evidence into its inputs.           *)
Decision(s, r) == Ref("decision", s, r.attempt)

Lineage(T, s, k, inputs, env) ==
    LET f == T[s]
        dec == f.decisions \cup {Decision(s, f)}
    IN  ReplaceFrom(T, k,
          Seed(inputs \cup f.outputs \cup dec, f.number, f.revisions,
               IF f.origin # 0 THEN f.origin ELSE s, dec, env))

(* Mutants: the restarted stage's own inputs, the failed stage's inputs,    *)
(* the environment are forgotten.                                           *)
RecoveringDropsTarget(T, s, k, rebuild) ==
    Lineage(T, s, k, T[s].inputs, IF rebuild THEN 0 ELSE T[s].env)
RecoveringDropsEnv(T, s, k, rebuild) ==
    Lineage(T, s, k, T[k].inputs \cup T[s].inputs, 0)
Recovering(T, s, k, rebuild) ==
    Lineage(T, s, k, T[k].inputs \cup T[s].inputs, IF rebuild THEN 0 ELSE T[s].env)

(* prepare_gate_revision: a REVISE decision restarts the PoC pair with one  *)
(* more revision on its count and no recovery lineage.                      *)
RevisingAfterGate(T) == InvalidateFrom(T, SCOPE_GATE)   \* mutant: restarts too late
Revising(T) ==
    LET g == T[TECH_GATE]
        c == T[POC_CANDIDATE]
        x == T[POC_EXECUTION]
    IN  ReplaceFrom(T, POC_CANDIDATE,
          Seed(g.outputs \cup c.inputs \cup c.outputs \cup x.outputs, 0,
               g.revisions + 1, 0, {}, IF c.env # 0 THEN c.env ELSE g.env))

(* promote_initial_environment_inconclusive, promote_inconclusive_execution *)
PromotedInitial(r) ==
    [r EXCEPT !.status = "SUCCEEDED", !.unmet = TRUE, !.verdict = "HOLD",
              !.error = "none", !.retryable = FALSE]
PromotedPoc(r) ==
    [r EXCEPT !.status = "SUCCEEDED", !.verdict = "HOLD", !.stop = TRUE,
              !.error = "none", !.retryable = FALSE]

-----------------------------------------------------------------------------
(* What a good table looks like.                                            *)

Later(T, s)  == {t \in (s + 1)..REPORT : Exists(T[t])}
Behind(T, s) == \A p \in 1..(s - 1) :
                    T[p].status = "SUCCEEDED" \/ (~Exists(T[p]) /\ Skipped(T, p))
FrontierIn(T) == \A s \in Stages : Exists(T[s]) => Behind(T, s)

HoldSkipsIn(T) == \A s \in Stages : Skipped(T, s) => ~Exists(T[s])

Adjacent(T, p, s) == /\ p < s /\ Exists(T[p])
                     /\ \A q \in (p + 1)..(s - 1) : ~Exists(T[q])
InputsCurrentIn(T) ==
    \A p, s \in Stages :
        Adjacent(T, p, s) /\ Exists(T[s]) => T[p].outputs \subseteq T[s].inputs

TerminalLastIn(T) ==
    \A s \in Stages :
        Reusable(T[s]) /\ (Ends(T[s], s) \/ EndsVerified(T[s], s)) => Later(T, s) = {}

TableInv(T) == /\ FrontierIn(T) /\ HoldSkipsIn(T)
               /\ InputsCurrentIn(T) /\ TerminalLastIn(T)
=============================================================================
