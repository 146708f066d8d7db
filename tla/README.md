# A TLA+ development for sastsimi

sastsimi analyses a source tree with static tools and language models, tries to
prove each suspected weakness with a proof of concept (PoC) in a container, and
reports what survives. A run takes hours, costs money, and is killed, resumed,
upgraded and cancelled. The hard part of the program is the bookkeeping that
makes this safe: which results may be reused, what is redone after a failure,
when a paid model call may be repeated, and when a process or a container that was
started may be forgotten. This development models that bookkeeping. The repository
has two runtimes: the SimpleRuntime (`simple_runtime/`) and the production runtime
(`runtime/`, `orchestration/`, `storage/`, `sandbox/`); both are modelled.

Paths below are relative to the repository's root; `runner.py`, `store.py`,
`models.py`, `stages.py`, `recovery.py`, `call_queue.py`, `application.py`,
`discovery.py`, `candidate_batches.py`, `chaining.py` and `run_lease.py` are those of
`src/sastsimi/simple_runtime/`, `cleanup.py` that of `src/sastsimi/sandbox/`.

## 1. Inventory

| Part | State it keeps | Operations | Correct when |
|---|---|---|---|
| Checkpoint store (`store.py`, `models.py`) | SQLite rows, one per hypothesis and stage: status, inputs, outputs, attempt, recovery lineage, gate revisions, environment | `reusable`, `mark_running`, `complete`, `mark_failure`, `prepare_recovery`, `prepare_gate_revision`, `invalidate_from`, `replace_from`, promotions | no row outlives what it was computed from |
| Hypothesis runner (`runner.py`) | nothing durable of its own; position in the stage loop | `resume_hypothesis`, `_recover_existing`, `_recover_or_stop` | resumes finish, attempts and revisions are bounded, an ending ends, the outcome it reports is the one stored |
| Activity log (`src/sastsimi/storage/agent_activity.py`) | append-only events, id derived from stage, attempt and kind | `append_connection` | an event is written once |
| Stage handlers (`stages.py`) | none | one handler per stage, returns a `StageResult` or a `StageFailure` | verdicts rest on validated PoCs |
| Recovery coordinator (`recovery.py`) | recovery decisions | `decide`: STOP, RETRY_STAGE, REGENERATE, REBUILD | one decision per failed attempt |
| Codex call queue (`call_queue.py`) | `simple_codex_calls`, `simple_llm_attempts`; per-analysis budget gate in memory | `RunLimitedClient.call` | budget kept, at most one call, every call returns |
| Codex process runner (`src/sastsimi/providers/codex_subscription.py`) | `simple_codex_child_spawns`; operating-system processes; late-spawn counter | `execute`, `_run_child`, `_terminate_late_spawn` | no child is forgotten while it may run |
| Codex cleanup (`store.py`, `application.py`) | the same tables | `_reconcile_unspawned_codex_call_with_lease`, `confirm_codex_cleanup` | a call is settled only when its children are gone |
| Run lease (`run_lease.py`) | an operating-system file lock | acquire, release | one process per analysis |
| Analysis application (`application.py`) | the analysis row, hypotheses | start, resume, cancel, seeding, scheduling | every hypothesis reaches an outcome |
| Candidate pipeline, version 2 (`application.py`, `discovery.py`, `candidate_batches.py`, `chaining.py`, `store.py`) | candidates with their decision and deep status, batch answers and markers, explored contexts, hypotheses, admitted primitives, chaining pool batches, child claims, the root checkpoint, the terminal marker | one *turn* per analyze or resume: discover, recover chains, propose batches, drain children, explore contexts, run the pool, finish | nothing is published before everything is done, no stored answer is bought again, the queue is bounded, every turn returns, the analysis ends |
| Production dispatch (`src/sastsimi/storage/work_dispatch.py`, `lease_recovery.py`, `recovery_service.py`, `dispatches.py`, `src/sastsimi/runtime/worker_pool.py`) | work items, attempts, leases, external dispatches | register, claim, renew, dispatch, recover, resume | one running attempt per work, no uncertain request sent twice |
| Production budgets and transitions (`storage/budget_service.py`, `transition_service.py`, `run_control.py`, `cancellation_targets.py`) | reservations, the retry ledger, the two-phase journal, the cancellation latch and its observations | reserve, commit, prepare, finish, abort, latch, observe, reconcile, mark quiescent | each attempt ends once, the latch is final, a quiescent run is closed |
| Production orchestration (`src/sastsimi/orchestration/`, `runtime/run_control.py`, `storage/analysis_finalization.py`) | the run row | run, resume, cancel, interrupt, finalize | a published result is final and closed |
| Dynamic reproduction sandbox (`cleanup.py`, `setup_automation.py`, `recipe_store.py`, `src/sastsimi/reproduction/`, `composition/runtime.py`) | the resource registry in memory and its journal file, the creation fence, Docker's containers and images | reserve, build, create, register, start, clean up, reconcile, validate the inventory | no container is forgotten, a finished work leaves none, a baseline image is kept, a cancel stops creations |
| Attack surfaces, finding groups, artifacts, dashboard (`simple_runtime/`, `dashboard/`) | documents and projections | deterministic transformations | data correctness |
| Gates, agents, static analysis, policy, providers, setup, CLI | documents | input and output | out of scope here (section 8) |

How they interact. `application.py` takes the run lease, reconciles an unresolved
Codex call and resumes the hypotheses concurrently in one process. Each
runner walks the twelve stages; a handler makes its model calls through
`RunLimitedClient.call`, which serialises them per analysis through the budget
gate; the Codex provider turns a call into three child processes (version, login,
exec) and writes an intent, the identity and the exit of each to the store. A
failure climbs back as a `StageFailure` whose `retryable` flag decides whether
the runner asks the recovery coordinator or stops. In pipeline version 2 the
hypotheses are produced batch by batch and run, one after the other, between two
batches; a closed one may offer chains, which become hypotheses in turn.

In the production runtime every command first recovers the store, then enters the
worker pool or drains a cancellation. Each worker task runs one attempt of one work:
it reserves budget, claims and marks each external request before it leaves the
process, and stores its result through a prepared journal entry that any later process
may finish. Dynamic works own Docker containers through the resource registry; a
cancellation asks that registry for an empty inventory.

What is hard: a crash between any two transactions; a timeout or cancellation
during a spawn; a child that appears after its caller has given up; recoveries,
replays and gate revisions that restart overlapping ranges of stages; new stage
versions installed between two resumes; concurrent callers and one budget; rows
whose usage is unknown; evidence files that disappear; turns that die between the
answers of a batch; workers that outlive their lease; requests whose outcome nobody
knows; a cancel that meets a commit; Docker calls that fail after they took effect.
`PROJECT.json` lists these hazards with the line where each one bites and the
properties that cover it.

## 2. Modules

| Module | Models | Extends |
|---|---|---|
| `Checkpoints` | the table of one hypothesis and the effect of every store primitive on it, as constant-level operators | |
| `HypothesisRunner` | `resume_hypothesis` and everything around it, one action per transaction | `Checkpoints` |
| `CallQueue` | the Codex ledger, the callers, the children and the crashes of one analysis | |
| `CandidatePipeline` | the turns of one analysis under pipeline version 2 | |
| `WorkDispatch` | the rows of one production run and the processes and tasks that act on them | |
| `WorkLifecycle` | what `WorkDispatch` promises its callers: the abstract life of a work | instantiated by `WorkDispatch` |
| `SandboxResources` | the resource registry, its journal, Docker, and the dynamic works of one run | |
| `MC...` | sets for the configurations, symmetries, state constraints | the module they are named after |
| `Checkpoints_proofs` | facts about the table primitives, at constant level | `Checkpoints` |
| `HypothesisRunner_proofs`, `RunnerHistory_proofs` | the proofs about the runner: what the rows contain; what they remember | `HypothesisRunner`; the former |
| `CallQueue_proofs`, `WorkDispatch_proofs`, `CandidatePipeline_proofs`, `SandboxResources_proofs` | the proofs about each component | the component |
| `SetSums` | lemmas about sums over finite sets, for `CallQueue_proofs` | |

### HypothesisRunner and the code

| Variable | Code |
|---|---|
| `row` | `StageCheckpoint` rows of one hypothesis; a missing row has status NONE; `current` is `stage_version = STAGE_VERSION[stage]` |
| `activity` | events by kind, stage and attempt; a second event with the same id raises and rolls its transaction back |
| `codex` | "clear": no call of the analysis is `IN_FLIGHT`; "spawned": one is, and has left an attempt or a child row; "unresolved": one is, and has left neither. `_reconcile_unspawned_codex_call_with_lease` (`store.py:8325`) takes only the last; a stage that ended in CLEANUP or IN_FLIGHT has recorded its attempt first (`call_queue.py:408`), so only a fault leaves it |
| `pc`, `at`, `ctx` | the runner between two transactions; `ctx` is the row `mark_running` is about to write |
| `outcome` | the `RunOutcome` last returned; RAISED when an exception leaves `resume_hypothesis` |
| `nextId` | fresh uuids |
| `failures`, `faults`, `upgrades`, `grants` | what the bounds count |

Passing over a reusable stage changes nothing, so one action of the loop is its
next stop: `Scanning(s)` says that every earlier stage is passed. The actions
follow the branches of the loop and of `_recover_existing` in the code's order:

* `ResumeTerminal`, `PocDecided`, `PocStaysClosed`, `ResumeOpen`: the checks of a settled
  PoC before the loop; the loop repeats two of them at the stage (`AtPoc`), where they
  find nothing new;
* `StaleStage`: the stage version moved on;
* `PromoteInitial`, `ReplayConfirmed`, `Interrupted`, `ReplayGuarded`,
  `RecoverFailed`: `_recover_existing`;
* `ReuseTerminal`, `ReuseEnds`, `PrepareGateRevision`: successes that end the run or
  send the PoC back;
* `Prepare`, `MarkRunning`, `Complete`, `Fail`, `Cancel`: the four transactions of one
  stage. A handler is abstracted to the results and failures it constructs
  (`Results`, `Raised`);
* `RecoveryExhausted`, `RecoveryStop`, `AfterStop`, `RecoveryRestart`:
  `_recover_or_stop`; the coordinator's decision is a choice;
* `Crash`, `SiblingUnresolved`, `ConfirmCleanup`, `ReconcileUnspawned`,
  `ReopenBudget`, `Upgrade`: the surroundings.

Error codes are grouped by what the runner does with them (`Errors`), references by
the stage and attempt that wrote them (`Ref`). The model is of the composed runtime
(`src/sastsimi/composition/simple_runtime_composition.py`): a recovery coordinator, an
artifact repository and the offline base probe are present.

### CallQueue and the code

| Variable | Code |
|---|---|
| `call`, `attempt`, `child` | `simple_codex_calls`, `simple_llm_attempts`, `simple_codex_child_spawns` |
| `os` | the operating system's view of each child |
| `up` | a process holds the run lease |
| `gate` | holder of the analysis' `asyncio.Lock` |
| `late` | spawns whose waiter was cancelled (`_LATE_SPAWN_PENDING`) |
| `task` | each caller: where it is in `call()`, its attempt count, deadline, last failure, and what it was told |

`Refused` and `Begin` are the checks under the gate and the reservation; `Intent`,
`OsSpawn`, `Capture`, `Reap` one child; `TimeOut`, `Cancel`, `KillTree`, `KillFails`,
`DrainSpawn`, `DrainFails` an interruption while the child runs or is being spawned;
`LateSpawn`, `LateCleanup` a spawn that completes after its caller gave up; `Record`,
`Succeed`, `LeaveInFlight`, `Fail`, `Retry` the end of an attempt; `Crash`, `Resume`,
`Confirm` the process and the operator. `NOT_RETURNED` stands for the TIMED_OUT or
FAILED that `call()` records when the inner call raised or did not return. The
semantics of `asyncio.wait_for` is that of Python 3.12.

### CandidatePipeline and the code

The variables are the tables named beside them in the module, the root checkpoint
(`root`), the terminal marker (`terminal`), and the turn in memory (`pc`, `turn`, `last`).
A step is one store transaction or one awaited call; the run lease allows one turn at a
time; `Crash` loses the turn, `Raise` is an exception that leaves `analyze` or `resume`.

* `Resume`: the start of a turn, with the refusal of a root that an invalid chaining
  response blocked, and the terminal marker taken back;
* `Decide`, `DiscoveryFails`, `Discovered`: `CandidateDiscovery.run`, errors once per turn;
* `RecoverChains`, `RegisterChildren`: children that stored chaining results offer;
* `RunChild`, `ChildCloses`, `ChildStops`, `PrewarmFails`, `DrainEnds`:
  `_drain_candidate_children`. What a run of a child does inside is `HypothesisRunner`;
* `SkipFile`, `MarkBatch`, `Propose`, `Answer`, `ProposeFails`, `CommitAnswer`,
  `Committed`, `AfterFailed`, `AfterBatch`, `BatchesSeen`: `_run_candidate_batches_v2`;
* `Explore`, `ExploreFails`, `Revisit`, `AfterContext`, `ContextsSeen`: targeted surfaces;
  `Backpressure` is the check before a batch and before a context;
* `PlanPool`, `PoolBatch`, `PoolFails`, `AfterPoolBatch`, `PoolEnds`: the final chaining pool;
* `Finish`, `Publish`: certification, the root's success, the published run.

### WorkDispatch, WorkLifecycle and the code

| Variable | Code |
|---|---|
| `run`, `control` | `AnalysisRunState.status`; the `run_controls` row |
| `work`, `lease`, `tries`, `attempt` | `work_states`, `work_attempts` |
| `row` | one external request of a work: its reservation, its `external_dispatches` row and its cancellation observation |
| `retries` | the retry units of the ledger |
| `journal` | `transition_commits`, by who prepared the entry |
| `task`, `proc` | the worker task of each attempt, and the command each process is in |

State versions are not kept: "still the revision I read" is `Current(w, n)`, the work is
RUNNING with attempt n. `Recover` to `Recovered` are `RecoveryService.recover`, with one
step for each entry replayed and two for each work blocked; `Run`, `Resume`, `Exit`,
`RequestCancel`, `Interrupt` the commands; `Claim`, `Poll`, `IdleOutcome`, `Finalize` the
worker pool and the finalization; `Seed`, `SeedOne`, `Seeded` the first works a run command
registers; `Register`, `MakeReady` those a handler adds before or after it committed its own
result, up to `HandedOff`, whatever became of the run meanwhile; `FirstPulse` to `FinishFailure` one task, with the
external request from `Reserve` to `Account`; `ReadTargets`, `Observe`, `Reconcile`,
`MarkQuiescent` the drain of a cancellation. Time is `LeaseExpires` and
`DecisionExpires`: with `Stalls` they may also hit a live owner.

`WorkLifecycle` says the same without processes, leases, journals and budgets: a work is
new, open, busy, waiting or ended; a request leaves only from a busy work without an
unknown one; an attempt begins only when all is known and a slot is free; a stop and a
seal forbid the rest. `Lifecycle == INSTANCE WorkLifecycle WITH ...` maps the rows to it
(`Phases`, `Unsettled`, `Latched`, `Final`), and `ImplementsLifecycle` is its specification, checked
as a property of two runs.

### SandboxResources and the code

`mem` is the `OwnedResourceRegistry` of each process, `journal` the file it writes after
each change, `docker` what the daemon holds, `fence` the creation lock, `task` the handler
of each work between two awaits. `Begin`, `NextStage`, `Inspect`, `Remove`, `Drop` are
`reconcile_pending`; `Open` the choice of a baseline; `Admit` to `RegisterContainer` the
creation of an image or a container, where the admission of `creation_fence` and the journaled
intent (`Reserve`) are two steps: the first is a transaction of its own, and a cancellation in
another process reads the journal without the fence; `Undo...` a creation that failed; `Start`, `Unstart`,
`Session` the session; `CleanupRemove`, `CleanupDone`, `CleanupFails` the cleanup;
`Launch`, `Crash`, `RequestCancel`, `CloseInventory` the process and the cancellation.
Docker is external: every call may fail, and a failing create or build may have worked.

Two variables are history, which no step reads: `crossed`, that a reconciliation has looked at
the intent of a creation under way, or that two processes have run at once; and `named`, how
many resources had a name when the run was latched. What the journal says is reliable
only until `crossed` (section 6), so `Tracked`, `BaselineKept` and the journal half of
`FinalizedClean` are stated up to it; that a published work left no container in Docker, and
that the latch lets at most one more resource be named, hold without it.

## 3. What the runs check

State counts are of the shipped configurations.

| Run | Distinct states | Question |
|---|---|---|
| `runner_recovery` | 212,284 | every failure of the initial verification, the PoC execution and the final verdict, every recovery decision, unresolved calls, confirmations, budget increases, one crash, unreadable evidence or version bump: does a row outlive the rows, inputs or environment it came from; are attempts bounded and never run twice; is a closed PoC redone; is the reported outcome the stored one? |
| `runner_gate` | 111,794 | every Technical Gate decision with failures of the PoC execution and of the gate: two revisions at most, nothing after an ending, a report only on the current validated and accepted PoC, every resume returns? |
| `queue_recovery` | 133,731 | two callers, timeouts, late spawns, failed kills, crashes, confirmation: is a call settled only when its children are gone, and then for good? |
| `queue_live` | 197,642 | under a token and a time ceiling: is spending bounded and never blind, and does every call return? |
| `dispatch_recovery` | 1,325,245 | two processes, a retry, external requests, stalled and dead workers and racing recoveries: do the rows agree, is an unknown request never repeated, does each attempt end once? |
| `dispatch_cohort` | 199,039 | works of a local evaluation resumed or reopened together: are the retries that a resume counted there at the claim, is every step one of `WorkLifecycle`, where a published result is frozen? |
| `dispatch_cancel` | 96,310 | a cancel at any point, late answers, a crash: is a quiescent run closed, is every step one of `WorkLifecycle`, where a stop is final; does a repeated cancel reach quiescence, is the attempt of a dead process ended? |
| `sandbox_lifecycle` | 2,576,114 | two works, two slots, two processes, failing Docker calls, a crash, a cancel: is whatever exists journaled and the baseline kept until `crossed`; does a finished work leave no container, whatever the others do; is at most one more resource made after the latch? |
| `pipeline` | 113,062 | discovery, partial answers, contexts, stopping children, a chain and the pool over any number of turns: did a published analysis leave anything out, is an answer bought twice, is the queue bounded, does every turn return, is the analysis published in the end? |
| `sandbox_leak`, `sandbox_cancel`, `pipeline_backpressure` | violated | the findings of section 6 |

All questions are answered as they should be by the passing runs. Every property has a
mutant in `PROJECT.json`: a changed definition under which the run fails. The changed
definitions stand as "bug variants" beside the ones they change and are used nowhere else.

### Bounds

* Stages are all twelve; nothing of the table is bounded. `MaxRecovery` is 2
  where the code has 3 (2 is the smallest value at which a lineage can both be
  retried and be exhausted).
* `FailStages` and `FailKinds` choose where failures may happen: in `runner_recovery` the
  initial verification (the only one with environment codes), the PoC execution (the only
  stage that borrows an attempt id and restarts another stage) and the final verdict; in
  `runner_gate` the PoC execution and the Technical Gate itself.
  `MaxFailures` is 2 where combinations matter, and 12 in `runner_gate`, more than one resume
  can meet there: two attempts of the two failing stages in each of three passes through the gate.
* `MaxFaults`, `MaxUpgrades`, `MaxGrants` bound what the surroundings do. One crash is
  enough for every pair of transactions to be separated. In `runner_recovery` the constraint
  `FewEvents` allows, in one behaviour, two failures or events of the surroundings; or two
  failures of the PoC execution and an event; or a failure, a crash and a grant.
* `MaxCalls` bounds call ids. Two calls let a second one meet whatever the first left;
  four let two callers retry. `Reserve` lets a caller start only while ids are left for its
  retries, so that running out of ids is never mistaken for blocking: it is
  `MaxRetries + 1` in `queue_live`; in `queue_recovery`, which checks no
  liveness, it is 1 and only keeps the instance small.
* `MaxUse` is the size of an answer, `MaxTokens` a ceiling that one answer reaches.
* `WorkDispatch`: one work suffices for what two processes, two attempts and two requests
  can do to one row (`dispatch_recovery`); three works are needed for a cohort and a
  parallelism limit (`dispatch_cohort`, one process, no external requests). `MaxRows`
  bounds the requests of a work, `MaxCrashes` the crashes; in `dispatch_recovery` the
  constraint `FewAborts` takes no step from a state with a crash and two aborted entries.
  `Stalls` is off in `dispatch_cancel`, whose liveness would otherwise rest on how often a process may stall.
* `SandboxResources`: `MaxMade` 4 names an image and a container for each of two works,
  or the containers a recreation adds; two slots in each of two processes let both works
  reconcile, create and clean up at once, in one registry or in two. A work has one attempt
  (`MaxAttempts`): what a second one meets, the reconciliation of the other work meets too.
  `sandbox_cancel` needs one work and one slot only.
* `CandidatePipeline`: a file of one candidate, a file of two (so that a batch can be
  answered in part), one context and one chain. `SeedLimit` is 1 and `MaxPending` 2, the
  smallest limit the constructor accepts for a batch of two, where backpressure bites.
  `FewHyps` keeps the instance small: no step is taken from a state with the hypothesis of
  the third candidate, or with those of the second and of the context; invariants are still checked
  on those states, the two liveness properties on the behaviours that never meet one. `pipeline_backpressure` has no constraint. The depth limit is never reached.

`CHECK_DEADLOCK FALSE` in the queue, dispatch, sandbox and pipeline runs: with all ids
drawn, all attempts used, a run final or quiescent, or a call that nobody may settle,
the system really stops. In the runner's runs deadlock is checked.

### Fairness

* Runner: weak fairness of `Step`, the process' own steps. A handler returns because
  each of its calls has a timeout. Resume, crash, cancellation, upgrade and the
  operator are not fair.
* Queue: weak fairness of `Progress(t)` (the event loop runs ready tasks, deadlines
  pass, the waits for kill and drain are bounded) and strong fairness of `Enter(t)`,
  because `asyncio.Lock` wakes its waiters in FIFO order: a waiter whose turn keeps
  coming is served. The operating system (`OsSpawn`, `ChildExits`) is not fair: a
  spawn may never complete, a child may hang.
* Dispatch (`ProcessFairness`): weak fairness of a live process' recovery, drain and
  pool, of each task (a request is answered or times out), and of the expiry of a lease
  nobody renews. `OperatorReturns`: a command that ended is followed by another one, and
  a latched cancel is given again; the code restarts neither by itself. Nobody is
  obliged to give the first cancel.
* Pipeline (`TurnFairness`): weak fairness of a turn's steps and of `Resume`.
  `RetriesSucceed`: strong fairness of success, that a decision, an answer, a context, a pool
  batch and a child that are tried again and again succeed at last, and of
  running a child at all. It is an assumption about providers and targets, not about the
  code; without it no property could say that an analysis ends.

## 4. What is proved

TLAPS proves every safety invariant and action property that the passing runs check, and
the refinement of `WorkLifecycle`, for every value of the constants that satisfies the
named assumptions. So they hold for any number of callers, calls, works, processes,
candidates, failures, crashes and upgrades. The assumptions are:

* `MaxRecoveryAssumption`, `RunnerAssumption`: types, and a non-zero recovery limit.
* `QueueAssumption`: types, at most two retries, and a token ceiling that is positive or
  absent (`TokenLimit`, `src/sastsimi/config/user_config.py:22`).
* `DispatchAssumption`: types, finitely many works, at least one slot and one attempt.
* `PipelineAssumption`: finitely many candidates and hypotheses, at most `SeedLimit` of them from a
  candidate, a chain has two parents, and the constructor's check that a batch fits
  into the pending limit (CANDIDATE_PENDING_LIMIT_INVALID).
* `BoundsAssumption` of the sandbox: types, finitely many works.

### The runner's table (`HypothesisRunner_proofs`, on `Checkpoints_proofs`)

`TypeCorrect`, `FrontierHolds`, `InputsStayCurrent`, `TerminalIsLast`. The three
safety properties are not inductive alone: a stage starts from a row computed one
transaction earlier, and a recovery rewrites the row the process is at.

    IInv == TableOK /\ ProcOK /\ LogOK /\ CountOK /\ Control

`TableOK` adds to the three properties that HOLD-skipped stages have no row; `Control`
says that at "start" the loop has passed all earlier stages and `ctx` carries the
outputs of the preceding row, that at "handler" the row is RUNNING, and at "decide"
and "stopped" it has failed. `Checkpoints_proofs` shows once for each way the table is
written (`RewriteLast`: the last row is rewritten; `Cut`: rows are dropped from a
stage on; `Restart`: and a seed is put there; `Begin`: a stage starts behind passed
ones; `Age`: a version moves on) that it keeps `TableInv`; each action is then one of
these ways.

### What the table remembers (`RunnerHistory_proofs`)

`AttemptsStayBounded`, `RevisionsStayBounded`, `RunningStaysFresh`,
`EnvironmentStaysCurrent`, `OutcomeIsTruthful`, `ReportIsClosed` and the action property
`PocStaysSettled`. They relate a row to earlier rows, to the log and to counters, and nearly
every action touches some of that. The proof therefore first reduces all actions to what
they do to one row and those before it (`TableStep`), to the log (`LogStep`) and to the
row about to be started (`CtxStep`), and proves each part of

    HInv == /\ IInv /\ RowsOK /\ CtxOK /\ EventsOK /\ RunningFresh /\ AttemptsOK
            /\ RevisionsOK /\ EnvOK /\ ChainOK /\ OutcomeTruthful /\ PocOK

from these shapes. `EventsOK`: every event is preceded by the start of its attempt, so a
fresh attempt id has none. `AttemptsOK`: a row about to run again is strictly below the
ceiling, and a call left open and unspawned keeps one attempt of the ceiling back, which its
reconciliation grants. `ChainOK`: the references from the execution
through verdict, gate and finding to the report. `PocOK`: while the loop runs, a settled
PoC is where the loop comes to, so nothing before it is restarted.

`AttemptsBounded` could not be proved of the model as it was first written: there a call
that a stage itself had recorded could be reconciled as unspawned, which granted an
attempt beyond the limit. The source refuses such a call; the variable `codex` now tells
the two apart (section 2).

### The Codex ledger (`CallQueue_proofs`)

`TypeCorrect`, `StoppedBeforeSettledHolds`, `OneChildHolds`, `NotSpawnedHolds`,
`RetryableHolds`, `SettledStaysFrozen`.

    QInv == TypeOK /\ DownOK /\ LedgerOK /\ \A t \in Tasks : CallerOK(t, task[t])

A slot (call, phase) is *hot* while its process runs, was only asked for, or is a late
spawn. `LedgerOK`: at most one call is in flight, hot slots belong to it, and there is
at most one. `CallerOK`: a caller inside a call holds the gate and that call; one that
is about to spawn or to settle has no hot slot. So two children can never run at once,
and what is settled is cold. `SettledFrozen` follows step by step from the same
invariant.

`NoBlindCallHolds`, `SpendStaysBounded`.

    SpendInv == QInv /\ RecordedOK /\ SafeOK /\ OrderOK /\ NoBlindCall /\ SpendOK

`RecordedOK`: a caller's call has its attempt row exactly when the caller is past the record
step; so a call that is SAFE has one (`SafeOK`). `OrderOK`: what is behind a reserved call is
settled, and by `SettledFrozen` it stays as the budget check saw it. `SpendOK`: while a call
is in flight without an attempt row the ceiling is not reached, so the one answer it
may still bring passes the ceiling by less than itself. `Tokens` is a fold
of the library over a set; `SetSums` proves what the argument needs of such sums (they
exist, are natural numbers, and change by the summand that changes). Since the library's
induction theorems cannot be used, each lemma there takes a smallest counterexample, which
exists because `<` is well founded on cardinalities.

### The production dispatch (`WorkDispatch_proofs`)

`RowsAgreeHolds`, `NoBlindRetryHolds`, `OneOutcomeHolds`, `ResumeFundedHolds`,
`QuiescentClosedHolds`, `LifecycleRefined`.

    DInv == /\ StoreInv /\ TaskInv /\ ProcInv /\ StartOK
            /\ started \in BOOLEAN /\ crashes \in 0..MaxCrashes

`StoreInv` is about the rows: a RUNNING work names its latest attempt and any other names
none, so "the revision I read" identifies an attempt; a request without a known
outcome is the last of its work and of its latest attempt; a journal entry whose
decision still holds is PREPARED; an attempt that ended did so through exactly one committed
entry. `TaskInv` says which request a task can still change: one its own attempt made.
So a task of a superseded attempt cannot touch the successor's. `ProcInv` says what a
process in the middle of a command has read, in particular that a canceller has an
observation for each target it no longer waits for. `LifecycleRefined` proves that each step is one
step of `WorkLifecycle` under `Phases`, `Unsettled`, `Latched` and `Final`, or a stutter.

### The candidate pipeline (`CandidatePipeline_proofs`)

`TerminalClosedHolds`, `TurnSettledHolds`, `AskedOnceHolds`, `QueueBoundedHolds`.

    PInv == /\ Typed /\ TurnOK /\ SettleOK /\ ProgressOK /\ AskOK /\ RoomOK
            /\ ChainOK /\ OffersOK /\ PoolOK /\ CompleteOK

What a published analysis must not leave out is gathered while the turn passes it:
`ProgressOK` for decisions, answers, markers and contexts; `OffersOK` for children that closed
hypotheses offer, where only those being registered may be missing; `PoolOK` for the pairs of
the pool that the turn planned, as long as it is the present one. `CompleteOK` collects
them where the turn certifies. The actions that end a turn leave the parts about
the turn empty; the others carry it on; the proof is grouped accordingly.

### The sandbox (`SandboxResources_proofs`)

`TrackedHolds`, `FinalizedCleanHolds`, `BaselineKeptHolds`, `CancelBoundedHolds`, for any number
of works, slots and processes.

    SInv == Basic /\ (crossed \/ Sound)
    Basic == TypeOK /\ LiveOK /\ FenceOK /\ NamedOK /\ ImagesOK /\ OwnOK /\ WorkOK
    Sound == AloneOK /\ RegistryOK /\ KnowsOK /\ ClosedOK

`Basic` holds whatever the slots and processes do to each other. Its heart is ownership: an
attempt makes only resources of its own name (`OwnOK`), so nobody else's create can
bring back what it has removed, and at each place in its handler a work knows which of its
containers may still exist (`WorkOK`); `FinalizedClean` follows for Docker without regard to the
journal. `NamedOK` with the fence gives the bound of `CancelBounded`: a work that was admitted
before the latch holds the fence, so there is one at most.

`Sound` is about the journal. `RegistryOK`: what exists in Docker has an entry, a registered
image exists, and a published recipe is of such an image. `KnowsOK`: a creation under way has
its intent, and what a reconciliation has its hands on is not being made. The second is what
several slots take away: `Inspect` establishes it unless it sets `crossed`. `AloneOK`: one
process at most is up and its registry is the journal. Once a reconciliation has crossed a
creation, the formulas do fail: `sandbox_leak` shows it for `Tracked`, and
`BaselineKept` breaks by the same race when the intent is an image's. So `crossed` is not an
assumption on the installation but the step from which the journal cannot be trusted.

## 5. What is only model-checked

* Liveness (`ResumeReturns`, `CallReturns`, `OrphanCleared`, `CancelSettles`,
  `TurnReturns`, `CompletesUnlessFull`): the prover has no fairness or ENABLED.
* The findings (`NoContainerLost`, `CancelClosed`, `Completes`), which are counterexamples.

## 6. Findings

* `NoContainerLost` (`sandbox_leak`). `cleanup.py:71` says that the registry durably tracks
  owned resources and pre-create intents. `reconcile_pending`, which every dynamic work runs
  first, does not take the creation fence: between another work's reservation and the
  end of its Docker create it sees an intent without a container and deletes it.
  The registration of the new container then raises, outside the error handling of the
  creation, and the container is named nowhere.
* `CancelClosed` (`sandbox_cancel`). `cleanup.py:145` says that once a creation is admitted,
  "cancellation waits on the fence while the exact intent becomes either a registered resource
  or a reconciled absence." The admission commits at `cleanup.py:148`; the intent reaches the
  journal later (`cleanup.py:250`, `383`). A cancel in another process that falls between the
  two finds an empty inventory: `validate_inventory` reads the journal without the fence
  (`cleanup.py:176`), and only the preparation of a SANDBOX target waits for it, which
  never arises. The container is made after the drain has passed; if its worker then dies,
  no later reconciliation looks for it, because a cancelled run begins no work.
  `CancelBounded` says what remains true: it is one resource at most, the one admitted before.
* `Completes` (`pipeline_backpressure`).
  `docs/decisions/2026-10-01-streaming-pipeline-optimization-design.md:43` says that
  production stops at the pending limit and the queue is drained, without deadlock. The check
  (`application.py:7925`) counts the worst case of the whole batch and returns before any
  child has run. A turn that pauses or dies between the answers of a batch leaves children
  waiting; at a limit near the accepted minimum (64) every later turn stops at the check.
  `CompletesUnlessFull` (run `pipeline`) shows that in that instance, once what is retried
  succeeds, only this and a refused chaining response keep an analysis from being published.

Documents and code also differ, without a run of their own, in the following.

* `docs/architecture/runtime-and-recovery.md:161` says that a PoC candidate and its execution
  belong to the same attempt. After a RETRY_STAGE recovery of the execution alone they do
  not: the candidate's attempt id is handed over only when the execution has no row (`runner.py:331`).
* `runner.py:931` says that a completed PoC of an older version gets a new stage run. It
  borrows the candidate's attempt id again, and its start event collides with the first run's.
* A promoted PoC whose evidence cannot be read should store a block; when it was promoted from a
  recorded failure of the same attempt, the new failure event collides with the old one and the
  resume raises (`runner.py:504`).
* A pool child can be left out of a published analysis. If the process dies between the
  registrations of two children of one saved pool batch (`application.py:8773`), the next turn
  runs the registered one; a primitive that it admits changes the fingerprint of the pool, the
  turn continues with the new pool, and the sibling is never registered.
  `docs/architecture/pipeline.md:67` says that such a child passes the same full verification,
  and `application.py:9763` that the queue is rebuilt from durable evidence. `TerminalClosed`
  therefore speaks of the present pool only.
* `runtime-and-recovery.md:163` describes BLOCKED as retryable and FAILED as final for a
  stage, while RECOVERY_EXHAUSTED is BLOCKED and not retryable, and two FAILED codes are
  replayed on resume. Line 164 (a later checkpoint is not reused when an earlier result
  changed) is `InputsCurrent`, which holds.

## 7. Behaviour worth knowing

* A crash while a child row is SPAWNING, a spawn that failed, or an attempt recorded
  without any child row, can neither be reconciled nor confirmed: the analysis stays
  blocked. `docs/troubleshooting.md` (lines 49-51) accepts this; no liveness property
  about analyses is stated.
* A PoC execution that failed with an unconfirmed cleanup stays closed even after the
  operator's confirmation (`PocClosed` comes before the replay).
* Late spawns refuse further children of the whole process. Within one analysis the
  unresolved call refuses them already; the refusal inside `Intent` bites only with two
  analyses in one process.

Candidate pipeline:

* Chain children are registered without a backpressure check, so the queue can exceed the
  limit by them; `QueueBounded` speaks of proposed hypotheses only.
* An invalid chaining response blocks the root for good if the root was started more than
  once, and every resume counts as a start (`application.py:5158`).

Production dispatch:

* A recovery by a second process blocks a work whose live worker has a request in
  flight. A work that moves while it is being blocked fails that whole recovery.
* BLOCKED work with an unknown request can neither be resumed nor be cancelled to
  quiescence, and an UNKNOWN observation is never replaced (`Unclosable`).
* PENDING or READY work left by a crash cannot be resumed; a worker pool polls on the
  orphan of another process until some command recovers it.
* A request can still be dispatched after the latch is set, usage of a late answer is
  committed after the run is final, and a worker that lost its revision between reservation and
  authorization may leave the reservation.
* The attempt compared in `finish` is defence in depth: the state version already tells
  the revisions apart.

* A handler that hands off after its run was finalized may still register work there; nothing
  ever begins it.

Sandbox:

* A crash after registration, or a health check that raises, leaves a registered container
  that is not marked for reconciliation; no later work removes it.
* `reconcile_pending` can also remove a container another work has just created, even after
  that work has registered it (`cleanup.py:527`); the loser of that race raises an uncaught
  `KeyError`.
* RUN_SANDBOX is never marked dispatched, so a cancellation has no sandbox target and
  every entry that is not a preserved image makes its inventory incomplete.
* A second process on the same run writes its whole registry over the file (`cleanup.py:888`)
  and erases what the first has added.

## 8. Abstractions and what is not modelled

* Only the direct children of a Codex call; their descendants, the Windows job
  handling and the evidence document of a confirmation are left out.
* One analysis; its semaphore is subsumed by the gate. Claude, Cursor and API providers use
  the same queue without the ledger and are not modelled.
* Codex reports no cost: the cost ceiling and the unknown-cost check are left out. An
  attempt takes one unit of elapsed time.
* `_reset_incomplete_poc_attempt`, which only a runner without a recovery coordinator
  calls.
* Pipeline: UNDECIDED candidates are kept like INCLUDE; every pair of admitted primitives is
  a pool batch of its own; the contexts are a fixed set and get no second look; COMPLETE and
  PARTIAL coverage are not told apart; error codes of the root are CHAINING or another one; its
  attempt number is capped at 2. Left out: the recertification of a root that succeeded on
  changed inputs, invalid chaining evidence, pipeline version 1 with its parallel
  scheduling, and the surface enrichment rounds that start from a finished run.
* Dispatch: dependencies between works, record metadata, tokens, cost and elapsed time, which
  bound the same reservations, and the content of results. Of a journal entry that is no longer
  PREPARED only its outcome is kept.
* Sandbox: the agent's turns, network policy, evidence; recipes are images, one baseline. A
  create or build completes, if at all, with its call or with the crash of its process; one that
  Docker completes later, after the intent of its failed client was reconciled as absent, is
  left out, and would break `Tracked`.
* Contents: prompts, parsing, evidence, hashing, paging, grouping, dashboards.
* Container builds, static analysis, policies, setup and command line: input and output
  around external tools.
* The modules map a small share of the repository's lines: most of the rest is validation of
  documents, versioned evidence proofs, projections and adapters, which keep no state a
  model checker could reach anything new in.

`PROJECT.json` gives the reason for each part under "components".

## 9. Plan

Done, in this order: `Checkpoints`, `HypothesisRunner`, `CallQueue` with their first proofs,
because reuse after failure and the fate of paid calls are what the program's documentation
promises first; then `WorkDispatch` with `WorkLifecycle`, `SandboxResources`,
`CandidatePipeline`; then the proofs of section 4.

Next:

1. An abstract specification of the checkpoint table (what a resume promises its caller)
   and one of the Codex ledger, and the proofs that the detailed modules implement them.
2. For the sandbox, a `reconcile_pending` that takes the creation fence, and the proof that
   `Tracked` then holds without `crossed` in one process.
3. Several runners composed with `CallQueue`, as pipeline version 1 schedules them; two
   analyses in one process.
