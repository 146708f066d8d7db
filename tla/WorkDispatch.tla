--------------------------- MODULE WorkDispatch ---------------------------
(***************************************************************************)
(* The production runtime of one analysis run: the work rows, attempts,    *)
(* leases, external dispatches, budget reservations and transition journal *)
(* in SQLite, and the processes that act on them.  A process recovers the  *)
(* store, then runs or resumes the worker pool, or drains a cancellation;  *)
(* every one of its tasks executes one attempt.                            *)
(*                                                                         *)
(* A step is one database transaction, or a run of code without one.  A    *)
(* state_version is not kept: a work row that is RUNNING with attempt n is *)
(* one revision, so "current revision" reads Current(w, n).                *)
(***************************************************************************)
EXTENDS Integers, FiniteSets

CONSTANTS
    Works,          \* work ids of the run
    Procs,          \* operating system processes that may act on the run
    MaxParallel,    \* ExecutionBudgetProfile.max_parallel_work
    MaxRetries,     \* ExecutionBudgetProfile.max_total_retries
    MaxAttempts,    \* WorkLimit.max_attempts
    MaxCalls,       \* WorkLimit.max_calls_per_work
    Local,          \* the run's purpose is LOCAL_EVALUATION
    Repairs,        \* LOCAL_MANUAL_REPAIR_ATTEMPTS (and _CALLS)
    Dynamic,        \* works of type DYNAMIC_REPRO
    First,          \* the workspace work, registered when the run starts
    MaxRows,        \* bound: external reservations per work
    MaxCrashes,     \* bound: crashes of processes
    Stalls,         \* a live process can stall past a lease or a decision
    Cancels,        \* the user may cancel the run
    Nobody

ASSUME DispatchAssumption ==
    /\ MaxParallel \in Nat \ {0} /\ MaxRetries \in Nat /\ MaxAttempts \in Nat \ {0}
    /\ MaxCalls \in Nat /\ Repairs \in Nat /\ MaxRows \in Nat /\ MaxCrashes \in Nat
    /\ Local \in BOOLEAN /\ Stalls \in BOOLEAN /\ Cancels \in BOOLEAN
    /\ IsFiniteSet(Works) /\ Dynamic \subseteq Works
    /\ First \in Works /\ Nobody \notin Procs
    /\ Procs \cap {"handler", "failure", "cancel"} = {}

VARIABLES
    run,        \* AnalysisRunState.status: RUNNING, or FINAL with a result
    control,    \* run_controls: no row, cancel latched, or quiescent
    work,       \* work_states: status, active attempt, waiting_for, stop_reason
    lease,      \* work_states.worker_id and lease_expires_at
    tries,      \* number of work_attempts rows of each work
    attempt,    \* work_attempts.status
    retries,    \* retry units committed to the ledger
    row,        \* budget_reservations and external_dispatches of each work
    journal,    \* transition_commits
    task,       \* the worker task of each attempt
    proc,       \* what each process is doing
    started,    \* the process that created the run entered the pool
    crashes

store == <<run, control, work, lease, tries, attempt, retries, row, journal>>
vars == <<run, control, work, lease, tries, attempt, retries, row, journal,
          task, proc, started, crashes>>

-----------------------------------------------------------------------------
Numbers  == 1..(MaxAttempts + (IF Local THEN Repairs ELSE 0))
Rows     == 1..MaxRows

Terminal == {"SUCCEEDED", "FAILED", "CANCELLED"}
Statuses == {"NONE", "PENDING", "READY", "RUNNING", "BLOCKED"} \cup Terminal
Targets  == {"SUCCEEDED", "FAILED", "BLOCKED"}

(* Who prepares a transition of an attempt: its handler, the recorder of a *)
(* failed handler, a recovering process; "cancel" commits in one step.     *)
Owners == {"handler", "failure", "cancel"} \cup Procs

(* The dispatch row: none, inserted by claim_external, retired before the  *)
(* dispatch, dispatched, returned, or reconciled by a cancellation.        *)
Stages == {"none", "claimed", "retired", "dispatched", "returned", "reconciled"}

Modes == {"down", "replay", "expiry", "block", "idle", "drain", "poll",
          "seed", "close", "closeCancelled", "cancel", "observe", "settled"}
Pcs == {"over", "claimed", "run", "reserved", "authorized", "prepared", "await",
        "returned", "commit", "handoff", "failing", "record"}

NoRow   == [att |-> 0, resv |-> "NONE", stage |-> "none", seen |-> "none"]
NoEntry == [state |-> "NONE", target |-> "BLOCKED", cause |-> "none", fresh |-> FALSE]
NoTask  == [proc |-> Nobody, pc |-> "over", row |-> 0]
Down    == [mode |-> "down", todo |-> {}, held |-> {}]

Causes == {"none", "WAITING_FOR_INPUT", "LEASE_EXPIRED", "RECOVERY_FAILED",
           "WORK_HANDLER_FAILED", "COMPLETED", "FAILED", "CANCELLATION_REQUESTED"}

Idle(status) == [status |-> status, active |-> 0, waiting |-> "none", stop |-> "none"]

TypeOK ==
    /\ run \in {"RUNNING", "FINAL"} /\ control \in {"none", "latched", "quiescent"}
    /\ work \in [Works -> [status : Statuses, active : Numbers \cup {0},
                           waiting : {"none", "INPUT", "RETRY"},
                           stop : Causes]]
    /\ lease \in [Works -> {"none", "held", "expired"}]
    /\ tries \in [Works -> Numbers \cup {0}]
    /\ attempt \in [Works -> [Numbers -> {"NONE", "RUNNING"} \cup Terminal]]
    /\ retries \in 0..MaxRetries
    /\ row \in [Works -> [Rows -> [att : Numbers \cup {0},
                                   resv : {"NONE", "RESERVED", "COMMITTED", "RELEASED"},
                                   stage : Stages,
                                   seen : {"none", "CLOSED", "UNKNOWN"}]]]
    /\ journal \in [Works -> [Numbers -> [Owners ->
                       [state : {"NONE", "PREPARED", "COMMITTED", "ABORTED"},
                        target : Targets \cup {"CANCELLED"},
                        cause : Causes, fresh : BOOLEAN]]]]
    /\ task \in [Works -> [Numbers -> [proc : Procs \cup {Nobody}, pc : Pcs,
                                       row : Rows \cup {0}]]]
    /\ \A p \in Procs : proc[p].mode \in Modes
    /\ started \in BOOLEAN /\ crashes \in 0..MaxCrashes

Init ==
    /\ run = "RUNNING" /\ control = "none"
    /\ work = [w \in Works |-> Idle("NONE")]
    /\ lease = [w \in Works |-> "none"]
    /\ tries = [w \in Works |-> 0]
    /\ attempt = [w \in Works |-> [n \in Numbers |-> "NONE"]]
    /\ retries = 0
    /\ row = [w \in Works |-> [k \in Rows |-> NoRow]]
    /\ journal = [w \in Works |-> [n \in Numbers |-> [o \in Owners |-> NoEntry]]]
    /\ task = [w \in Works |-> [n \in Numbers |-> NoTask]]
    /\ proc = [p \in Procs |-> Down]
    /\ started = FALSE /\ crashes = 0

-----------------------------------------------------------------------------
Latched == control # "none"

(* The exact revision a task, a decision or a journal entry was made for.  *)
(* Bug variant: any attempt of the work will do.                           *)
AnyAttempt(w, n) == work[w].status = "RUNNING"
Current(w, n) == work[w].status = "RUNNING" /\ work[w].active = n

Unresolved(w, k) == row[w][k].stage = "dispatched"

(* Bug variant: only what an earlier attempt left counts.                  *)
UncertainBefore(w) == \E k \in Rows : Unresolved(w, k) /\ row[w][k].att # work[w].active

(* lease_recovery.uncertain: any attempt of the work, not only the active. *)
Uncertain(w) == \E k \in Rows : Unresolved(w, k)

Prepared(w, n, o) == journal[w][n][o].state = "PREPARED"
SomePrepared == \E w \in Works : \E n \in Numbers : \E o \in Owners : Prepared(w, n, o)

Running == {w \in Works : work[w].status = "RUNNING"}

AttemptCeiling(w) == MaxAttempts + (IF Local /\ tries[w] > 0 THEN Repairs ELSE 0)
CallCeiling(w, n) == MaxCalls + (IF Local /\ n > 1 THEN Repairs ELSE 0)
UsedRows(w) == {k \in Rows : row[w][k].resv # "NONE"}
NextRow(w) == Cardinality(UsedRows(w)) + 1

Owned(p) == {x \in Works \X Numbers : task[x[1]][x[2]].proc = p}

Goto(w, n, pc) == task' = [task EXCEPT ![w][n].pc = pc]
Over(w, n) == task' = [task EXCEPT ![w][n] = NoTask]
Mode(p, mode, todo, held) ==
    proc' = [proc EXCEPT ![p] = [mode |-> mode, todo |-> todo, held |-> held]]

Known == {w \in Works : work[w].status # "NONE"}
AllTerminal == \A w \in Known : work[w].status \in Terminal

-----------------------------------------------------------------------------
(* The two phase commit of a result or of a block.                         *)

Prepare(w, n, o, target, cause) ==
    journal' = [journal EXCEPT ![w][n][o] =
        [state |-> "PREPARED", target |-> target, cause |-> cause, fresh |-> TRUE]]

(* Bug variant: a result nobody waits for is still stored.                 *)
CanFinishLate(w, n, o) == journal[w][n][o].fresh /\ ~Latched

(* TransitionService.check in finish, and the latch in its transaction B.  *)
CanFinish(w, n, o) == Current(w, n) /\ journal[w][n][o].fresh /\ ~Latched

(* lease_recovery.retire_undispatched: the reservations of this revision   *)
(* that no dispatch used.                                                  *)
Retired(w, n) ==
    [k \in Rows |->
        IF row[w][k].att = n /\ row[w][k].resv = "RESERVED"
                            /\ row[w][k].stage \in {"none", "claimed"}
        THEN [row[w][k] EXCEPT !.resv = "RELEASED",
                               !.stage = IF @ = "claimed" THEN "retired" ELSE @]
        ELSE row[w][k]]

(* Of an entry no longer PREPARED only the outcome matters: an abort means *)
(* that the revision is gone, the decision lapsed or the latch is set, and *)
(* none of these is ever undone.                                           *)
Closed(state, target) == [NoEntry EXCEPT !.state = state, !.target = target]

(* The attempt of a blocked work is over without a result of its own.      *)
AttemptStatus(target) == IF target = "BLOCKED" THEN "CANCELLED" ELSE target

(* Transaction B.  It never reads the state of the journal row.            *)
Publish(w, n, o) ==
    LET entry == journal[w][n][o]
        terminal == entry.target # "BLOCKED"
        recovery == o # "handler"
        known == ~Uncertain(w)
    IN /\ work' = [work EXCEPT ![w] =
             [status |-> entry.target, active |-> 0, stop |-> entry.cause,
              waiting |-> CASE terminal -> "none"
                            [] ~terminal /\ recovery /\ known -> "RETRY"
                            [] OTHER -> "INPUT"]]
       /\ attempt' = [attempt EXCEPT ![w][n] = AttemptStatus(entry.target)]
       /\ lease' = [lease EXCEPT ![w] = "none"]
       /\ row' = IF known /\ (terminal \/ recovery)
                 THEN [row EXCEPT ![w] = Retired(w, n)] ELSE row
       /\ journal' = [journal EXCEPT ![w][n][o] =
                        IF Prepared(w, n, o) THEN Closed("COMMITTED", entry.target) ELSE @]
       /\ UNCHANGED <<run, control, tries, retries>>

Abort(w, n, o) ==
    /\ journal' = [journal EXCEPT ![w][n][o] =
                     IF Prepared(w, n, o) THEN Closed("ABORTED", "BLOCKED") ELSE @]
    /\ UNCHANGED <<run, control, work, lease, tries, attempt, retries, row>>

(* Bug variant: an entry that met the latch is left as it is.              *)
FinishOrLeave(w, n, o) ==
    CASE CanFinish(w, n, o) -> Publish(w, n, o)
      [] ~CanFinish(w, n, o) /\ ~Latched -> Abort(w, n, o)
      [] OTHER -> UNCHANGED store

(* finish, and the abort of the entry when finish raises.                  *)
FinishOrAbort(w, n, o) ==
    IF CanFinish(w, n, o) THEN Publish(w, n, o) ELSE Abort(w, n, o)

-----------------------------------------------------------------------------
(* RecoveryService.recover, run by every process before anything else.     *)

Recover(p) ==
    /\ proc[p].mode \in {"down", "idle"}
    /\ Mode(p, "replay", {x \in Works \X Numbers \X Owners : Prepared(x[1], x[2], x[3])}, {})
    /\ UNCHANGED <<store, task, started, crashes>>

Replay(p) ==
    /\ proc[p].mode = "replay"
    /\ \E x \in proc[p].todo :
          /\ FinishOrAbort(x[1], x[2], x[3])
          /\ Mode(p, "replay", proc[p].todo \ {x}, {})
    /\ UNCHANGED <<task, started, crashes>>

(* The works to block: an expired lease, or an unresolved dispatch, even   *)
(* of a worker that is alive.  Bug variant: only the unresolved ones.      *)
OnlyUncertain(w) == Uncertain(w)
ToBlock(w) == Uncertain(w) \/ lease[w] = "expired"

ReadExpired(p) ==
    /\ proc[p].mode = "replay" /\ proc[p].todo = {}
    /\ Mode(p, "expiry", {x \in Works \X Numbers :
                             Current(x[1], x[2]) /\ ToBlock(x[1])}, {})
    /\ UNCHANGED <<store, task, started, crashes>>

SkipLatched(p) ==
    /\ proc[p].mode = "expiry" /\ Latched
    /\ \E x \in proc[p].todo : Mode(p, "expiry", proc[p].todo \ {x}, {})
    /\ UNCHANGED <<store, task, started, crashes>>

(* block_uncertain up to the PREPARED journal row.  A work that moved since*)
(* it was read denies the authorization and fails the whole recovery.      *)
PrepareBlock(p) ==
    /\ proc[p].mode = "expiry" /\ ~Latched
    /\ \E x \in proc[p].todo :
          IF Current(x[1], x[2])
          THEN /\ Prepare(x[1], x[2], p, "BLOCKED",
                          IF Uncertain(x[1]) THEN "RECOVERY_FAILED" ELSE "LEASE_EXPIRED")
               /\ Mode(p, "block", proc[p].todo \ {x}, {x})
          ELSE /\ proc' = [proc EXCEPT ![p] = Down]
               /\ UNCHANGED journal
    /\ UNCHANGED <<run, control, work, lease, tries, attempt, retries, row,
                   task, started, crashes>>

FinishBlock(p) ==
    /\ proc[p].mode = "block"
    /\ \E x \in proc[p].held :
          /\ FinishOrAbort(x[1], x[2], p)
          /\ IF CanFinish(x[1], x[2], p) \/ Latched
             THEN Mode(p, "expiry", proc[p].todo, {})
             ELSE proc' = [proc EXCEPT ![p] = Down]
    /\ UNCHANGED <<task, started, crashes>>

Recovered(p) ==
    /\ proc[p].mode = "expiry" /\ proc[p].todo = {}
    /\ Mode(p, "idle", {}, {})
    /\ UNCHANGED <<store, task, started, crashes>>

-----------------------------------------------------------------------------
(* Entering and leaving the worker pool.                                   *)

(* ProductionRunControl.run: the run and its first work are created.       *)
Run(p) ==
    /\ proc[p].mode = "idle" /\ ~started
    /\ started' = TRUE
    /\ work' = [work EXCEPT ![First] = Idle("READY")]
    /\ Mode(p, "drain", {}, {})
    /\ UNCHANGED <<run, control, lease, tries, attempt, retries, row, journal,
                   task, crashes>>

Blocked == {w \in Works : work[w].status = "BLOCKED"}
FailedDynamic == {w \in Dynamic : Local /\ work[w].status = "FAILED"}
Cohort ==
    CASE FailedDynamic # {} -> FailedDynamic
      [] FailedDynamic = {} /\ Local /\ Blocked \cap Dynamic # {} -> Blocked \cap Dynamic
      [] OTHER -> Blocked

ResolvableReasons == {<<"WAITING_FOR_INPUT", "INPUT">>, <<"LEASE_EXPIRED", "RETRY">>,
                      <<"WORK_HANDLER_FAILED", "RETRY">>}
Resolvable(w) ==
    \/ <<work[w].stop, work[w].waiting>> \in ResolvableReasons
    \/ /\ Local /\ w \in Dynamic
       /\ work[w].stop = "WORK_HANDLER_FAILED" /\ work[w].waiting = "INPUT"
    \/ work[w].status = "FAILED" /\ work[w].stop = "FAILED"

(* Bug variant: each work is checked against the retries that are left.    *)
ResumableEach ==
    /\ \A w \in Works : \A n \in Numbers : attempt[w][n] # "RUNNING"
    /\ ~SomePrepared
    /\ \A w \in Works : \A k \in Rows : row[w][k].stage \notin {"claimed", "dispatched"}
    /\ \A w \in Cohort : /\ retries + 1 <= MaxRetries
                         /\ tries[w] \in 1..(AttemptCeiling(w) - 1)
                         /\ Resolvable(w) /\ ~Uncertain(w)

(* resume_blocked: all checks and the READY revisions are one transaction. *)
Resumable ==
    /\ \A w \in Works : \A n \in Numbers : attempt[w][n] # "RUNNING"
    /\ ~SomePrepared
    /\ \A w \in Works : \A k \in Rows : row[w][k].stage \notin {"claimed", "dispatched"}
    /\ retries + Cardinality(Cohort) <= MaxRetries
    /\ \A w \in Cohort : /\ tries[w] \in 1..(AttemptCeiling(w) - 1)
                         /\ Resolvable(w) /\ ~Uncertain(w)

(* Bug variant: a run that still has open work.                            *)
CanResumeOpen == run = "RUNNING" /\ ~Latched /\ (Cohort # {} => Resumable)
CanResume ==
    /\ run = "RUNNING" /\ ~Latched
    /\ \A w \in Works : work[w].status \notin {"PENDING", "READY", "RUNNING"}
    /\ Cohort # {} => Resumable

Resume(p) ==
    /\ proc[p].mode = "idle" /\ started /\ CanResume
    /\ work' = [w \in Works |-> IF w \in Cohort THEN Idle("READY") ELSE work[w]]
    /\ Mode(p, "drain", {}, {})
    /\ UNCHANGED <<run, control, lease, tries, attempt, retries, row, journal,
                   task, started, crashes>>

(* A command that ends here, or whose next step is refused.                *)
Exit(p) ==
    /\ proc[p].mode = "idle"
    /\ proc' = [proc EXCEPT ![p] = Down]
    /\ UNCHANGED <<store, task, started, crashes>>

-----------------------------------------------------------------------------
(* WorkerPool.drain and the handler of one claimed attempt.                *)

(* A handler registers downstream work, then makes it ready: some before   *)
(* and most after they committed their own result.  Neither step reads the *)
(* status of the run.                                                      *)
HandlerRuns == \E w \in Works : \E n \in Numbers : task[w][n].pc \in {"run", "handoff"}

Register(w) ==
    /\ HandlerRuns /\ ~Latched /\ work[w].status = "NONE"
    /\ work' = [work EXCEPT ![w] = Idle("PENDING")]
    /\ UNCHANGED <<run, control, lease, tries, attempt, retries, row, journal,
                   task, proc, started, crashes>>

MakeReady(w) ==
    /\ HandlerRuns /\ ~Latched /\ work[w].status = "PENDING"
    /\ work' = [work EXCEPT ![w] = Idle("READY")]
    /\ UNCHANGED <<run, control, lease, tries, attempt, retries, row, journal,
                   task, proc, started, crashes>>

(* try_claim_ready with attempts.start; anything else returns no claim.    *)
RetryUnits(w) == IF tries[w] = 0 THEN 0 ELSE 1
Claimable(w) ==
    /\ ~Latched /\ run = "RUNNING"
    /\ work[w].status = "READY"
    /\ Cardinality(Running) < MaxParallel
    /\ tries[w] < AttemptCeiling(w)
    /\ retries + RetryUnits(w) <= MaxRetries
    /\ \A n \in Numbers : attempt[w][n] # "RUNNING"
    /\ ~Uncertain(w)

Claim(p, w) ==
    /\ proc[p].mode = "drain" /\ Claimable(w)
    /\ LET n == tries[w] + 1 IN
         /\ work' = [work EXCEPT ![w].status = "RUNNING", ![w].active = n]
         /\ tries' = [tries EXCEPT ![w] = n]
         /\ attempt' = [attempt EXCEPT ![w][n] = "RUNNING"]
         /\ retries' = retries + RetryUnits(w)
         /\ lease' = [lease EXCEPT ![w] = "held"]
         /\ task' = [task EXCEPT ![w][n] = [proc |-> p, pc |-> "claimed", row |-> 0]]
    /\ UNCHANGED <<run, control, row, journal, proc, started, crashes>>

(* LeaseHeartbeat.pulse; a renewal that succeeds leaves the lease held.    *)
PulseActive(w, n) == ~Latched /\ Current(w, n) /\ lease[w] = "held"

FirstPulse(w, n) ==
    /\ task[w][n].pc = "claimed"
    /\ IF PulseActive(w, n) THEN Goto(w, n, "run") ELSE Over(w, n)
    /\ UNCHANGED <<store, proc, started, crashes>>

(* A pulse that is not ACTIVE, or a drain that sees the latch, cancels the *)
(* handler at an await; nothing is recorded.                               *)
HandlerCancelled(w, n) ==
    /\ task[w][n].pc \in {"run", "await"} /\ ~PulseActive(w, n)
    /\ Over(w, n)
    /\ UNCHANGED <<store, proc, started, crashes>>

(* WorkflowRunner.reserve: the reservation does not check the revision.    *)
Reserve(w, n) ==
    /\ task[w][n].pc = "run" /\ NextRow(w) \in Rows
    /\ IF Cardinality({k \in Rows : row[w][k].resv \notin {"NONE", "RELEASED"}})
              < CallCeiling(w, n)
       THEN /\ row' = [row EXCEPT ![w][NextRow(w)] =
                         [NoRow EXCEPT !.att = n, !.resv = "RESERVED"]]
            /\ task' = [task EXCEPT ![w][n].pc = "reserved", ![w][n].row = NextRow(w)]
       ELSE Goto(w, n, "failing") /\ UNCHANGED row
    /\ UNCHANGED <<run, control, work, lease, tries, attempt, retries, journal,
                   proc, started, crashes>>

(* WorkflowRunner.authorize: a denial releases the unclaimed reservation.  *)
Authorize(w, n) ==
    /\ task[w][n].pc = "reserved"
    /\ IF Current(w, n)
       THEN Goto(w, n, "authorized") /\ UNCHANGED row
       ELSE /\ Goto(w, n, "failing")
            /\ row' = [row EXCEPT ![w][task[w][n].row].resv =
                         IF @ = "RESERVED" THEN "RELEASED" ELSE @]
    /\ UNCHANGED <<run, control, work, lease, tries, attempt, retries, journal,
                   proc, started, crashes>>

(* claim_external inserts the dispatch row.  It does not read the latch.   *)
ClaimExternal(w, n) ==
    LET k == task[w][n].row IN
    /\ task[w][n].pc = "authorized"
    /\ IF Current(w, n) /\ ~Uncertain(w) /\ row[w][k].resv = "RESERVED"
       THEN /\ row' = [row EXCEPT ![w][k].stage = "claimed"]
            /\ Goto(w, n, "prepared")
       ELSE Goto(w, n, "failing") /\ UNCHANGED row
    /\ UNCHANGED <<run, control, work, lease, tries, attempt, retries, journal,
                   proc, started, crashes>>

CanDispatch(w, n) ==
    LET k == task[w][n].row IN
    /\ Current(w, n) /\ ~Uncertain(w)
    /\ row[w][k].resv = "RESERVED" /\ row[w][k].stage = "claimed"

MarkDispatched(w, n) ==
    /\ task[w][n].pc = "prepared" /\ CanDispatch(w, n)
    /\ row' = [row EXCEPT ![w][task[w][n].row].stage = "dispatched"]
    /\ Goto(w, n, "await")
    /\ UNCHANGED <<run, control, work, lease, tries, attempt, retries, journal,
                   proc, started, crashes>>

(* mark_dispatched raises: not the active attempt, or an expired decision. *)
DispatchRefused(w, n) ==
    /\ task[w][n].pc = "prepared" /\ (Stalls \/ ~CanDispatch(w, n))
    /\ Goto(w, n, "failing")
    /\ UNCHANGED <<store, proc, started, crashes>>

(* mark_returned asks only for a dispatched row without a return.          *)
MarkReturned(w, n) ==
    /\ task[w][n].pc = "await"
    /\ row' = [row EXCEPT ![w][task[w][n].row].stage = "returned"]
    /\ Goto(w, n, "returned")
    /\ UNCHANGED <<run, control, work, lease, tries, attempt, retries, journal,
                   proc, started, crashes>>

(* The operation raises, or reports UNRESOLVED and the handler goes on.    *)
OperationUnknown(w, n) ==
    /\ task[w][n].pc = "await"
    /\ \E pc \in {"run", "failing"} : Goto(w, n, pc)
    /\ UNCHANGED <<store, proc, started, crashes>>

(* commit_usage; a concurrent ledger entry makes the sequence stale.       *)
Account(w, n) ==
    /\ task[w][n].pc = "returned"
    /\ \/ /\ row' = [row EXCEPT ![w][task[w][n].row].resv = "COMMITTED"]
          /\ Goto(w, n, "run")
       \/ Goto(w, n, "failing") /\ UNCHANGED row
    /\ UNCHANGED <<run, control, work, lease, tries, attempt, retries, journal,
                   proc, started, crashes>>

HandlerResults == {<<"SUCCEEDED", "COMPLETED">>, <<"FAILED", "FAILED">>,
                   <<"BLOCKED", "WAITING_FOR_INPUT">>}

(* complete or block: authorization and transaction A.                     *)
PrepareResult(w, n) ==
    /\ task[w][n].pc = "run" /\ Current(w, n)
    /\ \E r \in HandlerResults : Prepare(w, n, "handler", r[1], r[2])
    /\ Goto(w, n, "commit")
    /\ UNCHANGED <<run, control, work, lease, tries, attempt, retries, row,
                   proc, started, crashes>>

FinishResult(w, n) ==
    /\ task[w][n].pc = "commit"
    /\ FinishOrAbort(w, n, "handler")
    /\ IF ~CanFinish(w, n, "handler") THEN Goto(w, n, "failing")
       ELSE IF journal[w][n]["handler"].target = "BLOCKED" THEN Over(w, n)
       ELSE Goto(w, n, "handoff")
    /\ UNCHANGED <<proc, started, crashes>>

(* RoutedWorkHandler.execute returns, or raises: the revision is gone, so  *)
(* record_handler_failure is denied and suppressed.                        *)
HandedOff(w, n) ==
    /\ task[w][n].pc = "handoff"
    /\ Over(w, n)
    /\ UNCHANGED <<store, proc, started, crashes>>

(* The handler raises, finds its revision gone, or returns without result. *)
HandlerFails(w, n) ==
    /\ task[w][n].pc = "run"
    /\ Goto(w, n, "failing")
    /\ UNCHANGED <<store, proc, started, crashes>>

(* record_handler_failure: block with the recovery role; errors suppressed.*)
PrepareFailure(w, n) ==
    /\ task[w][n].pc = "failing"
    /\ IF Current(w, n)
       THEN Prepare(w, n, "failure", "BLOCKED", "WORK_HANDLER_FAILED") /\ Goto(w, n, "record")
       ELSE Over(w, n) /\ UNCHANGED journal
    /\ UNCHANGED <<run, control, work, lease, tries, attempt, retries, row,
                   proc, started, crashes>>

FinishFailure(w, n) ==
    /\ task[w][n].pc = "record"
    /\ FinishOrAbort(w, n, "failure")
    /\ Over(w, n)
    /\ UNCHANGED <<proc, started, crashes>>

(* No slot could be filled, then, in a later read, the idle outcome: wait  *)
(* while any process runs work; else open work ends the command and a run  *)
(* with none is aggregated and finalized.  A latch ends the drain at once. *)
Poll(p) ==
    /\ proc[p].mode = "drain" /\ Owned(p) = {}
    /\ \/ Latched /\ Mode(p, "closeCancelled", {}, {})
       \/ ~Latched /\ (\A w \in Works : ~Claimable(w)) /\ Mode(p, "poll", {}, {})
    /\ UNCHANGED <<store, task, started, crashes>>

KeepsPolling == Running # {}

IdleOutcome(p) ==
    /\ proc[p].mode = "poll"
    /\ proc' = [proc EXCEPT ![p] =
                  CASE KeepsPolling -> [Down EXCEPT !.mode = "drain"]
                    [] ~KeepsPolling /\ AllTerminal -> [Down EXCEPT !.mode = "close"]
                    [] OTHER -> Down]
    /\ UNCHANGED <<store, task, started, crashes>>

(* continue_run between the drain and the result: a run that holds nothing *)
(* but its finished workspace work is given its first works, one by one,   *)
(* and drained again; the latch raises out of the command.                 *)
Unseeded ==
    /\ Works # {First} /\ work[First].status = "SUCCEEDED"
    /\ \A w \in Works \ {First} : work[w].status = "NONE"

Seed(p) ==
    /\ proc[p].mode \in {"close", "closeCancelled"} /\ Unseeded
    /\ \E S \in SUBSET (Works \ {First}) : S # {} /\ Mode(p, "seed", S, {})
    /\ UNCHANGED <<store, task, started, crashes>>

(* ensure_enqueue: register, then make ready, what is not there already.   *)
SeedOne(p) ==
    /\ proc[p].mode = "seed"
    /\ \E w \in proc[p].todo :
          CASE Latched ->
                 proc' = [proc EXCEPT ![p] = Down] /\ UNCHANGED work
            [] ~Latched /\ work[w].status = "NONE" ->
                 work' = [work EXCEPT ![w] = Idle("PENDING")] /\ UNCHANGED proc
            [] ~Latched /\ work[w].status = "PENDING" ->
                 /\ work' = [work EXCEPT ![w] = Idle("READY")]
                 /\ Mode(p, "seed", proc[p].todo \ {w}, {})
            [] OTHER ->
                 Mode(p, "seed", proc[p].todo \ {w}, {}) /\ UNCHANGED work
    /\ UNCHANGED <<run, control, lease, tries, attempt, retries, row, journal,
                   task, started, crashes>>

Seeded(p) ==
    /\ proc[p].mode = "seed" /\ proc[p].todo = {}
    /\ Mode(p, "drain", {}, {})
    /\ UNCHANGED <<store, task, started, crashes>>

(* AnalysisFinalizationService.finalize; a refusal raises out of the run.  *)
CanFinalize(mode) ==
    /\ run = "RUNNING" /\ (Latched => mode = "closeCancelled")
    /\ \A w \in Works : ~Uncertain(w)
    /\ ~SomePrepared /\ AllTerminal

Finalize(p) ==
    /\ proc[p].mode \in {"close", "closeCancelled"} /\ ~Unseeded
    /\ run' = IF CanFinalize(proc[p].mode) THEN "FINAL" ELSE run
    /\ proc' = [proc EXCEPT ![p] = Down]
    /\ UNCHANGED <<control, work, lease, tries, attempt, retries, row, journal,
                   task, started, crashes>>

-----------------------------------------------------------------------------
(* CancellationService: latch, stop the exact targets, reconcile.          *)

RequestCancel(p) ==
    /\ Cancels /\ proc[p].mode = "idle" /\ started
    /\ control' = IF Latched THEN control ELSE "latched"
    /\ Mode(p, "cancel", {}, {})
    /\ UNCHANGED <<run, work, lease, tries, attempt, retries, row, journal,
                   task, started, crashes>>

(* A foreground interrupt cancels the tasks at their awaits, then latches. *)
Interrupt(p) ==
    /\ Cancels /\ proc[p].mode \in {"drain", "poll"}
    /\ \A x \in Owned(p) : task[x[1]][x[2]].pc \in {"run", "await"}
    /\ control' = IF Latched THEN control ELSE "latched"
    /\ task' = [w \in Works |-> [n \in Numbers |->
                  IF task[w][n].proc = p THEN NoTask ELSE task[w][n]]]
    /\ Mode(p, "cancel", {}, {})
    /\ UNCHANGED <<run, work, lease, tries, attempt, retries, row, journal,
                   started, crashes>>

(* cancellation_targets: every unresolved dispatch must belong to the      *)
(* active attempt of a RUNNING work, or no target is derived at all.       *)
TargetSet == {x \in Works \X Rows : Unresolved(x[1], x[2])}
TargetsInScope == \A x \in TargetSet : Current(x[1], row[x[1]][x[2]].att)

ReadTargets(p) ==
    /\ proc[p].mode = "cancel"
    /\ IF TargetsInScope
       THEN Mode(p, "observe", {x \in TargetSet : row[x[1]][x[2]].seen = "none"}, TargetSet)
       ELSE proc' = [proc EXCEPT ![p] = Down]
    /\ UNCHANGED <<store, task, started, crashes>>

(* Cancel one target and record what was seen; a target that moved, or a   *)
(* different observation already recorded, ends the drain with an error.   *)
Observe(p) ==
    /\ proc[p].mode = "observe"
    /\ \E x \in proc[p].todo, seen \in {"CLOSED", "UNKNOWN"} :
          LET r == row[x[1]][x[2]] IN
          IF TargetsInScope /\ x \in TargetSet /\ r.seen \in {"none", seen}
          THEN /\ row' = [row EXCEPT ![x[1]][x[2]].seen = seen]
               /\ Mode(p, "observe", proc[p].todo \ {x}, proc[p].held)
          ELSE /\ proc' = [proc EXCEPT ![p] = Down]
               /\ UNCHANGED row
    /\ UNCHANGED <<run, control, work, lease, tries, attempt, retries, journal,
                   task, started, crashes>>

Seen(x) == row[x[1]][x[2]].seen
UnknownWorks(targets) == {x[1] : x \in {y \in targets : Seen(y) = "UNKNOWN"}}

(* reconcile_cancellation with cancel_in_transaction for each open work.   *)
(* Bug variant: the targets are not derived again.                         *)
CanReconcileOld(targets) == ~SomePrepared
CanReconcile(targets) == TargetsInScope /\ TargetSet = targets /\ ~SomePrepared

Reconcile(p) ==
    LET targets == proc[p].held
        closing == {w \in Known : work[w].status \notin Terminal
                                   /\ w \notin UnknownWorks(targets)}
    IN
    /\ proc[p].mode = "observe" /\ proc[p].todo = {}
    /\ IF CanReconcile(targets)
       THEN /\ work' = [w \in Works |->
                  IF w \in closing
                  THEN [Idle("CANCELLED") EXCEPT !.stop = "CANCELLATION_REQUESTED"]
                  ELSE work[w]]
            /\ attempt' = [w \in Works |-> [n \in Numbers |->
                  IF w \in closing /\ work[w].active = n THEN "CANCELLED" ELSE attempt[w][n]]]
            /\ lease' = [w \in Works |-> IF w \in closing THEN "none" ELSE lease[w]]
            /\ journal' = [w \in Works |-> [n \in Numbers |->
                  IF w \in closing /\ work[w].active = n
                  THEN [journal[w][n] EXCEPT !["cancel"] = Closed("COMMITTED", "CANCELLED")]
                  ELSE journal[w][n]]]
            /\ row' = [w \in Works |-> [k \in Rows |->
                  IF <<w, k>> \in targets /\ row[w][k].seen = "CLOSED"
                  THEN [row[w][k] EXCEPT !.stage = "reconciled"] ELSE row[w][k]]]
            /\ IF UnknownWorks(targets) = {}
               THEN Mode(p, "settled", {}, {}) ELSE proc' = [proc EXCEPT ![p] = Down]
       ELSE /\ proc' = [proc EXCEPT ![p] = Down]
            /\ UNCHANGED <<work, attempt, lease, journal, row>>
    /\ UNCHANGED <<run, control, tries, retries, task, started, crashes>>

(* mark_quiescent re-reads everything the run could still be doing.  Bug   *)
(* variant: not what was observed.                                         *)
CanQuiesceUnseen ==
    /\ AllTerminal
    /\ \A w \in Works : /\ lease[w] = "none" /\ ~Uncertain(w)
                        /\ \A n \in Numbers : attempt[w][n] # "RUNNING"
    /\ ~SomePrepared
CanQuiesce ==
    /\ AllTerminal
    /\ \A w \in Works : /\ lease[w] = "none" /\ ~Uncertain(w)
                        /\ \A n \in Numbers : attempt[w][n] # "RUNNING"
                        /\ \A k \in Rows :
                              /\ row[w][k].seen # "UNKNOWN"
                              /\ row[w][k].stage = "reconciled" => row[w][k].seen = "CLOSED"
    /\ ~SomePrepared

MarkQuiescent(p) ==
    /\ proc[p].mode = "settled"
    /\ control' = IF CanQuiesce THEN "quiescent" ELSE control
    /\ proc' = [proc EXCEPT ![p] = Down]
    /\ UNCHANGED <<run, work, lease, tries, attempt, retries, row, journal,
                   task, started, crashes>>

-----------------------------------------------------------------------------
(* The environment: time and crashes.                                      *)

(* A lease runs out when nothing renews it.                                *)
LeaseExpires(w) ==
    /\ lease[w] = "held" /\ (Stalls \/ task[w][work[w].active].pc = "over")
    /\ lease' = [lease EXCEPT ![w] = "expired"]
    /\ UNCHANGED <<run, control, work, tries, attempt, retries, row, journal,
                   task, proc, started, crashes>>

(* A decision is valid for a minute: it lapses under a stalled or a dead   *)
(* owner of the entry.                                                     *)
OwnerGone(w, n, o) ==
    CASE o \in Procs -> proc[o].mode # "block"
      [] o \notin Procs -> task[w][n].pc = "over"

DecisionExpires(w, n, o) ==
    /\ Prepared(w, n, o) /\ journal[w][n][o].fresh
    /\ Stalls \/ OwnerGone(w, n, o)
    /\ journal' = [journal EXCEPT ![w][n][o].fresh = FALSE]
    /\ UNCHANGED <<run, control, work, lease, tries, attempt, retries, row,
                   task, proc, started, crashes>>

Crash(p) ==
    /\ proc[p].mode # "down" /\ crashes < MaxCrashes
    /\ crashes' = crashes + 1
    /\ proc' = [proc EXCEPT ![p] = Down]
    /\ task' = [w \in Works |-> [n \in Numbers |->
                  IF task[w][n].proc = p THEN NoTask ELSE task[w][n]]]
    /\ UNCHANGED <<store, started>>

-----------------------------------------------------------------------------
(* The steps of the code of one process.                                   *)
RecoverySteps(p) == Replay(p) \/ ReadExpired(p) \/ SkipLatched(p) \/ PrepareBlock(p)
                       \/ FinishBlock(p) \/ Recovered(p)
CancelSteps(p) == ReadTargets(p) \/ Observe(p) \/ Reconcile(p) \/ MarkQuiescent(p)
PoolSteps(p) == (\E w \in Works : Claim(p, w)) \/ Poll(p) \/ IdleOutcome(p)
                    \/ Seed(p) \/ SeedOne(p) \/ Seeded(p) \/ Finalize(p)
TaskSteps(w, n) ==
    \/ FirstPulse(w, n) \/ HandlerCancelled(w, n) \/ Reserve(w, n) \/ Authorize(w, n)
    \/ ClaimExternal(w, n) \/ MarkDispatched(w, n) \/ DispatchRefused(w, n)
    \/ MarkReturned(w, n) \/ OperationUnknown(w, n) \/ Account(w, n)
    \/ PrepareResult(w, n) \/ FinishResult(w, n) \/ HandedOff(w, n) \/ HandlerFails(w, n)
    \/ PrepareFailure(w, n) \/ FinishFailure(w, n)
(* The commands a user gives.                                              *)
Commands(p) == Recover(p) \/ Run(p) \/ Resume(p) \/ Exit(p) \/ RequestCancel(p) \/ Interrupt(p)

Next ==
    \/ \E p \in Procs : Commands(p) \/ RecoverySteps(p) \/ CancelSteps(p) \/ PoolSteps(p)
                        \/ Crash(p)
    \/ \E w \in Works : Register(w) \/ MakeReady(w) \/ LeaseExpires(w)
    \/ \E w \in Works : \E n \in Numbers : TaskSteps(w, n)
    \/ \E w \in Works : \E n \in Numbers : \E o \in Owners : DecisionExpires(w, n, o)

Spec == Init /\ [][Next]_vars

(* A live process takes its next step, a running task and an answer (or a  *)
(* timeout) of a provider come, and a lease that nobody renews runs out.   *)
ProcessFairness ==
    /\ \A p \in Procs : WF_vars(RecoverySteps(p)) /\ WF_vars(CancelSteps(p))
                         /\ WF_vars(PoolSteps(p))
    /\ \A w \in Works : WF_vars(LeaseExpires(w))
    /\ \A w \in Works : \A n \in Numbers : WF_vars(TaskSteps(w, n))

(* The operator starts a command again after one ended or died, and gives  *)
(* a cancel again once one is latched: nothing else restarts them.  Nobody *)
(* is obliged to give the first cancel.                                    *)
OperatorReturns ==
    \A p \in Procs : WF_vars(Recover(p)) /\ SF_vars(Latched /\ RequestCancel(p))

FairSpec == Spec /\ ProcessFairness /\ OperatorReturns

-----------------------------------------------------------------------------
(* Properties.                                                             *)

(* The rows have their types and agree: a work row is RUNNING exactly when it names an attempt, *)
(* holds a lease and that attempt, the latest, is the only RUNNING one.    *)
RowsAgree ==
    /\ TypeOK
    /\ \A w \in Works :
           /\ work[w].status = "RUNNING" <=> work[w].active # 0
           /\ work[w].status = "RUNNING" <=> lease[w] # "none"
           /\ work[w].active \in {0, tries[w]}
           /\ \A n \in Numbers : attempt[w][n] = "RUNNING" <=> (n = work[w].active)
           /\ \A n \in Numbers : attempt[w][n] = "NONE" <=> n > tries[w]

(* An external request whose outcome is unknown is never sent again: it    *)
(* belongs to the latest attempt of its work and is the only one, so no    *)
(* attempt starts, no second dispatch is made, and neither is its budget   *)
(* released nor usage committed for it, until it is settled.               *)
NoBlindRetry ==
    \A w \in Works : \A k \in Rows : row[w][k].stage = "dispatched" =>
        /\ row[w][k].att = tries[w]
        /\ \A j \in Rows : row[w][j].stage = "dispatched" => j = k
        /\ work[w].status # "READY" /\ row[w][k].resv = "RESERVED"

(* Each attempt ends once: at most one journal entry of it is COMMITTED,   *)
(* none while it runs, and the attempt row carries that entry's outcome.   *)
Ended(target) == IF target = "BLOCKED" THEN "CANCELLED" ELSE target
OneOutcome ==
    \A w \in Works : \A n \in Numbers :
        LET done == {o \in Owners : journal[w][n][o].state = "COMMITTED"} IN
        IF attempt[w][n] \in {"NONE", "RUNNING"} THEN done = {}
        ELSE \E o \in done : done = {o} /\ attempt[w][n] = Ended(journal[w][n][o].target)

(* A resumed cohort can be run: every READY work with a history still has  *)
(* an attempt under its ceiling, and the retry units for all of them are   *)
(* left, whatever else was claimed since resume_blocked counted them.      *)
Retrying == {w \in Works : work[w].status = "READY" /\ tries[w] > 0}
ResumeFunded ==
    /\ retries + Cardinality(Retrying) <= MaxRetries
    /\ \A w \in Retrying : tries[w] < AttemptCeiling(w)

(* A quiescent run is closed and stays so, whatever late workers do: every *)
(* work terminal, no lease, no PREPARED entry, no request without outcome, *)
(* and none whose cancellation was ever observed UNKNOWN.                  *)
QuiescentClosed ==
    control = "quiescent" =>
        /\ AllTerminal /\ ~SomePrepared
        /\ \A w \in Works : /\ lease[w] = "none"
                            /\ \A k \in Rows : row[w][k].stage # "dispatched"
                                              /\ row[w][k].seen # "UNKNOWN"

(* The runtime implements the lifecycle its callers rely on: every step of *)
(* every process is a step of WorkLifecycle or leaves that view unchanged. *)
PhaseOf(status) ==
    CASE status = "NONE" -> "new"
      [] status \in {"PENDING", "READY"} -> "open"
      [] status = "RUNNING" -> "busy"
      [] status = "BLOCKED" -> "waiting"
      [] status = "SUCCEEDED" -> "done"
      [] status = "FAILED" -> "failed"
      [] status = "CANCELLED" -> "cancelled"

Phases == [w \in Works |-> PhaseOf(work[w].status)]
Unsettled == [w \in Works |-> Uncertain(w)]
Final == run = "FINAL"

Lifecycle == INSTANCE WorkLifecycle WITH
    Capacity <- MaxParallel,
    Reopenable <- IF Local THEN Dynamic ELSE {},
    phase <- Phases, pending <- Unsettled, stopped <- Latched, sealed <- Final

ImplementsLifecycle == Lifecycle!Spec

(* Liveness, under FairSpec.                                               *)

Unclosable ==
    \/ ~TargetsInScope
    \/ \E w \in Works : \E k \in Rows : row[w][k].seen = "UNKNOWN"

(* An attempt nobody executes any more is ended: by the next recovery, or, *)
(* once a cancel is latched, by the reconciliation of that cancel.         *)
OrphanCleared ==
    \A w \in Works : \A n \in Numbers :
        (Current(w, n) /\ task[w][n].pc = "over") ~> (~Current(w, n) \/ Unclosable)

(* A latched cancel reaches quiescence, except where an effect is lost for *)
(* good: an observation UNKNOWN, or a dispatch without a known outcome of  *)
(* a work that a recovery blocked or a handler finished before.            *)
CancelSettles == Latched ~> (control = "quiescent" \/ Unclosable)

=============================================================================
