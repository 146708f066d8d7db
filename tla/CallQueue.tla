---------------------------- MODULE CallQueue ----------------------------
(***************************************************************************)
(* The Codex call ledger of one analysis: RunLimitedClient.call with its   *)
(* budget gate and retries, the durable tables simple_codex_calls,         *)
(* simple_codex_child_spawns and simple_llm_attempts, the three children   *)
(* CodexCliProcessRunner runs per call, and what a crash of the analysis   *)
(* process leaves behind for the next one.                                 *)
(*                                                                         *)
(* Tasks are the asyncio tasks of the one process that holds the run lease *)
(* (`up`).  Its memory (tasks, gate, late spawns) is lost in a crash; the  *)
(* ledger and the operating system's processes (`os`) are not.             *)
(***************************************************************************)
EXTENDS Integers, FiniteSets, FiniteSetsExt

CONSTANTS
    Tasks,          \* concurrent callers inside the analysis process
    MaxCalls,       \* bound: call ids (uuid4) the model can draw
    Reserve,        \* bound: call ids set aside for a caller that starts
    MaxRetries,     \* RunLimitedClient._max_retries, at most 2
    MaxTokens,      \* token ceiling of the run, or Unlimited
    MaxElapsed,     \* elapsed ceiling in attempts' time units, or Unlimited
    MaxUse,         \* bound: tokens one answer reports
    Unlimited, Nobody

ASSUME QueueAssumption ==
    /\ MaxCalls \in Nat /\ Reserve \in Nat /\ MaxRetries \in 0..2 /\ MaxUse \in Nat
    /\ MaxTokens \in (Nat \ {0}) \cup {Unlimited} /\ Unlimited \notin Nat
    /\ MaxElapsed \in Nat \cup {Unlimited}
    /\ Nobody \notin Tasks

VARIABLES
    call,       \* simple_codex_calls.status
    attempt,    \* simple_llm_attempts, keyed by the call id
    child,      \* simple_codex_child_spawns.status, per call and phase
    os,         \* the child process of each call and phase: running or gone
    up,         \* a process holds the analysis run lease
    gate,       \* holder of the analysis budget gate
    late,       \* spawns a cancelled waiter gave up on: _LATE_SPAWN_PENDING
    task        \* what each caller is doing

ledger == <<call, attempt, child>>
vars == <<call, attempt, child, os, up, gate, late, task>>

-----------------------------------------------------------------------------
Calls == 1..MaxCalls
VERSION == 1
LOGIN == 2
EXEC == 3
Phases == {VERSION, LOGIN, EXEC}

CallStatus  == {"NONE", "IN_FLIGHT", "SAFE", "CONFIRMED"}
ChildStatus == {"NONE", "SPAWNING", "CAPTURED", "EXITED"}
OsStatus    == {"NONE", "RUNNING", "GONE"}

(* What the Codex client can answer when the model call failed, by how the *)
(* queue treats it.                                                        *)
RetryableCodes == {"RATE_LIMITED", "TIMED_OUT", "FAILED", "INVALID_OUTPUT"}
TerminalCodes  == {"AUTH_REQUIRED", "MODEL_UNAVAILABLE"}
(* Outcomes after which a child may still run: the runner could not confirm*)
(* the cleanup, the inner call raised or timed out, the task was cancelled.*)
Unsettled == {"CODEX_PROCESS_CLEANUP_UNCONFIRMED", "NOT_RETURNED", "CANCELLED"}
Outcomes  == {"SUCCEEDED"} \cup RetryableCodes \cup TerminalCodes \cup Unsettled

(* Attempts without usage that did not reach a model.                      *)
NoModelResponse == {"AUTH_REQUIRED", "RATE_LIMITED"}
AttemptStatus == Outcomes \cup {"NONE", "CODEX_NOT_SPAWNED", "CODEX_USAGE_UNAVAILABLE"}

BudgetCodes == {"LLM_TOKEN_BUDGET_EXHAUSTED", "LLM_ELAPSED_BUDGET_EXHAUSTED",
                "LLM_TOKEN_USAGE_UNAVAILABLE"}
InFlightCode == "CODEX_CALL_IN_FLIGHT_UNRESOLVED"
ReturnCodes == Outcomes \cup BudgetCodes \cup {InFlightCode, "NONE"}

(* idle: no call; queue: waiting for the gate; ready: about to spawn the   *)
(* next child; spawn: awaiting the spawn; child: awaiting its exit; kill:  *)
(* terminating the tree; drain: cancelled during the spawn; settle: the    *)
(* inner call ended; recorded: its attempt row is durable; backoff.        *)
Pcs == {"idle", "queue", "ready", "spawn", "child", "kill", "drain",
        "settle", "recorded", "backoff"}

NoTask == [pc |-> "idle", call |-> 0, phase |-> VERSION, tries |-> 0,
           expired |-> FALSE, out |-> "FAILED", last |-> "TIMED_OUT",
           code |-> "NONE", retryable |-> FALSE]
NoAttempt == [status |-> "NONE", tokens |-> 0]

TaskType == [pc : Pcs, call : 0..MaxCalls, phase : Phases,
             tries : 0..(MaxRetries + 1), expired : BOOLEAN, out : Outcomes,
             last : Outcomes, code : ReturnCodes, retryable : BOOLEAN]

Init ==
    /\ call = [c \in Calls |-> "NONE"]
    /\ attempt = [c \in Calls |-> NoAttempt]
    /\ child = [c \in Calls |-> [p \in Phases |-> "NONE"]]
    /\ os = [c \in Calls |-> [p \in Phases |-> "NONE"]]
    /\ up = FALSE
    /\ gate = Nobody
    /\ late = {}
    /\ task = [t \in Tasks |-> NoTask]

-----------------------------------------------------------------------------
(* The ledger as the code reads it.                                        *)

InFlight == {c \in Calls : call[c] = "IN_FLIGHT"}
Recorded(c) == attempt[c].status # "NONE"
HasChildRow(c) == \E p \in Phases : child[c][p] # "NONE"

Tokens == MapThenSumSet(LAMBDA c : attempt[c].tokens, Calls)

(* Every attempt a caller recorded took one unit; the two rows that        *)
(* recovery inserts took none.                                             *)
Synthetic == {"NONE", "CODEX_NOT_SPAWNED", "CODEX_USAGE_UNAVAILABLE"}
Elapsed == Cardinality({c \in Calls : attempt[c].status \notin Synthetic})

(* Rows whose NULL usage may hide a billed answer.                         *)
UnknownUsage(c) ==
    \/ attempt[c].status \notin
          NoModelResponse \cup {"NONE", "SUCCEEDED", "CODEX_NOT_SPAWNED"}
    \/ call[c] \in {"CONFIRMED", "IN_FLIGHT"} /\ ~Recorded(c)

\* mutant: the token ceiling has to be passed, not reached
BudgetFailureLate ==
    IF MaxTokens # Unlimited /\ Tokens > MaxTokens
    THEN "LLM_TOKEN_BUDGET_EXHAUSTED"
    ELSE IF MaxTokens # Unlimited /\ \E c \in Calls : UnknownUsage(c)
    THEN "LLM_TOKEN_USAGE_UNAVAILABLE"
    ELSE "NONE"
(* RunUsageBudget.check, in its order.  Codex reports no cost.             *)
BudgetFailure ==
    IF MaxTokens # Unlimited /\ Tokens >= MaxTokens
    THEN "LLM_TOKEN_BUDGET_EXHAUSTED"
    ELSE IF MaxElapsed # Unlimited /\ Elapsed >= MaxElapsed
    THEN "LLM_ELAPSED_BUDGET_EXHAUSTED"
    ELSE IF MaxTokens # Unlimited /\ \E c \in Calls : UnknownUsage(c)
    THEN "LLM_TOKEN_USAGE_UNAVAILABLE"
    ELSE "NONE"

-----------------------------------------------------------------------------
(* One logical call by task t.                                             *)

Update(t, r) == task' = [task EXCEPT ![t] = r]
At(t, pc) == up /\ task[t].pc = pc
Goto(t, pc) == Update(t, [task[t] EXCEPT !.pc = pc])
Row(t) == child[task[t].call][task[t].phase]
SetRow(t, s) == child' = [child EXCEPT ![task[t].call][task[t].phase] = s]
Os(t) == os[task[t].call][task[t].phase]
SetOs(t, s) == os' = [os EXCEPT ![task[t].call][task[t].phase] = s]
Slot(t) == <<task[t].call, task[t].phase>>
(* The inner call ended with outcome o.                                    *)
Ended(t, o) == Update(t, [task[t] EXCEPT !.pc = "settle", !.out = o])

(* call() returns a failure or a result: the caller may call again.        *)
Returned(t, code, retryable) ==
    [NoTask EXCEPT !.call = task[t].call, !.code = code, !.retryable = retryable]

(* _final_failure: invalid output is not retried by anybody above.         *)
FinalRetryable(code) == code \in RetryableCodes \ {"INVALID_OUTPUT"}

(* Bound: a caller starts only while every active caller can still draw    *)
(* the ids set aside for it.                                               *)
Room ==
    Cardinality({c \in Calls : call[c] # "NONE"})
        + Reserve * (1 + Cardinality({t \in Tasks : task[t].pc # "idle"}))
    <= MaxCalls

StartCall(t) ==
    /\ At(t, "idle")
    /\ Room
    /\ Update(t, [NoTask EXCEPT !.pc = "queue", !.tries = 1])
    /\ UNCHANGED <<ledger, os, up, gate, late>>

(* The deadline of a call passes.                                          *)
Expire(t) ==
    /\ up /\ task[t].pc # "idle" /\ ~task[t].expired
    /\ Update(t, [task[t] EXCEPT !.expired = TRUE])
    /\ UNCHANGED <<ledger, os, up, gate, late>>

(* The gate is free: the checks made under it, then the reservation.       *)
Refused(t) ==
    /\ At(t, "queue") /\ gate = Nobody
    /\ \/ /\ InFlight # {}
          /\ Update(t, Returned(t, InFlightCode, FALSE))
       \/ /\ InFlight = {} /\ BudgetFailure # "NONE"
          /\ Update(t, Returned(t, BudgetFailure, FALSE))
       \/ /\ InFlight = {} /\ BudgetFailure = "NONE" /\ task[t].expired
          /\ Update(t, Returned(t, task[t].last, FinalRetryable(task[t].last)))
    /\ UNCHANGED <<ledger, os, up, gate, late>>

\* mutant: the budget is read but an in-flight call is not looked for
MayBeginAnyway(t) == BudgetFailure = "NONE" /\ ~task[t].expired
MayBegin(t) == InFlight = {} /\ BudgetFailure = "NONE" /\ ~task[t].expired

(* begin_codex_call: one transaction that reserves the analysis' only call.*)
Begin(t) ==
    /\ At(t, "queue") /\ gate = Nobody /\ MayBegin(t)
    /\ \E c \in Calls :
         /\ call[c] = "NONE" /\ \A d \in Calls : d < c => call[d] # "NONE"
         /\ call' = [call EXCEPT ![c] = "IN_FLIGHT"]
         /\ Update(t, [task[t] EXCEPT !.pc = "ready", !.call = c,
                                      !.phase = VERSION])
    /\ gate' = t
    /\ UNCHANGED <<attempt, child, os, up, late>>

(* Endings that say nothing about the child: an OSError once a child may   *)
(* exist, or an unexpected exception that escapes the inner call.          *)
Escapes == {"CODEX_PROCESS_CLEANUP_UNCONFIRMED", "NOT_RETURNED"}

(* The inner call ends before the next child is asked for: a binding check *)
(* fails (FAILED), or an exception escapes.                                *)
InnerFails(t) ==
    /\ At(t, "ready")
    /\ \E o \in {"FAILED"} \cup Escapes : Ended(t, o)
    /\ UNCHANGED <<ledger, os, up, gate, late>>

(* on_child_spawning: the durable intent, before the spawn.  A late spawn  *)
(* still pending in this process refuses any other.                        *)
Intent(t) ==
    /\ At(t, "ready")
    /\ call[task[t].call] = "IN_FLIGHT"
    /\ Row(t) = "NONE"
    /\ SetRow(t, "SPAWNING")
    /\ IF late # {} THEN Ended(t, "CODEX_PROCESS_CLEANUP_UNCONFIRMED")
                    ELSE Goto(t, "spawn")
    /\ UNCHANGED <<call, attempt, os, up, gate, late>>

(* The operating system creates the child; t's event loop has not seen it. *)
OsSpawn(t) ==
    /\ At(t, "spawn") \/ At(t, "drain")
    /\ Os(t) = "NONE"
    /\ SetOs(t, "RUNNING")
    /\ UNCHANGED <<ledger, up, gate, late, task>>

(* create_subprocess_exec raises OSError: child_may_exist is already set.  *)
SpawnFails(t) ==
    /\ At(t, "spawn") /\ Os(t) = "NONE"
    /\ Ended(t, "CODEX_PROCESS_CLEANUP_UNCONFIRMED")
    /\ UNCHANGED <<ledger, os, up, gate, late>>

(* observe_started: bind the process to its intent, or kill what cannot be *)
(* identified and leave the intent open.                                   *)
Capture(t) ==
    /\ At(t, "spawn") /\ Os(t) # "NONE"
    /\ \/ /\ SetRow(t, "CAPTURED")
          /\ Goto(t, "child")
          /\ UNCHANGED os
       \/ /\ SetOs(t, "GONE") \/ UNCHANGED os
          /\ Ended(t, "CODEX_PROCESS_CLEANUP_UNCONFIRMED")
          /\ UNCHANGED child
    /\ UNCHANGED <<call, attempt, up, gate, late>>

(* A child ends by itself, whoever its parent was.                         *)
ChildExits(c, p) ==
    /\ os[c][p] = "RUNNING"
    /\ os' = [os EXCEPT ![c][p] = "GONE"]
    /\ UNCHANGED <<ledger, up, gate, late, task>>

(* process.wait returned: observe_stopped, then the next child or the end  *)
(* of the inner call (only EXEC can succeed); or a pipe of the child raised*)
(* before its exit was recorded.                                           *)
Reap(t) ==
    /\ At(t, "child") /\ Os(t) = "GONE"
    /\ \/ /\ SetRow(t, "EXITED")
          /\ \/ /\ task[t].phase < EXEC
                /\ Update(t, [task[t] EXCEPT !.pc = "ready", !.phase = @ + 1])
             \/ /\ task[t].phase < EXEC
                /\ \E o \in {"FAILED", "INVALID_OUTPUT", "RATE_LIMITED",
                             "AUTH_REQUIRED"} \cup Escapes : Ended(t, o)
             \/ /\ task[t].phase = EXEC
                /\ \E o \in Outcomes \ {"TIMED_OUT", "CANCELLED"} : Ended(t, o)
       \/ /\ UNCHANGED child
          /\ \E o \in Escapes : Ended(t, o)
    /\ UNCHANGED <<call, attempt, os, up, gate, late>>

-----------------------------------------------------------------------------
(* Timeouts and cancellation.                                              *)

(* The child is running or being spawned when its caller is interrupted.   *)
Interrupted(t, why) ==
    /\ \/ /\ At(t, "child")
          /\ Update(t, [task[t] EXCEPT !.pc = "kill", !.out = why])
          /\ UNCHANGED late
       \/ /\ At(t, "spawn")
          /\ Update(t, [task[t] EXCEPT !.pc = "drain", !.out = why])
          /\ late' = late \cup {Slot(t)}
    /\ UNCHANGED <<ledger, os, up, gate>>

TimeOut(t) == task[t].expired /\ Interrupted(t, "TIMED_OUT")
Cancel(t)  == Interrupted(t, "CANCELLED")

(* Cancelled while it waits for the gate or for its backoff.               *)
CancelWaiting(t) ==
    /\ At(t, "queue") \/ At(t, "backoff")
    /\ Update(t, Returned(t, "CANCELLED", FALSE))
    /\ UNCHANGED <<ledger, os, up, gate, late>>

(* _terminate_process_tree_checked succeeded: the tree is gone.            *)
KillTree(t) ==
    /\ At(t, "kill")
    /\ SetOs(t, "GONE")
    /\ SetRow(t, "EXITED")
    /\ Ended(t, task[t].out)
    /\ UNCHANGED <<call, attempt, up, gate, late>>

(* ... or could not be confirmed in time; the second try in _run_child's   *)
(* finally may end the tree, but not change the outcome.                   *)
KillFails(t) ==
    /\ At(t, "kill")
    /\ UNCHANGED <<child, os>> \/ (SetOs(t, "GONE") /\ SetRow(t, "EXITED"))
    /\ Ended(t, "CODEX_PROCESS_CLEANUP_UNCONFIRMED")
    /\ UNCHANGED <<call, attempt, up, gate, late>>

(* The spawn a cancelled caller waits for completes: capture, kill, settle.*)
DrainSpawn(t) ==
    /\ At(t, "drain") /\ Os(t) # "NONE"
    /\ SetOs(t, "GONE")
    /\ SetRow(t, "EXITED")
    /\ late' = late \ {Slot(t)}
    /\ Ended(t, task[t].out)
    /\ UNCHANGED <<call, attempt, up, gate>>

\* mutant: a spawn that did not complete in time is reported as a timeout
DrainGivesUp(t) ==
    /\ At(t, "drain")
    /\ Ended(t, "TIMED_OUT")
    /\ UNCHANGED <<ledger, os, up, gate, late>>
(* It does not complete in time, fails, or cannot be captured or killed.   *)
DrainFails(t) ==
    /\ At(t, "drain")
    /\ UNCHANGED child \/ (Os(t) # "NONE" /\ SetRow(t, "CAPTURED"))
    /\ Ended(t, "CODEX_PROCESS_CLEANUP_UNCONFIRMED")
    /\ UNCHANGED <<call, attempt, os, up, gate, late>>

Abandoned == {s \in late : \A t \in Tasks : task[t].pc # "drain" \/ Slot(t) # s}

(* _terminate_late_spawn: the process appears after its caller gave up.    *)
LateSpawn(c, p) ==
    /\ up /\ <<c, p>> \in Abandoned /\ os[c][p] = "NONE"
    /\ os' = [os EXCEPT ![c][p] = "RUNNING"]
    /\ UNCHANGED <<ledger, up, gate, late, task>>

LateCleanup(c, p) ==
    /\ up /\ <<c, p>> \in Abandoned /\ os[c][p] # "NONE"
    /\ child[c][p] = "SPAWNING"
    /\ \/ /\ child' = [child EXCEPT ![c][p] = "EXITED"]
          /\ os' = [os EXCEPT ![c][p] = "GONE"]
          /\ late' = late \ {<<c, p>>}
       \/ /\ child' = [child EXCEPT ![c][p] = "CAPTURED"]
          /\ UNCHANGED <<os, late>>
    /\ UNCHANGED <<call, attempt, up, gate, task>>

-----------------------------------------------------------------------------
(* The end of one attempt.                                                 *)

(* record_attempt: only a success carries usage.                           *)
Record(t) ==
    /\ At(t, "settle")
    /\ \E n \in 0..MaxUse :
         /\ n > 0 <=> task[t].out = "SUCCEEDED"
         /\ attempt' = [attempt EXCEPT ![task[t].call] =
                            [status |-> task[t].out, tokens |-> n]]
    /\ Goto(t, "recorded")
    /\ UNCHANGED <<call, child, os, up, gate, late>>

(* mark_codex_call_safe: only after the attempt row is durable.            *)
MarkSafe(t) == call' = [call EXCEPT ![task[t].call] = "SAFE"]

(* A success is returned once its call is resolved.                        *)
Succeed(t) ==
    /\ At(t, "recorded") /\ task[t].out = "SUCCEEDED"
    /\ MarkSafe(t)
    /\ Update(t, Returned(t, "SUCCEEDED", FALSE))
    /\ gate' = Nobody
    /\ UNCHANGED <<attempt, child, os, up, late>>

(* What call() reports when it leaves its call in flight.                  *)
UnsettledCode(o) == IF o = "NOT_RETURNED" THEN InFlightCode ELSE o
\* mutant: a timed-out inner call is reported as the retryable failure it was
UnsettledAsRaised(o) == o = "NOT_RETURNED"
UnsettledRetryable(o) == FALSE

\* mutant: a caller that leaves its call in flight keeps the gate as well
LeaveHoldingGate(t) ==
    /\ At(t, "recorded") /\ task[t].out \in Unsettled
    /\ Update(t, Returned(t, UnsettledCode(task[t].out), FALSE))
    /\ UNCHANGED <<ledger, os, up, gate, late>>
(* The cleanup is unconfirmed, the inner call did not return, or the task  *)
(* was cancelled: the call stays in flight.                                *)
LeaveInFlight(t) ==
    /\ At(t, "recorded") /\ task[t].out \in Unsettled
    /\ Update(t, Returned(t, UnsettledCode(task[t].out),
                             UnsettledRetryable(task[t].out)))
    /\ gate' = Nobody
    /\ UNCHANGED <<ledger, os, up, late>>

\* mutant: one retry too many
RetryableOnceMore(t) ==
    task[t].out \in RetryableCodes /\ task[t].tries <= MaxRetries + 1
(* The failure may be retried by call() itself.                            *)
Retryable(t) == task[t].out \in RetryableCodes /\ task[t].tries <= MaxRetries

(* Any other failure resolves the call; then the caller returns or backs   *)
(* off, in the order of the code's conditions.                             *)
Fail(t) ==
    /\ At(t, "recorded") /\ task[t].out \in RetryableCodes \cup TerminalCodes
    /\ MarkSafe(t)
    /\ gate' = Nobody
    /\ \/ /\ Retryable(t) /\ BudgetFailure # "NONE"
          /\ Update(t, Returned(t, BudgetFailure, FALSE))
       \/ /\ ~Retryable(t)
          /\ Update(t, Returned(t, task[t].out, FinalRetryable(task[t].out)))
       \/ /\ Retryable(t) /\ BudgetFailure = "NONE" /\ task[t].expired
          /\ Update(t, Returned(t, task[t].out, FinalRetryable(task[t].out)))
       \/ /\ Retryable(t) /\ BudgetFailure = "NONE" /\ ~task[t].expired
          /\ Update(t, [task[t] EXCEPT !.pc = "backoff", !.last = task[t].out])
    /\ UNCHANGED <<attempt, child, os, up, late>>

Retry(t) ==
    /\ At(t, "backoff")
    /\ Update(t, [task[t] EXCEPT !.pc = "queue", !.tries = @ + 1])
    /\ UNCHANGED <<ledger, os, up, gate, late>>

-----------------------------------------------------------------------------
(* The process and its successors.                                         *)

(* The analysis process ends at any point; the OS releases the lease and   *)
(* its children live on.                                                   *)
Crash ==
    /\ up /\ up' = FALSE
    /\ gate' = Nobody
    /\ late' = {}
    /\ task' = [t \in Tasks |-> NoTask]
    /\ UNCHANGED <<ledger, os>>

\* mutant: a child whose intent was never captured counts as not spawned
UnspawnedIfUncaptured(c) ==
    ~Recorded(c) /\ \A p \in Phases : child[c][p] \in {"NONE", "SPAWNING"}
(* _reconcile_unspawned_codex_call_with_lease: nothing was ever asked of   *)
(* the operating system and nothing was recorded.                          *)
Unspawned(c) == ~HasChildRow(c) /\ ~Recorded(c)

(* resume takes the lease; with an unresolved call it goes no further      *)
(* unless the call can be reconciled.                                      *)
Resume ==
    /\ ~up /\ up' = TRUE
    /\ \/ /\ InFlight = {}
          /\ UNCHANGED ledger
       \/ \E c \in InFlight :
            /\ Unspawned(c)
            /\ attempt' = [attempt EXCEPT ![c] =
                             [status |-> "CODEX_NOT_SPAWNED", tokens |-> 0]]
            /\ call' = [call EXCEPT ![c] = "CONFIRMED"]
            /\ UNCHANGED child
    /\ UNCHANGED <<os, gate, late, task>>

\* mutant: an intent without a process identity is accepted
StoppedIfKnown(c) ==
    /\ HasChildRow(c)
    /\ \A p \in Phases : child[c][p] = "CAPTURED" => os[c][p] # "RUNNING"
(* _codex_cleanup_confirmation_valid: every child of the call is identified*)
(* and none of them runs.                                                  *)
ProvenStopped(c) ==
    /\ HasChildRow(c)
    /\ \A p \in Phases : child[c][p] # "SPAWNING" /\ os[c][p] # "RUNNING"

\* mutant: the unrecorded call is settled as one that cost nothing
ConfirmedFree(c) ==
    IF Recorded(c) THEN attempt[c]
    ELSE [status |-> "CODEX_NOT_SPAWNED", tokens |-> 0]
(* What confirmation records for a call without an attempt row.            *)
ConfirmedAttempt(c) ==
    IF Recorded(c) THEN attempt[c]
    ELSE [status |-> "CODEX_USAGE_UNAVAILABLE", tokens |-> 0]

(* confirm_codex_cleanup, by an operator who holds the run lease.          *)
Confirm ==
    /\ ~up
    /\ \E c \in InFlight :
         /\ ProvenStopped(c)
         /\ attempt' = [attempt EXCEPT ![c] = ConfirmedAttempt(c)]
         /\ call' = [call EXCEPT ![c] = "CONFIRMED"]
         /\ child' = [child EXCEPT ![c] = [p \in Phases |->
                        IF @[p] = "CAPTURED" THEN "EXITED" ELSE @[p]]]
    /\ UNCHANGED <<os, up, gate, late, task>>

TaskStep(t) ==
    \/ StartCall(t) \/ Expire(t) \/ Refused(t) \/ Begin(t)
    \/ InnerFails(t) \/ Intent(t) \/ OsSpawn(t) \/ SpawnFails(t) \/ Capture(t)
    \/ Reap(t) \/ TimeOut(t) \/ Cancel(t) \/ CancelWaiting(t) \/ KillTree(t) \/ KillFails(t)
    \/ DrainSpawn(t) \/ DrainFails(t)
    \/ Record(t) \/ Succeed(t) \/ LeaveInFlight(t) \/ Fail(t) \/ Retry(t)

Next ==
    \/ \E t \in Tasks : TaskStep(t)
    \/ \E c \in Calls, p \in Phases :
          ChildExits(c, p) \/ LateSpawn(c, p) \/ LateCleanup(c, p)
    \/ Crash \/ Resume \/ Confirm

Spec == Init /\ [][Next]_vars

-----------------------------------------------------------------------------
TypeOK ==
    /\ call \in [Calls -> CallStatus]
    /\ attempt \in [Calls -> [status : AttemptStatus, tokens : 0..MaxUse]]
    /\ child \in [Calls -> [Phases -> ChildStatus]]
    /\ os \in [Calls -> [Phases -> OsStatus]]
    /\ up \in BOOLEAN
    /\ gate \in Tasks \cup {Nobody}
    /\ late \subseteq Calls \X Phases
    /\ task \in [Tasks -> TaskType]

Settled(c) == call[c] \in {"SAFE", "CONFIRMED"}
Running == {s \in Calls \X Phases : os[s[1]][s[2]] = "RUNNING"}

(* A call leaves IN_FLIGHT only when no child of it runs, and none that    *)
(* was asked for can still appear: neither a timeout, a late spawn, a crash*)
(* between spawn and capture, nor a confirmation settles it earlier        *)
(* (call_queue.py call, store.py mark_codex_call_safe and                  *)
(* _codex_cleanup_confirmation_valid).                                     *)
StoppedBeforeSettled ==
    \A c \in Calls : Settled(c) =>
        \A p \in Phases : /\ os[c][p] # "RUNNING"
                          /\ child[c][p] # "SPAWNING"
                          /\ <<c, p>> \notin late

(* Whatever crashed or timed out before, at most one Codex child of the    *)
(* analysis runs at any time (begin_codex_call: "reserve one Codex process *)
(* for an analysis across processes").                                     *)
OneChild == \A s, r \in Running : s = r

(* A call settled as never spawned never had a child, not even one whose   *)
(* spawn was only requested (_reconcile_unspawned_codex_call_with_lease).  *)
NotSpawnedTruthful ==
    \A c \in Calls : attempt[c].status = "CODEX_NOT_SPAWNED" =>
        \A p \in Phases : child[c][p] = "NONE" /\ os[c][p] = "NONE"

(* With a token ceiling, no call is reserved after one whose usage is not  *)
(* known: across retries, cancellations, crashes and confirmations         *)
(* (RunUsageBudget.check's last test).                                     *)
UsageKnown(c) ==
    \/ attempt[c].status \in {"SUCCEEDED", "RATE_LIMITED", "AUTH_REQUIRED"}
    \/ attempt[c].status = "CODEX_NOT_SPAWNED" /\ child[c][EXEC] = "NONE"
NoBlindCall ==
    MaxTokens # Unlimited =>
        \A c, d \in Calls : c < d /\ call[d] # "NONE" => UsageKnown(c)

(* The recorded tokens pass the ceiling by less than one call's answer:    *)
(* concurrent callers cannot all read the ledger before any of them spends *)
(* (the budget gate around RunLimitedClient.call).                         *)
SpendBounded == MaxTokens # Unlimited => Tokens < MaxTokens + MaxUse

(* A caller is told it may retry only if its own last call is settled, so  *)
(* the stage's recovery never runs beside a live child (the codes call()   *)
(* substitutes when the inner call did not return).                        *)
RetryableMeansSettled ==
    \A t \in Tasks :
        task[t].pc = "idle" /\ task[t].retryable /\ task[t].call # 0
            => Settled(task[t].call)

(* Once settled, a call's ledger rows never change: no late spawn, retry,  *)
(* crash or second confirmation reaches them (simple_codex_calls is the    *)
(* audit trail dashboards and replays read).                               *)
SettledFrozen ==
    [][\A c \in Calls : Settled(c) =>
          call'[c] = call[c] /\ attempt'[c] = attempt[c] /\ child'[c] = child[c]]_vars

-----------------------------------------------------------------------------
(* A ready task is run by the event loop, time passes, and the bounded     *)
(* waits (kill, drain) end one way or the other.                           *)
Enter(t) == Refused(t) \/ Begin(t)
Progress(t) ==
    \/ Expire(t) \/ InnerFails(t) \/ Intent(t) \/ Capture(t) \/ Reap(t)
    \/ TimeOut(t) \/ KillTree(t) \/ KillFails(t) \/ DrainSpawn(t) \/ DrainFails(t)
    \/ Record(t) \/ Succeed(t) \/ LeaveInFlight(t) \/ Fail(t) \/ Retry(t)

(* asyncio.Lock wakes its waiters in order, hence strong fairness of Enter.*)
FairSpec ==
    Spec /\ \A t \in Tasks : WF_vars(Progress(t)) /\ SF_vars(Enter(t))

(* Every call returns to its stage or dies with its process: no child that *)
(* hangs, spawn that never completes or caller that gives up keeps the gate*)
(* from the others.                                                        *)
CallReturns ==
    \A t \in Tasks : task[t].pc # "idle" ~> task[t].pc = "idle"
=============================================================================
