---------------------- MODULE RunnerHistory_proofs -----------------------
(***************************************************************************)
(* What the checkpoint table of a hypothesis remembers, proved for every   *)
(* value of the constants: attempts and gate revisions are bounded, the    *)
(* environment and the validated PoC a later row refers to are the current *)
(* ones, events never collide, the reported outcome is the stored one, and *)
(* a settled PoC stays settled.                                            *)
(*                                                                         *)
(* The argument goes in two stages.  TableStep and LogStep say what any    *)
(* step of Next does to one row, to the rows before it and to the log;     *)
(* every invariant below is then proved from these shapes, not from the    *)
(* actions.                                                                *)
(***************************************************************************)
EXTENDS HypothesisRunner_proofs

(* A row a handler has been started for.                                    *)
Acted(r) == r.status \in {"RUNNING", "SUCCEEDED", "BLOCKED", "FAILED"}

(* Attempts the limit, the operator and the faults still account for.  A    *)
(* call left open and unspawned owes one, which its reconciliation grants.  *)
Owed == IF codex = "unresolved" THEN 1 ELSE 0
Within(n) == n + Owed <= MaxRecovery + grants + faults

-----------------------------------------------------------------------------
(* What one step does to the row of stage s.                                *)
Keeps(s)  == row'[s] = row[s]
Gone(s)   == row'[s] = NoRow
Aged(s)   == Exists(row[s]) /\ row'[s] = [row[s] EXCEPT !.current = FALSE]
Began(s)  == /\ pc = "start" /\ at = s /\ row'[s] = ctx
             /\ <<"start", s, ctx.attempt>> \notin activity
             /\ activity' = activity \cup {<<"start", s, ctx.attempt>>}
Done(s)   == /\ row[s].status = "RUNNING"
             /\ \E res \in Results(s) : row'[s] = Completed(row[s], s, res)
Marked(s) == /\ \/ row[s].status = "RUNNING"
                \/ Reusable(row[s]) /\ EndsVerified(row[s], s)
             /\ \E f \in FailureRecord : \E e \in RefSets :
                   row'[s] = MarkedFailed(row[s], f, e)
Closed(s) == Failed(row[s]) /\ row'[s] \in {Stopped(row[s]), Exhausted(row[s])}
Promoted(s) == /\ Failed(row[s])
               /\ \/ s = POC_EXECUTION /\ row'[s] = PromotedPoc(row[s])
                  \/ s = VERIFICATION_INITIAL /\ row'[s] = PromotedInitial(row[s])
Replayed(s) == /\ row[s].status \in {"RUNNING", "BLOCKED", "FAILED"}
               /\ row'[s] = Reopened(row[s])
               /\ ~Spent(s) \/ <<"confirmed", s, row[s].attempt>> \in activity
Refunded(s) == /\ Failed(row[s]) /\ grants' = grants + 1
               /\ UNCHANGED <<codex, faults>>
               /\ row'[s] = [Reopened(row[s]) EXCEPT !.current = row[s].current]
Restarted(s) ==
    \E t \in s..12 : \E i, d \in RefSets : \E o \in 0..12 : \E b \in BOOLEAN :
        /\ Failed(row[t]) /\ ~Spent(t) /\ (b => s = VERIFICATION_INITIAL)
        /\ row'[s] = Seed(i, row[t].number, row[t].revisions, o, d,
                          IF b THEN 0 ELSE row[t].env)
Revised(s) ==
    /\ s = POC_CANDIDATE /\ Reusable(row[TECH_GATE]) /\ Revises(row[TECH_GATE], TECH_GATE)
    /\ \E i \in RefSets : \E p \in {POC_CANDIDATE, TECH_GATE} :
         row'[s] = Seed(i, 0, row[TECH_GATE].revisions + 1, 0, {}, row[p].env)

StepOf(s) == \/ Keeps(s) \/ Gone(s) \/ Aged(s) \/ Began(s) \/ Done(s) \/ Marked(s)
             \/ Closed(s) \/ Promoted(s) \/ Replayed(s) \/ Refunded(s)
             \/ Restarted(s) \/ Revised(s)

(* Each row takes one of these steps, and a row that is there afterwards    *)
(* still stands on the same earlier rows, up to their version.              *)
EarlierKept(s) == Exists(row'[s]) => \A p \in 1..(s - 1) : Keeps(p) \/ Aged(p)
TableStep == \A s \in Stages : StepOf(s) /\ EarlierKept(s)

(* What one step adds to the log.                                           *)
LogStep ==
    /\ activity \subseteq activity'
    /\ \A e \in activity' :
        \/ e \in activity
        \/ \E s \in Stages : /\ e = <<"start", s, ctx.attempt>>
                             /\ row'[s] = ctx /\ Began(s)
        \/ \E s \in Stages, k \in {"output", "failure", "decision", "stop"} :
              /\ e = <<k, s, row[s].attempt>> /\ Acted(row[s])
              /\ row'[s].status # "RUNNING"
        \/ \E s \in Stages :
              /\ e = <<"confirmed", s, row[s].attempt>> /\ Acted(row[s])
              /\ Keeps(s) /\ \A n \in Nat : Within(n) => Within(n + 1)'

(* What a step does to the row mark_running is about to write.              *)
CtxStep == \/ ctx' = NoRow
           \/ UNCHANGED <<ctx, pc, at>> /\ (pc = "idle" \/ UNCHANGED row)
           \/ \E s \in Stages : Prepare(s)

-----------------------------------------------------------------------------
(* The invariants.                                                          *)

(* An error is only ever stored with a failure, and nothing but a success   *)
(* carries a validated PoC; what is stored with a STOP is a HOLD.           *)
RowsOK == \A s \in Stages :
    /\ row[s].status = "NONE" => row[s] = NoRow
    /\ row[s].error # "none" => Failed(row[s])
    /\ row[s].status # "SUCCEEDED" => row[s].validated = 0
    /\ row[s].status = "RUNNING" => row[s].stop = FALSE
    /\ row[s].status = "SUCCEEDED" /\ row[s].stop =>
          row[s].verdict = "HOLD" /\ row[s].validated = 0
CtxOK == pc = "start" => /\ ctx.error = "none" /\ ctx.validated = 0
                         /\ ctx.stop = FALSE

(* Every event is preceded by the start of its attempt, and so is every row *)
(* a handler was started for.                                               *)
EventsOK ==
    /\ \A e \in activity : <<"start", e[2], e[3]>> \in activity
    /\ \A s \in Stages : Acted(row[s]) => <<"start", s, row[s].attempt>> \in activity

(* Attempts: no row goes over the ceiling, a row about to be run again, or  *)
(* whose cleanup has been confirmed, is below it.                           *)
AttemptsOK ==
    /\ codex = "unresolved" => faults >= 1
    /\ Within(ctx.number)
    /\ \A s \in Stages :
          /\ Within(row[s].number)
          /\ row[s].status = "PENDING" => Within(row[s].number + 1)
          /\ <<"confirmed", s, row[s].attempt>> \in activity => Within(row[s].number + 1)

RevisionsOK == ctx.revisions <= 2 /\ \A s \in Stages : row[s].revisions <= 2

EnvOK == /\ EnvironmentCurrent
         /\ pc = "start" /\ at > VERIFICATION_INITIAL =>
               ctx.env = row[VERIFICATION_INITIAL].env

(* The chain of references from the PoC execution to the report.            *)
ChainOK ==
    /\ row[POC_EXECUTION].validated \in {0, row[POC_EXECUTION].attempt}
    /\ row[VERIFICATION_FINAL].status = "SUCCEEDED"
         /\ row[VERIFICATION_FINAL].verdict = "TRUE" =>
            /\ row[VERIFICATION_FINAL].validated = row[POC_EXECUTION].validated
            /\ row[POC_EXECUTION].validated # 0
    /\ row[FINDING].status = "SUCCEEDED" =>
            /\ row[VERIFICATION_FINAL].status = "SUCCEEDED"
            /\ row[VERIFICATION_FINAL].verdict = "TRUE"
            /\ row[FINDING].validated = row[VERIFICATION_FINAL].validated
            /\ row[TECH_GATE].gate = "ACCEPT"
    /\ row[REPORT].status = "SUCCEEDED" =>
            /\ row[FINDING].status = "SUCCEEDED"
            /\ row[REPORT].validated = row[FINDING].validated

(* A PoC that is settled while the loop runs is what the loop comes to.     *)
PocOK ==
    /\ pc = "scan" /\ PocSettled => \A p \in 1..3 : Passed(row, p)
    /\ pc = "handler" => \A p \in 1..(at - 1) : Passed(row, p)
    /\ pc = "decide" => row[at].retryable

HInv == /\ IInv /\ RowsOK /\ CtxOK /\ EventsOK /\ RunningFresh /\ AttemptsOK
        /\ RevisionsOK /\ EnvOK /\ ChainOK /\ OutcomeTruthful /\ PocOK

-----------------------------------------------------------------------------
(* The shape of a step: the table.                                          *)

(* A step that leaves the table alone.                                      *)
LEMMA MoveSame ==
    ASSUME UNCHANGED row
    PROVE  TableStep
  BY DEF TableStep, StepOf, EarlierKept, Keeps

(* A step that rewrites the last row.                                       *)
LEMMA MoveSet ==
    ASSUME TableOK, NEW s \in Stages, NEW r \in Row, Later(row, s) = {},
           SetRow(s, r), StepOf(s)
    PROVE  TableStep
<1>1. \A t \in Stages : t # s => row'[t] = row[t]
  BY ExceptAt DEF SetRow, TableOK
<1>2. SUFFICES ASSUME NEW t \in Stages PROVE StepOf(t) /\ EarlierKept(t)
  BY DEF TableStep
<1>3. StepOf(t)
  BY <1>1 DEF StepOf, Keeps
<1>4. EarlierKept(t)
  <2>1. SUFFICES ASSUME Exists(row'[t]), NEW p \in 1..(t - 1) PROVE Keeps(p)
    BY DEF EarlierKept
  <2>2. CASE p = s
    <3>1. t \in (s + 1)..REPORT /\ row'[t] = row[t]
      BY <1>1, <2>2 DEF Stages, REPORT
    <3> QED
      BY <2>1, <3>1 DEF Later
  <2>3. CASE p # s
    BY <1>1, <2>3 DEF Keeps, Stages
  <2> QED BY <2>2, <2>3
<1> QED BY <1>3, <1>4

(* New code is installed: a row of any stage is out of date.                *)
LEMMA MoveAge ==
    ASSUME TableOK, NEW s \in Stages, Exists(row[s]),
           SetRow(s, [row[s] EXCEPT !.current = FALSE])
    PROVE  TableStep
<1>1. \A t \in Stages : IF t = s THEN Aged(t) ELSE Keeps(t)
  BY DEF SetRow, TableOK, Aged, Keeps
<1>2. \A t \in Stages : \A p \in 1..(t - 1) : p \in Stages
  BY DEF Stages
<1> QED
  BY <1>1, <1>2 DEF TableStep, StepOf, EarlierKept

(* A stage and every later one are dropped.                                 *)
LEMMA MoveCut ==
    ASSUME TableOK, NEW k \in Stages, row' = InvalidateFrom(row, k)
    PROVE  TableStep
<1>1. \A t \in Stages : IF t >= k THEN Gone(t) ELSE Keeps(t)
  BY DEF InvalidateFrom, Gone, Keeps
<1>2. \A t \in Stages : \A p \in 1..(t - 1) : p \in Stages /\ p < t
  BY DEF Stages
<1>3. \A t \in Stages : StepOf(t)
  BY <1>1 DEF StepOf
<1>4. SUFFICES ASSUME NEW t \in Stages, Exists(row'[t]), NEW p \in 1..(t - 1)
               PROVE  Keeps(p)
  BY <1>3 DEF TableStep, EarlierKept
<1>5. t < k
  BY <1>1, <1>4, NoRowType DEF Gone, Exists, Stages
<1> QED
  BY <1>1, <1>2, <1>5 DEF Stages

(* A stage is restarted and every later one dropped.                        *)
LEMMA MoveReplace ==
    ASSUME TableOK, NEW k \in Stages, NEW r, row' = ReplaceFrom(row, k, r), StepOf(k)
    PROVE  TableStep
<1>1. \A t \in Stages : (t > k => Gone(t)) /\ (t < k => Keeps(t))
  BY DEF ReplaceFrom, Gone, Keeps, Stages
<1>2. \A t \in Stages : \A p \in 1..(t - 1) : p \in Stages /\ p < t
  BY DEF Stages
<1>3. \A t \in Stages : StepOf(t)
  <2>1. \A t \in Stages : t > k \/ t < k \/ t = k
    BY DEF Stages
  <2> QED
    BY <1>1, <2>1 DEF StepOf
<1>4. SUFFICES ASSUME NEW t \in Stages, Exists(row'[t]), NEW p \in 1..(t - 1)
               PROVE  Keeps(p)
  BY <1>3 DEF TableStep, EarlierKept
<1>5. t <= k
  BY <1>1, <1>4, NoRowType DEF Gone, Exists, Stages
<1> QED
  BY <1>1, <1>2, <1>5 DEF Stages

(* The shape of a step: the log.                                            *)

(* Nothing is logged.                                                       *)
LEMMA LogSame ==
    ASSUME UNCHANGED activity
    PROVE  LogStep
  BY DEF LogStep

(* An event of the attempt of a row that does not run any more.             *)
LEMMA LogAdd ==
    ASSUME NEW s \in Stages, NEW k \in {"output", "failure", "decision", "stop"},
           activity' = activity \cup {<<k, s, row[s].attempt>>},
           Acted(row[s]), row'[s].status # "RUNNING"
    PROVE  LogStep
  BY DEF LogStep

(* Returning and going on forget the row about to be written.               *)
LEMMA CtxGone ==
    ASSUME \/ \E s, st : Return(s, st)
           \/ \E p, s : Goto(p, s)
           \/ Rescan
    PROVE  CtxStep
  BY DEF CtxStep, Return, Goto, Rescan

Shape == TableStep /\ LogStep /\ CtxStep

(* Steps that leave table and log alone and return or go on.                *)
LEMMA QuietShape ==
    ASSUME UNCHANGED <<row, activity>>,
           (\E s, st : Return(s, st)) \/ (\E p, s : Goto(p, s)) \/ Rescan
    PROVE  Shape
  BY MoveSame, LogSame, CtxGone DEF Shape

(* A row is rewritten in place and its attempt gets an event.               *)
LEMMA TouchShape ==
    ASSUME TableOK, NEW s \in Stages, NEW r \in Row, Later(row, s) = {},
           SetRow(s, r), StepOf(s), Acted(row[s]), r.status # "RUNNING",
           NEW k \in {"output", "failure", "decision", "stop"},
           \/ UNCHANGED activity
           \/ activity' = activity \cup {<<k, s, row[s].attempt>>},
           (\E t, st : Return(t, st)) \/ (\E p, t : Goto(p, t)) \/ Rescan
    PROVE  Shape
<1>1. row'[s] = r
  BY ExceptAt DEF SetRow, TableOK
<1> QED
  BY <1>1, MoveSet, LogSame, LogAdd, CtxGone DEF Shape

(* A row is replayed.                                                       *)
LEMMA ReplayShape ==
    ASSUME TableOK, NEW s \in Stages, row[s].status \in {"RUNNING", "BLOCKED", "FAILED"},
           row' = ReplaceFrom(row, s, Reopened(row[s])),
           ~Spent(s) \/ <<"confirmed", s, row[s].attempt>> \in activity,
           UNCHANGED activity, Rescan
    PROVE  Shape
<1>1. row'[s] = Reopened(row[s])
  BY DEF ReplaceFrom
<1>2. StepOf(s)
  BY <1>1 DEF StepOf, Replayed
<1> QED
  BY <1>2, MoveReplace, LogSame, CtxGone DEF Shape

-----------------------------------------------------------------------------
(* The shape of a step: the actions.                                        *)

(* The rows of the table, for the leaves below.                             *)
LEMMA RowFacts ==
    ASSUME IInv, NEW s \in Stages
    PROVE  /\ TableOK /\ row[s] \in Row /\ row[s].status \in Status
           /\ row[s].status \in {"RUNNING", "BLOCKED", "FAILED"} =>
                 /\ Later(row, s) = {} /\ Exists(row[s]) /\ Acted(row[s])
           /\ Reusable(row[s]) /\ EndsVerified(row[s], s) => Later(row, s) = {}
           /\ Failed(row[s]) => row[s].status \in {"RUNNING", "BLOCKED", "FAILED"}
  BY NothingLater DEF IInv, TableOK, TableInv, TerminalLastIn, Row, Failed, Exists, Acted

(* The evidence of a terminal result is read again.                         *)
LEMMA VerifyShape ==
    ASSUME IInv, NEW s \in Stages, Reusable(row[s]), EndsVerified(row[s], s),
           VerifyTerminal(s)
    PROVE  Shape
<1>1. CASE UNCHANGED <<row, activity>> /\ \E st : Return(s, st)
  BY <1>1, QuietShape
<1>2. CASE /\ SetRow(s, MarkedFailed(row[s], Blocked("EVIDENCE", FALSE), row[s].outputs))
           /\ activity' = activity \cup {<<"failure", s, row[s].attempt>>}
           /\ Return(s, "BLOCKED")
  <2> DEFINE f == Blocked("EVIDENCE", FALSE)
             r == MarkedFailed(row[s], f, row[s].outputs)
  <2>1. f \in FailureRecord /\ row[s].outputs \in RefSets /\ f.status = "BLOCKED"
    BY RowFacts DEF Blocked, FailureRecord, Errors, Row
  <2> HIDE DEF f
  <2>2. r \in Row /\ r.status = "BLOCKED"
    BY <2>1, RowFacts, MarkedFailedType
  <2>3. SetRow(s, r)
    BY <1>2 DEF f
  <2>4. row'[s] = r
    BY <2>2, <2>3, RowFacts, ExceptAt DEF SetRow, TableOK
  <2>5. StepOf(s)
    BY <2>1, <2>4 DEF StepOf, Marked
  <2>6. Acted(row[s]) /\ Later(row, s) = {}
    BY RowFacts DEF Acted, Reusable
  <2> HIDE DEF r
  <2> QED
    BY <1>2, <2>2, <2>3, <2>5, <2>6, RowFacts, TouchShape
<1> QED
  BY <1>1, <1>2 DEF VerifyTerminal

(* A promotion, or the row as it is.                                        *)
LEMMA PromotePocShape ==
    ASSUME IInv, NEW s \in Stages, s = POC_EXECUTION, Failed(row[s]),
           PromotePocOrReturn(s)
    PROVE  Shape
<1>1. CASE UNCHANGED <<row, activity>> /\ \E st : Return(s, st)
  BY <1>1, QuietShape
<1>2. CASE /\ SetRow(s, PromotedPoc(row[s]))
           /\ activity' = activity \cup {<<"output", s, row[s].attempt>>}
           /\ Return(s, "SUCCEEDED")
  <2>1. PromotedPoc(row[s]) \in Row /\ PromotedPoc(row[s]).status = "SUCCEEDED"
    BY RowFacts, RewriteType DEF PromotedPoc, Row
  <2>2. row'[s] = PromotedPoc(row[s])
    BY <1>2, <2>1, RowFacts, ExceptAt DEF SetRow, TableOK
  <2>3. StepOf(s)
    BY <2>2 DEF StepOf, Promoted
  <2> QED
    BY <1>2, <2>1, <2>3, RowFacts, TouchShape
<1> QED
  BY <1>1, <1>2 DEF PromotePocOrReturn

(* The initial verification is promoted.                                    *)
LEMMA PromoteInitialShape ==
    ASSUME IInv, NEW s \in Stages, PromotableInitial(s),
           SetRow(s, PromotedInitial(row[s])),
           activity' = activity \cup {<<"output", s, row[s].attempt>>}, Rescan
    PROVE  Shape
<1>1. Failed(row[s]) /\ s = VERIFICATION_INITIAL
  BY DEF PromotableInitial, Failed
<1>2. PromotedInitial(row[s]) \in Row /\ PromotedInitial(row[s]).status = "SUCCEEDED"
  BY <1>1, RowFacts, RewriteType DEF PromotedInitial, Row
<1>3. row'[s] = PromotedInitial(row[s])
  BY <1>2, RowFacts, ExceptAt DEF SetRow, TableOK
<1>4. StepOf(s)
  BY <1>1, <1>3 DEF StepOf, Promoted
<1> QED
  BY <1>1, <1>2, <1>4, RowFacts, TouchShape

(* A running row is marked failed.                                          *)
LEMMA MarkShape ==
    ASSUME IInv, NEW s \in Stages, row[s].status = "RUNNING",
           NEW f \in FailureRecord, NEW e \in RefSets,
           SetRow(s, MarkedFailed(row[s], f, e)),
           activity' = activity \cup {<<"failure", s, row[s].attempt>>},
           (\E t, st : Return(t, st)) \/ (\E p, t : Goto(p, t))
    PROVE  Shape
<1>1. MarkedFailed(row[s], f, e) \in Row /\ MarkedFailed(row[s], f, e).status # "RUNNING"
  BY RowFacts, MarkedFailedType DEF FailureRecord
<1>2. row'[s] = MarkedFailed(row[s], f, e)
  BY <1>1, RowFacts, ExceptAt DEF SetRow, TableOK
<1>3. StepOf(s)
  BY <1>2 DEF StepOf, Marked
<1> QED
  BY <1>1, <1>3, RowFacts, TouchShape

(* A failed row is closed to retries.                                       *)
LEMMA CloseShape ==
    ASSUME IInv, NEW s \in Stages, Failed(row[s]),
           NEW r \in {Stopped(row[s]), Exhausted(row[s])}, SetRow(s, r),
           UNCHANGED activity, \E st : Return(s, st)
    PROVE  Shape
<1>1. r \in Row /\ r.status # "RUNNING"
  <2>1. Stopped(row[s]).status = row[s].status /\ Exhausted(row[s]).status = "BLOCKED"
    BY RowFacts DEF Stopped, Exhausted, Row
  <2> QED
    BY <2>1, RowFacts, RewriteType DEF Failed
<1>2. row'[s] = r
  BY <1>1, RowFacts, ExceptAt DEF SetRow, TableOK
<1>3. StepOf(s)
  BY <1>2 DEF StepOf, Closed
<1> QED
  BY <1>1, <1>3, RowFacts, TouchShape

(* Entering resume_hypothesis.                                              *)
LEMMA ResumeShape ==
    ASSUME IInv, Resume
    PROVE  Shape
<1>1. POC_EXECUTION \in Stages
  BY DEF POC_EXECUTION, Stages
<1>2. CASE ResumeTerminal
  BY <1>1, <1>2, VerifyShape DEF ResumeTerminal, TerminalPoc, Reusable, EndsVerified
<1>3. CASE ResumeOpen
  BY <1>3, QuietShape DEF ResumeOpen, durable
<1> QED
  BY <1>2, <1>3 DEF Resume

(* A row whose version moved on.                                            *)
LEMMA StaleShape ==
    ASSUME IInv, NEW s \in Stages, StaleStage(s)
    PROVE  Shape
<1>1. UNCHANGED activity
  BY DEF StaleStage
<1>2. CASE UNCHANGED row /\ Return(s, row[s].status)
  BY <1>1, <1>2, QuietShape
<1>3. CASE /\ StaleKeepsCount(s) /\ Rescan
           /\ row' = ReplaceFrom(row, s, Reopened(row[s]))
  <2>1. ~Spent(s) /\ row[s].status \in {"RUNNING", "BLOCKED", "FAILED"}
    BY <1>3 DEF StaleKeepsCount, StaleReturns, CorrectableEnv, InvalidOutput, Failed
  <2> QED
    BY <1>1, <1>3, <2>1, RowFacts, ReplayShape
<1>4. CASE row' = InvalidateFrom(row, s) /\ Rescan
  BY <1>1, <1>4, RowFacts, MoveCut, LogSame, CtxGone DEF Shape
<1> QED
  BY <1>2, <1>3, <1>4 DEF StaleStage

(* The four guarded replays.                                                *)
LEMMA GuardedShape ==
    ASSUME IInv, NEW s \in Stages, ReplayGuarded(s)
    PROVE  Shape
<1>1. UNCHANGED activity /\ Failed(row[s])
  BY DEF ReplayGuarded, Recoverable, Failed
<1>2. CASE /\ MayReplay(s) /\ Rescan
           /\ row' = ReplaceFrom(row, s, Reopened(row[s]))
  BY <1>1, <1>2, RowFacts, ReplayShape DEF MayReplay
<1>3. CASE SetRow(s, Stopped(row[s])) /\ Return(s, row[s].status)
  BY <1>1, <1>3, CloseShape
<1>4. CASE UNCHANGED row /\ Return(s, row[s].status)
  BY <1>1, <1>4, QuietShape
<1> QED
  BY <1>2, <1>3, <1>4 DEF ReplayGuarded

(* The gate sends the PoC back.                                             *)
LEMMA RevisionShape ==
    ASSUME IInv, NEW s \in Stages, PrepareGateRevision(s)
    PROVE  Shape
<1> DEFINE g == row[TECH_GATE]
           c == row[POC_CANDIDATE]
           x == row[POC_EXECUTION]
           i == g.outputs \cup c.inputs \cup c.outputs \cup x.outputs
           e == IF c.env # 0 THEN c.env ELSE g.env
<1>1. /\ POC_CANDIDATE \in Stages /\ TECH_GATE \in Stages /\ POC_EXECUTION \in Stages
      /\ s = TECH_GATE /\ Reusable(row[s]) /\ Revises(row[s], s)
      /\ row' = Revising(row) /\ Rescan /\ UNCHANGED activity
  BY DEF PrepareGateRevision, Revises, POC_CANDIDATE, TECH_GATE, POC_EXECUTION, Stages
<1>2. i \in RefSets
  <2>1. g \in Row /\ c \in Row /\ x \in Row
    BY <1>1, RowFacts
  <2>2. /\ g.outputs \in RefSets /\ c.inputs \in RefSets
        /\ c.outputs \in RefSets /\ x.outputs \in RefSets
    BY <2>1 DEF Row
  <2> QED
    BY <2>2 DEF RefSets
<1>3. row' = ReplaceFrom(row, POC_CANDIDATE, Seed(i, 0, g.revisions + 1, 0, {}, e))
  BY <1>1 DEF Revising
<1>4. row'[POC_CANDIDATE] = Seed(i, 0, g.revisions + 1, 0, {}, e)
  BY <1>1, <1>3 DEF ReplaceFrom
<1>5. \E p \in {POC_CANDIDATE, TECH_GATE} : e = row[p].env
  OBVIOUS
<1> HIDE DEF i, e
<1>6. Revised(POC_CANDIDATE)
  BY <1>1, <1>2, <1>4, <1>5 DEF Revised
<1> HIDE DEF g
<1>7. TableStep
  BY <1>1, <1>3, <1>6, RowFacts, MoveReplace DEF StepOf
<1> QED
  BY <1>1, <1>7, LogSame, CtxGone DEF Shape

(* The stage is prepared.                                                   *)
LEMMA PrepareShape ==
    ASSUME IInv, NEW s \in Stages, Prepare(s)
    PROVE  Shape
<1>1. UNCHANGED activity /\ (row' = row \/ row' = InvalidateFrom(row, s))
  BY DEF Prepare
<1>2. TableStep
  BY <1>1, RowFacts, MoveSame, MoveCut
<1>3. CtxStep
  BY DEF CtxStep
<1> QED
  BY <1>1, <1>2, <1>3, LogSame DEF Shape

(* A stop of the loop.                                                      *)
LEMMA ScanShape ==
    ASSUME IInv, NEW s \in Stages, Scan(s)
    PROVE  Shape
<1>1. CASE PocDecided(s)
  BY <1>1, PromotePocShape DEF PocDecided, PriorDecision, Failed
<1>2. CASE PocStaysClosed(s) \/ ReuseEnds(s)
  BY <1>2, QuietShape DEF PocStaysClosed, ReuseEnds, durable
<1>3. CASE StaleStage(s)
  BY <1>3, StaleShape
<1>4. CASE PromoteInitial(s)
  BY <1>4, PromoteInitialShape DEF PromoteInitial
<1>5. CASE ReplayConfirmed(s)
  BY <1>5, RowFacts, ReplayShape DEF ReplayConfirmed, Recoverable, CleanupReplay
<1>6. CASE Interrupted(s)
  <2>1. Blocked("INTERRUPTED", TRUE) \in FailureRecord /\ {} \in RefSets
    BY DEF Blocked, FailureRecord, Errors, RefSets
  <2> QED
    BY <1>6, <2>1, MarkShape DEF Interrupted
<1>7. CASE ReplayGuarded(s)
  BY <1>7, GuardedShape
<1>8. CASE RecoverFailed(s)
  BY <1>8, QuietShape DEF RecoverFailed, durable
<1>9. CASE ReuseTerminal(s)
  BY <1>9, VerifyShape DEF ReuseTerminal
<1>10. CASE PrepareGateRevision(s)
  BY <1>10, RevisionShape
<1>11. CASE Prepare(s)
  BY <1>11, PrepareShape
<1> QED
  BY <1>1, <1>2, <1>3, <1>4, <1>5, <1>6, <1>7, <1>8, <1>9, <1>10, <1>11 DEF Scan

(* The stage starts.                                                        *)
LEMMA MarkRunningShape ==
    ASSUME IInv, NEW s \in Stages, MarkRunning(s)
    PROVE  Shape
<1>1. CASE UNCHANGED <<row, activity>> /\ Return(s, "RAISED")
  BY <1>1, QuietShape
<1>2. CASE /\ <<"start", s, ctx.attempt>> \notin activity
           /\ SetRow(s, ctx) /\ Goto("handler", s)
           /\ activity' = activity \cup {<<"start", s, ctx.attempt>>}
  <2>1. ctx \in Row /\ row'[s] = ctx
    BY <1>2, RowFacts, ExceptAt DEF SetRow, TableOK, IInv, ProcOK
  <2>2. Began(s)
    BY <1>2, <2>1 DEF Began, MarkRunning
  <2>3. Later(row, s) = {}
    <3>1. row[s].status \in {"NONE", "PENDING"} /\ ~Skipped(row, s)
      BY DEF IInv, Control, MarkRunning
    <3>2. SUFFICES ASSUME NEW t \in (s + 1)..REPORT, Exists(row[t]) PROVE FALSE
      BY DEF Later
    <3>3. t \in Stages /\ s \in 1..(t - 1)
      BY DEF Stages, REPORT
    <3> QED
      BY <3>1, <3>2, <3>3 DEF IInv, TableOK, TableInv, FrontierIn, Behind
  <2>4. TableStep
    BY <1>2, <2>1, <2>2, <2>3, RowFacts, MoveSet DEF StepOf
  <2>5. LogStep
    BY <1>2, <2>1, <2>2 DEF LogStep
  <2> QED
    BY <1>2, <2>4, <2>5, CtxGone DEF Shape
<1> QED
  BY <1>1, <1>2 DEF MarkRunning

(* The handler returns, raises or is cancelled.                             *)
LEMMA HandlerShape ==
    ASSUME IInv, NEW s \in Stages, Complete(s) \/ Fail(s) \/ Cancel(s)
    PROVE  Shape
<1>0. row[s].status = "RUNNING"
  BY DEF IInv, Control, Complete, Fail, Cancel
<1>1. CASE Complete(s)
  <2>1. PICK res \in Results(s) : SetRow(s, Completed(row[s], s, res))
    BY <1>1 DEF Complete
  <2>2. res \in ResultRecord
    BY RowFacts, ResultsType
  <2>3. Completed(row[s], s, res) \in Row /\ Completed(row[s], s, res).status = "SUCCEEDED"
    BY <2>2, RowFacts, CompletedType
  <2>4. row'[s] = Completed(row[s], s, res)
    BY <2>1, <2>3, RowFacts, ExceptAt DEF SetRow, TableOK
  <2>5. StepOf(s)
    BY <1>0, <2>4 DEF StepOf, Done
  <2>6. (\E t, st : Return(t, st)) \/ Rescan
    BY <1>1 DEF Complete
  <2>7. activity' = activity \cup {<<"output", s, row[s].attempt>>}
    BY <1>1 DEF Complete
  <2> QED
    BY <1>0, <2>1, <2>3, <2>5, <2>6, <2>7, RowFacts, TouchShape
<1>2. CASE Fail(s)
  <2>0. PICK e \in FailKinds : \E f \in Raised(s, e) :
          /\ SetRow(s, MarkedFailed(row[s], f, {Ref("evidence", s, row[s].attempt)}))
          /\ Goto("decide", s) \/ Return(s, f.status)
    BY <1>2 DEF Fail
  <2>1. PICK f \in Raised(s, e) :
          /\ SetRow(s, MarkedFailed(row[s], f, {Ref("evidence", s, row[s].attempt)}))
          /\ Goto("decide", s) \/ Return(s, f.status)
    BY <2>0
  <2>2. f \in FailureRecord
    BY RaisedType, RunnerAssumption
  <2>3. {Ref("evidence", s, row[s].attempt)} \in RefSets
    BY RowFacts, RefType DEF Row, Stages, RefSets
  <2>4. activity' = activity \cup {<<"failure", s, row[s].attempt>>}
    BY <1>2 DEF Fail
  <2> QED
    BY <1>0, <2>1, <2>2, <2>3, <2>4, MarkShape
<1>3. CASE Cancel(s)
  <2>1. Blocked("CANCELLED", TRUE) \in FailureRecord /\ {} \in RefSets
    BY DEF Blocked, FailureRecord, Errors, RefSets
  <2> QED
    BY <1>0, <1>3, <2>1, MarkShape DEF Cancel
<1> QED
  BY <1>1, <1>2, <1>3

(* The failed stage is restarted, at its own or an earlier stage.           *)
LEMMA RestartShape ==
    ASSUME IInv, NEW s \in Stages, RecoveryRestart(s)
    PROVE  Shape
<1>1. Failed(row[s]) /\ ~Spent(s)
  BY DEF RecoveryRestart, Deciding, IInv, Control
<1>2. activity' = activity \cup {<<"decision", s, row[s].attempt>>}
  BY DEF RecoveryRestart
<1>3. Acted(row[s]) /\ row[s].status # "RUNNING"
  BY <1>1 DEF Failed, Acted
<1>4. PICK action \in {"RETRY", "REGENERATE", "REBUILD"} :
          LET k == RestartStage(s, action)
          IN  IF k = 0 THEN UNCHANGED row /\ Return(s, row[s].status)
              ELSE row' = Recovering(row, s, k, action = "REBUILD") /\ Rescan
  BY DEF RecoveryRestart
<1> DEFINE k == RestartStage(s, action)
           b == action = "REBUILD"
<1>5. CASE k = 0
  <2>1. row' = row /\ Return(s, row[s].status)
    BY <1>4, <1>5
  <2> QED
    BY <1>2, <1>3, <2>1, MoveSame, LogAdd, CtxGone DEF Shape
<1>6. CASE k # 0
  <2>1. row' = Recovering(row, s, k, b) /\ Rescan
    BY <1>4, <1>6
  <2>2. k \in Stages /\ k <= s /\ (b => k = VERIFICATION_INITIAL)
    BY <1>6 DEF RestartStage, VERIFICATION_INITIAL, POC_CANDIDATE, POC_EXECUTION, Stages
  <2> HIDE DEF k, b
  <2> DEFINE i == (row[k].inputs \cup row[s].inputs) \cup row[s].outputs
                     \cup (row[s].decisions \cup {Decision(s, row[s])})
             o == IF row[s].origin # 0 THEN row[s].origin ELSE s
             d == row[s].decisions \cup {Decision(s, row[s])}
             r == Seed(i, row[s].number, row[s].revisions, o, d,
                       IF b THEN 0 ELSE row[s].env)
  <2>3. i \in RefSets /\ d \in RefSets /\ o \in 0..12
    <3>1. row[s] \in Row /\ row[k] \in Row
      BY <2>2, RowFacts
    <3>2. Decision(s, row[s]) \in Refs
      BY <3>1, RefType DEF Decision, Stages, Row
    <3> QED
      BY <3>1, <3>2 DEF Row, RefSets, Stages
  <2>4. row' = ReplaceFrom(row, k, r)
    BY <2>1 DEF Recovering, Lineage
  <2> HIDE DEF i, o, d
  <2>5. row'[k] = r
    BY <2>2, <2>4 DEF ReplaceFrom
  <2>6. b \in BOOLEAN
    BY DEF b
  <2>7. s \in k..12
    BY <2>2 DEF Stages
  <2>8. Restarted(k)
    BY <1>1, <2>2, <2>3, <2>5, <2>6, <2>7 DEF Restarted
  <2>9. TableStep
    BY <2>2, <2>4, <2>8, RowFacts, MoveReplace DEF StepOf
  <2>10. row'[s].status # "RUNNING"
    <3>1. CASE s = k
      BY <2>5, <3>1 DEF Seed, NoRow
    <3>2. CASE s # k
      BY <2>2, <2>4, <3>2, NoRowType DEF ReplaceFrom, Stages
    <3> QED BY <3>1, <3>2
  <2> QED
    BY <1>2, <1>3, <2>1, <2>9, <2>10, LogAdd, CtxGone DEF Shape
<1> QED BY <1>5, <1>6

(* A recovery decision is recorded, or carried out.                         *)
LEMMA DecideShape ==
    ASSUME IInv, NEW s \in Stages, Decide(s)
    PROVE  Shape
<1>0. Failed(row[s])
  BY DEF IInv, Control, Decide, RecoveryExhausted, RecoveryStop, AfterStop,
         RecoveryRestart, Deciding
<1>1. CASE RecoveryExhausted(s)
  BY <1>0, <1>1, CloseShape DEF RecoveryExhausted
<1>2. CASE RecoveryStop(s)
  <2>1. Stopped(row[s]) \in Row /\ Stopped(row[s]).status # "RUNNING"
    BY <1>0, RowFacts, RewriteType DEF Failed
  <2>2. row'[s] = Stopped(row[s])
    BY <1>2, <2>1, RowFacts, ExceptAt DEF RecoveryStop, SetRow, TableOK
  <2>3. StepOf(s)
    BY <1>0, <2>2 DEF StepOf, Closed
  <2>4. TableStep
    BY <1>0, <1>2, <2>1, <2>3, RowFacts, MoveSet DEF RecoveryStop
  <2>5. PICK agent \in BOOLEAN :
          activity' = activity \cup {<<"decision", s, row[s].attempt>>}
                        \cup (IF agent THEN {<<"stop", s, row[s].attempt>>} ELSE {})
    BY <1>2 DEF RecoveryStop
  <2>6. activity \subseteq activity' /\ \A e \in activity' : e \in activity
            \/ \E k \in {"decision", "stop"} : e = <<k, s, row[s].attempt>>
    BY <2>5
  <2>7. LogStep
    BY <1>0, <2>1, <2>2, <2>6, RowFacts DEF LogStep
  <2>8. CtxStep
    BY <1>2, CtxGone DEF RecoveryStop
  <2> QED BY <2>4, <2>7, <2>8 DEF Shape
<1>3. CASE AfterStop(s)
  <2>1. CASE s = POC_EXECUTION /\ PromotePocOrReturn(s)
    BY <1>0, <2>1, PromotePocShape
  <2>2. CASE /\ PromotableInitial(s) /\ SetRow(s, PromotedInitial(row[s]))
             /\ activity' = activity \cup {<<"output", s, row[s].attempt>>}
             /\ Rescan
    BY <2>2, PromoteInitialShape
  <2>3. CASE UNCHANGED <<row, activity>> /\ Return(s, row[s].status)
    BY <2>3, QuietShape
  <2> QED
    BY <1>3, <2>1, <2>2, <2>3 DEF AfterStop
<1>4. CASE RecoveryRestart(s)
  BY <1>4, RestartShape
<1> QED
  BY <1>1, <1>2, <1>3, <1>4 DEF Decide

(* A call is confirmed or found unspawned: the ceiling rises by one.        *)
LEMMA ResolvedShape ==
    ASSUME IInv, RowsOK, ConfirmCleanup \/ ReconcileUnspawned
    PROVE  Shape
<1>1. UNCHANGED <<row, ctx, pc, at>>
  BY DEF ConfirmCleanup, ReconcileUnspawned
<1>2. \A n \in Nat : Within(n) => Within(n + 1)'
  <2> USE DEF IInv, CountOK, Within, Owed
  <2>1. CASE ConfirmCleanup
    BY <2>1, MaxRecoveryAssumption DEF ConfirmCleanup, Grant
  <2>2. CASE ReconcileUnspawned
    BY <2>2, MaxRecoveryAssumption DEF ReconcileUnspawned, NoFault, counts
  <2> QED BY <2>1, <2>2
<1>3. \A e \in activity' : e \in activity
          \/ \E s \in Stages : e = <<"confirmed", s, row[s].attempt>> /\ Acted(row[s])
  <2>1. \A e \in Covered : \E s \in Stages :
            e = <<"confirmed", s, row[s].attempt>> /\ Acted(row[s])
    BY DEF Covered, Acted, Failed
  <2>2. CASE ReconcileUnspawned
    BY <2>1, <2>2 DEF ReconcileUnspawned
  <2>3. CASE ConfirmCleanup
    <3>1. PICK s \in {0} \cup {t \in Stages : \/ row[t].status = "RUNNING"
                                              \/ row[t].error = "CLEANUP"} :
            activity' = activity \cup Covered \cup
                          (IF s = 0 THEN {} ELSE {<<"confirmed", s, row[s].attempt>>})
      BY <2>3 DEF ConfirmCleanup
    <3>2. s # 0 => s \in Stages /\ Acted(row[s])
      BY <3>1 DEF RowsOK, Acted, Failed
    <3> QED
      BY <2>1, <3>1, <3>2
  <2> QED BY <2>2, <2>3
<1>4. LogStep
  <2>1. activity \subseteq activity'
    BY DEF ConfirmCleanup, ReconcileUnspawned
  <2> QED
    BY <1>1, <1>2, <1>3, <2>1 DEF LogStep, Keeps
<1>5. CtxStep
  BY <1>1 DEF CtxStep
<1> QED
  BY <1>1, <1>4, <1>5, MoveSame DEF Shape

(* Crashes, siblings, budgets, new code.                                    *)
LEMMA SurroundingsShape ==
    ASSUME IInv, \/ Crash \/ SiblingUnresolved
                 \/ \E s \in Stages : ReopenBudget(s) \/ Upgrade(s)
    PROVE  Shape
<1>1. CASE Crash
  BY <1>1, MoveSame, LogSame DEF Crash, Shape, CtxStep
<1>2. CASE SiblingUnresolved
  BY <1>2, MoveSame, LogSame DEF SiblingUnresolved, Shape, CtxStep
<1>3. ASSUME NEW s \in Stages, ReopenBudget(s) PROVE Shape
  <2> DEFINE r == [Reopened(row[s]) EXCEPT !.current = row[s].current]
  <2>1. Failed(row[s]) /\ SetRow(s, r) /\ grants' = grants + 1
    BY <1>3 DEF ReopenBudget, Failed, Grant
  <2>2. r \in Row
    <3>1. Reopened(row[s]) \in Row /\ row[s].current \in BOOLEAN
      BY <2>1, RowFacts, RewriteType DEF Row
    <3> QED BY <3>1 DEF Row
  <2>3. row'[s] = r
    BY <2>1, <2>2, RowFacts, ExceptAt DEF SetRow, TableOK
  <2>4. Refunded(s)
    BY <1>3, <2>1, <2>3 DEF Refunded, ReopenBudget, Grant
  <2> HIDE DEF r
  <2>5. TableStep
    BY <2>1, <2>2, <2>4, RowFacts, MoveSet DEF StepOf
  <2>6. UNCHANGED activity /\ UNCHANGED <<ctx, pc, at>> /\ pc = "idle"
    BY <1>3 DEF ReopenBudget
  <2>7. CtxStep
    BY <2>6 DEF CtxStep
  <2> QED
    BY <2>5, <2>6, <2>7, LogSame DEF Shape
<1>4. ASSUME NEW s \in Stages, Upgrade(s) PROVE Shape
  BY <1>4, RowFacts, MoveAge, LogSame DEF Upgrade, Shape, CtxStep
<1> QED
  BY <1>1, <1>2, <1>3, <1>4

(* Every step has the shape.                                                *)
LEMMA NextShape ==
    ASSUME IInv, RowsOK, [Next]_vars
    PROVE  Shape
<1>1. CASE UNCHANGED vars
  BY <1>1, MoveSame, LogSame DEF vars, Shape, CtxStep
<1>2. CASE Resume
  BY <1>2, ResumeShape
<1>3. CASE LoopDone
  BY <1>3, QuietShape DEF LoopDone, durable
<1>4. ASSUME NEW s \in Stages, Scan(s) PROVE Shape
  BY <1>4, ScanShape
<1>5. ASSUME NEW s \in Stages, MarkRunning(s) PROVE Shape
  BY <1>5, MarkRunningShape
<1>6. ASSUME NEW s \in Stages, Complete(s) \/ Fail(s) \/ Cancel(s) PROVE Shape
  BY <1>6, HandlerShape
<1>7. ASSUME NEW s \in Stages, Decide(s) PROVE Shape
  BY <1>7, DecideShape
<1>8. CASE ConfirmCleanup \/ ReconcileUnspawned
  BY <1>8, ResolvedShape
<1>9. CASE \/ Crash \/ SiblingUnresolved
           \/ \E s \in Stages : ReopenBudget(s) \/ Upgrade(s)
  BY <1>9, SurroundingsShape
<1> QED
  BY <1>1, <1>2, <1>3, <1>4, <1>5, <1>6, <1>7, <1>8, <1>9 DEF Next

-----------------------------------------------------------------------------
(* The fields a rewritten row keeps.                                        *)

(* What a success is made of.                                               *)
LEMMA CompletedFields ==
    ASSUME NEW r \in Row, NEW s \in Stages, NEW res \in ResultRecord
    PROVE  LET c == Completed(r, s, res)
           IN  /\ c.status = "SUCCEEDED" /\ c.current = r.current /\ c.attempt = r.attempt
               /\ c.number = r.number /\ c.revisions = r.revisions
               /\ c.error = "none" /\ c.retryable = FALSE /\ c.stop = r.stop
               /\ c.verdict = res.verdict /\ c.gate = res.gate
               /\ c.validated = res.validated
               /\ res.builds = FALSE => c.env = r.env
  BY DEF Completed, Row

(* Only the initial verification builds an environment.                     *)
LEMMA OnlyInitialBuilds ==
    ASSUME NEW s \in Stages, s # VERIFICATION_INITIAL, NEW res \in Results(s)
    PROVE  res.builds = FALSE
<1>1. Results(s) \in {PocResults, FinalResults, CweResults, GateResults,
                      FindingResults, ReportResults, {Plain}}
  BY DEF Results
<1>2. CASE res \in PocResults
  BY <1>2 DEF PocResults, Plain
<1>3. CASE res \in FinalResults
  <2>1. PICK v : res = [Plain EXCEPT !.verdict = v,
                                     !.validated = row[POC_EXECUTION].validated]
    BY <1>3 DEF FinalResults, FinalVerdict
  <2> QED
    BY <2>1 DEF Plain
<1>4. CASE res \in CweResults \/ res \in GateResults \/ res = Plain
  BY <1>4 DEF CweResults, GateResults, Plain
<1>5. CASE res \in FindingResults \/ res \in ReportResults
  BY <1>5 DEF FindingResults, ReportResults, Plain
<1> QED BY <1>1, <1>2, <1>3, <1>4, <1>5

(* A row that has run keeps its attempt, its number and its revisions as    *)
(* long as it is not started again.                                         *)
SameLineage(s) == /\ row'[s].attempt = row[s].attempt
                  /\ row'[s].number = row[s].number
                  /\ row'[s].revisions = row[s].revisions

(* Rows rewritten in place keep their lineage.                              *)
LEMMA LineageKept ==
    ASSUME TableOK, NEW s \in Stages,
           Keeps(s) \/ Aged(s) \/ Done(s) \/ Marked(s) \/ Closed(s) \/ Promoted(s)
    PROVE  SameLineage(s)
<1>1. row[s] \in Row
  BY DEF TableOK
<1>2. CASE Keeps(s) \/ Aged(s)
  BY <1>1, <1>2 DEF Keeps, Aged, SameLineage, Row
<1>3. CASE Done(s)
  <2>1. PICK res \in Results(s) : row'[s] = Completed(row[s], s, res)
    BY <1>3 DEF Done
  <2>2. res \in ResultRecord
    BY ResultsType
  <2>3. LET c == Completed(row[s], s, res)
        IN  c.attempt = row[s].attempt /\ c.number = row[s].number
              /\ c.revisions = row[s].revisions
    BY <1>1, <2>2, CompletedFields
  <2> QED
    BY <2>1, <2>3 DEF SameLineage
<1>4. CASE Marked(s)
  BY <1>1, <1>4 DEF Marked, MarkedFailed, SameLineage, Row
<1>5. CASE Closed(s)
  BY <1>1, <1>5 DEF Closed, Stopped, Exhausted, SameLineage, Row
<1>6. CASE Promoted(s)
  BY <1>1, <1>6 DEF Promoted, PromotedPoc, PromotedInitial, SameLineage, Row
<1> QED BY <1>2, <1>3, <1>4, <1>5, <1>6

(* The environment changes only where it is built.                          *)
LEMMA EnvKept ==
    ASSUME TableOK, NEW s \in Stages,
           Keeps(s) \/ Aged(s) \/ Done(s) \/ Marked(s) \/ Closed(s) \/ Promoted(s)
             \/ Replayed(s) \/ Refunded(s)
    PROVE  s # VERIFICATION_INITIAL => row'[s].env = row[s].env
<1>1. row[s] \in Row
  BY DEF TableOK
<1>2. CASE Keeps(s) \/ Aged(s)
  BY <1>1, <1>2 DEF Keeps, Aged, Row
<1>3. CASE Done(s)
  <2>1. PICK res \in Results(s) : row'[s] = Completed(row[s], s, res)
    BY <1>3 DEF Done
  <2>2. s # VERIFICATION_INITIAL => res.builds = FALSE
    BY OnlyInitialBuilds
  <2>3. res.builds = FALSE => Completed(row[s], s, res).env = row[s].env
    BY <1>1 DEF Completed, Row
  <2> QED
    BY <2>1, <2>2, <2>3
<1>4. CASE Marked(s)
  BY <1>1, <1>4 DEF Marked, MarkedFailed, Row
<1>5. CASE Closed(s)
  BY <1>1, <1>5 DEF Closed, Stopped, Exhausted, Row
<1>6. CASE Promoted(s)
  BY <1>1, <1>6 DEF Promoted, PromotedPoc, PromotedInitial, Row
<1>7. CASE Replayed(s)
  BY <1>1, <1>7 DEF Replayed, Reopened, Row
<1>8. CASE Refunded(s)
  BY <1>1, <1>8 DEF Refunded, Reopened, Row
<1> QED BY <1>2, <1>3, <1>4, <1>5, <1>6, <1>7, <1>8

(* A replayed row keeps its count; it has no attempt of its own yet.        *)
LEMMA ReopenedFields ==
    ASSUME row \in [Stages -> Row], NEW s \in Stages, Replayed(s) \/ Refunded(s)
    PROVE  /\ row'[s].number = row[s].number /\ row'[s].revisions = row[s].revisions
           /\ row'[s].status = "PENDING" /\ row'[s].error = "none"
           /\ row'[s].validated = row[s].validated /\ row'[s].stop = row[s].stop
<1>1. row[s] \in Row
  OBVIOUS
<1>2. CASE Replayed(s)
  BY <1>1, <1>2 DEF Replayed, Reopened, Row
<1>3. CASE Refunded(s)
  BY <1>1, <1>3 DEF Refunded, Reopened, Row
<1> QED BY <1>2, <1>3

(* A seeded row is PENDING and carries only what it is given.               *)
LEMMA SeedFields ==
    ASSUME NEW i, NEW n, NEW v, NEW o, NEW d, NEW e
    PROVE  LET r == Seed(i, n, v, o, d, e)
           IN  /\ r.status = "PENDING" /\ r.number = n /\ r.revisions = v /\ r.env = e
               /\ r.error = "none" /\ r.validated = 0 /\ r.stop = FALSE
  BY DEF Seed, NoRow

(* The row mark_running will write: from the PENDING row, or from the row   *)
(* before.                                                                  *)
LEMMA RunningFields ==
    ASSUME NEW T \in [Stages -> Row], NEW s \in Stages, NEW fresh \in Nat
    PROVE  LET r == Running(T, s, fresh)
               base == IF T[s].status = "PENDING" THEN T[s] ELSE InheritFrom(T, s)
           IN  /\ r.error = "none" /\ r.validated = 0 /\ r.stop = FALSE
               /\ r.number = AttemptNumber(T, s) /\ r.revisions = base.revisions
               /\ r.env = base.env
  BY DEF Running, NoRow

(* What a stage without a row inherits from: itself, the last row before,   *)
(* or nothing.                                                              *)
LEMMA InheritedRow ==
    ASSUME NEW T \in [Stages -> Row], NEW s \in Stages
    PROVE  \/ InheritFrom(T, s) = NoRow /\ Prior(T, s) = {}
           \/ T[s].env # 0 /\ InheritFrom(T, s) = T[s]
           \/ \E p \in Prior(T, s) : /\ InheritFrom(T, s) = T[p]
                                     /\ \A q \in Prior(T, s) : q <= p
<1>1. CASE Prior(T, s) = {}
  BY <1>1 DEF InheritFrom, Preceding
<1>2. CASE Prior(T, s) # {}
  <2>1. Prior(T, s) \in SUBSET (1..11)
    BY DEF Prior, Stages
  <2>2. /\ Preceding(T, s) \in Prior(T, s)
        /\ \A q \in Prior(T, s) : q <= Preceding(T, s)
    BY <2>1, <1>2, LatestIn DEF Preceding
  <2>3. Preceding(T, s) # 0
    BY <2>1, <2>2
  <2> QED
    BY <2>2, <2>3 DEF InheritFrom
<1> QED BY <1>1, <1>2

-----------------------------------------------------------------------------
(* The status of a row after a step.                                        *)

(* Which step leads to which status.                                        *)
LEMMA StatusAfter ==
    ASSUME IInv, NEW s \in Stages
    PROVE  /\ Keeps(s) \/ Aged(s) => row'[s].status = row[s].status
           /\ Gone(s) => row'[s].status = "NONE"
           /\ Began(s) => row'[s].status = "RUNNING"
           /\ Done(s) \/ Promoted(s) => row'[s].status = "SUCCEEDED"
           /\ Marked(s) \/ Closed(s) => Failed(row'[s])
           /\ Replayed(s) \/ Refunded(s) \/ Restarted(s) \/ Revised(s) =>
                 row'[s].status = "PENDING"
<1>1. row[s] \in Row /\ TableOK
  BY RowFacts
<1>2. Keeps(s) \/ Aged(s) => row'[s].status = row[s].status
  BY <1>1 DEF Keeps, Aged, Row
<1>3. Gone(s) => row'[s].status = "NONE"
  BY NoRowType DEF Gone
<1>4. Began(s) => row'[s].status = "RUNNING"
  BY DEF Began, IInv, Control
<1>5. Done(s) => row'[s].status = "SUCCEEDED"
  BY <1>1, ResultsType, CompletedType DEF Done
<1>6. Promoted(s) => row'[s].status = "SUCCEEDED"
  BY <1>1 DEF Promoted, PromotedPoc, PromotedInitial, Row
<1>7. Marked(s) => Failed(row'[s])
  BY <1>1, MarkedFailedType DEF Marked, FailureRecord, Failed
<1>8. Closed(s) => Failed(row'[s])
  <2>1. Stopped(row[s]).status = row[s].status /\ Exhausted(row[s]).status = "BLOCKED"
    BY <1>1 DEF Stopped, Exhausted, Row
  <2> QED
    BY <2>1 DEF Closed, Failed
<1>9. Replayed(s) \/ Refunded(s) => row'[s].status = "PENDING"
  BY <1>1, ReopenedFields DEF TableOK
<1>10. Restarted(s) \/ Revised(s) => row'[s].status = "PENDING"
  <2>1. SUFFICES ASSUME Restarted(s) \/ Revised(s) PROVE row'[s].status = "PENDING"
    OBVIOUS
  <2>2. PICK i, n, v, o, d, e : row'[s] = Seed(i, n, v, o, d, e)
    BY <2>1 DEF Restarted, Revised
  <2> QED
    BY <2>2 DEF Seed, NoRow
<1> QED
  BY <1>2, <1>3, <1>4, <1>5, <1>6, <1>7, <1>8, <1>9, <1>10

(* Where a running row comes from.                                          *)
LEMMA RunningAfter ==
    ASSUME IInv, NEW s \in Stages, StepOf(s), row'[s].status = "RUNNING"
    PROVE  Began(s) \/ ((Keeps(s) \/ Aged(s)) /\ row[s].status = "RUNNING")
  BY StatusAfter DEF StepOf, Failed

(* Where a success comes from.                                              *)
LEMMA SucceededAfter ==
    ASSUME IInv, NEW s \in Stages, StepOf(s), row'[s].status = "SUCCEEDED"
    PROVE  \/ Done(s) \/ Promoted(s)
           \/ (Keeps(s) \/ Aged(s)) /\ row[s].status = "SUCCEEDED"
  BY StatusAfter DEF StepOf, Failed

(* Where a row a handler was started for comes from.                        *)
LEMMA ActedAfter ==
    ASSUME IInv, NEW s \in Stages, StepOf(s), Acted(row'[s])
    PROVE  Began(s) \/ (SameLineage(s) /\ Acted(row[s]))
<1>1. \/ Began(s)
      \/ Keeps(s) \/ Aged(s) \/ Done(s) \/ Marked(s) \/ Closed(s) \/ Promoted(s)
  BY StatusAfter DEF StepOf, Acted
<1>2. CASE Keeps(s) \/ Aged(s)
  BY <1>2, StatusAfter, RowFacts, LineageKept DEF Acted
<1>3. CASE Done(s) \/ Marked(s) \/ Closed(s) \/ Promoted(s)
  <2>1. Acted(row[s])
    BY <1>3 DEF Done, Marked, Closed, Promoted, Acted, Failed, Reusable
  <2> QED
    BY <1>3, <2>1, RowFacts, LineageKept
<1> QED
  BY <1>1, <1>2, <1>3

(* What the earlier rows are compared by is not their version.              *)
LEMMA SameFields ==
    ASSUME IInv, NEW p \in Stages, Keeps(p) \/ Aged(p)
    PROVE  /\ row'[p].status = row[p].status /\ row'[p].attempt = row[p].attempt
           /\ row'[p].verdict = row[p].verdict /\ row'[p].gate = row[p].gate
           /\ row'[p].validated = row[p].validated /\ row'[p].env = row[p].env
           /\ row'[p].error = row[p].error /\ row'[p].stop = row[p].stop
  BY RowFacts DEF Keeps, Aged, Row

-----------------------------------------------------------------------------
(* What the rows themselves hold.                                           *)

(* Errors, validated PoCs and STOPs are stored only where they belong.      *)
LEMMA RowsKeep ==
    ASSUME IInv, RowsOK, CtxOK, TableStep
    PROVE  RowsOK'
<1>1. SUFFICES ASSUME NEW s \in Stages
               PROVE  (/\ row[s].status = "NONE" => row[s] = NoRow
                       /\ row[s].error # "none" => Failed(row[s])
                       /\ row[s].status # "SUCCEEDED" => row[s].validated = 0
                       /\ row[s].status = "RUNNING" => row[s].stop = FALSE
                       /\ row[s].status = "SUCCEEDED" /\ row[s].stop =>
                             row[s].verdict = "HOLD" /\ row[s].validated = 0)'
  BY DEF RowsOK
<1>2. /\ row[s].status = "NONE" => row[s] = NoRow
      /\ row[s].error # "none" => Failed(row[s])
      /\ row[s].status # "SUCCEEDED" => row[s].validated = 0
      /\ row[s].status = "RUNNING" => row[s].stop = FALSE
      /\ row[s].status = "SUCCEEDED" /\ row[s].stop =>
            row[s].verdict = "HOLD" /\ row[s].validated = 0
  BY DEF RowsOK
<1>3. row[s] \in Row /\ TableOK
  BY RowFacts
<1>4. CASE Keeps(s)
  BY <1>2, <1>4 DEF Keeps
<1>5. CASE Aged(s)
  BY <1>2, <1>5, SameFields DEF Aged, Exists, Failed
<1>6. CASE Gone(s)
  BY <1>6, NoRowType DEF Gone, NoRow
<1>7. CASE Began(s)
  BY <1>7, StatusAfter DEF CtxOK, Began
<1>8. CASE Done(s)
  <2>1. PICK res \in Results(s) : row'[s] = Completed(row[s], s, res)
    BY <1>8 DEF Done
  <2>2. res \in ResultRecord
    BY <1>3, ResultsType
  <2>3. LET c == Completed(row[s], s, res)
        IN  c.status = "SUCCEEDED" /\ c.error = "none" /\ c.stop = row[s].stop
    BY <1>3, <2>2, CompletedFields
  <2>4. row[s].stop = FALSE
    BY <1>2, <1>8 DEF Done
  <2> QED
    BY <2>1, <2>3, <2>4
<1>9. CASE Marked(s)
  <2>1. Failed(row'[s]) /\ row'[s].validated = row[s].validated
    BY <1>3, <1>9, StatusAfter DEF Marked, MarkedFailed, Row
  <2>2. row[s].validated = 0
    BY <1>2, <1>9 DEF Marked, Reusable, EndsVerified, TerminalInitial, TerminalPoc
  <2> QED
    BY <2>1, <2>2 DEF Failed
<1>10. CASE Closed(s)
  <2>1. Failed(row'[s]) /\ row'[s].validated = row[s].validated
    BY <1>3, <1>10, StatusAfter DEF Closed, Stopped, Exhausted, Row
  <2> QED
    BY <1>2, <1>10, <2>1 DEF Closed, Failed
<1>11. CASE Promoted(s)
  <2>1. /\ row'[s].status = "SUCCEEDED" /\ row'[s].validated = row[s].validated
        /\ row'[s].error = "none" /\ row'[s].verdict = "HOLD"
    BY <1>3, <1>11 DEF Promoted, PromotedPoc, PromotedInitial, Row
  <2>2. row[s].validated = 0
    BY <1>2, <1>11 DEF Promoted, Failed
  <2> QED
    BY <2>1, <2>2
<1>12. CASE Replayed(s) \/ Refunded(s)
  <2>1. row[s].status # "SUCCEEDED"
    BY <1>12 DEF Replayed, Refunded, Failed
  <2> QED
    BY <1>2, <1>3, <1>12, <2>1, ReopenedFields DEF TableOK
<1>13. CASE Restarted(s) \/ Revised(s)
  <2>1. PICK i, n, v, o, d, e : row'[s] = Seed(i, n, v, o, d, e)
    BY <1>13 DEF Restarted, Revised
  <2>2. /\ row'[s].status = "PENDING" /\ row'[s].error = "none"
        /\ row'[s].validated = 0
    BY <2>1 DEF Seed, NoRow
  <2> QED
    BY <2>2
<1> QED
  BY <1>4, <1>5, <1>6, <1>7, <1>8, <1>9, <1>10, <1>11, <1>12, <1>13 DEF TableStep, StepOf

(* The row to be written starts clean.                                      *)
LEMMA CtxKeeps ==
    ASSUME IInv, CtxOK, CtxStep
    PROVE  CtxOK'
<1>1. CASE ctx' = NoRow
  BY <1>1 DEF CtxOK, NoRow
<1>2. CASE UNCHANGED <<ctx, pc, at>>
  BY <1>2 DEF CtxOK
<1>3. ASSUME NEW s \in Stages, Prepare(s) PROVE CtxOK'
  <2>1. ctx' = Running(row, s, nextId) /\ row \in [Stages -> Row] /\ nextId \in Nat
    BY <1>3 DEF Prepare, IInv, TableOK, CountOK
  <2> QED
    BY <2>1, RunningFields DEF CtxOK
<1> QED
  BY <1>1, <1>2, <1>3 DEF CtxStep

(* Every event has its start event before it, and a running attempt has no  *)
(* other event yet.                                                         *)
LEMMA EventsKeep ==
    ASSUME IInv, EventsOK, RunningFresh, TableStep, LogStep
    PROVE  EventsOK' /\ RunningFresh'
<1>1. activity \subseteq activity'
  BY DEF LogStep
<1>2. ASSUME NEW e \in activity' PROVE <<"start", e[2], e[3]>> \in activity'
  <2>1. CASE e \in activity
    BY <1>1, <2>1 DEF EventsOK
  <2>2. CASE \E s \in Stages : e = <<"start", s, ctx.attempt>>
    BY <2>2
  <2>3. CASE \E s \in Stages, k \in {"output", "failure", "decision", "stop", "confirmed"} :
                e = <<k, s, row[s].attempt>> /\ Acted(row[s])
    BY <1>1, <2>3 DEF EventsOK
  <2> QED
    BY <2>1, <2>2, <2>3 DEF LogStep
<1>3. ASSUME NEW s \in Stages, Acted(row'[s])
      PROVE  <<"start", s, row'[s].attempt>> \in activity'
  <2>1. CASE Began(s)
    BY <2>1 DEF Began
  <2>2. CASE SameLineage(s) /\ Acted(row[s])
    BY <1>1, <2>2 DEF SameLineage, EventsOK
  <2> QED
    BY <1>3, <2>1, <2>2, ActedAfter DEF TableStep
<1>4. ASSUME NEW s \in Stages, row'[s].status = "RUNNING",
             NEW k \in {"output", "failure", "decision", "stop"},
             <<k, s, row'[s].attempt>> \in activity'
      PROVE  FALSE
  <2>1. <<k, s, row'[s].attempt>> \in activity
    BY <1>4 DEF LogStep
  <2>2. CASE Began(s)
    <3>1. <<"start", s, row'[s].attempt>> \in activity
      BY <2>1 DEF EventsOK
    <3> QED
      BY <2>2, <3>1 DEF Began
  <2>3. CASE (Keeps(s) \/ Aged(s)) /\ row[s].status = "RUNNING"
    BY <2>1, <2>3, SameFields DEF RunningFresh
  <2> QED
    BY <1>4, <2>2, <2>3, RunningAfter DEF TableStep
<1> QED
  BY <1>2, <1>3, <1>4 DEF EventsOK, RunningFresh

-----------------------------------------------------------------------------
(* Attempts and revisions.                                                  *)

(* The counts only grow, and an unresolved call appears only with a fault.  *)
CountStep == /\ faults' \in Nat /\ grants' \in Nat
             /\ faults' >= faults /\ grants' >= grants
             /\ codex' = "unresolved" => codex = "unresolved" \/ faults' >= faults + 1

(* Steps that leave the open call alone.                                    *)
LEMMA CodexSame ==
    ASSUME CountOK, UNCHANGED codex, NoFault \/ Fault \/ Grant
    PROVE  CountStep
  BY DEF CountOK, NoFault, Fault, Grant, counts, CountStep

(* Every step keeps the counts.                                             *)
LEMMA CountsGrow ==
    ASSUME IInv, [Next]_vars
    PROVE  CountStep
<1>0. CountOK
  BY DEF IInv
<1>1. CASE UNCHANGED vars
  BY <1>0, <1>1, CodexSame DEF vars, NoFault
<1>2. ASSUME NEW s \in Stages, VerifyTerminal(s) \/ PromotePocOrReturn(s) PROVE CountStep
  BY <1>0, <1>2, CodexSame DEF VerifyTerminal, PromotePocOrReturn
<1>3. CASE Resume
  BY <1>0, <1>2, <1>3, CodexSame
     DEF Resume, ResumeTerminal, ResumeOpen, durable, POC_EXECUTION, Stages
<1>4. CASE LoopDone
  BY <1>0, <1>4, CodexSame DEF LoopDone, durable
<1>5. ASSUME NEW s \in Stages, Scan(s) PROVE CountStep
  <2>1. CASE PocDecided(s) \/ ReuseTerminal(s)
    BY <1>2, <2>1 DEF PocDecided, ReuseTerminal
  <2>2. CASE PocStaysClosed(s) \/ RecoverFailed(s) \/ ReuseEnds(s)
    BY <1>0, <2>2, CodexSame DEF PocStaysClosed, RecoverFailed, ReuseEnds, durable
  <2>3. CASE StaleStage(s) \/ PromoteInitial(s) \/ ReplayConfirmed(s) \/ Interrupted(s)
    BY <1>0, <2>3, CodexSame DEF StaleStage, PromoteInitial, ReplayConfirmed, Interrupted
  <2>4. CASE ReplayGuarded(s) \/ PrepareGateRevision(s) \/ Prepare(s)
    BY <1>0, <2>4, CodexSame DEF ReplayGuarded, PrepareGateRevision, Prepare
  <2> QED
    BY <1>5, <2>1, <2>2, <2>3, <2>4 DEF Scan
<1>6. ASSUME NEW s \in Stages, MarkRunning(s) \/ Complete(s) \/ Cancel(s) PROVE CountStep
  BY <1>0, <1>6, CodexSame DEF MarkRunning, Complete, Cancel
<1>7. ASSUME NEW s \in Stages, Fail(s) PROVE CountStep
  <2>1. UNCHANGED <<faults, grants>> /\ codex' \in {"spawned", codex}
    BY <1>7 DEF Fail
  <2> QED
    BY <1>0, <2>1 DEF CountOK, CountStep
<1>8. ASSUME NEW s \in Stages, Decide(s) PROVE CountStep
  <2>1. CASE RecoveryExhausted(s) \/ RecoveryStop(s) \/ RecoveryRestart(s)
    BY <1>0, <2>1, CodexSame DEF RecoveryExhausted, RecoveryStop, RecoveryRestart
  <2>2. CASE AfterStop(s)
    BY <1>0, <1>2, <2>2, CodexSame DEF AfterStop
  <2> QED
    BY <1>8, <2>1, <2>2 DEF Decide
<1>9. ASSUME NEW s \in Stages, ReopenBudget(s) \/ Upgrade(s) PROVE CountStep
  <2>1. CASE ReopenBudget(s)
    BY <1>0, <2>1, CodexSame DEF ReopenBudget
  <2>2. CASE Upgrade(s)
    BY <1>0, <2>2 DEF Upgrade, CountOK, CountStep
  <2> QED BY <1>9, <2>1, <2>2
<1>10. CASE Crash \/ SiblingUnresolved
  BY <1>0, <1>10 DEF Crash, SiblingUnresolved, Fault, CountOK, CountStep
<1>11. CASE ConfirmCleanup \/ ReconcileUnspawned
  BY <1>0, <1>11 DEF ConfirmCleanup, ReconcileUnspawned, Grant, NoFault, counts,
                     CountOK, CountStep
<1> QED
  BY <1>1, <1>3, <1>4, <1>5, <1>6, <1>7, <1>8, <1>9, <1>10, <1>11 DEF Next

(* What was within the ceiling stays within it.                             *)
LEMMA CeilingGrows ==
    ASSUME IInv, CountStep, NEW n \in Nat, Within(n)
    PROVE  n + (IF codex' = "unresolved" THEN 1 ELSE 0) <= MaxRecovery + grants' + faults'
<1>1. /\ MaxRecovery \in Nat /\ grants \in Nat /\ faults \in Nat
  BY MaxRecoveryAssumption DEF IInv, CountOK
<1>2. PICK g \in Nat : g = grants'
  BY DEF CountStep
<1>3. PICK f \in Nat : f = faults'
  BY DEF CountStep
<1>4. /\ g >= grants /\ f >= faults
      /\ codex' = "unresolved" => codex = "unresolved" \/ f >= faults + 1
  BY <1>2, <1>3 DEF CountStep
<1>5. n <= MaxRecovery + grants + faults
  BY <1>1 DEF Within, Owed
<1>6. codex = "unresolved" => n + 1 <= MaxRecovery + grants + faults
  BY DEF Within, Owed
<1>7. n <= MaxRecovery + g + f
  BY <1>1, <1>4, <1>5
<1>8. codex' = "unresolved" => n + 1 <= MaxRecovery + g + f
  <2>1. CASE codex = "unresolved"
    BY <1>1, <1>4, <1>6, <2>1
  <2>2. CASE f >= faults + 1
    BY <1>1, <1>4, <1>5, <2>2
  <2> QED BY <1>4, <2>1, <2>2
<1>9. n + (IF codex' = "unresolved" THEN 1 ELSE 0) <= MaxRecovery + g + f
  BY <1>7, <1>8
<1> QED
  BY <1>2, <1>3, <1>9

(* The first attempt, and an attempt below the limit, are within it.        *)
LEMMA CeilingFloor ==
    ASSUME IInv, AttemptsOK, NEW n \in Nat, n <= MaxRecovery
    PROVE  Within(n)
  BY MaxRecoveryAssumption DEF IInv, CountOK, AttemptsOK, Within, Owed

(* The row about to be written is within the ceiling.                       *)
LEMMA CtxWithin ==
    ASSUME IInv, AttemptsOK, CtxStep
    PROVE  Within(ctx'.number) /\ ctx'.number \in Nat
<1> USE DEF AttemptsOK
<1>0. ctx.number \in Nat /\ row \in [Stages -> Row] /\ nextId \in Nat
  BY DEF IInv, ProcOK, Row, TableOK, CountOK
<1>1. CASE ctx' = NoRow
  BY <1>1, CeilingFloor, MaxRecoveryAssumption DEF NoRow
<1>2. CASE UNCHANGED <<ctx, pc, at>>
  BY <1>0, <1>2
<1>3. ASSUME NEW s \in Stages, Prepare(s) PROVE Within(ctx'.number) /\ ctx'.number \in Nat
  <2>1. ctx'.number = AttemptNumber(row, s)
    BY <1>0, <1>3, RunningFields DEF Prepare
  <2>2. CASE row[s].status = "PENDING"
    <3>1. ctx'.number = row[s].number + 1
      BY <2>1, <2>2 DEF AttemptNumber
    <3>2. Within(row[s].number + 1) /\ row[s].number \in Nat
      BY <1>0, <2>2 DEF Row
    <3> QED BY <3>1, <3>2
  <2>3. CASE row[s].status # "PENDING"
    <3>1. InheritFrom(row, s) = NoRow \/ \E p \in Stages : InheritFrom(row, s) = row[p]
      BY <1>0, InheritedRow DEF Prior, Stages
    <3>2. Within(InheritFrom(row, s).number) /\ InheritFrom(row, s).number \in Nat
      <4>1. CASE InheritFrom(row, s) = NoRow
        BY <4>1, CeilingFloor, MaxRecoveryAssumption DEF NoRow
      <4>2. ASSUME NEW p \in Stages, InheritFrom(row, s) = row[p]
            PROVE  Within(row[p].number) /\ row[p].number \in Nat
        BY <1>0 DEF Row
      <4> QED BY <3>1, <4>1, <4>2
    <3>3. Within(1)
      BY CeilingFloor, MaxRecoveryAssumption
    <3> QED
      BY <2>1, <2>3, <3>2, <3>3 DEF AttemptNumber
  <2> QED BY <2>2, <2>3
<1> QED
  BY <1>1, <1>2, <1>3 DEF CtxStep

(* No row goes over the ceiling, whatever step it takes.                    *)
LEMMA AttemptsKeep ==
    ASSUME IInv, RowsOK, EventsOK, AttemptsOK, Shape, CountStep
    PROVE  AttemptsOK'
<1> DEFINE In(n) == n + (IF codex' = "unresolved" THEN 1 ELSE 0)
                      <= MaxRecovery + grants' + faults'
<1>1. \A n \in Nat : Within(n) => In(n)
  BY CeilingGrows
<1>2. (codex = "unresolved" => faults >= 1)'
  BY DEF AttemptsOK, CountStep, IInv, CountOK
<1>3. In(ctx'.number)
  BY <1>1, CtxWithin DEF Shape
<1>4. ASSUME NEW s \in Stages
      PROVE  /\ In(row'[s].number)
             /\ row'[s].status = "PENDING" => In(row'[s].number + 1)
             /\ <<"confirmed", s, row'[s].attempt>> \in activity' => In(row'[s].number + 1)
  <2> HIDE DEF In
  <2>1. /\ row[s] \in Row /\ row[s].number \in Nat /\ Within(row[s].number)
        /\ row[s].status = "PENDING" => Within(row[s].number + 1)
        /\ <<"confirmed", s, row[s].attempt>> \in activity => Within(row[s].number + 1)
    BY RowFacts DEF AttemptsOK, Row
  <2>2. \A t \in Stages : row[t].number \in Nat /\ (~Spent(t) => In(row[t].number + 1))
    <3>1. \A t \in Stages : row[t].number \in Nat
      BY RowFacts DEF Row
    <3>2. \A t \in Stages : ~Spent(t) => row[t].number + 1 <= MaxRecovery
      BY <3>1, MaxRecoveryAssumption DEF Spent
    <3> QED
      BY <1>1, <3>1, <3>2, CeilingFloor
  <2>3. In(0) /\ In(1)
    BY <1>1, CeilingFloor, MaxRecoveryAssumption
  <2>4. \A n \in Nat : In(n + 1) => In(n)
    <3>1. PICK g \in Nat : g = grants'
      BY DEF CountStep
    <3>2. PICK f \in Nat : f = faults'
      BY DEF CountStep
    <3>3. \A n \in Nat : n + 1 + (IF codex' = "unresolved" THEN 1 ELSE 0) <= MaxRecovery + g + f
                        => n + (IF codex' = "unresolved" THEN 1 ELSE 0) <= MaxRecovery + g + f
      BY MaxRecoveryAssumption
    <3> QED
      BY <3>1, <3>2, <3>3 DEF In
  <2>5. CASE Keeps(s) \/ Aged(s) \/ Done(s) \/ Marked(s) \/ Closed(s) \/ Promoted(s)
    <3>1. SameLineage(s)
      BY <2>5, RowFacts, LineageKept
    <3>2. row'[s].status = "PENDING" => row[s].status = "PENDING"
      BY <2>5, StatusAfter DEF Failed
    <3>3. ASSUME <<"confirmed", s, row'[s].attempt>> \in activity'
          PROVE  In(row'[s].number + 1)
      <4>1. <<"confirmed", s, row[s].attempt>> \in activity
              \/ \A n \in Nat : Within(n) => Within(n + 1)'
        BY <3>1, <3>3 DEF Shape, LogStep, SameLineage
      <4>2. CASE <<"confirmed", s, row[s].attempt>> \in activity
        BY <1>1, <2>1, <3>1, <4>2 DEF SameLineage
      <4>3. CASE \A n \in Nat : Within(n) => Within(n + 1)'
        <5>1. \A n \in Nat : Within(n) => In(n + 1)
          BY <4>3 DEF Within, Owed, In
        <5> QED
          BY <2>1, <3>1, <5>1 DEF SameLineage
      <4> QED BY <4>1, <4>2, <4>3
    <3> QED
      BY <1>1, <2>1, <3>1, <3>2, <3>3 DEF SameLineage
  <2>6. CASE Gone(s)
    BY <2>3, <2>6 DEF Gone, NoRow
  <2>7. CASE Began(s)
    <3>1. /\ row'[s] = ctx /\ row'[s].status = "RUNNING"
          /\ ctx.number \in Nat /\ Within(ctx.number)
      BY <2>7, StatusAfter DEF Began, IInv, ProcOK, Row, AttemptsOK
    <3>2. <<"confirmed", s, ctx.attempt>> \notin activity
      <4>1. <<"start", s, ctx.attempt>> \notin activity
        BY <2>7 DEF Began
      <4> QED
        BY <4>1 DEF EventsOK
    <3>3. <<"confirmed", s, ctx.attempt>> \notin activity'
      BY <2>7, <3>2 DEF Began
    <3> QED
      BY <1>1, <3>1, <3>3
  <2>8. CASE Replayed(s)
    <3>1. row'[s].number = row[s].number
      BY <2>8, RowFacts, ReopenedFields DEF TableOK
    <3>2. In(row[s].number + 1)
      BY <1>1, <2>1, <2>2, <2>8 DEF Replayed
    <3> QED
      BY <2>1, <2>4, <3>1, <3>2
  <2>9. CASE Refunded(s)
    <3>1. row'[s].number = row[s].number
      BY <2>9, RowFacts, ReopenedFields DEF TableOK
    <3>2. In(row[s].number + 1)
      BY <2>1, <2>9, MaxRecoveryAssumption
         DEF Refunded, In, Within, Owed, IInv, CountOK
    <3> QED
      BY <2>1, <2>4, <3>1, <3>2
  <2>10. CASE Restarted(s)
    <3>1. \E t \in s..12 : ~Spent(t) /\ row'[s].number = row[t].number
      <4>1. PICK t \in s..12 : \E i, v, o, d, e : 
              ~Spent(t) /\ row'[s] = Seed(i, row[t].number, v, o, d, e)
        BY <2>10 DEF Restarted
      <4> QED
        BY <4>1 DEF Seed, NoRow
    <3>2. \A t \in s..12 : t \in Stages
      BY DEF Stages
    <3> QED
      BY <2>2, <2>4, <3>1, <3>2
  <2>11. CASE Revised(s)
    <3>1. PICK i, v, o, d, e : row'[s] = Seed(i, 0, v, o, d, e)
      BY <2>11 DEF Revised
    <3>2. row'[s].number = 0
      BY <3>1 DEF Seed, NoRow
    <3> QED
      BY <2>3, <3>2
  <2> QED
    BY <2>5, <2>6, <2>7, <2>8, <2>9, <2>10, <2>11 DEF Shape, TableStep, StepOf
<1> QED
  BY <1>2, <1>3, <1>4 DEF AttemptsOK, Within, Owed

(* The gate count of a seeded or running row comes from a row that had it,  *)
(* or is one more than a count below two.                                   *)
LEMMA RevisionsKeep ==
    ASSUME IInv, RevisionsOK, Shape
    PROVE  RevisionsOK'
<1>0. \A t \in Stages : row[t] \in Row /\ row[t].revisions \in Nat /\ row[t].revisions <= 2
  BY RowFacts DEF RevisionsOK, Row
<1>1. ctx'.revisions <= 2
  <2>1. CASE ctx' = NoRow
    BY <2>1 DEF NoRow
  <2>2. CASE UNCHANGED <<ctx, pc, at>>
    BY <2>2 DEF RevisionsOK
  <2>3. ASSUME NEW s \in Stages, Prepare(s) PROVE ctx'.revisions <= 2
    <3>0. row \in [Stages -> Row] /\ nextId \in Nat
      BY DEF IInv, TableOK, CountOK
    <3>1. ctx'.revisions = (IF row[s].status = "PENDING" THEN row[s]
                                                        ELSE InheritFrom(row, s)).revisions
      BY <2>3, <3>0, RunningFields DEF Prepare
    <3>2. InheritFrom(row, s) = NoRow \/ \E p \in Stages : InheritFrom(row, s) = row[p]
      BY <3>0, InheritedRow DEF Prior, Stages
    <3>3. InheritFrom(row, s).revisions <= 2
      BY <1>0, <3>2 DEF NoRow
    <3> QED
      BY <1>0, <3>1, <3>3
  <2> QED
    BY <2>1, <2>2, <2>3 DEF Shape, CtxStep
<1>2. ASSUME NEW s \in Stages PROVE row'[s].revisions <= 2
  <2>1. CASE Keeps(s) \/ Aged(s) \/ Done(s) \/ Marked(s) \/ Closed(s) \/ Promoted(s)
    BY <1>0, <2>1, RowFacts, LineageKept DEF SameLineage
  <2>2. CASE Gone(s)
    BY <2>2 DEF Gone, NoRow
  <2>3. CASE Began(s)
    BY <2>3 DEF Began, RevisionsOK
  <2>4. CASE Replayed(s) \/ Refunded(s)
    BY <1>0, <2>4, RowFacts, ReopenedFields DEF TableOK
  <2>5. CASE Restarted(s)
    <3>1. PICK t \in s..12 : \E i, n, o, d, e :
            row'[s] = Seed(i, n, row[t].revisions, o, d, e)
      BY <2>5 DEF Restarted
    <3>2. row'[s].revisions = row[t].revisions
      BY <3>1 DEF Seed, NoRow
    <3> QED
      BY <1>0, <3>2 DEF Stages
  <2>6. CASE Revised(s)
    <3>1. PICK i, e : row'[s] = Seed(i, 0, row[TECH_GATE].revisions + 1, 0, {}, e)
      BY <2>6 DEF Revised
    <3>2. row'[s].revisions = row[TECH_GATE].revisions + 1
      BY <3>1 DEF Seed, NoRow
    <3>3. row[TECH_GATE].revisions < 2 /\ row[TECH_GATE].revisions \in Nat
      BY <1>0, <2>6 DEF Revised, Reusable, Revises, TerminalGate, TECH_GATE, Stages
    <3> QED
      BY <3>2, <3>3
  <2> QED
    BY <2>1, <2>2, <2>3, <2>4, <2>5, <2>6 DEF Shape, TableStep, StepOf
<1> QED
  BY <1>1, <1>2 DEF RevisionsOK

-----------------------------------------------------------------------------
(* The environment and the validated PoC.                                   *)

(* A stage that starts takes the environment of the row before it, which is *)
(* the one the initial verification built.                                  *)
LEMMA CtxEnv ==
    ASSUME IInv, RowsOK, EnvOK, NEW s \in Stages, Prepare(s), s > VERIFICATION_INITIAL
    PROVE  ctx'.env = row'[VERIFICATION_INITIAL].env
<1>0. row \in [Stages -> Row] /\ nextId \in Nat /\ row[s] \in Row
  BY DEF IInv, TableOK, CountOK
<1>1. row'[VERIFICATION_INITIAL] = row[VERIFICATION_INITIAL]
  BY <1>0 DEF Prepare, InvalidateFrom, VERIFICATION_INITIAL, Stages
<1>2. row[s].status \in {"NONE", "PENDING"}
  BY <1>0 DEF Prepare, Recoverable, Row, Status
<1>3. ctx'.env = (IF row[s].status = "PENDING" THEN row[s] ELSE InheritFrom(row, s)).env
  BY <1>0, RunningFields DEF Prepare
<1>4. CASE row[s].status = "PENDING"
  <2>1. row[s].env = row[VERIFICATION_INITIAL].env
    BY <1>4 DEF EnvOK, EnvironmentCurrent, Exists
  <2> QED
    BY <1>1, <1>3, <1>4, <2>1
<1>5. CASE row[s].status = "NONE"
  <2>1. row[s].env = 0
    BY <1>5 DEF RowsOK, NoRow
  <2>2. VERIFICATION_INITIAL \in Prior(row, s)
    <3>1. VERIFICATION_INITIAL \in 1..(s - 1)
      BY DEF VERIFICATION_INITIAL, Stages
    <3>2. Passed(row, VERIFICATION_INITIAL)
      BY <3>1, ScanningBehind DEF Prepare, Open, IInv
    <3>3. row[VERIFICATION_INITIAL].status = "SUCCEEDED"
      BY <3>2 DEF Passed, Skipped, SkippedOnHold, Reusable, VERIFICATION_INITIAL, CWE,
                  TECH_GATE, SCOPE_GATE, FINDING, REPORT
    <3> QED
      BY <3>1, <3>3 DEF Prior, Exists
  <2>3. PICK p \in Prior(row, s) : /\ InheritFrom(row, s) = row[p]
                                   /\ \A q \in Prior(row, s) : q <= p
    BY <1>0, <2>1, <2>2, InheritedRow
  <2>4. p \in Stages /\ p >= VERIFICATION_INITIAL /\ Exists(row[p])
    BY <2>2, <2>3 DEF Prior, VERIFICATION_INITIAL, Stages
  <2>5. row[p].env = row[VERIFICATION_INITIAL].env
    BY <2>4 DEF EnvOK, EnvironmentCurrent, VERIFICATION_INITIAL, Stages
  <2> QED
    BY <1>1, <1>3, <1>5, <2>3, <2>5
<1> QED BY <1>2, <1>4, <1>5

(* Every later row keeps the environment of the initial verification.       *)
LEMMA EnvKeep ==
    ASSUME IInv, IInv', RowsOK, EnvOK, Shape
    PROVE  EnvOK'
<1>0. VERIFICATION_INITIAL \in Stages
  BY DEF VERIFICATION_INITIAL, Stages
<1>1. ASSUME NEW s \in Stages, s > VERIFICATION_INITIAL, Exists(row'[s])
      PROVE  row'[s].env = row'[VERIFICATION_INITIAL].env
  <2>1. row'[VERIFICATION_INITIAL].env = row[VERIFICATION_INITIAL].env
    <3>1. VERIFICATION_INITIAL \in 1..(s - 1)
      BY <1>1 DEF VERIFICATION_INITIAL, Stages
    <3>2. Keeps(VERIFICATION_INITIAL) \/ Aged(VERIFICATION_INITIAL)
      BY <1>1, <3>1 DEF Shape, TableStep, EarlierKept
    <3> QED
      BY <1>0, <3>2, SameFields
  <2>2. \A t \in Stages : t > VERIFICATION_INITIAL /\ Exists(row[t]) =>
                              row[t].env = row[VERIFICATION_INITIAL].env
    BY DEF EnvOK, EnvironmentCurrent
  <2>3. CASE \/ Keeps(s) \/ Aged(s) \/ Done(s) \/ Marked(s) \/ Closed(s) \/ Promoted(s)
             \/ Replayed(s) \/ Refunded(s)
    <3>1. Exists(row[s])
      BY <1>1, <2>3, StatusAfter DEF Done, Marked, Closed, Promoted, Replayed, Refunded,
                                    Reusable, Failed, Exists
    <3>2. row'[s].env = row[s].env
      BY <1>1, <2>3, EnvKept, RowFacts DEF VERIFICATION_INITIAL, Stages
    <3> QED
      BY <1>1, <2>1, <2>2, <3>1, <3>2
  <2>4. CASE Gone(s)
    BY <1>1, <2>4, NoRowType DEF Gone, Exists
  <2>5. CASE Began(s)
    BY <1>1, <2>1, <2>5 DEF Began, EnvOK
  <2>6. CASE Restarted(s)
    <3>1. s # VERIFICATION_INITIAL
      BY <1>1 DEF VERIFICATION_INITIAL, Stages
    <3>2. PICK t \in s..12 : Failed(row[t]) /\ \E i, n, v, o, d :
            row'[s] = Seed(i, n, v, o, d, row[t].env)
      BY <2>6, <3>1 DEF Restarted
    <3>3. row'[s].env = row[t].env
      BY <3>2 DEF Seed, NoRow
    <3>4. t \in Stages /\ t > VERIFICATION_INITIAL /\ Exists(row[t])
      BY <1>1, <3>2 DEF Stages, VERIFICATION_INITIAL, Failed, Exists
    <3> QED
      BY <2>1, <2>2, <3>3, <3>4
  <2>7. CASE Revised(s)
    <3>1. PICK p \in {POC_CANDIDATE, TECH_GATE} : \E i, n, v, o, d :
            row'[s] = Seed(i, n, v, o, d, row[p].env)
      BY <2>7 DEF Revised
    <3>2. row'[s].env = row[p].env
      BY <3>1 DEF Seed, NoRow
    <3>3. Exists(row[TECH_GATE]) /\ Behind(row, TECH_GATE)
      BY <2>7 DEF Revised, Reusable, Exists, IInv, TableOK, TableInv, FrontierIn,
                  TECH_GATE, Stages
    <3>4. Exists(row[POC_CANDIDATE])
      BY <3>3 DEF Behind, Exists, Skipped, SkippedOnHold, POC_CANDIDATE, CWE, TECH_GATE,
                  SCOPE_GATE, FINDING, REPORT
    <3>5. p \in Stages /\ p > VERIFICATION_INITIAL
      BY DEF POC_CANDIDATE, TECH_GATE, VERIFICATION_INITIAL, Stages
    <3> QED
      BY <2>1, <2>2, <3>2, <3>3, <3>4, <3>5
  <2> QED
    BY <2>3, <2>4, <2>5, <2>6, <2>7 DEF Shape, TableStep, StepOf
<1>2. ASSUME pc' = "start", at' > VERIFICATION_INITIAL
      PROVE  ctx'.env = row'[VERIFICATION_INITIAL].env
  <2>1. CASE ctx' = NoRow
    BY <1>2, <2>1, NoRowType DEF IInv, Control
  <2>2. CASE UNCHANGED <<ctx, pc, at>> /\ (pc = "idle" \/ UNCHANGED row)
    BY <1>2, <2>2 DEF EnvOK
  <2>3. ASSUME NEW s \in Stages, Prepare(s)
        PROVE  ctx'.env = row'[VERIFICATION_INITIAL].env
    <3>1. at' = s
      BY <2>3 DEF Prepare
    <3> QED
      BY <1>2, <2>3, <3>1, CtxEnv
  <2> QED
    BY <2>1, <2>2, <2>3 DEF Shape, CtxStep
<1> QED
  BY <1>1, <1>2 DEF EnvOK, EnvironmentCurrent

(* What the handlers of the chain may return.                               *)
LEMMA ChainResults ==
    /\ \A res \in Results(4) : res.validated \in {0, row[4].attempt}
    /\ \A res \in Results(5) : res.verdict = "TRUE" =>
          res.validated = row[4].validated /\ row[4].validated # 0
    /\ \A res \in Results(11) : /\ res.validated = row[5].validated
                                /\ row[5].verdict = "TRUE" /\ row[7].gate = "ACCEPT"
    /\ \A res \in Results(12) : /\ res.validated = row[11].validated
                                /\ row[11].status = "SUCCEEDED"
<1> USE DEF POC_EXECUTION, VERIFICATION_FINAL, TECH_GATE, FINDING, REPORT
<1>1. /\ Results(4) = PocResults /\ Results(5) = FinalResults
      /\ Results(11) = FindingResults /\ Results(12) = ReportResults
  BY DEF Results, VERIFICATION_INITIAL, CWE
<1>2. ASSUME NEW res \in PocResults PROVE res.validated \in {0, row[4].attempt}
  BY DEF PocResults, Plain
<1>3. ASSUME NEW res \in FinalResults, res.verdict = "TRUE"
      PROVE  res.validated = row[4].validated /\ row[4].validated # 0
  <2>1. PICK v \in {"FALSE", "HOLD"} \cup (IF row[4].validated # 0 THEN {"TRUE"} ELSE {}) :
          res = [Plain EXCEPT !.verdict = v, !.validated = row[4].validated]
    BY DEF FinalResults, FinalVerdict
  <2>2. res.verdict = v /\ res.validated = row[4].validated
    BY <2>1 DEF Plain
  <2> QED
    BY <1>3, <2>1, <2>2
<1>4. ASSUME NEW res \in FindingResults
      PROVE  /\ res.validated = row[5].validated
             /\ row[5].verdict = "TRUE" /\ row[7].gate = "ACCEPT"
  BY DEF FindingResults, Accepted, Plain
<1>5. ASSUME NEW res \in ReportResults
      PROVE  res.validated = row[11].validated /\ row[11].status = "SUCCEEDED"
  BY DEF ReportResults, Plain
<1> QED
  BY <1>1, <1>2, <1>3, <1>4, <1>5

(* The references between execution, final verdict, finding and report.     *)
LEMMA ChainKeep ==
    ASSUME IInv, RowsOK, RowsOK', ChainOK, TableStep
    PROVE  ChainOK'
<1> USE DEF POC_EXECUTION, VERIFICATION_FINAL, TECH_GATE, FINDING, REPORT
<1>0. /\ {4, 5, 7, 11, 12} \subseteq Stages
      /\ \A s \in Stages : StepOf(s) /\ EarlierKept(s)
  BY DEF Stages, TableStep
<1>1. ASSUME NEW s \in Stages, NEW p \in Stages, p < s, row'[s].status = "SUCCEEDED"
      PROVE  /\ row'[p].status = row[p].status /\ row'[p].attempt = row[p].attempt
             /\ row'[p].verdict = row[p].verdict /\ row'[p].gate = row[p].gate
             /\ row'[p].validated = row[p].validated
  <2>1. Keeps(p) \/ Aged(p)
    BY <1>0, <1>1 DEF EarlierKept, Exists, Stages
  <2> QED
    BY <2>1, SameFields
<1>2. ASSUME NEW s \in Stages, s \notin {2, 4}, row'[s].status = "SUCCEEDED"
      PROVE  \/ /\ row[s].status = "SUCCEEDED" /\ row'[s].verdict = row[s].verdict
                /\ row'[s].validated = row[s].validated
             \/ /\ row[s].status = "RUNNING"
                /\ \E res \in Results(s) : /\ row'[s].verdict = res.verdict
                                           /\ row'[s].validated = res.validated
  <2>1. CASE Done(s)
    <3>1. PICK res \in Results(s) : row'[s] = Completed(row[s], s, res)
      BY <2>1 DEF Done
    <3>2. res \in ResultRecord /\ row[s] \in Row
      BY RowFacts, ResultsType
    <3>3. LET c == Completed(row[s], s, res)
          IN  c.verdict = res.verdict /\ c.validated = res.validated
      BY <3>2, CompletedFields
    <3> QED
      BY <2>1, <3>1, <3>3 DEF Done
  <2>2. CASE (Keeps(s) \/ Aged(s)) /\ row[s].status = "SUCCEEDED"
    BY <2>2, SameFields
  <2>3. ~Promoted(s)
    BY <1>2 DEF Promoted, VERIFICATION_INITIAL
  <2> QED
    BY <1>0, <1>2, <2>1, <2>2, <2>3, SucceededAfter
<1>3. (row[4].validated \in {0, row[4].attempt})'
  <2>1. CASE row'[4].status # "SUCCEEDED"
    BY <1>0, <2>1 DEF RowsOK
  <2>2. CASE Done(4)
    <3>1. PICK res \in Results(4) : row'[4] = Completed(row[4], 4, res)
      BY <2>2 DEF Done
    <3>2. res \in ResultRecord /\ row[4] \in Row
      BY <1>0, RowFacts, ResultsType
    <3>3. LET c == Completed(row[4], 4, res)
          IN  c.attempt = row[4].attempt /\ c.validated = res.validated
      BY <3>2 DEF Completed, Row
    <3>4. res.validated \in {0, row[4].attempt}
      BY ChainResults
    <3> QED
      BY <3>1, <3>3, <3>4
  <2>3. CASE Promoted(4)
    <3>1. row[4] \in Row /\ row[4].validated = 0
      BY <1>0, <2>3, RowFacts DEF Promoted, RowsOK, Failed
    <3>2. row'[4] = PromotedPoc(row[4])
      BY <2>3 DEF Promoted, VERIFICATION_INITIAL
    <3>3. row'[4].validated = row[4].validated
      BY <3>1, <3>2 DEF PromotedPoc, Row
    <3> QED BY <3>1, <3>3
  <2>4. CASE Keeps(4) \/ Aged(4)
    BY <1>0, <2>4, SameFields DEF ChainOK
  <2> QED
    BY <1>0, <2>1, <2>2, <2>3, <2>4, SucceededAfter
<1>4. ASSUME row'[5].status = "SUCCEEDED", row'[5].verdict = "TRUE"
      PROVE  row'[5].validated = row'[4].validated /\ row'[4].validated # 0
  <2>1. row'[4].validated = row[4].validated
    BY <1>0, <1>1, <1>4
  <2>2. \A res \in Results(5) : res.verdict = "TRUE" =>
            res.validated = row[4].validated /\ row[4].validated # 0
    BY ChainResults
  <2> QED
    BY <1>0, <1>2, <1>4, <2>1, <2>2 DEF ChainOK
<1>5. ASSUME row'[11].status = "SUCCEEDED"
      PROVE  /\ row'[5].status = "SUCCEEDED" /\ row'[5].verdict = "TRUE"
             /\ row'[11].validated = row'[5].validated /\ row'[7].gate = "ACCEPT"
  <2>1. /\ row'[5].status = row[5].status /\ row'[5].verdict = row[5].verdict
        /\ row'[5].validated = row[5].validated /\ row'[7].gate = row[7].gate
    BY <1>0, <1>1, <1>5
  <2>2. CASE row[11].status = "SUCCEEDED" /\ row'[11].validated = row[11].validated
    BY <2>1, <2>2 DEF ChainOK
  <2>3. CASE row[11].status = "RUNNING"
             /\ \E res \in Results(11) : row'[11].validated = res.validated
    <3>1. \A res \in Results(11) : /\ res.validated = row[5].validated
                                   /\ row[5].verdict = "TRUE" /\ row[7].gate = "ACCEPT"
      BY ChainResults
    <3>2. Behind(row, 11)
      BY <1>0, <2>3 DEF IInv, TableOK, TableInv, FrontierIn, Exists
    <3>3. row[5].status = "SUCCEEDED"
      BY <3>2 DEF Behind, Skipped, SkippedOnHold, CWE, SCOPE_GATE
    <3> QED
      BY <2>1, <2>3, <3>1, <3>3
  <2> QED
    BY <1>0, <1>2, <1>5, <2>2, <2>3
<1>6. ASSUME row'[12].status = "SUCCEEDED"
      PROVE  row'[11].status = "SUCCEEDED" /\ row'[12].validated = row'[11].validated
  <2>1. row'[11].status = row[11].status /\ row'[11].validated = row[11].validated
    BY <1>0, <1>1, <1>6
  <2>2. \A res \in Results(12) : /\ res.validated = row[11].validated
                                 /\ row[11].status = "SUCCEEDED"
    BY ChainResults
  <2> QED
    BY <1>0, <1>2, <1>6, <2>1, <2>2 DEF ChainOK
<1> QED
  BY <1>3, <1>4, <1>5, <1>6 DEF ChainOK

-----------------------------------------------------------------------------
(* What resume_hypothesis reports.                                          *)

(* While the process runs on, nothing is reported.                          *)
LEMMA Unreported ==
    ASSUME Rescan \/ (\E p, s : Goto(p, s)) \/ outcome' = NoOutcome
    PROVE  OutcomeTruthful'
<1>1. outcome' = NoOutcome
  BY DEF Rescan, Goto
<1> QED
  BY <1>1 DEF OutcomeTruthful, NoOutcome

(* A failure is reported with the status that is stored.                    *)
LEMMA ReportsFailure ==
    ASSUME NEW s, NEW st \in {"BLOCKED", "FAILED"}, Return(s, st), row'[s].status = st
    PROVE  OutcomeTruthful'
  BY DEF Return, OutcomeTruthful

(* An exception is no outcome.                                              *)
LEMMA ReportsRaise ==
    ASSUME NEW s, Return(s, "RAISED")
    PROVE  OutcomeTruthful'
  BY DEF Return, OutcomeTruthful

(* A success is reported when the hypothesis is finished.                   *)
LEMMA ReportsSuccess ==
    ASSUME NEW s, Return(s, "SUCCEEDED"), Finished'
    PROVE  OutcomeTruthful'
  BY DEF Return, OutcomeTruthful

(* A failed row as it stands, or closed to retries.                         *)
LEMMA ReportsRow ==
    ASSUME IInv, NEW s \in Stages, Failed(row[s]), Return(s, row[s].status),
           \/ UNCHANGED row
           \/ SetRow(s, Stopped(row[s]))
    PROVE  OutcomeTruthful'
<1>1. row'[s].status = row[s].status
  <2>1. CASE SetRow(s, Stopped(row[s]))
    <3>1. Stopped(row[s]) \in Row /\ Stopped(row[s]).status = row[s].status
      BY RowFacts, RewriteType
    <3>2. row'[s] = Stopped(row[s])
      BY <2>1, <3>1, RowFacts, ExceptAt DEF SetRow, TableOK
    <3> QED BY <3>1, <3>2
  <2> QED BY <2>1
<1> QED
  BY <1>1, ReportsFailure DEF Failed

(* A terminal result, read again.                                           *)
LEMMA VerifyOutcome ==
    ASSUME IInv, RowsOK, NEW s \in Stages, Reusable(row[s]), EndsVerified(row[s], s),
           VerifyTerminal(s)
    PROVE  OutcomeTruthful'
<1>1. CASE UNCHANGED row /\ Return(s, "SUCCEEDED")
  <2>1. Terminal(row)
    BY DEF EndsVerified, Reusable, RowsOK, Terminal, TerminalPoc
  <2>2. Finished'
    BY <1>1, <2>1 DEF Finished, Terminal
  <2> QED
    BY <1>1, <2>2, ReportsSuccess
<1>2. CASE /\ SetRow(s, MarkedFailed(row[s], Blocked("EVIDENCE", FALSE), row[s].outputs))
           /\ Return(s, "BLOCKED")
  <2> DEFINE f == Blocked("EVIDENCE", FALSE)
             r == MarkedFailed(row[s], f, row[s].outputs)
  <2>1. f \in FailureRecord /\ row[s].outputs \in RefSets /\ f.status = "BLOCKED"
    BY RowFacts DEF Blocked, FailureRecord, Errors, Row
  <2>2. SetRow(s, r)
    BY <1>2
  <2> HIDE DEF f
  <2>3. r \in Row /\ r.status = "BLOCKED"
    BY <2>1, RowFacts, MarkedFailedType
  <2> HIDE DEF r
  <2>4. row'[s] = r
    BY <2>2, <2>3, RowFacts, ExceptAt DEF SetRow, TableOK
  <2> QED
    BY <1>2, <2>3, <2>4, ReportsFailure
<1>3. CASE Return(s, "RAISED")
  BY <1>3, ReportsRaise
<1> QED
  BY <1>1, <1>2, <1>3 DEF VerifyTerminal

(* A promoted PoC is terminal.                                              *)
LEMMA PromoteOutcome ==
    ASSUME IInv, RowsOK, NEW s \in Stages, s = POC_EXECUTION, Failed(row[s]),
           PromotePocOrReturn(s)
    PROVE  OutcomeTruthful'
<1>1. CASE UNCHANGED row /\ Return(s, row[s].status)
  BY <1>1, ReportsRow
<1>2. CASE Promotable(s) /\ SetRow(s, PromotedPoc(row[s])) /\ Return(s, "SUCCEEDED")
  <2>1. PromotedPoc(row[s]) \in Row
    BY RowFacts, RewriteType
  <2>2. row'[s] = PromotedPoc(row[s])
    BY <1>2, <2>1, RowFacts, ExceptAt DEF SetRow, TableOK
  <2>3. row[s].validated = 0 /\ row[s].current = TRUE
    BY <1>2, RowFacts DEF RowsOK, Failed, Promotable, Row
  <2>4. /\ row'[s].status = "SUCCEEDED" /\ row'[s].current = TRUE /\ row'[s].stop = TRUE
        /\ row'[s].verdict = "HOLD" /\ row'[s].validated = 0
    BY <2>2, <2>3, RowFacts DEF PromotedPoc, Row
  <2>5. Finished'
    BY <2>4 DEF Finished, Terminal, TerminalPoc
  <2> QED
    BY <1>2, <2>5, ReportsSuccess
<1> QED
  BY <1>1, <1>2 DEF PromotePocOrReturn

(* The loop is through.                                                     *)
LEMMA LoopOutcome ==
    ASSUME IInv, LoopDone
    PROVE  OutcomeTruthful'
<1>1. /\ Return(REPORT, "SUCCEEDED") /\ UNCHANGED row
      /\ Passed(row, REPORT) /\ Passed(row, CHAINING)
  BY DEF LoopDone, durable, REPORT, CHAINING, Stages
<1>2. row[REPORT].status = "SUCCEEDED" \/ (Held(row) /\ row[CHAINING].status = "SUCCEEDED")
  BY <1>1 DEF Passed, Skipped, Reusable, SkippedOnHold, CWE, TECH_GATE, SCOPE_GATE, FINDING,
              REPORT, CHAINING
<1>3. Finished'
  BY <1>1, <1>2 DEF Finished, Held
<1> QED
  BY <1>1, <1>3, ReportsSuccess

(* A stop of the loop.                                                      *)
LEMMA ScanOutcome ==
    ASSUME IInv, RowsOK, NEW s \in Stages, Scan(s)
    PROVE  OutcomeTruthful'
<1>1. CASE PocDecided(s)
  BY <1>1, PromoteOutcome DEF PocDecided, PriorDecision, Failed
<1>2. CASE PocStaysClosed(s)
  BY <1>2, ReportsRow DEF PocStaysClosed, PocClosed, durable
<1>3. CASE StaleStage(s)
  <2>1. CASE StaleReturns(s) /\ Return(s, row[s].status) /\ UNCHANGED row
    BY <2>1, ReportsRow DEF StaleReturns, AnchorFailed, CorrectableEnv, Failed
  <2>2. CASE Rescan
    BY <2>2, Unreported
  <2> QED BY <1>3, <2>1, <2>2 DEF StaleStage
<1>4. CASE PromoteInitial(s) \/ ReplayConfirmed(s) \/ Interrupted(s) \/ PrepareGateRevision(s)
             \/ Prepare(s)
  BY <1>4, Unreported
     DEF PromoteInitial, ReplayConfirmed, Interrupted, PrepareGateRevision, Prepare
<1>5. CASE ReplayGuarded(s)
  <2>1. Failed(row[s])
    BY <1>5 DEF ReplayGuarded, Recoverable, Failed
  <2>2. CASE Rescan
    BY <2>2, Unreported
  <2>3. CASE /\ Return(s, row[s].status)
             /\ UNCHANGED row \/ SetRow(s, Stopped(row[s]))
    BY <2>1, <2>3, ReportsRow
  <2> QED BY <1>5, <2>2, <2>3 DEF ReplayGuarded
<1>6. CASE RecoverFailed(s)
  <2>1. CASE Goto("decide", s)
    BY <2>1, Unreported
  <2>2. CASE Return(s, row[s].status)
    BY <1>6, <2>2, ReportsRow DEF RecoverFailed, durable
  <2> QED BY <1>6, <2>1, <2>2 DEF RecoverFailed
<1>7. CASE ReuseTerminal(s)
  BY <1>7, VerifyOutcome DEF ReuseTerminal
<1>8. CASE ReuseEnds(s)
  <2>1. UNCHANGED row /\ Return(s, "SUCCEEDED") /\ Ends(row[s], s) /\ Reusable(row[s])
    BY <1>8 DEF ReuseEnds, durable
  <2>2. Finished
    BY <2>1 DEF Ends, Reusable, Finished, Terminal
  <2>3. Finished'
    BY <2>1, <2>2 DEF Finished, Terminal, Held
  <2> QED
    BY <2>1, <2>3, ReportsSuccess
<1> QED
  BY <1>1, <1>2, <1>3, <1>4, <1>5, <1>6, <1>7, <1>8 DEF Scan

(* The handler.                                                             *)
LEMMA HandlerOutcome ==
    ASSUME IInv, NEW s \in Stages, MarkRunning(s) \/ Complete(s) \/ Fail(s) \/ Cancel(s)
    PROVE  OutcomeTruthful'
<1>1. CASE MarkRunning(s)
  BY <1>1, Unreported, ReportsRaise DEF MarkRunning
<1>2. CASE Complete(s)
  <2>1. CASE Rescan
    BY <2>1, Unreported
  <2>2. CASE s = CHAINING /\ Held(row) /\ Return(s, "SUCCEEDED")
    <3>1. PICK res \in Results(s) : SetRow(s, Completed(row[s], s, res))
      BY <1>2 DEF Complete
    <3>2. /\ Completed(row[s], s, res) \in Row
          /\ Completed(row[s], s, res).status = "SUCCEEDED"
      BY RowFacts, ResultsType, CompletedType
    <3>3. row'[s].status = "SUCCEEDED" /\ row'[VERIFICATION_FINAL] = row[VERIFICATION_FINAL]
      BY <2>2, <3>1, <3>2, RowFacts, ExceptAt
         DEF SetRow, TableOK, CHAINING, VERIFICATION_FINAL, Stages
    <3>4. Finished'
      BY <2>2, <3>3 DEF Finished, Held
    <3> QED
      BY <2>2, <3>4, ReportsSuccess
  <2> QED BY <1>2, <2>1, <2>2 DEF Complete
<1>3. CASE Fail(s)
  <2>0. PICK e \in FailKinds : \E f \in Raised(s, e) :
          /\ SetRow(s, MarkedFailed(row[s], f, {Ref("evidence", s, row[s].attempt)}))
          /\ Goto("decide", s) \/ Return(s, f.status)
    BY <1>3 DEF Fail
  <2>1. PICK f \in Raised(s, e) :
          /\ SetRow(s, MarkedFailed(row[s], f, {Ref("evidence", s, row[s].attempt)}))
          /\ Goto("decide", s) \/ Return(s, f.status)
    BY <2>0
  <2>2. f \in FailureRecord /\ f.status \in {"BLOCKED", "FAILED"}
    BY RaisedType, RunnerAssumption DEF FailureRecord
  <2> DEFINE ev == {Ref("evidence", s, row[s].attempt)}
  <2>3. ev \in RefSets
    BY RowFacts, RefType DEF Row, Stages, RefSets
  <2> HIDE DEF ev
  <2>4. MarkedFailed(row[s], f, ev) \in Row /\ MarkedFailed(row[s], f, ev).status = f.status
    BY <2>2, <2>3, RowFacts, MarkedFailedType
  <2>5. row'[s] = MarkedFailed(row[s], f, ev)
    BY <2>1, <2>4, RowFacts, ExceptAt DEF SetRow, TableOK, ev
  <2> QED
    BY <2>1, <2>2, <2>4, <2>5, Unreported, ReportsFailure
<1>4. CASE Cancel(s)
  BY <1>4, ReportsRaise DEF Cancel
<1> QED
  BY <1>1, <1>2, <1>3, <1>4

(* A recovery decision.                                                     *)
LEMMA DecideOutcome ==
    ASSUME IInv, RowsOK, NEW s \in Stages, Decide(s)
    PROVE  OutcomeTruthful'
<1>0. Failed(row[s])
  BY DEF IInv, Control, Decide, RecoveryExhausted, RecoveryStop, AfterStop,
         RecoveryRestart, Deciding
<1>1. CASE RecoveryExhausted(s)
  <2>1. Exhausted(row[s]) \in Row /\ Exhausted(row[s]).status = "BLOCKED"
    BY <1>0, RowFacts, RewriteType DEF Exhausted, Row
  <2>2. row'[s] = Exhausted(row[s])
    BY <1>1, <2>1, RowFacts, ExceptAt DEF RecoveryExhausted, SetRow, TableOK
  <2> QED
    BY <1>1, <2>1, <2>2, ReportsFailure DEF RecoveryExhausted
<1>2. CASE RecoveryStop(s)
  <2>1. CASE Goto("stopped", s)
    BY <2>1, Unreported
  <2>2. CASE Return(s, row[s].status)
    BY <1>0, <1>2, <2>2, ReportsRow DEF RecoveryStop
  <2> QED BY <1>2, <2>1, <2>2 DEF RecoveryStop
<1>3. CASE AfterStop(s)
  <2>1. CASE s = POC_EXECUTION /\ PromotePocOrReturn(s)
    BY <1>0, <2>1, PromoteOutcome
  <2>2. CASE Rescan
    BY <2>2, Unreported
  <2>3. CASE UNCHANGED <<row, activity>> /\ Return(s, row[s].status)
    BY <1>0, <2>3, ReportsRow
  <2> QED BY <1>3, <2>1, <2>2, <2>3 DEF AfterStop
<1>4. CASE RecoveryRestart(s)
  <2>1. (UNCHANGED row /\ Return(s, row[s].status)) \/ Rescan
    BY <1>4 DEF RecoveryRestart
  <2> QED
    BY <1>0, <2>1, Unreported, ReportsRow
<1> QED
  BY <1>1, <1>2, <1>3, <1>4 DEF Decide

(* What was reported is what is stored, after every step.                   *)
LEMMA OutcomeKeep ==
    ASSUME IInv, RowsOK, OutcomeTruthful, [Next]_vars
    PROVE  OutcomeTruthful'
<1>1. CASE UNCHANGED <<row, outcome>>
  BY <1>1 DEF OutcomeTruthful, Finished, Terminal, Held
<1>2. CASE Resume
  <2>1. POC_EXECUTION \in Stages
    BY DEF POC_EXECUTION, Stages
  <2>2. CASE ResumeTerminal
    BY <2>1, <2>2, VerifyOutcome DEF ResumeTerminal, TerminalPoc, Reusable, EndsVerified
  <2>3. CASE ResumeOpen
    BY <2>3, Unreported DEF ResumeOpen
  <2> QED BY <1>2, <2>2, <2>3 DEF Resume
<1>3. CASE LoopDone
  BY <1>3, LoopOutcome
<1>4. ASSUME NEW s \in Stages, Scan(s) PROVE OutcomeTruthful'
  BY <1>4, ScanOutcome
<1>5. ASSUME NEW s \in Stages, MarkRunning(s) \/ Complete(s) \/ Fail(s) \/ Cancel(s)
      PROVE  OutcomeTruthful'
  BY <1>5, HandlerOutcome
<1>6. ASSUME NEW s \in Stages, Decide(s) PROVE OutcomeTruthful'
  BY <1>6, DecideOutcome
<1>7. ASSUME NEW s \in Stages, ReopenBudget(s) \/ Upgrade(s) PROVE OutcomeTruthful'
  BY <1>7, Unreported DEF ReopenBudget, Upgrade
<1>8. CASE Crash \/ SiblingUnresolved \/ ConfirmCleanup \/ ReconcileUnspawned
  BY <1>1, <1>8 DEF Crash, SiblingUnresolved, ConfirmCleanup, ReconcileUnspawned
<1>9. CASE UNCHANGED vars
  BY <1>1, <1>9 DEF vars
<1> QED
  BY <1>2, <1>3, <1>4, <1>5, <1>6, <1>7, <1>8, <1>9 DEF Next

-----------------------------------------------------------------------------
(* A settled PoC.                                                           *)

Sticky == PocSettled => \/ row'[POC_EXECUTION].attempt = row[POC_EXECUTION].attempt
                        \/ grants' > grants

(* A settled PoC is the last row, and the loop stops at it.                 *)
LEMMA SettledLast ==
    ASSUME IInv, PocSettled
    PROVE  /\ POC_EXECUTION \in Stages /\ Acted(row[POC_EXECUTION])
           /\ Later(row, POC_EXECUTION) = {} /\ ~Passed(row, POC_EXECUTION)
<1>1. POC_EXECUTION \in Stages /\ POC_EXECUTION \notin SkippedOnHold
  BY DEF POC_EXECUTION, Stages, SkippedOnHold, CWE, TECH_GATE, SCOPE_GATE, FINDING, REPORT
<1>2. CASE TerminalPoc(row[POC_EXECUTION])
  <2>1. Reusable(row[POC_EXECUTION]) /\ EndsVerified(row[POC_EXECUTION], POC_EXECUTION)
    BY <1>2 DEF TerminalPoc, Reusable, EndsVerified
  <2>2. Later(row, POC_EXECUTION) = {}
    BY <1>1, <2>1, RowFacts
  <2> QED
    BY <1>1, <2>1, <2>2 DEF Passed, Skipped, Acted, Reusable
<1>3. CASE PocClosed(POC_EXECUTION)
  BY <1>1, <1>3, RowFacts DEF PocClosed, Failed, Passed, Skipped, Reusable, Acted
<1> QED
  BY <1>2, <1>3 DEF PocSettled

(* While the PoC is settled, no other row is running or failed.             *)
LEMMA SettledAlone ==
    ASSUME IInv, PocSettled, NEW s \in Stages,
           row[s].status \in {"RUNNING", "BLOCKED", "FAILED"}
    PROVE  s = POC_EXECUTION
<1>1. Later(row, s) = {} /\ Exists(row[s]) /\ Exists(row[POC_EXECUTION])
  BY RowFacts, SettledLast DEF Acted, Exists
<1>2. CASE s > POC_EXECUTION
  <2>1. s \in (POC_EXECUTION + 1)..REPORT
    BY <1>2 DEF POC_EXECUTION, REPORT, Stages
  <2> QED
    BY <1>1, <2>1, SettledLast DEF Later
<1>3. CASE s < POC_EXECUTION
  <2>1. POC_EXECUTION \in (s + 1)..REPORT
    BY <1>3 DEF POC_EXECUTION, REPORT, Stages
  <2> QED
    BY <1>1, <2>1 DEF Later
<1> QED
  BY <1>2, <1>3 DEF POC_EXECUTION, Stages

(* The loop comes to a settled PoC, neither stopping before nor passing it. *)
LEMMA SettledScanned ==
    ASSUME IInv, PocOK, PocSettled, NEW s \in Stages, Scanning(s)
    PROVE  s = POC_EXECUTION
<1>1. pc = "scan" /\ ~Passed(row, s) /\ \A p \in 1..(s - 1) : Passed(row, p)
  BY DEF Scanning
<1>2. \A p \in 1..3 : Passed(row, p)
  BY <1>1 DEF PocOK
<1>3. ~(s < POC_EXECUTION)
  BY <1>1, <1>2 DEF POC_EXECUTION, Stages
<1>4. ~(s > POC_EXECUTION)
  <2>1. SUFFICES ASSUME s > POC_EXECUTION PROVE FALSE
    OBVIOUS
  <2>2. POC_EXECUTION \in 1..(s - 1)
    BY <2>1 DEF POC_EXECUTION, Stages
  <2> QED
    BY <1>1, <2>2, SettledLast
<1> QED
  BY <1>3, <1>4 DEF POC_EXECUTION, Stages

(* Rewriting a row in place does not start a new execution.                 *)
LEMMA AttemptKept ==
    ASSUME TableOK, NEW s \in Stages, NEW r, SetRow(s, r), r.attempt = row[s].attempt
    PROVE  row'[POC_EXECUTION].attempt = row[POC_EXECUTION].attempt
  BY DEF SetRow, TableOK, POC_EXECUTION, Stages

(* The rewrites that keep the attempt.                                      *)
LEMMA RewritesKeepAttempt ==
    ASSUME NEW r \in Row
    PROVE  /\ Stopped(r).attempt = r.attempt /\ Exhausted(r).attempt = r.attempt
           /\ PromotedPoc(r).attempt = r.attempt /\ PromotedInitial(r).attempt = r.attempt
  BY DEF Stopped, Exhausted, PromotedPoc, PromotedInitial, Row

(* A process at rest, or about to start, owes nothing.                      *)
LEMMA PocIdle ==
    ASSUME \/ \E s, st : Return(s, st)
           \/ pc' \in {"idle", "start", "stopped"}
    PROVE  PocOK'
<1>1. pc' \in {"idle", "start", "stopped"}
  BY DEF Return
<1> QED
  BY <1>1 DEF PocOK

(* The loop starts over and the PoC is not settled.                         *)
LEMMA PocRescan ==
    ASSUME ~PocSettled, Rescan,
           \/ row'[POC_EXECUTION] = row[POC_EXECUTION]
           \/ row'[POC_EXECUTION].status \in {"NONE", "PENDING"}
    PROVE  PocOK'
<1>1. pc' = "scan"
  BY DEF Rescan, Goto
<1>2. ~PocSettled'
  BY DEF PocSettled, TerminalPoc, PocClosed, Failed, CodexRetry
<1> QED
  BY <1>1, <1>2 DEF PocOK

(* Cutting or restarting the table keeps the PoC row, or drops it.          *)
LEMMA PocAfterReplace ==
    ASSUME TableOK, NEW k \in Stages, NEW r, r.status = "PENDING",
           row' = ReplaceFrom(row, k, r) \/ row' = InvalidateFrom(row, k)
    PROVE  \/ row'[POC_EXECUTION] = row[POC_EXECUTION]
           \/ row'[POC_EXECUTION].status \in {"NONE", "PENDING"}
  BY NoRowType DEF ReplaceFrom, InvalidateFrom, POC_EXECUTION, Stages

(* The evidence of a terminal result is read again: same attempt.           *)
LEMMA VerifyPoc ==
    ASSUME IInv, NEW s \in Stages, VerifyTerminal(s)
    PROVE  PocOK' /\ Sticky
<1>1. \E st : Return(s, st)
  BY DEF VerifyTerminal
<1>2. row'[POC_EXECUTION].attempt = row[POC_EXECUTION].attempt
  <2>1. CASE UNCHANGED row
    BY <2>1
  <2>2. CASE SetRow(s, MarkedFailed(row[s], Blocked("EVIDENCE", FALSE), row[s].outputs))
    <3> DEFINE r == MarkedFailed(row[s], Blocked("EVIDENCE", FALSE), row[s].outputs)
    <3>1. r.attempt = row[s].attempt
      BY RowFacts DEF MarkedFailed, Row
    <3>2. SetRow(s, r)
      BY <2>2
    <3> HIDE DEF r
    <3> QED
      BY <3>1, <3>2, RowFacts, AttemptKept
  <2> QED BY <2>1, <2>2 DEF VerifyTerminal
<1> QED
  BY <1>1, <1>2, PocIdle DEF Sticky

(* A promotion keeps the attempt.                                           *)
LEMMA PromotePoc ==
    ASSUME IInv, NEW s \in Stages, PromotePocOrReturn(s)
    PROVE  PocOK' /\ Sticky
<1>1. \E st : Return(s, st)
  BY DEF PromotePocOrReturn
<1>2. row'[POC_EXECUTION].attempt = row[POC_EXECUTION].attempt
  <2>1. CASE UNCHANGED row
    BY <2>1
  <2>2. CASE SetRow(s, PromotedPoc(row[s]))
    BY <2>2, RowFacts, RewritesKeepAttempt, AttemptKept
  <2> QED BY <2>1, <2>2 DEF PromotePocOrReturn
<1> QED
  BY <1>1, <1>2, PocIdle DEF Sticky

(* The loop works on a row only when the PoC is not settled.                *)
LEMMA OpenUnsettled ==
    ASSUME IInv, PocOK, NEW s \in Stages,
           \/ StaleStage(s) \/ Recoverable(s) \/ PrepareGateRevision(s) \/ Prepare(s)
    PROVE  ~PocSettled
<1>1. SUFFICES ASSUME PocSettled PROVE FALSE
  OBVIOUS
<1>2. Scanning(s)
  BY DEF StaleStage, Recoverable, PrepareGateRevision, Prepare, Open
<1>3. s = POC_EXECUTION
  BY <1>1, <1>2, SettledScanned
<1>4. CASE PrepareGateRevision(s)
  BY <1>3, <1>4 DEF PrepareGateRevision, Revises, TECH_GATE, POC_EXECUTION
<1>5. CASE StaleStage(s) \/ Recoverable(s) \/ Prepare(s)
  <2>1. ~PocClosed(s)
    BY <1>5 DEF StaleStage, Recoverable, Prepare, Open
  <2>2. row[s].status = "SUCCEEDED" /\ row[s].current
    BY <1>1, <1>3, <2>1 DEF PocSettled, TerminalPoc
  <2> QED
    BY <1>5, <2>2 DEF StaleStage, Recoverable, Prepare, Stale
<1> QED BY <1>4, <1>5

(* A row the loop works on.                                                 *)
LEMMA WorkPoc ==
    ASSUME IInv, PocOK, NEW s \in Stages,
           \/ StaleStage(s) \/ PromoteInitial(s) \/ ReplayConfirmed(s) \/ Interrupted(s)
           \/ ReplayGuarded(s) \/ RecoverFailed(s) \/ PrepareGateRevision(s) \/ Prepare(s)
    PROVE  PocOK' /\ Sticky
<1>1. ~PocSettled
  BY OpenUnsettled
     DEF PromoteInitial, ReplayConfirmed, Interrupted, ReplayGuarded, RecoverFailed
<1>2. Sticky
  BY <1>1 DEF Sticky
<1>3. Reopened(row[s]).status = "PENDING"
  BY RowFacts DEF Reopened, Row
<1>4. CASE row' = ReplaceFrom(row, s, Reopened(row[s])) /\ Rescan
  BY <1>1, <1>2, <1>3, <1>4, RowFacts, PocAfterReplace, PocRescan
<1>5. CASE row' = InvalidateFrom(row, s) /\ Rescan
  BY <1>1, <1>2, <1>3, <1>5, RowFacts, PocAfterReplace, PocRescan
<1>6. CASE \E st : Return(s, st)
  BY <1>2, <1>6, PocIdle
<1>7. CASE PromoteInitial(s)
  <2>1. row'[POC_EXECUTION] = row[POC_EXECUTION] /\ Rescan
    BY <1>7, RowFacts
       DEF PromoteInitial, PromotableInitial, SetRow, TableOK, VERIFICATION_INITIAL,
           POC_EXECUTION, Stages
  <2> QED
    BY <1>1, <1>2, <2>1, PocRescan
<1>8. CASE Interrupted(s)
  <2> DEFINE f == Blocked("INTERRUPTED", TRUE)
  <2>1. f.retryable = TRUE
    BY DEF Blocked
  <2>2. SetRow(s, MarkedFailed(row[s], f, {})) /\ Goto("decide", s)
    BY <1>8 DEF Interrupted
  <2> HIDE DEF f
  <2>3. MarkedFailed(row[s], f, {}).retryable = TRUE
    BY <2>1, RowFacts DEF MarkedFailed, Row
  <2>4. row'[s].retryable = TRUE
    BY <2>2, <2>3, RowFacts DEF SetRow, TableOK
  <2> QED
    BY <1>2, <2>2, <2>4 DEF Goto, PocOK
<1>9. CASE RecoverFailed(s) /\ Goto("decide", s)
  BY <1>2, <1>9, RowFacts DEF RecoverFailed, Return, Goto, PocOK, durable
<1>10. CASE PrepareGateRevision(s)
  <2>1. row'[POC_EXECUTION].status = "NONE" /\ Rescan
    BY <1>10, NoRowType
       DEF PrepareGateRevision, Revising, ReplaceFrom, POC_EXECUTION, POC_CANDIDATE, Stages
  <2> QED
    BY <1>1, <1>2, <2>1, PocRescan
<1>11. CASE Prepare(s)
  BY <1>2, <1>11, PocIdle DEF Prepare
<1> QED
  BY <1>2, <1>4, <1>5, <1>6, <1>7, <1>8, <1>9, <1>10, <1>11
     DEF StaleStage, ReplayConfirmed, ReplayGuarded, RecoverFailed

(* Entering the loop, and leaving it.                                       *)
LEMMA ResumePoc ==
    ASSUME IInv, Resume \/ LoopDone
    PROVE  PocOK' /\ Sticky
<1>1. CASE ResumeTerminal
  BY <1>1, VerifyPoc DEF ResumeTerminal, POC_EXECUTION, Stages
<1>2. CASE ResumeOpen
  <2>1. ~PocSettled /\ Rescan /\ UNCHANGED row
    BY <1>2 DEF ResumeOpen, PocSettled, durable
  <2> QED
    BY <2>1, PocRescan DEF Sticky
<1>3. CASE LoopDone
  BY <1>3, PocIdle DEF LoopDone, durable, Sticky
<1> QED
  BY <1>1, <1>2, <1>3 DEF Resume

(* A stop of the loop.                                                      *)
LEMMA ScanPoc ==
    ASSUME IInv, PocOK, NEW s \in Stages, Scan(s)
    PROVE  PocOK' /\ Sticky
<1>1. CASE PocDecided(s)
  BY <1>1, PromotePoc DEF PocDecided
<1>2. CASE ReuseTerminal(s)
  BY <1>2, VerifyPoc DEF ReuseTerminal
<1>3. CASE PocStaysClosed(s) \/ ReuseEnds(s)
  <2>1. UNCHANGED row /\ \E st : Return(s, st)
    BY <1>3 DEF PocStaysClosed, ReuseEnds, durable
  <2> QED
    BY <2>1, PocIdle DEF Sticky
<1> QED
  BY <1>1, <1>2, <1>3, WorkPoc DEF Scan

(* Stages before the PoC execution are passed for what their rows say.      *)
LEMMA PassedKept ==
    ASSUME NEW s \in Stages, NEW p \in 1..(s - 1), Passed(row, p),
           \A q \in 1..(s - 1) : row'[q] = row[q]
    PROVE  Passed(row', p)
<1>1. CASE p \in SkippedOnHold
  <2>1. VERIFICATION_FINAL \in 1..(s - 1)
    BY <1>1 DEF SkippedOnHold, VERIFICATION_FINAL, CWE, TECH_GATE, SCOPE_GATE, FINDING,
                REPORT, Stages
  <2> QED
    BY <2>1 DEF Passed, Skipped, Held
<1>2. CASE p \notin SkippedOnHold
  BY <1>2 DEF Passed, Skipped
<1> QED BY <1>1, <1>2

(* The stage starts: a PENDING or absent row is not a settled PoC.          *)
LEMMA MarkRunningPoc ==
    ASSUME IInv, NEW s \in Stages, MarkRunning(s)
    PROVE  PocOK' /\ Sticky
<1>1. CASE UNCHANGED row /\ Return(s, "RAISED")
  BY <1>1, PocIdle DEF Sticky
<1>2. CASE SetRow(s, ctx) /\ Goto("handler", s)
  <2>1. /\ row[s].status \in {"NONE", "PENDING"}
        /\ \A p \in 1..(s - 1) : Passed(row, p)
    BY DEF IInv, Control, MarkRunning
  <2>2. \A q \in Stages : q # s => row'[q] = row[q]
    BY <1>2, RowFacts DEF SetRow, TableOK
  <2>3. \A q \in 1..(s - 1) : q \in Stages /\ q # s
    BY DEF Stages
  <2>4. \A p \in 1..(s - 1) : Passed(row', p)
    BY <2>1, <2>2, <2>3, PassedKept
  <2>5. PocOK'
    BY <1>2, <2>4 DEF PocOK, Goto
  <2>6. Sticky
    <3>1. SUFFICES ASSUME PocSettled
                   PROVE  row'[POC_EXECUTION].attempt = row[POC_EXECUTION].attempt
      BY DEF Sticky
    <3>2. POC_EXECUTION \in Stages /\ POC_EXECUTION # s
      BY <2>1, <3>1, SettledLast DEF Acted
    <3> QED
      BY <2>2, <3>2
  <2> QED BY <2>5, <2>6
<1> QED
  BY <1>1, <1>2 DEF MarkRunning

(* The handler returns: an execution it settles stands on passed stages.    *)
LEMMA CompletePoc ==
    ASSUME IInv, PocOK, NEW s \in Stages, Complete(s)
    PROVE  PocOK' /\ Sticky
<1>1. PICK res \in Results(s) : SetRow(s, Completed(row[s], s, res))
  BY DEF Complete
<1>2. row[s].status = "RUNNING" /\ \A p \in 1..(s - 1) : Passed(row, p)
  BY DEF IInv, Control, Complete, PocOK
<1>3. Completed(row[s], s, res).attempt = row[s].attempt
  BY RowFacts DEF Completed, Row
<1>4. Sticky
  BY <1>1, <1>3, RowFacts, AttemptKept DEF Sticky
<1>5. \A q \in Stages : q # s => row'[q] = row[q]
  BY <1>1, RowFacts DEF SetRow, TableOK
<1>6. CASE \E st : Return(s, st)
  BY <1>4, <1>6, PocIdle
<1>7. CASE Rescan /\ s = POC_EXECUTION
  <2>1. \A q \in 1..(s - 1) : q \in Stages /\ q # s
    BY DEF Stages
  <2>2. \A p \in 1..(s - 1) : Passed(row', p)
    BY <1>2, <1>5, <2>1, PassedKept
  <2>3. \A p \in 1..3 : Passed(row', p)
    BY <1>7, <2>2 DEF POC_EXECUTION
  <2> QED
    BY <1>4, <1>7, <2>3 DEF PocOK, Rescan, Goto
<1>8. CASE Rescan /\ s # POC_EXECUTION
  <2>1. ~PocSettled
    BY <1>2, <1>8, SettledAlone
  <2>2. row'[POC_EXECUTION] = row[POC_EXECUTION]
    BY <1>5, <1>8 DEF POC_EXECUTION, Stages
  <2> QED
    BY <1>4, <1>8, <2>1, <2>2, PocRescan
<1> QED
  BY <1>6, <1>7, <1>8 DEF Complete

(* The handler raises or is cancelled.                                      *)
LEMMA RaisePoc ==
    ASSUME IInv, NEW s \in Stages, Fail(s) \/ Cancel(s)
    PROVE  PocOK' /\ Sticky
<1>1. CASE Fail(s)
  <2>0. PICK e \in FailKinds : \E f \in Raised(s, e) :
          /\ SetRow(s, MarkedFailed(row[s], f, {Ref("evidence", s, row[s].attempt)}))
          /\ IF f.retryable THEN Goto("decide", s) ELSE Return(s, f.status)
    BY <1>1 DEF Fail
  <2>1. PICK f \in Raised(s, e) :
          /\ SetRow(s, MarkedFailed(row[s], f, {Ref("evidence", s, row[s].attempt)}))
          /\ IF f.retryable THEN Goto("decide", s) ELSE Return(s, f.status)
    BY <2>0
  <2> DEFINE r == MarkedFailed(row[s], f, {Ref("evidence", s, row[s].attempt)})
  <2>2. r.attempt = row[s].attempt /\ r.retryable = f.retryable
    BY RowFacts DEF MarkedFailed, Row
  <2>3. SetRow(s, r)
    BY <2>1
  <2> HIDE DEF r
  <2>4. Sticky
    BY <2>2, <2>3, RowFacts, AttemptKept DEF Sticky
  <2>5. row'[s].retryable = f.retryable
    BY <2>2, <2>3, RowFacts DEF SetRow, TableOK
  <2>6. CASE f.retryable /\ Goto("decide", s)
    BY <2>4, <2>5, <2>6 DEF Goto, PocOK
  <2>7. CASE Return(s, f.status)
    BY <2>4, <2>7, PocIdle
  <2> QED BY <2>1, <2>6, <2>7
<1>2. CASE Cancel(s)
  <2> DEFINE r == MarkedFailed(row[s], Blocked("CANCELLED", TRUE), {})
  <2>1. r.attempt = row[s].attempt
    BY RowFacts DEF MarkedFailed, Row
  <2>2. SetRow(s, r) /\ Return(s, "RAISED")
    BY <1>2 DEF Cancel
  <2> HIDE DEF r
  <2> QED
    BY <2>1, <2>2, RowFacts, AttemptKept, PocIdle DEF Sticky
<1> QED BY <1>1, <1>2

(* A recovery decision: a failure that may be retried is not settled.       *)
LEMMA DecidePoc ==
    ASSUME IInv, PocOK, NEW s \in Stages, Decide(s)
    PROVE  PocOK' /\ Sticky
<1>0. Failed(row[s])
  BY DEF IInv, Control, Decide, RecoveryExhausted, RecoveryStop, AfterStop,
         RecoveryRestart, Deciding
<1>1. CASE RecoveryExhausted(s)
  <2>1. SetRow(s, Exhausted(row[s])) /\ Return(s, "BLOCKED")
    BY <1>1 DEF RecoveryExhausted
  <2> QED
    BY <2>1, RowFacts, RewritesKeepAttempt, AttemptKept, PocIdle DEF Sticky
<1>2. CASE RecoveryStop(s)
  <2>1. SetRow(s, Stopped(row[s])) /\ pc' \in {"stopped", "idle"}
    BY <1>2 DEF RecoveryStop, Goto, Return
  <2> QED
    BY <2>1, RowFacts, RewritesKeepAttempt, AttemptKept, PocIdle DEF Sticky
<1>3. CASE AfterStop(s)
  <2>1. CASE PromotePocOrReturn(s)
    BY <2>1, PromotePoc
  <2>2. CASE PromotableInitial(s) /\ SetRow(s, PromotedInitial(row[s])) /\ Rescan
    <3>1. s # POC_EXECUTION
      BY <2>2 DEF PromotableInitial, VERIFICATION_INITIAL, POC_EXECUTION
    <3>2. ~PocSettled
      BY <1>0, <3>1, SettledAlone DEF Failed
    <3>3. row'[POC_EXECUTION] = row[POC_EXECUTION]
      BY <2>2, <3>1, RowFacts DEF SetRow, TableOK, POC_EXECUTION, Stages
    <3> QED
      BY <2>2, <3>2, <3>3, PocRescan DEF Sticky
  <2>3. CASE UNCHANGED row /\ Return(s, row[s].status)
    BY <2>3, PocIdle DEF Sticky
  <2> QED BY <1>3, <2>1, <2>2, <2>3 DEF AfterStop
<1>4. CASE RecoveryRestart(s)
  <2>1. PICK action \in {"RETRY", "REGENERATE", "REBUILD"} :
          LET k == RestartStage(s, action)
          IN  IF k = 0 THEN UNCHANGED row /\ Return(s, row[s].status)
              ELSE row' = Recovering(row, s, k, action = "REBUILD") /\ Rescan
    BY <1>4 DEF RecoveryRestart
  <2> DEFINE k == RestartStage(s, action)
             b == action = "REBUILD"
  <2>2. CASE k = 0
    <3>1. row' = row /\ Return(s, row[s].status)
      BY <2>1, <2>2
    <3> QED
      BY <3>1, PocIdle DEF Sticky
  <2>3. CASE k # 0
    <3>1. row' = Recovering(row, s, k, b) /\ Rescan
      BY <2>1, <2>3
    <3>2. k \in Stages
      BY <2>3 DEF RestartStage, VERIFICATION_INITIAL, POC_CANDIDATE, POC_EXECUTION, Stages
    <3> HIDE DEF k, b
    <3>3. PICK i, n, v, o, d, e : row' = ReplaceFrom(row, k, Seed(i, n, v, o, d, e))
      BY <3>1 DEF Recovering, Lineage
    <3>4. Seed(i, n, v, o, d, e).status = "PENDING"
      BY DEF Seed, NoRow
    <3>5. row[s].retryable
      BY <1>4 DEF RecoveryRestart, Deciding, PocOK
    <3>6. ~PocSettled
      <4>1. SUFFICES ASSUME PocSettled PROVE FALSE
        OBVIOUS
      <4>2. s = POC_EXECUTION
        BY <1>0, <4>1, SettledAlone DEF Failed
      <4> QED
        BY <1>0, <3>5, <4>1, <4>2 DEF PocSettled, PocClosed, TerminalPoc, Failed
    <3> QED
      BY <3>1, <3>2, <3>3, <3>4, <3>6, RowFacts, PocAfterReplace, PocRescan DEF Sticky
  <2> QED BY <2>2, <2>3
<1> QED
  BY <1>1, <1>2, <1>3, <1>4 DEF Decide

(* Crashes, operators, new code.                                            *)
LEMMA SurroundingsPoc ==
    ASSUME IInv, PocOK,
           \/ Crash \/ SiblingUnresolved \/ ConfirmCleanup \/ ReconcileUnspawned
           \/ \E s \in Stages : ReopenBudget(s) \/ Upgrade(s)
    PROVE  PocOK' /\ Sticky
<1>1. CASE Crash
  BY <1>1, PocIdle DEF Crash, Sticky
<1>2. CASE SiblingUnresolved \/ ConfirmCleanup \/ ReconcileUnspawned
  <2>1. UNCHANGED <<row, pc, at>>
    BY <1>2 DEF SiblingUnresolved, ConfirmCleanup, ReconcileUnspawned
  <2> QED
    BY <2>1 DEF PocOK, PocSettled, TerminalPoc, PocClosed, Failed, CodexRetry, Sticky,
                Passed, Skipped, Held
<1>3. ASSUME NEW s \in Stages, ReopenBudget(s) PROVE PocOK' /\ Sticky
  <2>1. grants' > grants
    BY <1>3 DEF ReopenBudget, Grant, IInv, CountOK
  <2>2. pc' = "idle"
    BY <1>3 DEF ReopenBudget
  <2> QED
    BY <2>1, <2>2, PocIdle DEF Sticky
<1>4. ASSUME NEW s \in Stages, Upgrade(s) PROVE PocOK' /\ Sticky
  <2> DEFINE r == [row[s] EXCEPT !.current = FALSE]
  <2>1. r.attempt = row[s].attempt
    BY RowFacts DEF Row
  <2>2. SetRow(s, r) /\ pc' = "idle"
    BY <1>4 DEF Upgrade
  <2> HIDE DEF r
  <2> QED
    BY <2>1, <2>2, RowFacts, AttemptKept, PocIdle DEF Sticky
<1> QED
  BY <1>1, <1>2, <1>3, <1>4

(* A settled PoC stays settled, after every step.                           *)
LEMMA PocKeep ==
    ASSUME IInv, PocOK, [Next]_vars
    PROVE  PocOK' /\ Sticky
<1>1. CASE UNCHANGED vars
  BY <1>1 DEF vars, PocOK, PocSettled, TerminalPoc, PocClosed, Failed, CodexRetry, Sticky,
              Passed, Skipped, Held
<1>2. ASSUME NEW s \in Stages,
             \/ Scan(s) \/ MarkRunning(s) \/ Complete(s) \/ Fail(s) \/ Cancel(s) \/ Decide(s)
      PROVE  PocOK' /\ Sticky
  BY <1>2, ScanPoc, MarkRunningPoc, CompletePoc, RaisePoc, DecidePoc
<1> QED
  BY <1>1, <1>2, ResumePoc, SurroundingsPoc DEF Next

-----------------------------------------------------------------------------
(* The inductive invariant and what it shows.                               *)

(* The first resume starts from a table that remembers nothing.             *)
LEMMA InitHistory == Init => HInv
<1>1. SUFFICES ASSUME Init PROVE HInv
  OBVIOUS
<1> DEFINE first == [NoRow EXCEPT !.status = "PENDING", !.inputs = {ProposalRef}]
<1>2. /\ first.status = "PENDING" /\ first.error = "none" /\ first.validated = 0
      /\ first.stop = FALSE /\ first.number = 0 /\ first.revisions = 0
      /\ first.attempt = 0 /\ first.env = 0
  BY DEF NoRow
<1>3. /\ NoRow.status = "NONE" /\ NoRow.error = "none" /\ NoRow.validated = 0
      /\ NoRow.stop = FALSE /\ NoRow.number = 0 /\ NoRow.revisions = 0
      /\ NoRow.attempt = 0 /\ NoRow.env = 0
  BY DEF NoRow
<1>4. \A s \in Stages : row[s] = first \/ row[s] = NoRow
  BY <1>1 DEF Init
<1>5. \A s \in Stages : s # PRO_CON => row[s] = NoRow
  BY <1>1 DEF Init
<1> HIDE DEF first
<1>6. IInv
  BY <1>1, InitOK
<1>7. RowsOK /\ RunningFresh
  BY <1>2, <1>3, <1>4 DEF RowsOK, Failed, RunningFresh
<1>8. CtxOK /\ PocOK
  BY <1>1 DEF Init, CtxOK, PocOK
<1>9. EventsOK
  BY <1>1, <1>2, <1>3, <1>4 DEF Init, EventsOK, Acted
<1>10. AttemptsOK
  <2>1. \A n \in {0, 1} : Within(n)
    BY <1>1, MaxRecoveryAssumption DEF Init, Within, Owed
  <2>2. activity = {} /\ ctx = NoRow /\ codex = "clear"
    BY <1>1 DEF Init
  <2>3. \A s \in Stages : row[s].number = 0
    BY <1>2, <1>3, <1>4
  <2> QED
    BY <1>3, <2>1, <2>2, <2>3 DEF AttemptsOK
<1>11. RevisionsOK
  BY <1>1, <1>2, <1>3, <1>4 DEF Init, RevisionsOK
<1>12. EnvOK
  BY <1>1, <1>2, <1>3, <1>4
     DEF Init, EnvOK, EnvironmentCurrent, VERIFICATION_INITIAL, Stages
<1>13. ChainOK
  BY <1>3, <1>5 DEF ChainOK, PRO_CON, POC_EXECUTION, VERIFICATION_FINAL, FINDING, REPORT,
                    TECH_GATE, Stages
<1>14. OutcomeTruthful
  BY <1>1 DEF Init, OutcomeTruthful, NoOutcome
<1> QED
  BY <1>6, <1>7, <1>8, <1>9, <1>10, <1>11, <1>12, <1>13, <1>14 DEF HInv

(* Every step keeps it.                                                     *)
LEMMA HistoryKept ==
    ASSUME HInv, [Next]_vars
    PROVE  HInv' /\ Sticky
<1>1. /\ IInv /\ RowsOK /\ CtxOK /\ EventsOK /\ RunningFresh /\ AttemptsOK
      /\ RevisionsOK /\ EnvOK /\ ChainOK /\ OutcomeTruthful /\ PocOK
  BY DEF HInv
<1>2. IInv'
  BY <1>1, NextKeeps
<1>3. Shape /\ TableStep /\ LogStep /\ CtxStep
  BY <1>1, NextShape DEF Shape
<1>4. CountStep
  BY <1>1, CountsGrow
<1>5. RowsOK'
  BY <1>1, <1>3, RowsKeep
<1>6. CtxOK'
  BY <1>1, <1>3, CtxKeeps
<1>7. EventsOK' /\ RunningFresh'
  BY <1>1, <1>3, EventsKeep
<1>8. AttemptsOK'
  BY <1>1, <1>3, <1>4, AttemptsKeep
<1>9. RevisionsOK'
  BY <1>1, <1>3, RevisionsKeep
<1>10. EnvOK'
  BY <1>1, <1>2, <1>3, EnvKeep
<1>11. ChainOK'
  BY <1>1, <1>3, <1>5, ChainKeep
<1>12. OutcomeTruthful'
  BY <1>1, OutcomeKeep
<1>13. PocOK' /\ Sticky
  BY <1>1, PocKeep
<1> QED
  BY <1>2, <1>5, <1>6, <1>7, <1>8, <1>9, <1>10, <1>11, <1>12, <1>13 DEF HInv

(* The inductive invariant holds in every reachable state.                  *)
LEMMA HistoryInductive == Spec => []HInv
<1>1. HInv /\ [Next]_vars => HInv'
  BY HistoryKept
<1> QED
  BY <1>1, InitHistory, PTL DEF Spec

(* The attempts of a failure lineage are bounded by the recovery limit and  *)
(* by what operators and faults have added, across restarts at any stage.   *)
THEOREM AttemptsStayBounded == Spec => []AttemptsBounded
<1>1. HInv => AttemptsBounded
  <2>1. SUFFICES ASSUME HInv, NEW s \in Stages
                 PROVE  row[s].number <= MaxRecovery + grants + faults
    BY DEF AttemptsBounded
  <2>2. row[s].number \in Nat /\ grants \in Nat /\ faults \in Nat
    BY <2>1, RowFacts DEF HInv, IInv, CountOK, Row
  <2>3. Within(row[s].number)
    BY <2>1 DEF HInv, AttemptsOK
  <2> QED
    BY <2>2, <2>3, MaxRecoveryAssumption DEF Within, Owed
<1> QED
  BY <1>1, HistoryInductive, PTL

(* The Technical Gate sends a PoC back twice at most, however many          *)
(* recoveries restart stages in between.                                    *)
THEOREM RevisionsStayBounded == Spec => []RevisionsBounded
<1>1. HInv => RevisionsBounded
  BY DEF HInv, RevisionsOK, RevisionsBounded
<1> QED
  BY <1>1, HistoryInductive, PTL

(* The events a running attempt will write are not on record, so that its   *)
(* completion and its failure cannot be refused as duplicates.              *)
THEOREM RunningStaysFresh == Spec => []RunningFresh
<1>1. HInv => RunningFresh
  BY DEF HInv
<1> QED
  BY <1>1, HistoryInductive, PTL

(* Every stage after the initial verification refers to the environment     *)
(* that verification built last.                                            *)
THEOREM EnvironmentStaysCurrent == Spec => []EnvironmentCurrent
<1>1. HInv => EnvironmentCurrent
  BY DEF HInv, EnvOK
<1> QED
  BY <1>1, HistoryInductive, PTL

(* What resume_hypothesis returned is what the table says.                  *)
THEOREM OutcomeIsTruthful == Spec => []OutcomeTruthful
<1>1. HInv => OutcomeTruthful
  BY DEF HInv
<1> QED
  BY <1>1, HistoryInductive, PTL

(* A report rests on a TRUE verdict, an accepting gate and the PoC that the *)
(* execution now on record validated.                                       *)
THEOREM ReportIsClosed == Spec => []ReportClosure
<1>1. HInv => ReportClosure
  BY DEF HInv, ChainOK, ReportClosure
<1> QED
  BY <1>1, HistoryInductive, PTL

(* No step replaces the execution of a settled PoC, except an operator's    *)
(* budget increase.                                                         *)
THEOREM PocStaysSettled == Spec => PocSticky
<1>1. HInv /\ [Next]_vars =>
        [PocSettled => \/ row'[POC_EXECUTION].attempt = row[POC_EXECUTION].attempt
                       \/ grants' > grants]_vars
  BY HistoryKept DEF Sticky
<1> QED
  BY <1>1, HistoryInductive, PTL DEF Spec, PocSticky
=============================================================================
