----------------------- MODULE Checkpoints_proofs ------------------------
(***************************************************************************)
(* What the store's primitives preserve, for every table: the rows they    *)
(* write are rows, and the shape TableInv of a table survives rewriting    *)
(* the last row, cutting the table, restarting it at a stage and starting  *)
(* the next stage.                                                         *)
(***************************************************************************)
EXTENDS Checkpoints, TLAPS

(* The missing row is a row.                                                *)
LEMMA NoRowType == NoRow \in Row /\ NoRow.status = "NONE" /\ NoRow.inputs = {}
  BY DEF NoRow, Row, RefSets, Status, Errors, Verdicts, Gates

(* A table that differs from T at stage s only.                             *)
LEMMA ExceptAt ==
    ASSUME NEW T \in [Stages -> Row], NEW s \in Stages, NEW r \in Row
    PROVE  /\ [T EXCEPT ![s] = r] \in [Stages -> Row]
           /\ [T EXCEPT ![s] = r][s] = r
           /\ \A t \in Stages : t # s => [T EXCEPT ![s] = r][t] = T[t]
  OBVIOUS

(* Behind a stage, only rows before it count; Skipped stages lie after the  *)
(* final verdict.                                                           *)
LEMMA BehindLocal ==
    ASSUME NEW T, NEW U, NEW s \in Stages,
           \A p \in 1..(s - 1) : U[p] = T[p],
           Behind(T, s)
    PROVE  Behind(U, s)
<1>1. SUFFICES ASSUME NEW p \in 1..(s - 1), T[p].status # "SUCCEEDED"
               PROVE  ~Exists(U[p]) /\ Skipped(U, p)
  BY DEF Behind, Stages
<1>2. ~Exists(T[p]) /\ Skipped(T, p)
  BY <1>1 DEF Behind
<1>3. p > VERIFICATION_FINAL
  BY <1>2 DEF Skipped, SkippedOnHold, VERIFICATION_FINAL, CWE, TECH_GATE,
              SCOPE_GATE, FINDING, REPORT
<1>4. VERIFICATION_FINAL \in 1..(s - 1)
  BY <1>3 DEF VERIFICATION_FINAL, Stages
<1> QED
  BY <1>2, <1>4 DEF Skipped, Held

(* Rewriting the last row of a table, without losing inputs, keeps its      *)
(* shape.                                                                   *)
LEMMA RewriteLast ==
    ASSUME NEW T \in [Stages -> Row], TableInv(T),
           NEW s \in Stages, NEW r \in Row,
           Exists(T[s]), Exists(r), Later(T, s) = {},
           T[s].inputs \subseteq r.inputs
    PROVE  TableInv([T EXCEPT ![s] = r])
<1> DEFINE U == [T EXCEPT ![s] = r]
<1>1. /\ U \in [Stages -> Row] /\ U[s] = r
      /\ \A t \in Stages : t # s => U[t] = T[t]
  BY ExceptAt
<1>2. \A t \in Stages : t > s => ~Exists(T[t])
  BY DEF Later, Stages, REPORT
<1>3. \A t \in Stages : Exists(U[t]) <=> Exists(T[t])
  BY <1>1
<1>a. \A t \in Stages : 1..(t - 1) \subseteq Stages
  BY DEF Stages
<1> HIDE DEF U
<1>4. FrontierIn(U)
  <2>1. SUFFICES ASSUME NEW t \in Stages, Exists(U[t]) PROVE Behind(U, t)
    BY DEF FrontierIn
  <2>2. Exists(T[t]) /\ t <= s
    BY <2>1, <1>2, <1>3 DEF Stages
  <2>3. Behind(T, t)
    BY <2>2 DEF TableInv, FrontierIn
  <2>4. \A p \in 1..(t - 1) : U[p] = T[p]
    BY <2>2, <1>1 DEF Stages
  <2> QED
    BY <2>3, <2>4, BehindLocal
<1>5. HoldSkipsIn(U)
  <2>1. SUFFICES ASSUME NEW t \in Stages, Skipped(U, t) PROVE ~Exists(U[t])
    BY DEF HoldSkipsIn
  <2>2. t > VERIFICATION_FINAL /\ VERIFICATION_FINAL \in Stages
    BY <2>1 DEF Skipped, SkippedOnHold, VERIFICATION_FINAL, CWE, TECH_GATE,
                SCOPE_GATE, FINDING, REPORT, Stages
  <2>3. CASE s = VERIFICATION_FINAL
    BY <2>2, <2>3, <1>2, <1>3
  <2>4. CASE s # VERIFICATION_FINAL
    <3>1. Skipped(T, t)
      BY <2>1, <2>2, <2>4, <1>1 DEF Skipped, Held
    <3> QED
      BY <3>1, <1>3 DEF TableInv, HoldSkipsIn
  <2> QED BY <2>3, <2>4
<1>6. InputsCurrentIn(U)
  <2>1. SUFFICES ASSUME NEW p \in Stages, NEW t \in Stages,
                        Adjacent(U, p, t), Exists(U[t])
                 PROVE  U[p].outputs \subseteq U[t].inputs
    BY DEF InputsCurrentIn
  <2>2. Adjacent(T, p, t) /\ Exists(T[t])
    BY <2>1, <1>3 DEF Adjacent, Stages
  <2>3. T[p].outputs \subseteq T[t].inputs
    BY <2>2 DEF TableInv, InputsCurrentIn
  <2>4. p < s /\ t <= s
    BY <2>2, <1>2 DEF Adjacent, Stages
  <2>5. U[p] = T[p]
    BY <2>4, <1>1 DEF Stages
  <2>6. T[t].inputs \subseteq U[t].inputs
    BY <1>1
  <2> QED
    BY <2>3, <2>5, <2>6
<1>7. TerminalLastIn(U)
  <2>1. \A t \in Stages : Later(U, t) = Later(T, t)
    BY <1>3 DEF Later, Stages, REPORT
  <2> QED
    BY <2>1, <1>1 DEF TableInv, TerminalLastIn
<1> QED
  BY <1>4, <1>5, <1>6, <1>7 DEF TableInv, U

(* invalidate_from keeps the shape, wherever it cuts (s = 13 cuts nothing). *)
LEMMA Cut ==
    ASSUME NEW T \in [Stages -> Row], TableInv(T), NEW s \in 1..13
    PROVE  TableInv(InvalidateFrom(T, s))
<1> DEFINE U == InvalidateFrom(T, s)
<1>1. \A t \in Stages : /\ t < s => U[t] = T[t]
                        /\ t >= s => ~Exists(U[t]) /\ U[t].status # "SUCCEEDED"
  BY DEF InvalidateFrom, Stages, NoRow, Exists
<1>2. \A t \in Stages : Exists(U[t]) => t < s /\ Exists(T[t])
  BY <1>1 DEF Stages
<1> HIDE DEF U
<1>3. FrontierIn(U)
  <2>1. SUFFICES ASSUME NEW t \in Stages, Exists(U[t]) PROVE Behind(U, t)
    BY DEF FrontierIn
  <2>2. Behind(T, t)
    BY <2>1, <1>2 DEF TableInv, FrontierIn
  <2>3. \A p \in 1..(t - 1) : U[p] = T[p]
    BY <2>1, <1>1, <1>2 DEF Stages
  <2> QED
    BY <2>2, <2>3, BehindLocal
<1>4. HoldSkipsIn(U)
  <2>1. SUFFICES ASSUME NEW t \in Stages, Skipped(U, t), Exists(U[t]) PROVE FALSE
    BY DEF HoldSkipsIn
  <2>2. VERIFICATION_FINAL \in Stages /\ U[VERIFICATION_FINAL] = T[VERIFICATION_FINAL]
    BY <2>1, <1>1 DEF Skipped, Held, VERIFICATION_FINAL, Stages
  <2>3. Skipped(T, t)
    BY <2>1, <2>2 DEF Skipped, Held
  <2> QED
    BY <2>1, <2>3, <1>2 DEF TableInv, HoldSkipsIn
<1>5. InputsCurrentIn(U)
  <2>1. SUFFICES ASSUME NEW p \in Stages, NEW t \in Stages,
                        Adjacent(U, p, t), Exists(U[t])
                 PROVE  U[p].outputs \subseteq U[t].inputs
    BY DEF InputsCurrentIn
  <2>2. p < t /\ t < s /\ \A q \in 1..t : U[q] = T[q]
    BY <2>1, <1>1, <1>2 DEF Adjacent, Stages
  <2>3. Adjacent(T, p, t) /\ Exists(T[t])
    BY <2>1, <2>2 DEF Adjacent, Stages
  <2> QED
    BY <2>2, <2>3 DEF TableInv, InputsCurrentIn, Stages
<1>6. TerminalLastIn(U)
  <2>1. SUFFICES ASSUME NEW t \in Stages, Reusable(U[t]),
                        Ends(U[t], t) \/ EndsVerified(U[t], t),
                        NEW q \in (t + 1)..REPORT, Exists(U[q])
                 PROVE  FALSE
    BY DEF TerminalLastIn, Later
  <2>2. U[t] = T[t] /\ q \in Later(T, t)
    BY <2>1, <1>1, <1>2 DEF Reusable, Later, Stages, REPORT
  <2> QED
    BY <2>1, <2>2 DEF TableInv, TerminalLastIn
<1> QED
  BY <1>3, <1>4, <1>5, <1>6 DEF TableInv, U

(* replace_from restarts a table at a stage that has a row.                 *)
LEMMA Restart ==
    ASSUME NEW T \in [Stages -> Row], TableInv(T),
           NEW s \in Stages, NEW r \in Row,
           Exists(T[s]), Exists(r), T[s].inputs \subseteq r.inputs
    PROVE  TableInv(ReplaceFrom(T, s, r))
<1> DEFINE U == InvalidateFrom(T, s + 1)
<1>1. TableInv(U)
  BY Cut DEF Stages
<1>2. U \in [Stages -> Row]
  BY NoRowType DEF InvalidateFrom
<1>3. \A t \in Stages : U[t] = IF t > s THEN NoRow ELSE T[t]
  BY DEF InvalidateFrom, Stages
<1> HIDE DEF U
<1>4. U[s] = T[s] /\ Later(U, s) = {}
  BY <1>3, NoRowType DEF Later, Stages, REPORT, Exists
<1>5. \A t \in Stages : ReplaceFrom(T, s, r)[t] = [U EXCEPT ![s] = r][t]
  BY <1>2, <1>3 DEF ReplaceFrom, Stages
<1>6. ReplaceFrom(T, s, r) = [t \in Stages |-> ReplaceFrom(T, s, r)[t]]
  BY DEF ReplaceFrom
<1>7. [U EXCEPT ![s] = r] = [t \in Stages |-> [U EXCEPT ![s] = r][t]]
  BY <1>2
<1>8. ReplaceFrom(T, s, r) = [U EXCEPT ![s] = r]
  BY <1>5, <1>6, <1>7
<1> QED
  BY <1>1, <1>2, <1>4, <1>8, RewriteLast

(* mark_running starts the next stage: everything before it is passed and   *)
(* its inputs hold what the row before it wrote.                            *)
LEMMA Begin ==
    ASSUME NEW T \in [Stages -> Row], TableInv(T),
           NEW s \in Stages, NEW r \in Row,
           T[s].status \in {"NONE", "PENDING"}, r.status = "RUNNING",
           ~Skipped(T, s), \A p \in 1..(s - 1) : Passed(T, p),
           \A p \in Stages : Adjacent(T, p, s) => T[p].outputs \subseteq r.inputs
    PROVE  TableInv([T EXCEPT ![s] = r])
<1> DEFINE U == [T EXCEPT ![s] = r]
<1>1. /\ U \in [Stages -> Row] /\ U[s] = r
      /\ \A t \in Stages : t # s => U[t] = T[t]
  BY ExceptAt
<1> HIDE DEF U
<1>2. \A t \in Stages : t > s => ~Exists(T[t])
  <2>1. SUFFICES ASSUME NEW t \in Stages, t > s, Exists(T[t]) PROVE FALSE
    OBVIOUS
  <2>2. Behind(T, t) /\ s \in 1..(t - 1)
    BY <2>1 DEF TableInv, FrontierIn, Stages
  <2> QED
    BY <2>2 DEF Behind
<1>3. \A p \in 1..(s - 1) : T[p].status = "SUCCEEDED" \/ (~Exists(T[p]) /\ Skipped(T, p))
  BY DEF Passed, Reusable, TableInv, HoldSkipsIn, Stages
<1>4. \A t \in Stages : Exists(U[t]) <=> (t = s \/ Exists(T[t]))
  BY <1>1 DEF Exists
<1>5. FrontierIn(U)
  <2>1. SUFFICES ASSUME NEW t \in Stages, Exists(U[t]) PROVE Behind(U, t)
    BY DEF FrontierIn
  <2>2. t <= s /\ Behind(T, t)
    BY <2>1, <1>2, <1>3, <1>4 DEF TableInv, FrontierIn, Stages, Behind
  <2>3. \A p \in 1..(t - 1) : U[p] = T[p]
    BY <2>2, <1>1 DEF Stages
  <2> QED
    BY <2>2, <2>3, BehindLocal
<1>6. HoldSkipsIn(U)
  <2>1. SUFFICES ASSUME NEW t \in Stages, Skipped(U, t) PROVE ~Exists(U[t])
    BY DEF HoldSkipsIn
  <2>2. s # VERIFICATION_FINAL /\ VERIFICATION_FINAL \in Stages
    BY <2>1, <1>1 DEF Skipped, Held, VERIFICATION_FINAL, Stages
  <2>3. Skipped(T, t)
    BY <2>1, <2>2, <1>1 DEF Skipped, Held
  <2> QED
    BY <2>3, <1>4 DEF TableInv, HoldSkipsIn
<1>7. InputsCurrentIn(U)
  <2>1. SUFFICES ASSUME NEW p \in Stages, NEW t \in Stages,
                        Adjacent(U, p, t), Exists(U[t])
                 PROVE  U[p].outputs \subseteq U[t].inputs
    BY DEF InputsCurrentIn
  <2>2. p < t /\ t <= s /\ U[p] = T[p] /\ Adjacent(T, p, t)
    BY <2>1, <1>1, <1>2, <1>4 DEF Adjacent, Stages
  <2>3. CASE t = s
    BY <2>2, <2>3, <1>1
  <2>4. CASE t # s
    BY <2>1, <2>2, <2>4, <1>1 DEF TableInv, InputsCurrentIn
  <2> QED BY <2>3, <2>4
<1>8. TerminalLastIn(U)
  <2>1. SUFFICES ASSUME NEW t \in Stages, Reusable(U[t]),
                        Ends(U[t], t) \/ EndsVerified(U[t], t),
                        NEW q \in (t + 1)..REPORT, Exists(U[q])
                 PROVE  FALSE
    BY DEF TerminalLastIn, Later
  <2>2. t # s /\ U[t] = T[t]
    BY <2>1, <1>1 DEF Reusable
  <2>3. CASE q = s
    <3>1. Passed(T, t)
      BY <2>3 DEF Stages
    <3>2. ~Skipped(T, t)
      BY <2>1, <2>2 DEF TableInv, HoldSkipsIn, Reusable, Exists
    <3> QED
      BY <3>1, <3>2, <2>1, <2>2 DEF Passed
  <2>4. CASE q # s
    <3>1. q \in Later(T, t)
      BY <2>1, <2>4, <1>4 DEF Later, Stages, REPORT
    <3> QED
      BY <3>1, <2>1, <2>2 DEF TableInv, TerminalLastIn
  <2> QED BY <2>3, <2>4
<1> QED
  BY <1>5, <1>6, <1>7, <1>8 DEF TableInv, U

(* A stage version bump leaves the rows and their order alone.              *)
LEMMA Age ==
    ASSUME NEW T \in [Stages -> Row], TableInv(T), NEW s \in Stages
    PROVE  TableInv([T EXCEPT ![s] = [T[s] EXCEPT !.current = FALSE]])
<1> DEFINE r == [T[s] EXCEPT !.current = FALSE]
           U == [T EXCEPT ![s] = r]
<1>1. /\ r \in Row /\ r.current = FALSE
      /\ r.status = T[s].status /\ r.verdict = T[s].verdict
      /\ r.inputs = T[s].inputs /\ r.outputs = T[s].outputs
  BY ZenonT(60) DEF Row
<1> HIDE DEF r
<1>2. U[s] = r /\ \A t \in Stages : t # s => U[t] = T[t]
  BY <1>1, ExceptAt
<1> HIDE DEF U
<1>3. \A t \in Stages : /\ U[t].status = T[t].status /\ U[t].verdict = T[t].verdict
                        /\ U[t].inputs = T[t].inputs /\ U[t].outputs = T[t].outputs
                        /\ Exists(U[t]) <=> Exists(T[t])
                        /\ Reusable(U[t]) => t # s
  BY <1>1, <1>2 DEF Exists, Reusable
<1>4. Held(U) <=> Held(T)
  BY <1>3 DEF Held, VERIFICATION_FINAL, Stages
<1>5. \A t \in Stages : Later(U, t) = Later(T, t)
  BY <1>3 DEF Later, Stages, REPORT
<1>6. FrontierIn(U) /\ HoldSkipsIn(U)
  BY <1>3, <1>4 DEF TableInv, FrontierIn, HoldSkipsIn, Behind, Skipped, Stages
<1>7. InputsCurrentIn(U)
  BY <1>3 DEF TableInv, InputsCurrentIn, Adjacent, Stages
<1>8. TerminalLastIn(U)
  BY <1>2, <1>3, <1>5 DEF TableInv, TerminalLastIn
<1> QED
  BY <1>6, <1>7, <1>8 DEF TableInv, U, r

-----------------------------------------------------------------------------
(* The rows the store writes are rows.                                      *)

(* A reference names an artifact kind, a stage and an attempt.              *)
LEMMA RefType ==
    ASSUME NEW k \in {"input", "output", "evidence", "decision", "policy"},
           NEW s \in 0..12, NEW a \in Nat
    PROVE  Ref(k, s, a) \in Refs
  BY DEF Ref, Refs

(* Cutting and restarting a table give a table.                             *)
LEMMA TableType ==
    ASSUME NEW T \in [Stages -> Row], NEW s, NEW r \in Row
    PROVE  /\ InvalidateFrom(T, s) \in [Stages -> Row]
           /\ ReplaceFrom(T, s, r) \in [Stages -> Row]
  BY NoRowType DEF InvalidateFrom, ReplaceFrom

(* The rows a failure, a STOP, an exhaustion, a promotion or a replay makes.*)
LEMMA RewriteType ==
    ASSUME NEW r \in Row, Exists(r)
    PROVE  /\ Exhausted(r) \in Row /\ Exhausted(r).inputs = r.inputs
           /\ Exists(Exhausted(r))
           /\ Stopped(r) \in Row /\ Stopped(r).inputs = r.inputs
           /\ Stopped(r).status = r.status
           /\ PromotedInitial(r) \in Row /\ PromotedInitial(r).inputs = r.inputs
           /\ Exists(PromotedInitial(r))
           /\ PromotedPoc(r) \in Row /\ PromotedPoc(r).inputs = r.inputs
           /\ Exists(PromotedPoc(r))
           /\ Reopened(r) \in Row /\ Reopened(r).inputs = r.inputs
           /\ Exists(Reopened(r))
  BY ZenonT(60) DEF Row, Exists, Exhausted, Stopped, PromotedInitial, PromotedPoc, Reopened,
         RefSets, Status, Errors, Verdicts

(* What a handler failure carries.                                          *)
FailureRecord == [error : Errors, retryable : BOOLEAN, status : {"BLOCKED", "FAILED"}]

LEMMA MarkedFailedType ==
    ASSUME NEW r \in Row, NEW f \in FailureRecord, NEW e \in RefSets
    PROVE  /\ MarkedFailed(r, f, e) \in Row
           /\ MarkedFailed(r, f, e).inputs = r.inputs
           /\ MarkedFailed(r, f, e).status = f.status
  BY DEF Row, MarkedFailed, FailureRecord, Status

(* What a handler result carries.                                           *)
ResultRecord == [verdict : Verdicts, gate : Gates, validated : Nat,
                 builds : BOOLEAN, unmet : BOOLEAN]

LEMMA CompletedType ==
    ASSUME NEW r \in Row, NEW s \in Stages, NEW res \in ResultRecord
    PROVE  /\ Completed(r, s, res) \in Row
           /\ Completed(r, s, res).inputs = r.inputs
           /\ Completed(r, s, res).status = "SUCCEEDED"
<1> DEFINE o == IF r.origin = s THEN 0 ELSE r.origin
           d == IF r.origin = s THEN {} ELSE r.decisions
           e == IF res.builds THEN r.attempt ELSE r.env
           out == {Ref("output", s, r.attempt)}
           v == res.verdict
           g == res.gate
           n == res.validated
           u == res.unmet
           c == [r EXCEPT !.status = "SUCCEEDED", !.outputs = out, !.error = "none",
                          !.retryable = FALSE, !.env = e, !.verdict = v, !.gate = g,
                          !.validated = n, !.unmet = u, !.origin = o, !.decisions = d]
<1>1. out \in RefSets
  <2>1. Ref("output", s, r.attempt) \in Refs
    BY RefType DEF Stages, Row
  <2> QED
    BY <2>1 DEF RefSets
<1>2. o \in 0..12 /\ d \in RefSets /\ e \in Nat
  BY DEF Row, RefSets
<1>3. v \in Verdicts /\ g \in Gates /\ n \in Nat /\ u \in BOOLEAN
  BY DEF ResultRecord
<1>4. Completed(r, s, res) = c
  BY DEF Completed
<1> HIDE DEF o, d, e, out, v, g, n, u
<1>5. c \in Row
  BY <1>1, <1>2, <1>3 DEF Row, Status, Errors
<1>6. c.inputs = r.inputs /\ c.status = "SUCCEEDED"
  BY DEF Row
<1> QED
  BY <1>4, <1>5, <1>6

(* A recovery restarts the table at a stage that has a row, up to the       *)
(* failed one, and keeps its shape.                                         *)
LEMMA RecoveringTable ==
    ASSUME NEW T \in [Stages -> Row], TableInv(T),
           NEW s \in Stages, NEW k \in Stages, Exists(T[k]), NEW b \in BOOLEAN
    PROVE  /\ Recovering(T, s, k, b) \in [Stages -> Row]
           /\ TableInv(Recovering(T, s, k, b))
<1> DEFINE i == (T[k].inputs \cup T[s].inputs) \cup T[s].outputs
                   \cup (T[s].decisions \cup {Decision(s, T[s])})
           o == IF T[s].origin # 0 THEN T[s].origin ELSE s
           d == T[s].decisions \cup {Decision(s, T[s])}
           e == IF b THEN 0 ELSE T[s].env
           n == T[s].number
           v == T[s].revisions
           r == Seed(i, n, v, o, d, e)
<1>1. T[s] \in Row /\ T[k] \in Row
  OBVIOUS
<1>2. Decision(s, T[s]) \in Refs
  BY <1>1, RefType DEF Decision, Stages, Row
<1>3. /\ i \in RefSets /\ d \in RefSets /\ o \in 0..12 /\ e \in Nat
      /\ n \in Nat /\ v \in Nat /\ T[k].inputs \subseteq i
  BY <1>1, <1>2 DEF Row, RefSets, Stages
<1>4. Recovering(T, s, k, b) = ReplaceFrom(T, k, r)
  BY DEF Recovering, Lineage
<1> HIDE DEF i, o, d, e, n, v
<1>5. r \in Row /\ r.inputs = i /\ Exists(r)
  BY <1>3, NoRowType DEF Seed, Exists, Row, Status
<1> HIDE DEF r
<1> QED
  BY <1>3, <1>4, <1>5, TableType, Restart

(* A gate revision restarts the table at the PoC candidate.                 *)
LEMMA RevisingTable ==
    ASSUME NEW T \in [Stages -> Row], TableInv(T), Exists(T[POC_CANDIDATE])
    PROVE  Revising(T) \in [Stages -> Row] /\ TableInv(Revising(T))
<1> DEFINE g == T[TECH_GATE]
           c == T[POC_CANDIDATE]
           x == T[POC_EXECUTION]
           i == g.outputs \cup c.inputs \cup c.outputs \cup x.outputs
           e == IF c.env # 0 THEN c.env ELSE g.env
           v == g.revisions + 1
           n == 0
           o == 0
           d == {}
           r == Seed(i, n, v, o, d, e)
<1>1. g \in Row /\ c \in Row /\ x \in Row /\ POC_CANDIDATE \in Stages
  BY DEF Stages, TECH_GATE, POC_CANDIDATE, POC_EXECUTION
<1>2. /\ i \in RefSets /\ e \in Nat /\ v \in Nat
      /\ n \in Nat /\ o \in 0..12 /\ d \in RefSets
  BY <1>1 DEF Row, RefSets
<1>3. T[POC_CANDIDATE].inputs \subseteq i
  OBVIOUS
<1>4. Revising(T) = ReplaceFrom(T, POC_CANDIDATE, r)
  BY DEF Revising
<1> HIDE DEF i, e, v, n, o, d
<1>5. r \in Row /\ r.inputs = i /\ Exists(r)
  BY <1>2, NoRowType DEF Seed, Exists, Row, Status
<1> HIDE DEF r
<1> QED
  BY <1>1, <1>3, <1>4, <1>5, TableType, Restart

(* A nonempty set of earlier stages has a last one.                         *)
LEMMA LatestIn ==
    ASSUME NEW P \in SUBSET (1..11), P # {}
    PROVE  Latest(P) \in P /\ \A q \in P : q <= Latest(P)
<1>1. \E p \in P : \A q \in P : q <= p
  <2> SUFFICES ASSUME \A p \in P : \E q \in P : ~(q <= p) PROVE FALSE
    OBVIOUS
  <2>12. \A p \in P : \E q \in P : q \in 1..11 /\ p \in 1..11 /\ q > p
    OBVIOUS
  <2>11. 11 \notin P
    BY <2>12
  <2>10. 10 \notin P
    BY <2>12, <2>11
  <2>9. 9 \notin P
    BY <2>12, <2>10, <2>11
  <2>8. 8 \notin P
    BY <2>12, <2>9, <2>10, <2>11
  <2>7. 7 \notin P
    BY <2>12, <2>8, <2>9, <2>10, <2>11
  <2>6. 6 \notin P
    BY <2>12, <2>7, <2>8, <2>9, <2>10, <2>11
  <2>5. 5 \notin P
    BY <2>12, <2>6, <2>7, <2>8, <2>9, <2>10, <2>11
  <2>4. 4 \notin P
    BY <2>12, <2>5, <2>6, <2>7, <2>8, <2>9, <2>10, <2>11
  <2>3. 3 \notin P
    BY <2>12, <2>4, <2>5, <2>6, <2>7, <2>8, <2>9, <2>10, <2>11
  <2>2. 2 \notin P
    BY <2>12, <2>3, <2>4, <2>5, <2>6, <2>7, <2>8, <2>9, <2>10, <2>11
  <2>1. 1 \notin P
    BY <2>12, <2>2, <2>3, <2>4, <2>5, <2>6, <2>7, <2>8, <2>9, <2>10, <2>11
  <2>13. PICK p \in P : TRUE
    OBVIOUS
  <2>14. p \in 1..11
    OBVIOUS
  <2>15. p = 1 \/ p = 2 \/ p = 3 \/ p = 4 \/ p = 5 \/ p = 6 \/ p = 7 \/ p = 8 \/ p = 9 \/ p = 10 \/ p = 11
    BY <2>14
  <2> QED
    BY <2>15, <2>1, <2>2, <2>3, <2>4, <2>5, <2>6, <2>7, <2>8, <2>9, <2>10, <2>11
<1> QED
  BY <1>1 DEF Latest

(* mark_running writes a row that holds the inputs the table gives it.      *)
LEMMA RunningType ==
    ASSUME NEW T \in [Stages -> Row], NEW s \in Stages, NEW fresh \in Nat
    PROVE  /\ Running(T, s, fresh) \in Row
           /\ Running(T, s, fresh).status = "RUNNING"
           /\ InputRefsFor(T, s) \subseteq Running(T, s, fresh).inputs
           /\ Running(T, s, fresh).attempt \in Nat
<1> DEFINE base == IF T[s].status = "PENDING" THEN T[s] ELSE InheritFrom(T, s)
           policy == IF s = SCOPE_GATE /\ ~Exists(T[s]) THEN {PolicyRef} ELSE {}
           i == InputRefsFor(T, s) \cup policy \cup base.decisions
           a == AttemptId(T, s, fresh)
           n == AttemptNumber(T, s)
           v == base.revisions
           o == base.origin
           d == base.decisions
           e == base.env
           r == [NoRow EXCEPT !.status = "RUNNING", !.inputs = i, !.attempt = a,
                              !.number = n, !.revisions = v, !.origin = o,
                              !.decisions = d, !.env = e]
<1>1. InheritFrom(T, s) \in Row
  <2>1. CASE Prior(T, s) = {}
    BY <2>1, NoRowType DEF InheritFrom, Preceding
  <2>2. CASE Prior(T, s) # {}
    <3>1. Prior(T, s) \in SUBSET (1..11)
      BY DEF Prior, Stages
    <3>2. Preceding(T, s) \in Stages
      BY <3>1, <2>2, LatestIn DEF Preceding, Stages
    <3> QED
      BY <3>2, NoRowType DEF InheritFrom
  <2> QED BY <2>1, <2>2
<1>2. base \in Row
  BY <1>1
<1>3. InputRefsFor(T, s) \in RefSets
  <2>1. \A p \in Sources(T, s) : p \in Stages
    BY DEF Sources, Stages
  <2>2. \A p \in Stages : T[p].outputs \subseteq Refs /\ T[p].inputs \subseteq Refs
    BY DEF Row, RefSets
  <2> QED
    BY <2>1, <2>2 DEF InputRefsFor, RefSets
<1>4. policy \in RefSets
  <2>1. PolicyRef \in Refs
    BY RefType DEF PolicyRef
  <2> QED
    BY <2>1 DEF RefSets
<1>5. a \in Nat
  BY DEF AttemptId, Row, POC_CANDIDATE, Stages
<1>6. n \in Nat
  BY <1>1 DEF AttemptNumber, Row
<1>7. v \in Nat /\ o \in 0..12 /\ d \in RefSets /\ e \in Nat
  BY <1>2 DEF Row
<1>8. i \in RefSets
  BY <1>3, <1>4, <1>7 DEF RefSets
<1>9. Running(T, s, fresh) = r
  BY DEF Running
<1>10. InputRefsFor(T, s) \subseteq i
  OBVIOUS
<1> HIDE DEF i, a, n, v, o, d, e, base
<1>11. r \in Row
  BY <1>5, <1>6, <1>7, <1>8, NoRowType DEF Row, Status
<1>12. r.status = "RUNNING" /\ r.inputs = i /\ r.attempt = a
  BY NoRowType DEF Row
<1> QED
  BY <1>5, <1>9, <1>10, <1>11, <1>12
=============================================================================
