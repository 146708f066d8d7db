----------------------- MODULE WorkDispatch_proofs ------------------------
(***************************************************************************)
(* Proofs about the production dispatch, for any number of works, of       *)
(* processes, of attempts and of reservations.  The argument: a work row   *)
(* that is RUNNING names its latest attempt and nothing else does, so that *)
(* "the current revision" identifies one attempt; the reservation rows a   *)
(* task can still change are those its own attempt made, so that tasks of  *)
(* a superseded attempt cannot touch another's; and a journal entry whose  *)
(* decision still holds is PREPARED, so that the two phase commit, which   *)
(* never reads the state of the entry, ends an attempt once.               *)
(***************************************************************************)
EXTENDS WorkDispatch, FiniteSetTheorems, TLAPS

-----------------------------------------------------------------------------
(* The inductive invariant, by what it speaks about.                       *)

WorkRec  == [status : Statuses, active : Numbers \cup {0},
             waiting : {"none", "INPUT", "RETRY"}, stop : Causes]
RowRec   == [att : Numbers \cup {0}, resv : {"NONE", "RESERVED", "COMMITTED", "RELEASED"},
             stage : Stages, seen : {"none", "CLOSED", "UNKNOWN"}]
EntryRec == [state : {"NONE", "PREPARED", "COMMITTED", "ABORTED"},
             target : Targets \cup {"CANCELLED"}, cause : Causes, fresh : BOOLEAN]
TaskRec  == [proc : Procs \cup {Nobody}, pc : Pcs, row : Rows \cup {0}]

StoreType ==
    /\ run \in {"RUNNING", "FINAL"} /\ control \in {"none", "latched", "quiescent"}
    /\ work \in [Works -> WorkRec]
    /\ lease \in [Works -> {"none", "held", "expired"}]
    /\ tries \in [Works -> Numbers \cup {0}]
    /\ attempt \in [Works -> [Numbers -> {"NONE", "RUNNING"} \cup Terminal]]
    /\ retries \in 0..MaxRetries
    /\ row \in [Works -> [Rows -> RowRec]]
    /\ journal \in [Works -> [Numbers -> [Owners -> EntryRec]]]
TaskType == task \in [Works -> [Numbers -> TaskRec]]

(* What a process may hold in each of its modes.                           *)
Things == (Works \X Numbers \X Owners) \cup (Works \X Numbers) \cup (Works \X Rows) \cup Works
Pooled == {"drain", "poll", "seed", "close", "closeCancelled", "cancel", "observe", "settled"}
Latching == {"closeCancelled", "cancel", "observe", "settled"}

ProcTyped == proc \in [Procs -> [mode : Modes, todo : SUBSET Things, held : SUBSET Things]]

ModeOK(p) ==
    /\ proc[p].mode = "replay" => proc[p].todo \subseteq Works \X Numbers \X Owners
    /\ proc[p].mode \in {"expiry", "block"} => proc[p].todo \subseteq Works \X Numbers
    /\ proc[p].mode = "block" => proc[p].held \subseteq Works \X Numbers
    /\ proc[p].mode = "seed" => proc[p].todo \subseteq Works
    /\ proc[p].mode \in Pooled => started
    /\ proc[p].mode \in Latching => Latched

(* A canceller has seen something of every target it no longer has to stop.*)
SightOK(p) ==
    proc[p].mode = "observe" =>
        /\ proc[p].held \subseteq Works \X Rows /\ proc[p].todo \subseteq proc[p].held
        /\ \A x \in proc[p].held : row[x[1]][x[2]].resv # "NONE"
        /\ \A x \in proc[p].held \ proc[p].todo : Seen(x) # "none"

(* Nothing has happened before the run was created.                        *)
StartOK ==
    ~started =>
        /\ run = "RUNNING" /\ control = "none"
        /\ \A w \in Works : work[w].status = "NONE" /\ \A n \in Numbers : task[w][n].pc = "over"

WorkOK(w) ==
    /\ work[w].status = "RUNNING" <=> work[w].active # 0
    /\ work[w].status = "RUNNING" <=> lease[w] # "none"
    /\ work[w].active \in {0, tries[w]}
    /\ \A n \in Numbers : attempt[w][n] = "RUNNING" <=> (n = work[w].active)
    /\ \A n \in Numbers : attempt[w][n] = "NONE" <=> n > tries[w]
    /\ work[w].status \in {"NONE", "PENDING"} => tries[w] = 0

(* The reservations of a work are used in order, and what was used belongs *)
(* to an attempt that started.                                             *)
UsedOK(w) == \E m \in 0..MaxRows : UsedRows(w) = 1..m

RowOK(w, k) ==
    /\ row[w][k].resv = "NONE" => row[w][k].stage = "none" /\ row[w][k].seen = "none"
    /\ row[w][k].resv # "NONE" => row[w][k].att \in 1..tries[w]
    /\ row[w][k].stage = "dispatched" =>
          /\ row[w][k].att = tries[w]
          /\ \A j \in Rows : row[w][j].stage = "dispatched" => j = k
          /\ work[w].status # "READY" /\ row[w][k].resv = "RESERVED"

(* The stage of the row a task works on follows from where the task is.    *)
Calling == {"reserved", "authorized", "prepared", "await", "returned"}
StagesAt(pc) ==
    CASE pc \in {"reserved", "authorized"} -> {"none"}
      [] pc = "prepared" -> {"claimed", "retired"}
      [] pc = "await" -> {"dispatched", "reconciled"}
      [] OTHER -> {"returned"}
TaskOK(w, n) ==
    LET t == task[w][n] IN
    /\ t.pc # "over" => n <= tries[w]
    /\ t.pc \in Calling =>
          /\ t.row \in Rows /\ row[w][t.row].resv # "NONE"
          /\ row[w][t.row].att = n /\ row[w][t.row].stage \in StagesAt(t.pc)

EntryOK(w, n, o) ==
    /\ journal[w][n][o].fresh => Prepared(w, n, o)
    /\ Prepared(w, n, o) => journal[w][n][o].target \in Targets

Committed(w, n, o) == journal[w][n][o].state = "COMMITTED"
OutcomeOK(w, n) ==
    IF attempt[w][n] \in {"NONE", "RUNNING"}
    THEN \A o \in Owners : ~Committed(w, n, o)
    ELSE \E o \in Owners : /\ Committed(w, n, o)
                           /\ attempt[w][n] = Ended(journal[w][n][o].target)
                           /\ \A u \in Owners : Committed(w, n, u) => u = o

WorksOK == \A w \in Works : WorkOK(w)
RowsOK == \A w \in Works : UsedOK(w) /\ \A k \in Rows : RowOK(w, k)
JournalOK ==
    \A w \in Works : \A n \in Numbers :
        OutcomeOK(w, n) /\ \A o \in Owners : EntryOK(w, n, o)

(* What the database says, what the tasks know and what the processes do.  *)
StoreInv == StoreType /\ WorksOK /\ RowsOK /\ JournalOK /\ QuiescentClosed
TaskInv == TaskType /\ \A w \in Works : \A n \in Numbers : TaskOK(w, n)
ProcInv == ProcTyped /\ \A p \in Procs : ModeOK(p) /\ SightOK(p)

DInv == /\ StoreInv /\ TaskInv /\ ProcInv /\ StartOK
        /\ started \in BOOLEAN /\ crashes \in 0..MaxCrashes


-----------------------------------------------------------------------------
(* Facts about the constants and the initial state.                        *)

LEMMA Bounds == /\ MaxParallel \in Nat /\ MaxRetries \in Nat /\ MaxAttempts \in Nat
                /\ Repairs \in Nat /\ MaxRows \in Nat /\ MaxCrashes \in Nat
  BY DispatchAssumption

(* Attempt and reservation numbers are positive naturals, as                *)
(* attempt_number and the rows of a work are counted from one.             *)
LEMMA NumbersNat == /\ Numbers \subseteq Nat /\ 0 \notin Numbers /\ Rows \subseteq Nat
                    /\ \A n \in Numbers : n > 0 /\ 1..n \subseteq Numbers
  BY DispatchAssumption DEF Numbers, Rows

(* The type invariant of the run is part of the invariant of the proofs.   *)
LEMMA TypeParts == DInv => TypeOK
  BY DEF DInv, StoreInv, StoreType, TaskInv, TaskType, ProcInv, ProcTyped, TypeOK,
         WorkRec, RowRec, EntryRec, TaskRec

LEMMA InitOK == Init => DInv
  <1> SUFFICES ASSUME Init PROVE DInv
    OBVIOUS
  <1>1. StoreType
    BY Bounds, NumbersNat DEF Init, StoreType, WorkRec, RowRec, EntryRec, Idle, NoRow, NoEntry, Statuses,
           Terminal, Causes, Stages, Targets
  <1>2. WorksOK
    BY NumbersNat DEF Init, WorksOK, WorkOK, Idle
  <1>3. RowsOK
    <2>1. \A w \in Works : UsedRows(w) = 1..0
      BY DEF Init, UsedRows, NoRow
    <2>2. 0 \in 0..MaxRows
      BY Bounds
    <2>3. \A w \in Works : UsedOK(w)
      BY <2>1, <2>2, Zenon DEF UsedOK
    <2> QED
      BY <2>3 DEF Init, RowsOK, RowOK, NoRow
  <1>4. JournalOK
    BY DEF Init, JournalOK, OutcomeOK, EntryOK, Committed, Prepared, NoEntry
  <1>5. TaskInv
    BY NumbersNat DEF Init, TaskInv, TaskType, TaskOK, TaskRec, NoTask, Pcs, Calling
  <1>6. ProcInv
    <2>1. ProcTyped
      BY DEF Init, ProcTyped, Down, Modes
    <2>2. \A p \in Procs : ModeOK(p) /\ SightOK(p)
      BY DEF Init, ModeOK, SightOK, Down, Pooled, Latching
    <2> QED BY <2>1, <2>2 DEF ProcInv
  <1>7. StartOK
    BY DEF Init, StartOK, NoTask, Idle
  <1>8. QuiescentClosed
    BY DEF Init, QuiescentClosed
  <1>9. started \in BOOLEAN
    BY Zenon DEF Init
  <1>10. crashes \in 0..MaxCrashes
    BY Bounds DEF Init
  <1> QED
    BY <1>1, <1>2, <1>3, <1>4, <1>5, <1>6, <1>7, <1>8, <1>9, <1>10 DEF DInv, StoreInv

-----------------------------------------------------------------------------
(* What each kind of transaction does to the database.                     *)

LEMMA StoreSame == StoreInv /\ UNCHANGED store => StoreInv'
  <1> SUFFICES ASSUME StoreInv, UNCHANGED store PROVE StoreInv'
    OBVIOUS
  <1>1. UNCHANGED <<run, control, work, lease, tries, attempt, retries, row, journal>>
    BY DEF store
  <1>2. StoreType'
    BY <1>1 DEF StoreInv, StoreType
  <1>3. WorksOK'
    BY <1>1 DEF StoreInv, WorksOK, WorkOK
  <1>4. RowsOK'
    BY <1>1 DEF StoreInv, RowsOK, UsedOK, UsedRows, RowOK
  <1>5. JournalOK'
    BY <1>1 DEF StoreInv, JournalOK, OutcomeOK, EntryOK, Committed, Prepared
  <1>6. QuiescentClosed'
    BY <1>1 DEF StoreInv, QuiescentClosed, AllTerminal, Known, SomePrepared, Prepared
  <1> QED
    BY <1>2, <1>3, <1>4, <1>5, <1>6 DEF StoreInv

(* A row of the journal never decides a work that has no active attempt.   *)
LEMMA CurrentRuns ==
  ASSUME StoreInv, NEW w \in Works, NEW n \in Numbers, Current(w, n)
  PROVE  /\ attempt[w][n] = "RUNNING" /\ n = tries[w] /\ work[w].active = n
         /\ \A o \in Owners : ~Committed(w, n, o)
         /\ control # "quiescent"
  <1>1. WorkOK(w) /\ OutcomeOK(w, n)
    BY DEF StoreInv, WorksOK, JournalOK
  <1>2. attempt[w][n] = "RUNNING" /\ n = tries[w] /\ work[w].active = n
    BY <1>1, NumbersNat DEF WorkOK, Current
  <1>3. control # "quiescent"
    BY DEF StoreInv, QuiescentClosed, AllTerminal, Known, Terminal, Current
  <1> QED
    BY <1>1, <1>2, <1>3 DEF OutcomeOK

(* Transaction A of a two phase commit: block, complete, record a failure. *)
LEMMA PrepareStore ==
  ASSUME StoreInv, NEW w \in Works, NEW n \in Numbers, NEW o \in Owners,
         NEW target \in Targets, NEW cause \in Causes,
         Current(w, n), Prepare(w, n, o, target, cause),
         UNCHANGED <<run, control, work, lease, tries, attempt, retries, row>>
  PROVE  StoreInv'
  <1>1. /\ attempt[w][n] = "RUNNING" /\ control # "quiescent"
        /\ \A u \in Owners : ~Committed(w, n, u)
    BY CurrentRuns
  <1> DEFINE e == [state |-> "PREPARED", target |-> target, cause |-> cause, fresh |-> TRUE]
  <1>2. journal' = [journal EXCEPT ![w][n][o] = e] /\ e \in EntryRec
    BY DEF Prepare, EntryRec
  <1> HIDE DEF e
  <1>3. StoreType'
    BY <1>2 DEF StoreInv, StoreType
  <1>4. WorksOK' /\ RowsOK'
    BY DEF StoreInv, WorksOK, WorkOK, RowsOK, UsedOK, UsedRows, RowOK
  <1>5. \A v \in Works : \A m \in Numbers : \A u \in Owners :
           journal'[v][m][u] = IF v = w /\ m = n /\ u = o THEN e ELSE journal[v][m][u]
    BY <1>2 DEF StoreInv, StoreType
  <1>6. e.state = "PREPARED" /\ e.target = target /\ e.fresh
    BY DEF e
  <1>7. JournalOK'
    <2> SUFFICES ASSUME NEW v \in Works, NEW m \in Numbers
                 PROVE  OutcomeOK(v, m)' /\ \A u \in Owners : EntryOK(v, m, u)'
      BY DEF JournalOK
    <2>1. OutcomeOK(v, m) /\ \A u \in Owners : EntryOK(v, m, u)
      BY DEF StoreInv, JournalOK
    <2>2. \A u \in Owners : EntryOK(v, m, u)'
      BY <2>1, <1>5, <1>6 DEF EntryOK, Prepared
    <2>3. OutcomeOK(v, m)'
      <3>1. CASE v = w /\ m = n
        BY <3>1, <1>1, <1>5, <1>6 DEF OutcomeOK, Committed
      <3>2. CASE ~(v = w /\ m = n)
        BY <3>2, <2>1, <1>5 DEF OutcomeOK, Committed
      <3> QED BY <3>1, <3>2
    <2> QED BY <2>2, <2>3
  <1>8. QuiescentClosed'
    BY <1>1 DEF QuiescentClosed
  <1> QED
    BY <1>3, <1>4, <1>7, <1>8 DEF StoreInv

(* A change of reservation rows that uses no new one, sends nothing and    *)
(* leaves the money of an unknown request alone.                           *)
RowKept(v, k) ==
    /\ row'[v][k].att = row[v][k].att
    /\ row'[v][k].resv = "NONE" <=> row[v][k].resv = "NONE"
    /\ row[v][k].resv = "NONE" => row'[v][k].stage = "none" /\ row'[v][k].seen = "none"
    /\ row'[v][k].stage = "dispatched" =>
          row[v][k].stage = "dispatched" /\ row'[v][k].resv = row[v][k].resv

LEMMA RowsKept ==
  ASSUME StoreInv, tries' = tries,
         \A v \in Works : \A k \in Rows : RowKept(v, k),
         \A v \in Works : work'[v].status = "READY" => work[v].status = "READY" \/ ~Uncertain(v)
  PROVE  RowsOK'
  <1> SUFFICES ASSUME NEW v \in Works PROVE UsedOK(v)' /\ \A k \in Rows : RowOK(v, k)'
    BY DEF RowsOK
  <1>1. UsedOK(v) /\ \A k \in Rows : RowOK(v, k) /\ RowKept(v, k)
    BY DEF StoreInv, RowsOK
  <1>2. UsedRows(v)' = UsedRows(v)
    BY <1>1 DEF UsedRows, RowKept
  <1>3. UsedOK(v)'
    BY <1>1, <1>2, Zenon DEF UsedOK
  <1>4. ASSUME NEW k \in Rows PROVE RowOK(v, k)'
    BY <1>1, <1>4 DEF RowOK, RowKept, Uncertain, Unresolved
  <1> QED BY <1>3, <1>4

(* A decision that still holds belongs to a PREPARED entry.                *)
LEMMA FreshPrepared ==
  ASSUME StoreInv, NEW w \in Works, NEW n \in Numbers, NEW o \in Owners, CanFinish(w, n, o)
  PROVE  /\ Current(w, n) /\ control = "none"
         /\ Prepared(w, n, o) /\ journal[w][n][o].target \in Targets
  BY DEF StoreInv, JournalOK, EntryOK, CanFinish, Latched

(* Transaction B: the attempt ends with the outcome of the entry.          *)
LEMMA PublishStore ==
  ASSUME StoreInv, NEW w \in Works, NEW n \in Numbers, NEW o \in Owners,
         CanFinish(w, n, o), Publish(w, n, o)
  PROVE  /\ StoreInv'
         /\ \A v \in Works : \A k \in Rows : RowKept(v, k)
         /\ \A v \in Works : \A k \in Rows : row'[v][k].seen = row[v][k].seen
         /\ \A v \in Works : \A k \in Rows :
               \/ row'[v][k].stage = row[v][k].stage
               \/ row[v][k].stage = "claimed" /\ row'[v][k].stage = "retired"
  <1> DEFINE target == journal[w][n][o].target
  <1>1. /\ Current(w, n) /\ control = "none" /\ Prepared(w, n, o) /\ target \in Targets
    BY FreshPrepared
  <1>2. /\ attempt[w][n] = "RUNNING" /\ n = tries[w] /\ work[w].active = n
        /\ \A u \in Owners : ~Committed(w, n, u)
    BY <1>1, CurrentRuns
  <1>3. PICK waits \in {"none", "INPUT", "RETRY"} :
          work' = [work EXCEPT ![w] = [status |-> target, active |-> 0,
                                       stop |-> journal[w][n][o].cause, waiting |-> waits]]
    BY DEF Publish
  <1>4. /\ attempt' = [attempt EXCEPT ![w][n] = AttemptStatus(target)]
        /\ AttemptStatus(target) \in Terminal /\ AttemptStatus(target) = Ended(target)
        /\ lease' = [lease EXCEPT ![w] = "none"]
        /\ UNCHANGED <<run, control, tries, retries>>
    BY <1>1 DEF Publish, AttemptStatus, Ended, Targets, Terminal
  <1>5. journal' = [journal EXCEPT ![w][n][o] = Closed("COMMITTED", target)]
    BY <1>1 DEF Publish
  <1>6. /\ Closed("COMMITTED", target) \in EntryRec
        /\ Closed("COMMITTED", target).state = "COMMITTED"
        /\ Closed("COMMITTED", target).target = target
        /\ Closed("COMMITTED", target).fresh = FALSE
    BY <1>1 DEF Closed, NoEntry, EntryRec, Targets, Causes
  <1> HIDE DEF target
  <1>7. row' = row \/ row' = [row EXCEPT ![w] = Retired(w, n)]
    BY DEF Publish
  <1>8. row \in [Works -> [Rows -> RowRec]] /\ Retired(w, n) \in [Rows -> RowRec]
    <2>1. row \in [Works -> [Rows -> RowRec]]
      BY DEF StoreInv, StoreType
    <2>2. ASSUME NEW k \in Rows PROVE Retired(w, n)[k] \in RowRec
      <3>1. row[w][k] \in RowRec
        BY <2>1
      <3> QED
        BY <3>1 DEF Retired, RowRec, Stages
    <2> QED
      BY <2>1, <2>2 DEF Retired
  <1>9. /\ row' \in [Works -> [Rows -> RowRec]]
        /\ \A v \in Works : \A k \in Rows :
              row'[v][k] = row[v][k] \/ (v = w /\ row'[v][k] = Retired(w, n)[k])
    BY <1>7, <1>8
  <1>10. \A v \in Works : \A k \in Rows :
            /\ RowKept(v, k) /\ row'[v][k].seen = row[v][k].seen
            /\ \/ row'[v][k].stage = row[v][k].stage
               \/ row[v][k].stage = "claimed" /\ row'[v][k].stage = "retired"
    <2> SUFFICES ASSUME NEW v \in Works, NEW k \in Rows
                 PROVE  /\ RowKept(v, k) /\ row'[v][k].seen = row[v][k].seen
                        /\ \/ row'[v][k].stage = row[v][k].stage
                           \/ row[v][k].stage = "claimed" /\ row'[v][k].stage = "retired"
      OBVIOUS
    <2>1. row[v][k] \in RowRec /\ RowOK(v, k)
      BY <1>8 DEF StoreInv, RowsOK
    <2>2. CASE row'[v][k] = row[v][k]
      BY <2>1, <2>2 DEF RowKept, RowOK
    <2>3. CASE v = w /\ row'[v][k] = Retired(w, n)[k]
      BY <2>1, <2>3 DEF RowKept, RowOK, Retired, RowRec
    <2> QED BY <2>2, <2>3, <1>9
  <1>11. StoreType'
    <2>1. work' \in [Works -> WorkRec]
      BY <1>1, <1>3 DEF StoreInv, StoreType, WorkRec, EntryRec, Statuses, Terminal, Targets
    <2> QED
      BY <2>1, <1>4, <1>5, <1>6, <1>9 DEF StoreInv, StoreType
  <1>12. WorksOK'
    <2> SUFFICES ASSUME NEW v \in Works PROVE WorkOK(v)'
      BY DEF WorksOK
    <2>1. WorkOK(v) /\ work[v] \in WorkRec
      BY DEF StoreInv, WorksOK, StoreType
    <2>2. CASE v # w
      BY <2>1, <2>2, <1>3, <1>4 DEF WorkOK, StoreInv, StoreType
    <2>3. CASE v = w
      <3>1. work'[w].status = target /\ work'[w].active = 0 /\ lease'[w] = "none"
        BY <1>3, <1>4 DEF StoreInv, StoreType
      <3>2. \A m \in Numbers : attempt'[w][m] = IF m = n THEN AttemptStatus(target)
                                                ELSE attempt[w][m]
        BY <1>4 DEF StoreInv, StoreType
      <3> QED
        BY <2>1, <2>3, <3>1, <3>2, <1>1, <1>2, <1>4, NumbersNat
        DEF WorkOK, Targets, Terminal, StoreInv, StoreType
    <2> QED BY <2>2, <2>3
  <1>13. RowsOK'
    <2>1. \A v \in Works : work'[v].status = "READY" => work[v].status = "READY"
      BY <1>1, <1>3 DEF StoreInv, StoreType, Targets
    <2> QED
      BY <2>1, <1>4, <1>10, RowsKept
  <1>14. JournalOK'
    <2> SUFFICES ASSUME NEW v \in Works, NEW m \in Numbers
                 PROVE  OutcomeOK(v, m)' /\ \A u \in Owners : EntryOK(v, m, u)'
      BY DEF JournalOK
    <2>1. OutcomeOK(v, m) /\ \A u \in Owners : EntryOK(v, m, u)
      BY DEF StoreInv, JournalOK
    <2>2. \A u \in Owners :
             journal'[v][m][u] = IF v = w /\ m = n /\ u = o THEN Closed("COMMITTED", target)
                                 ELSE journal[v][m][u]
      BY <1>5 DEF StoreInv, StoreType
    <2>3. attempt'[v][m] = IF v = w /\ m = n THEN AttemptStatus(target) ELSE attempt[v][m]
      BY <1>4 DEF StoreInv, StoreType
    <2>4. \A u \in Owners : EntryOK(v, m, u)'
      BY <2>1, <2>2, <1>6 DEF EntryOK, Prepared
    <2>5. OutcomeOK(v, m)'
      <3>1. CASE v = w /\ m = n
        <4>1. Committed(v, m, o)' /\ attempt'[v][m] = Ended(journal'[v][m][o].target)
          BY <3>1, <2>2, <2>3, <1>4, <1>6 DEF Committed
        <4>2. \A u \in Owners : Committed(v, m, u)' => u = o
          BY <3>1, <2>2, <1>2 DEF Committed
        <4>3. attempt'[v][m] \notin {"NONE", "RUNNING"}
          BY <3>1, <2>3, <1>4 DEF Terminal
        <4> QED BY <4>1, <4>2, <4>3 DEF OutcomeOK, Ended
      <3>2. CASE ~(v = w /\ m = n)
        BY <3>2, <2>1, <2>2, <2>3 DEF OutcomeOK, Committed
      <3> QED BY <3>1, <3>2
    <2> QED BY <2>4, <2>5
  <1>15. QuiescentClosed'
    BY <1>1, <1>4 DEF QuiescentClosed
  <1> QED
    BY <1>10, <1>11, <1>12, <1>13, <1>14, <1>15 DEF StoreInv

(* A step that changes the journal only, and closes what it changes.       *)
LEMMA JournalStep ==
  ASSUME StoreInv, UNCHANGED <<run, control, work, lease, tries, attempt, retries, row>>,
         journal' \in [Works -> [Numbers -> [Owners -> EntryRec]]],
         \A v \in Works : \A m \in Numbers : \A u \in Owners :
            /\ EntryOK(v, m, u)' /\ (Prepared(v, m, u)' => Prepared(v, m, u))
            /\ Committed(v, m, u)' <=> Committed(v, m, u)
            /\ Committed(v, m, u) => journal'[v][m][u] = journal[v][m][u]
  PROVE  StoreInv'
  <1>1. StoreType'
    BY DEF StoreInv, StoreType
  <1>2. WorksOK' /\ RowsOK'
    BY DEF StoreInv, WorksOK, WorkOK, RowsOK, UsedOK, UsedRows, RowOK
  <1>3. JournalOK'
    <2> SUFFICES ASSUME NEW v \in Works, NEW m \in Numbers PROVE OutcomeOK(v, m)'
      BY DEF JournalOK
    <2>1. OutcomeOK(v, m)
      BY DEF StoreInv, JournalOK
    <2>2. CASE attempt[v][m] \in {"NONE", "RUNNING"}
      BY <2>1, <2>2 DEF OutcomeOK
    <2>3. CASE attempt[v][m] \notin {"NONE", "RUNNING"}
      <3>1. PICK u \in Owners : /\ Committed(v, m, u)
                                /\ attempt[v][m] = Ended(journal[v][m][u].target)
                                /\ \A t \in Owners : Committed(v, m, t) => t = u
        BY <2>1, <2>3 DEF OutcomeOK
      <3>2. /\ Committed(v, m, u)' /\ attempt'[v][m] = Ended(journal'[v][m][u].target)
            /\ \A t \in Owners : Committed(v, m, t)' => t = u
        BY <3>1
      <3> QED
        BY <2>3, <3>2 DEF OutcomeOK, Ended
    <2> QED BY <2>2, <2>3
  <1>4. QuiescentClosed'
    BY DEF StoreInv, QuiescentClosed, AllTerminal, Known, SomePrepared
  <1> QED
    BY <1>1, <1>2, <1>3, <1>4 DEF StoreInv

LEMMA AbortStore ==
  ASSUME StoreInv, NEW w \in Works, NEW n \in Numbers, NEW o \in Owners, Abort(w, n, o)
  PROVE  StoreInv'
  <1>1. UNCHANGED <<run, control, work, lease, tries, attempt, retries, row>>
    BY DEF Abort
  <1>2. journal \in [Works -> [Numbers -> [Owners -> EntryRec]]]
    BY DEF StoreInv, StoreType
  <1>3. Closed("ABORTED", "BLOCKED") \in EntryRec /\ Closed("ABORTED", "BLOCKED").state = "ABORTED"
        /\ Closed("ABORTED", "BLOCKED").fresh = FALSE
    BY DEF Closed, NoEntry, EntryRec, Causes, Targets
  <1>4. /\ journal' \in [Works -> [Numbers -> [Owners -> EntryRec]]]
        /\ \A v \in Works : \A m \in Numbers : \A u \in Owners :
              journal'[v][m][u] = IF v = w /\ m = n /\ u = o /\ Prepared(w, n, o)
                                  THEN Closed("ABORTED", "BLOCKED") ELSE journal[v][m][u]
    BY <1>2, <1>3 DEF Abort
  <1>5. ASSUME NEW v \in Works, NEW m \in Numbers, NEW u \in Owners
        PROVE  /\ EntryOK(v, m, u)' /\ (Prepared(v, m, u)' => Prepared(v, m, u))
               /\ Committed(v, m, u)' <=> Committed(v, m, u)
               /\ Committed(v, m, u) => journal'[v][m][u] = journal[v][m][u]
    <2>1. EntryOK(v, m, u)
      BY DEF StoreInv, JournalOK
    <2> QED
      BY <2>1, <1>3, <1>4 DEF EntryOK, Prepared, Committed
  <1> QED
    BY <1>1, <1>4, <1>5, JournalStep

LEMMA ExpireStore ==
  ASSUME StoreInv, NEW w \in Works, NEW n \in Numbers, NEW o \in Owners,
         DecisionExpires(w, n, o)
  PROVE  StoreInv'
  <1>1. UNCHANGED <<run, control, work, lease, tries, attempt, retries, row>>
    BY DEF DecisionExpires
  <1>2. journal \in [Works -> [Numbers -> [Owners -> EntryRec]]]
    BY DEF StoreInv, StoreType
  <1> DEFINE e == [journal[w][n][o] EXCEPT !.fresh = FALSE]
  <1>3. /\ e \in EntryRec /\ e.state = "PREPARED" /\ e.fresh = FALSE
        /\ e.target = journal[w][n][o].target
    <2>1. Prepared(w, n, o)
      BY DEF DecisionExpires
    <2>2. journal[w][n][o] \in EntryRec
      BY <1>2
    <2>3. e \in EntryRec
      BY <2>2 DEF EntryRec
    <2>4. e.state = journal[w][n][o].state /\ e.target = journal[w][n][o].target
      BY <2>2 DEF EntryRec
    <2>5. e.fresh = FALSE
      BY <2>2 DEF EntryRec
    <2> QED
      BY <2>1, <2>3, <2>4, <2>5 DEF Prepared
  <1>4. journal' = [journal EXCEPT ![w][n][o] = e] /\ Prepared(w, n, o)
    BY <1>2 DEF DecisionExpires
  <1> HIDE DEF e
  <1>5. /\ journal' \in [Works -> [Numbers -> [Owners -> EntryRec]]]
        /\ \A v \in Works : \A m \in Numbers : \A u \in Owners :
              journal'[v][m][u] = IF v = w /\ m = n /\ u = o THEN e ELSE journal[v][m][u]
    BY <1>2, <1>3, <1>4
  <1>6. ASSUME NEW v \in Works, NEW m \in Numbers, NEW u \in Owners
        PROVE  /\ EntryOK(v, m, u)' /\ (Prepared(v, m, u)' => Prepared(v, m, u))
               /\ Committed(v, m, u)' <=> Committed(v, m, u)
               /\ Committed(v, m, u) => journal'[v][m][u] = journal[v][m][u]
    <2>1. EntryOK(v, m, u)
      BY DEF StoreInv, JournalOK
    <2> QED
      BY <2>1, <1>3, <1>4, <1>5 DEF EntryOK, Prepared, Committed
  <1> QED
    BY <1>1, <1>5, <1>6, JournalStep

(* Of a work that never started nothing can be unknown.                    *)
LEMMA Untried ==
  ASSUME StoreInv, NEW w \in Works, tries[w] = 0
  PROVE  ~Uncertain(w)
  BY SMTT(30) DEF StoreInv, RowsOK, RowOK, Uncertain, Unresolved, StoreType

(* Registering works, making them ready, and taking them up again.         *)
LEMMA OpenStore ==
  ASSUME StoreInv, ~Latched, NEW S \in SUBSET Works, NEW status \in {"PENDING", "READY"},
         work' = [w \in Works |-> IF w \in S THEN Idle(status) ELSE work[w]],
         \A w \in S : work[w].status # "RUNNING" /\ ~Uncertain(w),
         status = "PENDING" => \A w \in S : tries[w] = 0,
         UNCHANGED <<run, control, lease, tries, attempt, retries, row, journal>>
  PROVE  StoreInv'
  <1>0. Idle(status) \in WorkRec /\ Idle(status).status = status /\ Idle(status).active = 0
    BY DEF Idle, WorkRec, Statuses, Causes
  <1>1. StoreType'
    BY <1>0 DEF StoreInv, StoreType
  <1>2. WorksOK'
    <2> SUFFICES ASSUME NEW v \in Works PROVE WorkOK(v)'
      BY DEF WorksOK
    <2>1. WorkOK(v)
      BY DEF StoreInv, WorksOK
    <2>2. CASE v \notin S
      BY <2>1, <2>2 DEF WorkOK
    <2>3. CASE v \in S
      BY <2>1, <2>3, <1>0 DEF WorkOK
    <2> QED BY <2>2, <2>3
  <1>3. RowsOK'
    <2>1. \A v \in Works : \A k \in Rows : RowKept(v, k)
      BY DEF StoreInv, RowsOK, RowOK, RowKept
    <2>2. \A v \in Works : work'[v].status = "READY" => work[v].status = "READY" \/ ~Uncertain(v)
      OBVIOUS
    <2> QED BY <2>1, <2>2, RowsKept
  <1>4. JournalOK'
    BY DEF StoreInv, JournalOK, OutcomeOK, EntryOK, Committed, Prepared
  <1>5. QuiescentClosed'
    BY DEF QuiescentClosed, Latched
  <1> QED
    BY <1>1, <1>2, <1>3, <1>4, <1>5 DEF StoreInv

LEMMA TriesNat ==
  ASSUME StoreInv, NEW w \in Works
  PROVE  tries[w] \in Nat
  <1>1. tries[w] \in Numbers \/ tries[w] = 0
    BY DEF StoreInv, StoreType
  <1>2. Numbers \subseteq Nat
    BY NumbersNat
  <1>3. CASE tries[w] \in Numbers
    BY <1>2, <1>3
  <1>4. CASE tries[w] = 0
    BY <1>4
  <1> QED BY <1>1, <1>3, <1>4

(* try_claim_ready: the new attempt is the next one and under the ceiling. *)
LEMMA ClaimNumber ==
  ASSUME StoreInv, NEW w \in Works, Claimable(w)
  PROVE  /\ tries[w] + 1 \in Numbers /\ tries[w] \in Nat
         /\ retries + RetryUnits(w) \in 0..MaxRetries
  <1>1. tries[w] \in Nat /\ retries \in Nat
    <2>2. tries[w] \in Nat
      BY TriesNat
    <2>3. retries \in Nat
      BY Bounds DEF StoreInv, StoreType
    <2> QED BY <2>2, <2>3
  <1>2. tries[w] < AttemptCeiling(w) /\ retries + RetryUnits(w) <= MaxRetries
    BY DEF Claimable
  <1>3. tries[w] + 1 \in Numbers
    <2>1. CASE Local
      <3>1. Numbers = 1..(MaxAttempts + Repairs)
        BY <2>1 DEF Numbers
      <3>2. AttemptCeiling(w) = MaxAttempts \/ AttemptCeiling(w) = MaxAttempts + Repairs
        BY <2>1, Bounds DEF AttemptCeiling
      <3> QED BY <3>1, <3>2, <1>1, <1>2, Bounds
    <2>2. CASE ~Local
      <3>1. Numbers = 1..(MaxAttempts + 0) /\ AttemptCeiling(w) = MaxAttempts + 0
        BY <2>2 DEF Numbers, AttemptCeiling
      <3> QED BY <3>1, <1>1, <1>2, Bounds
    <2> QED BY <2>1, <2>2
  <1>4. retries + RetryUnits(w) \in 0..MaxRetries
    BY <1>1, <1>2, Bounds DEF RetryUnits
  <1> QED BY <1>1, <1>3, <1>4

LEMMA ClaimStore ==
  ASSUME StoreInv, NEW w \in Works, NEW p \in Procs, Claim(p, w)
  PROVE  /\ StoreInv' /\ tries[w] + 1 \in Numbers
         /\ tries' = [tries EXCEPT ![w] = tries[w] + 1] /\ tries[w] \in Nat
  <1> DEFINE n == tries[w] + 1
  <1>1. Claimable(w) /\ UNCHANGED <<run, control, row, journal>>
    BY DEF Claim
  <1>2. /\ work' = [work EXCEPT ![w].status = "RUNNING", ![w].active = n]
        /\ tries' = [tries EXCEPT ![w] = n]
        /\ attempt' = [attempt EXCEPT ![w][n] = "RUNNING"]
        /\ retries' = retries + RetryUnits(w)
        /\ lease' = [lease EXCEPT ![w] = "held"]
    BY DEF Claim
  <1>3. n \in Numbers /\ tries[w] \in Nat /\ retries' \in 0..MaxRetries
    BY <1>1, <1>2, ClaimNumber
  <1>4. ~Latched /\ work[w].status = "READY" /\ ~Uncertain(w)
    BY <1>1 DEF Claimable
  <1> HIDE DEF n
  <1>5. \A v \in Works : work[v] \in WorkRec /\ work'[v] \in WorkRec
    BY <1>2, <1>3, ZenonT(60) DEF StoreInv, StoreType, WorkRec, Statuses
  <1>6. /\ work'[w].status = "RUNNING" /\ work'[w].active = n
        /\ \A v \in Works : v # w => work'[v] = work[v]
    BY <1>2, <1>5 DEF StoreInv, StoreType, WorkRec
  <1>7. StoreType'
    <2>1. work' \in [Works -> WorkRec]
      BY <1>2, <1>5 DEF StoreInv, StoreType
    <2> QED
      BY <2>1, <1>1, <1>2, <1>3 DEF StoreInv, StoreType
  <1>8. \A v \in Works : tries'[v] = IF v = w THEN n ELSE tries[v]
    BY <1>2 DEF StoreInv, StoreType
  <1>9. \A v \in Works : \A m \in Numbers :
           attempt'[v][m] = IF v = w /\ m = n THEN "RUNNING" ELSE attempt[v][m]
    BY <1>2 DEF StoreInv, StoreType
  <1>10. WorkOK(w) /\ work[w].active = 0
    BY <1>4 DEF StoreInv, WorksOK, WorkOK
  <1>11. WorksOK'
    <2> SUFFICES ASSUME NEW v \in Works PROVE WorkOK(v)'
      BY DEF WorksOK
    <2>1. CASE v # w
      <3>1. WorkOK(v) /\ lease'[v] = lease[v]
        BY <2>1, <1>2 DEF StoreInv, StoreType, WorksOK
      <3> QED
        BY <2>1, <3>1, <1>6, <1>8, <1>9 DEF WorkOK
    <2>2. CASE v = w
      <3>1. lease'[w] = "held"
        BY <1>2 DEF StoreInv, StoreType
      <3>2. n # 0 /\ \A m \in Numbers : m > n <=> (m > tries[w] /\ m # n)
        BY <1>3, NumbersNat DEF n
      <3> QED
        BY <2>2, <3>1, <3>2, <1>3, <1>6, <1>8, <1>9, <1>10, NumbersNat DEF WorkOK
    <2> QED BY <2>1, <2>2
  <1>12. RowsOK'
    <2> SUFFICES ASSUME NEW v \in Works PROVE UsedOK(v)' /\ \A k \in Rows : RowOK(v, k)'
      BY DEF RowsOK
    <2>1. UsedOK(v)'
      BY <1>1 DEF StoreInv, RowsOK, UsedOK, UsedRows
    <2>2. ASSUME NEW k \in Rows PROVE RowOK(v, k)'
      <3>1. RowOK(v, k) /\ row'[v][k] = row[v][k]
        BY <1>1 DEF StoreInv, RowsOK
      <3>2. CASE v # w
        BY <3>1, <3>2, <1>1, <1>6, <1>8 DEF RowOK
      <3>3. CASE v = w
        <4>1. row[w][k].stage # "dispatched"
          BY <1>4 DEF Uncertain, Unresolved
        <4>2. tries'[w] = tries[w] + 1 /\ 1..tries[w] \subseteq 1..(tries[w] + 1)
          BY <1>3, <1>8 DEF n
        <4> QED
          BY <3>1, <3>3, <4>1, <4>2 DEF RowOK
      <3> QED BY <3>2, <3>3
    <2> QED BY <2>1, <2>2
  <1>13. JournalOK'
    <2> SUFFICES ASSUME NEW v \in Works, NEW m \in Numbers
                 PROVE  OutcomeOK(v, m)' /\ \A u \in Owners : EntryOK(v, m, u)'
      BY DEF JournalOK
    <2>1. OutcomeOK(v, m) /\ \A u \in Owners : EntryOK(v, m, u)
      BY DEF StoreInv, JournalOK
    <2>2. \A u \in Owners : EntryOK(v, m, u)'
      BY <2>1, <1>1 DEF EntryOK, Prepared
    <2>3. CASE v = w /\ m = n
      <3>1. attempt[w][n] = "NONE"
        BY <1>3, <1>10 DEF WorkOK, n
      <3> QED
        BY <2>1, <2>2, <2>3, <3>1, <1>1, <1>9 DEF OutcomeOK, Committed
    <2>4. CASE ~(v = w /\ m = n)
      BY <2>1, <2>2, <2>4, <1>1, <1>9 DEF OutcomeOK, Committed
    <2> QED BY <2>3, <2>4
  <1>14. QuiescentClosed'
    BY <1>1, <1>4 DEF QuiescentClosed, Latched
  <1>15. StoreInv'
    BY <1>7, <1>11, <1>12, <1>13, <1>14 DEF StoreInv
  <1> QED BY <1>2, <1>3, <1>15 DEF n

(* A step that changes reservation rows only.                              *)
LEMMA RowStep ==
  ASSUME StoreInv, UNCHANGED <<run, control, work, lease, tries, attempt, retries, journal>>,
         row' \in [Works -> [Rows -> RowRec]], RowsOK',
         \A v \in Works : \A k \in Rows :
            control = "quiescent" =>
               row'[v][k].stage # "dispatched" /\ row'[v][k].seen # "UNKNOWN"
  PROVE  StoreInv'
  <1>1. StoreType'
    BY DEF StoreInv, StoreType
  <1>2. WorksOK'
    BY DEF StoreInv, WorksOK, WorkOK
  <1>3. JournalOK'
    BY DEF StoreInv, JournalOK, OutcomeOK, EntryOK, Committed, Prepared
  <1>4. QuiescentClosed'
    BY DEF StoreInv, QuiescentClosed, AllTerminal, Known, SomePrepared, Prepared
  <1> QED
    BY <1>1, <1>2, <1>3, <1>4 DEF StoreInv

(* One row is changed, none is sent, and only what is unknown is observed. *)
SetRow(w, k, r) == row' = [row EXCEPT ![w][k] = r]

LEMMA OneRowStep ==
  ASSUME StoreInv, NEW w \in Works, NEW k \in Rows, NEW r \in RowRec,
         UNCHANGED <<run, control, work, lease, tries, attempt, retries, journal>>,
         SetRow(w, k, r),
         r.att = row[w][k].att, row[w][k].resv # "NONE", r.resv # "NONE",
         r.stage = "dispatched" => row[w][k].stage = "dispatched" /\ r.resv = row[w][k].resv,
         r.seen # row[w][k].seen => row[w][k].stage = "dispatched"
  PROVE  StoreInv'
  <1>1. row \in [Works -> [Rows -> RowRec]]
    BY DEF StoreInv, StoreType
  <1>2. /\ row' \in [Works -> [Rows -> RowRec]]
        /\ \A v \in Works : \A j \in Rows :
              row'[v][j] = IF v = w /\ j = k THEN r ELSE row[v][j]
    BY <1>1 DEF SetRow
  <1>3. \A v \in Works : \A j \in Rows : RowKept(v, j)
    BY <1>2 DEF StoreInv, RowsOK, RowOK, RowKept
  <1>4. RowsOK'
    BY <1>3, RowsKept
  <1>5. \A v \in Works : \A j \in Rows :
            control = "quiescent" =>
               row'[v][j].stage # "dispatched" /\ row'[v][j].seen # "UNKNOWN"
    BY <1>2 DEF StoreInv, QuiescentClosed
  <1> QED
    BY <1>2, <1>4, <1>5, RowStep

(* The next reservation of a work is a row nobody used.                    *)
LEMMA NextFree ==
  ASSUME StoreInv, NEW w \in Works, NextRow(w) \in Rows
  PROVE  /\ row[w][NextRow(w)].resv = "NONE"
         /\ \E m \in 0..MaxRows : UsedRows(w) \cup {NextRow(w)} = 1..m
  <1>1. PICK m \in 0..MaxRows : UsedRows(w) = 1..m
    BY DEF StoreInv, RowsOK, UsedOK
  <1>2. m \in Nat
    BY Bounds
  <1>3. Cardinality(1..m) = m
    <2>1. /\ IsFiniteSet(1..m)
          /\ Cardinality(1..m) = IF 1 > m THEN 0 ELSE m - 1 + 1
      BY <1>2, FS_Interval
    <2> QED BY <2>1, <1>2
  <1>4. NextRow(w) = m + 1
    BY <1>1, <1>3 DEF NextRow
  <1>5. row[w][NextRow(w)].resv = "NONE"
    <2>1. m + 1 \notin UsedRows(w)
      BY <1>1, <1>2
    <2> QED BY <2>1, <1>4 DEF UsedRows
  <1>6. m + 1 \in 0..MaxRows
    BY <1>2, <1>4, Bounds DEF Rows
  <1>7. UsedRows(w) \cup {NextRow(w)} = 1..(m + 1)
    BY <1>1, <1>2, <1>4
  <1> QED BY <1>5, <1>6, <1>7

LEMMA ReserveStore ==
  ASSUME StoreInv, NEW w \in Works, NEW n \in Numbers, n <= tries[w], NextRow(w) \in Rows,
         row' = [row EXCEPT ![w][NextRow(w)] = [NoRow EXCEPT !.att = n, !.resv = "RESERVED"]],
         UNCHANGED <<run, control, work, lease, tries, attempt, retries, journal>>
  PROVE  StoreInv'
  <1> DEFINE k == NextRow(w)
             r == [NoRow EXCEPT !.att = n, !.resv = "RESERVED"]
  <1>1. /\ r \in RowRec /\ r.att = n /\ r.resv = "RESERVED"
        /\ r.stage = "none" /\ r.seen = "none"
    BY DEF RowRec, NoRow, Stages
  <1>2. row[w][k].resv = "NONE" /\ \E m \in 0..MaxRows : UsedRows(w) \cup {k} = 1..m
    BY NextFree
  <1>3. row \in [Works -> [Rows -> RowRec]] /\ k \in Rows /\ row' = [row EXCEPT ![w][k] = r]
    BY DEF StoreInv, StoreType
  <1> HIDE DEF k, r
  <1>4. /\ row' \in [Works -> [Rows -> RowRec]]
        /\ \A v \in Works : \A j \in Rows :
              row'[v][j] = IF v = w /\ j = k THEN r ELSE row[v][j]
    BY <1>1, <1>3
  <1>5. RowsOK'
    <2> SUFFICES ASSUME NEW v \in Works PROVE UsedOK(v)' /\ \A j \in Rows : RowOK(v, j)'
      BY DEF RowsOK
    <2>1. UsedOK(v)'
      <3>1. CASE v = w
        <4>1. UsedRows(w)' = UsedRows(w) \cup {k}
          BY <1>1, <1>3, <1>4 DEF UsedRows
        <4> QED BY <4>1, <1>2, <3>1, Zenon DEF UsedOK
      <3>2. CASE v # w
        <4>1. UsedRows(v)' = UsedRows(v)
          BY <3>2, <1>4 DEF UsedRows
        <4>2. UsedOK(v)
          BY DEF StoreInv, RowsOK
        <4> QED BY <4>1, <4>2, Zenon DEF UsedOK
      <3> QED BY <3>1, <3>2
    <2>2. ASSUME NEW j \in Rows PROVE RowOK(v, j)'
      <3>1. RowOK(v, j)
        BY DEF StoreInv, RowsOK
      <3>2. CASE v = w /\ j = k
        <4>1. n \in 1..tries[w]
          <5>1. tries[w] \in Numbers \/ tries[w] = 0
            BY DEF StoreInv, StoreType
          <5> QED BY <5>1, NumbersNat
        <4> QED BY <4>1, <3>2, <1>1, <1>4 DEF RowOK
      <3>3. CASE ~(v = w /\ j = k)
        BY <3>1, <3>3, <1>1, <1>4, ZenonT(60) DEF RowOK
      <3> QED BY <3>2, <3>3
    <2> QED BY <2>1, <2>2
  <1>6. \A v \in Works : \A j \in Rows :
            control = "quiescent" =>
               row'[v][j].stage # "dispatched" /\ row'[v][j].seen # "UNKNOWN"
    <2>1. \A v \in Works : \A j \in Rows :
            control = "quiescent" =>
               row[v][j].stage # "dispatched" /\ row[v][j].seen # "UNKNOWN"
      BY DEF StoreInv, QuiescentClosed
    <2>2. ASSUME NEW v \in Works, NEW j \in Rows
          PROVE  \/ row'[v][j].stage = "none" /\ row'[v][j].seen = "none"
                 \/ row'[v][j] = row[v][j]
      BY <1>1, <1>4
    <2> SUFFICES ASSUME NEW v \in Works, NEW j \in Rows, control = "quiescent"
                 PROVE  row'[v][j].stage # "dispatched" /\ row'[v][j].seen # "UNKNOWN"
      OBVIOUS
    <2>3. row[v][j].stage # "dispatched" /\ row[v][j].seen # "UNKNOWN"
      BY <2>1
    <2> QED BY <2>2, <2>3
  <1> QED
    BY <1>4, <1>5, <1>6, RowStep

(* mark_dispatched: the only step that makes the outcome of a row unknown. *)
LEMMA DispatchStore ==
  ASSUME StoreInv, NEW w \in Works, NEW n \in Numbers, NEW k \in Rows,
         Current(w, n), ~Uncertain(w), row[w][k].att = n, row[w][k].resv = "RESERVED",
         row' = [row EXCEPT ![w][k].stage = "dispatched"],
         UNCHANGED <<run, control, work, lease, tries, attempt, retries, journal>>
  PROVE  StoreInv'
  <1>1. n = tries[w] /\ control # "quiescent"
    BY CurrentRuns
  <1>2. row \in [Works -> [Rows -> RowRec]] /\ row[w][k] \in RowRec
    BY DEF StoreInv, StoreType
  <1> DEFINE r == [row[w][k] EXCEPT !.stage = "dispatched"]
  <1>3. /\ r \in RowRec /\ r.att = n /\ r.resv = "RESERVED"
        /\ r.stage = "dispatched" /\ r.seen = row[w][k].seen
    BY <1>2 DEF RowRec, Stages
  <1>4. row' = [row EXCEPT ![w][k] = r]
    BY <1>2
  <1> HIDE DEF r
  <1>5. /\ row' \in [Works -> [Rows -> RowRec]]
        /\ \A v \in Works : \A j \in Rows :
              row'[v][j] = IF v = w /\ j = k THEN r ELSE row[v][j]
    BY <1>2, <1>3, <1>4
  <1>6. RowsOK'
    <2> SUFFICES ASSUME NEW v \in Works PROVE UsedOK(v)' /\ \A j \in Rows : RowOK(v, j)'
      BY DEF RowsOK
    <2>1. UsedRows(v)' = UsedRows(v)
      BY <1>3, <1>5 DEF UsedRows
    <2>2. UsedOK(v)'
      BY <2>1, Zenon DEF StoreInv, RowsOK, UsedOK
    <2>3. ASSUME NEW j \in Rows PROVE RowOK(v, j)'
      <3>1. RowOK(v, j) /\ RowOK(w, k)
        BY DEF StoreInv, RowsOK
      <3>2. CASE v = w
        <4>1. \A i \in Rows : row'[w][i].stage = "dispatched" <=> i = k
          BY <1>3, <1>5 DEF Uncertain, Unresolved
        <4>2. work[w].status = "RUNNING"
          BY DEF Current
        <4> QED
          BY <3>1, <3>2, <4>1, <4>2, <1>1, <1>3, <1>5 DEF RowOK
      <3>3. CASE v # w
        BY <3>1, <3>3, <1>5 DEF RowOK
      <3> QED BY <3>2, <3>3
    <2> QED BY <2>2, <2>3
  <1> QED
    BY <1>1, <1>5, <1>6, RowStep

(* Steps that change the run, its control row or a lease alone.            *)
LEMMA RunStore ==
  ASSUME StoreInv, run' \in {"RUNNING", "FINAL"},
         UNCHANGED <<control, work, lease, tries, attempt, retries, row, journal>>
  PROVE  StoreInv'
  <1>1. StoreType'
    BY DEF StoreInv, StoreType
  <1>2. WorksOK' /\ RowsOK'
    BY DEF StoreInv, WorksOK, WorkOK, RowsOK, UsedOK, UsedRows, RowOK
  <1>3. JournalOK'
    BY DEF StoreInv, JournalOK, OutcomeOK, EntryOK, Committed, Prepared
  <1>4. QuiescentClosed'
    BY DEF StoreInv, QuiescentClosed, AllTerminal, Known, SomePrepared, Prepared
  <1> QED
    BY <1>1, <1>2, <1>3, <1>4 DEF StoreInv

LEMMA ControlStore ==
  ASSUME StoreInv,
         \/ control' \in {control, "latched"}
         \/ control' = "quiescent" /\ CanQuiesce,
         UNCHANGED <<run, work, lease, tries, attempt, retries, row, journal>>
  PROVE  StoreInv'
  <1>1. StoreType'
    BY DEF StoreInv, StoreType
  <1>2. WorksOK' /\ RowsOK'
    BY DEF StoreInv, WorksOK, WorkOK, RowsOK, UsedOK, UsedRows, RowOK
  <1>3. JournalOK'
    BY DEF StoreInv, JournalOK, OutcomeOK, EntryOK, Committed, Prepared
  <1>4. QuiescentClosed'
    <2>1. CASE control' = control
      BY <2>1 DEF StoreInv, QuiescentClosed, AllTerminal, Known, SomePrepared, Prepared
    <2>2. CASE control' = "latched"
      BY <2>2 DEF QuiescentClosed
    <2>3. CASE CanQuiesce
      BY <2>3 DEF CanQuiesce, QuiescentClosed, AllTerminal, Known, SomePrepared, Prepared,
                  Uncertain, Unresolved
    <2> QED BY <2>1, <2>2, <2>3
  <1> QED
    BY <1>1, <1>2, <1>3, <1>4 DEF StoreInv

LEMMA LeaseStore ==
  ASSUME StoreInv, NEW w \in Works, LeaseExpires(w)
  PROVE  StoreInv'
  <1>1. /\ lease[w] = "held" /\ lease' = [lease EXCEPT ![w] = "expired"]
        /\ UNCHANGED <<run, control, work, tries, attempt, retries, row, journal>>
    BY DEF LeaseExpires
  <1>2. lease' \in [Works -> {"none", "held", "expired"}]
        /\ \A v \in Works : lease'[v] = "none" <=> lease[v] = "none"
    BY <1>1 DEF StoreInv, StoreType
  <1>3. StoreType'
    BY <1>1, <1>2 DEF StoreInv, StoreType
  <1>4. WorksOK'
    BY <1>1, <1>2 DEF StoreInv, WorksOK, WorkOK
  <1>5. RowsOK'
    BY <1>1 DEF StoreInv, RowsOK, UsedOK, UsedRows, RowOK
  <1>6. JournalOK'
    BY <1>1 DEF StoreInv, JournalOK, OutcomeOK, EntryOK, Committed, Prepared
  <1>7. QuiescentClosed'
    BY <1>1, <1>2 DEF StoreInv, QuiescentClosed, AllTerminal, Known, SomePrepared, Prepared
  <1> QED
    BY <1>3, <1>4, <1>5, <1>6, <1>7 DEF StoreInv

(* reconcile_cancellation: works without an unknown target are cancelled,  *)
(* and the attempt each of them had is ended by an entry of its own.       *)
Closing(targets) == {w \in Known : work[w].status \notin Terminal
                                    /\ w \notin UnknownWorks(targets)}

LEMMA OutcomeSame ==
  ASSUME NEW v, NEW m, OutcomeOK(v, m), attempt'[v][m] = attempt[v][m],
         \A u \in Owners : journal'[v][m][u] = journal[v][m][u]
  PROVE  OutcomeOK(v, m)'
  BY DEF OutcomeOK, Committed

LEMMA ReconcileStore ==
  ASSUME StoreInv, NEW targets \in SUBSET (Works \X Rows), CanReconcile(targets),
         work' = [w \in Works |->
                  IF w \in Closing(targets)
                  THEN [Idle("CANCELLED") EXCEPT !.stop = "CANCELLATION_REQUESTED"]
                  ELSE work[w]],
         attempt' = [w \in Works |-> [n \in Numbers |->
                  IF w \in Closing(targets) /\ work[w].active = n
                  THEN "CANCELLED" ELSE attempt[w][n]]],
         lease' = [w \in Works |-> IF w \in Closing(targets) THEN "none" ELSE lease[w]],
         journal' = [w \in Works |-> [n \in Numbers |->
                  IF w \in Closing(targets) /\ work[w].active = n
                  THEN [journal[w][n] EXCEPT !["cancel"] = Closed("COMMITTED", "CANCELLED")]
                  ELSE journal[w][n]]],
         row' = [w \in Works |-> [k \in Rows |->
                  IF <<w, k>> \in targets /\ row[w][k].seen = "CLOSED"
                  THEN [row[w][k] EXCEPT !.stage = "reconciled"] ELSE row[w][k]]],
         UNCHANGED <<run, control, tries, retries>>
  PROVE  /\ StoreInv'
         /\ \A v \in Works : \A k \in Rows :
               /\ row'[v][k].att = row[v][k].att /\ row'[v][k].resv = row[v][k].resv
               /\ row'[v][k].seen = row[v][k].seen
               /\ \/ row'[v][k].stage = row[v][k].stage
                  \/ row[v][k].stage = "dispatched" /\ row'[v][k].stage = "reconciled"
  <1> DEFINE S == Closing(targets)
             c == [Idle("CANCELLED") EXCEPT !.stop = "CANCELLATION_REQUESTED"]
             e == Closed("COMMITTED", "CANCELLED")
  <1>1. \A w \in S : w \in Works /\ work[w].status # "NONE" /\ work[w].status \notin Terminal
    BY DEF Closing, Known
  <1>2. c \in WorkRec /\ c.status = "CANCELLED" /\ c.active = 0
    BY DEF Idle, WorkRec, Statuses, Terminal, Causes
  <1>3. /\ e \in EntryRec /\ e.state = "COMMITTED" /\ e.target = "CANCELLED" /\ e.fresh = FALSE
        /\ "cancel" \in Owners
    BY DEF Closed, NoEntry, EntryRec, Causes, Owners
  <1>4. targets = TargetSet /\ ~SomePrepared
    BY DEF CanReconcile
  <1>5. /\ work' = [w \in Works |-> IF w \in S THEN c ELSE work[w]]
        /\ lease' = [w \in Works |-> IF w \in S THEN "none" ELSE lease[w]]
        /\ \A v \in Works : \A m \in Numbers :
              attempt'[v][m] = IF v \in S /\ work[v].active = m THEN "CANCELLED"
                               ELSE attempt[v][m]
    OBVIOUS
  <1>6. \A v \in Works : \A m \in Numbers : \A u \in Owners :
           journal'[v][m][u] = IF v \in S /\ work[v].active = m /\ u = "cancel" THEN e
                               ELSE journal[v][m][u]
    BY DEF StoreInv, StoreType
  <1>7. \A v \in Works : \A k \in Rows :
           /\ row[v][k] \in RowRec /\ row'[v][k] \in RowRec
           /\ row'[v][k].att = row[v][k].att /\ row'[v][k].resv = row[v][k].resv
           /\ row'[v][k].seen = row[v][k].seen
           /\ \/ row'[v][k].stage = row[v][k].stage
              \/ row[v][k].stage = "dispatched" /\ row'[v][k].stage = "reconciled"
    <2> SUFFICES ASSUME NEW v \in Works, NEW k \in Rows
                 PROVE  /\ row[v][k] \in RowRec /\ row'[v][k] \in RowRec
                        /\ row'[v][k].att = row[v][k].att /\ row'[v][k].resv = row[v][k].resv
                        /\ row'[v][k].seen = row[v][k].seen
                        /\ \/ row'[v][k].stage = row[v][k].stage
                           \/ row[v][k].stage = "dispatched" /\ row'[v][k].stage = "reconciled"
      OBVIOUS
    <2>1. row[v][k] \in RowRec
      BY DEF StoreInv, StoreType
    <2>2. CASE <<v, k>> \in targets /\ row[v][k].seen = "CLOSED"
      <3>1. row'[v][k] = [row[v][k] EXCEPT !.stage = "reconciled"]
        BY <2>2
      <3>2. row[v][k].stage = "dispatched"
        BY <2>2, <1>4 DEF TargetSet, Unresolved
      <3> QED BY <2>1, <3>1, <3>2 DEF RowRec, Stages
    <2>3. CASE ~(<<v, k>> \in targets /\ row[v][k].seen = "CLOSED")
      <3>1. row'[v][k] = row[v][k]
        BY <2>3
      <3> QED BY <2>1, <3>1
    <2> QED BY <2>2, <2>3
  <1> HIDE DEF S, c, e
  <1>8. StoreType'
    <2>1. work' \in [Works -> WorkRec] /\ lease' \in [Works -> {"none", "held", "expired"}]
      <3>1. ASSUME NEW v \in Works
            PROVE  work'[v] \in WorkRec /\ lease'[v] \in {"none", "held", "expired"}
        <4>1. work[v] \in WorkRec /\ lease[v] \in {"none", "held", "expired"}
          BY DEF StoreInv, StoreType
        <4>2. work'[v] \in {c, work[v]} /\ lease'[v] \in {"none", lease[v]}
          BY <1>5
        <4> QED BY <4>1, <4>2, <1>2
      <3> QED BY <3>1, <1>5
    <2>2. attempt' \in [Works -> [Numbers -> {"NONE", "RUNNING"} \cup Terminal]]
      BY DEF StoreInv, StoreType, Terminal
    <2>3. row' \in [Works -> [Rows -> RowRec]]
      BY <1>7
    <2>4. journal' \in [Works -> [Numbers -> [Owners -> EntryRec]]]
      BY <1>3 DEF StoreInv, StoreType, e
    <2> QED
      BY <2>1, <2>2, <2>3, <2>4 DEF StoreInv, StoreType
  <1>9. WorksOK'
    <2> SUFFICES ASSUME NEW v \in Works PROVE WorkOK(v)'
      BY DEF WorksOK
    <2>1. WorkOK(v)
      BY DEF StoreInv, WorksOK
    <2>2. CASE v \notin S
      <3>1. /\ work'[v] = work[v] /\ lease'[v] = lease[v] /\ tries'[v] = tries[v]
            /\ \A m \in Numbers : attempt'[v][m] = attempt[v][m]
        BY <2>2, <1>5
      <3> QED BY <2>1, <3>1 DEF WorkOK
    <2>3. CASE v \in S
      <3>1. work'[v].status = "CANCELLED" /\ work'[v].active = 0 /\ lease'[v] = "none"
        BY <2>3, <1>2, <1>5
      <3>2. \A m \in Numbers : attempt'[v][m] # "RUNNING" /\ m # 0
        BY <2>1, <2>3, <1>5, NumbersNat DEF WorkOK
      <3>3. \A m \in Numbers : attempt'[v][m] = "NONE" <=> m > tries[v]
        BY <2>1, <2>3, <1>5 DEF WorkOK
      <3> QED
        BY <3>1, <3>2, <3>3, <2>3 DEF WorkOK
    <2> QED BY <2>2, <2>3
  <1>10. RowsOK'
    <2>1. \A v \in Works : \A k \in Rows : RowKept(v, k)
      BY <1>7, ZenonT(60) DEF StoreInv, RowsOK, RowOK, RowKept
    <2>2. \A v \in Works : work'[v].status = "READY" => work[v].status = "READY"
      BY <1>2, <1>5
    <2> QED BY <2>1, <2>2, RowsKept
  <1>11. JournalOK'
    <2> SUFFICES ASSUME NEW v \in Works, NEW m \in Numbers
                 PROVE  OutcomeOK(v, m)' /\ \A u \in Owners : EntryOK(v, m, u)'
      BY DEF JournalOK
    <2>1. OutcomeOK(v, m) /\ \A u \in Owners : EntryOK(v, m, u)
      BY DEF StoreInv, JournalOK
    <2>2. \A u \in Owners : EntryOK(v, m, u)'
      BY <2>1, <1>3, <1>6 DEF EntryOK, Prepared
    <2>3. CASE v \in S /\ work[v].active = m
      <3>1. attempt[v][m] = "RUNNING" /\ \A u \in Owners : ~Committed(v, m, u)
        BY <2>1, <2>3, NumbersNat DEF StoreInv, WorksOK, WorkOK, OutcomeOK
      <3>2. Committed(v, m, "cancel")' /\ attempt'[v][m] = Ended(journal'[v][m]["cancel"].target)
        BY <2>3, <1>3, <1>5, <1>6 DEF Committed, Ended
      <3>3. \A u \in Owners : Committed(v, m, u)' => u = "cancel"
        BY <2>3, <3>1, <1>6 DEF Committed
      <3>4. attempt'[v][m] \notin {"NONE", "RUNNING"}
        BY <2>3, <1>5
      <3> QED
        BY <2>2, <3>2, <3>3, <3>4, <1>3 DEF OutcomeOK, Ended
    <2>4. CASE ~(v \in S /\ work[v].active = m)
      <3>1. attempt'[v][m] = attempt[v][m] /\ \A u \in Owners : journal'[v][m][u] = journal[v][m][u]
        BY <2>4, <1>5, <1>6
      <3> QED BY <2>1, <2>2, <3>1, OutcomeSame
    <2> QED BY <2>3, <2>4
  <1>12. QuiescentClosed'
    <2> SUFFICES ASSUME control = "quiescent" PROVE QuiescentClosed'
      BY DEF QuiescentClosed
    <2>1. AllTerminal /\ \A w \in Works : lease[w] = "none"
          /\ \A k \in Rows : row[w][k].stage # "dispatched" /\ row[w][k].seen # "UNKNOWN"
      BY DEF StoreInv, QuiescentClosed
    <2>2. S = {}
      BY <2>1, <1>1 DEF AllTerminal, Known
    <2>3. work' = work /\ \A w \in Works : lease'[w] = "none"
      BY <2>1, <2>2, <1>5 DEF StoreInv, StoreType
    <2>4. AllTerminal'
      BY <2>1, <2>3 DEF AllTerminal, Known
    <2>5. ~SomePrepared'
      BY <2>2, <1>4, <1>6 DEF SomePrepared, Prepared
    <2> QED
      BY <2>1, <2>3, <2>4, <2>5, <1>7 DEF QuiescentClosed
  <1> QED
    BY <1>7, <1>8, <1>9, <1>10, <1>11, <1>12 DEF StoreInv

-----------------------------------------------------------------------------
(* What a step of one actor leaves to the others: a row that is in use     *)
(* keeps its attempt and, unless its own task moves it, its stage; it may  *)
(* only be retired before it was sent, or reconciled after.                *)

RowSafe(v, k) ==
    /\ row'[v][k].att = row[v][k].att /\ row'[v][k].resv # "NONE"
    /\ \/ row'[v][k].stage = row[v][k].stage
       \/ row[v][k].stage = "claimed" /\ row'[v][k].stage = "retired"
       \/ row[v][k].stage = "dispatched" /\ row'[v][k].stage = "reconciled"

LEMMA TasksKept ==
  ASSUME TaskInv, TaskType',
         \A v \in Works : \A m \in Numbers : m <= tries[v] => m <= tries'[v],
         \A v \in Works : \A m \in Numbers :
            \/ TaskOK(v, m)'
            \/ /\ task'[v][m] = task[v][m]
               /\ task[v][m].pc \in Calling => RowSafe(v, task[v][m].row)
  PROVE  TaskInv'
  <1> SUFFICES ASSUME NEW v \in Works, NEW m \in Numbers PROVE TaskOK(v, m)'
    BY DEF TaskInv
  <1>1. TaskOK(v, m)
    BY DEF TaskInv
  <1>2. CASE TaskOK(v, m)'
    BY <1>2
  <1>3. CASE /\ task'[v][m] = task[v][m]
             /\ task[v][m].pc \in Calling => RowSafe(v, task[v][m].row)
    <2>1. task[v][m].pc # "over" => m <= tries'[v]
      BY <1>1 DEF TaskOK
    <2>2. ASSUME task[v][m].pc \in Calling
          PROVE  LET k == task[v][m].row IN
                 /\ k \in Rows /\ row'[v][k].resv # "NONE" /\ row'[v][k].att = m
                 /\ row'[v][k].stage \in StagesAt(task[v][m].pc)
      <3>1. LET k == task[v][m].row IN
            /\ k \in Rows /\ row[v][k].att = m /\ RowSafe(v, k)
            /\ row[v][k].stage \in StagesAt(task[v][m].pc)
        BY <1>1, <1>3, <2>2 DEF TaskOK
      <3> QED
        BY <2>2, <3>1 DEF RowSafe, StagesAt, Calling
    <2> QED
      BY <2>1, <2>2, <1>3 DEF TaskOK, StagesAt
  <1> QED BY <1>2, <1>3

(* A step of one task: other attempts' rows are not its own.               *)
LEMMA TaskStep ==
  ASSUME TaskInv, NEW w \in Works, NEW n \in Numbers, NEW t \in TaskRec,
         task' = [task EXCEPT ![w][n] = t], tries' = tries, TaskOK(w, n)',
         \A v \in Works : \A k \in Rows :
            row[v][k].resv # "NONE" /\ ~(v = w /\ row[v][k].att = n) => RowSafe(v, k)
  PROVE  TaskInv'
  <1>1. task \in [Works -> [Numbers -> TaskRec]]
    BY DEF TaskInv, TaskType
  <1>2. /\ TaskType'
        /\ \A v \in Works : \A m \in Numbers :
              task'[v][m] = IF v = w /\ m = n THEN t ELSE task[v][m]
    BY <1>1 DEF TaskType
  <1>3. ASSUME NEW v \in Works, NEW m \in Numbers, ~(v = w /\ m = n)
        PROVE  /\ task'[v][m] = task[v][m]
               /\ task[v][m].pc \in Calling => RowSafe(v, task[v][m].row)
    <2>1. task'[v][m] = task[v][m]
      BY <1>2, <1>3
    <2>2. TaskOK(v, m)
      BY DEF TaskInv
    <2> QED
      BY <2>1, <2>2, <1>3 DEF TaskOK
  <1>4. \A v \in Works : \A m \in Numbers : m <= tries[v] => m <= tries'[v]
    OBVIOUS
  <1> QED
    BY <1>2, <1>3, <1>4, TasksKept

(* A step that leaves the tasks alone.                                     *)
LEMMA TaskSame ==
  ASSUME TaskInv, task' = task, tries' = tries,
         \A v \in Works : \A k \in Rows : row[v][k].resv # "NONE" => RowSafe(v, k)
  PROVE  TaskInv'
  <1>1. TaskType'
    BY DEF TaskInv, TaskType
  <1>2. ASSUME NEW v \in Works, NEW m \in Numbers
        PROVE  task'[v][m] = task[v][m]
               /\ (task[v][m].pc \in Calling => RowSafe(v, task[v][m].row))
    <2>1. TaskOK(v, m)
      BY DEF TaskInv
    <2> QED BY <2>1 DEF TaskOK
  <1> QED
    BY <1>1, <1>2, TasksKept

LEMMA RowsSame ==
  ASSUME row' = row
  PROVE  \A v \in Works : \A k \in Rows : row[v][k].resv # "NONE" => RowSafe(v, k)
  BY DEF RowSafe

(* The tasks of a process end with it; the others go on.                   *)
LEMMA TaskDrop ==
  ASSUME TaskInv, NEW p, UNCHANGED <<tries, row>>,
         task' = [w \in Works |-> [n \in Numbers |->
                    IF task[w][n].proc = p THEN NoTask ELSE task[w][n]]]
  PROVE  TaskInv'
  <1>1. NoTask \in TaskRec /\ NoTask.pc = "over"
    BY DEF NoTask, TaskRec, Pcs
  <1>2. TaskType'
    BY <1>1 DEF TaskInv, TaskType
  <1>3. ASSUME NEW v \in Works, NEW m \in Numbers
        PROVE  \/ TaskOK(v, m)'
               \/ /\ task'[v][m] = task[v][m]
                  /\ task[v][m].pc \in Calling => RowSafe(v, task[v][m].row)
    <2>1. TaskOK(v, m)
      BY DEF TaskInv
    <2>2. CASE task[v][m].proc = p
      <3>1. task'[v][m] = NoTask
        BY <2>2
      <3> QED BY <3>1, <1>1 DEF TaskOK, Calling
    <2>3. CASE task[v][m].proc # p
      <3>1. task'[v][m] = task[v][m]
        BY <2>3
      <3> QED BY <2>1, <3>1 DEF TaskOK, RowSafe
    <2> QED BY <2>2, <2>3
  <1> QED
    BY <1>2, <1>3, TasksKept

-----------------------------------------------------------------------------
(* What the processes rely on: the run stays started, the latch set, and   *)
(* what was seen of a target stays seen.                                   *)

Kept ==
    /\ started => started'
    /\ Latched => Latched'
    /\ \A v \in Works : \A k \in Rows : row[v][k].resv # "NONE" =>
          /\ row'[v][k].resv # "NONE"
          /\ row[v][k].seen # "none" => row'[v][k].seen # "none"

LEMMA KeptSame == UNCHANGED <<row, control, started>> => Kept
  BY DEF Kept, Latched

LEMMA ProcsKept ==
  ASSUME ProcInv, ProcTyped', Kept,
         \A p \in Procs : proc'[p] = proc[p] \/ (ModeOK(p)' /\ SightOK(p)')
  PROVE  ProcInv'
  <1> SUFFICES ASSUME NEW p \in Procs PROVE ModeOK(p)' /\ SightOK(p)'
    BY DEF ProcInv
  <1>1. ModeOK(p) /\ SightOK(p)
    BY DEF ProcInv
  <1>2. CASE proc'[p] = proc[p]
    <2>1. ModeOK(p)'
      BY <1>1, <1>2 DEF ModeOK, Kept
    <2>2. SightOK(p)'
      <3> SUFFICES ASSUME proc[p].mode = "observe" PROVE SightOK(p)'
        BY <1>2 DEF SightOK
      <3>1. /\ proc[p].held \subseteq Works \X Rows /\ proc[p].todo \subseteq proc[p].held
            /\ \A x \in proc[p].held : row[x[1]][x[2]].resv # "NONE"
            /\ \A x \in proc[p].held \ proc[p].todo : Seen(x) # "none"
        BY <1>1 DEF SightOK
      <3>2. ASSUME NEW x \in proc[p].held
            PROVE  /\ row'[x[1]][x[2]].resv # "NONE"
                   /\ x \notin proc[p].todo => row'[x[1]][x[2]].seen # "none"
        BY <3>1, <3>2 DEF Kept, Seen
      <3> QED
        BY <3>1, <3>2, <1>2 DEF SightOK, Seen
    <2> QED BY <2>1, <2>2
  <1> QED BY <1>2

LEMMA ProcSame ==
  ASSUME ProcInv, Kept, proc' = proc
  PROVE  ProcInv'
  BY ProcsKept DEF ProcInv, ProcTyped

LEMMA ProcMove ==
  ASSUME ProcInv, Kept, NEW p \in Procs,
         NEW r \in [mode : Modes, todo : SUBSET Things, held : SUBSET Things],
         proc' = [proc EXCEPT ![p] = r], ModeOK(p)', SightOK(p)'
  PROVE  ProcInv'
  <1>1. ProcTyped'
    BY DEF ProcInv, ProcTyped
  <1>2. \A q \in Procs : proc'[q] = proc[q] \/ (ModeOK(q)' /\ SightOK(q)')
    BY DEF ProcInv, ProcTyped
  <1> QED BY <1>1, <1>2, ProcsKept

LEMMA ProcDown ==
  ASSUME ProcInv, Kept, NEW p \in Procs, proc' = [proc EXCEPT ![p] = Down]
  PROVE  ProcInv'
  <1>1. /\ Down \in [mode : Modes, todo : SUBSET Things, held : SUBSET Things]
        /\ Down.mode = "down"
    BY DEF Down, Modes
  <1>2. proc'[p] = Down
    BY DEF ProcInv, ProcTyped
  <1>3. ModeOK(p)' /\ SightOK(p)'
    BY <1>1, <1>2 DEF ModeOK, SightOK, Pooled, Latching
  <1> QED BY <1>1, <1>3, ProcMove

LEMMA ProcMode ==
  ASSUME ProcInv, Kept, NEW p \in Procs, NEW mode \in Modes,
         NEW todo \in SUBSET Things, NEW held \in SUBSET Things, Mode(p, mode, todo, held),
         mode = "replay" => todo \subseteq Works \X Numbers \X Owners,
         mode \in {"expiry", "block"} => todo \subseteq Works \X Numbers,
         mode = "block" => held \subseteq Works \X Numbers,
         mode = "seed" => todo \subseteq Works,
         mode \in Pooled => started',
         mode \in Latching => Latched',
         mode = "observe" =>
            /\ held \subseteq Works \X Rows /\ todo \subseteq held
            /\ \A x \in held : row'[x[1]][x[2]].resv # "NONE"
            /\ \A x \in held \ todo : row'[x[1]][x[2]].seen # "none"
  PROVE  ProcInv'
  <1> DEFINE r == [mode |-> mode, todo |-> todo, held |-> held]
  <1>1. /\ r \in [mode : Modes, todo : SUBSET Things, held : SUBSET Things]
        /\ proc' = [proc EXCEPT ![p] = r]
    BY DEF Mode
  <1>2. proc'[p].mode = mode /\ proc'[p].todo = todo /\ proc'[p].held = held
    BY <1>1 DEF ProcInv, ProcTyped
  <1> HIDE DEF r
  <1>3. ModeOK(p)'
    BY <1>2 DEF ModeOK
  <1>4. SightOK(p)'
    BY <1>2 DEF SightOK, Seen
  <1> QED BY <1>1, <1>3, <1>4, ProcMove

(* Modes in which a process holds nothing.                                 *)
LEMMA ProcPlain ==
  ASSUME ProcInv, Kept, NEW p \in Procs,
         NEW mode \in {"idle", "drain", "poll", "close", "closeCancelled", "cancel", "settled"},
         Mode(p, mode, {}, {}), mode # "idle" => started', mode \in Latching => Latched'
  PROVE  ProcInv'
  <1>1. mode \in Modes /\ mode \notin {"replay", "expiry", "block", "seed", "observe"}
        /\ (mode \in Pooled => mode # "idle")
    BY DEF Modes, Pooled
  <1> QED BY <1>1, ProcMode

-----------------------------------------------------------------------------
(* The invariant is kept by every step.                                    *)

LEMMA Assemble ==
  ASSUME DInv, StoreInv', TaskInv', ProcInv', UNCHANGED <<started, crashes>>,
         started \/ UNCHANGED <<run, control, work, task>>
  PROVE  DInv'
  <1>1. StartOK'
    <2>1. CASE started
      BY <2>1 DEF StartOK
    <2>2. CASE UNCHANGED <<run, control, work, task>>
      BY <2>2 DEF DInv, StartOK
    <2> QED BY <2>1, <2>2
  <1>2. started' \in BOOLEAN
    <2>1. started \in BOOLEAN /\ started' = started
      BY Zenon DEF DInv
    <2> QED BY <2>1, Zenon
  <1>3. crashes' \in 0..MaxCrashes
    BY DEF DInv
  <1> QED BY <1>1, <1>2, <1>3 DEF DInv

(* There are tasks, and works that run, only once the run was created.     *)
LEMMA HasStarted ==
  ASSUME DInv, NEW w \in Works, NEW n \in Numbers,
         task[w][n].pc # "over" \/ Current(w, n)
  PROVE  started
  BY DEF DInv, StartOK, Current

LEMMA FinishStore ==
  ASSUME StoreInv, NEW w \in Works, NEW n \in Numbers, NEW o \in Owners,
         FinishOrAbort(w, n, o)
  PROVE  /\ StoreInv' /\ UNCHANGED <<run, control, tries>>
         /\ \A v \in Works : \A k \in Rows : row[v][k].resv # "NONE" => RowSafe(v, k)
         /\ started' = started => Kept
         /\ Current(w, n) \/ UNCHANGED work
  <1>1. CASE CanFinish(w, n, o)
    <2>1. Publish(w, n, o) /\ Current(w, n)
      BY <1>1 DEF FinishOrAbort, CanFinish
    <2>2. UNCHANGED <<run, control, tries>>
      BY <2>1 DEF Publish
    <2>3. /\ StoreInv'
          /\ \A v \in Works : \A k \in Rows : RowKept(v, k)
          /\ \A v \in Works : \A k \in Rows : row'[v][k].seen = row[v][k].seen
          /\ \A v \in Works : \A k \in Rows :
               \/ row'[v][k].stage = row[v][k].stage
               \/ row[v][k].stage = "claimed" /\ row'[v][k].stage = "retired"
      BY <1>1, <2>1, PublishStore
    <2>4. \A v \in Works : \A k \in Rows : row[v][k].resv # "NONE" => RowSafe(v, k)
      BY <2>3 DEF RowKept, RowSafe
    <2>5. started' = started => Kept
      BY <2>2, <2>3 DEF RowKept, Kept, Latched
    <2> QED BY <2>1, <2>2, <2>3, <2>4, <2>5
  <1>2. CASE ~CanFinish(w, n, o)
    <2>1. Abort(w, n, o)
      BY <1>2 DEF FinishOrAbort
    <2>2. StoreInv' /\ UNCHANGED <<run, control, tries, work, row>>
      BY <2>1, AbortStore DEF Abort
    <2> QED BY <2>2, RowsSame, KeptSame
  <1> QED BY <1>1, <1>2

(* A task moves on without a row of its own in question, or ends.          *)
LEMMA GotoTask ==
  ASSUME TaskInv, NEW w \in Works, NEW n \in Numbers, task[w][n].pc # "over",
         NEW pc \in {"run", "commit", "handoff", "failing", "record"}, Goto(w, n, pc),
         tries' = tries,
         \A v \in Works : \A k \in Rows :
            row[v][k].resv # "NONE" /\ ~(v = w /\ row[v][k].att = n) => RowSafe(v, k)
  PROVE  TaskInv'
  <1> DEFINE t == [task[w][n] EXCEPT !.pc = pc]
  <1>1. task \in [Works -> [Numbers -> TaskRec]] /\ task[w][n] \in TaskRec
    BY DEF TaskInv, TaskType
  <1>2. t \in TaskRec /\ t.pc = pc /\ task' = [task EXCEPT ![w][n] = t]
    BY <1>1 DEF Goto, TaskRec, Pcs
  <1>3. task'[w][n] = t
    BY <1>1, <1>2
  <1>4. TaskOK(w, n)'
    BY <1>2, <1>3 DEF TaskOK, Calling, TaskInv
  <1> HIDE DEF t
  <1> QED BY <1>2, <1>4, TaskStep

LEMMA OverTask ==
  ASSUME TaskInv, NEW w \in Works, NEW n \in Numbers, Over(w, n), tries' = tries,
         \A v \in Works : \A k \in Rows : row[v][k].resv # "NONE" => RowSafe(v, k)
  PROVE  TaskInv'
  <1>1. NoTask \in TaskRec /\ NoTask.pc = "over" /\ task' = [task EXCEPT ![w][n] = NoTask]
    BY DEF NoTask, TaskRec, Pcs, Over
  <1>2. task'[w][n] = NoTask
    BY <1>1 DEF TaskInv, TaskType
  <1>3. TaskOK(w, n)'
    BY <1>1, <1>2 DEF TaskOK, Calling
  <1> QED BY <1>1, <1>3, TaskStep

(* Steps that only move a task.                                            *)
LEMMA TaskOnly ==
  ASSUME DInv, NEW w \in Works, NEW n \in Numbers, task[w][n].pc # "over",
         UNCHANGED <<store, proc, started, crashes>>,
         \/ Over(w, n)
         \/ \E pc \in {"run", "commit", "handoff", "failing", "record"} : Goto(w, n, pc)
  PROVE  DInv'
  <1>1. StoreInv'
    BY StoreSame DEF DInv
  <1>2. UNCHANGED <<row, tries, control>>
    BY DEF store
  <1>3. TaskInv'
    <2>1. CASE Over(w, n)
      BY <2>1, <1>2, RowsSame, OverTask DEF DInv
    <2>2. CASE \E pc \in {"run", "commit", "handoff", "failing", "record"} : Goto(w, n, pc)
      BY <2>2, <1>2, RowsSame, GotoTask DEF DInv
    <2> QED BY <2>1, <2>2
  <1>4. ProcInv'
    BY <1>2, KeptSame, ProcSame DEF DInv
  <1> QED BY <1>1, <1>3, <1>4, HasStarted, Assemble

(* What a change of one row means for the others.                          *)
LEMMA OneRowOthers ==
  ASSUME NEW w \in Works, NEW n \in Numbers, NEW k \in Rows, UNCHANGED <<control, started>>,
         \A v \in Works : \A j \in Rows : ~(v = w /\ j = k) => row'[v][j] = row[v][j],
         \/ row[w][k].resv = "NONE"
         \/ /\ row[w][k].att = n /\ row'[w][k].resv # "NONE"
            /\ row'[w][k].seen = row[w][k].seen
  PROVE  /\ Kept
         /\ \A v \in Works : \A j \in Rows :
               row[v][j].resv # "NONE" /\ ~(v = w /\ row[v][j].att = n) => RowSafe(v, j)
  <1>1. Kept
    BY DEF Kept, Latched
  <1>2. \A v \in Works : \A j \in Rows :
           row[v][j].resv # "NONE" /\ ~(v = w /\ row[v][j].att = n) => RowSafe(v, j)
    BY DEF RowSafe
  <1> QED BY <1>1, <1>2

(* A task that changes the row it works on.                                *)
LEMMA CallStep ==
  ASSUME DInv, NEW w \in Works, NEW n \in Numbers, task[w][n].pc \in Calling,
         NEW pc \in Pcs, pc # "over", Goto(w, n, pc), NEW r \in RowRec,
         SetRow(w, task[w][n].row, r),
         r.att = n, r.resv # "NONE", r.seen = row[w][task[w][n].row].seen,
         pc \in Calling => r.stage \in StagesAt(pc),
         UNCHANGED <<control, tries, proc, started, crashes>>, StoreInv'
  PROVE  DInv'
  <1> DEFINE k == task[w][n].row
             t == [task[w][n] EXCEPT !.pc = pc]
  <1>1. k \in Rows /\ row[w][k].resv # "NONE" /\ row[w][k].att = n /\ n <= tries[w]
    BY DEF DInv, TaskInv, TaskOK, Calling
  <1>2. task \in [Works -> [Numbers -> TaskRec]] /\ task[w][n] \in TaskRec
    BY DEF DInv, TaskInv, TaskType
  <1>3. t \in TaskRec /\ t.pc = pc /\ t.row = k /\ task' = [task EXCEPT ![w][n] = t]
    <2>1. t \in TaskRec /\ t.pc = pc /\ t.row = k
      BY <1>2 DEF TaskRec
    <2> QED BY <1>2, <2>1 DEF Goto
  <1>4. task'[w][n] = t
    BY <1>2, <1>3
  <1> HIDE DEF k, t
  <1>5. row' = [row EXCEPT ![w][k] = r] /\ r.seen = row[w][k].seen
    BY DEF k, SetRow
  <1>6. /\ Kept
        /\ \A v \in Works : \A j \in Rows :
               row[v][j].resv # "NONE" /\ ~(v = w /\ row[v][j].att = n) => RowSafe(v, j)
        /\ row'[w][k] = r
    <2>1. row \in [Works -> [Rows -> RowRec]]
      BY DEF DInv, StoreInv, StoreType
    <2>2. \A v \in Works : \A j \in Rows :
             row'[v][j] = IF v = w /\ j = k THEN r ELSE row[v][j]
      BY <2>1, <1>1, <1>5
    <2>3. row[w][k].att = n /\ row'[w][k].resv # "NONE" /\ row'[w][k].seen = row[w][k].seen
      BY <1>1, <1>5, <2>2
    <2> QED BY <2>2, <2>3, <1>1, OneRowOthers
  <1>7. TaskOK(w, n)'
    BY <1>1, <1>3, <1>4, <1>6 DEF TaskOK, StagesAt
  <1>8. TaskInv'
    BY <1>3, <1>6, <1>7, TaskStep DEF DInv
  <1>9. ProcInv'
    BY <1>6, ProcSame DEF DInv
  <1>10. started
    BY HasStarted DEF Calling
  <1> QED BY <1>8, <1>9, <1>10, Assemble

(* The row a calling task works on.                                        *)
LEMMA CallRow ==
  ASSUME DInv, NEW w \in Works, NEW n \in Numbers, task[w][n].pc \in Calling
  PROVE  /\ task[w][n].row \in Rows /\ row \in [Works -> [Rows -> RowRec]]
         /\ row[w][task[w][n].row] \in RowRec
         /\ row[w][task[w][n].row].resv # "NONE" /\ row[w][task[w][n].row].att = n
         /\ row[w][task[w][n].row].stage \in StagesAt(task[w][n].pc)
  BY DEF DInv, TaskInv, TaskOK, StoreInv, StoreType

LEMMA ReserveKeeps ==
  ASSUME DInv, NEW w \in Works, NEW n \in Numbers, Reserve(w, n)
  PROVE  DInv'
  <1>1. task[w][n].pc = "run" /\ NextRow(w) \in Rows
        /\ UNCHANGED <<run, control, work, lease, tries, attempt, retries, journal,
                       proc, started, crashes>>
    BY DEF Reserve
  <1>2. CASE Goto(w, n, "failing") /\ UNCHANGED row
    BY <1>1, <1>2, TaskOnly DEF store
  <1>3. CASE /\ row' = [row EXCEPT ![w][NextRow(w)] =
                         [NoRow EXCEPT !.att = n, !.resv = "RESERVED"]]
             /\ task' = [task EXCEPT ![w][n].pc = "reserved", ![w][n].row = NextRow(w)]
    <2> DEFINE k == NextRow(w)
               t == [task[w][n] EXCEPT !.pc = "reserved", !.row = k]
               r == [NoRow EXCEPT !.att = n, !.resv = "RESERVED"]
    <2>1. n <= tries[w] /\ task \in [Works -> [Numbers -> TaskRec]] /\ task[w][n] \in TaskRec
      BY <1>1 DEF DInv, TaskInv, TaskType, TaskOK
    <2>2. StoreInv'
      <3>1. StoreInv
        BY DEF DInv
      <3> QED BY <3>1, <1>1, <1>3, <2>1, ReserveStore
    <2>3. row[w][k].resv = "NONE" /\ k \in Rows
      BY <1>1, NextFree DEF DInv
    <2>4. t \in TaskRec /\ t.pc = "reserved" /\ t.row = k
      BY <2>1, <2>3 DEF TaskRec, Pcs
    <2>5. task' = [task EXCEPT ![w][n] = t]
      BY <2>1, <1>3
    <2>6. r.att = n /\ r.resv = "RESERVED" /\ r.stage = "none"
      BY DEF NoRow
    <2>7. row' = [row EXCEPT ![w][k] = r] /\ row \in [Works -> [Rows -> RowRec]]
      BY <1>3 DEF DInv, StoreInv, StoreType
    <2> HIDE DEF k, t, r
    <2>8. \A v \in Works : \A j \in Rows :
             row'[v][j] = IF v = w /\ j = k THEN r ELSE row[v][j]
      BY <2>3, <2>7
    <2>9. /\ Kept
          /\ \A v \in Works : \A j \in Rows :
               row[v][j].resv # "NONE" /\ ~(v = w /\ row[v][j].att = n) => RowSafe(v, j)
      BY <1>1, <2>3, <2>8, OneRowOthers
    <2>10. task'[w][n] = t
      BY <2>1, <2>5
    <2>11. row'[w][k].att = n /\ row'[w][k].resv = "RESERVED" /\ row'[w][k].stage = "none"
      BY <2>3, <2>6, <2>8
    <2>12. TaskOK(w, n)'
      BY <2>1, <2>3, <2>4, <2>10, <2>11, <1>1 DEF TaskOK, StagesAt
    <2>13. TaskInv'
      BY <2>4, <2>5, <2>9, <2>12, <1>1, TaskStep DEF DInv
    <2>14. ProcInv'
      BY <1>1, <2>9, ProcSame DEF DInv
    <2>15. started
      BY <1>1, HasStarted
    <2> QED BY <1>1, <2>2, <2>13, <2>14, <2>15, Assemble
  <1> QED BY <1>2, <1>3 DEF Reserve

LEMMA AuthorizeKeeps ==
  ASSUME DInv, NEW w \in Works, NEW n \in Numbers, Authorize(w, n)
  PROVE  DInv'
  <1> DEFINE k == task[w][n].row
  <1>1. /\ task[w][n].pc = "reserved" /\ task[w][n].pc \in Calling
        /\ UNCHANGED <<run, control, work, lease, tries, attempt, retries, journal,
                       proc, started, crashes>>
    BY DEF Authorize, Calling
  <1>2. /\ k \in Rows /\ row \in [Works -> [Rows -> RowRec]]
        /\ row[w][k] \in RowRec /\ row[w][k].resv # "NONE" /\ row[w][k].att = n
        /\ row[w][k].stage = "none"
    BY <1>1, CallRow DEF StagesAt
  <1>3. CASE Goto(w, n, "authorized") /\ UNCHANGED row
    <2>1. SetRow(w, k, row[w][k])
      BY <1>2, <1>3 DEF SetRow
    <2>2. StoreInv'
      BY <1>1, <1>3, StoreSame DEF DInv, store
    <2>3. "authorized" \in Pcs /\ row[w][k].stage \in StagesAt("authorized")
      BY <1>2 DEF Pcs, StagesAt
    <2> QED BY <1>1, <1>2, <1>3, <2>1, <2>2, <2>3, CallStep
  <1>4. CASE /\ Goto(w, n, "failing")
             /\ row' = [row EXCEPT ![w][k].resv = IF @ = "RESERVED" THEN "RELEASED" ELSE @]
    <2> DEFINE r == [row[w][k] EXCEPT !.resv = IF @ = "RESERVED" THEN "RELEASED" ELSE @]
    <2>1. /\ r \in RowRec /\ r.att = n /\ r.resv # "NONE" /\ r.seen = row[w][k].seen
          /\ r.stage = "none"
      BY <1>2 DEF RowRec
    <2>2. SetRow(w, k, r)
      BY <1>2, <1>4 DEF SetRow
    <2> HIDE DEF r
    <2>3. StoreInv'
      BY <1>1, <1>2, <2>1, <2>2, OneRowStep DEF DInv
    <2>4. "failing" \in Pcs /\ "failing" \notin Calling
      BY DEF Pcs, Calling
    <2> QED BY <1>1, <1>4, <2>1, <2>2, <2>3, <2>4, CallStep
  <1> QED BY <1>3, <1>4 DEF Authorize

LEMMA ClaimExternalKeeps ==
  ASSUME DInv, NEW w \in Works, NEW n \in Numbers, ClaimExternal(w, n)
  PROVE  DInv'
  <1> DEFINE k == task[w][n].row
  <1>1. /\ task[w][n].pc = "authorized" /\ task[w][n].pc \in Calling /\ task[w][n].pc # "over"
        /\ UNCHANGED <<run, control, work, lease, tries, attempt, retries, journal,
                       proc, started, crashes>>
    BY DEF ClaimExternal, Calling
  <1>2. /\ k \in Rows /\ row \in [Works -> [Rows -> RowRec]]
        /\ row[w][k] \in RowRec /\ row[w][k].resv # "NONE" /\ row[w][k].att = n
    BY <1>1, CallRow
  <1>3. CASE Goto(w, n, "failing") /\ UNCHANGED row
    BY <1>1, <1>3, TaskOnly DEF store
  <1>4. CASE row' = [row EXCEPT ![w][k].stage = "claimed"] /\ Goto(w, n, "prepared")
    <2> DEFINE r == [row[w][k] EXCEPT !.stage = "claimed"]
    <2>1. /\ r \in RowRec /\ r.att = n /\ r.resv # "NONE" /\ r.seen = row[w][k].seen
          /\ r.stage = "claimed"
      BY <1>2 DEF RowRec, Stages
    <2>2. SetRow(w, k, r)
      BY <1>2, <1>4 DEF SetRow
    <2> HIDE DEF r
    <2>3. StoreInv'
      BY <1>1, <1>2, <2>1, <2>2, OneRowStep DEF DInv
    <2>4. "prepared" \in Pcs /\ r.stage \in StagesAt("prepared")
      BY <2>1 DEF Pcs, StagesAt
    <2> QED BY <1>1, <1>4, <2>1, <2>2, <2>3, <2>4, CallStep
  <1> QED BY <1>3, <1>4 DEF ClaimExternal

LEMMA MarkDispatchedKeeps ==
  ASSUME DInv, NEW w \in Works, NEW n \in Numbers, MarkDispatched(w, n)
  PROVE  DInv'
  <1> DEFINE k == task[w][n].row
  <1>1. /\ task[w][n].pc \in Calling /\ Goto(w, n, "await")
        /\ row' = [row EXCEPT ![w][k].stage = "dispatched"]
        /\ Current(w, n) /\ ~Uncertain(w) /\ row[w][k].resv = "RESERVED"
        /\ UNCHANGED <<run, control, work, lease, tries, attempt, retries, journal,
                       proc, started, crashes>>
    BY DEF MarkDispatched, Calling, CanDispatch
  <1>2. /\ k \in Rows /\ row \in [Works -> [Rows -> RowRec]]
        /\ row[w][k] \in RowRec /\ row[w][k].att = n
    BY <1>1, CallRow
  <1>3. StoreInv'
    <2>1. StoreInv
      BY DEF DInv
    <2> QED BY <2>1, <1>1, <1>2, DispatchStore
  <1> DEFINE r == [row[w][k] EXCEPT !.stage = "dispatched"]
  <1>4. /\ r \in RowRec /\ r.att = n /\ r.resv # "NONE" /\ r.seen = row[w][k].seen
        /\ r.stage = "dispatched"
    BY <1>1, <1>2 DEF RowRec, Stages
  <1>5. SetRow(w, k, r)
    BY <1>1, <1>2 DEF SetRow
  <1> HIDE DEF r
  <1>6. "await" \in Pcs /\ r.stage \in StagesAt("await")
    BY <1>4 DEF Pcs, StagesAt
  <1> QED BY <1>1, <1>3, <1>4, <1>5, <1>6, CallStep

LEMMA MarkReturnedKeeps ==
  ASSUME DInv, NEW w \in Works, NEW n \in Numbers, MarkReturned(w, n)
  PROVE  DInv'
  <1> DEFINE k == task[w][n].row
  <1>1. /\ task[w][n].pc \in Calling /\ Goto(w, n, "returned")
        /\ row' = [row EXCEPT ![w][k].stage = "returned"]
        /\ UNCHANGED <<run, control, work, lease, tries, attempt, retries, journal,
                       proc, started, crashes>>
    BY DEF MarkReturned, Calling
  <1>2. /\ k \in Rows /\ row \in [Works -> [Rows -> RowRec]]
        /\ row[w][k] \in RowRec /\ row[w][k].resv # "NONE" /\ row[w][k].att = n
    BY <1>1, CallRow
  <1> DEFINE r == [row[w][k] EXCEPT !.stage = "returned"]
  <1>3. /\ r \in RowRec /\ r.att = n /\ r.resv # "NONE" /\ r.seen = row[w][k].seen
        /\ r.stage = "returned"
    BY <1>2 DEF RowRec, Stages
  <1>4. SetRow(w, k, r)
    BY <1>1, <1>2 DEF SetRow
  <1> HIDE DEF r
  <1>5. StoreInv'
    BY <1>1, <1>2, <1>3, <1>4, OneRowStep DEF DInv
  <1>6. "returned" \in Pcs /\ r.stage \in StagesAt("returned")
    BY <1>3 DEF Pcs, StagesAt
  <1> QED BY <1>1, <1>3, <1>4, <1>5, <1>6, CallStep

LEMMA AccountKeeps ==
  ASSUME DInv, NEW w \in Works, NEW n \in Numbers, Account(w, n)
  PROVE  DInv'
  <1> DEFINE k == task[w][n].row
  <1>1. /\ task[w][n].pc = "returned" /\ task[w][n].pc \in Calling /\ task[w][n].pc # "over"
        /\ UNCHANGED <<run, control, work, lease, tries, attempt, retries, journal,
                       proc, started, crashes>>
    BY DEF Account, Calling
  <1>2. /\ k \in Rows /\ row \in [Works -> [Rows -> RowRec]] /\ row[w][k].stage = "returned"
        /\ row[w][k] \in RowRec /\ row[w][k].resv # "NONE" /\ row[w][k].att = n
    BY <1>1, CallRow DEF StagesAt
  <1>3. CASE Goto(w, n, "failing") /\ UNCHANGED row
    BY <1>1, <1>3, TaskOnly DEF store
  <1>4. CASE row' = [row EXCEPT ![w][k].resv = "COMMITTED"] /\ Goto(w, n, "run")
    <2> DEFINE r == [row[w][k] EXCEPT !.resv = "COMMITTED"]
    <2>1. /\ r \in RowRec /\ r.att = n /\ r.resv # "NONE" /\ r.seen = row[w][k].seen
          /\ r.stage = "returned"
      BY <1>2 DEF RowRec
    <2>2. SetRow(w, k, r)
      BY <1>2, <1>4 DEF SetRow
    <2> HIDE DEF r
    <2>3. StoreInv'
      BY <1>1, <1>2, <2>1, <2>2, OneRowStep DEF DInv
    <2>4. "run" \in Pcs /\ "run" \notin Calling
      BY DEF Pcs, Calling
    <2> QED BY <1>1, <1>4, <2>1, <2>2, <2>3, <2>4, CallStep
  <1> QED BY <1>3, <1>4 DEF Account

(* Transaction A and transaction B of a task's own transition.             *)
LEMMA PrepareResultKeeps ==
  ASSUME DInv, NEW w \in Works, NEW n \in Numbers, PrepareResult(w, n)
  PROVE  DInv'
  <1>1. /\ task[w][n].pc # "over" /\ Current(w, n) /\ Goto(w, n, "commit")
        /\ UNCHANGED <<run, control, work, lease, tries, attempt, retries, row,
                       proc, started, crashes>>
    BY DEF PrepareResult
  <1>2. PICK target \in Targets, cause \in Causes : Prepare(w, n, "handler", target, cause)
    BY DEF PrepareResult, HandlerResults, Targets, Causes
  <1>3. "handler" \in Owners
    BY DEF Owners
  <1>4. StoreInv'
    BY <1>1, <1>2, <1>3, PrepareStore DEF DInv
  <1>5. TaskInv'
    BY <1>1, RowsSame, GotoTask DEF DInv
  <1>6. ProcInv'
    BY <1>1, KeptSame, ProcSame DEF DInv
  <1> QED BY <1>1, <1>4, <1>5, <1>6, HasStarted, Assemble

LEMMA PrepareFailureKeeps ==
  ASSUME DInv, NEW w \in Works, NEW n \in Numbers, PrepareFailure(w, n)
  PROVE  DInv'
  <1>1. /\ task[w][n].pc # "over"
        /\ UNCHANGED <<run, control, work, lease, tries, attempt, retries, row,
                       proc, started, crashes>>
    BY DEF PrepareFailure
  <1>2. CASE Over(w, n) /\ UNCHANGED journal
    BY <1>1, <1>2, TaskOnly DEF store
  <1>3. CASE /\ Current(w, n) /\ Goto(w, n, "record")
             /\ Prepare(w, n, "failure", "BLOCKED", "WORK_HANDLER_FAILED")
    <2>1. "failure" \in Owners /\ "BLOCKED" \in Targets /\ "WORK_HANDLER_FAILED" \in Causes
      BY DEF Owners, Targets, Causes
    <2>2. StoreInv'
      BY <1>1, <1>3, <2>1, PrepareStore DEF DInv
    <2>3. TaskInv'
      BY <1>1, <1>3, RowsSame, GotoTask DEF DInv
    <2>4. ProcInv'
      BY <1>1, KeptSame, ProcSame DEF DInv
    <2> QED BY <1>1, <2>2, <2>3, <2>4, HasStarted, Assemble
  <1> QED BY <1>2, <1>3 DEF PrepareFailure

LEMMA FinishTaskKeeps ==
  ASSUME DInv, NEW w \in Works, NEW n \in Numbers, NEW o \in {"handler", "failure"},
         task[w][n].pc # "over", FinishOrAbort(w, n, o),
         Over(w, n) \/ Goto(w, n, "failing") \/ Goto(w, n, "handoff"),
         UNCHANGED <<proc, started, crashes>>
  PROVE  DInv'
  <1>1. o \in Owners /\ StoreInv
    BY DEF Owners, DInv
  <1>2. /\ StoreInv' /\ UNCHANGED <<run, control, tries>>
        /\ \A v \in Works : \A k \in Rows : row[v][k].resv # "NONE" => RowSafe(v, k)
        /\ Kept
    BY <1>1, FinishStore
  <1>3. TaskInv'
    <2>1. CASE Over(w, n)
      BY <2>1, <1>2, OverTask DEF DInv
    <2>2. CASE Goto(w, n, "failing")
      BY <2>2, <1>2, GotoTask DEF DInv
    <2>3. CASE Goto(w, n, "handoff")
      BY <2>3, <1>2, GotoTask DEF DInv
    <2> QED BY <2>1, <2>2, <2>3
  <1>4. ProcInv'
    BY <1>2, ProcSame DEF DInv
  <1> QED BY <1>2, <1>3, <1>4, HasStarted, Assemble

LEMMA TaskStepsKeep ==
  ASSUME DInv, NEW w \in Works, NEW n \in Numbers, TaskSteps(w, n)
  PROVE  DInv'
  <1>1. CASE FirstPulse(w, n)
    <2>1. /\ task[w][n].pc # "over" /\ UNCHANGED <<store, proc, started, crashes>>
          /\ Over(w, n) \/ Goto(w, n, "run")
      BY <1>1 DEF FirstPulse
    <2> QED BY <2>1, TaskOnly
  <1>2. CASE HandlerCancelled(w, n)
    <2>1. /\ task[w][n].pc # "over" /\ UNCHANGED <<store, proc, started, crashes>>
          /\ Over(w, n)
      BY <1>2 DEF HandlerCancelled
    <2> QED BY <2>1, TaskOnly
  <1>3. CASE DispatchRefused(w, n)
    <2>1. /\ task[w][n].pc # "over" /\ UNCHANGED <<store, proc, started, crashes>>
          /\ Goto(w, n, "failing")
      BY <1>3 DEF DispatchRefused
    <2> QED BY <2>1, TaskOnly
  <1>4. CASE OperationUnknown(w, n)
    <2>1. /\ task[w][n].pc # "over" /\ UNCHANGED <<store, proc, started, crashes>>
          /\ Goto(w, n, "run") \/ Goto(w, n, "failing")
      BY <1>4 DEF OperationUnknown
    <2> QED BY <2>1, TaskOnly
  <1>5. CASE HandedOff(w, n)
    <2>1. /\ task[w][n].pc # "over" /\ UNCHANGED <<store, proc, started, crashes>>
          /\ Over(w, n)
      BY <1>5 DEF HandedOff
    <2> QED BY <2>1, TaskOnly
  <1>6. CASE HandlerFails(w, n)
    <2>1. /\ task[w][n].pc # "over" /\ UNCHANGED <<store, proc, started, crashes>>
          /\ Goto(w, n, "failing")
      BY <1>6 DEF HandlerFails
    <2> QED BY <2>1, TaskOnly
  <1>7. CASE FinishResult(w, n)
    <2>1. /\ task[w][n].pc # "over" /\ UNCHANGED <<proc, started, crashes>>
          /\ FinishOrAbort(w, n, "handler")
          /\ Over(w, n) \/ Goto(w, n, "failing") \/ Goto(w, n, "handoff")
      BY <1>7 DEF FinishResult
    <2> QED BY <2>1, FinishTaskKeeps
  <1>8. CASE FinishFailure(w, n)
    <2>1. /\ task[w][n].pc # "over" /\ UNCHANGED <<proc, started, crashes>>
          /\ FinishOrAbort(w, n, "failure") /\ Over(w, n)
      BY <1>8 DEF FinishFailure
    <2> QED BY <2>1, FinishTaskKeeps
  <1> QED
    BY <1>1, <1>2, <1>3, <1>4, <1>5, <1>6, <1>7, <1>8, ReserveKeeps, AuthorizeKeeps,
       ClaimExternalKeeps, MarkDispatchedKeeps, MarkReturnedKeeps, AccountKeeps,
       PrepareResultKeeps, PrepareFailureKeeps DEF TaskSteps

(* Steps that open or claim works.                                         *)
LEMMA OpenKeeps ==
  ASSUME DInv, NEW S \in SUBSET Works, NEW status \in {"PENDING", "READY"}, ~Latched, started',
         work' = [w \in Works |-> IF w \in S THEN Idle(status) ELSE work[w]],
         \A w \in S : work[w].status # "RUNNING" /\ ~Uncertain(w),
         status = "PENDING" => \A w \in S : tries[w] = 0,
         UNCHANGED <<run, control, lease, tries, attempt, retries, row, journal, task, crashes>>,
         ProcInv'
  PROVE  DInv'
  <1>1. StoreInv'
    BY OpenStore DEF DInv
  <1>2. TaskInv'
    BY RowsSame, TaskSame DEF DInv
  <1>3. StartOK'
    BY DEF StartOK
  <1>4. started' \in BOOLEAN
    <2>1. started' = TRUE \/ started' \in BOOLEAN
      OBVIOUS
    <2> QED BY <2>1
  <1> QED BY <1>1, <1>2, <1>3, <1>4 DEF DInv

LEMMA OneOpens ==
  ASSUME DInv, NEW w \in Works, NEW status \in {"PENDING", "READY"}, ~Latched, started,
         work[w].status \in {"NONE", "PENDING"}, work' = [work EXCEPT ![w] = Idle(status)],
         UNCHANGED <<run, control, lease, tries, attempt, retries, row, journal,
                     task, started, crashes>>,
         ProcInv'
  PROVE  DInv'
  <1>1. work' = [v \in Works |-> IF v \in {w} THEN Idle(status) ELSE work[v]]
    BY DEF DInv, StoreInv, StoreType
  <1>2. tries[w] = 0
    BY DEF DInv, StoreInv, WorksOK, WorkOK
  <1>3. ~Uncertain(w)
    BY <1>2, Untried DEF DInv
  <1> DEFINE S == {w}
  <1>4. /\ \A v \in S : work[v].status # "RUNNING" /\ ~Uncertain(v) /\ tries[v] = 0
        /\ S \in SUBSET Works
    BY <1>2, <1>3
  <1>5. work' = [v \in Works |-> IF v \in S THEN Idle(status) ELSE work[v]]
    BY <1>1
  <1> HIDE DEF S
  <1> QED BY <1>4, <1>5, OpenKeeps

LEMMA RegisterKeeps ==
  ASSUME DInv, NEW w \in Works, Register(w) \/ MakeReady(w)
  PROVE  DInv'
  <1>1. HandlerRuns /\ ~Latched /\ UNCHANGED <<proc, started, row, control>>
    BY DEF Register, MakeReady
  <1>2. started
    BY <1>1, HasStarted DEF HandlerRuns
  <1>3. ProcInv'
    BY <1>1, KeptSame, ProcSame DEF DInv
  <1>4. /\ work[w].status \in {"NONE", "PENDING"}
        /\ UNCHANGED <<run, control, lease, tries, attempt, retries, row, journal,
                       task, started, crashes>>
    BY DEF Register, MakeReady
  <1>5. CASE Register(w)
    <2>1. work' = [work EXCEPT ![w] = Idle("PENDING")]
      BY <1>5 DEF Register
    <2> QED BY <1>1, <1>2, <1>3, <1>4, <2>1, OneOpens
  <1>6. CASE MakeReady(w)
    <2>1. work' = [work EXCEPT ![w] = Idle("READY")]
      BY <1>6 DEF MakeReady
    <2> QED BY <1>1, <1>2, <1>3, <1>4, <2>1, OneOpens
  <1> QED BY <1>5, <1>6

LEMMA ClaimKeeps ==
  ASSUME DInv, NEW p \in Procs, NEW w \in Works, Claim(p, w)
  PROVE  DInv'
  <1>0. /\ StoreInv' /\ tries[w] + 1 \in Numbers /\ tries[w] \in Nat
        /\ tries' = [tries EXCEPT ![w] = tries[w] + 1]
    BY ClaimStore DEF DInv
  <1> PICK n \in Numbers : n = tries[w] + 1
    BY <1>0
  <1> DEFINE t == [proc |-> p, pc |-> "claimed", row |-> 0]
  <1>1. /\ StoreInv' /\ n \in Numbers /\ tries[w] \in Nat /\ n = tries[w] + 1
        /\ tries' = [tries EXCEPT ![w] = n]
    BY <1>0
  <1>2. task' = [task EXCEPT ![w][n] = t] /\ t \in TaskRec /\ t.pc = "claimed"
    BY DEF Claim, TaskRec, Pcs
  <1>3. UNCHANGED <<row, control, proc, started, crashes>> /\ proc[p].mode = "drain"
    BY DEF Claim
  <1>4. started
    BY <1>3 DEF DInv, ProcInv, ModeOK, Pooled
  <1>5. /\ \A v \in Works : tries[v] \in Nat /\ tries'[v] = IF v = w THEN n ELSE tries[v]
    <2>1. tries \in [Works -> Numbers \cup {0}]
      BY DEF DInv, StoreInv, StoreType
    <2>3. \A v \in Works : tries[v] \in Nat
      BY TriesNat DEF DInv
    <2> QED BY <2>1, <2>3, <1>1
  <1>6. \A v \in Works : \A m \in Numbers : m <= tries[v] => m <= tries'[v]
    BY <1>1, <1>5, NumbersNat
  <1>7. /\ TaskType'
        /\ \A v \in Works : \A m \in Numbers :
              task'[v][m] = IF v = w /\ m = n THEN t ELSE task[v][m]
    BY <1>1, <1>2 DEF DInv, TaskInv, TaskType
  <1>8. tries'[w] = n /\ n <= n
    BY <1>1, <1>5
  <1> HIDE DEF t
  <1>9. TaskOK(w, n)'
    <2>1. task'[w][n] = t
      BY <1>1, <1>7
    <2>2. t.pc \notin Calling
      BY <1>2 DEF Calling
    <2> QED BY <2>1, <2>2, <1>8 DEF TaskOK
  <1>10. ASSUME NEW v \in Works, NEW m \in Numbers
         PROVE  \/ TaskOK(v, m)'
                \/ /\ task'[v][m] = task[v][m]
                   /\ task[v][m].pc \in Calling => RowSafe(v, task[v][m].row)
    <2>1. TaskOK(v, m)
      BY DEF DInv, TaskInv
    <2>2. CASE v = w /\ m = n
      BY <2>2, <1>9
    <2>3. CASE ~(v = w /\ m = n)
      <3>1. task'[v][m] = task[v][m]
        BY <2>3, <1>7
      <3>2. task[v][m].pc \in Calling => RowSafe(v, task[v][m].row)
        BY <2>1, <1>3 DEF TaskOK, RowSafe
      <3> QED BY <3>1, <3>2
    <2> QED BY <2>2, <2>3
  <1>11. TaskInv'
    BY <1>6, <1>7, <1>10, TasksKept DEF DInv
  <1>12. ProcInv'
    BY <1>3, KeptSame, ProcSame DEF DInv
  <1> QED BY <1>1, <1>3, <1>4, <1>11, <1>12, Assemble

(* Steps of a process that touch neither the database nor the tasks.       *)
LEMMA ProcOnly ==
  ASSUME DInv, UNCHANGED <<store, task, started, crashes>>, Kept => ProcInv'
  PROVE  DInv'
  <1>1. UNCHANGED <<run, control, work, row, tries>>
    BY DEF store
  <1>2. StoreInv'
    BY StoreSame DEF DInv
  <1>3. TaskInv'
    BY <1>1, RowsSame, TaskSame DEF DInv
  <1>4. ProcInv'
    BY <1>1, KeptSame
  <1> QED BY <1>1, <1>2, <1>3, <1>4, Assemble

LEMMA OneDown ==
  ASSUME DInv, UNCHANGED <<store, task, started, crashes>>,
         NEW p \in Procs, proc' = [proc EXCEPT ![p] = Down]
  PROVE  DInv'
  BY ProcOnly, ProcDown DEF DInv

(* RecoveryService.recover.                                                *)
LEMMA RecoverKeeps ==
  ASSUME DInv, NEW p \in Procs, Recover(p)
  PROVE  DInv'
  <1> DEFINE T == {x \in Works \X Numbers \X Owners : Prepared(x[1], x[2], x[3])}
  <1>1. Mode(p, "replay", T, {}) /\ UNCHANGED <<store, task, started, crashes>>
    BY DEF Recover
  <1>2. T \subseteq Works \X Numbers \X Owners /\ T \in SUBSET Things
    BY DEF Things
  <1> HIDE DEF T
  <1>3. Kept => ProcInv'
    BY <1>1, <1>2, ProcMode DEF DInv, Modes, Pooled, Latching
  <1> QED BY <1>1, <1>3, ProcOnly

LEMMA ReadExpiredKeeps ==
  ASSUME DInv, NEW p \in Procs, ReadExpired(p)
  PROVE  DInv'
  <1> DEFINE T == {x \in Works \X Numbers : Current(x[1], x[2]) /\ ToBlock(x[1])}
  <1>1. Mode(p, "expiry", T, {}) /\ UNCHANGED <<store, task, started, crashes>>
    BY DEF ReadExpired
  <1>2. T \subseteq Works \X Numbers /\ T \in SUBSET Things
    BY DEF Things
  <1> HIDE DEF T
  <1>3. Kept => ProcInv'
    BY <1>1, <1>2, ProcMode DEF DInv, Modes, Pooled, Latching
  <1> QED BY <1>1, <1>3, ProcOnly

LEMMA SkipLatchedKeeps ==
  ASSUME DInv, NEW p \in Procs, SkipLatched(p)
  PROVE  DInv'
  <1>1. PICK x \in proc[p].todo : Mode(p, "expiry", proc[p].todo \ {x}, {})
    BY DEF SkipLatched
  <1>2. UNCHANGED <<store, task, started, crashes>> /\ proc[p].mode = "expiry"
    BY DEF SkipLatched
  <1> DEFINE T == proc[p].todo \ {x}
  <1>3. T \subseteq Works \X Numbers /\ T \in SUBSET Things /\ Mode(p, "expiry", T, {})
    BY <1>1, <1>2 DEF DInv, ProcInv, ModeOK, Things
  <1> HIDE DEF T
  <1>4. Kept => ProcInv'
    BY <1>3, ProcMode DEF DInv, Modes, Pooled, Latching
  <1> QED BY <1>2, <1>4, ProcOnly

LEMMA ReplayKeeps ==
  ASSUME DInv, NEW p \in Procs, Replay(p)
  PROVE  DInv'
  <1>1. PICK x \in proc[p].todo : /\ FinishOrAbort(x[1], x[2], x[3])
                                  /\ Mode(p, "replay", proc[p].todo \ {x}, {})
    BY DEF Replay
  <1>2. UNCHANGED <<task, started, crashes>> /\ proc[p].mode = "replay"
    BY DEF Replay
  <1>3. proc[p].todo \subseteq Works \X Numbers \X Owners
    BY <1>2 DEF DInv, ProcInv, ModeOK
  <1> PICK w \in Works, n \in Numbers, o \in Owners : w = x[1] /\ n = x[2] /\ o = x[3]
    BY <1>3
  <1>4. /\ StoreInv' /\ UNCHANGED <<run, control, tries>>
        /\ \A v \in Works : \A k \in Rows : row[v][k].resv # "NONE" => RowSafe(v, k)
        /\ Kept /\ (Current(w, n) \/ UNCHANGED work)
    BY <1>1, <1>2, FinishStore DEF DInv
  <1> DEFINE T == proc[p].todo \ {x}
  <1>5. T \subseteq Works \X Numbers \X Owners /\ T \in SUBSET Things /\ Mode(p, "replay", T, {})
    BY <1>1, <1>3 DEF Things
  <1> HIDE DEF T
  <1>6. ProcInv'
    BY <1>4, <1>5, ProcMode DEF DInv, Modes, Pooled, Latching
  <1>7. TaskInv'
    BY <1>2, <1>4, TaskSame DEF DInv
  <1> QED BY <1>2, <1>4, <1>6, <1>7, HasStarted, Assemble

LEMMA PrepareBlockKeeps ==
  ASSUME DInv, NEW p \in Procs, PrepareBlock(p)
  PROVE  DInv'
  <1>1. /\ UNCHANGED <<run, control, work, lease, tries, attempt, retries, row,
                       task, started, crashes>>
        /\ proc[p].mode = "expiry"
    BY DEF PrepareBlock
  <1>2. proc[p].todo \subseteq Works \X Numbers
    BY <1>1 DEF DInv, ProcInv, ModeOK
  <1>3. TaskInv' /\ Kept
    BY <1>1, RowsSame, TaskSame, KeptSame DEF DInv
  <1>4. CASE proc' = [proc EXCEPT ![p] = Down] /\ UNCHANGED journal
    BY <1>1, <1>4, OneDown DEF store
  <1>5. CASE \E x \in proc[p].todo : \E cause \in {"RECOVERY_FAILED", "LEASE_EXPIRED"} :
                /\ Current(x[1], x[2]) /\ Prepare(x[1], x[2], p, "BLOCKED", cause)
                /\ Mode(p, "block", proc[p].todo \ {x}, {x})
    <2> PICK x \in proc[p].todo, cause \in {"RECOVERY_FAILED", "LEASE_EXPIRED"} :
                /\ Current(x[1], x[2]) /\ Prepare(x[1], x[2], p, "BLOCKED", cause)
                /\ Mode(p, "block", proc[p].todo \ {x}, {x})
      BY <1>5
    <2> PICK w \in Works, n \in Numbers : w = x[1] /\ n = x[2]
      BY <1>2
    <2>1. p \in Owners /\ "BLOCKED" \in Targets /\ cause \in Causes
      BY DEF Owners, Targets, Causes
    <2>2. StoreInv'
      BY <1>1, <2>1, PrepareStore DEF DInv
    <2> DEFINE T == proc[p].todo \ {x}
               H == {x}
    <2>3. /\ T \subseteq Works \X Numbers /\ T \in SUBSET Things
          /\ H \subseteq Works \X Numbers /\ H \in SUBSET Things /\ Mode(p, "block", T, H)
      BY <1>2 DEF Things
    <2> HIDE DEF T, H
    <2>4. ProcInv'
      BY <1>3, <2>3, ProcMode DEF DInv, Modes, Pooled, Latching
    <2> QED BY <1>1, <1>3, <2>2, <2>4, HasStarted, Assemble
  <1> QED BY <1>4, <1>5 DEF PrepareBlock

LEMMA FinishBlockKeeps ==
  ASSUME DInv, NEW p \in Procs, FinishBlock(p)
  PROVE  DInv'
  <1>1. PICK x \in proc[p].held :
           /\ FinishOrAbort(x[1], x[2], p)
           /\ Mode(p, "expiry", proc[p].todo, {}) \/ proc' = [proc EXCEPT ![p] = Down]
    BY DEF FinishBlock
  <1>2. UNCHANGED <<task, started, crashes>> /\ proc[p].mode = "block" /\ p \in Owners
    BY DEF FinishBlock, Owners
  <1>3. proc[p].todo \subseteq Works \X Numbers /\ proc[p].held \subseteq Works \X Numbers
    BY <1>2 DEF DInv, ProcInv, ModeOK
  <1> PICK w \in Works, n \in Numbers : w = x[1] /\ n = x[2]
    BY <1>3
  <1>4. /\ StoreInv' /\ UNCHANGED <<run, control, tries>>
        /\ \A v \in Works : \A k \in Rows : row[v][k].resv # "NONE" => RowSafe(v, k)
        /\ Kept /\ (Current(w, n) \/ UNCHANGED work)
    BY <1>1, <1>2, FinishStore DEF DInv
  <1>5. ProcInv'
    <2>1. CASE proc' = [proc EXCEPT ![p] = Down]
      BY <2>1, <1>4, ProcDown DEF DInv
    <2>2. CASE Mode(p, "expiry", proc[p].todo, {})
      <3>1. proc[p].todo \in SUBSET Things
        BY <1>3 DEF Things
      <3> QED BY <2>2, <3>1, <1>3, <1>4, ProcMode DEF DInv, Modes, Pooled, Latching
    <2> QED BY <1>1, <2>1, <2>2
  <1>6. TaskInv'
    BY <1>2, <1>4, TaskSame DEF DInv
  <1> QED BY <1>2, <1>4, <1>5, <1>6, HasStarted, Assemble

LEMMA RecoverySteps_Keep ==
  ASSUME DInv, NEW p \in Procs, RecoverySteps(p)
  PROVE  DInv'
  <1>1. CASE Recovered(p)
    <2>1. Mode(p, "idle", {}, {}) /\ UNCHANGED <<store, task, started, crashes>>
      BY <1>1 DEF Recovered
    <2>2. Kept => ProcInv'
      BY <2>1, ProcPlain DEF DInv, Latching
    <2> QED BY <2>1, <2>2, ProcOnly
  <1> QED BY <1>1, ReplayKeeps, ReadExpiredKeeps, SkipLatchedKeeps, PrepareBlockKeeps,
             FinishBlockKeeps DEF RecoverySteps

(* Entering the pool.                                                      *)
LEMMA RunKeeps ==
  ASSUME DInv, NEW p \in Procs, Run(p)
  PROVE  DInv'
  <1>1. /\ ~started /\ started' /\ Mode(p, "drain", {}, {})
        /\ work' = [work EXCEPT ![First] = Idle("READY")]
        /\ UNCHANGED <<run, control, lease, tries, attempt, retries, row, journal,
                       task, crashes>>
    BY DEF Run
  <1>2. First \in Works
    BY DispatchAssumption
  <1>3. ~Latched /\ work[First].status = "NONE"
    BY <1>1, <1>2 DEF DInv, StartOK, Latched
  <1>4. tries[First] = 0
    BY <1>2, <1>3 DEF DInv, StoreInv, WorksOK, WorkOK
  <1>5. ~Uncertain(First)
    BY <1>2, <1>4, Untried DEF DInv
  <1> DEFINE S == {First}
  <1>6. /\ S \in SUBSET Works
        /\ work' = [v \in Works |-> IF v \in S THEN Idle("READY") ELSE work[v]]
        /\ \A v \in S : work[v].status # "RUNNING" /\ ~Uncertain(v)
    BY <1>1, <1>2, <1>3, <1>5 DEF DInv, StoreInv, StoreType
  <1> HIDE DEF S
  <1>7. Kept
    BY <1>1 DEF Kept, Latched
  <1>8. ProcInv'
    BY <1>1, <1>7, ProcPlain DEF DInv, Latching
  <1> QED BY <1>1, <1>3, <1>6, <1>8, OpenKeeps

LEMMA ResumeKeeps ==
  ASSUME DInv, NEW p \in Procs, Resume(p)
  PROVE  DInv'
  <1>1. /\ started /\ CanResume /\ Mode(p, "drain", {}, {})
        /\ work' = [w \in Works |-> IF w \in Cohort THEN Idle("READY") ELSE work[w]]
        /\ UNCHANGED <<run, control, lease, tries, attempt, retries, row, journal,
                       task, started, crashes>>
    BY DEF Resume
  <1>2. ~Latched /\ Cohort \in SUBSET Works
    BY <1>1, DispatchAssumption DEF CanResume, Cohort, FailedDynamic, Blocked
  <1>3. \A w \in Cohort : work[w].status # "RUNNING" /\ ~Uncertain(w)
    <2>1. \A w \in Cohort : ~Uncertain(w)
      BY <1>1 DEF CanResume, Resumable
    <2>2. \A w \in Cohort : work[w].status # "RUNNING"
      BY <1>1, <1>2 DEF CanResume
    <2> QED BY <2>1, <2>2
  <1>4. Kept
    BY <1>1, KeptSame
  <1>5. ProcInv'
    BY <1>1, <1>4, ProcPlain DEF DInv, Latching
  <1> QED BY <1>1, <1>2, <1>3, <1>5, OpenKeeps

(* CancellationService.                                                    *)
LEMMA LatchStep ==
  ASSUME DInv, started, NEW p \in Procs, control' = IF Latched THEN control ELSE "latched",
         Mode(p, "cancel", {}, {}), TaskInv',
         UNCHANGED <<run, work, lease, tries, attempt, retries, row, journal,
                     started, crashes>>
  PROVE  DInv'
  <1>1. StoreInv'
    <2>1. control' = control \/ control' = "latched"
      OBVIOUS
    <2> QED BY <2>1, ControlStore DEF DInv
  <1>2. Latched' /\ Kept
    BY DEF Latched, Kept
  <1>3. ProcInv'
    BY <1>2, ProcPlain DEF DInv
  <1> QED BY <1>1, <1>3, Assemble

LEMMA CancelCommandsKeep ==
  ASSUME DInv, NEW p \in Procs, RequestCancel(p) \/ Interrupt(p)
  PROVE  DInv'
  <1>1. CASE RequestCancel(p)
    <2>1. /\ started /\ control' = IF Latched THEN control ELSE "latched"
          /\ Mode(p, "cancel", {}, {})
          /\ UNCHANGED <<run, work, lease, tries, attempt, retries, row, journal,
                         task, started, crashes>>
      BY <1>1 DEF RequestCancel
    <2>2. TaskInv'
      BY <2>1, RowsSame, TaskSame DEF DInv
    <2> QED BY <2>1, <2>2, LatchStep
  <1>2. CASE Interrupt(p)
    <2>1. /\ proc[p].mode \in Pooled /\ control' = IF Latched THEN control ELSE "latched"
          /\ Mode(p, "cancel", {}, {})
          /\ task' = [w \in Works |-> [n \in Numbers |->
                        IF task[w][n].proc = p THEN NoTask ELSE task[w][n]]]
          /\ UNCHANGED <<run, work, lease, tries, attempt, retries, row, journal,
                         started, crashes>>
      BY <1>2 DEF Interrupt, Pooled
    <2>2. started
      BY <2>1 DEF DInv, ProcInv, ModeOK
    <2>3. TaskInv'
      BY <2>1, TaskDrop DEF DInv
    <2> QED BY <2>1, <2>2, <2>3, LatchStep
  <1> QED BY <1>1, <1>2

LEMMA ReadTargetsKeeps ==
  ASSUME DInv, NEW p \in Procs, ReadTargets(p)
  PROVE  DInv'
  <1>1. /\ proc[p].mode = "cancel" /\ UNCHANGED <<store, task, started, crashes>>
        /\ row' = row
    BY DEF ReadTargets, store
  <1>2. CASE proc' = [proc EXCEPT ![p] = Down]
    BY <1>1, <1>2, OneDown
  <1>3. CASE Mode(p, "observe", {x \in TargetSet : row[x[1]][x[2]].seen = "none"}, TargetSet)
    <2> DEFINE T == {x \in TargetSet : row[x[1]][x[2]].seen = "none"}
    <2>1. started /\ Latched
      BY <1>1 DEF DInv, ProcInv, ModeOK, Pooled, Latching
    <2>2. started' /\ Latched'
      BY <2>1, <1>1 DEF store, Latched
    <2>3. /\ TargetSet \subseteq Works \X Rows /\ T \subseteq TargetSet
          /\ TargetSet \in SUBSET Things /\ T \in SUBSET Things
      BY DEF TargetSet, Things
    <2>4. \A x \in TargetSet : row'[x[1]][x[2]].resv # "NONE"
      BY <1>1 DEF TargetSet, Unresolved, DInv, StoreInv, RowsOK, RowOK
    <2>5. \A x \in TargetSet \ T : row'[x[1]][x[2]].seen # "none"
      BY <1>1
    <2>6. "observe" \in Modes /\ "observe" \notin {"replay", "expiry", "block", "seed"}
      BY DEF Modes
    <2>7. Mode(p, "observe", T, TargetSet) /\ ProcInv
      BY <1>3 DEF DInv
    <2> HIDE DEF T
    <2>8. Kept => ProcInv'
      BY <2>2, <2>3, <2>4, <2>5, <2>6, <2>7, ProcMode
    <2> QED BY <1>1, <2>8, ProcOnly
  <1> QED BY <1>2, <1>3 DEF ReadTargets

LEMMA ObserveKeeps ==
  ASSUME DInv, NEW p \in Procs, Observe(p)
  PROVE  DInv'
  <1>1. /\ proc[p].mode = "observe"
        /\ UNCHANGED <<run, control, work, lease, tries, attempt, retries, journal,
                       task, started, crashes>>
    BY DEF Observe
  <1>2. CASE proc' = [proc EXCEPT ![p] = Down] /\ UNCHANGED row
    BY <1>1, <1>2, OneDown DEF store
  <1>3. CASE \E x \in proc[p].todo, seen \in {"CLOSED", "UNKNOWN"} :
               /\ x \in TargetSet /\ row' = [row EXCEPT ![x[1]][x[2]].seen = seen]
               /\ Mode(p, "observe", proc[p].todo \ {x}, proc[p].held)
    <2> PICK x \in proc[p].todo, seen \in {"CLOSED", "UNKNOWN"} :
               /\ x \in TargetSet /\ row' = [row EXCEPT ![x[1]][x[2]].seen = seen]
               /\ Mode(p, "observe", proc[p].todo \ {x}, proc[p].held)
      BY <1>3
    <2> PICK w \in Works, k \in Rows : x = <<w, k>> /\ w = x[1] /\ k = x[2]
      BY DEF TargetSet
    <2> DEFINE r == [row[w][k] EXCEPT !.seen = seen]
    <2>1. /\ row[w][k].stage = "dispatched" /\ row[w][k] \in RowRec /\ row[w][k].resv # "NONE"
          /\ row \in [Works -> [Rows -> RowRec]]
      BY DEF TargetSet, Unresolved, DInv, StoreInv, StoreType, RowsOK, RowOK
    <2>2. /\ r \in RowRec /\ r.att = row[w][k].att /\ r.resv = row[w][k].resv
          /\ r.stage = row[w][k].stage /\ r.seen = seen
      BY <2>1 DEF RowRec
    <2>3. SetRow(w, k, r)
      BY <2>1 DEF SetRow
    <2> HIDE DEF r
    <2>4. StoreInv'
      BY <1>1, <2>1, <2>2, <2>3, OneRowStep DEF DInv
    <2>5. \A v \in Works : \A j \in Rows :
             row'[v][j] = IF v = w /\ j = k THEN r ELSE row[v][j]
      BY <2>1, <2>3 DEF SetRow
    <2>6. \A v \in Works : \A j \in Rows : row[v][j].resv # "NONE" => RowSafe(v, j)
      BY <2>2, <2>5 DEF RowSafe
    <2>7. Kept
      <3>1. seen # "none"
        OBVIOUS
      <3> QED BY <1>1, <2>2, <2>5, <3>1 DEF Kept, Latched
    <2>8. TaskInv'
      BY <1>1, <2>6, TaskSame DEF DInv
    <2>9. started /\ started' /\ Latched'
      BY <1>1 DEF DInv, ProcInv, ModeOK, Pooled, Latching, Latched
    <2>10. /\ proc[p].held \subseteq Works \X Rows /\ proc[p].todo \subseteq proc[p].held
           /\ \A y \in proc[p].held : row[y[1]][y[2]].resv # "NONE"
           /\ \A y \in proc[p].held \ proc[p].todo : row[y[1]][y[2]].seen # "none"
      BY <1>1 DEF DInv, ProcInv, SightOK, Seen
    <2> DEFINE T == proc[p].todo \ {x}
               H == proc[p].held
    <2>11. /\ T \subseteq H /\ H \subseteq Works \X Rows
           /\ T \in SUBSET Things /\ H \in SUBSET Things
      BY <2>10 DEF Things
    <2>12. ASSUME NEW y \in H
           PROVE  row'[y[1]][y[2]].resv # "NONE" /\ (y \notin T => row'[y[1]][y[2]].seen # "none")
      <3> PICK v \in Works, j \in Rows : y = <<v, j>> /\ v = y[1] /\ j = y[2]
        BY <2>10
      <3>1. row'[v][j].resv # "NONE"
        BY <2>7, <2>10 DEF Kept
      <3>2. CASE y = x
        BY <3>1, <3>2, <2>2, <2>5
      <3>3. CASE y # x
        BY <3>1, <3>3, <2>7, <2>10 DEF Kept
      <3> QED BY <3>2, <3>3
    <2>13. "observe" \in Modes /\ "observe" \notin {"replay", "expiry", "block", "seed"}
      BY DEF Modes
    <2>14. Mode(p, "observe", T, H) /\ ProcInv
      BY DEF DInv
    <2> HIDE DEF T, H
    <2>15. ProcInv'
      BY <2>7, <2>9, <2>11, <2>12, <2>13, <2>14, ProcMode
    <2> QED BY <1>1, <2>4, <2>8, <2>9, <2>15, Assemble
  <1> QED BY <1>2, <1>3 DEF Observe

LEMMA ReconcileKeeps ==
  ASSUME DInv, NEW p \in Procs, Reconcile(p)
  PROVE  DInv'
  <1>1. proc[p].mode = "observe" /\ UNCHANGED <<run, control, tries, retries, task, started, crashes>>
    BY DEF Reconcile
  <1>2. started /\ Latched /\ Latched' /\ started' /\ proc[p].held \subseteq Works \X Rows
    BY <1>1 DEF DInv, ProcInv, ModeOK, SightOK, Pooled, Latching, Latched
  <1>3. CASE proc' = [proc EXCEPT ![p] = Down] /\ UNCHANGED <<work, attempt, lease, journal, row>>
    BY <1>1, <1>3, OneDown DEF store
  <1>4. CASE CanReconcile(proc[p].held)
    <2> PICK targets \in SUBSET (Works \X Rows) : targets = proc[p].held
      BY <1>2
    <2>1. /\ work' = [w \in Works |->
                  IF w \in Closing(targets)
                  THEN [Idle("CANCELLED") EXCEPT !.stop = "CANCELLATION_REQUESTED"]
                  ELSE work[w]]
          /\ attempt' = [w \in Works |-> [n \in Numbers |->
                  IF w \in Closing(targets) /\ work[w].active = n
                  THEN "CANCELLED" ELSE attempt[w][n]]]
          /\ lease' = [w \in Works |-> IF w \in Closing(targets) THEN "none" ELSE lease[w]]
          /\ journal' = [w \in Works |-> [n \in Numbers |->
                  IF w \in Closing(targets) /\ work[w].active = n
                  THEN [journal[w][n] EXCEPT !["cancel"] = Closed("COMMITTED", "CANCELLED")]
                  ELSE journal[w][n]]]
          /\ row' = [w \in Works |-> [k \in Rows |->
                  IF <<w, k>> \in targets /\ row[w][k].seen = "CLOSED"
                  THEN [row[w][k] EXCEPT !.stage = "reconciled"] ELSE row[w][k]]]
      BY <1>4 DEF Reconcile, Closing
    <2>2. /\ StoreInv'
          /\ \A v \in Works : \A k \in Rows :
               /\ row'[v][k].att = row[v][k].att /\ row'[v][k].resv = row[v][k].resv
               /\ row'[v][k].seen = row[v][k].seen
               /\ \/ row'[v][k].stage = row[v][k].stage
                  \/ row[v][k].stage = "dispatched" /\ row'[v][k].stage = "reconciled"
      <3>1. StoreInv /\ CanReconcile(targets) /\ UNCHANGED <<run, control, tries, retries>>
        BY <1>1, <1>4 DEF DInv
      <3> QED BY <2>1, <3>1, ReconcileStore
    <2>3. \A v \in Works : \A k \in Rows : row[v][k].resv # "NONE" => RowSafe(v, k)
      BY <2>2 DEF RowSafe
    <2>4. Kept
      BY <1>1, <2>2 DEF Kept, Latched
    <2>5. TaskInv'
      BY <1>1, <2>3, TaskSame DEF DInv
    <2>6. Mode(p, "settled", {}, {}) \/ proc' = [proc EXCEPT ![p] = Down]
      BY <1>4 DEF Reconcile
    <2>7. ProcInv'
      <3>1. CASE Mode(p, "settled", {}, {})
        BY <3>1, <1>2, <2>4, ProcPlain DEF DInv
      <3>2. CASE proc' = [proc EXCEPT ![p] = Down]
        BY <3>2, <2>4, ProcDown DEF DInv
      <3> QED BY <2>6, <3>1, <3>2
    <2> QED BY <1>1, <1>2, <2>2, <2>5, <2>7, Assemble
  <1> QED BY <1>3, <1>4 DEF Reconcile

LEMMA CancelStepsKeep ==
  ASSUME DInv, NEW p \in Procs, CancelSteps(p)
  PROVE  DInv'
  <1>1. CASE MarkQuiescent(p)
    <2>1. /\ proc[p].mode = "settled" /\ proc' = [proc EXCEPT ![p] = Down]
          /\ control' = control \/ (control' = "quiescent" /\ CanQuiesce)
          /\ UNCHANGED <<run, work, lease, tries, attempt, retries, row, journal,
                         task, started, crashes>>
      BY <1>1 DEF MarkQuiescent
    <2>2. started
      BY <2>1 DEF DInv, ProcInv, ModeOK, Pooled
    <2>3. StoreInv'
      BY <2>1, ControlStore DEF DInv
    <2>4. TaskInv'
      BY <2>1, RowsSame, TaskSame DEF DInv
    <2>5. Kept
      BY <2>1 DEF Kept, Latched
    <2>6. ProcInv'
      BY <2>1, <2>5, ProcDown DEF DInv
    <2> QED BY <2>1, <2>2, <2>3, <2>4, <2>6, Assemble
  <1> QED BY <1>1, ReadTargetsKeeps, ObserveKeeps, ReconcileKeeps DEF CancelSteps

(* The pool, the aggregation and the end of a command.                     *)
LEMMA PollKeeps ==
  ASSUME DInv, NEW p \in Procs, Poll(p) \/ IdleOutcome(p) \/ Seeded(p)
  PROVE  DInv'
  <1>1. /\ proc[p].mode \in {"drain", "poll", "seed"}
        /\ UNCHANGED <<store, task, started, crashes>>
    BY DEF Poll, IdleOutcome, Seeded
  <1>2. started /\ started' /\ (Latched => Latched')
    BY <1>1 DEF DInv, ProcInv, ModeOK, Pooled, store, Latched
  <1>3. \/ proc' = [proc EXCEPT ![p] = Down]
        \/ \E mode \in {"drain", "poll", "close", "closeCancelled"} :
              /\ Mode(p, mode, {}, {}) /\ (mode = "closeCancelled" => Latched)
    <2>1. CASE Poll(p)
      BY <2>1 DEF Poll
    <2>2. CASE Seeded(p)
      BY <2>2 DEF Seeded
    <2>3. CASE IdleOutcome(p)
      BY <2>3 DEF IdleOutcome, Mode, Down
    <2> QED BY <2>1, <2>2, <2>3
  <1>4. Kept => ProcInv'
    <2>1. CASE proc' = [proc EXCEPT ![p] = Down]
      BY <2>1, ProcDown DEF DInv
    <2>2. CASE \E mode \in {"drain", "poll", "close", "closeCancelled"} :
                  /\ Mode(p, mode, {}, {}) /\ (mode = "closeCancelled" => Latched)
      BY <1>2, <2>2, ProcPlain DEF DInv, Latching
    <2> QED BY <1>3, <2>1, <2>2
  <1> QED BY <1>1, <1>4, ProcOnly

LEMMA SeedKeeps ==
  ASSUME DInv, NEW p \in Procs, Seed(p)
  PROVE  DInv'
  <1>1. PICK S \in SUBSET (Works \ {First}) : Mode(p, "seed", S, {})
    BY DEF Seed
  <1>2. proc[p].mode \in Pooled /\ UNCHANGED <<store, task, started, crashes>>
    BY DEF Seed, Pooled
  <1>3. started'
    BY <1>2 DEF DInv, ProcInv, ModeOK
  <1>4. S \subseteq Works /\ S \in SUBSET Things
    BY DEF Things
  <1>5. "seed" \in Modes /\ "seed" \notin {"replay", "expiry", "block", "observe"}
        /\ "seed" \notin Latching
    BY DEF Modes, Latching
  <1>6. Kept => ProcInv'
    BY <1>1, <1>3, <1>4, <1>5, ProcMode DEF DInv
  <1> QED BY <1>2, <1>6, ProcOnly

LEMMA SeedOneKeeps ==
  ASSUME DInv, NEW p \in Procs, SeedOne(p)
  PROVE  DInv'
  <1>1. /\ proc[p].mode = "seed"
        /\ UNCHANGED <<run, control, lease, tries, attempt, retries, row, journal,
                       task, started, crashes>>
    BY DEF SeedOne
  <1>2. started /\ started' /\ proc[p].todo \subseteq Works
    BY <1>1 DEF DInv, ProcInv, ModeOK, Pooled
  <1>3. Kept
    BY <1>1, KeptSame
  <1>4. ASSUME NEW w \in proc[p].todo, Mode(p, "seed", proc[p].todo \ {w}, {})
        PROVE  ProcInv'
    <2> DEFINE T == proc[p].todo \ {w}
    <2>1. T \subseteq Works /\ T \in SUBSET Things /\ Mode(p, "seed", T, {})
      BY <1>2, <1>4 DEF Things
    <2>2. "seed" \in Modes /\ "seed" \notin {"replay", "expiry", "block", "observe"}
          /\ "seed" \notin Latching
      BY DEF Modes, Latching
    <2> HIDE DEF T
    <2> QED BY <1>2, <1>3, <2>1, <2>2, ProcMode DEF DInv
  <1>5. PICK w \in proc[p].todo :
          \/ proc' = [proc EXCEPT ![p] = Down] /\ UNCHANGED work
          \/ /\ ~Latched /\ work[w].status = "NONE"
             /\ work' = [work EXCEPT ![w] = Idle("PENDING")] /\ UNCHANGED proc
          \/ /\ ~Latched /\ work[w].status = "PENDING"
             /\ work' = [work EXCEPT ![w] = Idle("READY")]
             /\ Mode(p, "seed", proc[p].todo \ {w}, {})
          \/ Mode(p, "seed", proc[p].todo \ {w}, {}) /\ UNCHANGED work
    <2>1. PICK w \in proc[p].todo :
            CASE Latched ->
                 proc' = [proc EXCEPT ![p] = Down] /\ UNCHANGED work
              [] ~Latched /\ work[w].status = "NONE" ->
                 work' = [work EXCEPT ![w] = Idle("PENDING")] /\ UNCHANGED proc
              [] ~Latched /\ work[w].status = "PENDING" ->
                 /\ work' = [work EXCEPT ![w] = Idle("READY")]
                 /\ Mode(p, "seed", proc[p].todo \ {w}, {})
              [] OTHER ->
                 Mode(p, "seed", proc[p].todo \ {w}, {}) /\ UNCHANGED work
      BY DEF SeedOne
    <2>2. CASE Latched
      BY <2>1, <2>2
    <2>3. CASE ~Latched /\ work[w].status = "NONE"
      BY <2>1, <2>3
    <2>4. CASE ~Latched /\ work[w].status = "PENDING"
      BY <2>1, <2>4
    <2>5. CASE ~Latched /\ work[w].status \notin {"NONE", "PENDING"}
      BY <2>1, <2>5
    <2> QED BY <2>2, <2>3, <2>4, <2>5
  <1>6. w \in Works
    BY <1>2
  <1>7. CASE proc' = [proc EXCEPT ![p] = Down] /\ UNCHANGED work
    BY <1>1, <1>7, OneDown DEF store
  <1>8. CASE /\ ~Latched /\ work[w].status = "NONE"
             /\ work' = [work EXCEPT ![w] = Idle("PENDING")] /\ UNCHANGED proc
    <2>1. ProcInv'
      BY <1>3, <1>8, ProcSame DEF DInv
    <2> QED BY <1>1, <1>2, <1>6, <1>8, <2>1, OneOpens
  <1>9. CASE /\ ~Latched /\ work[w].status = "PENDING"
             /\ work' = [work EXCEPT ![w] = Idle("READY")]
             /\ Mode(p, "seed", proc[p].todo \ {w}, {})
    BY <1>1, <1>2, <1>4, <1>6, <1>9, OneOpens
  <1>10. CASE Mode(p, "seed", proc[p].todo \ {w}, {}) /\ UNCHANGED work
    BY <1>1, <1>4, <1>10, ProcOnly DEF store
  <1> QED BY <1>5, <1>7, <1>8, <1>9, <1>10

LEMMA FinalizeKeeps ==
  ASSUME DInv, NEW p \in Procs, Finalize(p)
  PROVE  DInv'
  <1>1. /\ proc[p].mode \in Pooled /\ proc' = [proc EXCEPT ![p] = Down]
        /\ run' \in {run, "FINAL"}
        /\ UNCHANGED <<control, work, lease, tries, attempt, retries, row, journal,
                       task, started, crashes>>
    BY DEF Finalize, Pooled
  <1>2. started
    BY <1>1 DEF DInv, ProcInv, ModeOK
  <1>3. StoreInv'
    <2>1. run' \in {"RUNNING", "FINAL"} /\ StoreInv
      BY <1>1 DEF DInv, StoreInv, StoreType
    <2> QED BY <1>1, <2>1, RunStore
  <1>4. TaskInv'
    BY <1>1, RowsSame, TaskSame DEF DInv
  <1>5. ProcInv'
    BY <1>1, KeptSame, ProcDown DEF DInv
  <1> QED BY <1>1, <1>2, <1>3, <1>4, <1>5, Assemble

LEMMA PoolStepsKeep ==
  ASSUME DInv, NEW p \in Procs, PoolSteps(p)
  PROVE  DInv'
  BY ClaimKeeps, PollKeeps, SeedKeeps, SeedOneKeeps, FinalizeKeeps DEF PoolSteps

LEMMA CommandsKeep ==
  ASSUME DInv, NEW p \in Procs, Commands(p)
  PROVE  DInv'
  <1>1. CASE Exit(p)
    BY <1>1, OneDown DEF Exit
  <1> QED BY <1>1, RecoverKeeps, RunKeeps, ResumeKeeps, CancelCommandsKeep DEF Commands

(* Time and crashes.                                                       *)
LEMMA EnvironmentKeeps ==
  ASSUME DInv,
         \/ \E p \in Procs : Crash(p)
         \/ \E w \in Works : LeaseExpires(w)
         \/ \E w \in Works : \E n \in Numbers : \E o \in Owners : DecisionExpires(w, n, o)
  PROVE  DInv'
  <1>1. ASSUME NEW p \in Procs, Crash(p) PROVE DInv'
    <2>1. /\ crashes < MaxCrashes /\ crashes' = crashes + 1
          /\ proc' = [proc EXCEPT ![p] = Down] /\ UNCHANGED <<store, started>>
          /\ task' = [w \in Works |-> [n \in Numbers |->
                        IF task[w][n].proc = p THEN NoTask ELSE task[w][n]]]
      BY <1>1 DEF Crash
    <2>2. UNCHANGED <<run, control, work, row, tries>>
      BY <2>1 DEF store
    <2>3. StoreInv'
      BY <2>1, StoreSame DEF DInv
    <2>4. TaskInv'
      BY <2>1, <2>2, TaskDrop DEF DInv
    <2>5. ProcInv'
      BY <2>1, <2>2, KeptSame, ProcDown DEF DInv
    <2>6. StartOK'
      <3>1. \A w \in Works : \A n \in Numbers : task[w][n].pc = "over" => task'[w][n].pc = "over"
        BY <2>1 DEF NoTask
      <3> QED BY <2>1, <2>2, <3>1 DEF DInv, StartOK
    <2>7. started' \in BOOLEAN
      <3>1. started \in BOOLEAN /\ started' = started
        BY <2>1, Zenon DEF DInv
      <3> QED BY <3>1, Zenon
    <2>8. crashes' \in 0..MaxCrashes
      BY <2>1, Bounds DEF DInv
    <2> QED BY <2>3, <2>4, <2>5, <2>6, <2>7, <2>8 DEF DInv
  <1>2. ASSUME NEW w \in Works, LeaseExpires(w) PROVE DInv'
    <2>1. UNCHANGED <<run, control, work, tries, row, task, proc, started, crashes>>
      BY <1>2 DEF LeaseExpires
    <2>2. StoreInv'
      BY <1>2, LeaseStore DEF DInv
    <2>3. TaskInv' /\ ProcInv'
      BY <2>1, RowsSame, TaskSame, KeptSame, ProcSame DEF DInv
    <2> QED BY <2>1, <2>2, <2>3, Assemble
  <1>3. ASSUME NEW w \in Works, NEW n \in Numbers, NEW o \in Owners, DecisionExpires(w, n, o)
        PROVE  DInv'
    <2>1. UNCHANGED <<run, control, work, tries, row, task, proc, started, crashes>>
      BY <1>3 DEF DecisionExpires
    <2>2. StoreInv'
      BY <1>3, ExpireStore DEF DInv
    <2>3. TaskInv' /\ ProcInv'
      BY <2>1, RowsSame, TaskSame, KeptSame, ProcSame DEF DInv
    <2> QED BY <2>1, <2>2, <2>3, Assemble
  <1> QED BY <1>1, <1>2, <1>3

LEMMA NextKeeps == DInv /\ [Next]_vars => DInv'
  <1> SUFFICES ASSUME DInv, [Next]_vars PROVE DInv'
    OBVIOUS
  <1>1. CASE UNCHANGED vars
    <2>1. UNCHANGED <<store, task, started, crashes, proc>>
      BY <1>1 DEF vars, store
    <2>2. Kept => ProcInv'
      BY <2>1, ProcSame DEF DInv
    <2> QED BY <2>1, <2>2, ProcOnly
  <1>2. CASE Next
    BY <1>2, CommandsKeep, RecoverySteps_Keep, CancelStepsKeep, PoolStepsKeep,
       EnvironmentKeeps, RegisterKeeps, TaskStepsKeep DEF Next
  <1> QED BY <1>1, <1>2

-----------------------------------------------------------------------------
(* The results.                                                            *)

(* DInv is an invariant of the runtime.                                    *)
LEMMA DispatchInvariant == Spec => []DInv
  BY InitOK, NextKeeps, PTL DEF Spec

(* The rows of work_states, work_attempts and the leases always agree: at  *)
(* most one attempt of a work runs, and it is the one its row names.       *)
THEOREM RowsAgreeHolds == Spec => []RowsAgree
  <1>1. DInv => RowsAgree
    <2> SUFFICES ASSUME DInv PROVE RowsAgree
      OBVIOUS
    <2>1. TypeOK
      BY TypeParts
    <2>2. \A w \in Works : WorkOK(w)
      BY DEF DInv, StoreInv, WorksOK
    <2> QED BY <2>1, <2>2 DEF RowsAgree, WorkOK
  <1> QED BY <1>1, DispatchInvariant, PTL

(* A request whose outcome is unknown is never sent again, whoever         *)
(* recovers, cancels or resumes the run in between.                        *)
THEOREM NoBlindRetryHolds == Spec => []NoBlindRetry
  <1>1. DInv => NoBlindRetry
    BY DEF DInv, StoreInv, RowsOK, RowOK, NoBlindRetry
  <1> QED BY <1>1, DispatchInvariant, PTL

(* Every attempt ends once, with the outcome of the one entry that was     *)
(* committed for it, although transaction B never reads the entry's state. *)
THEOREM OneOutcomeHolds == Spec => []OneOutcome
  <1>1. DInv => OneOutcome
    <2> SUFFICES ASSUME DInv, NEW w \in Works, NEW n \in Numbers
                 PROVE  LET done == {o \in Owners : journal[w][n][o].state = "COMMITTED"} IN
                        IF attempt[w][n] \in {"NONE", "RUNNING"} THEN done = {}
                        ELSE \E o \in done : /\ done = {o}
                                             /\ attempt[w][n] = Ended(journal[w][n][o].target)
      BY Zenon DEF OneOutcome
    <2>1. OutcomeOK(w, n)
      BY DEF DInv, StoreInv, JournalOK
    <2> DEFINE done == {o \in Owners : journal[w][n][o].state = "COMMITTED"}
    <2>2. CASE attempt[w][n] \in {"NONE", "RUNNING"}
      <3>1. done = {}
        BY <2>1, <2>2 DEF OutcomeOK, Committed
      <3> QED BY <2>2, <3>1
    <2>3. CASE attempt[w][n] \notin {"NONE", "RUNNING"}
      <3>1. PICK o \in Owners : /\ Committed(w, n, o)
                                /\ attempt[w][n] = Ended(journal[w][n][o].target)
                                /\ \A u \in Owners : Committed(w, n, u) => u = o
        BY <2>1, <2>3 DEF OutcomeOK
      <3>2. done = {o}
        BY <3>1 DEF Committed
      <3> QED BY <2>3, <3>1, <3>2
    <2> QED BY <2>2, <2>3
  <1> QED BY <1>1, DispatchInvariant, PTL

(* A run that was once marked quiescent stays closed.                      *)
THEOREM QuiescentClosedHolds == Spec => []QuiescentClosed
  <1>1. DInv => QuiescentClosed
    BY DEF DInv, StoreInv
  <1> QED BY <1>1, DispatchInvariant, PTL

-----------------------------------------------------------------------------
(* What a step can do to the works, whoever takes it.                      *)

Quiet ==
    /\ UNCHANGED <<run, work, tries, retries>> /\ (Latched' <=> Latched)
    /\ \A w \in Works : Uncertain(w)' <=> Uncertain(w)

Opened ==
    \E w \in Works : \E status \in {"PENDING", "READY"} :
        /\ ~Latched /\ work[w].status \in {"NONE", "PENDING"} /\ tries[w] = 0
        /\ work' = [work EXCEPT ![w] = Idle(status)]
        /\ UNCHANGED <<run, control, tries, retries, row>>

LatchedNow == Latched' /\ UNCHANGED <<run, work, tries, retries, row>>

Published ==
    \E w \in Works : \E n \in Numbers : \E o \in Owners :
        CanFinish(w, n, o) /\ Publish(w, n, o)

Shape ==
    \/ Quiet \/ Opened \/ LatchedNow \/ Published
    \/ \E p \in Procs : Resume(p) \/ (Finalize(p) /\ CanFinalize(proc[p].mode))
    \/ \E p \in Procs : \E w \in Works : Claim(p, w)
    \/ \E p \in Procs : Reconcile(p) /\ CanReconcile(proc[p].held)
    \/ \E w \in Works : \E n \in Numbers : MarkDispatched(w, n) \/ MarkReturned(w, n)

LEMMA QuietSame == UNCHANGED <<run, control, work, tries, retries, row>> => Quiet
  BY DEF Quiet, Latched, Uncertain, Unresolved

LEMMA FinishShape ==
  ASSUME NEW w \in Works, NEW n \in Numbers, NEW o \in Owners, FinishOrAbort(w, n, o)
  PROVE  Quiet \/ Published
  <1>1. CASE CanFinish(w, n, o)
    BY <1>1 DEF FinishOrAbort, Published
  <1>2. CASE ~CanFinish(w, n, o)
    BY <1>2, QuietSame DEF FinishOrAbort, Abort
  <1> QED BY <1>1, <1>2

(* Of a row of the work only the stage decides whether it is unknown.      *)
LEMMA StagesQuiet ==
  ASSUME UNCHANGED <<run, control, work, tries, retries>>,
         \A v \in Works : \A k \in Rows :
            row'[v][k].stage = "dispatched" <=> row[v][k].stage = "dispatched"
  PROVE  Quiet
  BY DEF Quiet, Latched, Uncertain, Unresolved

LEMMA OneRowQuiet ==
  ASSUME DInv, NEW w \in Works, NEW k \in Rows, NEW r, SetRow(w, k, r),
         UNCHANGED <<run, control, work, tries, retries>>,
         r.stage = "dispatched" <=> row[w][k].stage = "dispatched"
  PROVE  Quiet
  <1>1. \A v \in Works : \A j \in Rows :
           row'[v][j] = IF v = w /\ j = k THEN r ELSE row[v][j]
    BY DEF SetRow, DInv, StoreInv, StoreType
  <1> QED BY <1>1, StagesQuiet

LEMMA TaskShape ==
  ASSUME DInv, NEW w \in Works, NEW n \in Numbers, TaskSteps(w, n)
  PROVE  Shape
  <1> DEFINE k == task[w][n].row
  <1>1. CASE UNCHANGED store
    BY <1>1, QuietSame DEF store, Shape
  <1>2. CASE Reserve(w, n)
    <2>1. UNCHANGED <<run, control, work, tries, retries>> /\ NextRow(w) \in Rows
      BY <1>2 DEF Reserve
    <2>2. CASE UNCHANGED row
      BY <2>1, <2>2, QuietSame DEF Shape
    <2>3. CASE row' = [row EXCEPT ![w][NextRow(w)] =
                         [NoRow EXCEPT !.att = n, !.resv = "RESERVED"]]
      <3> PICK j \in Rows : j = NextRow(w)
        BY <2>1
      <3> DEFINE r == [NoRow EXCEPT !.att = n, !.resv = "RESERVED"]
      <3>1. SetRow(w, j, r) /\ r.stage = "none"
        BY <2>3 DEF SetRow, NoRow
      <3>2. row[w][j].resv = "NONE" /\ RowOK(w, j)
        BY <2>1, NextFree DEF DInv, StoreInv, RowsOK
      <3>3. row[w][j].stage = "none"
        BY <3>2 DEF RowOK
      <3> HIDE DEF r
      <3> QED BY <2>1, <3>1, <3>3, OneRowQuiet DEF Shape
    <2> QED BY <1>2, <2>2, <2>3 DEF Reserve
  <1>3. CASE Authorize(w, n)
    <2>1. UNCHANGED <<run, control, work, tries, retries>> /\ task[w][n].pc \in Calling
      BY <1>3 DEF Authorize, Calling
    <2>2. CASE UNCHANGED row
      BY <2>1, <2>2, QuietSame DEF Shape
    <2>3. CASE row' = [row EXCEPT ![w][k].resv = IF @ = "RESERVED" THEN "RELEASED" ELSE @]
      <3> DEFINE r == [row[w][k] EXCEPT !.resv = IF @ = "RESERVED" THEN "RELEASED" ELSE @]
      <3>1. k \in Rows /\ row \in [Works -> [Rows -> RowRec]] /\ row[w][k] \in RowRec
        BY <2>1, CallRow
      <3>2. SetRow(w, k, r) /\ r.stage = row[w][k].stage
        BY <2>3, <3>1 DEF SetRow, RowRec
      <3> HIDE DEF r
      <3> QED BY <2>1, <3>1, <3>2, OneRowQuiet DEF Shape
    <2> QED BY <1>3, <2>2, <2>3 DEF Authorize
  <1>4. CASE ClaimExternal(w, n)
    <2>1. /\ UNCHANGED <<run, control, work, tries, retries>>
          /\ task[w][n].pc \in Calling /\ task[w][n].pc = "authorized"
      BY <1>4 DEF ClaimExternal, Calling
    <2>2. CASE UNCHANGED row
      BY <2>1, <2>2, QuietSame DEF Shape
    <2>3. CASE row' = [row EXCEPT ![w][k].stage = "claimed"]
      <3> DEFINE r == [row[w][k] EXCEPT !.stage = "claimed"]
      <3>1. /\ k \in Rows /\ row \in [Works -> [Rows -> RowRec]] /\ row[w][k] \in RowRec
            /\ row[w][k].stage = "none"
        BY <2>1, CallRow DEF StagesAt
      <3>2. SetRow(w, k, r) /\ r.stage = "claimed"
        BY <2>3, <3>1 DEF SetRow, RowRec
      <3> HIDE DEF r
      <3> QED BY <2>1, <3>1, <3>2, OneRowQuiet DEF Shape
    <2> QED BY <1>4, <2>2, <2>3 DEF ClaimExternal
  <1>5. CASE Account(w, n)
    <2>1. UNCHANGED <<run, control, work, tries, retries>> /\ task[w][n].pc \in Calling
      BY <1>5 DEF Account, Calling
    <2>2. CASE UNCHANGED row
      BY <2>1, <2>2, QuietSame DEF Shape
    <2>3. CASE row' = [row EXCEPT ![w][k].resv = "COMMITTED"]
      <3> DEFINE r == [row[w][k] EXCEPT !.resv = "COMMITTED"]
      <3>1. k \in Rows /\ row \in [Works -> [Rows -> RowRec]] /\ row[w][k] \in RowRec
        BY <2>1, CallRow
      <3>2. SetRow(w, k, r) /\ r.stage = row[w][k].stage
        BY <2>3, <3>1 DEF SetRow, RowRec
      <3> HIDE DEF r
      <3> QED BY <2>1, <3>1, <3>2, OneRowQuiet DEF Shape
    <2> QED BY <1>5, <2>2, <2>3 DEF Account
  <1>6. CASE PrepareResult(w, n) \/ PrepareFailure(w, n)
    BY <1>6, QuietSame DEF PrepareResult, PrepareFailure, Shape
  <1>7. CASE FinishResult(w, n) \/ FinishFailure(w, n)
    <2>1. FinishOrAbort(w, n, "handler") \/ FinishOrAbort(w, n, "failure")
      BY <1>7 DEF FinishResult, FinishFailure
    <2>2. "handler" \in Owners /\ "failure" \in Owners
      BY DEF Owners
    <2> QED BY <2>1, <2>2, FinishShape DEF Shape
  <1>8. CASE MarkDispatched(w, n) \/ MarkReturned(w, n)
    BY <1>8 DEF Shape
  <1>9. ASSUME FirstPulse(w, n) \/ HandlerCancelled(w, n) \/ DispatchRefused(w, n)
                \/ OperationUnknown(w, n) \/ HandedOff(w, n) \/ HandlerFails(w, n)
        PROVE  UNCHANGED store
    BY <1>9 DEF FirstPulse, HandlerCancelled, DispatchRefused, OperationUnknown, HandedOff,
                HandlerFails
  <1> QED
    BY <1>1, <1>2, <1>3, <1>4, <1>5, <1>6, <1>7, <1>8, <1>9 DEF TaskSteps

LEMMA ProcessShape ==
  ASSUME DInv, NEW p \in Procs,
         Commands(p) \/ RecoverySteps(p) \/ CancelSteps(p) \/ PoolSteps(p) \/ Crash(p)
  PROVE  Shape
  <1>1. CASE UNCHANGED store
    BY <1>1, QuietSame DEF store, Shape
  <1>2. CASE Run(p)
    <2>1. First \in Works
      BY DispatchAssumption
    <2>2. ~Latched /\ work[First].status = "NONE"
      BY <1>2, <2>1 DEF Run, DInv, StartOK, Latched
    <2>3. tries[First] = 0
      BY <2>1, <2>2 DEF DInv, StoreInv, WorksOK, WorkOK
    <2>4. /\ work' = [work EXCEPT ![First] = Idle("READY")]
          /\ UNCHANGED <<run, control, tries, retries, row>>
      BY <1>2 DEF Run
    <2>5. Opened
      BY <2>1, <2>2, <2>3, <2>4 DEF Opened
    <2> QED BY <2>5 DEF Shape
  <1>3. CASE RequestCancel(p) \/ Interrupt(p)
    <2>1. UNCHANGED <<run, work, tries, retries, row>>
          /\ control' = IF Latched THEN control ELSE "latched"
      BY <1>3 DEF RequestCancel, Interrupt
    <2>2. LatchedNow
      BY <2>1 DEF LatchedNow, Latched
    <2> QED BY <2>2 DEF Shape
  <1>4. CASE Replay(p)
    <2>1. PICK x \in proc[p].todo : FinishOrAbort(x[1], x[2], x[3])
      BY <1>4 DEF Replay
    <2>2. proc[p].todo \subseteq Works \X Numbers \X Owners
      BY <1>4 DEF Replay, DInv, ProcInv, ModeOK
    <2>3. x[1] \in Works /\ x[2] \in Numbers /\ x[3] \in Owners
      BY <2>2
    <2> QED BY <2>1, <2>3, FinishShape DEF Shape
  <1>5. CASE PrepareBlock(p)
    BY <1>5, QuietSame DEF PrepareBlock, Shape
  <1>6. CASE FinishBlock(p)
    <2>1. PICK x \in proc[p].held : FinishOrAbort(x[1], x[2], p)
      BY <1>6 DEF FinishBlock
    <2>2. proc[p].held \subseteq Works \X Numbers /\ p \in Owners
      BY <1>6 DEF FinishBlock, DInv, ProcInv, ModeOK, Owners
    <2>3. x[1] \in Works /\ x[2] \in Numbers
      BY <2>2
    <2> QED BY <2>1, <2>2, <2>3, FinishShape DEF Shape
  <1>7. CASE Observe(p)
    <2>1. UNCHANGED <<run, control, work, tries, retries>>
      BY <1>7 DEF Observe
    <2>2. CASE UNCHANGED row
      BY <2>1, <2>2, QuietSame DEF Shape
    <2>3. CASE \E x \in TargetSet, seen \in {"CLOSED", "UNKNOWN"} :
                  row' = [row EXCEPT ![x[1]][x[2]].seen = seen]
      <3> PICK x \in TargetSet, seen \in {"CLOSED", "UNKNOWN"} :
                  row' = [row EXCEPT ![x[1]][x[2]].seen = seen]
        BY <2>3
      <3> PICK w \in Works, k \in Rows : w = x[1] /\ k = x[2]
        BY DEF TargetSet
      <3> DEFINE r == [row[w][k] EXCEPT !.seen = seen]
      <3>1. row \in [Works -> [Rows -> RowRec]] /\ row[w][k] \in RowRec
        BY DEF DInv, StoreInv, StoreType
      <3>2. SetRow(w, k, r) /\ r.stage = row[w][k].stage
        BY <3>1 DEF SetRow, RowRec
      <3> HIDE DEF r
      <3> QED BY <2>1, <3>2, OneRowQuiet DEF Shape
    <2> QED BY <1>7, <2>2, <2>3 DEF Observe
  <1>8. CASE Reconcile(p)
    <2>1. CASE CanReconcile(proc[p].held)
      BY <1>8, <2>1 DEF Shape
    <2>2. CASE ~CanReconcile(proc[p].held)
      BY <1>8, <2>2, QuietSame DEF Reconcile, Shape
    <2> QED BY <2>1, <2>2
  <1>9. CASE MarkQuiescent(p)
    <2>1. UNCHANGED <<run, work, tries, retries, row>> /\ control' \in {control, "quiescent"}
          /\ proc[p].mode = "settled"
      BY <1>9 DEF MarkQuiescent
    <2>2. Latched
      BY <2>1 DEF DInv, ProcInv, ModeOK, Latching
    <2>3. LatchedNow
      BY <2>1, <2>2 DEF LatchedNow, Latched
    <2> QED BY <2>3 DEF Shape
  <1>10. CASE SeedOne(p)
    <2>1. proc[p].todo \subseteq Works /\ UNCHANGED <<run, control, tries, retries, row>>
      BY <1>10 DEF SeedOne, DInv, ProcInv, ModeOK
    <2>2. CASE UNCHANGED work
      BY <2>1, <2>2, QuietSame DEF Shape
    <2>3. CASE ~UNCHANGED work
      <3>1. PICK w \in proc[p].todo : \E status \in {"PENDING", "READY"} :
              /\ ~Latched /\ work[w].status \in {"NONE", "PENDING"}
              /\ work' = [work EXCEPT ![w] = Idle(status)]
        BY <1>10, <2>3 DEF SeedOne
      <3>2. tries[w] = 0
        BY <2>1, <3>1 DEF DInv, StoreInv, WorksOK, WorkOK
      <3> QED BY <2>1, <3>1, <3>2 DEF Opened, Shape
    <2> QED BY <2>2, <2>3
  <1>11. CASE Finalize(p)
    <2>1. CASE CanFinalize(proc[p].mode)
      BY <1>11, <2>1 DEF Shape
    <2>2. CASE ~CanFinalize(proc[p].mode)
      BY <1>11, <2>2, QuietSame DEF Finalize, Shape
    <2> QED BY <2>1, <2>2
  <1>12. CASE Resume(p) \/ \E w \in Works : Claim(p, w)
    BY <1>12 DEF Shape
  <1>13. ASSUME Recover(p) \/ Exit(p) \/ ReadExpired(p) \/ SkipLatched(p) \/ Recovered(p)
                \/ ReadTargets(p) \/ Poll(p) \/ IdleOutcome(p) \/ Seed(p) \/ Seeded(p) \/ Crash(p)
         PROVE  UNCHANGED store
    BY <1>13 DEF Recover, Exit, ReadExpired, SkipLatched, Recovered, ReadTargets, Poll,
                 IdleOutcome, Seed, Seeded, Crash
  <1> QED
    BY <1>1, <1>2, <1>3, <1>4, <1>5, <1>6, <1>7, <1>8, <1>9, <1>10, <1>11, <1>12, <1>13
    DEF Commands, RecoverySteps, CancelSteps, PoolSteps

LEMMA NextShape == DInv /\ [Next]_vars => Shape
  <1> SUFFICES ASSUME DInv, [Next]_vars PROVE Shape
    OBVIOUS
  <1>1. CASE UNCHANGED vars
    BY <1>1, QuietSame DEF vars, Shape
  <1>2. CASE \E w \in Works : Register(w) \/ MakeReady(w)
    <2>1. PICK w \in Works : Register(w) \/ MakeReady(w)
      BY <1>2
    <2>2. /\ ~Latched /\ work[w].status \in {"NONE", "PENDING"}
          /\ work' = [work EXCEPT ![w] = Idle("PENDING")] \/ work' = [work EXCEPT ![w] = Idle("READY")]
          /\ UNCHANGED <<run, control, tries, retries, row>>
      BY <2>1 DEF Register, MakeReady
    <2>3. tries[w] = 0
      BY <2>2 DEF DInv, StoreInv, WorksOK, WorkOK
    <2> QED BY <2>2, <2>3 DEF Opened, Shape
  <1>3. CASE \E w \in Works : LeaseExpires(w)
    BY <1>3, QuietSame DEF LeaseExpires, Shape
  <1>4. CASE \E w \in Works : \E n \in Numbers : \E o \in Owners : DecisionExpires(w, n, o)
    BY <1>4, QuietSame DEF DecisionExpires, Shape
  <1> QED
    BY <1>1, <1>2, <1>3, <1>4, TaskShape, ProcessShape DEF Next

-----------------------------------------------------------------------------
(* Funded retries.                                                         *)

LEMMA Fewer ==
  ASSUME NEW S \in SUBSET Works, NEW R \in SUBSET S
  PROVE  /\ IsFiniteSet(S) /\ Cardinality(S) \in Nat /\ Cardinality(R) \in Nat
         /\ Cardinality(R) <= Cardinality(S)
  <1>1. IsFiniteSet(Works)
    BY DispatchAssumption
  <1>2. IsFiniteSet(S)
    BY <1>1, FS_Subset
  <1>3. IsFiniteSet(R) /\ Cardinality(R) <= Cardinality(S)
    BY <1>2, FS_Subset
  <1> QED BY <1>2, <1>3, FS_CardinalityType

LEMMA FundedShrinks ==
  ASSUME DInv, ResumeFunded, UNCHANGED <<tries, retries>>,
         \A w \in Works : work'[w].status = "READY" => work[w].status = "READY" \/ tries[w] = 0
  PROVE  ResumeFunded'
  <1>1. Retrying \in SUBSET Works /\ Retrying' \in SUBSET Retrying
    BY DEF Retrying, DInv, StoreInv, StoreType
  <1>2. /\ Cardinality(Retrying) \in Nat /\ Cardinality(Retrying') \in Nat
        /\ Cardinality(Retrying') <= Cardinality(Retrying)
    BY <1>1, Fewer
  <1>3. retries \in Nat /\ MaxRetries \in Nat
    BY Bounds DEF DInv, StoreInv, StoreType
  <1>4. retries + Cardinality(Retrying) <= MaxRetries
    BY DEF ResumeFunded
  <1>5. retries' + Cardinality(Retrying') <= MaxRetries
    BY <1>2, <1>3, <1>4
  <1>6. \A w \in Retrying' : tries[w] < AttemptCeiling(w)
    BY <1>1 DEF ResumeFunded
  <1>7. \A w \in Retrying' : tries'[w] < AttemptCeiling(w)'
    BY <1>6 DEF AttemptCeiling
  <1> QED BY <1>5, <1>7 DEF ResumeFunded

LEMMA FundedClaim ==
  ASSUME DInv, ResumeFunded, NEW p \in Procs, NEW w \in Works, Claim(p, w)
  PROVE  ResumeFunded'
  <1>1. /\ work[w].status = "READY" /\ retries' = retries + RetryUnits(w)
        /\ retries + RetryUnits(w) <= MaxRetries
    BY DEF Claim, Claimable
  <1>2. tries' = [tries EXCEPT ![w] = tries[w] + 1] /\ tries[w] \in Nat
    BY ClaimStore DEF DInv
  <1>3. \A v \in Works : v # w => work'[v] = work[v] /\ tries'[v] = tries[v]
    BY <1>2 DEF Claim, DInv, StoreInv, StoreType
  <1>4. work'[w].status = "RUNNING"
    BY DEF Claim, DInv, StoreInv, StoreType, WorkRec
  <1>5. Retrying' = Retrying \ {w}
    BY <1>3, <1>4 DEF Retrying
  <1>6. Retrying \in SUBSET Works
    BY DEF Retrying
  <1>7. IsFiniteSet(Retrying) /\ Cardinality(Retrying) \in Nat
    BY <1>6, Fewer
  <1>8. retries \in Nat /\ MaxRetries \in Nat /\ retries + Cardinality(Retrying) <= MaxRetries
    BY Bounds DEF DInv, StoreInv, StoreType, ResumeFunded
  <1>9. retries' + Cardinality(Retrying') <= MaxRetries
    <2>1. CASE tries[w] = 0
      <3>1. Retrying' = Retrying
        BY <2>1, <1>5 DEF Retrying
      <3>2. retries' = retries
        BY <2>1, <1>1, <1>8 DEF RetryUnits
      <3> QED BY <3>1, <3>2, <1>8
    <2>2. CASE tries[w] # 0
      <3>1. w \in Retrying
        BY <2>2, <1>1, <1>2 DEF Retrying
      <3>2. Cardinality(Retrying \ {w}) = Cardinality(Retrying) - 1
        BY <3>1, <1>7, FS_RemoveElement
      <3>3. retries' = retries + 1
        BY <2>2, <1>1 DEF RetryUnits
      <3> QED BY <3>2, <3>3, <1>5, <1>7, <1>8
    <2> QED BY <2>1, <2>2
  <1>10. ASSUME NEW v \in Retrying' PROVE tries'[v] < AttemptCeiling(v)'
    <2>1. v \in Retrying /\ v # w /\ v \in Works
      BY <1>5, <1>6
    <2>2. tries'[v] = tries[v] /\ tries[v] < AttemptCeiling(v)
      BY <2>1, <1>3 DEF ResumeFunded
    <2> QED BY <2>2 DEF AttemptCeiling
  <1> QED BY <1>9, <1>10 DEF ResumeFunded

LEMMA FundedResume ==
  ASSUME DInv, ResumeFunded, NEW p \in Procs, Resume(p)
  PROVE  ResumeFunded'
  <1>1. /\ CanResume /\ UNCHANGED <<tries, retries>>
        /\ work' = [w \in Works |-> IF w \in Cohort THEN Idle("READY") ELSE work[w]]
    BY DEF Resume
  <1>2. Cohort \in SUBSET Works
    BY DispatchAssumption DEF Cohort, FailedDynamic, Blocked
  <1>3. \A w \in Works : w \notin Cohort => work'[w].status # "READY"
    BY <1>1 DEF CanResume
  <1>4. Retrying' \in SUBSET Cohort
    BY <1>3 DEF Retrying
  <1>5. /\ Cardinality(Cohort) \in Nat /\ Cardinality(Retrying') \in Nat
        /\ Cardinality(Retrying') <= Cardinality(Cohort)
    BY <1>2, <1>4, Fewer
  <1>6. retries \in Nat /\ MaxRetries \in Nat /\ retries <= MaxRetries
    BY Bounds DEF DInv, StoreInv, StoreType
  <1>7. CASE Cohort = {}
    <2>1. Retrying' = {}
      BY <1>4, <1>7
    <2>2. Cardinality(Retrying') = 0
      BY <2>1, FS_EmptySet
    <2> QED BY <2>1, <2>2, <1>1, <1>6 DEF ResumeFunded
  <1>8. CASE Cohort # {}
    <2>1. retries + Cardinality(Cohort) <= MaxRetries
      BY <1>1, <1>8 DEF CanResume, Resumable
    <2>2. retries' + Cardinality(Retrying') <= MaxRetries
      BY <2>1, <1>1, <1>5, <1>6
    <2>3. ASSUME NEW w \in Retrying' PROVE tries'[w] < AttemptCeiling(w)'
      <3>1. tries[w] \in 1..(AttemptCeiling(w) - 1)
        BY <1>1, <1>4, <1>8 DEF CanResume, Resumable
      <3>2. AttemptCeiling(w) \in Nat
        BY Bounds DEF AttemptCeiling
      <3>3. tries[w] < AttemptCeiling(w)
        BY <3>1, <3>2
      <3> QED BY <3>3, <1>1 DEF AttemptCeiling
    <2> QED BY <2>2, <2>3 DEF ResumeFunded
  <1> QED BY <1>7, <1>8

LEMMA FundedKeeps ==
  ASSUME DInv, ResumeFunded, Shape
  PROVE  ResumeFunded'
  <1>0. work \in [Works -> WorkRec]
    BY DEF DInv, StoreInv, StoreType
  <1>1. CASE Quiet \/ LatchedNow
    BY <1>1, FundedShrinks DEF Quiet, LatchedNow
  <1>2. CASE Opened
    <2>1. PICK w \in Works : tries[w] = 0 /\ \E status \in {"PENDING", "READY"} :
                                 work' = [work EXCEPT ![w] = Idle(status)]
      BY <1>2 DEF Opened
    <2>2. \A v \in Works : v # w => work'[v] = work[v]
      BY <1>0, <2>1
    <2> QED BY <1>2, <2>1, <2>2, FundedShrinks DEF Opened
  <1>3. CASE Published
    <2>1. PICK w \in Works, n \in Numbers, o \in Owners : CanFinish(w, n, o) /\ Publish(w, n, o)
      BY <1>3 DEF Published
    <2>2. journal[w][n][o].target \in Targets
      BY <2>1, FreshPrepared DEF DInv
    <2>3. /\ UNCHANGED <<tries, retries>> /\ work'[w].status = journal[w][n][o].target
          /\ \A v \in Works : v # w => work'[v] = work[v]
      BY <1>0, <2>1 DEF Publish
    <2> QED BY <2>2, <2>3, FundedShrinks DEF Targets
  <1>4. CASE \E p \in Procs : Finalize(p)
    BY <1>4, FundedShrinks DEF Finalize
  <1>5. CASE \E p \in Procs : Reconcile(p) /\ CanReconcile(proc[p].held)
    <2>1. PICK p \in Procs : Reconcile(p) /\ CanReconcile(proc[p].held)
      BY <1>5
    <2>2. UNCHANGED <<tries, retries>>
      BY <2>1 DEF Reconcile
    <2>3. \A w \in Works : \/ work'[w] = work[w]
                           \/ work'[w] = [Idle("CANCELLED") EXCEPT !.stop = "CANCELLATION_REQUESTED"]
      BY <2>1 DEF Reconcile
    <2>4. [Idle("CANCELLED") EXCEPT !.stop = "CANCELLATION_REQUESTED"].status = "CANCELLED"
      BY DEF Idle
    <2> QED BY <2>2, <2>3, <2>4, FundedShrinks
  <1>6. CASE \E w \in Works : \E n \in Numbers : MarkDispatched(w, n) \/ MarkReturned(w, n)
    BY <1>6, FundedShrinks DEF MarkDispatched, MarkReturned
  <1> QED
    BY <1>1, <1>2, <1>3, <1>4, <1>5, <1>6, FundedClaim, FundedResume DEF Shape

(* What resume_blocked promised when it counted the cohort still holds when*)
(* the pool claims it, whatever else was claimed in between.               *)
THEOREM ResumeFundedHolds == Spec => []ResumeFunded
  <1>1. Init => ResumeFunded
    <2> SUFFICES ASSUME Init PROVE ResumeFunded
      OBVIOUS
    <2>1. Retrying = {} /\ retries = 0
      BY DEF Init, Retrying
    <2>2. Cardinality(Retrying) = 0
      BY <2>1, FS_EmptySet
    <2> QED BY <2>1, <2>2, Bounds DEF ResumeFunded
  <1>2. DInv /\ ResumeFunded /\ [Next]_vars => ResumeFunded'
    BY NextShape, FundedKeeps
  <1> QED BY <1>1, <1>2, DispatchInvariant, PTL DEF Spec

-----------------------------------------------------------------------------
(* The runtime implements WorkLifecycle.                                   *)

LEMMA PhaseValues ==
  /\ PhaseOf("NONE") = "new" /\ PhaseOf("PENDING") = "open" /\ PhaseOf("READY") = "open"
  /\ PhaseOf("RUNNING") = "busy" /\ PhaseOf("BLOCKED") = "waiting"
  /\ PhaseOf("SUCCEEDED") = "done" /\ PhaseOf("FAILED") = "failed"
  /\ PhaseOf("CANCELLED") = "cancelled"
  BY DEF PhaseOf

LEMMA PhaseTells ==
  ASSUME NEW s \in Statuses
  PROVE  /\ PhaseOf(s) = "new" <=> s = "NONE"
         /\ PhaseOf(s) = "open" <=> s \in {"PENDING", "READY"}
         /\ PhaseOf(s) = "busy" <=> s = "RUNNING"
         /\ PhaseOf(s) \in {"done", "failed", "cancelled"} <=> s \in Terminal
  BY PhaseValues DEF Statuses, Terminal

LEMMA PhaseMoves ==
  ASSUME NEW S \in SUBSET Works, NEW to,
         \A w \in S : PhaseOf(work'[w].status) = to,
         \A w \in Works \ S : work'[w].status = work[w].status
  PROVE  Lifecycle!Move(S, to)
  <1>1. \A w \in Works : Phases[w] = PhaseOf(work[w].status)
    BY DEF Phases
  <1>2. Phases' = [w \in Works |-> IF w \in S THEN to ELSE Phases[w]]
    BY <1>1 DEF Phases
  <1> QED BY <1>2 DEF Lifecycle!Move

LEMMA PhaseSame ==
  ASSUME \A w \in Works : PhaseOf(work'[w].status) = PhaseOf(work[w].status)
  PROVE  Phases' = Phases
  BY DEF Phases

LEMMA UnsettledSame ==
  ASSUME \A w \in Works : Uncertain(w)' <=> Uncertain(w)
  PROVE  Unsettled' = Unsettled
  BY DEF Unsettled, Uncertain

LEMMA RowsSettled ==
  ASSUME row' = row
  PROVE  Unsettled' = Unsettled
  BY DEF Unsettled, Uncertain, Unresolved

LEMMA LatchSame == control' = control => Latched' = Latched
  BY DEF Latched
LEMMA FinalSame == run' = run => Final' = Final
  BY DEF Final

LEMMA QuietView == Quiet => UNCHANGED Lifecycle!lifecycle
  <1> SUFFICES ASSUME Quiet PROVE UNCHANGED Lifecycle!lifecycle
    OBVIOUS
  <1>1. Phases' = Phases
    BY PhaseSame DEF Quiet
  <1>2. Unsettled' = Unsettled
    BY UnsettledSame DEF Quiet
  <1>3. Latched' = Latched
    BY DEF Quiet, Latched
  <1>4. Final' = Final
    BY FinalSame DEF Quiet
  <1> QED BY <1>1, <1>2, <1>3, <1>4 DEF Lifecycle!lifecycle

LEMMA ViewTyped ==
  ASSUME DInv, NEW w \in Works
  PROVE  /\ work[w] \in WorkRec /\ work[w].status \in Statuses
         /\ Phases[w] = PhaseOf(work[w].status) /\ Unsettled[w] = Uncertain(w)
  BY DEF DInv, StoreInv, StoreType, WorkRec, Phases, Unsettled

LEMMA OpenedView ==
  ASSUME DInv, Opened
  PROVE  Lifecycle!Next \/ UNCHANGED Lifecycle!lifecycle
  <1>1. PICK w \in Works, status \in {"PENDING", "READY"} :
           /\ ~Latched /\ work[w].status \in {"NONE", "PENDING"}
           /\ work' = [work EXCEPT ![w] = Idle(status)]
           /\ UNCHANGED <<run, control, row>>
    BY DEF Opened
  <1>2. Unsettled' = Unsettled /\ Latched' = Latched /\ Final' = Final
    BY <1>1, RowsSettled, LatchSame, FinalSame
  <1>3. /\ PhaseOf(work'[w].status) = "open"
        /\ \A v \in Works : v # w => work'[v].status = work[v].status
    BY <1>1, PhaseValues DEF Idle, DInv, StoreInv, StoreType
  <1>4. CASE work[w].status = "NONE"
    <2>1. Phases[w] = "new"
      BY <1>4, PhaseValues, ViewTyped
    <2> DEFINE S == {w}
    <2>2. S \in SUBSET Works /\ \A v \in S : PhaseOf(work'[v].status) = "open"
      BY <1>3
    <2>3. \A v \in Works \ S : work'[v].status = work[v].status
      BY <1>3
    <2>4. Lifecycle!Move(S, "open")
      BY <2>2, <2>3, PhaseMoves
    <2>5. Lifecycle!Open(w)
      BY <1>1, <1>2, <2>1, <2>4 DEF Lifecycle!Open
    <2> QED BY <2>5 DEF Lifecycle!Next
  <1>5. CASE work[w].status = "PENDING"
    <2>1. \A v \in Works : PhaseOf(work'[v].status) = PhaseOf(work[v].status)
      BY <1>3, <1>5, PhaseValues
    <2>2. Phases' = Phases
      BY <2>1, PhaseSame
    <2> QED BY <1>2, <2>2 DEF Lifecycle!lifecycle
  <1> QED BY <1>1, <1>4, <1>5

LEMMA ClaimView ==
  ASSUME DInv, NEW p \in Procs, NEW w \in Works, Claim(p, w)
  PROVE  Lifecycle!Next
  <1>1. /\ ~Latched /\ run = "RUNNING" /\ work[w].status = "READY" /\ ~Uncertain(w)
        /\ Cardinality(Running) < MaxParallel /\ UNCHANGED <<run, control, row>>
    BY DEF Claim, Claimable
  <1>2. Unsettled' = Unsettled /\ Latched' = Latched /\ Final' = Final /\ ~Final
    BY <1>1, RowsSettled, LatchSame, FinalSame DEF Final
  <1>3. Lifecycle!Busy = Running
    BY ViewTyped, PhaseTells DEF Lifecycle!Busy, Running
  <1>4. Phases[w] = "open" /\ ~Unsettled[w]
    BY <1>1, PhaseValues, ViewTyped
  <1> DEFINE S == {w}
  <1>5. /\ work'[w].status = "RUNNING"
        /\ \A v \in Works : v # w => work'[v].status = work[v].status
    BY DEF Claim, DInv, StoreInv, StoreType, WorkRec
  <1>6. /\ S \in SUBSET Works /\ \A v \in S : PhaseOf(work'[v].status) = "busy"
        /\ \A v \in Works \ S : work'[v].status = work[v].status
    BY <1>5, PhaseValues
  <1>7. Lifecycle!Move(S, "busy")
    BY <1>6, PhaseMoves
  <1>8. Lifecycle!Begin(w)
    <2>1. Cardinality(Lifecycle!Busy) < MaxParallel
      BY <1>1, <1>3
    <2>2. UNCHANGED <<Unsettled, Latched, Final>>
      BY <1>2
    <2>3. \A T : Lifecycle!Cardinality(T) = Cardinality(T)
      BY DEF Cardinality, Lifecycle!Cardinality
    <2>4. Lifecycle!Cardinality(Lifecycle!Busy) < MaxParallel
      BY <2>1, <2>3
    <2> QED BY <1>1, <1>2, <1>4, <1>7, <2>2, <2>4 DEF Lifecycle!Begin
  <1> QED BY <1>8 DEF Lifecycle!Next

LEMMA DispatchView ==
  ASSUME DInv, NEW w \in Works, NEW n \in Numbers, MarkDispatched(w, n)
  PROVE  Lifecycle!Next
  <1> DEFINE k == task[w][n].row
  <1>1. /\ task[w][n].pc \in Calling /\ Current(w, n) /\ ~Uncertain(w)
        /\ row' = [row EXCEPT ![w][k].stage = "dispatched"]
        /\ UNCHANGED <<run, control, work>>
    BY DEF MarkDispatched, Calling, CanDispatch
  <1>2. k \in Rows /\ row \in [Works -> [Rows -> RowRec]] /\ row[w][k] \in RowRec
    BY <1>1, CallRow
  <1>3. /\ row'[w][k].stage = "dispatched"
        /\ \A v \in Works : v # w => row'[v] = row[v]
    BY <1>1, <1>2 DEF RowRec
  <1>4. Uncertain(w)' /\ \A v \in Works : v # w => (Uncertain(v)' <=> Uncertain(v))
    BY <1>2, <1>3 DEF Uncertain, Unresolved
  <1>5. Unsettled' = [Unsettled EXCEPT ![w] = TRUE]
    BY <1>4 DEF Unsettled, Uncertain
  <1>6. Phases' = Phases /\ Latched' = Latched /\ Final' = Final
    BY <1>1, PhaseSame, LatchSame, FinalSame
  <1>7. Phases[w] = "busy" /\ ~Unsettled[w]
    BY <1>1, PhaseValues, ViewTyped DEF Current
  <1>8. Lifecycle!Send(w)
    BY <1>5, <1>6, <1>7 DEF Lifecycle!Send
  <1> QED BY <1>8 DEF Lifecycle!Next

LEMMA ReturnView ==
  ASSUME DInv, NEW w \in Works, NEW n \in Numbers, MarkReturned(w, n)
  PROVE  Lifecycle!Next \/ UNCHANGED Lifecycle!lifecycle
  <1> DEFINE k == task[w][n].row
  <1>1. /\ task[w][n].pc = "await" /\ task[w][n].pc \in Calling
        /\ row' = [row EXCEPT ![w][k].stage = "returned"]
        /\ UNCHANGED <<run, control, work>>
    BY DEF MarkReturned, Calling
  <1>2. /\ k \in Rows /\ row \in [Works -> [Rows -> RowRec]] /\ row[w][k] \in RowRec
        /\ row[w][k].stage \in {"dispatched", "reconciled"}
    BY <1>1, CallRow DEF StagesAt
  <1>3. /\ row'[w][k].stage = "returned"
        /\ \A v \in Works : \A j \in Rows : ~(v = w /\ j = k) => row'[v][j] = row[v][j]
    BY <1>1, <1>2 DEF RowRec
  <1>4. Phases' = Phases /\ Latched' = Latched /\ Final' = Final
    BY <1>1, PhaseSame, LatchSame, FinalSame
  <1>5. CASE row[w][k].stage = "reconciled"
    <2>1. \A v \in Works : Uncertain(v)' <=> Uncertain(v)
      BY <1>2, <1>3, <1>5 DEF Uncertain, Unresolved
    <2> QED BY <2>1, <1>4, UnsettledSame DEF Lifecycle!lifecycle
  <1>6. CASE row[w][k].stage = "dispatched"
    <2>1. \A j \in Rows : row[w][j].stage = "dispatched" => j = k
      BY <1>2, <1>6 DEF DInv, StoreInv, RowsOK, RowOK
    <2>2. /\ Uncertain(w) /\ ~Uncertain(w)'
          /\ \A v \in Works : v # w => (Uncertain(v)' <=> Uncertain(v))
      BY <2>1, <1>2, <1>3, <1>6 DEF Uncertain, Unresolved
    <2>3. Unsettled' = [Unsettled EXCEPT ![w] = FALSE]
      BY <2>2 DEF Unsettled, Uncertain
    <2>4. Unsettled[w]
      BY <2>2, ViewTyped
    <2>5. Lifecycle!Learn(w)
      BY <2>3, <2>4, <1>4 DEF Lifecycle!Learn
    <2> QED BY <2>5 DEF Lifecycle!Next
  <1> QED BY <1>2, <1>5, <1>6

LEMMA PublishView ==
  ASSUME DInv, Published
  PROVE  Lifecycle!Next
  <1>1. PICK w \in Works, n \in Numbers, o \in Owners : CanFinish(w, n, o) /\ Publish(w, n, o)
    BY DEF Published
  <1>2. Current(w, n) /\ ~Latched /\ journal[w][n][o].target \in Targets
    BY <1>1, FreshPrepared DEF DInv, Latched
  <1>3. UNCHANGED <<run, control>>
    BY <1>1 DEF Publish
  <1>4. \A v \in Works : \A k \in Rows :
               \/ row'[v][k].stage = row[v][k].stage
               \/ row[v][k].stage = "claimed" /\ row'[v][k].stage = "retired"
    BY <1>1, PublishStore DEF DInv
  <1>5. Unsettled' = Unsettled
    <2>1. \A v \in Works : Uncertain(v)' <=> Uncertain(v)
      BY <1>4 DEF Uncertain, Unresolved
    <2> QED BY <2>1, UnsettledSame
  <1>6. Latched' = Latched /\ Final' = Final /\ Phases[w] = "busy"
    BY <1>2, <1>3, LatchSame, FinalSame, PhaseValues, ViewTyped DEF Current
  <1>7. /\ work'[w].status = journal[w][n][o].target
        /\ \A v \in Works : v # w => work'[v] = work[v]
    BY <1>1 DEF Publish, DInv, StoreInv, StoreType
  <1>8. PICK to \in {"waiting", "done", "failed"} : PhaseOf(work'[w].status) = to
    BY <1>2, <1>7, PhaseValues DEF Targets
  <1> DEFINE S == {w}
  <1>9. /\ S \in SUBSET Works /\ \A v \in S : PhaseOf(work'[v].status) = to
        /\ \A v \in Works \ S : work'[v].status = work[v].status
    BY <1>7, <1>8
  <1>10. Lifecycle!Move(S, to)
    BY <1>9, PhaseMoves
  <1>11. Lifecycle!Leave(w, to)
    BY <1>2, <1>5, <1>6, <1>10 DEF Lifecycle!Leave
  <1> QED BY <1>11 DEF Lifecycle!Next

LEMMA ResumeView ==
  ASSUME DInv, NEW p \in Procs, Resume(p)
  PROVE  Lifecycle!Next \/ UNCHANGED Lifecycle!lifecycle
  <1>1. /\ CanResume /\ UNCHANGED <<run, control, row>>
        /\ work' = [w \in Works |-> IF w \in Cohort THEN Idle("READY") ELSE work[w]]
    BY DEF Resume
  <1>2. /\ Unsettled' = Unsettled /\ Latched' = Latched /\ Final' = Final
        /\ ~Latched /\ ~Final
    BY <1>1, RowsSettled, LatchSame, FinalSame DEF CanResume, Final
  <1>3. Cohort \in SUBSET Works
    BY DispatchAssumption DEF Cohort, FailedDynamic, Blocked
  <1>4. /\ \A w \in Cohort : work'[w].status = "READY"
        /\ \A w \in Works \ Cohort : work'[w].status = work[w].status
    BY <1>1, <1>3 DEF Idle
  <1>5. CASE Cohort = {}
    <2>1. Phases' = Phases
      BY <1>4, <1>5, PhaseSame
    <2> QED BY <1>2, <2>1 DEF Lifecycle!lifecycle
  <1>6. CASE Cohort # {}
    <2>1. \A w \in Works : Phases[w] \notin {"open", "busy"}
      BY <1>1, ViewTyped, PhaseTells DEF CanResume
    <2>2. \A w \in Works : ~Unsettled[w]
      <3>1. \A w \in Works : ~Uncertain(w)
        BY <1>1, <1>6 DEF CanResume, Resumable, Uncertain, Unresolved
      <3> QED BY <3>1, ViewTyped
    <2>3. \A w \in Cohort : work[w].status = "BLOCKED"
                            \/ (work[w].status = "FAILED" /\ Local /\ w \in Dynamic)
      <3>1. CASE FailedDynamic # {}
        BY <3>1 DEF Cohort, FailedDynamic
      <3>2. CASE FailedDynamic = {}
        BY <3>2 DEF Cohort, Blocked
      <3> QED BY <3>1, <3>2
    <2>4. ASSUME NEW w \in Cohort
          PROVE  \/ Phases[w] = "waiting"
                 \/ Phases[w] = "failed" /\ w \in (IF Local THEN Dynamic ELSE {})
      BY <1>3, <2>3, ViewTyped, PhaseValues
    <2>5. Lifecycle!Move(Cohort, "open")
      <3> PICK S \in SUBSET Works : S = Cohort
        BY <1>3
      <3>1. /\ \A w \in S : PhaseOf(work'[w].status) = "open"
            /\ \A w \in Works \ S : work'[w].status = work[w].status
        BY <1>4, PhaseValues
      <3>2. Lifecycle!Move(S, "open")
        BY <3>1, PhaseMoves
      <3> QED BY <3>2
    <2>6. Lifecycle!Reopen(Cohort)
      BY <1>2, <2>1, <2>2, <2>4, <2>5 DEF Lifecycle!Reopen
    <2> QED BY <1>3, <2>6 DEF Lifecycle!Next
  <1> QED BY <1>5, <1>6

LEMMA FinalizeView ==
  ASSUME DInv, NEW p \in Procs, Finalize(p), CanFinalize(proc[p].mode)
  PROVE  Lifecycle!Next
  <1>1. run' = "FINAL" /\ UNCHANGED <<control, work, row>>
    BY DEF Finalize
  <1>2. Phases' = Phases /\ Unsettled' = Unsettled /\ Latched' = Latched /\ Final' = TRUE
    BY <1>1, PhaseSame, RowsSettled, LatchSame DEF Final
  <1>3. ASSUME NEW w \in Works
        PROVE  Phases[w] \in {"done", "failed", "cancelled"} \cup {"new"} /\ ~Unsettled[w]
    <2>1. work[w].status \in Terminal \cup {"NONE"} /\ ~Uncertain(w)
      BY DEF CanFinalize, AllTerminal, Known
    <2> QED BY <2>1, ViewTyped, PhaseTells
  <1>4. Lifecycle!Seal
    BY <1>2, <1>3 DEF Lifecycle!Seal, Lifecycle!Ended
  <1> QED BY <1>4 DEF Lifecycle!Next

LEMMA LatchView ==
  ASSUME LatchedNow
  PROVE  Lifecycle!Next
  <1>1. Phases' = Phases /\ Unsettled' = Unsettled /\ Final' = Final
    BY PhaseSame, RowsSettled, FinalSame DEF LatchedNow
  <1>2. Latched' = TRUE
    BY DEF LatchedNow, Latched
  <1>3. Lifecycle!Stop
    BY <1>1, <1>2 DEF Lifecycle!Stop
  <1> QED BY <1>3 DEF Lifecycle!Next

(* A cancellation closes exactly the works nothing unknown is left of: of  *)
(* every target something was seen, and a work is closed if all was CLOSED.*)
LEMMA ReconcileView ==
  ASSUME DInv, NEW p \in Procs, Reconcile(p), CanReconcile(proc[p].held)
  PROVE  Lifecycle!Next
  <1> DEFINE S == Closing(proc[p].held)
  <1>1. /\ proc[p].mode = "observe" /\ proc[p].todo = {} /\ UNCHANGED <<run, control>>
        /\ work' = [w \in Works |->
                  IF w \in S
                  THEN [Idle("CANCELLED") EXCEPT !.stop = "CANCELLATION_REQUESTED"]
                  ELSE work[w]]
        /\ row' = [w \in Works |-> [k \in Rows |->
                  IF <<w, k>> \in proc[p].held /\ row[w][k].seen = "CLOSED"
                  THEN [row[w][k] EXCEPT !.stage = "reconciled"] ELSE row[w][k]]]
    BY DEF Reconcile, Closing
  <1>2. Latched /\ \A x \in proc[p].held : Seen(x) # "none"
    BY <1>1 DEF DInv, ProcInv, ModeOK, SightOK, Latching
  <1>3. proc[p].held = TargetSet /\ TargetsInScope
    BY DEF CanReconcile
  <1>4. S \in SUBSET Works
    BY DEF Closing, Known
  <1>5. \A w \in S : work'[w].status = "CANCELLED"
    BY <1>1, <1>4 DEF Idle
  <1>6. \A w \in Works \ S : work'[w].status = work[w].status
    BY <1>1
  <1>7. ASSUME NEW w \in Works, NEW k \in Rows
        PROVE  Unresolved(w, k)' <=> (Unresolved(w, k) /\ row[w][k].seen = "UNKNOWN")
    <2>1. row[w][k] \in RowRec
      BY DEF DInv, StoreInv, StoreType
    <2>2. CASE Unresolved(w, k)
      <3>1. <<w, k>> \in proc[p].held
        BY <1>3, <2>2 DEF TargetSet
      <3>2. row[w][k].seen \in {"CLOSED", "UNKNOWN"}
        <4>1. row[w][k].seen # "none"
          BY <3>1, <1>2 DEF Seen
        <4> QED BY <2>1, <4>1 DEF RowRec
      <3>3. CASE row[w][k].seen = "CLOSED"
        <4>1. row'[w][k] = [row[w][k] EXCEPT !.stage = "reconciled"]
          BY <1>1, <3>1, <3>3
        <4> QED BY <2>1, <3>3, <4>1 DEF Unresolved, RowRec
      <3>4. CASE row[w][k].seen = "UNKNOWN"
        <4>1. row'[w][k] = row[w][k]
          BY <1>1, <3>4
        <4> QED BY <2>2, <3>4, <4>1 DEF Unresolved
      <3> QED BY <3>2, <3>3, <3>4
    <2>3. CASE ~Unresolved(w, k)
      <3>1. <<w, k>> \notin proc[p].held
        BY <1>3, <2>3 DEF TargetSet
      <3>2. row'[w][k] = row[w][k]
        BY <1>1, <3>1
      <3> QED BY <2>3, <3>2 DEF Unresolved
    <2> QED BY <2>2, <2>3
  <1>8. ASSUME NEW w \in Works
        PROVE  Uncertain(w)' <=> (Uncertain(w) /\ w \notin S)
    <2>1. CASE w \in S
      <3>1. ASSUME NEW k \in Rows, Unresolved(w, k) PROVE row[w][k].seen # "UNKNOWN"
        <4>1. <<w, k>> \in proc[p].held
          BY <1>3, <3>1 DEF TargetSet
        <4>2. w \notin UnknownWorks(proc[p].held)
          BY <2>1 DEF Closing
        <4> QED BY <4>1, <4>2 DEF UnknownWorks, Seen
      <3> QED BY <1>7, <2>1, <3>1 DEF Uncertain
    <2>2. CASE w \notin S
      <3>1. ASSUME Uncertain(w) PROVE Uncertain(w)'
        <4>1. PICK k \in Rows : Unresolved(w, k)
          BY <3>1 DEF Uncertain
        <4>2. Current(w, row[w][k].att)
          <5>1. <<w, k>> \in TargetSet
            BY <4>1 DEF TargetSet
          <5>2. Current(<<w, k>>[1], row[<<w, k>>[1]][<<w, k>>[2]].att)
            BY <5>1, <1>3 DEF TargetsInScope
          <5> QED BY <5>2
        <4>3. w \in UnknownWorks(proc[p].held)
          BY <2>2, <4>2 DEF Current, Closing, Known, Terminal
        <4>4. PICK x \in proc[p].held : x[1] = w /\ Seen(x) = "UNKNOWN"
          BY <4>3 DEF UnknownWorks
        <4>5. x[2] \in Rows /\ Unresolved(w, x[2]) /\ row[w][x[2]].seen = "UNKNOWN"
          BY <4>4, <1>3 DEF TargetSet, Seen
        <4> QED BY <4>5, <1>7 DEF Uncertain
      <3>2. ASSUME Uncertain(w)' PROVE Uncertain(w)
        BY <3>2, <1>7 DEF Uncertain
      <3> QED BY <2>2, <3>1, <3>2
    <2> QED BY <2>1, <2>2
  <1>9. PICK T \in SUBSET Works : T = S
    BY <1>4
  <1>10. Lifecycle!Move(T, "cancelled")
    <2>1. \A w \in T : PhaseOf(work'[w].status) = "cancelled"
      BY <1>5, <1>9, PhaseValues
    <2> QED BY <2>1, <1>6, <1>9, PhaseMoves
  <1>11. Unsettled' = [w \in Works |-> Unsettled[w] /\ w \notin T]
    <2>1. \A w \in Works : (Uncertain(w)' <=> (Unsettled[w] /\ w \notin T))
      BY <1>8, <1>9, ViewTyped
    <2> QED BY <2>1 DEF Unsettled, Uncertain
  <1>12. Latched' = Latched /\ Final' = Final
    BY <1>1, LatchSame, FinalSame
  <1>13. \A w \in T : Phases[w] \notin {"done", "failed", "cancelled"} \cup {"new"}
    <2>1. \A w \in T : w \in Works /\ work[w].status # "NONE" /\ work[w].status \notin Terminal
      BY <1>9 DEF Closing, Known
    <2> QED BY <2>1, ViewTyped, PhaseTells
  <1> HIDE DEF S
  <1>14. Lifecycle!Cancel(T)
    BY <1>2, <1>10, <1>11, <1>12, <1>13 DEF Lifecycle!Cancel, Lifecycle!Ended
  <1> QED BY <1>14 DEF Lifecycle!Next

(* Every step of every process is a step of the lifecycle, or none.        *)
LEMMA StepRefines == DInv /\ [Next]_vars => [Lifecycle!Next]_Lifecycle!lifecycle
  <1> SUFFICES ASSUME DInv, Shape PROVE Lifecycle!Next \/ UNCHANGED Lifecycle!lifecycle
    BY NextShape
  <1> QED
    BY QuietView, OpenedView, ClaimView, DispatchView, ReturnView, PublishView, ResumeView,
       FinalizeView, LatchView, ReconcileView DEF Shape

LEMMA InitRefines == Init => Lifecycle!Init
  <1> SUFFICES ASSUME Init PROVE Lifecycle!Init
    OBVIOUS
  <1>1. Phases = [w \in Works |-> "new"]
    BY PhaseValues DEF Init, Phases, Idle
  <1>2. Unsettled = [w \in Works |-> FALSE]
    BY DEF Init, Unsettled, Uncertain, Unresolved, NoRow
  <1>3. Latched = FALSE /\ Final = FALSE
    BY DEF Init, Latched, Final
  <1> QED BY <1>1, <1>2, <1>3 DEF Lifecycle!Init

(* The production runtime implements the lifecycle its callers rely on,    *)
(* for any number of works, processes, attempts, crashes and stalls.       *)
THEOREM LifecycleRefined == Spec => ImplementsLifecycle
  <1>1. DInv /\ [Next]_vars => [Lifecycle!Next]_Lifecycle!lifecycle
    BY StepRefines
  <1>2. Init => Lifecycle!Init
    BY InitRefines
  <1> QED BY <1>1, <1>2, DispatchInvariant, PTL DEF Spec, ImplementsLifecycle, Lifecycle!Spec

=============================================================================
