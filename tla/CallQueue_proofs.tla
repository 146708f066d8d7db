------------------------ MODULE CallQueue_proofs -------------------------
(***************************************************************************)
(* Proofs about the Codex call ledger, for any number of callers and calls.*)
(* The argument: a slot <<call, phase>> is hot while its process runs, was *)
(* only asked for, or is a late spawn.  There is never more than one hot   *)
(* slot, it belongs to the call in flight, and a caller about to spawn or  *)
(* about to settle its call has none.                                      *)
(***************************************************************************)
EXTENDS CallQueue, SetSums, TLAPS

Hot(c, p) == \/ os[c][p] = "RUNNING"
             \/ child[c][p] = "SPAWNING"
             \/ <<c, p>> \in late

(* Where a caller holds the gate and a call in flight.                     *)
InCall == {"ready", "spawn", "child", "kill", "drain", "settle", "recorded"}

(* About to spawn, or ended with an outcome that settles the call.         *)
Clean(r) == \/ r.pc = "ready"
            \/ r.pc \in {"settle", "recorded"} /\ r.out \notin Unsettled

(* What is true of a caller t in state r.                                  *)
HoldsCall(t, r) ==
    r.pc \in InCall => /\ up /\ gate = t
                       /\ r.call \in Calls /\ call[r.call] = "IN_FLIGHT"
SlotAsked(r) == r.pc \in {"spawn", "drain"} => child[r.call][r.phase] = "SPAWNING"
SlotTaken(r) ==
    r.pc \in {"child", "kill"} =>
        /\ child[r.call][r.phase] = "CAPTURED"
        /\ \A p \in Phases : Hot(r.call, p) => p = r.phase
SlotSeen(r) ==
    r.pc \in {"spawn", "child", "kill"} => <<r.call, r.phase>> \notin late
SlotsCold(r) == Clean(r) => \A p \in Phases : ~Hot(r.call, p)
RetrySafe(r) ==
    /\ \/ r.pc \in {"queue", "backoff"}
       \/ r.pc = "idle" /\ r.retryable
    /\ r.call # 0
    => Settled(r.call)
CallerOK(t, r) ==
    /\ HoldsCall(t, r)
    /\ SlotAsked(r) /\ SlotTaken(r) /\ SlotSeen(r) /\ SlotsCold(r)
    /\ RetrySafe(r)
    /\ r.pc = "backoff" => r.tries <= MaxRetries

(* What is true of the ledger and of the operating system's processes.     *)
DownOK == ~up => late = {} /\ \A t \in Tasks : task[t].pc = "idle"
OneInFlight ==
    \A c, d \in Calls : call[c] = "IN_FLIGHT" /\ call[d] = "IN_FLIGHT" => c = d
Unused == \A c \in Calls : call[c] = "NONE" => attempt[c].status = "NONE"
RowFirst ==
    \A c \in Calls, p \in Phases :
        child[c][p] = "NONE" => os[c][p] = "NONE" /\ <<c, p>> \notin late
HotInFlight ==
    \A c \in Calls, p \in Phases : Hot(c, p) => call[c] = "IN_FLIGHT"
HotOnce ==
    \A c \in Calls, p, q \in Phases : Hot(c, p) /\ Hot(c, q) => p = q
NeverSpawned ==
    \A c \in Calls : attempt[c].status = "CODEX_NOT_SPAWNED" =>
        call[c] # "IN_FLIGHT" /\ \A p \in Phases : child[c][p] = "NONE"
LedgerOK == /\ OneInFlight /\ Unused /\ RowFirst
            /\ HotInFlight /\ HotOnce /\ NeverSpawned

(* The inductive invariant.                                                *)
QInv == /\ TypeOK /\ DownOK /\ LedgerOK
        /\ \A t \in Tasks : CallerOK(t, task[t])

USE QueueAssumption

-----------------------------------------------------------------------------
(* Only one caller is in a call: it holds the gate.                        *)
LEMMA OneCaller ==
    ASSUME QInv, NEW t \in Tasks, NEW u \in Tasks,
           task[t].pc \in InCall, task[u].pc \in InCall
    PROVE  t = u
BY DEF QInv, CallerOK, HoldsCall

(* A caller outside a call keeps what is true of it while settled calls    *)
(* stay settled.                                                           *)
LEMMA Bystander ==
    ASSUME NEW u \in Tasks, NEW r \in TaskType, CallerOK(u, r), r.pc \notin InCall,
           \A c \in Calls : Settled(c) => Settled(c)'
    PROVE  CallerOK(u, r)'
<1>1. r.call # 0 => r.call \in Calls
  BY DEF TaskType, Calls
<1> QED
  BY <1>1 DEF CallerOK, HoldsCall, SlotAsked, SlotTaken, SlotSeen, SlotsCold, Clean,
              RetrySafe, InCall

(* The new state of the callers when t moves to r.                         *)
LEMMA Compose ==
    ASSUME TypeOK, NEW t \in Tasks, NEW r \in TaskType,
           task' = [task EXCEPT ![t] = r], CallerOK(t, r)',
           \A u \in Tasks \ {t} : \A x : x = task[u] => CallerOK(u, x)'
    PROVE  /\ task' \in [Tasks -> TaskType]
           /\ \A u \in Tasks : CallerOK(u, task[u])'
<1>0. task \in [Tasks -> TaskType]
  BY DEF TypeOK
<1>1. task' \in [Tasks -> TaskType]
  BY <1>0
<1>2. ASSUME NEW u \in Tasks PROVE CallerOK(u, task[u])'
  <2>1. PICK x : x = task'[u]
    OBVIOUS
  <2>2. CallerOK(u, x)'
    BY <1>0, <2>1
  <2> QED
    BY <2>1, <2>2 DEF CallerOK, HoldsCall, SlotAsked, SlotTaken, SlotSeen,
                      SlotsCold, Clean, RetrySafe, Hot, Settled
<1> QED
  BY <1>1, <1>2

(* A step that changes only what caller t is doing.                        *)
LEMMA TaskOnly ==
    ASSUME QInv, NEW t \in Tasks, NEW r \in TaskType,
           task' = [task EXCEPT ![t] = r], CallerOK(t, r), up,
           UNCHANGED <<call, attempt, child, os, up, gate, late>>
    PROVE  QInv'
<1>1. CallerOK(t, r)'
  BY DEF CallerOK, HoldsCall, SlotAsked, SlotTaken, SlotSeen, SlotsCold, Clean,
         RetrySafe, Hot, Settled
<1>2. ASSUME NEW u \in Tasks \ {t}, NEW x, x = task[u] PROVE CallerOK(u, x)'
  <2>1. CallerOK(u, x)
    BY <1>2 DEF QInv
  <2> QED
    BY <2>1 DEF CallerOK, HoldsCall, SlotAsked, SlotTaken, SlotSeen, SlotsCold,
                Clean, RetrySafe, Hot, Settled
<1>3. TypeOK
  BY DEF QInv
<1>4. /\ task' \in [Tasks -> TaskType]
      /\ \A u \in Tasks : CallerOK(u, task[u])'
  BY <1>1, <1>2, <1>3, Compose
<1>5. TypeOK'
  BY <1>3, <1>4 DEF TypeOK
<1>6. LedgerOK'
  BY DEF QInv, LedgerOK, OneInFlight, Unused, RowFirst, HotInFlight, HotOnce,
         NeverSpawned, Hot
<1> QED
  BY <1>4, <1>5, <1>6 DEF QInv, DownOK

(* What a caller in a call knows.                                          *)
LEMMA Holder ==
    ASSUME QInv, NEW t \in Tasks, task[t].pc \in InCall
    PROVE  /\ up /\ gate = t
           /\ task[t] \in TaskType
           /\ task[t].call \in Calls /\ task[t].phase \in Phases
           /\ call[task[t].call] = "IN_FLIGHT"
           /\ child[task[t].call][task[t].phase] \in ChildStatus
           /\ os[task[t].call][task[t].phase] \in OsStatus
<1>1. task[t] \in TaskType /\ CallerOK(t, task[t])
  BY DEF QInv, TypeOK
<1>2. task[t].call \in Calls /\ task[t].phase \in Phases
  BY <1>1 DEF CallerOK, HoldsCall, TaskType
<1> QED
  BY <1>1, <1>2 DEF CallerOK, HoldsCall, QInv, TypeOK

(* Before its inner call ends, only a caller's current slot can be hot.    *)
Inside == {"ready", "spawn", "child", "kill", "drain"}
LEMMA OnlySlot ==
    ASSUME QInv, NEW t \in Tasks, task[t].pc \in Inside,
           NEW q \in Phases, Hot(task[t].call, q)
    PROVE  q = task[t].phase
<1>1. CallerOK(t, task[t]) /\ LedgerOK
  BY DEF QInv
<1>2. task[t].call \in Calls /\ task[t].phase \in Phases
  BY Holder DEF Inside, InCall
<1>3. CASE task[t].pc = "ready"
  BY <1>1, <1>3 DEF CallerOK, SlotsCold, Clean
<1>4. CASE task[t].pc \in {"child", "kill"}
  BY <1>1, <1>4 DEF CallerOK, SlotTaken
<1>5. CASE task[t].pc \in {"spawn", "drain"}
  <2>1. Hot(task[t].call, task[t].phase)
    BY <1>1, <1>5 DEF CallerOK, SlotAsked, Hot
  <2> QED
    BY <1>1, <1>2, <2>1 DEF LedgerOK, HotOnce
<1> QED
  BY <1>3, <1>4, <1>5 DEF Inside

(* A step of a caller inside its inner call: it moves to r and leaves its  *)
(* slot with row x and process y.                                          *)
LEMMA SlotStep ==
    ASSUME QInv, NEW t \in Tasks, NEW r \in TaskType,
           NEW c \in Calls, NEW p \in Phases,
           NEW x \in ChildStatus, NEW y \in OsStatus,
           task[t].pc \in Inside, c = task[t].call, p = task[t].phase,
           task' = [task EXCEPT ![t] = r],
           child' = [child EXCEPT ![c][p] = x],
           os' = [os EXCEPT ![c][p] = y],
           late' \subseteq late \cup {<<c, p>>},
           UNCHANGED <<call, attempt, up, gate>>,
           x = "NONE" => y = "NONE" /\ <<c, p>> \notin late',
           r.call = c, r.pc \in InCall,
           r.pc \in {"spawn", "drain"} => r.phase = p /\ x = "SPAWNING",
           r.pc \in {"child", "kill"} => r.phase = p /\ x = "CAPTURED",
           r.pc \in {"spawn", "child", "kill"} => <<c, p>> \notin late',
           Clean(r) => x # "SPAWNING" /\ y # "RUNNING" /\ <<c, p>> \notin late'
    PROVE  QInv'
<1>0. up /\ gate = t /\ call[c] = "IN_FLIGHT" /\ task[t].pc \in InCall
  BY Holder DEF Inside, InCall
<1>3. TypeOK /\ LedgerOK
  BY DEF QInv
<1>a. /\ child' \in [Calls -> [Phases -> ChildStatus]] /\ child'[c][p] = x
      /\ \A d \in Calls, q \in Phases : d # c \/ q # p => child'[d][q] = child[d][q]
  BY <1>3 DEF TypeOK
<1>b. /\ os' \in [Calls -> [Phases -> OsStatus]] /\ os'[c][p] = y
      /\ \A d \in Calls, q \in Phases : d # c \/ q # p => os'[d][q] = os[d][q]
  BY <1>3 DEF TypeOK
<1>c. /\ late' \subseteq Calls \X Phases
      /\ \A d \in Calls, q \in Phases :
            d # c \/ q # p => (<<d, q>> \in late' => <<d, q>> \in late)
  BY <1>3 DEF TypeOK
<1>1. \A d \in Calls, q \in Phases :
         d # c \/ q # p => (Hot(d, q)' => Hot(d, q))
  BY <1>a, <1>b, <1>c DEF Hot
<1>d. \A q \in Phases : Hot(c, q)' => q = p
  BY <1>1, OnlySlot
<1>e. CallerOK(t, r)'
  <2>1. HoldsCall(t, r)'
    BY <1>0 DEF HoldsCall
  <2>2. SlotAsked(r)' /\ SlotSeen(r)'
    BY <1>a DEF SlotAsked, SlotSeen
  <2>3. SlotTaken(r)'
    BY <1>a, <1>d DEF SlotTaken
  <2>4. SlotsCold(r)'
    <3>1. SUFFICES ASSUME Clean(r), NEW q \in Phases, Hot(c, q)' PROVE FALSE
      BY DEF SlotsCold, Clean
    <3> QED
      BY <1>a, <1>b, <1>d, <3>1 DEF Hot
  <2> QED
    BY <2>1, <2>2, <2>3, <2>4 DEF CallerOK, RetrySafe, InCall
<1>2. ASSUME NEW u \in Tasks \ {t}, NEW z, z = task[u] PROVE CallerOK(u, z)'
  <2>1. z.pc \notin InCall
    BY <1>0, <1>2, OneCaller
  <2>2. CallerOK(u, z) /\ z \in TaskType
    BY <1>2, <1>3 DEF QInv, TypeOK
  <2>3. \A d \in Calls : Settled(d) => Settled(d)'
    BY DEF Settled
  <2> QED
    BY <2>1, <2>2, <2>3, Bystander
<1>4. /\ task' \in [Tasks -> TaskType]
      /\ \A u \in Tasks : CallerOK(u, task[u])'
  BY <1>2, <1>3, <1>e, Compose
<1>5. TypeOK'
  BY <1>3, <1>4, <1>a, <1>b, <1>c DEF TypeOK
<1>7. OneInFlight' /\ Unused'
  BY <1>3 DEF LedgerOK, OneInFlight, Unused
<1>8. RowFirst'
  <2>1. SUFFICES ASSUME NEW d \in Calls, NEW q \in Phases, child'[d][q] = "NONE"
                 PROVE  os'[d][q] = "NONE" /\ <<d, q>> \notin late'
    BY DEF RowFirst
  <2>2. CASE d = c /\ q = p
    BY <1>a, <1>b, <2>1, <2>2
  <2>3. CASE d # c \/ q # p
    BY <1>3, <1>a, <1>b, <1>c, <2>1, <2>3 DEF LedgerOK, RowFirst
  <2> QED
    BY <2>2, <2>3
<1>9. HotInFlight'
  BY <1>0, <1>1, <1>3 DEF LedgerOK, HotInFlight
<1>10. HotOnce'
  BY <1>1, <1>3, <1>d DEF LedgerOK, HotOnce
<1>11. NeverSpawned'
  <2>1. SUFFICES ASSUME NEW d \in Calls, attempt[d].status = "CODEX_NOT_SPAWNED"
                 PROVE  call[d] # "IN_FLIGHT" /\ \A q \in Phases : child'[d][q] = "NONE"
    BY DEF NeverSpawned
  <2>2. call[d] # "IN_FLIGHT" /\ \A q \in Phases : child[d][q] = "NONE"
    BY <1>3, <2>1 DEF LedgerOK, NeverSpawned
  <2> QED
    BY <1>0, <1>a, <2>2
<1> QED
  BY <1>0, <1>4, <1>5, <1>7, <1>8, <1>9, <1>10, <1>11 DEF QInv, LedgerOK, DownOK

(* ... and in particular one that keeps the phase and ends with outcome o. *)
LEMMA MoveStep ==
    ASSUME QInv, NEW t \in Tasks, NEW pc \in InCall, NEW o \in Outcomes,
           NEW c \in Calls, NEW p \in Phases,
           NEW x \in ChildStatus, NEW y \in OsStatus,
           task[t].pc \in Inside, c = task[t].call, p = task[t].phase,
           task' = [task EXCEPT ![t] = [task[t] EXCEPT !.pc = pc, !.out = o]],
           child' = [child EXCEPT ![c][p] = x],
           os' = [os EXCEPT ![c][p] = y],
           late' \subseteq late \cup {<<c, p>>},
           UNCHANGED <<call, attempt, up, gate>>,
           x = "NONE" => y = "NONE" /\ <<c, p>> \notin late',
           pc \in {"spawn", "drain"} => x = "SPAWNING",
           pc \in {"child", "kill"} => x = "CAPTURED",
           pc \in {"spawn", "child", "kill"} => <<c, p>> \notin late',
           pc = "ready" \/ (pc \in {"settle", "recorded"} /\ o \notin Unsettled)
             => x # "SPAWNING" /\ y # "RUNNING" /\ <<c, p>> \notin late'
    PROVE  QInv'
<1>1. task[t] \in TaskType
  BY Holder DEF Inside, InCall
<1>2. PICK r : r = [task[t] EXCEPT !.pc = pc, !.out = o]
  OBVIOUS
<1>3. r \in TaskType /\ r.pc = pc /\ r.out = o /\ r.call = c /\ r.phase = p
  BY <1>1, <1>2 DEF TaskType, Pcs, InCall
<1>4. task' = [task EXCEPT ![t] = r]
  BY <1>2
<1>5. Clean(r) => x # "SPAWNING" /\ y # "RUNNING" /\ <<c, p>> \notin late'
  BY <1>3 DEF Clean
<1> QED
  BY <1>3, <1>4, <1>5, SlotStep

(* ... and one that ends the inner call.                                   *)
LEMMA EndStep ==
    ASSUME QInv, NEW t \in Tasks, NEW o \in Outcomes,
           NEW c \in Calls, NEW p \in Phases,
           NEW x \in ChildStatus, NEW y \in OsStatus,
           task[t].pc \in Inside, c = task[t].call, p = task[t].phase,
           task' = [task EXCEPT ![t] = [task[t] EXCEPT !.pc = "settle", !.out = o]],
           child' = [child EXCEPT ![c][p] = x],
           os' = [os EXCEPT ![c][p] = y],
           late' \subseteq late,
           UNCHANGED <<call, attempt, up, gate>>,
           x = "NONE" => y = "NONE" /\ <<c, p>> \notin late',
           o \notin Unsettled
             => x # "SPAWNING" /\ y # "RUNNING" /\ <<c, p>> \notin late'
    PROVE  QInv'
<1>1. "settle" \in InCall /\ late' \subseteq late \cup {<<c, p>>}
  BY DEF InCall
<1> QED
  BY <1>1, MoveStep, ZenonT(40)

-----------------------------------------------------------------------------
(* The actions of a caller inside its inner call.                          *)

(* Its call, its phase, and its slot rewritten with the values it has.     *)
InnerFacts(t, c, p, x, y) ==
    /\ c = task[t].call /\ p = task[t].phase
    /\ x = child[c][p] /\ y = os[c][p]
    /\ child = [child EXCEPT ![c][p] = x]
    /\ os = [os EXCEPT ![c][p] = y]
    /\ x = "NONE" => y = "NONE" /\ <<c, p>> \notin late
    /\ task[t].out \in Outcomes
LEMMA Inner ==
    ASSUME QInv, NEW t \in Tasks, task[t].pc \in Inside
    PROVE  \E c \in Calls, p \in Phases, x \in ChildStatus, y \in OsStatus :
              InnerFacts(t, c, p, x, y)
<1>1. task[t].pc \in InCall
  BY DEF Inside, InCall
<1>2. PICK c \in Calls, p \in Phases : c = task[t].call /\ p = task[t].phase
  BY <1>1, Holder
<1>3. TypeOK /\ LedgerOK
  BY DEF QInv
<1>4. /\ child[c][p] \in ChildStatus /\ os[c][p] \in OsStatus
      /\ child = [child EXCEPT ![c][p] = child[c][p]]
      /\ os = [os EXCEPT ![c][p] = os[c][p]]
  BY <1>3 DEF TypeOK
<1>5. child[c][p] = "NONE" => os[c][p] = "NONE" /\ <<c, p>> \notin late
  BY <1>3 DEF LedgerOK, RowFirst
<1>6. task[t].out \in Outcomes
  BY <1>1, Holder DEF TaskType
<1>7. InnerFacts(t, c, p, child[c][p], os[c][p])
  BY <1>2, <1>4, <1>5, <1>6 DEF InnerFacts
<1> QED
  BY <1>4, <1>7


(* A change of pc alone keeps the outcome.                                 *)
LEMMA GotoOut ==
    ASSUME QInv, NEW t \in Tasks, task[t].pc \in InCall, NEW pc
    PROVE  [task[t] EXCEPT !.pc = pc]
             = [task[t] EXCEPT !.pc = pc, !.out = task[t].out]
BY Holder DEF TaskType

LEMMA IntentStep ==
    ASSUME QInv, NEW t \in Tasks, Intent(t)
    PROVE  QInv'
<1>1. task[t].pc \in {"ready"} /\ task[t].pc \in Inside /\ task[t].pc \in InCall
  BY DEF Intent, At, Inside, InCall
<1>2. PICK c \in Calls, p \in Phases, x \in ChildStatus, y \in OsStatus :
         InnerFacts(t, c, p, x, y)
  BY <1>1, Inner
<1>f. /\ c = task[t].call /\ p = task[t].phase /\ task[t].out \in Outcomes
      /\ x = "NONE" => y = "NONE" /\ <<c, p>> \notin late
  BY <1>2 DEF InnerFacts
<1>3. CallerOK(t, task[t])
  BY DEF QInv
<1>a. late = {}
  <2>1. \A q \in Phases : ~Hot(c, q)
    BY <1>1, <1>2, <1>3 DEF CallerOK, SlotsCold, Clean, InnerFacts
  <2>2. call[c] = "IN_FLIGHT" /\ late \subseteq Calls \X Phases
    BY <1>1, <1>2, Holder DEF InnerFacts, QInv, TypeOK
  <2>3. \A d \in Calls, q \in Phases : <<d, q>> \in late => d = c
    BY <2>2 DEF QInv, LedgerOK, HotInFlight, OneInFlight, Hot
  <2> QED
    BY <2>1, <2>2, <2>3 DEF Hot
<1>4. /\ task' = [task EXCEPT ![t] = [task[t] EXCEPT !.pc = "spawn", !.out = task[t].out]]
      /\ child' = [child EXCEPT ![c][p] = "SPAWNING"]
      /\ os' = [os EXCEPT ![c][p] = y] /\ late' = {}
      /\ UNCHANGED <<call, attempt, up, gate>>
  BY <1>1, <1>2, <1>a, GotoOut DEF Intent, Goto, Update, SetRow, InnerFacts
<1>5. "SPAWNING" \in ChildStatus
  BY DEF ChildStatus
<1> QED
  BY <1>1, <1>f, <1>4, <1>5, MoveStep, ZenonT(40) DEF InCall

LEMMA InnerFailsStep ==
    ASSUME QInv, NEW t \in Tasks, InnerFails(t)
    PROVE  QInv'
<1>1. task[t].pc \in {"ready"} /\ task[t].pc \in Inside /\ task[t].pc \in InCall
  BY DEF InnerFails, At, Inside, InCall
<1>2. PICK c \in Calls, p \in Phases, x \in ChildStatus, y \in OsStatus :
         InnerFacts(t, c, p, x, y)
  BY <1>1, Inner
<1>f. /\ c = task[t].call /\ p = task[t].phase /\ task[t].out \in Outcomes
      /\ x = "NONE" => y = "NONE" /\ <<c, p>> \notin late
  BY <1>2 DEF InnerFacts
<1>3. CallerOK(t, task[t])
  BY DEF QInv
<1>4. PICK o \in {"FAILED"} \cup Escapes : Ended(t, o)
  BY DEF InnerFails
<1>5. /\ task' = [task EXCEPT ![t] = [task[t] EXCEPT !.pc = "settle", !.out = o]]
      /\ child' = [child EXCEPT ![c][p] = x] /\ os' = [os EXCEPT ![c][p] = y]
      /\ late' = late /\ UNCHANGED <<call, attempt, up, gate>>
  BY <1>2, <1>4 DEF InnerFails, Ended, Update, InnerFacts, ledger
<1>6. x # "SPAWNING" /\ y # "RUNNING" /\ <<c, p>> \notin late /\ o \in Outcomes
  BY <1>1, <1>2, <1>3, <1>4 DEF CallerOK, SlotsCold, Clean, Hot, InnerFacts,
                                Outcomes, RetryableCodes, Unsettled, Escapes
<1> QED
  BY <1>1, <1>f, <1>5, <1>6, EndStep

LEMMA OsSpawnStep ==
    ASSUME QInv, NEW t \in Tasks, OsSpawn(t)
    PROVE  QInv'
<1>1. task[t].pc \in {"spawn", "drain"} /\ task[t].pc \in Inside /\ task[t].pc \in InCall
  BY DEF OsSpawn, At, Inside, InCall
<1>2. PICK c \in Calls, p \in Phases, x \in ChildStatus, y \in OsStatus :
         InnerFacts(t, c, p, x, y)
  BY <1>1, Inner
<1>f. /\ c = task[t].call /\ p = task[t].phase /\ task[t].out \in Outcomes
      /\ x = "NONE" => y = "NONE" /\ <<c, p>> \notin late
  BY <1>2 DEF InnerFacts
<1>3. CallerOK(t, task[t])
  BY DEF QInv
<1>4. PICK r : r = task[t]
  OBVIOUS
<1>5. /\ r \in TaskType /\ task' = [task EXCEPT ![t] = r]
      /\ child' = [child EXCEPT ![c][p] = x]
      /\ os' = [os EXCEPT ![c][p] = "RUNNING"]
      /\ late' = late /\ UNCHANGED <<call, attempt, up, gate>>
  BY <1>1, <1>2, <1>4, Holder DEF OsSpawn, SetOs, InnerFacts, ledger, QInv, TypeOK
<1>6. /\ x = "SPAWNING" /\ (r.pc = "spawn" => <<c, p>> \notin late)
      /\ r.call = c /\ r.phase = p /\ ~Clean(r) /\ r.pc \in InCall
      /\ r.pc \notin {"child", "kill"} /\ "RUNNING" \in OsStatus
  BY <1>1, <1>2, <1>3, <1>4 DEF CallerOK, SlotAsked, SlotSeen, InnerFacts, Clean,
                                InCall, OsStatus
<1> QED
  BY <1>1, <1>f, <1>4, <1>5, <1>6, SlotStep

LEMMA SpawnFailsStep ==
    ASSUME QInv, NEW t \in Tasks, SpawnFails(t)
    PROVE  QInv'
<1>1. task[t].pc \in {"spawn"} /\ task[t].pc \in Inside /\ task[t].pc \in InCall
  BY DEF SpawnFails, At, Inside, InCall
<1>2. PICK c \in Calls, p \in Phases, x \in ChildStatus, y \in OsStatus :
         InnerFacts(t, c, p, x, y)
  BY <1>1, Inner
<1>f. /\ c = task[t].call /\ p = task[t].phase /\ task[t].out \in Outcomes
      /\ x = "NONE" => y = "NONE" /\ <<c, p>> \notin late
  BY <1>2 DEF InnerFacts
<1>3. CallerOK(t, task[t])
  BY DEF QInv
<1>4. /\ task' = [task EXCEPT ![t] = [task[t] EXCEPT !.pc = "settle", !.out = "CODEX_PROCESS_CLEANUP_UNCONFIRMED"]]
      /\ child' = [child EXCEPT ![c][p] = x]
      /\ os' = [os EXCEPT ![c][p] = y]
      /\ late' = late /\ UNCHANGED <<call, attempt, up, gate>>
  BY <1>2 DEF SpawnFails, Ended, Update, InnerFacts, ledger
<1>5. "CODEX_PROCESS_CLEANUP_UNCONFIRMED" \in Outcomes /\ "CODEX_PROCESS_CLEANUP_UNCONFIRMED" \in Unsettled
  BY DEF Outcomes, Unsettled
<1> QED
  BY <1>1, <1>f, <1>4, <1>5, EndStep

LEMMA KillFailsStep ==
    ASSUME QInv, NEW t \in Tasks, KillFails(t)
    PROVE  QInv'
<1>1. task[t].pc \in {"kill"} /\ task[t].pc \in Inside /\ task[t].pc \in InCall
  BY DEF KillFails, At, Inside, InCall
<1>2. PICK c \in Calls, p \in Phases, x \in ChildStatus, y \in OsStatus :
         InnerFacts(t, c, p, x, y)
  BY <1>1, Inner
<1>f. /\ c = task[t].call /\ p = task[t].phase /\ task[t].out \in Outcomes
      /\ x = "NONE" => y = "NONE" /\ <<c, p>> \notin late
  BY <1>2 DEF InnerFacts
<1>3. CallerOK(t, task[t])
  BY DEF QInv
<1>4. /\ task' = [task EXCEPT ![t] = [task[t] EXCEPT !.pc = "settle", !.out = "CODEX_PROCESS_CLEANUP_UNCONFIRMED"]]
      /\ late' = late /\ UNCHANGED <<call, attempt, up, gate>>
  BY DEF KillFails, Ended, Update
<1>5. "CODEX_PROCESS_CLEANUP_UNCONFIRMED" \in Outcomes /\ "CODEX_PROCESS_CLEANUP_UNCONFIRMED" \in Unsettled
  BY DEF Outcomes, Unsettled
<1>6. CASE UNCHANGED <<child, os>>
  <2>1. child' = [child EXCEPT ![c][p] = x] /\ os' = [os EXCEPT ![c][p] = y]
    BY <1>2, <1>6 DEF InnerFacts
  <2> QED
    BY <1>1, <1>f, <1>4, <1>5, <2>1, EndStep
<1>7. CASE SetOs(t, "GONE") /\ SetRow(t, "EXITED")
  <2>1. /\ child' = [child EXCEPT ![c][p] = "EXITED"]
        /\ os' = [os EXCEPT ![c][p] = "GONE"]
        /\ "EXITED" \in ChildStatus /\ "GONE" \in OsStatus
    BY <1>f, <1>7 DEF SetOs, SetRow, ChildStatus, OsStatus
  <2> QED
    BY <1>1, <1>f, <1>4, <1>5, <2>1, EndStep
<1> QED
  BY <1>6, <1>7 DEF KillFails

LEMMA KillTreeStep ==
    ASSUME QInv, NEW t \in Tasks, KillTree(t)
    PROVE  QInv'
<1>1. task[t].pc \in {"kill"} /\ task[t].pc \in Inside /\ task[t].pc \in InCall
  BY DEF KillTree, At, Inside, InCall
<1>2. PICK c \in Calls, p \in Phases, x \in ChildStatus, y \in OsStatus :
         InnerFacts(t, c, p, x, y)
  BY <1>1, Inner
<1>f. /\ c = task[t].call /\ p = task[t].phase /\ task[t].out \in Outcomes
      /\ x = "NONE" => y = "NONE" /\ <<c, p>> \notin late
  BY <1>2 DEF InnerFacts
<1>3. CallerOK(t, task[t])
  BY DEF QInv
<1>4. /\ task' = [task EXCEPT ![t] = [task[t] EXCEPT !.pc = "settle", !.out = task[t].out]]
      /\ child' = [child EXCEPT ![c][p] = "EXITED"]
      /\ os' = [os EXCEPT ![c][p] = "GONE"]
      /\ late' = late /\ UNCHANGED <<call, attempt, up, gate>>
  BY <1>2 DEF KillTree, Ended, SetRow, SetOs, Update, InnerFacts, ledger
<1>5. /\ "EXITED" \in ChildStatus /\ "GONE" \in OsStatus
      /\ <<c, p>> \notin late
  BY <1>1, <1>2, <1>3 DEF ChildStatus, OsStatus, CallerOK, SlotSeen, InnerFacts
<1> QED
  BY <1>1, <1>f, <1>4, <1>5, EndStep

LEMMA DrainSpawnStep ==
    ASSUME QInv, NEW t \in Tasks, DrainSpawn(t)
    PROVE  QInv'
<1>1. task[t].pc \in {"drain"} /\ task[t].pc \in Inside /\ task[t].pc \in InCall
  BY DEF DrainSpawn, At, Inside, InCall
<1>2. PICK c \in Calls, p \in Phases, x \in ChildStatus, y \in OsStatus :
         InnerFacts(t, c, p, x, y)
  BY <1>1, Inner
<1>f. /\ c = task[t].call /\ p = task[t].phase /\ task[t].out \in Outcomes
      /\ x = "NONE" => y = "NONE" /\ <<c, p>> \notin late
  BY <1>2 DEF InnerFacts
<1>3. CallerOK(t, task[t])
  BY DEF QInv
<1>4. /\ task' = [task EXCEPT ![t] = [task[t] EXCEPT !.pc = "settle", !.out = task[t].out]]
      /\ child' = [child EXCEPT ![c][p] = "EXITED"]
      /\ os' = [os EXCEPT ![c][p] = "GONE"]
      /\ late' = late \ {<<c, p>>} /\ UNCHANGED <<call, attempt, up, gate>>
  BY <1>2 DEF DrainSpawn, Ended, SetRow, SetOs, Slot, Update, InnerFacts, ledger
<1>5. /\ "EXITED" \in ChildStatus /\ "GONE" \in OsStatus
      /\ TRUE
  BY <1>1, <1>2, <1>3 DEF ChildStatus, OsStatus, CallerOK, SlotSeen, InnerFacts
<1> QED
  BY <1>1, <1>f, <1>4, <1>5, EndStep

LEMMA DrainFailsStep ==
    ASSUME QInv, NEW t \in Tasks, DrainFails(t)
    PROVE  QInv'
<1>1. task[t].pc \in {"drain"} /\ task[t].pc \in Inside /\ task[t].pc \in InCall
  BY DEF DrainFails, At, Inside, InCall
<1>2. PICK c \in Calls, p \in Phases, x \in ChildStatus, y \in OsStatus :
         InnerFacts(t, c, p, x, y)
  BY <1>1, Inner
<1>f. /\ c = task[t].call /\ p = task[t].phase /\ task[t].out \in Outcomes
      /\ x = "NONE" => y = "NONE" /\ <<c, p>> \notin late
  BY <1>2 DEF InnerFacts
<1>3. CallerOK(t, task[t])
  BY DEF QInv
<1>4. /\ task' = [task EXCEPT ![t] = [task[t] EXCEPT !.pc = "settle", !.out = "CODEX_PROCESS_CLEANUP_UNCONFIRMED"]]
      /\ os' = [os EXCEPT ![c][p] = y]
      /\ late' = late /\ UNCHANGED <<call, attempt, up, gate>>
  BY <1>2 DEF DrainFails, Ended, Update, InnerFacts
<1>5. "CODEX_PROCESS_CLEANUP_UNCONFIRMED" \in Outcomes /\ "CODEX_PROCESS_CLEANUP_UNCONFIRMED" \in Unsettled
  BY DEF Outcomes, Unsettled
<1>6. CASE UNCHANGED child
  <2>1. child' = [child EXCEPT ![c][p] = x]
    BY <1>2, <1>6 DEF InnerFacts
  <2> QED
    BY <1>1, <1>f, <1>4, <1>5, <2>1, EndStep
<1>7. CASE child' = [child EXCEPT ![c][p] = "CAPTURED"]
  BY <1>1, <1>f, <1>4, <1>5, <1>7, EndStep DEF ChildStatus
<1> QED
  BY <1>2, <1>6, <1>7 DEF DrainFails, SetRow, InnerFacts

LEMMA CaptureStep ==
    ASSUME QInv, NEW t \in Tasks, Capture(t)
    PROVE  QInv'
<1>1. task[t].pc \in {"spawn"} /\ task[t].pc \in Inside /\ task[t].pc \in InCall
  BY DEF Capture, At, Inside, InCall
<1>2. PICK c \in Calls, p \in Phases, x \in ChildStatus, y \in OsStatus :
         InnerFacts(t, c, p, x, y)
  BY <1>1, Inner
<1>f. /\ c = task[t].call /\ p = task[t].phase /\ task[t].out \in Outcomes
      /\ x = "NONE" => y = "NONE" /\ <<c, p>> \notin late
  BY <1>2 DEF InnerFacts
<1>3. CallerOK(t, task[t])
  BY DEF QInv
<1>a. x = "SPAWNING" /\ <<c, p>> \notin late
  BY <1>1, <1>2, <1>3 DEF CallerOK, SlotAsked, SlotSeen, InnerFacts
<1>4. late' = late /\ UNCHANGED <<call, attempt, up, gate>>
  BY DEF Capture
<1>5. CASE SetRow(t, "CAPTURED") /\ Goto(t, "child") /\ UNCHANGED os
  <2>1. /\ task' = [task EXCEPT ![t] = [task[t] EXCEPT !.pc = "child", !.out = task[t].out]]
        /\ child' = [child EXCEPT ![c][p] = "CAPTURED"]
        /\ os' = [os EXCEPT ![c][p] = y]
    BY <1>1, <1>2, <1>5, GotoOut DEF SetRow, Goto, Update, InnerFacts
  <2>2. "CAPTURED" \in ChildStatus /\ "child" \in InCall
    BY DEF ChildStatus, InCall
  <2> QED
    BY <1>1, <1>f, <1>4, <1>a, <2>1, <2>2, MoveStep, ZenonT(40)
<1>6. ASSUME SetOs(t, "GONE") \/ UNCHANGED os, UNCHANGED child,
             Ended(t, "CODEX_PROCESS_CLEANUP_UNCONFIRMED")
      PROVE  QInv'
  <2>1. /\ task' = [task EXCEPT ![t] = [task[t] EXCEPT !.pc = "settle", !.out = "CODEX_PROCESS_CLEANUP_UNCONFIRMED"]]
        /\ child' = [child EXCEPT ![c][p] = x]
    BY <1>2, <1>6 DEF Ended, Update, InnerFacts
  <2>2. PICK z \in OsStatus : os' = [os EXCEPT ![c][p] = z]
    BY <1>2, <1>6 DEF SetOs, OsStatus, InnerFacts
  <2>3. "CODEX_PROCESS_CLEANUP_UNCONFIRMED" \in Outcomes /\ "CODEX_PROCESS_CLEANUP_UNCONFIRMED" \in Unsettled
    BY DEF Outcomes, Unsettled
  <2> QED
    BY <1>1, <1>f, <1>4, <1>a, <2>1, <2>2, <2>3, EndStep
<1> QED
  BY <1>5, <1>6 DEF Capture

(* Interrupted by a timeout or a cancellation.                             *)
LEMMA InterruptedStep ==
    ASSUME QInv, NEW t \in Tasks, NEW why \in Outcomes, Interrupted(t, why)
    PROVE  QInv'
<1>1. /\ task[t].pc \in {"child", "spawn"}
      /\ task[t].pc \in Inside /\ task[t].pc \in InCall
  BY DEF Interrupted, At, Inside, InCall
<1>2. PICK c \in Calls, p \in Phases, x \in ChildStatus, y \in OsStatus :
         InnerFacts(t, c, p, x, y)
  BY <1>1, Inner
<1>f. /\ c = task[t].call /\ p = task[t].phase /\ task[t].out \in Outcomes
      /\ x = "NONE" => y = "NONE" /\ <<c, p>> \notin late
  BY <1>2 DEF InnerFacts
<1>3. CallerOK(t, task[t])
  BY DEF QInv
<1>4. /\ child' = [child EXCEPT ![c][p] = x] /\ os' = [os EXCEPT ![c][p] = y]
      /\ UNCHANGED <<call, attempt, up, gate>>
  BY <1>2 DEF Interrupted, InnerFacts, ledger
<1>5. CASE At(t, "child")
  <2>1. late' = late /\ task' = [task EXCEPT ![t] = [task[t] EXCEPT !.pc = "kill", !.out = why]]
    BY <1>5 DEF Interrupted, At, Update
  <2>2. x = "CAPTURED" /\ <<c, p>> \notin late /\ "kill" \in InCall
    BY <1>2, <1>3, <1>5 DEF CallerOK, SlotTaken, SlotSeen, InnerFacts, At, InCall
  <2> QED
    BY <1>1, <1>f, <1>4, <2>1, <2>2, MoveStep, ZenonT(40)
<1>6. CASE At(t, "spawn")
  <2>1. /\ late' = late \cup {<<c, p>>}
        /\ task' = [task EXCEPT ![t] = [task[t] EXCEPT !.pc = "drain", !.out = why]]
    BY <1>2, <1>6 DEF Interrupted, At, Update, Slot, InnerFacts
  <2>2. x = "SPAWNING" /\ "drain" \in InCall
    BY <1>2, <1>3, <1>6 DEF CallerOK, SlotAsked, InnerFacts, At, InCall
  <2> QED
    BY <1>1, <1>f, <1>4, <2>1, <2>2, MoveStep, ZenonT(40)
<1> QED
  BY <1>5, <1>6 DEF Interrupted

LEMMA ReapStep ==
    ASSUME QInv, NEW t \in Tasks, Reap(t)
    PROVE  QInv'
<1>1. task[t].pc \in {"child"} /\ task[t].pc \in Inside /\ task[t].pc \in InCall
  BY DEF Reap, At, Inside, InCall
<1>2. PICK c \in Calls, p \in Phases, x \in ChildStatus, y \in OsStatus :
         InnerFacts(t, c, p, x, y)
  BY <1>1, Inner
<1>f. /\ c = task[t].call /\ p = task[t].phase /\ task[t].out \in Outcomes
      /\ x = "NONE" => y = "NONE" /\ <<c, p>> \notin late
  BY <1>2 DEF InnerFacts
<1>3. CallerOK(t, task[t])
  BY DEF QInv
<1>4. /\ os' = [os EXCEPT ![c][p] = y] /\ y = "GONE"
      /\ late' = late /\ UNCHANGED <<call, attempt, up, gate>>
  BY <1>2 DEF Reap, Os, InnerFacts
<1>5. /\ "EXITED" \in ChildStatus /\ <<c, p>> \notin late /\ x = "CAPTURED"
      /\ child = [child EXCEPT ![c][p] = x]
  BY <1>1, <1>2, <1>3 DEF ChildStatus, CallerOK, SlotSeen, SlotTaken, InnerFacts
<1>a. SetRow(t, "EXITED") => child' = [child EXCEPT ![c][p] = "EXITED"]
  BY <1>f DEF SetRow
<1>6. ASSUME NEW o \in Outcomes, Ended(t, o), SetRow(t, "EXITED") \/ UNCHANGED child
      PROVE  QInv'
  <2>1. task' = [task EXCEPT ![t] = [task[t] EXCEPT !.pc = "settle", !.out = o]]
    BY <1>6 DEF Ended, Update
  <2>2. PICK z \in ChildStatus : z # "SPAWNING" /\ z # "NONE"
                                 /\ child' = [child EXCEPT ![c][p] = z]
    BY <1>5, <1>6, <1>a
  <2>3. <<c, p>> \notin late
    BY <1>5
  <2> QED
    BY <1>1, <1>f, <1>4, <2>1, <2>2, <2>3, EndStep
<1>7. ASSUME task[t].phase < EXEC, SetRow(t, "EXITED"),
             Update(t, [task[t] EXCEPT !.pc = "ready", !.phase = @ + 1])
      PROVE  QInv'
  <2>1. PICK r : r = [task[t] EXCEPT !.pc = "ready", !.phase = task[t].phase + 1]
    OBVIOUS
  <2>2. task[t] \in TaskType
    BY <1>1, Holder
  <2>a. task[t].phase + 1 \in Phases /\ "ready" \in Pcs
    BY <1>7, <2>2 DEF TaskType, Pcs, Phases, VERSION, LOGIN, EXEC
  <2>3. r \in TaskType /\ r.pc = "ready" /\ r.call = task[t].call
    BY <2>1, <2>2, <2>a DEF TaskType
  <2>4. task' = [task EXCEPT ![t] = r]
    BY <1>7, <2>1, <2>2 DEF Update, TaskType
  <2>5. child' = [child EXCEPT ![c][p] = "EXITED"] /\ r.pc \in InCall
    BY <1>7, <1>a, <2>3 DEF InCall
  <2>6. "EXITED" \in ChildStatus /\ <<c, p>> \notin late
    BY <1>5
  <2> QED
    BY <1>1, <1>f, <1>4, <2>3, <2>4, <2>5, <2>6, SlotStep
<1>8. /\ {"FAILED", "INVALID_OUTPUT", "RATE_LIMITED", "AUTH_REQUIRED"} \cup Escapes
            \subseteq Outcomes
      /\ Outcomes \ {"TIMED_OUT", "CANCELLED"} \subseteq Outcomes
      /\ Escapes \subseteq Outcomes
  BY DEF Outcomes, RetryableCodes, TerminalCodes, Unsettled, Escapes
<1>9. \/ \E o \in Outcomes : /\ Ended(t, o)
                             /\ SetRow(t, "EXITED") \/ UNCHANGED child
      \/ /\ task[t].phase < EXEC /\ SetRow(t, "EXITED")
         /\ Update(t, [task[t] EXCEPT !.pc = "ready", !.phase = @ + 1])
  BY <1>8 DEF Reap
<1> QED
  BY <1>6, <1>7, <1>9


-----------------------------------------------------------------------------
(* Processes that start or end without their caller.                       *)

(* No caller is working on slot <<c, p>>, unless the row stays as it is.   *)
Untouched(c, p, x) ==
    \A t \in Tasks :
        /\ task[t].pc \in {"spawn", "drain", "child", "kill"}
        /\ task[t].call = c /\ task[t].phase = p
        => x = child[c][p]

(* A step that changes one slot nobody is working on, or only its process. *)
LEMMA ProcessStep ==
    ASSUME QInv, NEW c \in Calls, NEW p \in Phases,
           NEW x \in ChildStatus, NEW y \in OsStatus,
           child' = [child EXCEPT ![c][p] = x],
           os' = [os EXCEPT ![c][p] = y],
           late' \subseteq late,
           UNCHANGED <<call, attempt, up, gate, task>>,
           child[c][p] # "NONE", x # "NONE",
           Hot(c, p), Untouched(c, p, x)
    PROVE  QInv'
<1>1. TypeOK /\ LedgerOK
  BY DEF QInv
<1>a. /\ child' \in [Calls -> [Phases -> ChildStatus]] /\ child'[c][p] = x
      /\ \A d \in Calls, q \in Phases : d # c \/ q # p => child'[d][q] = child[d][q]
  BY <1>1 DEF TypeOK
<1>b. /\ os' \in [Calls -> [Phases -> OsStatus]] /\ os'[c][p] = y
      /\ \A d \in Calls, q \in Phases : d # c \/ q # p => os'[d][q] = os[d][q]
  BY <1>1 DEF TypeOK
<1>2. \A d \in Calls, q \in Phases : Hot(d, q)' => Hot(d, q)
  BY <1>a, <1>b DEF Hot
<1>3. TypeOK'
  BY <1>1, <1>a, <1>b DEF TypeOK
<1>4. OneInFlight' /\ Unused' /\ DownOK'
  BY <1>1 DEF LedgerOK, OneInFlight, Unused, DownOK, QInv
<1>5. RowFirst'
  <2>1. SUFFICES ASSUME NEW d \in Calls, NEW q \in Phases, child'[d][q] = "NONE"
                 PROVE  os'[d][q] = "NONE" /\ <<d, q>> \notin late'
    BY DEF RowFirst
  <2>2. d # c \/ q # p
    BY <1>a, <2>1
  <2> QED
    BY <1>1, <1>a, <1>b, <2>1, <2>2 DEF LedgerOK, RowFirst
<1>6. HotInFlight' /\ HotOnce'
  BY <1>1, <1>2 DEF LedgerOK, HotInFlight, HotOnce
<1>7. NeverSpawned'
  <2>1. SUFFICES ASSUME NEW d \in Calls, attempt[d].status = "CODEX_NOT_SPAWNED"
                 PROVE  call[d] # "IN_FLIGHT" /\ \A q \in Phases : child'[d][q] = "NONE"
    BY DEF NeverSpawned
  <2>2. call[d] # "IN_FLIGHT" /\ \A q \in Phases : child[d][q] = "NONE"
    BY <1>1, <2>1 DEF LedgerOK, NeverSpawned
  <2> QED
    BY <1>a, <2>2
<1>8. ASSUME NEW t \in Tasks PROVE CallerOK(t, task[t])'
  <2>1. PICK r : r = task[t]
    OBVIOUS
  <2>2. CallerOK(t, r)
    BY <2>1 DEF QInv
  <2>3. HoldsCall(t, r)' /\ RetrySafe(r)'
    BY <2>2 DEF CallerOK, HoldsCall, RetrySafe, Settled
  <2>4. r.pc \in InCall => r.call \in Calls /\ r.phase \in Phases
    BY <2>1, Holder
  <2>5. SlotAsked(r)' /\ SlotSeen(r)'
    BY <1>a, <2>1, <2>2, <2>4 DEF CallerOK, SlotAsked, SlotSeen, InCall, Untouched
  <2>6. SlotTaken(r)'
    BY <1>2, <1>a, <2>1, <2>2, <2>4 DEF CallerOK, SlotTaken, InCall, Untouched
  <2>7. SlotsCold(r)'
    BY <1>2, <2>2, <2>4 DEF CallerOK, SlotsCold, Clean, InCall
  <2> QED
    BY <2>1, <2>2, <2>3, <2>5, <2>6, <2>7
       DEF CallerOK, HoldsCall, SlotAsked, SlotTaken, SlotSeen, SlotsCold, Clean,
           RetrySafe, Hot, Settled
<1> QED
  BY <1>3, <1>4, <1>5, <1>6, <1>7, <1>8 DEF QInv, LedgerOK

LEMMA ChildExitsStep ==
    ASSUME QInv, NEW c \in Calls, NEW p \in Phases, ChildExits(c, p)
    PROVE  QInv'
<1>1. TypeOK /\ LedgerOK
  BY DEF QInv
<1>2. PICK x \in ChildStatus : x = child[c][p] /\ child = [child EXCEPT ![c][p] = x]
  BY <1>1 DEF TypeOK
<1>3. /\ child' = [child EXCEPT ![c][p] = x]
      /\ os' = [os EXCEPT ![c][p] = "GONE"] /\ late' = late
      /\ UNCHANGED <<call, attempt, up, gate, task>>
  BY <1>2 DEF ChildExits, ledger
<1>4. child[c][p] # "NONE" /\ Hot(c, p) /\ "GONE" \in OsStatus
  BY <1>1 DEF LedgerOK, RowFirst, ChildExits, Hot, OsStatus
<1>5. Untouched(c, p, x) /\ x # "NONE" /\ late' \subseteq late
  BY <1>2, <1>3, <1>4 DEF Untouched
<1> QED
  BY <1>3, <1>4, <1>5, ProcessStep

LEMMA LateSpawnStep ==
    ASSUME QInv, NEW c \in Calls, NEW p \in Phases, LateSpawn(c, p)
    PROVE  QInv'
<1>1. TypeOK /\ LedgerOK
  BY DEF QInv
<1>2. PICK x \in ChildStatus : x = child[c][p] /\ child = [child EXCEPT ![c][p] = x]
  BY <1>1 DEF TypeOK
<1>3. /\ child' = [child EXCEPT ![c][p] = x]
      /\ os' = [os EXCEPT ![c][p] = "RUNNING"] /\ late' = late
      /\ UNCHANGED <<call, attempt, up, gate, task>>
  BY <1>2 DEF LateSpawn, ledger
<1>4. child[c][p] # "NONE" /\ Hot(c, p) /\ "RUNNING" \in OsStatus
  BY <1>1 DEF LedgerOK, RowFirst, LateSpawn, Abandoned, Hot, OsStatus
<1>5. Untouched(c, p, x) /\ x # "NONE" /\ late' \subseteq late
  BY <1>2, <1>3, <1>4 DEF Untouched
<1> QED
  BY <1>3, <1>4, <1>5, ProcessStep

LEMMA LateCleanupStep ==
    ASSUME QInv, NEW c \in Calls, NEW p \in Phases, LateCleanup(c, p)
    PROVE  QInv'
<1>1. TypeOK /\ LedgerOK
  BY DEF QInv
<1>2. PICK y \in OsStatus : y = os[c][p] /\ os = [os EXCEPT ![c][p] = y]
  BY <1>1 DEF TypeOK
<1>3. /\ child[c][p] = "SPAWNING" /\ Hot(c, p) /\ <<c, p>> \in late
      /\ UNCHANGED <<call, attempt, up, gate, task>>
  BY DEF LateCleanup, Abandoned, Hot
<1>4. ASSUME NEW t \in Tasks, task[t].pc \in {"spawn", "drain", "child", "kill"}
      PROVE  task[t].call # c \/ task[t].phase # p
  <2>1. CallerOK(t, task[t])
    BY DEF QInv
  <2> QED
    BY <1>3, <1>4, <2>1 DEF CallerOK, SlotSeen, SlotTaken, LateCleanup, Abandoned, Slot
<1>5. /\ "EXITED" \in ChildStatus /\ "CAPTURED" \in ChildStatus
      /\ "GONE" \in OsStatus /\ child[c][p] # "NONE"
      /\ Untouched(c, p, "EXITED") /\ Untouched(c, p, "CAPTURED")
  BY <1>3, <1>4 DEF ChildStatus, OsStatus, Untouched
<1>6. CASE /\ child' = [child EXCEPT ![c][p] = "EXITED"]
           /\ os' = [os EXCEPT ![c][p] = "GONE"]
           /\ late' = late \ {<<c, p>>}
  BY <1>3, <1>5, <1>6, ProcessStep
<1>7. CASE child' = [child EXCEPT ![c][p] = "CAPTURED"] /\ UNCHANGED <<os, late>>
  <2>1. os' = [os EXCEPT ![c][p] = y] /\ late' = late
    BY <1>2, <1>7
  <2> QED
    BY <1>3, <1>5, <1>7, <2>1, ProcessStep
<1> QED
  BY <1>6, <1>7 DEF LateCleanup

-----------------------------------------------------------------------------
(* Callers outside a call.                                                 *)

(* A record outside a call is fine if its last call is settled or the      *)
(* caller is not told to retry.                                            *)
LEMMA OutsideOK ==
    ASSUME NEW t \in Tasks, NEW r, r.pc \notin InCall, RetrySafe(r),
           r.pc = "backoff" => r.tries <= MaxRetries
    PROVE  CallerOK(t, r)
BY DEF CallerOK, HoldsCall, SlotAsked, SlotTaken, SlotSeen, SlotsCold, Clean, InCall

LEMMA NoTaskType ==
    /\ NoTask \in TaskType
    /\ NoTask.pc = "idle" /\ NoTask.call = 0 /\ NoTask.retryable = FALSE
    /\ "queue" \in Pcs /\ 1 \in 0..(MaxRetries + 1)
<1>1. "idle" \in Pcs /\ "queue" \in Pcs
  BY DEF Pcs
<1>2. /\ 0 \in 0..MaxCalls /\ 0 \in 0..(MaxRetries + 1)
      /\ 1 \in 0..(MaxRetries + 1)
  OBVIOUS
<1>3. VERSION \in Phases /\ FALSE \in BOOLEAN
  BY DEF Phases
<1>4. "FAILED" \in Outcomes /\ "TIMED_OUT" \in Outcomes
  BY DEF Outcomes, RetryableCodes
<1>5. "NONE" \in ReturnCodes
  BY DEF ReturnCodes
<1> QED
  BY <1>1, <1>2, <1>3, <1>4, <1>5 DEF NoTask, TaskType

(* The record of a caller to whom call() returned.                         *)
LEMMA ReturnedType ==
    ASSUME NEW t \in Tasks, task[t] \in TaskType, NEW code \in ReturnCodes,
           NEW b \in BOOLEAN
    PROVE  \A r : r = Returned(t, code, b) =>
              /\ r \in TaskType
              /\ r.pc = "idle" /\ r.call = task[t].call /\ r.retryable = b
<1>1. PICK c : c = task[t].call
  OBVIOUS
<1>2. c \in 0..MaxCalls
  BY <1>1 DEF TaskType
<1>3. PICK n : n = NoTask
  OBVIOUS
<1>4. n \in TaskType /\ n.pc = "idle"
  BY <1>3, NoTaskType
<1>5. SUFFICES ASSUME NEW r, r = [n EXCEPT !.call = c, !.code = code, !.retryable = b]
      PROVE  r \in TaskType /\ r.pc = "idle" /\ r.call = c /\ r.retryable = b
  BY <1>1, <1>3 DEF Returned
<1> QED
  BY <1>2, <1>4, <1>5 DEF TaskType

LEMMA TaskTyped ==
    ASSUME QInv, NEW t \in Tasks
    PROVE  task[t] \in TaskType /\ CallerOK(t, task[t]) /\ TypeOK /\ LedgerOK /\ DownOK
BY DEF QInv, TypeOK

LEMMA StartCallStep ==
    ASSUME QInv, NEW t \in Tasks, StartCall(t)
    PROVE  QInv'
<1>1. PICK r : r = [NoTask EXCEPT !.pc = "queue", !.tries = 1]
  OBVIOUS
<1>2. r \in TaskType /\ r.pc = "queue" /\ r.call = 0
  <2>1. PICK n : n = NoTask
    OBVIOUS
  <2>2. n \in TaskType /\ n.call = 0
    BY <2>1, NoTaskType
  <2>3. r = [n EXCEPT !.pc = "queue", !.tries = 1]
    BY <1>1, <2>1
  <2> QED
    BY <2>2, <2>3, NoTaskType DEF TaskType
<1>3. CallerOK(t, r)
  BY <1>2, OutsideOK DEF RetrySafe, InCall
<1> QED
  BY <1>1, <1>2, <1>3, TaskOnly DEF StartCall, Update, At, ledger

LEMMA ExpireStep ==
    ASSUME QInv, NEW t \in Tasks, Expire(t)
    PROVE  QInv'
<1>1. PICK r : r = [task[t] EXCEPT !.expired = TRUE]
  OBVIOUS
<1>2. /\ r \in TaskType
      /\ r.pc = task[t].pc /\ r.call = task[t].call /\ r.phase = task[t].phase
      /\ r.out = task[t].out /\ r.tries = task[t].tries
      /\ r.retryable = task[t].retryable
  BY <1>1, TaskTyped DEF TaskType
<1>3. CallerOK(t, r)
  BY <1>2, TaskTyped DEF CallerOK, HoldsCall, SlotAsked, SlotTaken, SlotSeen,
                         SlotsCold, Clean, RetrySafe
<1> QED
  BY <1>1, <1>2, <1>3, TaskOnly DEF Expire, Update, ledger

LEMMA RefusedStep ==
    ASSUME QInv, NEW t \in Tasks, Refused(t)
    PROVE  QInv'
<1>1. task[t] \in TaskType /\ CallerOK(t, task[t]) /\ task[t].pc = "queue" /\ up
  BY TaskTyped DEF Refused, At
<1>2. PICK code \in ReturnCodes, b \in BOOLEAN :
         task' = [task EXCEPT ![t] = Returned(t, code, b)]
  <2>1. InFlightCode \in ReturnCodes /\ task[t].last \in ReturnCodes
    BY <1>1 DEF ReturnCodes, TaskType
  <2>2. BudgetFailure \in ReturnCodes
    BY DEF BudgetFailure, ReturnCodes, BudgetCodes
  <2>3. FinalRetryable(task[t].last) \in BOOLEAN
    BY DEF FinalRetryable
  <2> QED
    BY <2>1, <2>2, <2>3 DEF Refused, Update
<1>3. PICK r : r = Returned(t, code, b)
  OBVIOUS
<1>4. r \in TaskType /\ r.pc = "idle" /\ r.call = task[t].call
  BY <1>1, <1>3, ReturnedType
<1>5. CallerOK(t, r)
  BY <1>1, <1>4, OutsideOK DEF CallerOK, RetrySafe, InCall
<1> QED
  BY <1>1, <1>2, <1>3, <1>4, <1>5, TaskOnly DEF Refused, ledger

LEMMA CancelWaitingStep ==
    ASSUME QInv, NEW t \in Tasks, CancelWaiting(t)
    PROVE  QInv'
<1>1. task[t] \in TaskType /\ up
  BY TaskTyped DEF CancelWaiting, At
<1>2. PICK r : r = Returned(t, "CANCELLED", FALSE)
  OBVIOUS
<1>3. r \in TaskType /\ r.pc = "idle" /\ r.retryable = FALSE
  BY <1>1, <1>2, ReturnedType DEF ReturnCodes, Outcomes, Unsettled
<1>4. CallerOK(t, r)
  BY <1>3, OutsideOK DEF RetrySafe, InCall
<1> QED
  BY <1>1, <1>2, <1>3, <1>4, TaskOnly DEF CancelWaiting, Update, ledger

LEMMA RetryStep ==
    ASSUME QInv, NEW t \in Tasks, Retry(t)
    PROVE  QInv'
<1>1. /\ task[t] \in TaskType /\ CallerOK(t, task[t])
      /\ task[t].pc = "backoff" /\ up
  BY TaskTyped DEF Retry, At
<1>2. task[t].tries + 1 \in 0..(MaxRetries + 1) /\ "queue" \in Pcs
  BY <1>1 DEF CallerOK, TaskType, Pcs
<1>3. PICK r : r = [task[t] EXCEPT !.pc = "queue", !.tries = task[t].tries + 1]
  OBVIOUS
<1>4. r \in TaskType /\ r.pc = "queue" /\ r.call = task[t].call
  BY <1>1, <1>2, <1>3 DEF TaskType
<1>5. CallerOK(t, r)
  BY <1>1, <1>4, OutsideOK DEF CallerOK, RetrySafe, InCall
<1>6. task' = [task EXCEPT ![t] = r]
  BY <1>1, <1>3 DEF Retry, Update, TaskType
<1> QED
  BY <1>1, <1>4, <1>5, <1>6, TaskOnly DEF Retry, ledger

-----------------------------------------------------------------------------
(* The beginning and the end of a call.                                    *)

LEMMA BeginStep ==
    ASSUME QInv, NEW t \in Tasks, Begin(t)
    PROVE  QInv'
<1>0. TypeOK /\ LedgerOK /\ task[t] \in TaskType /\ InFlight = {} /\ gate = Nobody
      /\ up /\ UNCHANGED <<attempt, child, os, up, late>> /\ gate' = t
  BY TaskTyped DEF Begin, At, MayBegin
<1>1. PICK c \in Calls :
         /\ call[c] = "NONE" /\ call' = [call EXCEPT ![c] = "IN_FLIGHT"]
         /\ Update(t, [task[t] EXCEPT !.pc = "ready", !.call = c, !.phase = VERSION])
  BY DEF Begin
<1>2. PICK r : r = [task[t] EXCEPT !.pc = "ready", !.call = c, !.phase = VERSION]
  OBVIOUS
<1>3. r \in TaskType /\ r.pc = "ready" /\ r.call = c
  <2>1. "ready" \in Pcs /\ VERSION \in Phases /\ c \in 0..MaxCalls
    BY DEF Pcs, Phases, Calls
  <2> QED
    BY <1>0, <1>2, <2>1 DEF TaskType
<1>4. /\ call' \in [Calls -> CallStatus] /\ call'[c] = "IN_FLIGHT"
      /\ \A d \in Calls : d # c => call'[d] = call[d]
      /\ \A d \in Calls : call[d] # "IN_FLIGHT"
  BY <1>0, <1>1 DEF TypeOK, CallStatus, InFlight
<1>5. \A d \in Calls, q \in Phases : ~Hot(d, q) /\ ~Hot(d, q)'
  BY <1>0, <1>4 DEF LedgerOK, HotInFlight, Hot
<1>6. CallerOK(t, r)'
  BY <1>0, <1>3, <1>4, <1>5 DEF CallerOK, HoldsCall, SlotAsked, SlotTaken, SlotSeen,
                      SlotsCold, RetrySafe
<1>7. ASSUME NEW u \in Tasks \ {t}, NEW z, z = task[u] PROVE CallerOK(u, z)'
  <2>1. CallerOK(u, z) /\ z \in TaskType
    BY <1>0, <1>7 DEF QInv, TypeOK
  <2>2. z.pc \notin InCall
    BY <1>0, <2>1 DEF CallerOK, HoldsCall
  <2>3. \A d \in Calls : Settled(d) => Settled(d)'
    BY <1>1, <1>4 DEF Settled
  <2> QED
    BY <2>1, <2>2, <2>3, Bystander
<1>8. task' = [task EXCEPT ![t] = r]
  BY <1>1, <1>2 DEF Update
<1>9. /\ task' \in [Tasks -> TaskType]
      /\ \A u \in Tasks : CallerOK(u, task[u])'
  BY <1>0, <1>3, <1>6, <1>7, <1>8, Compose
<1>10. TypeOK'
  BY <1>0, <1>4, <1>9 DEF TypeOK
<1>11. OneInFlight' /\ Unused' /\ RowFirst' /\ HotInFlight' /\ HotOnce'
  BY <1>0, <1>4, <1>5 DEF LedgerOK, OneInFlight, Unused, RowFirst, HotInFlight, HotOnce
<1>12. NeverSpawned'
  BY <1>0, <1>1, <1>4 DEF LedgerOK, NeverSpawned, Unused
<1> QED
  BY <1>0, <1>9, <1>10, <1>11, <1>12 DEF QInv, LedgerOK, DownOK

LEMMA RecordStep ==
    ASSUME QInv, NEW t \in Tasks, Record(t)
    PROVE  QInv'
<1>0. /\ TypeOK /\ LedgerOK /\ task[t] \in TaskType /\ CallerOK(t, task[t])
      /\ up /\ UNCHANGED <<call, child, os, up, gate, late>>
      /\ task[t].pc = "settle" /\ task[t].pc \in InCall
  BY TaskTyped DEF Record, At, InCall
<1>1. PICK c \in Calls : c = task[t].call /\ call[c] = "IN_FLIGHT"
  BY <1>0, Holder
<1>2. PICK n \in 0..MaxUse, o \in Outcomes :
         o = task[t].out /\ attempt' = [attempt EXCEPT ![c] = [status |-> o, tokens |-> n]]
  BY <1>0, <1>1 DEF Record, TaskType
<1>3. PICK a : a = [status |-> o, tokens |-> n]
  OBVIOUS
<1>4. a \in [status : AttemptStatus, tokens : 0..MaxUse] /\ a.status = o
  BY <1>3 DEF AttemptStatus
<1>5. o # "CODEX_NOT_SPAWNED"
  BY DEF Outcomes, RetryableCodes, TerminalCodes, Unsettled
<1>6. /\ attempt' \in [Calls -> [status : AttemptStatus, tokens : 0..MaxUse]]
      /\ attempt'[c] = a /\ \A d \in Calls : d # c => attempt'[d] = attempt[d]
  BY <1>0, <1>2, <1>3, <1>4 DEF TypeOK
<1>7. PICK r : r = [task[t] EXCEPT !.pc = "recorded"]
  OBVIOUS
<1>8. /\ r \in TaskType /\ r.pc = "recorded" /\ r.call = task[t].call
      /\ r.phase = task[t].phase /\ r.out = task[t].out
  BY <1>0, <1>7 DEF TaskType, Pcs
<1>9. CallerOK(t, r)'
  BY <1>0, <1>8 DEF CallerOK, HoldsCall, SlotAsked, SlotTaken, SlotSeen,
                    SlotsCold, Clean, RetrySafe, Hot, InCall
<1>10. ASSUME NEW u \in Tasks \ {t}, NEW z, z = task[u] PROVE CallerOK(u, z)'
  <2>1. CallerOK(u, z) /\ z \in TaskType
    BY <1>0, <1>10 DEF QInv, TypeOK
  <2>2. z.pc \notin InCall
    BY <1>0, <1>10, OneCaller
  <2>3. \A d \in Calls : Settled(d) => Settled(d)'
    BY <1>0 DEF Settled
  <2> QED
    BY <2>1, <2>2, <2>3, Bystander
<1>11. task' = [task EXCEPT ![t] = r]
  BY <1>7 DEF Record, Goto, Update
<1>12. /\ task' \in [Tasks -> TaskType]
       /\ \A u \in Tasks : CallerOK(u, task[u])'
  BY <1>0, <1>8, <1>9, <1>10, <1>11, Compose
<1>13. TypeOK'
  BY <1>0, <1>6, <1>12 DEF TypeOK
<1>14. OneInFlight' /\ RowFirst' /\ HotInFlight' /\ HotOnce'
  BY <1>0 DEF LedgerOK, OneInFlight, RowFirst, HotInFlight, HotOnce, Hot
<1>15. NeverSpawned' /\ Unused'
  BY <1>0, <1>1, <1>4, <1>5, <1>6 DEF LedgerOK, NeverSpawned, Unused
<1> QED
  BY <1>0, <1>12, <1>13, <1>14, <1>15 DEF QInv, LedgerOK, DownOK

(* A caller leaves its call and the gate; the call is settled only after an*)
(* outcome that says its children are gone.                                *)
LEMMA SettleStep ==
    ASSUME QInv, NEW t \in Tasks, NEW r \in TaskType, NEW c \in Calls,
           NEW s \in {"IN_FLIGHT", "SAFE"},
           task[t].pc = "recorded", c = task[t].call,
           task' = [task EXCEPT ![t] = r], gate' = Nobody,
           call' = [call EXCEPT ![c] = s],
           UNCHANGED <<attempt, child, os, up, late>>,
           s = "SAFE" => task[t].out \notin Unsettled,
           r.pc \in {"idle", "backoff"}, r.call = c,
           r.pc = "backoff" => r.tries <= MaxRetries,
           r.pc = "backoff" \/ r.retryable => s = "SAFE"
    PROVE  QInv'
<1>0. /\ TypeOK /\ LedgerOK /\ task[t] \in TaskType /\ CallerOK(t, task[t])
      /\ up /\ task[t].pc \in InCall /\ call[c] = "IN_FLIGHT"
  <2>1. task[t].pc \in InCall
    BY DEF InCall
  <2> QED
    BY <2>1, TaskTyped, Holder
<1>1. /\ call' \in [Calls -> CallStatus] /\ call'[c] = s
      /\ \A d \in Calls : d # c => call'[d] = call[d]
  BY <1>0 DEF TypeOK, CallStatus
<1>2. s = "SAFE" => \A q \in Phases : ~Hot(c, q)
  BY <1>0 DEF CallerOK, SlotsCold, Clean
<1>3. \A d \in Calls, q \in Phases : Hot(d, q)' => Hot(d, q)
  BY DEF Hot
<1>4. CallerOK(t, r)'
  <2>1. RetrySafe(r)'
    BY <1>1 DEF RetrySafe, Settled
  <2> QED
    BY <2>1 DEF CallerOK, HoldsCall, SlotAsked, SlotTaken, SlotSeen, SlotsCold,
                Clean, InCall
<1>5. ASSUME NEW u \in Tasks \ {t}, NEW z, z = task[u] PROVE CallerOK(u, z)'
  <2>1. CallerOK(u, z) /\ z \in TaskType
    BY <1>0, <1>5 DEF QInv, TypeOK
  <2>2. z.pc \notin InCall
    BY <1>0, <1>5, OneCaller
  <2>3. \A d \in Calls : Settled(d) => Settled(d)'
    BY <1>0, <1>1 DEF Settled
  <2> QED
    BY <2>1, <2>2, <2>3, Bystander
<1>6. /\ task' \in [Tasks -> TaskType]
      /\ \A u \in Tasks : CallerOK(u, task[u])'
  BY <1>0, <1>4, <1>5, Compose
<1>7. TypeOK'
  BY <1>0, <1>1, <1>6 DEF TypeOK
<1>8. OneInFlight' /\ Unused' /\ RowFirst'
  BY <1>0, <1>1 DEF LedgerOK, OneInFlight, Unused, RowFirst
<1>9. HotInFlight' /\ HotOnce'
  BY <1>0, <1>1, <1>2, <1>3 DEF LedgerOK, HotInFlight, HotOnce
<1>10. NeverSpawned'
  BY <1>0, <1>1 DEF LedgerOK, NeverSpawned
<1> QED
  BY <1>0, <1>6, <1>7, <1>8, <1>9, <1>10 DEF QInv, LedgerOK, DownOK

LEMMA SucceedStep ==
    ASSUME QInv, NEW t \in Tasks, Succeed(t)
    PROVE  QInv'
<1>0. /\ task[t] \in TaskType /\ task[t].pc = "recorded" /\ task[t].pc \in InCall
  BY TaskTyped DEF Succeed, At, InCall
<1>1. PICK c \in Calls : c = task[t].call
  BY <1>0, Holder
<1>b. PICK b \in BOOLEAN : b = FALSE
  OBVIOUS
<1>2. PICK r : r = Returned(t, "SUCCEEDED", b)
  OBVIOUS
<1>3. "SUCCEEDED" \in ReturnCodes /\ "SUCCEEDED" \notin Unsettled
  BY DEF ReturnCodes, Outcomes, Unsettled
<1>4. r \in TaskType /\ r.pc = "idle" /\ r.call = c /\ r.retryable = b
  BY <1>0, <1>1, <1>2, <1>3, ReturnedType
<1>5. /\ task' = [task EXCEPT ![t] = r] /\ gate' = Nobody
      /\ call' = [call EXCEPT ![c] = "SAFE"]
      /\ UNCHANGED <<attempt, child, os, up, late>>
      /\ task[t].out \notin Unsettled
  BY <1>1, <1>b, <1>2, <1>3 DEF Succeed, MarkSafe, Update
<1> QED
  BY <1>0, <1>1, <1>b, <1>4, <1>5, SettleStep

LEMMA LeaveInFlightStep ==
    ASSUME QInv, NEW t \in Tasks, LeaveInFlight(t)
    PROVE  QInv'
<1>0. /\ task[t] \in TaskType /\ task[t].pc = "recorded" /\ task[t].pc \in InCall
      /\ TypeOK
  BY TaskTyped DEF LeaveInFlight, At, InCall
<1>1. PICK c \in Calls : c = task[t].call /\ call[c] = "IN_FLIGHT"
  BY <1>0, Holder
<1>2. PICK code \in ReturnCodes : code = UnsettledCode(task[t].out)
  BY DEF LeaveInFlight, UnsettledCode, ReturnCodes, Outcomes
<1>b. PICK b \in BOOLEAN : b = FALSE
  OBVIOUS
<1>3. PICK r : r = Returned(t, code, b)
  OBVIOUS
<1>4. r \in TaskType /\ r.pc = "idle" /\ r.call = c /\ r.retryable = b
  BY <1>0, <1>1, <1>3, ReturnedType
<1>5. /\ task' = [task EXCEPT ![t] = r] /\ gate' = Nobody
      /\ UNCHANGED <<attempt, child, os, up, late>>
  BY <1>b, <1>2, <1>3 DEF LeaveInFlight, Update, UnsettledRetryable, ledger
<1>6. call' = [call EXCEPT ![c] = "IN_FLIGHT"]
  BY <1>0, <1>1 DEF LeaveInFlight, ledger, TypeOK
<1> QED
  BY <1>0, <1>1, <1>b, <1>4, <1>5, <1>6, SettleStep

LEMMA FailStep ==
    ASSUME QInv, NEW t \in Tasks, Fail(t)
    PROVE  QInv'
<1>0. /\ task[t] \in TaskType /\ task[t].pc = "recorded" /\ task[t].pc \in InCall
  BY TaskTyped DEF Fail, At, InCall
<1>1. PICK c \in Calls : c = task[t].call
  BY <1>0, Holder
<1>2. /\ gate' = Nobody /\ call' = [call EXCEPT ![c] = "SAFE"]
      /\ UNCHANGED <<attempt, child, os, up, late>>
      /\ task[t].out \notin Unsettled
  BY <1>1 DEF Fail, MarkSafe, RetryableCodes, TerminalCodes, Unsettled
<1>3. CASE \E code \in ReturnCodes, b \in BOOLEAN :
              task' = [task EXCEPT ![t] = Returned(t, code, b)]
  <2>1. PICK code \in ReturnCodes, b \in BOOLEAN :
              task' = [task EXCEPT ![t] = Returned(t, code, b)]
    BY <1>3
  <2>2. PICK r : r = Returned(t, code, b)
    OBVIOUS
  <2>3. r \in TaskType /\ r.pc = "idle" /\ r.call = c
    BY <1>0, <1>1, <2>2, ReturnedType
  <2> QED
    BY <1>0, <1>1, <1>2, <2>1, <2>2, <2>3, SettleStep
<1>4. ASSUME Retryable(t),
             Update(t, [task[t] EXCEPT !.pc = "backoff", !.last = task[t].out])
      PROVE  QInv'
  <2>1. PICK r : r = [task[t] EXCEPT !.pc = "backoff", !.last = task[t].out]
    OBVIOUS
  <2>2. /\ r \in TaskType /\ r.pc = "backoff" /\ r.call = c
        /\ r.tries = task[t].tries
    BY <1>0, <1>1, <2>1 DEF TaskType, Pcs
  <2>3. r.tries <= MaxRetries /\ task' = [task EXCEPT ![t] = r]
    BY <1>4, <2>1, <2>2 DEF Retryable, Update
  <2> QED
    BY <1>0, <1>1, <1>2, <2>2, <2>3, SettleStep
<1>5. /\ BudgetFailure \in ReturnCodes /\ task[t].out \in ReturnCodes
      /\ FinalRetryable(task[t].out) \in BOOLEAN
  BY <1>0 DEF BudgetFailure, ReturnCodes, BudgetCodes, TaskType, FinalRetryable
<1> QED
  BY <1>3, <1>4, <1>5 DEF Fail, Update

-----------------------------------------------------------------------------
(* The process and its successors.                                         *)

LEMMA CrashStep ==
    ASSUME QInv, Crash
    PROVE  QInv'
<1>0. /\ TypeOK /\ LedgerOK /\ late' = {} /\ up' = FALSE /\ gate' = Nobody
      /\ task' = [t \in Tasks |-> NoTask] /\ UNCHANGED <<call, attempt, child, os>>
  BY DEF QInv, Crash, ledger
<1>1. PICK n \in TaskType : n = NoTask /\ n.pc = "idle" /\ n.call = 0
  BY NoTaskType
<1>2. task' \in [Tasks -> TaskType] /\ \A t \in Tasks : task'[t] = n
  BY <1>0, <1>1
<1>3. ASSUME NEW t \in Tasks PROVE CallerOK(t, task[t])'
  BY <1>1, <1>2 DEF CallerOK, HoldsCall, SlotAsked, SlotTaken, SlotSeen, SlotsCold,
                    Clean, RetrySafe, InCall
<1>4. TypeOK'
  BY <1>0, <1>2 DEF TypeOK
<1>5. LedgerOK'
  BY <1>0, ZenonT(40) DEF LedgerOK, OneInFlight, Unused, RowFirst, HotInFlight, HotOnce,
                        NeverSpawned, Hot
<1>6. DownOK'
  BY <1>0, <1>1, <1>2 DEF DownOK
<1> QED
  BY <1>3, <1>4, <1>5, <1>6 DEF QInv

(* While no process runs, the call in flight is resolved: none of its      *)
(* children runs or was only asked for.                                    *)
LEMMA ResolveStep ==
    ASSUME QInv, ~up, NEW c \in Calls, call[c] = "IN_FLIGHT",
           NEW a \in [status : AttemptStatus, tokens : 0..MaxUse],
           attempt' = [attempt EXCEPT ![c] = a],
           call' = [call EXCEPT ![c] = "CONFIRMED"],
           child' \in [Calls -> [Phases -> ChildStatus]],
           \A d \in Calls : d # c => child'[d] = child[d],
           \A p \in Phases : child'[c][p] = "NONE" => child[c][p] = "NONE",
           \A p \in Phases : child'[c][p] # "SPAWNING" /\ os[c][p] # "RUNNING",
           a.status = "CODEX_NOT_SPAWNED" => \A p \in Phases : child'[c][p] = "NONE",
           up' \in BOOLEAN, UNCHANGED <<os, gate, late, task>>
    PROVE  QInv'
<1>0. TypeOK /\ LedgerOK /\ late = {} /\ late' = {} /\ DownOK
      /\ \A t \in Tasks : task[t].pc = "idle"
  BY DEF QInv, DownOK
<1>1. /\ call' \in [Calls -> CallStatus] /\ call'[c] = "CONFIRMED"
      /\ \A d \in Calls : d # c => call'[d] = call[d]
  BY <1>0 DEF TypeOK, CallStatus
<1>2. /\ attempt' \in [Calls -> [status : AttemptStatus, tokens : 0..MaxUse]]
      /\ attempt'[c] = a /\ \A d \in Calls : d # c => attempt'[d] = attempt[d]
  BY <1>0 DEF TypeOK
<1>3. \A d \in Calls, q \in Phases : Hot(d, q)' => d # c /\ Hot(d, q)
  BY <1>0 DEF Hot
<1>4. TypeOK'
  BY <1>0, <1>1, <1>2 DEF TypeOK
<1>5. OneInFlight' /\ Unused' /\ NeverSpawned'
  BY <1>0, <1>1, <1>2 DEF LedgerOK, OneInFlight, Unused, NeverSpawned
<1>6. RowFirst'
  BY <1>0 DEF LedgerOK, RowFirst
<1>7. HotInFlight' /\ HotOnce'
  BY <1>0, <1>1, <1>3 DEF LedgerOK, HotInFlight, HotOnce
<1>8. \A d \in Calls : Settled(d) => Settled(d)'
  BY <1>1 DEF Settled
<1>9. ASSUME NEW t \in Tasks PROVE CallerOK(t, task[t])'
  <2>1. PICK r \in TaskType : r = task[t]
    BY <1>0 DEF TypeOK
  <2>2. CallerOK(t, r) /\ r.pc \notin InCall
    BY <1>0, <2>1 DEF QInv, InCall
  <2>3. CallerOK(t, r)'
    BY <1>8, <2>2, Bystander
  <2> QED
    BY <2>1, <2>3 DEF CallerOK, HoldsCall, SlotAsked, SlotTaken, SlotSeen,
                      SlotsCold, Clean, RetrySafe, Hot, Settled
<1> QED
  BY <1>0, <1>4, <1>5, <1>6, <1>7, <1>9 DEF QInv, LedgerOK, DownOK

LEMMA ResumeStep ==
    ASSUME QInv, Resume
    PROVE  QInv'
<1>0. ~up /\ up' = TRUE /\ UNCHANGED <<os, gate, late, task>> /\ TypeOK /\ LedgerOK
  BY DEF Resume, QInv
<1>1. CASE UNCHANGED ledger
  <2>1. TypeOK' /\ LedgerOK'
    BY <1>0, <1>1 DEF ledger, TypeOK, LedgerOK, OneInFlight, Unused, RowFirst,
                      HotInFlight, HotOnce, NeverSpawned, Hot
  <2>2. ASSUME NEW t \in Tasks PROVE CallerOK(t, task[t])'
    <3>1. CallerOK(t, task[t]) /\ task[t].pc = "idle"
      BY <1>0 DEF QInv, DownOK
    <3> QED
      BY <1>0, <1>1, <3>1 DEF CallerOK, HoldsCall, SlotAsked, SlotTaken, SlotSeen,
                   SlotsCold, Clean, RetrySafe, Settled, InCall, ledger
  <2> QED
    BY <1>0, <2>1, <2>2 DEF QInv, DownOK
<1>2. CASE \E c \in InFlight :
            /\ Unspawned(c)
            /\ attempt' = [attempt EXCEPT ![c] =
                             [status |-> "CODEX_NOT_SPAWNED", tokens |-> 0]]
            /\ call' = [call EXCEPT ![c] = "CONFIRMED"]
            /\ UNCHANGED child
  <2>1. PICK c \in Calls :
            /\ call[c] = "IN_FLIGHT" /\ Unspawned(c)
            /\ attempt' = [attempt EXCEPT ![c] =
                             [status |-> "CODEX_NOT_SPAWNED", tokens |-> 0]]
            /\ call' = [call EXCEPT ![c] = "CONFIRMED"]
            /\ UNCHANGED child
    BY <1>2 DEF InFlight
  <2>2. PICK a : a = [status |-> "CODEX_NOT_SPAWNED", tokens |-> 0]
    OBVIOUS
  <2>3. a \in [status : AttemptStatus, tokens : 0..MaxUse]
    BY <2>2 DEF AttemptStatus
  <2>4. \A p \in Phases : child[c][p] = "NONE" /\ os[c][p] = "NONE"
    BY <1>0, <2>1 DEF Unspawned, HasChildRow, LedgerOK, RowFirst
  <2>5. child' \in [Calls -> [Phases -> ChildStatus]] /\ child' = child
    BY <1>0, <2>1 DEF TypeOK
  <2>6. \A p \in Phases : child'[c][p] # "SPAWNING" /\ os[c][p] # "RUNNING"
    BY <2>4, <2>5
  <2>7. /\ attempt' = [attempt EXCEPT ![c] = a] /\ up' \in BOOLEAN
        /\ \A d \in Calls : d # c => child'[d] = child[d]
        /\ \A p \in Phases : child'[c][p] = "NONE" => child[c][p] = "NONE"
        /\ a.status = "CODEX_NOT_SPAWNED" => \A p \in Phases : child'[c][p] = "NONE"
    BY <1>0, <2>1, <2>2, <2>4, <2>5
  <2> QED
    BY <1>0, <2>1, <2>3, <2>5, <2>6, <2>7, ResolveStep
<1> QED
  BY <1>1, <1>2 DEF Resume

LEMMA ConfirmStep ==
    ASSUME QInv, Confirm
    PROVE  QInv'
<1>0. ~up /\ UNCHANGED <<os, up, gate, late, task>> /\ TypeOK /\ LedgerOK
  BY DEF Confirm, QInv
<1>1. PICK c \in Calls :
         /\ call[c] = "IN_FLIGHT" /\ ProvenStopped(c)
         /\ attempt' = [attempt EXCEPT ![c] = ConfirmedAttempt(c)]
         /\ call' = [call EXCEPT ![c] = "CONFIRMED"]
         /\ child' = [child EXCEPT ![c] = [p \in Phases |->
                        IF @[p] = "CAPTURED" THEN "EXITED" ELSE @[p]]]
  BY DEF Confirm, InFlight
<1>2. PICK a : a = ConfirmedAttempt(c)
  OBVIOUS
<1>3. /\ a \in [status : AttemptStatus, tokens : 0..MaxUse]
      /\ a.status # "CODEX_NOT_SPAWNED"
  <2>1. CASE Recorded(c)
    BY <1>0, <1>1, <1>2, <2>1 DEF ConfirmedAttempt, TypeOK, LedgerOK, NeverSpawned
  <2>2. CASE ~Recorded(c)
    <3>1. a = [status |-> "CODEX_USAGE_UNAVAILABLE", tokens |-> 0]
      BY <1>2, <2>2 DEF ConfirmedAttempt
    <3>2. "CODEX_USAGE_UNAVAILABLE" \in AttemptStatus /\ 0 \in 0..MaxUse
      BY DEF AttemptStatus
    <3> QED
      BY <3>1, <3>2
  <2> QED
    BY <2>1, <2>2
<1>4. PICK w : w = [p \in Phases |->
                      IF child[c][p] = "CAPTURED" THEN "EXITED" ELSE child[c][p]]
  OBVIOUS
<1>5. w \in [Phases -> ChildStatus]
  BY <1>0, <1>4 DEF TypeOK, ChildStatus
<1>6. child' = [child EXCEPT ![c] = w]
  BY <1>0, <1>1, <1>4 DEF TypeOK
<1>7. /\ child' \in [Calls -> [Phases -> ChildStatus]] /\ child'[c] = w
      /\ \A d \in Calls : d # c => child'[d] = child[d]
  BY <1>0, <1>5, <1>6 DEF TypeOK
<1>8. \A p \in Phases : child'[c][p] = "NONE" => child[c][p] = "NONE"
  BY <1>1, <1>4, <1>7 DEF ProvenStopped
<1>10. \A p \in Phases : child'[c][p] # "SPAWNING" /\ os[c][p] # "RUNNING"
  BY <1>1, <1>4, <1>7 DEF ProvenStopped
<1>9. up' \in BOOLEAN
  BY <1>0 DEF TypeOK
<1>a. attempt' = [attempt EXCEPT ![c] = a]
  BY <1>1, <1>2 DEF ConfirmedAttempt
<1>b. a.status = "CODEX_NOT_SPAWNED" => \A p \in Phases : child'[c][p] = "NONE"
  BY <1>3
<1>11. call[c] = "IN_FLIGHT" /\ call' = [call EXCEPT ![c] = "CONFIRMED"]
  BY <1>1
<1> QED
  BY <1>0, <1>3, <1>7, <1>8, <1>9, <1>a, <1>b, <1>10, <1>11,
     ResolveStep

-----------------------------------------------------------------------------
(* The inductive invariant.                                                *)

LEMMA InitQInv == Init => QInv
<1> SUFFICES ASSUME Init PROVE QInv
  OBVIOUS
<1>1. PICK n \in TaskType : n = NoTask /\ n.pc = "idle" /\ n.call = 0
  BY NoTaskType
<1>2. task \in [Tasks -> TaskType] /\ \A t \in Tasks : task[t] = n
  BY <1>1 DEF Init
<1>3. /\ call \in [Calls -> CallStatus] /\ \A c \in Calls : call[c] = "NONE"
      /\ late \subseteq Calls \X Phases /\ late = {}
      /\ up \in BOOLEAN /\ gate \in Tasks \cup {Nobody}
  BY DEF Init, CallStatus
<1>4. /\ attempt \in [Calls -> [status : AttemptStatus, tokens : 0..MaxUse]]
      /\ \A c \in Calls : attempt[c].status = "NONE"
  <2>1. PICK a : a = NoAttempt
    OBVIOUS
  <2>2. a \in [status : AttemptStatus, tokens : 0..MaxUse] /\ a.status = "NONE"
    <3>1. "NONE" \in AttemptStatus /\ 0 \in 0..MaxUse
      BY DEF AttemptStatus
    <3> QED
      BY <2>1, <3>1 DEF NoAttempt
  <2> QED
    BY <2>1, <2>2 DEF Init
<1>5. /\ child \in [Calls -> [Phases -> ChildStatus]]
      /\ os \in [Calls -> [Phases -> OsStatus]]
      /\ \A c \in Calls, p \in Phases : child[c][p] = "NONE" /\ os[c][p] = "NONE"
  BY DEF Init, ChildStatus, OsStatus
<1>6. TypeOK
  BY <1>2, <1>3, <1>4, <1>5 DEF TypeOK
<1>7. DownOK /\ LedgerOK
  BY <1>1, <1>2, <1>3, <1>4, <1>5 DEF DownOK, LedgerOK, OneInFlight, Unused, RowFirst,
       HotInFlight, HotOnce, NeverSpawned, Hot
<1>8. ASSUME NEW t \in Tasks PROVE CallerOK(t, task[t])
  BY <1>1, <1>2 DEF CallerOK, HoldsCall, SlotAsked, SlotTaken, SlotSeen, SlotsCold,
                    Clean, RetrySafe, InCall
<1> QED
  BY <1>6, <1>7, <1>8 DEF QInv

LEMMA Stutter == QInv /\ UNCHANGED vars => QInv'
BY DEF vars, QInv, TypeOK, DownOK, LedgerOK, OneInFlight, Unused, RowFirst,
       HotInFlight, HotOnce, NeverSpawned, Hot, CallerOK, HoldsCall, SlotAsked,
       SlotTaken, SlotSeen, SlotsCold, Clean, RetrySafe, Settled

LEMMA InterruptsStep ==
    ASSUME QInv, NEW t \in Tasks, TimeOut(t) \/ Cancel(t)
    PROVE  QInv'
<1>1. "TIMED_OUT" \in Outcomes /\ "CANCELLED" \in Outcomes
  BY DEF Outcomes, RetryableCodes, Unsettled
<1> QED
  BY <1>1, InterruptedStep DEF TimeOut, Cancel

LEMMA Inductive == QInv /\ [Next]_vars => QInv'
<1> SUFFICES ASSUME QInv, [Next]_vars PROVE QInv'
  OBVIOUS
<1>1. ASSUME NEW t \in Tasks, TaskStep(t) PROVE QInv'
  BY <1>1, StartCallStep, ExpireStep, RefusedStep, BeginStep, InnerFailsStep,
     IntentStep, OsSpawnStep, SpawnFailsStep, CaptureStep, ReapStep,
     InterruptsStep, CancelWaitingStep, KillTreeStep, KillFailsStep,
     DrainSpawnStep, DrainFailsStep, RecordStep, SucceedStep, LeaveInFlightStep,
     FailStep, RetryStep
     DEF TaskStep
<1>2. ASSUME NEW c \in Calls, NEW p \in Phases,
             ChildExits(c, p) \/ LateSpawn(c, p) \/ LateCleanup(c, p)
      PROVE  QInv'
  BY <1>2, ChildExitsStep, LateSpawnStep, LateCleanupStep
<1>3. CASE Crash \/ Resume \/ Confirm
  BY <1>3, CrashStep, ResumeStep, ConfirmStep
<1>4. CASE UNCHANGED vars
  BY <1>4, Stutter
<1> QED
  BY <1>1, <1>2, <1>3, <1>4 DEF Next

LEMMA QInvHolds == Spec => []QInv
BY InitQInv, Inductive, PTL DEF Spec

-----------------------------------------------------------------------------
(* Every variable of the ledger and every caller keeps its type, whatever  *)
(* crashes, times out or is confirmed; in particular call() never runs more*)
(* than _max_retries retries.                                              *)
THEOREM TypeCorrect == Spec => []TypeOK
<1>1. QInv => TypeOK
  BY DEF QInv
<1> QED
  BY <1>1, QInvHolds, PTL

(* A call is SAFE or CONFIRMED only when none of its children runs, none   *)
(* was only asked for and none can still appear late                       *)
(* (mark_codex_call_safe, _codex_cleanup_confirmation_valid).              *)
THEOREM StoppedBeforeSettledHolds == Spec => []StoppedBeforeSettled
<1>1. QInv => StoppedBeforeSettled
  BY DEF QInv, LedgerOK, HotInFlight, Hot, StoppedBeforeSettled, Settled
<1> QED
  BY <1>1, QInvHolds, PTL

(* At most one Codex child of the analysis runs at any time, over any      *)
(* number of callers, processes and crashes (begin_codex_call).            *)
THEOREM OneChildHolds == Spec => []OneChild
<1>1. QInv => OneChild
  <2>1. SUFFICES ASSUME QInv, NEW s \in Running, NEW r \in Running
                 PROVE  s = r
    BY DEF OneChild
  <2>2. PICK c \in Calls, p \in Phases : s = <<c, p>> /\ os[c][p] = "RUNNING"
    BY <2>1 DEF Running
  <2>3. PICK d \in Calls, q \in Phases : r = <<d, q>> /\ os[d][q] = "RUNNING"
    BY <2>1 DEF Running
  <2>4. c = d
    BY <2>1, <2>2, <2>3 DEF QInv, LedgerOK, HotInFlight, OneInFlight, Hot
  <2>5. p = q
    BY <2>1, <2>2, <2>3, <2>4 DEF QInv, LedgerOK, HotOnce, Hot
  <2> QED
    BY <2>2, <2>3, <2>4, <2>5
<1> QED
  BY <1>1, QInvHolds, PTL

(* A call reconciled as never spawned has no child row and never had a     *)
(* process (_reconcile_unspawned_codex_call_with_lease).                   *)
THEOREM NotSpawnedHolds == Spec => []NotSpawnedTruthful
<1>1. QInv => NotSpawnedTruthful
  BY DEF QInv, LedgerOK, NeverSpawned, RowFirst, NotSpawnedTruthful
<1> QED
  BY <1>1, QInvHolds, PTL

(* A caller told to retry has a settled last call, so a recovery of its    *)
(* stage starts beside no live child (RunLimitedClient.call).              *)
THEOREM RetryableHolds == Spec => []RetryableMeansSettled
<1>1. QInv => RetryableMeansSettled
  BY DEF QInv, CallerOK, RetrySafe, RetryableMeansSettled
<1> QED
  BY <1>1, QInvHolds, PTL

(* The rows of a settled call are what they were.                          *)
Kept(c) == call'[c] = call[c] /\ attempt'[c] = attempt[c] /\ child'[c] = child[c]

LEMMA FrozenStep ==
    ASSUME QInv, Next
    PROVE  \A c \in Calls : Settled(c) => Kept(c)
<1>0. TypeOK /\ LedgerOK
  BY DEF QInv
<1>1. ASSUME UNCHANGED ledger PROVE \A c \in Calls : Kept(c)
  BY <1>1 DEF ledger, Kept
<1>2. ASSUME NEW t \in Tasks, task[t].pc \in InCall
      PROVE  task[t].call \in Calls /\ ~Settled(task[t].call)
  BY <1>2, Holder DEF Settled
<1>3. ASSUME NEW t \in Tasks,
             Intent(t) \/ Capture(t) \/ Reap(t) \/ KillTree(t) \/ KillFails(t)
               \/ DrainSpawn(t) \/ DrainFails(t)
      PROVE  \A c \in Calls : Settled(c) => Kept(c)
  <2>1. /\ task[t].pc \in InCall /\ UNCHANGED <<call, attempt>>
        /\ child' = child \/ \E x : SetRow(t, x)
    BY <1>3 DEF Intent, Capture, Reap, KillTree, KillFails, DrainSpawn, DrainFails, At, InCall
  <2>2. PICK d \in Calls : d = task[t].call /\ ~Settled(d)
    BY <1>2, <2>1
  <2>3. \A c \in Calls : c # d => child'[c] = child[c]
    BY <1>0, <2>1, <2>2 DEF SetRow, TypeOK
  <2> QED
    BY <2>1, <2>2, <2>3 DEF Kept
<1>4. ASSUME NEW t \in Tasks, Begin(t)
      PROVE  \A c \in Calls : Settled(c) => Kept(c)
  <2>1. PICK d \in Calls : call[d] = "NONE" /\ call' = [call EXCEPT ![d] = "IN_FLIGHT"]
    BY <1>4 DEF Begin
  <2> QED
    BY <1>0, <1>4, <2>1 DEF Begin, Settled, Kept, TypeOK
<1>5. ASSUME NEW t \in Tasks, Record(t) \/ Succeed(t) \/ Fail(t)
      PROVE  \A c \in Calls : Settled(c) => Kept(c)
  <2>1. /\ task[t].pc \in InCall /\ child' = child
        /\ call' = call \/ call' = [call EXCEPT ![task[t].call] = "SAFE"]
        /\ \/ attempt' = attempt
           \/ \E a : attempt' = [attempt EXCEPT ![task[t].call] = a]
    BY <1>5 DEF Record, Succeed, Fail, MarkSafe, At, InCall
  <2>2. PICK d \in Calls : d = task[t].call /\ ~Settled(d)
    BY <1>2, <2>1
  <2> QED
    BY <1>0, <2>1, <2>2 DEF Kept, TypeOK
<1>6. ASSUME NEW c \in Calls, NEW p \in Phases, LateCleanup(c, p)
      PROVE  \A d \in Calls : Settled(d) => Kept(d)
  <2>1. ~Settled(c) /\ UNCHANGED <<call, attempt>>
    BY <1>0, <1>6 DEF LateCleanup, Abandoned, LedgerOK, HotInFlight, Hot, Settled
  <2>2. \A d \in Calls : d # c => child'[d] = child[d]
    BY <1>0, <1>6 DEF LateCleanup, TypeOK
  <2> QED
    BY <2>1, <2>2 DEF Kept
<1>7. ASSUME Resume \/ Confirm
      PROVE  \A c \in Calls : Settled(c) => Kept(c)
  <2>1. CASE Resume
    BY <1>0, <1>1, <2>1 DEF Resume, InFlight, Settled, Kept, TypeOK
  <2>2. CASE Confirm
    BY <1>0, <2>2 DEF Confirm, InFlight, Settled, Kept, TypeOK
  <2> QED
    BY <1>7, <2>1, <2>2
<1>8. ASSUME NEW t \in Tasks,
             \/ StartCall(t) \/ Expire(t) \/ Refused(t) \/ InnerFails(t) \/ OsSpawn(t)
             \/ SpawnFails(t) \/ TimeOut(t) \/ Cancel(t) \/ CancelWaiting(t)
             \/ LeaveInFlight(t) \/ Retry(t)
      PROVE  UNCHANGED ledger
  BY <1>8 DEF StartCall, Expire, Refused, InnerFails, OsSpawn, SpawnFails, TimeOut,
              Cancel, Interrupted, CancelWaiting, LeaveInFlight, Retry
<1>9. ASSUME NEW t \in Tasks, TaskStep(t)
      PROVE  \A c \in Calls : Settled(c) => Kept(c)
  BY <1>1, <1>3, <1>4, <1>5, <1>8, <1>9 DEF TaskStep
<1>10. ASSUME NEW c \in Calls, NEW p \in Phases, ChildExits(c, p) \/ LateSpawn(c, p)
       PROVE  UNCHANGED ledger
  BY <1>10 DEF ChildExits, LateSpawn
<1>11. CASE Crash
  BY <1>1, <1>11 DEF Crash
<1> QED
  BY <1>1, <1>6, <1>7, <1>9, <1>10, <1>11 DEF Next

(* Once a call is settled its ledger rows never change again: no late      *)
(* spawn, retry, crash or second confirmation rewrites the audit trail     *)
(* (simple_codex_calls, simple_llm_attempts, simple_codex_child_spawns).   *)
THEOREM SettledStaysFrozen == Spec => SettledFrozen
<1>1. QInv /\ [Next]_vars
        => [\A c \in Calls : Settled(c) =>
              call'[c] = call[c] /\ attempt'[c] = attempt[c] /\ child'[c] = child[c]]_vars
  BY FrozenStep DEF Kept
<1> QED
  BY <1>1, QInvHolds, PTL DEF Spec, SettledFrozen

-----------------------------------------------------------------------------
(* Spending.  An attempt row is written exactly when its caller has passed *)
(* the record step, so a call that is SAFE has one; ids are drawn in order *)
(* and only when nothing is in flight, so whatever is behind a reserved    *)
(* call is settled, and frozen.                                            *)

RecordedOK == \A t \in Tasks : task[t].pc \in InCall =>
                 (Recorded(task[t].call) <=> task[t].pc = "recorded")
SafeOK  == \A c \in Calls : call[c] = "SAFE" => Recorded(c)
OrderOK == \A c, d \in Calls : c < d /\ call[d] # "NONE" => Settled(c)

(* While a call is in flight and not recorded, the ceiling is not reached. *)
SpendOK == MaxTokens # Unlimited =>
              /\ Tokens < MaxTokens + MaxUse
              /\ \A c \in Calls : call[c] = "IN_FLIGHT" /\ ~Recorded(c) => Tokens < MaxTokens

SpendInv == QInv /\ RecordedOK /\ SafeOK /\ OrderOK /\ NoBlindCall /\ SpendOK

(* What a step does to the ledger rows that spending is about.             *)
Quiet == UNCHANGED <<call, attempt>>
Reserves(t, d) ==
    /\ call[d] = "NONE" /\ \A c \in Calls : c < d => call[c] # "NONE"
    /\ InFlight = {} /\ BudgetFailure = "NONE"
    /\ call' = [call EXCEPT ![d] = "IN_FLIGHT"] /\ UNCHANGED attempt
    /\ \E r \in TaskType : r.call = d /\ r.pc = "ready" /\ Update(t, r)
Records(t, d) ==
    /\ task[t].pc = "settle" /\ d = task[t].call
    /\ UNCHANGED call
    /\ \E a : /\ a.status # "NONE" /\ a.tokens \in 0..MaxUse
              /\ attempt' = [attempt EXCEPT ![d] = a]
    /\ \E r \in TaskType : r.call = d /\ r.pc = "recorded" /\ Update(t, r)
Saves(t, d) ==
    /\ task[t].pc = "recorded" /\ d = task[t].call
    /\ call' = [call EXCEPT ![d] = "SAFE"] /\ UNCHANGED attempt
Resolves(d) ==
    /\ ~up /\ d \in InFlight
    /\ call' = [call EXCEPT ![d] = "CONFIRMED"]
    /\ \E a : /\ a.status # "NONE" /\ (a.tokens = 0 \/ a.tokens = attempt[d].tokens)
              /\ attempt' = [attempt EXCEPT ![d] = a]
    /\ UNCHANGED task

(* Every caller is outside a call afterwards, or goes on in its call on    *)
(* the same side of the record step.                                       *)
Moves(u) ==
    \/ task'[u].pc \notin InCall
    \/ /\ task[u].pc \in InCall /\ task'[u].call = task[u].call
       /\ task'[u].pc = "recorded" <=> task[u].pc = "recorded"
AllMove == \A u \in Tasks : Moves(u)

Spending == \/ Quiet /\ AllMove
            \/ \E t \in Tasks, d \in Calls :
                 Reserves(t, d) \/ Records(t, d) \/ (Saves(t, d) /\ AllMove)
            \/ \E d \in Calls : Resolves(d)

(* What the callers that do not move do.                                   *)
LEMMA OthersStay ==
    ASSUME QInv, NEW t \in Tasks, NEW r, task' = [task EXCEPT ![t] = r], Moves(t)
    PROVE  AllMove
<1>1. task \in [Tasks -> TaskType]
  BY DEF QInv, TypeOK
<1> QED
  BY <1>1 DEF AllMove, Moves

LEMMA LeavesCall ==
    ASSUME QInv, NEW t \in Tasks, NEW r, Update(t, r),
           r.pc \in {"idle", "queue", "backoff"}
    PROVE  AllMove
<1>1. task \in [Tasks -> TaskType]
  BY DEF QInv, TypeOK
<1>2. Moves(t)
  BY <1>1 DEF Moves, InCall, Update
<1> QED
  BY <1>2, OthersStay DEF Update

(* A caller inside its inner call.                                         *)
LEMMA InnerMoves ==
    ASSUME QInv, NEW t \in Tasks,
           \/ InnerFails(t) \/ Intent(t) \/ SpawnFails(t) \/ Capture(t) \/ Reap(t)
           \/ TimeOut(t) \/ Cancel(t) \/ KillTree(t) \/ KillFails(t) \/ DrainSpawn(t)
           \/ DrainFails(t)
    PROVE  Quiet /\ AllMove
<1>0. task[t] \in TaskType
  BY TaskTyped
<1>1. Quiet /\ task[t].pc \in InCall \ {"recorded"}
  BY DEF InnerFails, Intent, SpawnFails, Capture, Reap, TimeOut, Cancel, Interrupted,
         KillTree, KillFails, DrainSpawn, DrainFails, At, ledger, Quiet, InCall
<1>2. \/ \E p \in {"spawn", "child"} : Goto(t, p)
      \/ \E o \in Outcomes : Ended(t, o)
      \/ \E p \in {"kill", "drain"} : \E o \in Outcomes :
            Update(t, [task[t] EXCEPT !.pc = p, !.out = o])
      \/ \E n \in Phases : Update(t, [task[t] EXCEPT !.pc = "ready", !.phase = n])
  <2>1. CASE InnerFails(t) \/ Intent(t) \/ SpawnFails(t) \/ Capture(t) \/ KillFails(t)
               \/ DrainFails(t)
    BY <2>1 DEF InnerFails, Intent, SpawnFails, Capture, KillFails, DrainFails, Escapes,
                Outcomes, Unsettled, RetryableCodes
  <2>2. CASE KillTree(t) \/ DrainSpawn(t)
    BY <1>0, <2>2 DEF KillTree, DrainSpawn, TaskType
  <2>3. CASE TimeOut(t) \/ Cancel(t)
    BY <2>3 DEF TimeOut, Cancel, Interrupted, Outcomes, Unsettled, RetryableCodes
  <2>4. CASE Reap(t)
    <3>1. task[t].phase < EXEC => task[t].phase + 1 \in Phases
      BY <1>0 DEF TaskType, Phases, VERSION, LOGIN, EXEC
    <3>2. \/ /\ task[t].phase < EXEC
             /\ Update(t, [task[t] EXCEPT !.pc = "ready", !.phase = task[t].phase + 1])
          \/ \E o \in Outcomes : Ended(t, o)
      <4>1. {"FAILED", "INVALID_OUTPUT", "RATE_LIMITED", "AUTH_REQUIRED"} \cup Escapes
              \subseteq Outcomes
        BY DEF Escapes, Outcomes, Unsettled, RetryableCodes, TerminalCodes
      <4> QED
        BY <2>4, <4>1 DEF Reap
    <3> QED BY <3>1, <3>2
  <2> QED BY <2>1, <2>2, <2>3, <2>4
<1>3. PICK r \in TaskType : /\ r.pc \in {"spawn", "child", "kill", "drain", "ready", "settle"}
                            /\ r.call = task[t].call /\ Update(t, r)
  <2>1. {"spawn", "child", "kill", "drain", "ready", "settle"} \subseteq Pcs
    BY DEF Pcs
  <2>2. ASSUME NEW p \in {"spawn", "child"}, Goto(t, p)
        PROVE  \E r \in TaskType : /\ r.pc \in {"spawn", "child", "kill", "drain", "ready", "settle"}
                                   /\ r.call = task[t].call /\ Update(t, r)
    <3>1. PICK r : r = [task[t] EXCEPT !.pc = p] OBVIOUS
    <3>2. r \in TaskType /\ r.pc = p /\ r.call = task[t].call
      BY <1>0, <2>1, <3>1 DEF TaskType
    <3>3. Update(t, r) BY <2>2, <3>1 DEF Goto
    <3> QED BY <3>2, <3>3
  <2>3. ASSUME NEW p \in {"kill", "drain", "settle"}, NEW o \in Outcomes,
               Update(t, [task[t] EXCEPT !.pc = p, !.out = o])
        PROVE  \E r \in TaskType : /\ r.pc \in {"spawn", "child", "kill", "drain", "ready", "settle"}
                                   /\ r.call = task[t].call /\ Update(t, r)
    <3>1. PICK r : r = [task[t] EXCEPT !.pc = p, !.out = o] OBVIOUS
    <3>2. r \in TaskType /\ r.pc = p /\ r.call = task[t].call
      BY <1>0, <2>1, <3>1 DEF TaskType
    <3>3. Update(t, r) BY <2>3, <3>1
    <3> QED BY <3>2, <3>3
  <2>4. ASSUME NEW n \in Phases, Update(t, [task[t] EXCEPT !.pc = "ready", !.phase = n])
        PROVE  \E r \in TaskType : /\ r.pc \in {"spawn", "child", "kill", "drain", "ready", "settle"}
                                   /\ r.call = task[t].call /\ Update(t, r)
    <3>1. PICK r : r = [task[t] EXCEPT !.pc = "ready", !.phase = n] OBVIOUS
    <3>2. r \in TaskType /\ r.pc = "ready" /\ r.call = task[t].call
      BY <1>0, <2>1, <3>1 DEF TaskType
    <3>3. Update(t, r) BY <2>4, <3>1
    <3> QED BY <3>2, <3>3
  <2>5. CASE \E p \in {"spawn", "child"} : Goto(t, p)
    BY <2>2, <2>5
  <2>6. CASE \E o \in Outcomes : Ended(t, o)
    <3>1. PICK o \in Outcomes : Update(t, [task[t] EXCEPT !.pc = "settle", !.out = o])
      BY <2>6 DEF Ended
    <3> QED BY <2>3, <3>1
  <2>7. CASE \E p \in {"kill", "drain"} : \E o \in Outcomes :
               Update(t, [task[t] EXCEPT !.pc = p, !.out = o])
    BY <2>3, <2>7
  <2>8. CASE \E n \in Phases : Update(t, [task[t] EXCEPT !.pc = "ready", !.phase = n])
    BY <2>4, <2>8
  <2> QED
    BY <1>2, <2>5, <2>6, <2>7, <2>8
<1>4. Moves(t)
  BY <1>1, <1>3, TaskTyped DEF Moves, InCall, Update, TypeOK
<1> QED
  BY <1>1, <1>3, <1>4, OthersStay DEF Update

(* A caller to whom call() returns.                                        *)
LEMMA ReturnMoves ==
    ASSUME QInv, NEW t \in Tasks, NEW code, NEW b, Update(t, Returned(t, code, b))
    PROVE  AllMove
<1>1. PICK r : r = Returned(t, code, b)
  OBVIOUS
<1>2. r.pc = "idle"
  BY <1>1 DEF Returned, NoTask
<1> QED
  BY <1>1, <1>2, LeavesCall

(* A caller outside its inner call.                                        *)
LEMMA OuterMoves ==
    ASSUME QInv, NEW t \in Tasks,
           \/ StartCall(t) \/ Expire(t) \/ Refused(t) \/ CancelWaiting(t)
           \/ LeaveInFlight(t) \/ Retry(t)
    PROVE  Quiet /\ AllMove
<1>0. task[t] \in TaskType /\ task \in [Tasks -> TaskType]
  BY TaskTyped DEF TypeOK
<1>1. Quiet
  BY DEF StartCall, Expire, Refused, CancelWaiting, LeaveInFlight, Retry, ledger, Quiet
<1>2. CASE StartCall(t)
  <2>1. PICK r : r = [NoTask EXCEPT !.pc = "queue", !.tries = 1]
    OBVIOUS
  <2>2. r.pc = "queue"
    BY <2>1 DEF NoTask
  <2> QED
    BY <1>2, <2>1, <2>2, LeavesCall, <1>1 DEF StartCall
<1>3. CASE Retry(t)
  <2>1. PICK r : r = [task[t] EXCEPT !.pc = "queue", !.tries = task[t].tries + 1]
    OBVIOUS
  <2>2. r.pc = "queue"
    BY <1>0, <2>1 DEF TaskType
  <2>3. Update(t, r)
    BY <1>0, <1>3, <2>1 DEF Retry, Update, TaskType
  <2> QED
    BY <2>2, <2>3, LeavesCall, <1>1
<1>4. CASE Expire(t)
  <2>1. PICK r : r = [task[t] EXCEPT !.expired = TRUE]
    OBVIOUS
  <2>2. r.pc = task[t].pc /\ r.call = task[t].call
    BY <1>0, <2>1 DEF TaskType
  <2>3. task' = [task EXCEPT ![t] = r]
    BY <1>4, <2>1 DEF Expire, Update
  <2>4. Moves(t)
    BY <1>0, <2>2, <2>3 DEF Moves
  <2> QED
    BY <2>3, <2>4, OthersStay, <1>1
<1>5. CASE Refused(t)
  <2>1. PICK code, b : Update(t, Returned(t, code, b))
    BY <1>5 DEF Refused
  <2> QED
    BY <2>1, ReturnMoves, <1>1
<1>6. CASE CancelWaiting(t) \/ LeaveInFlight(t)
  <2>1. PICK code, b : Update(t, Returned(t, code, b))
    BY <1>6 DEF CancelWaiting, LeaveInFlight
  <2> QED
    BY <2>1, ReturnMoves, <1>1
<1> QED
  BY <1>2, <1>3, <1>4, <1>5, <1>6

(* A caller that resolves its call.                                        *)
LEMMA SavesCall ==
    ASSUME QInv, NEW t \in Tasks, Succeed(t) \/ Fail(t)
    PROVE  \E d \in Calls : Saves(t, d) /\ AllMove
<1>0. /\ task[t] \in TaskType /\ task[t].pc = "recorded" /\ task[t].pc \in InCall
  BY TaskTyped DEF Succeed, Fail, At, InCall
<1>1. PICK d \in Calls : d = task[t].call
  BY <1>0, Holder
<1>2. Saves(t, d)
  BY <1>0, <1>1 DEF Succeed, Fail, MarkSafe, Saves
<1>3. CASE \E code, b : Update(t, Returned(t, code, b))
  BY <1>2, <1>3, ReturnMoves
<1>4. CASE Update(t, [task[t] EXCEPT !.pc = "backoff", !.last = task[t].out])
  <2>1. PICK r : r = [task[t] EXCEPT !.pc = "backoff", !.last = task[t].out]
    OBVIOUS
  <2>2. r.pc = "backoff"
    BY <1>0, <2>1 DEF TaskType
  <2> QED
    BY <1>2, <1>4, <2>1, <2>2, LeavesCall
<1>5. \/ \E code, b : Update(t, Returned(t, code, b))
      \/ Update(t, [task[t] EXCEPT !.pc = "backoff", !.last = task[t].out])
  BY DEF Succeed, Fail
<1> QED
  BY <1>3, <1>4, <1>5

LEMMA ReservesCall ==
    ASSUME QInv, NEW t \in Tasks, Begin(t)
    PROVE  \E d \in Calls : Reserves(t, d)
<1>0. task[t] \in TaskType /\ InFlight = {} /\ BudgetFailure = "NONE" /\ UNCHANGED attempt
  BY TaskTyped DEF Begin, MayBegin
<1>1. PICK c \in Calls :
         /\ call[c] = "NONE" /\ \A d \in Calls : d < c => call[d] # "NONE"
         /\ call' = [call EXCEPT ![c] = "IN_FLIGHT"]
         /\ Update(t, [task[t] EXCEPT !.pc = "ready", !.call = c, !.phase = VERSION])
  BY DEF Begin
<1>2. PICK r : r = [task[t] EXCEPT !.pc = "ready", !.call = c, !.phase = VERSION]
  OBVIOUS
<1>3. r \in TaskType /\ r.pc = "ready" /\ r.call = c
  <2>1. "ready" \in Pcs /\ VERSION \in Phases /\ c \in 0..MaxCalls
    BY DEF Pcs, Phases, Calls
  <2> QED
    BY <1>0, <1>2, <2>1 DEF TaskType
<1>4. Update(t, r)
  BY <1>1, <1>2
<1> QED
  BY <1>0, <1>1, <1>3, <1>4 DEF Reserves

LEMMA RecordsCall ==
    ASSUME QInv, NEW t \in Tasks, Record(t)
    PROVE  \E d \in Calls : Records(t, d)
<1>0. /\ task[t] \in TaskType /\ task[t].pc = "settle" /\ task[t].pc \in InCall
      /\ UNCHANGED call
  BY TaskTyped DEF Record, At, InCall
<1>1. PICK d \in Calls : d = task[t].call
  BY <1>0, Holder
<1>2. PICK n \in 0..MaxUse : attempt' = [attempt EXCEPT ![task[t].call] =
                            [status |-> task[t].out, tokens |-> n]]
  BY DEF Record
<1>3. PICK a : a = [status |-> task[t].out, tokens |-> n]
  OBVIOUS
<1>4. a.status # "NONE" /\ a.tokens \in 0..MaxUse
  <2>1. "NONE" \notin Outcomes
    BY DEF Outcomes, RetryableCodes, TerminalCodes, Unsettled
  <2> QED
    BY <1>0, <1>2, <1>3, <2>1 DEF TaskType
<1>5. attempt' = [attempt EXCEPT ![d] = a]
  BY <1>1, <1>2, <1>3
<1>6. PICK r : r = [task[t] EXCEPT !.pc = "recorded"]
  OBVIOUS
<1>7. r \in TaskType /\ r.pc = "recorded" /\ r.call = d
  <2>1. "recorded" \in Pcs
    BY DEF Pcs
  <2> QED
    BY <1>0, <1>1, <1>6, <2>1 DEF TaskType
<1>8. Update(t, r)
  BY <1>6 DEF Record, Goto
<1> QED
  BY <1>0, <1>1, <1>4, <1>5, <1>7, <1>8 DEF Records

(* Recovery settles the call left in flight, or finds none.                *)
LEMMA RecoveryResolves ==
    ASSUME QInv, Resume \/ Confirm
    PROVE  \/ Quiet /\ AllMove
           \/ \E d \in Calls : Resolves(d)
<1>0. /\ ~up /\ UNCHANGED task /\ attempt \in [Calls -> [status : AttemptStatus, tokens : 0..MaxUse]]
      /\ \A u \in Tasks : task[u].pc = "idle"
  BY DEF Resume, Confirm, QInv, DownOK, TypeOK
<1>1. AllMove
  BY <1>0 DEF AllMove, Moves, InCall
<1>2. CASE Resume /\ InFlight = {} /\ UNCHANGED ledger
  BY <1>1, <1>2 DEF Quiet, ledger
<1>3. CASE \E c \in InFlight :
            /\ attempt' = [attempt EXCEPT ![c] = [status |-> "CODEX_NOT_SPAWNED", tokens |-> 0]]
            /\ call' = [call EXCEPT ![c] = "CONFIRMED"]
  <2>1. PICK c \in InFlight :
            /\ attempt' = [attempt EXCEPT ![c] = [status |-> "CODEX_NOT_SPAWNED", tokens |-> 0]]
            /\ call' = [call EXCEPT ![c] = "CONFIRMED"]
    BY <1>3
  <2>2. PICK a : a = [status |-> "CODEX_NOT_SPAWNED", tokens |-> 0]
    OBVIOUS
  <2>3. a.status # "NONE" /\ a.tokens = 0
    BY <2>2
  <2> QED
    BY <1>0, <2>1, <2>2, <2>3 DEF Resolves, InFlight
<1>4. CASE Confirm
  <2>1. PICK c \in InFlight :
            /\ attempt' = [attempt EXCEPT ![c] = ConfirmedAttempt(c)]
            /\ call' = [call EXCEPT ![c] = "CONFIRMED"]
    BY <1>4 DEF Confirm
  <2>2. PICK a : a = ConfirmedAttempt(c)
    OBVIOUS
  <2>3. a.status # "NONE" /\ (a.tokens = 0 \/ a.tokens = attempt[c].tokens)
    BY <2>2 DEF ConfirmedAttempt, Recorded
  <2> QED
    BY <1>0, <2>1, <2>2, <2>3 DEF Resolves, InFlight
<1> QED
  BY <1>2, <1>3, <1>4 DEF Resume

LEMMA StillMoves ==
    ASSUME QInv, UNCHANGED task
    PROVE  AllMove
  BY DEF AllMove, Moves

(* Every step does to the ledger one of the things Spending names.         *)
LEMMA SpendingShape ==
    ASSUME QInv, [Next]_vars
    PROVE  Spending
<1>1. ASSUME NEW t \in Tasks, TaskStep(t) PROVE Spending
  <2>1. CASE StartCall(t) \/ Expire(t) \/ Refused(t) \/ CancelWaiting(t)
               \/ LeaveInFlight(t) \/ Retry(t)
    BY <2>1, OuterMoves DEF Spending
  <2>2. CASE \/ InnerFails(t) \/ Intent(t) \/ SpawnFails(t) \/ Capture(t) \/ Reap(t)
             \/ TimeOut(t) \/ Cancel(t) \/ KillTree(t) \/ KillFails(t) \/ DrainSpawn(t)
             \/ DrainFails(t)
    BY <2>2, InnerMoves DEF Spending
  <2>3. CASE OsSpawn(t)
    BY <2>3, StillMoves DEF OsSpawn, ledger, Quiet, Spending
  <2>4. CASE Begin(t)
    BY <2>4, ReservesCall DEF Spending
  <2>5. CASE Record(t)
    BY <2>5, RecordsCall DEF Spending
  <2>6. CASE Succeed(t) \/ Fail(t)
    BY <2>6, SavesCall DEF Spending
  <2> QED
    BY <1>1, <2>1, <2>2, <2>3, <2>4, <2>5, <2>6 DEF TaskStep
<1>2. ASSUME NEW c \in Calls, NEW p \in Phases,
             ChildExits(c, p) \/ LateSpawn(c, p) \/ LateCleanup(c, p)
      PROVE  Spending
  BY <1>2, StillMoves DEF ChildExits, LateSpawn, LateCleanup, ledger, Quiet, Spending
<1>3. CASE Crash
  <2>1. Quiet /\ \A u \in Tasks : task'[u].pc = "idle"
    BY <1>3 DEF Crash, ledger, Quiet, NoTask
  <2> QED
    BY <2>1 DEF Spending, AllMove, Moves, InCall
<1>4. CASE Resume \/ Confirm
  BY <1>4, RecoveryResolves DEF Spending
<1>5. CASE UNCHANGED vars
  BY <1>5, StillMoves DEF vars, Quiet, Spending
<1> QED
  BY <1>1, <1>2, <1>3, <1>4, <1>5 DEF Next

-----------------------------------------------------------------------------
(* Each part of the invariant, from the shape of the step.                 *)

LEMMA RecordedStep ==
    ASSUME QInv, RecordedOK, Spending
    PROVE  RecordedOK'
<1>0. /\ task \in [Tasks -> TaskType] /\ call \in [Calls -> CallStatus]
      /\ attempt \in [Calls -> [status : AttemptStatus, tokens : 0..MaxUse]] /\ LedgerOK
  BY DEF QInv, TypeOK
<1>1. ASSUME UNCHANGED attempt, AllMove PROVE RecordedOK'
  <2> SUFFICES ASSUME NEW u \in Tasks, task'[u].pc \in InCall
      PROVE  (attempt'[task'[u].call].status # "NONE") <=> task'[u].pc = "recorded"
    BY DEF RecordedOK, Recorded
  <2>1. /\ task[u].pc \in InCall /\ task'[u].call = task[u].call
        /\ task'[u].pc = "recorded" <=> task[u].pc = "recorded"
    BY <1>1 DEF AllMove, Moves
  <2> QED
    BY <1>1, <2>1 DEF RecordedOK, Recorded
<1>2. ASSUME NEW t \in Tasks, NEW d \in Calls, Reserves(t, d) PROVE RecordedOK'
  <2>1. PICK r \in TaskType : r.call = d /\ r.pc = "ready" /\ Update(t, r)
    BY <1>2 DEF Reserves
  <2>2. UNCHANGED attempt /\ attempt[d].status = "NONE"
    BY <1>0, <1>2 DEF Reserves, LedgerOK, Unused
  <2> SUFFICES ASSUME NEW u \in Tasks, task'[u].pc \in InCall
      PROVE  (attempt'[task'[u].call].status # "NONE") <=> task'[u].pc = "recorded"
    BY DEF RecordedOK, Recorded
  <2>3. CASE u = t
    BY <1>0, <2>1, <2>2, <2>3 DEF Update
  <2>4. CASE u # t
    BY <1>0, <2>1, <2>2, <2>4 DEF Update, RecordedOK, Recorded
  <2> QED BY <2>3, <2>4
<1>3. ASSUME NEW t \in Tasks, NEW d \in Calls, Records(t, d) PROVE RecordedOK'
  <2>1. PICK r \in TaskType : r.call = d /\ r.pc = "recorded" /\ Update(t, r)
    BY <1>3 DEF Records
  <2>2. attempt'[d].status # "NONE" /\ task[t].pc \in InCall
    BY <1>0, <1>3 DEF Records, InCall
  <2> SUFFICES ASSUME NEW u \in Tasks, task'[u].pc \in InCall
      PROVE  (attempt'[task'[u].call].status # "NONE") <=> task'[u].pc = "recorded"
    BY DEF RecordedOK, Recorded
  <2>3. u = t
    <3>1. u # t => task'[u] = task[u]
      BY <1>0, <2>1 DEF Update
    <3> QED
      BY <2>2, <3>1, OneCaller
  <2> QED
    BY <1>0, <2>1, <2>2, <2>3 DEF Update
<1>4. ASSUME NEW d \in Calls, Resolves(d) PROVE RecordedOK'
  <2>1. \A u \in Tasks : task'[u].pc = "idle"
    BY <1>4 DEF Resolves, QInv, DownOK
  <2> QED
    BY <2>1 DEF RecordedOK, InCall
<1> QED
  BY <1>1, <1>2, <1>3, <1>4 DEF Spending, Quiet, Saves

LEMMA SafeStep ==
    ASSUME QInv, RecordedOK, SafeOK, Spending
    PROVE  SafeOK'
<1>0. /\ call \in [Calls -> CallStatus]
      /\ attempt \in [Calls -> [status : AttemptStatus, tokens : 0..MaxUse]]
  BY DEF QInv, TypeOK
<1>1. CASE Quiet
  BY <1>1 DEF Quiet, SafeOK, Recorded
<1>2. ASSUME NEW t \in Tasks, NEW d \in Calls, Reserves(t, d) PROVE SafeOK'
  BY <1>0, <1>2 DEF Reserves, SafeOK, Recorded
<1>3. ASSUME NEW t \in Tasks, NEW d \in Calls, Records(t, d) PROVE SafeOK'
  BY <1>0, <1>3 DEF Records, SafeOK, Recorded
<1>4. ASSUME NEW t \in Tasks, NEW d \in Calls, Saves(t, d) PROVE SafeOK'
  <2>1. attempt[d].status # "NONE"
    BY <1>4 DEF Saves, RecordedOK, Recorded, InCall
  <2> QED
    BY <1>0, <1>4, <2>1 DEF Saves, SafeOK, Recorded
<1>5. ASSUME NEW d \in Calls, Resolves(d) PROVE SafeOK'
  BY <1>0, <1>5 DEF Resolves, SafeOK, Recorded
<1> QED
  BY <1>1, <1>2, <1>3, <1>4, <1>5 DEF Spending

LEMMA OrderStep ==
    ASSUME QInv, OrderOK, Spending
    PROVE  OrderOK'
<1>0. /\ call \in [Calls -> CallStatus] /\ Calls \subseteq Int
  BY DEF QInv, TypeOK, Calls
<1>1. CASE Quiet
  BY <1>1 DEF Quiet, OrderOK, Settled
<1>2. ASSUME NEW t \in Tasks, NEW d \in Calls, Reserves(t, d) PROVE OrderOK'
  <2>1. \A c \in Calls : c < d => call[c] \in {"SAFE", "CONFIRMED"}
    BY <1>0, <1>2 DEF Reserves, InFlight, CallStatus
  <2>2. call' = [call EXCEPT ![d] = "IN_FLIGHT"] /\ call[d] = "NONE"
    BY <1>2 DEF Reserves
  <2> SUFFICES ASSUME NEW c \in Calls, NEW e \in Calls, c < e, call'[e] # "NONE"
      PROVE  call'[c] \in {"SAFE", "CONFIRMED"}
    BY DEF OrderOK, Settled
  <2>3. call[c] \in {"SAFE", "CONFIRMED"}
    BY <1>0, <2>1, <2>2 DEF OrderOK, Settled
  <2> QED
    BY <1>0, <2>2, <2>3
<1>3. ASSUME NEW d \in Calls, NEW s \in {"SAFE", "CONFIRMED"}, call[d] # "NONE",
             call' = [call EXCEPT ![d] = s]
      PROVE  OrderOK'
  BY <1>0, <1>3 DEF OrderOK, Settled
<1>4. ASSUME NEW t \in Tasks, NEW d \in Calls, Saves(t, d) PROVE OrderOK'
  <2>1. call[d] = "IN_FLIGHT"
    BY <1>4, Holder DEF Saves, InCall
  <2> QED
    BY <1>3, <1>4, <2>1 DEF Saves
<1>5. ASSUME NEW d \in Calls, Resolves(d) PROVE OrderOK'
  BY <1>3, <1>5 DEF Resolves, InFlight
<1>6. ASSUME NEW t \in Tasks, NEW d \in Calls, Records(t, d) PROVE OrderOK'
  BY <1>6 DEF Records, OrderOK, Settled
<1> QED
  BY <1>1, <1>2, <1>4, <1>5, <1>6 DEF Spending

(* What BudgetFailure = "NONE" says of the calls before.                   *)
LEMMA BudgetKnown ==
    ASSUME QInv, SafeOK, InFlight = {}, BudgetFailure = "NONE", MaxTokens # Unlimited,
           NEW c \in Calls, call[c] # "NONE"
    PROVE  Settled(c) /\ UsageKnown(c) /\ ~(Tokens >= MaxTokens)
<1>0. /\ call[c] \in {"SAFE", "CONFIRMED"} /\ LedgerOK /\ EXEC \in Phases
  BY DEF QInv, TypeOK, CallStatus, InFlight, Phases
<1>1. ~UnknownUsage(c) /\ ~(Tokens >= MaxTokens)
  BY DEF BudgetFailure
<1>2. attempt[c].status # "NONE"
  BY <1>0, <1>1 DEF UnknownUsage, SafeOK, Recorded
<1>3. attempt[c].status \in {"AUTH_REQUIRED", "RATE_LIMITED", "SUCCEEDED", "CODEX_NOT_SPAWNED"}
  BY <1>1, <1>2 DEF UnknownUsage, NoModelResponse
<1>4. attempt[c].status = "CODEX_NOT_SPAWNED" => child[c][EXEC] = "NONE"
  BY <1>0 DEF LedgerOK, NeverSpawned
<1> QED
  BY <1>0, <1>1, <1>3, <1>4 DEF UsageKnown, Settled

LEMMA NoBlindStep ==
    ASSUME QInv, SafeOK, OrderOK, NoBlindCall, [Next]_vars, Spending
    PROVE  NoBlindCall'
<1>0. call \in [Calls -> CallStatus]
  BY DEF QInv, TypeOK
<1>1. \A c \in Calls : Settled(c) => Kept(c)
  <2>1. UNCHANGED vars => \A c \in Calls : Kept(c)
    BY DEF vars, Kept
  <2> QED
    BY <2>1, FrozenStep
<1> SUFFICES ASSUME MaxTokens # Unlimited, NEW c \in Calls, NEW d \in Calls, c < d,
                    call'[d] # "NONE"
             PROVE  UsageKnown(c)'
  BY DEF NoBlindCall
<1>2. Settled(c) /\ UsageKnown(c)
  <2>1. CASE call[d] # "NONE"
    BY <2>1 DEF OrderOK, NoBlindCall
  <2>2. CASE call[d] = "NONE"
    <3>1. \E t \in Tasks : Reserves(t, d)
      <4>1. ~Quiet /\ \A t \in Tasks : ~Records(t, d)
        BY <2>2 DEF Quiet, Records
      <4>2. ASSUME NEW t \in Tasks, NEW e \in Calls, Reserves(t, e) PROVE e = d
        BY <1>0, <2>2, <4>2 DEF Reserves
      <4>3. ASSUME NEW t \in Tasks, NEW e \in Calls, Records(t, e) PROVE FALSE
        BY <2>2, <4>3 DEF Records
      <4>4. ASSUME NEW t \in Tasks, NEW e \in Calls, Saves(t, e) PROVE FALSE
        <5>1. call[e] = "IN_FLIGHT"
          BY <4>4, Holder DEF Saves, InCall
        <5> QED
          BY <1>0, <2>2, <4>4, <5>1 DEF Saves
      <4>5. ASSUME NEW e \in Calls, Resolves(e) PROVE FALSE
        BY <1>0, <2>2, <4>5 DEF Resolves, InFlight
      <4> QED
        BY <4>1, <4>2, <4>3, <4>4, <4>5 DEF Spending
    <3>2. InFlight = {} /\ BudgetFailure = "NONE" /\ call[c] # "NONE"
      BY <3>1 DEF Reserves
    <3> QED
      BY <3>2, BudgetKnown
  <2> QED BY <2>1, <2>2
<1> QED
  BY <1>1, <1>2 DEF Kept, UsageKnown

-----------------------------------------------------------------------------
(* The sum of the recorded tokens.                                         *)

TokensOf(at) == [c \in Calls |-> at[c].tokens]
TokenSums(at, g) ==
    g = [s \in SUBSET Calls |->
           IF s = {} THEN 0 ELSE at[Chosen(s)].tokens + g[s \ {Chosen(s)}]]
TotalOf(at) == (CHOOSE g : TokenSums(at, g))[Calls]

LEMMA CallsFinite == IsFiniteSet(Calls)
  BY FS_Interval DEF Calls

LEMMA TokensTotal == Tokens = TotalOf(attempt)
  BY DEF Tokens, MapThenSumSet, MapThenFoldSet, TotalOf, TokenSums, Chosen

LEMMA TokensTotalNext == Tokens' = TotalOf(attempt')
  BY DEF Tokens, MapThenSumSet, MapThenFoldSet, TotalOf, TokenSums, Chosen

(* It is a sum in the sense of SetSums.                                    *)
LEMMA TokenSumsSame ==
    ASSUME NEW at, NEW g
    PROVE  TokenSums(at, g) <=> Sums(TokensOf(at), Calls, g)
<1>1. PICK f : f = TokensOf(at)
  OBVIOUS
<1>2. ASSUME NEW s \in SUBSET Calls
      PROVE  (IF s = {} THEN 0 ELSE at[Chosen(s)].tokens + g[s \ {Chosen(s)}])
              = (IF s = {} THEN 0 ELSE f[Chosen(s)] + g[s \ {Chosen(s)}])
  <2>1. CASE s = {}
    BY <2>1
  <2>2. CASE s # {}
    <3>1. Chosen(s) \in Calls
      BY <2>2, ChosenIn
    <3>2. f[Chosen(s)] = at[Chosen(s)].tokens
      BY <1>1, <3>1 DEF TokensOf
    <3> QED
      BY <2>2, <3>2
  <2> QED BY <2>1, <2>2
<1>3. [s \in SUBSET Calls |->
         IF s = {} THEN 0 ELSE at[Chosen(s)].tokens + g[s \ {Chosen(s)}]]
       = [s \in SUBSET Calls |-> IF s = {} THEN 0 ELSE f[Chosen(s)] + g[s \ {Chosen(s)}]]
  BY <1>2
<1> QED
  BY <1>1, <1>3 DEF TokenSums, Sums

LEMMA TotalNat ==
    ASSUME NEW at, \A c \in Calls : at[c].tokens \in Nat
    PROVE  \E g : /\ TokensOf(at) \in [Calls -> Nat]
                  /\ Sums(TokensOf(at), Calls, g)
                  /\ TotalOf(at) = g[Calls] /\ TotalOf(at) \in Nat
<1>1. PICK f : f = TokensOf(at)
  OBVIOUS
<1>2. f \in [Calls -> Nat]
  BY <1>1 DEF TokensOf
<1>3. \E g : Sums(f, Calls, g)
  BY <1>2, SumsExist, CallsFinite
<1>4. \E g : TokenSums(at, g)
  BY <1>1, <1>3, TokenSumsSame
<1>5. PICK g : g = CHOOSE h : TokenSums(at, h)
  OBVIOUS
<1>6. TokenSums(at, g)
  BY <1>4, <1>5
<1>7. Sums(f, Calls, g)
  BY <1>1, <1>6, TokenSumsSame
<1>8. Calls \in SUBSET Calls
  OBVIOUS
<1>9. g[Calls] \in Nat
  BY <1>2, <1>7, <1>8, CallsFinite, SumsNat
<1>10. TotalOf(at) = g[Calls]
  BY <1>5 DEF TotalOf
<1> QED
  BY <1>1, <1>2, <1>7, <1>9, <1>10

(* One row changes: the total changes by that row.                         *)
LEMMA TotalChange ==
    ASSUME NEW at, NEW bt, NEW d \in Calls,
           \A c \in Calls : at[c].tokens \in Nat /\ bt[c].tokens \in Nat,
           \A c \in Calls : c # d => at[c].tokens = bt[c].tokens
    PROVE  TotalOf(bt) + at[d].tokens = TotalOf(at) + bt[d].tokens
<1>1. PICK f : f = TokensOf(at)
  OBVIOUS
<1>2. PICK k : k = TokensOf(bt)
  OBVIOUS
<1>5. PICK g : f \in [Calls -> Nat] /\ Sums(f, Calls, g) /\ TotalOf(at) = g[Calls]
  BY <1>1, TotalNat
<1>6. PICK q : k \in [Calls -> Nat] /\ Sums(k, Calls, q) /\ TotalOf(bt) = q[Calls]
  BY <1>2, TotalNat
<1>7. \A c \in Calls : c # d => f[c] = k[c]
  BY <1>1, <1>2 DEF TokensOf
<1>8. \A s \in SUBSET Calls :
              IF d \in s THEN q[s] + f[d] = g[s] + k[d] ELSE q[s] = g[s]
  BY <1>5, <1>6, <1>7, SumsChange, CallsFinite
<1>9. q[Calls] + f[d] = g[Calls] + k[d]
  BY <1>8
<1>10. f[d] = at[d].tokens /\ k[d] = bt[d].tokens
  BY <1>1, <1>2 DEF TokensOf
<1> QED
  BY <1>5, <1>6, <1>9, <1>10

LEMMA TotalZero ==
    ASSUME NEW at, \A c \in Calls : at[c].tokens = 0
    PROVE  TotalOf(at) = 0
<1>1. PICK f : f = TokensOf(at)
  OBVIOUS
<1>3. PICK g : f \in [Calls -> Nat] /\ Sums(f, Calls, g) /\ TotalOf(at) = g[Calls]
  BY <1>1, TotalNat
<1>4. \A x \in Calls : f[x] = 0
  BY <1>1 DEF TokensOf
<1>5. Calls \in SUBSET Calls
  OBVIOUS
<1>6. g[Calls] = 0
  BY <1>3, <1>4, <1>5, SumsZero, CallsFinite
<1> QED
  BY <1>3, <1>6

LEMMA SpendStep ==
    ASSUME QInv, RecordedOK, SpendOK, Spending
    PROVE  SpendOK'
<1>0. /\ call \in [Calls -> CallStatus] /\ LedgerOK
      /\ attempt \in [Calls -> [status : AttemptStatus, tokens : 0..MaxUse]]
  BY DEF QInv, TypeOK
<1> SUFFICES ASSUME MaxTokens # Unlimited
             PROVE  /\ Tokens' < MaxTokens + MaxUse
                    /\ \A c \in Calls : call'[c] = "IN_FLIGHT" /\ attempt'[c].status = "NONE"
                          => Tokens' < MaxTokens
  BY DEF SpendOK, Recorded
<1>1. MaxTokens \in Nat /\ MaxUse \in Nat
  OBVIOUS
<1>2. PICK x : x = attempt
  OBVIOUS
<1>3. PICK y : y = attempt'
  OBVIOUS
<1>4. PICK m : m = TotalOf(x)
  OBVIOUS
<1>5. PICK n : n = TotalOf(y)
  OBVIOUS
<1>6. Tokens = m /\ Tokens' = n
  BY <1>2, <1>3, <1>4, <1>5, TokensTotal, TokensTotalNext
<1>7. \A c \in Calls : x[c].tokens \in Nat /\ x[c].tokens <= MaxUse
  BY <1>0, <1>1, <1>2
<1>8. m \in Nat
  BY <1>4, <1>7, TotalNat
<1>9. /\ m < MaxTokens + MaxUse
      /\ \A c \in Calls : call[c] = "IN_FLIGHT" /\ x[c].status = "NONE" => m < MaxTokens
  BY <1>2, <1>6 DEF SpendOK, Recorded
<1> SUFFICES /\ n < MaxTokens + MaxUse
             /\ \A c \in Calls : call'[c] = "IN_FLIGHT" /\ y[c].status = "NONE" => n < MaxTokens
  BY <1>3, <1>6
<1>10. CASE Quiet
  <2>1. x = y /\ m = n
    BY <1>2, <1>3, <1>4, <1>5, <1>10 DEF Quiet
  <2> QED
    BY <1>9, <1>10, <2>1 DEF Quiet
<1>11. ASSUME NEW t \in Tasks, NEW d \in Calls, Reserves(t, d)
       PROVE  /\ n < MaxTokens + MaxUse
              /\ \A c \in Calls : call'[c] = "IN_FLIGHT" /\ y[c].status = "NONE" => n < MaxTokens
  <2>1. x = y /\ m = n
    BY <1>2, <1>3, <1>4, <1>5, <1>11 DEF Reserves
  <2>2. ~(m >= MaxTokens)
    <3>1. ~(Tokens >= MaxTokens)
      BY <1>11 DEF Reserves, BudgetFailure
    <3> QED
      BY <1>6, <3>1
  <2>3. n < MaxTokens
    BY <1>1, <1>8, <2>1, <2>2
  <2> QED
    BY <1>9, <2>1, <2>3
<1>12. ASSUME NEW t \in Tasks, NEW d \in Calls, Saves(t, d)
       PROVE  /\ n < MaxTokens + MaxUse
              /\ \A c \in Calls : call'[c] = "IN_FLIGHT" /\ y[c].status = "NONE" => n < MaxTokens
  <2>1. x = y /\ m = n
    BY <1>2, <1>3, <1>4, <1>5, <1>12 DEF Saves
  <2>2. \A c \in Calls : call'[c] = "IN_FLIGHT" => call[c] = "IN_FLIGHT"
    BY <1>0, <1>12 DEF Saves
  <2> QED
    BY <1>9, <2>1, <2>2
(* One row is written; nothing unrecorded is in flight afterwards.         *)
<1>13. ASSUME NEW d \in Calls, NEW a, a.status # "NONE", a.tokens \in 0..MaxUse,
              attempt' = [attempt EXCEPT ![d] = a], call[d] = "IN_FLIGHT",
              \A c \in Calls : c # d => call'[c] = call[c],
              a.tokens <= x[d].tokens \/ m < MaxTokens
       PROVE  /\ n < MaxTokens + MaxUse
              /\ \A c \in Calls : call'[c] = "IN_FLIGHT" /\ y[c].status = "NONE" => n < MaxTokens
  <2>1. /\ y[d] = a /\ \A c \in Calls : c # d => y[c] = x[c]
    BY <1>0, <1>2, <1>3, <1>13
  <2>2. \A c \in Calls : y[c].tokens \in Nat
    BY <1>1, <1>7, <1>13, <2>1
  <2>3. n + x[d].tokens = m + a.tokens
    <3>1. n + x[d].tokens = m + y[d].tokens
      BY <1>4, <1>5, <1>7, <2>1, <2>2, TotalChange
    <3> QED
      BY <2>1, <3>1
  <2>4. n \in Nat
    BY <1>5, <2>2, TotalNat
  <2>5. PICK i \in Nat : i = x[d].tokens
    BY <1>7
  <2>6. PICK j \in Nat : j = a.tokens /\ j <= MaxUse
    BY <1>13
  <2>7. n + i = m + j /\ (j <= i \/ m < MaxTokens)
    BY <1>13, <2>3, <2>5, <2>6
  <2>8. n < MaxTokens + MaxUse
    <3>1. CASE j <= i
      BY <1>1, <1>8, <1>9, <2>4, <2>5, <2>6, <2>7, <3>1
    <3>2. CASE m < MaxTokens
      BY <1>1, <1>8, <2>4, <2>5, <2>6, <2>7, <3>2
    <3> QED BY <2>7, <3>1, <3>2
  <2>9. \A c \in Calls : call'[c] = "IN_FLIGHT" => c = d
    BY <1>0, <1>13 DEF LedgerOK, OneInFlight, InFlight
  <2> QED
    BY <1>13, <2>1, <2>8, <2>9
<1>14. ASSUME NEW t \in Tasks, NEW d \in Calls, Records(t, d)
       PROVE  /\ n < MaxTokens + MaxUse
              /\ \A c \in Calls : call'[c] = "IN_FLIGHT" /\ y[c].status = "NONE" => n < MaxTokens
  <2>1. PICK a : /\ a.status # "NONE" /\ a.tokens \in 0..MaxUse
                 /\ attempt' = [attempt EXCEPT ![d] = a]
    BY <1>14 DEF Records
  <2>2. task[t].pc = "settle" /\ d = task[t].call /\ task[t].pc \in InCall /\ UNCHANGED call
    BY <1>14 DEF Records, InCall
  <2>3. call[d] = "IN_FLIGHT" /\ attempt[d].status = "NONE"
    BY <2>2, Holder DEF RecordedOK, Recorded
  <2>4. m < MaxTokens
    BY <1>2, <1>9, <2>3
  <2>5. \A c \in Calls : c # d => call'[c] = call[c]
    BY <2>2
  <2> QED
    BY <1>13, <2>1, <2>3, <2>4, <2>5
<1>15. ASSUME NEW d \in Calls, Resolves(d)
       PROVE  /\ n < MaxTokens + MaxUse
              /\ \A c \in Calls : call'[c] = "IN_FLIGHT" /\ y[c].status = "NONE" => n < MaxTokens
  <2>1. PICK a : /\ a.status # "NONE" /\ (a.tokens = 0 \/ a.tokens = attempt[d].tokens)
                 /\ attempt' = [attempt EXCEPT ![d] = a]
    BY <1>15 DEF Resolves
  <2>2. call[d] = "IN_FLIGHT" /\ \A c \in Calls : c # d => call'[c] = call[c]
    BY <1>0, <1>15 DEF Resolves, InFlight
  <2>3. x[d].tokens \in Nat /\ x[d].tokens <= MaxUse
    BY <1>7
  <2>4. a.tokens \in 0..MaxUse /\ a.tokens <= x[d].tokens
    BY <1>1, <1>2, <2>1, <2>3
  <2> QED
    BY <1>13, <2>1, <2>2, <2>4
<1> QED
  BY <1>10, <1>11, <1>12, <1>14, <1>15 DEF Spending

LEMMA InitSpend == Init => SpendInv
<1> SUFFICES ASSUME Init PROVE SpendInv
  OBVIOUS
<1>1. QInv
  BY InitQInv
<1>2. RecordedOK
  BY DEF Init, RecordedOK, NoTask, InCall
<1>3. SafeOK /\ OrderOK /\ NoBlindCall
  BY DEF Init, SafeOK, OrderOK, NoBlindCall
<1>4. SpendOK
  <2>1. \A c \in Calls : attempt[c].tokens = 0 /\ call[c] = "NONE"
    BY DEF Init, NoAttempt
  <2>2. Tokens = 0
    BY <2>1, TokensTotal, TotalZero
  <2>3. MaxTokens # Unlimited => 0 < MaxTokens + MaxUse
    OBVIOUS
  <2> QED
    BY <2>1, <2>2, <2>3 DEF SpendOK
<1> QED
  BY <1>1, <1>2, <1>3, <1>4 DEF SpendInv

LEMMA SpendInductive == SpendInv /\ [Next]_vars => SpendInv'
<1> SUFFICES ASSUME SpendInv, [Next]_vars PROVE SpendInv'
  OBVIOUS
<1>1. QInv /\ RecordedOK /\ SafeOK /\ OrderOK /\ NoBlindCall /\ SpendOK
  BY DEF SpendInv
<1>2. Spending
  BY <1>1, SpendingShape
<1>3. QInv'
  BY <1>1, Inductive
<1>4. RecordedOK' /\ SafeOK' /\ OrderOK' /\ NoBlindCall' /\ SpendOK'
  BY <1>1, <1>2, RecordedStep, SafeStep, OrderStep, NoBlindStep, SpendStep
<1> QED
  BY <1>3, <1>4 DEF SpendInv

LEMMA SpendInvHolds == Spec => []SpendInv
BY InitSpend, SpendInductive, PTL DEF Spec

(* Under a token ceiling no call is ever reserved behind one whose usage is*)
(* unknown, however callers retry, are cancelled, crash or are confirmed by*)
(* an operator (RunUsageBudget.check's last test, made under the gate).    *)
THEOREM NoBlindCallHolds == Spec => []NoBlindCall
<1>1. SpendInv => NoBlindCall
  BY DEF SpendInv
<1> QED
  BY <1>1, SpendInvHolds, PTL

(* Whatever the number of callers, calls, retries and crashes, the recorded*)
(* tokens pass the ceiling by less than one answer: the gate lets one call *)
(* at a time read the ledger and spend (RunLimitedClient.call).            *)
THEOREM SpendStaysBounded == Spec => []SpendBounded
<1>1. SpendInv => SpendBounded
  BY DEF SpendInv, SpendOK, SpendBounded
<1> QED
  BY <1>1, SpendInvHolds, PTL
=============================================================================
