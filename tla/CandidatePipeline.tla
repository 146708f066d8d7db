------------------------ MODULE CandidatePipeline -------------------------
(***************************************************************************)
(* The candidate pipeline of one analysis (pipeline version 2): Discovery  *)
(* decides every static candidate, batches of kept candidates are turned   *)
(* into hypotheses, surface contexts add more, every hypothesis (child) is *)
(* run, chains of primitives add children of children, and at last the run *)
(* is published as terminal.  One turn is one analyze or resume; the run   *)
(* lease allows one turn at a time, and a turn may die at any step.        *)
(*                                                                         *)
(* A step is one store transaction or one awaited call.  The runner of a   *)
(* single child is HypothesisRunner; here it closes the child or not.      *)
(***************************************************************************)
EXTENDS Integers, Sequences, FiniteSets, FiniteSetsExt

CONSTANTS
    Files,          \* the batches: a sequence of sets of candidates
    Contexts,       \* number of uncovered surface contexts
    Seeds,          \* hypotheses a candidate or a context may propose
    Parents,        \* the two parents of each hypothesis a chain may offer
    SeedLimit,      \* proposals per candidate or context: 4 in the code
    MaxPending,     \* max_pending_candidate_children
    MaxDepth,       \* chain depth: 4 in the code
    MaxFaults       \* bound: crashes and unexpected exceptions

Candidates == UNION {Files[i] : i \in DOMAIN Files}
Chained    == DOMAIN Parents
Proposed   == UNION {Seeds[c] : c \in DOMAIN Seeds}
Hyps       == Proposed \cup Chained

ASSUME PipelineAssumption ==
    /\ MaxPending \in Nat /\ MaxDepth \in Nat /\ MaxFaults \in Nat
    /\ SeedLimit \in Nat \ {0} /\ Contexts \in Nat
    /\ Files \in Seq(SUBSET Candidates) /\ IsFiniteSet(Candidates) /\ IsFiniteSet(Hyps)
    /\ Candidates \cap (1..Contexts) = {}
    /\ DOMAIN Seeds = Candidates \cup (1..Contexts)
    /\ \A c \in DOMAIN Seeds : Cardinality(Seeds[c]) <= SeedLimit
    /\ \A c, d \in DOMAIN Seeds : c # d => Seeds[c] \cap Seeds[d] = {}
    /\ Proposed \cap Chained = {}
    /\ \A x \in Chained : Parents[x] \subseteq Hyps /\ Cardinality(Parents[x]) = 2
    \* SimpleAnalysisApplication.__init__: CANDIDATE_PENDING_LIMIT_INVALID
    /\ \A i \in DOMAIN Files : SeedLimit * Cardinality(Files[i]) <= MaxPending

VARIABLES
    decision,   \* simple_static_candidates.decision
    deep,       \* simple_static_candidates.deep_status
    answer,     \* simple_candidate_batch_outcomes.status
    marker,     \* simple_candidate_batch_progress
    explored,   \* surface exploration progress
    hyp,        \* registered hypotheses: no row, not terminal, terminal
    depth,      \* chain depth of a registered hypothesis
    prim,       \* hypotheses with an admitted primitive: the pool fingerprint
    offers,     \* the children in the CHAINING_DONE result of a hypothesis
    pool,       \* simple_chaining_pool_batches
    claim,      \* simple_candidate_child_claims
    root,       \* the HYPOTHESIS_DONE checkpoint of the analysis
    terminal,   \* SimpleAnalysisRun.candidate_terminal is set
    pc, turn,   \* the turn in memory
    last,       \* what the last turn returned
    faults

work  == <<decision, deep, answer, marker, explored>>
queue == <<hyp, depth, prim, offers, pool>>
vars  == <<work, queue, claim, root, terminal, pc, turn, last, faults>>

-----------------------------------------------------------------------------
NoTurn == [retry |-> {}, batch |-> 1, context |-> 1, asked |-> {}, failure |-> "none",
           attempted |-> {}, count |-> 0, child |-> {}, due |-> {}, result |-> "none",
           incomplete |-> "none", back |-> "none", pool |-> {}, pairs |-> {}]

Init ==
    /\ decision = [c \in Candidates |-> "PENDING"]
    /\ deep = [c \in Candidates |-> "PENDING"]
    /\ answer = [c \in Candidates |-> "none"]
    /\ marker = {} /\ explored = {}
    /\ hyp = [h \in Hyps |-> "none"] /\ depth = [h \in Hyps |-> 0]
    /\ prim = {} /\ offers = [h \in Hyps |-> {}] /\ pool = {} /\ claim = {}
    /\ root = [status |-> "none", code |-> "none", number |-> 0]
    /\ terminal = FALSE /\ pc = "idle" /\ turn = NoTurn /\ last = "none" /\ faults = 0

-----------------------------------------------------------------------------
(* What the store answers.                                                 *)

Kept       == {c \in Candidates : decision[c] = "INCLUDE"}
Batch(i)   == Files[i] \cap Kept
Incomplete == {h \in Hyps : hyp[h] = "open"}
Linked(c)  == {h \in Seeds[c] : hyp[h] # "none"}

(* Bug variant: everything in the batch is asked for again.                *)
WholeBatch(i) == Batch(i)
Missing(i) == {c \in Batch(i) : answer[c] = "none"}

DepthOf(x) == 1 + Max({depth[h] : h \in Parents[x]})

(* The offered children that are to be registered: new, and not too deep.  *)
Due(offered) == {x \in offered : hyp[x] = "none" /\ DepthOf(x) <= MaxDepth}

(* Bug variant: a turn trusts the one before to have registered them.      *)
RecoverNone  == {}
RecoveredDue == Due(UNION {offers[h] : h \in Hyps})

(* plan_chaining_for_pool: every pair of admitted primitives is covered,   *)
(* here by a batch of its own; a smaller pool is one batch.                *)
Pairs(admitted) == IF Cardinality(admitted) < 2 THEN {admitted}
                   ELSE {p \in SUBSET admitted : Cardinality(p) = 2}
SavedPairs(admitted) == {b.pair : b \in {q \in pool : q.pool = admitted}}

(* Bug variant: the batch itself is not counted.                           *)
RoomNow(n)  == Cardinality(Incomplete) <= MaxPending
RoomFor(n) == Cardinality(Incomplete) + SeedLimit * n <= MaxPending

Worse(old, new) == IF old = "none" \/ (new = "FAILED" /\ old = "BLOCKED") THEN new ELSE old

-----------------------------------------------------------------------------
(* How a turn ends.                                                        *)

Leave(status) == pc' = "idle" /\ turn' = NoTurn /\ last' = status

Again(n) == IF n < 2 THEN n + 1 ELSE n

(* _candidate_bootstrap_failure: the RUNNING root checkpoint is blocked; a *)
(* root that had succeeded is started again first.                         *)
Blocked(status, code) ==
    /\ root' = [status |-> "BLOCKED", code |-> code,
                number |-> IF root.status = "RUNNING" THEN root.number
                           ELSE Again(root.number)]
    /\ Leave(status)

(* Bug variant: the root is left as it is.                                 *)
ExitAsIs(status) == UNCHANGED root /\ Leave(status)

(* _finalize_candidate_exit, after a child stopped the turn.               *)
Exit(status) ==
    /\ root' = IF root.status = "RUNNING"
               THEN [root EXCEPT !.status = IF status = "FAILED" THEN "FAILED" ELSE "BLOCKED",
                                 !.code = "ERROR"]
               ELSE root
    /\ Leave(status)

(* An exception, from a call, an artifact or the store, ends the turn.     *)
Raise ==
    /\ pc # "idle" /\ faults < MaxFaults /\ faults' = faults + 1
    /\ root' = [status |-> "BLOCKED", code |-> "ERROR", number |-> Again(root.number)]
    /\ claim' = {} /\ Leave("BLOCKED")
    /\ UNCHANGED <<work, queue, terminal>>

Crash ==
    /\ pc # "idle" /\ faults < MaxFaults /\ faults' = faults + 1
    /\ Leave("crashed")
    /\ UNCHANGED <<work, queue, claim, root, terminal>>

-----------------------------------------------------------------------------
(* A turn begins.                                                          *)

(* A root blocked by an invalid chaining response is not run again, if the *)
(* root had been started more than once.                                   *)
Refused == root.status = "BLOCKED" /\ root.code = "CHAINING" /\ root.number > 1

(* Bug variant: a candidate in error is not decided again.                 *)
RetriedNone == {}
Retried == IF root.status \in {"BLOCKED", "FAILED"}
           THEN {c \in Candidates : decision[c] = "ERROR"} ELSE {}

Resume ==
    /\ pc = "idle" /\ claim' = {}
    /\ IF Refused
       THEN last' = "BLOCKED" /\ UNCHANGED <<root, terminal, pc, turn>>
       ELSE /\ terminal' = FALSE /\ pc' = "discover" /\ last' = "none"
            /\ root' = IF root.status = "SUCCEEDED" THEN root
                       ELSE [status |-> "RUNNING", code |-> "none",
                             number |-> Again(root.number)]
            /\ turn' = [NoTurn EXCEPT !.retry = Retried]
    /\ UNCHANGED <<work, queue, faults>>

(* CandidateDiscovery.run: errors once per turn, then what is pending.     *)
ToDecide == turn.retry \cup {c \in Candidates : decision[c] = "PENDING"}

Decide(c) ==
    /\ pc = "discover" /\ c \in ToDecide
    /\ \E d \in {"INCLUDE", "EXCLUDE", "ERROR"} : decision' = [decision EXCEPT ![c] = d]
    /\ turn' = [turn EXCEPT !.retry = @ \ {c}]
    /\ UNCHANGED <<deep, answer, marker, explored, queue, claim, root, terminal, pc,
                   last, faults>>

(* A provider failure marks the candidates of the call; a budget does not. *)
DiscoveryFails ==
    /\ pc = "discover" /\ ToDecide # {}
    /\ \/ /\ \E group \in SUBSET ToDecide :
                /\ group # {}
                /\ decision' = [c \in Candidates |->
                                  IF c \in group THEN "ERROR" ELSE decision[c]]
          /\ Blocked("BLOCKED", "ERROR")
       \/ Blocked("PAUSED", "ERROR") /\ UNCHANGED decision
    /\ UNCHANGED <<deep, answer, marker, explored, queue, claim, terminal, faults>>

Discovered ==
    /\ pc = "discover" /\ ToDecide = {}
    /\ IF \E c \in Candidates : decision[c] = "ERROR"
       THEN Blocked("BLOCKED", "ERROR")
       ELSE pc' = "recover" /\ UNCHANGED <<root, turn, last>>
    /\ UNCHANGED <<work, queue, claim, terminal, faults>>

-----------------------------------------------------------------------------
(* Registering the children of chains.                                     *)

Register(x) ==
    /\ hyp' = [hyp EXCEPT ![x] = "open"]
    /\ depth' = [depth EXCEPT ![x] = DepthOf(x)]
    /\ UNCHANGED <<prim, offers, pool>>

(* _recover_candidate_chains, until nothing is added.                      *)
RecoverChains ==
    /\ pc = "recover"
    /\ \/ \E x \in RecoveredDue : Register(x) /\ UNCHANGED pc
       \/ RecoveredDue = {} /\ pc' = "batch" /\ UNCHANGED queue
    /\ UNCHANGED <<work, claim, root, terminal, turn, last, faults>>

(* _register_chaining_result for the child that ran or the pool batch.     *)
RegisterChildren ==
    /\ pc = "register"
    /\ \/ \E x \in Due(turn.due) : Register(x) /\ UNCHANGED <<pc, turn>>
       \/ /\ Due(turn.due) = {} /\ UNCHANGED queue
          /\ pc' = "drain" /\ turn' = [turn EXCEPT !.due = {}]
    /\ UNCHANGED <<work, claim, root, terminal, last, faults>>

-----------------------------------------------------------------------------
(* _drain_candidate_children.                                              *)

DrainFrom(back) ==
    /\ pc' = "drain" /\ turn' = [turn EXCEPT !.back = back, !.failure = "none"]

BudgetPaused == turn.result = "PAUSED"

(* The drain is over; the turn goes on.                                    *)
Drained == [turn EXCEPT !.back = "none", !.count = 0, !.result = "none"]

Runnable == {h \in Incomplete : h \notin turn.attempted \cup claim}

(* A closed child is dropped from the attempted ones when it closes: it is *)
(* not runnable any more.                                                  *)
RunChild(h) ==
    /\ pc = "drain" /\ turn.count < MaxPending /\ h \in Runnable
    /\ claim' = claim \cup {h} /\ pc' = "child"
    /\ turn' = [turn EXCEPT !.attempted = @ \cup {h}, !.count = @ + 1, !.child = {h}]
    /\ UNCHANGED <<work, queue, root, terminal, last, faults>>

(* What a run of the child may have stored: a primitive, and the result of *)
(* its chaining, which may offer chains of the whole pool.  Two stages come *)
(* after chaining, so a child that stops may have both.                    *)
ChildWrites(h) ==
    /\ prim' \in {prim, prim \cup {h}}
    /\ \E new \in SUBSET {x \in Chained : Parents[x] \subseteq prim'} :
          offers' = IF offers[h] = {} THEN [offers EXCEPT ![h] = new] ELSE offers
    /\ UNCHANGED <<depth, pool>>

ChildCloses(h) ==
    /\ pc = "child" /\ turn.child = {h} /\ pc' = "register"
    /\ hyp' = [hyp EXCEPT ![h] = "closed"] /\ ChildWrites(h)
    /\ claim' = claim \ {h}
    /\ turn' = [turn EXCEPT !.child = {}, !.due = offers'[h], !.attempted = @ \ {h}]
    /\ UNCHANGED <<work, root, terminal, last, faults>>

(* A budget pause ends the drain; another stop lets the others run.        *)
ChildStops(h) ==
    /\ pc = "child" /\ turn.child = {h}
    /\ ChildWrites(h) /\ UNCHANGED hyp /\ claim' = claim \ {h}
    /\ \/ /\ pc' = "drained" /\ turn' = [turn EXCEPT !.child = {}, !.result = "PAUSED"]
       \/ /\ pc' = "drain"
          /\ \E s \in {"BLOCKED", "FAILED"} :
                turn' = [turn EXCEPT !.child = {}, !.result = Worse(@, s)]
    /\ UNCHANGED <<work, root, terminal, last, faults>>

(* A shared Pro/Con call that fails ends the drain for all it left out.    *)
PrewarmFails ==
    /\ pc = "drain" /\ turn.count < MaxPending
    /\ \E left \in SUBSET Runnable, s \in {"BLOCKED", "FAILED", "PAUSED"} :
          /\ left # {} /\ Cardinality(Runnable) > 1
          /\ turn' = [turn EXCEPT !.attempted = @ \cup left, !.result = s]
    /\ pc' = "drained"
    /\ UNCHANGED <<work, queue, claim, root, terminal, last, faults>>

DrainEnds ==
    /\ pc = "drain" /\ (Runnable = {} \/ turn.count >= MaxPending)
    /\ pc' = "drained"
    /\ UNCHANGED <<work, queue, claim, root, terminal, turn, last, faults>>

-----------------------------------------------------------------------------
(* _run_candidate_batches_v2.                                              *)

AtBatch == pc = "batch" /\ turn.batch <= Len(Files)

(* No candidate of the file was kept, so it yields no batch.               *)
SkipFile ==
    /\ AtBatch /\ Batch(turn.batch) = {}
    /\ turn' = [turn EXCEPT !.batch = @ + 1]
    /\ UNCHANGED <<work, queue, claim, root, terminal, pc, last, faults>>

(* A finished batch is marked, then its children run; also one marked by   *)
(* an earlier turn.                                                        *)
MarkBatch ==
    /\ AtBatch /\ Batch(turn.batch) # {} /\ Missing(turn.batch) = {}
    /\ marker' = marker \cup {turn.batch}
    /\ DrainFrom("batch")
    /\ UNCHANGED <<decision, deep, answer, explored, queue, claim, root, terminal, last,
                   faults>>

Propose ==
    /\ AtBatch /\ Missing(turn.batch) # {} /\ RoomFor(Cardinality(Batch(turn.batch)))
    /\ pc' = "propose" /\ turn' = [turn EXCEPT !.asked = Missing(turn.batch)]
    /\ UNCHANGED <<work, queue, claim, root, terminal, last, faults>>

(* propose_batch returns results for some of the candidates, and a failure *)
(* if it stopped early; what it leaves out is missing.                     *)
Answer ==
    /\ pc = "propose" /\ pc' = "commit"
    /\ \E some \in SUBSET turn.asked, f \in {"none", "error", "budget"} :
          turn' = [turn EXCEPT !.asked = some, !.failure = f]
    /\ UNCHANGED <<work, queue, claim, root, terminal, last, faults>>

(* The whole call failed: a StageFailure without results.                  *)
ProposeFails ==
    /\ pc = "propose"
    /\ \/ Blocked("PAUSED", "ERROR") /\ UNCHANGED deep
       \/ /\ Blocked("BLOCKED", "ERROR")
          /\ deep' = [c \in Candidates |-> IF c \in turn.asked THEN "ERROR" ELSE deep[c]]
    /\ UNCHANGED <<decision, answer, marker, explored, queue, claim, terminal, faults>>

Opened(seeds) == [h \in Hyps |-> IF h \in seeds THEN "open" ELSE hyp[h]]

(* commit_candidate_batch_outcome: one transaction per candidate.          *)
CommitAnswer(c) ==
    /\ pc = "commit" /\ c \in turn.asked
    /\ \/ \E seeds \in SUBSET Seeds[c] :
            /\ seeds # {} /\ hyp' = Opened(seeds)
            /\ answer' = [answer EXCEPT ![c] = "HYPOTHESES"]
            /\ deep' = [deep EXCEPT ![c] = "RUNNING"]
       \/ /\ answer' = [answer EXCEPT ![c] = "NO_HYPOTHESIS"]
          /\ deep' = [deep EXCEPT ![c] = "NO_HYPOTHESIS"] /\ UNCHANGED hyp
       \/ /\ answer' = [answer EXCEPT ![c] = "INSUFFICIENT"]
          /\ deep' = [deep EXCEPT ![c] = "INCONCLUSIVE"] /\ UNCHANGED hyp
    /\ turn' = [turn EXCEPT !.asked = @ \ {c}]
    /\ UNCHANGED <<decision, marker, explored, depth, prim, offers, pool, claim, root,
                   terminal, pc, last, faults>>

(* Complete: the batch is marked next.  Otherwise what was answered runs,  *)
(* unless the budget is spent, and the turn ends.                          *)
Committed ==
    /\ pc = "commit" /\ turn.asked = {}
    /\ \/ /\ turn.failure = "none" /\ Missing(turn.batch) = {}
          /\ pc' = "batch" /\ UNCHANGED <<turn, root, last>>
       \/ turn.failure = "budget" /\ Blocked("PAUSED", "ERROR")
       \/ /\ turn.failure = "error" \/ (turn.failure = "none" /\ Missing(turn.batch) # {})
          /\ DrainFrom("failed") /\ UNCHANGED <<root, last>>
    /\ UNCHANGED <<work, queue, claim, terminal, faults>>

AfterFailed ==
    /\ pc = "drained" /\ turn.back = "failed"
    /\ \/ BudgetPaused /\ Exit("PAUSED") /\ UNCHANGED deep
       \/ /\ ~BudgetPaused /\ Blocked("BLOCKED", "ERROR")
          /\ deep' = [c \in Candidates |->
                        IF c \in Missing(turn.batch) THEN "ERROR" ELSE deep[c]]
    /\ UNCHANGED <<decision, answer, marker, explored, queue, claim, terminal, faults>>

AfterBatch ==
    /\ pc = "drained" /\ turn.back = "batch"
    /\ \/ BudgetPaused /\ Exit("PAUSED")
       \/ /\ ~BudgetPaused /\ pc' = "batch"
          /\ turn' = [Drained EXCEPT !.batch = @ + 1,
                        !.incomplete = IF turn.result = "none" THEN @
                                       ELSE Worse(@, turn.result)]
          /\ UNCHANGED <<root, last>>
    /\ UNCHANGED <<work, queue, claim, terminal, faults>>

(* Every batch was seen; a child that stopped ends the turn here.          *)
BatchesSeen ==
    /\ pc = "batch" /\ turn.batch > Len(Files)
    /\ IF turn.incomplete # "none" THEN Exit(turn.incomplete)
       ELSE pc' = "surface" /\ UNCHANGED <<turn, root, last>>
    /\ UNCHANGED <<work, queue, claim, terminal, faults>>

-----------------------------------------------------------------------------
(* _run_targeted_surface_exploration.                                      *)

AtContext == pc = "surface" /\ turn.context <= Contexts

Explore ==
    /\ AtContext /\ turn.context \notin explored /\ RoomFor(1)
    /\ explored' = explored \cup {turn.context}
    /\ \E seeds \in SUBSET Seeds[turn.context] : hyp' = Opened(seeds)
    /\ DrainFrom("surface")
    /\ UNCHANGED <<decision, deep, answer, marker, depth, prim, offers, pool, claim, root,
                   terminal, last, faults>>

ExploreFails ==
    /\ AtContext /\ turn.context \notin explored /\ RoomFor(1)
    /\ \E s \in {"BLOCKED", "PAUSED"} : Blocked(s, "ERROR")
    /\ UNCHANGED <<work, queue, claim, terminal, faults>>

(* CANDIDATE_BACKPRESSURE_BLOCKED: too many children wait for the proposals *)
(* of the next batch or context to be added, and the turn ends there.      *)
Backpressure ==
    /\ \/ AtBatch /\ Missing(turn.batch) # {} /\ ~RoomFor(Cardinality(Batch(turn.batch)))
       \/ AtContext /\ turn.context \notin explored /\ ~RoomFor(1)
    /\ Blocked("BLOCKED", "ERROR")
    /\ UNCHANGED <<work, queue, claim, terminal, faults>>

(* A context of an earlier turn: only its children are run.                *)
Revisit ==
    /\ AtContext /\ turn.context \in explored /\ DrainFrom("surface")
    /\ UNCHANGED <<work, queue, claim, root, terminal, last, faults>>

AfterContext ==
    /\ pc = "drained" /\ turn.back = "surface"
    /\ IF turn.result # "none" THEN Exit(turn.result)
       ELSE /\ pc' = "surface" /\ turn' = [Drained EXCEPT !.context = @ + 1]
            /\ UNCHANGED <<root, last>>
    /\ UNCHANGED <<work, queue, claim, terminal, faults>>

ContextsSeen ==
    /\ pc = "surface" /\ turn.context > Contexts /\ pc' = "pool"
    /\ UNCHANGED <<work, queue, claim, root, terminal, turn, last, faults>>

-----------------------------------------------------------------------------
(* _run_final_chaining_pool.                                               *)

PlanPool ==
    /\ pc = "pool" /\ pc' = "pairs"
    /\ turn' = [turn EXCEPT !.pool = prim, !.pairs = Pairs(prim)]
    /\ UNCHANGED <<work, queue, claim, root, terminal, last, faults>>

(* One batch: saved before, or finalized now and saved before its children *)
(* are registered.                                                         *)
PoolBatch(p) ==
    /\ pc = "pairs" /\ p \in turn.pairs
    /\ \E b \in [pool : {turn.pool}, pair : {p},
                 offer : SUBSET {x \in Chained : Parents[x] = p}] :
          /\ b \in pool \/ p \notin SavedPairs(turn.pool)
          /\ pool' = pool \cup {b}
          /\ turn' = [turn EXCEPT !.pairs = @ \ {p}, !.due = b.offer,
                                  !.back = "pool"]
    /\ pc' = "register"
    /\ UNCHANGED <<work, hyp, depth, prim, offers, claim, root, terminal, last, faults>>

PoolFails(p) ==
    /\ pc = "pairs" /\ p \in turn.pairs \ SavedPairs(turn.pool) /\ Cardinality(p) = 2
    /\ \/ \E code \in {"CHAINING", "ERROR"} : Blocked("BLOCKED", code)
       \/ Blocked("PAUSED", "ERROR")
    /\ UNCHANGED <<work, queue, claim, terminal, faults>>

(* The plan is dropped when the pool has grown under it.                   *)
AfterPoolBatch ==
    /\ pc = "drained" /\ turn.back = "pool"
    /\ IF turn.result # "none" THEN Exit(turn.result)
       ELSE /\ pc' = "pairs"
            /\ turn' = [Drained EXCEPT !.pairs = IF prim # turn.pool THEN {} ELSE @]
            /\ UNCHANGED <<root, last>>
    /\ UNCHANGED <<work, queue, claim, terminal, faults>>

(* Bug variant: the pool is planned again for ever.                        *)
StableNever == FALSE
Stable == prim = turn.pool

PoolEnds ==
    /\ pc = "pairs" /\ turn.pairs = {}
    /\ IF Incomplete # {} THEN Blocked("PAUSED", "ERROR")
       ELSE /\ pc' = IF Stable THEN "finish" ELSE "pool"
            /\ turn' = [turn EXCEPT !.pool = {}] /\ UNCHANGED <<root, last>>
    /\ UNCHANGED <<work, queue, claim, terminal, faults>>

-----------------------------------------------------------------------------
(* _finish_candidate_batches_v2: certify, complete the root, publish.      *)

Certified(c) ==
    IF c \in Kept /\ deep[c] # "NO_HYPOTHESIS" /\ Linked(c) # {}
                  /\ \A h \in Linked(c) : hyp[h] = "closed"
    THEN "COMPLETE" ELSE deep[c]

Finish ==
    /\ pc = "finish" /\ deep' = [c \in Candidates |-> Certified(c)]
    /\ IF \/ \E c \in Candidates : decision[c] \in {"PENDING", "ERROR"}
          \/ \E c \in Kept : deep'[c] \in {"PENDING", "RUNNING", "ERROR"}
          \/ Incomplete # {} \/ SavedPairs(prim) # Pairs(prim)
       THEN Blocked("BLOCKED", "ERROR")
       ELSE /\ root' = [root EXCEPT !.status = "SUCCEEDED", !.code = "none"]
            /\ pc' = "publish" /\ UNCHANGED <<turn, last>>
    /\ UNCHANGED <<decision, answer, marker, explored, queue, claim, terminal, faults>>

Publish ==
    /\ pc = "publish" /\ terminal' = TRUE /\ Leave("DONE")
    /\ UNCHANGED <<work, queue, claim, root, faults>>

-----------------------------------------------------------------------------
Step ==
    \/ (\E c \in Candidates : Decide(c) \/ CommitAnswer(c))
    \/ DiscoveryFails \/ Discovered \/ RecoverChains \/ RegisterChildren
    \/ (\E h \in Hyps : RunChild(h) \/ ChildCloses(h) \/ ChildStops(h))
    \/ PrewarmFails \/ DrainEnds
    \/ SkipFile \/ MarkBatch \/ Propose \/ Answer \/ ProposeFails \/ Committed
    \/ AfterFailed \/ AfterBatch \/ BatchesSeen
    \/ Explore \/ ExploreFails \/ Backpressure \/ Revisit \/ AfterContext \/ ContextsSeen
    \/ PlanPool \/ (\E p \in SUBSET Hyps : PoolBatch(p) \/ PoolFails(p))
    \/ AfterPoolBatch \/ PoolEnds \/ Finish \/ Publish

Next == Resume \/ Step \/ Raise \/ Crash

Spec == Init /\ [][Next]_vars

(* A turn takes its next step, and the operator resumes.                   *)
TurnFairness == WF_vars(Step) /\ WF_vars(Resume)

(* What is tried again and again succeeds at last: a decision, a complete  *)
(* answer, a context, a pool batch, a child.  Each of these happens        *)
(* finitely often, so one condition covers them all.                       *)
Succeeds ==
    \/ \E c \in Candidates : Decide(c) /\ decision'[c] # "ERROR"
    \/ Answer /\ turn'.asked = turn.asked /\ turn'.failure = "none"
    \/ Explore
    \/ \E p \in SUBSET Hyps : p \notin SavedPairs(turn.pool) /\ PoolBatch(p)
    \/ \E h \in Hyps : ChildCloses(h)
RetriesSucceed == SF_vars(Succeeds) /\ SF_vars(\E h \in Hyps : RunChild(h))

FairSpec == Spec /\ TurnFairness /\ RetriesSucceed

-----------------------------------------------------------------------------
(* Properties.                                                             *)

Turns == [retry : SUBSET Candidates, batch : 1..(Len(Files) + 1),
          context : 1..(Contexts + 1), asked : SUBSET Candidates,
          failure : {"none", "error", "budget"}, attempted : SUBSET Hyps,
          count : 0..MaxPending, child : SUBSET Hyps, due : SUBSET Chained,
          result : {"none", "BLOCKED", "FAILED", "PAUSED"},
          incomplete : {"none", "BLOCKED", "FAILED"},
          back : {"none", "batch", "failed", "surface", "pool"},
          pool : SUBSET Hyps, pairs : SUBSET SUBSET Hyps]

TypeOK ==
    /\ decision \in [Candidates -> {"PENDING", "INCLUDE", "EXCLUDE", "ERROR"}]
    /\ deep \in [Candidates -> {"PENDING", "RUNNING", "COMPLETE", "NO_HYPOTHESIS",
                                "INCONCLUSIVE", "ERROR"}]
    /\ answer \in [Candidates -> {"none", "HYPOTHESES", "NO_HYPOTHESIS", "INSUFFICIENT"}]
    /\ marker \subseteq DOMAIN Files /\ explored \subseteq 1..Contexts
    /\ hyp \in [Hyps -> {"none", "open", "closed"}] /\ depth \in [Hyps -> 0..MaxDepth]
    /\ prim \subseteq Hyps /\ offers \in [Hyps -> SUBSET Chained] /\ claim \subseteq Hyps
    /\ root.status \in {"none", "RUNNING", "BLOCKED", "FAILED", "SUCCEEDED"}
    /\ root.number \in 0..2 /\ terminal \in BOOLEAN /\ turn \in Turns
    /\ faults \in 0..MaxFaults

(* A published analysis left nothing out, whatever turns died or were      *)
(* paused on the way: every candidate is decided and answered, its deep    *)
(* status is final, every batch is marked and every context explored, no   *)
(* registered hypothesis is open, every child that a hypothesis or a batch *)
(* of the present pool offered is registered, and that pool is covered.    *)
TerminalClosed ==
    terminal =>
        /\ root.status = "SUCCEEDED" /\ Incomplete = {}
        /\ \A c \in Candidates : decision[c] \in {"INCLUDE", "EXCLUDE"}
        /\ \A c \in Kept : answer[c] # "none"
                           /\ deep[c] \in {"COMPLETE", "NO_HYPOTHESIS", "INCONCLUSIVE"}
        /\ \A i \in DOMAIN Files : Batch(i) # {} => i \in marker
        /\ explored = 1..Contexts
        /\ Due(UNION {offers[h] : h \in Hyps}) = {}
        /\ \A b \in pool : b.pool = prim => Due(b.offer) = {}
        /\ SavedPairs(prim) = Pairs(prim)

(* The tables and the turn have their types, and a turn that returns       *)
(* settles the root checkpoint and its claims, however it ended: no        *)
(* RUNNING row and no claim is left for nobody, and the analysis is        *)
(* published exactly if the turn says so.                                  *)
TurnSettled ==
    /\ TypeOK
    /\ pc = "idle" /\ last \notin {"none", "crashed"} =>
           /\ root.status \in {"BLOCKED", "FAILED", "SUCCEEDED"} /\ claim = {}
           /\ terminal <=> (last = "DONE")

(* Production is bounded: the hypotheses that candidates and contexts      *)
(* proposed and that wait to be run never exceed the pending limit.        *)
QueueBounded == Cardinality(Incomplete \cap Proposed) <= MaxPending

(* A candidate whose answer is stored is not sent to the provider again,   *)
(* by no later turn, and the answer does not change.                       *)
AskedOnce ==
    /\ pc = "propose" => \A c \in turn.asked : answer[c] = "none"
    /\ \A c \in Candidates : answer[c] = "HYPOTHESES" <=> Linked(c) # {}

(* Liveness, under FairSpec.                                               *)

(* Every turn returns: each child runs at most once in it, and the pool is *)
(* planned again only when it has grown.                                   *)
TurnReturns == pc # "idle" ~> pc = "idle"

(* An analysis that is resumed often enough, with calls and children that  *)
(* succeed at last, is published; only a rejected chaining response stops  *)
(* it for good.  docs/decisions/2026-10-01-streaming-pipeline-             *)
(* optimization-design.md line 43: backpressure causes no deadlock.        *)
Completes == []<>(terminal \/ Refused)

(* A batch that was answered in part, where the children of its answers    *)
(* leave no room to ask for the rest.                                      *)
Full == \E i \in DOMAIN Files : /\ Missing(i) \notin {{}, Batch(i)}
                                /\ ~RoomFor(Cardinality(Batch(i)))

(* The same but for that one case: nothing else keeps an analysis from     *)
(* being published.                                                        *)
CompletesUnlessFull == Completes \/ <>[]Full
=============================================================================
