---------------------- MODULE CandidatePipeline_proofs ----------------------
(***************************************************************************)
(* Proofs about CandidatePipeline, for any batches, contexts, hypotheses,  *)
(* chains, limits and number of turns: a published analysis left nothing   *)
(* out, a turn settles what it started, no stored answer is asked for      *)
(* again and production stays under its limit.                             *)
(*                                                                         *)
(* The inductive invariant has one part per table or question; a turn that *)
(* ends leaves the parts about the turn empty, so the actions are grouped  *)
(* into those that end the turn and those that carry it on.                *)
(***************************************************************************)
EXTENDS CandidatePipeline, FiniteSetTheorems, TLAPS

-----------------------------------------------------------------------------
(* The inductive invariant.                                                *)

Pcs == {"idle", "discover", "recover", "batch", "propose", "commit", "register", "drain",
        "child", "drained", "surface", "pool", "pairs", "finish", "publish"}
Draining == {"register", "drain", "child", "drained"}

(* Types, with those of the rows that TypeOK does not mention.             *)
PoolRows == [pool : SUBSET Hyps, pair : SUBSET Hyps, offer : SUBSET Chained]
Roots == [status : {"none", "RUNNING", "BLOCKED", "FAILED", "SUCCEEDED"},
          code : {"none", "ERROR", "CHAINING"}, number : 0..2]
StoreTyped ==
    /\ decision \in [Candidates -> {"PENDING", "INCLUDE", "EXCLUDE", "ERROR"}]
    /\ deep \in [Candidates -> {"PENDING", "RUNNING", "COMPLETE", "NO_HYPOTHESIS",
                                "INCONCLUSIVE", "ERROR"}]
    /\ answer \in [Candidates -> {"none", "HYPOTHESES", "NO_HYPOTHESIS", "INSUFFICIENT"}]
    /\ marker \subseteq DOMAIN Files /\ explored \subseteq 1..Contexts
    /\ hyp \in [Hyps -> {"none", "open", "closed"}] /\ depth \in [Hyps -> 0..MaxDepth]
    /\ prim \subseteq Hyps /\ offers \in [Hyps -> SUBSET Chained]
    /\ pool \subseteq PoolRows /\ claim \subseteq Hyps
    /\ root \in Roots /\ terminal \in BOOLEAN /\ faults \in 0..MaxFaults
TurnTyped == turn \in Turns /\ pc \in Pcs
Typed == StoreTyped /\ TurnTyped

(* Where a turn is fits what it remembers.                                 *)
Proposing == pc \in {"propose", "commit"} \/ turn.back \in {"batch", "failed"}
PastBatches == \/ pc \in {"surface", "pool", "pairs", "finish", "publish"}
               \/ turn.back \in {"surface", "pool"}
PastContexts == pc \in {"pool", "pairs", "finish", "publish"} \/ turn.back = "pool"
TurnOK ==
    /\ pc = "idle" => turn = NoTurn
    /\ pc = "discover" => turn.batch = 1 /\ turn.context = 1
    /\ turn.back # "none" <=> pc \in Draining
    /\ Proposing => turn.batch \in DOMAIN Files
    /\ turn.back = "surface" => turn.context \in 1..Contexts
    /\ PastBatches => turn.batch = Len(Files) + 1
    /\ PastContexts => turn.context = Contexts + 1
    /\ pc # "register" => turn.due = {}
    /\ pc # "child" => turn.child = {}
    /\ turn.child \subseteq Incomplete

(* The root checkpoint, the claims and the terminal marker fit the turn.   *)
Settled == {"BLOCKED", "FAILED", "SUCCEEDED"}
SettleOK ==
    /\ pc # "idle" => /\ last = "none" /\ ~terminal /\ claim = turn.child
                      /\ root.status \in {"RUNNING", "SUCCEEDED"}
    /\ pc = "publish" => root.status = "SUCCEEDED"
    /\ terminal => last = "DONE" /\ root.status = "SUCCEEDED"
    /\ pc = "idle" /\ last \notin {"none", "crashed"} =>
           root.status \in Settled /\ claim = {} /\ (terminal <=> (last = "DONE"))

(* What a turn has passed is decided, answered, marked and explored.       *)
Done(i) == Missing(i) = {} /\ (Batch(i) # {} => i \in marker)
ProgressOK ==
    pc \notin {"idle", "discover"} =>
        /\ \A c \in Candidates : decision[c] \in {"INCLUDE", "EXCLUDE"}
        /\ \A i \in DOMAIN Files : i < turn.batch => Done(i)
        /\ turn.back = "batch" => Done(turn.batch)
        /\ \A k \in 1..Contexts : k < turn.context => k \in explored
        /\ turn.back = "surface" => turn.context \in explored

(* What is asked for has no answer, and an answer with hypotheses is one   *)
(* that registered some of its candidate's.                                *)
AskOK ==
    /\ pc \in {"propose", "commit"} => \A c \in turn.asked : answer[c] = "none"
    /\ \A c \in Candidates : answer[c] = "HYPOTHESES" <=> Linked(c) # {}

(* There is room for all that the answers still to come may add.           *)
RoomOK ==
    /\ QueueBounded
    /\ pc \in {"propose", "commit"} =>
           Cardinality(Incomplete) + SeedLimit * Cardinality(turn.asked) <= MaxPending

(* Primitives and offers belong to registered hypotheses, so the depth of  *)
(* an offered child is settled; a pool has one saved batch per pair.       *)
ChainOK ==
    /\ \A h \in prim : hyp[h] # "none"
    /\ \A h \in Hyps : hyp[h] = "none" => offers[h] = {}
    /\ \A h \in Hyps : \A x \in offers[h] : Parents[x] \subseteq prim
    /\ \A b \in pool : /\ b.pool \subseteq prim /\ b.pair \in Pairs(b.pool)
                       /\ \A x \in b.offer : Parents[x] \subseteq prim
    /\ \A b, d \in pool : b.pool = d.pool /\ b.pair = d.pair => b = d

(* Of what closed hypotheses offer, only what the turn is registering is   *)
(* missing; the same for the batches of the pool the turn has gone through.*)
OffersOK ==
    pc \notin {"idle", "discover", "recover"} =>
        \A h \in Hyps : hyp[h] = "closed" => Due(offers[h]) \subseteq turn.due
InPool == pc = "pairs" \/ turn.back = "pool"
PoolOK ==
    /\ InPool =>
           /\ turn.pool \subseteq prim /\ turn.pairs \subseteq Pairs(turn.pool)
           /\ turn.pool = prim =>
                  \A b \in pool : b.pool = prim /\ b.pair \notin turn.pairs
                                     => Due(b.offer) \subseteq turn.due
    /\ pc \in {"finish", "publish"} => \A b \in pool : b.pool = prim => Due(b.offer) = {}

(* What Finish has found is what a published analysis is.                  *)
Complete ==
    /\ Incomplete = {} /\ \A c \in Candidates : decision[c] \in {"INCLUDE", "EXCLUDE"}
    /\ \A c \in Kept : /\ answer[c] # "none"
                       /\ deep[c] \in {"COMPLETE", "NO_HYPOTHESIS", "INCONCLUSIVE"}
    /\ \A i \in DOMAIN Files : Batch(i) # {} => i \in marker
    /\ explored = 1..Contexts
    /\ Due(UNION {offers[h] : h \in Hyps}) = {}
    /\ \A b \in pool : b.pool = prim => Due(b.offer) = {}
    /\ SavedPairs(prim) = Pairs(prim)
CompleteOK == pc = "publish" \/ terminal => Complete

PInv == /\ Typed /\ TurnOK /\ SettleOK /\ ProgressOK /\ AskOK /\ RoomOK
        /\ ChainOK /\ OffersOK /\ PoolOK /\ CompleteOK

-----------------------------------------------------------------------------
(* Facts about the constants.                                              *)

(* The limits are numbers, and the batches are numbered from one.          *)
LEMMA Limits == /\ MaxPending \in Nat /\ MaxDepth \in Nat /\ MaxFaults \in Nat
                /\ SeedLimit \in Nat /\ Contexts \in Nat
                /\ Len(Files) \in Nat /\ DOMAIN Files = 1..Len(Files)
  BY PipelineAssumption

(* The hypotheses of the candidates and contexts are disjoint from each    *)
(* other and from those of chains.                                         *)
LEMMA Universe == /\ Proposed \subseteq Hyps /\ Chained \subseteq Hyps
                  /\ Proposed \cap Chained = {}
                  /\ \A c \in Candidates \cup (1..Contexts) : Seeds[c] \subseteq Proposed
                  /\ \A c, d \in Candidates \cup (1..Contexts) :
                         c # d => Seeds[c] \cap Seeds[d] = {}
                  /\ Candidates \cap (1..Contexts) = {}
                  /\ \A x \in Chained : Parents[x] \subseteq Hyps
  <1>1. \A c \in Candidates \cup (1..Contexts) : Seeds[c] \subseteq Proposed
    BY PipelineAssumption DEF Proposed
  <1> QED BY <1>1, PipelineAssumption DEF Hyps

(* A set of two elements, as the parents of a chain are.                   *)
LEMMA PairOfTwo == ASSUME NEW S, IsFiniteSet(S), Cardinality(S) = 2
                   PROVE  \E a, b \in S : S = {a, b}
  <1>1. PICK a \in S : TRUE
    BY FS_EmptySet
  <1>2. IsFiniteSet(S \ {a}) /\ Cardinality(S \ {a}) = 1
    BY <1>1, FS_RemoveElement
  <1>3. PICK b \in S \ {a} : TRUE
    BY <1>2, FS_EmptySet
  <1>4. IsFiniteSet((S \ {a}) \ {b}) /\ Cardinality((S \ {a}) \ {b}) = 0
    BY <1>2, <1>3, FS_RemoveElement
  <1>5. (S \ {a}) \ {b} = {}
    BY <1>4, FS_EmptySet
  <1> QED BY <1>1, <1>3, <1>5

(* The depth of a chain is one more than that of its deeper parent.        *)
LEMMA DepthTyped == ASSUME StoreTyped, NEW x \in Chained
                    PROVE  DepthOf(x) \in Nat
  <1>1. PICK a, b \in Parents[x] : Parents[x] = {a, b}
    <2>1. IsFiniteSet(Parents[x]) /\ Cardinality(Parents[x]) = 2
      BY PipelineAssumption, FS_Subset
    <2> QED BY <2>1, PairOfTwo
  <1>2. a \in Hyps /\ b \in Hyps
    BY Universe
  <1>3. depth[a] \in Nat /\ depth[b] \in Nat
    BY <1>2, Limits DEF StoreTyped
  <1>4. {depth[h] : h \in Parents[x]} = {depth[a], depth[b]}
    BY <1>1
  <1>5. \E m \in {depth[a], depth[b]} : \A y \in {depth[a], depth[b]} : m >= y
    BY <1>3
  <1>6. Max({depth[a], depth[b]}) \in {depth[a], depth[b]}
    BY <1>5 DEF Max
  <1> QED BY <1>3, <1>4, <1>6 DEF DepthOf
-----------------------------------------------------------------------------
(* Types.                                                                  *)

(* The first state has the types.                                          *)
LEMMA InitTyped == Init => Typed
  <1> SUFFICES ASSUME Init PROVE Typed
    OBVIOUS
  <1>1. /\ root \in Roots /\ hyp \in [Hyps -> {"none", "open", "closed"}]
        /\ depth \in [Hyps -> 0..MaxDepth] /\ faults \in 0..MaxFaults
    BY Limits DEF Init, Roots
  <1>3. StoreTyped
    BY <1>1 DEF Init, StoreTyped
  <1>2. NoTurn \in Turns
    BY Limits DEF NoTurn, Turns
  <1> QED BY <1>3, <1>2 DEF Init, Typed, TurnTyped, Pcs

(* Registering a chain keeps the types of its row and of its depth.        *)
LEMMA Registered == ASSUME StoreTyped, NEW x \in Chained, DepthOf(x) <= MaxDepth,
                           Register(x)
                    PROVE  /\ hyp' \in [Hyps -> {"none", "open", "closed"}]
                           /\ depth' \in [Hyps -> 0..MaxDepth]
  <1>1. DepthOf(x) \in 0..MaxDepth
    BY DepthTyped, Limits
  <1> QED BY <1>1, Universe DEF StoreTyped, Register

(* A child that stopped the turn leaves a root of its type.                *)
LEMMA ExitTyped == ASSUME root \in Roots, NEW s, Exit(s) PROVE root' \in Roots
  <1>1. CASE root.status = "RUNNING"
    <2>1. \E t \in {"FAILED", "BLOCKED"} :
             root' = [root EXCEPT !.status = t, !.code = "ERROR"]
      BY <1>1 DEF Exit
    <2> QED BY <2>1 DEF Roots
  <1>2. CASE root.status # "RUNNING"
    BY <1>2 DEF Exit
  <1> QED BY <1>1, <1>2

(* Every transaction of a turn keeps the types of the tables.              *)
LEMMA StoreTypeKept == Typed /\ TurnOK /\ Next => StoreTyped'
  <1> SUFFICES ASSUME Typed, TurnOK, Next PROVE StoreTyped'
    OBVIOUS
  <1> USE Limits DEF Typed, StoreTyped, Roots, work, queue
  <1>1. CASE Resume
    <2>1. Again(root.number) \in 0..2
      BY DEF Again
    <2>2. root' \in Roots
      BY <1>1, <2>1 DEF Resume
    <2> QED BY <1>1, <2>2 DEF Resume
  <1>2. ASSUME NEW c \in Candidates, Decide(c) PROVE StoreTyped'
    BY <1>2 DEF Decide, ToDecide
  <1>3. ASSUME NEW c \in Candidates, CommitAnswer(c) PROVE StoreTyped'
    <2>1. hyp' \in [Hyps -> {"none", "open", "closed"}]
      BY <1>3 DEF CommitAnswer, Opened
    <2>2. deep' \in [Candidates -> {"PENDING", "RUNNING", "COMPLETE", "NO_HYPOTHESIS",
                                    "INCONCLUSIVE", "ERROR"}]
      BY <1>3 DEF CommitAnswer
    <2>3. answer' \in [Candidates -> {"none", "HYPOTHESES", "NO_HYPOTHESIS",
                                      "INSUFFICIENT"}]
      BY <1>3 DEF CommitAnswer
    <2> QED BY <1>3, <2>1, <2>2, <2>3 DEF CommitAnswer
  <1>4. CASE DiscoveryFails
    BY <1>4 DEF DiscoveryFails, Blocked, Leave, Again
  <1>5. CASE Discovered
    BY <1>5 DEF Discovered, Blocked, Leave, Again
  <1>6. CASE RecoverChains
    <2>1. ASSUME NEW x \in RecoveredDue, Register(x) PROVE StoreTyped'
      <3>1. x \in Chained /\ DepthOf(x) <= MaxDepth
        BY DEF RecoveredDue, Due
      <3> QED BY <1>6, <2>1, <3>1, Registered DEF RecoverChains, Register
    <2> QED BY <1>6, <2>1 DEF RecoverChains
  <1>7. CASE RegisterChildren
    <2>1. ASSUME NEW x \in Due(turn.due), Register(x) PROVE StoreTyped'
      <3>1. x \in Chained /\ DepthOf(x) <= MaxDepth
        BY DEF Due, TurnTyped, Turns
      <3> QED BY <1>7, <2>1, <3>1, Registered DEF RegisterChildren, Register
    <2> QED BY <1>7, <2>1 DEF RegisterChildren
  <1>8. ASSUME NEW h \in Hyps, RunChild(h) PROVE StoreTyped'
    BY <1>8 DEF RunChild, Runnable
  <1>9. ASSUME NEW h \in Hyps, ChildCloses(h) PROVE StoreTyped'
    BY <1>9 DEF ChildCloses, ChildWrites
  <1>10. ASSUME NEW h \in Hyps, ChildStops(h) PROVE StoreTyped'
    BY <1>10 DEF ChildStops, ChildWrites, Worse
  <1>11. CASE PrewarmFails
    BY <1>11 DEF PrewarmFails, Runnable
  <1>12. CASE DrainEnds
    BY <1>12 DEF DrainEnds
  <1>13. CASE SkipFile
    BY <1>13 DEF SkipFile, AtBatch
  <1>14. CASE MarkBatch
    <2>1. turn.batch \in DOMAIN Files
      BY <1>14 DEF MarkBatch, AtBatch, TurnTyped, Turns
    <2> QED BY <1>14, <2>1 DEF MarkBatch
  <1>15. CASE Propose
    BY <1>15 DEF Propose, AtBatch, Missing, Batch
  <1>16. CASE Answer
    BY <1>16 DEF Answer
  <1>17. CASE ProposeFails
    BY <1>17 DEF ProposeFails, Blocked, Leave, Again
  <1>18. CASE Committed
    BY <1>18 DEF Committed, Blocked, Leave, Again, DrainFrom
  <1>19. CASE AfterFailed
    <2>1. deep' \in [Candidates -> {"PENDING", "RUNNING", "COMPLETE", "NO_HYPOTHESIS",
                                    "INCONCLUSIVE", "ERROR"}]
      BY <1>19 DEF AfterFailed
    <2>2. Again(root.number) \in 0..2
      BY DEF Again
    <2>3. CASE Exit("PAUSED")
      BY <1>19, <2>1, <2>3 DEF AfterFailed, Exit
    <2>4. CASE Blocked("BLOCKED", "ERROR")
      <3>1. root' \in Roots
        BY <2>2, <2>4 DEF Blocked
      <3> QED BY <1>19, <2>1, <3>1 DEF AfterFailed
    <2> QED BY <1>19, <2>3, <2>4 DEF AfterFailed
  <1>20. CASE AfterBatch
    BY <1>20, ExitTyped DEF AfterBatch
  <1>21. CASE BatchesSeen
    BY <1>21, ExitTyped DEF BatchesSeen
  <1>22. CASE Explore
    <2>1. turn.context \in 1..Contexts
      BY <1>22 DEF Explore, AtContext, TurnTyped, Turns
    <2>2. hyp' \in [Hyps -> {"none", "open", "closed"}]
      BY <1>22 DEF Explore, Opened
    <2> QED BY <1>22, <2>1, <2>2 DEF Explore
  <1>23. CASE ExploreFails
    BY <1>23 DEF ExploreFails, Blocked, Leave, Again
  <1>24. CASE Backpressure
    BY <1>24 DEF Backpressure, Blocked, Leave, Again
  <1>25. CASE Revisit
    BY <1>25 DEF Revisit, AtContext, DrainFrom
  <1>26. CASE AfterContext
    BY <1>26, ExitTyped DEF AfterContext
  <1>27. CASE ContextsSeen
    BY <1>27 DEF ContextsSeen
  <1>28. CASE PlanPool
    BY <1>28 DEF PlanPool, Pairs
  <1>29. ASSUME NEW p \in SUBSET Hyps, PoolBatch(p) PROVE StoreTyped'
    <2>1. turn.pool \in SUBSET Hyps
      BY DEF TurnTyped, Turns
    <2>2. pool' \subseteq PoolRows
      BY <1>29, <2>1 DEF PoolBatch, PoolRows
    <2> QED BY <1>29, <2>2 DEF PoolBatch
  <1>30. ASSUME NEW p \in SUBSET Hyps, PoolFails(p) PROVE StoreTyped'
    BY <1>30 DEF PoolFails, Blocked, Leave, Again
  <1>31. CASE AfterPoolBatch
    BY <1>31, ExitTyped DEF AfterPoolBatch
  <1>32. CASE PoolEnds
    BY <1>32 DEF PoolEnds, Blocked, Leave, Again, Stable
  <1>33. CASE Finish
    <2>1. deep' \in [Candidates -> {"PENDING", "RUNNING", "COMPLETE", "NO_HYPOTHESIS",
                                    "INCONCLUSIVE", "ERROR"}]
      BY <1>33 DEF Finish, Certified
    <2>2. Again(root.number) \in 0..2
      BY DEF Again
    <2>3. CASE Blocked("BLOCKED", "ERROR")
      <3>1. root' \in Roots
        BY <2>2, <2>3 DEF Blocked
      <3> QED BY <1>33, <2>1, <3>1 DEF Finish
    <2>4. CASE root' = [root EXCEPT !.status = "SUCCEEDED", !.code = "none"]
      BY <1>33, <2>1, <2>4 DEF Finish
    <2> QED BY <1>33, <2>3, <2>4 DEF Finish
  <1>34. CASE Publish
    BY <1>34 DEF Publish, Leave
  <1>35. CASE Raise
    BY <1>35 DEF Raise, Leave, Again
  <1>36. CASE Crash
    BY <1>36 DEF Crash, Leave
  <1> QED BY <1>1, <1>2, <1>3, <1>4, <1>5, <1>6, <1>7, <1>8, <1>9, <1>10, <1>11, <1>12,
      <1>13, <1>14, <1>15, <1>16, <1>17, <1>18, <1>19, <1>20, <1>21, <1>22, <1>23,
      <1>24, <1>25, <1>26, <1>27, <1>28, <1>29, <1>30, <1>31, <1>32, <1>33, <1>34,
      <1>35, <1>36 DEF Next, Step

(* What the turn is after a drain has its type.                            *)
LEMMA DrainedTyped == ASSUME turn \in Turns PROVE Drained \in Turns
  <1> DEFINE one == [turn EXCEPT !.back = "none"]
             two == [one EXCEPT !.count = 0]
  <1>1. one \in Turns
    BY DEF Turns
  <1>2. 0 \in 0..MaxPending
    BY Limits
  <1> HIDE DEF one
  <1>3. two \in Turns
    BY <1>1, <1>2 DEF Turns
  <1> HIDE DEF two
  <1>4. [two EXCEPT !.result = "none"] \in Turns
    BY <1>3 DEF Turns
  <1> QED BY <1>4 DEF one, two, Drained

(* What the turn remembers across a drain.                                 *)
LEMMA DrainedFields ==
    ASSUME turn \in Turns
    PROVE  /\ Drained.back = "none" /\ Drained.result = "none"
           /\ Drained.batch = turn.batch /\ Drained.context = turn.context
           /\ Drained.due = turn.due /\ Drained.child = turn.child
           /\ Drained.pool = turn.pool /\ Drained.pairs = turn.pairs
  BY DEF Drained, Turns

(* A batch whose drain carries the turn on is followed by the next.        *)
LEMMA BatchGoesOn ==
    ASSUME turn \in Turns, AfterBatch, pc' # "idle"
    PROVE  /\ pc = "drained" /\ turn.back = "batch" /\ pc' = "batch"
           /\ UNCHANGED <<work, queue, claim, root, terminal, last, faults>>
           /\ turn'.back = "none" /\ turn'.due = turn.due /\ turn'.child = turn.child
           /\ turn'.batch = turn.batch + 1 /\ turn'.context = turn.context
  <1>1. turn' = [Drained EXCEPT !.batch = @ + 1,
                  !.incomplete = IF turn.result = "none" THEN @ ELSE Worse(@, turn.result)]
    BY DEF AfterBatch, Exit, Leave
  <1>2. Drained \in Turns
    BY DrainedTyped
  <1>3. /\ turn'.back = Drained.back /\ turn'.due = Drained.due
        /\ turn'.child = Drained.child /\ turn'.batch = Drained.batch + 1 /\ turn'.context = Drained.context
    BY <1>1, <1>2 DEF Turns
  <1>4. /\ pc = "drained" /\ turn.back = "batch" /\ pc' = "batch"
        /\ UNCHANGED <<work, queue, claim, root, terminal, last, faults>>
    BY DEF AfterBatch, Exit, Leave
  <1> QED BY <1>3, <1>4, DrainedFields

(* So is a context.                                                        *)
LEMMA ContextGoesOn ==
    ASSUME turn \in Turns, AfterContext, pc' # "idle"
    PROVE  /\ pc = "drained" /\ turn.back = "surface" /\ pc' = "surface"
           /\ UNCHANGED <<work, queue, claim, root, terminal, last, faults>>
           /\ turn'.back = "none" /\ turn'.due = turn.due /\ turn'.child = turn.child
           /\ turn'.batch = turn.batch /\ turn'.context = turn.context + 1
  <1>1. turn' = [Drained EXCEPT !.context = @ + 1]
    BY DEF AfterContext, Exit, Leave
  <1>2. Drained \in Turns
    BY DrainedTyped
  <1>3. /\ turn'.back = Drained.back /\ turn'.due = Drained.due
        /\ turn'.child = Drained.child /\ turn'.batch = Drained.batch /\ turn'.context = Drained.context + 1
    BY <1>1, <1>2 DEF Turns
  <1>4. /\ pc = "drained" /\ turn.back = "surface" /\ pc' = "surface"
        /\ UNCHANGED <<work, queue, claim, root, terminal, last, faults>>
    BY DEF AfterContext, Exit, Leave
  <1> QED BY <1>3, <1>4, DrainedFields

(* And a batch of the pool, unless the pool has grown.                     *)
LEMMA PoolGoesOn ==
    ASSUME turn \in Turns, AfterPoolBatch, pc' # "idle"
    PROVE  /\ pc = "drained" /\ turn.back = "pool" /\ pc' = "pairs"
           /\ UNCHANGED <<work, queue, claim, root, terminal, last, faults>>
           /\ turn'.back = "none" /\ turn'.due = turn.due /\ turn'.child = turn.child
           /\ turn'.batch = turn.batch /\ turn'.context = turn.context /\ turn'.pool = turn.pool
           /\ turn'.pairs = IF prim # turn.pool THEN {} ELSE turn.pairs
  <1>1. turn' = [Drained EXCEPT !.pairs = IF prim # turn.pool THEN {} ELSE @]
    BY DEF AfterPoolBatch, Exit, Leave
  <1>2. Drained \in Turns
    BY DrainedTyped
  <1>3. /\ turn'.back = Drained.back /\ turn'.due = Drained.due
        /\ turn'.child = Drained.child /\ turn'.batch = Drained.batch /\ turn'.context = Drained.context /\ turn'.pool = Drained.pool
           /\ turn'.pairs = IF prim # turn.pool THEN {} ELSE Drained.pairs
    BY <1>1, <1>2 DEF Turns
  <1>4. /\ pc = "drained" /\ turn.back = "pool" /\ pc' = "pairs"
        /\ UNCHANGED <<work, queue, claim, root, terminal, last, faults>>
    BY DEF AfterPoolBatch, Exit, Leave
  <1> QED BY <1>3, <1>4, DrainedFields

(* Every step keeps the types of what the turn remembers.                  *)
LEMMA TurnTypeKept == Typed /\ TurnOK /\ Next => TurnTyped'
  <1> SUFFICES ASSUME Typed, TurnOK, Next PROVE TurnTyped'
    OBVIOUS
  <1> USE Limits DEF Typed, TurnTyped, Turns, Pcs, NoTurn
  <1>1. CASE Resume
    <2>1. Retried \in SUBSET Candidates
      BY DEF Retried
    <2>2. [NoTurn EXCEPT !.retry = Retried] \in Turns
      BY <2>1, SMTT(30)
    <2> QED BY <1>1, <2>2, SMTT(30) DEF Resume
  <1>2. ASSUME NEW c \in Candidates, Decide(c) PROVE TurnTyped'
    BY <1>2 DEF Decide, ToDecide
  <1>3. ASSUME NEW c \in Candidates, CommitAnswer(c) PROVE TurnTyped'
    BY <1>3 DEF CommitAnswer, Opened
  <1>4. CASE DiscoveryFails
    BY <1>4 DEF DiscoveryFails, Blocked, Leave, Again
  <1>5. CASE Discovered
    BY <1>5 DEF Discovered, Blocked, Leave, Again
  <1>6. CASE RecoverChains
    BY <1>6 DEF RecoverChains, Register, RecoveredDue, Due
  <1>7. CASE RegisterChildren
    BY <1>7 DEF RegisterChildren, Register, Due
  <1>8. ASSUME NEW h \in Hyps, RunChild(h) PROVE TurnTyped'
    <2>1. turn.attempted \cup {h} \in SUBSET Hyps /\ turn.count + 1 \in 0..MaxPending
      BY <1>8 DEF RunChild
    <2> QED BY <1>8, <2>1 DEF RunChild
  <1>9. ASSUME NEW h \in Hyps, ChildCloses(h) PROVE TurnTyped'
    <2>1. offers'[h] \in SUBSET Chained /\ turn.attempted \ {h} \in SUBSET Hyps
      BY StoreTypeKept DEF StoreTyped
    <2>2. turn' = [turn EXCEPT !.child = {}, !.due = offers'[h],
                               !.attempted = turn.attempted \ {h}]
      BY <1>9 DEF ChildCloses
    <2>3. [turn EXCEPT !.child = {}, !.due = offers'[h]] \in Turns
      BY <2>1
    <2>4. turn' \in Turns
      BY <2>1, <2>2, <2>3
    <2> QED BY <1>9, <2>4 DEF ChildCloses
  <1>10. ASSUME NEW h \in Hyps, ChildStops(h) PROVE TurnTyped'
    <2>1. \A s \in {"BLOCKED", "FAILED"} :
             Worse(turn.result, s) \in {"none", "BLOCKED", "FAILED", "PAUSED"}
      BY DEF Worse
    <2>2. CASE turn' = [turn EXCEPT !.child = {}, !.result = "PAUSED"]
      BY <1>10, <2>2 DEF ChildStops
    <2>3. ASSUME NEW s \in {"BLOCKED", "FAILED"},
                 turn' = [turn EXCEPT !.child = {}, !.result = Worse(turn.result, s)]
          PROVE TurnTyped'
      BY <1>10, <2>1, <2>3 DEF ChildStops
    <2> QED BY <1>10, <2>2, <2>3 DEF ChildStops
  <1>11. CASE PrewarmFails
    <2>1. PICK S \in SUBSET Runnable, s \in {"BLOCKED", "FAILED", "PAUSED"} :
             turn' = [turn EXCEPT !.attempted = turn.attempted \cup S, !.result = s]
      BY <1>11 DEF PrewarmFails
    <2>2. turn.attempted \cup S \in SUBSET Hyps
      BY DEF Runnable, Incomplete
    <2> QED BY <1>11, <2>1, <2>2 DEF PrewarmFails
  <1>12. CASE DrainEnds
    BY <1>12 DEF DrainEnds
  <1>13. CASE SkipFile
    <2>1. turn' = [turn EXCEPT !.batch = turn.batch + 1]
      BY <1>13 DEF SkipFile
    <2>2. turn.batch + 1 \in 1..(Len(Files) + 1)
      BY <1>13 DEF SkipFile, AtBatch
    <2> QED BY <1>13, <2>1, <2>2, SMTT(30) DEF SkipFile
  <1>14. CASE MarkBatch
    BY <1>14 DEF MarkBatch, AtBatch, DrainFrom
  <1>15. CASE Propose
    <2>1. Missing(turn.batch) \in SUBSET Candidates
      BY DEF Missing, Batch, Kept
    <2> QED BY <1>15, <2>1 DEF Propose
  <1>16. CASE Answer
    <2>1. PICK some \in SUBSET turn.asked, f \in {"none", "error", "budget"} :
             turn' = [turn EXCEPT !.asked = some, !.failure = f]
      BY <1>16 DEF Answer
    <2>2. some \in SUBSET Candidates
      OBVIOUS
    <2> QED BY <1>16, <2>1, <2>2 DEF Answer
  <1>17. CASE ProposeFails
    BY <1>17 DEF ProposeFails, Blocked, Leave, Again
  <1>18. CASE Committed
    <2>1. CASE DrainFrom("failed")
      BY <1>18, <2>1 DEF Committed, DrainFrom
    <2>2. CASE Blocked("PAUSED", "ERROR")
      BY <1>18, <2>2 DEF Committed, Blocked, Leave
    <2> QED BY <1>18, <2>1, <2>2 DEF Committed
  <1>19. CASE AfterFailed
    BY <1>19 DEF AfterFailed, Blocked, Exit, Leave, Again
  <1>20. CASE AfterBatch
    <2>1. CASE Exit("PAUSED")
      BY <1>20, <2>1 DEF Exit, Leave
    <2>2. CASE ~BudgetPaused /\ ~Exit("PAUSED")
      <3> DEFINE bad == IF turn.result = "none" THEN turn.incomplete
                        ELSE Worse(turn.incomplete, turn.result)
      <3>1. pc' = "batch"
            /\ turn' = [Drained EXCEPT !.batch = turn.batch + 1, !.incomplete = bad]
        BY <1>20, <2>2 DEF AfterBatch, Drained
      <3>2. turn.batch + 1 \in 1..(Len(Files) + 1)
        BY <1>20 DEF AfterBatch, TurnOK, Proposing
      <3>3. bad \in {"none", "BLOCKED", "FAILED"}
        BY <2>2 DEF Worse, BudgetPaused
      <3> HIDE DEF bad
      <3>4. Drained \in Turns
        BY DrainedTyped
      <3>5. [Drained EXCEPT !.batch = turn.batch + 1, !.incomplete = bad] \in Turns
        BY <3>2, <3>3, <3>4
      <3> QED BY <3>1, <3>5
    <2> QED BY <1>20, <2>1, <2>2 DEF AfterBatch
  <1>21. CASE BatchesSeen
    BY <1>21 DEF BatchesSeen, Exit, Leave
  <1>22. CASE Explore
    BY <1>22 DEF Explore, AtContext, Opened, DrainFrom
  <1>23. CASE ExploreFails
    BY <1>23 DEF ExploreFails, Blocked, Leave, Again
  <1>24. CASE Backpressure
    BY <1>24 DEF Backpressure, Blocked, Leave, Again
  <1>25. CASE Revisit
    BY <1>25 DEF Revisit, AtContext, DrainFrom
  <1>26. CASE AfterContext
    <2>1. CASE turn.result # "none"
      BY <1>26, <2>1 DEF AfterContext, Exit, Leave
    <2>2. CASE turn.result = "none"
      <3>1. pc' = "surface"
            /\ turn' = [Drained EXCEPT !.context = turn.context + 1]
        BY <1>26, <2>2 DEF AfterContext, Drained
      <3>2. turn.context + 1 \in 1..(Contexts + 1)
        BY <1>26 DEF AfterContext, TurnOK
      <3>3. Drained \in Turns
        BY DrainedTyped
      <3>4. [Drained EXCEPT !.context = turn.context + 1] \in Turns
        BY <3>2, <3>3
      <3> QED BY <3>1, <3>4
    <2> QED BY <2>1, <2>2
  <1>27. CASE ContextsSeen
    BY <1>27 DEF ContextsSeen
  <1>28. CASE PlanPool
    <2>1. prim \in SUBSET Hyps /\ Pairs(prim) \in SUBSET SUBSET Hyps
      BY DEF StoreTyped, Pairs
    <2> QED BY <1>28, <2>1 DEF PlanPool
  <1>29. ASSUME NEW p \in SUBSET Hyps, PoolBatch(p) PROVE TurnTyped'
    <2>1. PICK b \in [pool : {turn.pool}, pair : {p},
                      offer : SUBSET {x \in Chained : Parents[x] = p}] :
             turn' = [turn EXCEPT !.pairs = turn.pairs \ {p}, !.due = b.offer,
                                  !.back = "pool"]
      BY <1>29 DEF PoolBatch
    <2>2. b.offer \in SUBSET Chained /\ turn.pairs \ {p} \in SUBSET SUBSET Hyps
      BY <2>1
    <2>3. pc' = "register"
      BY <1>29 DEF PoolBatch
    <2> QED BY <2>1, <2>2, <2>3
  <1>30. ASSUME NEW p \in SUBSET Hyps, PoolFails(p) PROVE TurnTyped'
    BY <1>30 DEF PoolFails, Blocked, Leave, Again
  <1>31. CASE AfterPoolBatch
    <2>1. CASE turn.result # "none"
      BY <1>31, <2>1 DEF AfterPoolBatch, Exit, Leave
    <2>2. CASE turn.result = "none"
      <3> DEFINE left == IF prim # turn.pool THEN {} ELSE turn.pairs
      <3>1. pc' = "pairs"
            /\ turn' = [Drained EXCEPT !.pairs = left]
        BY <1>31, <2>2 DEF AfterPoolBatch, Drained
      <3>2. left \in SUBSET SUBSET Hyps
        OBVIOUS
      <3> HIDE DEF left
      <3>3. Drained \in Turns
        BY DrainedTyped
      <3>4. [Drained EXCEPT !.pairs = left] \in Turns
        BY <3>2, <3>3
      <3> QED BY <3>1, <3>4
    <2> QED BY <2>1, <2>2
  <1>32. CASE PoolEnds
    BY <1>32, SMTT(30) DEF PoolEnds, Blocked, Leave
  <1>33. CASE Finish
    BY <1>33, SMTT(30) DEF Finish, Blocked, Leave
  <1>34. CASE Publish
    BY <1>34 DEF Publish, Leave
  <1>35. CASE Raise
    BY <1>35 DEF Raise, Leave, Again
  <1>36. CASE Crash
    BY <1>36 DEF Crash, Leave
  <1> QED BY <1>1, <1>2, <1>3, <1>4, <1>5, <1>6, <1>7, <1>8, <1>9, <1>10, <1>11, <1>12,
      <1>13, <1>14, <1>15, <1>16, <1>17, <1>18, <1>19, <1>20, <1>21, <1>22, <1>23,
      <1>24, <1>25, <1>26, <1>27, <1>28, <1>29, <1>30, <1>31, <1>32, <1>33, <1>34,
      <1>35, <1>36 DEF Next, Step
-----------------------------------------------------------------------------
(* Steps that end a turn, and what is left to carry it on.                 *)

(* A turn that ends unpublished: the tables of hypotheses are as they were,*)
(* and unless it died the root and the claims are settled.                 *)
Ended ==
    /\ pc' = "idle" /\ turn' = NoTurn /\ UNCHANGED <<queue, answer>> /\ ~terminal'
    /\ last' # "DONE"
    /\ last' # "crashed" => root'.status \in Settled /\ claim' = {}

(* A turn that ends so leaves nothing that the invariant speaks of open.   *)
LEMMA EndKeeps == ASSUME PInv, Typed', Ended PROVE PInv'
  <1> USE DEF PInv, Ended, NoTurn, queue
  <1>1. TurnOK' /\ SettleOK'
    BY DEF TurnOK, SettleOK, Draining, Proposing, PastBatches, PastContexts
  <1>2. ProgressOK' /\ OffersOK' /\ PoolOK' /\ CompleteOK'
    BY DEF ProgressOK, OffersOK, PoolOK, InPool, CompleteOK
  <1>3. AskOK'
    BY DEF AskOK, Linked
  <1>4. RoomOK'
    BY DEF RoomOK, QueueBounded, Incomplete
  <1>5. ChainOK'
    BY DEF ChainOK, Pairs
  <1> QED BY <1>1, <1>2, <1>3, <1>4, <1>5

(* What is complete stays so while no table changes.                       *)
LEMMA CompleteStays == ASSUME Complete, UNCHANGED <<work, queue>> PROVE Complete'
  <1> USE DEF Complete, work, queue
  <1>1. /\ (Incomplete = {})' /\ (explored = 1..Contexts)'
        /\ (\A c \in Candidates : decision[c] \in {"INCLUDE", "EXCLUDE"})'
        /\ (\A i \in DOMAIN Files : Batch(i) # {} => i \in marker)'
    BY DEF Incomplete, Kept, Batch
  <1>2. (\A c \in Kept : /\ answer[c] # "none"
                         /\ deep[c] \in {"COMPLETE", "NO_HYPOTHESIS", "INCONCLUSIVE"})'
    BY DEF Kept
  <1>3. (Due(UNION {offers[h] : h \in Hyps}) = {})'
    <2>1. \A x : DepthOf(x)' = DepthOf(x)
      BY DEF DepthOf
    <2>2. (UNION {offers[h] : h \in Hyps})' = UNION {offers[h] : h \in Hyps}
      OBVIOUS
    <2> QED BY <2>1, <2>2 DEF Due
  <1>4. (\A b \in pool : b.pool = prim => Due(b.offer) = {})'
    BY DEF Due, DepthOf
  <1>5. (SavedPairs(prim) = Pairs(prim))'
    BY DEF SavedPairs, Pairs
  <1> QED BY <1>1, <1>2, <1>3, <1>4, <1>5

(* Publishing states of the analysis what Finish has found of it.          *)
LEMMA PublishKeeps == ASSUME PInv, Typed', Publish PROVE PInv'
  <1> USE DEF PInv, Publish, Leave, NoTurn, queue, work
  <1>1. TurnOK' /\ SettleOK'
    BY DEF TurnOK, SettleOK, Draining, Proposing, PastBatches, PastContexts, Settled
  <1>2. ProgressOK' /\ OffersOK' /\ PoolOK'
    BY DEF ProgressOK, OffersOK, PoolOK, InPool
  <1>3. AskOK'
    BY DEF AskOK, Linked
  <1>4. RoomOK'
    BY DEF RoomOK, QueueBounded, Incomplete
  <1>5. ChainOK'
    BY DEF ChainOK, Pairs
  <1>6. CompleteOK'
    BY CompleteStays DEF CompleteOK
  <1> QED BY <1>1, <1>2, <1>3, <1>4, <1>5, <1>6

(* A child that stopped the turn ends it so.                               *)
LEMMA ExitEnds == ASSUME PInv, pc \notin {"idle", "child"}, NEW s, Exit(s),
                         s \in {"BLOCKED", "FAILED", "PAUSED"},
                         UNCHANGED <<queue, answer, claim, terminal>>
                  PROVE  Ended
  <1>1. root'.status \in Settled
    BY DEF PInv, Typed, StoreTyped, Roots, SettleOK, Exit, Settled
  <1>2. claim' = {} /\ ~terminal'
    BY DEF PInv, SettleOK, TurnOK
  <1> QED BY <1>1, <1>2 DEF Ended, Exit, Leave

(* Every other step after which no turn is under way ends one unpublished. *)
LEMMA EndSteps == ASSUME PInv, Next, pc' = "idle" PROVE Ended \/ Publish
  <1> USE DEF PInv, Ended, SettleOK, Settled, queue, work
  <1>1. CASE Resume
    BY <1>1 DEF Resume, Refused, TurnOK
  <1>2. ASSUME NEW c \in Candidates, Decide(c) PROVE Ended \/ Publish
    BY <1>2 DEF Decide
  <1>3. ASSUME NEW c \in Candidates, CommitAnswer(c) PROVE Ended \/ Publish
    BY <1>3 DEF CommitAnswer
  <1>4. CASE DiscoveryFails
    BY <1>4 DEF DiscoveryFails, Blocked, Leave, TurnOK
  <1>5. CASE Discovered
    BY <1>5 DEF Discovered, Blocked, Leave, TurnOK
  <1>6. CASE RecoverChains
    BY <1>6 DEF RecoverChains
  <1>7. CASE RegisterChildren
    BY <1>7 DEF RegisterChildren
  <1>8. ASSUME NEW h \in Hyps, RunChild(h) PROVE Ended \/ Publish
    BY <1>8 DEF RunChild
  <1>9. ASSUME NEW h \in Hyps, ChildCloses(h) PROVE Ended \/ Publish
    BY <1>9 DEF ChildCloses
  <1>10. ASSUME NEW h \in Hyps, ChildStops(h) PROVE Ended \/ Publish
    BY <1>10 DEF ChildStops
  <1>11. CASE PrewarmFails
    BY <1>11 DEF PrewarmFails
  <1>12. CASE DrainEnds
    BY <1>12 DEF DrainEnds
  <1>13. CASE SkipFile
    BY <1>13 DEF SkipFile, AtBatch
  <1>14. CASE MarkBatch
    BY <1>14 DEF MarkBatch, DrainFrom
  <1>15. CASE Propose
    BY <1>15 DEF Propose
  <1>16. CASE Answer
    BY <1>16 DEF Answer
  <1>17. CASE ProposeFails
    BY <1>17 DEF ProposeFails, Blocked, Leave, TurnOK
  <1>18. CASE Committed
    BY <1>18 DEF Committed, Blocked, Leave, DrainFrom, TurnOK
  <1>19. CASE AfterFailed
    <2>1. CASE Exit("PAUSED")
      BY <1>19, <2>1, ExitEnds DEF AfterFailed
    <2>2. CASE Blocked("BLOCKED", "ERROR")
      BY <1>19, <2>2 DEF AfterFailed, Blocked, Leave, TurnOK
    <2> QED BY <1>19, <2>1, <2>2 DEF AfterFailed
  <1>20. CASE AfterBatch
    BY <1>20, ExitEnds DEF AfterBatch
  <1>21. CASE BatchesSeen
    <2>1. turn.incomplete \in {"none", "BLOCKED", "FAILED"}
      BY DEF Typed, TurnTyped, Turns
    <2> QED BY <1>21, <2>1, ExitEnds DEF BatchesSeen
  <1>22. CASE Explore
    BY <1>22 DEF Explore, DrainFrom
  <1>23. CASE ExploreFails
    BY <1>23 DEF ExploreFails, AtContext, Blocked, Leave, TurnOK
  <1>24. CASE Backpressure
    <2>1. pc \in {"batch", "surface"}
      BY <1>24 DEF Backpressure, AtBatch, AtContext
    <2> QED BY <1>24, <2>1 DEF Backpressure, Blocked, Leave, TurnOK
  <1>25. CASE Revisit
    BY <1>25 DEF Revisit, DrainFrom
  <1>26. CASE AfterContext
    <2>1. turn.result \in {"none", "BLOCKED", "FAILED", "PAUSED"}
      BY DEF Typed, TurnTyped, Turns
    <2> QED BY <1>26, <2>1, ExitEnds DEF AfterContext
  <1>27. CASE ContextsSeen
    BY <1>27 DEF ContextsSeen
  <1>28. CASE PlanPool
    BY <1>28 DEF PlanPool
  <1>29. ASSUME NEW p \in SUBSET Hyps, PoolBatch(p) PROVE Ended \/ Publish
    BY <1>29 DEF PoolBatch
  <1>30. ASSUME NEW p \in SUBSET Hyps, PoolFails(p) PROVE Ended \/ Publish
    BY <1>30 DEF PoolFails, Blocked, Leave, TurnOK
  <1>31. CASE AfterPoolBatch
    <2>1. turn.result \in {"none", "BLOCKED", "FAILED", "PAUSED"}
      BY DEF Typed, TurnTyped, Turns
    <2> QED BY <1>31, <2>1, ExitEnds DEF AfterPoolBatch
  <1>32. CASE PoolEnds
    BY <1>32 DEF PoolEnds, Blocked, Leave, TurnOK
  <1>33. CASE Finish
    BY <1>33 DEF Finish, Blocked, Leave, TurnOK
  <1>34. CASE Publish
    BY <1>34
  <1>35. CASE Raise
    BY <1>35 DEF Raise, Leave
  <1>36. CASE Crash
    BY <1>36 DEF Crash, Leave, TurnOK
  <1> QED BY <1>1, <1>2, <1>3, <1>4, <1>5, <1>6, <1>7, <1>8, <1>9, <1>10, <1>11, <1>12,
      <1>13, <1>14, <1>15, <1>16, <1>17, <1>18, <1>19, <1>20, <1>21, <1>22, <1>23,
      <1>24, <1>25, <1>26, <1>27, <1>28, <1>29, <1>30, <1>31, <1>32, <1>33, <1>34,
      <1>35, <1>36 DEF Next, Step

(* The steps after which a turn is under way.                              *)
Carries ==
    \/ Resume \/ (\E c \in Candidates : Decide(c) \/ CommitAnswer(c))
    \/ Discovered \/ RecoverChains \/ RegisterChildren
    \/ (\E h \in Hyps : RunChild(h) \/ ChildCloses(h) \/ ChildStops(h))
    \/ PrewarmFails \/ DrainEnds \/ SkipFile \/ MarkBatch \/ Propose \/ Answer
    \/ Committed \/ AfterBatch \/ BatchesSeen \/ Explore \/ Revisit \/ AfterContext
    \/ ContextsSeen \/ PlanPool \/ (\E p \in SUBSET Hyps : PoolBatch(p))
    \/ AfterPoolBatch \/ PoolEnds \/ Finish

(* The others end it.                                                      *)
LEMMA CarrySteps == ASSUME Next, pc' # "idle" PROVE Carries

  <1>1. ~DiscoveryFails
    BY DEF DiscoveryFails, Blocked, Leave
  <1>2. ~ProposeFails
    BY DEF ProposeFails, Blocked, Leave
  <1>3. ~AfterFailed
    BY DEF AfterFailed, Blocked, Exit, Leave
  <1>4. ~ExploreFails
    BY DEF ExploreFails, Blocked, Leave
  <1>5. ~Backpressure
    BY DEF Backpressure, Blocked, Leave
  <1>6. ASSUME NEW p \in SUBSET Hyps, PoolFails(p) PROVE FALSE
    BY <1>6 DEF PoolFails, Blocked, Leave
  <1>7. ~Publish
    BY DEF Publish, Leave
  <1>8. ~Raise
    BY DEF Raise, Leave
  <1>9. ~Crash
    BY DEF Crash, Leave
  <1> QED BY <1>1, <1>2, <1>3, <1>4, <1>5, <1>6, <1>7, <1>8, <1>9 DEF Next, Step, Carries

-----------------------------------------------------------------------------
(* What a step that carries the turn on keeps, part by part.               *)

(* Where the turn is fits what it remembers.                               *)
LEMMA TurnKept == ASSUME PInv, Typed', Carries, pc' # "idle" PROVE TurnOK'
  <1> USE Limits DEF PInv, Typed, TurnTyped, Turns, TurnOK, Draining, Proposing, PastBatches,
                     PastContexts, NoTurn, Incomplete, work, queue
  <1>1. CASE Resume
    BY <1>1, SMTT(30) DEF Resume, Refused, NoTurn
  <1>2. ASSUME NEW c \in Candidates, Decide(c) PROVE TurnOK'
    BY <1>2 DEF Decide, ToDecide
  <1>3. ASSUME NEW c \in Candidates, CommitAnswer(c) PROVE TurnOK'
    BY <1>3 DEF CommitAnswer, Opened
  <1>4. CASE Discovered
    BY <1>4 DEF Discovered, Blocked, Leave
  <1>5. CASE RecoverChains
    BY <1>5 DEF RecoverChains, Register, RecoveredDue, Due
  <1>6. CASE RegisterChildren
    BY <1>6, SMTT(30) DEF RegisterChildren, Register, Due
  <1>7. ASSUME NEW h \in Hyps, RunChild(h) PROVE TurnOK'
    BY <1>7 DEF RunChild, Runnable
  <1>8. ASSUME NEW h \in Hyps, ChildCloses(h) PROVE TurnOK'
    <2>1. /\ pc = "child" /\ pc' = "register" /\ turn'.child = {}
          /\ turn'.back = turn.back /\ turn'.batch = turn.batch
          /\ turn'.context = turn.context
      BY <1>8 DEF ChildCloses
    <2>2. TurnOK
      OBVIOUS
    <2> HIDE DEF PInv, Typed, Turns
    <2> QED BY <2>1, <2>2
  <1>9. ASSUME NEW h \in Hyps, ChildStops(h) PROVE TurnOK'
    <2>1. /\ pc = "child" /\ pc' \in {"drain", "drained"} /\ turn'.child = {}
          /\ turn'.back = turn.back /\ turn'.batch = turn.batch
          /\ turn'.context = turn.context /\ turn'.due = turn.due
      BY <1>9 DEF ChildStops
    <2>2. TurnOK
      OBVIOUS
    <2> HIDE DEF PInv, Typed, Turns
    <2> QED BY <2>1, <2>2
  <1>10. CASE PrewarmFails
    BY <1>10 DEF PrewarmFails, Runnable
  <1>11. CASE DrainEnds
    BY <1>11 DEF DrainEnds
  <1>12. CASE SkipFile
    BY <1>12 DEF SkipFile, AtBatch
  <1>13. CASE MarkBatch
    BY <1>13 DEF MarkBatch, AtBatch, DrainFrom
  <1>14. CASE Propose
    BY <1>14 DEF Propose, AtBatch
  <1>15. CASE Answer
    BY <1>15 DEF Answer
  <1>16. CASE Committed
    BY <1>16, ZenonT(60) DEF Committed, Blocked, Leave, DrainFrom
  <1>17. CASE AfterBatch
    <2>1. /\ pc = "drained" /\ pc' = "batch" /\ turn.back = "batch"
          /\ turn'.back = "none" /\ turn'.due = turn.due /\ turn'.child = turn.child
      BY <1>17, BatchGoesOn
    <2>2. turn'.due = {} /\ turn'.child = {}
      BY <2>1
    <2> HIDE DEF PInv, Typed, Turns
    <2> QED BY <2>1, <2>2
  <1>18. CASE BatchesSeen
    BY <1>18 DEF BatchesSeen, Exit, Leave
  <1>19. CASE Explore
    BY <1>19 DEF Explore, AtContext, Opened, DrainFrom
  <1>20. CASE Revisit
    BY <1>20 DEF Revisit, AtContext, DrainFrom
  <1>21. CASE AfterContext
    <2>1. /\ pc = "drained" /\ pc' = "surface" /\ turn.back = "surface"
          /\ turn'.back = "none" /\ turn'.due = turn.due /\ turn'.child = turn.child
          /\ turn'.batch = turn.batch
      BY <1>21, ContextGoesOn
    <2>2. turn'.due = {} /\ turn'.child = {} /\ turn.batch = Len(Files) + 1
      BY <2>1
    <2> HIDE DEF PInv, Typed, Turns
    <2> QED BY <2>1, <2>2
  <1>22. CASE ContextsSeen
    BY <1>22 DEF ContextsSeen
  <1>23. CASE PlanPool
    BY <1>23 DEF PlanPool
  <1>24. ASSUME NEW p \in SUBSET Hyps, PoolBatch(p) PROVE TurnOK'
    BY <1>24 DEF PoolBatch
  <1>25. CASE AfterPoolBatch
    <2>1. /\ pc = "drained" /\ pc' = "pairs" /\ turn.back = "pool"
          /\ turn'.back = "none" /\ turn'.due = turn.due /\ turn'.child = turn.child
          /\ turn'.batch = turn.batch /\ turn'.context = turn.context
      BY <1>25, PoolGoesOn
    <2>2. /\ turn'.due = {} /\ turn'.child = {}
          /\ turn.batch = Len(Files) + 1 /\ turn.context = Contexts + 1
      BY <2>1
    <2> HIDE DEF PInv, Typed, Turns
    <2> QED BY <2>1, <2>2
  <1>26. CASE PoolEnds
    BY <1>26, SMTT(30) DEF PoolEnds, Blocked, Leave, Stable
  <1>27. CASE Finish
    BY <1>27 DEF Finish, Blocked, Leave, Certified
  <1> QED BY <1>1, <1>2, <1>3, <1>4, <1>5, <1>6, <1>7, <1>8, <1>9, <1>10, <1>11, <1>12,
      <1>13, <1>14, <1>15, <1>16, <1>17, <1>18, <1>19, <1>20, <1>21, <1>22, <1>23,
      <1>24, <1>25, <1>26, <1>27 DEF Carries
(* The root checkpoint, the claims and the terminal marker fit the turn.   *)
LEMMA SettleKept == ASSUME PInv, Typed', Carries, pc' # "idle" PROVE SettleOK'
  <1> USE DEF PInv, SettleOK
  <1>1. CASE Resume
    <2>1. ~Refused
      BY <1>1 DEF Resume
    <2>2. turn'.child = {} /\ pc' = "discover"
      BY <1>1, <2>1 DEF Resume, NoTurn
    <2>3. root'.status \in {"RUNNING", "SUCCEEDED"}
      BY <1>1, <2>1 DEF Resume
    <2> QED BY <1>1, <2>1, <2>2, <2>3 DEF Resume
  <1>2. ASSUME NEW c \in Candidates, Decide(c) PROVE SettleOK'
    BY <1>2 DEF Decide, Typed, TurnTyped, Turns
  <1>3. ASSUME NEW c \in Candidates, CommitAnswer(c) PROVE SettleOK'
    BY <1>3 DEF CommitAnswer, Typed, TurnTyped, Turns
  <1>4. CASE Discovered
    BY <1>4 DEF Discovered, Blocked, Leave, Typed, TurnTyped, Turns
  <1>5. CASE RecoverChains
    BY <1>5 DEF RecoverChains, Typed, TurnTyped, Turns
  <1>6. CASE RegisterChildren
    BY <1>6 DEF RegisterChildren, Typed, TurnTyped, Turns
  <1>7. ASSUME NEW h \in Hyps, RunChild(h) PROVE SettleOK'
    <2>1. turn'.child = {h} /\ claim = {}
      BY <1>7 DEF RunChild, TurnOK, Typed, TurnTyped, Turns
    <2> QED BY <1>7, <2>1 DEF RunChild
  <1>8. ASSUME NEW h \in Hyps, ChildCloses(h) PROVE SettleOK'
    BY <1>8 DEF ChildCloses, ChildWrites, Typed, TurnTyped, Turns
  <1>9. ASSUME NEW h \in Hyps, ChildStops(h) PROVE SettleOK'
    <2>1. turn'.child = {} /\ pc' # "publish"
      BY <1>9 DEF ChildStops, Typed, TurnTyped, Turns
    <2> QED BY <1>9, <2>1 DEF ChildStops
  <1>10. CASE PrewarmFails
    BY <1>10 DEF PrewarmFails, Typed, TurnTyped, Turns
  <1>11. CASE DrainEnds
    BY <1>11 DEF DrainEnds, Typed, TurnTyped, Turns
  <1>12. CASE SkipFile
    BY <1>12 DEF SkipFile, AtBatch, Typed, TurnTyped, Turns
  <1>13. CASE MarkBatch
    BY <1>13 DEF MarkBatch, AtBatch, DrainFrom, Typed, TurnTyped, Turns
  <1>14. CASE Propose
    BY <1>14 DEF Propose, AtBatch, Typed, TurnTyped, Turns
  <1>15. CASE Answer
    BY <1>15 DEF Answer, Typed, TurnTyped, Turns
  <1>16. CASE Committed
    <2>1. UNCHANGED <<root, last, terminal, claim>> /\ turn'.child = turn.child
          /\ pc \notin {"idle", "finish"} /\ pc' # "publish"
      BY <1>16 DEF Committed, Blocked, Leave, DrainFrom, Typed, TurnTyped, Turns
    <2> QED BY <2>1
  <1>17. CASE AfterBatch
    <2>1. UNCHANGED <<root, last, terminal, claim>> /\ turn'.child = turn.child
          /\ pc \notin {"idle", "finish"} /\ pc' # "publish"
      BY <1>17, BatchGoesOn DEF Typed, TurnTyped
    <2> QED BY <2>1
  <1>18. CASE BatchesSeen
    BY <1>18 DEF BatchesSeen, Exit, Leave, Typed, TurnTyped, Turns
  <1>19. CASE Explore
    BY <1>19 DEF Explore, AtContext, DrainFrom, Typed, TurnTyped, Turns
  <1>20. CASE Revisit
    BY <1>20 DEF Revisit, AtContext, DrainFrom, Typed, TurnTyped, Turns
  <1>21. CASE AfterContext
    <2>1. UNCHANGED <<root, last, terminal, claim>> /\ turn'.child = turn.child
          /\ pc \notin {"idle", "finish"} /\ pc' # "publish"
      BY <1>21, ContextGoesOn DEF Typed, TurnTyped
    <2> QED BY <2>1
  <1>22. CASE ContextsSeen
    BY <1>22 DEF ContextsSeen, Typed, TurnTyped, Turns
  <1>23. CASE PlanPool
    BY <1>23 DEF PlanPool, Typed, TurnTyped, Turns
  <1>24. ASSUME NEW p \in SUBSET Hyps, PoolBatch(p) PROVE SettleOK'
    BY <1>24 DEF PoolBatch, Typed, TurnTyped, Turns
  <1>25. CASE AfterPoolBatch
    <2>1. UNCHANGED <<root, last, terminal, claim>> /\ turn'.child = turn.child
          /\ pc \notin {"idle", "finish"} /\ pc' # "publish"
      BY <1>25, PoolGoesOn DEF Typed, TurnTyped
    <2> QED BY <2>1
  <1>26. CASE PoolEnds
    BY <1>26 DEF PoolEnds, Blocked, Leave, Typed, TurnTyped, Turns
  <1>27. CASE Finish
    <2>1. root' = [root EXCEPT !.status = "SUCCEEDED", !.code = "none"]
          /\ UNCHANGED <<turn, last, claim, terminal>>
      BY <1>27 DEF Finish, Blocked, Leave
    <2>2. root'.status = "SUCCEEDED"
      BY <2>1 DEF Typed, StoreTyped, Roots
    <2> QED BY <1>27, <2>1, <2>2 DEF Finish
  <1> QED BY <1>1, <1>2, <1>3, <1>4, <1>5, <1>6, <1>7, <1>8, <1>9, <1>10, <1>11, <1>12,
      <1>13, <1>14, <1>15, <1>16, <1>17, <1>18, <1>19, <1>20, <1>21, <1>22, <1>23,
      <1>24, <1>25, <1>26, <1>27 DEF Carries

(* What the turn has passed stays decided, answered, marked and explored.  *)
LEMMA ProgressKept == ASSUME PInv, Typed', Carries, pc' # "idle" PROVE ProgressOK'
  <1> USE DEF PInv, ProgressOK, Done, Missing, Batch, Kept
  <1>1. CASE Resume
    BY <1>1 DEF Resume
  <1>2. ASSUME NEW c \in Candidates, Decide(c) PROVE ProgressOK'
    BY <1>2 DEF Decide
  <1>3. ASSUME NEW c \in Candidates, CommitAnswer(c) PROVE ProgressOK'
    <2>1. UNCHANGED <<decision, marker, explored>> /\ turn'.back = turn.back
          /\ turn'.batch = turn.batch /\ turn'.context = turn.context
          /\ pc = "commit"
      BY <1>3 DEF CommitAnswer, Typed, TurnTyped, Turns
    <2>2. \A d \in Candidates : answer[d] # "none" => answer'[d] # "none"
      BY <1>3 DEF CommitAnswer, Typed, StoreTyped
    <2> QED BY <2>1, <2>2
  <1>4. CASE Discovered
    <2>1. UNCHANGED <<work, turn>> /\ turn.batch = 1 /\ turn.context = 1 /\ turn.back = "none"
      BY <1>4 DEF Discovered, Blocked, Leave, TurnOK, Draining
    <2>2. \A c \in Candidates : decision[c] \notin {"PENDING", "ERROR"}
      BY <1>4 DEF Discovered, Blocked, Leave, ToDecide
    <2> QED BY <2>1, <2>2, Limits DEF work, Typed, StoreTyped
  <1>5. CASE RecoverChains
    <2>1. UNCHANGED <<decision, answer, marker, explored>>
          /\ turn'.batch = turn.batch /\ turn'.context = turn.context
          /\ turn'.back = turn.back /\ pc \notin {"idle", "discover"}
      BY <1>5 DEF RecoverChains, Typed, TurnTyped, Turns, work
    <2> QED BY <2>1
  <1>6. CASE RegisterChildren
    <2>1. UNCHANGED <<decision, answer, marker, explored>>
          /\ turn'.batch = turn.batch /\ turn'.context = turn.context
          /\ turn'.back = turn.back /\ pc \notin {"idle", "discover"}
      BY <1>6 DEF RegisterChildren, Typed, TurnTyped, Turns, work
    <2> QED BY <2>1
  <1>7. ASSUME NEW h \in Hyps, RunChild(h) PROVE ProgressOK'
    <2>1. UNCHANGED <<decision, answer, marker, explored>>
          /\ turn'.batch = turn.batch /\ turn'.context = turn.context
          /\ turn'.back = turn.back /\ pc \notin {"idle", "discover"}
      BY <1>7 DEF RunChild, Typed, TurnTyped, Turns, work
    <2> QED BY <2>1
  <1>8. ASSUME NEW h \in Hyps, ChildCloses(h) PROVE ProgressOK'
    <2>1. UNCHANGED <<decision, answer, marker, explored>>
          /\ turn'.batch = turn.batch /\ turn'.context = turn.context
          /\ turn'.back = turn.back /\ pc \notin {"idle", "discover"}
      BY <1>8 DEF ChildCloses, Typed, TurnTyped, Turns, work
    <2> QED BY <2>1
  <1>9. ASSUME NEW h \in Hyps, ChildStops(h) PROVE ProgressOK'
    <2>1. UNCHANGED <<decision, answer, marker, explored>>
          /\ turn'.batch = turn.batch /\ turn'.context = turn.context
          /\ turn'.back = turn.back /\ pc \notin {"idle", "discover"}
      BY <1>9 DEF ChildStops, Typed, TurnTyped, Turns, work
    <2> QED BY <2>1
  <1>10. CASE PrewarmFails
    <2>1. UNCHANGED <<decision, answer, marker, explored>>
          /\ turn'.batch = turn.batch /\ turn'.context = turn.context
          /\ turn'.back = turn.back /\ pc \notin {"idle", "discover"}
      BY <1>10 DEF PrewarmFails, Typed, TurnTyped, Turns, work
    <2> QED BY <2>1
  <1>11. CASE DrainEnds
    <2>1. UNCHANGED <<decision, answer, marker, explored>>
          /\ turn'.batch = turn.batch /\ turn'.context = turn.context
          /\ turn'.back = turn.back /\ pc \notin {"idle", "discover"}
      BY <1>11 DEF DrainEnds, Typed, TurnTyped, Turns, work
    <2> QED BY <2>1
  <1>12. CASE SkipFile
    <2>1. UNCHANGED work /\ turn'.batch = turn.batch + 1 /\ turn'.context = turn.context
          /\ turn'.back = "none" /\ pc = "batch" /\ Batch(turn.batch) = {}
      BY <1>12 DEF SkipFile, AtBatch, Typed, TurnTyped, Turns, TurnOK, Draining
    <2>2. \A i \in DOMAIN Files : i < turn.batch + 1 => i < turn.batch \/ i = turn.batch
      BY Limits DEF Typed, TurnTyped, Turns
    <2> QED BY <2>1, <2>2 DEF work
  <1>13. CASE MarkBatch
    <2>1. UNCHANGED <<decision, answer, explored>> /\ marker' = marker \cup {turn.batch}
          /\ turn'.batch = turn.batch /\ turn'.context = turn.context
          /\ turn'.back = "batch" /\ pc = "batch" /\ Missing(turn.batch) = {}
      BY <1>13 DEF MarkBatch, AtBatch, DrainFrom, Typed, TurnTyped, Turns
    <2> QED BY <2>1
  <1>14. CASE Propose
    <2>1. UNCHANGED <<decision, answer, marker, explored>>
          /\ turn'.batch = turn.batch /\ turn'.context = turn.context
          /\ turn'.back = turn.back /\ pc \notin {"idle", "discover"}
      BY <1>14 DEF Propose, AtBatch, Typed, TurnTyped, Turns, work
    <2> QED BY <2>1
  <1>15. CASE Answer
    <2>1. UNCHANGED <<decision, answer, marker, explored>>
          /\ turn'.batch = turn.batch /\ turn'.context = turn.context
          /\ turn'.back = turn.back /\ pc \notin {"idle", "discover"}
      BY <1>15 DEF Answer, Typed, TurnTyped, Turns, work
    <2> QED BY <2>1
  <1>16. CASE Committed
    <2>1. UNCHANGED <<decision, answer, marker, explored>>
          /\ turn'.batch = turn.batch /\ turn'.context = turn.context
          /\ turn'.back \notin {"batch", "surface"} /\ pc \notin {"idle", "discover"}
      BY <1>16 DEF Committed, Blocked, Leave, DrainFrom, TurnOK, Draining, Typed, TurnTyped,
      Turns, work
    <2> QED BY <2>1
  <1>17. CASE AfterBatch
    <2>1. UNCHANGED work /\ turn'.batch = turn.batch + 1 /\ turn'.context = turn.context
          /\ turn'.back = "none" /\ pc = "drained" /\ turn.back = "batch"
      BY <1>17, BatchGoesOn DEF Typed, TurnTyped
    <2>2. \A i \in DOMAIN Files : i < turn.batch + 1 => i < turn.batch \/ i = turn.batch
      BY Limits DEF Typed, TurnTyped, Turns
    <2> QED BY <2>1, <2>2 DEF work
  <1>18. CASE BatchesSeen
    <2>1. UNCHANGED <<decision, answer, marker, explored>>
          /\ turn'.batch = turn.batch /\ turn'.context = turn.context
          /\ turn'.back = turn.back /\ pc \notin {"idle", "discover"}
      BY <1>18 DEF BatchesSeen, Exit, Leave, Typed, TurnTyped, Turns, work
    <2> QED BY <2>1
  <1>19. CASE Explore
    <2>1. UNCHANGED <<decision, answer, marker>> /\ pc = "surface"
          /\ explored' = explored \cup {turn.context}
          /\ turn'.batch = turn.batch /\ turn'.context = turn.context
          /\ turn'.back = "surface"
      BY <1>19 DEF Explore, AtContext, DrainFrom, Typed, TurnTyped, Turns
    <2> QED BY <2>1
  <1>20. CASE Revisit
    <2>1. UNCHANGED work /\ pc = "surface" /\ turn.context \in explored
          /\ turn'.batch = turn.batch /\ turn'.context = turn.context
          /\ turn'.back = "surface"
      BY <1>20 DEF Revisit, AtContext, DrainFrom, Typed, TurnTyped, Turns
    <2> QED BY <2>1 DEF work
  <1>21. CASE AfterContext
    <2>1. UNCHANGED work /\ turn'.batch = turn.batch /\ turn'.context = turn.context + 1
          /\ turn'.back = "none" /\ pc = "drained" /\ turn.back = "surface"
      BY <1>21, ContextGoesOn DEF Typed, TurnTyped
    <2>2. \A k \in 1..Contexts : k < turn.context + 1 => k < turn.context \/ k = turn.context
      BY Limits DEF Typed, TurnTyped, Turns
    <2> QED BY <2>1, <2>2 DEF work
  <1>22. CASE ContextsSeen
    <2>1. UNCHANGED <<decision, answer, marker, explored>>
          /\ turn'.batch = turn.batch /\ turn'.context = turn.context
          /\ turn'.back = turn.back /\ pc \notin {"idle", "discover"}
      BY <1>22 DEF ContextsSeen, Typed, TurnTyped, Turns, work
    <2> QED BY <2>1
  <1>23. CASE PlanPool
    <2>1. UNCHANGED <<decision, answer, marker, explored>>
          /\ turn'.batch = turn.batch /\ turn'.context = turn.context
          /\ turn'.back = turn.back /\ pc \notin {"idle", "discover"}
      BY <1>23 DEF PlanPool, Typed, TurnTyped, Turns, work
    <2> QED BY <2>1
  <1>24. ASSUME NEW p \in SUBSET Hyps, PoolBatch(p) PROVE ProgressOK'
    <2>1. UNCHANGED <<decision, answer, marker, explored>>
          /\ turn'.batch = turn.batch /\ turn'.context = turn.context
          /\ turn'.back \notin {"batch", "surface"} /\ pc \notin {"idle", "discover"}
      BY <1>24 DEF PoolBatch, Typed, TurnTyped, Turns, work
    <2> QED BY <2>1
  <1>25. CASE AfterPoolBatch
    <2>1. UNCHANGED <<decision, answer, marker, explored>>
          /\ turn'.batch = turn.batch /\ turn'.context = turn.context
          /\ turn'.back \notin {"batch", "surface"} /\ pc \notin {"idle", "discover"}
      BY <1>25, PoolGoesOn DEF Typed, TurnTyped, work
    <2> QED BY <2>1
  <1>26. CASE PoolEnds
    <2>1. UNCHANGED <<decision, answer, marker, explored>>
          /\ turn'.batch = turn.batch /\ turn'.context = turn.context
          /\ turn'.back = turn.back /\ pc \notin {"idle", "discover"}
      BY <1>26 DEF PoolEnds, Blocked, Leave, Typed, TurnTyped, Turns, work
    <2> QED BY <2>1
  <1>27. CASE Finish
    <2>1. UNCHANGED <<decision, answer, marker, explored>>
          /\ turn'.batch = turn.batch /\ turn'.context = turn.context
          /\ turn'.back = turn.back /\ pc \notin {"idle", "discover"}
      BY <1>27 DEF Finish, Blocked, Leave, Typed, TurnTyped, Turns, work
    <2> QED BY <2>1
  <1> QED BY <1>1, <1>2, <1>3, <1>4, <1>5, <1>6, <1>7, <1>8, <1>9, <1>10, <1>11, <1>12,
      <1>13, <1>14, <1>15, <1>16, <1>17, <1>18, <1>19, <1>20, <1>21, <1>22, <1>23,
      <1>24, <1>25, <1>26, <1>27 DEF Carries
(* Cardinalities of finite sets of hypotheses and of candidates.           *)
LEMMA Counts == /\ IsFiniteSet(Incomplete) /\ Cardinality(Incomplete) \in Nat
                /\ \A S \in SUBSET Candidates : IsFiniteSet(S) /\ Cardinality(S) \in Nat
                /\ \A S \in SUBSET Hyps : IsFiniteSet(S) /\ Cardinality(S) \in Nat
  <1>1. \A S \in SUBSET Candidates : IsFiniteSet(S) /\ Cardinality(S) \in Nat
    BY PipelineAssumption, FS_Subset, FS_CardinalityType
  <1>2. \A S \in SUBSET Hyps : IsFiniteSet(S) /\ Cardinality(S) \in Nat
    BY PipelineAssumption, FS_Subset, FS_CardinalityType
  <1>3. Incomplete \in SUBSET Hyps
    BY DEF Incomplete
  <1> QED BY <1>1, <1>2, <1>3

(* More answers to come need more room.                                    *)
LEMMA RoomGrows == ASSUME NEW m \in Nat, NEW n \in Nat, m <= n
                   PROVE  SeedLimit * m <= SeedLimit * n
  <1>1. PICK k \in Nat : n = m + k
    <2>1. n - m \in Nat /\ n = m + (n - m)
      OBVIOUS
    <2> QED BY <2>1
  <1>2. SeedLimit \in Nat /\ SeedLimit * k \in Nat /\ SeedLimit * m \in Nat
    BY Limits
  <1>3. SeedLimit * (m + k) = SeedLimit * m + SeedLimit * k
    BY <1>2
  <1> QED BY <1>1, <1>2, <1>3

(* Proposals opened by an answer or a context add at most their limit.     *)
LEMMA OpenedCount ==
    ASSUME Typed, NEW c \in Candidates \cup (1..Contexts), NEW seeds \in SUBSET Seeds[c],
           hyp' = Opened(seeds)
    PROVE  /\ Incomplete' = Incomplete \cup seeds
           /\ Cardinality(Incomplete') <= Cardinality(Incomplete) + SeedLimit
  <1>1. seeds \subseteq Hyps
    BY Universe
  <1>2. Incomplete' = Incomplete \cup seeds
    BY <1>1 DEF Incomplete, Opened
  <1>3. IsFiniteSet(seeds) /\ Cardinality(seeds) <= SeedLimit
    <2>1. c \in DOMAIN Seeds /\ Seeds[c] \in SUBSET Hyps
      BY PipelineAssumption, Universe
    <2>2. IsFiniteSet(Seeds[c]) /\ Cardinality(Seeds[c]) <= SeedLimit
      BY <2>1, Counts, PipelineAssumption
    <2>3. IsFiniteSet(seeds) /\ Cardinality(seeds) <= Cardinality(Seeds[c])
      BY <2>2, FS_Subset
    <2> QED BY <2>1, <2>2, <2>3, Counts, <1>1, Limits
  <1>4. /\ Cardinality(Incomplete \cup seeds)
             = Cardinality(Incomplete) + Cardinality(seeds) - Cardinality(Incomplete \cap seeds)
        /\ Cardinality(Incomplete \cap seeds) \in Nat
    <2>1. Incomplete \cap seeds \in SUBSET Hyps
      BY <1>1
    <2> QED BY <1>3, <2>1, Counts, FS_Union
  <1>5. Cardinality(seeds) \in Nat
    BY <1>1, Counts
  <1> QED BY <1>2, <1>3, <1>4, <1>5, Counts, Limits

(* What is asked for has no answer, and answers fit the hypotheses.        *)
LEMMA AskKept == ASSUME PInv, Typed', Carries, pc' # "idle" PROVE AskOK'
  <1> USE DEF PInv, AskOK
  <1>1. ASSUME UNCHANGED <<hyp, answer>> PROVE (\A c \in Candidates :
                 answer[c] = "HYPOTHESES" <=> Linked(c) # {})'
    BY <1>1 DEF Linked
  <1>2. CASE Resume
    <2>1. UNCHANGED <<hyp, answer>> /\ pc' \notin {"propose", "commit"}
      BY <1>2 DEF Resume, queue, work
    <2> QED BY <1>1, <2>1
  <1>3. ASSUME NEW c \in Candidates, Decide(c) PROVE AskOK'
    <2>1. UNCHANGED <<hyp, answer>> /\ pc' \notin {"propose", "commit"}
      BY <1>3 DEF Decide, queue
    <2> QED BY <1>1, <2>1
  <1>4. ASSUME NEW c \in Candidates, CommitAnswer(c) PROVE AskOK'
    <2>1. pc = "commit" /\ c \in turn.asked /\ turn'.asked = turn.asked \ {c}
      BY <1>4 DEF CommitAnswer, Typed, TurnTyped, Turns
    <2>2. answer[c] = "none" /\ Linked(c) = {}
      BY <2>1
    <2>3. \A d \in Candidates : d # c => answer'[d] = answer[d]
      BY <1>4 DEF CommitAnswer, Typed, StoreTyped
    <2>4. CASE \E seeds \in SUBSET Seeds[c] : /\ seeds # {} /\ hyp' = Opened(seeds)
                                              /\ answer'[c] = "HYPOTHESES"
      <3>1. PICK seeds \in SUBSET Seeds[c] : /\ seeds # {} /\ hyp' = Opened(seeds)
                                              /\ answer'[c] = "HYPOTHESES"
        BY <2>4
      <3>2. seeds \subseteq Hyps /\ \A d \in Candidates : Seeds[d] \subseteq Hyps
        BY Universe
      <3>3. Linked(c)' # {}
        BY <3>1, <3>2 DEF Linked, Opened
      <3>4. ASSUME NEW d \in Candidates, d # c PROVE Linked(d)' = Linked(d)
        <4>1. Seeds[d] \cap seeds = {}
          BY <3>1, <3>4, Universe
        <4> QED BY <3>1, <3>2, <4>1 DEF Linked, Opened
      <3>5. ASSUME NEW d \in Candidates PROVE answer'[d] = "HYPOTHESES" <=> Linked(d)' # {}
        <4>1. CASE d = c
          BY <3>1, <3>3, <4>1
        <4>2. CASE d # c
          BY <2>3, <3>4, <4>2
        <4> QED BY <4>1, <4>2
      <3>6. ASSUME NEW d \in turn'.asked PROVE answer'[d] = "none"
        BY <2>1, <2>3, <3>6 DEF Typed, TurnTyped, Turns
      <3> QED BY <3>5, <3>6
    <2>5. CASE answer'[c] # "HYPOTHESES" /\ UNCHANGED hyp
      <3>1. ASSUME NEW d \in Candidates PROVE answer'[d] = "HYPOTHESES" <=> Linked(d)' # {}
        BY <2>2, <2>3, <2>5 DEF Linked
      <3>2. ASSUME NEW d \in turn'.asked PROVE answer'[d] = "none"
        BY <2>1, <2>3, <3>2 DEF Typed, TurnTyped, Turns
      <3> QED BY <3>1, <3>2
    <2> QED BY <1>4, <2>4, <2>5 DEF CommitAnswer, Typed, StoreTyped
  <1>5. CASE Discovered
    <2>1. UNCHANGED <<hyp, answer>> /\ pc' \notin {"propose", "commit"}
      BY <1>5 DEF Discovered, queue, work, Blocked, Leave
    <2> QED BY <1>1, <2>1
  <1>6. CASE RecoverChains
    <2>1. UNCHANGED answer /\ pc' \notin {"propose", "commit"}
      BY <1>6 DEF RecoverChains, work
    <2>2. CASE UNCHANGED hyp
      BY <1>1, <2>1, <2>2
    <2>3. ASSUME NEW x \in Chained, Register(x) PROVE AskOK'
      <3>1. \A c \in Candidates : x \notin Seeds[c]
        BY Universe
      <3>2. \A c \in Candidates : Linked(c)' = Linked(c)
        BY <2>3, <3>1, Universe DEF Linked, Register, Typed, StoreTyped
      <3> QED BY <2>1, <3>2
    <2>4. RecoveredDue \subseteq Chained
      BY DEF RecoveredDue, Due, Typed, StoreTyped
    <2> QED BY <1>6, <2>2, <2>3, <2>4 DEF RecoverChains, queue
  <1>7. CASE RegisterChildren
    <2>1. UNCHANGED answer /\ pc' \notin {"propose", "commit"}
      BY <1>7 DEF RegisterChildren, work
    <2>2. CASE UNCHANGED hyp
      BY <1>1, <2>1, <2>2
    <2>3. ASSUME NEW x \in Chained, Register(x) PROVE AskOK'
      <3>1. \A c \in Candidates : x \notin Seeds[c]
        BY Universe
      <3>2. \A c \in Candidates : Linked(c)' = Linked(c)
        BY <2>3, <3>1, Universe DEF Linked, Register, Typed, StoreTyped
      <3> QED BY <2>1, <3>2
    <2>4. Due(turn.due) \subseteq Chained
      BY DEF Due, Typed, TurnTyped, Turns, StoreTyped
    <2> QED BY <1>7, <2>2, <2>3, <2>4 DEF RegisterChildren, queue
  <1>8. ASSUME NEW h \in Hyps, RunChild(h) PROVE AskOK'
    <2>1. UNCHANGED <<hyp, answer>> /\ pc' \notin {"propose", "commit"}
      BY <1>8 DEF RunChild, queue, work
    <2> QED BY <1>1, <2>1
  <1>9. ASSUME NEW h \in Hyps, ChildCloses(h) PROVE AskOK'
    <2>1. UNCHANGED answer /\ pc' = "register" /\ hyp[h] = "open"
          /\ hyp' = [hyp EXCEPT ![h] = "closed"]
      BY <1>9 DEF ChildCloses, work, TurnOK, Incomplete
    <2>2. \A c \in Candidates : Linked(c)' = Linked(c)
      BY <2>1, Universe DEF Linked, Typed, StoreTyped
    <2> QED BY <2>1, <2>2
  <1>10. ASSUME NEW h \in Hyps, ChildStops(h) PROVE AskOK'
    <2>1. UNCHANGED <<hyp, answer>> /\ pc' \notin {"propose", "commit"}
      BY <1>10 DEF ChildStops, work
    <2> QED BY <1>1, <2>1
  <1>11. CASE PrewarmFails
    <2>1. UNCHANGED <<hyp, answer>> /\ pc' \notin {"propose", "commit"}
      BY <1>11 DEF PrewarmFails, queue, work
    <2> QED BY <1>1, <2>1
  <1>12. CASE DrainEnds
    <2>1. UNCHANGED <<hyp, answer>> /\ pc' \notin {"propose", "commit"}
      BY <1>12 DEF DrainEnds, queue, work
    <2> QED BY <1>1, <2>1
  <1>13. CASE SkipFile
    <2>1. UNCHANGED <<hyp, answer>> /\ pc' \notin {"propose", "commit"}
      BY <1>13 DEF SkipFile, queue, work, AtBatch
    <2> QED BY <1>1, <2>1
  <1>14. CASE MarkBatch
    <2>1. UNCHANGED <<hyp, answer>> /\ pc' \notin {"propose", "commit"}
      BY <1>14 DEF MarkBatch, queue, AtBatch, DrainFrom
    <2> QED BY <1>1, <2>1
  <1>15. CASE Propose
    <2>1. UNCHANGED <<hyp, answer>> /\ turn'.asked = Missing(turn.batch)
      BY <1>15 DEF Propose, work, queue, Typed, TurnTyped, Turns
    <2> QED BY <1>1, <2>1 DEF Missing
  <1>16. CASE Answer
    <2>1. UNCHANGED <<hyp, answer>> /\ pc = "propose" /\ turn'.asked \subseteq turn.asked
      BY <1>16 DEF Answer, work, queue, Typed, TurnTyped, Turns
    <2> QED BY <1>1, <2>1
  <1>17. CASE Committed
    <2>1. UNCHANGED <<hyp, answer>> /\ pc' \notin {"propose", "commit"}
      BY <1>17 DEF Committed, queue, work, Blocked, Leave, DrainFrom
    <2> QED BY <1>1, <2>1
  <1>18. CASE AfterBatch
    <2>1. UNCHANGED <<hyp, answer>> /\ pc' \notin {"propose", "commit"}
      BY <1>18, BatchGoesOn DEF queue, work, Typed, TurnTyped
    <2> QED BY <1>1, <2>1
  <1>19. CASE BatchesSeen
    <2>1. UNCHANGED <<hyp, answer>> /\ pc' \notin {"propose", "commit"}
      BY <1>19 DEF BatchesSeen, queue, work, Exit, Leave
    <2> QED BY <1>1, <2>1
  <1>20. CASE Explore
    <2>1. UNCHANGED answer /\ pc' = "drain" /\ turn.context \in 1..Contexts
      BY <1>20 DEF Explore, AtContext, DrainFrom, Typed, TurnTyped, Turns
    <2>2. PICK seeds \in SUBSET Seeds[turn.context] : hyp' = Opened(seeds)
      BY <1>20 DEF Explore
    <2>3. \A c \in Candidates : Seeds[c] \cap seeds = {} /\ Seeds[c] \subseteq Hyps
      <3>1. \A c \in Candidates : c # turn.context
        BY <2>1, Universe
      <3> QED BY <2>1, <3>1, Universe
    <2>4. \A c \in Candidates : Linked(c)' = Linked(c)
      BY <2>2, <2>3 DEF Linked, Opened
    <2> QED BY <2>1, <2>4
  <1>21. CASE Revisit
    <2>1. UNCHANGED <<hyp, answer>> /\ pc' \notin {"propose", "commit"}
      BY <1>21 DEF Revisit, queue, work, DrainFrom
    <2> QED BY <1>1, <2>1
  <1>22. CASE AfterContext
    <2>1. UNCHANGED <<hyp, answer>> /\ pc' \notin {"propose", "commit"}
      BY <1>22, ContextGoesOn DEF queue, work, Typed, TurnTyped
    <2> QED BY <1>1, <2>1
  <1>23. CASE ContextsSeen
    <2>1. UNCHANGED <<hyp, answer>> /\ pc' \notin {"propose", "commit"}
      BY <1>23 DEF ContextsSeen, queue, work
    <2> QED BY <1>1, <2>1
  <1>24. CASE PlanPool
    <2>1. UNCHANGED <<hyp, answer>> /\ pc' \notin {"propose", "commit"}
      BY <1>24 DEF PlanPool, queue, work
    <2> QED BY <1>1, <2>1
  <1>25. ASSUME NEW p \in SUBSET Hyps, PoolBatch(p) PROVE AskOK'
    <2>1. UNCHANGED <<hyp, answer>> /\ pc' \notin {"propose", "commit"}
      BY <1>25 DEF PoolBatch, work
    <2> QED BY <1>1, <2>1
  <1>26. CASE AfterPoolBatch
    <2>1. UNCHANGED <<hyp, answer>> /\ pc' \notin {"propose", "commit"}
      BY <1>26, PoolGoesOn DEF queue, work, Typed, TurnTyped
    <2> QED BY <1>1, <2>1
  <1>27. CASE PoolEnds
    <2>1. UNCHANGED <<hyp, answer>> /\ pc' \notin {"propose", "commit"}
      BY <1>27 DEF PoolEnds, queue, work, Blocked, Leave
    <2> QED BY <1>1, <2>1
  <1>28. CASE Finish
    <2>1. UNCHANGED <<hyp, answer>> /\ pc' \notin {"propose", "commit"}
      BY <1>28 DEF Finish, queue, Blocked, Leave
    <2> QED BY <1>1, <2>1
  <1> QED BY <1>2, <1>3, <1>4, <1>5, <1>6, <1>7, <1>8, <1>9, <1>10, <1>11, <1>12,
      <1>13, <1>14, <1>15, <1>16, <1>17, <1>18, <1>19, <1>20, <1>21, <1>22, <1>23,
      <1>24, <1>25, <1>26, <1>27, <1>28 DEF Carries

(* There is room for all that the answers still to come may add.           *)
LEMMA RoomKept == ASSUME PInv, Typed', Carries, pc' # "idle" PROVE RoomOK'
  <1> USE DEF PInv, RoomOK, QueueBounded
  <1>1. ASSUME Incomplete' \cap Proposed \subseteq Incomplete, pc' \notin {"propose", "commit"}
        PROVE  RoomOK'
    <2>1. Incomplete' \cap Proposed \subseteq Incomplete \cap Proposed
      BY <1>1
    <2>2. Cardinality(Incomplete' \cap Proposed) <= Cardinality(Incomplete \cap Proposed)
      BY <2>1, Counts, FS_Subset, FS_Intersection
    <2>3. /\ Cardinality(Incomplete' \cap Proposed) \in Nat
          /\ Cardinality(Incomplete \cap Proposed) \in Nat
      BY Counts DEF Incomplete
    <2> QED BY <1>1, <2>2, <2>3, Limits
  <1>2. CASE Resume
    <2>1. UNCHANGED hyp /\ pc' \notin {"propose", "commit"}
      BY <1>2 DEF Resume, queue
    <2> QED BY <1>1, <2>1 DEF Incomplete
  <1>3. ASSUME NEW c \in Candidates, Decide(c) PROVE RoomOK'
    <2>1. UNCHANGED hyp /\ pc' \notin {"propose", "commit"}
      BY <1>3 DEF Decide, queue
    <2> QED BY <1>1, <2>1 DEF Incomplete
  <1>4. ASSUME NEW c \in Candidates, CommitAnswer(c) PROVE RoomOK'
    <2>1. pc = "commit" /\ c \in turn.asked /\ turn'.asked = turn.asked \ {c}
      BY <1>4 DEF CommitAnswer, Typed, TurnTyped, Turns
    <2>2. turn.asked \in SUBSET Candidates /\ turn'.asked \in SUBSET Candidates
      BY <2>1 DEF Typed, TurnTyped, Turns
    <2>3. Cardinality(turn'.asked) = Cardinality(turn.asked) - 1
          /\ Cardinality(turn.asked) \in Nat /\ Cardinality(turn'.asked) \in Nat
      BY <2>1, <2>2, Counts, FS_RemoveElement
    <2>4. Cardinality(Incomplete') <= Cardinality(Incomplete) + SeedLimit
      <3>1. CASE UNCHANGED hyp
        BY <3>1, Counts, Limits DEF Incomplete
      <3>2. ASSUME NEW seeds \in SUBSET Seeds[c], hyp' = Opened(seeds)
            PROVE  Cardinality(Incomplete') <= Cardinality(Incomplete) + SeedLimit
        BY <3>2, OpenedCount
      <3> QED BY <1>4, <3>1, <3>2 DEF CommitAnswer
    <2>5. SeedLimit * Cardinality(turn.asked) = SeedLimit * Cardinality(turn'.asked) + SeedLimit
          /\ SeedLimit * Cardinality(turn'.asked) \in Nat
      BY <2>3, Limits
    <2>6. Cardinality(Incomplete') \in Nat
      BY Counts DEF Incomplete
    <2>7. Cardinality(Incomplete') + SeedLimit * Cardinality(turn'.asked) <= MaxPending
      BY <2>1, <2>4, <2>5, <2>6, Counts, Limits
    <2>8. Cardinality(Incomplete' \cap Proposed) <= Cardinality(Incomplete')
          /\ Cardinality(Incomplete' \cap Proposed) \in Nat
      <3>1. Incomplete' \in SUBSET Hyps /\ Incomplete' \cap Proposed \in SUBSET Hyps
        BY DEF Incomplete
      <3> QED BY <3>1, Counts, FS_Subset
    <2> QED BY <2>5, <2>6, <2>7, <2>8, Limits
  <1>5. CASE Discovered
    <2>1. UNCHANGED hyp /\ pc' \notin {"propose", "commit"}
      BY <1>5 DEF Discovered, queue, Blocked, Leave
    <2> QED BY <1>1, <2>1 DEF Incomplete
  <1>6. CASE RecoverChains
    <2>1. pc' \notin {"propose", "commit"}
      BY <1>6 DEF RecoverChains
    <2>2. CASE UNCHANGED hyp
      BY <1>1, <2>1, <2>2 DEF Incomplete
    <2>3. ASSUME NEW x \in Chained, Register(x) PROVE RoomOK'
      <3>1. Incomplete' \cap Proposed \subseteq Incomplete
        BY <2>3, Universe DEF Incomplete, Register, Typed, StoreTyped
      <3> QED BY <1>1, <2>1, <3>1
    <2>4. RecoveredDue \subseteq Chained
      BY DEF RecoveredDue, Due, Typed, StoreTyped
    <2> QED BY <1>6, <2>2, <2>3, <2>4 DEF RecoverChains, queue
  <1>7. CASE RegisterChildren
    <2>1. pc' \notin {"propose", "commit"}
      BY <1>7 DEF RegisterChildren
    <2>2. CASE UNCHANGED hyp
      BY <1>1, <2>1, <2>2 DEF Incomplete
    <2>3. ASSUME NEW x \in Chained, Register(x) PROVE RoomOK'
      <3>1. Incomplete' \cap Proposed \subseteq Incomplete
        BY <2>3, Universe DEF Incomplete, Register, Typed, StoreTyped
      <3> QED BY <1>1, <2>1, <3>1
    <2>4. Due(turn.due) \subseteq Chained
      BY DEF Due, Typed, TurnTyped, Turns, StoreTyped
    <2> QED BY <1>7, <2>2, <2>3, <2>4 DEF RegisterChildren, queue
  <1>8. ASSUME NEW h \in Hyps, RunChild(h) PROVE RoomOK'
    <2>1. UNCHANGED hyp /\ pc' \notin {"propose", "commit"}
      BY <1>8 DEF RunChild, queue
    <2> QED BY <1>1, <2>1 DEF Incomplete
  <1>9. ASSUME NEW h \in Hyps, ChildCloses(h) PROVE RoomOK'
    <2>1. Incomplete' \subseteq Incomplete /\ pc' = "register"
      BY <1>9 DEF ChildCloses, Incomplete, Typed, StoreTyped
    <2> QED BY <1>1, <2>1
  <1>10. ASSUME NEW h \in Hyps, ChildStops(h) PROVE RoomOK'
    <2>1. UNCHANGED hyp /\ pc' \notin {"propose", "commit"}
      BY <1>10 DEF ChildStops
    <2> QED BY <1>1, <2>1 DEF Incomplete
  <1>11. CASE PrewarmFails
    <2>1. UNCHANGED hyp /\ pc' \notin {"propose", "commit"}
      BY <1>11 DEF PrewarmFails, queue
    <2> QED BY <1>1, <2>1 DEF Incomplete
  <1>12. CASE DrainEnds
    <2>1. UNCHANGED hyp /\ pc' \notin {"propose", "commit"}
      BY <1>12 DEF DrainEnds, queue
    <2> QED BY <1>1, <2>1 DEF Incomplete
  <1>13. CASE SkipFile
    <2>1. UNCHANGED hyp /\ pc' \notin {"propose", "commit"}
      BY <1>13 DEF SkipFile, queue, AtBatch
    <2> QED BY <1>1, <2>1 DEF Incomplete
  <1>14. CASE MarkBatch
    <2>1. UNCHANGED hyp /\ pc' \notin {"propose", "commit"}
      BY <1>14 DEF MarkBatch, queue, AtBatch, DrainFrom
    <2> QED BY <1>1, <2>1 DEF Incomplete
  <1>15. CASE Propose
    <2>1. UNCHANGED hyp /\ turn'.asked = Missing(turn.batch)
          /\ Cardinality(Incomplete) + SeedLimit * Cardinality(Batch(turn.batch)) <= MaxPending
      BY <1>15 DEF Propose, RoomFor, queue, Typed, TurnTyped, Turns
    <2>2. Missing(turn.batch) \subseteq Batch(turn.batch) /\ Batch(turn.batch) \subseteq Candidates
      BY DEF Missing, Batch, Kept
    <2>3. Cardinality(Missing(turn.batch)) <= Cardinality(Batch(turn.batch))
      BY <2>2, Counts, FS_Subset
    <2>4. /\ Cardinality(Missing(turn.batch)) \in Nat
          /\ Cardinality(Batch(turn.batch)) \in Nat
      BY <2>2, Counts
    <2>5. SeedLimit * Cardinality(Missing(turn.batch))
            <= SeedLimit * Cardinality(Batch(turn.batch))
      BY <2>3, <2>4, RoomGrows
    <2>6. Incomplete' = Incomplete
      BY <2>1 DEF Incomplete
    <2>7. /\ SeedLimit * Cardinality(Missing(turn.batch)) \in Nat
          /\ SeedLimit * Cardinality(Batch(turn.batch)) \in Nat
      BY <2>4, Limits
    <2> QED BY <2>1, <2>5, <2>6, <2>7, Counts, Limits
  <1>16. CASE Answer
    <2>1. UNCHANGED hyp /\ turn'.asked \subseteq turn.asked /\ pc = "propose"
      BY <1>16 DEF Answer, queue, Typed, TurnTyped, Turns
    <2>2. turn.asked \in SUBSET Candidates /\ turn'.asked \in SUBSET Candidates
      BY <2>1 DEF Typed, TurnTyped, Turns
    <2>3. Cardinality(turn'.asked) <= Cardinality(turn.asked)
      BY <2>1, <2>2, Counts, FS_Subset
    <2>4. Cardinality(turn'.asked) \in Nat /\ Cardinality(turn.asked) \in Nat
      BY <2>2, Counts
    <2>5. SeedLimit * Cardinality(turn'.asked) <= SeedLimit * Cardinality(turn.asked)
      BY <2>3, <2>4, RoomGrows
    <2>6. Incomplete' = Incomplete
      BY <2>1 DEF Incomplete
    <2>7. /\ SeedLimit * Cardinality(turn'.asked) \in Nat
          /\ SeedLimit * Cardinality(turn.asked) \in Nat
      BY <2>4, Limits
    <2> QED BY <2>1, <2>5, <2>6, <2>7, Counts, Limits
  <1>17. CASE Committed
    <2>1. UNCHANGED hyp /\ pc' \notin {"propose", "commit"}
      BY <1>17 DEF Committed, queue, Blocked, Leave, DrainFrom
    <2> QED BY <1>1, <2>1 DEF Incomplete
  <1>18. CASE AfterBatch
    <2>1. UNCHANGED hyp /\ pc' \notin {"propose", "commit"}
      BY <1>18, BatchGoesOn DEF queue, Typed, TurnTyped
    <2> QED BY <1>1, <2>1 DEF Incomplete
  <1>19. CASE BatchesSeen
    <2>1. UNCHANGED hyp /\ pc' \notin {"propose", "commit"}
      BY <1>19 DEF BatchesSeen, queue, Exit, Leave
    <2> QED BY <1>1, <2>1 DEF Incomplete
  <1>20. CASE Explore
    <2>1. pc' = "drain" /\ turn.context \in 1..Contexts
          /\ Cardinality(Incomplete) + SeedLimit * 1 <= MaxPending
      BY <1>20 DEF Explore, AtContext, DrainFrom, RoomFor, Typed, TurnTyped, Turns
    <2>2. Cardinality(Incomplete') <= Cardinality(Incomplete) + SeedLimit
      BY <1>20, <2>1, OpenedCount DEF Explore
    <2>3. Cardinality(Incomplete' \cap Proposed) <= Cardinality(Incomplete')
          /\ Cardinality(Incomplete') \in Nat
          /\ Cardinality(Incomplete' \cap Proposed) \in Nat
      <3>1. Incomplete' \in SUBSET Hyps /\ Incomplete' \cap Proposed \in SUBSET Hyps
        BY DEF Incomplete
      <3> QED BY <3>1, Counts, FS_Subset
    <2> QED BY <2>1, <2>2, <2>3, Counts, Limits
  <1>21. CASE Revisit
    <2>1. UNCHANGED hyp /\ pc' \notin {"propose", "commit"}
      BY <1>21 DEF Revisit, queue, DrainFrom
    <2> QED BY <1>1, <2>1 DEF Incomplete
  <1>22. CASE AfterContext
    <2>1. UNCHANGED hyp /\ pc' \notin {"propose", "commit"}
      BY <1>22, ContextGoesOn DEF queue, Typed, TurnTyped
    <2> QED BY <1>1, <2>1 DEF Incomplete
  <1>23. CASE ContextsSeen
    <2>1. UNCHANGED hyp /\ pc' \notin {"propose", "commit"}
      BY <1>23 DEF ContextsSeen, queue
    <2> QED BY <1>1, <2>1 DEF Incomplete
  <1>24. CASE PlanPool
    <2>1. UNCHANGED hyp /\ pc' \notin {"propose", "commit"}
      BY <1>24 DEF PlanPool, queue
    <2> QED BY <1>1, <2>1 DEF Incomplete
  <1>25. ASSUME NEW p \in SUBSET Hyps, PoolBatch(p) PROVE RoomOK'
    <2>1. UNCHANGED hyp /\ pc' \notin {"propose", "commit"}
      BY <1>25 DEF PoolBatch
    <2> QED BY <1>1, <2>1 DEF Incomplete
  <1>26. CASE AfterPoolBatch
    <2>1. UNCHANGED hyp /\ pc' \notin {"propose", "commit"}
      BY <1>26, PoolGoesOn DEF queue, Typed, TurnTyped
    <2> QED BY <1>1, <2>1 DEF Incomplete
  <1>27. CASE PoolEnds
    <2>1. UNCHANGED hyp /\ pc' \notin {"propose", "commit"}
      BY <1>27 DEF PoolEnds, queue, Blocked, Leave
    <2> QED BY <1>1, <2>1 DEF Incomplete
  <1>28. CASE Finish
    <2>1. UNCHANGED hyp /\ pc' \notin {"propose", "commit"}
      BY <1>28 DEF Finish, queue, Blocked, Leave
    <2> QED BY <1>1, <2>1 DEF Incomplete
  <1> QED BY <1>2, <1>3, <1>4, <1>5, <1>6, <1>7, <1>8, <1>9, <1>10, <1>11, <1>12,
      <1>13, <1>14, <1>15, <1>16, <1>17, <1>18, <1>19, <1>20, <1>21, <1>22, <1>23,
      <1>24, <1>25, <1>26, <1>27, <1>28 DEF Carries
(* Chains: primitives and offers belong to registered hypotheses.          *)
LEMMA ChainKept == ASSUME PInv, Typed', Carries, pc' # "idle" PROVE ChainOK'
  <1> USE DEF PInv, ChainOK
  <1>1. ASSUME UNCHANGED queue PROVE ChainOK'
    BY <1>1 DEF queue, Pairs
  <1>2. CASE Resume
    BY <1>1, <1>2 DEF Resume
  <1>3. ASSUME NEW c \in Candidates, Decide(c) PROVE ChainOK'
    BY <1>1, <1>3 DEF Decide
  <1>4. ASSUME NEW c \in Candidates, CommitAnswer(c) PROVE ChainOK'
    <2>1. UNCHANGED <<prim, offers, pool>>
      BY <1>4 DEF CommitAnswer
    <2>2. \A h \in Hyps : hyp'[h] = "none" => hyp[h] = "none"
      BY <1>4 DEF CommitAnswer, Opened
    <2>3. prim \subseteq Hyps
      BY DEF Typed, StoreTyped
    <2> QED BY <2>1, <2>2, <2>3 DEF Pairs
  <1>5. CASE Discovered
    BY <1>1, <1>5 DEF Discovered, Blocked, Leave
  <1>6. CASE RecoverChains
    <2>1. CASE UNCHANGED queue
      BY <1>1, <2>1
    <2>2. ASSUME NEW x, Register(x) PROVE ChainOK'
      <3>1. \A h \in Hyps : hyp'[h] = "none" => hyp[h] = "none"
        BY <2>2 DEF Register, Typed, StoreTyped
      <3>2. UNCHANGED <<prim, offers, pool>>
        BY <2>2 DEF Register
      <3>3. prim \subseteq Hyps
        BY DEF Typed, StoreTyped
      <3> QED BY <3>1, <3>2, <3>3 DEF Pairs
    <2> QED BY <1>6, <2>1, <2>2 DEF RecoverChains
  <1>7. CASE RegisterChildren
    <2>1. CASE UNCHANGED queue
      BY <1>1, <2>1
    <2>2. ASSUME NEW x, Register(x) PROVE ChainOK'
      <3>1. \A h \in Hyps : hyp'[h] = "none" => hyp[h] = "none"
        BY <2>2 DEF Register, Typed, StoreTyped
      <3>2. UNCHANGED <<prim, offers, pool>>
        BY <2>2 DEF Register
      <3>3. prim \subseteq Hyps
        BY DEF Typed, StoreTyped
      <3> QED BY <3>1, <3>2, <3>3 DEF Pairs
    <2> QED BY <1>7, <2>1, <2>2 DEF RegisterChildren
  <1>8. ASSUME NEW h \in Hyps, RunChild(h) PROVE ChainOK'
    BY <1>1, <1>8 DEF RunChild
  <1>9. ASSUME NEW h \in Hyps, ChildCloses(h) PROVE ChainOK'
    <2>1. UNCHANGED pool /\ prim \subseteq prim' /\ prim' \subseteq prim \cup {h}
      BY <1>9 DEF ChildCloses, ChildWrites
    <2>2. /\ hyp[h] = "open" /\ hyp'[h] # "none"
          /\ \A g \in Hyps : hyp'[g] = "none" => hyp[g] = "none" /\ g # h
      BY <1>9 DEF ChildCloses, TurnOK, Incomplete, Typed, StoreTyped
    <2>3. \A g \in Hyps : g # h => offers'[g] = offers[g]
      BY <1>9 DEF ChildCloses, ChildWrites, Typed, StoreTyped
    <2>4. \A x \in offers'[h] : Parents[x] \subseteq prim'
      <3>1. PICK new \in SUBSET {x \in Chained : Parents[x] \subseteq prim'} :
               offers' = IF offers[h] = {} THEN [offers EXCEPT ![h] = new] ELSE offers
        BY <1>9 DEF ChildCloses, ChildWrites
      <3>2. CASE offers[h] = {}
        BY <3>1, <3>2 DEF Typed, StoreTyped
      <3>3. CASE offers[h] # {}
        BY <2>1, <3>1, <3>3
      <3> QED BY <3>2, <3>3
    <2>5. prim \subseteq Hyps
      BY DEF Typed, StoreTyped
    <2>6. (\A g \in prim : hyp[g] # "none")'
      BY <2>1, <2>2, <2>5
    <2>7. (\A g \in Hyps : hyp[g] = "none" => offers[g] = {})'
      BY <2>2, <2>3
    <2>8. (\A g \in Hyps : \A x \in offers[g] : Parents[x] \subseteq prim)'
      <3>1. SUFFICES ASSUME NEW g \in Hyps, NEW x \in offers'[g] PROVE Parents[x] \subseteq prim'
        OBVIOUS
      <3>2. CASE g = h
        BY <2>4, <3>2
      <3>3. CASE g # h
        BY <2>1, <2>3, <3>3
      <3> QED BY <3>2, <3>3
    <2> QED BY <2>1, <2>6, <2>7, <2>8 DEF Pairs
  <1>10. ASSUME NEW h \in Hyps, ChildStops(h) PROVE ChainOK'
    <2>1. UNCHANGED pool /\ prim \subseteq prim' /\ prim' \subseteq prim \cup {h}
      BY <1>10 DEF ChildStops, ChildWrites
    <2>2. /\ hyp[h] = "open" /\ hyp'[h] # "none"
          /\ \A g \in Hyps : hyp'[g] = "none" => hyp[g] = "none" /\ g # h
      BY <1>10 DEF ChildStops, TurnOK, Incomplete, Typed, StoreTyped
    <2>3. \A g \in Hyps : g # h => offers'[g] = offers[g]
      BY <1>10 DEF ChildStops, ChildWrites, Typed, StoreTyped
    <2>4. \A x \in offers'[h] : Parents[x] \subseteq prim'
      <3>1. PICK new \in SUBSET {x \in Chained : Parents[x] \subseteq prim'} :
               offers' = IF offers[h] = {} THEN [offers EXCEPT ![h] = new] ELSE offers
        BY <1>10 DEF ChildStops, ChildWrites
      <3>2. CASE offers[h] = {}
        BY <3>1, <3>2 DEF Typed, StoreTyped
      <3>3. CASE offers[h] # {}
        BY <2>1, <3>1, <3>3
      <3> QED BY <3>2, <3>3
    <2>5. prim \subseteq Hyps
      BY DEF Typed, StoreTyped
    <2>6. (\A g \in prim : hyp[g] # "none")'
      BY <2>1, <2>2, <2>5
    <2>7. (\A g \in Hyps : hyp[g] = "none" => offers[g] = {})'
      BY <2>2, <2>3
    <2>8. (\A g \in Hyps : \A x \in offers[g] : Parents[x] \subseteq prim)'
      <3>1. SUFFICES ASSUME NEW g \in Hyps, NEW x \in offers'[g] PROVE Parents[x] \subseteq prim'
        OBVIOUS
      <3>2. CASE g = h
        BY <2>4, <3>2
      <3>3. CASE g # h
        BY <2>1, <2>3, <3>3
      <3> QED BY <3>2, <3>3
    <2> QED BY <2>1, <2>6, <2>7, <2>8 DEF Pairs
  <1>11. CASE PrewarmFails
    BY <1>1, <1>11 DEF PrewarmFails
  <1>12. CASE DrainEnds
    BY <1>1, <1>12 DEF DrainEnds
  <1>13. CASE SkipFile
    BY <1>1, <1>13 DEF SkipFile
  <1>14. CASE MarkBatch
    BY <1>1, <1>14 DEF MarkBatch
  <1>15. CASE Propose
    BY <1>1, <1>15 DEF Propose
  <1>16. CASE Answer
    BY <1>1, <1>16 DEF Answer
  <1>17. CASE Committed
    BY <1>1, <1>17 DEF Committed, Blocked, Leave, DrainFrom
  <1>18. CASE AfterBatch
    BY <1>1, <1>18 DEF AfterBatch, Exit, Leave
  <1>19. CASE BatchesSeen
    BY <1>1, <1>19 DEF BatchesSeen, Exit, Leave
  <1>20. CASE Explore
    <2>1. UNCHANGED <<prim, offers, pool>>
      BY <1>20 DEF Explore
    <2>2. \A h \in Hyps : hyp'[h] = "none" => hyp[h] = "none"
      BY <1>20 DEF Explore, Opened
    <2>3. prim \subseteq Hyps
      BY DEF Typed, StoreTyped
    <2> QED BY <2>1, <2>2, <2>3 DEF Pairs
  <1>21. CASE Revisit
    BY <1>1, <1>21 DEF Revisit
  <1>22. CASE AfterContext
    BY <1>1, <1>22 DEF AfterContext, Exit, Leave
  <1>23. CASE ContextsSeen
    BY <1>1, <1>23 DEF ContextsSeen
  <1>24. CASE PlanPool
    BY <1>1, <1>24 DEF PlanPool
  <1>25. ASSUME NEW p \in SUBSET Hyps, PoolBatch(p) PROVE ChainOK'
    <2>1. UNCHANGED <<hyp, prim, offers>>
      BY <1>25 DEF PoolBatch
    <2>2. PICK b \in [pool : {turn.pool}, pair : {p},
                      offer : SUBSET {x \in Chained : Parents[x] = p}] :
             (b \in pool \/ p \notin SavedPairs(turn.pool)) /\ pool' = pool \cup {b}
      BY <1>25 DEF PoolBatch
    <2>3. turn.pool \subseteq prim /\ p \in Pairs(turn.pool)
      BY <1>25 DEF PoolBatch, PoolOK, InPool
    <2>4. b.pool = turn.pool /\ b.pair = p /\ \A x \in b.offer : Parents[x] = p
      BY <2>2
    <2>5. p \subseteq turn.pool
      BY <2>3 DEF Pairs
    <2>6. \A d \in pool : d.pool = b.pool /\ d.pair = b.pair => d = b
      <3>1. CASE b \in pool
        BY <3>1
      <3>2. CASE p \notin SavedPairs(turn.pool)
        BY <2>4, <3>2 DEF SavedPairs
      <3> QED BY <2>2, <3>1, <3>2
    <2>7. (\A d \in pool : /\ d.pool \subseteq prim /\ d.pair \in Pairs(d.pool)
                           /\ \A x \in d.offer : Parents[x] \subseteq prim)'
      <3>1. /\ b.pool \subseteq prim /\ b.pair \in Pairs(b.pool)
            /\ \A x \in b.offer : Parents[x] \subseteq prim
        BY <2>3, <2>4, <2>5
      <3> QED BY <2>1, <2>2, <3>1
    <2>8. (\A d, e \in pool : d.pool = e.pool /\ d.pair = e.pair => d = e)'
      BY <2>2, <2>6
    <2> QED BY <2>1, <2>7, <2>8
  <1>26. CASE AfterPoolBatch
    BY <1>1, <1>26 DEF AfterPoolBatch, Exit, Leave
  <1>27. CASE PoolEnds
    BY <1>1, <1>27 DEF PoolEnds, Blocked, Leave
  <1>28. CASE Finish
    BY <1>1, <1>28 DEF Finish, Blocked, Leave
  <1> QED BY <1>2, <1>3, <1>4, <1>5, <1>6, <1>7, <1>8, <1>9, <1>10, <1>11, <1>12,
      <1>13, <1>14, <1>15, <1>16, <1>17, <1>18, <1>19, <1>20, <1>21, <1>22, <1>23,
      <1>24, <1>25, <1>26, <1>27, <1>28 DEF Carries

(* An offered child that is to be registered: see Due.                     *)
Wanted(x) == hyp[x] = "none" /\ DepthOf(x) <= MaxDepth

(* A step that only opens or closes hypotheses adds no child to register.  *)
LEMMA WantedStays ==
    ASSUME UNCHANGED depth, \A h \in Hyps : hyp'[h] = "none" => hyp[h] = "none"
    PROVE  \A x \in Chained : Wanted(x)' => Wanted(x)
  BY Universe DEF Wanted, DepthOf

(* Registering a child settles it, and leaves the depth of the children of *)
(* registered hypotheses as it was.                                        *)
LEMMA WantedRegister ==
    ASSUME Typed, ChainOK, NEW x \in Chained, hyp[x] = "none", Register(x)
    PROVE  \A y \in Chained : Parents[y] \subseteq prim /\ Wanted(y)' => Wanted(y) /\ y # x
  <1> SUFFICES ASSUME NEW y \in Chained, Parents[y] \subseteq prim, Wanted(y)'
               PROVE  Wanted(y) /\ y # x
    OBVIOUS
  <1>1. hyp'[x] = "open" /\ \A h \in Hyps : h # x => hyp'[h] = hyp[h] /\ depth'[h] = depth[h]
    BY Universe DEF Register, Typed, StoreTyped
  <1>2. y # x /\ hyp[y] = "none"
    BY <1>1, Universe DEF Wanted
  <1>3. \A h \in Parents[y] : depth'[h] = depth[h]
    BY <1>1 DEF ChainOK, Typed, StoreTyped
  <1>4. DepthOf(y)' = DepthOf(y)
    BY <1>3 DEF DepthOf
  <1> QED BY <1>2, <1>4 DEF Wanted

(* Of what closed hypotheses offer, only what is being registered misses.  *)
LEMMA OffersKept == ASSUME PInv, Typed', Carries, pc' # "idle" PROVE OffersOK'
  <1> USE DEF PInv, OffersOK
  <1>1. ASSUME UNCHANGED offers, turn'.due = turn.due, pc \notin {"idle", "discover", "recover"},
               \A x \in Chained : Wanted(x)' => Wanted(x),
               \A h \in Hyps : hyp'[h] = "closed" => hyp[h] = "closed"
        PROVE  OffersOK'
    <2>1. \A h \in Hyps : offers[h] \subseteq Chained
      BY DEF Typed, StoreTyped
    <2> QED BY <1>1, <2>1 DEF Due, Wanted
  <1>2. CASE Resume
    BY <1>2 DEF Resume
  <1>3. ASSUME NEW c \in Candidates, Decide(c) PROVE OffersOK'
    BY <1>3 DEF Decide
  <1>4. ASSUME NEW c \in Candidates, CommitAnswer(c) PROVE OffersOK'
    <2>1. UNCHANGED <<offers, depth>> /\ turn'.due = turn.due /\ pc = "commit"
      BY <1>4 DEF CommitAnswer, Typed, TurnTyped, Turns
    <2>2. \A h \in Hyps : /\ hyp'[h] = "none" => hyp[h] = "none"
                          /\ hyp'[h] = "closed" => hyp[h] = "closed"
      BY <1>4 DEF CommitAnswer, Opened
    <2> QED BY <1>1, <2>1, <2>2, WantedStays
  <1>5. CASE Discovered
    BY <1>5 DEF Discovered, Blocked, Leave
  <1>6. CASE RecoverChains
    <2>1. CASE pc' = "recover"
      BY <2>1
    <2>2. CASE pc' = "batch"
      <3>1. UNCHANGED queue /\ Due(UNION {offers[h] : h \in Hyps}) = {}
        BY <1>6, <2>2 DEF RecoverChains, RecoveredDue
      <3>2. \A h \in Hyps : Due(offers[h]) = {}
        BY <3>1 DEF Due
      <3> QED BY <3>1, <3>2 DEF queue, Due, DepthOf
    <2> QED BY <1>6, <2>1, <2>2 DEF RecoverChains
  <1>7. CASE RegisterChildren
    <2>1. ASSUME NEW x \in Due(turn.due), Register(x), UNCHANGED turn PROVE OffersOK'
      <3>1. x \in Chained /\ hyp[x] = "none"
        BY DEF Due, Typed, TurnTyped, Turns
      <3>2. \A y \in Chained : Parents[y] \subseteq prim /\ Wanted(y)' => Wanted(y) /\ y # x
        BY <2>1, <3>1, WantedRegister
      <3>3. UNCHANGED offers /\ \A h \in Hyps : hyp'[h] = "closed" => hyp[h] = "closed"
        BY <2>1, <3>1 DEF Register, Typed, StoreTyped
      <3>4. \A h \in Hyps : \A y \in offers[h] : y \in Chained /\ Parents[y] \subseteq prim
        BY DEF ChainOK, Typed, StoreTyped
      <3>5. pc = "register"
        BY <1>7 DEF RegisterChildren
      <3> QED BY <2>1, <3>2, <3>3, <3>4, <3>5 DEF Due, Wanted
    <2>2. ASSUME UNCHANGED queue, Due(turn.due) = {} PROVE OffersOK'
      <3>1. \A h \in Hyps : hyp[h] = "closed" => Due(offers[h]) = {}
        BY <1>7, <2>2 DEF RegisterChildren, Due
      <3> QED BY <2>2, <3>1 DEF queue, Due, DepthOf
    <2> QED BY <1>7, <2>1, <2>2 DEF RegisterChildren
  <1>8. ASSUME NEW h \in Hyps, RunChild(h) PROVE OffersOK'
    <2>1. UNCHANGED <<offers, hyp, depth>> /\ turn'.due = turn.due
          /\ pc \notin {"idle", "discover", "recover"}
      BY <1>8 DEF RunChild, queue, Typed, TurnTyped, Turns
    <2> QED BY <1>1, <2>1, WantedStays
  <1>9. ASSUME NEW h \in Hyps, ChildCloses(h) PROVE OffersOK'
    <2>1. UNCHANGED depth /\ turn.due = {} /\ turn'.due = offers'[h] /\ pc = "child"
      BY <1>9 DEF ChildCloses, ChildWrites, TurnOK, Typed, TurnTyped, Turns
    <2>2. \A g \in Hyps : g # h => offers'[g] = offers[g] /\ hyp'[g] = hyp[g]
      BY <1>9 DEF ChildCloses, ChildWrites, Typed, StoreTyped
    <2>3. \A g \in Hyps : hyp'[g] = "none" => hyp[g] = "none"
      BY <1>9 DEF ChildCloses, Typed, StoreTyped
    <2>4. \A x \in Chained : Wanted(x)' => Wanted(x)
      BY <2>1, <2>3, WantedStays
    <2>5. \A g \in Hyps : offers[g] \subseteq Chained
      BY DEF Typed, StoreTyped
    <2>6. SUFFICES ASSUME NEW g \in Hyps, hyp'[g] = "closed"
                   PROVE  Due(offers[g])' \subseteq turn'.due
      OBVIOUS
    <2>7. CASE g = h
      BY <2>1, <2>7 DEF Due
    <2>8. CASE g # h
      BY <2>1, <2>2, <2>4, <2>5, <2>6, <2>8 DEF Due, Wanted
    <2> QED BY <2>7, <2>8
  <1>10. ASSUME NEW h \in Hyps, ChildStops(h) PROVE OffersOK'
    <2>1. UNCHANGED <<hyp, depth>> /\ turn'.due = turn.due /\ pc = "child" /\ hyp[h] = "open"
      BY <1>10 DEF ChildStops, ChildWrites, TurnOK, Incomplete, Typed, TurnTyped, Turns
    <2>2. \A g \in Hyps : g # h => offers'[g] = offers[g]
      BY <1>10 DEF ChildStops, ChildWrites, Typed, StoreTyped
    <2>3. \A x \in Chained : Wanted(x)' => Wanted(x)
      BY <2>1, WantedStays
    <2>4. \A g \in Hyps : offers[g] \subseteq Chained
      BY DEF Typed, StoreTyped
    <2>5. SUFFICES ASSUME NEW g \in Hyps, hyp'[g] = "closed"
                   PROVE  Due(offers[g])' \subseteq turn'.due
      OBVIOUS
    <2>6. g # h /\ Due(offers[g]) \subseteq turn.due
      BY <2>1, <2>5
    <2> QED BY <2>1, <2>2, <2>3, <2>4, <2>6 DEF Due, Wanted
  <1>11. CASE PrewarmFails
    <2>1. UNCHANGED <<offers, hyp, depth>> /\ turn'.due = turn.due
          /\ pc \notin {"idle", "discover", "recover"}
      BY <1>11 DEF PrewarmFails, queue, Typed, TurnTyped, Turns
    <2> QED BY <1>1, <2>1, WantedStays
  <1>12. CASE DrainEnds
    <2>1. UNCHANGED <<offers, hyp, depth>> /\ turn'.due = turn.due
          /\ pc \notin {"idle", "discover", "recover"}
      BY <1>12 DEF DrainEnds, queue, Typed, TurnTyped, Turns
    <2> QED BY <1>1, <2>1, WantedStays
  <1>13. CASE SkipFile
    <2>1. UNCHANGED <<offers, hyp, depth>> /\ turn'.due = turn.due
          /\ pc \notin {"idle", "discover", "recover"}
      BY <1>13 DEF SkipFile, queue, AtBatch, Typed, TurnTyped, Turns
    <2> QED BY <1>1, <2>1, WantedStays
  <1>14. CASE MarkBatch
    <2>1. UNCHANGED <<offers, hyp, depth>> /\ turn'.due = turn.due
          /\ pc \notin {"idle", "discover", "recover"}
      BY <1>14 DEF MarkBatch, queue, AtBatch, DrainFrom, Typed, TurnTyped, Turns
    <2> QED BY <1>1, <2>1, WantedStays
  <1>15. CASE Propose
    <2>1. UNCHANGED <<offers, hyp, depth>> /\ turn'.due = turn.due
          /\ pc \notin {"idle", "discover", "recover"}
      BY <1>15 DEF Propose, queue, AtBatch, Typed, TurnTyped, Turns
    <2> QED BY <1>1, <2>1, WantedStays
  <1>16. CASE Answer
    <2>1. UNCHANGED <<offers, hyp, depth>> /\ turn'.due = turn.due
          /\ pc \notin {"idle", "discover", "recover"}
      BY <1>16 DEF Answer, queue, Typed, TurnTyped, Turns
    <2> QED BY <1>1, <2>1, WantedStays
  <1>17. CASE Committed
    <2>1. UNCHANGED <<offers, hyp, depth>> /\ turn'.due = turn.due
          /\ pc \notin {"idle", "discover", "recover"}
      BY <1>17 DEF Committed, queue, Blocked, Leave, DrainFrom, Typed, TurnTyped, Turns
    <2> QED BY <1>1, <2>1, WantedStays
  <1>18. CASE AfterBatch
    <2>1. UNCHANGED <<offers, hyp, depth>> /\ turn'.due = turn.due
          /\ pc \notin {"idle", "discover", "recover"}
      BY <1>18, BatchGoesOn DEF queue, Typed, TurnTyped
    <2> QED BY <1>1, <2>1, WantedStays
  <1>19. CASE BatchesSeen
    <2>1. UNCHANGED <<offers, hyp, depth>> /\ turn'.due = turn.due
          /\ pc \notin {"idle", "discover", "recover"}
      BY <1>19 DEF BatchesSeen, queue, Exit, Leave, Typed, TurnTyped, Turns
    <2> QED BY <1>1, <2>1, WantedStays
  <1>20. CASE Explore
    <2>1. UNCHANGED <<offers, depth>> /\ turn'.due = turn.due /\ pc = "surface"
      BY <1>20 DEF Explore, AtContext, DrainFrom, Typed, TurnTyped, Turns
    <2>2. \A h \in Hyps : /\ hyp'[h] = "none" => hyp[h] = "none"
                          /\ hyp'[h] = "closed" => hyp[h] = "closed"
      BY <1>20 DEF Explore, Opened
    <2> QED BY <1>1, <2>1, <2>2, WantedStays
  <1>21. CASE Revisit
    <2>1. UNCHANGED <<offers, hyp, depth>> /\ turn'.due = turn.due
          /\ pc \notin {"idle", "discover", "recover"}
      BY <1>21 DEF Revisit, queue, DrainFrom, AtContext, Typed, TurnTyped, Turns
    <2> QED BY <1>1, <2>1, WantedStays
  <1>22. CASE AfterContext
    <2>1. UNCHANGED <<offers, hyp, depth>> /\ turn'.due = turn.due
          /\ pc \notin {"idle", "discover", "recover"}
      BY <1>22, ContextGoesOn DEF queue, Typed, TurnTyped
    <2> QED BY <1>1, <2>1, WantedStays
  <1>23. CASE ContextsSeen
    <2>1. UNCHANGED <<offers, hyp, depth>> /\ turn'.due = turn.due
          /\ pc \notin {"idle", "discover", "recover"}
      BY <1>23 DEF ContextsSeen, queue, Typed, TurnTyped, Turns
    <2> QED BY <1>1, <2>1, WantedStays
  <1>24. CASE PlanPool
    <2>1. UNCHANGED <<offers, hyp, depth>> /\ turn'.due = turn.due
          /\ pc \notin {"idle", "discover", "recover"}
      BY <1>24 DEF PlanPool, queue, Typed, TurnTyped, Turns
    <2> QED BY <1>1, <2>1, WantedStays
  <1>25. ASSUME NEW p \in SUBSET Hyps, PoolBatch(p) PROVE OffersOK'
    <2>1. UNCHANGED <<hyp, depth, offers>> /\ turn.due = {} /\ pc = "pairs"
      BY <1>25 DEF PoolBatch, TurnOK
    <2>2. \A h \in Hyps : hyp[h] = "closed" => Due(offers[h]) = {}
      BY <2>1
    <2>3. \A h \in Hyps : Due(offers[h])' = Due(offers[h])
      BY <2>1 DEF Due, DepthOf
    <2> QED BY <2>1, <2>2, <2>3
  <1>26. CASE AfterPoolBatch
    <2>1. UNCHANGED <<offers, hyp, depth>> /\ turn'.due = turn.due
          /\ pc \notin {"idle", "discover", "recover"}
      BY <1>26, PoolGoesOn DEF queue, Typed, TurnTyped
    <2> QED BY <1>1, <2>1, WantedStays
  <1>27. CASE PoolEnds
    <2>1. UNCHANGED <<offers, hyp, depth>> /\ turn'.due = turn.due
          /\ pc \notin {"idle", "discover", "recover"}
      BY <1>27 DEF PoolEnds, queue, Blocked, Leave, Typed, TurnTyped, Turns
    <2> QED BY <1>1, <2>1, WantedStays
  <1>28. CASE Finish
    <2>1. UNCHANGED <<offers, hyp, depth>> /\ turn'.due = turn.due
          /\ pc \notin {"idle", "discover", "recover"}
      BY <1>28 DEF Finish, queue, Blocked, Leave, Typed, TurnTyped, Turns
    <2> QED BY <1>1, <2>1, WantedStays
  <1> QED BY <1>2, <1>3, <1>4, <1>5, <1>6, <1>7, <1>8, <1>9, <1>10, <1>11, <1>12,
      <1>13, <1>14, <1>15, <1>16, <1>17, <1>18, <1>19, <1>20, <1>21, <1>22, <1>23,
      <1>24, <1>25, <1>26, <1>27, <1>28 DEF Carries
(* The batches of the pool that the turn has gone through are registered.  *)
LEMMA PoolKept == ASSUME PInv, Typed', Carries, pc' # "idle" PROVE PoolOK'
  <1> USE DEF PInv, PoolOK
  <1>1. ASSUME ~InPool', pc' \notin {"finish", "publish"} PROVE PoolOK'
    BY <1>1
  <1>2. ASSUME InPool' => InPool, pc' \notin {"finish", "publish"}, UNCHANGED pool,
               prim \subseteq prim', turn'.pool = turn.pool, turn'.pairs = turn.pairs,
               turn'.due = turn.due, \A x \in Chained : Wanted(x)' => Wanted(x)
        PROVE  PoolOK'
    <2>1. SUFFICES ASSUME InPool
                   PROVE  /\ turn'.pool \subseteq prim' /\ turn'.pairs \subseteq Pairs(turn.pool)
                          /\ turn'.pool = prim' =>
                                 \A b \in pool' : b.pool = prim' /\ b.pair \notin turn'.pairs
                                                    => Due(b.offer)' \subseteq turn'.due
      BY <1>2 DEF Pairs
    <2>2. \A b \in pool : b.offer \subseteq Chained
      BY DEF Typed, StoreTyped, PoolRows
    <2>3. ASSUME turn.pool = prim', NEW b \in pool, b.pool = prim', b.pair \notin turn.pairs
          PROVE  Due(b.offer)' \subseteq turn.due
      <3>1. turn.pool = prim
        BY <1>2, <2>1, <2>3
      <3>2. Due(b.offer) \subseteq turn.due
        BY <2>1, <2>3, <3>1
      <3> QED BY <1>2, <2>2, <3>2 DEF Due, Wanted
    <2> QED BY <1>2, <2>1, <2>3
  <1>3. CASE Resume
    <2>1. ~InPool' /\ pc' \notin {"finish", "publish"}
      BY <1>3 DEF Resume, NoTurn, TurnOK, Draining, InPool, Typed, TurnTyped, Turns
    <2> QED BY <1>1, <2>1
  <1>4. ASSUME NEW c \in Candidates, Decide(c) PROVE PoolOK'
    <2>1. ~InPool' /\ pc' \notin {"finish", "publish"}
      BY <1>4 DEF Decide, TurnOK, Draining, InPool, Typed, TurnTyped, Turns
    <2> QED BY <1>1, <2>1
  <1>5. ASSUME NEW c \in Candidates, CommitAnswer(c) PROVE PoolOK'
    <2>1. ~InPool' /\ pc' \notin {"finish", "publish"}
      BY <1>5 DEF CommitAnswer, TurnOK, Draining, InPool, Typed, TurnTyped, Turns
    <2> QED BY <1>1, <2>1
  <1>6. CASE Discovered
    <2>1. ~InPool' /\ pc' \notin {"finish", "publish"}
      BY <1>6 DEF Discovered, Blocked, Leave, TurnOK, Draining, InPool, Typed, TurnTyped,
      Turns
    <2> QED BY <1>1, <2>1
  <1>7. CASE RecoverChains
    <2>1. ~InPool' /\ pc' \notin {"finish", "publish"}
      BY <1>7 DEF RecoverChains, TurnOK, Draining, InPool, Typed, TurnTyped, Turns
    <2> QED BY <1>1, <2>1
  <1>8. CASE RegisterChildren
    <2>1. pc = "register" /\ pc' \in {"register", "drain"}
          /\ turn'.pool = turn.pool /\ turn'.pairs = turn.pairs /\ turn'.back = turn.back
      BY <1>8 DEF RegisterChildren, Typed, TurnTyped, Turns
    <2>2. UNCHANGED <<prim, pool>>
      BY <1>8 DEF RegisterChildren, Register, queue
    <2>3. SUFFICES ASSUME InPool, turn.pool = prim, NEW b \in pool, b.pool = prim,
                          b.pair \notin turn.pairs
                   PROVE  Due(b.offer)' \subseteq turn'.due
      BY <2>1, <2>2 DEF InPool, Pairs
    <2>4. Due(b.offer) \subseteq turn.due
      BY <2>3
    <2>5. b.offer \subseteq Chained /\ \A y \in b.offer : Parents[y] \subseteq prim
      BY DEF Typed, StoreTyped, PoolRows, ChainOK
    <2>6. ASSUME NEW x \in Due(turn.due), Register(x), UNCHANGED turn
          PROVE  Due(b.offer)' \subseteq turn'.due
      <3>1. x \in Chained /\ hyp[x] = "none"
        BY DEF Due, Typed, TurnTyped, Turns
      <3>2. \A y \in Chained : Parents[y] \subseteq prim /\ Wanted(y)' => Wanted(y)
        BY <2>6, <3>1, WantedRegister
      <3> QED BY <2>4, <2>5, <2>6, <3>2 DEF Due, Wanted
    <2>7. ASSUME UNCHANGED queue, Due(turn.due) = {} PROVE Due(b.offer)' \subseteq turn'.due
      <3>1. Due(b.offer) = {}
        BY <2>4, <2>7 DEF Due
      <3> QED BY <2>7, <3>1 DEF Due, DepthOf, queue
    <2> QED BY <1>8, <2>6, <2>7 DEF RegisterChildren
  <1>9. ASSUME NEW h \in Hyps, RunChild(h) PROVE PoolOK'
    <2>1. UNCHANGED queue /\ (InPool' => InPool) /\ pc' \notin {"finish", "publish"}
          /\ turn'.pool = turn.pool /\ turn'.pairs = turn.pairs /\ turn'.due = turn.due
      BY <1>9 DEF RunChild, InPool, Typed, TurnTyped, Turns
    <2> QED BY <1>2, <2>1, WantedStays DEF queue
  <1>10. ASSUME NEW h \in Hyps, ChildCloses(h) PROVE PoolOK'
    <2>1. UNCHANGED <<depth, pool>> /\ prim \subseteq prim' /\ pc' = "register"
          /\ turn'.pool = turn.pool /\ turn'.pairs = turn.pairs /\ turn.due = {}
          /\ (InPool' => InPool)
      <3>1. UNCHANGED <<depth, pool>> /\ prim \subseteq prim' /\ pc' = "register"
        BY <1>10 DEF ChildCloses, ChildWrites
      <3>2. /\ turn'.pool = turn.pool /\ turn'.pairs = turn.pairs
            /\ turn'.back = turn.back /\ turn.due = {}
        BY <1>10 DEF ChildCloses, TurnOK, Typed, TurnTyped, Turns
      <3> QED BY <3>1, <3>2 DEF InPool
    <2>2. \A g \in Hyps : hyp'[g] = "none" => hyp[g] = "none"
      BY <1>10 DEF ChildCloses, Typed, StoreTyped
    <2>3. \A x \in Chained : Wanted(x)' => Wanted(x)
      BY <2>1, <2>2, WantedStays
    <2>4. \A b \in pool : b.offer \subseteq Chained
      BY DEF Typed, StoreTyped, PoolRows
    <2>5. ASSUME InPool, turn.pool = prim', NEW b \in pool, b.pool = prim',
                 b.pair \notin turn.pairs
          PROVE  Due(b.offer)' = {}
      <3>1. turn.pool = prim
        BY <2>1, <2>5
      <3>2. Due(b.offer) = {}
        BY <2>1, <2>5, <3>1
      <3> QED BY <2>3, <2>4, <3>2 DEF Due, Wanted
    <2>6. SUFFICES ASSUME InPool
                   PROVE  /\ turn.pool \subseteq prim' /\ turn.pairs \subseteq Pairs(turn.pool)
                          /\ turn.pool = prim' =>
                                 \A b \in pool : b.pool = prim' /\ b.pair \notin turn.pairs
                                                   => Due(b.offer)' \subseteq turn'.due
      BY <2>1 DEF Pairs
    <2> QED BY <2>1, <2>5, <2>6
  <1>11. ASSUME NEW h \in Hyps, ChildStops(h) PROVE PoolOK'
    <2>1. UNCHANGED <<hyp, depth, pool>> /\ prim \subseteq prim'
          /\ (InPool' => InPool) /\ pc' \notin {"finish", "publish"}
          /\ turn'.pool = turn.pool /\ turn'.pairs = turn.pairs /\ turn'.due = turn.due
      BY <1>11 DEF ChildStops, ChildWrites, InPool, Typed, TurnTyped, Turns
    <2> QED BY <1>2, <2>1, WantedStays
  <1>12. CASE PrewarmFails
    <2>1. UNCHANGED queue /\ (InPool' => InPool) /\ pc' \notin {"finish", "publish"}
          /\ turn'.pool = turn.pool /\ turn'.pairs = turn.pairs /\ turn'.due = turn.due
      BY <1>12 DEF PrewarmFails, InPool, Typed, TurnTyped, Turns
    <2> QED BY <1>2, <2>1, WantedStays DEF queue
  <1>13. CASE DrainEnds
    <2>1. UNCHANGED queue /\ (InPool' => InPool) /\ pc' \notin {"finish", "publish"}
          /\ turn'.pool = turn.pool /\ turn'.pairs = turn.pairs /\ turn'.due = turn.due
      BY <1>13 DEF DrainEnds, InPool, Typed, TurnTyped, Turns
    <2> QED BY <1>2, <2>1, WantedStays DEF queue
  <1>14. CASE SkipFile
    <2>1. ~InPool' /\ pc' \notin {"finish", "publish"}
      BY <1>14 DEF SkipFile, AtBatch, TurnOK, Draining, InPool, Typed, TurnTyped, Turns
    <2> QED BY <1>1, <2>1
  <1>15. CASE MarkBatch
    <2>1. ~InPool' /\ pc' \notin {"finish", "publish"}
      BY <1>15 DEF MarkBatch, AtBatch, DrainFrom, TurnOK, Draining, InPool, Typed,
      TurnTyped, Turns
    <2> QED BY <1>1, <2>1
  <1>16. CASE Propose
    <2>1. ~InPool' /\ pc' \notin {"finish", "publish"}
      BY <1>16 DEF Propose, AtBatch, TurnOK, Draining, InPool, Typed, TurnTyped, Turns
    <2> QED BY <1>1, <2>1
  <1>17. CASE Answer
    <2>1. ~InPool' /\ pc' \notin {"finish", "publish"}
      BY <1>17 DEF Answer, TurnOK, Draining, InPool, Typed, TurnTyped, Turns
    <2> QED BY <1>1, <2>1
  <1>18. CASE Committed
    <2>1. ~InPool' /\ pc' \notin {"finish", "publish"}
      BY <1>18 DEF Committed, Blocked, Leave, DrainFrom, TurnOK, Draining, InPool, Typed,
      TurnTyped, Turns
    <2> QED BY <1>1, <2>1
  <1>19. CASE AfterBatch
    <2>1. ~InPool' /\ pc' \notin {"finish", "publish"}
      BY <1>19, BatchGoesOn DEF TurnOK, Draining, InPool, Typed, TurnTyped
    <2> QED BY <1>1, <2>1
  <1>20. CASE BatchesSeen
    <2>1. ~InPool' /\ pc' \notin {"finish", "publish"}
      BY <1>20 DEF BatchesSeen, Exit, Leave, TurnOK, Draining, InPool, Typed, TurnTyped,
      Turns
    <2> QED BY <1>1, <2>1
  <1>21. CASE Explore
    <2>1. ~InPool' /\ pc' \notin {"finish", "publish"}
      BY <1>21 DEF Explore, AtContext, DrainFrom, TurnOK, Draining, InPool, Typed,
      TurnTyped, Turns
    <2> QED BY <1>1, <2>1
  <1>22. CASE Revisit
    <2>1. ~InPool' /\ pc' \notin {"finish", "publish"}
      BY <1>22 DEF Revisit, AtContext, DrainFrom, TurnOK, Draining, InPool, Typed,
      TurnTyped, Turns
    <2> QED BY <1>1, <2>1
  <1>23. CASE AfterContext
    <2>1. ~InPool' /\ pc' \notin {"finish", "publish"}
      BY <1>23, ContextGoesOn DEF TurnOK, Draining, InPool, Typed, TurnTyped
    <2> QED BY <1>1, <2>1
  <1>24. CASE ContextsSeen
    <2>1. ~InPool' /\ pc' \notin {"finish", "publish"}
      BY <1>24 DEF ContextsSeen, TurnOK, Draining, InPool, Typed, TurnTyped, Turns
    <2> QED BY <1>1, <2>1
  <1>25. CASE PlanPool
    <2>1. UNCHANGED <<prim, pool>> /\ turn'.pool = prim /\ turn'.pairs = Pairs(prim)
          /\ pc' = "pairs"
      BY <1>25 DEF PlanPool, queue, Typed, TurnTyped, Turns
    <2>2. \A b \in pool : b.pool = prim => b.pair \in Pairs(prim)
      BY DEF ChainOK
    <2> QED BY <2>1, <2>2 DEF Pairs
  <1>26. ASSUME NEW p \in SUBSET Hyps, PoolBatch(p) PROVE PoolOK'
    <2>1. PICK b \in [pool : {turn.pool}, pair : {p},
                      offer : SUBSET {x \in Chained : Parents[x] = p}] :
             /\ pool' = pool \cup {b}
             /\ turn' = [turn EXCEPT !.pairs = turn.pairs \ {p}, !.due = b.offer,
                                     !.back = "pool"]
      BY <1>26 DEF PoolBatch
    <2>2. turn'.pool = turn.pool /\ turn'.pairs = turn.pairs \ {p} /\ turn'.due = b.offer
      BY <2>1 DEF Typed, TurnTyped, Turns
    <2>3. InPool /\ turn.due = {} /\ UNCHANGED <<hyp, depth, prim>> /\ pc' = "register"
      BY <1>26 DEF PoolBatch, InPool, TurnOK
    <2>4. b.pool = turn.pool /\ b.pair = p
      BY <2>1
    <2>5. ASSUME turn.pool = prim, NEW d \in pool', d.pool = prim,
                 d.pair \notin turn.pairs \ {p}
          PROVE  Due(d.offer)' \subseteq b.offer
      <3>1. CASE d.pair = p
        <4>1. d = b
          BY <2>1, <2>4, <2>5, <3>1, ChainKept, <1>26 DEF ChainOK, Carries
        <4> QED BY <4>1 DEF Due
      <3>2. CASE d.pair # p
        <4>1. d \in pool /\ d.pair \notin turn.pairs
          BY <2>1, <2>4, <2>5, <3>2
        <4>2. Due(d.offer) = {}
          BY <2>3, <2>5, <4>1
        <4> QED BY <2>3, <4>2 DEF Due, DepthOf
      <3> QED BY <3>1, <3>2
    <2>6. turn.pool \subseteq prim' /\ turn.pairs \ {p} \subseteq Pairs(turn.pool)
      BY <2>3
    <2> QED BY <2>2, <2>3, <2>5, <2>6 DEF Pairs
  <1>27. CASE AfterPoolBatch
    <2>1. UNCHANGED queue /\ pc' = "pairs" /\ turn'.pool = turn.pool /\ turn'.due = turn.due
          /\ turn'.pairs = (IF prim # turn.pool THEN {} ELSE turn.pairs) /\ InPool
      BY <1>27, PoolGoesOn DEF InPool, Typed, TurnTyped
    <2>2. \A b \in pool : Due(b.offer)' = Due(b.offer)
      BY <2>1 DEF Due, DepthOf, queue
    <2> QED BY <2>1, <2>2 DEF queue, Pairs
  <1>28. CASE PoolEnds
    <2>1. UNCHANGED queue /\ turn.pairs = {} /\ turn.due = {} /\ InPool
          /\ turn'.back = "none" /\ pc' = IF prim = turn.pool THEN "finish" ELSE "pool"
      BY <1>28 DEF PoolEnds, Blocked, Leave, Stable, InPool, TurnOK, Draining, Typed,
                    TurnTyped, Turns
    <2>2. \A b \in pool : Due(b.offer)' = Due(b.offer)
      BY <2>1 DEF Due, DepthOf, queue
    <2> QED BY <2>1, <2>2 DEF InPool, queue
  <1>29. CASE Finish
    <2>1. UNCHANGED <<queue, turn>> /\ pc = "finish" /\ pc' = "publish" /\ turn.back = "none"
      BY <1>29 DEF Finish, Blocked, Leave, TurnOK, Draining
    <2>2. \A b \in pool : Due(b.offer)' = Due(b.offer)
      BY <2>1 DEF Due, DepthOf, queue
    <2> QED BY <2>1, <2>2 DEF InPool, queue
  <1> QED BY <1>3, <1>4, <1>5, <1>6, <1>7, <1>8, <1>9, <1>10, <1>11, <1>12, <1>13,
      <1>14, <1>15, <1>16, <1>17, <1>18, <1>19, <1>20, <1>21, <1>22, <1>23, <1>24,
      <1>25, <1>26, <1>27, <1>28, <1>29 DEF Carries

(* Only Finish publishes, and what it has checked, with what the turn has  *)
(* passed, is all of the analysis.                                         *)
LEMMA CompleteKept == ASSUME PInv, Typed', Carries, pc' # "idle" PROVE CompleteOK'
  <1> USE DEF PInv
  <1>1. ~terminal'
    BY SettleKept DEF SettleOK
  <1>2. pc' = "publish" => Finish
    BY DEF Carries, Resume, Decide, CommitAnswer, Discovered, RecoverChains, RegisterChildren,
           RunChild, ChildCloses, ChildStops, PrewarmFails, DrainEnds, SkipFile, AtBatch,
           MarkBatch, DrainFrom, Propose, Answer, Committed, Blocked, Leave, AfterBatch, Exit,
           BatchesSeen, Explore, Revisit, AfterContext, ContextsSeen, PlanPool, PoolBatch,
           AfterPoolBatch, PoolEnds
  <1>3. SUFFICES ASSUME Finish, pc' = "publish" PROVE Complete'
    BY <1>1, <1>2 DEF CompleteOK
  <1>4. /\ pc = "finish" /\ Incomplete = {} /\ SavedPairs(prim) = Pairs(prim)
        /\ \A c \in Candidates : decision[c] \notin {"PENDING", "ERROR"}
        /\ \A c \in Kept : deep'[c] \notin {"PENDING", "RUNNING", "ERROR"}
        /\ UNCHANGED <<decision, answer, marker, explored, queue>>
    BY <1>3 DEF Finish, Blocked, Leave
  <1>5. turn.batch = Len(Files) + 1 /\ turn.context = Contexts + 1 /\ turn.due = {}
    BY <1>4 DEF TurnOK, PastBatches, PastContexts
  <1>6. \A i \in DOMAIN Files : Done(i)
    BY <1>4, <1>5, Limits DEF ProgressOK
  <1>7. \A c \in Kept : answer[c] # "none"
    BY <1>6 DEF Done, Missing, Batch, Kept, Candidates
  <1>8. explored = 1..Contexts
    <2>1. \A k \in 1..Contexts : k \in explored
      BY <1>4, <1>5, Limits DEF ProgressOK
    <2>2. explored \subseteq 1..Contexts
      BY DEF Typed, StoreTyped
    <2> QED BY <2>1, <2>2
  <1>9. Due(UNION {offers[h] : h \in Hyps}) = {}
    <2>1. \A h \in Hyps : Due(offers[h]) = {}
      <3>1. SUFFICES ASSUME NEW h \in Hyps PROVE Due(offers[h]) = {}
        OBVIOUS
      <3>2. CASE hyp[h] = "none"
        BY <3>2 DEF ChainOK, Due
      <3>3. CASE hyp[h] = "closed"
        BY <1>4, <1>5, <3>3 DEF OffersOK
      <3>4. hyp[h] # "open"
        BY <1>4 DEF Incomplete
      <3> QED BY <3>2, <3>3, <3>4 DEF Typed, StoreTyped
    <2> QED BY <2>1 DEF Due
  <1>10. \A b \in pool : b.pool = prim => Due(b.offer) = {}
    BY <1>4 DEF PoolOK
  <1>11. /\ Kept' = Kept /\ Incomplete' = Incomplete
         /\ \A i \in DOMAIN Files : Batch(i)' = Batch(i)
    BY <1>4 DEF Kept, Incomplete, Batch, queue
  <1>12. /\ Due(UNION {offers[h] : h \in Hyps})' = {}
         /\ (\A b \in pool : b.pool = prim => Due(b.offer) = {})'
    BY <1>4, <1>9, <1>10 DEF Due, DepthOf, queue
  <1>13. (SavedPairs(prim) = Pairs(prim))'
    BY <1>4 DEF SavedPairs, Pairs, queue
  <1>14. \A c \in Kept : deep'[c] \in {"COMPLETE", "NO_HYPOTHESIS", "INCONCLUSIVE"}
    BY <1>4 DEF Kept, Typed, StoreTyped
  <1>15. \A c \in Candidates : decision[c] \in {"INCLUDE", "EXCLUDE"}
    BY <1>4 DEF Typed, StoreTyped
  <1>16. \A i \in DOMAIN Files : Batch(i) # {} => i \in marker
    BY <1>6 DEF Done
  <1> QED BY <1>4, <1>7, <1>8, <1>11, <1>12, <1>13, <1>14, <1>15, <1>16 DEF Complete

-----------------------------------------------------------------------------
(* The invariant and what follows from it.                                 *)

(* The invariant holds of an analysis that has not begun.                  *)
LEMMA InitHolds == ASSUME Init PROVE PInv
  <1> USE InitTyped DEF Init, NoTurn
  <1>1. TurnOK
    BY DEF TurnOK, Draining, Proposing, PastBatches, PastContexts
  <1>2. SettleOK /\ ProgressOK
    BY DEF SettleOK, ProgressOK
  <1>3. AskOK
    BY Universe DEF AskOK, Linked
  <1>4. RoomOK
    <2>1. Incomplete = {}
      BY DEF Incomplete
    <2> QED BY <2>1, FS_EmptySet, Limits DEF RoomOK, QueueBounded
  <1>5. ChainOK
    BY DEF ChainOK
  <1>6. OffersOK /\ PoolOK /\ CompleteOK
    BY DEF OffersOK, PoolOK, InPool, CompleteOK
  <1> QED BY <1>1, <1>2, <1>3, <1>4, <1>5, <1>6 DEF PInv

(* Nothing changes: the invariant holds as it did.                         *)
LEMMA StutterKeeps == ASSUME PInv, UNCHANGED vars PROVE PInv'
  <1> USE DEF PInv, vars, work, queue
  <1>1. Typed'
    BY DEF Typed, StoreTyped, TurnTyped
  <1>2. TurnOK' /\ SettleOK'
    BY DEF TurnOK, SettleOK, Proposing, PastBatches, PastContexts, Incomplete
  <1>3. ProgressOK' /\ AskOK'
    BY DEF ProgressOK, Done, Missing, Batch, Kept, AskOK, Linked
  <1>4. RoomOK'
    BY DEF RoomOK, QueueBounded, Incomplete
  <1>5. ChainOK'
    BY DEF ChainOK, Pairs
  <1>6. OffersOK' /\ PoolOK'
    BY DEF OffersOK, PoolOK, InPool, Due, DepthOf, Pairs
  <1>7. Complete => Complete'
    BY CompleteStays
  <1>8. CompleteOK'
    BY <1>7 DEF CompleteOK
  <1> QED BY <1>1, <1>2, <1>3, <1>4, <1>5, <1>6, <1>8

(* Every step keeps the invariant, those that end the turn and the others. *)
LEMMA InvariantKept == PInv /\ [Next]_vars => PInv'
  <1>1. ASSUME PInv, Next PROVE PInv'
    <2>1. Typed'
      BY <1>1, StoreTypeKept, TurnTypeKept DEF PInv, Typed
    <2>2. CASE pc' = "idle"
      BY <1>1, <2>1, <2>2, EndSteps, EndKeeps, PublishKeeps
    <2>3. CASE pc' # "idle"
      <3>1. Carries
        BY <1>1, <2>3, CarrySteps
      <3> QED BY <1>1, <2>1, <2>3, <3>1, TurnKept, SettleKept, ProgressKept, AskKept, RoomKept,
                 ChainKept, OffersKept, PoolKept, CompleteKept DEF PInv
    <2> QED BY <2>2, <2>3
  <1> QED BY <1>1, StutterKeeps

(* The inductive invariant of the pipeline holds in every reachable state. *)
THEOREM PipelineInvariant == Spec => []PInv
  <1>1. Init => PInv
    BY InitHolds
  <1> QED BY <1>1, InvariantKept, PTL DEF Spec

(* A published analysis left nothing out, whatever turns died or were      *)
(* paused on the way: all is decided, answered, marked, explored, closed   *)
(* and registered, and the pool is covered.                                *)
THEOREM TerminalClosedHolds == Spec => []TerminalClosed
  <1>1. PInv => TerminalClosed
    BY DEF PInv, CompleteOK, Complete, SettleOK, TerminalClosed
  <1> QED BY <1>1, PipelineInvariant, PTL

(* The tables have their types, and a turn that returns leaves no RUNNING  *)
(* root and no claim, and says that it is done exactly if it published.    *)
THEOREM TurnSettledHolds == Spec => []TurnSettled
  <1>1. PInv => TypeOK
    BY DEF PInv, Typed, StoreTyped, TurnTyped, Roots, TypeOK
  <1>2. PInv => TurnSettled
    BY <1>1 DEF PInv, SettleOK, Settled, TurnSettled
  <1> QED BY <1>2, PipelineInvariant, PTL

(* The provider is never asked again for a candidate whose answer is       *)
(* stored, and an answer tells exactly whether it registered hypotheses.   *)
THEOREM AskedOnceHolds == Spec => []AskedOnce
  <1>1. PInv => AskedOnce
    BY DEF PInv, AskOK, AskedOnce
  <1> QED BY <1>1, PipelineInvariant, PTL

(* The proposed hypotheses that wait never exceed the pending limit.       *)
THEOREM QueueBoundedHolds == Spec => []QueueBounded
  <1>1. PInv => QueueBounded
    BY DEF PInv, RoomOK
  <1> QED BY <1>1, PipelineInvariant, PTL


=============================================================================
