-------------------------- MODULE SandboxResources --------------------------
(***************************************************************************)
(* The Docker containers and images that dynamic reproduction works own.   *)
(* A process keeps an OwnedResourceRegistry in memory and writes the whole *)
(* registry to one journal file after every change; it loads the journal   *)
(* only when it starts.  A resource is made under the creation fence, a    *)
(* file lock: an ownership intent is journaled, Docker is called, and the  *)
(* intent becomes a registered resource.  Every dynamic work first         *)
(* reconciles what earlier works left, then builds or reuses the baseline  *)
(* image, creates its container, runs its session (which may recreate the  *)
(* container) and cleans up.                                               *)
(*                                                                         *)
(* A step of a work runs from one await to the next, except that a         *)
(* creation is admitted and its intent journaled in two: a transaction on  *)
(* the run's database and a write of the file, between which another       *)
(* process may act.  Docker is external: any call may fail, a failing      *)
(* create or build may have made the resource all the same, and an         *)
(* inspection may be inconclusive.                                         *)
(***************************************************************************)
EXTENDS Integers, Sequences, FiniteSets

CONSTANTS
  Works,        \* dynamic reproduction works of one analysis
  Procs,        \* processes that may run the analysis
  MaxWorkers,   \* worker slots of a process
  MaxAttempts,  \* bound: attempts of a work
  MaxMade,      \* bound: resources named (every one has a fresh uuid)
  MaxCrashes,   \* bound: process crashes
  Cancels,      \* whether an operator may cancel the run
  None          \* no work, no resource

ASSUME BoundsAssumption ==
  /\ MaxWorkers \in Nat /\ MaxAttempts \in Nat /\ MaxMade \in Nat
  /\ MaxCrashes \in Nat /\ Cancels \in BOOLEAN
  /\ IsFiniteSet(Works) /\ None \notin Works /\ None \notin Nat /\ None \notin Procs

VARIABLES
  docker,    \* resources that exist in the Docker daemon
  born,      \* kind and owner of every resource named so far
  mem,       \* the registry each process holds in memory
  journal,   \* the registry file
  up,        \* processes that run
  fence,     \* the work that holds the creation fence
  task,      \* where each work's handler is
  cache,     \* the image each process's recipe store has built
  recipes,   \* images whose BUILT recipe is published
  latch,     \* the durable cancellation latch
  closed,    \* a cancellation drain has passed its inventory check
  attempts,  \* attempts each work has begun
  crashes,
  crossed,   \* history: a reconciliation has looked at an intent whose creation
             \* was under way, or two processes have run at the same time
  named      \* history: resources that had a name when the run was latched

history == <<crossed, named>>
vars == <<docker, born, mem, journal, up, fence, task, cache, recipes, latch,
          closed, attempts, crashes, history>>

Ids == 1 .. MaxMade
Kind(n) == born[n].kind
Container(n) == Kind(n) = "container"

(* A registry: ownership intents, registered resources, and the registered *)
(* ones marked reconcile_required.  Images are registered as preserved.    *)
Registry == [intents : SUBSET Ids, res : SUBSET Ids, flagged : SUBSET Ids]
Empty == [intents |-> {}, res |-> {}, flagged |-> {}]

Idle == [pc |-> "idle", at |-> None, id |-> None, stage |-> "containers",
         todo |-> {}, failed |-> FALSE, refs |-> {}, envs |-> {},
         ok |-> FALSE, made |-> {}]

Registers(w) == mem[task[w].at]

(* _persist: the process's whole registry replaces the file.               *)
Persist(p, r) == mem' = [mem EXCEPT ![p] = r] /\ journal' = r

Step(w, t) == task' = [task EXCEPT ![w] = t]

(* The handler returns or raises: its attempt is over.                     *)
End(w) == task' = [task EXCEPT ![w] = Idle]

Release == fence' = None

Running(p) == {w \in Works : task[w].pc \notin {"idle", "done"} /\ task[w].at = p}

Intents(r, k) == {n \in r.intents : Kind(n) = k}

-----------------------------------------------------------------------------
(* Reconciliation before a session *)

(* T11Services.execute calls reconcile_pending before the session opens.   *)
Begin(w, p) ==
  /\ task[w].pc = "idle" /\ attempts[w] < MaxAttempts
  /\ p \in up /\ ~latch /\ Cardinality(Running(p)) < MaxWorkers
  /\ attempts' = [attempts EXCEPT ![w] = @ + 1]
  /\ task' = [task EXCEPT ![w] = [Idle EXCEPT !.pc = "scan", !.at = p,
                 !.todo = Intents(mem[p], "container")]]
  /\ UNCHANGED <<docker, born, mem, journal, up, fence, cache, recipes, latch,
                 closed, crashes, history>>

(* Each of the three loops runs over a copy taken when the loop starts.    *)
NextStage(w) ==
  LET t == task[w] IN
  /\ t.pc = "scan" /\ t.todo = {}
  /\ \/ /\ t.stage = "containers"
        /\ Step(w, [t EXCEPT !.stage = "images",
                             !.todo = Intents(Registers(w), "image")])
     \/ /\ t.stage = "images"
        /\ Step(w, [t EXCEPT !.stage = "flagged",
                    !.todo = {n \in Registers(w).flagged : Container(n)}])
     \/ /\ t.stage = "flagged" /\ t.failed /\ End(w)
     \/ /\ t.stage = "flagged" /\ ~t.failed /\ Step(w, [t EXCEPT !.pc = "open"])
  /\ UNCHANGED <<docker, born, mem, journal, up, fence, cache, recipes, latch,
                 closed, attempts, crashes, history>>

(* A work between the journaled intent of a resource and its registration. *)
Making == {"prepare", "build", "registerImage", "create", "register",
           "undo", "undoPresent", "undoGone"}
BeingMade(n) == \E v \in Works : task[v].pc \in Making /\ task[v].id = n

(* An intent another task has taken away meanwhile is reported as a        *)
(* failure, and so is an inconclusive inspection.  No fence keeps the scan *)
(* from the intent of a creation that is under way.                        *)
Inspect(w) ==
  LET t == task[w] IN
  /\ t.pc = "scan"
  /\ \E n \in t.todo :
       \/ /\ Step(w, [t EXCEPT !.todo = t.todo \ {n}, !.failed = TRUE])
          /\ UNCHANGED crossed
       \/ /\ t.stage = "flagged" \/ n \in Registers(w).intents
          /\ Step(w, [t EXCEPT !.todo = t.todo \ {n}, !.id = n,
                      !.pc = IF n \in docker THEN "present" ELSE "gone"])
          /\ crossed' = (crossed \/ BeingMade(n))
  /\ UNCHANGED <<docker, born, mem, journal, up, fence, cache, recipes, latch,
                 closed, attempts, crashes, named>>

Remove(w) ==
  LET t == task[w] IN
  /\ t.pc = "present"
  /\ \/ docker' = docker \ {t.id} /\ Step(w, [t EXCEPT !.pc = "gone"])
     \/ UNCHANGED docker /\ Step(w, [t EXCEPT !.pc = "scan", !.failed = TRUE])
  /\ UNCHANGED <<born, mem, journal, up, fence, cache, recipes, latch, closed,
                 attempts, crashes, history>>

Without(r, n) == [intents |-> r.intents \ {n}, res |-> r.res \ {n},
                  flagged |-> r.flagged \ {n}]

(* The entry is deleted; if it has left the registry since it was looked   *)
(* up, del raises KeyError, which nothing on the way catches.              *)
Drop(w) ==
  LET t == task[w]
      r == Registers(w)
      held == IF t.stage = "flagged" THEN r.res ELSE r.intents IN
  /\ t.pc = "gone"
  /\ \/ t.id \in held /\ Persist(t.at, Without(r, t.id)) /\ Step(w, [t EXCEPT !.pc = "scan"])
     \/ t.id \notin held /\ End(w) /\ UNCHANGED <<mem, journal>>
  /\ UNCHANGED <<docker, born, up, fence, cache, recipes, latch, closed,
                 attempts, crashes, history>>

-----------------------------------------------------------------------------
(* Making an image or a container *)

(* The one published baseline is reused when the registry owns it and      *)
(* Docker still has it; several are ambiguous; with none the work builds.  *)
Open(w) ==
  LET t == task[w] IN
  /\ t.pc = "open"
  /\ \/ recipes = {} /\ Step(w, [t EXCEPT !.pc = "image"])
     \/ \E n \in recipes :
          /\ recipes = {n} /\ n \in Registers(w).res /\ n \in docker
          /\ Step(w, [t EXCEPT !.pc = "container", !.refs = {n}])
     \/ recipes # {} /\ End(w)
  /\ UNCHANGED <<docker, born, mem, journal, up, fence, cache, recipes, latch,
                 closed, attempts, crashes, history>>

(* Bug: the fence admits a creation after the cancellation.                *)
AdmittedAlways == TRUE

(* The admission of creation_fence: refused once the run is cancelled.     *)
Admitted == ~latch

(* creation_fence: the lock, then the admission, a transaction of its own  *)
(* on the run's database.  No await lies between it and the intent, but    *)
(* other processes go on.                                                  *)
Admit(w) ==
  LET t == task[w] IN
  /\ t.pc \in {"image", "container"} /\ fence = None
  /\ \/ /\ Admitted /\ Len(born) < MaxMade /\ fence' = w
        /\ Step(w, [t EXCEPT !.pc = IF t.pc = "image" THEN "reserveImage"
                                   ELSE "reserveContainer"])
     \/ /\ ~Admitted /\ UNCHANGED fence
        /\ IF t.pc = "image" THEN End(w) ELSE Step(w, [t EXCEPT !.pc = "cleanup"])
  /\ UNCHANGED <<docker, born, mem, journal, up, cache, recipes, latch, closed,
                 attempts, crashes, history>>

(* reserve_image or reserve_container: the intent is journaled under the   *)
(* fence.  A cancellation in another process may have latched the run and  *)
(* read the journal, which takes no fence, since the admission.            *)
Reserve(w) ==
  LET t == task[w]
      n == Len(born) + 1
      kind == IF t.pc = "reserveImage" THEN "image" ELSE "container"
      r == Registers(w) IN
  /\ t.pc \in {"reserveImage", "reserveContainer"}
  /\ born' = Append(born, [kind |-> kind, work |-> w])
  /\ Persist(t.at, [r EXCEPT !.intents = @ \cup {n}])
  /\ Step(w, [t EXCEPT !.id = n, !.made = t.made \cup {n},
              !.pc = IF kind = "image" THEN "prepare" ELSE "create"])
  /\ UNCHANGED <<docker, up, fence, cache, recipes, latch, closed, attempts,
                 crashes, history>>

(* prepare_image_intent: the tag is fresh, so it is absent or unknown; an  *)
(* unknown one gives its intent up again.                                  *)
PrepareImage(w) ==
  LET t == task[w]
      r == Registers(w) IN
  /\ t.pc = "prepare"
  /\ \/ /\ t.id \in r.intents /\ Step(w, [t EXCEPT !.pc = "build"])
        /\ UNCHANGED <<mem, journal, fence>>
     \/ /\ t.id \in r.intents /\ Persist(t.at, Without(r, t.id))
        /\ Release /\ End(w)
     \/ Step(w, [t EXCEPT !.pc = "undo"]) /\ UNCHANGED <<mem, journal, fence>>
  /\ UNCHANGED <<docker, born, up, cache, recipes, latch, closed, attempts,
                 crashes, history>>

(* The recipe store builds, or returns the image it has built before; then *)
(* the intent is forgotten and the earlier image must be registered.       *)
Build(w) ==
  LET t == task[w]
      r == Registers(w)
      built == cache[t.at] IN
  /\ t.pc = "build"
  /\ \/ /\ built = None
        /\ docker' = docker \cup {t.id} /\ cache' = [cache EXCEPT ![t.at] = t.id]
        /\ Step(w, [t EXCEPT !.pc = "registerImage"]) /\ UNCHANGED <<mem, journal, fence>>
     \/ /\ built = None
        /\ docker' \in {docker, docker \cup {t.id}} /\ Step(w, [t EXCEPT !.pc = "undo"])
        /\ UNCHANGED <<mem, journal, fence, cache>>
     \/ /\ built # None /\ Persist(t.at, Without(r, t.id)) /\ Release
        /\ IF built \in r.res
             THEN Step(w, [t EXCEPT !.pc = "publish", !.id = built, !.refs = {built}])
             ELSE End(w)
        /\ UNCHANGED <<docker, cache>>
  /\ UNCHANGED <<born, up, recipes, latch, closed, attempts, crashes, history>>

Registered(r, n) == [r EXCEPT !.intents = @ \ {n}, !.res = @ \cup {n}]

(* An image whose intent is gone is still registered when Docker shows it. *)
RegisterImage(w) ==
  LET t == task[w]
      r == Registers(w) IN
  /\ t.pc = "registerImage" /\ Release
  /\ IF t.id \in r.intents \/ t.id \in docker
       THEN /\ Persist(t.at, Registered(r, t.id))
            /\ Step(w, [t EXCEPT !.pc = "publish", !.refs = {t.id}])
       ELSE End(w) /\ UNCHANGED <<mem, journal>>
  /\ UNCHANGED <<docker, born, up, cache, recipes, latch, closed, attempts,
                 crashes, history>>

(* The recipe of an image this attempt built becomes a baseline; then the  *)
(* boundary decision on the container may deny it, or any step may raise.  *)
PublishRecipe(w) ==
  LET t == task[w] IN
  /\ t.pc = "publish"
  /\ \/ /\ recipes' = recipes \cup ({t.id} \cap t.made)
        /\ \/ Step(w, [t EXCEPT !.pc = "container"])
           \/ Step(w, [t EXCEPT !.pc = "cleanup"])
     \/ UNCHANGED recipes /\ Step(w, [t EXCEPT !.pc = "cleanup"])
  /\ UNCHANGED <<docker, born, mem, journal, up, fence, cache, latch, closed,
                 attempts, crashes, history>>

CreateContainer(w) ==
  LET t == task[w] IN
  /\ t.pc = "create"
  /\ \/ docker' = docker \cup {t.id} /\ Step(w, [t EXCEPT !.pc = "register"])
     \/ docker' \in {docker, docker \cup {t.id}} /\ Step(w, [t EXCEPT !.pc = "undo"])
  /\ UNCHANGED <<born, mem, journal, up, fence, cache, recipes, latch, closed,
                 attempts, crashes, history>>

(* register_reserved_container raises when the intent is gone.             *)
RegisterContainer(w) ==
  LET t == task[w]
      r == Registers(w) IN
  /\ t.pc = "register" /\ Release
  /\ IF t.id \in r.intents
       THEN Persist(t.at, Registered(r, t.id)) /\ Step(w, [t EXCEPT !.pc = "start"])
       ELSE Step(w, [t EXCEPT !.pc = "cleanup"]) /\ UNCHANGED <<mem, journal>>
  /\ UNCHANGED <<docker, born, up, cache, recipes, latch, closed, attempts,
                 crashes, history>>

-----------------------------------------------------------------------------
(* A creation that failed *)

(* The creator reconciles its own intent while it still holds the fence.   *)
UndoInspect(w) ==
  LET t == task[w] IN
  /\ t.pc = "undo" /\ t.id \in Registers(w).intents
  /\ Step(w, [t EXCEPT !.pc = IF t.id \in docker THEN "undoPresent" ELSE "undoGone"])
  /\ UNCHANGED <<docker, born, mem, journal, up, fence, cache, recipes, latch,
                 closed, attempts, crashes, history>>

UndoRemove(w) ==
  /\ task[w].pc = "undoPresent"
  /\ docker' = docker \ {task[w].id}
  /\ Step(w, [task[w] EXCEPT !.pc = "undoGone"])
  /\ UNCHANGED <<born, mem, journal, up, fence, cache, recipes, latch, closed,
                 attempts, crashes, history>>

(* The failed build raises out of the session; the failed create first     *)
(* cleans up what the attempt owns.                                        *)
AfterUndo(w) ==
  IF Container(task[w].id) THEN Step(w, [task[w] EXCEPT !.pc = "cleanup"]) ELSE End(w)

UndoDrop(w) ==
  LET t == task[w] IN
  /\ t.pc = "undoGone" /\ t.id \in Registers(w).intents
  /\ Persist(t.at, Without(Registers(w), t.id))
  /\ Release /\ AfterUndo(w)
  /\ UNCHANGED <<docker, born, up, cache, recipes, latch, closed, attempts,
                 crashes, history>>

(* Bug: an inconclusive outcome gives the intent up.                       *)
UndoForgets(w) ==
  LET t == task[w] IN
  /\ t.pc \in {"undo", "undoPresent"} /\ Release
  /\ Persist(t.at, Without(Registers(w), t.id)) /\ AfterUndo(w)
  /\ UNCHANGED <<docker, born, up, cache, recipes, latch, closed, attempts,
                 crashes, history>>

(* Inspection, removal or the deletion failed: the intent of an image      *)
(* stays; a container is registered under its name as reconcile_required   *)
(* and handed to cleanup, unless its intent is gone as well.               *)
UndoUnknown(w) ==
  LET t == task[w]
      r == Registers(w) IN
  /\ t.pc \in {"undo", "undoPresent", "undoGone"}
  /\ t.pc = "undoGone" => t.id \notin r.intents
  /\ Release
  /\ IF Container(t.id) /\ t.id \in r.intents
       THEN /\ Persist(t.at, [Registered(r, t.id) EXCEPT !.flagged = @ \cup {t.id}])
            /\ Step(w, [t EXCEPT !.pc = "cleanup", !.refs = t.refs \cup {t.id},
                        !.envs = t.envs \cup {t.id}])
       ELSE AfterUndo(w) /\ UNCHANGED <<mem, journal>>
  /\ UNCHANGED <<docker, born, up, cache, recipes, latch, closed, attempts,
                 crashes, history>>

-----------------------------------------------------------------------------
(* The session and its cleanup *)

(* Bug: a recreated container takes the place of the one before it.        *)
StartReplaces(w) ==
  LET t == task[w] IN
  /\ t.pc = "start"
  /\ Step(w, [t EXCEPT !.pc = "session", !.refs = {t.id}, !.envs = {t.id}])
  /\ UNCHANGED <<docker, born, mem, journal, up, fence, cache, recipes, latch,
                 closed, attempts, crashes, history>>

(* Mount check, start and readiness; then the health checks, whose failure *)
(* leaves the container registered but unknown to the attempt's cleanup.   *)
Start(w) ==
  LET t == task[w] IN
  /\ t.pc = "start"
  /\ \/ /\ t.id \in docker
        /\ Step(w, [t EXCEPT !.pc = "session", !.refs = t.refs \cup {t.id},
                    !.envs = t.envs \cup {t.id}])
     \/ t.id \in docker /\ Step(w, [t EXCEPT !.pc = "cleanup"])
     \/ Step(w, [t EXCEPT !.pc = "unstart"])
  /\ UNCHANGED <<docker, born, mem, journal, up, fence, cache, recipes, latch,
                 closed, attempts, crashes, history>>

(* A container that did not start is removed and forgotten, or, when the   *)
(* removal fails, handed to cleanup.                                       *)
Unstart(w) ==
  LET t == task[w] IN
  /\ t.pc = "unstart"
  /\ \/ /\ docker' = docker \ {t.id}
        /\ Persist(t.at, Without(Registers(w), t.id))
        /\ Step(w, [t EXCEPT !.pc = "cleanup"])
     \/ /\ Step(w, [t EXCEPT !.pc = "cleanup", !.refs = t.refs \cup {t.id},
                    !.envs = t.envs \cup {t.id}])
        /\ UNCHANGED <<docker, mem, journal>>
  /\ UNCHANGED <<born, up, fence, cache, recipes, latch, closed, attempts,
                 crashes, history>>

(* The agent asks for a clean container, finishes, or the session fails.   *)
Session(w) ==
  /\ task[w].pc = "session"
  /\ \/ Step(w, [task[w] EXCEPT !.pc = "container"])
     \/ Step(w, [task[w] EXCEPT !.pc = "cleanup", !.ok = TRUE])
     \/ Step(w, [task[w] EXCEPT !.pc = "cleanup"])
  /\ UNCHANGED <<docker, born, mem, journal, up, fence, cache, recipes, latch,
                 closed, attempts, crashes, history>>

(* What cleanup is asked for that the registry knows.                      *)
Owned(w) == task[w].refs \cap Registers(w).res
OwnedContainers(w) == {n \in Owned(w) : Container(n)}
Covered(w) == task[w].refs \subseteq Registers(w).res /\ OwnedContainers(w) = task[w].envs

(* Bug: preserved images are removed with the containers.                  *)
CleanupRemoveAll(w) ==
  /\ task[w].pc = "cleanup" /\ Covered(w)
  /\ docker' = docker \ Owned(w)
  /\ Step(w, [task[w] EXCEPT !.pc = "cleaned"])
  /\ UNCHANGED <<born, mem, journal, up, fence, cache, recipes, latch, closed,
                 attempts, crashes, history>>

(* cleanup: the containers that still exist are removed together; images   *)
(* are preserved.                                                          *)
CleanupRemove(w) ==
  LET t == task[w] IN
  /\ t.pc = "cleanup" /\ Covered(w)
  /\ docker' = docker \ OwnedContainers(w)
  /\ Step(w, [t EXCEPT !.pc = "cleaned"])
  /\ UNCHANGED <<born, mem, journal, up, fence, cache, recipes, latch, closed,
                 attempts, crashes, history>>

(* The entries are dropped; a session that finished publishes its result.  *)
CleanupDone(w) ==
  LET t == task[w]
      r == Registers(w)
      gone == OwnedContainers(w) IN
  /\ t.pc = "cleaned"
  /\ Persist(t.at, [r EXCEPT !.res = @ \ gone, !.flagged = @ \ gone])
  /\ IF t.ok THEN Step(w, [t EXCEPT !.pc = "done", !.at = None]) ELSE End(w)
  /\ UNCHANGED <<docker, born, up, fence, cache, recipes, latch, closed,
                 attempts, crashes, history>>

(* A mismatch, a Docker failure or the timeout: whatever was removed by    *)
(* then, everything the registry owns of it must be reconciled.            *)
CleanupFails(w) ==
  LET t == task[w]
      r == Registers(w) IN
  /\ t.pc = "cleanup"
  /\ \E some \in SUBSET OwnedContainers(w) :
       /\ some # {} => Covered(w)
       /\ docker' = docker \ some
  /\ Persist(t.at, [r EXCEPT !.flagged = @ \cup Owned(w)])
  /\ End(w)
  /\ UNCHANGED <<born, up, fence, cache, recipes, latch, closed, attempts,
                 crashes, history>>

-----------------------------------------------------------------------------
(* Processes and cancellation *)

(* The registry is built from the journal; the recipe store starts empty.  *)
Launch(p) ==
  /\ p \notin up /\ up' = up \cup {p}
  /\ mem' = [mem EXCEPT ![p] = journal]
  /\ cache' = [cache EXCEPT ![p] = None]
  /\ crossed' = (crossed \/ up # {})
  /\ UNCHANGED <<docker, born, journal, fence, task, recipes, latch, closed,
                 attempts, crashes, named>>

(* The process dies: its handlers vanish and the lock is released, but a   *)
(* create or build it had sent may still complete.                         *)
Crash(p) ==
  LET lost == Running(p)
      sent == {task[w].id : w \in {v \in lost : task[v].pc \in {"build", "create"}}} IN
  /\ p \in up /\ crashes < MaxCrashes
  /\ up' = up \ {p} /\ crashes' = crashes + 1
  /\ \E late \in SUBSET sent : docker' = docker \cup late
  /\ task' = [w \in Works |-> IF w \in lost THEN Idle ELSE task[w]]
  /\ fence' = IF fence \in lost THEN None ELSE fence
  /\ UNCHANGED <<born, mem, journal, cache, recipes, latch, closed, attempts,
                 history>>

RequestCancel ==
  /\ Cancels /\ ~latch /\ latch' = TRUE /\ named' = Len(born)
  /\ UNCHANGED <<docker, born, mem, journal, up, fence, task, cache, recipes,
                 closed, attempts, crashes, crossed>>

(* validate_inventory reloads the journal.  No RUN_SANDBOX action is ever  *)
(* marked dispatched, so a drain has no sandbox target and any entry that  *)
(* is not a preserved image makes the inventory incomplete.                *)
InventoryEmpty(r) == r.intents = {} /\ \A n \in r.res : ~Container(n)

CloseInventory ==
  /\ latch /\ ~closed /\ InventoryEmpty(journal) /\ closed' = TRUE
  /\ UNCHANGED <<docker, born, mem, journal, up, fence, task, cache, recipes,
                 latch, attempts, crashes, history>>

-----------------------------------------------------------------------------
Init ==
  /\ docker = {} /\ born = <<>> /\ journal = Empty
  /\ mem = [p \in Procs |-> Empty] /\ up = {} /\ fence = None
  /\ task = [w \in Works |-> Idle] /\ cache = [p \in Procs |-> None]
  /\ recipes = {} /\ latch = FALSE /\ closed = FALSE
  /\ attempts = [w \in Works |-> 0] /\ crashes = 0
  /\ crossed = FALSE /\ named = 0

WorkStep(w) ==
  \/ NextStage(w) \/ Inspect(w) \/ Remove(w) \/ Drop(w) \/ Open(w)
  \/ Admit(w) \/ Reserve(w) \/ PrepareImage(w) \/ Build(w) \/ RegisterImage(w)
  \/ PublishRecipe(w) \/ CreateContainer(w) \/ RegisterContainer(w)
  \/ UndoInspect(w) \/ UndoRemove(w) \/ UndoDrop(w) \/ UndoUnknown(w)
  \/ Start(w) \/ Unstart(w) \/ Session(w)
  \/ CleanupRemove(w) \/ CleanupDone(w) \/ CleanupFails(w)

Next ==
  \/ \E w \in Works : WorkStep(w) \/ \E p \in Procs : Begin(w, p)
  \/ \E p \in Procs : Launch(p) \/ Crash(p)
  \/ RequestCancel \/ CloseInventory

Spec == Init /\ [][Next]_vars

-----------------------------------------------------------------------------
(* Properties *)

Phases == {"idle", "scan", "present", "gone", "open", "image", "container",
           "reserveImage", "reserveContainer", "prepare", "build",
           "registerImage", "publish", "create", "register", "undo",
           "undoPresent", "undoGone", "start", "unstart", "session", "cleanup",
           "cleaned", "done"}

Tasks == [pc : Phases, at : Procs \cup {None}, id : Ids \cup {None},
          stage : {"containers", "images", "flagged"}, todo : SUBSET Ids,
          failed : BOOLEAN, refs : SUBSET Ids, envs : SUBSET Ids,
          ok : BOOLEAN, made : SUBSET Ids]

(* Every variable has its type, every registry entry names a resource, and *)
(* the fence is held by a work that runs.                                  *)
TypeOK ==
  /\ born \in Seq([kind : {"image", "container"}, work : Works])
  /\ Len(born) \in 0 .. MaxMade
  /\ docker \subseteq DOMAIN born /\ recipes \subseteq DOMAIN born
  /\ journal \in Registry /\ mem \in [Procs -> Registry]
  /\ up \subseteq Procs /\ task \in [Works -> Tasks]
  /\ fence \in Works \cup {None}
  /\ fence # None => task[fence].pc \notin {"idle", "done"}
  /\ cache \in [Procs -> Ids \cup {None}]
  /\ latch \in BOOLEAN /\ closed \in BOOLEAN
  /\ attempts \in [Works -> 0 .. MaxAttempts] /\ crashes \in 0 .. MaxCrashes
  /\ crossed \in BOOLEAN /\ named \in 0 .. MaxMade

(* Every variable has its type, and whatever exists in Docker is named by  *)
(* the journal, as an intent or as a resource: at every instant, so that a *)
(* crash at that instant leaves nothing behind that no later process can   *)
(* find (OwnedResourceRegistry).  It is false with two worker slots, or a  *)
(* second process, from the moment a reconciliation looks at the intent of *)
(* a creation under way (NoContainerLost), and it says nothing of a create *)
(* or build that Docker completes after its failed client was reconciled   *)
(* as absent, which is not modelled.                                       *)
Tracked == TypeOK /\ (crossed \/ docker \subseteq journal.intents \cup journal.res)

(* A work that published its result after a successful cleanup has left no *)
(* container in Docker, however many it recreated and whatever the other   *)
(* slots and processes did (cleanup and _cleanup_owned_resources), nor one *)
(* in the journal, unless a second process has written its copy back.      *)
FinalizedClean ==
  \A w \in Works : task[w].pc = "done" =>
    \A n \in task[w].made : Container(n) =>
      n \notin docker /\ (crossed \/ n \notin journal.res)

(* A baseline image whose recipe is published stays in Docker and in the   *)
(* journal through every cleanup, reconciliation and restart: a later work *)
(* that reuses it finds it (preservation_reason REUSABLE_BASELINE).  It is *)
(* false with two slots once a reconciliation has looked at the intent of  *)
(* the image while it was built: it removes the image after its            *)
(* publication.                                                            *)
BaselineKept == crossed \/ recipes \subseteq docker \cap journal.res

(* A cancelled run names at most one more resource, the one admitted when  *)
(* it was latched, whatever waits for the fence in whichever process; no   *)
(* other container exists once a drain has found the inventory empty       *)
(* (creation_fence and validate_inventory).                                *)
CancelBounded ==
  /\ latch => Len(born) <= named + 1
  /\ closed /\ ~crossed => \A n \in docker : Container(n) => n = named + 1

(* Once a cancellation drain has found the inventory empty no container    *)
(* exists and none is made any more: a creation that was admitted is       *)
(* waited for (the comment in creation_fence).                             *)
CancelClosed == closed => \A n \in docker : ~Container(n)

(* When no creation is under way every container that exists is named by   *)
(* the journal, whatever other works reconciled meanwhile.                 *)
NoContainerLost ==
  fence = None => \A n \in docker : Container(n) => n \in journal.intents \cup journal.res
=============================================================================
