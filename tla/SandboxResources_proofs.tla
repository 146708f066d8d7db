---------------------- MODULE SandboxResources_proofs ----------------------
(***************************************************************************)
(* Proofs about SandboxResources for any number of works, worker slots,    *)
(* processes, attempts, resources and crashes.                             *)
(*                                                                         *)
(* The inductive invariant has two parts.  The first holds whatever the    *)
(* slots and processes do to each other: who holds the fence, which        *)
(* resources are whose, what an attempt knows of the containers it made.   *)
(* The second, what the journal says, holds until a reconciliation looks   *)
(* at the intent of a creation under way or a second process runs.         *)
(***************************************************************************)
EXTENDS SandboxResources, FiniteSetTheorems, TLAPS

-----------------------------------------------------------------------------
(* The inductive invariant.                                                *)

Busy(w) == task[w].pc \notin {"idle", "done"}
Reserving == {"reserveImage", "reserveContainer"}
Holding == Making \cup Reserving

Image(n) == n \in DOMAIN born /\ Kind(n) = "image"
Containers(S) == {n \in S : Container(n)}

(* A work that runs does so in a process that is up; one that does not run *)
(* remembers nothing.                                                      *)
LiveOK == \A w \in Works : /\ Busy(w) => task[w].at \in up
                           /\ task[w].pc = "idle" => task[w] = Idle

(* The fence is held from the admission to the registration.               *)
FenceOK == \A w \in Works : fence = w <=> task[w].pc \in Holding

(* One resource may still be named after the latch, by a work admitted     *)
(* before it.                                                              *)
NamedOK ==
  /\ latch => named <= Len(born) /\ Len(born) <= named + 1
  /\ closed => latch
  /\ \A w \in Works : task[w].pc \in Reserving =>
       Len(born) < MaxMade /\ (latch => Len(born) <= named)

(* The baselines and what the recipe stores have built are images.         *)
ImagesOK == /\ \A n \in recipes : Image(n)
            /\ \A p \in Procs : cache[p] # None => Image(cache[p])

(* An attempt made only resources that bear its work's name.               *)
OwnOK == \A w \in Works : \A n \in task[w].made : n \in DOMAIN born /\ born[n].work = w

(* What a work knows of the resources it made, when Docker has D: once its *)
(* cleanup may succeed, it is asked for every container of the attempt.    *)
Early == {"scan", "present", "gone", "open", "image", "reserveImage", "prepare",
          "build", "registerImage"}
Partial == {"create", "register", "start"}
Given == {"undo", "undoPresent", "undoGone", "unstart", "cleanup", "cleaned"}
MakeOK(t, D) ==
  /\ t.pc \in Making \cup {"start", "unstart"} => t.id \in t.made
  /\ t.pc \in {"prepare", "build", "create", "undoGone"} => t.id \notin D
  /\ t.pc \in {"prepare", "build", "registerImage", "publish"} => Image(t.id)
  /\ t.pc \in {"create", "register", "start", "unstart"} => Container(t.id)
UseOK(t, D) ==
  /\ t.made \cup t.refs \subseteq DOMAIN born
  /\ t.envs = Containers(t.refs) /\ t.envs \subseteq t.made
  /\ t.pc \in Early => t.refs = {}
  /\ t.ok => t.pc \in {"cleanup", "cleaned", "done"}
  /\ t.pc \notin Partial \cup Given \cup {"done"} => Containers(t.made) \subseteq t.envs
  /\ t.pc \in Partial => Containers(t.made) \subseteq t.envs \cup {t.id}
  /\ t.pc \in {"cleanup", "cleaned"} /\ t.ok => Containers(t.made) \subseteq t.envs
  /\ t.pc = "cleaned" => t.envs \cap D = {}
  /\ t.pc = "done" => Containers(t.made) \cap D = {}
WorkOK == \A w \in Works : MakeOK(task[w], docker) /\ UseOK(task[w], docker)

Basic == TypeOK /\ LiveOK /\ FenceOK /\ NamedOK /\ ImagesOK /\ OwnOK /\ WorkOK

(* One process at a time, and its registry is the journal.                 *)
AloneOK == /\ \A p, q \in up : p = q
           /\ \A p \in up : mem[p] = journal

(* What the journal, Docker and the recipes say fits together: an entry is *)
(* an intent or a resource, what exists has one, a registered image exists *)
(* and a published recipe is of such an image.                             *)
RegistryOK ==
  /\ journal.intents \cup journal.res \subseteq DOMAIN born
  /\ journal.intents \cap journal.res = {} /\ journal.flagged \subseteq journal.res
  /\ docker \subseteq journal.intents \cup journal.res
  /\ \A n \in journal.res : Image(n) => n \in docker
  /\ recipes \subseteq journal.res

(* What a work that is at a place in its handler knows of the registry: a  *)
(* reconciliation never has its hands on a creation under way.             *)
Knows(t) ==
  /\ t.pc \in {"scan", "present", "gone"} /\ t.stage = "flagged" =>
       \A n \in t.todo : n \in DOMAIN born /\ Container(n)
  /\ t.pc \in {"present", "gone"} =>
       /\ t.id \in DOMAIN born /\ ~BeingMade(t.id)
       /\ Image(t.id) => t.id \notin journal.res
  /\ t.pc = "gone" => t.id \notin docker
  /\ t.pc \in Making => t.id \in journal.intents
  /\ t.pc = "registerImage" => t.id \in docker
  /\ t.pc = "publish" => t.id \in journal.res
  /\ t.pc = "done" => Containers(t.made) \cap journal.res = {}
KnowsOK == \A w \in Works : Knows(task[w])

(* What is left when a drain has found the inventory empty was named after *)
(* the latch.                                                              *)
ClosedOK == closed => \A n \in journal.intents \cup Containers(journal.res) : n > named

Sound == AloneOK /\ RegistryOK /\ KnowsOK /\ ClosedOK

SInv == Basic /\ (crossed \/ Sound)
-----------------------------------------------------------------------------
(* Facts that every step of a work uses.                                   *)

(* The bounds are numbers.                                                 *)
LEMMA Bounds == /\ MaxMade \in Nat /\ MaxAttempts \in Nat /\ MaxCrashes \in Nat
                /\ None \notin Works /\ None \notin Procs /\ None \notin Ids
  BY BoundsAssumption DEF Ids

(* A work that runs: its process, its registry and the fence.              *)
LEMMA Here ==
  ASSUME Basic, NEW w \in Works, Busy(w)
  PROVE  /\ task[w] \in Tasks /\ task[w].at \in up /\ task[w].at \in Procs
         /\ Registers(w) \in Registry /\ journal \in Registry
         /\ task[w].pc \in Holding => fence = w
         /\ MakeOK(task[w], docker) /\ UseOK(task[w], docker)
  BY DEF Basic, TypeOK, LiveOK, FenceOK, WorkOK, Registers

(* What has a name is one of the ids.                                      *)
LEMMA Named == ASSUME TypeOK PROVE DOMAIN born = 1 .. Len(born) /\ DOMAIN born \subseteq Ids
  <1>1. Len(born) \in Nat /\ MaxMade \in Nat /\ Len(born) <= MaxMade
    BY Bounds DEF TypeOK
  <1>2. DOMAIN born = 1 .. Len(born)
    BY DEF TypeOK
  <1> QED BY <1>1, <1>2 DEF Ids

(* Resources of two works are different.                                   *)
LEMMA Apart ==
  ASSUME Basic, NEW v \in Works, NEW w \in Works, v # w, NEW n \in task[w].made
  PROVE  n \notin task[v].made
  BY DEF Basic, OwnOK

(* What a work at most adds to Docker: the resource it makes.              *)
Mine(w) == IF task[w].pc \in Making THEN {task[w].id} ELSE {}

(* The fence is taken when nobody holds it, and given back.                *)
FenceStep(w, T) ==
  \/ /\ task[w].pc \in Holding /\ T.pc \in Holding /\ fence' = fence
  \/ /\ task[w].pc \in Holding /\ T.pc \notin Holding /\ fence' = None
  \/ /\ task[w].pc \notin Holding /\ T.pc \notin Holding /\ fence' = fence
  \/ /\ task[w].pc \notin Holding /\ T.pc \in Holding /\ fence = None /\ fence' = w

(* The step of a work that names no resource.                              *)
Moves(w, T) ==
  /\ T \in Tasks /\ Step(w, T)
  /\ T.pc \notin {"idle", "done"} => T.at = task[w].at
  /\ T.pc = "idle" => T = Idle
  /\ T.made \subseteq task[w].made
  /\ FenceStep(w, T)
  /\ T.pc \in Reserving => Len(born) < MaxMade /\ ~latch
  /\ born' = born /\ up' = up /\ latch' = latch /\ closed' = closed
  /\ attempts' = attempts /\ crashes' = crashes /\ named' = named

(* A work keeps what it knows of what it made while Docker gets nothing of *)
(* it.                                                                     *)
LEMMA WorkKept ==
  ASSUME NEW v \in Works, born' = born, task'[v] = task[v],
         MakeOK(task[v], docker), UseOK(task[v], docker),
         \A n \in docker' : n \in docker \/ n \notin task[v].made
  PROVE  MakeOK(task[v], docker)' /\ UseOK(task[v], docker)'
  <1>1. MakeOK(task[v], docker)'
    <2>1. task[v].id \in task[v].made /\ task[v].id \notin docker => task[v].id \notin docker'
      OBVIOUS
    <2> QED
      BY <2>1 DEF MakeOK, Making, Image, Kind, Container
  <1>2. UseOK(task[v], docker)'
    <2>1. Containers(task[v].made) \subseteq task[v].made
      BY DEF Containers
    <2>2. \A n : Container(n)' = Container(n)
      BY DEF Container, Kind
    <2>3. /\ Containers(task[v].made)' = Containers(task[v].made)
          /\ Containers(task[v].refs)' = Containers(task[v].refs)
      BY <2>2 DEF Containers
    <2>4. task[v].envs \cap docker = {} => task[v].envs \cap docker' = {}
      BY DEF UseOK
    <2>5. Containers(task[v].made) \cap docker = {} => Containers(task[v].made) \cap docker' = {}
      BY <2>1
    <2> QED
      BY <2>3, <2>4, <2>5 DEF UseOK
  <1> QED BY <1>1, <1>2

(* The other works do, when one makes a step.                              *)
LEMMA OthersWork ==
  ASSUME Basic, NEW w \in Works, NEW v \in Works, v # w, born' = born,
         docker' \subseteq docker \cup Mine(w), task'[v] = task[v], Busy(w)
  PROVE  MakeOK(task[v], docker)' /\ UseOK(task[v], docker)'
  <1>1. /\ MakeOK(task[v], docker) /\ UseOK(task[v], docker)
        /\ MakeOK(task[w], docker)
    BY DEF Basic, WorkOK
  <1>2. \A n \in docker' : n \in docker \/ n \notin task[v].made
    BY <1>1, Apart DEF Mine, MakeOK
  <1> QED BY <1>1, <1>2, WorkKept

(* The first part of the invariant after such a step.                      *)
LEMMA MoveBasic ==
  ASSUME Basic, NEW w \in Works, Busy(w), NEW T, Moves(w, T),
         docker' \subseteq docker \cup Mine(w),
         mem' \in [Procs -> Registry], journal' \in Registry,
         cache' \in [Procs -> Ids \cup {None}], crossed' \in BOOLEAN,
         ImagesOK', MakeOK(T, docker)', UseOK(T, docker)'
  PROVE  Basic'
  <1>1. /\ task \in [Works -> Tasks] /\ T \in Tasks
        /\ task' = [task EXCEPT ![w] = T]
    BY DEF Basic, TypeOK, Moves, Step
  <1>2. /\ task' \in [Works -> Tasks] /\ task'[w] = T
        /\ \A v \in Works : v # w => task'[v] = task[v]
    BY <1>1
  <1>3. /\ born' = born /\ up' = up /\ latch' = latch /\ closed' = closed
        /\ attempts' = attempts /\ crashes' = crashes /\ named' = named
    BY DEF Moves
  <1>4. task[w].at \in up /\ (Mine(w) \subseteq DOMAIN born)
    BY Here DEF Mine, Basic, OwnOK, MakeOK
  <1>5. LiveOK'
    BY <1>2, <1>3, <1>4 DEF Basic, LiveOK, Moves, Busy
  <1>6. FenceOK' /\ fence' \in Works \cup {None}
    <2>1. /\ FenceOK /\ fence \in Works \cup {None} /\ FenceStep(w, T)
      BY DEF Basic, TypeOK, Moves
    <2>2. \A v \in Works : v # w => (fence' = v <=> task[v].pc \in Holding)
      BY <2>1, Bounds DEF FenceOK, FenceStep
    <2>3. fence' = w <=> T.pc \in Holding
      BY <2>1, Bounds DEF FenceOK, FenceStep
    <2>4. fence' \in Works \cup {None}
      BY <2>1 DEF FenceStep
    <2> QED BY <1>2, <2>2, <2>3, <2>4 DEF FenceOK
  <1>7. NamedOK'
    BY <1>2, <1>3 DEF Basic, NamedOK, Moves
  <1>8. OwnOK'
    BY <1>2, <1>3 DEF Basic, OwnOK, Moves
  <1>9. WorkOK'
    BY <1>2, <1>3, OthersWork DEF WorkOK
  <1>10. TypeOK'
    <2>1. fence' # None => task'[fence'].pc \notin {"idle", "done"}
      BY <1>6 DEF FenceOK, Holding, Making, Reserving
    <2>2. docker' \subseteq DOMAIN born' /\ recipes' \subseteq DOMAIN born'
      BY <1>3, <1>4 DEF Basic, TypeOK, ImagesOK, Image
    <2> QED
      BY <1>2, <1>3, <1>6, <2>1, <2>2 DEF Basic, TypeOK
  <1> QED BY <1>5, <1>6, <1>7, <1>8, <1>9, <1>10 DEF Basic

(* A step of a work that starts no creation, as the registry sees it: what *)
(* it deletes is its own or not being made, what it registers it made, and *)
(* a registered image stays.                                               *)
Tends(w, T) ==
  /\ \/ mem' = mem /\ journal' = journal
     \/ mem' = [mem EXCEPT ![task[w].at] = journal']
  /\ T.pc \in Making => task[w].pc \in Making /\ T.id = task[w].id
  /\ docker' \subseteq docker \cup Mine(w)
  /\ journal'.intents \subseteq journal.intents
  /\ journal'.res \subseteq journal.res \cup Mine(w)
  /\ \A n \in journal.intents : n \notin journal'.intents => n \in Mine(w) \/ ~BeingMade(n)
  /\ \A n \in docker : n \notin docker' => n \in task[w].made \/ ~BeingMade(n)
  /\ \A n \in journal.res : Image(n) => n \in journal'.res /\ n \in docker'

(* Nothing is made that was not made before.                               *)
LEMMA NothingNew ==
  ASSUME Basic, NEW w \in Works, NEW T, Moves(w, T), Tends(w, T), NEW n, BeingMade(n)'
  PROVE  BeingMade(n)
  <1>1. task' = [task EXCEPT ![w] = T] /\ task \in [Works -> Tasks]
    BY DEF Moves, Step, Basic, TypeOK
  <1>2. PICK v \in Works : task'[v].pc \in Making /\ task'[v].id = n
    BY DEF BeingMade
  <1>3. task[v].pc \in Making /\ task[v].id = n
    BY <1>1, <1>2 DEF Tends
  <1> QED BY <1>3 DEF BeingMade

(* The resource a work makes is its own and has an intent.                 *)
LEMMA MineIs ==
  ASSUME Basic, Sound, NEW w \in Works
  PROVE  /\ Mine(w) \subseteq task[w].made /\ Mine(w) \subseteq journal.intents
         /\ \A n \in Mine(w) : BeingMade(n)
  BY DEF Basic, Sound, WorkOK, MakeOK, KnowsOK, Knows, Mine, BeingMade

(* The other works keep what they know of the registry.                    *)
LEMMA OthersKnow ==
  ASSUME Basic, Sound, NEW w \in Works, NEW T, Moves(w, T), Tends(w, T),
         NEW v \in Works, v # w
  PROVE  Knows(task[v])'
  <1> DEFINE t == task[v]
  <1>1. Knows(t) /\ MakeOK(t, docker)
    BY DEF Basic, Sound, KnowsOK, WorkOK
  <1>2. task'[v] = t /\ born' = born
    BY DEF Moves, Step, Basic, TypeOK
  <1>3. \A n \in Mine(w) : n \notin t.made /\ BeingMade(n) /\ n \in task[w].made
    BY MineIs, Apart
  <1>4. \A n \in t.made : n \notin task[w].made
    BY Apart
  <1>5. \A n : Container(n)' = Container(n) /\ Image(n)' = Image(n)
    BY <1>2 DEF Container, Image, Kind
  <1>6. t.pc \in Making => t.id \in journal'.intents
    <2>1. ASSUME t.pc \in Making PROVE t.id \in journal'.intents
      <3>1. t.id \in journal.intents /\ BeingMade(t.id) /\ t.id \in t.made
        BY <1>1, <2>1 DEF Knows, BeingMade, MakeOK
      <3> QED BY <1>3, <3>1 DEF Tends
    <2> QED BY <2>1
  <1>7. t.pc = "registerImage" => t.id \in docker'
    <2>1. ASSUME t.pc = "registerImage" PROVE t.id \in docker'
      <3>1. t.id \in docker /\ BeingMade(t.id) /\ t.id \in t.made
        BY <1>1, <2>1 DEF Knows, BeingMade, MakeOK, Making
      <3> QED BY <1>4, <3>1 DEF Tends
    <2> QED BY <2>1
  <1>8. t.pc = "publish" => t.id \in journal'.res
    BY <1>1 DEF Knows, MakeOK, Tends
  <1>9. t.pc \in {"present", "gone"} =>
          /\ t.id \in DOMAIN born /\ ~BeingMade(t.id)'
          /\ Image(t.id) => t.id \notin journal'.res
    <2>1. ASSUME t.pc \in {"present", "gone"}, BeingMade(t.id)' PROVE FALSE
      <3>1. BeingMade(t.id)
        BY <1>2, <2>1, NothingNew
      <3> QED BY <1>1, <2>1, <3>1 DEF Knows
    <2>2. t.pc \in {"present", "gone"} => t.id \notin Mine(w)
      BY <1>1, <1>3 DEF Knows
    <2> QED BY <1>1, <2>1, <2>2 DEF Knows, Tends
  <1>10. t.pc = "gone" => t.id \notin docker'
    BY <1>1, <1>3 DEF Knows, Tends
  <1>11. t.pc = "done" => Containers(t.made) \cap journal'.res = {}
    BY <1>1, <1>3 DEF Knows, Tends, Containers
  <1>12. \A S : {n \in S : Container(n)'} = {n \in S : Container(n)}
    BY <1>5
  <1>13. BeingMade(task[v].id)' <=> BeingMade(t.id)'
    BY <1>2 DEF BeingMade
  <1> QED
    BY <1>1, <1>2, <1>5, <1>6, <1>7, <1>8, <1>9, <1>10, <1>11, <1>12, <1>13 DEF Knows, Containers

(* The second part of the invariant after such a step.                     *)
LEMMA MoveSound ==
  ASSUME Basic, Sound, NEW w \in Works, Busy(w), NEW T, Moves(w, T), Tends(w, T),
         RegistryOK', Knows(T)'
  PROVE  Sound'
  <1>1. /\ task' = [task EXCEPT ![w] = T] /\ task \in [Works -> Tasks]
        /\ up' = up /\ born' = born /\ closed' = closed /\ named' = named
        /\ mem \in [Procs -> Registry] /\ up \subseteq Procs
    BY DEF Moves, Step, Basic, TypeOK
  <1>2. AloneOK'
    <2>1. task[w].at \in up /\ AloneOK
      BY Here DEF Sound
    <2> QED BY <1>1, <2>1 DEF AloneOK, Tends
  <1>3. KnowsOK'
    <2>1. ASSUME NEW v \in Works PROVE Knows(task[v])'
      <3>1. CASE v # w
        BY <3>1, OthersKnow
      <3>2. CASE v = w
        <4>1. task'[v] = T
          BY <1>1, <3>2
        <4> QED BY <4>1 DEF Knows, BeingMade
      <3> QED BY <3>1, <3>2
    <2> QED BY <2>1 DEF KnowsOK
  <1>4. ClosedOK'
    <2>1. Mine(w) \subseteq journal.intents
      BY MineIs
    <2> QED
      BY <1>1, <2>1 DEF Sound, ClosedOK, Tends, Containers, Container, Kind
  <1> QED BY <1>2, <1>3, <1>4 DEF Sound

(* A step that changes neither registry nor Docker nor recipes.            *)
LEMMA QuietMove ==
  ASSUME SInv, NEW w \in Works, Busy(w), NEW T, Moves(w, T),
         docker' = docker, mem' = mem, journal' = journal, cache' = cache,
         recipes' = recipes, crossed' \in BOOLEAN, crossed => crossed',
         T.pc \in Making => task[w].pc \in Making /\ T.id = task[w].id,
         MakeOK(T, docker), UseOK(T, docker), ~crossed' /\ Sound => Knows(T)
  PROVE  SInv'
  <1>1. born' = born
    BY DEF Moves
  <1>2. \A n : Container(n)' = Container(n) /\ Image(n)' = Image(n)
    BY <1>1 DEF Container, Image, Kind
  <1>3. MakeOK(T, docker)'
    BY <1>2 DEF MakeOK
  <1>4. UseOK(T, docker)'
    BY <1>1, <1>2 DEF UseOK, Containers
  <1>5. Basic'
    <2>1. ImagesOK'
      BY <1>2 DEF SInv, Basic, ImagesOK
    <2>2. /\ mem' \in [Procs -> Registry] /\ journal' \in Registry
          /\ cache' \in [Procs -> Ids \cup {None}]
      BY DEF SInv, Basic, TypeOK
    <2> QED BY <1>3, <1>4, <2>1, <2>2, MoveBasic DEF SInv
  <1>6. ASSUME ~crossed' PROVE Sound'
    <2>1. Sound /\ Basic
      BY <1>6 DEF SInv
    <2>2. Tends(w, T)
      BY <2>1 DEF Tends, Sound, RegistryOK
    <2>3. RegistryOK'
      BY <1>1, <1>2, <2>1 DEF Sound, RegistryOK
    <2>4. Knows(T)'
      <3>1. \A n : BeingMade(n)' => BeingMade(n)
        BY <2>1, <2>2, NothingNew
      <3>2. Knows(T)
        BY <1>6, <2>1
      <3> QED BY <1>1, <1>2, <3>1, <3>2 DEF Knows, Containers
    <2> QED BY <2>1, <2>2, <2>3, <2>4, MoveSound
  <1> QED BY <1>5, <1>6 DEF SInv
-----------------------------------------------------------------------------
(* The steps that change neither the registry nor Docker.                  *)

(* A work that gives up owns nothing.                                      *)
LEMMA IdleIs ==
  /\ Idle \in Tasks /\ Idle.pc = "idle" /\ Idle.made = {}
  /\ \A D : MakeOK(Idle, D) /\ UseOK(Idle, D)
  /\ Knows(Idle)
  BY DEF Idle, Tasks, Phases, MakeOK, UseOK, Knows, Making, Containers, Early, Partial, Given

(* Nothing but the work's own task changes.                                *)
Still == /\ docker' = docker /\ born' = born /\ mem' = mem /\ journal' = journal
         /\ up' = up /\ cache' = cache /\ recipes' = recipes /\ latch' = latch
         /\ closed' = closed /\ attempts' = attempts /\ crashes' = crashes
         /\ named' = named

(* A handler that returns or raises while it holds no fence.               *)
LEMMA QuietEnd ==
  ASSUME SInv, NEW w \in Works, Busy(w), End(w), Still,
         fence' = fence, crossed' = crossed, task[w].pc \notin Holding
  PROVE  SInv'
  <1>1. Moves(w, Idle)
    BY IdleIs DEF Moves, Step, End, FenceStep, Holding, Making, Reserving, Still
  <1>2. crossed' \in BOOLEAN
    BY DEF SInv, Basic, TypeOK
  <1> QED BY <1>1, <1>2, IdleIs, QuietMove DEF Still, Making

(* Reconciliation goes from one loop to the next.                          *)
LEMMA NextStageKeeps == ASSUME SInv, NEW w \in Works, NextStage(w) PROVE SInv'
  <1> DEFINE t == task[w]
  <1>1. Busy(w) /\ t.pc = "scan"
    BY DEF NextStage, Busy
  <1>2. /\ t \in Tasks /\ Registers(w) \in Registry
        /\ MakeOK(t, docker) /\ UseOK(t, docker)
        /\ crossed \in BOOLEAN
    BY <1>1, Here DEF SInv, Basic, TypeOK
  <1>3. Still /\ fence' = fence /\ crossed' = crossed
    BY DEF NextStage, Still, history
  <1>4. ASSUME NEW s \in {"images", "flagged"}, NEW I \in SUBSET Ids,
               Step(w, [t EXCEPT !.stage = s, !.todo = I]),
               s = "flagged" /\ ~crossed /\ Sound =>
                 \A n \in I : n \in DOMAIN born /\ Container(n)
        PROVE  SInv'
    <2>1. PICK T \in Tasks : T = [t EXCEPT !.stage = s, !.todo = I] /\ Step(w, T)
      BY <1>2, <1>4 DEF Tasks
    <2>2. /\ T.pc = "scan" /\ T.at = t.at /\ T.stage = s /\ T.todo = I /\ T.refs = t.refs
          /\ T.envs = t.envs /\ T.ok = t.ok /\ T.made = t.made
      BY <1>1, <1>2, <2>1 DEF Tasks
    <2>3. Moves(w, T)
      BY <1>1, <1>3, <2>1, <2>2 DEF Moves, FenceStep, Holding, Making, Reserving, Still
    <2>4. MakeOK(T, docker) /\ UseOK(T, docker)
      BY <1>1, <1>2, <2>2 DEF MakeOK, UseOK, Making, Early, Partial, Given
    <2>5. ~crossed' /\ Sound => Knows(T)
      BY <1>1, <1>3, <1>4, <2>2 DEF Knows, Making
    <2> QED
      BY <1>1, <1>2, <1>3, <2>2, <2>3, <2>4, <2>5, QuietMove DEF Still, Making
  <1>5. ASSUME Step(w, [t EXCEPT !.pc = "open"])
        PROVE  SInv'
    <2>1. PICK T \in Tasks : T = [t EXCEPT !.pc = "open"] /\ Step(w, T)
      BY <1>2, <1>5 DEF Tasks, Phases
    <2>2. /\ T.pc = "open" /\ T.at = t.at /\ T.refs = t.refs
          /\ T.envs = t.envs /\ T.ok = t.ok /\ T.made = t.made
      BY <1>1, <1>2, <2>1 DEF Tasks
    <2>3. Moves(w, T)
      BY <1>1, <1>3, <2>1, <2>2 DEF Moves, FenceStep, Holding, Making, Reserving, Still
    <2>4. MakeOK(T, docker) /\ UseOK(T, docker)
      BY <1>1, <1>2, <2>2 DEF MakeOK, UseOK, Making, Early, Partial, Given
    <2>5. Knows(T)
      BY <2>2 DEF Knows, Making
    <2> QED
      BY <1>1, <1>2, <1>3, <2>2, <2>3, <2>4, <2>5, QuietMove DEF Still, Making
  <1>6. Intents(Registers(w), "image") \in SUBSET Ids
    BY <1>2 DEF Intents, Registry
  <1>7. {n \in Registers(w).flagged : Container(n)} \in SUBSET Ids
    BY <1>2 DEF Registry
  <1>8. ~crossed /\ Sound => Registers(w).flagged \subseteq DOMAIN born
    BY <1>1, Here DEF SInv, Sound, AloneOK, RegistryOK, Registers
  <1>9. CASE End(w)
    BY <1>1, <1>3, <1>9, QuietEnd DEF Holding, Making, Reserving
  <1>10. CASE Step(w, [t EXCEPT !.stage = "images", !.todo = Intents(Registers(w), "image")])
    BY <1>4, <1>6, <1>10
  <1>11. CASE Step(w, [t EXCEPT !.stage = "flagged",
                       !.todo = {n \in Registers(w).flagged : Container(n)}])
    BY <1>4, <1>7, <1>8, <1>11
  <1> QED BY <1>5, <1>9, <1>10, <1>11 DEF NextStage

(* A reconciliation looks at one entry.                                    *)
LEMMA InspectKeeps == ASSUME SInv, NEW w \in Works, Inspect(w) PROVE SInv'
  <1> DEFINE t == task[w]
  <1>1. Busy(w) /\ t.pc = "scan"
    BY DEF Inspect, Busy
  <1>2. /\ t \in Tasks /\ Registers(w) \in Registry
        /\ MakeOK(t, docker) /\ UseOK(t, docker)
        /\ crossed \in BOOLEAN
        /\ ~crossed => Sound /\ Registers(w) = journal /\ Knows(t)
        /\ born \in Seq([kind : {"image", "container"}, work : Works])
    BY <1>1, Here DEF SInv, Basic, TypeOK, Sound, AloneOK, KnowsOK, Registers
  <1>3. Still /\ fence' = fence
    BY DEF Inspect, Still, history
  <1>4. ASSUME NEW n \in t.todo, Step(w, [t EXCEPT !.todo = t.todo \ {n}, !.failed = TRUE]),
               crossed' = crossed
        PROVE  SInv'
    <2>1. PICK T \in Tasks : T = [t EXCEPT !.todo = t.todo \ {n}, !.failed = TRUE] /\ Step(w, T)
      BY <1>2, <1>4 DEF Tasks, Phases
    <2>2. /\ T.pc = t.pc /\ T.at = t.at /\ T.stage = t.stage
          /\ T.todo = t.todo \ {n} /\ T.refs = t.refs /\ T.envs = t.envs
          /\ T.ok = t.ok /\ T.made = t.made /\ T.id = t.id
      BY <1>1, <1>2, <1>4, <2>1 DEF Tasks
    <2>3. Moves(w, T)
      BY <1>1, <1>3, <1>4, <2>1, <2>2 DEF Moves, FenceStep, Holding, Making, Reserving, Still
    <2>4. MakeOK(T, docker) /\ UseOK(T, docker)
      BY <1>1, <1>2, <1>4, <2>2 DEF MakeOK, UseOK, Making, Early, Partial, Given
    <2>5. ~crossed' /\ Sound => Knows(T)
      BY <1>1, <1>2, <1>3, <1>4, <2>2 DEF Knows, Making
    <2>6. T.pc \in Making => t.pc \in Making /\ T.id = t.id
      BY <1>1, <1>4, <2>2 DEF Making
    <2> QED
      BY <1>1, <1>2, <1>3, <1>4, <2>3, <2>4, <2>5, <2>6, QuietMove DEF Still
  <1>5. ASSUME NEW n \in t.todo, NEW c \in {"present", "gone"},
               Step(w, [t EXCEPT !.todo = t.todo \ {n}, !.id = n, !.pc = c]),
               crossed' = (crossed \/ BeingMade(n)),
               t.stage = "flagged" \/ n \in Registers(w).intents,
               c = "gone" => n \notin docker
        PROVE  SInv'
    <2>1. PICK T \in Tasks : T = [t EXCEPT !.todo = t.todo \ {n}, !.id = n, !.pc = c] /\ Step(w, T)
      BY <1>2, <1>5 DEF Tasks, Phases
    <2>2. /\ T.pc = c /\ T.at = t.at /\ T.stage = t.stage /\ T.todo = t.todo \ {n}
          /\ T.refs = t.refs /\ T.envs = t.envs /\ T.ok = t.ok /\ T.made = t.made
          /\ T.id = n
      BY <1>1, <1>2, <1>5, <2>1 DEF Tasks
    <2>3. Moves(w, T)
      BY <1>1, <1>3, <1>5, <2>1, <2>2 DEF Moves, FenceStep, Holding, Making, Reserving, Still
    <2>4. MakeOK(T, docker) /\ UseOK(T, docker)
      BY <1>1, <1>2, <1>5, <2>2 DEF MakeOK, UseOK, Making, Early, Partial, Given
    <2>5. ~crossed' /\ Sound => Knows(T)
      BY <1>1, <1>2, <1>3, <1>5, <2>2 DEF Knows, Making, Sound, RegistryOK, Image, Container
    <2>6. T.pc \in Making => t.pc \in Making /\ T.id = t.id
      BY <1>1, <1>5, <2>2 DEF Making
    <2> QED
      BY <1>1, <1>2, <1>3, <1>5, <2>3, <2>4, <2>5, <2>6, QuietMove DEF Still
  <1>6. SUFFICES ASSUME NEW n \in t.todo,
               Step(w, [t EXCEPT !.todo = t.todo \ {n}, !.id = n,
                        !.pc = IF n \in docker THEN "present" ELSE "gone"]),
               crossed' = (crossed \/ BeingMade(n)),
               t.stage = "flagged" \/ n \in Registers(w).intents
        PROVE  SInv'
    BY <1>4 DEF Inspect
  <1>7. CASE n \in docker
    BY <1>5, <1>6, <1>7
  <1>8. CASE n \notin docker
    BY <1>5, <1>6, <1>8
  <1> QED BY <1>7, <1>8

(* A work builds, or reuses the one baseline, or gives up.                 *)
LEMMA OpenKeeps == ASSUME SInv, NEW w \in Works, Open(w) PROVE SInv'
  <1> DEFINE t == task[w]
  <1>1. Busy(w) /\ t.pc = "open"
    BY DEF Open, Busy
  <1>2. /\ t \in Tasks /\ Registers(w) \in Registry
        /\ MakeOK(t, docker) /\ UseOK(t, docker)
        /\ crossed \in BOOLEAN
        /\ ~crossed => Sound /\ Registers(w) = journal /\ Knows(t)
        /\ born \in Seq([kind : {"image", "container"}, work : Works])
    BY <1>1, Here DEF SInv, Basic, TypeOK, Sound, AloneOK, KnowsOK, Registers
  <1>3. Still /\ fence' = fence /\ crossed' = crossed
    BY DEF Open, Still, history
  <1>4. ASSUME Step(w, [t EXCEPT !.pc = "image"])
        PROVE  SInv'
    <2>1. PICK T \in Tasks : T = [t EXCEPT !.pc = "image"] /\ Step(w, T)
      BY <1>2, <1>4 DEF Tasks, Phases
    <2>2. /\ T.pc = "image" /\ T.at = t.at /\ T.stage = t.stage /\ T.todo = t.todo
          /\ T.refs = t.refs /\ T.envs = t.envs /\ T.ok = t.ok /\ T.made = t.made
          /\ T.id = t.id
      BY <1>1, <1>2, <1>4, <2>1 DEF Tasks
    <2>3. Moves(w, T)
      BY <1>1, <1>3, <1>4, <2>1, <2>2 DEF Moves, FenceStep, Holding, Making, Reserving, Still
    <2>4. MakeOK(T, docker) /\ UseOK(T, docker)
      BY <1>1, <1>2, <1>4, <2>2 DEF MakeOK, UseOK, Making, Early, Partial, Given
    <2>5. ~crossed' /\ Sound => Knows(T)
      BY <1>1, <1>2, <1>3, <1>4, <2>2 DEF Knows, Making
    <2>6. T.pc \in Making => t.pc \in Making /\ T.id = t.id
      BY <1>1, <1>4, <2>2 DEF Making
    <2> QED
      BY <1>1, <1>2, <1>3, <1>4, <2>3, <2>4, <2>5, <2>6, QuietMove DEF Still
  <1>6. \A n \in recipes : Image(n) /\ n \in Ids
    BY <1>2, Named DEF SInv, Basic, ImagesOK, Image
  <1>5. ASSUME NEW n \in recipes, Step(w, [t EXCEPT !.pc = "container", !.refs = {n}])
        PROVE  SInv'
    <2>1. PICK T \in Tasks : T = [t EXCEPT !.pc = "container", !.refs = {n}] /\ Step(w, T)
      BY <1>2, <1>5, <1>6 DEF Tasks, Phases
    <2>2. /\ T.pc = "container" /\ T.at = t.at /\ T.stage = t.stage
          /\ T.todo = t.todo /\ T.refs = {n} /\ T.envs = t.envs /\ T.ok = t.ok
          /\ T.made = t.made /\ T.id = t.id
      BY <1>1, <1>2, <1>5, <2>1 DEF Tasks
    <2>3. Moves(w, T)
      BY <1>1, <1>3, <1>5, <2>1, <2>2 DEF Moves, FenceStep, Holding, Making, Reserving, Still
    <2>4. MakeOK(T, docker) /\ UseOK(T, docker)
      BY <1>1, <1>2, <1>5, <2>2, <1>6 DEF MakeOK, UseOK, Making, Early, Partial, Given, Containers, Container, Image
    <2>5. ~crossed' /\ Sound => Knows(T)
      BY <1>1, <1>2, <1>3, <1>5, <2>2 DEF Knows, Making
    <2>6. T.pc \in Making => t.pc \in Making /\ T.id = t.id
      BY <1>1, <1>5, <2>2 DEF Making
    <2> QED
      BY <1>1, <1>2, <1>3, <1>5, <2>3, <2>4, <2>5, <2>6, QuietMove DEF Still
  <1>7. CASE End(w)
    BY <1>1, <1>3, <1>7, QuietEnd DEF Holding, Making, Reserving
  <1> QED BY <1>4, <1>5, <1>7 DEF Open

(* The fence, and the admission or its refusal.                            *)
LEMMA AdmitKeeps == ASSUME SInv, NEW w \in Works, Admit(w) PROVE SInv'
  <1> DEFINE t == task[w]
  <1>1. Busy(w) /\ t.pc \in {"image", "container"}
    BY DEF Admit, Busy
  <1>2. /\ t \in Tasks /\ Registers(w) \in Registry
        /\ MakeOK(t, docker) /\ UseOK(t, docker)
        /\ crossed \in BOOLEAN
        /\ ~crossed => Sound /\ Registers(w) = journal /\ Knows(t)
        /\ born \in Seq([kind : {"image", "container"}, work : Works])
    BY <1>1, Here DEF SInv, Basic, TypeOK, Sound, AloneOK, KnowsOK, Registers
  <1>3. Still /\ crossed' = crossed
    BY DEF Admit, Still, history
  <1>4. ASSUME t.pc = "image", fence = None, fence' = w, ~latch, Len(born) < MaxMade,
               Step(w, [t EXCEPT !.pc = "reserveImage"])
        PROVE  SInv'
    <2>1. PICK T \in Tasks : T = [t EXCEPT !.pc = "reserveImage"] /\ Step(w, T)
      BY <1>2, <1>4 DEF Tasks, Phases
    <2>2. /\ T.pc = "reserveImage" /\ T.at = t.at /\ T.stage = t.stage
          /\ T.todo = t.todo /\ T.refs = t.refs /\ T.envs = t.envs /\ T.ok = t.ok
          /\ T.made = t.made /\ T.id = t.id
      BY <1>1, <1>2, <1>4, <2>1 DEF Tasks
    <2>3. Moves(w, T)
      BY <1>1, <1>3, <1>4, <2>1, <2>2 DEF Moves, FenceStep, Holding, Making, Reserving, Still
    <2>4. MakeOK(T, docker) /\ UseOK(T, docker)
      BY <1>1, <1>2, <1>4, <2>2 DEF MakeOK, UseOK, Making, Early, Partial, Given
    <2>5. ~crossed' /\ Sound => Knows(T)
      BY <1>1, <1>2, <1>3, <1>4, <2>2 DEF Knows, Making
    <2>6. T.pc \in Making => t.pc \in Making /\ T.id = t.id
      BY <1>1, <1>4, <2>2 DEF Making
    <2> QED
      BY <1>1, <1>2, <1>3, <1>4, <2>3, <2>4, <2>5, <2>6, QuietMove DEF Still
  <1>5. ASSUME t.pc = "container", fence = None, fence' = w, ~latch, Len(born) < MaxMade,
               Step(w, [t EXCEPT !.pc = "reserveContainer"])
        PROVE  SInv'
    <2>1. PICK T \in Tasks : T = [t EXCEPT !.pc = "reserveContainer"] /\ Step(w, T)
      BY <1>2, <1>5 DEF Tasks, Phases
    <2>2. /\ T.pc = "reserveContainer" /\ T.at = t.at /\ T.stage = t.stage
          /\ T.todo = t.todo /\ T.refs = t.refs /\ T.envs = t.envs /\ T.ok = t.ok
          /\ T.made = t.made /\ T.id = t.id
      BY <1>1, <1>2, <1>5, <2>1 DEF Tasks
    <2>3. Moves(w, T)
      BY <1>1, <1>3, <1>5, <2>1, <2>2 DEF Moves, FenceStep, Holding, Making, Reserving, Still
    <2>4. MakeOK(T, docker) /\ UseOK(T, docker)
      BY <1>1, <1>2, <1>5, <2>2 DEF MakeOK, UseOK, Making, Early, Partial, Given
    <2>5. ~crossed' /\ Sound => Knows(T)
      BY <1>1, <1>2, <1>3, <1>5, <2>2 DEF Knows, Making
    <2>6. T.pc \in Making => t.pc \in Making /\ T.id = t.id
      BY <1>1, <1>5, <2>2 DEF Making
    <2> QED
      BY <1>1, <1>2, <1>3, <1>5, <2>3, <2>4, <2>5, <2>6, QuietMove DEF Still
  <1>6. ASSUME fence' = fence, Step(w, [t EXCEPT !.pc = "cleanup"])
        PROVE  SInv'
    <2>1. PICK T \in Tasks : T = [t EXCEPT !.pc = "cleanup"] /\ Step(w, T)
      BY <1>2, <1>6 DEF Tasks, Phases
    <2>2. /\ T.pc = "cleanup" /\ T.at = t.at /\ T.stage = t.stage /\ T.todo = t.todo
          /\ T.refs = t.refs /\ T.envs = t.envs /\ T.ok = t.ok /\ T.made = t.made
          /\ T.id = t.id
      BY <1>1, <1>2, <1>6, <2>1 DEF Tasks
    <2>3. Moves(w, T)
      BY <1>1, <1>3, <1>6, <2>1, <2>2 DEF Moves, FenceStep, Holding, Making, Reserving, Still
    <2>4. MakeOK(T, docker) /\ UseOK(T, docker)
      BY <1>1, <1>2, <1>6, <2>2 DEF MakeOK, UseOK, Making, Early, Partial, Given
    <2>5. ~crossed' /\ Sound => Knows(T)
      BY <1>1, <1>2, <1>3, <1>6, <2>2 DEF Knows, Making
    <2>6. T.pc \in Making => t.pc \in Making /\ T.id = t.id
      BY <1>1, <1>6, <2>2 DEF Making
    <2> QED
      BY <1>1, <1>2, <1>3, <1>6, <2>3, <2>4, <2>5, <2>6, QuietMove DEF Still
  <1>7. CASE fence' = fence /\ End(w)
    BY <1>1, <1>3, <1>7, QuietEnd DEF Holding, Making, Reserving
  <1> QED BY <1>1, <1>4, <1>5, <1>6, <1>7 DEF Admit, Admitted

(* A failed creation looks for what it may have made.                      *)
LEMMA UndoInspectKeeps == ASSUME SInv, NEW w \in Works, UndoInspect(w) PROVE SInv'
  <1> DEFINE t == task[w]
  <1>1. Busy(w) /\ t.pc = "undo"
    BY DEF UndoInspect, Busy
  <1>2. /\ t \in Tasks /\ Registers(w) \in Registry
        /\ MakeOK(t, docker) /\ UseOK(t, docker)
        /\ crossed \in BOOLEAN
        /\ ~crossed => Sound /\ Registers(w) = journal /\ Knows(t)
        /\ born \in Seq([kind : {"image", "container"}, work : Works])
    BY <1>1, Here DEF SInv, Basic, TypeOK, Sound, AloneOK, KnowsOK, Registers
  <1>3. Still /\ fence' = fence /\ crossed' = crossed
    BY DEF UndoInspect, Still, history
  <1>4. ASSUME Step(w, [t EXCEPT !.pc = "undoPresent"])
        PROVE  SInv'
    <2>1. PICK T \in Tasks : T = [t EXCEPT !.pc = "undoPresent"] /\ Step(w, T)
      BY <1>2, <1>4 DEF Tasks, Phases
    <2>2. /\ T.pc = "undoPresent" /\ T.at = t.at /\ T.stage = t.stage
          /\ T.todo = t.todo /\ T.refs = t.refs /\ T.envs = t.envs /\ T.ok = t.ok
          /\ T.made = t.made /\ T.id = t.id
      BY <1>1, <1>2, <1>4, <2>1 DEF Tasks
    <2>3. Moves(w, T)
      BY <1>1, <1>3, <1>4, <2>1, <2>2 DEF Moves, FenceStep, Holding, Making, Reserving, Still
    <2>4. MakeOK(T, docker) /\ UseOK(T, docker)
      BY <1>1, <1>2, <1>4, <2>2 DEF MakeOK, UseOK, Making, Early, Partial, Given
    <2>5. ~crossed' /\ Sound => Knows(T)
      BY <1>1, <1>2, <1>3, <1>4, <2>2 DEF Knows, Making
    <2>6. T.pc \in Making => t.pc \in Making /\ T.id = t.id
      BY <1>1, <1>4, <2>2 DEF Making
    <2> QED
      BY <1>1, <1>2, <1>3, <1>4, <2>3, <2>4, <2>5, <2>6, QuietMove DEF Still
  <1>5. ASSUME t.id \notin docker, Step(w, [t EXCEPT !.pc = "undoGone"])
        PROVE  SInv'
    <2>1. PICK T \in Tasks : T = [t EXCEPT !.pc = "undoGone"] /\ Step(w, T)
      BY <1>2, <1>5 DEF Tasks, Phases
    <2>2. /\ T.pc = "undoGone" /\ T.at = t.at /\ T.stage = t.stage
          /\ T.todo = t.todo /\ T.refs = t.refs /\ T.envs = t.envs /\ T.ok = t.ok
          /\ T.made = t.made /\ T.id = t.id
      BY <1>1, <1>2, <1>5, <2>1 DEF Tasks
    <2>3. Moves(w, T)
      BY <1>1, <1>3, <1>5, <2>1, <2>2 DEF Moves, FenceStep, Holding, Making, Reserving, Still
    <2>4. MakeOK(T, docker) /\ UseOK(T, docker)
      BY <1>1, <1>2, <1>5, <2>2 DEF MakeOK, UseOK, Making, Early, Partial, Given
    <2>5. ~crossed' /\ Sound => Knows(T)
      BY <1>1, <1>2, <1>3, <1>5, <2>2 DEF Knows, Making
    <2>6. T.pc \in Making => t.pc \in Making /\ T.id = t.id
      BY <1>1, <1>5, <2>2 DEF Making
    <2> QED
      BY <1>1, <1>2, <1>3, <1>5, <2>3, <2>4, <2>5, <2>6, QuietMove DEF Still
  <1> QED BY <1>4, <1>5 DEF UndoInspect

(* The container starts, fails its checks, or does not start.              *)
LEMMA StartKeeps == ASSUME SInv, NEW w \in Works, Start(w) PROVE SInv'
  <1> DEFINE t == task[w]
  <1>1. Busy(w) /\ t.pc = "start"
    BY DEF Start, Busy
  <1>2. /\ t \in Tasks /\ Registers(w) \in Registry
        /\ MakeOK(t, docker) /\ UseOK(t, docker)
        /\ crossed \in BOOLEAN
        /\ ~crossed => Sound /\ Registers(w) = journal /\ Knows(t)
        /\ born \in Seq([kind : {"image", "container"}, work : Works])
    BY <1>1, Here DEF SInv, Basic, TypeOK, Sound, AloneOK, KnowsOK, Registers
  <1>3. Still /\ fence' = fence /\ crossed' = crossed
    BY DEF Start, Still, history
  <1>7. t.id \in Ids
    BY <1>1, <1>2 DEF MakeOK, Tasks
  <1>4. ASSUME Step(w, [t EXCEPT !.pc = "session", !.refs = t.refs \cup {t.id},
                              !.envs = t.envs \cup {t.id}])
        PROVE  SInv'
    <2>1. PICK T \in Tasks : T = [t EXCEPT !.pc = "session", !.refs = t.refs \cup {t.id},
                             !.envs = t.envs \cup {t.id}] /\ Step(w, T)
      BY <1>2, <1>4, <1>7 DEF Tasks, Phases
    <2>2. /\ T.pc = "session" /\ T.at = t.at /\ T.stage = t.stage /\ T.todo = t.todo
          /\ T.refs = t.refs \cup {t.id} /\ T.envs = t.envs \cup {t.id}
          /\ T.ok = t.ok /\ T.made = t.made /\ T.id = t.id
      BY <1>1, <1>2, <1>4, <2>1 DEF Tasks
    <2>3. Moves(w, T)
      BY <1>1, <1>3, <1>4, <2>1, <2>2 DEF Moves, FenceStep, Holding, Making, Reserving, Still
    <2>4. MakeOK(T, docker) /\ UseOK(T, docker)
      BY <1>1, <1>2, <1>4, <2>2 DEF MakeOK, UseOK, Making, Early, Partial, Given, Containers
    <2>5. ~crossed' /\ Sound => Knows(T)
      BY <1>1, <1>2, <1>3, <1>4, <2>2 DEF Knows, Making
    <2>6. T.pc \in Making => t.pc \in Making /\ T.id = t.id
      BY <1>1, <1>4, <2>2 DEF Making
    <2> QED
      BY <1>1, <1>2, <1>3, <1>4, <2>3, <2>4, <2>5, <2>6, QuietMove DEF Still
  <1>5. ASSUME Step(w, [t EXCEPT !.pc = "cleanup"])
        PROVE  SInv'
    <2>1. PICK T \in Tasks : T = [t EXCEPT !.pc = "cleanup"] /\ Step(w, T)
      BY <1>2, <1>5 DEF Tasks, Phases
    <2>2. /\ T.pc = "cleanup" /\ T.at = t.at /\ T.stage = t.stage /\ T.todo = t.todo
          /\ T.refs = t.refs /\ T.envs = t.envs /\ T.ok = t.ok /\ T.made = t.made
          /\ T.id = t.id
      BY <1>1, <1>2, <1>5, <2>1 DEF Tasks
    <2>3. Moves(w, T)
      BY <1>1, <1>3, <1>5, <2>1, <2>2 DEF Moves, FenceStep, Holding, Making, Reserving, Still
    <2>4. MakeOK(T, docker) /\ UseOK(T, docker)
      BY <1>1, <1>2, <1>5, <2>2 DEF MakeOK, UseOK, Making, Early, Partial, Given
    <2>5. ~crossed' /\ Sound => Knows(T)
      BY <1>1, <1>2, <1>3, <1>5, <2>2 DEF Knows, Making
    <2>6. T.pc \in Making => t.pc \in Making /\ T.id = t.id
      BY <1>1, <1>5, <2>2 DEF Making
    <2> QED
      BY <1>1, <1>2, <1>3, <1>5, <2>3, <2>4, <2>5, <2>6, QuietMove DEF Still
  <1>6. ASSUME Step(w, [t EXCEPT !.pc = "unstart"])
        PROVE  SInv'
    <2>1. PICK T \in Tasks : T = [t EXCEPT !.pc = "unstart"] /\ Step(w, T)
      BY <1>2, <1>6 DEF Tasks, Phases
    <2>2. /\ T.pc = "unstart" /\ T.at = t.at /\ T.stage = t.stage /\ T.todo = t.todo
          /\ T.refs = t.refs /\ T.envs = t.envs /\ T.ok = t.ok /\ T.made = t.made
          /\ T.id = t.id
      BY <1>1, <1>2, <1>6, <2>1 DEF Tasks
    <2>3. Moves(w, T)
      BY <1>1, <1>3, <1>6, <2>1, <2>2 DEF Moves, FenceStep, Holding, Making, Reserving, Still
    <2>4. MakeOK(T, docker) /\ UseOK(T, docker)
      BY <1>1, <1>2, <1>6, <2>2 DEF MakeOK, UseOK, Making, Early, Partial, Given
    <2>5. ~crossed' /\ Sound => Knows(T)
      BY <1>1, <1>2, <1>3, <1>6, <2>2 DEF Knows, Making
    <2>6. T.pc \in Making => t.pc \in Making /\ T.id = t.id
      BY <1>1, <1>6, <2>2 DEF Making
    <2> QED
      BY <1>1, <1>2, <1>3, <1>6, <2>3, <2>4, <2>5, <2>6, QuietMove DEF Still
  <1> QED BY <1>4, <1>5, <1>6 DEF Start

(* The session asks for a clean container, finishes or fails.              *)
LEMMA SessionKeeps == ASSUME SInv, NEW w \in Works, Session(w) PROVE SInv'
  <1> DEFINE t == task[w]
  <1>1. Busy(w) /\ t.pc = "session"
    BY DEF Session, Busy
  <1>2. /\ t \in Tasks /\ Registers(w) \in Registry
        /\ MakeOK(t, docker) /\ UseOK(t, docker)
        /\ crossed \in BOOLEAN
        /\ ~crossed => Sound /\ Registers(w) = journal /\ Knows(t)
        /\ born \in Seq([kind : {"image", "container"}, work : Works])
    BY <1>1, Here DEF SInv, Basic, TypeOK, Sound, AloneOK, KnowsOK, Registers
  <1>3. Still /\ fence' = fence /\ crossed' = crossed
    BY DEF Session, Still, history
  <1>4. ASSUME Step(w, [t EXCEPT !.pc = "container"])
        PROVE  SInv'
    <2>1. PICK T \in Tasks : T = [t EXCEPT !.pc = "container"] /\ Step(w, T)
      BY <1>2, <1>4 DEF Tasks, Phases
    <2>2. /\ T.pc = "container" /\ T.at = t.at /\ T.stage = t.stage
          /\ T.todo = t.todo /\ T.refs = t.refs /\ T.envs = t.envs /\ T.ok = t.ok
          /\ T.made = t.made /\ T.id = t.id
      BY <1>1, <1>2, <1>4, <2>1 DEF Tasks
    <2>3. Moves(w, T)
      BY <1>1, <1>3, <1>4, <2>1, <2>2 DEF Moves, FenceStep, Holding, Making, Reserving, Still
    <2>4. MakeOK(T, docker) /\ UseOK(T, docker)
      BY <1>1, <1>2, <1>4, <2>2 DEF MakeOK, UseOK, Making, Early, Partial, Given
    <2>5. ~crossed' /\ Sound => Knows(T)
      BY <1>1, <1>2, <1>3, <1>4, <2>2 DEF Knows, Making
    <2>6. T.pc \in Making => t.pc \in Making /\ T.id = t.id
      BY <1>1, <1>4, <2>2 DEF Making
    <2> QED
      BY <1>1, <1>2, <1>3, <1>4, <2>3, <2>4, <2>5, <2>6, QuietMove DEF Still
  <1>5. ASSUME Step(w, [t EXCEPT !.pc = "cleanup", !.ok = TRUE])
        PROVE  SInv'
    <2>1. PICK T \in Tasks : T = [t EXCEPT !.pc = "cleanup", !.ok = TRUE] /\ Step(w, T)
      BY <1>2, <1>5 DEF Tasks, Phases
    <2>2. /\ T.pc = "cleanup" /\ T.at = t.at /\ T.stage = t.stage /\ T.todo = t.todo
          /\ T.refs = t.refs /\ T.envs = t.envs /\ T.ok = TRUE /\ T.made = t.made
          /\ T.id = t.id
      BY <1>1, <1>2, <1>5, <2>1 DEF Tasks
    <2>3. Moves(w, T)
      BY <1>1, <1>3, <1>5, <2>1, <2>2 DEF Moves, FenceStep, Holding, Making, Reserving, Still
    <2>4. MakeOK(T, docker) /\ UseOK(T, docker)
      BY <1>1, <1>2, <1>5, <2>2 DEF MakeOK, UseOK, Making, Early, Partial, Given
    <2>5. ~crossed' /\ Sound => Knows(T)
      BY <1>1, <1>2, <1>3, <1>5, <2>2 DEF Knows, Making
    <2>6. T.pc \in Making => t.pc \in Making /\ T.id = t.id
      BY <1>1, <1>5, <2>2 DEF Making
    <2> QED
      BY <1>1, <1>2, <1>3, <1>5, <2>3, <2>4, <2>5, <2>6, QuietMove DEF Still
  <1>6. ASSUME Step(w, [t EXCEPT !.pc = "cleanup"])
        PROVE  SInv'
    <2>1. PICK T \in Tasks : T = [t EXCEPT !.pc = "cleanup"] /\ Step(w, T)
      BY <1>2, <1>6 DEF Tasks, Phases
    <2>2. /\ T.pc = "cleanup" /\ T.at = t.at /\ T.stage = t.stage /\ T.todo = t.todo
          /\ T.refs = t.refs /\ T.envs = t.envs /\ T.ok = t.ok /\ T.made = t.made
          /\ T.id = t.id
      BY <1>1, <1>2, <1>6, <2>1 DEF Tasks
    <2>3. Moves(w, T)
      BY <1>1, <1>3, <1>6, <2>1, <2>2 DEF Moves, FenceStep, Holding, Making, Reserving, Still
    <2>4. MakeOK(T, docker) /\ UseOK(T, docker)
      BY <1>1, <1>2, <1>6, <2>2 DEF MakeOK, UseOK, Making, Early, Partial, Given
    <2>5. ~crossed' /\ Sound => Knows(T)
      BY <1>1, <1>2, <1>3, <1>6, <2>2 DEF Knows, Making
    <2>6. T.pc \in Making => t.pc \in Making /\ T.id = t.id
      BY <1>1, <1>6, <2>2 DEF Making
    <2> QED
      BY <1>1, <1>2, <1>3, <1>6, <2>3, <2>4, <2>5, <2>6, QuietMove DEF Still
  <1> QED BY <1>4, <1>5, <1>6 DEF Session
-----------------------------------------------------------------------------
(* The steps that change the registry, Docker or the recipes.              *)

(* What such a step must show of its work's new task.                      *)
LEMMA LoudMove ==
  ASSUME SInv, NEW w \in Works, Busy(w), NEW T, Moves(w, T), crossed' = crossed,
         \/ mem' = mem /\ journal' = journal
         \/ \E r \in Registry : Persist(task[w].at, r),
         docker' \subseteq docker \cup Mine(w),
         cache' \in [Procs -> Ids \cup {None}], ImagesOK',
         MakeOK(T, docker)', UseOK(T, docker)',
         ~crossed => Tends(w, T) /\ RegistryOK' /\ Knows(T)'
  PROVE  SInv'
  <1>1. Basic
    BY DEF SInv
  <1>2. task[w].at \in Procs /\ mem \in [Procs -> Registry] /\ journal \in Registry
    BY <1>1, Here DEF Basic, TypeOK
  <1>3. mem' \in [Procs -> Registry] /\ journal' \in Registry
    BY <1>2 DEF Persist
  <1>4. crossed' \in BOOLEAN
    BY <1>1 DEF Basic, TypeOK
  <1>5. Basic'
    BY <1>1, <1>3, <1>4, MoveBasic
  <1>6. ~crossed => Sound'
    BY <1>1, MoveSound DEF SInv
  <1> QED BY <1>5, <1>6 DEF SInv

(* What a process writes when a resource leaves the registry or moves from *)
(* intent to resource is a registry.                                       *)
LEMMA Written ==
  ASSUME NEW r \in Registry, NEW n \in Ids, NEW S \in SUBSET Ids
  PROVE  /\ Without(r, n) \in Registry /\ Registered(r, n) \in Registry
         /\ [r EXCEPT !.flagged = @ \cup S] \in Registry
         /\ [Registered(r, n) EXCEPT !.flagged = @ \cup {n}] \in Registry
         /\ [r EXCEPT !.res = @ \ S, !.flagged = @ \ S] \in Registry
         /\ [r EXCEPT !.intents = @ \cup {n}] \in Registry
  BY DEF Registry, Without, Registered

(* What a step of a work that names no resource leaves alone.              *)
Frame == /\ born' = born /\ up' = up /\ latch' = latch /\ closed' = closed
         /\ attempts' = attempts /\ crashes' = crashes /\ named' = named
         /\ crossed' = crossed

(* What a task mentions are ids.                                           *)
LEMMA Mentions == ASSUME NEW t \in Tasks
                  PROVE  /\ t.made \subseteq Ids /\ t.refs \subseteq Ids
                         /\ t.id # None => t.id \in Ids
  BY DEF Tasks

(* The recipe of the image is published, or a step raises.                 *)
LEMMA PublishRecipeKeeps == ASSUME SInv, NEW w \in Works, PublishRecipe(w) PROVE SInv'
  <1> DEFINE t == task[w]
  <1> DEFINE r == Registers(w)
  <1>1. Busy(w) /\ t.pc = "publish"
    BY DEF PublishRecipe, Busy
  <1>2. /\ t \in Tasks /\ r \in Registry /\ t.at \in Procs
        /\ MakeOK(t, docker) /\ UseOK(t, docker)
    BY <1>1, Here DEF SInv
  <1>3. Frame
    BY DEF PublishRecipe, Frame, history
  <1>4. ~crossed => Sound /\ RegistryOK /\ r = journal /\ Knows(t)
    BY <1>1, Here DEF SInv, Sound, AloneOK, KnowsOK, Registers
  <1>5. \A n : Container(n)' = Container(n) /\ Image(n)' = Image(n)
    BY <1>3 DEF Container, Image, Kind, Frame
  <1>6. t.pc \in Making => Mine(w) = {t.id} /\ BeingMade(t.id)
    BY DEF Mine, BeingMade
  <1>7. ImagesOK /\ TypeOK
    BY DEF SInv, Basic
  <1>8. ~crossed => \A n \in recipes : n \in journal.res /\ Image(n)
    BY <1>4, <1>7 DEF RegistryOK, ImagesOK
  <1>9. ASSUME recipes' = recipes \cup ({t.id} \cap t.made),
               Step(w, [t EXCEPT !.pc = "container"]),
               docker' = docker, mem' = mem, journal' = journal, cache' = cache,
               fence' = fence
        PROVE  SInv'
    <2>1. PICK T \in Tasks : T = [t EXCEPT !.pc = "container"] /\ Step(w, T)
      BY <1>2, <1>9 DEF Tasks, Phases
    <2>2. /\ T.pc = "container" /\ T.at = t.at /\ T.stage = t.stage
          /\ T.todo = t.todo /\ T.refs = t.refs /\ T.envs = t.envs /\ T.ok = t.ok
          /\ T.made = t.made /\ T.id = t.id
      BY <1>1, <1>2, <1>9, <2>1 DEF Tasks
    <2>3. Moves(w, T)
      BY <1>1, <1>3, <1>9, <2>1, <2>2 DEF Moves, FenceStep, Holding, Making, Reserving, Frame, Release
    <2>5. mem' = mem /\ journal' = journal
      BY <1>9
    <2>6. MakeOK(T, docker)' /\ UseOK(T, docker)'
      BY <1>1, <1>2, <1>3, <1>5, <1>9, <2>2 DEF MakeOK, UseOK, Making, Early, Partial, Given, Containers, Frame
    <2>7. ImagesOK' /\ cache' \in [Procs -> Ids \cup {None}]
      BY <1>1, <1>2, <1>5, <1>7, <1>9 DEF ImagesOK, TypeOK, MakeOK, Tasks
    <2>8. docker' \subseteq docker \cup Mine(w)
      BY <1>1, <1>6, <1>9 DEF Making
    <2>9. ASSUME ~crossed PROVE Tends(w, T) /\ RegistryOK'
      <3>1. Sound /\ RegistryOK /\ r = journal /\ Knows(t)
        BY <1>4, <2>9
      <3>2. Tends(w, T)
        BY <1>1, <1>2, <1>6, <1>9, <2>2, <2>5, <2>8, <3>1
           DEF Tends, RegistryOK, Knows, MakeOK, UseOK, Making, Image, Containers, Container
      <3>3. RegistryOK'
        BY <1>1, <1>2, <1>3, <1>5, <1>8, <1>9, <2>2, <2>5, <2>9, <3>1
           DEF RegistryOK, Knows, MakeOK, UseOK, Making, Image, Containers, Container, Frame
      <3> QED BY <3>2, <3>3
    <2>10. ASSUME ~crossed PROVE Knows(T)'
      <3>1. Sound /\ RegistryOK /\ r = journal /\ Knows(t) /\ Basic
        BY <1>4, <2>10 DEF SInv
      <3>2. \A n : BeingMade(n)' => BeingMade(n)
        BY <2>3, <2>9, <2>10, <3>1, NothingNew
      <3>3. Knows(T)'
        BY <1>1, <1>2, <1>3, <1>5, <1>8, <1>9, <2>2, <2>5, <3>1, <3>2
           DEF Knows, Making, Frame, MakeOK, UseOK, RegistryOK, Containers
      <3> QED BY <3>3
    <2> QED
      BY <1>1, <1>3, <2>3, <2>5, <2>6, <2>7, <2>8, <2>9, <2>10, LoudMove DEF Frame
  <1>10. ASSUME recipes' = recipes \cup ({t.id} \cap t.made),
               Step(w, [t EXCEPT !.pc = "cleanup"]),
               docker' = docker, mem' = mem, journal' = journal, cache' = cache,
               fence' = fence
        PROVE  SInv'
    <2>1. PICK T \in Tasks : T = [t EXCEPT !.pc = "cleanup"] /\ Step(w, T)
      BY <1>2, <1>10 DEF Tasks, Phases
    <2>2. /\ T.pc = "cleanup" /\ T.at = t.at /\ T.stage = t.stage /\ T.todo = t.todo
          /\ T.refs = t.refs /\ T.envs = t.envs /\ T.ok = t.ok /\ T.made = t.made
          /\ T.id = t.id
      BY <1>1, <1>2, <1>10, <2>1 DEF Tasks
    <2>3. Moves(w, T)
      BY <1>1, <1>3, <1>10, <2>1, <2>2 DEF Moves, FenceStep, Holding, Making, Reserving, Frame, Release
    <2>5. mem' = mem /\ journal' = journal
      BY <1>10
    <2>6. MakeOK(T, docker)' /\ UseOK(T, docker)'
      BY <1>1, <1>2, <1>3, <1>5, <1>10, <2>2 DEF MakeOK, UseOK, Making, Early, Partial, Given, Containers, Frame
    <2>7. ImagesOK' /\ cache' \in [Procs -> Ids \cup {None}]
      BY <1>1, <1>2, <1>5, <1>7, <1>10 DEF ImagesOK, TypeOK, MakeOK, Tasks
    <2>8. docker' \subseteq docker \cup Mine(w)
      BY <1>1, <1>6, <1>10 DEF Making
    <2>9. ASSUME ~crossed PROVE Tends(w, T) /\ RegistryOK'
      <3>1. Sound /\ RegistryOK /\ r = journal /\ Knows(t)
        BY <1>4, <2>9
      <3>2. Tends(w, T)
        BY <1>1, <1>2, <1>6, <1>10, <2>2, <2>5, <2>8, <3>1
           DEF Tends, RegistryOK, Knows, MakeOK, UseOK, Making, Image, Containers, Container
      <3>3. RegistryOK'
        BY <1>1, <1>2, <1>3, <1>5, <1>8, <1>10, <2>2, <2>5, <2>9, <3>1
           DEF RegistryOK, Knows, MakeOK, UseOK, Making, Image, Containers, Container, Frame
      <3> QED BY <3>2, <3>3
    <2>10. ASSUME ~crossed PROVE Knows(T)'
      <3>1. Sound /\ RegistryOK /\ r = journal /\ Knows(t) /\ Basic
        BY <1>4, <2>10 DEF SInv
      <3>2. \A n : BeingMade(n)' => BeingMade(n)
        BY <2>3, <2>9, <2>10, <3>1, NothingNew
      <3>3. Knows(T)'
        BY <1>1, <1>2, <1>3, <1>5, <1>8, <1>10, <2>2, <2>5, <3>1, <3>2
           DEF Knows, Making, Frame, MakeOK, UseOK, RegistryOK, Containers
      <3> QED BY <3>3
    <2> QED
      BY <1>1, <1>3, <2>3, <2>5, <2>6, <2>7, <2>8, <2>9, <2>10, LoudMove DEF Frame
  <1>11. ASSUME recipes' = recipes, Step(w, [t EXCEPT !.pc = "cleanup"]),
               docker' = docker, mem' = mem, journal' = journal, cache' = cache,
               fence' = fence
        PROVE  SInv'
    <2>1. PICK T \in Tasks : T = [t EXCEPT !.pc = "cleanup"] /\ Step(w, T)
      BY <1>2, <1>11 DEF Tasks, Phases
    <2>2. /\ T.pc = "cleanup" /\ T.at = t.at /\ T.stage = t.stage /\ T.todo = t.todo
          /\ T.refs = t.refs /\ T.envs = t.envs /\ T.ok = t.ok /\ T.made = t.made
          /\ T.id = t.id
      BY <1>1, <1>2, <1>11, <2>1 DEF Tasks
    <2>3. Moves(w, T)
      BY <1>1, <1>3, <1>11, <2>1, <2>2 DEF Moves, FenceStep, Holding, Making, Reserving, Frame, Release
    <2>5. mem' = mem /\ journal' = journal
      BY <1>11
    <2>6. MakeOK(T, docker)' /\ UseOK(T, docker)'
      BY <1>1, <1>2, <1>3, <1>5, <1>11, <2>2 DEF MakeOK, UseOK, Making, Early, Partial, Given, Containers, Frame
    <2>7. ImagesOK' /\ cache' \in [Procs -> Ids \cup {None}]
      BY <1>1, <1>2, <1>5, <1>7, <1>11 DEF ImagesOK, TypeOK, MakeOK, Tasks
    <2>8. docker' \subseteq docker \cup Mine(w)
      BY <1>1, <1>6, <1>11 DEF Making
    <2>9. ASSUME ~crossed PROVE Tends(w, T) /\ RegistryOK'
      <3>1. Sound /\ RegistryOK /\ r = journal /\ Knows(t)
        BY <1>4, <2>9
      <3>2. Tends(w, T)
        BY <1>1, <1>2, <1>6, <1>11, <2>2, <2>5, <2>8, <3>1
           DEF Tends, RegistryOK, Knows, MakeOK, UseOK, Making, Image, Containers, Container
      <3>3. RegistryOK'
        BY <1>1, <1>2, <1>3, <1>5, <1>8, <1>11, <2>2, <2>5, <2>9, <3>1
           DEF RegistryOK, Knows, MakeOK, UseOK, Making, Image, Containers, Container, Frame
      <3> QED BY <3>2, <3>3
    <2>10. ASSUME ~crossed PROVE Knows(T)'
      <3>1. Sound /\ RegistryOK /\ r = journal /\ Knows(t) /\ Basic
        BY <1>4, <2>10 DEF SInv
      <3>2. \A n : BeingMade(n)' => BeingMade(n)
        BY <2>3, <2>9, <2>10, <3>1, NothingNew
      <3>3. Knows(T)'
        BY <1>1, <1>2, <1>3, <1>5, <1>8, <1>11, <2>2, <2>5, <3>1, <3>2
           DEF Knows, Making, Frame, MakeOK, UseOK, RegistryOK, Containers
      <3> QED BY <3>3
    <2> QED
      BY <1>1, <1>3, <2>3, <2>5, <2>6, <2>7, <2>8, <2>9, <2>10, LoudMove DEF Frame
  <1> QED BY <1>9, <1>10, <1>11 DEF PublishRecipe

(* A reconciliation removes what its entry names, or fails to.             *)
LEMMA RemoveKeeps == ASSUME SInv, NEW w \in Works, Remove(w) PROVE SInv'
  <1> DEFINE t == task[w]
  <1> DEFINE r == Registers(w)
  <1>1. Busy(w) /\ t.pc = "present"
    BY DEF Remove, Busy
  <1>2. /\ t \in Tasks /\ r \in Registry /\ t.at \in Procs
        /\ MakeOK(t, docker) /\ UseOK(t, docker)
    BY <1>1, Here DEF SInv
  <1>3. Frame
    BY DEF Remove, Frame, history
  <1>4. ~crossed => Sound /\ RegistryOK /\ r = journal /\ Knows(t)
    BY <1>1, Here DEF SInv, Sound, AloneOK, KnowsOK, Registers
  <1>5. \A n : Container(n)' = Container(n) /\ Image(n)' = Image(n)
    BY <1>3 DEF Container, Image, Kind, Frame
  <1>6. t.pc \in Making => Mine(w) = {t.id} /\ BeingMade(t.id)
    BY DEF Mine, BeingMade
  <1>7. ImagesOK /\ TypeOK
    BY DEF SInv, Basic
  <1>8. ~crossed => \A n \in recipes : n \in journal.res /\ Image(n)
    BY <1>4, <1>7 DEF RegistryOK, ImagesOK
  <1>9. ASSUME docker' = docker \ {t.id}, Step(w, [t EXCEPT !.pc = "gone"]),
               mem' = mem, journal' = journal, cache' = cache, recipes' = recipes,
               fence' = fence
        PROVE  SInv'
    <2>1. PICK T \in Tasks : T = [t EXCEPT !.pc = "gone"] /\ Step(w, T)
      BY <1>2, <1>9 DEF Tasks, Phases
    <2>2. /\ T.pc = "gone" /\ T.at = t.at /\ T.stage = t.stage /\ T.todo = t.todo
          /\ T.refs = t.refs /\ T.envs = t.envs /\ T.ok = t.ok /\ T.made = t.made
          /\ T.id = t.id
      BY <1>1, <1>2, <1>9, <2>1 DEF Tasks
    <2>3. Moves(w, T)
      BY <1>1, <1>3, <1>9, <2>1, <2>2 DEF Moves, FenceStep, Holding, Making, Reserving, Frame, Release
    <2>5. mem' = mem /\ journal' = journal
      BY <1>9
    <2>6. MakeOK(T, docker)' /\ UseOK(T, docker)'
      BY <1>1, <1>2, <1>3, <1>5, <1>9, <2>2 DEF MakeOK, UseOK, Making, Early, Partial, Given, Containers, Frame
    <2>7. ImagesOK' /\ cache' \in [Procs -> Ids \cup {None}]
      BY <1>1, <1>2, <1>5, <1>7, <1>9 DEF ImagesOK, TypeOK, MakeOK, Tasks
    <2>8. docker' \subseteq docker \cup Mine(w)
      BY <1>1, <1>6, <1>9 DEF Making
    <2>9. ASSUME ~crossed PROVE Tends(w, T) /\ RegistryOK'
      <3>1. Sound /\ RegistryOK /\ r = journal /\ Knows(t)
        BY <1>4, <2>9
      <3>2. Tends(w, T)
        BY <1>1, <1>2, <1>6, <1>9, <2>2, <2>5, <2>8, <3>1
           DEF Tends, RegistryOK, Knows, MakeOK, UseOK, Making, Image, Containers, Container
      <3>3. RegistryOK'
        BY <1>1, <1>2, <1>3, <1>5, <1>8, <1>9, <2>2, <2>5, <2>9, <3>1
           DEF RegistryOK, Knows, MakeOK, UseOK, Making, Image, Containers, Container, Frame
      <3> QED BY <3>2, <3>3
    <2>10. ASSUME ~crossed PROVE Knows(T)'
      <3>1. Sound /\ RegistryOK /\ r = journal /\ Knows(t) /\ Basic
        BY <1>4, <2>10 DEF SInv
      <3>2. \A n : BeingMade(n)' => BeingMade(n)
        BY <2>3, <2>9, <2>10, <3>1, NothingNew
      <3>3. Knows(T)'
        BY <1>1, <1>2, <1>3, <1>5, <1>8, <1>9, <2>2, <2>5, <3>1, <3>2
           DEF Knows, Making, Frame, MakeOK, UseOK, RegistryOK, Containers
      <3> QED BY <3>3
    <2> QED
      BY <1>1, <1>3, <2>3, <2>5, <2>6, <2>7, <2>8, <2>9, <2>10, LoudMove DEF Frame
  <1>10. ASSUME docker' = docker, Step(w, [t EXCEPT !.pc = "scan", !.failed = TRUE]),
               mem' = mem, journal' = journal, cache' = cache, recipes' = recipes,
               fence' = fence
        PROVE  SInv'
    <2>1. PICK T \in Tasks : T = [t EXCEPT !.pc = "scan", !.failed = TRUE] /\ Step(w, T)
      BY <1>2, <1>10 DEF Tasks, Phases
    <2>2. /\ T.pc = "scan" /\ T.at = t.at /\ T.stage = t.stage /\ T.todo = t.todo
          /\ T.refs = t.refs /\ T.envs = t.envs /\ T.ok = t.ok /\ T.made = t.made
          /\ T.id = t.id
      BY <1>1, <1>2, <1>10, <2>1 DEF Tasks
    <2>3. Moves(w, T)
      BY <1>1, <1>3, <1>10, <2>1, <2>2 DEF Moves, FenceStep, Holding, Making, Reserving, Frame, Release
    <2>5. mem' = mem /\ journal' = journal
      BY <1>10
    <2>6. MakeOK(T, docker)' /\ UseOK(T, docker)'
      BY <1>1, <1>2, <1>3, <1>5, <1>10, <2>2 DEF MakeOK, UseOK, Making, Early, Partial, Given, Containers, Frame
    <2>7. ImagesOK' /\ cache' \in [Procs -> Ids \cup {None}]
      BY <1>1, <1>2, <1>5, <1>7, <1>10 DEF ImagesOK, TypeOK, MakeOK, Tasks
    <2>8. docker' \subseteq docker \cup Mine(w)
      BY <1>1, <1>6, <1>10 DEF Making
    <2>9. ASSUME ~crossed PROVE Tends(w, T) /\ RegistryOK'
      <3>1. Sound /\ RegistryOK /\ r = journal /\ Knows(t)
        BY <1>4, <2>9
      <3>2. Tends(w, T)
        BY <1>1, <1>2, <1>6, <1>10, <2>2, <2>5, <2>8, <3>1
           DEF Tends, RegistryOK, Knows, MakeOK, UseOK, Making, Image, Containers, Container
      <3>3. RegistryOK'
        BY <1>1, <1>2, <1>3, <1>5, <1>8, <1>10, <2>2, <2>5, <2>9, <3>1
           DEF RegistryOK, Knows, MakeOK, UseOK, Making, Image, Containers, Container, Frame
      <3> QED BY <3>2, <3>3
    <2>10. ASSUME ~crossed PROVE Knows(T)'
      <3>1. Sound /\ RegistryOK /\ r = journal /\ Knows(t) /\ Basic
        BY <1>4, <2>10 DEF SInv
      <3>2. \A n : BeingMade(n)' => BeingMade(n)
        BY <2>3, <2>9, <2>10, <3>1, NothingNew
      <3>3. Knows(T)'
        BY <1>1, <1>2, <1>3, <1>5, <1>8, <1>10, <2>2, <2>5, <3>1, <3>2
           DEF Knows, Making, Frame, MakeOK, UseOK, RegistryOK, Containers
      <3> QED BY <3>3
    <2> QED
      BY <1>1, <1>3, <2>3, <2>5, <2>6, <2>7, <2>8, <2>9, <2>10, LoudMove DEF Frame
  <1> QED BY <1>9, <1>10 DEF Remove

(* The container is made, or the call fails, perhaps after making it.      *)
LEMMA CreateContainerKeeps == ASSUME SInv, NEW w \in Works, CreateContainer(w) PROVE SInv'
  <1> DEFINE t == task[w]
  <1> DEFINE r == Registers(w)
  <1>1. Busy(w) /\ t.pc = "create"
    BY DEF CreateContainer, Busy
  <1>2. /\ t \in Tasks /\ r \in Registry /\ t.at \in Procs
        /\ MakeOK(t, docker) /\ UseOK(t, docker)
    BY <1>1, Here DEF SInv
  <1>3. Frame
    BY DEF CreateContainer, Frame, history
  <1>4. ~crossed => Sound /\ RegistryOK /\ r = journal /\ Knows(t)
    BY <1>1, Here DEF SInv, Sound, AloneOK, KnowsOK, Registers
  <1>5. \A n : Container(n)' = Container(n) /\ Image(n)' = Image(n)
    BY <1>3 DEF Container, Image, Kind, Frame
  <1>6. t.pc \in Making => Mine(w) = {t.id} /\ BeingMade(t.id)
    BY DEF Mine, BeingMade
  <1>7. ImagesOK /\ TypeOK
    BY DEF SInv, Basic
  <1>8. ~crossed => \A n \in recipes : n \in journal.res /\ Image(n)
    BY <1>4, <1>7 DEF RegistryOK, ImagesOK
  <1>9. ASSUME docker' \in {docker, docker \cup {t.id}}, t.id \in docker', Step(w, [t EXCEPT !.pc = "register"]),
               mem' = mem, journal' = journal, cache' = cache, recipes' = recipes,
               fence' = fence
        PROVE  SInv'
    <2>1. PICK T \in Tasks : T = [t EXCEPT !.pc = "register"] /\ Step(w, T)
      BY <1>2, <1>9 DEF Tasks, Phases
    <2>2. /\ T.pc = "register" /\ T.at = t.at /\ T.stage = t.stage
          /\ T.todo = t.todo /\ T.refs = t.refs /\ T.envs = t.envs /\ T.ok = t.ok
          /\ T.made = t.made /\ T.id = t.id
      BY <1>1, <1>2, <1>9, <2>1 DEF Tasks
    <2>3. Moves(w, T)
      BY <1>1, <1>3, <1>9, <2>1, <2>2 DEF Moves, FenceStep, Holding, Making, Reserving, Frame, Release
    <2>5. mem' = mem /\ journal' = journal
      BY <1>9
    <2>6. MakeOK(T, docker)' /\ UseOK(T, docker)'
      BY <1>1, <1>2, <1>3, <1>5, <1>9, <2>2 DEF MakeOK, UseOK, Making, Early, Partial, Given, Containers, Frame
    <2>7. ImagesOK' /\ cache' \in [Procs -> Ids \cup {None}]
      BY <1>1, <1>2, <1>5, <1>7, <1>9 DEF ImagesOK, TypeOK, MakeOK, Tasks
    <2>8. docker' \subseteq docker \cup Mine(w)
      BY <1>1, <1>6, <1>9 DEF Making
    <2>9. ASSUME ~crossed PROVE Tends(w, T) /\ RegistryOK'
      <3>1. Sound /\ RegistryOK /\ r = journal /\ Knows(t)
        BY <1>4, <2>9
      <3>2. Tends(w, T)
        BY <1>1, <1>2, <1>6, <1>9, <2>2, <2>5, <2>8, <3>1
           DEF Tends, RegistryOK, Knows, MakeOK, UseOK, Making, Image, Containers, Container
      <3>3. RegistryOK'
        BY <1>1, <1>2, <1>3, <1>5, <1>8, <1>9, <2>2, <2>5, <2>9, <3>1
           DEF RegistryOK, Knows, MakeOK, UseOK, Making, Image, Containers, Container, Frame
      <3> QED BY <3>2, <3>3
    <2>10. ASSUME ~crossed PROVE Knows(T)'
      <3>1. Sound /\ RegistryOK /\ r = journal /\ Knows(t) /\ Basic
        BY <1>4, <2>10 DEF SInv
      <3>2. \A n : BeingMade(n)' => BeingMade(n)
        BY <2>3, <2>9, <2>10, <3>1, NothingNew
      <3>3. Knows(T)'
        BY <1>1, <1>2, <1>3, <1>5, <1>8, <1>9, <2>2, <2>5, <3>1, <3>2
           DEF Knows, Making, Frame, MakeOK, UseOK, RegistryOK, Containers
      <3> QED BY <3>3
    <2> QED
      BY <1>1, <1>3, <2>3, <2>5, <2>6, <2>7, <2>8, <2>9, <2>10, LoudMove DEF Frame
  <1>10. ASSUME docker' \in {docker, docker \cup {t.id}}, Step(w, [t EXCEPT !.pc = "undo"]),
               mem' = mem, journal' = journal, cache' = cache, recipes' = recipes,
               fence' = fence
        PROVE  SInv'
    <2>1. PICK T \in Tasks : T = [t EXCEPT !.pc = "undo"] /\ Step(w, T)
      BY <1>2, <1>10 DEF Tasks, Phases
    <2>2. /\ T.pc = "undo" /\ T.at = t.at /\ T.stage = t.stage /\ T.todo = t.todo
          /\ T.refs = t.refs /\ T.envs = t.envs /\ T.ok = t.ok /\ T.made = t.made
          /\ T.id = t.id
      BY <1>1, <1>2, <1>10, <2>1 DEF Tasks
    <2>3. Moves(w, T)
      BY <1>1, <1>3, <1>10, <2>1, <2>2 DEF Moves, FenceStep, Holding, Making, Reserving, Frame, Release
    <2>5. mem' = mem /\ journal' = journal
      BY <1>10
    <2>6. MakeOK(T, docker)' /\ UseOK(T, docker)'
      BY <1>1, <1>2, <1>3, <1>5, <1>10, <2>2 DEF MakeOK, UseOK, Making, Early, Partial, Given, Containers, Frame
    <2>7. ImagesOK' /\ cache' \in [Procs -> Ids \cup {None}]
      BY <1>1, <1>2, <1>5, <1>7, <1>10 DEF ImagesOK, TypeOK, MakeOK, Tasks
    <2>8. docker' \subseteq docker \cup Mine(w)
      BY <1>1, <1>6, <1>10 DEF Making
    <2>9. ASSUME ~crossed PROVE Tends(w, T) /\ RegistryOK'
      <3>1. Sound /\ RegistryOK /\ r = journal /\ Knows(t)
        BY <1>4, <2>9
      <3>2. Tends(w, T)
        BY <1>1, <1>2, <1>6, <1>10, <2>2, <2>5, <2>8, <3>1
           DEF Tends, RegistryOK, Knows, MakeOK, UseOK, Making, Image, Containers, Container
      <3>3. RegistryOK'
        BY <1>1, <1>2, <1>3, <1>5, <1>8, <1>10, <2>2, <2>5, <2>9, <3>1
           DEF RegistryOK, Knows, MakeOK, UseOK, Making, Image, Containers, Container, Frame
      <3> QED BY <3>2, <3>3
    <2>10. ASSUME ~crossed PROVE Knows(T)'
      <3>1. Sound /\ RegistryOK /\ r = journal /\ Knows(t) /\ Basic
        BY <1>4, <2>10 DEF SInv
      <3>2. \A n : BeingMade(n)' => BeingMade(n)
        BY <2>3, <2>9, <2>10, <3>1, NothingNew
      <3>3. Knows(T)'
        BY <1>1, <1>2, <1>3, <1>5, <1>8, <1>10, <2>2, <2>5, <3>1, <3>2
           DEF Knows, Making, Frame, MakeOK, UseOK, RegistryOK, Containers
      <3> QED BY <3>3
    <2> QED
      BY <1>1, <1>3, <2>3, <2>5, <2>6, <2>7, <2>8, <2>9, <2>10, LoudMove DEF Frame
  <1> QED BY <1>9, <1>10 DEF CreateContainer

(* A failed creation removes what it has made.                             *)
LEMMA UndoRemoveKeeps == ASSUME SInv, NEW w \in Works, UndoRemove(w) PROVE SInv'
  <1> DEFINE t == task[w]
  <1> DEFINE r == Registers(w)
  <1>1. Busy(w) /\ t.pc = "undoPresent"
    BY DEF UndoRemove, Busy
  <1>2. /\ t \in Tasks /\ r \in Registry /\ t.at \in Procs
        /\ MakeOK(t, docker) /\ UseOK(t, docker)
    BY <1>1, Here DEF SInv
  <1>3. Frame
    BY DEF UndoRemove, Frame, history
  <1>4. ~crossed => Sound /\ RegistryOK /\ r = journal /\ Knows(t)
    BY <1>1, Here DEF SInv, Sound, AloneOK, KnowsOK, Registers
  <1>5. \A n : Container(n)' = Container(n) /\ Image(n)' = Image(n)
    BY <1>3 DEF Container, Image, Kind, Frame
  <1>6. t.pc \in Making => Mine(w) = {t.id} /\ BeingMade(t.id)
    BY DEF Mine, BeingMade
  <1>7. ImagesOK /\ TypeOK
    BY DEF SInv, Basic
  <1>8. ~crossed => \A n \in recipes : n \in journal.res /\ Image(n)
    BY <1>4, <1>7 DEF RegistryOK, ImagesOK
  <1>9. ASSUME docker' = docker \ {t.id}, Step(w, [t EXCEPT !.pc = "undoGone"]),
               mem' = mem, journal' = journal, cache' = cache, recipes' = recipes,
               fence' = fence
        PROVE  SInv'
    <2>1. PICK T \in Tasks : T = [t EXCEPT !.pc = "undoGone"] /\ Step(w, T)
      BY <1>2, <1>9 DEF Tasks, Phases
    <2>2. /\ T.pc = "undoGone" /\ T.at = t.at /\ T.stage = t.stage
          /\ T.todo = t.todo /\ T.refs = t.refs /\ T.envs = t.envs /\ T.ok = t.ok
          /\ T.made = t.made /\ T.id = t.id
      BY <1>1, <1>2, <1>9, <2>1 DEF Tasks
    <2>3. Moves(w, T)
      BY <1>1, <1>3, <1>9, <2>1, <2>2 DEF Moves, FenceStep, Holding, Making, Reserving, Frame, Release
    <2>5. mem' = mem /\ journal' = journal
      BY <1>9
    <2>6. MakeOK(T, docker)' /\ UseOK(T, docker)'
      BY <1>1, <1>2, <1>3, <1>5, <1>9, <2>2 DEF MakeOK, UseOK, Making, Early, Partial, Given, Containers, Frame
    <2>7. ImagesOK' /\ cache' \in [Procs -> Ids \cup {None}]
      BY <1>1, <1>2, <1>5, <1>7, <1>9 DEF ImagesOK, TypeOK, MakeOK, Tasks
    <2>8. docker' \subseteq docker \cup Mine(w)
      BY <1>1, <1>6, <1>9 DEF Making
    <2>9. ASSUME ~crossed PROVE Tends(w, T) /\ RegistryOK'
      <3>1. Sound /\ RegistryOK /\ r = journal /\ Knows(t)
        BY <1>4, <2>9
      <3>2. Tends(w, T)
        BY <1>1, <1>2, <1>6, <1>9, <2>2, <2>5, <2>8, <3>1
           DEF Tends, RegistryOK, Knows, MakeOK, UseOK, Making, Image, Containers, Container
      <3>3. RegistryOK'
        BY <1>1, <1>2, <1>3, <1>5, <1>8, <1>9, <2>2, <2>5, <2>9, <3>1
           DEF RegistryOK, Knows, MakeOK, UseOK, Making, Image, Containers, Container, Frame
      <3> QED BY <3>2, <3>3
    <2>10. ASSUME ~crossed PROVE Knows(T)'
      <3>1. Sound /\ RegistryOK /\ r = journal /\ Knows(t) /\ Basic
        BY <1>4, <2>10 DEF SInv
      <3>2. \A n : BeingMade(n)' => BeingMade(n)
        BY <2>3, <2>9, <2>10, <3>1, NothingNew
      <3>3. Knows(T)'
        BY <1>1, <1>2, <1>3, <1>5, <1>8, <1>9, <2>2, <2>5, <3>1, <3>2
           DEF Knows, Making, Frame, MakeOK, UseOK, RegistryOK, Containers
      <3> QED BY <3>3
    <2> QED
      BY <1>1, <1>3, <2>3, <2>5, <2>6, <2>7, <2>8, <2>9, <2>10, LoudMove DEF Frame
  <1> QED BY <1>9 DEF UndoRemove

(* Cleanup removes the containers it was asked for.                        *)
LEMMA CleanupRemoveKeeps == ASSUME SInv, NEW w \in Works, CleanupRemove(w) PROVE SInv'
  <1> DEFINE t == task[w]
  <1> DEFINE r == Registers(w)
  <1>1. Busy(w) /\ t.pc = "cleanup"
    BY DEF CleanupRemove, Busy
  <1>2. /\ t \in Tasks /\ r \in Registry /\ t.at \in Procs
        /\ MakeOK(t, docker) /\ UseOK(t, docker)
    BY <1>1, Here DEF SInv
  <1>3. Frame
    BY DEF CleanupRemove, Frame, history
  <1>4. ~crossed => Sound /\ RegistryOK /\ r = journal /\ Knows(t)
    BY <1>1, Here DEF SInv, Sound, AloneOK, KnowsOK, Registers
  <1>5. \A n : Container(n)' = Container(n) /\ Image(n)' = Image(n)
    BY <1>3 DEF Container, Image, Kind, Frame
  <1>6. t.pc \in Making => Mine(w) = {t.id} /\ BeingMade(t.id)
    BY DEF Mine, BeingMade
  <1>7. ImagesOK /\ TypeOK
    BY DEF SInv, Basic
  <1>8. ~crossed => \A n \in recipes : n \in journal.res /\ Image(n)
    BY <1>4, <1>7 DEF RegistryOK, ImagesOK
  <1>9. ASSUME docker' = docker \ OwnedContainers(w), OwnedContainers(w) = t.envs,
               Step(w, [t EXCEPT !.pc = "cleaned"]),
               mem' = mem, journal' = journal, cache' = cache, recipes' = recipes,
               fence' = fence
        PROVE  SInv'
    <2>1. PICK T \in Tasks : T = [t EXCEPT !.pc = "cleaned"] /\ Step(w, T)
      BY <1>2, <1>9 DEF Tasks, Phases
    <2>2. /\ T.pc = "cleaned" /\ T.at = t.at /\ T.stage = t.stage /\ T.todo = t.todo
          /\ T.refs = t.refs /\ T.envs = t.envs /\ T.ok = t.ok /\ T.made = t.made
          /\ T.id = t.id
      BY <1>1, <1>2, <1>9, <2>1 DEF Tasks
    <2>3. Moves(w, T)
      BY <1>1, <1>3, <1>9, <2>1, <2>2 DEF Moves, FenceStep, Holding, Making, Reserving, Frame, Release
    <2>5. mem' = mem /\ journal' = journal
      BY <1>9
    <2>6. MakeOK(T, docker)' /\ UseOK(T, docker)'
      BY <1>1, <1>2, <1>3, <1>5, <1>9, <2>2 DEF MakeOK, UseOK, Making, Early, Partial, Given, Containers, Frame
    <2>7. ImagesOK' /\ cache' \in [Procs -> Ids \cup {None}]
      BY <1>1, <1>2, <1>5, <1>7, <1>9 DEF ImagesOK, TypeOK, MakeOK, Tasks
    <2>8. docker' \subseteq docker \cup Mine(w)
      BY <1>1, <1>6, <1>9 DEF Making
    <2>9. ASSUME ~crossed PROVE Tends(w, T) /\ RegistryOK'
      <3>1. Sound /\ RegistryOK /\ r = journal /\ Knows(t)
        BY <1>4, <2>9
      <3>2. Tends(w, T)
        BY <1>1, <1>2, <1>6, <1>9, <2>2, <2>5, <2>8, <3>1
           DEF Tends, RegistryOK, Knows, MakeOK, UseOK, Making, Image, Containers, Container
      <3>3. RegistryOK'
        BY <1>1, <1>2, <1>3, <1>5, <1>8, <1>9, <2>2, <2>5, <2>9, <3>1
           DEF RegistryOK, Knows, MakeOK, UseOK, Making, Image, Containers, Container, Frame
      <3> QED BY <3>2, <3>3
    <2>10. ASSUME ~crossed PROVE Knows(T)'
      <3>1. Sound /\ RegistryOK /\ r = journal /\ Knows(t) /\ Basic
        BY <1>4, <2>10 DEF SInv
      <3>2. \A n : BeingMade(n)' => BeingMade(n)
        BY <2>3, <2>9, <2>10, <3>1, NothingNew
      <3>3. Knows(T)'
        BY <1>1, <1>2, <1>3, <1>5, <1>8, <1>9, <2>2, <2>5, <3>1, <3>2
           DEF Knows, Making, Frame, MakeOK, UseOK, RegistryOK, Containers
      <3> QED BY <3>3
    <2> QED
      BY <1>1, <1>3, <2>3, <2>5, <2>6, <2>7, <2>8, <2>9, <2>10, LoudMove DEF Frame
  <1> QED BY <1>9 DEF CleanupRemove, Covered

(* A reconciliation deletes its entry, or finds it gone.                   *)
LEMMA DropKeeps == ASSUME SInv, NEW w \in Works, Drop(w) PROVE SInv'
  <1> DEFINE t == task[w]
  <1> DEFINE r == Registers(w)
  <1>1. Busy(w) /\ t.pc = "gone"
    BY DEF Drop, Busy
  <1>2. /\ t \in Tasks /\ r \in Registry /\ t.at \in Procs
        /\ MakeOK(t, docker) /\ UseOK(t, docker)
    BY <1>1, Here DEF SInv
  <1>3. Frame
    BY DEF Drop, Frame, history
  <1>4. ~crossed => Sound /\ RegistryOK /\ r = journal /\ Knows(t)
    BY <1>1, Here DEF SInv, Sound, AloneOK, KnowsOK, Registers
  <1>5. \A n : Container(n)' = Container(n) /\ Image(n)' = Image(n)
    BY <1>3 DEF Container, Image, Kind, Frame
  <1>6. t.pc \in Making => Mine(w) = {t.id} /\ BeingMade(t.id)
    BY DEF Mine, BeingMade
  <1>7. ImagesOK /\ TypeOK
    BY DEF SInv, Basic
  <1>8. ~crossed => \A n \in recipes : n \in journal.res /\ Image(n)
    BY <1>4, <1>7 DEF RegistryOK, ImagesOK
  <1>9. ASSUME t.id # None, Persist(t.at, Without(r, t.id)),
               Step(w, [t EXCEPT !.pc = "scan"]),
               docker' = docker, cache' = cache, recipes' = recipes, fence' = fence
        PROVE  SInv'
    <2>1. PICK T \in Tasks : T = [t EXCEPT !.pc = "scan"] /\ Step(w, T)
      BY <1>2, <1>9 DEF Tasks, Phases
    <2>2. /\ T.pc = "scan" /\ T.at = t.at /\ T.stage = t.stage /\ T.todo = t.todo
          /\ T.refs = t.refs /\ T.envs = t.envs /\ T.ok = t.ok /\ T.made = t.made
          /\ T.id = t.id
      BY <1>1, <1>2, <1>9, <2>1 DEF Tasks
    <2>3. Moves(w, T)
      BY <1>1, <1>3, <1>9, <2>1, <2>2 DEF Moves, FenceStep, Holding, Making, Reserving, Frame, Release
    <2>4. \E q \in Registry : Persist(t.at, q)
      BY <1>1, <1>2, <1>9, Written, Mentions DEF MakeOK, Making
    <2>5. /\ mem' = [mem EXCEPT ![t.at] = journal']
          /\ journal'.intents = r.intents \ {t.id} /\ journal'.res = r.res \ {t.id}
          /\ journal'.flagged = r.flagged \ {t.id}
      BY <1>2, <1>9 DEF Persist, Registry, Without, Registered
    <2>6. MakeOK(T, docker)' /\ UseOK(T, docker)'
      BY <1>1, <1>2, <1>3, <1>5, <1>9, <2>2 DEF MakeOK, UseOK, Making, Early, Partial, Given, Containers, Frame
    <2>7. ImagesOK' /\ cache' \in [Procs -> Ids \cup {None}]
      BY <1>1, <1>2, <1>5, <1>7, <1>9 DEF ImagesOK, TypeOK, MakeOK, Tasks
    <2>8. docker' \subseteq docker \cup Mine(w)
      BY <1>1, <1>6, <1>9 DEF Making
    <2>9. ASSUME ~crossed PROVE Tends(w, T) /\ RegistryOK'
      <3>1. Sound /\ RegistryOK /\ r = journal /\ Knows(t)
        BY <1>4, <2>9
      <3>2. Tends(w, T)
        BY <1>1, <1>2, <1>6, <1>9, <2>2, <2>5, <2>8, <3>1
           DEF Tends, RegistryOK, Knows, MakeOK, UseOK, Making, Image, Containers, Container
      <3>3. RegistryOK'
        BY <1>1, <1>2, <1>3, <1>5, <1>8, <1>9, <2>2, <2>5, <2>9, <3>1
           DEF RegistryOK, Knows, MakeOK, UseOK, Making, Image, Containers, Container, Frame
      <3> QED BY <3>2, <3>3
    <2>10. ASSUME ~crossed PROVE Knows(T)'
      <3>1. Sound /\ RegistryOK /\ r = journal /\ Knows(t) /\ Basic
        BY <1>4, <2>10 DEF SInv
      <3>2. \A n : BeingMade(n)' => BeingMade(n)
        BY <2>3, <2>9, <2>10, <3>1, NothingNew
      <3>3. Knows(T)'
        BY <1>1, <1>2, <1>3, <1>5, <1>8, <1>9, <2>2, <2>5, <3>1, <3>2
           DEF Knows, Making, Frame, MakeOK, UseOK, RegistryOK, Containers
      <3> QED BY <3>3
    <2> QED
      BY <1>1, <1>3, <2>3, <2>4, <2>5, <2>6, <2>7, <2>8, <2>9, <2>10, LoudMove DEF Frame
  <1>10. ASSUME End(w), mem' = mem, journal' = journal,
               docker' = docker, cache' = cache, recipes' = recipes, fence' = fence
        PROVE  SInv'
    <2>1. PICK T \in Tasks : T = Idle /\ Step(w, T)
      BY <1>2, <1>10, IdleIs DEF End, Step
    <2>2. /\ T.pc = "idle" /\ T.refs = {} /\ T.envs = {} /\ T.ok = FALSE
          /\ T.made = {}
      BY <2>1 DEF Idle
    <2>3. Moves(w, T)
      BY <1>1, <1>3, <1>10, <2>1, <2>2 DEF Moves, FenceStep, Holding, Making, Reserving, Frame, Release
    <2>5. mem' = mem /\ journal' = journal
      BY <1>10
    <2>6. MakeOK(T, docker)' /\ UseOK(T, docker)'
      BY <1>1, <1>2, <1>3, <1>5, <1>10, <2>2 DEF MakeOK, UseOK, Making, Early, Partial, Given, Containers, Frame
    <2>7. ImagesOK' /\ cache' \in [Procs -> Ids \cup {None}]
      BY <1>1, <1>2, <1>5, <1>7, <1>10 DEF ImagesOK, TypeOK, MakeOK, Tasks
    <2>8. docker' \subseteq docker \cup Mine(w)
      BY <1>1, <1>6, <1>10 DEF Making
    <2>9. ASSUME ~crossed PROVE Tends(w, T) /\ RegistryOK'
      <3>1. Sound /\ RegistryOK /\ r = journal /\ Knows(t)
        BY <1>4, <2>9
      <3>2. Tends(w, T)
        BY <1>1, <1>2, <1>6, <1>10, <2>2, <2>5, <2>8, <3>1
           DEF Tends, RegistryOK, Knows, MakeOK, UseOK, Making, Image, Containers, Container
      <3>3. RegistryOK'
        BY <1>1, <1>2, <1>3, <1>5, <1>8, <1>10, <2>2, <2>5, <2>9, <3>1
           DEF RegistryOK, Knows, MakeOK, UseOK, Making, Image, Containers, Container, Frame
      <3> QED BY <3>2, <3>3
    <2>10. ASSUME ~crossed PROVE Knows(T)'
      <3>1. Sound /\ RegistryOK /\ r = journal /\ Knows(t) /\ Basic
        BY <1>4, <2>10 DEF SInv
      <3>2. \A n : BeingMade(n)' => BeingMade(n)
        BY <2>3, <2>9, <2>10, <3>1, NothingNew
      <3>3. Knows(T)'
        BY <1>1, <1>2, <1>3, <1>5, <1>8, <1>10, <2>2, <2>5, <3>1, <3>2
           DEF Knows, Making, Frame, MakeOK, UseOK, RegistryOK, Containers
      <3> QED BY <3>3
    <2> QED
      BY <1>1, <1>3, <2>3, <2>5, <2>6, <2>7, <2>8, <2>9, <2>10, LoudMove DEF Frame
  <1>11. ASSUME t.id \in r.intents \/ t.id \in r.res PROVE t.id # None
    BY <1>2, <1>11, Bounds DEF Registry
  <1> QED BY <1>9, <1>10, <1>11 DEF Drop

(* The tag is found absent or unknown, or the preparation fails.           *)
LEMMA PrepareImageKeeps == ASSUME SInv, NEW w \in Works, PrepareImage(w) PROVE SInv'
  <1> DEFINE t == task[w]
  <1> DEFINE r == Registers(w)
  <1>1. Busy(w) /\ t.pc = "prepare"
    BY DEF PrepareImage, Busy
  <1>2. /\ t \in Tasks /\ r \in Registry /\ t.at \in Procs
        /\ MakeOK(t, docker) /\ UseOK(t, docker)
    BY <1>1, Here DEF SInv
  <1>3. Frame
    BY DEF PrepareImage, Frame, history
  <1>4. ~crossed => Sound /\ RegistryOK /\ r = journal /\ Knows(t)
    BY <1>1, Here DEF SInv, Sound, AloneOK, KnowsOK, Registers
  <1>5. \A n : Container(n)' = Container(n) /\ Image(n)' = Image(n)
    BY <1>3 DEF Container, Image, Kind, Frame
  <1>6. t.pc \in Making => Mine(w) = {t.id} /\ BeingMade(t.id)
    BY DEF Mine, BeingMade
  <1>7. ImagesOK /\ TypeOK
    BY DEF SInv, Basic
  <1>8. ~crossed => \A n \in recipes : n \in journal.res /\ Image(n)
    BY <1>4, <1>7 DEF RegistryOK, ImagesOK
  <1>9. ASSUME Step(w, [t EXCEPT !.pc = "build"]), mem' = mem, journal' = journal,
               docker' = docker, cache' = cache, recipes' = recipes, fence' = fence
        PROVE  SInv'
    <2>1. PICK T \in Tasks : T = [t EXCEPT !.pc = "build"] /\ Step(w, T)
      BY <1>2, <1>9 DEF Tasks, Phases
    <2>2. /\ T.pc = "build" /\ T.at = t.at /\ T.stage = t.stage /\ T.todo = t.todo
          /\ T.refs = t.refs /\ T.envs = t.envs /\ T.ok = t.ok /\ T.made = t.made
          /\ T.id = t.id
      BY <1>1, <1>2, <1>9, <2>1 DEF Tasks
    <2>3. Moves(w, T)
      BY <1>1, <1>3, <1>9, <2>1, <2>2 DEF Moves, FenceStep, Holding, Making, Reserving, Frame, Release
    <2>5. mem' = mem /\ journal' = journal
      BY <1>9
    <2>6. MakeOK(T, docker)' /\ UseOK(T, docker)'
      BY <1>1, <1>2, <1>3, <1>5, <1>9, <2>2 DEF MakeOK, UseOK, Making, Early, Partial, Given, Containers, Frame
    <2>7. ImagesOK' /\ cache' \in [Procs -> Ids \cup {None}]
      BY <1>1, <1>2, <1>5, <1>7, <1>9 DEF ImagesOK, TypeOK, MakeOK, Tasks
    <2>8. docker' \subseteq docker \cup Mine(w)
      BY <1>1, <1>6, <1>9 DEF Making
    <2>9. ASSUME ~crossed PROVE Tends(w, T) /\ RegistryOK'
      <3>1. Sound /\ RegistryOK /\ r = journal /\ Knows(t)
        BY <1>4, <2>9
      <3>2. Tends(w, T)
        BY <1>1, <1>2, <1>6, <1>9, <2>2, <2>5, <2>8, <3>1
           DEF Tends, RegistryOK, Knows, MakeOK, UseOK, Making, Image, Containers, Container
      <3>3. RegistryOK'
        BY <1>1, <1>2, <1>3, <1>5, <1>8, <1>9, <2>2, <2>5, <2>9, <3>1
           DEF RegistryOK, Knows, MakeOK, UseOK, Making, Image, Containers, Container, Frame
      <3> QED BY <3>2, <3>3
    <2>10. ASSUME ~crossed PROVE Knows(T)'
      <3>1. Sound /\ RegistryOK /\ r = journal /\ Knows(t) /\ Basic
        BY <1>4, <2>10 DEF SInv
      <3>2. \A n : BeingMade(n)' => BeingMade(n)
        BY <2>3, <2>9, <2>10, <3>1, NothingNew
      <3>3. Knows(T)'
        BY <1>1, <1>2, <1>3, <1>5, <1>8, <1>9, <2>2, <2>5, <3>1, <3>2
           DEF Knows, Making, Frame, MakeOK, UseOK, RegistryOK, Containers
      <3> QED BY <3>3
    <2> QED
      BY <1>1, <1>3, <2>3, <2>5, <2>6, <2>7, <2>8, <2>9, <2>10, LoudMove DEF Frame
  <1>10. ASSUME t.id \in Ids, Persist(t.at, Without(r, t.id)), Release, End(w),
               docker' = docker, cache' = cache, recipes' = recipes
        PROVE  SInv'
    <2>1. PICK T \in Tasks : T = Idle /\ Step(w, T)
      BY <1>2, <1>10, IdleIs DEF End, Step
    <2>2. /\ T.pc = "idle" /\ T.refs = {} /\ T.envs = {} /\ T.ok = FALSE
          /\ T.made = {}
      BY <2>1 DEF Idle
    <2>3. Moves(w, T)
      BY <1>1, <1>3, <1>10, <2>1, <2>2 DEF Moves, FenceStep, Holding, Making, Reserving, Frame, Release
    <2>4. \E q \in Registry : Persist(t.at, q)
      BY <1>1, <1>2, <1>10, Written, Mentions DEF MakeOK, Making
    <2>5. /\ mem' = [mem EXCEPT ![t.at] = journal']
          /\ journal'.intents = r.intents \ {t.id} /\ journal'.res = r.res \ {t.id}
          /\ journal'.flagged = r.flagged \ {t.id}
      BY <1>2, <1>10 DEF Persist, Registry, Without, Registered
    <2>6. MakeOK(T, docker)' /\ UseOK(T, docker)'
      BY <1>1, <1>2, <1>3, <1>5, <1>10, <2>2 DEF MakeOK, UseOK, Making, Early, Partial, Given, Containers, Frame
    <2>7. ImagesOK' /\ cache' \in [Procs -> Ids \cup {None}]
      BY <1>1, <1>2, <1>5, <1>7, <1>10 DEF ImagesOK, TypeOK, MakeOK, Tasks
    <2>8. docker' \subseteq docker \cup Mine(w)
      BY <1>1, <1>6, <1>10 DEF Making
    <2>9. ASSUME ~crossed PROVE Tends(w, T) /\ RegistryOK'
      <3>1. Sound /\ RegistryOK /\ r = journal /\ Knows(t)
        BY <1>4, <2>9
      <3>2. Tends(w, T)
        BY <1>1, <1>2, <1>6, <1>10, <2>2, <2>5, <2>8, <3>1
           DEF Tends, RegistryOK, Knows, MakeOK, UseOK, Making, Image, Containers, Container
      <3>3. RegistryOK'
        BY <1>1, <1>2, <1>3, <1>5, <1>8, <1>10, <2>2, <2>5, <2>9, <3>1
           DEF RegistryOK, Knows, MakeOK, UseOK, Making, Image, Containers, Container, Frame
      <3> QED BY <3>2, <3>3
    <2>10. ASSUME ~crossed PROVE Knows(T)'
      <3>1. Sound /\ RegistryOK /\ r = journal /\ Knows(t) /\ Basic
        BY <1>4, <2>10 DEF SInv
      <3>2. \A n : BeingMade(n)' => BeingMade(n)
        BY <2>3, <2>9, <2>10, <3>1, NothingNew
      <3>3. Knows(T)'
        BY <1>1, <1>2, <1>3, <1>5, <1>8, <1>10, <2>2, <2>5, <3>1, <3>2
           DEF Knows, Making, Frame, MakeOK, UseOK, RegistryOK, Containers
      <3> QED BY <3>3
    <2> QED
      BY <1>1, <1>3, <2>3, <2>4, <2>5, <2>6, <2>7, <2>8, <2>9, <2>10, LoudMove DEF Frame
  <1>11. ASSUME Step(w, [t EXCEPT !.pc = "undo"]), mem' = mem, journal' = journal,
               docker' = docker, cache' = cache, recipes' = recipes, fence' = fence
        PROVE  SInv'
    <2>1. PICK T \in Tasks : T = [t EXCEPT !.pc = "undo"] /\ Step(w, T)
      BY <1>2, <1>11 DEF Tasks, Phases
    <2>2. /\ T.pc = "undo" /\ T.at = t.at /\ T.stage = t.stage /\ T.todo = t.todo
          /\ T.refs = t.refs /\ T.envs = t.envs /\ T.ok = t.ok /\ T.made = t.made
          /\ T.id = t.id
      BY <1>1, <1>2, <1>11, <2>1 DEF Tasks
    <2>3. Moves(w, T)
      BY <1>1, <1>3, <1>11, <2>1, <2>2 DEF Moves, FenceStep, Holding, Making, Reserving, Frame, Release
    <2>5. mem' = mem /\ journal' = journal
      BY <1>11
    <2>6. MakeOK(T, docker)' /\ UseOK(T, docker)'
      BY <1>1, <1>2, <1>3, <1>5, <1>11, <2>2 DEF MakeOK, UseOK, Making, Early, Partial, Given, Containers, Frame
    <2>7. ImagesOK' /\ cache' \in [Procs -> Ids \cup {None}]
      BY <1>1, <1>2, <1>5, <1>7, <1>11 DEF ImagesOK, TypeOK, MakeOK, Tasks
    <2>8. docker' \subseteq docker \cup Mine(w)
      BY <1>1, <1>6, <1>11 DEF Making
    <2>9. ASSUME ~crossed PROVE Tends(w, T) /\ RegistryOK'
      <3>1. Sound /\ RegistryOK /\ r = journal /\ Knows(t)
        BY <1>4, <2>9
      <3>2. Tends(w, T)
        BY <1>1, <1>2, <1>6, <1>11, <2>2, <2>5, <2>8, <3>1
           DEF Tends, RegistryOK, Knows, MakeOK, UseOK, Making, Image, Containers, Container
      <3>3. RegistryOK'
        BY <1>1, <1>2, <1>3, <1>5, <1>8, <1>11, <2>2, <2>5, <2>9, <3>1
           DEF RegistryOK, Knows, MakeOK, UseOK, Making, Image, Containers, Container, Frame
      <3> QED BY <3>2, <3>3
    <2>10. ASSUME ~crossed PROVE Knows(T)'
      <3>1. Sound /\ RegistryOK /\ r = journal /\ Knows(t) /\ Basic
        BY <1>4, <2>10 DEF SInv
      <3>2. \A n : BeingMade(n)' => BeingMade(n)
        BY <2>3, <2>9, <2>10, <3>1, NothingNew
      <3>3. Knows(T)'
        BY <1>1, <1>2, <1>3, <1>5, <1>8, <1>11, <2>2, <2>5, <3>1, <3>2
           DEF Knows, Making, Frame, MakeOK, UseOK, RegistryOK, Containers
      <3> QED BY <3>3
    <2> QED
      BY <1>1, <1>3, <2>3, <2>5, <2>6, <2>7, <2>8, <2>9, <2>10, LoudMove DEF Frame
  <1>12. t.id \in r.intents => t.id \in Ids
    BY <1>2 DEF Registry
  <1> QED BY <1>9, <1>10, <1>11, <1>12 DEF PrepareImage

(* An image is built, the build fails, or the earlier image is used.       *)
LEMMA BuildKeeps == ASSUME SInv, NEW w \in Works, Build(w) PROVE SInv'
  <1> DEFINE t == task[w]
  <1> DEFINE r == Registers(w)
  <1>1. Busy(w) /\ t.pc = "build"
    BY DEF Build, Busy
  <1>2. /\ t \in Tasks /\ r \in Registry /\ t.at \in Procs
        /\ MakeOK(t, docker) /\ UseOK(t, docker)
    BY <1>1, Here DEF SInv
  <1>3. Frame
    BY DEF Build, Frame, history
  <1>4. ~crossed => Sound /\ RegistryOK /\ r = journal /\ Knows(t)
    BY <1>1, Here DEF SInv, Sound, AloneOK, KnowsOK, Registers
  <1>5. \A n : Container(n)' = Container(n) /\ Image(n)' = Image(n)
    BY <1>3 DEF Container, Image, Kind, Frame
  <1>6. t.pc \in Making => Mine(w) = {t.id} /\ BeingMade(t.id)
    BY DEF Mine, BeingMade
  <1>7. ImagesOK /\ TypeOK
    BY DEF SInv, Basic
  <1>8. ~crossed => \A n \in recipes : n \in journal.res /\ Image(n)
    BY <1>4, <1>7 DEF RegistryOK, ImagesOK
  <1>9. ASSUME docker' = docker \cup {t.id}, cache' = [cache EXCEPT ![t.at] = t.id],
               Step(w, [t EXCEPT !.pc = "registerImage"]),
               mem' = mem, journal' = journal,
               fence' = fence, recipes' = recipes
        PROVE  SInv'
    <2>1. PICK T \in Tasks : T = [t EXCEPT !.pc = "registerImage"] /\ Step(w, T)
      BY <1>2, <1>9 DEF Tasks, Phases
    <2>2. /\ T.pc = "registerImage" /\ T.at = t.at /\ T.stage = t.stage
          /\ T.todo = t.todo /\ T.refs = t.refs /\ T.envs = t.envs /\ T.ok = t.ok
          /\ T.made = t.made /\ T.id = t.id
      BY <1>1, <1>2, <1>9, <2>1 DEF Tasks
    <2>3. Moves(w, T)
      BY <1>1, <1>3, <1>9, <2>1, <2>2 DEF Moves, FenceStep, Holding, Making, Reserving, Frame, Release
    <2>5. mem' = mem /\ journal' = journal
      BY <1>9
    <2>6. MakeOK(T, docker)' /\ UseOK(T, docker)'
      BY <1>1, <1>2, <1>3, <1>5, <1>9, <2>2 DEF MakeOK, UseOK, Making, Early, Partial, Given, Containers, Frame
    <2>7. ImagesOK' /\ cache' \in [Procs -> Ids \cup {None}]
      BY <1>1, <1>2, <1>5, <1>7, <1>9 DEF ImagesOK, TypeOK, MakeOK, Tasks
    <2>8. docker' \subseteq docker \cup Mine(w)
      BY <1>1, <1>6, <1>9 DEF Making
    <2>9. ASSUME ~crossed PROVE Tends(w, T) /\ RegistryOK'
      <3>1. Sound /\ RegistryOK /\ r = journal /\ Knows(t)
        BY <1>4, <2>9
      <3>2. Tends(w, T)
        BY <1>1, <1>2, <1>6, <1>9, <2>2, <2>5, <2>8, <3>1
           DEF Tends, RegistryOK, Knows, MakeOK, UseOK, Making, Image, Containers, Container
      <3>3. RegistryOK'
        BY <1>1, <1>2, <1>3, <1>5, <1>8, <1>9, <2>2, <2>5, <2>9, <3>1
           DEF RegistryOK, Knows, MakeOK, UseOK, Making, Image, Containers, Container, Frame
      <3> QED BY <3>2, <3>3
    <2>10. ASSUME ~crossed PROVE Knows(T)'
      <3>1. Sound /\ RegistryOK /\ r = journal /\ Knows(t) /\ Basic
        BY <1>4, <2>10 DEF SInv
      <3>2. \A n : BeingMade(n)' => BeingMade(n)
        BY <2>3, <2>9, <2>10, <3>1, NothingNew
      <3>3. Knows(T)'
        BY <1>1, <1>2, <1>3, <1>5, <1>8, <1>9, <2>2, <2>5, <3>1, <3>2
           DEF Knows, Making, Frame, MakeOK, UseOK, RegistryOK, Containers
      <3> QED BY <3>3
    <2> QED
      BY <1>1, <1>3, <2>3, <2>5, <2>6, <2>7, <2>8, <2>9, <2>10, LoudMove DEF Frame
  <1>10. ASSUME docker' \in {docker, docker \cup {t.id}},
               Step(w, [t EXCEPT !.pc = "undo"]),
               mem' = mem, journal' = journal, cache' = cache,
               fence' = fence, recipes' = recipes
        PROVE  SInv'
    <2>1. PICK T \in Tasks : T = [t EXCEPT !.pc = "undo"] /\ Step(w, T)
      BY <1>2, <1>10 DEF Tasks, Phases
    <2>2. /\ T.pc = "undo" /\ T.at = t.at /\ T.stage = t.stage /\ T.todo = t.todo
          /\ T.refs = t.refs /\ T.envs = t.envs /\ T.ok = t.ok /\ T.made = t.made
          /\ T.id = t.id
      BY <1>1, <1>2, <1>10, <2>1 DEF Tasks
    <2>3. Moves(w, T)
      BY <1>1, <1>3, <1>10, <2>1, <2>2 DEF Moves, FenceStep, Holding, Making, Reserving, Frame, Release
    <2>5. mem' = mem /\ journal' = journal
      BY <1>10
    <2>6. MakeOK(T, docker)' /\ UseOK(T, docker)'
      BY <1>1, <1>2, <1>3, <1>5, <1>10, <2>2 DEF MakeOK, UseOK, Making, Early, Partial, Given, Containers, Frame
    <2>7. ImagesOK' /\ cache' \in [Procs -> Ids \cup {None}]
      BY <1>1, <1>2, <1>5, <1>7, <1>10 DEF ImagesOK, TypeOK, MakeOK, Tasks
    <2>8. docker' \subseteq docker \cup Mine(w)
      BY <1>1, <1>6, <1>10 DEF Making
    <2>9. ASSUME ~crossed PROVE Tends(w, T) /\ RegistryOK'
      <3>1. Sound /\ RegistryOK /\ r = journal /\ Knows(t)
        BY <1>4, <2>9
      <3>2. Tends(w, T)
        BY <1>1, <1>2, <1>6, <1>10, <2>2, <2>5, <2>8, <3>1
           DEF Tends, RegistryOK, Knows, MakeOK, UseOK, Making, Image, Containers, Container
      <3>3. RegistryOK'
        BY <1>1, <1>2, <1>3, <1>5, <1>8, <1>10, <2>2, <2>5, <2>9, <3>1
           DEF RegistryOK, Knows, MakeOK, UseOK, Making, Image, Containers, Container, Frame
      <3> QED BY <3>2, <3>3
    <2>10. ASSUME ~crossed PROVE Knows(T)'
      <3>1. Sound /\ RegistryOK /\ r = journal /\ Knows(t) /\ Basic
        BY <1>4, <2>10 DEF SInv
      <3>2. \A n : BeingMade(n)' => BeingMade(n)
        BY <2>3, <2>9, <2>10, <3>1, NothingNew
      <3>3. Knows(T)'
        BY <1>1, <1>2, <1>3, <1>5, <1>8, <1>10, <2>2, <2>5, <3>1, <3>2
           DEF Knows, Making, Frame, MakeOK, UseOK, RegistryOK, Containers
      <3> QED BY <3>3
    <2> QED
      BY <1>1, <1>3, <2>3, <2>5, <2>6, <2>7, <2>8, <2>9, <2>10, LoudMove DEF Frame
  <1>11. ASSUME cache[t.at] \in r.res, Image(cache[t.at]), cache[t.at] \in Ids,
               t.id \in Ids, Persist(t.at, Without(r, t.id)), Release,
               Step(w, [t EXCEPT !.pc = "publish", !.id = cache[t.at], !.refs = {cache[t.at]}]),
               docker' = docker, cache' = cache, recipes' = recipes
        PROVE  SInv'
    <2>1. PICK T \in Tasks : T = [t EXCEPT !.pc = "publish", !.id = cache[t.at], !.refs = {cache[t.at]}] /\ Step(w, T)
      BY <1>2, <1>11 DEF Tasks, Phases
    <2>2. /\ T.pc = "publish" /\ T.at = t.at /\ T.stage = t.stage /\ T.todo = t.todo
          /\ T.refs = {cache[t.at]} /\ T.envs = t.envs /\ T.ok = t.ok
          /\ T.made = t.made /\ T.id = cache[t.at]
      BY <1>1, <1>2, <1>11, <2>1 DEF Tasks
    <2>3. Moves(w, T)
      BY <1>1, <1>3, <1>11, <2>1, <2>2 DEF Moves, FenceStep, Holding, Making, Reserving, Frame, Release
    <2>4. \E q \in Registry : Persist(t.at, q)
      BY <1>1, <1>2, <1>11, Written, Mentions DEF MakeOK, Making
    <2>5. /\ mem' = [mem EXCEPT ![t.at] = journal']
          /\ journal'.intents = r.intents \ {t.id} /\ journal'.res = r.res \ {t.id}
          /\ journal'.flagged = r.flagged \ {t.id}
      BY <1>2, <1>11 DEF Persist, Registry, Without, Registered
    <2>6. MakeOK(T, docker)' /\ UseOK(T, docker)'
      BY <1>1, <1>2, <1>3, <1>5, <1>11, <2>2 DEF MakeOK, UseOK, Making, Early, Partial, Given, Containers, Frame, Image, Container
    <2>7. ImagesOK' /\ cache' \in [Procs -> Ids \cup {None}]
      BY <1>1, <1>2, <1>5, <1>7, <1>11 DEF ImagesOK, TypeOK, MakeOK, Tasks
    <2>8. docker' \subseteq docker \cup Mine(w)
      BY <1>1, <1>6, <1>11 DEF Making
    <2>9. ASSUME ~crossed PROVE Tends(w, T) /\ RegistryOK'
      <3>1. Sound /\ RegistryOK /\ r = journal /\ Knows(t)
        BY <1>4, <2>9
      <3>2. Tends(w, T)
        BY <1>1, <1>2, <1>6, <1>11, <2>2, <2>5, <2>8, <3>1
           DEF Tends, RegistryOK, Knows, MakeOK, UseOK, Making, Image, Containers, Container
      <3>3. RegistryOK'
        BY <1>1, <1>2, <1>3, <1>5, <1>8, <1>11, <2>2, <2>5, <2>9, <3>1
           DEF RegistryOK, Knows, MakeOK, UseOK, Making, Image, Containers, Container, Frame
      <3> QED BY <3>2, <3>3
    <2>10. ASSUME ~crossed PROVE Knows(T)'
      <3>1. Sound /\ RegistryOK /\ r = journal /\ Knows(t) /\ Basic
        BY <1>4, <2>10 DEF SInv
      <3>2. \A n : BeingMade(n)' => BeingMade(n)
        BY <2>3, <2>9, <2>10, <3>1, NothingNew
      <3>3. Knows(T)'
        BY <1>1, <1>2, <1>3, <1>5, <1>8, <1>11, <2>2, <2>5, <3>1, <3>2
           DEF Knows, Making, Frame, MakeOK, UseOK, RegistryOK, Containers
      <3> QED BY <3>3
    <2> QED
      BY <1>1, <1>3, <2>3, <2>4, <2>5, <2>6, <2>7, <2>8, <2>9, <2>10, LoudMove DEF Frame
  <1>12. ASSUME t.id \in Ids, Persist(t.at, Without(r, t.id)), Release, End(w),
               docker' = docker, cache' = cache, recipes' = recipes
        PROVE  SInv'
    <2>1. PICK T \in Tasks : T = Idle /\ Step(w, T)
      BY <1>2, <1>12, IdleIs DEF End, Step
    <2>2. /\ T.pc = "idle" /\ T.refs = {} /\ T.envs = {} /\ T.ok = FALSE
          /\ T.made = {}
      BY <2>1 DEF Idle
    <2>3. Moves(w, T)
      BY <1>1, <1>3, <1>12, <2>1, <2>2 DEF Moves, FenceStep, Holding, Making, Reserving, Frame, Release
    <2>4. \E q \in Registry : Persist(t.at, q)
      BY <1>1, <1>2, <1>12, Written, Mentions DEF MakeOK, Making
    <2>5. /\ mem' = [mem EXCEPT ![t.at] = journal']
          /\ journal'.intents = r.intents \ {t.id} /\ journal'.res = r.res \ {t.id}
          /\ journal'.flagged = r.flagged \ {t.id}
      BY <1>2, <1>12 DEF Persist, Registry, Without, Registered
    <2>6. MakeOK(T, docker)' /\ UseOK(T, docker)'
      BY <1>1, <1>2, <1>3, <1>5, <1>12, <2>2 DEF MakeOK, UseOK, Making, Early, Partial, Given, Containers, Frame
    <2>7. ImagesOK' /\ cache' \in [Procs -> Ids \cup {None}]
      BY <1>1, <1>2, <1>5, <1>7, <1>12 DEF ImagesOK, TypeOK, MakeOK, Tasks
    <2>8. docker' \subseteq docker \cup Mine(w)
      BY <1>1, <1>6, <1>12 DEF Making
    <2>9. ASSUME ~crossed PROVE Tends(w, T) /\ RegistryOK'
      <3>1. Sound /\ RegistryOK /\ r = journal /\ Knows(t)
        BY <1>4, <2>9
      <3>2. Tends(w, T)
        BY <1>1, <1>2, <1>6, <1>12, <2>2, <2>5, <2>8, <3>1
           DEF Tends, RegistryOK, Knows, MakeOK, UseOK, Making, Image, Containers, Container
      <3>3. RegistryOK'
        BY <1>1, <1>2, <1>3, <1>5, <1>8, <1>12, <2>2, <2>5, <2>9, <3>1
           DEF RegistryOK, Knows, MakeOK, UseOK, Making, Image, Containers, Container, Frame
      <3> QED BY <3>2, <3>3
    <2>10. ASSUME ~crossed PROVE Knows(T)'
      <3>1. Sound /\ RegistryOK /\ r = journal /\ Knows(t) /\ Basic
        BY <1>4, <2>10 DEF SInv
      <3>2. \A n : BeingMade(n)' => BeingMade(n)
        BY <2>3, <2>9, <2>10, <3>1, NothingNew
      <3>3. Knows(T)'
        BY <1>1, <1>2, <1>3, <1>5, <1>8, <1>12, <2>2, <2>5, <3>1, <3>2
           DEF Knows, Making, Frame, MakeOK, UseOK, RegistryOK, Containers
      <3> QED BY <3>3
    <2> QED
      BY <1>1, <1>3, <2>3, <2>4, <2>5, <2>6, <2>7, <2>8, <2>9, <2>10, LoudMove DEF Frame
  <1>13. t.id \in Ids
    BY <1>1, <1>2, Mentions DEF MakeOK, Making
  <1>14. cache[t.at] # None => cache[t.at] \in Ids /\ Image(cache[t.at])
    BY <1>2, <1>7 DEF ImagesOK, TypeOK
  <1> QED BY <1>9, <1>10, <1>11, <1>12, <1>13, <1>14 DEF Build

(* The image built becomes a resource.                                     *)
LEMMA RegisterImageKeeps == ASSUME SInv, NEW w \in Works, RegisterImage(w) PROVE SInv'
  <1> DEFINE t == task[w]
  <1> DEFINE r == Registers(w)
  <1>1. Busy(w) /\ t.pc = "registerImage"
    BY DEF RegisterImage, Busy
  <1>2. /\ t \in Tasks /\ r \in Registry /\ t.at \in Procs
        /\ MakeOK(t, docker) /\ UseOK(t, docker)
    BY <1>1, Here DEF SInv
  <1>3. Frame
    BY DEF RegisterImage, Frame, history
  <1>4. ~crossed => Sound /\ RegistryOK /\ r = journal /\ Knows(t)
    BY <1>1, Here DEF SInv, Sound, AloneOK, KnowsOK, Registers
  <1>5. \A n : Container(n)' = Container(n) /\ Image(n)' = Image(n)
    BY <1>3 DEF Container, Image, Kind, Frame
  <1>6. t.pc \in Making => Mine(w) = {t.id} /\ BeingMade(t.id)
    BY DEF Mine, BeingMade
  <1>7. ImagesOK /\ TypeOK
    BY DEF SInv, Basic
  <1>8. ~crossed => \A n \in recipes : n \in journal.res /\ Image(n)
    BY <1>4, <1>7 DEF RegistryOK, ImagesOK
  <1>9. ASSUME t.id \in Ids, Persist(t.at, Registered(r, t.id)), Release,
               Step(w, [t EXCEPT !.pc = "publish", !.refs = {t.id}]),
               docker' = docker, cache' = cache, recipes' = recipes
        PROVE  SInv'
    <2>1. PICK T \in Tasks : T = [t EXCEPT !.pc = "publish", !.refs = {t.id}] /\ Step(w, T)
      BY <1>2, <1>9 DEF Tasks, Phases
    <2>2. /\ T.pc = "publish" /\ T.at = t.at /\ T.stage = t.stage /\ T.todo = t.todo
          /\ T.refs = {t.id} /\ T.envs = t.envs /\ T.ok = t.ok /\ T.made = t.made
          /\ T.id = t.id
      BY <1>1, <1>2, <1>9, <2>1 DEF Tasks
    <2>3. Moves(w, T)
      BY <1>1, <1>3, <1>9, <2>1, <2>2 DEF Moves, FenceStep, Holding, Making, Reserving, Frame, Release
    <2>4. \E q \in Registry : Persist(t.at, q)
      BY <1>1, <1>2, <1>9, Written, Mentions DEF MakeOK, Making
    <2>5. /\ mem' = [mem EXCEPT ![t.at] = journal']
          /\ journal'.intents = r.intents \ {t.id}
          /\ journal'.res = r.res \cup {t.id} /\ journal'.flagged = r.flagged
      BY <1>2, <1>9 DEF Persist, Registry, Without, Registered
    <2>6. MakeOK(T, docker)' /\ UseOK(T, docker)'
      BY <1>1, <1>2, <1>3, <1>5, <1>9, <2>2 DEF MakeOK, UseOK, Making, Early, Partial, Given, Containers, Frame, Image, Container
    <2>7. ImagesOK' /\ cache' \in [Procs -> Ids \cup {None}]
      BY <1>1, <1>2, <1>5, <1>7, <1>9 DEF ImagesOK, TypeOK, MakeOK, Tasks
    <2>8. docker' \subseteq docker \cup Mine(w)
      BY <1>1, <1>6, <1>9 DEF Making
    <2>9. ASSUME ~crossed PROVE Tends(w, T) /\ RegistryOK'
      <3>1. Sound /\ RegistryOK /\ r = journal /\ Knows(t)
        BY <1>4, <2>9
      <3>2. Tends(w, T)
        BY <1>1, <1>2, <1>6, <1>9, <2>2, <2>5, <2>8, <3>1
           DEF Tends, RegistryOK, Knows, MakeOK, UseOK, Making, Image, Containers, Container
      <3>3. RegistryOK'
        BY <1>1, <1>2, <1>3, <1>5, <1>8, <1>9, <2>2, <2>5, <2>9, <3>1
           DEF RegistryOK, Knows, MakeOK, UseOK, Making, Image, Containers, Container, Frame
      <3> QED BY <3>2, <3>3
    <2>10. ASSUME ~crossed PROVE Knows(T)'
      <3>1. Sound /\ RegistryOK /\ r = journal /\ Knows(t) /\ Basic
        BY <1>4, <2>10 DEF SInv
      <3>2. \A n : BeingMade(n)' => BeingMade(n)
        BY <2>3, <2>9, <2>10, <3>1, NothingNew
      <3>3. Knows(T)'
        BY <1>1, <1>2, <1>3, <1>5, <1>8, <1>9, <2>2, <2>5, <3>1, <3>2
           DEF Knows, Making, Frame, MakeOK, UseOK, RegistryOK, Containers
      <3> QED BY <3>3
    <2> QED
      BY <1>1, <1>3, <2>3, <2>4, <2>5, <2>6, <2>7, <2>8, <2>9, <2>10, LoudMove DEF Frame
  <1>10. ASSUME Release, End(w), mem' = mem, journal' = journal,
               docker' = docker, cache' = cache, recipes' = recipes
        PROVE  SInv'
    <2>1. PICK T \in Tasks : T = Idle /\ Step(w, T)
      BY <1>2, <1>10, IdleIs DEF End, Step
    <2>2. /\ T.pc = "idle" /\ T.refs = {} /\ T.envs = {} /\ T.ok = FALSE
          /\ T.made = {}
      BY <2>1 DEF Idle
    <2>3. Moves(w, T)
      BY <1>1, <1>3, <1>10, <2>1, <2>2 DEF Moves, FenceStep, Holding, Making, Reserving, Frame, Release
    <2>5. mem' = mem /\ journal' = journal
      BY <1>10
    <2>6. MakeOK(T, docker)' /\ UseOK(T, docker)'
      BY <1>1, <1>2, <1>3, <1>5, <1>10, <2>2 DEF MakeOK, UseOK, Making, Early, Partial, Given, Containers, Frame
    <2>7. ImagesOK' /\ cache' \in [Procs -> Ids \cup {None}]
      BY <1>1, <1>2, <1>5, <1>7, <1>10 DEF ImagesOK, TypeOK, MakeOK, Tasks
    <2>8. docker' \subseteq docker \cup Mine(w)
      BY <1>1, <1>6, <1>10 DEF Making
    <2>9. ASSUME ~crossed PROVE Tends(w, T) /\ RegistryOK'
      <3>1. Sound /\ RegistryOK /\ r = journal /\ Knows(t)
        BY <1>4, <2>9
      <3>2. Tends(w, T)
        BY <1>1, <1>2, <1>6, <1>10, <2>2, <2>5, <2>8, <3>1
           DEF Tends, RegistryOK, Knows, MakeOK, UseOK, Making, Image, Containers, Container
      <3>3. RegistryOK'
        BY <1>1, <1>2, <1>3, <1>5, <1>8, <1>10, <2>2, <2>5, <2>9, <3>1
           DEF RegistryOK, Knows, MakeOK, UseOK, Making, Image, Containers, Container, Frame
      <3> QED BY <3>2, <3>3
    <2>10. ASSUME ~crossed PROVE Knows(T)'
      <3>1. Sound /\ RegistryOK /\ r = journal /\ Knows(t) /\ Basic
        BY <1>4, <2>10 DEF SInv
      <3>2. \A n : BeingMade(n)' => BeingMade(n)
        BY <2>3, <2>9, <2>10, <3>1, NothingNew
      <3>3. Knows(T)'
        BY <1>1, <1>2, <1>3, <1>5, <1>8, <1>10, <2>2, <2>5, <3>1, <3>2
           DEF Knows, Making, Frame, MakeOK, UseOK, RegistryOK, Containers
      <3> QED BY <3>3
    <2> QED
      BY <1>1, <1>3, <2>3, <2>5, <2>6, <2>7, <2>8, <2>9, <2>10, LoudMove DEF Frame
  <1>11. t.id \in Ids
    BY <1>1, <1>2, Mentions DEF MakeOK, Making
  <1> QED BY <1>9, <1>10, <1>11 DEF RegisterImage

(* The container made becomes a resource, unless its intent is gone.       *)
LEMMA RegisterContainerKeeps == ASSUME SInv, NEW w \in Works, RegisterContainer(w) PROVE SInv'
  <1> DEFINE t == task[w]
  <1> DEFINE r == Registers(w)
  <1>1. Busy(w) /\ t.pc = "register"
    BY DEF RegisterContainer, Busy
  <1>2. /\ t \in Tasks /\ r \in Registry /\ t.at \in Procs
        /\ MakeOK(t, docker) /\ UseOK(t, docker)
    BY <1>1, Here DEF SInv
  <1>3. Frame
    BY DEF RegisterContainer, Frame, history
  <1>4. ~crossed => Sound /\ RegistryOK /\ r = journal /\ Knows(t)
    BY <1>1, Here DEF SInv, Sound, AloneOK, KnowsOK, Registers
  <1>5. \A n : Container(n)' = Container(n) /\ Image(n)' = Image(n)
    BY <1>3 DEF Container, Image, Kind, Frame
  <1>6. t.pc \in Making => Mine(w) = {t.id} /\ BeingMade(t.id)
    BY DEF Mine, BeingMade
  <1>7. ImagesOK /\ TypeOK
    BY DEF SInv, Basic
  <1>8. ~crossed => \A n \in recipes : n \in journal.res /\ Image(n)
    BY <1>4, <1>7 DEF RegistryOK, ImagesOK
  <1>9. ASSUME t.id \in Ids, Persist(t.at, Registered(r, t.id)), Release,
               Step(w, [t EXCEPT !.pc = "start"]),
               docker' = docker, cache' = cache, recipes' = recipes
        PROVE  SInv'
    <2>1. PICK T \in Tasks : T = [t EXCEPT !.pc = "start"] /\ Step(w, T)
      BY <1>2, <1>9 DEF Tasks, Phases
    <2>2. /\ T.pc = "start" /\ T.at = t.at /\ T.stage = t.stage /\ T.todo = t.todo
          /\ T.refs = t.refs /\ T.envs = t.envs /\ T.ok = t.ok /\ T.made = t.made
          /\ T.id = t.id
      BY <1>1, <1>2, <1>9, <2>1 DEF Tasks
    <2>3. Moves(w, T)
      BY <1>1, <1>3, <1>9, <2>1, <2>2 DEF Moves, FenceStep, Holding, Making, Reserving, Frame, Release
    <2>4. \E q \in Registry : Persist(t.at, q)
      BY <1>1, <1>2, <1>9, Written, Mentions DEF MakeOK, Making
    <2>5. /\ mem' = [mem EXCEPT ![t.at] = journal']
          /\ journal'.intents = r.intents \ {t.id}
          /\ journal'.res = r.res \cup {t.id} /\ journal'.flagged = r.flagged
      BY <1>2, <1>9 DEF Persist, Registry, Without, Registered
    <2>6. MakeOK(T, docker)' /\ UseOK(T, docker)'
      BY <1>1, <1>2, <1>3, <1>5, <1>9, <2>2 DEF MakeOK, UseOK, Making, Early, Partial, Given, Containers, Frame
    <2>7. ImagesOK' /\ cache' \in [Procs -> Ids \cup {None}]
      BY <1>1, <1>2, <1>5, <1>7, <1>9 DEF ImagesOK, TypeOK, MakeOK, Tasks
    <2>8. docker' \subseteq docker \cup Mine(w)
      BY <1>1, <1>6, <1>9 DEF Making
    <2>9. ASSUME ~crossed PROVE Tends(w, T) /\ RegistryOK'
      <3>1. Sound /\ RegistryOK /\ r = journal /\ Knows(t)
        BY <1>4, <2>9
      <3>2. Tends(w, T)
        BY <1>1, <1>2, <1>6, <1>9, <2>2, <2>5, <2>8, <3>1
           DEF Tends, RegistryOK, Knows, MakeOK, UseOK, Making, Image, Containers, Container
      <3>3. RegistryOK'
        BY <1>1, <1>2, <1>3, <1>5, <1>8, <1>9, <2>2, <2>5, <2>9, <3>1
           DEF RegistryOK, Knows, MakeOK, UseOK, Making, Image, Containers, Container, Frame
      <3> QED BY <3>2, <3>3
    <2>10. ASSUME ~crossed PROVE Knows(T)'
      <3>1. Sound /\ RegistryOK /\ r = journal /\ Knows(t) /\ Basic
        BY <1>4, <2>10 DEF SInv
      <3>2. \A n : BeingMade(n)' => BeingMade(n)
        BY <2>3, <2>9, <2>10, <3>1, NothingNew
      <3>3. Knows(T)'
        BY <1>1, <1>2, <1>3, <1>5, <1>8, <1>9, <2>2, <2>5, <3>1, <3>2
           DEF Knows, Making, Frame, MakeOK, UseOK, RegistryOK, Containers
      <3> QED BY <3>3
    <2> QED
      BY <1>1, <1>3, <2>3, <2>4, <2>5, <2>6, <2>7, <2>8, <2>9, <2>10, LoudMove DEF Frame
  <1>10. ASSUME Release, mem' = mem, journal' = journal,
               Step(w, [t EXCEPT !.pc = "cleanup"]),
               docker' = docker, cache' = cache, recipes' = recipes
        PROVE  SInv'
    <2>1. PICK T \in Tasks : T = [t EXCEPT !.pc = "cleanup"] /\ Step(w, T)
      BY <1>2, <1>10 DEF Tasks, Phases
    <2>2. /\ T.pc = "cleanup" /\ T.at = t.at /\ T.stage = t.stage /\ T.todo = t.todo
          /\ T.refs = t.refs /\ T.envs = t.envs /\ T.ok = t.ok /\ T.made = t.made
          /\ T.id = t.id
      BY <1>1, <1>2, <1>10, <2>1 DEF Tasks
    <2>3. Moves(w, T)
      BY <1>1, <1>3, <1>10, <2>1, <2>2 DEF Moves, FenceStep, Holding, Making, Reserving, Frame, Release
    <2>5. mem' = mem /\ journal' = journal
      BY <1>10
    <2>6. MakeOK(T, docker)' /\ UseOK(T, docker)'
      BY <1>1, <1>2, <1>3, <1>5, <1>10, <2>2 DEF MakeOK, UseOK, Making, Early, Partial, Given, Containers, Frame
    <2>7. ImagesOK' /\ cache' \in [Procs -> Ids \cup {None}]
      BY <1>1, <1>2, <1>5, <1>7, <1>10 DEF ImagesOK, TypeOK, MakeOK, Tasks
    <2>8. docker' \subseteq docker \cup Mine(w)
      BY <1>1, <1>6, <1>10 DEF Making
    <2>9. ASSUME ~crossed PROVE Tends(w, T) /\ RegistryOK'
      <3>1. Sound /\ RegistryOK /\ r = journal /\ Knows(t)
        BY <1>4, <2>9
      <3>2. Tends(w, T)
        BY <1>1, <1>2, <1>6, <1>10, <2>2, <2>5, <2>8, <3>1
           DEF Tends, RegistryOK, Knows, MakeOK, UseOK, Making, Image, Containers, Container
      <3>3. RegistryOK'
        BY <1>1, <1>2, <1>3, <1>5, <1>8, <1>10, <2>2, <2>5, <2>9, <3>1
           DEF RegistryOK, Knows, MakeOK, UseOK, Making, Image, Containers, Container, Frame
      <3> QED BY <3>2, <3>3
    <2>10. ASSUME ~crossed PROVE Knows(T)'
      <3>1. Sound /\ RegistryOK /\ r = journal /\ Knows(t) /\ Basic
        BY <1>4, <2>10 DEF SInv
      <3>2. \A n : BeingMade(n)' => BeingMade(n)
        BY <2>3, <2>9, <2>10, <3>1, NothingNew
      <3>3. Knows(T)'
        BY <1>1, <1>2, <1>3, <1>5, <1>8, <1>10, <2>2, <2>5, <3>1, <3>2
           DEF Knows, Making, Frame, MakeOK, UseOK, RegistryOK, Containers
      <3> QED BY <3>3
    <2> QED
      BY <1>1, <1>3, <2>3, <2>5, <2>6, <2>7, <2>8, <2>9, <2>10, LoudMove DEF Frame
  <1>11. t.id \in Ids
    BY <1>1, <1>2, Mentions DEF MakeOK, Making
  <1> QED BY <1>9, <1>10, <1>11 DEF RegisterContainer

(* A failed creation gives its intent up.                                  *)
LEMMA UndoDropKeeps == ASSUME SInv, NEW w \in Works, UndoDrop(w) PROVE SInv'
  <1> DEFINE t == task[w]
  <1> DEFINE r == Registers(w)
  <1>1. Busy(w) /\ t.pc = "undoGone"
    BY DEF UndoDrop, Busy
  <1>2. /\ t \in Tasks /\ r \in Registry /\ t.at \in Procs
        /\ MakeOK(t, docker) /\ UseOK(t, docker)
    BY <1>1, Here DEF SInv
  <1>3. Frame
    BY DEF UndoDrop, Frame, history
  <1>4. ~crossed => Sound /\ RegistryOK /\ r = journal /\ Knows(t)
    BY <1>1, Here DEF SInv, Sound, AloneOK, KnowsOK, Registers
  <1>5. \A n : Container(n)' = Container(n) /\ Image(n)' = Image(n)
    BY <1>3 DEF Container, Image, Kind, Frame
  <1>6. t.pc \in Making => Mine(w) = {t.id} /\ BeingMade(t.id)
    BY DEF Mine, BeingMade
  <1>7. ImagesOK /\ TypeOK
    BY DEF SInv, Basic
  <1>8. ~crossed => \A n \in recipes : n \in journal.res /\ Image(n)
    BY <1>4, <1>7 DEF RegistryOK, ImagesOK
  <1>9. ASSUME t.id \in Ids, Persist(t.at, Without(r, t.id)), Release,
               Step(w, [t EXCEPT !.pc = "cleanup"]),
               docker' = docker, cache' = cache, recipes' = recipes
        PROVE  SInv'
    <2>1. PICK T \in Tasks : T = [t EXCEPT !.pc = "cleanup"] /\ Step(w, T)
      BY <1>2, <1>9 DEF Tasks, Phases
    <2>2. /\ T.pc = "cleanup" /\ T.at = t.at /\ T.stage = t.stage /\ T.todo = t.todo
          /\ T.refs = t.refs /\ T.envs = t.envs /\ T.ok = t.ok /\ T.made = t.made
          /\ T.id = t.id
      BY <1>1, <1>2, <1>9, <2>1 DEF Tasks
    <2>3. Moves(w, T)
      BY <1>1, <1>3, <1>9, <2>1, <2>2 DEF Moves, FenceStep, Holding, Making, Reserving, Frame, Release
    <2>4. \E q \in Registry : Persist(t.at, q)
      BY <1>1, <1>2, <1>9, Written, Mentions DEF MakeOK, Making
    <2>5. /\ mem' = [mem EXCEPT ![t.at] = journal']
          /\ journal'.intents = r.intents \ {t.id} /\ journal'.res = r.res \ {t.id}
          /\ journal'.flagged = r.flagged \ {t.id}
      BY <1>2, <1>9 DEF Persist, Registry, Without, Registered
    <2>6. MakeOK(T, docker)' /\ UseOK(T, docker)'
      BY <1>1, <1>2, <1>3, <1>5, <1>9, <2>2 DEF MakeOK, UseOK, Making, Early, Partial, Given, Containers, Frame
    <2>7. ImagesOK' /\ cache' \in [Procs -> Ids \cup {None}]
      BY <1>1, <1>2, <1>5, <1>7, <1>9 DEF ImagesOK, TypeOK, MakeOK, Tasks
    <2>8. docker' \subseteq docker \cup Mine(w)
      BY <1>1, <1>6, <1>9 DEF Making
    <2>9. ASSUME ~crossed PROVE Tends(w, T) /\ RegistryOK'
      <3>1. Sound /\ RegistryOK /\ r = journal /\ Knows(t)
        BY <1>4, <2>9
      <3>2. Tends(w, T)
        BY <1>1, <1>2, <1>6, <1>9, <2>2, <2>5, <2>8, <3>1
           DEF Tends, RegistryOK, Knows, MakeOK, UseOK, Making, Image, Containers, Container
      <3>3. RegistryOK'
        BY <1>1, <1>2, <1>3, <1>5, <1>8, <1>9, <2>2, <2>5, <2>9, <3>1
           DEF RegistryOK, Knows, MakeOK, UseOK, Making, Image, Containers, Container, Frame
      <3> QED BY <3>2, <3>3
    <2>10. ASSUME ~crossed PROVE Knows(T)'
      <3>1. Sound /\ RegistryOK /\ r = journal /\ Knows(t) /\ Basic
        BY <1>4, <2>10 DEF SInv
      <3>2. \A n : BeingMade(n)' => BeingMade(n)
        BY <2>3, <2>9, <2>10, <3>1, NothingNew
      <3>3. Knows(T)'
        BY <1>1, <1>2, <1>3, <1>5, <1>8, <1>9, <2>2, <2>5, <3>1, <3>2
           DEF Knows, Making, Frame, MakeOK, UseOK, RegistryOK, Containers
      <3> QED BY <3>3
    <2> QED
      BY <1>1, <1>3, <2>3, <2>4, <2>5, <2>6, <2>7, <2>8, <2>9, <2>10, LoudMove DEF Frame
  <1>10. ASSUME t.id \in Ids, Persist(t.at, Without(r, t.id)), Release, End(w),
               docker' = docker, cache' = cache, recipes' = recipes
        PROVE  SInv'
    <2>1. PICK T \in Tasks : T = Idle /\ Step(w, T)
      BY <1>2, <1>10, IdleIs DEF End, Step
    <2>2. /\ T.pc = "idle" /\ T.refs = {} /\ T.envs = {} /\ T.ok = FALSE
          /\ T.made = {}
      BY <2>1 DEF Idle
    <2>3. Moves(w, T)
      BY <1>1, <1>3, <1>10, <2>1, <2>2 DEF Moves, FenceStep, Holding, Making, Reserving, Frame, Release
    <2>4. \E q \in Registry : Persist(t.at, q)
      BY <1>1, <1>2, <1>10, Written, Mentions DEF MakeOK, Making
    <2>5. /\ mem' = [mem EXCEPT ![t.at] = journal']
          /\ journal'.intents = r.intents \ {t.id} /\ journal'.res = r.res \ {t.id}
          /\ journal'.flagged = r.flagged \ {t.id}
      BY <1>2, <1>10 DEF Persist, Registry, Without, Registered
    <2>6. MakeOK(T, docker)' /\ UseOK(T, docker)'
      BY <1>1, <1>2, <1>3, <1>5, <1>10, <2>2 DEF MakeOK, UseOK, Making, Early, Partial, Given, Containers, Frame
    <2>7. ImagesOK' /\ cache' \in [Procs -> Ids \cup {None}]
      BY <1>1, <1>2, <1>5, <1>7, <1>10 DEF ImagesOK, TypeOK, MakeOK, Tasks
    <2>8. docker' \subseteq docker \cup Mine(w)
      BY <1>1, <1>6, <1>10 DEF Making
    <2>9. ASSUME ~crossed PROVE Tends(w, T) /\ RegistryOK'
      <3>1. Sound /\ RegistryOK /\ r = journal /\ Knows(t)
        BY <1>4, <2>9
      <3>2. Tends(w, T)
        BY <1>1, <1>2, <1>6, <1>10, <2>2, <2>5, <2>8, <3>1
           DEF Tends, RegistryOK, Knows, MakeOK, UseOK, Making, Image, Containers, Container
      <3>3. RegistryOK'
        BY <1>1, <1>2, <1>3, <1>5, <1>8, <1>10, <2>2, <2>5, <2>9, <3>1
           DEF RegistryOK, Knows, MakeOK, UseOK, Making, Image, Containers, Container, Frame
      <3> QED BY <3>2, <3>3
    <2>10. ASSUME ~crossed PROVE Knows(T)'
      <3>1. Sound /\ RegistryOK /\ r = journal /\ Knows(t) /\ Basic
        BY <1>4, <2>10 DEF SInv
      <3>2. \A n : BeingMade(n)' => BeingMade(n)
        BY <2>3, <2>9, <2>10, <3>1, NothingNew
      <3>3. Knows(T)'
        BY <1>1, <1>2, <1>3, <1>5, <1>8, <1>10, <2>2, <2>5, <3>1, <3>2
           DEF Knows, Making, Frame, MakeOK, UseOK, RegistryOK, Containers
      <3> QED BY <3>3
    <2> QED
      BY <1>1, <1>3, <2>3, <2>4, <2>5, <2>6, <2>7, <2>8, <2>9, <2>10, LoudMove DEF Frame
  <1>11. t.id \in Ids
    BY <1>1, <1>2, Mentions DEF MakeOK, Making
  <1> QED BY <1>9, <1>10, <1>11 DEF UndoDrop, AfterUndo

(* What a failed creation has made is unknown.                             *)
LEMMA UndoUnknownKeeps == ASSUME SInv, NEW w \in Works, UndoUnknown(w) PROVE SInv'
  <1> DEFINE t == task[w]
  <1> DEFINE r == Registers(w)
  <1>1. Busy(w) /\ t.pc \in {"undo", "undoPresent", "undoGone"}
    BY DEF UndoUnknown, Busy
  <1>2. /\ t \in Tasks /\ r \in Registry /\ t.at \in Procs
        /\ MakeOK(t, docker) /\ UseOK(t, docker)
    BY <1>1, Here DEF SInv
  <1>3. Frame
    BY DEF UndoUnknown, Frame, history
  <1>4. ~crossed => Sound /\ RegistryOK /\ r = journal /\ Knows(t)
    BY <1>1, Here DEF SInv, Sound, AloneOK, KnowsOK, Registers
  <1>5. \A n : Container(n)' = Container(n) /\ Image(n)' = Image(n)
    BY <1>3 DEF Container, Image, Kind, Frame
  <1>6. t.pc \in Making => Mine(w) = {t.id} /\ BeingMade(t.id)
    BY DEF Mine, BeingMade
  <1>7. ImagesOK /\ TypeOK
    BY DEF SInv, Basic
  <1>8. ~crossed => \A n \in recipes : n \in journal.res /\ Image(n)
    BY <1>4, <1>7 DEF RegistryOK, ImagesOK
  <1>9. ASSUME t.id \in Ids, Container(t.id), t.id \in r.intents,
               Persist(t.at, [Registered(r, t.id) EXCEPT !.flagged = @ \cup {t.id}]), Release,
               Step(w, [t EXCEPT !.pc = "cleanup", !.refs = t.refs \cup {t.id}, !.envs = t.envs \cup {t.id}]),
               docker' = docker, cache' = cache, recipes' = recipes
        PROVE  SInv'
    <2>1. PICK T \in Tasks : T = [t EXCEPT !.pc = "cleanup", !.refs = t.refs \cup {t.id}, !.envs = t.envs \cup {t.id}] /\ Step(w, T)
      BY <1>2, <1>9 DEF Tasks, Phases
    <2>2. /\ T.pc = "cleanup" /\ T.at = t.at /\ T.stage = t.stage /\ T.todo = t.todo
          /\ T.refs = t.refs \cup {t.id} /\ T.envs = t.envs \cup {t.id}
          /\ T.ok = t.ok /\ T.made = t.made /\ T.id = t.id
      BY <1>1, <1>2, <1>9, <2>1 DEF Tasks
    <2>3. Moves(w, T)
      BY <1>1, <1>3, <1>9, <2>1, <2>2 DEF Moves, FenceStep, Holding, Making, Reserving, Frame, Release
    <2>4. \E q \in Registry : Persist(t.at, q)
      BY <1>1, <1>2, <1>9, Written, Mentions DEF MakeOK, Making
    <2>5. /\ mem' = [mem EXCEPT ![t.at] = journal']
          /\ journal'.intents = r.intents \ {t.id}
          /\ journal'.res = r.res \cup {t.id}
          /\ journal'.flagged = r.flagged \cup {t.id}
      BY <1>2, <1>9 DEF Persist, Registry, Without, Registered
    <2>6. MakeOK(T, docker)' /\ UseOK(T, docker)'
      BY <1>1, <1>2, <1>3, <1>5, <1>9, <2>2 DEF MakeOK, UseOK, Making, Early, Partial, Given, Containers, Frame
    <2>7. ImagesOK' /\ cache' \in [Procs -> Ids \cup {None}]
      BY <1>1, <1>2, <1>5, <1>7, <1>9 DEF ImagesOK, TypeOK, MakeOK, Tasks
    <2>8. docker' \subseteq docker \cup Mine(w)
      BY <1>1, <1>6, <1>9 DEF Making
    <2>9. ASSUME ~crossed PROVE Tends(w, T) /\ RegistryOK'
      <3>1. Sound /\ RegistryOK /\ r = journal /\ Knows(t)
        BY <1>4, <2>9
      <3>2. Tends(w, T)
        BY <1>1, <1>2, <1>6, <1>9, <2>2, <2>5, <2>8, <3>1
           DEF Tends, RegistryOK, Knows, MakeOK, UseOK, Making, Image, Containers, Container
      <3>3. RegistryOK'
        BY <1>1, <1>2, <1>3, <1>5, <1>8, <1>9, <2>2, <2>5, <2>9, <3>1
           DEF RegistryOK, Knows, MakeOK, UseOK, Making, Image, Containers, Container, Frame
      <3> QED BY <3>2, <3>3
    <2>10. ASSUME ~crossed PROVE Knows(T)'
      <3>1. Sound /\ RegistryOK /\ r = journal /\ Knows(t) /\ Basic
        BY <1>4, <2>10 DEF SInv
      <3>2. \A n : BeingMade(n)' => BeingMade(n)
        BY <2>3, <2>9, <2>10, <3>1, NothingNew
      <3>3. Knows(T)'
        BY <1>1, <1>2, <1>3, <1>5, <1>8, <1>9, <2>2, <2>5, <3>1, <3>2
           DEF Knows, Making, Frame, MakeOK, UseOK, RegistryOK, Containers
      <3> QED BY <3>3
    <2> QED
      BY <1>1, <1>3, <2>3, <2>4, <2>5, <2>6, <2>7, <2>8, <2>9, <2>10, LoudMove DEF Frame
  <1>10. ASSUME Release, mem' = mem, journal' = journal,
               Step(w, [t EXCEPT !.pc = "cleanup"]),
               docker' = docker, cache' = cache, recipes' = recipes
        PROVE  SInv'
    <2>1. PICK T \in Tasks : T = [t EXCEPT !.pc = "cleanup"] /\ Step(w, T)
      BY <1>2, <1>10 DEF Tasks, Phases
    <2>2. /\ T.pc = "cleanup" /\ T.at = t.at /\ T.stage = t.stage /\ T.todo = t.todo
          /\ T.refs = t.refs /\ T.envs = t.envs /\ T.ok = t.ok /\ T.made = t.made
          /\ T.id = t.id
      BY <1>1, <1>2, <1>10, <2>1 DEF Tasks
    <2>3. Moves(w, T)
      BY <1>1, <1>3, <1>10, <2>1, <2>2 DEF Moves, FenceStep, Holding, Making, Reserving, Frame, Release
    <2>5. mem' = mem /\ journal' = journal
      BY <1>10
    <2>6. MakeOK(T, docker)' /\ UseOK(T, docker)'
      BY <1>1, <1>2, <1>3, <1>5, <1>10, <2>2 DEF MakeOK, UseOK, Making, Early, Partial, Given, Containers, Frame
    <2>7. ImagesOK' /\ cache' \in [Procs -> Ids \cup {None}]
      BY <1>1, <1>2, <1>5, <1>7, <1>10 DEF ImagesOK, TypeOK, MakeOK, Tasks
    <2>8. docker' \subseteq docker \cup Mine(w)
      BY <1>1, <1>6, <1>10 DEF Making
    <2>9. ASSUME ~crossed PROVE Tends(w, T) /\ RegistryOK'
      <3>1. Sound /\ RegistryOK /\ r = journal /\ Knows(t)
        BY <1>4, <2>9
      <3>2. Tends(w, T)
        BY <1>1, <1>2, <1>6, <1>10, <2>2, <2>5, <2>8, <3>1
           DEF Tends, RegistryOK, Knows, MakeOK, UseOK, Making, Image, Containers, Container
      <3>3. RegistryOK'
        BY <1>1, <1>2, <1>3, <1>5, <1>8, <1>10, <2>2, <2>5, <2>9, <3>1
           DEF RegistryOK, Knows, MakeOK, UseOK, Making, Image, Containers, Container, Frame
      <3> QED BY <3>2, <3>3
    <2>10. ASSUME ~crossed PROVE Knows(T)'
      <3>1. Sound /\ RegistryOK /\ r = journal /\ Knows(t) /\ Basic
        BY <1>4, <2>10 DEF SInv
      <3>2. \A n : BeingMade(n)' => BeingMade(n)
        BY <2>3, <2>9, <2>10, <3>1, NothingNew
      <3>3. Knows(T)'
        BY <1>1, <1>2, <1>3, <1>5, <1>8, <1>10, <2>2, <2>5, <3>1, <3>2
           DEF Knows, Making, Frame, MakeOK, UseOK, RegistryOK, Containers
      <3> QED BY <3>3
    <2> QED
      BY <1>1, <1>3, <2>3, <2>5, <2>6, <2>7, <2>8, <2>9, <2>10, LoudMove DEF Frame
  <1>11. ASSUME Release, End(w), mem' = mem, journal' = journal,
               docker' = docker, cache' = cache, recipes' = recipes
        PROVE  SInv'
    <2>1. PICK T \in Tasks : T = Idle /\ Step(w, T)
      BY <1>2, <1>11, IdleIs DEF End, Step
    <2>2. /\ T.pc = "idle" /\ T.refs = {} /\ T.envs = {} /\ T.ok = FALSE
          /\ T.made = {}
      BY <2>1 DEF Idle
    <2>3. Moves(w, T)
      BY <1>1, <1>3, <1>11, <2>1, <2>2 DEF Moves, FenceStep, Holding, Making, Reserving, Frame, Release
    <2>5. mem' = mem /\ journal' = journal
      BY <1>11
    <2>6. MakeOK(T, docker)' /\ UseOK(T, docker)'
      BY <1>1, <1>2, <1>3, <1>5, <1>11, <2>2 DEF MakeOK, UseOK, Making, Early, Partial, Given, Containers, Frame
    <2>7. ImagesOK' /\ cache' \in [Procs -> Ids \cup {None}]
      BY <1>1, <1>2, <1>5, <1>7, <1>11 DEF ImagesOK, TypeOK, MakeOK, Tasks
    <2>8. docker' \subseteq docker \cup Mine(w)
      BY <1>1, <1>6, <1>11 DEF Making
    <2>9. ASSUME ~crossed PROVE Tends(w, T) /\ RegistryOK'
      <3>1. Sound /\ RegistryOK /\ r = journal /\ Knows(t)
        BY <1>4, <2>9
      <3>2. Tends(w, T)
        BY <1>1, <1>2, <1>6, <1>11, <2>2, <2>5, <2>8, <3>1
           DEF Tends, RegistryOK, Knows, MakeOK, UseOK, Making, Image, Containers, Container
      <3>3. RegistryOK'
        BY <1>1, <1>2, <1>3, <1>5, <1>8, <1>11, <2>2, <2>5, <2>9, <3>1
           DEF RegistryOK, Knows, MakeOK, UseOK, Making, Image, Containers, Container, Frame
      <3> QED BY <3>2, <3>3
    <2>10. ASSUME ~crossed PROVE Knows(T)'
      <3>1. Sound /\ RegistryOK /\ r = journal /\ Knows(t) /\ Basic
        BY <1>4, <2>10 DEF SInv
      <3>2. \A n : BeingMade(n)' => BeingMade(n)
        BY <2>3, <2>9, <2>10, <3>1, NothingNew
      <3>3. Knows(T)'
        BY <1>1, <1>2, <1>3, <1>5, <1>8, <1>11, <2>2, <2>5, <3>1, <3>2
           DEF Knows, Making, Frame, MakeOK, UseOK, RegistryOK, Containers
      <3> QED BY <3>3
    <2> QED
      BY <1>1, <1>3, <2>3, <2>5, <2>6, <2>7, <2>8, <2>9, <2>10, LoudMove DEF Frame
  <1>12. t.id \in Ids
    BY <1>1, <1>2, Mentions DEF MakeOK, Making
  <1> QED BY <1>9, <1>10, <1>11, <1>12 DEF UndoUnknown, AfterUndo

(* A container that did not start is forgotten or handed to cleanup.       *)
LEMMA UnstartKeeps == ASSUME SInv, NEW w \in Works, Unstart(w) PROVE SInv'
  <1> DEFINE t == task[w]
  <1> DEFINE r == Registers(w)
  <1>1. Busy(w) /\ t.pc = "unstart"
    BY DEF Unstart, Busy
  <1>2. /\ t \in Tasks /\ r \in Registry /\ t.at \in Procs
        /\ MakeOK(t, docker) /\ UseOK(t, docker)
    BY <1>1, Here DEF SInv
  <1>3. Frame
    BY DEF Unstart, Frame, history
  <1>4. ~crossed => Sound /\ RegistryOK /\ r = journal /\ Knows(t)
    BY <1>1, Here DEF SInv, Sound, AloneOK, KnowsOK, Registers
  <1>5. \A n : Container(n)' = Container(n) /\ Image(n)' = Image(n)
    BY <1>3 DEF Container, Image, Kind, Frame
  <1>6. t.pc \in Making => Mine(w) = {t.id} /\ BeingMade(t.id)
    BY DEF Mine, BeingMade
  <1>7. ImagesOK /\ TypeOK
    BY DEF SInv, Basic
  <1>8. ~crossed => \A n \in recipes : n \in journal.res /\ Image(n)
    BY <1>4, <1>7 DEF RegistryOK, ImagesOK
  <1>12. ~BeingMade(t.id)
    <2>1. \A v \in Works : task[v].pc \in Making => v # w /\ task[v].id \in task[v].made
      BY <1>1 DEF SInv, Basic, WorkOK, MakeOK, Making
    <2>2. t.id \in t.made
      BY <1>1, <1>2 DEF MakeOK
    <2> QED BY <2>1, <2>2, Apart DEF BeingMade, SInv
  <1>9. ASSUME t.id \in Ids, docker' = docker \ {t.id}, Persist(t.at, Without(r, t.id)),
               Step(w, [t EXCEPT !.pc = "cleanup"]),
               cache' = cache, recipes' = recipes, fence' = fence
        PROVE  SInv'
    <2>1. PICK T \in Tasks : T = [t EXCEPT !.pc = "cleanup"] /\ Step(w, T)
      BY <1>2, <1>9 DEF Tasks, Phases
    <2>2. /\ T.pc = "cleanup" /\ T.at = t.at /\ T.stage = t.stage /\ T.todo = t.todo
          /\ T.refs = t.refs /\ T.envs = t.envs /\ T.ok = t.ok /\ T.made = t.made
          /\ T.id = t.id
      BY <1>1, <1>2, <1>9, <2>1 DEF Tasks
    <2>3. Moves(w, T)
      BY <1>1, <1>3, <1>9, <2>1, <2>2 DEF Moves, FenceStep, Holding, Making, Reserving, Frame, Release
    <2>4. \E q \in Registry : Persist(t.at, q)
      BY <1>1, <1>2, <1>9, Written, Mentions DEF MakeOK, Making
    <2>5. /\ mem' = [mem EXCEPT ![t.at] = journal']
          /\ journal'.intents = r.intents \ {t.id} /\ journal'.res = r.res \ {t.id}
          /\ journal'.flagged = r.flagged \ {t.id}
      BY <1>2, <1>9 DEF Persist, Registry, Without, Registered
    <2>6. MakeOK(T, docker)' /\ UseOK(T, docker)'
      BY <1>1, <1>2, <1>3, <1>5, <1>9, <2>2 DEF MakeOK, UseOK, Making, Early, Partial, Given, Containers, Frame
    <2>7. ImagesOK' /\ cache' \in [Procs -> Ids \cup {None}]
      BY <1>1, <1>2, <1>5, <1>7, <1>9 DEF ImagesOK, TypeOK, MakeOK, Tasks
    <2>8. docker' \subseteq docker \cup Mine(w)
      BY <1>1, <1>6, <1>9 DEF Making
    <2>9. ASSUME ~crossed PROVE Tends(w, T) /\ RegistryOK'
      <3>1. Sound /\ RegistryOK /\ r = journal /\ Knows(t)
        BY <1>4, <2>9
      <3>2. Tends(w, T)
        BY <1>1, <1>2, <1>6, <1>9, <1>12, <2>2, <2>5, <2>8, <3>1
           DEF Tends, RegistryOK, Knows, MakeOK, UseOK, Making, Image, Containers, Container
      <3>3. RegistryOK'
        BY <1>1, <1>2, <1>3, <1>5, <1>8, <1>9, <2>2, <2>5, <2>9, <3>1
           DEF RegistryOK, Knows, MakeOK, UseOK, Making, Image, Containers, Container, Frame
      <3> QED BY <3>2, <3>3
    <2>10. ASSUME ~crossed PROVE Knows(T)'
      <3>1. Sound /\ RegistryOK /\ r = journal /\ Knows(t) /\ Basic
        BY <1>4, <2>10 DEF SInv
      <3>2. \A n : BeingMade(n)' => BeingMade(n)
        BY <2>3, <2>9, <2>10, <3>1, NothingNew
      <3>3. Knows(T)'
        BY <1>1, <1>2, <1>3, <1>5, <1>8, <1>9, <2>2, <2>5, <3>1, <3>2
           DEF Knows, Making, Frame, MakeOK, UseOK, RegistryOK, Containers
      <3> QED BY <3>3
    <2> QED
      BY <1>1, <1>3, <2>3, <2>4, <2>5, <2>6, <2>7, <2>8, <2>9, <2>10, LoudMove DEF Frame
  <1>10. ASSUME t.id \in Ids, mem' = mem, journal' = journal,
               Step(w, [t EXCEPT !.pc = "cleanup", !.refs = t.refs \cup {t.id}, !.envs = t.envs \cup {t.id}]),
               docker' = docker, cache' = cache, recipes' = recipes, fence' = fence
        PROVE  SInv'
    <2>1. PICK T \in Tasks : T = [t EXCEPT !.pc = "cleanup", !.refs = t.refs \cup {t.id}, !.envs = t.envs \cup {t.id}] /\ Step(w, T)
      BY <1>2, <1>10 DEF Tasks, Phases
    <2>2. /\ T.pc = "cleanup" /\ T.at = t.at /\ T.stage = t.stage /\ T.todo = t.todo
          /\ T.refs = t.refs \cup {t.id} /\ T.envs = t.envs \cup {t.id}
          /\ T.ok = t.ok /\ T.made = t.made /\ T.id = t.id
      BY <1>1, <1>2, <1>10, <2>1 DEF Tasks
    <2>3. Moves(w, T)
      BY <1>1, <1>3, <1>10, <2>1, <2>2 DEF Moves, FenceStep, Holding, Making, Reserving, Frame, Release
    <2>5. mem' = mem /\ journal' = journal
      BY <1>10
    <2>6. MakeOK(T, docker)' /\ UseOK(T, docker)'
      BY <1>1, <1>2, <1>3, <1>5, <1>10, <2>2 DEF MakeOK, UseOK, Making, Early, Partial, Given, Containers, Frame
    <2>7. ImagesOK' /\ cache' \in [Procs -> Ids \cup {None}]
      BY <1>1, <1>2, <1>5, <1>7, <1>10 DEF ImagesOK, TypeOK, MakeOK, Tasks
    <2>8. docker' \subseteq docker \cup Mine(w)
      BY <1>1, <1>6, <1>10 DEF Making
    <2>9. ASSUME ~crossed PROVE Tends(w, T) /\ RegistryOK'
      <3>1. Sound /\ RegistryOK /\ r = journal /\ Knows(t)
        BY <1>4, <2>9
      <3>2. Tends(w, T)
        BY <1>1, <1>2, <1>6, <1>10, <2>2, <2>5, <2>8, <3>1
           DEF Tends, RegistryOK, Knows, MakeOK, UseOK, Making, Image, Containers, Container
      <3>3. RegistryOK'
        BY <1>1, <1>2, <1>3, <1>5, <1>8, <1>10, <2>2, <2>5, <2>9, <3>1
           DEF RegistryOK, Knows, MakeOK, UseOK, Making, Image, Containers, Container, Frame
      <3> QED BY <3>2, <3>3
    <2>10. ASSUME ~crossed PROVE Knows(T)'
      <3>1. Sound /\ RegistryOK /\ r = journal /\ Knows(t) /\ Basic
        BY <1>4, <2>10 DEF SInv
      <3>2. \A n : BeingMade(n)' => BeingMade(n)
        BY <2>3, <2>9, <2>10, <3>1, NothingNew
      <3>3. Knows(T)'
        BY <1>1, <1>2, <1>3, <1>5, <1>8, <1>10, <2>2, <2>5, <3>1, <3>2
           DEF Knows, Making, Frame, MakeOK, UseOK, RegistryOK, Containers
      <3> QED BY <3>3
    <2> QED
      BY <1>1, <1>3, <2>3, <2>5, <2>6, <2>7, <2>8, <2>9, <2>10, LoudMove DEF Frame
  <1>11. t.id \in Ids
    BY <1>1, <1>2, Mentions DEF MakeOK, Making
  <1> QED BY <1>9, <1>10, <1>11 DEF Unstart

(* Cleanup forgets the containers it has removed.                          *)
LEMMA CleanupDoneKeeps == ASSUME SInv, NEW w \in Works, CleanupDone(w) PROVE SInv'
  <1> DEFINE t == task[w]
  <1> DEFINE r == Registers(w)
  <1>1. Busy(w) /\ t.pc = "cleaned"
    BY DEF CleanupDone, Busy
  <1>2. /\ t \in Tasks /\ r \in Registry /\ t.at \in Procs
        /\ MakeOK(t, docker) /\ UseOK(t, docker)
    BY <1>1, Here DEF SInv
  <1>3. Frame
    BY DEF CleanupDone, Frame, history
  <1>4. ~crossed => Sound /\ RegistryOK /\ r = journal /\ Knows(t)
    BY <1>1, Here DEF SInv, Sound, AloneOK, KnowsOK, Registers
  <1>5. \A n : Container(n)' = Container(n) /\ Image(n)' = Image(n)
    BY <1>3 DEF Container, Image, Kind, Frame
  <1>6. t.pc \in Making => Mine(w) = {t.id} /\ BeingMade(t.id)
    BY DEF Mine, BeingMade
  <1>7. ImagesOK /\ TypeOK
    BY DEF SInv, Basic
  <1>8. ~crossed => \A n \in recipes : n \in journal.res /\ Image(n)
    BY <1>4, <1>7 DEF RegistryOK, ImagesOK
  <1>9. /\ OwnedContainers(w) \subseteq Ids
        /\ OwnedContainers(w) = t.envs \cap r.res /\ t.envs \cap docker = {}
    BY <1>1, <1>2 DEF OwnedContainers, Owned, UseOK, Containers, Registry
  <1>13. [r EXCEPT !.res = @ \ OwnedContainers(w), !.flagged = @ \ OwnedContainers(w)] \in Registry
    BY <1>2 DEF Registry
  <1>10. ASSUME t.ok,
               Persist(t.at, [r EXCEPT !.res = @ \ OwnedContainers(w), !.flagged = @ \ OwnedContainers(w)]),
               Step(w, [t EXCEPT !.pc = "done", !.at = None]),
               docker' = docker, cache' = cache, recipes' = recipes, fence' = fence
        PROVE  SInv'
    <2>1. PICK T \in Tasks : T = [t EXCEPT !.pc = "done", !.at = None] /\ Step(w, T)
      BY <1>2, <1>10 DEF Tasks, Phases
    <2>2. /\ T.pc = "done" /\ T.at = None /\ T.stage = t.stage /\ T.todo = t.todo
          /\ T.refs = t.refs /\ T.envs = t.envs /\ T.ok = t.ok /\ T.made = t.made
          /\ T.id = t.id
      BY <1>1, <1>2, <1>10, <2>1 DEF Tasks
    <2>3. Moves(w, T)
      BY <1>1, <1>3, <1>10, <2>1, <2>2 DEF Moves, FenceStep, Holding, Making, Reserving, Frame, Release
    <2>4. \E q \in Registry : Persist(t.at, q)
      BY <1>1, <1>10, <1>13
    <2>5. /\ mem' = [mem EXCEPT ![t.at] = journal']
          /\ journal'.intents = r.intents
          /\ journal'.res = r.res \ OwnedContainers(w)
          /\ journal'.flagged = r.flagged \ OwnedContainers(w)
      BY <1>2, <1>10 DEF Persist, Registry, Without, Registered
    <2>6. MakeOK(T, docker)' /\ UseOK(T, docker)'
      BY <1>1, <1>2, <1>3, <1>5, <1>10, <2>2 DEF MakeOK, UseOK, Making, Early, Partial, Given, Containers, Frame
    <2>7. ImagesOK' /\ cache' \in [Procs -> Ids \cup {None}]
      BY <1>1, <1>2, <1>5, <1>7, <1>10 DEF ImagesOK, TypeOK, MakeOK, Tasks
    <2>8. docker' \subseteq docker \cup Mine(w)
      BY <1>1, <1>6, <1>9, <1>10 DEF Making
    <2>9. ASSUME ~crossed PROVE Tends(w, T) /\ RegistryOK'
      <3>1. Sound /\ RegistryOK /\ r = journal /\ Knows(t)
        BY <1>4, <2>9
      <3>2. Tends(w, T)
        BY <1>1, <1>2, <1>6, <1>9, <1>10, <2>2, <2>5, <2>8, <3>1
           DEF Tends, RegistryOK, Knows, MakeOK, UseOK, Making, Image, Containers, Container
      <3>3. RegistryOK'
        BY <1>1, <1>2, <1>3, <1>5, <1>8, <1>9, <1>10, <2>2, <2>5, <2>9, <3>1
           DEF RegistryOK, Knows, MakeOK, UseOK, Making, Image, Containers, Container, Frame
      <3> QED BY <3>2, <3>3
    <2>10. ASSUME ~crossed PROVE Knows(T)'
      <3>1. Sound /\ RegistryOK /\ r = journal /\ Knows(t) /\ Basic
        BY <1>4, <2>10 DEF SInv
      <3>2. \A n : BeingMade(n)' => BeingMade(n)
        BY <2>3, <2>9, <2>10, <3>1, NothingNew
      <3>3. Knows(T)'
        BY <1>1, <1>2, <1>3, <1>5, <1>8, <1>9, <1>10, <2>2, <2>5, <3>1, <3>2
           DEF Knows, Making, Frame, MakeOK, UseOK, RegistryOK, Containers
      <3> QED BY <3>3
    <2> QED
      BY <1>1, <1>3, <2>3, <2>4, <2>5, <2>6, <2>7, <2>8, <2>9, <2>10, LoudMove DEF Frame
  <1>11. ASSUME Persist(t.at, [r EXCEPT !.res = @ \ OwnedContainers(w), !.flagged = @ \ OwnedContainers(w)]), End(w),
               docker' = docker, cache' = cache, recipes' = recipes, fence' = fence
        PROVE  SInv'
    <2>1. PICK T \in Tasks : T = Idle /\ Step(w, T)
      BY <1>2, <1>11, IdleIs DEF End, Step
    <2>2. /\ T.pc = "idle" /\ T.refs = {} /\ T.envs = {} /\ T.ok = FALSE
          /\ T.made = {}
      BY <2>1 DEF Idle
    <2>3. Moves(w, T)
      BY <1>1, <1>3, <1>11, <2>1, <2>2 DEF Moves, FenceStep, Holding, Making, Reserving, Frame, Release
    <2>4. \E q \in Registry : Persist(t.at, q)
      BY <1>1, <1>11, <1>13
    <2>5. /\ mem' = [mem EXCEPT ![t.at] = journal']
          /\ journal'.intents = r.intents
          /\ journal'.res = r.res \ OwnedContainers(w)
          /\ journal'.flagged = r.flagged \ OwnedContainers(w)
      BY <1>2, <1>11 DEF Persist, Registry, Without, Registered
    <2>6. MakeOK(T, docker)' /\ UseOK(T, docker)'
      BY <1>1, <1>2, <1>3, <1>5, <1>11, <2>2 DEF MakeOK, UseOK, Making, Early, Partial, Given, Containers, Frame
    <2>7. ImagesOK' /\ cache' \in [Procs -> Ids \cup {None}]
      BY <1>1, <1>2, <1>5, <1>7, <1>11 DEF ImagesOK, TypeOK, MakeOK, Tasks
    <2>8. docker' \subseteq docker \cup Mine(w)
      BY <1>1, <1>6, <1>9, <1>11 DEF Making
    <2>9. ASSUME ~crossed PROVE Tends(w, T) /\ RegistryOK'
      <3>1. Sound /\ RegistryOK /\ r = journal /\ Knows(t)
        BY <1>4, <2>9
      <3>2. Tends(w, T)
        BY <1>1, <1>2, <1>6, <1>9, <1>11, <2>2, <2>5, <2>8, <3>1
           DEF Tends, RegistryOK, Knows, MakeOK, UseOK, Making, Image, Containers, Container
      <3>3. RegistryOK'
        BY <1>1, <1>2, <1>3, <1>5, <1>8, <1>9, <1>11, <2>2, <2>5, <2>9, <3>1
           DEF RegistryOK, Knows, MakeOK, UseOK, Making, Image, Containers, Container, Frame
      <3> QED BY <3>2, <3>3
    <2>10. ASSUME ~crossed PROVE Knows(T)'
      <3>1. Sound /\ RegistryOK /\ r = journal /\ Knows(t) /\ Basic
        BY <1>4, <2>10 DEF SInv
      <3>2. \A n : BeingMade(n)' => BeingMade(n)
        BY <2>3, <2>9, <2>10, <3>1, NothingNew
      <3>3. Knows(T)'
        BY <1>1, <1>2, <1>3, <1>5, <1>8, <1>9, <1>11, <2>2, <2>5, <3>1, <3>2
           DEF Knows, Making, Frame, MakeOK, UseOK, RegistryOK, Containers
      <3> QED BY <3>3
    <2> QED
      BY <1>1, <1>3, <2>3, <2>4, <2>5, <2>6, <2>7, <2>8, <2>9, <2>10, LoudMove DEF Frame
  <1> QED BY <1>10, <1>11 DEF CleanupDone

(* Cleanup fails, whatever it has removed by then.                         *)
LEMMA CleanupFailsKeeps == ASSUME SInv, NEW w \in Works, CleanupFails(w) PROVE SInv'
  <1> DEFINE t == task[w]
  <1> DEFINE r == Registers(w)
  <1>1. Busy(w) /\ t.pc = "cleanup"
    BY DEF CleanupFails, Busy
  <1>2. /\ t \in Tasks /\ r \in Registry /\ t.at \in Procs
        /\ MakeOK(t, docker) /\ UseOK(t, docker)
    BY <1>1, Here DEF SInv
  <1>3. Frame
    BY DEF CleanupFails, Frame, history
  <1>4. ~crossed => Sound /\ RegistryOK /\ r = journal /\ Knows(t)
    BY <1>1, Here DEF SInv, Sound, AloneOK, KnowsOK, Registers
  <1>5. \A n : Container(n)' = Container(n) /\ Image(n)' = Image(n)
    BY <1>3 DEF Container, Image, Kind, Frame
  <1>6. t.pc \in Making => Mine(w) = {t.id} /\ BeingMade(t.id)
    BY DEF Mine, BeingMade
  <1>7. ImagesOK /\ TypeOK
    BY DEF SInv, Basic
  <1>8. ~crossed => \A n \in recipes : n \in journal.res /\ Image(n)
    BY <1>4, <1>7 DEF RegistryOK, ImagesOK
  <1>9. /\ Owned(w) \subseteq Ids /\ Owned(w) \subseteq r.res
        /\ OwnedContainers(w) \subseteq t.envs /\ t.envs \subseteq t.made
        /\ \A n \in OwnedContainers(w) : Container(n)
    BY <1>1, <1>2 DEF OwnedContainers, Owned, UseOK, Containers, Registry
  <1>13. [r EXCEPT !.flagged = @ \cup Owned(w)] \in Registry
    BY <1>2, <1>9 DEF Registry
  <1>10. ASSUME NEW some \in SUBSET OwnedContainers(w), docker' = docker \ some,
               Persist(t.at, [r EXCEPT !.flagged = @ \cup Owned(w)]), End(w),
               cache' = cache, recipes' = recipes, fence' = fence
        PROVE  SInv'
    <2>1. PICK T \in Tasks : T = Idle /\ Step(w, T)
      BY <1>2, <1>10, IdleIs DEF End, Step
    <2>2. /\ T.pc = "idle" /\ T.refs = {} /\ T.envs = {} /\ T.ok = FALSE
          /\ T.made = {}
      BY <2>1 DEF Idle
    <2>3. Moves(w, T)
      BY <1>1, <1>3, <1>10, <2>1, <2>2 DEF Moves, FenceStep, Holding, Making, Reserving, Frame, Release
    <2>4. \E q \in Registry : Persist(t.at, q)
      BY <1>1, <1>10, <1>13
    <2>5. /\ mem' = [mem EXCEPT ![t.at] = journal']
          /\ journal'.intents = r.intents /\ journal'.res = r.res
          /\ journal'.flagged = r.flagged \cup Owned(w)
      BY <1>2, <1>10 DEF Persist, Registry, Without, Registered
    <2>6. MakeOK(T, docker)' /\ UseOK(T, docker)'
      BY <1>1, <1>2, <1>3, <1>5, <1>10, <2>2 DEF MakeOK, UseOK, Making, Early, Partial, Given, Containers, Frame
    <2>7. ImagesOK' /\ cache' \in [Procs -> Ids \cup {None}]
      BY <1>1, <1>2, <1>5, <1>7, <1>10 DEF ImagesOK, TypeOK, MakeOK, Tasks
    <2>8. docker' \subseteq docker \cup Mine(w)
      BY <1>1, <1>6, <1>9, <1>10 DEF Making
    <2>9. ASSUME ~crossed PROVE Tends(w, T) /\ RegistryOK'
      <3>1. Sound /\ RegistryOK /\ r = journal /\ Knows(t)
        BY <1>4, <2>9
      <3>2. Tends(w, T)
        BY <1>1, <1>2, <1>6, <1>9, <1>10, <2>2, <2>5, <2>8, <3>1
           DEF Tends, RegistryOK, Knows, MakeOK, UseOK, Making, Image, Containers, Container
      <3>3. RegistryOK'
        BY <1>1, <1>2, <1>3, <1>5, <1>8, <1>9, <1>10, <2>2, <2>5, <2>9, <3>1
           DEF RegistryOK, Knows, MakeOK, UseOK, Making, Image, Containers, Container, Frame
      <3> QED BY <3>2, <3>3
    <2>10. ASSUME ~crossed PROVE Knows(T)'
      <3>1. Sound /\ RegistryOK /\ r = journal /\ Knows(t) /\ Basic
        BY <1>4, <2>10 DEF SInv
      <3>2. \A n : BeingMade(n)' => BeingMade(n)
        BY <2>3, <2>9, <2>10, <3>1, NothingNew
      <3>3. Knows(T)'
        BY <1>1, <1>2, <1>3, <1>5, <1>8, <1>9, <1>10, <2>2, <2>5, <3>1, <3>2
           DEF Knows, Making, Frame, MakeOK, UseOK, RegistryOK, Containers
      <3> QED BY <3>3
    <2> QED
      BY <1>1, <1>3, <2>3, <2>4, <2>5, <2>6, <2>7, <2>8, <2>9, <2>10, LoudMove DEF Frame
  <1> QED BY <1>10 DEF CleanupFails
-----------------------------------------------------------------------------
(* The step that names a resource.                                         *)

(* A fresh name changes nothing about the others.                          *)
LEMMA FreshName ==
  ASSUME TypeOK, NEW k \in {"image", "container"}, NEW w \in Works, Len(born) < MaxMade,
         born' = Append(born, [kind |-> k, work |-> w])
  PROVE  /\ Len(born) + 1 \in Ids /\ Len(born) + 1 \notin DOMAIN born
         /\ born' \in Seq([kind : {"image", "container"}, work : Works])
         /\ Len(born') = Len(born) + 1 /\ Len(born') \in 0 .. MaxMade
         /\ DOMAIN born' = DOMAIN born \cup {Len(born) + 1}
         /\ born'[Len(born) + 1].kind = k /\ born'[Len(born) + 1].work = w
         /\ \A m \in DOMAIN born :
              born'[m] = born[m] /\ Container(m)' = Container(m) /\ Image(m)' = Image(m)
  <1>1. /\ MaxMade \in Nat /\ Len(born) \in Nat
        /\ born \in Seq([kind : {"image", "container"}, work : Works])
    BY Bounds DEF TypeOK
  <1>2. /\ born' \in Seq([kind : {"image", "container"}, work : Works])
        /\ Len(born') = Len(born) + 1
        /\ \A m \in 1 .. Len(born) : born'[m] = born[m]
        /\ born'[Len(born) + 1] = [kind |-> k, work |-> w]
    BY <1>1
  <1>3. DOMAIN born = 1 .. Len(born) /\ DOMAIN born' = 1 .. Len(born')
    BY <1>1, <1>2
  <1>4. DOMAIN born' = DOMAIN born \cup {Len(born) + 1}
    BY <1>1, <1>2, <1>3
  <1> QED
    BY <1>1, <1>2, <1>3, <1>4 DEF Ids, Container, Image, Kind

(* An intent is journaled for a resource that has just been named.         *)
LEMMA ReserveKeeps == ASSUME SInv, NEW w \in Works, Reserve(w) PROVE SInv'
  <1> DEFINE t == task[w]
  <1> DEFINE r == Registers(w)
  <1> DEFINE n == Len(born) + 1
  <1> DEFINE k == IF t.pc = "reserveImage" THEN "image" ELSE "container"
  <1>1. Busy(w) /\ t.pc \in Reserving /\ TypeOK /\ Basic
    BY DEF Reserve, Busy, SInv, Basic, Reserving
  <1>2. /\ t \in Tasks /\ r \in Registry /\ t.at \in Procs /\ t.at \in up
        /\ MakeOK(t, docker) /\ UseOK(t, docker)
    BY <1>1, Here
  <1>3. Len(born) < MaxMade /\ (latch => Len(born) <= named)
    BY <1>1 DEF Basic, NamedOK
  <1>4. /\ k \in {"image", "container"}
        /\ born' = Append(born, [kind |-> k, work |-> w])
        /\ mem' = [mem EXCEPT ![t.at] = journal']
        /\ journal' = [r EXCEPT !.intents = @ \cup {n}]
        /\ Step(w, [t EXCEPT !.id = n, !.made = t.made \cup {n},
                    !.pc = IF k = "image" THEN "prepare" ELSE "create"])
        /\ docker' = docker /\ up' = up /\ fence' = fence /\ cache' = cache
        /\ recipes' = recipes /\ latch' = latch /\ closed' = closed
        /\ attempts' = attempts /\ crashes' = crashes /\ crossed' = crossed
        /\ named' = named
    BY <1>1 DEF Reserve, Persist, history, Reserving
  <1>5. /\ n \in Ids /\ n \notin DOMAIN born
        /\ born' \in Seq([kind : {"image", "container"}, work : Works])
        /\ Len(born') = n /\ Len(born') \in 0 .. MaxMade
        /\ DOMAIN born' = DOMAIN born \cup {n}
        /\ born'[n].kind = k /\ born'[n].work = w
        /\ \A m \in DOMAIN born :
             born'[m] = born[m] /\ Container(m)' = Container(m) /\ Image(m)' = Image(m)
    BY <1>1, <1>3, <1>4, FreshName
  <1>6. PICK T \in Tasks : /\ Step(w, T)
                           /\ T = [t EXCEPT !.id = n, !.made = t.made \cup {n},
                                   !.pc = IF k = "image" THEN "prepare" ELSE "create"]
    BY <1>2, <1>4, <1>5 DEF Tasks, Phases
  <1>7. /\ T.pc = (IF k = "image" THEN "prepare" ELSE "create") /\ T.at = t.at
        /\ T.id = n /\ T.refs = t.refs /\ T.envs = t.envs /\ T.ok = t.ok
        /\ T.made = t.made \cup {n}
    BY <1>2, <1>6 DEF Tasks
  <1>8. /\ task \in [Works -> Tasks] /\ task' \in [Works -> Tasks] /\ task'[w] = T
        /\ \A v \in Works : v # w => task'[v] = task[v]
    BY <1>1, <1>6 DEF Step, TypeOK
  <1>9. /\ Image(T.id)' <=> t.pc = "reserveImage"
        /\ Container(T.id)' <=> t.pc = "reserveContainer"
    BY <1>1, <1>5, <1>7 DEF Image, Container, Kind, Reserving
  <1>10. \A S \in SUBSET DOMAIN born : Containers(S)' = Containers(S)
    BY <1>5 DEF Containers
  <1>11. MakeOK(T, docker)' /\ UseOK(T, docker)'
    <2>1. docker \subseteq DOMAIN born /\ t.made \cup t.refs \subseteq DOMAIN born
      BY <1>1, <1>2 DEF TypeOK, UseOK
    <2>2. MakeOK(T, docker)'
      BY <1>1, <1>4, <1>5, <1>7, <1>9, <2>1 DEF MakeOK, Making, Reserving
    <2>3. Containers(T.refs)' = Containers(t.refs)
      BY <1>5, <1>7, <2>1 DEF Containers
    <2>4. /\ Containers(T.made)' \subseteq Containers(t.made) \cup {n}
          /\ t.pc = "reserveImage" => Containers(T.made)' = Containers(t.made)
      BY <1>5, <1>7, <1>9, <2>1 DEF Containers
    <2>5. /\ t.envs = Containers(t.refs) /\ t.envs \subseteq t.made /\ t.ok = FALSE
          /\ Containers(t.made) \subseteq t.envs
          /\ t.pc = "reserveImage" => t.refs = {}
      BY <1>1, <1>2 DEF UseOK, Reserving, Early, Partial, Given, Tasks
    <2> QED
      BY <1>1, <1>5, <1>7, <2>1, <2>2, <2>3, <2>4, <2>5
         DEF UseOK, Reserving, Early, Partial, Given
  <1>12. ASSUME NEW v \in Works, v # w
         PROVE  MakeOK(task[v], docker)' /\ UseOK(task[v], docker)'
    <2>1. MakeOK(task[v], docker) /\ UseOK(task[v], docker) /\ task'[v] = task[v]
      BY <1>1, <1>8, <1>12 DEF Basic, WorkOK
    <2>2. /\ Containers(task[v].made)' = Containers(task[v].made)
          /\ Containers(task[v].refs)' = Containers(task[v].refs)
      BY <1>5, <2>1 DEF UseOK, Containers
    <2>3. task[v].id \in task[v].made =>
            Container(task[v].id)' = Container(task[v].id)
      BY <1>5, <2>1 DEF UseOK
    <2>4. Image(task[v].id) => Image(task[v].id)'
      BY <1>5, <2>1 DEF Image
    <2>5. MakeOK(task[v], docker)'
      BY <1>4, <2>1, <2>3, <2>4 DEF MakeOK, Making
    <2>6. UseOK(task[v], docker)'
      BY <1>4, <1>5, <2>1, <2>2 DEF UseOK
    <2> QED BY <2>5, <2>6
  <1>13. Basic'
    <2>1. TypeOK'
      <3>1. mem \in [Procs -> Registry] /\ journal' \in Registry
        BY <1>1, <1>2, <1>4, <1>5, Written DEF TypeOK
      <3>2. mem' \in [Procs -> Registry]
        BY <1>4, <3>1
      <3>3. docker' \subseteq DOMAIN born' /\ recipes' \subseteq DOMAIN born'
        BY <1>1, <1>4, <1>5 DEF TypeOK
      <3>4. fence' # None => task'[fence'].pc \notin {"idle", "done"}
        <4>1. fence # None => fence \in Works /\ task[fence].pc \notin {"idle", "done"}
          BY <1>1 DEF TypeOK
        <4>2. T.pc \notin {"idle", "done"}
          BY <1>7
        <4> QED BY <1>4, <1>8, <4>1, <4>2
      <3> QED BY <1>1, <1>4, <1>5, <1>8, <3>1, <3>2, <3>3, <3>4 DEF TypeOK
    <2>2. LiveOK'
      BY <1>1, <1>2, <1>4, <1>7, <1>8 DEF Basic, LiveOK, Busy
    <2>3. FenceOK'
      BY <1>1, <1>4, <1>7, <1>8 DEF Basic, FenceOK, Holding, Making, Reserving
    <2>4. NamedOK'
      <3>1. NamedOK /\ FenceOK
        BY <1>1 DEF Basic
      <3>2. \A v \in Works : task'[v].pc \notin Reserving
        BY <1>1, <1>7, <1>8, <3>1 DEF FenceOK, Holding, Making, Reserving
      <3>3. named \in Nat /\ Len(born) \in Nat
        BY <1>1 DEF TypeOK
      <3> QED BY <1>3, <1>4, <1>5, <3>1, <3>2, <3>3 DEF NamedOK
    <2>5. ImagesOK'
      BY <1>1, <1>4, <1>5 DEF Basic, ImagesOK, Image
    <2>6. OwnOK'
      BY <1>1, <1>5, <1>7, <1>8 DEF Basic, OwnOK
    <2>7. WorkOK'
      <3>1. ASSUME NEW v \in Works PROVE MakeOK(task[v], docker)' /\ UseOK(task[v], docker)'
        BY <1>8, <1>11, <1>12 DEF MakeOK, UseOK
      <3> QED BY <3>1 DEF WorkOK
    <2> QED BY <2>1, <2>2, <2>3, <2>4, <2>5, <2>6, <2>7 DEF Basic
  <1>14. ASSUME ~crossed PROVE Sound'
    <2>1. AloneOK /\ RegistryOK /\ KnowsOK /\ ClosedOK
      BY <1>14 DEF SInv, Sound
    <2>2. r = journal
      BY <1>2, <2>1 DEF AloneOK, Registers
    <2>3. /\ journal'.intents = journal.intents \cup {n} /\ journal'.res = journal.res
          /\ journal'.flagged = journal.flagged
      BY <1>2, <1>4, <2>2 DEF Registry
    <2>4. AloneOK'
      BY <1>1, <1>2, <1>4, <2>1 DEF AloneOK, TypeOK
    <2>5. RegistryOK'
      BY <1>4, <1>5, <2>1, <2>3 DEF RegistryOK
    <2>6. ClosedOK'
      <3>1. closed => n > named
        <4>1. closed => latch /\ named <= Len(born)
          BY <1>1 DEF Basic, NamedOK
        <4>2. named \in Nat /\ Len(born) \in Nat
          BY <1>1 DEF TypeOK
        <4> QED BY <4>1, <4>2
      <3>2. Containers(journal.res)' = Containers(journal.res)
        BY <1>5, <2>1, <2>3 DEF RegistryOK, Containers
      <3> QED BY <1>4, <2>1, <2>3, <3>1, <3>2 DEF ClosedOK, Containers
    <2>7. \A m : BeingMade(m)' => BeingMade(m) \/ m = n
      BY <1>7, <1>8 DEF BeingMade
    <2>8. Knows(T)'
      BY <1>4, <1>5, <1>7, <2>3 DEF Knows, Making
    <2>9. ASSUME NEW v \in Works, v # w PROVE Knows(task[v])'
      <3>1. Knows(task[v]) /\ UseOK(task[v], docker) /\ MakeOK(task[v], docker)
        BY <1>1, <2>1 DEF KnowsOK, Basic, WorkOK
      <3>2. task'[v] = task[v]
        BY <1>8, <2>9
      <3>3. Containers(task[v].made)' = Containers(task[v].made)
        BY <1>5, <3>1, <3>2 DEF UseOK, Containers
      <3>4. task[v].pc \in {"present", "gone"} => ~BeingMade(task[v].id)'
        <4>1. ASSUME task[v].pc \in {"present", "gone"}, BeingMade(task[v].id)'
              PROVE  FALSE
          <5>1. task[v].id \in DOMAIN born /\ ~BeingMade(task[v].id)
            BY <3>1, <4>1 DEF Knows
          <5>2. PICK u \in Works : task'[u].pc \in Making /\ task'[u].id = task[v].id
            BY <3>2, <4>1 DEF BeingMade
          <5>3. u # w
            BY <1>5, <1>7, <1>8, <5>1, <5>2
          <5> QED BY <1>8, <5>1, <5>2, <5>3 DEF BeingMade
        <4> QED BY <4>1
      <3>5. task[v].pc \in {"scan", "present", "gone"} /\ task[v].stage = "flagged" =>
              \A m \in task[v].todo : m \in DOMAIN born' /\ Container(m)'
        BY <1>5, <3>1 DEF Knows
      <3>6. task[v].pc \in {"present", "gone"} =>
              /\ task[v].id \in DOMAIN born'
              /\ Image(task[v].id)' => task[v].id \notin journal'.res
        BY <1>5, <2>3, <3>1, <3>2 DEF Knows
      <3> QED
        BY <1>4, <1>5, <2>3, <3>1, <3>2, <3>3, <3>4, <3>5, <3>6 DEF Knows
    <2>10. KnowsOK'
      <3>1. ASSUME NEW v \in Works PROVE Knows(task[v])'
        <4>1. CASE v # w
          BY <4>1, <2>9
        <4>2. CASE v = w
          <5>1. task'[v] = T
            BY <1>8, <4>2
          <5> QED BY <2>8, <5>1 DEF Knows, BeingMade
        <4> QED BY <4>1, <4>2
      <3> QED BY <3>1 DEF KnowsOK
    <2> QED BY <2>4, <2>5, <2>6, <2>10 DEF Sound
  <1> QED BY <1>4, <1>13, <1>14 DEF SInv
-----------------------------------------------------------------------------
(* The steps of no work that runs: processes, cancellation, a new attempt. *)

(* A new attempt owns nothing and begins with a reconciliation.            *)
LEMMA BeginKeeps ==
  ASSUME SInv, NEW w \in Works, NEW p \in Procs, Begin(w, p) PROVE SInv'
  <1>1. Basic /\ TypeOK /\ task[w].pc = "idle" /\ p \in up
    BY DEF SInv, Basic, Begin
  <1>2. /\ docker' = docker /\ born' = born /\ mem' = mem /\ journal' = journal
        /\ up' = up /\ fence' = fence /\ cache' = cache /\ recipes' = recipes
        /\ latch' = latch /\ closed' = closed /\ crashes' = crashes
        /\ crossed' = crossed /\ named' = named
    BY DEF Begin, history
  <1>3. PICK T \in Tasks : /\ task' = [task EXCEPT ![w] = T]
                           /\ T = [Idle EXCEPT !.pc = "scan", !.at = p,
                                   !.todo = Intents(mem[p], "container")]
    BY <1>1 DEF Begin, Idle, Tasks, Phases, TypeOK, Registry, Intents
  <1>4. /\ T.pc = "scan" /\ T.at = p /\ T.stage = "containers" /\ T.refs = {}
        /\ T.envs = {} /\ T.ok = FALSE /\ T.made = {}
    BY <1>3 DEF Idle
  <1>5. /\ task' \in [Works -> Tasks] /\ task'[w] = T
        /\ \A v \in Works : v # w => task'[v] = task[v]
    BY <1>1, <1>3 DEF TypeOK
  <1>6. \A n : Container(n)' = Container(n) /\ Image(n)' = Image(n)
    BY <1>2 DEF Container, Image, Kind
  <1>7. MakeOK(T, docker)' /\ UseOK(T, docker)'
    BY <1>4 DEF MakeOK, UseOK, Making, Early, Partial, Given, Containers
  <1>8. Basic'
    <2>1. attempts' \in [Works -> 0 .. MaxAttempts]
      BY <1>1, Bounds DEF Begin, TypeOK
    <2>2. fence' # None => task'[fence'].pc \notin {"idle", "done"}
      BY <1>1, <1>2, <1>4, <1>5 DEF TypeOK
    <2>3. TypeOK'
      BY <1>1, <1>2, <1>5, <2>1, <2>2 DEF TypeOK
    <2>4. LiveOK'
      BY <1>1, <1>2, <1>4, <1>5 DEF Basic, LiveOK, Busy
    <2>5. FenceOK'
      BY <1>1, <1>2, <1>4, <1>5 DEF Basic, FenceOK, Holding, Making, Reserving
    <2>6. NamedOK'
      BY <1>1, <1>2, <1>4, <1>5 DEF Basic, NamedOK, Reserving
    <2>7. ImagesOK'
      BY <1>1, <1>2, <1>6 DEF Basic, ImagesOK
    <2>8. OwnOK'
      BY <1>1, <1>2, <1>4, <1>5 DEF Basic, OwnOK
    <2>9. ASSUME NEW v \in Works PROVE MakeOK(task[v], docker)' /\ UseOK(task[v], docker)'
      <3>1. CASE v # w
        BY <1>1, <1>2, <1>5, <3>1, WorkKept DEF Basic, WorkOK
      <3>2. CASE v = w
        <4>1. task'[v] = T
          BY <1>5, <3>2
        <4> QED BY <1>7, <4>1 DEF MakeOK, UseOK
      <3> QED BY <3>1, <3>2
    <2> QED BY <2>3, <2>4, <2>5, <2>6, <2>7, <2>8, <2>9 DEF Basic, WorkOK
  <1>9. ASSUME ~crossed PROVE Sound'
    <2>1. AloneOK /\ RegistryOK /\ KnowsOK /\ ClosedOK
      BY <1>9 DEF SInv, Sound
    <2>2. AloneOK' /\ RegistryOK'
      BY <1>2, <1>6, <2>1 DEF AloneOK, RegistryOK
    <2>3. ClosedOK'
      BY <1>2, <1>6, <2>1 DEF ClosedOK, Containers
    <2>4. \A n : BeingMade(n)' => BeingMade(n)
      BY <1>4, <1>5 DEF BeingMade, Making
    <2>5. ASSUME NEW v \in Works PROVE Knows(task[v])'
      <3>1. CASE v # w
        <4>1. Knows(task[v]) /\ task'[v] = task[v]
          BY <1>5, <2>1, <3>1 DEF KnowsOK
        <4> QED BY <1>2, <1>6, <2>4, <4>1 DEF Knows, Containers
      <3>2. CASE v = w
        <4>1. task'[v] = T
          BY <1>5, <3>2
        <4> QED BY <1>4, <4>1 DEF Knows, Making
      <3> QED BY <3>1, <3>2
    <2> QED BY <2>2, <2>3, <2>5 DEF Sound, KnowsOK
  <1> QED BY <1>2, <1>8, <1>9 DEF SInv

(* A process starts from the journal; a second one ends what the journal   *)
(* says for certain.                                                       *)
LEMMA LaunchKeeps == ASSUME SInv, NEW p \in Procs, Launch(p) PROVE SInv'
  <1>1. Basic /\ TypeOK
    BY DEF SInv, Basic
  <1>2. /\ docker' = docker /\ born' = born /\ journal' = journal /\ fence' = fence
        /\ task' = task /\ recipes' = recipes /\ latch' = latch /\ closed' = closed
        /\ attempts' = attempts /\ crashes' = crashes /\ named' = named
        /\ up' = up \cup {p} /\ mem' = [mem EXCEPT ![p] = journal]
        /\ cache' = [cache EXCEPT ![p] = None] /\ crossed' = (crossed \/ up # {})
    BY DEF Launch
  <1>3. \A n : Container(n)' = Container(n) /\ Image(n)' = Image(n)
    BY <1>2 DEF Container, Image, Kind
  <1>4. Basic'
    <2>1. TypeOK'
      BY <1>1, <1>2 DEF TypeOK
    <2>2. LiveOK' /\ FenceOK' /\ NamedOK' /\ OwnOK'
      BY <1>1, <1>2 DEF Basic, LiveOK, FenceOK, NamedOK, OwnOK, Busy
    <2>3. ImagesOK'
      BY <1>1, <1>2, <1>3 DEF Basic, ImagesOK, TypeOK
    <2>4. WorkOK'
      BY <1>1, <1>2, WorkKept DEF Basic, WorkOK
    <2> QED BY <2>1, <2>2, <2>3, <2>4 DEF Basic
  <1>5. ASSUME ~crossed' PROVE Sound'
    <2>1. AloneOK /\ RegistryOK /\ KnowsOK /\ ClosedOK /\ up = {}
      BY <1>2, <1>5 DEF SInv, Sound
    <2>2. AloneOK'
      BY <1>1, <1>2, <2>1 DEF AloneOK, TypeOK
    <2>3. RegistryOK' /\ ClosedOK'
      BY <1>2, <1>3, <2>1 DEF RegistryOK, ClosedOK, Containers
    <2>4. \A n : BeingMade(n)' = BeingMade(n)
      BY <1>2 DEF BeingMade
    <2>5. KnowsOK'
      BY <1>2, <1>3, <2>1, <2>4 DEF KnowsOK, Knows, Containers
    <2> QED BY <2>2, <2>3, <2>5 DEF Sound
  <1> QED BY <1>4, <1>5 DEF SInv

(* A process dies: its works forget everything, its fence is released, and *)
(* a call it had sent may still make the resource of its journaled intent. *)
LEMMA CrashKeeps == ASSUME SInv, NEW p \in Procs, Crash(p) PROVE SInv'
  <1> DEFINE lost == Running(p)
  <1>1. Basic /\ TypeOK
    BY DEF SInv, Basic
  <1>2. /\ born' = born /\ mem' = mem /\ journal' = journal /\ cache' = cache
        /\ recipes' = recipes /\ latch' = latch /\ closed' = closed
        /\ attempts' = attempts /\ crossed' = crossed /\ named' = named
        /\ up' = up \ {p} /\ crashes < MaxCrashes /\ crashes' = crashes + 1
        /\ task' = [w \in Works |-> IF w \in lost THEN Idle ELSE task[w]]
        /\ fence' = IF fence \in lost THEN None ELSE fence
    BY DEF Crash, history
  <1>3. PICK late \in SUBSET {task[w].id : w \in {v \in lost : task[v].pc \in {"build", "create"}}} :
          docker' = docker \cup late
    BY DEF Crash
  <1>4. /\ lost \subseteq Works
        /\ \A w \in Works : w \in lost <=> Busy(w) /\ task[w].at = p
    BY DEF Running, Busy
  <1>5. \A n \in late : \E w \in lost : task[w].pc \in Making /\ task[w].id = n /\ n \in task[w].made
    <2>1. \A w \in lost : task[w].pc \in {"build", "create"} =>
            task[w].pc \in Making /\ task[w].id \in task[w].made
      BY <1>1, <1>4 DEF Basic, WorkOK, MakeOK, Making
    <2> QED BY <1>3, <2>1
  <1>6. \A n : Container(n)' = Container(n) /\ Image(n)' = Image(n)
    BY <1>2 DEF Container, Image, Kind
  <1>7. /\ \A w \in lost : task'[w] = Idle
        /\ \A w \in Works \ lost : task'[w] = task[w]
        /\ task' \in [Works -> Tasks]
    BY <1>1, <1>2, <1>4, IdleIs DEF TypeOK
  <1>8. Basic'
    <2>1. FenceOK' /\ fence' \in Works \cup {None}
      <3>1. FenceOK /\ fence \in Works \cup {None}
        BY <1>1 DEF Basic, TypeOK
      <3>2. ASSUME NEW w \in Works PROVE (fence = w <=> task[w].pc \in Holding)'
        <4>1. CASE w \in lost
          <5>1. task'[w].pc \notin Holding
            BY <1>7, <4>1, IdleIs DEF Holding, Making, Reserving
          <5>2. fence' # w
            BY <1>2, <4>1, Bounds
          <5> QED BY <5>1, <5>2
        <4>2. CASE w \notin lost
          <5>1. task'[w] = task[w]
            BY <1>7, <4>2
          <5>2. fence' = w <=> fence = w
            BY <1>2, <4>2, Bounds
          <5> QED BY <3>1, <5>1, <5>2 DEF FenceOK
        <4> QED BY <4>1, <4>2
      <3> QED BY <1>2, <3>1, <3>2 DEF FenceOK
    <2>2. TypeOK'
      <3>1. crashes' \in 0 .. MaxCrashes
        BY <1>1, <1>2, Bounds DEF TypeOK
      <3>2. docker' \subseteq DOMAIN born'
        BY <1>1, <1>2, <1>3, <1>4, <1>5 DEF Basic, TypeOK, OwnOK
      <3>3. fence' # None => task'[fence'].pc \notin {"idle", "done"}
        BY <2>1 DEF FenceOK, Holding, Making, Reserving
      <3> QED BY <1>1, <1>2, <1>7, <2>1, <3>1, <3>2, <3>3 DEF TypeOK
    <2>3. LiveOK'
      <3>1. ASSUME NEW w \in Works
            PROVE  (/\ Busy(w) => task[w].at \in up
                    /\ task[w].pc = "idle" => task[w] = Idle)'
        <4>1. CASE w \in lost
          BY <1>7, <4>1, IdleIs DEF Busy
        <4>2. CASE w \notin lost
          BY <1>1, <1>2, <1>4, <1>7, <4>2 DEF Basic, LiveOK, Busy
        <4> QED BY <4>1, <4>2
      <3> QED BY <3>1 DEF LiveOK
    <2>4. NamedOK'
      <3>1. \A w \in Works : task'[w].pc \in Reserving => task[w].pc \in Reserving
        BY <1>7, IdleIs DEF Reserving
      <3> QED BY <1>1, <1>2, <3>1 DEF Basic, NamedOK
    <2>5. ImagesOK'
      BY <1>1, <1>2, <1>6 DEF Basic, ImagesOK
    <2>6. OwnOK'
      BY <1>1, <1>2, <1>7, IdleIs DEF Basic, OwnOK
    <2>7. ASSUME NEW v \in Works PROVE MakeOK(task[v], docker)' /\ UseOK(task[v], docker)'
      <3>1. CASE v \notin lost
        <4>1. task'[v] = task[v] /\ MakeOK(task[v], docker) /\ UseOK(task[v], docker)
          BY <1>1, <1>7, <3>1 DEF Basic, WorkOK
        <4>2. \A n \in docker' : n \in docker \/ n \notin task[v].made
          BY <1>1, <1>3, <1>4, <1>5, <3>1, Apart
        <4> QED BY <1>2, <4>1, <4>2, WorkKept
      <3>2. CASE v \in lost
        <4>1. task'[v] = Idle
          BY <1>7, <3>2
        <4> QED
          BY <4>1 DEF Idle, MakeOK, UseOK, Making, Containers, Early, Partial, Given
      <3> QED BY <3>1, <3>2
    <2> QED BY <2>1, <2>2, <2>3, <2>4, <2>5, <2>6, <2>7 DEF Basic, WorkOK
  <1>9. ASSUME ~crossed PROVE Sound'
    <2>1. AloneOK /\ RegistryOK /\ KnowsOK /\ ClosedOK
      BY <1>9 DEF SInv, Sound
    <2>2. \A w \in Works : task'[w].pc \in {"idle", "done"}
      BY <1>1, <1>4, <1>7, <2>1, IdleIs DEF Basic, LiveOK, AloneOK, Crash, Busy
    <2>3. late \subseteq journal.intents
      BY <1>4, <1>5, <2>1 DEF KnowsOK, Knows
    <2>4. AloneOK' /\ RegistryOK'
      BY <1>2, <1>3, <1>6, <2>1, <2>3 DEF AloneOK, RegistryOK
    <2>5. ClosedOK'
      BY <1>2, <1>6, <2>1 DEF ClosedOK, Containers
    <2>6. ASSUME NEW v \in Works PROVE Knows(task[v])'
      <3>1. CASE v \notin lost
        <4>1. Knows(task[v]) /\ task'[v] = task[v]
          BY <1>7, <2>1, <3>1 DEF KnowsOK
        <4> QED BY <1>2, <1>6, <2>2, <4>1 DEF Knows, Containers, Making
      <3>2. CASE v \in lost
        <4>1. task'[v].pc = "idle"
          BY <1>7, <3>2, IdleIs
        <4> QED BY <4>1 DEF Knows, Making
      <3> QED BY <3>1, <3>2
    <2> QED BY <2>4, <2>5, <2>6 DEF Sound, KnowsOK
  <1> QED BY <1>2, <1>8, <1>9 DEF SInv

(* Only the cancellation changes, or nothing.                              *)
Rest == /\ docker' = docker /\ born' = born /\ mem' = mem /\ journal' = journal
        /\ up' = up /\ fence' = fence /\ task' = task /\ cache' = cache
        /\ recipes' = recipes /\ attempts' = attempts /\ crashes' = crashes
        /\ crossed' = crossed
LEMMA RestKeeps ==
  ASSUME SInv, Rest, latch' \in BOOLEAN, closed' \in BOOLEAN, named' \in 0 .. MaxMade,
         NamedOK', ~crossed => ClosedOK'
  PROVE  SInv'
  <1>1. \A n : /\ Container(n)' = Container(n) /\ Image(n)' = Image(n)
               /\ BeingMade(n)' = BeingMade(n)
    BY DEF Container, Image, Kind, Rest, BeingMade
  <1>2. Basic'
    <2>1. TypeOK' /\ LiveOK' /\ FenceOK' /\ OwnOK'
      BY DEF Rest, SInv, Basic, TypeOK, LiveOK, FenceOK, OwnOK, Busy
    <2>2. ImagesOK'
      BY <1>1 DEF Rest, SInv, Basic, ImagesOK
    <2>3. WorkOK'
      BY WorkKept DEF Rest, SInv, Basic, WorkOK
    <2> QED BY <2>1, <2>2, <2>3 DEF Basic
  <1>3. ~crossed => Sound'
    BY <1>1 DEF Rest, SInv, Sound, AloneOK, RegistryOK, KnowsOK, Knows, Containers
  <1> QED BY <1>2, <1>3 DEF SInv, Rest

(* The run is latched: one work at most has been admitted.                 *)
LEMMA RequestCancelKeeps == ASSUME SInv, RequestCancel PROVE SInv'
  <1>1. /\ Rest /\ ~latch /\ latch' = TRUE /\ named' = Len(born) /\ closed' = closed
    BY DEF RequestCancel, Rest
  <1>2. NamedOK /\ TypeOK
    BY DEF SInv, Basic
  <1>3. closed' = FALSE /\ Len(born) \in Nat /\ named' \in 0 .. MaxMade
    BY <1>1, <1>2 DEF NamedOK, TypeOK
  <1>4. NamedOK'
    BY <1>1, <1>2, <1>3 DEF NamedOK, Rest
  <1> QED BY <1>1, <1>3, <1>4, RestKeeps DEF ClosedOK

(* The drain finds the inventory empty.                                    *)
LEMMA CloseInventoryKeeps == ASSUME SInv, CloseInventory PROVE SInv'
  <1>1. /\ Rest /\ latch /\ latch' = latch /\ closed' = TRUE /\ named' = named
        /\ InventoryEmpty(journal)
    BY DEF CloseInventory, Rest, history
  <1>2. NamedOK /\ TypeOK
    BY DEF SInv, Basic
  <1>3. NamedOK'
    BY <1>1, <1>2 DEF NamedOK, Rest
  <1>4. ClosedOK'
    BY <1>1 DEF ClosedOK, InventoryEmpty, Containers, Container, Kind, Rest
  <1> QED BY <1>1, <1>2, <1>3, <1>4, RestKeeps DEF TypeOK

-----------------------------------------------------------------------------
(* The theorems.                                                           *)

LEMMA InitInv == Init => SInv
  <1> SUFFICES ASSUME Init PROVE SInv
    OBVIOUS
  <1>1. /\ docker = {} /\ born = <<>> /\ journal = Empty /\ up = {} /\ fence = None
        /\ mem = [p \in Procs |-> Empty] /\ task = [w \in Works |-> Idle]
        /\ cache = [p \in Procs |-> None] /\ recipes = {} /\ latch = FALSE
        /\ closed = FALSE /\ attempts = [w \in Works |-> 0] /\ crashes = 0
        /\ crossed = FALSE /\ named = 0
    BY DEF Init
  <1>2. Empty \in Registry /\ journal.intents = {} /\ journal.res = {} /\ journal.flagged = {}
    BY <1>1 DEF Empty, Registry
  <1>3. DOMAIN born = {} /\ Len(born) = 0
    BY <1>1
  <1>4. TypeOK
    <2>1. born \in Seq([kind : {"image", "container"}, work : Works])
      BY <1>1
    <2>2. /\ 0 \in 0 .. MaxMade /\ 0 \in 0 .. MaxCrashes
          /\ attempts \in [Works -> 0 .. MaxAttempts]
      BY <1>1, Bounds
    <2>3. /\ mem \in [Procs -> Registry] /\ task \in [Works -> Tasks]
          /\ cache \in [Procs -> Ids \cup {None}]
      BY <1>1, <1>2, IdleIs
    <2> QED BY <1>1, <1>2, <1>3, <2>1, <2>2, <2>3 DEF TypeOK
  <1>5. LiveOK /\ OwnOK
    BY <1>1, IdleIs DEF LiveOK, OwnOK, Busy
  <1>6. FenceOK /\ NamedOK
    BY <1>1, IdleIs, Bounds DEF FenceOK, NamedOK, Holding, Making, Reserving
  <1>7. ImagesOK
    BY <1>1 DEF ImagesOK
  <1>8. WorkOK
    BY <1>1, IdleIs DEF WorkOK
  <1>9. KnowsOK
    BY <1>1, IdleIs DEF KnowsOK
  <1>10. AloneOK /\ RegistryOK /\ ClosedOK
    BY <1>1, <1>2 DEF AloneOK, RegistryOK, ClosedOK
  <1> QED BY <1>4, <1>5, <1>6, <1>7, <1>8, <1>9, <1>10 DEF SInv, Basic, Sound

LEMMA NextKeeps == SInv /\ [Next]_vars => SInv'
  <1> SUFFICES ASSUME SInv, [Next]_vars PROVE SInv'
    OBVIOUS
  <1>1. ASSUME NEW w \in Works, WorkStep(w) PROVE SInv'
    BY <1>1, NextStageKeeps, InspectKeeps, RemoveKeeps, DropKeeps, OpenKeeps, AdmitKeeps,
       ReserveKeeps, PrepareImageKeeps, BuildKeeps, RegisterImageKeeps, PublishRecipeKeeps,
       CreateContainerKeeps, RegisterContainerKeeps, UndoInspectKeeps, UndoRemoveKeeps,
       UndoDropKeeps, UndoUnknownKeeps, StartKeeps, UnstartKeeps, SessionKeeps,
       CleanupRemoveKeeps, CleanupDoneKeeps, CleanupFailsKeeps
       DEF WorkStep
  <1>2. CASE UNCHANGED vars
    <2>1. /\ Rest /\ latch' = latch /\ closed' = closed /\ named' = named
      BY <1>2 DEF vars, history, Rest
    <2>2. NamedOK'
      BY <2>1 DEF Rest, SInv, Basic, NamedOK
    <2>3. ~crossed => ClosedOK'
      BY <2>1 DEF Rest, SInv, Sound, ClosedOK, Containers, Container, Kind
    <2>4. latch' \in BOOLEAN /\ closed' \in BOOLEAN /\ named' \in 0 .. MaxMade
      BY <2>1 DEF SInv, Basic, TypeOK
    <2> QED BY <2>1, <2>2, <2>3, <2>4, RestKeeps
  <1> QED
    BY <1>1, <1>2, BeginKeeps, LaunchKeeps, CrashKeeps, RequestCancelKeeps,
       CloseInventoryKeeps DEF Next

(* The inductive invariant holds in every state.                           *)
THEOREM SandboxInvariant == Spec => []SInv
  BY InitInv, NextKeeps, PTL DEF Spec

(* Every variable has its type, and what exists in Docker is named by the  *)
(* journal until a reconciliation looks at a creation under way or two     *)
(* processes run (OwnedResourceRegistry).                                  *)
THEOREM TrackedHolds == Spec => []Tracked
  <1>1. SInv => Tracked
    BY DEF SInv, Basic, Sound, RegistryOK, Tracked
  <1> QED BY <1>1, SandboxInvariant, PTL

(* A published work left no container in Docker, whatever the other slots  *)
(* and processes did (cleanup and _cleanup_owned_resources).               *)
THEOREM FinalizedCleanHolds == Spec => []FinalizedClean
  <1>1. ASSUME SInv, NEW w \in Works, task[w].pc = "done",
               NEW n \in task[w].made, Container(n)
        PROVE  n \notin docker /\ (crossed \/ n \notin journal.res)
    <2>1. n \in Containers(task[w].made)
      BY <1>1 DEF Containers
    <2>2. Containers(task[w].made) \cap docker = {}
      BY <1>1 DEF SInv, Basic, WorkOK, UseOK
    <2>3. ~crossed => Containers(task[w].made) \cap journal.res = {}
      BY <1>1 DEF SInv, Sound, KnowsOK, Knows
    <2> QED BY <2>1, <2>2, <2>3
  <1>2. SInv => FinalizedClean
    BY <1>1 DEF FinalizedClean
  <1> QED BY <1>2, SandboxInvariant, PTL

(* A published baseline image stays in Docker and in the journal until a   *)
(* reconciliation looks at a creation under way or two processes run       *)
(* (preservation_reason REUSABLE_BASELINE).                                *)
THEOREM BaselineKeptHolds == Spec => []BaselineKept
  <1>1. SInv => BaselineKept
    BY DEF SInv, Basic, ImagesOK, Sound, RegistryOK, BaselineKept
  <1> QED BY <1>1, SandboxInvariant, PTL

(* A cancelled run names at most one more resource, in whichever process,  *)
(* and once a drain has found the inventory empty no other container       *)
(* exists (creation_fence and validate_inventory).                         *)
THEOREM CancelBoundedHolds == Spec => []CancelBounded
  <1>1. ASSUME SInv PROVE CancelBounded
    <2>1. NamedOK /\ TypeOK
      BY <1>1 DEF SInv, Basic
    <2>2. ASSUME closed, ~crossed, NEW n \in docker, Container(n) PROVE n = named + 1
      <3>1. n > named
        BY <1>1, <2>2 DEF SInv, Sound, RegistryOK, ClosedOK, Containers
      <3>2. n \in 1 .. Len(born)
        BY <2>1, <2>2, Named DEF TypeOK
      <3>3. Len(born) <= named + 1 /\ Len(born) \in Nat /\ named \in Nat
        BY <2>1, <2>2 DEF NamedOK, TypeOK
      <3> QED BY <3>1, <3>2, <3>3
    <2> QED BY <2>1, <2>2 DEF CancelBounded, NamedOK
  <1>2. SInv => CancelBounded
    BY <1>1
  <1> QED BY <1>2, SandboxInvariant, PTL
=============================================================================
