----------------------------- MODULE StatusProofs -----------------------------
(***************************************************************************)
(* What a status tells, and what it keeps: a ready status is true, a       *)
(* sticky component keeps its artifact, and the finalizer holds whatever   *)
(* is deployed. Then, with dependencies that do not change: cycles stay    *)
(* down, and nothing is torn down under a component that builds on it.     *)
(***************************************************************************)
EXTENDS OrderedRolloutProofs

(* A component whose objects may be deployed, or that a worker saw with    *)
(* its finalizer, is still on the cluster, under its finalizer; no worker  *)
(* applies without having seen or set it.                                  *)
Finalizing(c) ==
  /\ deployed[c] # None => components[c].exists /\ components[c].finalizer
  /\ pc[c] # "idle" =>
       /\ worker[c].finalizer => components[c].exists /\ components[c].finalizer
       /\ worker[c].generation = components[c].generation => components[c].exists
  /\ pc[c] = "check" => worker[c].finalizer

(* A worker that may apply has attempted an artifact the component         *)
(* accepts; one that is to report ready has applied it. No status is of a  *)
(* later generation than the running worker's copy, so a status update     *)
(* that was refused leaves no ready status behind.                         *)
Truthful(c) ==
  LET live == components[c]
      copy == worker[c]
  IN  /\ IsReady(live) =>
           /\ PostRead(live, live.status.lastApplied)
           /\ live.status.lastApplied = live.status.lastAttempted
           /\ deployed[c] = Attempt(live) \/ c \in queue \/ pc[c] # "idle"
      /\ pc[c] # "idle" => live.status.observedGeneration <= copy.generation
      /\ pc[c] = "check" => PostRead(copy, copy.status.lastAttempted)
      /\ pc[c] = "finish" /\ copy.status.ready =>
           /\ PostRead(copy, copy.status.lastApplied)
           /\ copy.status.lastApplied = copy.status.lastAttempted

(* An artifact is known while a component is processing. *)
Holds(object) == IsComponentProcessing(object) => object.status.sourceRef # NoArtifact

(* A worker loads with the status it has read; what it then attempts is    *)
(* the artifact a sticky processing component already has.                 *)
Sticking(c) ==
  LET live == components[c]
      copy == worker[c]
  IN  /\ Holds(live)
      /\ pc[c] # "idle" => Holds(copy)
      /\ pc[c] = "check" => copy.status.sourceRef # NoArtifact
      /\ pc[c] = "load" /\ copy.generation = live.generation =>
           copy.status = live.status
      /\ /\ pc[c] = "check"
         /\ copy.generation = live.generation
         /\ live.spec.sticky
         /\ IsComponentProcessing(live)
         => copy.status.lastAttempted = live.status.sourceRef

StatusKept(c) == Finalizing(c) /\ Truthful(c) /\ Sticking(c)

StatusInv == ReportInv /\ \A c \in Component : StatusKept(c)
-----------------------------------------------------------------------------

LEMMA OthersKept ==
  ASSUME StatusInv, NEW c \in Component, OthersStay(c), StatusKept(c)',
         \A x \in Component \ {c} : x \in queue => x \in queue'
  PROVE  \A x \in Component : StatusKept(x)'
<1> SUFFICES ASSUME NEW x \in Component, x # c
             PROVE  StatusKept(x)'
  OBVIOUS
<1>1. StatusKept(x)
  BY DEF StatusInv
<1>2. /\ components'[x] = components[x] /\ pc'[x] = pc[x]
      /\ worker'[x] = worker[x] /\ deployed'[x] = deployed[x]
      /\ x \in queue => x \in queue'
  BY DEF OthersStay
<1>3. Finalizing(x)'
  BY <1>1, <1>2 DEF StatusKept, Finalizing
<1>4. Truthful(x)'
  BY <1>1, <1>2 DEF StatusKept, Truthful, IsReady, Attempt, PostRead
<1>5. Sticking(x)'
  BY <1>1, <1>2 DEF StatusKept, Sticking, Holds, IsComponentProcessing
<1> QED BY <1>3, <1>4, <1>5 DEF StatusKept

(* Steps no component and no worker takes part in. *)
LEMMA NothingTold ==
  ASSUME StatusInv, UNCHANGED <<components, pc, worker, deployed>>, queue \subseteq queue'
  PROVE  \A x \in Component : StatusKept(x)'
<1> SUFFICES ASSUME NEW x \in Component
             PROVE  StatusKept(x)'
  OBVIOUS
<1>1. StatusKept(x)
  BY DEF StatusInv
<1>2. Finalizing(x)'
  BY <1>1 DEF StatusKept, Finalizing
<1>3. Truthful(x)'
  BY <1>1 DEF StatusKept, Truthful, IsReady, Attempt, PostRead
<1>4. Sticking(x)'
  BY <1>1 DEF StatusKept, Sticking, Holds, IsComponentProcessing
<1> QED BY <1>2, <1>3, <1>4 DEF StatusKept

LEMMA CrashKept ==
  ASSUME StatusInv, Crash
  PROVE  \A x \in Component : StatusKept(x)'
<1> SUFFICES ASSUME NEW x \in Component
             PROVE  StatusKept(x)'
  OBVIOUS
<1>1. StatusKept(x)
  BY DEF StatusInv
<1>2. /\ UNCHANGED <<components, deployed>>
      /\ pc'[x] = "idle"
      /\ components[x].exists => x \in queue'
  BY DEF Crash, clusterVars
<1>3. Finalizing(x)'
  BY <1>1, <1>2 DEF StatusKept, Finalizing
<1>4. Truthful(x)'
  BY <1>1, <1>2 DEF StatusKept, Truthful, IsReady, Attempt, PostRead
<1>5. Sticking(x)'
  BY <1>1, <1>2 DEF StatusKept, Sticking, Holds, IsComponentProcessing
<1> QED BY <1>3, <1>4, <1>5 DEF StatusKept

LEMMA InitKept == Init => StatusInv
<1> SUFFICES ASSUME Init PROVE StatusInv
  OBVIOUS
<1>1. ASSUME NEW c \in Component
      PROVE  StatusKept(c)
  <2>1. PICK spec : components = [x \in Component |->
                          IF x \in Initial THEN NewObject(spec[x], 1)
                          ELSE RemovedObject(NewObject(spec[x], 0))]
    BY DEF Init
  <2>2. components[c].status = NewStatus
    BY <2>1 DEF NewObject, RemovedObject
  <2>3. pc[c] = "idle" /\ deployed[c] = None
    BY DEF Init
  <2>4. ~components[c].status.ready /\ components[c].status.processing = "no"
    BY <2>2 DEF NewStatus
  <2> QED
    BY <2>3, <2>4 DEF StatusKept, Finalizing, Truthful, Sticking, Holds, IsReady,
                      IsComponentProcessing
<1> QED BY <1>1, InitReport DEF StatusInv

(* A request leaves the status behind: it is of an older generation than   *)
(* the component, and so is every worker.                                  *)
LEMMA RequestKept ==
  ASSUME TypeOK, StatusInv, NEW c \in Component, NEW object \in Object,
         components' = [components EXCEPT ![c] = object],
         object.generation = components[c].generation + 1,
         object.status \in {components[c].status, NewStatus},
         components[c].exists /\ components[c].finalizer =>
           object.exists /\ object.finalizer,
         UNCHANGED <<pc, worker, deployed, applied, queue>>
  PROVE  \A x \in Component : StatusKept(x)'
<1>1. components'[c] = object /\ OthersStay(c)
  BY DEF TypeOK, OthersStay
<1>2. /\ StatusKept(c) /\ WorkerCopy(c)
      /\ components[c].status.observedGeneration <= components[c].generation
  BY DEF StatusInv, ReportInv, OrderInv, ComponentOrder
<1>3. /\ components[c].generation \in Nat
      /\ components[c].status.observedGeneration \in Nat
      /\ pc[c] # "idle" => worker[c].generation \in Nat
  BY DEF TypeOK, Object, ComponentStatus
<1>4. /\ object.status.observedGeneration \in Nat
      /\ object.status.observedGeneration <= components[c].status.observedGeneration
      /\ object.status.processing \in {components[c].status.processing, "no"}
      /\ object.status.processing = "running" =>
           object.status.sourceRef = components[c].status.sourceRef
  BY <1>3 DEF NewStatus
<1>5. pc[c] # "idle" => worker[c].generation # object.generation
  BY <1>2, <1>3 DEF WorkerCopy
<1>6. object.status.observedGeneration # object.generation
  BY <1>2, <1>3, <1>4
<1>7. Finalizing(c)'
  BY <1>1, <1>2, <1>5 DEF StatusKept, Finalizing
<1>8. Truthful(c)'
  <2>1. pc[c] # "idle" => object.status.observedGeneration <= worker[c].generation
    BY <1>2, <1>3, <1>4 DEF StatusKept, Truthful
  <2> QED BY <1>1, <1>2, <1>6, <2>1 DEF StatusKept, Truthful, IsReady, PostRead
<1>9. Sticking(c)'
  BY <1>1, <1>2, <1>4, <1>5 DEF StatusKept, Sticking, Holds, IsComponentProcessing
<1>10. StatusKept(c)'
  BY <1>7, <1>8, <1>9 DEF StatusKept
<1> QED BY <1>1, <1>10, OthersKept

LEMMA UserKept ==
  ASSUME TypeOK, StatusInv, NEW c \in Component, User(c)
  PROVE  \A x \in Component : StatusKept(x)'
<1> USE DEF queueVars, workerVars, clusterVars
<1>1. components[c] \in Object /\ components[c].generation \in Nat
  BY DEF TypeOK, Object
<1>2. ASSUME NEW spec \in Specs[c], Create(c, spec)
      PROVE  \A x \in Component : StatusKept(x)'
  <2> DEFINE object == NewObject(spec, components[c].generation + 1)
  <2>1. object \in Object
    BY <1>1, ObjectTypes, RolloutAssumption
  <2>2. /\ object.generation = components[c].generation + 1
        /\ object.status = NewStatus
        /\ ~components[c].exists
        /\ components' = [components EXCEPT ![c] = object]
        /\ UNCHANGED <<pc, worker, deployed, applied, queue>>
    BY <1>2 DEF Create, NewObject
  <2> HIDE DEF object
  <2> QED BY <2>1, <2>2, RequestKept
<1>3. ASSUME NEW spec \in Specs[c], EditSpec(c, spec)
      PROVE  \A x \in Component : StatusKept(x)'
  <2> DEFINE object == [components[c] EXCEPT !.spec = spec, !.generation = @ + 1]
  <2>1. object \in Object
    BY <1>1, RequestTypes, RolloutAssumption
  <2>2. /\ object.generation = components[c].generation + 1
        /\ object.status = components[c].status
        /\ object.exists = components[c].exists
        /\ object.finalizer = components[c].finalizer
    BY <1>1 DEF Object
  <2>3. /\ components' = [components EXCEPT ![c] = object]
        /\ UNCHANGED <<pc, worker, deployed, applied, queue>>
    BY <1>3 DEF EditSpec, TypeOK
  <2> HIDE DEF object
  <2> QED BY <2>1, <2>2, <2>3, RequestKept
<1>4. ASSUME DeleteComponent(c)
      PROVE  \A x \in Component : StatusKept(x)'
  <2> DEFINE object == Deleted(components[c])
  <2>1. object \in Object
    BY <1>1, DeletedType
  <2>2. /\ object.generation = components[c].generation + 1
        /\ object.status \in {components[c].status, NewStatus}
        /\ components[c].exists /\ components[c].finalizer =>
             object.exists /\ object.finalizer
    BY <1>1 DEF Deleted, RemovedObject, Object
  <2>3. /\ components' = [components EXCEPT ![c] = object]
        /\ UNCHANGED <<pc, worker, deployed, applied, queue>>
    BY <1>4 DEF DeleteComponent
  <2> HIDE DEF object
  <2> QED BY <2>1, <2>2, <2>3, RequestKept
<1> QED BY <1>2, <1>3, <1>4 DEF User

-----------------------------------------------------------------------------

LEMMA StartKept ==
  ASSUME TypeOK, StatusInv, NEW c \in Component, Start(c)
  PROVE  \A x \in Component : StatusKept(x)'
<1>1. StatusKept(c) /\ components[c].status.observedGeneration <= components[c].generation
  BY DEF StatusInv, ReportInv, OrderInv, ComponentOrder
<1>2. /\ queue' = queue \ {c}
      /\ UNCHANGED <<components, deployed, applied>>
  BY DEF Start, apiVars, clusterVars
<1>3. CASE components[c].exists
  <2>1. pc'[c] = "load" /\ worker'[c] = components[c] /\ OthersStay(c)
    BY <1>2, <1>3 DEF Start, TypeOK, OthersStay
  <2>2. Finalizing(c)'
    BY <1>1, <1>2, <1>3, <2>1 DEF StatusKept, Finalizing
  <2>3. Truthful(c)'
    BY <1>1, <1>2, <2>1 DEF StatusKept, Truthful, IsReady, PostRead
  <2>4. Sticking(c)'
    BY <1>1, <1>2, <2>1 DEF StatusKept, Sticking, Holds, IsComponentProcessing
  <2>5. StatusKept(c)'
    BY <2>2, <2>3, <2>4 DEF StatusKept
  <2> QED BY <1>2, <2>1, <2>5, OthersKept
<1>4. CASE ~components[c].exists
  <2>1. UNCHANGED <<pc, worker>> /\ OthersStay(c)
    BY <1>2, <1>4 DEF Start, OthersStay
  <2>2. Finalizing(c)'
    BY <1>1, <1>2, <2>1 DEF StatusKept, Finalizing
  <2>3. Truthful(c)'
    BY <1>1, <1>2, <1>4, <2>1 DEF StatusKept, Truthful, IsReady, PostRead
  <2>4. Sticking(c)'
    BY <1>1, <1>2, <2>1 DEF StatusKept, Sticking, Holds, IsComponentProcessing
  <2>5. StatusKept(c)'
    BY <2>2, <2>3, <2>4 DEF StatusKept
  <2> QED BY <1>2, <2>1, <2>5, OthersKept
<1> QED BY <1>3, <1>4

(* A worker that fails reports nothing; it may have deployed before, but   *)
(* only what it checked, or have torn down.                                *)
LEMMA FailKept ==
  ASSUME TypeOK, StatusInv, NEW c \in Component, NEW object \in Object,
         pc[c] # "idle", Fail(c, object),
         object.generation = worker[c].generation,
         object.finalizer = worker[c].finalizer,
         Holds(object),
         UNCHANGED <<components, applied, queue>>,
         \A x \in Component \ {c} : deployed'[x] = deployed[x],
         deployed'[c] \in {deployed[c], None} \/ pc[c] = "check"
  PROVE  \A x \in Component : StatusKept(x)'
<1>1. StatusKept(c)
  BY DEF StatusInv
<1>2. /\ pc'[c] = "finish"
      /\ worker'[c].generation = worker[c].generation
      /\ worker'[c].finalizer = worker[c].finalizer
      /\ ~worker'[c].status.ready
      /\ worker'[c].status.processing = object.status.processing
      /\ worker'[c].status.sourceRef = object.status.sourceRef
  BY DEF Fail, TypeOK, Object, ComponentStatus
<1>3. OthersStay(c)
  BY DEF Fail, TypeOK, OthersStay
<1>4. Finalizing(c)'
  BY <1>1, <1>2 DEF StatusKept, Finalizing
<1>5. Truthful(c)'
  BY <1>1, <1>2 DEF StatusKept, Truthful, IsReady, PostRead
<1>6. Sticking(c)'
  BY <1>1, <1>2 DEF StatusKept, Sticking, Holds, IsComponentProcessing
<1>7. StatusKept(c)'
  BY <1>4, <1>5, <1>6 DEF StatusKept
<1> QED BY <1>3, <1>7, OthersKept

LEMMA LoadFailsKept ==
  ASSUME TypeOK, StatusInv, NEW c \in Component, LoadFails(c)
  PROVE  \A x \in Component : StatusKept(x)'
<1>1. /\ worker[c] \in Object /\ pc[c] # "idle"
      /\ UNCHANGED <<components, applied, queue, deployed>>
  BY DEF LoadFails, TypeOK, apiVars, queueVars, clusterVars
<1>2. Holds(worker[c])
  BY <1>1 DEF StatusInv, StatusKept, Sticking
<1>3. CASE Fail(c, worker[c])
  BY <1>1, <1>2, <1>3, FailKept
<1>4. CASE LoadedArtifact(c) # NoArtifact /\ Fail(c, Loaded(c))
  <2>1. /\ Loaded(c) \in Object
        /\ Loaded(c).generation = worker[c].generation
        /\ Loaded(c).finalizer = worker[c].finalizer
        /\ Loaded(c).status.sourceRef = LoadedArtifact(c)
    BY <1>1, LoadedType DEF Loaded, Object, ComponentStatus
  <2>2. Holds(Loaded(c))
    BY <1>4, <2>1 DEF Holds
  <2> QED BY <1>1, <1>4, <2>1, <2>2, FailKept
<1> QED BY <1>3, <1>4 DEF LoadFails

(* The finalizer is in place before the rollout begins, the artifact is    *)
(* one the component accepts, and a sticky component that is processing    *)
(* begins with the artifact of its status.                                 *)
LEMMA LoadKept ==
  ASSUME TypeOK, StatusInv, NEW c \in Component, LoadSucceeds(c)
  PROVE  \A x \in Component : StatusKept(x)'
<1>1. /\ worker[c] \in Object /\ components[c] \in Object /\ pc[c] = "load"
      /\ UNCHANGED <<applied, queue, deployed>>
      /\ LoadedArtifact(c) # NoArtifact
      /\ PostRead(worker[c], LoadedArtifact(c))
      /\ StatusKept(c) /\ WorkerCopy(c)
  BY DEF LoadSucceeds, TypeOK, queueVars, clusterVars, StatusInv, ReportInv,
         OrderInv, ComponentOrder
<1> DEFINE changed == /\ ~worker[c].finalizer
                      /\ components[c].generation # worker[c].generation
<1>2. CASE changed
  <2>1. /\ Fail(c, Loaded(c)) /\ UNCHANGED components
        /\ Loaded(c) \in Object
        /\ Loaded(c).generation = worker[c].generation
        /\ Loaded(c).finalizer = worker[c].finalizer
        /\ Loaded(c).status.sourceRef = LoadedArtifact(c)
    BY <1>1, <1>2, LoadedType DEF LoadSucceeds, Loaded, Object, ComponentStatus
  <2>2. Holds(Loaded(c))
    BY <1>1, <2>1 DEF Holds
  <2> QED BY <1>1, <2>1, <2>2, FailKept
<1>3. CASE ~changed
  <2>1. /\ worker' = [worker EXCEPT ![c] = Begun(c)]
        /\ components' = IF worker[c].finalizer THEN components
                         ELSE [components EXCEPT ![c] = Finalized(@)]
        /\ pc' = [pc EXCEPT ![c] = "check"]
    BY <1>3 DEF LoadSucceeds, Begun
  <2>2. /\ pc'[c] = "check" /\ worker'[c] = Begun(c)
        /\ OthersStay(c)
    BY <1>1, <2>1 DEF TypeOK, OthersStay
  <2>3. /\ components'[c].exists = components[c].exists
        /\ components'[c].generation = components[c].generation
        /\ components'[c].spec = components[c].spec
        /\ components'[c].status = components[c].status
        /\ components'[c].finalizer = (worker[c].finalizer => components[c].finalizer)
    BY <1>1, <2>1 DEF Finalized, TypeOK, Object
  <2>4. Finalizing(c)'
    <3>1. components[c].exists
      BY <1>1, <1>3 DEF StatusKept, Finalizing
    <3>2. components'[c].finalizer
      BY <1>1, <2>3 DEF StatusKept, Finalizing
    <3> QED BY <1>1, <2>2, <2>3, <3>1, <3>2, BegunType DEF Finalizing
  <2>5. Truthful(c)'
    <3>1. PostRead(Begun(c), Begun(c).status.lastAttempted)
      BY <1>1, BegunType DEF PostRead
    <3>2. Begun(c).generation = worker[c].generation
      BY <1>1, BegunType
    <3> QED
      BY <1>1, <2>2, <2>3, <3>1, <3>2 DEF StatusKept, Truthful, IsReady, PostRead
  <2>6. Sticking(c)'
    <3>1. Holds(components[c])'
      BY <1>1, <2>3 DEF StatusKept, Sticking, Holds, IsComponentProcessing
    <3>2. Begun(c).status.sourceRef # NoArtifact
      BY <1>1, BegunType
    <3>3. ASSUME worker[c].generation = components[c].generation,
                 components[c].spec.sticky,
                 IsComponentProcessing(components[c])
          PROVE  LoadedArtifact(c) = components[c].status.sourceRef
      <4>1. /\ worker[c].status = components[c].status
            /\ worker[c].spec = components[c].spec
        BY <1>1, <3>3 DEF StatusKept, Sticking, WorkerCopy
      <4>2. KeepsArtifact(worker[c])
        BY <1>1, <3>3, <4>1
        DEF StatusKept, Sticking, Holds, KeepsArtifact, IsComponentProcessing
      <4> QED BY <4>1, <4>2 DEF LoadedArtifact
    <3> QED
      BY <1>1, <2>2, <2>3, <3>1, <3>2, <3>3, BegunType
      DEF Sticking, Holds, IsComponentProcessing
  <2>7. StatusKept(c)'
    BY <2>4, <2>5, <2>6 DEF StatusKept
  <2> QED BY <1>1, <2>2, <2>7, OthersKept
<1> QED BY <1>2, <1>3

LEMMA CheckKept ==
  ASSUME TypeOK, StatusInv, NEW c \in Component, NEW d \in Component,
         CheckDependency(c, d)
  PROVE  \A x \in Component : StatusKept(x)'
<1>1. /\ worker[c] \in Object /\ pc[c] # "idle"
      /\ UNCHANGED <<components, applied, queue, deployed>>
  BY DEF CheckDependency, TypeOK, apiVars, queueVars, clusterVars
<1>2. CASE Fail(c, worker[c])
  <2>1. Holds(worker[c])
    BY <1>1 DEF StatusInv, StatusKept, Sticking
  <2> QED BY <1>1, <1>2, <2>1, FailKept
<1>3. CASE UNCHANGED <<pc, worker>>
  BY <1>1, <1>3, NothingTold
<1> QED BY <1>2, <1>3 DEF CheckDependency

LEMMA ApplyReadyKept ==
  ASSUME TypeOK, StatusInv, NEW c \in Component, ApplyReady(c)
  PROVE  \A x \in Component : StatusKept(x)'
<1>1. /\ worker[c] \in Object /\ pc[c] = "check"
      /\ deployed' = [deployed EXCEPT ![c] = Attempt(worker[c])]
      /\ UNCHANGED <<components, applied, queue>>
      /\ StatusKept(c)
  BY DEF ApplyReady, TypeOK, apiVars, queueVars, StatusInv
<1>2. worker'[c] = Completed(worker[c]) /\ pc'[c] = "finish" /\ OthersStay(c)
  BY <1>1 DEF ApplyReady, TypeOK, OthersStay
<1>3. /\ Completed(worker[c]).generation = worker[c].generation
      /\ Completed(worker[c]).finalizer = worker[c].finalizer
      /\ Completed(worker[c]).spec = worker[c].spec
      /\ Completed(worker[c]).status.lastAttempted = worker[c].status.lastAttempted
      /\ Completed(worker[c]).status.lastApplied = worker[c].status.lastAttempted
      /\ Completed(worker[c]).status.processing = "no"
  BY <1>1 DEF Completed, PostReconcile, Object, ComponentStatus
<1>4. Finalizing(c)'
  BY <1>1, <1>2, <1>3 DEF StatusKept, Finalizing
<1>5. Truthful(c)'
  BY <1>1, <1>2, <1>3 DEF StatusKept, Truthful, IsReady, PostRead
<1>6. Sticking(c)'
  BY <1>1, <1>2, <1>3 DEF StatusKept, Sticking, Holds, IsComponentProcessing
<1>7. StatusKept(c)'
  BY <1>4, <1>5, <1>6 DEF StatusKept
<1> QED BY <1>1, <1>2, <1>7, OthersKept

LEMMA ApplyUnreadyKept ==
  ASSUME TypeOK, StatusInv, NEW c \in Component, ApplyUnready(c)
  PROVE  \A x \in Component : StatusKept(x)'
<1> DEFINE running == [worker[c] EXCEPT !.status.processing = "running"]
<1>1. /\ worker[c] \in Object /\ pc[c] = "check"
      /\ UNCHANGED <<components, applied, queue>>
      /\ \A x \in Component \ {c} : deployed'[x] = deployed[x]
      /\ worker[c].status.sourceRef # NoArtifact
  BY DEF ApplyUnready, TypeOK, apiVars, queueVars, StatusInv, StatusKept, Sticking
<1>2. Fail(c, worker[c]) \/ Fail(c, running)
  BY DEF ApplyUnready
<1>3. /\ running \in Object
      /\ running.generation = worker[c].generation
      /\ running.finalizer = worker[c].finalizer
      /\ running.status.sourceRef = worker[c].status.sourceRef
  BY <1>1, StatusTypes DEF Object, ComponentStatus
<1>4. Holds(worker[c]) /\ Holds(running)
  BY <1>1, <1>3 DEF Holds
<1> HIDE DEF running
<1>5. CASE Fail(c, worker[c])
  BY <1>1, <1>4, <1>5, FailKept
<1>6. CASE Fail(c, running)
  BY <1>1, <1>3, <1>4, <1>6, FailKept
<1> QED BY <1>2, <1>5, <1>6

(* The status update is refused when the component has moved on, and then  *)
(* no ready status of this generation can be there; otherwise what the     *)
(* worker says becomes the status.                                         *)
LEMMA FinishKept ==
  ASSUME TypeOK, StatusInv, NEW c \in Component, FinishReconcile(c)
  PROVE  \A x \in Component : StatusKept(x)'
<1>1. /\ worker[c] \in Object /\ components[c] \in Object
      /\ pc[c] = "finish" /\ pc' = [pc EXCEPT ![c] = "idle"]
      /\ worker' = [worker EXCEPT ![c] = None]
      /\ UNCHANGED <<deployed, queue>>
      /\ StatusKept(c) /\ ReportsDeployed(c) /\ WorkerCopy(c)
  BY DEF FinishReconcile, TypeOK, StatusInv, ReportInv, OrderInv, ComponentOrder
<1>2. PICK p \in {worker[c].status.processing} \cup
                   (IF IsComponentProcessing(worker[c]) THEN {"timedOut"} ELSE {}) :
        LET status == [worker[c].status EXCEPT
                         !.observedGeneration = worker[c].generation,
                         !.processing = p]
        IN  IF components[c].exists /\ components[c].generation = worker[c].generation
              THEN /\ components' = [components EXCEPT ![c].status = status]
                   /\ applied' = IF status.ready
                        THEN [applied EXCEPT ![c] = @ \cup {Attempt(worker[c])}]
                        ELSE applied
              ELSE UNCHANGED <<components, applied>>
  BY DEF FinishReconcile
<1>3. pc'[c] = "idle"
  BY <1>1 DEF TypeOK
<1> DEFINE status == [worker[c].status EXCEPT
                        !.observedGeneration = worker[c].generation,
                        !.processing = p]
           current == /\ components[c].exists
                      /\ components[c].generation = worker[c].generation
<1>4. CASE ~current
  <2>1. UNCHANGED <<components, applied>>
    BY <1>2, <1>4
  <2>2. OthersStay(c)
    BY <1>1, <2>1 DEF OthersStay, TypeOK
  <2>3. ~IsReady(components[c])
    <3>1. /\ components[c].status.observedGeneration <= worker[c].generation
          /\ worker[c].generation <= components[c].generation
      BY <1>1 DEF StatusKept, Truthful, WorkerCopy
    <3>2. /\ components[c].status.observedGeneration \in Nat
          /\ worker[c].generation \in Nat
          /\ components[c].generation \in Nat
      BY <1>1 DEF Object, ComponentStatus
    <3> QED BY <1>4, <3>1, <3>2 DEF IsReady
  <2>4. Finalizing(c)'
    BY <1>1, <1>3, <2>1 DEF StatusKept, Finalizing
  <2>5. Truthful(c)'
    BY <1>3, <2>1, <2>3 DEF Truthful, IsReady
  <2>6. Sticking(c)'
    BY <1>1, <1>3, <2>1 DEF StatusKept, Sticking, Holds, IsComponentProcessing
  <2>7. StatusKept(c)'
    BY <2>4, <2>5, <2>6 DEF StatusKept
  <2> QED BY <1>1, <2>2, <2>7, OthersKept
<1>5. CASE current
  <2>1. /\ components' = [components EXCEPT ![c].status = status]
        /\ \A x \in Component \ {c} : applied'[x] = applied[x]
    BY <1>2, <1>5 DEF TypeOK
  <2>2. /\ status.ready = worker[c].status.ready
        /\ status.processing \in {worker[c].status.processing, "timedOut"}
        /\ status.sourceRef = worker[c].status.sourceRef
        /\ status.lastAttempted = worker[c].status.lastAttempted
        /\ status.lastApplied = worker[c].status.lastApplied
    BY <1>1 DEF Object, ComponentStatus
  <2> HIDE DEF status
  <2>3. /\ components'[c].status = status
        /\ components'[c].exists = components[c].exists
        /\ components'[c].finalizer = components[c].finalizer
        /\ components'[c].spec = worker[c].spec
        /\ \A x \in Component \ {c} : components'[x] = components[x]
    BY <1>1, <1>5, <2>1 DEF WorkerCopy, TypeOK, Object
  <2>4. OthersStay(c)
    BY <1>1, <2>1, <2>3 DEF OthersStay, TypeOK
  <2>5. Finalizing(c)'
    BY <1>1, <1>3, <2>3 DEF StatusKept, Finalizing
  <2>6. Truthful(c)'
    <3> SUFFICES ASSUME worker[c].status.ready
                 PROVE  /\ PostRead(components[c], components[c].status.lastApplied)'
                        /\ (components[c].status.lastApplied =
                              components[c].status.lastAttempted)'
                        /\ deployed'[c] = Attempt(components'[c])
      BY <1>3, <2>2, <2>3 DEF Truthful, IsReady
    <3>1. deployed[c] = Attempt(worker[c])
      BY <1>1 DEF ReportsDeployed
    <3>2. Attempt(components'[c]) = Attempt(worker[c])
      BY <2>2, <2>3 DEF Attempt
    <3> QED BY <1>1, <2>2, <2>3, <3>1, <3>2 DEF StatusKept, Truthful, PostRead
  <2>7. Sticking(c)'
    BY <1>1, <1>3, <2>2, <2>3 DEF StatusKept, Sticking, Holds, IsComponentProcessing
  <2>8. StatusKept(c)'
    BY <2>5, <2>6, <2>7 DEF StatusKept
  <2> QED BY <1>1, <2>4, <2>8, OthersKept
<1> QED BY <1>4, <1>5

LEMMA PreDeleteKept ==
  ASSUME TypeOK, StatusInv, NEW c \in Component, PreDelete(c)
  PROVE  \A x \in Component : StatusKept(x)'
<1>1. /\ worker[c] \in Object /\ pc[c] = "load" /\ StatusKept(c)
      /\ UNCHANGED <<components, applied, queue, deployed>>
  BY DEF PreDelete, TypeOK, apiVars, queueVars, clusterVars, StatusInv
<1>2. CASE Fail(c, worker[c])
  <2>1. Holds(worker[c])
    BY <1>1 DEF StatusKept, Sticking
  <2> QED BY <1>1, <1>2, <2>1, FailKept
<1>3. CASE pc' = [pc EXCEPT ![c] = "delete"] /\ UNCHANGED worker
  <2>1. pc'[c] = "delete" /\ OthersStay(c)
    BY <1>1, <1>3 DEF TypeOK, OthersStay
  <2>2. Finalizing(c)'
    BY <1>1, <1>3, <2>1 DEF StatusKept, Finalizing
  <2>3. Truthful(c)'
    BY <1>1, <1>3, <2>1 DEF StatusKept, Truthful, IsReady, PostRead
  <2>4. Sticking(c)'
    BY <1>1, <1>3, <2>1 DEF StatusKept, Sticking, Holds, IsComponentProcessing
  <2>5. StatusKept(c)'
    BY <2>2, <2>3, <2>4 DEF StatusKept
  <2> QED BY <1>1, <2>1, <2>5, OthersKept
<1> QED BY <1>2, <1>3 DEF PreDelete

(* The finalizer goes after the last dependent object has gone. *)
LEMMA TeardownKept ==
  ASSUME TypeOK, StatusInv, NEW c \in Component, TeardownDone(c)
  PROVE  \A x \in Component : StatusKept(x)'
<1>1. /\ worker[c] \in Object /\ components[c] \in Object /\ pc[c] = "delete"
      /\ deployed' = [deployed EXCEPT ![c] = None]
      /\ UNCHANGED <<applied, queue>>
      /\ StatusKept(c)
  BY DEF TeardownDone, TypeOK, queueVars, StatusInv
<1>2. deployed'[c] = None /\ \A x \in Component \ {c} : deployed'[x] = deployed[x]
  BY <1>1 DEF TypeOK
<1>3. CASE Fail(c, worker[c]) /\ UNCHANGED components
  <2>1. Holds(worker[c])
    BY <1>1 DEF StatusKept, Sticking
  <2> QED BY <1>1, <1>2, <1>3, <2>1, FailKept
<1>4. CASE /\ components' = [components EXCEPT ![c] = RemovedObject(@)]
           /\ pc' = [pc EXCEPT ![c] = "idle"]
           /\ worker' = [worker EXCEPT ![c] = None]
  <2>1. /\ ~components'[c].exists
        /\ components'[c].status = NewStatus
        /\ pc'[c] = "idle"
        /\ OthersStay(c)
    BY <1>1, <1>4 DEF RemovedObject, Object, TypeOK, OthersStay
  <2>2. StatusKept(c)'
    BY <1>2, <2>1 DEF StatusKept, Finalizing, Truthful, Sticking, Holds, IsReady,
                      IsComponentProcessing, NewStatus
  <2> QED BY <1>1, <2>1, <2>2, OthersKept
<1> QED BY <1>3, <1>4 DEF TeardownDone

LEMMA TeardownContinuesKept ==
  ASSUME TypeOK, StatusInv, NEW c \in Component, TeardownContinues(c)
  PROVE  \A x \in Component : StatusKept(x)'
<1>1. /\ worker[c] \in Object /\ pc[c] # "idle" /\ Fail(c, worker[c])
      /\ UNCHANGED <<components, applied, queue, deployed>>
  BY DEF TeardownContinues, TypeOK, apiVars, queueVars, clusterVars
<1>2. Holds(worker[c])
  BY <1>1 DEF StatusInv, StatusKept, Sticking
<1> QED BY <1>1, <1>2, FailKept

LEMMA NextKept == TypeOK /\ StatusInv /\ [Next]_vars => StatusInv'
<1> SUFFICES ASSUME TypeOK, StatusInv, [Next]_vars
             PROVE  \A x \in Component : StatusKept(x)'
  BY NextRefines DEF StatusInv
<1> DEFINE Kept == \A x \in Component : StatusKept(x)'
<1> HIDE DEF Kept
<1> SUFFICES Kept
  BY DEF Kept
<1> USE DEF apiVars, sourceVars, queueVars, workerVars, clusterVars
<1>1. ASSUME NEW c \in Component, User(c)
      PROVE  Kept
  BY <1>1, UserKept DEF Kept
<1>2. ASSUME NEW c \in Component, Reconcile(c)
      PROVE  Kept
  BY <1>2, StartKept, LoadFailsKept, LoadKept, CheckKept, ApplyReadyKept,
     ApplyUnreadyKept, FinishKept, PreDeleteKept, TeardownKept,
     TeardownContinuesKept
  DEF Reconcile, Kept
<1>3. ASSUME NEW c \in Component,
             ComponentEvent(c) \/ CheckHttpRepository(c) \/ TimerFires(c)
      PROVE  Kept
  BY <1>3, NothingTold DEF ComponentEvent, CheckHttpRepository, TimerFires, Kept
<1>4. ASSUME NEW s \in Source,
             \/ \E a \in Artifact \cup {NoArtifact} : SourceChange(s, a)
             \/ SourceEvent(s)
      PROVE  Kept
  BY <1>4, NothingTold DEF SourceChange, SourceEvent, Kept
<1>5. ASSUME Crash
      PROVE  Kept
  BY <1>5, CrashKept DEF Kept
<1>6. ASSUME UNCHANGED vars
      PROVE  Kept
  BY <1>6, NothingTold DEF vars, Kept
<1> QED BY <1>1, <1>2, <1>3, <1>4, <1>5, <1>6 DEF Next

(* Objects are deployed by a worker that has checked every dependency, and *)
(* are gone only after a teardown.                                         *)
LEMMA DeployedChanges ==
  ASSUME TypeOK, [Next]_vars, NEW c \in Component
  PROVE  \/ deployed'[c] = deployed[c]
         \/ deployed'[c] = None /\ pc[c] = "delete"
         \/ /\ deployed'[c] = Attempt(worker[c])
            /\ pc[c] = "check"
            /\ todo[c] = {}
<1> USE DEF clusterVars
<1>1. ASSUME NEW x \in Component,
             \/ User(x)
             \/ ComponentEvent(x) \/ CheckHttpRepository(x) \/ TimerFires(x)
             \/ Start(x) \/ LoadFails(x) \/ LoadSucceeds(x)
             \/ \E d \in Component : CheckDependency(x, d)
             \/ PreDelete(x) \/ TeardownContinues(x) \/ FinishReconcile(x)
      PROVE  deployed' = deployed
  BY <1>1
  DEF User, Create, EditSpec, DeleteComponent, ComponentEvent,
      CheckHttpRepository, TimerFires, Start, LoadFails, LoadSucceeds,
      CheckDependency, PreDelete, TeardownContinues, FinishReconcile
<1>2. ASSUME NEW s \in Source,
             \/ \E a \in Artifact \cup {NoArtifact} : SourceChange(s, a)
             \/ SourceEvent(s)
      PROVE  deployed' = deployed
  BY <1>2 DEF SourceChange, SourceEvent
<1>3. ASSUME Crash \/ UNCHANGED vars
      PROVE  deployed' = deployed
  BY <1>3 DEF Crash, vars
<1>4. ASSUME NEW x \in Component, TeardownDone(x)
      PROVE  deployed'[c] = deployed[c] \/ (deployed'[c] = None /\ pc[c] = "delete")
  BY <1>4 DEF TeardownDone, TypeOK
<1>5. ASSUME NEW x \in Component, ApplyReady(x) \/ ApplyUnready(x)
      PROVE  \/ deployed'[c] = deployed[c]
             \/ /\ deployed'[c] = Attempt(worker[c])
                /\ pc[c] = "check"
                /\ todo[c] = {}
  BY <1>5 DEF ApplyReady, ApplyUnready, TypeOK
<1> QED BY <1>1, <1>2, <1>3, <1>4, <1>5 DEF Next, Reconcile

LEMMA StatusInvariant == Spec => [](TypeOK /\ StatusInv)
<1>1. Init => TypeOK /\ StatusInv
  BY InitType, InitKept
<1>2. TypeOK /\ StatusInv /\ [Next]_vars => TypeOK' /\ StatusInv'
  BY NextType, NextKept
<1> QED BY <1>1, <1>2, PTL DEF Spec

(* A ready status is never wrong about what is deployed, but for the time  *)
(* of a reconcile or of one that is due after a crash; and it stands for   *)
(* an artifact that spec.digest and spec.revision accept, through edits,   *)
(* conflicts and lost status updates.                                      *)
THEOREM ReadyTellsTheTruth == Spec => []ReadyIsTruthful
<1>1. StatusInv => ReadyIsTruthful
  <2> SUFFICES ASSUME StatusInv, NEW c \in Component, IsReady(components[c])
               PROVE  LET spec == components[c].spec
                          status == components[c].status
                      IN  /\ status.lastApplied = status.lastAttempted
                          /\ spec.digest \in {None, status.lastApplied.digest}
                          /\ spec.revision \in {None, status.lastApplied.revision}
                          /\ \/ deployed[c] = Attempt(components[c])
                             \/ c \in queue
                             \/ pc[c] # "idle"
    BY DEF ReadyIsTruthful
  <2>1. Truthful(c)
    BY DEF StatusInv, StatusKept
  <2> QED BY <2>1 DEF Truthful, PostRead
<1> QED BY <1>1, StatusInvariant, PTL

(* The finalizer outlives every deployed object, whoever deletes and       *)
(* re-creates the component while a worker applies from an older copy.     *)
THEOREM FinalizerHolds == Spec => []NothingLeftBehind
<1>1. StatusInv => NothingLeftBehind
  BY DEF StatusInv, StatusKept, Finalizing, NothingLeftBehind
<1> QED BY <1>1, StatusInvariant, PTL

(* A sticky component that is processing is never deployed with another    *)
(* artifact, wherever its source moves and whatever the worker has read.   *)
THEOREM StickyKept == Spec => StickyHolds
<1> DEFINE Moves(c) == /\ components[c].exists
                       /\ components[c].spec.sticky
                       /\ IsComponentProcessing(components[c])
                       /\ pc[c] # "idle"
                       /\ worker[c].generation = components[c].generation
                       /\ deployed'[c] \notin {deployed[c], None}
           Held(c) == deployed'[c].artifact = components[c].status.sourceRef
<1>1. ASSUME TypeOK, StatusInv, [Next]_vars
      PROVE  [\A c \in Component : Moves(c) => Held(c)]_vars
  <2> SUFFICES ASSUME Next, NEW c \in Component, Moves(c)
               PROVE  Held(c)
    BY <1>1
  <2>1. deployed'[c] # deployed[c] /\ deployed'[c] # None
    OBVIOUS
  <2>2. pc[c] = "check" /\ deployed'[c] = Attempt(worker[c])
    BY <1>1, <2>1, DeployedChanges
  <2>3. worker[c].status.lastAttempted = components[c].status.sourceRef
    BY <1>1, <2>2 DEF StatusInv, StatusKept, Sticking
  <2> QED BY <2>2, <2>3 DEF Attempt
<1>2. StickyHolds <=> [][\A c \in Component : Moves(c) => Held(c)]_vars
  BY DEF StickyHolds
<1> HIDE DEF Moves, Held
<1> QED BY <1>1, <1>2, StatusInvariant, PTL DEF Spec

-----------------------------------------------------------------------------
(* Dependencies that do not change. What users may do is stated as a       *)
(* condition on the steps of a behaviour.                                  *)

(* Nobody edits dependencies, and re-created components have the same.     *)
DependenciesStay ==
  \A c \in Component :
    components'[c].spec.dependencies = components[c].spec.dependencies

(* A dependency is in place: on the cluster, not being deleted, and ready  *)
(* before.                                                                 *)
InPlace(object) ==
  object.exists /\ ~object.deleting /\ object.status.lastApplied # NoArtifact

(* The pre-delete hook lets a teardown begin although a dependent is on    *)
(* the cluster: the cache does not show it.                                *)
BlindTeardown ==
  \E d, x \in Component :
    /\ PreDelete(d)
    /\ pc'[d] = "delete"
    /\ components[x].exists
    /\ d \in components[x].spec.dependencies

(* The pre-reconcile hook takes a dependency for ready that is gone, being *)
(* deleted, or created anew: the cache shows an earlier state.             *)
BlindLook ==
  \E x, d \in Component :
    /\ CheckDependency(x, d)
    /\ pc'[x] = "check"
    /\ ~InPlace(components[d])

-----------------------------------------------------------------------------
(* What a step does to one component *)

(* Only a ready worker that finishes records a rollout, and tears nothing  *)
(* down with it.                                                           *)
LEMMA AppliedChanges ==
  ASSUME TypeOK, [Next]_vars, NEW c \in Component
  PROVE  \/ applied'[c] = applied[c]
         \/ /\ applied'[c] = applied[c] \cup {Attempt(worker[c])}
            /\ pc[c] = "finish"
            /\ worker[c].status.ready
            /\ deployed'[c] = deployed[c]
<1> USE DEF clusterVars
<1>1. ASSUME NEW x \in Component,
             \/ User(x)
             \/ ComponentEvent(x) \/ CheckHttpRepository(x) \/ TimerFires(x)
             \/ Start(x) \/ LoadFails(x) \/ LoadSucceeds(x)
             \/ \E d \in Component : CheckDependency(x, d)
             \/ ApplyReady(x) \/ ApplyUnready(x)
             \/ PreDelete(x) \/ TeardownContinues(x) \/ TeardownDone(x)
      PROVE  applied' = applied
  BY <1>1
  DEF User, Create, EditSpec, DeleteComponent, ComponentEvent,
      CheckHttpRepository, TimerFires, Start, LoadFails, LoadSucceeds,
      CheckDependency, ApplyReady, ApplyUnready, PreDelete, TeardownContinues,
      TeardownDone
<1>2. ASSUME NEW s \in Source,
             \/ \E a \in Artifact \cup {NoArtifact} : SourceChange(s, a)
             \/ SourceEvent(s)
      PROVE  applied' = applied
  BY <1>2 DEF SourceChange, SourceEvent
<1>3. ASSUME Crash \/ UNCHANGED vars
      PROVE  applied' = applied
  BY <1>3 DEF Crash, vars
<1>4. ASSUME NEW x \in Component, FinishReconcile(x)
      PROVE  \/ applied'[c] = applied[c]
             \/ /\ applied'[c] = applied[c] \cup {Attempt(worker[c])}
                /\ pc[c] = "finish"
                /\ worker[c].status.ready
                /\ deployed'[c] = deployed[c]
  <2>1. pc[x] = "finish" /\ UNCHANGED deployed /\ worker[x] \in Object
    BY <1>4 DEF FinishReconcile, TypeOK
  <2>2. PICK p :
          LET status == [worker[x].status EXCEPT
                           !.observedGeneration = worker[x].generation,
                           !.processing = p]
          IN  IF components[x].exists /\ components[x].generation = worker[x].generation
                THEN /\ components' = [components EXCEPT ![x].status = status]
                     /\ applied' = IF status.ready
                          THEN [applied EXCEPT ![x] = @ \cup {Attempt(worker[x])}]
                          ELSE applied
                ELSE UNCHANGED <<components, applied>>
    BY <1>4 DEF FinishReconcile
  <2> DEFINE status == [worker[x].status EXCEPT
                          !.observedGeneration = worker[x].generation,
                          !.processing = p]
  <2>3. status.ready = worker[x].status.ready
    BY <2>1 DEF Object, ComponentStatus
  <2> HIDE DEF status
  <2>4. \/ applied' = applied
        \/ /\ applied' = [applied EXCEPT ![x] = @ \cup {Attempt(worker[x])}]
           /\ worker[x].status.ready
    BY <2>2, <2>3 DEF status
  <2> QED BY <2>1, <2>4 DEF TypeOK
<1> QED BY <1>1, <1>2, <1>3, <1>4 DEF Next, Reconcile

(* A worker keeps the spec it has read, and begins with the live one.      *)
LEMMA WorkerChanges ==
  ASSUME TypeOK, [Next]_vars, NEW c \in Component, pc'[c] # "idle"
  PROVE  \/ pc[c] # "idle" /\ worker'[c].spec = worker[c].spec
         \/ worker'[c] = components[c]
<1> USE DEF workerVars
<1>1. ASSUME NEW x \in Component,
             \/ User(x)
             \/ ComponentEvent(x) \/ CheckHttpRepository(x) \/ TimerFires(x)
      PROVE  UNCHANGED <<pc, worker>>
  BY <1>1
  DEF User, Create, EditSpec, DeleteComponent, ComponentEvent,
      CheckHttpRepository, TimerFires
<1>2. ASSUME NEW s \in Source,
             \/ \E a \in Artifact \cup {NoArtifact} : SourceChange(s, a)
             \/ SourceEvent(s)
      PROVE  UNCHANGED <<pc, worker>>
  BY <1>2 DEF SourceChange, SourceEvent
<1>3. ~Crash
  BY DEF Crash
<1>4. ASSUME NEW x \in Component, Start(x)
      PROVE  \/ pc[c] # "idle" /\ worker'[c] = worker[c]
             \/ worker'[c] = components[c]
  BY <1>4 DEF Start, TypeOK
<1>5. ASSUME NEW x \in Component, NEW object \in Object, Fail(x, object),
             pc[x] # "idle", object.spec = worker[x].spec
      PROVE  pc[c] # "idle" /\ worker'[c].spec = worker[c].spec
  <2>1. [object EXCEPT !.status.ready = FALSE].spec = object.spec
    BY <1>5 DEF Object
  <2> QED BY <1>5, <2>1 DEF Fail, TypeOK
<1>6. ASSUME NEW x \in Component, LoadFails(x) \/ LoadSucceeds(x)
      PROVE  pc[c] # "idle" /\ worker'[c].spec = worker[c].spec
  <2>1. worker[x] \in Object /\ pc[x] = "load"
    BY <1>6 DEF LoadFails, LoadSucceeds, TypeOK
  <2>2. Loaded(x) \in Object /\ Loaded(x).spec = worker[x].spec
    BY <2>1, LoadedType DEF Loaded, Object
  <2>3. \/ Fail(x, worker[x])
        \/ Fail(x, Loaded(x))
        \/ worker' = [worker EXCEPT ![x] = Begun(x)] /\ pc' = [pc EXCEPT ![x] = "check"]
    BY <1>6 DEF LoadFails, LoadSucceeds, Begun
  <2> QED BY <1>5, <2>1, <2>2, <2>3, BegunType DEF TypeOK
<1>7. ASSUME NEW x \in Component,
             \/ \E d \in Component : CheckDependency(x, d)
             \/ PreDelete(x) \/ TeardownContinues(x) \/ TeardownDone(x)
      PROVE  pc[c] # "idle" /\ worker'[c].spec = worker[c].spec
  <2>1. worker[x] \in Object /\ pc[x] # "idle"
    BY <1>7 DEF CheckDependency, PreDelete, TeardownContinues, TeardownDone, TypeOK
  <2>2. \/ Fail(x, worker[x])
        \/ UNCHANGED <<pc, worker>>
        \/ pc' = [pc EXCEPT ![x] = "delete"] /\ UNCHANGED worker
        \/ pc' = [pc EXCEPT ![x] = "idle"] /\ worker' = [worker EXCEPT ![x] = None]
    BY <1>7 DEF CheckDependency, PreDelete, TeardownContinues, TeardownDone
  <2> QED BY <1>5, <2>1, <2>2 DEF TypeOK
<1>8. ASSUME NEW x \in Component, ApplyReady(x)
      PROVE  pc[c] # "idle" /\ worker'[c].spec = worker[c].spec
  <2>1. worker[x] \in Object /\ pc[x] = "check"
    BY <1>8 DEF ApplyReady, TypeOK
  <2>2. Completed(worker[x]).spec = worker[x].spec
    BY <2>1 DEF Completed, PostReconcile, Object
  <2> QED BY <1>8, <2>1, <2>2 DEF ApplyReady, TypeOK
<1>9. ASSUME NEW x \in Component, ApplyUnready(x)
      PROVE  pc[c] # "idle" /\ worker'[c].spec = worker[c].spec
  <2> DEFINE running == [worker[x] EXCEPT !.status.processing = "running"]
  <2>1. worker[x] \in Object /\ pc[x] = "check"
    BY <1>9 DEF ApplyUnready, TypeOK
  <2>2. running \in Object /\ running.spec = worker[x].spec
    BY <2>1, StatusTypes DEF Object
  <2>3. Fail(x, worker[x]) \/ Fail(x, running)
    BY <1>9 DEF ApplyUnready
  <2> HIDE DEF running
  <2> QED BY <1>5, <2>1, <2>2, <2>3
<1>10. ASSUME NEW x \in Component, FinishReconcile(x)
       PROVE  pc[c] # "idle" /\ worker'[c] = worker[c]
  BY <1>10 DEF FinishReconcile, TypeOK
<1>11. ASSUME UNCHANGED vars
       PROVE  pc[c] # "idle" /\ worker'[c] = worker[c]
  BY <1>11 DEF vars
<1>12. CASE UNCHANGED <<pc, worker>>
  BY <1>12
<1> QED
  BY <1>1, <1>2, <1>3, <1>4, <1>6, <1>7, <1>8, <1>9, <1>10, <1>11, <1>12
  DEF Next, Reconcile

LEMMA CacheChanges ==
  ASSUME TypeOK, [Next]_vars, NEW c \in Component
  PROVE  cache'[c] = cache[c] \/ cache'[c] = components[c]
<1> USE DEF apiVars
<1>1. ASSUME NEW x \in Component, User(x)
      PROVE  cache' = cache
  BY <1>1 DEF User, Create, EditSpec, DeleteComponent
<1>2. ASSUME NEW x \in Component, ComponentEvent(x)
      PROVE  cache'[c] = cache[c] \/ cache'[c] = components[c]
  BY <1>2 DEF ComponentEvent, TypeOK
<1>3. ASSUME NEW x \in Component,
             CheckHttpRepository(x) \/ TimerFires(x) \/ Reconcile(x)
      PROVE  cache' = cache
  BY <1>3
  DEF CheckHttpRepository, TimerFires, Reconcile, Start, LoadFails, LoadSucceeds,
      CheckDependency, ApplyReady, ApplyUnready, PreDelete, TeardownContinues,
      TeardownDone, FinishReconcile
<1>4. ASSUME NEW s \in Source,
             \/ \E a \in Artifact \cup {NoArtifact} : SourceChange(s, a)
             \/ SourceEvent(s)
      PROVE  cache' = cache
  BY <1>4 DEF SourceChange, SourceEvent
<1>5. ASSUME Crash \/ UNCHANGED vars
      PROVE  cache'[c] = cache[c] \/ cache'[c] = components[c]
  BY <1>5 DEF Crash, vars
<1> QED BY <1>1, <1>2, <1>3, <1>4, <1>5 DEF Next

(* A teardown begins with the pre-delete hook.                             *)
LEMMA TeardownBegins ==
  ASSUME TypeOK, [Next]_vars, NEW c \in Component, pc'[c] = "delete"
  PROVE  pc[c] = "delete" \/ PreDelete(c)
<1> USE DEF workerVars
<1>1. ASSUME NEW x \in Component,
             User(x) \/ ComponentEvent(x) \/ CheckHttpRepository(x) \/ TimerFires(x)
      PROVE  pc' = pc
  BY <1>1
  DEF User, Create, EditSpec, DeleteComponent, ComponentEvent,
      CheckHttpRepository, TimerFires
<1>2. ASSUME NEW s \in Source,
             \/ \E a \in Artifact \cup {NoArtifact} : SourceChange(s, a)
             \/ SourceEvent(s)
      PROVE  pc' = pc
  BY <1>2 DEF SourceChange, SourceEvent
<1>3. ~Crash
  BY DEF Crash
<1>4. ASSUME NEW x \in Component,
             \/ Start(x) \/ LoadFails(x) \/ LoadSucceeds(x)
             \/ \E d \in Component : CheckDependency(x, d)
             \/ ApplyReady(x) \/ ApplyUnready(x)
             \/ TeardownContinues(x) \/ TeardownDone(x) \/ FinishReconcile(x)
      PROVE  pc[c] = "delete"
  BY <1>4
  DEF Start, LoadFails, LoadSucceeds, CheckDependency, ApplyReady, ApplyUnready,
      TeardownContinues, TeardownDone, FinishReconcile, Fail, TypeOK
<1>5. ASSUME NEW x \in Component, PreDelete(x)
      PROVE  pc[c] = "delete" \/ PreDelete(c)
  BY <1>5 DEF PreDelete, Fail, TypeOK
<1>6. ASSUME UNCHANGED vars
      PROVE  pc' = pc
  BY <1>6 DEF vars
<1> QED BY <1>1, <1>2, <1>3, <1>4, <1>5, <1>6 DEF Next, Reconcile

-----------------------------------------------------------------------------
(* Everybody knows the dependencies *)

(* The cache, a worker, and whatever was rolled out have the dependencies  *)
(* the component has.                                                      *)
Agreed(c) ==
  LET dependencies == components[c].spec.dependencies
  IN  /\ cache[c].spec.dependencies = dependencies
      /\ pc[c] # "idle" => worker[c].spec.dependencies = dependencies
      /\ \A r \in applied[c] \cup ({deployed[c]} \ {None}) :
           r.dependencies = dependencies

AllAgreed == \A c \in Component : Agreed(c)

LEMMA InitAgreed == Init => AllAgreed
<1> SUFFICES ASSUME Init, NEW c \in Component
             PROVE  Agreed(c)
  BY DEF AllAgreed
<1>1. /\ cache = components /\ pc[c] = "idle"
      /\ applied[c] = {} /\ deployed[c] = None
  BY DEF Init
<1> QED BY <1>1 DEF Agreed

LEMMA NextAgreed ==
  TypeOK /\ AllAgreed /\ [Next]_vars /\ DependenciesStay => AllAgreed'
<1> SUFFICES ASSUME TypeOK, AllAgreed, [Next]_vars, DependenciesStay,
                    NEW c \in Component
             PROVE  Agreed(c)'
  BY DEF AllAgreed
<1>1. Agreed(c) /\ components'[c].spec.dependencies = components[c].spec.dependencies
  BY DEF AllAgreed, DependenciesStay
<1>2. cache'[c].spec.dependencies = components[c].spec.dependencies
  BY <1>1, CacheChanges DEF Agreed
<1>3. pc'[c] # "idle" =>
        worker'[c].spec.dependencies = components[c].spec.dependencies
  BY <1>1, WorkerChanges DEF Agreed
<1>4. ASSUME NEW r \in applied'[c] \cup ({deployed'[c]} \ {None})
      PROVE  r.dependencies = components[c].spec.dependencies
  <2>1. CASE r \in applied[c] \cup ({deployed[c]} \ {None})
    BY <1>1, <2>1 DEF Agreed
  <2>2. CASE r = Attempt(worker[c]) /\ pc[c] # "idle"
    BY <1>1, <2>2 DEF Agreed, Attempt
  <2> QED BY <1>4, <2>1, <2>2, DeployedChanges, AppliedChanges
<1> QED BY <1>1, <1>2, <1>3, <1>4 DEF Agreed

-----------------------------------------------------------------------------
(* Cycles *)

(* A worker that deploys or reports ready has found each dependency        *)
(* applied; in a knot one of them is not.                                  *)
LEMMA NextCycle ==
  /\ TypeOK /\ OrderInv /\ AllAgreed /\ CycleStaysDown
  /\ [Next]_vars /\ DependenciesStay
  => CycleStaysDown'
<1> SUFFICES ASSUME TypeOK, OrderInv, AllAgreed, CycleStaysDown,
                    [Next]_vars, DependenciesStay,
                    NEW S \in SUBSET Component, Knot(S)', NEW c \in S
             PROVE  deployed'[c] = None /\ applied'[c] = {}
  BY DEF CycleStaysDown
<1>1. Knot(S)
  BY DEF Knot, DependenciesStay
<1>2. PICK d \in S : d \in components[c].spec.dependencies
  BY <1>1 DEF Knot
<1>3. /\ deployed[c] = None /\ applied[c] = {}
      /\ applied[d] = {}
  BY <1>1 DEF CycleStaysDown
<1>4. ASSUME \/ pc[c] = "check" /\ todo[c] = {}
             \/ pc[c] = "finish" /\ worker[c].status.ready
      PROVE  FALSE
  <2>1. d \in worker[c].spec.dependencies
    BY <1>2, <1>4 DEF AllAgreed, Agreed
  <2>2. WorkerCleared(c)
    BY DEF OrderInv, ComponentOrder
  <2>3. Cleared(Attempt(worker[c]), d)
    BY <1>4, <2>1, <2>2 DEF WorkerCleared
  <2> QED BY <1>3, <2>3 DEF Cleared
<1>5. deployed'[c] = None
  BY <1>3, <1>4, DeployedChanges
<1>6. applied'[c] = {}
  BY <1>3, <1>4, AppliedChanges
<1> QED BY <1>5, <1>6

(* As long as dependencies are not edited, components that depend on each  *)
(* other stay down for ever, whatever else users do, for dependencies of   *)
(* any shape: a cycle can only be left by breaking it.                     *)
THEOREM CyclesStayDown == Spec /\ [][DependenciesStay]_vars => []CycleStaysDown
<1> DEFINE Inv == TypeOK /\ OrderInv /\ AllAgreed /\ CycleStaysDown
<1>1. Init => Inv
  <2>1. Init => CycleStaysDown
    BY DEF Init, CycleStaysDown
  <2> QED BY <2>1, InitType, InitOrder, InitAgreed
<1>2. Inv /\ [Next]_vars /\ [DependenciesStay]_vars => Inv'
  <2>1. Inv /\ [Next]_vars /\ DependenciesStay => Inv'
    BY NextType, NextOrder, NextAgreed, NextCycle
  <2>2. UNCHANGED vars => DependenciesStay
    BY DEF vars, DependenciesStay
  <2> QED BY <2>1, <2>2
<1> QED BY <1>1, <1>2, PTL DEF Spec

-----------------------------------------------------------------------------
(* Dependents *)

(* What is in place is deployed, and so is what a worker with an up to     *)
(* date copy is going to show in place.                                    *)
Placed(c) ==
  /\ InPlace(components[c]) => deployed[c] # None
  /\ /\ pc[c] # "idle"
     /\ worker[c].generation = components[c].generation
     /\ ~worker[c].deleting
     /\ worker[c].status.lastApplied # NoArtifact
     => deployed[c] # None

AllPlaced == \A c \in Component : Placed(c)

(* x builds on d: it is deployed on d, or its worker has checked d. *)
BuildsOn(x, d) ==
  \/ deployed[x] # None /\ d \in deployed[x].dependencies
  \/ pc[x] = "check" /\ d \in worker[x].spec.dependencies \ todo[x]

(* What somebody builds on is deployed, and is not being torn down.        *)
AllSupported ==
  \A x, d \in Component : BuildsOn(x, d) => deployed[d] # None /\ pc[d] # "delete"

(* A failing worker records nothing as applied. *)
LEMMA FailPlaced ==
  ASSUME TypeOK, NEW c \in Component, Placed(c), NEW object \in Object,
         Fail(c, object), pc[c] # "idle",
         object.generation = worker[c].generation,
         object.deleting = worker[c].deleting,
         object.status.lastApplied = worker[c].status.lastApplied,
         components'[c] = components[c],
         deployed'[c] = deployed[c] \/ deployed'[c] # None
  PROVE  Placed(c)'
<1> DEFINE failed == [object EXCEPT !.status.ready = FALSE]
<1>1. /\ failed.generation = worker[c].generation
      /\ failed.deleting = worker[c].deleting
      /\ failed.status.lastApplied = worker[c].status.lastApplied
  BY DEF Object, ComponentStatus
<1>2. worker'[c] = failed
  BY DEF Fail, TypeOK
<1> HIDE DEF failed
<1> QED BY <1>1, <1>2 DEF Placed, InPlace

LEMMA UserPlaced ==
  ASSUME TypeOK, OrderInv, AllPlaced, NEW c \in Component, User(c)
  PROVE  Placed(c)'
<1> USE DEF workerVars, clusterVars
<1>1. Placed(c) /\ WorkerCopy(c) /\ components[c] \in Object
      /\ (pc[c] # "idle" => worker[c] \in Object)
  BY DEF AllPlaced, OrderInv, ComponentOrder, TypeOK
<1>2. UNCHANGED <<pc, worker, deployed>>
  BY DEF User, Create, EditSpec, DeleteComponent
<1>3. /\ components'[c].generation = components[c].generation + 1
      /\ InPlace(components'[c]) => InPlace(components[c])
  <2>1. CASE DeleteComponent(c)
    <3>1. components'[c] = Deleted(components[c])
      BY <2>1 DEF DeleteComponent, TypeOK
    <3> QED BY <1>1, <3>1 DEF Deleted, RemovedObject, InPlace, Object
  <2>2. ASSUME NEW spec \in Specs[c], Create(c, spec)
        PROVE  /\ components'[c].generation = components[c].generation + 1
               /\ ~InPlace(components'[c])
    BY <2>2 DEF Create, NewObject, NewStatus, InPlace, TypeOK
  <2>3. ASSUME NEW spec \in Specs[c], EditSpec(c, spec)
        PROVE  /\ components'[c].generation = components[c].generation + 1
               /\ InPlace(components'[c]) => InPlace(components[c])
    <3>1. components'[c] = [components[c] EXCEPT !.spec = spec, !.generation = @ + 1]
      BY <2>3 DEF EditSpec, TypeOK
    <3> QED BY <1>1, <3>1 DEF InPlace, Object
  <2> QED BY <2>1, <2>2, <2>3 DEF User
<1>4. pc[c] # "idle" => worker[c].generation # components'[c].generation
  BY <1>1, <1>3 DEF WorkerCopy, Object
<1> QED BY <1>1, <1>2, <1>3, <1>4 DEF Placed

LEMMA LoadPlaced ==
  ASSUME TypeOK, AllPlaced, NEW c \in Component, LoadFails(c) \/ LoadSucceeds(c)
  PROVE  Placed(c)'
<1>1. /\ worker[c] \in Object /\ components[c] \in Object
      /\ pc[c] = "load" /\ Placed(c) /\ deployed' = deployed
  BY DEF LoadFails, LoadSucceeds, AllPlaced, TypeOK, clusterVars
<1>2. /\ Loaded(c) \in Object
      /\ Loaded(c).generation = worker[c].generation
      /\ Loaded(c).deleting = worker[c].deleting
      /\ Loaded(c).status.lastApplied = worker[c].status.lastApplied
  BY <1>1, LoadedType DEF Loaded, Object, ComponentStatus
<1>3. CASE (Fail(c, worker[c]) \/ Fail(c, Loaded(c))) /\ UNCHANGED components
  BY <1>1, <1>2, <1>3, FailPlaced
<1>4. CASE /\ worker' = [worker EXCEPT ![c] = Begun(c)]
           /\ components' = IF worker[c].finalizer THEN components
                            ELSE [components EXCEPT ![c] = Finalized(@)]
  <2>1. /\ Begun(c).generation = worker[c].generation
        /\ Begun(c).deleting = worker[c].deleting
        /\ Begun(c).status.lastApplied = worker[c].status.lastApplied
    BY <1>2 DEF Begun, Finalized, Object, ComponentStatus
  <2>2. worker'[c] = Begun(c)
    BY <1>4 DEF TypeOK
  <2>3. /\ components'[c].generation = components[c].generation
        /\ InPlace(components'[c]) => InPlace(components[c])
    BY <1>1, <1>4 DEF Finalized, InPlace, Object, TypeOK
  <2> QED BY <1>1, <2>1, <2>2, <2>3 DEF Placed
<1> QED BY <1>3, <1>4 DEF LoadFails, LoadSucceeds, Begun, apiVars

(* What is applied is deployed. *)
LEMMA ApplyPlaced ==
  ASSUME TypeOK, AllPlaced, NEW c \in Component, ApplyReady(c) \/ ApplyUnready(c)
  PROVE  Placed(c)'
<1> USE DEF apiVars
<1>1. /\ worker[c] \in Object /\ Placed(c)
      /\ pc[c] = "check" /\ components' = components
  BY DEF ApplyReady, ApplyUnready, AllPlaced, TypeOK
<1>2. Attempt(worker[c]) # None
  BY <1>1, AttemptType, RolledAssumption
<1>3. deployed'[c] = deployed[c] \/ deployed'[c] # None
  BY <1>2 DEF ApplyReady, ApplyUnready, TypeOK
<1>4. CASE ApplyReady(c)
  BY <1>2, <1>4 DEF ApplyReady, Placed, TypeOK
<1>5. CASE ApplyUnready(c)
  <2> DEFINE running == [worker[c] EXCEPT !.status.processing = "running"]
  <2>1. /\ running \in Object
        /\ running.generation = worker[c].generation
        /\ running.deleting = worker[c].deleting
        /\ running.status.lastApplied = worker[c].status.lastApplied
    BY <1>1, StatusTypes DEF Object, ComponentStatus
  <2>2. Fail(c, worker[c]) \/ Fail(c, running)
    BY <1>5 DEF ApplyUnready
  <2> HIDE DEF running
  <2> QED BY <1>1, <1>3, <2>1, <2>2, FailPlaced
<1> QED BY <1>4, <1>5

(* A status that is written is of the live generation. *)
LEMMA FinishPlaced ==
  ASSUME TypeOK, ReportInv, AllPlaced, NEW c \in Component, FinishReconcile(c)
  PROVE  Placed(c)'
<1>1. /\ worker[c] \in Object /\ components[c] \in Object
      /\ pc[c] = "finish" /\ pc'[c] = "idle" /\ deployed' = deployed
      /\ Placed(c) /\ ReportsDeployed(c)
  BY DEF FinishReconcile, AllPlaced, ReportInv, TypeOK
<1>2. PICK p : LET status == [worker[c].status EXCEPT
                                !.observedGeneration = worker[c].generation,
                                !.processing = p]
               IN  \/ /\ components[c].generation = worker[c].generation
                      /\ components' = [components EXCEPT ![c].status = status]
                   \/ components' = components
  BY DEF FinishReconcile
<1>3. CASE components' = components
  BY <1>1, <1>3 DEF Placed
<1>4. CASE components[c].generation = worker[c].generation /\ components' # components
  <2> DEFINE status == [worker[c].status EXCEPT
                          !.observedGeneration = worker[c].generation,
                          !.processing = p]
  <2>3. status.lastApplied = worker[c].status.lastApplied
    BY <1>1 DEF Object, ComponentStatus
  <2>4. components'[c] = [components[c] EXCEPT !.status = status]
    BY <1>2, <1>4 DEF TypeOK
  <2> HIDE DEF status
  <2>1. /\ components'[c].exists = components[c].exists
        /\ components'[c].deleting = components[c].deleting
        /\ components'[c].status.lastApplied = worker[c].status.lastApplied
    BY <1>1, <2>3, <2>4 DEF Object
  <2>2. worker[c].deleting = components[c].deleting
    BY <1>1, <1>4 DEF ReportsDeployed
  <2> QED BY <1>1, <1>4, <2>1, <2>2 DEF Placed, InPlace
<1> QED BY <1>2, <1>3, <1>4

(* What is torn down is being deleted. *)
LEMMA DeletePlaced ==
  ASSUME TypeOK, ReportInv, AllPlaced, NEW c \in Component,
         PreDelete(c) \/ TeardownDone(c) \/ TeardownContinues(c)
  PROVE  Placed(c)'
<1> USE DEF apiVars, clusterVars
<1>1. /\ worker[c] \in Object /\ components[c] \in Object
      /\ pc[c] # "idle" /\ Placed(c) /\ ReportsDeployed(c)
  BY DEF PreDelete, TeardownDone, TeardownContinues, AllPlaced, ReportInv, TypeOK
<1>2. CASE PreDelete(c) \/ TeardownContinues(c)
  <2>1. components' = components /\ deployed' = deployed
    BY <1>2 DEF PreDelete, TeardownContinues
  <2>2. Fail(c, worker[c]) \/ UNCHANGED worker
    BY <1>2 DEF PreDelete, TeardownContinues
  <2> QED BY <1>1, <2>1, <2>2, FailPlaced DEF Placed
<1>3. CASE TeardownDone(c)
  <2>1. components[c].deleting
    BY <1>1, <1>3 DEF TeardownDone, ReportsDeployed
  <2>2. CASE components' = components /\ Fail(c, worker[c])
             /\ components[c].generation # worker[c].generation
    <3>1. worker'[c].generation = worker[c].generation
      BY <1>1, <2>2 DEF Fail, Object, TypeOK
    <3> QED BY <2>1, <2>2, <3>1 DEF Placed, InPlace
  <2>3. CASE /\ components' = [components EXCEPT ![c] = RemovedObject(@)]
             /\ pc' = [pc EXCEPT ![c] = "idle"]
    BY <1>1, <2>3 DEF Placed, InPlace, RemovedObject, Object, TypeOK
  <2> QED BY <1>3, <2>2, <2>3 DEF TeardownDone
<1> QED BY <1>2, <1>3

LEMMA NextPlaced ==
  TypeOK /\ ReportInv /\ AllPlaced /\ [Next]_vars => AllPlaced'
<1> SUFFICES ASSUME TypeOK, ReportInv, AllPlaced, [Next]_vars, NEW c \in Component
             PROVE  Placed(c)'
  BY DEF AllPlaced
<1> USE DEF apiVars, sourceVars, queueVars, workerVars, clusterVars
<1>1. Placed(c) /\ OrderInv
  BY DEF AllPlaced, ReportInv
<1>2. ASSUME components'[c] = components[c], pc'[c] = pc[c],
             worker'[c] = worker[c], deployed'[c] = deployed[c]
      PROVE  Placed(c)'
  BY <1>1, <1>2 DEF Placed
<1>3. ASSUME NEW x \in Component, User(x) \/ Reconcile(x), x # c
      PROVE  Placed(c)'
  <2>1. CASE User(x)
    BY <1>2, <1>3, <2>1 DEF User, Create, EditSpec, DeleteComponent, TypeOK
  <2>2. CASE Start(x)
    BY <1>2, <1>3, <2>2 DEF Start, TypeOK
  <2>3. CASE LoadFails(x) \/ LoadSucceeds(x)
    BY <1>2, <1>3, <2>3 DEF LoadFails, LoadSucceeds, Fail, TypeOK
  <2>4. CASE \E d \in Component : CheckDependency(x, d)
    BY <1>2, <1>3, <2>4 DEF CheckDependency, Fail, TypeOK
  <2>5. CASE ApplyReady(x) \/ ApplyUnready(x)
    BY <1>2, <1>3, <2>5 DEF ApplyReady, ApplyUnready, Fail, TypeOK
  <2>6. CASE PreDelete(x) \/ TeardownDone(x) \/ TeardownContinues(x)
    BY <1>2, <1>3, <2>6 DEF PreDelete, TeardownDone, TeardownContinues, Fail, TypeOK
  <2>7. CASE FinishReconcile(x)
    BY <1>2, <1>3, <2>7 DEF FinishReconcile, TypeOK
  <2> QED BY <1>3, <2>1, <2>2, <2>3, <2>4, <2>5, <2>6, <2>7 DEF Reconcile
<1>4. ASSUME Start(c)
      PROVE  Placed(c)'
  <2>1. components' = components /\ deployed' = deployed
    BY <1>4 DEF Start
  <2>2. \/ components[c].exists /\ worker'[c] = components[c]
        \/ pc'[c] = pc[c] /\ worker'[c] = worker[c]
    BY <1>4 DEF Start, TypeOK
  <2> QED BY <1>1, <2>1, <2>2 DEF Placed, InPlace
<1>5. ASSUME NEW d \in Component, CheckDependency(c, d)
      PROVE  Placed(c)'
  <2>1. /\ components' = components /\ deployed' = deployed
        /\ pc[c] # "idle" /\ worker[c] \in Object
        /\ UNCHANGED <<pc, worker>> \/ Fail(c, worker[c])
    BY <1>5 DEF CheckDependency, TypeOK
  <2> QED BY <1>1, <1>2, <2>1, FailPlaced
<1>6. ASSUME Reconcile(c)
      PROVE  Placed(c)'
  BY <1>4, <1>5, <1>6, LoadPlaced, ApplyPlaced, FinishPlaced, DeletePlaced
  DEF Reconcile
<1>7. ASSUME NEW x \in Component,
             ComponentEvent(x) \/ CheckHttpRepository(x) \/ TimerFires(x)
      PROVE  Placed(c)'
  BY <1>2, <1>7 DEF ComponentEvent, CheckHttpRepository, TimerFires
<1>8. ASSUME NEW s \in Source,
             \/ \E a \in Artifact \cup {NoArtifact} : SourceChange(s, a)
             \/ SourceEvent(s)
      PROVE  Placed(c)'
  BY <1>2, <1>8 DEF SourceChange, SourceEvent
<1>9. ASSUME Crash
      PROVE  Placed(c)'
  BY <1>1, <1>9 DEF Crash, Placed
<1>10. ASSUME UNCHANGED vars
       PROVE  Placed(c)'
  BY <1>2, <1>10 DEF vars
<1> QED BY <1>1, <1>3, <1>6, <1>7, <1>8, <1>9, <1>10, UserPlaced DEF Next

(* A worker has checked what it had checked before, and the dependency the *)
(* hook has just let pass.                                                 *)
LEMMA ChecksChange ==
  ASSUME TypeOK, [Next]_vars, NEW x \in Component, NEW d \in Component,
         pc'[x] = "check", d \in worker'[x].spec.dependencies \ todo'[x]
  PROVE  \/ pc[x] = "check" /\ d \in worker[x].spec.dependencies \ todo[x]
         \/ CheckDependency(x, d)
<1> USE DEF workerVars
<1> DEFINE Stays == /\ pc'[x] = pc[x] /\ worker'[x] = worker[x]
                    /\ todo'[x] = todo[x]
<1>1. ASSUME NEW y \in Component,
             User(y) \/ ComponentEvent(y) \/ CheckHttpRepository(y) \/ TimerFires(y)
      PROVE  Stays
  BY <1>1
  DEF User, Create, EditSpec, DeleteComponent, ComponentEvent,
      CheckHttpRepository, TimerFires
<1>2. ASSUME NEW s \in Source,
             \/ \E a \in Artifact \cup {NoArtifact} : SourceChange(s, a)
             \/ SourceEvent(s)
      PROVE  Stays
  BY <1>2 DEF SourceChange, SourceEvent
<1>3. ~Crash
  BY DEF Crash
<1>4. ASSUME NEW y \in Component,
             \/ Start(y) \/ LoadFails(y) \/ ApplyReady(y) \/ ApplyUnready(y)
             \/ PreDelete(y) \/ TeardownContinues(y) \/ TeardownDone(y)
             \/ FinishReconcile(y)
      PROVE  Stays
  <2>1. CASE Start(y)
    BY <2>1 DEF Start, TypeOK
  <2>2. CASE LoadFails(y) \/ ApplyReady(y) \/ ApplyUnready(y)
    BY <2>2 DEF LoadFails, ApplyReady, ApplyUnready, Fail, TypeOK
  <2>3. CASE PreDelete(y) \/ TeardownContinues(y)
    BY <2>3 DEF PreDelete, TeardownContinues, Fail, TypeOK
  <2>4. CASE TeardownDone(y) \/ FinishReconcile(y)
    BY <2>4 DEF TeardownDone, FinishReconcile, Fail, TypeOK
  <2> QED BY <1>4, <2>1, <2>2, <2>3, <2>4
<1>5. ASSUME NEW y \in Component, LoadSucceeds(y)
      PROVE  Stays
  <2>1. CASE x # y
    BY <1>5, <2>1 DEF LoadSucceeds, Fail, TypeOK
  <2>2. CASE x = y
    <3>1. /\ worker[x] \in Object
          /\ worker'[x] = Begun(x)
          /\ todo'[x] = worker[x].spec.dependencies
      BY <1>5, <2>2 DEF LoadSucceeds, Begun, Fail, TypeOK
    <3>2. Begun(x).spec = worker[x].spec
      BY <3>1, LoadedType DEF Begun, Finalized, Loaded, Object
    <3> QED BY <3>1, <3>2
  <2> QED BY <2>1, <2>2
<1>6. ASSUME NEW y \in Component, NEW e \in Component, CheckDependency(y, e),
             ~Stays
      PROVE  \/ pc[x] = "check" /\ d \in worker[x].spec.dependencies \ todo[x]
             \/ CheckDependency(x, d)
  <2>1. y = x
    BY <1>6 DEF CheckDependency, Fail, TypeOK
  <2>2. pc[x] = "check" /\ worker'[x] = worker[x] /\ todo'[x] = todo[x] \ {e}
    BY <1>6, <2>1 DEF CheckDependency, Fail, TypeOK
  <2> QED BY <1>6, <2>1, <2>2
<1>7. ASSUME UNCHANGED vars
      PROVE  Stays
  BY <1>7 DEF vars
<1> QED BY <1>1, <1>2, <1>3, <1>4, <1>5, <1>6, <1>7 DEF Next, Reconcile

(* Only a blind look builds on what is not deployed, only a blind teardown *)
(* begins under what builds on it.                                         *)
LEMMA NextSupported ==
  /\ TypeOK /\ StatusInv /\ AllAgreed /\ AllPlaced /\ AllSupported
  /\ [Next]_vars /\ ~BlindTeardown /\ ~BlindLook
  => AllSupported'
<1> SUFFICES ASSUME TypeOK, StatusInv, AllAgreed, AllPlaced, AllSupported,
                    [Next]_vars, ~BlindTeardown, ~BlindLook,
                    NEW x \in Component, NEW d \in Component, BuildsOn(x, d)'
             PROVE  deployed'[d] # None /\ pc'[d] # "delete"
  BY DEF AllSupported
<1>1. BuildsOn(x, d) \/ (CheckDependency(x, d) /\ pc'[x] = "check")
  <2>1. CASE deployed'[x] # None /\ d \in deployed'[x].dependencies
    <3>1. CASE deployed'[x] = deployed[x]
      BY <2>1, <3>1 DEF BuildsOn
    <3>2. CASE deployed'[x] = Attempt(worker[x]) /\ pc[x] = "check" /\ todo[x] = {}
      BY <2>1, <3>2 DEF BuildsOn, Attempt
    <3> QED BY <2>1, <3>1, <3>2, DeployedChanges
  <2>2. CASE pc'[x] = "check" /\ d \in worker'[x].spec.dependencies \ todo'[x]
    BY <2>2, ChecksChange DEF BuildsOn
  <2> QED BY <2>1, <2>2 DEF BuildsOn
<1>2. CASE BuildsOn(x, d)
  <2>1. deployed[d] # None /\ pc[d] # "delete"
    BY <1>2 DEF AllSupported
  <2>2. deployed'[d] # None
    <3>1. pc[d] = "check" => Attempt(worker[d]) # None
      BY AttemptType, RolledAssumption DEF TypeOK
    <3> QED BY <2>1, <3>1, DeployedChanges
  <2>3. components[x].exists /\ d \in components[x].spec.dependencies
    <3>1. components[x].exists
      BY <1>2 DEF BuildsOn, StatusInv, StatusKept, Finalizing
    <3>2. d \in components[x].spec.dependencies
      BY <1>2 DEF BuildsOn, AllAgreed, Agreed
    <3> QED BY <3>1, <3>2
  <2>4. pc'[d] # "delete"
    BY <2>1, <2>3, TeardownBegins DEF BlindTeardown
  <2> QED BY <2>2, <2>4
<1>3. CASE CheckDependency(x, d) /\ pc'[x] = "check"
  <2>1. InPlace(components[d])
    BY <1>3 DEF BlindLook
  <2>2. deployed[d] # None
    BY <2>1 DEF AllPlaced, Placed
  <2>3. pc[d] # "delete"
    BY <2>1 DEF InPlace, StatusInv, ReportInv, ReportsDeployed
  <2>4. pc' = pc /\ deployed' = deployed
    BY <1>3 DEF CheckDependency, Fail, TypeOK, clusterVars
  <2> QED BY <2>2, <2>3, <2>4
<1> QED BY <1>1, <1>2, <1>3

(* The hooks look once, and only in the cache. That is enough, for any     *)
(* creations and deletions of components whose dependencies are not        *)
(* edited, but for two cases: a teardown that begins while the cache does  *)
(* not show a dependent that is on the cluster, and a check that takes a   *)
(* dependency for ready that is gone, being deleted or created anew. In    *)
(* every other case nothing goes from under a component deployed on it.    *)
THEOREM DependentsProtected ==
  Spec /\ [][DependenciesStay /\ ~BlindTeardown /\ ~BlindLook]_vars
    => []NoOrphanedDependent
<1> DEFINE Seen == DependenciesStay /\ ~BlindTeardown /\ ~BlindLook
           Inv == TypeOK /\ StatusInv /\ AllAgreed /\ AllPlaced /\ AllSupported
<1>1. Init => Inv
  <2>1. Init => AllPlaced
    <3> SUFFICES ASSUME Init, NEW c \in Component
                 PROVE  Placed(c)
      BY DEF AllPlaced
    <3>1. PICK spec : components = [x \in Component |->
                            IF x \in Initial THEN NewObject(spec[x], 1)
                            ELSE RemovedObject(NewObject(spec[x], 0))]
      BY DEF Init
    <3>2. components[c].status = NewStatus
      BY <3>1 DEF NewObject, RemovedObject
    <3>3. pc[c] = "idle"
      BY DEF Init
    <3> QED BY <3>2, <3>3 DEF Placed, InPlace, NewStatus
  <2>2. Init => AllSupported
    BY DEF Init, AllSupported, BuildsOn
  <2> QED BY <2>1, <2>2, InitType, InitKept, InitAgreed
<1>2. Inv /\ [Next]_vars /\ [Seen]_vars => Inv'
  <2>1. Inv /\ [Next]_vars /\ Seen => Inv'
    BY NextType, NextKept, NextAgreed, NextPlaced, NextSupported DEF StatusInv
  <2>2. Inv /\ UNCHANGED vars => Inv'
    <3> SUFFICES ASSUME Inv, UNCHANGED vars
                 PROVE  Inv'
      OBVIOUS
    <3>1. DependenciesStay
      BY DEF vars, DependenciesStay
    <3>2. AllSupported'
      BY DEF vars, AllSupported, BuildsOn
    <3> QED BY <3>1, <3>2, NextType, NextKept, NextAgreed, NextPlaced DEF StatusInv
  <2> QED BY <2>1, <2>2
<1>3. Inv => NoOrphanedDependent
  <2> SUFFICES ASSUME Inv, NEW c \in Component, deployed[c] # None,
                      NEW d \in deployed[c].dependencies
               PROVE  deployed[d] # None
    BY DEF NoOrphanedDependent
  <2>1. d \in Component
    BY StatusTypes DEF AllAgreed, Agreed, TypeOK
  <2> QED BY <2>1 DEF AllSupported, BuildsOn
<1> HIDE DEF Seen
<1>4. [][DependenciesStay /\ ~BlindTeardown /\ ~BlindLook]_vars <=> [][Seen]_vars
  BY DEF Seen
<1> QED BY <1>1, <1>2, <1>3, <1>4, PTL DEF Spec
=============================================================================
