---------------------------- MODULE RolloutProofs ----------------------------
(***************************************************************************)
(* Theorems about Rollout for every set of components, sources, artifacts  *)
(* and specs, and every bound.                                             *)
(***************************************************************************)
EXTENDS RolloutProperties, TLAPS

(* Objects the API server creates and removes are objects. *)
LEMMA ObjectTypes ==
  ASSUME NEW spec \in ComponentSpec, NEW n \in Nat
  PROVE  /\ NewObject(spec, n) \in Object
         /\ RemovedObject(NewObject(spec, n)) \in Object
BY DEF NewObject, RemovedObject, NewStatus, Object, ComponentStatus, NoArtifact

(* A request of a user keeps the object an object. *)
LEMMA RequestTypes ==
  ASSUME NEW object \in Object, NEW spec \in ComponentSpec
  PROVE  /\ [object EXCEPT !.spec = spec, !.generation = @ + 1] \in Object
         /\ [object EXCEPT !.deleting = TRUE, !.generation = @ + 1] \in Object
         /\ [object EXCEPT !.generation = @ + 1] \in Object
<1> DEFINE n == object.generation + 1
<1>1. n \in Nat
  BY DEF Object
<1> HIDE DEF n
<1>2. /\ [object EXCEPT !.spec = spec, !.generation = n] \in Object
      /\ [object EXCEPT !.deleting = TRUE, !.generation = n] \in Object
      /\ [object EXCEPT !.generation = n] \in Object
  BY <1>1 DEF Object
<1> QED BY <1>2 DEF n

LEMMA RemovedObjectType ==
  ASSUME NEW object \in Object
  PROVE  RemovedObject(object) \in Object
BY DEF RemovedObject, NewStatus, Object, ComponentStatus, NoArtifact

LEMMA DeletedType ==
  ASSUME NEW object \in Object
  PROVE  Deleted(object) \in Object
<1>1. /\ [object EXCEPT !.deleting = TRUE, !.generation = @ + 1] \in Object
      /\ [object EXCEPT !.generation = @ + 1] \in Object
  BY RequestTypes, object.spec \in ComponentSpec DEF Object
<1> QED BY <1>1, RemovedObjectType DEF Deleted

(* What the worker writes into its copy keeps it an object. *)
LEMMA StatusTypes ==
  ASSUME NEW object \in Object
  PROVE  /\ [object EXCEPT !.status.ready = FALSE] \in Object
         /\ [object EXCEPT !.status.processing = "running"] \in Object
         /\ Finalized(object) \in Object
         /\ object.spec.sourceRef \in Reference
         /\ object.spec.dependencies \subseteq Component
         /\ object.generation \in Nat
         /\ object.status \in ComponentStatus
         /\ object.spec \in ComponentSpec
BY DEF Finalized, Object, ComponentStatus, ComponentSpec

LEMMA LoadedType ==
  ASSUME TypeOK, NEW c \in Component, worker[c] \in Object
  PROVE  /\ LoadedArtifact(c) \in Artifact \cup {NoArtifact}
         /\ Loaded(c) \in Object
<1>1. SourceOf(c, worker[c]) \in Source
  <2>1. worker[c].spec.sourceRef \in Reference
    BY StatusTypes
  <2>2. WithDefaultNamespace[c] \in [Reference -> Source]
    BY RolloutAssumption
  <2> QED BY <2>1, <2>2 DEF SourceOf
<1>2. LoadedArtifact(c) \in Artifact \cup {NoArtifact}
  BY <1>1, StatusTypes DEF TypeOK, LoadedArtifact, ComponentStatus
<1>3. Loaded(c) \in Object
  BY <1>2 DEF Loaded, Object, ComponentStatus
<1> QED BY <1>2, <1>3

(* The worker's copy when the rollout of the loaded artifact begins. *)
Begun(c) ==
  [Finalized(Loaded(c)) EXCEPT !.status.lastAttempted = LoadedArtifact(c)]

LEMMA BegunType ==
  ASSUME TypeOK, NEW c \in Component, worker[c] \in Object
  PROVE  /\ Begun(c) \in Object
         /\ Begun(c).finalizer
         /\ Begun(c).generation = worker[c].generation
         /\ Begun(c).deleting = worker[c].deleting
         /\ Begun(c).spec = worker[c].spec
         /\ Begun(c).status.sourceRef = LoadedArtifact(c)
         /\ Begun(c).status.lastAttempted = LoadedArtifact(c)
         /\ Begun(c).status.processing = worker[c].status.processing
<1>1. /\ LoadedArtifact(c) \in Artifact \cup {NoArtifact}
      /\ Loaded(c) \in Object
  BY LoadedType
<1>2. /\ Loaded(c).generation = worker[c].generation
      /\ Loaded(c).deleting = worker[c].deleting
      /\ Loaded(c).spec = worker[c].spec
      /\ Loaded(c).status.sourceRef = LoadedArtifact(c)
      /\ Loaded(c).status.processing = worker[c].status.processing
  BY DEF Loaded, Object, ComponentStatus
<1> HIDE DEF Loaded, LoadedArtifact
<1> QED BY <1>1, <1>2 DEF Begun, Finalized, Object, ComponentStatus

LEMMA CompletedType ==
  ASSUME NEW object \in Object
  PROVE  Completed(object) \in Object
<1>1. PostReconcile(object) \in Object
  BY DEF PostReconcile, Object, ComponentStatus
<1> QED BY <1>1 DEF Completed, Object, ComponentStatus

LEMMA AttemptType ==
  ASSUME NEW object \in Object
  PROVE  Attempt(object) \in Rolled
BY DEF Attempt, Rolled, Object, ComponentStatus, ComponentSpec

(* What is announced at a start, and after a change of a source, are       *)
(* sequences of artifacts.                                                 *)
LEMMA AnnouncedTypes ==
  ASSUME source \in [Source -> Artifact \cup {NoArtifact}]
  PROVE  Listed \in [Source -> Events]
BY DEF Listed, Events

LEMMA AnnouncementsType ==
  ASSUME TypeOK, NEW s \in Source, NEW a \in Artifact \cup {NoArtifact}
  PROVE  Announcements(s, a) \subseteq Events
<1>1. announced[s] \in Events
  BY DEF TypeOK
<1>2. a # NoArtifact => /\ Append(announced[s], a) \in Events
                        /\ <<a>> \in Events
  BY <1>1 DEF Events
<1> QED BY <1>1, <1>2 DEF Announcements

LEMMA InitType == Init => TypeOK
<1> SUFFICES ASSUME Init PROVE TypeOK
  OBVIOUS
<1> USE DEF Init
<1>1. PICK spec \in [Component -> UNION {Specs[c] : c \in Component}] :
        /\ \A c \in Component : spec[c] \in Specs[c]
        /\ components = [c \in Component |->
                          IF c \in Initial THEN NewObject(spec[c], 1)
                          ELSE RemovedObject(NewObject(spec[c], 0))]
  OBVIOUS
<1>2. \A c \in Component : spec[c] \in ComponentSpec
  BY <1>1, RolloutAssumption
<1>3. components \in [Component -> Object]
  BY <1>1, <1>2, ObjectTypes
<1>4. announced \in [Source -> Events]
  BY AnnouncedTypes
<1> QED BY <1>3, <1>4, RolloutAssumption DEF TypeOK

(* Fail in a type-correct state leaves the worker variables type-correct. *)
LEMMA FailType ==
  ASSUME TypeOK, NEW c \in Component, NEW object \in Object, Fail(c, object)
  PROVE  /\ worker' \in [Component -> Object \cup {None}]
         /\ pc' \in [Component -> {"idle", "load", "check", "delete", "finish"}]
         /\ \A x \in Component : pc'[x] # "idle" => worker'[x] \in Object
         /\ todo' \in [Component -> SUBSET Component]
BY StatusTypes DEF Fail, TypeOK

LEMMA NextType == TypeOK /\ [Next]_vars => TypeOK'
<1> SUFFICES ASSUME TypeOK, [Next]_vars PROVE TypeOK'
  OBVIOUS
<1> USE DEF apiVars, sourceVars, queueVars, workerVars, clusterVars
<1>1. ASSUME NEW c \in Component, NEW spec \in Specs[c], Create(c, spec)
      PROVE  TypeOK'
  <2>1. spec \in ComponentSpec
    BY RolloutAssumption
  <2>2. components[c] \in Object
    BY DEF TypeOK
  <2>3. components[c].generation + 1 \in Nat
    BY <2>2 DEF Object
  <2>4. NewObject(spec, components[c].generation + 1) \in Object
    BY <2>1, <2>3, ObjectTypes
  <2> QED BY <1>1, <2>4 DEF Create, Request, TypeOK
<1>2. ASSUME NEW c \in Component, NEW spec \in Specs[c], EditSpec(c, spec)
      PROVE  TypeOK'
  <2>1. spec \in ComponentSpec
    BY RolloutAssumption
  <2>2. [components[c] EXCEPT !.spec = spec, !.generation = @ + 1] \in Object
    BY <2>1, RequestTypes DEF TypeOK
  <2>3. components' = [components EXCEPT ![c] =
                        [components[c] EXCEPT !.spec = spec, !.generation = @ + 1]]
    BY <1>2 DEF EditSpec, TypeOK
  <2>4. components' \in [Component -> Object]
    BY <2>2, <2>3 DEF TypeOK
  <2> QED BY <1>2, <2>4 DEF EditSpec, Request, TypeOK
<1>3. ASSUME NEW c \in Component, DeleteComponent(c)
      PROVE  TypeOK'
  <2>1. Deleted(components[c]) \in Object
    BY DeletedType DEF TypeOK
  <2>2. components' \in [Component -> Object]
    BY <1>3, <2>1 DEF DeleteComponent, TypeOK
  <2> QED BY <1>3, <2>2 DEF DeleteComponent, Request, TypeOK
<1>4. ASSUME NEW c \in Component, ComponentEvent(c)
      PROVE  TypeOK'
  <2>1. ComponentHandlerUpdate(cache', c) \subseteq Component
    BY DEF ComponentHandlerUpdate, MatchingDependency
  <2>2. ComponentHandlerDelete(cache[c]) \subseteq Component
    BY StatusTypes DEF ComponentHandlerDelete, TypeOK
  <2>3. OwnWatch(cache[c], components[c], c) \subseteq Component
    BY DEF OwnWatch
  <2>4. queue' \subseteq Component
    BY <1>4, <2>1, <2>2, <2>3 DEF ComponentEvent, TypeOK
  <2> QED BY <1>4, <2>4 DEF ComponentEvent, TypeOK
<1>5. ASSUME NEW c \in Component, CheckHttpRepository(c)
      PROVE  TypeOK'
  BY <1>5 DEF CheckHttpRepository, TypeOK
<1>6. ASSUME NEW c \in Component, TimerFires(c)
      PROVE  TypeOK'
  BY <1>6 DEF TimerFires, TypeOK
<1>7. ASSUME NEW c \in Component, Start(c)
      PROVE  TypeOK'
  BY <1>7 DEF Start, TypeOK
<1>8. ASSUME NEW c \in Component, LoadFails(c)
      PROVE  TypeOK'
  <2>1. worker[c] \in Object
    BY <1>8 DEF LoadFails, TypeOK
  <2>2. Fail(c, worker[c]) \/ Fail(c, Loaded(c))
    BY <1>8 DEF LoadFails
  <2>3. /\ worker' \in [Component -> Object \cup {None}]
        /\ pc' \in [Component -> {"idle", "load", "check", "delete", "finish"}]
        /\ \A x \in Component : pc'[x] # "idle" => worker'[x] \in Object
        /\ todo' \in [Component -> SUBSET Component]
    BY <2>1, <2>2, LoadedType, FailType
  <2> QED BY <1>8, <2>3 DEF LoadFails, TypeOK
<1>9. ASSUME NEW c \in Component, LoadSucceeds(c)
      PROVE  TypeOK'
  <2>1. worker[c] \in Object
    BY <1>9 DEF LoadSucceeds, TypeOK
  <2>2. Loaded(c) \in Object
    BY <2>1, LoadedType
  <2>3. Begun(c) \in Object
    BY <2>1, BegunType
  <2>4. [components EXCEPT ![c] = Finalized(@)] \in [Component -> Object]
    BY StatusTypes DEF TypeOK
  <2>5. CASE /\ ~worker[c].finalizer
             /\ components[c].generation # worker[c].generation
    <3>1. Fail(c, Loaded(c)) /\ UNCHANGED components
      BY <1>9, <2>5 DEF LoadSucceeds
    <3>2. /\ worker' \in [Component -> Object \cup {None}]
          /\ pc' \in [Component -> {"idle", "load", "check", "delete", "finish"}]
          /\ \A x \in Component : pc'[x] # "idle" => worker'[x] \in Object
          /\ todo' \in [Component -> SUBSET Component]
      BY <2>2, <3>1, FailType
    <3> QED BY <1>9, <3>1, <3>2 DEF LoadSucceeds, TypeOK
  <2>6. CASE ~ (/\ ~worker[c].finalizer
                /\ components[c].generation # worker[c].generation)
    <3>1. /\ worker' = [worker EXCEPT ![c] = Begun(c)]
          /\ components' = IF worker[c].finalizer THEN components
                           ELSE [components EXCEPT ![c] = Finalized(@)]
          /\ todo' = [todo EXCEPT ![c] = worker[c].spec.dependencies]
          /\ pc' = [pc EXCEPT ![c] = "check"]
      BY <1>9, <2>6 DEF LoadSucceeds, Begun
    <3>2. worker[c].spec.dependencies \subseteq Component
      BY <2>1, StatusTypes
    <3>3. components' \in [Component -> Object]
      BY <2>4, <3>1 DEF TypeOK
    <3> QED BY <1>9, <2>3, <3>1, <3>2, <3>3 DEF LoadSucceeds, TypeOK
  <2> QED BY <2>5, <2>6
<1>10. ASSUME NEW c \in Component, NEW d \in Component, CheckDependency(c, d)
       PROVE  TypeOK'
  <2>1. worker[c] \in Object
    BY <1>10 DEF CheckDependency, TypeOK
  <2>2. CASE Fail(c, worker[c])
    BY <1>10, <2>1, <2>2, FailType DEF CheckDependency, TypeOK
  <2>3. CASE /\ todo' = [todo EXCEPT ![c] = @ \ {d}]
             /\ UNCHANGED <<pc, worker>>
    BY <1>10, <2>3 DEF CheckDependency, TypeOK
  <2> QED BY <1>10, <2>2, <2>3 DEF CheckDependency
<1>11. ASSUME NEW c \in Component, ApplyReady(c)
       PROVE  TypeOK'
  <2>1. worker[c] \in Object
    BY <1>11 DEF ApplyReady, TypeOK
  <2>2. Completed(worker[c]) \in Object
    BY <2>1, CompletedType
  <2>3. Attempt(worker[c]) \in Rolled
    BY <2>1, AttemptType
  <2> QED BY <1>11, <2>2, <2>3 DEF ApplyReady, TypeOK
<1>12. ASSUME NEW c \in Component, ApplyUnready(c)
       PROVE  TypeOK'
  <2>1. worker[c] \in Object
    BY <1>12 DEF ApplyUnready, TypeOK
  <2>2. \/ Fail(c, worker[c])
        \/ Fail(c, [worker[c] EXCEPT !.status.processing = "running"])
    BY <1>12 DEF ApplyUnready
  <2>3. [worker[c] EXCEPT !.status.processing = "running"] \in Object
    BY <2>1, StatusTypes
  <2>4. /\ worker' \in [Component -> Object \cup {None}]
        /\ pc' \in [Component -> {"idle", "load", "check", "delete", "finish"}]
        /\ \A x \in Component : pc'[x] # "idle" => worker'[x] \in Object
        /\ todo' \in [Component -> SUBSET Component]
    BY <2>1, <2>2, <2>3, FailType
  <2>5. deployed' \in [Component -> Rolled \cup {None}]
    BY <1>12, <2>1, AttemptType DEF ApplyUnready, TypeOK
  <2> QED BY <1>12, <2>4, <2>5 DEF ApplyUnready, TypeOK
<1>13. ASSUME NEW c \in Component, PreDelete(c)
       PROVE  TypeOK'
  <2>1. worker[c] \in Object
    BY <1>13 DEF PreDelete, TypeOK
  <2>2. CASE Fail(c, worker[c])
    BY <1>13, <2>1, <2>2, FailType DEF PreDelete, TypeOK
  <2>3. CASE pc' = [pc EXCEPT ![c] = "delete"] /\ UNCHANGED <<worker, todo>>
    BY <1>13, <2>1, <2>3 DEF PreDelete, TypeOK
  <2> QED BY <1>13, <2>2, <2>3 DEF PreDelete
<1>14. ASSUME NEW c \in Component, TeardownDone(c)
       PROVE  TypeOK'
  <2>1. worker[c] \in Object /\ components[c] \in Object
    BY <1>14 DEF TeardownDone, TypeOK
  <2>2. deployed' \in [Component -> Rolled \cup {None}]
    BY <1>14 DEF TeardownDone, TypeOK
  <2>3. CASE Fail(c, worker[c]) /\ UNCHANGED components
    BY <1>14, <2>1, <2>2, <2>3, FailType DEF TeardownDone, TypeOK
  <2>4. CASE /\ components' = [components EXCEPT ![c] = RemovedObject(@)]
             /\ pc' = [pc EXCEPT ![c] = "idle"]
             /\ worker' = [worker EXCEPT ![c] = None]
             /\ UNCHANGED todo
    <3>1. components' \in [Component -> Object]
      BY <2>1, <2>4, RemovedObjectType DEF TypeOK
    <3> QED BY <1>14, <2>2, <2>4, <3>1 DEF TeardownDone, TypeOK
  <2> QED BY <1>14, <2>3, <2>4 DEF TeardownDone
<1>15. ASSUME NEW c \in Component, TeardownContinues(c)
       PROVE  TypeOK'
  <2>1. worker[c] \in Object
    BY <1>15 DEF TeardownContinues, TypeOK
  <2> QED BY <1>15, <2>1, FailType DEF TeardownContinues, TypeOK
<1>16. ASSUME NEW c \in Component, FinishReconcile(c)
       PROVE  TypeOK'
  <2>1. worker[c] \in Object /\ components[c] \in Object
    BY <1>16 DEF FinishReconcile, TypeOK
  <2>2. PICK p \in {worker[c].status.processing} \cup
                  (IF IsComponentProcessing(worker[c]) THEN {"timedOut"} ELSE {}) :
          LET status == [worker[c].status EXCEPT
                           !.observedGeneration = worker[c].generation,
                           !.processing = p]
          IN  IF components[c].exists /\ components[c].generation = worker[c].generation
                THEN /\ components' = [components EXCEPT ![c].status = status]
                     /\ applied' = IF status.ready
                          THEN [applied EXCEPT ![c] = @ \cup {Attempt(worker[c])}]
                          ELSE applied
                ELSE UNCHANGED <<components, applied>>
    BY <1>16 DEF FinishReconcile
  <2> DEFINE status == [worker[c].status EXCEPT
                          !.observedGeneration = worker[c].generation,
                          !.processing = p]
  <2>3. status \in ComponentStatus
    <3>1. worker[c].generation \in Nat /\ worker[c].status \in ComponentStatus
      BY <2>1, StatusTypes
    <3>2. p \in {"no", "running", "timedOut"}
      BY <3>1 DEF ComponentStatus
    <3> QED BY <3>1, <3>2 DEF ComponentStatus
  <2>4. [components[c] EXCEPT !.status = status] \in Object
    BY <2>1, <2>3 DEF Object
  <2>5. components' \in [Component -> Object]
    <3> HIDE DEF status
    <3>1. \/ components' = [components EXCEPT ![c].status = status]
          \/ UNCHANGED components
      BY <2>2 DEF status
    <3> QED BY <2>4, <3>1 DEF TypeOK
  <2>6. applied' \in [Component -> SUBSET Rolled]
    <3>1. \/ applied' = [applied EXCEPT ![c] = @ \cup {Attempt(worker[c])}]
          \/ UNCHANGED applied
      BY <2>2
    <3>2. Attempt(worker[c]) \in Rolled
      BY <2>1, AttemptType
    <3> QED BY <3>1, <3>2 DEF TypeOK
  <2> QED BY <1>16, <2>5, <2>6 DEF FinishReconcile, TypeOK
<1>17. ASSUME NEW s \in Source, NEW a \in Artifact \cup {NoArtifact}, SourceChange(s, a)
       PROVE  TypeOK'
  <2>1. announced' \in [Source -> Events]
    <3>1. PICK pending \in Announcements(s, a) :
            announced' = [announced EXCEPT ![s] = pending]
      BY <1>17 DEF SourceChange
    <3>2. pending \in Events
      BY AnnouncementsType
    <3> QED BY <3>1, <3>2 DEF TypeOK
  <2> QED BY <1>17, <2>1 DEF SourceChange, TypeOK
<1>18. ASSUME NEW s \in Source, SourceEvent(s)
       PROVE  TypeOK'
  <2>1. announced' \in [Source -> Events]
    <3>1. Tail(announced[s]) \in Events
      BY <1>18 DEF SourceEvent, Events, TypeOK
    <3> QED BY <1>18, <3>1 DEF SourceEvent, TypeOK
  <2>2. queue' \subseteq Component
    BY <1>18 DEF SourceEvent, MatchingSource, TypeOK
  <2> QED BY <1>18, <2>1, <2>2 DEF SourceEvent, TypeOK
<1>19. ASSUME Crash
       PROVE  TypeOK'
  <2>1. announced' \in [Source -> Events]
    BY <1>19, AnnouncedTypes DEF Crash, Listed, TypeOK
  <2> QED BY <1>19, <2>1 DEF Crash, TypeOK
<1>20. ASSUME UNCHANGED vars
       PROVE  TypeOK'
  BY <1>20 DEF vars, TypeOK
<1> QED
  BY <1>1, <1>2, <1>3, <1>4, <1>5, <1>6, <1>7, <1>8, <1>9, <1>10, <1>11, <1>12,
     <1>13, <1>14, <1>15, <1>16, <1>17, <1>18, <1>19, <1>20
  DEF Next, User, Reconcile

(* Every state the controller reaches is type-correct; in particular a     *)
(* running worker holds a copy of a component.                             *)
THEOREM TypeCorrect == Spec => []TypeOK
BY InitType, NextType, PTL DEF Spec

-----------------------------------------------------------------------------
(* The order of a rollout *)

(* applied only grows. *)
Monotone == \A x \in Component : applied[x] \subseteq applied'[x]

(* Nothing is rolled out that was not rolled out before. *)
NothingRolledOut ==
  \A x \in Component :
    applied'[x] \cup ({deployed'[x]} \ {None})
      \subseteq applied[x] \cup ({deployed[x]} \ {None})

LEMMA ClearedStays ==
  ASSUME Monotone, NEW r, NEW d \in Component, Cleared(r, d)
  PROVE  Cleared(r, d)'
BY DEF Monotone, Cleared

LEMMA OrderStays ==
  ASSUME TypeOK, RolloutOrder, Monotone, NothingRolledOut
  PROVE  RolloutOrder'
<1> SUFFICES ASSUME NEW c \in Component,
                    NEW r \in applied'[c] \cup ({deployed'[c]} \ {None}),
                    NEW d \in r.dependencies
             PROVE  Cleared(r, d)'
  BY DEF RolloutOrder
<1>1. r \in applied[c] \cup ({deployed[c]} \ {None})
  BY DEF NothingRolledOut
<1>2. Cleared(r, d)
  BY <1>1 DEF RolloutOrder
<1>3. d \in Component
  BY <1>1 DEF TypeOK, Rolled
<1> QED BY <1>2, <1>3, ClearedStays

(* A component no action touches keeps its part of the invariant. *)
LEMMA Untouched ==
  ASSUME TypeOK, Monotone, NEW x \in Component, ComponentOrder(x),
         components'[x] = components[x], cache'[x] = cache[x],
         pc'[x] = pc[x], worker'[x] = worker[x], todo'[x] = todo[x]
  PROVE  ComponentOrder(x)'
<1>1. ReadyIsApplied(components[x], x)' /\ ReadyIsApplied(cache[x], x)'
  BY DEF ComponentOrder, ReadyIsApplied, IsReady, Attempt, Monotone
<1>2. WorkerCopy(x)'
  BY DEF ComponentOrder, WorkerCopy
<1>3. WorkerCleared(x)'
  <2> SUFFICES ASSUME pc[x] = "check" \/ (pc[x] = "finish" /\ worker[x].status.ready),
                      NEW d \in worker[x].spec.dependencies \
                                  (IF pc[x] = "check" THEN todo[x] ELSE {})
               PROVE  Cleared(Attempt(worker[x]), d)'
    BY DEF WorkerCleared, Attempt, Cleared
  <2>1. Cleared(Attempt(worker[x]), d)
    BY DEF ComponentOrder, WorkerCleared
  <2>2. d \in Component
    BY StatusTypes DEF TypeOK
  <2>3. Attempt(worker[x])' = Attempt(worker[x])
    BY DEF Attempt
  <2> QED BY <2>1, <2>2, <2>3 DEF Cleared, Monotone
<1> QED BY <1>1, <1>2, <1>3 DEF ComponentOrder

LEMMA InitOrder == Init => OrderInv
<1> SUFFICES ASSUME Init PROVE OrderInv
  OBVIOUS
<1>1. TypeOK
  BY InitType
<1>2. RolloutOrder
  BY DEF Init, RolloutOrder
<1>3. ASSUME NEW c \in Component
      PROVE  /\ components[c].status.observedGeneration = 0
             /\ ~components[c].status.ready
  <2>1. PICK spec : components = [x \in Component |->
                          IF x \in Initial THEN NewObject(spec[x], 1)
                          ELSE RemovedObject(NewObject(spec[x], 0))]
    BY DEF Init
  <2>2. components[c].status = NewStatus
    BY <2>1 DEF NewObject, RemovedObject
  <2> QED BY <2>2 DEF NewStatus
<1>4. ASSUME NEW c \in Component
      PROVE  ComponentOrder(c)
  <2>1. components[c] \in Object /\ cache[c] = components[c] /\ pc[c] = "idle"
    BY <1>1 DEF Init, TypeOK
  <2>2. components[c].generation \in Nat
    BY <2>1, StatusTypes
  <2> QED
    BY <1>3, <2>1, <2>2
    DEF ComponentOrder, ReadyIsApplied, IsReady, WorkerCopy, WorkerCleared
<1> QED BY <1>2, <1>4 DEF OrderInv

(* An action that fails leaves a worker that reports nothing. *)
LEMMA FailOrder ==
  ASSUME TypeOK, OrderInv, NEW c \in Component, NEW object \in Object,
         pc[c] # "idle", Fail(c, object),
         object.generation = worker[c].generation,
         object.spec = worker[c].spec,
         UNCHANGED <<components, cache, applied>>
  PROVE  \A x \in Component : ComponentOrder(x)'
<1>1. Monotone
  BY DEF Monotone
<1>2. ASSUME NEW x \in Component, x # c
      PROVE  ComponentOrder(x)'
  <2>1. pc'[x] = pc[x] /\ worker'[x] = worker[x] /\ todo'[x] = todo[x]
    BY <1>2 DEF Fail, TypeOK
  <2> QED BY <1>1, <2>1, Untouched DEF OrderInv
<1>3. ComponentOrder(c)'
  <2>1. /\ pc'[c] = "finish"
        /\ worker'[c].generation = worker[c].generation
        /\ worker'[c].spec = worker[c].spec
        /\ ~worker'[c].status.ready
    BY DEF Fail, TypeOK, Object, ComponentStatus
  <2>2. ComponentOrder(c)
    BY DEF OrderInv
  <2>3. ReadyIsApplied(components[c], c)' /\ ReadyIsApplied(cache[c], c)'
    BY <2>2 DEF ComponentOrder, ReadyIsApplied, IsReady, Attempt
  <2>4. WorkerCopy(c)' /\ WorkerCleared(c)'
    BY <2>1, <2>2 DEF ComponentOrder, WorkerCopy, WorkerCleared
  <2> QED BY <2>2, <2>3, <2>4 DEF ComponentOrder
<1> QED BY <1>2, <1>3

(* A worker's step keeps what it rolls out cleared. *)
LEMMA ClearedWorker ==
  ASSUME TypeOK, OrderInv, NEW c \in Component,
         pc[c] = "check", todo[c] = {}
  PROVE  \A d \in Attempt(worker[c]).dependencies : Cleared(Attempt(worker[c]), d)
BY DEF OrderInv, ComponentOrder, WorkerCleared, Attempt

(* A request bumps the generation: the object is no longer ready, and a    *)
(* running worker's copy is now older.                                     *)
LEMMA RequestOrder ==
  ASSUME TypeOK, OrderInv, NEW c \in Component, NEW object \in Object,
         components' = [components EXCEPT ![c] = object],
         object.generation = components[c].generation + 1,
         object.status.observedGeneration <= components[c].generation,
         UNCHANGED <<cache, workerVars, clusterVars>>
  PROVE  OrderInv'
<1> USE DEF workerVars, clusterVars
<1>1. Monotone /\ NothingRolledOut
  BY DEF Monotone, NothingRolledOut
<1>2. RolloutOrder'
  BY <1>1, OrderStays DEF OrderInv
<1>3. ASSUME NEW x \in Component, x # c
      PROVE  ComponentOrder(x)'
  <2>1. components'[x] = components[x]
    BY <1>3 DEF TypeOK
  <2> QED BY <1>1, <2>1, Untouched DEF OrderInv
<1>4. ComponentOrder(c)'
  <2>1. components'[c] = object
    BY DEF TypeOK
  <2>2. /\ components[c].generation \in Nat
        /\ object.status.observedGeneration \in Nat
        /\ pc[c] # "idle" => worker[c].generation \in Nat
    BY DEF TypeOK, Object, ComponentStatus
  <2>3. ComponentOrder(c)
    BY DEF OrderInv
  <2>4. ReadyIsApplied(components[c], c)'
    BY <2>1, <2>2 DEF ReadyIsApplied, IsReady
  <2>5. ReadyIsApplied(cache[c], c)'
    BY <2>3 DEF ComponentOrder, ReadyIsApplied, IsReady, Attempt
  <2>6. WorkerCopy(c)'
    BY <2>1, <2>2, <2>3 DEF ComponentOrder, WorkerCopy
  <2>7. WorkerCleared(c)'
    <3>1. WorkerCleared(c)
      BY <2>3 DEF ComponentOrder
    <3> QED BY <3>1 DEF WorkerCleared, Cleared, Attempt
  <2>8. components'[c].status.observedGeneration <= components'[c].generation
    BY <2>1, <2>2
  <2> QED BY <2>4, <2>5, <2>6, <2>7, <2>8 DEF ComponentOrder
<1> QED BY <1>2, <1>3, <1>4 DEF OrderInv

LEMMA UserOrder ==
  ASSUME TypeOK, OrderInv, NEW c \in Component, User(c)
  PROVE  OrderInv'
<1>1. /\ components[c] \in Object
      /\ components[c].generation \in Nat
      /\ components[c].status.observedGeneration <= components[c].generation
  BY DEF TypeOK, Object, OrderInv, ComponentOrder
<1>2. ASSUME NEW spec \in Specs[c], Create(c, spec)
      PROVE  OrderInv'
  <2> DEFINE object == NewObject(spec, components[c].generation + 1)
  <2>1. object \in Object
    BY <1>1, ObjectTypes, RolloutAssumption
  <2>2. /\ object.generation = components[c].generation + 1
        /\ object.status.observedGeneration <= components[c].generation
    BY <1>1 DEF NewObject, NewStatus
  <2>3. /\ components' = [components EXCEPT ![c] = object]
        /\ UNCHANGED <<cache, workerVars, clusterVars>>
    BY <1>2 DEF Create
  <2> QED BY <2>1, <2>2, <2>3, RequestOrder
<1>3. ASSUME NEW spec \in Specs[c], EditSpec(c, spec)
      PROVE  OrderInv'
  <2> DEFINE object == [components[c] EXCEPT !.spec = spec, !.generation = @ + 1]
  <2>1. object \in Object
    BY <1>1, RequestTypes, RolloutAssumption
  <2>2. /\ object.generation = components[c].generation + 1
        /\ object.status.observedGeneration <= components[c].generation
    BY <1>1 DEF Object
  <2>3. /\ components' = [components EXCEPT ![c] = object]
        /\ UNCHANGED <<cache, workerVars, clusterVars>>
    BY <1>3 DEF EditSpec, TypeOK
  <2> QED BY <2>1, <2>2, <2>3, RequestOrder
<1>4. ASSUME DeleteComponent(c)
      PROVE  OrderInv'
  <2> DEFINE object == Deleted(components[c])
  <2>1. object \in Object
    BY <1>1, DeletedType
  <2>2. /\ object.generation = components[c].generation + 1
        /\ object.status.observedGeneration <= components[c].generation
    BY <1>1 DEF Deleted, RemovedObject, NewStatus, Object
  <2>3. /\ components' = [components EXCEPT ![c] = object]
        /\ UNCHANGED <<cache, workerVars, clusterVars>>
    BY <1>4 DEF DeleteComponent
  <2> QED BY <2>1, <2>2, <2>3, RequestOrder
<1> QED BY <1>2, <1>3, <1>4 DEF User

(* A step of c's worker touches no other component. *)
LEMMA OthersUntouched ==
  ASSUME TypeOK, OrderInv, Monotone, NEW c \in Component,
         \A x \in Component \ {c} :
           /\ components'[x] = components[x]
           /\ cache'[x] = cache[x]
           /\ pc'[x] = pc[x] /\ worker'[x] = worker[x] /\ todo'[x] = todo[x],
         ComponentOrder(c)'
  PROVE  \A x \in Component : ComponentOrder(x)'
BY Untouched DEF OrderInv

LEMMA LoadOrder ==
  ASSUME TypeOK, OrderInv, NEW c \in Component, LoadSucceeds(c)
  PROVE  OrderInv'
<1> USE DEF sourceVars, queueVars, clusterVars
<1>1. worker[c] \in Object /\ Loaded(c) \in Object
  BY LoadedType DEF LoadSucceeds, TypeOK
<1>2. /\ Loaded(c).generation = worker[c].generation
      /\ Loaded(c).spec = worker[c].spec
  BY <1>1 DEF Loaded, Object
<1>3. RolloutOrder'
  <2>1. Monotone /\ NothingRolledOut
    BY DEF LoadSucceeds, Monotone, NothingRolledOut
  <2> QED BY <2>1, OrderStays DEF OrderInv
<1>4. CASE /\ ~worker[c].finalizer
           /\ components[c].generation # worker[c].generation
  <2>1. Fail(c, Loaded(c)) /\ UNCHANGED <<components, cache, applied>>
    BY <1>4 DEF LoadSucceeds
  <2>2. pc[c] # "idle"
    BY DEF LoadSucceeds
  <2> QED BY <1>1, <1>2, <1>3, <2>1, <2>2, FailOrder DEF OrderInv
<1>5. CASE ~ (/\ ~worker[c].finalizer
              /\ components[c].generation # worker[c].generation)
  <2>1. /\ worker' = [worker EXCEPT ![c] = Begun(c)]
        /\ components' = IF worker[c].finalizer THEN components
                         ELSE [components EXCEPT ![c] = Finalized(@)]
        /\ todo' = [todo EXCEPT ![c] = worker[c].spec.dependencies]
        /\ pc' = [pc EXCEPT ![c] = "check"]
        /\ UNCHANGED <<cache, applied>>
    BY <1>5 DEF LoadSucceeds, Begun
  <2>2. /\ components'[c].exists = components[c].exists
        /\ components'[c].generation = components[c].generation
        /\ components'[c].spec = components[c].spec
        /\ components'[c].status = components[c].status
    BY <2>1 DEF Finalized, TypeOK, Object
  <2>3. /\ worker'[c] = Begun(c)
        /\ worker'[c].generation = worker[c].generation
        /\ worker'[c].spec = worker[c].spec
    BY <1>1, <2>1, BegunType DEF TypeOK
  <2>4. ComponentOrder(c) /\ pc[c] # "idle"
    BY DEF OrderInv, LoadSucceeds
  <2>5. ReadyIsApplied(components[c], c)' /\ ReadyIsApplied(cache[c], c)'
    BY <2>1, <2>2, <2>4 DEF ComponentOrder, ReadyIsApplied, IsReady, Attempt
  <2>6. WorkerCopy(c)'
    BY <2>2, <2>3, <2>4 DEF ComponentOrder, WorkerCopy
  <2>7. WorkerCleared(c)'
    BY <2>1, <2>3 DEF WorkerCleared, TypeOK
  <2>8. ComponentOrder(c)'
    BY <2>2, <2>4, <2>5, <2>6, <2>7 DEF ComponentOrder
  <2>9. Monotone
    BY <2>1 DEF Monotone
  <2>10. \A x \in Component \ {c} :
           /\ components'[x] = components[x]
           /\ cache'[x] = cache[x]
           /\ pc'[x] = pc[x] /\ worker'[x] = worker[x] /\ todo'[x] = todo[x]
    BY <2>1 DEF TypeOK
  <2> QED BY <1>3, <2>8, <2>9, <2>10, OthersUntouched DEF OrderInv
<1> QED BY <1>4, <1>5

(* A dependency that passes is cleared: the cache shows it ready, so what  *)
(* it attempted is recorded.                                               *)
LEMMA CheckOrder ==
  ASSUME TypeOK, OrderInv, NEW c \in Component, NEW d \in Component,
         CheckDependency(c, d)
  PROVE  OrderInv'
<1> USE DEF apiVars, sourceVars, queueVars, clusterVars
<1>1. RolloutOrder' /\ Monotone
  <2>1. Monotone /\ NothingRolledOut
    BY DEF CheckDependency, Monotone, NothingRolledOut
  <2> QED BY <2>1, OrderStays DEF OrderInv
<1>2. CASE Fail(c, worker[c])
  <2>1. worker[c] \in Object /\ pc[c] # "idle"
    BY DEF CheckDependency, TypeOK
  <2>2. UNCHANGED <<components, cache, applied>>
    BY DEF CheckDependency
  <2> QED BY <1>1, <1>2, <2>1, <2>2, FailOrder DEF OrderInv
<1>3. CASE ~Fail(c, worker[c])
  <2>1. /\ pc[c] = "check"
        /\ cache[d].exists /\ Synced(worker[c], cache[d]) /\ IsReady(cache[d])
        /\ todo' = [todo EXCEPT ![c] = @ \ {d}]
        /\ UNCHANGED <<pc, worker, components, cache, applied>>
    BY <1>3 DEF CheckDependency
  <2>2. ComponentOrder(c)
    BY DEF OrderInv
  <2>3. Cleared(Attempt(worker[c]), d)
    <3>1. Attempt(cache[d]) \in applied[d]
      BY <2>1 DEF OrderInv, ComponentOrder, ReadyIsApplied
    <3>2. Attempt(cache[d]).sourceRef = Attempt(worker[c]).sourceRef
            => Attempt(cache[d]).artifact = Attempt(worker[c]).artifact
      BY <2>1 DEF Synced, Equals, Attempt
    <3> QED BY <3>1, <3>2 DEF Cleared
  <2>4. WorkerCleared(c)'
    <3>1. todo'[c] = todo[c] \ {d}
      BY <2>1 DEF TypeOK
    <3>2. \A x \in worker[c].spec.dependencies \ todo[c] :
            Cleared(Attempt(worker[c]), x)
      BY <2>1, <2>2 DEF ComponentOrder, WorkerCleared
    <3>3. \A x \in worker[c].spec.dependencies \ todo'[c] :
            Cleared(Attempt(worker[c]), x)
      BY <2>3, <3>1, <3>2
    <3>4. \A x \in worker'[c].spec.dependencies \ todo'[c] :
            Cleared(Attempt(worker[c]), x)'
      BY <2>1, <3>3 DEF Cleared, Attempt
    <3> QED BY <2>1, <3>4 DEF WorkerCleared
  <2>5. ComponentOrder(c)'
    BY <2>1, <2>2, <2>4 DEF ComponentOrder, ReadyIsApplied, IsReady, Attempt, WorkerCopy
  <2>6. \A x \in Component \ {c} :
          /\ components'[x] = components[x]
          /\ cache'[x] = cache[x]
          /\ pc'[x] = pc[x] /\ worker'[x] = worker[x] /\ todo'[x] = todo[x]
    BY <2>1 DEF TypeOK
  <2> QED BY <1>1, <2>5, <2>6, OthersUntouched DEF OrderInv
<1> QED BY <1>2, <1>3

(* A component is deployed with a state whose dependencies are all cleared *)
(* at that moment; the worker then reports ready, or not.                  *)
LEMMA DeployedOrder ==
  ASSUME TypeOK, OrderInv, NEW c \in Component,
         pc[c] = "check", todo[c] = {},
         \/ deployed' = [deployed EXCEPT ![c] = Attempt(worker[c])]
         \/ UNCHANGED deployed,
         UNCHANGED applied
  PROVE  RolloutOrder'
<1> SUFFICES ASSUME NEW x \in Component,
                    NEW r \in applied[x] \cup ({deployed'[x]} \ {None}),
                    NEW d \in r.dependencies
             PROVE  Cleared(r, d)'
  BY DEF RolloutOrder
<1>1. r \in applied[x] \cup ({deployed[x]} \ {None})
      \/ (x = c /\ r = Attempt(worker[c]))
  BY DEF TypeOK
<1>2. Cleared(r, d)
  BY <1>1, ClearedWorker DEF OrderInv, RolloutOrder
<1> QED BY <1>2 DEF Cleared

LEMMA ApplyReadyOrder ==
  ASSUME TypeOK, OrderInv, NEW c \in Component, ApplyReady(c)
  PROVE  OrderInv'
<1> USE DEF apiVars, sourceVars, queueVars
<1>1. worker[c] \in Object /\ pc[c] = "check" /\ todo[c] = {}
  BY DEF ApplyReady, TypeOK
<1>2. RolloutOrder'
  BY <1>1, DeployedOrder DEF ApplyReady
<1>3. /\ worker'[c] = Completed(worker[c])
      /\ pc'[c] = "finish"
      /\ UNCHANGED <<components, cache, applied, todo>>
  BY DEF ApplyReady, TypeOK
<1>4. /\ Completed(worker[c]).generation = worker[c].generation
      /\ Completed(worker[c]).spec = worker[c].spec
      /\ Completed(worker[c]).status.lastAttempted = worker[c].status.lastAttempted
  BY <1>1 DEF Completed, PostReconcile, Object, ComponentStatus
<1>5. Attempt(worker'[c]) = Attempt(worker[c])
  BY <1>3, <1>4 DEF Attempt
<1>6. WorkerCleared(c)'
  <2>1. \A d \in worker[c].spec.dependencies : Cleared(Attempt(worker[c]), d)
    BY <1>1, ClearedWorker DEF Attempt
  <2>2. \A d \in worker'[c].spec.dependencies : Cleared(Attempt(worker'[c]), d)
    BY <1>3, <1>4, <1>5, <2>1
  <2>3. \A d \in worker'[c].spec.dependencies : Cleared(Attempt(worker[c]), d)'
    BY <1>3, <2>2 DEF Cleared, Attempt
  <2> QED BY <1>3, <2>3 DEF WorkerCleared
<1>7. ComponentOrder(c)'
  BY <1>1, <1>3, <1>4, <1>6
  DEF OrderInv, ComponentOrder, ReadyIsApplied, IsReady, Attempt, WorkerCopy
<1>8. Monotone
  BY <1>3 DEF Monotone
<1>9. \A x \in Component \ {c} :
        /\ components'[x] = components[x]
        /\ cache'[x] = cache[x]
        /\ pc'[x] = pc[x] /\ worker'[x] = worker[x] /\ todo'[x] = todo[x]
  BY DEF ApplyReady, TypeOK
<1> QED BY <1>2, <1>7, <1>8, <1>9, OthersUntouched DEF OrderInv

LEMMA ApplyUnreadyOrder ==
  ASSUME TypeOK, OrderInv, NEW c \in Component, ApplyUnready(c)
  PROVE  OrderInv'
<1> USE DEF apiVars, sourceVars, queueVars
<1> DEFINE running == [worker[c] EXCEPT !.status.processing = "running"]
<1>1. worker[c] \in Object /\ pc[c] = "check" /\ todo[c] = {}
  BY DEF ApplyUnready, TypeOK
<1>2. RolloutOrder'
  BY <1>1, DeployedOrder DEF ApplyUnready
<1>3. Fail(c, worker[c]) \/ Fail(c, running)
  BY DEF ApplyUnready
<1>4. /\ running \in Object
      /\ running.generation = worker[c].generation
      /\ running.spec = worker[c].spec
  BY <1>1, StatusTypes DEF Object
<1>5. UNCHANGED <<components, cache, applied>>
  BY DEF ApplyUnready
<1> QED BY <1>1, <1>2, <1>3, <1>4, <1>5, FailOrder DEF OrderInv

(* The status update writes ready only for the generation the worker read, *)
(* whose spec is the one it worked on.                                     *)
LEMMA FinishOrder ==
  ASSUME TypeOK, OrderInv, NEW c \in Component, FinishReconcile(c)
  PROVE  OrderInv'
<1>1. /\ worker[c] \in Object /\ components[c] \in Object
      /\ pc[c] = "finish" /\ ComponentOrder(c)
  BY DEF FinishReconcile, TypeOK, OrderInv
<1>2. /\ pc' = [pc EXCEPT ![c] = "idle"]
      /\ worker' = [worker EXCEPT ![c] = None]
      /\ UNCHANGED <<cache, todo, deployed>>
  BY DEF FinishReconcile
<1>3. PICK p :
        LET status == [worker[c].status EXCEPT
                         !.observedGeneration = worker[c].generation,
                         !.processing = p]
        IN  IF components[c].exists /\ components[c].generation = worker[c].generation
              THEN /\ components' = [components EXCEPT ![c].status = status]
                   /\ applied' = IF status.ready
                        THEN [applied EXCEPT ![c] = @ \cup {Attempt(worker[c])}]
                        ELSE applied
              ELSE UNCHANGED <<components, applied>>
  BY DEF FinishReconcile
<1> DEFINE status == [worker[c].status EXCEPT
                        !.observedGeneration = worker[c].generation,
                        !.processing = p]
<1>4. /\ status.ready = worker[c].status.ready
      /\ status.observedGeneration = worker[c].generation
      /\ status.lastAttempted = worker[c].status.lastAttempted
  BY <1>1 DEF Object, ComponentStatus
<1>5. \/ UNCHANGED <<components, applied>>
      \/ /\ components[c].generation = worker[c].generation
         /\ components' = [components EXCEPT ![c].status = status]
         /\ applied' = IF worker[c].status.ready
              THEN [applied EXCEPT ![c] = @ \cup {Attempt(worker[c])}]
              ELSE applied
  BY <1>3, <1>4
<1> HIDE DEF status
<1>6. Monotone
  BY <1>5 DEF Monotone, TypeOK
<1>7. RolloutOrder'
  <2> SUFFICES ASSUME NEW x \in Component,
                      NEW r \in applied'[x] \cup ({deployed'[x]} \ {None}),
                      NEW d \in r.dependencies
               PROVE  Cleared(r, d)'
    BY DEF RolloutOrder
  <2>1. \/ r \in applied[x] \cup ({deployed[x]} \ {None})
        \/ worker[c].status.ready /\ r = Attempt(worker[c])
    BY <1>2, <1>5 DEF TypeOK
  <2>2. CASE r \in applied[x] \cup ({deployed[x]} \ {None})
    <3>1. Cleared(r, d) /\ d \in Component
      BY <2>2 DEF OrderInv, RolloutOrder, TypeOK, Rolled
    <3> QED BY <1>6, <3>1, ClearedStays
  <2>3. CASE worker[c].status.ready /\ r = Attempt(worker[c])
    <3>1. Cleared(r, d)
      BY <1>1, <2>3 DEF ComponentOrder, WorkerCleared, Attempt
    <3>2. d \in Component
      BY <1>1, <2>3, StatusTypes DEF Attempt
    <3> QED BY <1>6, <3>1, <3>2, ClearedStays
  <2> QED BY <2>1, <2>2, <2>3
<1>8. ComponentOrder(c)'
  <2>1. WorkerCopy(c)' /\ WorkerCleared(c)'
    BY <1>2 DEF WorkerCopy, WorkerCleared, TypeOK
  <2>2. ReadyIsApplied(cache[c], c)'
    BY <1>1, <1>2, <1>6
    DEF ComponentOrder, ReadyIsApplied, IsReady, Attempt, Monotone
  <2>3. CASE UNCHANGED <<components, applied>>
    BY <1>1, <2>1, <2>2, <2>3
    DEF ComponentOrder, ReadyIsApplied, IsReady, Attempt
  <2>4. CASE /\ components[c].generation = worker[c].generation
             /\ components' = [components EXCEPT ![c].status = status]
             /\ applied' = IF worker[c].status.ready
                  THEN [applied EXCEPT ![c] = @ \cup {Attempt(worker[c])}]
                  ELSE applied
    <3>1. /\ components'[c].status = status
          /\ components'[c].generation = components[c].generation
          /\ components'[c].spec = worker[c].spec
      BY <1>1, <2>4 DEF ComponentOrder, WorkerCopy, TypeOK, Object
    <3>2. components'[c].status.observedGeneration <= components'[c].generation
      BY <1>1, <1>4, <2>4, <3>1 DEF Object
    <3>3. ReadyIsApplied(components[c], c)'
      <4>1. SUFFICES ASSUME status.ready
                     PROVE  Attempt(components'[c]) \in applied'[c]
        BY <3>1 DEF ReadyIsApplied, IsReady, Attempt
      <4>2. Attempt(components'[c]) = Attempt(worker[c])
        BY <1>4, <3>1 DEF Attempt
      <4>3. Attempt(worker[c]) \in applied'[c]
        BY <1>4, <2>4, <4>1 DEF TypeOK
      <4> QED BY <4>2, <4>3
    <3> QED BY <2>1, <2>2, <3>2, <3>3 DEF ComponentOrder
  <2> QED BY <1>5, <2>3, <2>4
<1>9. \A x \in Component \ {c} :
        /\ components'[x] = components[x]
        /\ cache'[x] = cache[x]
        /\ pc'[x] = pc[x] /\ worker'[x] = worker[x] /\ todo'[x] = todo[x]
  BY <1>2, <1>5 DEF TypeOK
<1> QED BY <1>6, <1>7, <1>8, <1>9, OthersUntouched DEF OrderInv

LEMMA TeardownOrder ==
  ASSUME TypeOK, OrderInv, NEW c \in Component, TeardownDone(c)
  PROVE  OrderInv'
<1>1. /\ worker[c] \in Object /\ components[c] \in Object /\ pc[c] # "idle"
      /\ ComponentOrder(c)
  BY DEF TeardownDone, TypeOK, OrderInv
<1>2. deployed' = [deployed EXCEPT ![c] = None] /\ UNCHANGED <<cache, applied>>
  BY DEF TeardownDone
<1>3. Monotone /\ NothingRolledOut
  BY <1>2 DEF Monotone, NothingRolledOut, TypeOK
<1>4. RolloutOrder'
  BY <1>3, OrderStays DEF OrderInv
<1>5. CASE Fail(c, worker[c]) /\ UNCHANGED components
  BY <1>1, <1>2, <1>4, <1>5, FailOrder DEF OrderInv
<1>6. CASE /\ components' = [components EXCEPT ![c] = RemovedObject(@)]
           /\ pc' = [pc EXCEPT ![c] = "idle"]
           /\ worker' = [worker EXCEPT ![c] = None]
           /\ UNCHANGED todo
  <2>1. /\ components'[c] = RemovedObject(components[c])
        /\ pc'[c] = "idle"
    BY <1>6 DEF TypeOK
  <2>2. /\ ~components'[c].exists
        /\ components'[c].generation \in Nat
        /\ components'[c].status.observedGeneration = 0
    BY <1>1, <2>1 DEF RemovedObject, NewStatus, Object
  <2>3. ComponentOrder(c)'
    BY <1>1, <1>2, <2>1, <2>2
    DEF ComponentOrder, ReadyIsApplied, IsReady, Attempt, WorkerCopy, WorkerCleared
  <2>4. \A x \in Component \ {c} :
          /\ components'[x] = components[x]
          /\ cache'[x] = cache[x]
          /\ pc'[x] = pc[x] /\ worker'[x] = worker[x] /\ todo'[x] = todo[x]
    BY <1>2, <1>6 DEF TypeOK
  <2> QED BY <1>3, <1>4, <2>3, <2>4, OthersUntouched DEF OrderInv
<1> QED BY <1>5, <1>6 DEF TeardownDone

LEMMA NextOrder == TypeOK /\ OrderInv /\ [Next]_vars => OrderInv'
<1> SUFFICES ASSUME TypeOK, OrderInv, [Next]_vars PROVE OrderInv'
  OBVIOUS
<1> USE DEF apiVars, sourceVars, queueVars, workerVars, clusterVars
<1>1. ASSUME UNCHANGED <<components, cache, pc, worker, todo, deployed, applied>>
      PROVE  OrderInv'
  <2>1. Monotone /\ NothingRolledOut
    BY <1>1 DEF Monotone, NothingRolledOut
  <2>2. \A x \in Component : ComponentOrder(x)'
    BY <1>1, <2>1, Untouched DEF OrderInv
  <2> QED BY <2>1, <2>2, OrderStays DEF OrderInv
<1>2. ASSUME NEW c \in Component, User(c)
      PROVE  OrderInv'
  BY <1>2, UserOrder
<1>3. ASSUME NEW c \in Component, ComponentEvent(c)
      PROVE  OrderInv'
  <2>1. Monotone /\ NothingRolledOut
    BY <1>3 DEF ComponentEvent, Monotone, NothingRolledOut
  <2>2. ComponentOrder(c) /\ cache'[c] = components[c]
    BY <1>3 DEF OrderInv, ComponentEvent, TypeOK
  <2>3. UNCHANGED <<components, pc, worker, todo, applied>>
    BY <1>3 DEF ComponentEvent
  <2>4. WorkerCleared(c)'
    BY <2>2, <2>3 DEF ComponentOrder, WorkerCleared, Cleared, Attempt
  <2>5. ComponentOrder(c)'
    BY <2>2, <2>3, <2>4
    DEF ComponentOrder, ReadyIsApplied, IsReady, Attempt, WorkerCopy
  <2>6. \A x \in Component \ {c} :
          /\ components'[x] = components[x]
          /\ cache'[x] = cache[x]
          /\ pc'[x] = pc[x] /\ worker'[x] = worker[x] /\ todo'[x] = todo[x]
    BY <1>3 DEF ComponentEvent, TypeOK
  <2> QED BY <2>1, <2>5, <2>6, OthersUntouched, OrderStays DEF OrderInv
<1>4. ASSUME NEW c \in Component, Start(c)
      PROVE  OrderInv'
  <2>1. CASE ~components[c].exists
    BY <1>1, <1>4, <2>1 DEF Start
  <2>2. CASE components[c].exists
    <3>1. /\ pc' = [pc EXCEPT ![c] = "load"]
          /\ worker' = [worker EXCEPT ![c] = components[c]]
          /\ UNCHANGED <<components, cache, todo, deployed, applied>>
      BY <1>4, <2>2 DEF Start
    <3>2. Monotone /\ NothingRolledOut
      BY <3>1 DEF Monotone, NothingRolledOut
    <3>3. ComponentOrder(c) /\ components[c].generation \in Nat
      BY DEF OrderInv, TypeOK, Object
    <3>4. WorkerCopy(c)' /\ WorkerCleared(c)'
      BY <3>1, <3>3 DEF WorkerCopy, WorkerCleared, TypeOK
    <3>5. ComponentOrder(c)'
      BY <3>1, <3>3, <3>4 DEF ComponentOrder, ReadyIsApplied, IsReady, Attempt
    <3>6. \A x \in Component \ {c} :
            /\ components'[x] = components[x]
            /\ cache'[x] = cache[x]
            /\ pc'[x] = pc[x] /\ worker'[x] = worker[x] /\ todo'[x] = todo[x]
      BY <3>1 DEF TypeOK
    <3> QED BY <3>2, <3>5, <3>6, OthersUntouched, OrderStays DEF OrderInv
  <2> QED BY <2>1, <2>2
<1>5. ASSUME NEW c \in Component, LoadFails(c)
      PROVE  OrderInv'
  <2>1. worker[c] \in Object /\ pc[c] # "idle"
    BY <1>5 DEF LoadFails, TypeOK
  <2>2. /\ Loaded(c) \in Object
        /\ Loaded(c).generation = worker[c].generation
        /\ Loaded(c).spec = worker[c].spec
    BY <2>1, LoadedType DEF Loaded, Object
  <2>3. /\ Fail(c, worker[c]) \/ Fail(c, Loaded(c))
        /\ UNCHANGED <<components, cache, deployed, applied>>
    BY <1>5 DEF LoadFails
  <2>4. Monotone /\ NothingRolledOut
    BY <2>3 DEF Monotone, NothingRolledOut
  <2>5. \A x \in Component : ComponentOrder(x)'
    BY <2>1, <2>2, <2>3, FailOrder
  <2> QED BY <2>4, <2>5, OrderStays DEF OrderInv
<1>6. ASSUME NEW c \in Component, PreDelete(c)
      PROVE  OrderInv'
  <2>1. worker[c] \in Object /\ pc[c] # "idle"
    BY <1>6 DEF PreDelete, TypeOK
  <2>2. UNCHANGED <<components, cache, deployed, applied>>
    BY <1>6 DEF PreDelete
  <2>3. Monotone /\ NothingRolledOut
    BY <2>2 DEF Monotone, NothingRolledOut
  <2>4. CASE Fail(c, worker[c])
    BY <2>1, <2>2, <2>3, <2>4, FailOrder, OrderStays DEF OrderInv
  <2>5. CASE pc' = [pc EXCEPT ![c] = "delete"] /\ UNCHANGED <<worker, todo>>
    <3>1. pc'[c] = "delete"
      BY <2>5 DEF TypeOK
    <3>2. ComponentOrder(c)
      BY DEF OrderInv
    <3>3. ComponentOrder(c)'
      BY <2>1, <2>2, <2>5, <3>1, <3>2
      DEF ComponentOrder, ReadyIsApplied, IsReady, Attempt, WorkerCopy, WorkerCleared
    <3>4. \A x \in Component \ {c} :
            /\ components'[x] = components[x]
            /\ cache'[x] = cache[x]
            /\ pc'[x] = pc[x] /\ worker'[x] = worker[x] /\ todo'[x] = todo[x]
      BY <2>2, <2>5 DEF TypeOK
    <3> QED BY <2>3, <3>3, <3>4, OthersUntouched, OrderStays DEF OrderInv
  <2> QED BY <1>6, <2>4, <2>5 DEF PreDelete
<1>7. ASSUME NEW c \in Component, TeardownContinues(c)
      PROVE  OrderInv'
  <2>1. worker[c] \in Object /\ pc[c] # "idle"
    BY <1>7 DEF TeardownContinues, TypeOK
  <2>2. Fail(c, worker[c]) /\ UNCHANGED <<components, cache, deployed, applied>>
    BY <1>7 DEF TeardownContinues
  <2>3. Monotone /\ NothingRolledOut
    BY <2>2 DEF Monotone, NothingRolledOut
  <2> QED BY <2>1, <2>2, <2>3, FailOrder, OrderStays DEF OrderInv
<1>8. ASSUME Crash
      PROVE  OrderInv'
  <2>1. Monotone /\ NothingRolledOut
    BY <1>8 DEF Crash, Monotone, NothingRolledOut
  <2>2. ASSUME NEW c \in Component
        PROVE  ComponentOrder(c)'
    <3>1. pc'[c] = "idle" /\ cache'[c] = components[c] /\ ComponentOrder(c)
          /\ UNCHANGED <<components, applied>>
      BY <1>8 DEF Crash, OrderInv
    <3> QED BY <3>1
        DEF ComponentOrder, ReadyIsApplied, IsReady, Attempt, WorkerCopy, WorkerCleared
  <2> QED BY <2>1, <2>2, OrderStays DEF OrderInv
<1>9. ASSUME NEW c \in Component, CheckHttpRepository(c) \/ TimerFires(c)
      PROVE  OrderInv'
  BY <1>1, <1>9 DEF CheckHttpRepository, TimerFires
<1>10. ASSUME NEW s \in Source,
              \/ \E a \in Artifact \cup {NoArtifact} : SourceChange(s, a)
              \/ SourceEvent(s)
       PROVE  OrderInv'
  BY <1>1, <1>10 DEF SourceChange, SourceEvent
<1>11. ASSUME UNCHANGED vars
       PROVE  OrderInv'
  BY <1>1, <1>11 DEF vars
<1>12. ASSUME NEW c \in Component, Reconcile(c)
       PROVE  OrderInv'
  BY <1>4, <1>5, <1>6, <1>7, <1>12, LoadOrder, CheckOrder, ApplyReadyOrder,
     ApplyUnreadyOrder, FinishOrder, TeardownOrder
  DEF Reconcile
<1> QED
  BY <1>2, <1>3, <1>8, <1>9, <1>10, <1>11, <1>12 DEF Next

(* OrderInv in every state: besides the order itself, that a ready status, *)
(* live or in the cache, stands for a rollout that took place, and that a  *)
(* worker's copy is the component as it was in some generation.            *)
THEOREM OrderKept == Spec => []OrderInv
<1>1. Init => TypeOK /\ OrderInv
  BY InitType, InitOrder
<1>2. TypeOK /\ OrderInv /\ [Next]_vars => TypeOK' /\ OrderInv'
  BY NextType, NextOrder
<1> QED BY <1>1, <1>2, PTL DEF Spec

(* Whatever users edit, create and delete, however sources move, events    *)
(* lag and the operator crashes: no component is deployed, and none is     *)
(* reported ready, before each of its dependencies was ready with the      *)
(* artifact of their common source.                                        *)
THEOREM RolloutOrdered == Spec => []RolloutOrder
<1>1. OrderInv => RolloutOrder
  BY DEF OrderInv
<1> QED BY <1>1, OrderKept, PTL

(* What Equals misses are references that are written differently: where   *)
(* no two references mean one source, as when every reference names its    *)
(* namespace, the order holds for all components that share a source.      *)
THEOREM SourcesOrdered ==
  ASSUME \A c, d \in Component : \A r, s \in Reference :
           WithDefaultNamespace[c][r] = WithDefaultNamespace[d][s] => r = s
  PROVE  Spec => []SourceOrder
<1>1. ASSUME TypeOK, RolloutOrder
      PROVE  SourceOrder
  <2> SUFFICES ASSUME NEW c \in Component,
                      NEW r \in applied[c] \cup ({deployed[c]} \ {None}),
                      NEW d \in r.dependencies
               PROVE  \E p \in applied[d] :
                        WithDefaultNamespace[d][p.sourceRef]
                            = WithDefaultNamespace[c][r.sourceRef]
                          => p.artifact = r.artifact
    BY DEF SourceOrder
  <2>1. r \in Rolled
    BY <1>1 DEF TypeOK
  <2>2. PICK p \in applied[d] : p.sourceRef = r.sourceRef => p.artifact = r.artifact
    BY <1>1 DEF RolloutOrder, Cleared
  <2>3. d \in Component /\ p \in Rolled
    BY <1>1, <2>1 DEF TypeOK, Rolled
  <2>4. r.sourceRef \in Reference /\ p.sourceRef \in Reference
    BY <2>1, <2>3 DEF Rolled
  <2> QED BY <2>2, <2>3, <2>4
<1> QED BY <1>1, TypeCorrect, RolloutOrdered, PTL

-----------------------------------------------------------------------------
(* Wake-ups *)

LEMMA InitWakeUp == Init => WakeUpInv
<1> SUFFICES ASSUME Init PROVE WakeUpInv
  OBVIOUS
<1>1. TypeOK
  BY InitType
<1>2. ASSUME NEW c \in Component
      PROVE  cache[c].generation <= components[c].generation
  BY <1>1 DEF Init, TypeOK, Object
<1>3. ASSUME NEW c \in Component, components[c].exists
      PROVE  c \in queue
  <2>1. PICK spec : components = [x \in Component |->
                          IF x \in Initial THEN NewObject(spec[x], 1)
                          ELSE RemovedObject(NewObject(spec[x], 0))]
    BY DEF Init
  <2>2. c \in Initial
    BY <1>3, <2>1 DEF NewObject, RemovedObject
  <2> QED BY <2>2 DEF Init
<1> QED BY <1>2, <1>3 DEF WakeUpInv, NeverForgotten

(* A component that a step leaves with the same generation, in the API     *)
(* server and in the cache, and with a reason to be reconciled if it had   *)
(* one, keeps its part of the invariant.                                   *)
LEMMA StaysAwake ==
  ASSUME WakeUpInv,
         \A x \in Component :
           /\ components'[x].generation = components[x].generation
           /\ cache'[x].generation = cache[x].generation
           /\ components'[x].exists =>
                \/ /\ components[x].exists
                   /\ x \in queue \cup timer => x \in queue' \cup timer'
                   /\ pc[x] # "idle" => pc'[x] # "idle"
                \/ x \in queue' \cup timer'
                \/ pc'[x] # "idle"
  PROVE  WakeUpInv'
BY DEF WakeUpInv, NeverForgotten

(* A request leads the generation ahead of the informer. *)
LEMMA RequestWakes ==
  ASSUME TypeOK, WakeUpInv, NEW c \in Component, NEW object \in Object,
         components' = [components EXCEPT ![c] = object],
         object.generation = components[c].generation + 1,
         UNCHANGED <<cache, queueVars, workerVars>>
  PROVE  WakeUpInv'
<1>1. ASSUME NEW x \in Component
      PROVE  components[x].generation \in Nat /\ cache[x].generation \in Nat
  BY DEF TypeOK, Object
<1>2. components'[c].generation = components[c].generation + 1
      /\ \A x \in Component \ {c} : components'[x] = components[x]
  BY DEF TypeOK
<1>3. ASSUME NEW x \in Component
      PROVE  /\ cache[x].generation <= components'[x].generation
             /\ x = c => cache[x].generation # components'[x].generation
  BY <1>1, <1>2 DEF WakeUpInv
<1> QED BY <1>2, <1>3 DEF WakeUpInv, NeverForgotten, queueVars, workerVars

LEMMA UserWakes ==
  ASSUME TypeOK, WakeUpInv, NEW c \in Component, User(c)
  PROVE  WakeUpInv'
<1>1. components[c] \in Object /\ components[c].generation \in Nat
  BY DEF TypeOK, Object
<1>2. ASSUME NEW spec \in Specs[c], Create(c, spec)
      PROVE  WakeUpInv'
  <2> DEFINE object == NewObject(spec, components[c].generation + 1)
  <2>1. object \in Object /\ object.generation = components[c].generation + 1
    <3>1. spec \in ComponentSpec
      BY RolloutAssumption
    <3> QED BY <1>1, <3>1, ObjectTypes DEF NewObject
  <2> QED BY <1>2, <2>1, RequestWakes DEF Create
<1>3. ASSUME NEW spec \in Specs[c], EditSpec(c, spec)
      PROVE  WakeUpInv'
  <2> DEFINE object == [components[c] EXCEPT !.spec = spec, !.generation = @ + 1]
  <2>1. object \in Object /\ object.generation = components[c].generation + 1
    <3>1. spec \in ComponentSpec
      BY RolloutAssumption
    <3>2. object \in Object
      BY <1>1, <3>1, RequestTypes
    <3> QED BY <1>1, <3>2 DEF Object
  <2>2. components' = [components EXCEPT ![c] = object]
    BY <1>3 DEF EditSpec, TypeOK
  <2> QED BY <1>3, <2>1, <2>2, RequestWakes DEF EditSpec
<1>4. ASSUME DeleteComponent(c)
      PROVE  WakeUpInv'
  <2> DEFINE object == Deleted(components[c])
  <2>1. object \in Object /\ object.generation = components[c].generation + 1
    BY <1>1, DeletedType DEF Deleted, RemovedObject, Object
  <2> QED BY <1>4, <2>1, RequestWakes DEF DeleteComponent
<1> QED BY <1>2, <1>3, <1>4 DEF User

LEMMA NextWakeUp == TypeOK /\ WakeUpInv /\ [Next]_vars => WakeUpInv'
<1> SUFFICES ASSUME TypeOK, WakeUpInv, [Next]_vars PROVE WakeUpInv'
  OBVIOUS
<1> USE DEF apiVars, sourceVars, queueVars, workerVars, clusterVars
<1>1. ASSUME NEW c \in Component, User(c)
      PROVE  WakeUpInv'
  BY <1>1, UserWakes
<1>2. ASSUME NEW c \in Component, ComponentEvent(c)
      PROVE  WakeUpInv'
  <2>1. cache'[c] = components[c] /\ \A x \in Component \ {c} : cache'[x] = cache[x]
    BY <1>2 DEF ComponentEvent, TypeOK
  <2>2. /\ UNCHANGED <<components, timer, pc>>
        /\ queue \subseteq queue'
        /\ OwnWatch(cache[c], components[c], c) \subseteq queue'
    BY <1>2 DEF ComponentEvent
  <2>3. c \in queue' \/ cache[c].generation = components[c].generation
    BY <2>2 DEF OwnWatch
  <2>4. components[c].generation \in Nat
    BY DEF TypeOK, Object
  <2> QED BY <2>1, <2>2, <2>3, <2>4 DEF WakeUpInv, NeverForgotten
<1>3. ASSUME NEW c \in Component, Start(c)
      PROVE  WakeUpInv'
  <2>1. UNCHANGED <<components, cache, timer>> /\ queue' = queue \ {c}
    BY <1>3 DEF Start
  <2>2. components[c].exists => pc'[c] # "idle"
    BY <1>3 DEF Start, TypeOK
  <2>3. \A x \in Component \ {c} : pc'[x] = pc[x]
    BY <1>3 DEF Start, TypeOK
  <2> QED BY <2>1, <2>2, <2>3, StaysAwake
<1>4. ASSUME NEW c \in Component,
             \/ LoadFails(c)
             \/ \E d \in Component : CheckDependency(c, d)
             \/ ApplyReady(c)
             \/ ApplyUnready(c)
             \/ PreDelete(c)
             \/ TeardownContinues(c)
      PROVE  WakeUpInv'
  <2>1. UNCHANGED <<components, cache, queue, timer>>
    BY <1>4 DEF LoadFails, CheckDependency, ApplyReady, ApplyUnready, PreDelete,
                TeardownContinues
  <2>2. \A x \in Component : pc[x] # "idle" => pc'[x] # "idle"
    BY <1>4 DEF LoadFails, CheckDependency, ApplyReady, ApplyUnready, PreDelete,
                TeardownContinues, Fail, TypeOK
  <2> QED BY <2>1, <2>2, StaysAwake
<1>5. ASSUME NEW c \in Component, LoadSucceeds(c)
      PROVE  WakeUpInv'
  <2>1. UNCHANGED <<cache, queue, timer>>
    BY <1>5 DEF LoadSucceeds
  <2>2. \A x \in Component : /\ components'[x].generation = components[x].generation
                             /\ components'[x].exists = components[x].exists
    BY <1>5 DEF LoadSucceeds, Finalized, TypeOK, Object
  <2>3. \A x \in Component : pc[x] # "idle" => pc'[x] # "idle"
    BY <1>5 DEF LoadSucceeds, Fail, TypeOK
  <2> QED BY <2>1, <2>2, <2>3, StaysAwake
<1>6. ASSUME NEW c \in Component, FinishReconcile(c)
      PROVE  WakeUpInv'
  <2>1. /\ UNCHANGED <<cache, queue>>
        /\ timer' = timer \cup {c}
        /\ \A x \in Component \ {c} : pc'[x] = pc[x]
    BY <1>6 DEF FinishReconcile, TypeOK
  <2>2. \/ UNCHANGED components
        \/ \E status : components' = [components EXCEPT ![c].status = status]
    BY <1>6 DEF FinishReconcile
  <2>3. \A x \in Component : /\ components'[x].generation = components[x].generation
                             /\ components'[x].exists = components[x].exists
    BY <2>2 DEF TypeOK, Object
  <2> QED BY <2>1, <2>3, StaysAwake
<1>7. ASSUME NEW c \in Component, TeardownDone(c)
      PROVE  WakeUpInv'
  <2>1. UNCHANGED <<cache, queue, timer>>
    BY <1>7 DEF TeardownDone
  <2>2. CASE Fail(c, worker[c]) /\ UNCHANGED components
    <3>1. \A x \in Component : pc[x] # "idle" => pc'[x] # "idle"
      BY <2>2 DEF Fail, TypeOK
    <3> QED BY <2>1, <2>2, <3>1, StaysAwake
  <2>3. CASE /\ components' = [components EXCEPT ![c] = RemovedObject(@)]
             /\ pc' = [pc EXCEPT ![c] = "idle"]
    <3>1. /\ components'[c].generation = components[c].generation
          /\ ~components'[c].exists
      BY <2>3 DEF RemovedObject, TypeOK, Object
    <3>2. \A x \in Component \ {c} : components'[x] = components[x] /\ pc'[x] = pc[x]
      BY <2>3 DEF TypeOK
    <3> QED BY <2>1, <3>1, <3>2, StaysAwake
  <2> QED BY <1>7, <2>2, <2>3 DEF TeardownDone
<1>8. ASSUME NEW c \in Component, CheckHttpRepository(c) \/ TimerFires(c)
      PROVE  WakeUpInv'
  <2>1. /\ UNCHANGED <<components, cache, pc>>
        /\ queue \cup timer \subseteq queue' \cup timer'
    BY <1>8 DEF CheckHttpRepository, TimerFires
  <2> QED BY <2>1, StaysAwake
<1>9. ASSUME NEW s \in Source,
             \/ \E a \in Artifact \cup {NoArtifact} : SourceChange(s, a)
             \/ SourceEvent(s)
      PROVE  WakeUpInv'
  <2>1. UNCHANGED <<components, cache, pc, timer>> /\ queue \subseteq queue'
    BY <1>9 DEF SourceChange, SourceEvent
  <2> QED BY <2>1, StaysAwake
<1>10. ASSUME Crash
       PROVE  WakeUpInv'
  <2>1. \A x \in Component : components[x].generation \in Nat
    BY DEF TypeOK, Object
  <2> QED BY <1>10, <2>1 DEF Crash, WakeUpInv, NeverForgotten
<1>11. ASSUME UNCHANGED vars
       PROVE  WakeUpInv'
  BY <1>11, StaysAwake DEF vars
<1>12. ASSUME NEW c \in Component, Reconcile(c)
       PROVE  WakeUpInv'
  BY <1>3, <1>4, <1>5, <1>6, <1>7, <1>12 DEF Reconcile
<1> QED
  BY <1>1, <1>2, <1>8, <1>9, <1>10, <1>11, <1>12 DEF Next

(* No wake-up is lost: at every moment each component on the cluster is    *)
(* queued, timed, worked on, or about to be reported by the informer.      *)
THEOREM WakeUpsKept == Spec => []NeverForgotten
<1>1. Init => TypeOK /\ WakeUpInv
  BY InitType, InitWakeUp
<1>2. TypeOK /\ WakeUpInv /\ [Next]_vars => TypeOK' /\ WakeUpInv'
  BY NextType, NextWakeUp
<1>3. WakeUpInv => NeverForgotten
  BY DEF WakeUpInv
<1> QED BY <1>1, <1>2, <1>3, PTL DEF Spec
=============================================================================
