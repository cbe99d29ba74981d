------------------------------- MODULE Rollout -------------------------------
(***************************************************************************)
(* The component controller: how a source artifact is rolled out to        *)
(* components that depend on each other, and how components are torn down. *)
(*                                                                         *)
(* Workers read the live Component (the client does not cache it), but the *)
(* hooks and the event handlers read other components from the informer    *)
(* cache, which lags. Flux sources are read from that cache by all alike:  *)
(* for them `source' is what the cache holds. A reconcile of a component   *)
(* is one worker run: Get, Load and post-read hook, the pre-reconcile hook *)
(* one dependency at a time, the apply, the status update; or Get, the     *)
(* pre-delete hook and the teardown. Users, sources, other workers, the    *)
(* informer and a crash can step in between any two of these.              *)
(***************************************************************************)
EXTENDS ComponentTypes, FiniteSets, Sequences

CONSTANTS
  Source,           \* the sources: flux objects, blueprints, http repositories
  WithDefaultNamespace,  \* the source a component refers to: [Component -> [Reference -> Source]]
  SourceKind,       \* [Source -> {"flux", "blueprint", "http"}]
  CreatedReady,     \* flux sources that may be ready in the first event about them
  Specs,            \* the specs users give to components: [Component -> SUBSET ComponentSpec]
  Initial,          \* the components on the cluster when the operator starts
  MaxGeneration,    \* bound: no create or edit at or beyond this generation
  MaxRequests,      \* bound: creates, edits and deletes by users
  MaxChanges,       \* bound: changes of sources
  MaxUnready,       \* bound: apply and teardown rounds that do not complete
  MaxCrashes        \* bound: crashes of the operator

ASSUME RolloutAssumption ==
  /\ WithDefaultNamespace \in [Component -> [Reference -> Source]]
  /\ SourceKind \in [Source -> {"flux", "blueprint", "http"}]
  /\ \A s \in CreatedReady : s \in Source /\ SourceKind[s] = "flux"
  /\ Specs \in [Component -> SUBSET ComponentSpec]
  /\ \A c \in Component : Specs[c] # {}
  /\ Initial \subseteq Component
  /\ {MaxGeneration, MaxRequests, MaxChanges, MaxUnready, MaxCrashes}
       \subseteq Nat

VARIABLES
  components,   \* the API server: [Component -> Object]
  cache,        \* the informer cache: what List and Get of the manager's cache see
  source,       \* the artifact Load finds; NoArtifact when missing or not ready
  announced,    \* artifacts of each source the handlers have still to hear of
  queue,        \* the work queue
  timer,        \* components with a pending RequeueAfter or rate-limited retry
  pc,           \* where the worker of a component is
  worker,       \* the worker's copy of the component, None when idle
  todo,         \* dependencies the pre-reconcile hook has still to check
  deployed,     \* what the dependent objects in the cluster were generated from
  applied,      \* history: what a persisted ready status stood for
  env           \* how much of the bounds is used up

apiVars == <<components, cache>>
sourceVars == <<source, announced>>
queueVars == <<queue, timer>>
workerVars == <<pc, worker, todo>>
clusterVars == <<deployed, applied>>
vars == <<components, cache, source, announced, queue, timer,
          pc, worker, todo, deployed, applied, env>>

-----------------------------------------------------------------------------

(* The source an object of c refers to: a reference without a namespace    *)
(* means a source in the namespace of c.                                   *)
SourceOf(c, object) == WithDefaultNamespace[c][object.spec.sourceRef]

(* The indices by source: the components that refer to s.                  *)
MatchingSource(view, s) ==
  {c \in Component : view[c].exists /\ SourceOf(c, view[c]) = s}

Rolled == [sourceRef : Reference, artifact : Artifact \cup {NoArtifact},
           dependencies : SUBSET Component]

ASSUME RolledAssumption == None \notin Rolled

(* What a component object's last attempt stands for. *)
Attempt(object) ==
  [sourceRef |-> object.spec.sourceRef,
   artifact |-> object.status.lastAttempted,
   dependencies |-> object.spec.dependencies]

(* The source events a handler has still to run for, in order. *)
Events == Seq(Artifact)

TypeOK ==
  /\ components \in [Component -> Object]
  /\ cache \in [Component -> Object]
  /\ source \in [Source -> Artifact \cup {NoArtifact}]
  /\ announced \in [Source -> Events]
  /\ queue \subseteq Component
  /\ timer \subseteq Component
  /\ pc \in [Component -> {"idle", "load", "check", "delete", "finish"}]
  /\ worker \in [Component -> Object \cup {None}]
  /\ \A c \in Component : pc[c] # "idle" => worker[c] \in Object
  /\ todo \in [Component -> SUBSET Component]
  /\ deployed \in [Component -> Rolled \cup {None}]
  /\ applied \in [Component -> SUBSET Rolled]
  /\ env \in [requests : Nat, changes : Nat, unready : Nat, crashes : Nat]

(* A start lists the sources: blueprints are announced by create events,   *)
(* while the handler of flux sources ignores those.                        *)
Listed ==
  [s \in Source |-> IF SourceKind[s] = "blueprint" /\ source[s] # NoArtifact
                      THEN <<source[s]>> ELSE <<>>]

(* The operator starts on a cluster that already holds the components of   *)
(* Initial: the informer has listed them and each was queued by its create *)
(* event.                                                                  *)
Init ==
  /\ \E spec \in [Component -> UNION {Specs[c] : c \in Component}] :
       /\ \A c \in Component : spec[c] \in Specs[c]
       /\ components = [c \in Component |->
                          IF c \in Initial THEN NewObject(spec[c], 1)
                          ELSE RemovedObject(NewObject(spec[c], 0))]
  /\ cache = components
  /\ source \in [Source -> Artifact \cup {NoArtifact}]
  /\ announced = Listed
  /\ queue = Initial
  /\ timer = {}
  /\ pc = [c \in Component |-> "idle"]
  /\ worker = [c \in Component |-> None]
  /\ todo = [c \in Component |-> {}]
  /\ deployed = [c \in Component |-> None]
  /\ applied = [c \in Component |-> {}]
  /\ env = [requests |-> 0, changes |-> 0, unready |-> 0, crashes |-> 0]

-----------------------------------------------------------------------------
(* Users and sources *)

Request ==
  /\ env.requests < MaxRequests
  /\ env' = [env EXCEPT !.requests = @ + 1]

Create(c, spec) ==
  /\ ~components[c].exists
  /\ components[c].generation < MaxGeneration
  /\ components' = [components EXCEPT ![c] = NewObject(spec, @.generation + 1)]
  /\ Request
  /\ UNCHANGED <<cache, sourceVars, queueVars, workerVars, clusterVars>>

EditSpec(c, spec) ==
  /\ components[c].exists
  /\ components[c].spec # spec
  /\ components[c].generation < MaxGeneration
  /\ components' = [components EXCEPT ![c].spec = spec, ![c].generation = @ + 1]
  /\ Request
  /\ UNCHANGED <<cache, sourceVars, queueVars, workerVars, clusterVars>>

(* Without the finalizer the API server removes the object at once. *)
Deleted(object) ==
  IF object.finalizer
    THEN [object EXCEPT !.deleting = TRUE, !.generation = @ + 1]
    ELSE RemovedObject([object EXCEPT !.generation = @ + 1])

DeleteComponent(c) ==
  /\ components[c].exists
  /\ ~components[c].deleting
  /\ components' = [components EXCEPT ![c] = Deleted(@)]
  /\ Request
  /\ UNCHANGED <<cache, sourceVars, queueVars, workerVars, clusterVars>>

(* What the handlers may have to hear of s once it has moved to a. They    *)
(* ignore a deletion and a flux source that is not ready, and http         *)
(* repositories announce nothing. The informer of blueprints may skip what *)
(* came before a. A flux source that was missing comes by a create event,  *)
(* also ignored: that new sources are never ready is an assumption of the  *)
(* code, made here for those outside of CreatedReady.                      *)
Announcements(s, a) ==
  IF a = NoArtifact \/ SourceKind[s] = "http" THEN {announced[s]}
  ELSE {Append(announced[s], a)} \cup
       (IF SourceKind[s] = "blueprint" THEN {<<a>>} ELSE {}) \cup
       (IF s \in CreatedReady /\ source[s] = NoArtifact THEN {announced[s]} ELSE {})

SourceChange(s, a) ==
  /\ source[s] # a
  /\ env.changes < MaxChanges
  /\ source' = [source EXCEPT ![s] = a]
  /\ \E pending \in Announcements(s, a) :
       announced' = [announced EXCEPT ![s] = pending]
  /\ env' = [env EXCEPT !.changes = @ + 1]
  /\ UNCHANGED <<apiVars, queueVars, workerVars, clusterVars>>

-----------------------------------------------------------------------------
(* Informer and event handlers *)

(* componentHandler.Update queues the dependents of a component that is    *)
(* ready.                                                                  *)
ComponentHandlerUpdate(view, c) ==
  IF IsReady(view[c]) THEN MatchingDependency(view, c) ELSE {}

(* Mutation of ComponentHandlerDelete: nobody is told. *)
NoComponentHandlerDelete(object) == {}

(* componentHandler.Delete queues the dependencies of the deleted          *)
(* component, as last seen.                                                *)
ComponentHandlerDelete(object) == object.spec.dependencies

(* Mutation of OwnWatch: created components are not queued. *)
OwnWatchWithoutCreate(old, new, c) ==
  IF new.exists /\ (~old.exists \/ old.generation = new.generation)
    THEN {} ELSE {c}

(* The controller's own watch queues the component itself on create, on    *)
(* delete and on a new generation.                                         *)
OwnWatch(old, new, c) ==
  IF new.exists /\ old.exists /\ old.generation = new.generation
    THEN {} ELSE {c}

(* The informer moves to the live object (possibly skipping versions, as   *)
(* after a relist) and then runs the handlers on the new cache.            *)
ComponentEvent(c) ==
  /\ cache[c] # components[c]
  /\ cache' = [cache EXCEPT ![c] = components[c]]
  /\ queue' = queue \cup OwnWatch(cache[c], components[c], c) \cup
       (IF components[c].exists
          THEN IF cache[c].exists THEN ComponentHandlerUpdate(cache', c) ELSE {}
          ELSE ComponentHandlerDelete(cache[c]))
  /\ UNCHANGED <<components, sourceVars, timer, workerVars, clusterVars, env>>

(* Mutation of UpToDate: every ready component is left alone. *)
UpToDateWhenReady(object, a) == IsReady(object)

(* A component known to have attempted what the source now offers, and     *)
(* ready, is left alone.                                                   *)
UpToDate(object, a) == IsReady(object) /\ object.status.lastAttempted = a

(* blueprintHandler.createOrUpdate and fluxSourceHandler.Update, on the    *)
(* version of the source that the event carries.                           *)
SourceEvent(s) ==
  /\ announced[s] # <<>>
  /\ announced' = [announced EXCEPT ![s] = Tail(@)]
  /\ queue' = queue \cup
       {c \in MatchingSource(cache, s) : ~UpToDate(cache[c], Head(announced[s]))}
  /\ UNCHANGED <<apiVars, source, timer, workerVars, clusterVars, env>>

(* One component of a round of the http repository checker. *)
CheckHttpRepository(c) ==
  /\ cache[c].exists
  /\ SourceKind[SourceOf(c, cache[c])] = "http"
  /\ source[SourceOf(c, cache[c])]
       \notin {NoArtifact, cache[c].status.lastAttempted}
  /\ queue' = queue \cup {c}
  /\ UNCHANGED <<apiVars, sourceVars, timer, workerVars, clusterVars, env>>

TimerFires(c) ==
  /\ c \in timer
  /\ timer' = timer \ {c}
  /\ queue' = queue \cup {c}
  /\ UNCHANGED <<apiVars, sourceVars, workerVars, clusterVars, env>>

-----------------------------------------------------------------------------
(* One reconcile *)

(* The work queue never hands a component to two workers. A component that *)
(* is gone is not reconciled and not requeued.                             *)
Start(c) ==
  /\ c \in queue
  /\ pc[c] = "idle"
  /\ queue' = queue \ {c}
  /\ IF components[c].exists
       THEN /\ pc' = [pc EXCEPT ![c] = "load"]
            /\ worker' = [worker EXCEPT ![c] = components[c]]
       ELSE UNCHANGED <<pc, worker>>
  /\ UNCHANGED <<apiVars, sourceVars, timer, todo, clusterVars, env>>

(* An error of any step: the status turns not ready and is written below.  *)
Fail(c, object) ==
  /\ worker' = [worker EXCEPT ![c] = [object EXCEPT !.status.ready = FALSE]]
  /\ pc' = [pc EXCEPT ![c] = "finish"]
  /\ todo' = [todo EXCEPT ![c] = {}]

(* Mutations of KeepsArtifact: it asks for an applied artifact; it holds   *)
(* for ever.                                                               *)
KeepsAppliedArtifact(object) ==
  /\ object.spec.sticky
  /\ IsComponentProcessing(object)
  /\ object.status.lastApplied # NoArtifact
KeepsArtifactForever(object) ==
  object.spec.sticky /\ object.status.sourceRef # NoArtifact

(* A sticky component that is still processing keeps its artifact. *)
KeepsArtifact(object) ==
  /\ object.spec.sticky
  /\ IsComponentProcessing(object)
  /\ object.status.sourceRef # NoArtifact

(* Mutation of LoadedArtifact: the revision is forgotten. *)
LoadedDigest(c) ==
  [IF KeepsArtifact(worker[c]) THEN worker[c].status.sourceRef
   ELSE source[SourceOf(c, worker[c])] EXCEPT !.revision = None]

LoadedArtifact(c) ==
  IF KeepsArtifact(worker[c]) THEN worker[c].status.sourceRef
  ELSE source[SourceOf(c, worker[c])]

(* Mutation of PostRead: the digest is not compared. *)
PostReadRevision(object, a) == object.spec.revision \in {None, a.revision}

(* The artifact is the one spec.digest and spec.revision ask for, if any. *)
PostRead(object, a) ==
  /\ object.spec.digest \in {None, a.digest}
  /\ object.spec.revision \in {None, a.revision}

Loaded(c) == [worker[c] EXCEPT !.status.sourceRef = LoadedArtifact(c)]

(* Mutation of Finalized: the component gets no finalizer. *)
NotFinalized(object) == object

(* The finalizer is set before anything is applied. *)
Finalized(object) == [object EXCEPT !.finalizer = TRUE]

(* Load finds no artifact, or the post-read hook refuses it. *)
LoadFails(c) ==
  /\ pc[c] = "load"
  /\ ~worker[c].deleting
  /\ \/ /\ LoadedArtifact(c) = NoArtifact
        /\ Fail(c, worker[c])
     \/ /\ LoadedArtifact(c) # NoArtifact
        /\ ~PostRead(worker[c], LoadedArtifact(c))
        /\ Fail(c, Loaded(c))
  /\ UNCHANGED <<apiVars, sourceVars, queueVars, clusterVars, env>>

(* Load and post-read hook succeed, the finalizer is set (unless the       *)
(* component has changed meanwhile), and the pre-reconcile hook begins by  *)
(* recording the artifact as attempted.                                    *)
LoadSucceeds(c) ==
  /\ pc[c] = "load"
  /\ ~worker[c].deleting
  /\ LoadedArtifact(c) # NoArtifact
  /\ PostRead(worker[c], LoadedArtifact(c))
  /\ IF /\ ~worker[c].finalizer
        /\ components[c].generation # worker[c].generation
       THEN /\ Fail(c, Loaded(c))
            /\ UNCHANGED components
       ELSE /\ worker' = [worker EXCEPT ![c] =
                 [Finalized(Loaded(c)) EXCEPT
                    !.status.lastAttempted = LoadedArtifact(c)]]
            /\ components' = IF worker[c].finalizer THEN components
                             ELSE [components EXCEPT ![c] = Finalized(@)]
            /\ todo' = [todo EXCEPT ![c] = worker[c].spec.dependencies]
            /\ pc' = [pc EXCEPT ![c] = "check"]
  /\ UNCHANGED <<cache, sourceVars, queueVars, clusterVars, env>>

(* Mutations of Synced: any artifact will do; the dependency is compared   *)
(* with what was applied last.                                             *)
NotSynced(object, dependency) == TRUE
SyncedWithApplied(object, dependency) ==
  Equals(dependency.spec, object.spec) =>
    dependency.status.lastAttempted = object.status.lastApplied

(* A dependency on the same source must have attempted the same artifact. *)
Synced(object, dependency) ==
  Equals(dependency.spec, object.spec) =>
    /\ dependency.status.lastAttempted # NoArtifact
    /\ dependency.status.lastAttempted = object.status.lastAttempted

(* The pre-reconcile hook looks at one dependency, in the cache. *)
CheckDependency(c, d) ==
  /\ pc[c] = "check"
  /\ d \in todo[c]
  /\ IF cache[d].exists /\ Synced(worker[c], cache[d]) /\ IsReady(cache[d])
       THEN /\ todo' = [todo EXCEPT ![c] = @ \ {d}]
            /\ UNCHANGED <<pc, worker>>
       ELSE Fail(c, worker[c])
  /\ UNCHANGED <<apiVars, sourceVars, queueVars, clusterVars, env>>

(* The post-reconcile hook records the attempted artifact as applied. *)
PostReconcile(object) ==
  [object EXCEPT !.status.lastApplied = object.status.lastAttempted]

Completed(object) ==
  [PostReconcile(object) EXCEPT !.status.ready = TRUE, !.status.processing = "no"]

(* All dependent objects are applied and ready. *)
ApplyReady(c) ==
  /\ pc[c] = "check"
  /\ todo[c] = {}
  /\ deployed' = [deployed EXCEPT ![c] = Attempt(worker[c])]
  /\ worker' = [worker EXCEPT ![c] = Completed(@)]
  /\ pc' = [pc EXCEPT ![c] = "finish"]
  /\ UNCHANGED <<apiVars, sourceVars, queueVars, todo, applied, env>>

(* The generator or the apply fails, or some objects are not ready yet.    *)
(* Processing (re)starts when the component is not processing, or with a   *)
(* new spec or artifact.                                                   *)
ApplyUnready(c) ==
  /\ pc[c] = "check"
  /\ todo[c] = {}
  /\ env.unready < MaxUnready
  /\ env' = [env EXCEPT !.unready = @ + 1]
  /\ \/ deployed' = [deployed EXCEPT ![c] = Attempt(worker[c])]
     \/ UNCHANGED deployed
  /\ LET restarted == \/ worker[c].status.processing = "no"
                      \/ worker[c].status.observedGeneration # worker[c].generation
                      \/ components[c].status.sourceRef # worker[c].status.sourceRef
     IN  Fail(c, IF restarted
                   THEN [worker[c] EXCEPT !.status.processing = "running"]
                   ELSE worker[c])
  /\ UNCHANGED <<apiVars, sourceVars, queueVars, applied>>

(* The deferred status update: refused when the component has changed      *)
(* since it was read. Every outcome leads to another reconcile.            *)
FinishReconcile(c) ==
  /\ pc[c] = "finish"
  /\ \E p \in {worker[c].status.processing} \cup
              (IF IsComponentProcessing(worker[c]) THEN {"timedOut"} ELSE {}) :
       LET status == [worker[c].status EXCEPT
                        !.observedGeneration = worker[c].generation,
                        !.processing = p]
       IN  IF components[c].exists /\ components[c].generation = worker[c].generation
             THEN /\ components' = [components EXCEPT ![c].status = status]
                  /\ applied' = IF status.ready
                       THEN [applied EXCEPT ![c] = @ \cup {Attempt(worker[c])}]
                       ELSE applied
             ELSE UNCHANGED <<components, applied>>
  /\ pc' = [pc EXCEPT ![c] = "idle"]
  /\ worker' = [worker EXCEPT ![c] = None]
  /\ timer' = timer \cup {c}
  /\ UNCHANGED <<cache, sourceVars, queue, todo, deployed, env>>

-----------------------------------------------------------------------------
(* Deletion *)

(* The pre-delete hook blocks while the cache shows a dependent. *)
PreDelete(c) ==
  /\ pc[c] = "load"
  /\ worker[c].deleting
  /\ IF MatchingDependency(cache, c) = {}
       THEN /\ pc' = [pc EXCEPT ![c] = "delete"]
            /\ UNCHANGED <<worker, todo>>
       ELSE Fail(c, worker[c])
  /\ UNCHANGED <<apiVars, sourceVars, queueVars, clusterVars, env>>

(* All dependent objects are gone; removing the finalizer removes the      *)
(* component unless it has changed meanwhile.                              *)
TeardownDone(c) ==
  /\ pc[c] = "delete"
  /\ deployed' = [deployed EXCEPT ![c] = None]
  /\ IF components[c].generation = worker[c].generation
       THEN /\ components' = [components EXCEPT ![c] = RemovedObject(@)]
            /\ pc' = [pc EXCEPT ![c] = "idle"]
            /\ worker' = [worker EXCEPT ![c] = None]
            /\ UNCHANGED todo
       ELSE /\ Fail(c, worker[c])
            /\ UNCHANGED components
  /\ UNCHANGED <<cache, sourceVars, queueVars, applied, env>>

(* Some dependent objects are still there. *)
TeardownContinues(c) ==
  /\ pc[c] = "delete"
  /\ env.unready < MaxUnready
  /\ env' = [env EXCEPT !.unready = @ + 1]
  /\ Fail(c, worker[c])
  /\ UNCHANGED <<apiVars, sourceVars, queueVars, clusterVars>>

-----------------------------------------------------------------------------

(* The operator restarts: workers, queue and timers are lost, the informer *)
(* lists everything and every component is queued by its create event.     *)
Crash ==
  /\ env.crashes < MaxCrashes
  /\ env' = [env EXCEPT !.crashes = @ + 1]
  /\ cache' = components
  /\ announced' = Listed
  /\ queue' = {c \in Component : components[c].exists}
  /\ timer' = {}
  /\ pc' = [c \in Component |-> "idle"]
  /\ worker' = [c \in Component |-> None]
  /\ todo' = [c \in Component |-> {}]
  /\ UNCHANGED <<components, source, clusterVars>>

Reconcile(c) ==
  \/ Start(c)
  \/ LoadFails(c)
  \/ LoadSucceeds(c)
  \/ \E d \in Component : CheckDependency(c, d)
  \/ ApplyReady(c)
  \/ ApplyUnready(c)
  \/ PreDelete(c)
  \/ TeardownDone(c)
  \/ TeardownContinues(c)
  \/ FinishReconcile(c)

User(c) ==
  \/ \E spec \in Specs[c] : Create(c, spec) \/ EditSpec(c, spec)
  \/ DeleteComponent(c)

Next ==
  \/ \E c \in Component :
       \/ User(c)
       \/ ComponentEvent(c)
       \/ CheckHttpRepository(c)
       \/ TimerFires(c)
       \/ Reconcile(c)
  \/ \E s \in Source :
       \/ \E a \in Artifact \cup {NoArtifact} : SourceChange(s, a)
       \/ SourceEvent(s)
  \/ Crash

Spec == Init /\ [][Next]_vars

(* Time passes: a component cannot be written as processing for ever. *)
TimesOut(c) ==
  FinishReconcile(c) /\ components'[c].status.processing # "running"

(* Workers take queued components and run; the informer delivers. Users,   *)
(* sources and crashes owe nothing. That an apply or teardown completes at *)
(* last is the bound MaxUnready.                                           *)
EventFairness ==
  /\ \A c \in Component :
       /\ WF_vars(Reconcile(c))
       /\ WF_vars(ComponentEvent(c))
  /\ \A s \in Source : WF_vars(SourceEvent(s))

(* Timers fire: the requeue interval and the retries.                      *)
TimerFairness ==
  \A c \in Component : WF_vars(TimerFires(c)) /\ SF_vars(TimesOut(c))

FairSpec == Spec /\ EventFairness /\ TimerFairness

(* The events alone, as if timers might never fire. *)
EventSpec == Spec /\ EventFairness
=============================================================================
