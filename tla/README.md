# component-operator: a verification project

TLA+ models of the component operator, the TLC runs that check them, and
TLAPS proofs of what matters most. Everything is translated from the Go code
of the repository (paths below are relative to its root); `PROJECT.json` maps
every definition to its lines.

    tlc -workers 2 -config RolloutEdits.cfg MCRollout     # one run
    tlapm RolloutProofs.tla                               # the proofs of a module

## The system

The operator runs two controllers, a checker and a shared generator in one
process against a Kubernetes API server.

| part | state | operations |
| --- | --- | --- |
| **component controller** `internal/controllers/component` | work queue, timers, one worker per component in flight; in the API server: `Component` spec, finalizer, status (`observedGeneration`, Ready, `processingSince`, `sourceRef`, `lastAttempted*`, `lastApplied*`) | event handlers for components, blueprints, flux sources; hooks post-read, pre-reconcile, post-reconcile, pre-delete, called by the reconciler of component-operator-runtime |
| **component cache** `internal/cache/component` | informer cache of components with indices by source type, dependency, blueprint, blueprint version, flux source | `MatchingX` list options |
| **API types** `api/v1alpha1` | – | `SourceReference.Load` (reads the source; for a blueprint also *writes* a `BlueprintVersion`), `Equals`, `IsReady`, `isComponentProcessing`, digests |
| **blueprint controller** `internal/controllers/blueprint` | finalizer of `Blueprint`; versions | list versions, delete those no component uses, let a deleted blueprint go |
| **generator factory** `internal/generator/factory.go` | items by url, digest, path, decryption provider and keys; mutex; temporary directories | `GetGenerator` (download on a miss), evictor goroutine |
| **generator** `internal/generator/generator.go`, `util.go` | – | merge of values and substitutions, post-build transformations |
| **http repository checker** `internal/httprepository` | ticker | HEAD requests for all components with an http repository, trigger of those whose digest or revision changed |
| **sops decryption** `internal/decrypt` | key ring: GnuPG home, age identities | decrypt files by detected format |
| **operator, main** `pkg/operator`, `main.go` | flags | wiring; `Component`, `Blueprint`, `BlueprintVersion` are *not* cached by the manager's client |
| **generated copies** `zz_generated.deepcopy.go` | – | copies of the API types, made whenever a cached object is handed out |
| **generated informer factory** `pkg/client/informers` | lock, informers, which of them were started, goroutines, shutting down | request, start, await and shut down informers; for programs that use the operator's API, not used by the operator |
| generated clientset, listers, apply configurations `pkg/client` | – | calls of client-go |

How they interact. The informer feeds the event handlers, which *read the
cache* and put components into the work queue. A worker reads the component
live, calls `Load` (live reads of blueprints and http repositories, cached
reads of flux sources), then the hooks, which read *other* components from the
cache, then the generator, and applies what it generates; the status is
written once, at the end. The blueprint controller reads versions live and
their users from the cache. The checker reads components from the cache and
triggers the work queue. All workers share the generator factory, which makes
decryptors. Everyone who reads the cache gets deep copies; the cache's index
functions and event handlers see the stored objects themselves.

What is hard here:

* **lagging reads**: dependencies, dependents and users of a version are read
  from a cache, the rest live;
* **one status write at the end** of a run of several writes: a crash or a
  conflict loses what the run knew;
* **lost wake-ups**: handlers skip what looks up to date, ignore creates, and
  rely on each other's events; the periodic requeue is the safety net;
* **ordering**: a shared source moves on while its artifact is being rolled
  out along the dependencies;
* **two controllers on one set of blueprint versions**, one creating by
  patch, one deleting from a list;
* **a mutex around downloads**, and a digest read, over redirects, before the
  download; items shared between components with different settings;
* **an index kept by events**: an event, a hook and `Load` each fill in missing
  namespaces on their own; where they differ, somebody is not found;
* **handlers that use the informer factory** while it is started or shut down.

Correctness, per part: components are rolled out after their dependencies,
torn down before them, never forgotten, report ready truthfully, and converge
(component controller); every user's version exists in the end, others go, and
so do deleted blueprints (blueprint controller); a generator is built from the
content its digest names and with the component's own settings, and nobody
waits for ever (factory); each index lists exactly those whose reconcile reads
what is asked for (cache); an informer exists once, and none runs after a
shutdown (informer factory). `PROJECT.json`
lists the hazards line by line with the properties that watch them.

## Modules

| module | models |
| --- | --- |
| `ComponentTypes` | `Component` objects, their predicates, the dependency index |
| `Rollout` | the component controller, event handlers, http checker, cache, work queue |
| `OrderedRollout` | abstract: dependencies first, as seen from outside |
| `RolloutProperties` | what the component controller promises, its refinement of `OrderedRollout`, and the inductive invariants |
| `RolloutProofs`, `OrderedRolloutProofs` | theorems about `Rollout`: types, order, wake-ups; the refinement |
| `StatusProofs` | theorems about `Rollout`: status, finalizer, sticky components; cycles and deletions |
| `Blueprints`, `BlueprintsProofs` | blueprint controller against reconciles of components, and theorems about them |
| `ComponentCache`, `CacheProofs` | the indices of the component cache, and theorems about them and about `DeepCopy` |
| `DeepCopy` | which memory a copy of an API type shares with its original |
| `GeneratorFactory`, `FactoryProofs` | the lookup of artifacts and the generator factory, and theorems about them |
| `Decryption` | what the sops decryptor makes of a file |
| `Informers`, `InformersProofs` | the informer factory of the generated client, and theorems about it |
| `Values`, `ValuesProofs` | the merge of values, path by path, and of substitutions in the generator, and theorems about them |
| `NestedValues` | `deepMerge` call by call (recursive, for TLC only) |
| `MCRollout`, `MCBlueprints`, `MCComponentCache`, `MCGeneratorFactory`, `MCInformers`, `MCValues` | instances for TLC |

`GeneratorFactory` extends `Decryption`, `CacheProofs` extends `ComponentCache`
and `DeepCopy`, `Rollout` extends `ComponentTypes`, `NestedValues` extends
`Values`; `RolloutProperties` instantiates `OrderedRollout`. The proof modules about `Rollout` extend one another in the
order of the table.

Definitions marked *Mutation of X* state a plausible bug in X; each property
is known to fail when X is replaced by one of them.

### Rollout

`components` is the API server, `cache` the informer's copy, object by object.
`ComponentEvent` moves the copy of one component to the *present* live object,
perhaps past intermediate versions (as after a relist), and runs the handlers
on it: the component's own watch (`OwnWatch`) and `componentHandler`. `source`
is the artifact `Load` finds, `announced` the artifacts in the events the source
handlers have still to run for, in order. `pc`, `worker`, `todo` are the workers. A reconcile is

    Start -> LoadFails | LoadSucceeds -> CheckDependency* -> ApplyReady | ApplyUnready
          -> PreDelete -> TeardownDone | TeardownContinues        (when deleting)
          -> FinishReconcile                                      (status update)

with everything else able to step in between. Correspondences worth knowing:

* *Hooks* are translated line by line (`PostRead`, `Synced`,
  `CheckDependency`, `PostReconcile`, `PreDelete`). The order of the
  dependencies is left open; the code goes through them in the order of the
  spec.
* *Source events*: a flux source that becomes ready by an update event is
  announced; one that is ready in a *create* event is not, since the handler
  ignores those (`Announcements`). The code's comment says that new sources are
  never ready; `CreatedReady` is the set of those for which this is wrong. After a
  start, blueprints are announced by create events, flux sources are not
  (`Listed`). Deletions and http repositories announce nothing.
* *Finalizer*: set between Load and the pre-reconcile hook, merged into
  `LoadSucceeds`; refused if the component has changed since it was read.
* *Optimistic locking*: `generation` grows through removal and re-creation, so
  it stands for uid and `metadata.generation`. A status update is refused iff
  the generation has changed; nobody else writes the status.
* *Processing*: `status.processing` is the value of `isComponentProcessing`.
  `running` may become `timedOut` whenever the status is written, because time
  may have passed.
* *Timers*: every completed reconcile leaves a timer (requeue interval, retry
  or rate limit) that may fire at any time.
* *References*: `spec.sourceRef` is the text of the reference.
  `WithDefaultNamespace[c]` says which source it means for component `c`.
* `deployed` is what the objects in the cluster were generated from, `applied`
  a history of what a persisted ready status stood for.

Of the external runtime (component-operator-runtime, controller-runtime) the
model takes: no two workers on one component, hooks in the order of
`SetupWithManager`, a deferred status update, requeue after every completed
run, backoff after a failed one. Left out: suspension, the extra round trip
that initialises a new status, references to secrets (values, decryption),
overlap of two leaders.

### OrderedRollout

What can be seen from outside: `deployed`, the rollout a component shows itself
ready with (`reported`), and all it was ever ready with (`cleared`). The
refinement mapping in `RolloutProperties` takes `reported` from the status of
the API object, if it is ready and belongs to its generation, and `cleared`
from the history `applied`. Applying is a `Deploy`, a status update a `Report`
or a `Withdraw`, an edit or deletion a `Withdraw`, the last teardown a
`Remove`; loads, checks, events, timers and refused writes are stutters. That
`Report` takes over what is *deployed* and `Remove` needs a component that is
not ready is what the controller has to achieve with copies and late writes.

### Blueprints

A version is `<<blueprint, digest>>`; the digest stands for the content.
`LoadGet` and `LoadPatch` are the two calls of `Load` for a blueprint,
`Generate` the read of the version behind the factory's cache, `UpdateStatus`
the deferred status update. `Get`, `AddFinalizer`, `List`, `CheckVersion`,
`DeleteVersion`, `Finish` are the calls of the blueprint controller's
`Reconcile`, each a step of its own. `InUse` reads the cache through the index
by blueprint version: name from the *spec*, digest from the *status*. The
finalizer of the component, its dependencies and `sticky` play no role here and
are left out; the revision (generation) of the blueprint is left out too.

### ComponentCache, DeepCopy

`components` is the API server, `store` the informer's objects, `index` the
entries of all eight indices, kept as client-go keeps them: an event removes
the entries computed *anew* from the stored object and adds those of the new
one. `Entries` is the index functions line by line, with the cases of the four
flux kinds and the blueprint, which differ in the field they read, as one
`IndexByReference`. `Matching` and `Has` are the list options. `SourceRead` and
`DependenciesRead` are what `Load` and the hooks read for the same object:
written elsewhere in the code, with the same defaulting of namespaces.

Whoever gets or lists a component is given a copy, so no reader is part of the
model. That a copy shares nothing with the cached object is what `DeepCopy` is
about: it has two tables, one translated from the type declarations, one from the
generated functions, and computes from them the memory a copy shares with its
original (`Shared`). There is nothing to run here; `CacheProofs` compares the
tables.

### GeneratorFactory, Decryption

A reconcile goes through

    Begin -> Follow* -> Load | LoadFails -> Lock -> GetItem | Download | DownloadFails

`Begin` takes the component's settings (path, provider, keys of the secret).
`Follow`, `Load` and `LoadFails` are `GetArtifact`: one HEAD request per step;
`Tells` says which answers carry digest and revision, `Target` who redirects
where. As in `CheckRedirect`, a redirect that tells a digest is the answer and
its target the archive's url; one that does not is followed. `Lock`, `GetItem`,
`Download` and `DownloadFails` are `GetGenerator` under its mutex, `Evict` the
evictor. `Location` says where a content is downloaded from: a url of its own
(flux, blueprints, http repositories that redirect) or the repository itself.
A restart is the eviction of everything.

An item's id is the tuple of its parts: they contain no line breaks, which
separate them in the code, and the digest of the keys stands for the keys. The
files of a content are encrypted alike, so one stands for all. `Decryption`
follows `NewSopsDecryptor` (keys are imported by suffix, a broken one fails all)
and `Decrypt`: the format is the first marker found in a Go map, hence any of
the markers the file contains; only the format the file is written in can be
loaded; an unmarked file is passed through.

### Informers

`call` is what a goroutine or an event handler is doing. A method that does
its work at once under the lock is one step; `InformerFor`, which runs
`newFunc` under the lock, and the loop of `StartWithContext` take several.
`Shutdown` marks the factory under the lock and waits without it for the
goroutines (`running`, the wait group); a goroutine ends when its context is
cancelled and its handler is idle. Handlers call `InformerFor`, as listers do.
`released` is the identifier that client-go may then give to another factory.
Options (resync period, namespace, transform) are data of the informers and
left out.

### Values

One behaviour merges layers (secrets first, inline last) one by one, either
deeply or shallowly. A scalar is known by the number of its layer, which tells
apart all that the merge could mix up. Nested maps are given by their paths
(`IsTree`), so that what `deepMerge` does at any depth is a definition without
recursion: `DeepMerge` says which paths there are afterwards (a scalar covers
what was below it) and `Overlay` what is at a path that both have, with the type
assertions of the code: a scalar that meets a map stores the nil map of the
failed assertion (`NilMap`), and writing to that one panics (`Panics`).

This is further from the code than the other modules are. Two things close the
gap. `NestedValues` has `deepMerge` as it is written, `DeepMergeCall` on nested
maps with `Assign` for its loop body, and `MergesCallByCall` compares results and
panics on every sequence of layers. And `MergeRecurs` and `PanicRecurs` prove
that the definitions by path satisfy the recursive equations of `deepMerge`.

## Runs

Each run asks one question; `PROJECT.json` has a sentence on each.

| run | instance and bounds | properties |
| --- | --- | --- |
| `RolloutEdits` | app, lib; flux and http source; 2 creates, edits or deletes, fair | `TypeOK`, `OrderInv`, `NeverForgotten`, `NothingLeftBehind`, `Converges`, `DeletionCompletes` |
| `RolloutEvents` | app on lib, shared source that is never ready when it first shows up, 1 change, 1 crash, *no timer need ever fire* | `RolloutOrder`, `Converges`, `ImplementsOrderedRollout` |
| `RolloutSticky` | one sticky component, pinned or not; 2 changes of a source that may be ready when it first shows up, 1 request, 1 incomplete apply or teardown, fair | `ReadyIsTruthful`, `StickyHolds`, `Converges` |
| `RolloutTeardown` | app on lib, or each on the other; 2 deletions, each torn down in one round, 1 crash, *no timer need ever fire* | `NoOrphanedDependent`, `CycleStaysDown`, `DeletionCompletes` |
| `BlueprintsSettle` | 1 component, 1 blueprint, 2 contents, 2 requests, 1 crash, fair | `TypeOK`, `Settles`, `VersionsCollected`, `BlueprintsGo` |
| `FactoryRedirecting` | 2 workers with settings of their own, 2 contents, a repository, a hop and 2 archives, 2 changes of contents or settings, archives go, one content encrypted and with two markers, fair | `TypeOK`, `DigestIdentifiesContent`, `GeneratedAsSet`, `Current`, `NobodyWaitsForever` |
| `ComponentCache` | 2 components in 2 namespaces, sources of all 6 kinds, 5 requests | `TypeOK`, `ReadersFound`, `DependentsFound`, `VersionsKept` |
| `Informers` | 2 goroutines (one only waits and shuts down), 2 types, 1 handler, 2 contexts, any number of calls, fair | `TypeOK`, `NothingRunsReleased`, `OneInformer`, `CallsReturn` |
| `ValuesMerge` | 4 layers, 3 levels deep, 2 keys | `NothingStale`, `NothingLost`, `PanicsOnThirdKind`, `LaterHasPrecedence`, `MergesCallByCall` |
| `RolloutReferences`, `BlueprintsOrphan`, `FactoryUnchecked` | the findings below | `SourceOrder`, `DeletionBlocked`, `DigestIdentifiesContent` |

`RolloutSticky` has no crash: for one component a crash loses what a refused
status update loses, which the edit brings about; `RolloutEvents` and
`RolloutTeardown` have one.

Why small is enough: every property relates at most a component, one
dependency and one source (or a component, a blueprint and two of its
versions, two workers and two contents, or two callers of the informer
factory), and the interesting orders need one
source change, one crash or one conflicting request between two given steps;
two changes give A-B-A. `MaxGeneration` bounds creations and edits of one
component, `MaxRequests` all requests, `MaxChanges` source changes,
`MaxUnready` apply and teardown rounds that do not complete, `MaxCrashes`
restarts. What these bounds cut off is covered by the proofs, for every safety
property but `MergesCallByCall`. An index sees one object at a time, so five requests,
each a create, an edit, a status update or a deletion, reach every pair of states of one component,
and stale entries of one would show in the lists of the other.

Deadlock checking is off for `Values` (a merge ends), `ComponentCache` (nothing
happens without requests) and for `Rollout` and `Blueprints`: the system may
really stop, when every component (blueprint) is gone and the bounds are used
up. It is on for `FactoryRedirecting` and `Informers`.

What the properties say:

* `RolloutOrder`: nothing is generated for a component, and no ready status
  written, unless each dependency was ready before, and, if the references are
  the same, with this very artifact.
* `NeverForgotten`: a component on the cluster is queued, has a timer, is
  being worked on, or its current generation is still to be reported.
* `ReadyIsTruthful`: a ready status names an artifact whose digest and revision
  the component accepts, applied and attempted being the same, and that is
  deployed; otherwise the component is queued or being worked on.
* `NothingLeftBehind`: while there may be dependent objects of a component, it
  is on the cluster and under its finalizer, also when it is deleted and created
  anew behind a worker's back.
* `StickyHolds`: while a sticky component is processing, nothing but the
  artifact of its status is deployed. (The very first artifact can be lost by a
  crash before the status is written; the property starts with the status.)
* `NoOrphanedDependent`: nothing is torn down under a deployed dependent. It
  holds for dependencies that do not change and dependents that are there from
  the start: the pre-delete hook reads the cache, and once, so a dependent that
  appears meanwhile is not protected. `DependentsProtected` (below) says what
  exactly is not.
* `CycleStaysDown`: components of a `Knot` (each depends on one of them: a cycle
  of any length with what leads into it) are never deployed nor ready.
* `Converges`, `DeletionCompletes`: see below.
* `Settles`: a version may be deleted under a component about to use it (the
  code says so in a TODO), but in the end every component is generated from
  the current content and its version stays.
* `VersionsCollected`, `BlueprintsGo`: garbage and deleted blueprints go.
* `ImplementsOrderedRollout`: the controller refines `OrderedRollout`.
* `ReadersFound`, `DependentsFound`, `VersionsKept`: the indices list exactly
  the components that read a source, depend on a component or use a version,
  as their own reconcile computes it.
* `DigestIdentifiesContent`: items and manifests are those of their digest;
  `GeneratedAsSet`: of the component's own path and, if it has keys, decrypted
  with its own, although items are shared; `Current`: in the end everyone has
  the content on offer, if it can be generated at all; `NobodyWaitsForever`:
  every reconcile ends, with the mutex free.
* `OneInformer`, `NothingRunsReleased`: no informer is replaced, nothing runs or
  starts after `Shutdown` has returned;
  `CallsReturn`: every call returns, except where it may wait for a context
  that nobody cancels.
* `NothingStale`, `NothingLost`, `PanicsOnThirdKind`: later values win, nested
  maps are joined, and nothing replaced survives. The exception: a scalar that
  replaces a map is stored as nil, and a map that later meets this nil makes
  the merge panic. The documentation says nothing about such values; with two
  layers, or one kind of value per path, neither happens.
* `LaterHasPrecedence`: what the documentation of `postBuild` promises.
* `MergesCallByCall`: the merge by paths is `deepMerge`.

### Fairness

`EventFairness`: workers take queued components and finish (the work queue
and `MaxConcurrentReconciles` workers), the informer delivers. `TimerFairness`:
timers fire (the runtime requeues every completed reconcile after its interval
and every failed one with backoff), and, strongly fair because it must happen
among repeated status updates, a processing component is sooner or later
written as timed out: time passes. Users, sources, crashes, incomplete applies
and the http checker owe nothing. In `Blueprints` both controllers requeue
every object (10 minutes, 10 seconds, 1 second, or backoff) and whoever holds a
terminating version lets it go. In `GeneratorFactory` downloads end (the code
sets no timeout, so this is an assumption about servers), a mutex is strongly
fair (Go hands it to a waiter that has waited for a millisecond), and so is
`Download`, because Go iterates over the map of markers in a random order: a
file with two markers is decrypted in the end. In `Informers` the lock is
strongly fair, too, lists of the API server succeed in the end, and a handler
has finitely many notifications left when its context is cancelled. Callers,
and whoever cancels a context, owe nothing.

`RolloutEvents` and `RolloutTeardown` drop `TimerFairness`: one source change,
even with a crash, needs no timer as long as no flux source is ready when it first
shows up (`CreatedReady = {}`), nor do deletions whose teardown is done in one
round (`MaxUnready = 0`). Other cases do: A-B-A source changes, a dependency
removed from a spec, a component or a flux source that is first seen ready, in a
create event, a teardown or apply that takes several rounds. `RolloutSticky` and
`RolloutEdits` have timers; the former has a source that is first seen ready and
incomplete rounds. With `CreatedReady = {git}`, `Converges` fails in
`RolloutEvents`.

### Findings

* `BlueprintsOrphan`: a `BlueprintVersion` can be written after the blueprint
  controller has listed none and before it removes the finalizer; the version
  then outlives its blueprint with nobody to collect it, although the
  controller's event says a blueprint with versions cannot be deleted.
* `RolloutReferences`: `SourceReference.Equals` compares
  references before the default namespace is filled in. Two spellings of one
  source escape the sync check, so a dependent is generated from an artifact
  its dependency was never ready with. (The converse, one spelling of two
  sources in two namespaces, makes a dependent wait for an artifact its
  dependency never has; no run shows that one.)
* `FactoryUnchecked`: an http repository that serves its content under its own
  url can change between HEAD and download; the factory's item for the old
  digest then holds the new content, contrary to the comment on the id. Since
  each use prolongs the item, a repository that returns to the old digest is
  served the wrong content as long as it is used.

## Proofs

Proved by TLAPS for every value of the constants (any number of components,
sources, artifacts, specs; any bounds), from the assumptions
`NoneAssumption`, `RolledAssumption`, `RolloutAssumption`, `BlueprintsAssumption`,
`FactoryAssumption`, `CacheAssumption`, `InformersAssumption` and
`ValuesAssumption`, which type the constants and tell them apart (a record of a rollout is not "nothing deployed"),
and, in `FactoryAssumption`, that two contents share a url only if it is the
repository's own. `DecryptionAssumption` adds that an encrypted file contains
the marker of its format:

| theorem | says |
| --- | --- |
| `TypeCorrect` | `Spec => []TypeOK` |
| `OrderKept`, `RolloutOrdered` | `Spec => []OrderInv`, `Spec => []RolloutOrder` |
| `SourcesOrdered` | `Spec => []SourceOrder`, if no two references mean one source (all name their namespace): the converse of the finding `RolloutReferences` |
| `WakeUpsKept` | `Spec => []NeverForgotten` |
| `RolloutImplementsOrdered` | `Spec => ImplementsOrderedRollout` |
| `ReadyTellsTheTruth` | `Spec => []ReadyIsTruthful` |
| `FinalizerHolds` | `Spec => []NothingLeftBehind` |
| `StickyKept` | `Spec => StickyHolds` |
| `CyclesStayDown` | `Spec /\ [][DependenciesStay]_vars => []CycleStaysDown` |
| `DependentsProtected` | `Spec /\ [][DependenciesStay /\ ~BlindTeardown /\ ~BlindLook]_vars => []NoOrphanedDependent` |
| `BlueprintsTypeCorrect` | `Spec => []TypeOK` of `Blueprints` |
| `OnlyLateVersionsOrphaned` | `Spec /\ [][~LateVersion]_vars => DeletionBlocked` |
| `OnlyRacesDeleteUsed` | `Spec /\ [][~BlindCheck /\ ~LateUse]_vars => UsedVersionsStay` |
| `FactoryTypeCorrect` | `Spec => []TypeOK` of `GeneratorFactory` |
| `FactoryServesSettings` | `Spec => []GeneratedAsSet` |
| `FactoryServesDigest` | `Spec => []DigestIdentifiesContent`, if no content is served under the repository's own url and redirects that tell a digest lead to its archive |
| `CopiesShareNothing` | no type's copy shares memory with its original |
| `CacheTypeCorrect` | `Spec => []TypeOK` of `ComponentCache` |
| `CacheFindsReaders`, `CacheFindsDependents`, `CacheKeepsVersions` | `Spec => []ReadersFound`, `[]DependentsFound`, `[]VersionsKept` |
| `InformersTypeCorrect` | `Spec => []TypeOK` of `Informers` |
| `ShutdownIsFinal` | `Spec => []NothingRunsReleased` |
| `InformersShared` | `Spec => OneInformer` |
| `NoValueStale`, `NoValueLost`, `PanicsExplained`, `SubstitutionsOrdered` | `Spec => []NothingStale`, `[]NothingLost`, `[]PanicsOnThirdKind`, `[]LaterHasPrecedence` |
| `MergeRecurs`, `PanicRecurs` | the merge by paths, and its panics, satisfy the recursive equations of `deepMerge` |

Six theorems have a premise on the environment, because what they say does not
hold without it. `RolloutReferences`, `BlueprintsOrphan` and `FactoryUnchecked`
show that it fails without the premise of `SourcesOrdered`,
`OnlyLateVersionsOrphaned` and `FactoryServesDigest`; so the premise says exactly
where the hole is. For `CyclesStayDown` and `DependentsProtected` one premise is
what users do: dependencies are not edited (`DependenciesStay`). Components may be
created, deleted and created anew at any time. `DependentsProtected` then names
the two looks into an outdated cache that leave a dependent unprotected:
the pre-delete hook lets a teardown begin while a dependent is on the cluster that
the cache does not show (`BlindTeardown`), or the pre-reconcile hook of a
dependent takes a dependency for ready that is gone, being deleted or created
anew (`BlindLook`). With either of the two premises dropped, TLC finds a
deployed dependent without its dependency on instances of two components, one of
them created or created anew. That of `OnlyRacesDeleteUsed` names two
races, too (see *The races* below).

*RolloutOrder* is not inductive: it speaks of what is deployed and reported,
while what decides is what workers have seen. `OrderInv` adds, for each
component, that a ready object, live **or cached**, shows a state recorded in
`applied` (`ReadyIsApplied`), so a look into a stale cache still proves that
the dependency *was* ready; that a worker past its checks has cleared every
dependency (`WorkerCleared`); that a worker's copy is not newer than the object
and has the same spec when it has the same generation (`WorkerCopy`), so the
status it writes belongs to the spec it was computed from; and that the
observed generation is not ahead, so no edit makes an old status look ready.
`applied` only grows (`Monotone`), which keeps everything cleared
(`ClearedStays`, `OrderStays`). There is one lemma per kind of step
(`UserOrder`, `LoadOrder`, `CheckOrder`, `ApplyReadyOrder`, `FinishOrder`,
`TeardownOrder`, ...) and `NextOrder` puts them together.

*NeverForgotten* becomes inductive with one more conjunct: the informer is
never ahead of the API server (`WakeUpInv`).

*ReadyIsTruthful*, *NothingLeftBehind* and *StickyHolds* rest on one invariant,
`StatusInv` in `StatusProofs`, on top of `ReportInv`. It says three things of
each component. `Finalizing`: what is deployed belongs to a component on the
cluster under its finalizer; so does a worker's copy that shows the finalizer,
and a worker that may apply has such a copy. `Truthful`: what the object shows
ready is deployed, or the component is queued or being worked on; a worker that
may apply has attempted an artifact the component accepts, one that is to report
ready has applied it; and no status is of a later generation than a running
worker's copy, so a refused update leaves no ready status behind. `Sticking`: a
worker that may apply, for a component that the live status shows processing,
has attempted the artifact of that status, since it began with the live status
and nobody else writes it. `DeployedChanges` says which steps change what is
deployed.

*CycleStaysDown* and *NoOrphanedDependent*: with dependencies that stay,
`AllAgreed` says that the cache, a worker's copy and whatever was rolled out have
the dependencies of the live object. Nothing in a knot can then be the first to
be ready. For deletions, `AllPlaced` says that
a component on the cluster that is not being deleted and was ready is deployed,
and likewise for what a worker with an up-to-date copy is going to write; and
`AllSupported` that what somebody *builds on* is deployed and not being torn
down, where a component builds on what it is deployed on and on each dependency
its worker has checked. The look of the pre-reconcile hook begins this (here
`BlindLook` is excluded, and `AllPlaced` gives that the dependency is deployed),
that of the pre-delete hook finds nobody who builds (`BlindTeardown` is excluded,
and whoever builds is on the cluster). `TeardownBegins`, `ChecksChange`,
`AppliedChanges`, `WorkerChanges` and `CacheChanges` say what a step can do to
each of these.

*DeletionBlocked* (`Blueprints`): `AllHeld` says that a reconciler about to let a
blueprint go (`Leaving`) has listed no version, and that there is still none; a
version appears only by a component's `LoadPatch` (`VersionsAppear`), a blueprint
leaves from under its finalizer only by `Finish` (`BlueprintLeaves`). A
`LateVersion` is a `LoadPatch` while the reconciler is `Leaving`; it is the
premise that there is none.

*The races* (`Blueprints`): the blueprint controller asks the cache whether a
version is in use, and has "rule out caching race conditions" as a TODO at that
place. `UsedVersionsStay` says that no live version is deleted that a
component's spec and persisted status name. It fails; the theorem says that it
fails in two ways only, the cache being out of date for the component when the
version is looked at (`BlindCheck`), or the component beginning to use the
version between the look and the deletion (`LateUse`), whatever crashes, edits
and other reconciles come in between. The invariant, `Spared`, is that a version
about to be deleted is not in use. With either premise dropped, TLC has a
counterexample on the instance of `BlueprintsSettle`; what makes up for the races
is that the next reconcile writes the version anew, which is `Settles`.

*ImplementsOrderedRollout* needs, on top of `OrderInv`, that a worker about to
report ready has a copy that is not being deleted and that the component *is*
deployed from its attempt, and that a component being deleted is never ready
(`ReportsDeployed`, together `ReportInv`). One lemma per kind of step shows that
it maps to a step of `OrderedRollout` or to a stutter.

*GeneratedAsSet* is inductive once the items are included: each was opened with
the settings of its id (`FittingInv`). *DigestIdentifiesContent* needs that a
loaded url is the location of the loaded digest (`LoadedInv`).

*The copies*: `Memory` and `Shared` are recursive functions over the types. That
they are defined by their equations at all, and what `Shared` is, is proved in
six rounds along `Rank`, which puts each type above those of its fields
(`TypesSorted`, which goes through both tables of `DeepCopy`).

*The cache*: the index is, at any time, the entries of the stored objects
(`Indexed`), and a stored digest is that of the version written for it
(`Sound`).

*The informer factory*: `ShutdownInv` says that nobody is in the loop of `Start`
once the factory is marked and that nobody waits before it is; `CreateInv` that
whoever creates an informer still finds none.

*Values*: `ValuesInv` says that what is merged is a tree over scalars of the
layers so far, that each of its maps is a map of some layer and each nil a map
followed by a scalar (`MapsFound`), and that where a layer has a map there is a
map or nil ever after, or nil above (`MapsStay`). `NothingStale` and
`NothingLost` follow step by step from what a merge does to a leaf
(`LeavesKept`). `PanicsOnThirdKind` takes both directions: a nil that is written
into comes from a map and a later scalar (`MapsFound`), and such a pair leaves a
nil that a third layer cannot write into without a panic (`MapsStay`, `NilsKept`).
`MergeRecurs` and `PanicRecurs` take a path apart into its first key and the
rest (`In`, `Sub`) and need no induction, since the definitions by path have
none.

`RolloutEdits` checks `OrderInv` itself; the other inductive invariants were
checked on the instances of the runs before they were proved.

Only model-checked, not proved: `MergesCallByCall`, which is about a recursive
definition, so that its proof would be an induction over data and out of the
prover's reach (`MergeRecurs` and `PanicRecurs` are the step of that induction);
and liveness under fairness: `Converges`, `DeletionCompletes`, `Settles`,
`VersionsCollected`, `BlueprintsGo`, `Current`, `NobodyWaitsForever`,
`CallsReturn`.

## Not modelled

* Requests that hang (downloads under the factory's mutex, HEAD requests of the
  checker) and circles of redirects, which the code follows without a limit:
  nothing would hold but the hazard itself; see the hazards in `PROJECT.json`.
* Unpacking of archives, the choice between helm and kustomize, post-build
  transformations, ciphers and cloud key services: I/O and library calls. Both
  kinds of generators are assumed to decrypt alike.
* Flags and wiring in `main.go` and `pkg/operator`: what they decide (which
  types are not cached, one process) is reflected in `Rollout` and `Blueprints`.
* Options and generic access of the informer factory, clientset, listers, apply
  configurations and fakes: generated calls without a state of their own.
* Digests of components and event annotations.

## Plan

Done: the component controller with its order, wake-up, status, sticky, teardown
and convergence properties, and its refinement of `OrderedRollout`; blueprints
and the two ways a version in use can be deleted; the indices of the cache with
the generated copies; the generator factory with redirects, settings and
decryption; the informer factory; the merge of values; a theorem for every safety
property, but for the comparison of the two forms of `deepMerge`.
Left: the composition of `Rollout` and `Blueprints` over one component state,
with the event handlers of blueprints in place of fair reconciles.
