--------------------------- MODULE ComponentTypes ---------------------------
(***************************************************************************)
(* The Component resource: its spec and status as far as the controllers   *)
(* read and write them, and the predicates of api/v1alpha1/types.go over   *)
(* them. An object carries `exists' so that a removed object keeps its     *)
(* generation: `generation' grows through removal and re-creation and so   *)
(* stands for uid and metadata.generation together.                        *)
(***************************************************************************)
EXTENDS Naturals

CONSTANTS
  Component,   \* names of Component objects
  Reference,   \* what users write as sourceRef
  Digest,      \* artifact digests
  Revision,    \* artifact revisions
  None         \* the empty string, the nil pointer

ASSUME NoneAssumption == None \notin Digest \cup Revision

Artifact == [digest : Digest, revision : Revision]
NoArtifact == [digest |-> None, revision |-> None]

(* spec.sourceRef is the reference as written; it may lack a namespace.    *)
(* spec.digest and spec.revision pin the artifact.                         *)
ComponentSpec ==
  [sourceRef : Reference,
   digest : Digest \cup {None},
   revision : Revision \cup {None},
   sticky : BOOLEAN,
   dependencies : SUBSET Component]

(* `processing' is what isComponentProcessing computes from                *)
(* status.processingSince, status.lastObservedAt and the timeout: not      *)
(* processing, within the timeout, or beyond it. `ready' is the Ready      *)
(* condition, `sourceRef' is status.sourceRef.artifact.                    *)
ComponentStatus ==
  [observedGeneration : Nat,
   ready : BOOLEAN,
   processing : {"no", "running", "timedOut"},
   sourceRef : Artifact \cup {NoArtifact},
   lastAttempted : Artifact \cup {NoArtifact},
   lastApplied : Artifact \cup {NoArtifact}]

Object ==
  [exists : BOOLEAN,
   generation : Nat,
   deleting : BOOLEAN,
   finalizer : BOOLEAN,
   spec : ComponentSpec,
   status : ComponentStatus]

NewStatus ==
  [observedGeneration |-> 0, ready |-> FALSE, processing |-> "no",
   sourceRef |-> NoArtifact, lastAttempted |-> NoArtifact,
   lastApplied |-> NoArtifact]

NewObject(spec, generation) ==
  [exists |-> TRUE, generation |-> generation, deleting |-> FALSE,
   finalizer |-> FALSE, spec |-> spec, status |-> NewStatus]

RemovedObject(object) ==
  [object EXCEPT !.exists = FALSE, !.deleting = FALSE,
                 !.finalizer = FALSE, !.status = NewStatus]

(* Mutations of IsReady: a status of an older generation counts; the Ready *)
(* condition is not looked at.                                             *)
IsReadyOfAnyGeneration(object) == object.exists /\ object.status.ready
IsReadyWhenObserved(object) ==
  object.exists /\ object.status.observedGeneration = object.generation

IsReady(object) ==
  /\ object.exists
  /\ object.status.observedGeneration = object.generation
  /\ object.status.ready

IsComponentProcessing(object) == object.status.processing = "running"

(* SourceReference.Equals compares the references as they are written.     *)
Equals(spec, other) == spec.sourceRef = other.sourceRef

(* Mutations of MatchingDependency: only ready dependents; dependents that *)
(* are gone stay in the index.                                             *)
MatchingReadyDependency(view, d) ==
  {x \in Component : d \in view[x].spec.dependencies /\ IsReady(view[x])}
MatchingStaleDependency(view, d) ==
  {x \in Component : d \in view[x].spec.dependencies}

(* The index of internal/cache/component by dependency, over a view of the *)
(* components: the components that list d among their dependencies.        *)
MatchingDependency(view, d) ==
  {x \in Component : view[x].exists /\ d \in view[x].spec.dependencies}
=============================================================================
