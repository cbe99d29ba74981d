--------------------------- MODULE ComponentCache ---------------------------
(***************************************************************************)
(* The informer cache of components with the indices the operator adds.    *)
(* The API server's objects arrive one event at a time; each event         *)
(* replaces the stored object, removes the index entries computed anew     *)
(* from the object it replaces and adds those of the new one. Whoever gets *)
(* or lists a component receives a copy and leaves the cache as it is.     *)
(*                                                                         *)
(* Components, sources and dependencies are found by namespace and name.   *)
(* That exactly one kind of source is given is what the XValidation of     *)
(* SourceReference demands. A BlueprintVersion is named by its blueprint   *)
(* and its digest.                                                         *)
(***************************************************************************)
EXTENDS Naturals

CONSTANTS
  Namespace,     \* namespaces
  Name,          \* names of components, blueprints and flux objects
  Unset,         \* no namespace given
  Url,           \* urls of http repositories
  Component,     \* components, by namespace and name
  Digest,        \* digests of artifacts
  None,          \* no object, no digest, no version
  Specs,         \* what users write: [Component -> SUBSET Spec of components]
  MaxRequests    \* bound: requests of users and status updates

Key == Namespace \X Name
NamespacedName == (Namespace \cup {Unset}) \X Name

FluxKind == {"FluxGitRepository", "FluxOciRepository", "FluxBucket", "FluxHelmChart"}
ObjectKind == FluxKind \cup {"Blueprint"}
Kind == ObjectKind \cup {"HttpRepository"}

SourceReference == (ObjectKind \X NamespacedName) \cup ({"HttpRepository"} \X Url)

ComponentSpec == [sourceRef : SourceReference, dependencies : SUBSET NamespacedName]

(* status.sourceRef.artifact.digest; `version' is history: the             *)
(* BlueprintVersion that was written when this digest was loaded.          *)
Object ==
  [spec : ComponentSpec,
   digest : Digest \cup {None},
   version : (Key \X Digest) \cup {None}]

ASSUME CacheAssumption ==
  /\ Component \subseteq Key
  /\ Unset \notin Namespace
  /\ None \notin Object \cup Digest \cup (Key \X Digest) \cup Kind
  /\ Specs \in [Component -> SUBSET ComponentSpec]
  /\ MaxRequests \in Nat

VARIABLES
  components,   \* the API server: [Component -> Object \cup {None}]
  store,        \* the informer's objects, as they were delivered
  index,        \* <<index, value, component>>
  requests      \* requests so far

vars == <<components, store, index, requests>>

-----------------------------------------------------------------------------

WithDefaultNamespace(name, namespace) ==
  IF name[1] = Unset THEN <<namespace, name[2]>> ELSE name

(* Mutation of SourceRead: the reference as it is written.                 *)
SourceReadWritten(c, o) == o.spec.sourceRef

(* What SourceReference.Load reads for a component, *)
SourceRead(c, o) ==
  IF o.spec.sourceRef[1] = "HttpRepository" THEN o.spec.sourceRef
  ELSE <<o.spec.sourceRef[1], WithDefaultNamespace(o.spec.sourceRef[2], c[1])>>

(* and the components the pre-reconcile hook waits for. *)
DependenciesRead(c, o) ==
  {WithDefaultNamespace(dependency, c[1]) : dependency \in o.spec.dependencies}

-----------------------------------------------------------------------------
(* The index functions *)

IndexBySourceType(o) ==
  {o.spec.sourceRef[1]} \cup
    (IF o.spec.sourceRef[1] \in FluxKind THEN {"FluxSource"} ELSE {})

(* Mutation of IndexByDependencies: dependencies as they are written.      *)
IndexByDependenciesWritten(c, o) == o.spec.dependencies

IndexByDependencies(c, o) ==
  {WithDefaultNamespace(dependency, c[1]) : dependency \in o.spec.dependencies}

(* Mutation of IndexByReference: the namespace as it is written.           *)
IndexByReferenceWritten(kind, c, o) ==
  IF o.spec.sourceRef[1] = kind THEN {o.spec.sourceRef[2]} ELSE {}

(* The five indices by blueprint, git and OCI repository, bucket and chart. *)
IndexByReference(kind, c, o) ==
  IF o.spec.sourceRef[1] = kind
    THEN {WithDefaultNamespace(o.spec.sourceRef[2], c[1])} ELSE {}

(* Mutation of IndexByBlueprintVersion: the namespace as it is written.    *)
IndexByBlueprintVersionWritten(c, o) ==
  IF o.spec.sourceRef[1] = "Blueprint" /\ o.digest # None
    THEN {<<o.spec.sourceRef[2], o.digest>>} ELSE {}

IndexByBlueprintVersion(c, o) ==
  IF o.spec.sourceRef[1] = "Blueprint" /\ o.digest # None
    THEN {<<WithDefaultNamespace(o.spec.sourceRef[2], c[1]), o.digest>>}
    ELSE {}

Entries(c, o) ==
  IF o = None THEN {}
  ELSE ({"sourceType"} \X IndexBySourceType(o) \X {c})
    \cup ({"dependencies"} \X IndexByDependencies(c, o) \X {c})
    \cup ({"BlueprintVersion"} \X IndexByBlueprintVersion(c, o) \X {c})
    \cup UNION {{kind} \X IndexByReference(kind, c, o) \X {c} :
                  kind \in ObjectKind}

(* List with one of the options MatchingDependency, MatchingBlueprint,     *)
(* MatchingBlueprintVersion, MatchingFluxSource, *)
Matching(key, value) == {c \in Component : <<key, value, c>> \in index}

(* or HasBlueprint, HasHttpRepository, HasFluxSource, ... *)
Has(type) == Matching("sourceType", type)

(* componentHandler.Delete is given the informer's last object.            *)
QueuedByDelete(c) ==
  {<<WithDefaultNamespace(dependency, c[1])[1], dependency[2]>> :
     dependency \in store[c].spec.dependencies}

-----------------------------------------------------------------------------

Init ==
  /\ components = [c \in Component |-> None]
  /\ store = components
  /\ index = {}
  /\ requests = 0

Request ==
  /\ requests < MaxRequests
  /\ requests' = requests + 1
  /\ UNCHANGED <<store, index>>

Create(c, spec) ==
  /\ components[c] = None
  /\ components' = [components EXCEPT ![c] =
       [spec |-> spec, digest |-> None, version |-> None]]
  /\ Request

Edit(c, spec) ==
  /\ components[c] # None
  /\ components[c].spec # spec
  /\ components' = [components EXCEPT ![c].spec = spec]
  /\ Request

Delete(c) ==
  /\ components[c] # None
  /\ components' = [components EXCEPT ![c] = None]
  /\ Request

(* A reconcile loads the source, writes the BlueprintVersion if it is a    *)
(* blueprint, and persists the digest in the status.                       *)
Load(c, digest) ==
  /\ components[c] # None
  /\ LET read == SourceRead(c, components[c])
     IN  components' = [components EXCEPT
           ![c].digest = digest,
           ![c].version = IF read[1] = "Blueprint" THEN <<read[2], digest>> ELSE None]
  /\ Request

(* The informer's event for c. *)
Inform(c) ==
  /\ store[c] # components[c]
  /\ store' = [store EXCEPT ![c] = components[c]]
  /\ index' = (index \ Entries(c, store[c])) \cup Entries(c, components[c])
  /\ UNCHANGED <<components, requests>>

Next ==
  \E c \in Component :
    \/ \E spec \in Specs[c] : Create(c, spec) \/ Edit(c, spec)
    \/ Delete(c)
    \/ \E digest \in Digest : Load(c, digest)
    \/ Inform(c)

Spec == Init /\ [][Next]_vars

-----------------------------------------------------------------------------

TypeOK ==
  /\ components \in [Component -> Object \cup {None}]
  /\ store \in [Component -> Object \cup {None}]
  /\ \A entry \in index : entry[3] \in Component
  /\ requests \in Nat

(* An event of a source reaches the components that read it, and no        *)
(* others: by kind and by name, MatchingBlueprint, MatchingFluxSource and  *)
(* the Has options list exactly the components whose Load would read this  *)
(* source, whatever was edited, moved between kinds or deleted before. The *)
(* checker relies on it for the repository it takes from each component    *)
(* HasHttpRepository lists.                                                *)
ReadersFound ==
  \A c \in Component :
    LET read == IF store[c] = None THEN <<None, None>>
                ELSE SourceRead(c, store[c])
    IN  /\ \A kind \in ObjectKind, key \in Key :
             c \in Matching(kind, key) <=> read = <<kind, key>>
        /\ \A kind \in Kind : c \in Has(kind) <=> read[1] = kind
        /\ c \in Has("FluxSource") <=> read[1] \in FluxKind

(* A component is found as a dependent by exactly those components its     *)
(* pre-reconcile hook reads: when one of them turns ready, the index lists *)
(* it; when one of them is deleted, the pre-delete hook finds it; and its  *)
(* own delete event queues them.                                           *)
DependentsFound ==
  \A c \in Component :
    LET read == IF store[c] = None THEN {} ELSE DependenciesRead(c, store[c])
    IN  /\ \A d \in Key : c \in Matching("dependencies", d) <=> d \in read
        /\ store[c] # None => QueuedByDelete(c) = read

(* The blueprint controller finds a component by the BlueprintVersion its  *)
(* persisted digest was loaded from, as long as it refers to the blueprint *)
(* of that version: the name Load gives to a version is the one the index  *)
(* computes from spec and status.                                          *)
VersionsKept ==
  \A c \in Component :
    LET o == store[c]
    IN  o # None =>
          (o.version # None /\ SourceRead(c, o) = <<"Blueprint", o.version[1]>> =>
             c \in Matching("BlueprintVersion", o.version))
=============================================================================
