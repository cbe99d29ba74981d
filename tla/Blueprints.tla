----------------------------- MODULE Blueprints -----------------------------
(***************************************************************************)
(* Blueprints and their versions. A component that refers to a blueprint   *)
(* writes, whenever it is reconciled, a BlueprintVersion with the current  *)
(* content, and generates its manifests from that version. The blueprint   *)
(* controller deletes the versions no component uses, as far as its cache  *)
(* knows, and lets a deleted blueprint go once it has no version left.     *)
(*                                                                         *)
(* Both controllers reconcile at any time: their events and requeues make  *)
(* no difference to what is modelled here. A version is identified by its  *)
(* blueprint and the digest of the content, so the digest stands for the   *)
(* content. Blueprint and component requests are serialised by generation. *)
(***************************************************************************)
EXTENDS Naturals, FiniteSets

CONSTANTS
  Component,     \* components
  Blueprint,     \* names of blueprints
  Content,       \* contents of blueprints
  None,          \* no reference, no digest
  MaxRequests,   \* bound: requests of users
  MaxCrashes     \* bound: crashes of the operator

ASSUME BlueprintsAssumption ==
  /\ None \notin Blueprint \cup Content
  /\ {MaxRequests, MaxCrashes} \subseteq Nat

VARIABLES
  blueprint,   \* [Blueprint -> [exists, deleting, finalizer, generation, content]]
  version,     \* [Blueprint \X Content -> {"none", "live", "terminating"}]
  component,   \* spec.sourceRef.blueprint, status.sourceRef digest and generation
  cache,       \* the informer cache of component
  worker,      \* the component controller: [pc, ref, digest, generation]
  reconciler,  \* the blueprint controller, per blueprint
  generators,  \* versions for which the generator factory holds an item
  generated,   \* the version a component's manifests were generated from
  env          \* how much of the bounds is used up

cluster == <<blueprint, version, component>>
factory == <<generators, generated>>
vars == <<blueprint, version, component, cache, worker, reconciler,
          generators, generated, env>>

-----------------------------------------------------------------------------

BlueprintObject ==
  [exists : BOOLEAN, deleting : BOOLEAN, finalizer : BOOLEAN,
   generation : Nat, content : Content]

ComponentObject ==
  [ref : Blueprint \cup {None}, digest : Content \cup {None}, generation : Nat]

Worker ==
  [pc : {"idle", "patch", "generate", "update"},
   ref : Blueprint \cup {None}, digest : Content \cup {None}, generation : Nat]

IdleWorker == [pc |-> "idle", ref |-> None, digest |-> None, generation |-> 0]

(* The reconciler's copy of the blueprint, the versions it listed, those   *)
(* of them with a deletion timestamp, those still to look at, the one      *)
(* being deleted, and whether it has deleted any.                          *)
IdleReconciler ==
  [pc |-> "idle", copy |-> None, listed |-> {}, terminating |-> {},
   todo |-> {}, current |-> None, deleted |-> FALSE]

Reconciler ==
  [pc : {"idle", "finalizer", "list", "check", "delete"},
   copy : BlueprintObject \cup {None}, listed : SUBSET Content,
   terminating : SUBSET Content, todo : SUBSET Content,
   current : Content \cup {None}, deleted : BOOLEAN]

Consistent(r) ==
  /\ r.pc # "idle" => r.copy \in BlueprintObject
  /\ r.pc = "delete" => r.current \in Content
  /\ r.todo \cup r.terminating \subseteq r.listed

TypeOK ==
  /\ blueprint \in [Blueprint -> BlueprintObject]
  /\ version \in [Blueprint \X Content -> {"none", "live", "terminating"}]
  /\ component \in [Component -> ComponentObject]
  /\ cache \in [Component -> ComponentObject]
  /\ worker \in [Component -> Worker]
  /\ \A c \in Component : worker[c].pc # "idle" =>
       worker[c].ref \in Blueprint /\ worker[c].digest \in Content
  /\ reconciler \in [Blueprint -> Reconciler]
  /\ \A b \in Blueprint : Consistent(reconciler[b])
  /\ generators \subseteq Blueprint \X Content
  /\ generated \in [Component -> (Blueprint \X Content) \cup {None}]
  /\ env \in [requests : Nat, crashes : Nat]

Init ==
  /\ \E d \in Content :
       blueprint = [b \in Blueprint |->
         [exists |-> TRUE, deleting |-> FALSE, finalizer |-> FALSE,
          generation |-> 1, content |-> d]]
  /\ version = [v \in Blueprint \X Content |-> "none"]
  /\ \E ref \in [Component -> Blueprint \cup {None}] :
       component = [c \in Component |->
         [ref |-> ref[c], digest |-> None, generation |-> 1]]
  /\ cache = component
  /\ worker = [c \in Component |-> IdleWorker]
  /\ reconciler = [b \in Blueprint |-> IdleReconciler]
  /\ generators = {}
  /\ generated = [c \in Component |-> None]
  /\ env = [requests |-> 0, crashes |-> 0]

-----------------------------------------------------------------------------
(* Users *)

Request ==
  /\ env.requests < MaxRequests
  /\ env' = [env EXCEPT !.requests = @ + 1]

CreateBlueprint(b, d) ==
  /\ Request
  /\ ~blueprint[b].exists
  /\ blueprint' = [blueprint EXCEPT ![b] =
       [exists |-> TRUE, deleting |-> FALSE, finalizer |-> FALSE,
        generation |-> @.generation + 1, content |-> d]]
  /\ UNCHANGED <<version, component, cache, worker, reconciler, factory>>

EditBlueprint(b, d) ==
  /\ Request
  /\ blueprint[b].exists
  /\ blueprint[b].content # d
  /\ blueprint' = [blueprint EXCEPT ![b].content = d, ![b].generation = @ + 1]
  /\ UNCHANGED <<version, component, cache, worker, reconciler, factory>>

DeleteBlueprint(b) ==
  /\ Request
  /\ blueprint[b].exists
  /\ ~blueprint[b].deleting
  /\ blueprint' = [blueprint EXCEPT ![b].exists = blueprint[b].finalizer,
                                    ![b].deleting = blueprint[b].finalizer,
                                    ![b].generation = @ + 1]
  /\ UNCHANGED <<version, component, cache, worker, reconciler, factory>>

(* A component is created with, or edited to refer to, a blueprint; or it  *)
(* is removed or moved to a source of another kind (None). An edit keeps   *)
(* the status, a removal does not.                                         *)
SetSourceRef(c, ref) ==
  /\ Request
  /\ component[c].ref # ref
  /\ \E digest \in {component[c].digest, None} :
       component' = [component EXCEPT ![c] =
         [ref |-> ref, digest |-> digest, generation |-> @.generation + 1]]
  /\ UNCHANGED <<blueprint, version, cache, worker, reconciler, factory>>

-----------------------------------------------------------------------------
(* A reconcile of a component *)

(* Mutation of LoadedDigest: the digest of the last reconcile is kept.     *)
StatusDigest(c) == component[c].digest

LoadedDigest(c) == blueprint[component[c].ref].content

(* SourceReference.Load reads the blueprint. Without one the reconcile     *)
(* fails and leaves nothing behind.                                        *)
LoadGet(c) ==
  /\ worker[c].pc = "idle"
  /\ component[c].ref # None
  /\ blueprint[component[c].ref].exists
  /\ worker' = [worker EXCEPT ![c] =
       [pc |-> "patch", ref |-> component[c].ref,
        digest |-> LoadedDigest(c),
        generation |-> component[c].generation]]
  /\ UNCHANGED <<cluster, cache, reconciler, factory, env>>

(* The version a worker has loaded: a blueprint and the content it read.   *)
Loaded(c) == <<worker[c].ref, worker[c].digest>>

(* Mutation of PatchVersion: a version known to the status is not written. *)
PatchNewVersion(c) ==
  IF /\ component[c].digest # worker[c].digest
     /\ version[Loaded(c)] = "none"
    THEN [version EXCEPT ![Loaded(c)] = "live"]
    ELSE version

(* ... and then writes the version (server-side apply): it creates a       *)
(* missing one but does not revive a terminating one.                      *)
PatchVersion(c) ==
  IF version[Loaded(c)] = "none"
    THEN [version EXCEPT ![Loaded(c)] = "live"]
    ELSE version

LoadPatch(c) ==
  /\ worker[c].pc = "patch"
  /\ version' = PatchVersion(c)
  /\ worker' = [worker EXCEPT ![c].pc = "generate"]
  /\ UNCHANGED <<blueprint, component, cache, reconciler, factory, env>>

(* Generate takes the factory's item or downloads the version; when it is  *)
(* gone the reconcile fails.                                               *)
Generate(c) ==
  /\ worker[c].pc = "generate"
  /\ LET v == Loaded(c)
     IN  IF v \in generators \/ version[v] # "none"
           THEN /\ generators' = generators \cup {v}
                /\ generated' = [generated EXCEPT ![c] = v]
           ELSE UNCHANGED factory
  /\ worker' = [worker EXCEPT ![c].pc = "update"]
  /\ UNCHANGED <<cluster, cache, reconciler, env>>

(* The status, with the loaded reference, is written in every case unless  *)
(* the component has changed.                                              *)
UpdateStatus(c) ==
  /\ worker[c].pc = "update"
  /\ component' = IF component[c].generation = worker[c].generation
                    THEN [component EXCEPT ![c].digest = worker[c].digest]
                    ELSE component
  /\ worker' = [worker EXCEPT ![c] = IdleWorker]
  /\ UNCHANGED <<blueprint, version, cache, reconciler, factory, env>>

ComponentEvent(c) ==
  /\ cache[c] # component[c]
  /\ cache' = [cache EXCEPT ![c] = component[c]]
  /\ UNCHANGED <<cluster, worker, reconciler, factory, env>>

(* The factory drops an item an hour after its last use. *)
Evict(v) ==
  /\ v \in generators
  /\ generators' = generators \ {v}
  /\ UNCHANGED <<cluster, cache, worker, reconciler, generated, env>>

-----------------------------------------------------------------------------
(* A reconcile of a blueprint *)

Get(b) ==
  /\ reconciler[b].pc = "idle"
  /\ blueprint[b].exists
  /\ reconciler' = [reconciler EXCEPT ![b] =
       [IdleReconciler EXCEPT
          !.copy = blueprint[b],
          !.pc = IF blueprint[b].deleting \/ blueprint[b].finalizer
                   THEN "list" ELSE "finalizer"]]
  /\ UNCHANGED <<cluster, cache, worker, factory, env>>

(* An update is refused when the blueprint has changed since it was read. *)
Unchanged(b) ==
  blueprint[b].exists /\ blueprint[b].generation = reconciler[b].copy.generation

AddFinalizer(b) ==
  /\ reconciler[b].pc = "finalizer"
  /\ IF Unchanged(b)
       THEN /\ blueprint' = [blueprint EXCEPT ![b].finalizer = TRUE]
            /\ reconciler' = [reconciler EXCEPT ![b].pc = "list"]
       ELSE /\ UNCHANGED blueprint
            /\ reconciler' = [reconciler EXCEPT ![b] = IdleReconciler]
  /\ UNCHANGED <<version, component, cache, worker, factory, env>>

List(b) ==
  /\ reconciler[b].pc = "list"
  /\ LET found == {d \in Content : version[<<b, d>>] # "none"}
     IN  reconciler' = [reconciler EXCEPT ![b] =
           [@ EXCEPT !.pc = "check", !.listed = found, !.todo = found,
                     !.terminating = {d \in found : version[<<b, d>>] = "terminating"}]]
  /\ UNCHANGED <<cluster, cache, worker, factory, env>>

(* Mutation of InUse: the current content counts as used. *)
InUseOrCurrent(b, d) ==
  \/ blueprint[b].content = d
  \/ \E c \in Component : cache[c].ref = b /\ cache[c].digest = d

(* The index by blueprint version: the name of the blueprint comes from    *)
(* the spec, the digest from the status.                                   *)
InUse(b, d) ==
  \E c \in Component : cache[c].ref = b /\ cache[c].digest = d

(* The listed versions are looked at one by one. An unused one is to be    *)
(* deleted, or, when it is already terminating, ends the reconcile with an *)
(* error.                                                                  *)
CheckVersion(b, d) ==
  /\ reconciler[b].pc = "check"
  /\ d \in reconciler[b].todo
  /\ reconciler' = [reconciler EXCEPT ![b] =
       IF InUse(b, d) THEN [@ EXCEPT !.todo = reconciler[b].todo \ {d}]
       ELSE IF d \in reconciler[b].terminating THEN IdleReconciler
       ELSE [@ EXCEPT !.pc = "delete", !.current = d,
                      !.todo = reconciler[b].todo \ {d}]]
  /\ UNCHANGED <<cluster, cache, worker, factory, env>>

(* The version goes at once, or stays terminating while others hold it; a  *)
(* version that is gone is an error.                                       *)
DeleteVersion(b) ==
  /\ reconciler[b].pc = "delete"
  /\ LET v == <<b, reconciler[b].current>>
     IN  IF version[v] = "none"
           THEN /\ reconciler' = [reconciler EXCEPT ![b] = IdleReconciler]
                /\ UNCHANGED version
           ELSE /\ \E outcome \in {"none", "terminating"} :
                     version' = [version EXCEPT ![v] = outcome]
                /\ reconciler' = [reconciler EXCEPT ![b] =
                     [@ EXCEPT !.pc = "check", !.current = None, !.deleted = TRUE]]
  /\ UNCHANGED <<blueprint, component, cache, worker, factory, env>>

VersionGone(v) ==
  /\ version[v] = "terminating"
  /\ version' = [version EXCEPT ![v] = "none"]
  /\ UNCHANGED <<blueprint, component, cache, worker, reconciler, factory, env>>

(* All listed versions are in use: a deleted blueprint that has none loses *)
(* its finalizer and goes, unless it has changed meanwhile.                *)
Finish(b) ==
  /\ reconciler[b].pc = "check"
  /\ reconciler[b].todo = {}
  /\ reconciler' = [reconciler EXCEPT ![b] = IdleReconciler]
  /\ IF /\ ~reconciler[b].deleted
        /\ reconciler[b].copy.deleting
        /\ reconciler[b].listed = {}
        /\ Unchanged(b)
       THEN blueprint' = [blueprint EXCEPT ![b].exists = FALSE,
                            ![b].deleting = FALSE, ![b].finalizer = FALSE]
       ELSE UNCHANGED blueprint
  /\ UNCHANGED <<version, component, cache, worker, factory, env>>

-----------------------------------------------------------------------------

(* Workers, the informer and the factory start anew. *)
Crash ==
  /\ env.crashes < MaxCrashes
  /\ env' = [env EXCEPT !.crashes = @ + 1]
  /\ cache' = component
  /\ worker' = [c \in Component |-> IdleWorker]
  /\ reconciler' = [b \in Blueprint |-> IdleReconciler]
  /\ generators' = {}
  /\ UNCHANGED <<cluster, generated>>

ReconcileComponent(c) ==
  LoadGet(c) \/ LoadPatch(c) \/ Generate(c) \/ UpdateStatus(c)

ReconcileBlueprint(b) ==
  \/ Get(b)
  \/ AddFinalizer(b)
  \/ List(b)
  \/ \E d \in Content : CheckVersion(b, d)
  \/ DeleteVersion(b)
  \/ Finish(b)

User ==
  \/ \E b \in Blueprint :
       \/ \E d \in Content : CreateBlueprint(b, d) \/ EditBlueprint(b, d)
       \/ DeleteBlueprint(b)
  \/ \E c \in Component, ref \in Blueprint \cup {None} : SetSourceRef(c, ref)

Next ==
  \/ User
  \/ \E c \in Component : ReconcileComponent(c) \/ ComponentEvent(c)
  \/ \E b \in Blueprint : ReconcileBlueprint(b)
  \/ \E v \in Blueprint \X Content : VersionGone(v) \/ Evict(v)
  \/ Crash

Spec == Init /\ [][Next]_vars

(* Both controllers requeue every object they have reconciled, at the      *)
(* latest after their interval; the informer delivers; whoever holds a     *)
(* terminating version lets it go.                                         *)
Fairness ==
  /\ \A c \in Component :
       WF_vars(ReconcileComponent(c)) /\ WF_vars(ComponentEvent(c))
  /\ \A b \in Blueprint : WF_vars(ReconcileBlueprint(b))
  /\ \A v \in Blueprint \X Content : WF_vars(VersionGone(v))

FairSpec == Spec /\ Fairness

-----------------------------------------------------------------------------

Refers(c) ==
  /\ component[c].ref # None
  /\ blueprint[component[c].ref].exists
  /\ ~blueprint[component[c].ref].deleting

(* The controllers settle: a version may be deleted under a component that *)
(* is about to use it (the cache lags, a list is stale), but in the end    *)
(* each component is generated from the blueprint's current content, says  *)
(* so in its status, and its version stays.                                *)
Settles ==
  <>[](\A c \in Component : Refers(c) =>
         LET v == <<component[c].ref, blueprint[component[c].ref].content>>
         IN  generated[c] = v /\ component[c].digest = v[2] /\ version[v] = "live")

(* Garbage is collected: in the end the versions of a blueprint are those  *)
(* its components have in their status.                                    *)
VersionsCollected ==
  <>[](\A b \in Blueprint, d \in Content :
         blueprint[b].exists /\ version[<<b, d>>] # "none" =>
           \E c \in Component : component[c].ref = b /\ component[c].digest = d)

(* A deleted blueprint goes, unless a component still refers to it. *)
BlueprintsGo ==
  <>[](\A b \in Blueprint : blueprint[b].deleting =>
         \E c \in Component : component[c].ref = b)

(* What the DeletionBlocked event of the blueprint controller says: a      *)
(* blueprint under its finalizer does not go while a version refers to it. *)
(* A reconcile of a component that has read the blueprint can write the    *)
(* version after the reconciler has listed none.                           *)
DeletionBlocked ==
  [][\A b \in Blueprint :
       blueprint[b].finalizer /\ ~blueprint'[b].exists =>
         \A d \in Content : version[<<b, d>>] = "none"]_vars
=============================================================================
