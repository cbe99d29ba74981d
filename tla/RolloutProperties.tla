-------------------------- MODULE RolloutProperties --------------------------
(***************************************************************************)
(* What the component controller promises.                                 *)
(***************************************************************************)
EXTENDS Rollout

(* d was ready once, with the artifact of the rolled-out state r when both *)
(* come from the same source.                                              *)
Cleared(r, d) ==
  \E p \in applied[d] : p.sourceRef = r.sourceRef => p.artifact = r.artifact

(* The pre-reconcile hook orders a rollout: nothing is generated for a     *)
(* component, and no ready status is written for it, unless each of its    *)
(* dependencies was ready before, and, when it shares the source, ready    *)
(* with this very artifact. The hook reads a lagging cache and a source    *)
(* that moves on, and the dependency can change right after the look.      *)
RolloutOrder ==
  \A c \in Component :
    \A r \in applied[c] \cup ({deployed[c]} \ {None}) :
      \A d \in r.dependencies : Cleared(r, d)

(* The rollout a component object shows itself ready with. *)
Reported(object) == IF IsReady(object) THEN Attempt(object) ELSE None

Ordered ==
  INSTANCE OrderedRollout WITH
    Rollout <- Rolled,
    reported <- [c \in Component |-> Reported(components[c])],
    cleared <- applied

(* The controller implements OrderedRollout: however its reads lag and its *)
(* writes are refused, what can be seen on the cluster changes only in     *)
(* steps that OrderedRollout allows. In particular a status never turns    *)
(* ready with anything else than what is deployed, and dependent objects   *)
(* are never torn down under a component that shows itself ready.          *)
ImplementsOrderedRollout == Ordered!Spec

(* RolloutOrder for components that share a source, not only the text of   *)
(* the reference to it. The pre-reconcile hook compares the references     *)
(* before their namespace is filled in.                                    *)
SourceOrder ==
  \A c \in Component :
    \A r \in applied[c] \cup ({deployed[c]} \ {None}) :
      \A d \in r.dependencies : \E p \in applied[d] :
        WithDefaultNamespace[d][p.sourceRef] = WithDefaultNamespace[c][r.sourceRef]
          => p.artifact = r.artifact

(* A worker that may go on to apply has found every dependency it no       *)
(* longer has to check cleared; a worker that reports ready, all of them.  *)
WorkerCleared(c) ==
  LET unchecked == IF pc[c] = "check" THEN todo[c] ELSE {}
  IN  pc[c] = "check" \/ (pc[c] = "finish" /\ worker[c].status.ready) =>
        \A d \in worker[c].spec.dependencies \ unchecked :
          Cleared(Attempt(worker[c]), d)

(* A ready object, live or cached, shows a state recorded in applied.      *)
ReadyIsApplied(object, c) == IsReady(object) => Attempt(object) \in applied[c]

(* A worker's copy is never newer than the object, and with the same       *)
(* generation it has the same spec.                                        *)
WorkerCopy(c) ==
  pc[c] # "idle" =>
    /\ worker[c].generation <= components[c].generation
    /\ worker[c].generation = components[c].generation =>
         worker[c].spec = components[c].spec

ComponentOrder(c) ==
  /\ components[c].status.observedGeneration <= components[c].generation
  /\ ReadyIsApplied(components[c], c)
  /\ ReadyIsApplied(cache[c], c)
  /\ WorkerCopy(c)
  /\ WorkerCleared(c)

(* The inductive invariant behind RolloutOrder. *)
OrderInv == RolloutOrder /\ \A c \in Component : ComponentOrder(c)

(* Wake-ups are never lost: a component on the cluster is queued, has a    *)
(* timer, is being worked on, or the informer has yet to report its        *)
(* current generation. Otherwise a crash, a conflict or a re-creation      *)
(* behind the informer's back could leave it unreconciled for good.        *)
NeverForgotten ==
  \A c \in Component : components[c].exists =>
    \/ c \in queue \cup timer
    \/ pc[c] # "idle"
    \/ cache[c].generation # components[c].generation

(* A ready status tells the truth: it names an artifact the component      *)
(* accepts and was deployed from. Only during a reconcile, or between a    *)
(* crash and the reconcile that follows it, the two may part: what was     *)
(* applied last is then not yet reported.                                  *)
ReadyIsTruthful ==
  \A c \in Component : IsReady(components[c]) =>
    LET spec == components[c].spec
        status == components[c].status
    IN  /\ status.lastApplied = status.lastAttempted
        /\ spec.digest \in {None, status.lastApplied.digest}
        /\ spec.revision \in {None, status.lastApplied.revision}
        /\ deployed[c] = Attempt(components[c]) \/ c \in queue \/ pc[c] # "idle"

(* The informer is never ahead of the API server; with this NeverForgotten *)
(* is inductive.                                                           *)
WakeUpInv ==
  /\ NeverForgotten
  /\ \A c \in Component : cache[c].generation <= components[c].generation

(* Dependent objects never outlive their component: while there may be     *)
(* any, the component is on the cluster, under its finalizer, whoever      *)
(* deletes or re-creates it, and whatever the worker's copy says.          *)
NothingLeftBehind ==
  \A c \in Component : deployed[c] # None =>
    components[c].exists /\ components[c].finalizer

(* The pre-delete hook protects dependents: with dependencies that never   *)
(* change, what a component was deployed on is still deployed, whatever    *)
(* is deleted and in which order.                                          *)
NoOrphanedDependent ==
  \A c \in Component : deployed[c] # None =>
    \A d \in deployed[c].dependencies : deployed[d] # None

(* A worker that is to report ready reports what is deployed, and deletion *)
(* is final: a component being deleted is not ready and stays, and its     *)
(* worker knows. With OrderInv this gives the step by step refinement of   *)
(* OrderedRollout.                                                         *)
ReportsDeployed(c) ==
  /\ components[c].deleting => components[c].exists /\ ~IsReady(components[c])
  /\ pc[c] # "idle" =>
       /\ worker[c].deleting => components[c].deleting
       /\ worker[c].generation = components[c].generation =>
            worker[c].deleting = components[c].deleting
  /\ pc[c] = "check" => ~worker[c].deleting
  /\ pc[c] = "delete" => worker[c].deleting
  /\ pc[c] = "finish" /\ worker[c].status.ready =>
       /\ ~worker[c].deleting
       /\ deployed[c] = Attempt(worker[c])

ReportInv == OrderInv /\ \A c \in Component : ReportsDeployed(c)

(* A component reaches c through dependencies of the live specs. *)
Requires(c) ==
  LET Step(S) == S \cup UNION {components[x].spec.dependencies : x \in S}
      reach[n \in Nat] ==
        IF n = 0 THEN components[c].spec.dependencies ELSE Step(reach[n - 1])
  IN  reach[Cardinality(Component)]

(* Each of the components S depends on one of them: a dependency cycle     *)
(* and whatever leads into it.                                             *)
Knot(S) == \A c \in S : components[c].spec.dependencies \cap S # {}

(* Components that depend on each other wait for each other: none of them, *)
(* and nothing that builds on them, is ever deployed or ready, also after  *)
(* crashes and deletions.                                                  *)
CycleStaysDown ==
  \A S \in SUBSET Component : Knot(S) =>
    \A c \in S : deployed[c] = None /\ applied[c] = {}

(* A sticky component whose persisted status is processing is deployed     *)
(* with no other artifact than the one of that status, however the source  *)
(* moves, until it is ready, timed out or edited.                          *)
StickyHolds ==
  [][\A c \in Component :
       /\ components[c].exists
       /\ components[c].spec.sticky
       /\ IsComponentProcessing(components[c])
       /\ pc[c] # "idle"
       /\ worker[c].generation = components[c].generation
       /\ deployed'[c] \notin {deployed[c], None}
       => deployed'[c].artifact = components[c].status.sourceRef]_vars

-----------------------------------------------------------------------------

(* A component can be rolled out: it is on the cluster, its source offers  *)
(* an artifact it accepts, and so for everything it requires, without a    *)
(* cycle and without pins that disagree about a shared source.             *)
Acceptable(c) ==
  LET o == components[c] IN
  /\ o.exists
  /\ ~o.deleting
  /\ source[SourceOf(c, o)] # NoArtifact
  /\ PostRead(o, source[SourceOf(c, o)])

Healthy(c) ==
  \A x \in {c} \cup Requires(c) : x \notin Requires(x) /\ Acceptable(x)

RolledOut(c) ==
  LET a == source[SourceOf(c, components[c])] IN
  /\ deployed[c] # None
  /\ deployed[c].artifact = a
  /\ IsReady(components[c])
  /\ components[c].status.lastApplied = a

(* Once users and sources have come to rest, every component that can be   *)
(* rolled out ends up, for good, ready and deployed from what its source   *)
(* offers.                                                                 *)
Converges == <>[](\A c \in Component : Healthy(c) => RolledOut(c))

(* Deletion completes: what is still being deleted at the end is blocked   *)
(* by a component that depends on it.                                      *)
DeletionCompletes ==
  <>[](\A c \in Component :
         components[c].deleting =>
           \E x \in Component :
             components[x].exists /\ c \in components[x].spec.dependencies)
=============================================================================
