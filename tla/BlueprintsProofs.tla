--------------------------- MODULE BlueprintsProofs ---------------------------
(***************************************************************************)
(* Theorems about Blueprints for any components, blueprints and contents.  *)
(***************************************************************************)
EXTENDS Blueprints, TLAPS

LEMMA IdleType == IdleReconciler \in Reconciler /\ Consistent(IdleReconciler)
BY DEF IdleReconciler, Reconciler, Consistent

LEMMA InitType == Init => TypeOK
<1> SUFFICES ASSUME Init PROVE TypeOK
  OBVIOUS
<1>1. blueprint \in [Blueprint -> BlueprintObject]
  BY DEF Init, BlueprintObject
<1>2. component \in [Component -> ComponentObject]
  BY DEF Init, ComponentObject
<1>3. /\ version \in [Blueprint \X Content -> {"none", "live", "terminating"}]
      /\ generators \subseteq Blueprint \X Content
      /\ generated \in [Component -> (Blueprint \X Content) \cup {None}]
      /\ env \in [requests : Nat, crashes : Nat]
  BY DEF Init
<1>4. \A c \in Component : IdleWorker \in Worker /\ IdleWorker.pc = "idle"
  BY DEF IdleWorker, Worker
<1> QED BY <1>1, <1>2, <1>3, <1>4, IdleType DEF Init, TypeOK

LEMMA ReconcilerType ==
  ASSUME TypeOK, NEW b \in Blueprint, NEW r \in Reconciler, Consistent(r),
         reconciler' = [reconciler EXCEPT ![b] = r]
  PROVE  /\ reconciler' \in [Blueprint -> Reconciler]
         /\ \A x \in Blueprint : Consistent(reconciler'[x])
BY DEF TypeOK

LEMMA NextType == TypeOK /\ [Next]_vars => TypeOK'
<1> SUFFICES ASSUME TypeOK, [Next]_vars PROVE TypeOK'
  OBVIOUS
<1> USE DEF cluster, factory
<1>1. ASSUME NEW b \in Blueprint,
             \/ \E d \in Content : CreateBlueprint(b, d) \/ EditBlueprint(b, d)
             \/ DeleteBlueprint(b)
      PROVE  TypeOK'
  <2>1. blueprint[b] \in BlueprintObject
    BY DEF TypeOK
  <2>2. blueprint[b].generation + 1 \in Nat
    BY <2>1 DEF BlueprintObject
  <2>3. blueprint' \in [Blueprint -> BlueprintObject]
    <3>1. ASSUME NEW d \in Content, CreateBlueprint(b, d)
          PROVE  blueprint' \in [Blueprint -> BlueprintObject]
      BY <2>2, <3>1 DEF CreateBlueprint, TypeOK, BlueprintObject
    <3>2. ASSUME NEW d \in Content, EditBlueprint(b, d)
          PROVE  blueprint' \in [Blueprint -> BlueprintObject]
      BY <2>1, <2>2, <3>2 DEF EditBlueprint, TypeOK, BlueprintObject
    <3>3. CASE DeleteBlueprint(b)
      BY <2>1, <2>2, <3>3 DEF DeleteBlueprint, TypeOK, BlueprintObject
    <3> QED BY <1>1, <3>1, <3>2, <3>3
  <2>4. /\ env' \in [requests : Nat, crashes : Nat]
        /\ UNCHANGED <<version, component, cache, worker, reconciler, factory>>
    <3>1. /\ Request
          /\ UNCHANGED <<version, component, cache, worker, reconciler, factory>>
      BY <1>1 DEF CreateBlueprint, EditBlueprint, DeleteBlueprint
    <3> QED BY <3>1 DEF Request, TypeOK
  <2> QED BY <2>3, <2>4 DEF TypeOK
<1>2. ASSUME NEW c \in Component, NEW ref \in Blueprint \cup {None}, SetSourceRef(c, ref)
      PROVE  TypeOK'
  <2>1. component' \in [Component -> ComponentObject]
    BY <1>2 DEF SetSourceRef, TypeOK, ComponentObject
  <2> QED BY <1>2, <2>1 DEF SetSourceRef, Request, TypeOK
<1>3. ASSUME NEW c \in Component, LoadGet(c)
      PROVE  TypeOK'
  <2>1. /\ component[c].ref \in Blueprint
        /\ blueprint[component[c].ref].content \in Content
        /\ component[c].generation \in Nat
    BY <1>3 DEF LoadGet, TypeOK, ComponentObject, BlueprintObject
  <2>2. /\ worker' \in [Component -> Worker]
        /\ \A x \in Component : worker'[x].pc # "idle" =>
             worker'[x].ref \in Blueprint /\ worker'[x].digest \in Content
    BY <1>3, <2>1 DEF LoadGet, LoadedDigest, TypeOK, Worker
  <2> QED BY <1>3, <2>2 DEF LoadGet, TypeOK
<1>4. ASSUME NEW c \in Component, LoadPatch(c) \/ Generate(c)
      PROVE  TypeOK'
  <2>1. /\ worker[c] \in Worker /\ worker[c].pc # "idle"
        /\ Loaded(c) \in Blueprint \X Content
    BY <1>4 DEF LoadPatch, Generate, Loaded, TypeOK
  <2>2. /\ worker' \in [Component -> Worker]
        /\ \A x \in Component : worker'[x].pc # "idle" =>
             worker'[x].ref \in Blueprint /\ worker'[x].digest \in Content
    <3>1. PICK p \in {"generate", "update"} : worker' = [worker EXCEPT ![c].pc = p]
      BY <1>4 DEF LoadPatch, Generate
    <3> DEFINE w == [worker[c] EXCEPT !.pc = p]
    <3>2. w \in Worker /\ w.ref = worker[c].ref /\ w.digest = worker[c].digest
      BY <2>1 DEF Worker
    <3>3. worker' = [worker EXCEPT ![c] = w]
      BY <3>1 DEF TypeOK
    <3> HIDE DEF w
    <3> QED BY <2>1, <3>2, <3>3 DEF TypeOK
  <2>3. /\ version' \in [Blueprint \X Content -> {"none", "live", "terminating"}]
        /\ generators' \subseteq Blueprint \X Content
        /\ generated' \in [Component -> (Blueprint \X Content) \cup {None}]
    BY <1>4, <2>1 DEF LoadPatch, PatchVersion, Generate, TypeOK
  <2> QED BY <1>4, <2>2, <2>3 DEF LoadPatch, Generate, TypeOK
<1>5. ASSUME NEW c \in Component, UpdateStatus(c)
      PROVE  TypeOK'
  <2>1. component' \in [Component -> ComponentObject]
    BY <1>5 DEF UpdateStatus, TypeOK, ComponentObject, Worker
  <2>2. IdleWorker \in Worker /\ IdleWorker.pc = "idle"
    BY DEF IdleWorker, Worker
  <2> QED BY <1>5, <2>1, <2>2 DEF UpdateStatus, TypeOK
<1>6. ASSUME NEW c \in Component, ComponentEvent(c)
      PROVE  TypeOK'
  BY <1>6 DEF ComponentEvent, TypeOK
<1>7. ASSUME NEW v \in Blueprint \X Content, VersionGone(v) \/ Evict(v)
      PROVE  TypeOK'
  BY <1>7 DEF VersionGone, Evict, TypeOK
<1>8. ASSUME NEW b \in Blueprint, NEW r \in Reconciler, Consistent(r),
             reconciler' = [reconciler EXCEPT ![b] = r],
             blueprint' \in [Blueprint -> BlueprintObject],
             version' \in [Blueprint \X Content -> {"none", "live", "terminating"}],
             UNCHANGED <<component, cache, worker, factory, env>>
      PROVE  TypeOK'
  <2>1. /\ reconciler' \in [Blueprint -> Reconciler]
        /\ \A x \in Blueprint : Consistent(reconciler'[x])
    BY <1>8, ReconcilerType
  <2> QED BY <1>8, <2>1 DEF TypeOK
<1>9. ASSUME NEW b \in Blueprint
      PROVE  /\ reconciler[b] \in Reconciler
             /\ Consistent(reconciler[b])
             /\ blueprint[b] \in BlueprintObject
             /\ blueprint \in [Blueprint -> BlueprintObject]
             /\ version \in [Blueprint \X Content -> {"none", "live", "terminating"}]
  BY DEF TypeOK
<1>10. ASSUME NEW b \in Blueprint, Get(b)
       PROVE  TypeOK'
  <2> DEFINE r == [IdleReconciler EXCEPT
                     !.copy = blueprint[b],
                     !.pc = IF blueprint[b].deleting \/ blueprint[b].finalizer
                              THEN "list" ELSE "finalizer"]
  <2>1. r \in Reconciler /\ Consistent(r)
    BY <1>9 DEF IdleReconciler, Reconciler, Consistent
  <2>2. reconciler' = [reconciler EXCEPT ![b] = r]
    BY <1>10 DEF Get
  <2> HIDE DEF r
  <2> QED BY <1>8, <1>9, <1>10, <2>1, <2>2 DEF Get
<1>11. ASSUME NEW b \in Blueprint, AddFinalizer(b)
       PROVE  TypeOK'
  <2> DEFINE r == [reconciler[b] EXCEPT !.pc = "list"]
  <2>1. r \in Reconciler /\ Consistent(r)
    BY <1>9, <1>11 DEF AddFinalizer, Reconciler, Consistent
  <2>2. \/ reconciler' = [reconciler EXCEPT ![b] = r]
        \/ reconciler' = [reconciler EXCEPT ![b] = IdleReconciler]
    BY <1>11 DEF AddFinalizer, TypeOK
  <2>3. blueprint' \in [Blueprint -> BlueprintObject]
    <3> DEFINE o == [blueprint[b] EXCEPT !.finalizer = TRUE]
    <3>1. o \in BlueprintObject
      BY <1>9 DEF BlueprintObject
    <3>2. blueprint' = blueprint \/ blueprint' = [blueprint EXCEPT ![b] = o]
      BY <1>11 DEF AddFinalizer
    <3> HIDE DEF o
    <3> QED BY <1>9, <3>1, <3>2
  <2> HIDE DEF r
  <2> QED BY <1>8, <1>9, <1>11, <2>1, <2>2, <2>3, IdleType DEF AddFinalizer
<1>12. ASSUME NEW b \in Blueprint, List(b)
       PROVE  TypeOK'
  <2> DEFINE found == {d \in Content : version[<<b, d>>] # "none"}
             gone == {d \in found : version[<<b, d>>] = "terminating"}
             r == [reconciler[b] EXCEPT !.pc = "check", !.listed = found,
                                        !.todo = found, !.terminating = gone]
  <2>1. reconciler' = [reconciler EXCEPT ![b] = r]
    BY <1>12 DEF List, TypeOK
  <2>2. found \subseteq Content /\ gone \subseteq found
    OBVIOUS
  <2> HIDE DEF found, gone
  <2>3. r \in Reconciler /\ Consistent(r)
    BY <1>9, <1>12, <2>2 DEF List, Reconciler, Consistent
  <2> HIDE DEF r
  <2> QED BY <1>8, <1>9, <1>12, <2>1, <2>3 DEF List
<1>13. ASSUME NEW b \in Blueprint, NEW d \in Content, CheckVersion(b, d)
       PROVE  TypeOK'
  <2> DEFINE kept == [reconciler[b] EXCEPT !.todo = reconciler[b].todo \ {d}]
             unused == [reconciler[b] EXCEPT !.pc = "delete", !.current = d,
                                             !.todo = reconciler[b].todo \ {d}]
  <2>1. kept \in Reconciler /\ Consistent(kept)
    BY <1>9, <1>13 DEF CheckVersion, Reconciler, Consistent
  <2>2. unused \in Reconciler /\ Consistent(unused)
    BY <1>9, <1>13 DEF CheckVersion, Reconciler, Consistent
  <2>3. \/ reconciler' = [reconciler EXCEPT ![b] = kept]
        \/ reconciler' = [reconciler EXCEPT ![b] = IdleReconciler]
        \/ reconciler' = [reconciler EXCEPT ![b] = unused]
    BY <1>13 DEF CheckVersion, TypeOK
  <2> HIDE DEF kept, unused
  <2> QED BY <1>8, <1>9, <1>13, <2>1, <2>2, <2>3, IdleType DEF CheckVersion
<1>14. ASSUME NEW b \in Blueprint, DeleteVersion(b)
       PROVE  TypeOK'
  <2> DEFINE r == [reconciler[b] EXCEPT !.pc = "check", !.current = None,
                                        !.deleted = TRUE]
  <2>1. r \in Reconciler /\ Consistent(r)
    BY <1>9, <1>14 DEF DeleteVersion, Reconciler, Consistent
  <2>2. \/ reconciler' = [reconciler EXCEPT ![b] = r]
        \/ reconciler' = [reconciler EXCEPT ![b] = IdleReconciler]
    BY <1>14 DEF DeleteVersion, TypeOK
  <2>3. version' \in [Blueprint \X Content -> {"none", "live", "terminating"}]
    BY <1>9, <1>14 DEF DeleteVersion
  <2> HIDE DEF r
  <2> QED BY <1>8, <1>9, <1>14, <2>1, <2>2, <2>3, IdleType DEF DeleteVersion
<1>15. ASSUME NEW b \in Blueprint, Finish(b)
       PROVE  TypeOK'
  <2>1. blueprint' \in [Blueprint -> BlueprintObject]
    <3> DEFINE o == [blueprint[b] EXCEPT !.exists = FALSE, !.deleting = FALSE,
                                         !.finalizer = FALSE]
    <3>1. o \in BlueprintObject
      BY <1>9 DEF BlueprintObject
    <3>2. blueprint' = blueprint \/ blueprint' = [blueprint EXCEPT ![b] = o]
      BY <1>9, <1>15 DEF Finish
    <3> HIDE DEF o
    <3> QED BY <1>9, <3>1, <3>2
  <2> QED BY <1>8, <1>9, <1>15, <2>1, IdleType DEF Finish
<1>16. ASSUME Crash
       PROVE  TypeOK'
  <2>1. \A c \in Component : IdleWorker \in Worker /\ IdleWorker.pc = "idle"
    BY DEF IdleWorker, Worker
  <2> QED BY <1>16, <2>1, IdleType DEF Crash, TypeOK
<1>17. ASSUME UNCHANGED vars
       PROVE  TypeOK'
  BY <1>17 DEF vars, TypeOK
<1> QED
  BY <1>1, <1>2, <1>3, <1>4, <1>5, <1>6, <1>7, <1>10, <1>11, <1>12, <1>13, <1>14,
     <1>15, <1>16, <1>17
  DEF Next, User, ReconcileComponent, ReconcileBlueprint

(* Every reachable state is well typed; in particular a reconciler that    *)
(* deletes has a version at hand, and a worker past its Get a blueprint    *)
(* and a digest.                                                           *)
THEOREM BlueprintsTypeCorrect == Spec => []TypeOK
BY InitType, NextType, PTL DEF Spec
-----------------------------------------------------------------------------

(* A reconcile of a component writes a version of a blueprint whose        *)
(* reconciler is about to let the deleted blueprint go, having listed no   *)
(* version.                                                                *)
Leaving(b) ==
  /\ reconciler[b].pc = "check"
  /\ reconciler[b].copy.deleting
  /\ reconciler[b].listed = {}

LateVersion == \E c \in Component : LoadPatch(c) /\ Leaving(worker[c].ref)

(* What keeps a blueprint from going too early: a reconciler that is about *)
(* to let it go has seen that it has no version, which stays so.           *)
Held(b) ==
  /\ blueprint[b].finalizer => blueprint[b].exists
  /\ reconciler[b].pc = "delete" => reconciler[b].listed # {}
  /\ Leaving(b) => \A d \in Content : version[<<b, d>>] = "none"

AllHeld == \A b \in Blueprint : Held(b)

LEMMA InitHeld == Init => AllHeld
BY DEF Init, AllHeld, Held, Leaving, IdleReconciler

(* The versions on the cluster are written by reconciles of components,    *)
(* deleted by reconciles of blueprints, and go when others let them.       *)
LEMMA VersionSteps ==
  ASSUME Next, version' # version
  PROVE  \/ \E c \in Component : LoadPatch(c)
         \/ \E x \in Blueprint : DeleteVersion(x)
         \/ \E v \in Blueprint \X Content : VersionGone(v)
<1> USE DEF cluster
<1>1. ~User
  BY DEF User, CreateBlueprint, EditBlueprint, DeleteBlueprint, SetSourceRef
<1>2. ASSUME NEW c \in Component, ReconcileComponent(c) \/ ComponentEvent(c)
      PROVE  LoadPatch(c)
  BY <1>2
  DEF ReconcileComponent, LoadGet, Generate, UpdateStatus, ComponentEvent
<1>3. ASSUME NEW x \in Blueprint, ReconcileBlueprint(x)
      PROVE  DeleteVersion(x)
  BY <1>3
  DEF ReconcileBlueprint, Get, AddFinalizer, List, CheckVersion, Finish
<1>4. ~Crash /\ \A v \in Blueprint \X Content : ~Evict(v)
  BY DEF Crash, Evict
<1> QED BY <1>1, <1>2, <1>3, <1>4 DEF Next

(* A version appears only when a reconcile of a component writes it.       *)
LEMMA VersionsAppear ==
  ASSUME TypeOK, Next, NEW b \in Blueprint, NEW d \in Content,
         version[<<b, d>>] = "none", version'[<<b, d>>] # "none"
  PROVE  \E c \in Component :
           LoadPatch(c) /\ worker[c].ref = b /\ UNCHANGED <<blueprint, reconciler>>
<1> USE DEF cluster
<1>1. version' # version
  OBVIOUS
<1>2. \/ \E c \in Component : LoadPatch(c)
      \/ \E x \in Blueprint : DeleteVersion(x)
      \/ \E v \in Blueprint \X Content : VersionGone(v)
  BY <1>1, VersionSteps
<1>3. ASSUME NEW x \in Blueprint, DeleteVersion(x)
      PROVE  FALSE
  BY <1>3 DEF DeleteVersion, TypeOK
<1>4. ASSUME NEW v \in Blueprint \X Content, VersionGone(v)
      PROVE  FALSE
  BY <1>4 DEF VersionGone, TypeOK
<1>5. PICK c \in Component : LoadPatch(c)
  BY <1>2, <1>3, <1>4
<1>6. Loaded(c) = <<b, d>>
  BY <1>5 DEF LoadPatch, PatchVersion, TypeOK
<1> QED BY <1>5, <1>6 DEF LoadPatch, Loaded

(* What a step makes of the reconciler of one blueprint: only a reconcile  *)
(* of that blueprint and a crash touch it.                                 *)
LEMMA ReconcilerSteps ==
  ASSUME TypeOK, Next, NEW b \in Blueprint
  PROVE  \/ reconciler'[b] = reconciler[b] \/ reconciler'[b] = IdleReconciler
         \/ Get(b) \/ AddFinalizer(b) \/ List(b)
         \/ \E d \in Content : CheckVersion(b, d)
         \/ DeleteVersion(b)
<1> USE DEF cluster
<1>1. CASE User
  BY <1>1
  DEF User, CreateBlueprint, EditBlueprint, DeleteBlueprint, SetSourceRef
<1>2. ASSUME NEW c \in Component, ReconcileComponent(c) \/ ComponentEvent(c)
      PROVE  reconciler' = reconciler
  BY <1>2
  DEF ReconcileComponent, LoadGet, LoadPatch, Generate, UpdateStatus, ComponentEvent
<1>3. ASSUME NEW x \in Blueprint, x # b, ReconcileBlueprint(x)
      PROVE  reconciler'[b] = reconciler[b]
  BY <1>3
  DEF ReconcileBlueprint, Get, AddFinalizer, List, CheckVersion, DeleteVersion,
      Finish, TypeOK
<1>4. CASE ReconcileBlueprint(b)
  BY <1>4 DEF ReconcileBlueprint, Finish, TypeOK
<1>5. ASSUME NEW v \in Blueprint \X Content, VersionGone(v) \/ Evict(v)
      PROVE  reconciler' = reconciler
  BY <1>5 DEF VersionGone, Evict
<1>6. CASE Crash
  BY <1>6 DEF Crash
<1> QED BY <1>1, <1>2, <1>3, <1>4, <1>5, <1>6 DEF Next

(* A reconciler that deletes a version has listed one, and it begins to    *)
(* let b go only by listing no version of it.                              *)
LEMMA ReconcilerMoves ==
  ASSUME TypeOK, AllHeld, Next, NEW b \in Blueprint
  PROVE  /\ reconciler'[b].pc = "delete" => reconciler'[b].listed # {}
         /\ Leaving(b)' =>
              \/ Leaving(b)
              \/ /\ UNCHANGED version
                 /\ \A d \in Content : version[<<b, d>>] = "none"
<1> USE DEF cluster
<1>0. Held(b) /\ Consistent(reconciler[b]) /\ reconciler[b] \in Reconciler
  BY DEF AllHeld, TypeOK
<1>1. CASE reconciler'[b] = reconciler[b]
  BY <1>0, <1>1 DEF Held, Leaving
<1>2. CASE reconciler'[b] = IdleReconciler
  BY <1>2 DEF Leaving, IdleReconciler
<1>3. CASE Get(b)
  BY <1>3 DEF Get, Leaving, TypeOK, IdleReconciler
<1>4. CASE AddFinalizer(b)
  BY <1>0, <1>4 DEF AddFinalizer, Leaving, TypeOK, IdleReconciler, Reconciler
<1>5. CASE List(b)
  BY <1>0, <1>5 DEF List, Leaving, TypeOK, Reconciler
<1>6. ASSUME NEW d \in Content, CheckVersion(b, d), reconciler'[b] # IdleReconciler
      PROVE  /\ reconciler'[b].listed = reconciler[b].listed
             /\ reconciler[b].listed # {}
  BY <1>0, <1>6 DEF CheckVersion, TypeOK, Reconciler, Consistent
<1>7. ASSUME DeleteVersion(b), reconciler'[b] # IdleReconciler
      PROVE  /\ reconciler'[b].listed = reconciler[b].listed
             /\ reconciler[b].listed # {}
  <2>1. reconciler[b].listed # {}
    BY <1>0, <1>7 DEF DeleteVersion, Held
  <2> DEFINE r == [reconciler[b] EXCEPT !.pc = "check", !.current = None,
                                        !.deleted = TRUE]
  <2>2. r.listed = reconciler[b].listed
    BY <1>0 DEF Reconciler
  <2>3. reconciler' = [reconciler EXCEPT ![b] = r]
    BY <1>7 DEF DeleteVersion, TypeOK
  <2> HIDE DEF r
  <2> QED BY <2>1, <2>2, <2>3 DEF TypeOK
<1> QED
  BY <1>1, <1>2, <1>3, <1>4, <1>5, <1>6, <1>7,
     ReconcilerSteps
  DEF Leaving

(* A blueprint leaves the cluster from under its finalizer only when its   *)
(* reconciler, having listed no version, takes the finalizer away.         *)
LEMMA BlueprintLeaves ==
  ASSUME TypeOK, AllHeld, [Next]_vars, NEW b \in Blueprint
  PROVE  /\ blueprint'[b].finalizer => blueprint'[b].exists
         /\ blueprint[b].finalizer /\ ~blueprint'[b].exists =>
              Leaving(b) /\ UNCHANGED version
<1> USE DEF cluster
<1>0. /\ blueprint[b].finalizer => blueprint[b].exists
      /\ blueprint \in [Blueprint -> BlueprintObject]
  BY DEF AllHeld, Held, TypeOK
<1>1. CASE blueprint'[b] = blueprint[b]
  BY <1>0, <1>1
<1>2. ASSUME NEW d \in Content, CreateBlueprint(b, d) \/ EditBlueprint(b, d)
      PROVE  blueprint'[b].exists
  BY <1>0, <1>2 DEF CreateBlueprint, EditBlueprint, BlueprintObject
<1>3. CASE DeleteBlueprint(b)
  <2> DEFINE o == [blueprint[b] EXCEPT !.exists = blueprint[b].finalizer,
                                       !.deleting = blueprint[b].finalizer,
                                       !.generation = @ + 1]
  <2>1. o.exists = blueprint[b].finalizer /\ o.finalizer = blueprint[b].finalizer
    BY <1>0 DEF BlueprintObject
  <2>2. blueprint' = [blueprint EXCEPT ![b] = o]
    BY <1>0, <1>3 DEF DeleteBlueprint
  <2> HIDE DEF o
  <2> QED BY <1>0, <2>1, <2>2
<1>4. CASE AddFinalizer(b)
  BY <1>0, <1>4 DEF AddFinalizer, Unchanged, BlueprintObject
<1>5. ASSUME Finish(b), blueprint'[b] # blueprint[b]
      PROVE  Leaving(b) /\ UNCHANGED version /\ ~blueprint'[b].finalizer
  <2>1. Leaving(b) /\ UNCHANGED version
    BY <1>5 DEF Finish, Leaving
  <2> DEFINE o == [blueprint[b] EXCEPT !.exists = FALSE, !.deleting = FALSE,
                                       !.finalizer = FALSE]
  <2>2. ~o.finalizer
    BY <1>0 DEF BlueprintObject
  <2>3. blueprint' = [blueprint EXCEPT ![b] = o]
    BY <1>0, <1>5 DEF Finish
  <2> HIDE DEF o
  <2> QED BY <1>0, <2>1, <2>2, <2>3
<1>6. \/ blueprint'[b] = blueprint[b]
      \/ \E d \in Content : CreateBlueprint(b, d) \/ EditBlueprint(b, d)
      \/ DeleteBlueprint(b) \/ AddFinalizer(b) \/ Finish(b)
  <2>1. ASSUME NEW x \in Blueprint, x # b,
               \/ \E d \in Content : CreateBlueprint(x, d) \/ EditBlueprint(x, d)
               \/ DeleteBlueprint(x)
        PROVE  blueprint'[b] = blueprint[b]
    BY <1>0, <2>1 DEF CreateBlueprint, EditBlueprint, DeleteBlueprint
  <2>2. ASSUME NEW c \in Component, NEW ref \in Blueprint \cup {None},
               SetSourceRef(c, ref)
        PROVE  blueprint' = blueprint
    BY <2>2 DEF SetSourceRef
  <2>3. ASSUME NEW c \in Component, ReconcileComponent(c) \/ ComponentEvent(c)
        PROVE  blueprint' = blueprint
    BY <2>3
    DEF ReconcileComponent, LoadGet, LoadPatch, Generate, UpdateStatus, ComponentEvent
  <2>4. ASSUME NEW x \in Blueprint, ReconcileBlueprint(x)
        PROVE  blueprint'[b] = blueprint[b] \/ AddFinalizer(b) \/ Finish(b)
    BY <1>0, <2>4
    DEF ReconcileBlueprint, Get, AddFinalizer, List, CheckVersion, DeleteVersion, Finish
  <2>5. ASSUME Crash \/ \E v \in Blueprint \X Content : VersionGone(v) \/ Evict(v)
        PROVE  blueprint' = blueprint
    BY <2>5 DEF Crash, VersionGone, Evict
  <2>6. CASE UNCHANGED vars
    BY <2>6 DEF vars
  <2> QED BY <2>1, <2>2, <2>3, <2>4, <2>5, <2>6 DEF Next, User
<1> QED
  BY <1>0, <1>1, <1>2, <1>3, <1>4, <1>5, <1>6

LEMMA NextHeld ==
  TypeOK /\ AllHeld /\ [Next]_vars /\ [~LateVersion]_vars => AllHeld'
<1> SUFFICES ASSUME TypeOK, AllHeld, [Next]_vars, [~LateVersion]_vars,
                    NEW b \in Blueprint
             PROVE  Held(b)'
  BY DEF AllHeld
<1>1. CASE UNCHANGED vars
  BY <1>1 DEF vars, AllHeld, Held, Leaving
<1>2. CASE Next
  <2>1. /\ blueprint'[b].finalizer => blueprint'[b].exists
        /\ reconciler'[b].pc = "delete" => reconciler'[b].listed # {}
    BY <1>2, BlueprintLeaves, ReconcilerMoves
  <2>2. ASSUME Leaving(b)', NEW d \in Content
        PROVE  version'[<<b, d>>] = "none"
    <3>1. version[<<b, d>>] = "none"
      BY <1>2, <2>2, ReconcilerMoves DEF AllHeld, Held
    <3>2. SUFFICES ASSUME version'[<<b, d>>] # "none" PROVE FALSE
      OBVIOUS
    <3>3. PICK c \in Component :
            LoadPatch(c) /\ worker[c].ref = b /\ UNCHANGED <<blueprint, reconciler>>
      BY <1>2, <3>1, <3>2, VersionsAppear
    <3>4. ~UNCHANGED vars
      BY <3>1, <3>2 DEF vars
    <3> QED BY <2>2, <3>3, <3>4 DEF LateVersion, Leaving
  <2> QED BY <2>1, <2>2 DEF Held
<1> QED BY <1>1, <1>2

(* A blueprint does not go while a version refers to it, unless a          *)
(* reconcile of a component that had read the blueprint writes the version *)
(* late, between the list of the blueprint's reconciler and its update:    *)
(* this is the only way to break what the event DeletionBlocked says.      *)
THEOREM OnlyLateVersionsOrphaned ==
  Spec /\ [][~LateVersion]_vars => DeletionBlocked
<1>1. Init => TypeOK /\ AllHeld
  BY InitType, InitHeld
<1>2. TypeOK /\ AllHeld /\ [Next]_vars /\ [~LateVersion]_vars =>
        (TypeOK /\ AllHeld)'
  BY NextType, NextHeld
<1> DEFINE Blocked ==
      \A b \in Blueprint :
        blueprint[b].finalizer /\ ~blueprint'[b].exists =>
          \A d \in Content : version[<<b, d>>] = "none"
<1>3. TypeOK /\ AllHeld /\ [Next]_vars => [Blocked]_vars
  BY BlueprintLeaves DEF AllHeld, Held
<1> QED BY <1>1, <1>2, <1>3, PTL DEF Spec, DeletionBlocked
-----------------------------------------------------------------------------

(* The reconciler of a blueprint asks the cache which versions are in use  *)
(* ("rule out caching race conditions" is a TODO of the code). A component *)
(* uses a version when its spec and its persisted status name it.          *)
Uses(c, b, d) == component[c].ref = b /\ component[c].digest = d

(* The first race: the reconciler looks at a version that is used by a     *)
(* component of which the cache is out of date.                            *)
BlindCheck ==
  \E b \in Blueprint, d \in Content, c \in Component :
    CheckVersion(b, d) /\ Uses(c, b, d) /\ cache[c] # component[c]

(* The second: a component begins to use a version between the look and    *)
(* the deletion.                                                           *)
LateUse ==
  \E b \in Blueprint, c \in Component :
    /\ reconciler[b].pc = "delete"
    /\ ~Uses(c, b, reconciler[b].current)
    /\ component'[c].ref = b
    /\ component'[c].digest = reconciler[b].current

Spared ==
  \A b \in Blueprint, c \in Component :
    reconciler[b].pc = "delete" => ~Uses(c, b, reconciler[b].current)

LEMMA InitSpared == Init => Spared
BY DEF Init, Spared, IdleReconciler

(* A live version goes, or begins to, only when the reconciler of its      *)
(* blueprint deletes it.                                                   *)
LEMMA VersionsGo ==
  ASSUME TypeOK, [Next]_vars, NEW b \in Blueprint, NEW d \in Content,
         version[<<b, d>>] = "live", version'[<<b, d>>] # "live"
  PROVE  reconciler[b].pc = "delete" /\ reconciler[b].current = d
<1> USE DEF cluster
<1>1. version' # version
  OBVIOUS
<1>2. \/ \E c \in Component : LoadPatch(c)
      \/ \E x \in Blueprint : DeleteVersion(x)
      \/ \E v \in Blueprint \X Content : VersionGone(v)
  BY <1>1, VersionSteps DEF vars
<1>3. ASSUME NEW c \in Component, LoadPatch(c)
      PROVE  FALSE
  BY <1>3 DEF LoadPatch, PatchVersion, TypeOK
<1>4. ASSUME NEW v \in Blueprint \X Content, VersionGone(v)
      PROVE  FALSE
  BY <1>4 DEF VersionGone, TypeOK
<1>5. PICK x \in Blueprint : DeleteVersion(x)
  BY <1>2, <1>3, <1>4
<1>6. x = b /\ reconciler[x].current = d
  BY <1>5 DEF DeleteVersion, TypeOK
<1> QED BY <1>5, <1>6 DEF DeleteVersion

LEMMA NextSpared ==
  TypeOK /\ Spared /\ [Next]_vars /\ [~BlindCheck /\ ~LateUse]_vars => Spared'
<1> SUFFICES ASSUME TypeOK, Spared, [Next]_vars, [~BlindCheck /\ ~LateUse]_vars,
                    NEW b \in Blueprint, NEW c \in Component,
                    reconciler'[b].pc = "delete",
                    component'[c].ref = b,
                    component'[c].digest = reconciler'[b].current
             PROVE  FALSE
  BY DEF Spared, Uses
<1>1. CASE UNCHANGED vars
  BY <1>1 DEF vars, Spared, Uses
<1>2. CASE Next /\ ~BlindCheck /\ ~LateUse
  <2>1. CASE reconciler'[b] = reconciler[b]
    BY <1>2, <2>1 DEF Spared, LateUse
  <2>2. ASSUME NEW d \in Content, CheckVersion(b, d)
        PROVE  FALSE
    <3>1. reconciler'[b].current = d /\ ~InUse(b, d)
      BY <2>2 DEF CheckVersion, TypeOK, Reconciler, IdleReconciler
    <3>2. component' = component
      BY <2>2 DEF CheckVersion, cluster
    <3>3. Uses(c, b, d)
      BY <3>1, <3>2 DEF Uses
    <3>4. cache[c] = component[c]
      BY <1>2, <2>2, <3>3 DEF BlindCheck
    <3> QED BY <3>1, <3>3, <3>4 DEF InUse, Uses
  <2>3. ~Get(b) /\ ~AddFinalizer(b) /\ ~List(b) /\ ~DeleteVersion(b)
    <3>0. reconciler \in [Blueprint -> Reconciler] /\ reconciler[b] \in Reconciler
      BY DEF TypeOK
    <3>1. ~Get(b)
      <4> DEFINE r == [IdleReconciler EXCEPT
                         !.copy = blueprint[b],
                         !.pc = IF blueprint[b].deleting \/ blueprint[b].finalizer
                                  THEN "list" ELSE "finalizer"]
      <4>1. r.pc # "delete"
        BY DEF IdleReconciler
      <4>2. Get(b) => reconciler'[b] = r
        BY <3>0 DEF Get
      <4> HIDE DEF r
      <4> QED BY <4>1, <4>2
    <3>2. ~AddFinalizer(b)
      BY <3>0 DEF AddFinalizer, IdleReconciler, Reconciler
    <3>3. ~List(b)
      <4> DEFINE found == {d \in Content : version[<<b, d>>] # "none"}
                 r == [reconciler[b] EXCEPT
                         !.pc = "check", !.listed = found, !.todo = found,
                         !.terminating = {d \in found :
                                            version[<<b, d>>] = "terminating"}]
      <4>1. r.pc = "check"
        BY <3>0 DEF Reconciler
      <4>2. List(b) => reconciler'[b] = r
        BY <3>0 DEF List
      <4> HIDE DEF r
      <4> QED BY <4>1, <4>2
    <3>4. ~DeleteVersion(b)
      <4> DEFINE r == [reconciler[b] EXCEPT !.pc = "check", !.current = None,
                                            !.deleted = TRUE]
      <4>1. r.pc = "check"
        BY <3>0 DEF Reconciler
      <4>2. DeleteVersion(b) => \/ reconciler'[b] = r
                                \/ reconciler'[b] = IdleReconciler
        BY <3>0 DEF DeleteVersion
      <4> HIDE DEF r
      <4> QED BY <4>1, <4>2 DEF IdleReconciler
    <3> QED BY <3>1, <3>2, <3>3, <3>4
  <2>4. reconciler'[b] # IdleReconciler
    BY DEF IdleReconciler
  <2> QED BY <1>2, <2>1, <2>2, <2>3, <2>4, ReconcilerSteps
<1> QED BY <1>1, <1>2

(* No version is deleted that a component uses: what the TODO of the code  *)
(* leaves open. It takes one of the two races to delete one: the cache is  *)
(* out of date for the component when the version is looked at, or the     *)
(* component begins to use it between the look and the deletion.           *)
UsedVersionsStay ==
  [][\A b \in Blueprint, d \in Content :
       version[<<b, d>>] = "live" /\ version'[<<b, d>>] # "live" =>
         \A c \in Component : ~Uses(c, b, d)]_vars

(* Whatever else happens, edits, crashes, deletions and other reconciles   *)
(* between the steps of the reconciler, only these two races make it       *)
(* delete a version in use.                                                *)
THEOREM OnlyRacesDeleteUsed ==
  Spec /\ [][~BlindCheck /\ ~LateUse]_vars => UsedVersionsStay
<1>1. Init => TypeOK /\ Spared
  BY InitType, InitSpared
<1>2. TypeOK /\ Spared /\ [Next]_vars /\ [~BlindCheck /\ ~LateUse]_vars =>
        (TypeOK /\ Spared)'
  BY NextType, NextSpared
<1> DEFINE Stay ==
      \A b \in Blueprint, d \in Content :
        version[<<b, d>>] = "live" /\ version'[<<b, d>>] # "live" =>
          \A c \in Component : ~Uses(c, b, d)
<1>3. TypeOK /\ Spared /\ [Next]_vars => [Stay]_vars
  BY VersionsGo DEF Spared
<1> QED BY <1>1, <1>2, <1>3, PTL DEF Spec, UsedVersionsStay
=============================================================================

