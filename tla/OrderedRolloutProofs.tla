------------------------- MODULE OrderedRolloutProofs -------------------------
(***************************************************************************)
(* Rollout implements OrderedRollout, for all constants.                   *)
(***************************************************************************)
EXTENDS RolloutProofs

(* Only c takes part in a step. *)
OthersStay(c) ==
  \A x \in Component \ {c} :
    /\ components'[x] = components[x]
    /\ pc'[x] = pc[x]
    /\ worker'[x] = worker[x]
    /\ deployed'[x] = deployed[x]
    /\ applied'[x] = applied[x]

(* The steps of OrderedRollout, told by what c shows after the step.       *)
Shows(c) == Reported(components[c])

Stutters(c) ==
  UNCHANGED <<deployed, applied>> /\ Shows(c)' = Shows(c)

Withdraws(c) ==
  UNCHANGED <<deployed, applied>> /\ Shows(c)' = None

Deploys(c, rollout) ==
  /\ rollout \in Rolled
  /\ \A d \in rollout.dependencies : Cleared(rollout, d)
  /\ deployed' = [deployed EXCEPT ![c] = rollout]
  /\ UNCHANGED applied
  /\ Shows(c)' = Shows(c)

Reports(c) ==
  /\ deployed[c] \in Rolled
  /\ Shows(c)' = deployed[c]
  /\ applied' = [applied EXCEPT ![c] = @ \cup {deployed[c]}]
  /\ UNCHANGED deployed

Removes(c) ==
  /\ Shows(c) = None
  /\ Shows(c)' = None
  /\ deployed' = [deployed EXCEPT ![c] = None]
  /\ UNCHANGED applied

LEMMA Simulates ==
  ASSUME NEW c \in Component, OthersStay(c),
         \/ Stutters(c)
         \/ Withdraws(c)
         \/ \E rollout \in Rolled : Deploys(c, rollout)
         \/ Reports(c)
         \/ Removes(c)
  PROVE  [Ordered!Next]_(Ordered!vars)
<1> DEFINE reported == [x \in Component |-> Reported(components[x])]
<1>1. reported' = [reported EXCEPT ![c] = Shows(c)']
  <2>1. \A x \in Component \ {c} : Shows(x)' = Shows(x)
    BY DEF OthersStay, Shows, Reported, IsReady, Attempt
  <2>2. reported' = [x \in Component |-> Shows(x)']
    BY DEF Shows
  <2>3. reported = [x \in Component |-> Shows(x)]
    BY DEF Shows
  <2> HIDE DEF reported
  <2> QED BY <2>1, <2>2, <2>3
<1>2. reported[c] = Shows(c)
  BY DEF Shows
<1>3. ASSUME Shows(c)' = Shows(c)
      PROVE  reported' = reported
  BY <1>1, <1>2, <1>3
<1> HIDE DEF reported
<1>4. CASE Stutters(c)
  BY <1>3, <1>4 DEF Stutters, Ordered!vars, reported
<1>5. CASE Withdraws(c)
  <2>1. Ordered!Withdraw(c)
    BY <1>1, <1>5 DEF Withdraws, Ordered!Withdraw, reported
  <2> QED BY <2>1 DEF Ordered!Next
<1>6. ASSUME NEW rollout \in Rolled, Deploys(c, rollout)
      PROVE  Ordered!Next
  <2>1. Ordered!Deploy(c, rollout)
    BY <1>3, <1>6
    DEF Deploys, Cleared, Ordered!Deploy, Ordered!Permitted, reported
  <2> QED BY <2>1 DEF Ordered!Next
<1>7. CASE Reports(c)
  <2>1. Ordered!Report(c)
    BY <1>1, <1>7 DEF Reports, Ordered!Report, reported
  <2> QED BY <2>1 DEF Ordered!Next
<1>8. CASE Removes(c)
  <2>1. Shows(c)' = Shows(c)
    BY <1>8 DEF Removes
  <2>2. Ordered!Remove(c)
    BY <1>2, <1>3, <1>8, <2>1 DEF Removes, Ordered!Remove, reported
  <2> QED BY <2>2 DEF Ordered!Next
<1> QED BY <1>4, <1>5, <1>6, <1>7, <1>8

-----------------------------------------------------------------------------
(* ReportInv step by step *)

LEMMA OthersReport ==
  ASSUME ReportInv, NEW c \in Component, OthersStay(c), ReportsDeployed(c)'
  PROVE  \A x \in Component : ReportsDeployed(x)'
<1> SUFFICES ASSUME NEW x \in Component, x # c
             PROVE  ReportsDeployed(x)'
  OBVIOUS
<1>1. ReportsDeployed(x)
  BY DEF ReportInv
<1> QED BY <1>1 DEF OthersStay, ReportsDeployed, IsReady, Attempt

LEMMA InitReport == Init => ReportInv
<1> SUFFICES ASSUME Init PROVE ReportInv
  OBVIOUS
<1>1. ASSUME NEW c \in Component
      PROVE  ReportsDeployed(c)
  <2>1. PICK spec : components = [x \in Component |->
                          IF x \in Initial THEN NewObject(spec[x], 1)
                          ELSE RemovedObject(NewObject(spec[x], 0))]
    BY DEF Init
  <2>2. ~components[c].deleting
    BY <2>1 DEF NewObject, RemovedObject
  <2>3. pc[c] = "idle"
    BY DEF Init
  <2> QED BY <2>2, <2>3 DEF ReportsDeployed
<1> QED BY <1>1, InitOrder DEF ReportInv

(* A worker that fails reports nothing.                                    *)
LEMMA FailReports ==
  ASSUME TypeOK, ReportInv, NEW c \in Component, NEW object \in Object,
         pc[c] # "idle", Fail(c, object),
         object.generation = worker[c].generation,
         object.deleting = worker[c].deleting,
         UNCHANGED <<components, applied>>
  PROVE  ReportsDeployed(c)'
<1>1. /\ pc'[c] = "finish"
      /\ worker'[c].generation = worker[c].generation
      /\ worker'[c].deleting = worker[c].deleting
      /\ ~worker'[c].status.ready
  BY DEF Fail, TypeOK, Object, ComponentStatus
<1>2. ReportsDeployed(c)
  BY DEF ReportInv
<1> QED BY <1>1, <1>2 DEF ReportsDeployed, IsReady

LEMMA RequestReports ==
  ASSUME TypeOK, ReportInv, NEW c \in Component, NEW object \in Object,
         components' = [components EXCEPT ![c] = object],
         object.generation = components[c].generation + 1,
         object.status.observedGeneration <= components[c].generation,
         object.deleting => object.exists,
         components[c].deleting => object.deleting,
         UNCHANGED <<cache, workerVars, clusterVars>>
  PROVE  /\ \A x \in Component : ReportsDeployed(x)'
         /\ [Ordered!Next]_(Ordered!vars)
<1> USE DEF workerVars, clusterVars
<1>1. /\ components'[c] = object
      /\ components[c].generation \in Nat
      /\ object.status.observedGeneration \in Nat
  BY DEF TypeOK, Object, ComponentStatus
<1>2. ~IsReady(components'[c])
  BY <1>1 DEF IsReady
<1>3. OthersStay(c)
  BY DEF OthersStay, TypeOK
<1>4. ReportsDeployed(c)'
  <2>1. ReportsDeployed(c) /\ WorkerCopy(c)
    BY DEF ReportInv, OrderInv, ComponentOrder
  <2>2. pc[c] # "idle" => worker[c].generation # object.generation
    <3>1. pc[c] # "idle" => worker[c].generation \in Nat
      BY DEF TypeOK, Object
    <3> QED BY <1>1, <2>1, <3>1 DEF WorkerCopy
  <2> QED BY <1>1, <1>2, <2>1, <2>2 DEF ReportsDeployed, IsReady, Attempt
<1>5. Withdraws(c)
  BY <1>2 DEF Withdraws, Shows, Reported, IsReady
<1> QED BY <1>3, <1>4, <1>5, OthersReport, Simulates

LEMMA UserReports ==
  ASSUME TypeOK, ReportInv, NEW c \in Component, User(c)
  PROVE  /\ \A x \in Component : ReportsDeployed(x)'
         /\ [Ordered!Next]_(Ordered!vars)
<1>1. /\ components[c] \in Object
      /\ components[c].generation \in Nat
      /\ components[c].status.observedGeneration <= components[c].generation
      /\ components[c].deleting => components[c].exists
  BY DEF TypeOK, Object, ReportInv, OrderInv, ComponentOrder, ReportsDeployed
<1> DEFINE Kept == /\ \A x \in Component : ReportsDeployed(x)'
                   /\ [Ordered!Next]_(Ordered!vars)
<1> HIDE DEF Kept
<1>2. ASSUME NEW spec \in Specs[c], Create(c, spec)
      PROVE  Kept
  <2> DEFINE object == NewObject(spec, components[c].generation + 1)
  <2>1. object \in Object
    BY <1>1, ObjectTypes, RolloutAssumption
  <2>2. /\ object.generation = components[c].generation + 1
        /\ object.status.observedGeneration <= components[c].generation
        /\ object.deleting => object.exists
        /\ components[c].deleting => object.deleting
    BY <1>1, <1>2 DEF Create, NewObject, NewStatus
  <2>3. /\ components' = [components EXCEPT ![c] = object]
        /\ UNCHANGED <<cache, workerVars, clusterVars>>
    BY <1>2 DEF Create
  <2> QED BY <2>1, <2>2, <2>3, RequestReports DEF Kept
<1>3. ASSUME NEW spec \in Specs[c], EditSpec(c, spec)
      PROVE  Kept
  <2> DEFINE object == [components[c] EXCEPT !.spec = spec, !.generation = @ + 1]
  <2>1. object \in Object
    BY <1>1, RequestTypes, RolloutAssumption
  <2>2. /\ object.generation = components[c].generation + 1
        /\ object.status.observedGeneration <= components[c].generation
        /\ object.deleting => object.exists
        /\ components[c].deleting => object.deleting
    BY <1>1 DEF Object
  <2>3. /\ components' = [components EXCEPT ![c] = object]
        /\ UNCHANGED <<cache, workerVars, clusterVars>>
    BY <1>3 DEF EditSpec, TypeOK
  <2> QED BY <2>1, <2>2, <2>3, RequestReports DEF Kept
<1>4. ASSUME DeleteComponent(c)
      PROVE  Kept
  <2> DEFINE object == Deleted(components[c])
  <2>1. object \in Object
    BY <1>1, DeletedType
  <2>2. /\ object.generation = components[c].generation + 1
        /\ object.status.observedGeneration <= components[c].generation
    BY <1>1 DEF Deleted, RemovedObject, NewStatus, Object
  <2>3. /\ object.deleting => object.exists
        /\ components[c].deleting => object.deleting
    BY <1>1, <1>4 DEF DeleteComponent, Deleted, RemovedObject, Object
  <2>4. /\ components' = [components EXCEPT ![c] = object]
        /\ UNCHANGED <<cache, workerVars, clusterVars>>
    BY <1>4 DEF DeleteComponent
  <2> QED BY <2>1, <2>2, <2>3, <2>4, RequestReports DEF Kept
<1> QED BY <1>2, <1>3, <1>4 DEF User, Kept

(* A worker that fails after a step that deployed and removed nothing.     *)
LEMMA FailSimulates ==
  ASSUME TypeOK, ReportInv, NEW c \in Component, NEW object \in Object,
         pc[c] # "idle", Fail(c, object),
         object.generation = worker[c].generation,
         object.deleting = worker[c].deleting,
         UNCHANGED <<components, deployed, applied>>
  PROVE  /\ \A x \in Component : ReportsDeployed(x)'
         /\ [Ordered!Next]_(Ordered!vars)
<1>1. ReportsDeployed(c)'
  BY FailReports
<1>2. OthersStay(c)
  BY DEF Fail, OthersStay, TypeOK
<1>3. Stutters(c)
  BY DEF Stutters, Shows, Reported, IsReady, Attempt
<1> QED BY <1>1, <1>2, <1>3, OthersReport, Simulates

LEMMA StartReports ==
  ASSUME TypeOK, ReportInv, NEW c \in Component, Start(c), components[c].exists
  PROVE  /\ \A x \in Component : ReportsDeployed(x)'
         /\ [Ordered!Next]_(Ordered!vars)
<1>1. /\ pc' = [pc EXCEPT ![c] = "load"]
      /\ worker' = [worker EXCEPT ![c] = components[c]]
      /\ UNCHANGED <<components, deployed, applied>>
  BY DEF Start, apiVars, clusterVars
<1>2. pc'[c] = "load" /\ worker'[c] = components[c]
  BY <1>1 DEF TypeOK
<1>3. ReportsDeployed(c)'
  BY <1>1, <1>2 DEF ReportInv, ReportsDeployed, IsReady
<1>4. OthersStay(c)
  BY <1>1 DEF OthersStay, TypeOK
<1>5. Stutters(c)
  BY <1>1 DEF Stutters, Shows, Reported, IsReady, Attempt
<1> QED BY <1>3, <1>4, <1>5, OthersReport, Simulates

LEMMA LoadFailsReports ==
  ASSUME TypeOK, ReportInv, NEW c \in Component, LoadFails(c)
  PROVE  /\ \A x \in Component : ReportsDeployed(x)'
         /\ [Ordered!Next]_(Ordered!vars)
<1>1. worker[c] \in Object /\ pc[c] # "idle"
  BY DEF LoadFails, TypeOK
<1>2. /\ Loaded(c) \in Object
      /\ Loaded(c).generation = worker[c].generation
      /\ Loaded(c).deleting = worker[c].deleting
  BY <1>1, LoadedType DEF Loaded, Object
<1>3. /\ Fail(c, worker[c]) \/ Fail(c, Loaded(c))
      /\ UNCHANGED <<components, deployed, applied>>
  BY DEF LoadFails, apiVars, clusterVars
<1>4. CASE Fail(c, worker[c])
  BY <1>1, <1>3, <1>4, FailSimulates
<1>5. CASE Fail(c, Loaded(c))
  BY <1>1, <1>2, <1>3, <1>5, FailSimulates
<1> QED BY <1>3, <1>4, <1>5

(* The finalizer is not part of what a component shows.                    *)
LEMMA LoadReports ==
  ASSUME TypeOK, ReportInv, NEW c \in Component, LoadSucceeds(c)
  PROVE  /\ \A x \in Component : ReportsDeployed(x)'
         /\ [Ordered!Next]_(Ordered!vars)
<1>1. /\ worker[c] \in Object /\ components[c] \in Object /\ pc[c] = "load"
      /\ ReportsDeployed(c)
      /\ UNCHANGED <<deployed, applied>>
  BY DEF LoadSucceeds, TypeOK, ReportInv, clusterVars
<1> DEFINE changed == /\ ~worker[c].finalizer
                      /\ components[c].generation # worker[c].generation
<1>2. CASE changed
  <2>1. /\ Fail(c, Loaded(c)) /\ UNCHANGED components
        /\ Loaded(c) \in Object
        /\ Loaded(c).generation = worker[c].generation
        /\ Loaded(c).deleting = worker[c].deleting
    BY <1>1, <1>2, LoadedType DEF LoadSucceeds, Loaded, Object
  <2> QED BY <1>1, <2>1, FailSimulates
<1>3. CASE ~changed
  <2>1. /\ worker' = [worker EXCEPT ![c] = Begun(c)]
        /\ components' = IF worker[c].finalizer THEN components
                         ELSE [components EXCEPT ![c] = Finalized(@)]
        /\ pc' = [pc EXCEPT ![c] = "check"]
    BY <1>3 DEF LoadSucceeds, Begun
  <2>2. /\ worker'[c].generation = worker[c].generation
        /\ worker'[c].deleting = worker[c].deleting
        /\ pc'[c] = "check"
    BY <1>1, <2>1, BegunType DEF TypeOK
  <2>3. /\ components'[c].exists = components[c].exists
        /\ components'[c].deleting = components[c].deleting
        /\ components'[c].generation = components[c].generation
        /\ components'[c].spec = components[c].spec
        /\ components'[c].status = components[c].status
    BY <1>1, <2>1 DEF Finalized, TypeOK, Object
  <2>4. ~worker[c].deleting
    BY DEF LoadSucceeds
  <2>5. ReportsDeployed(c)'
    BY <1>1, <2>2, <2>3, <2>4 DEF ReportsDeployed, IsReady
  <2>6. OthersStay(c)
    BY <1>1, <2>1 DEF OthersStay, TypeOK
  <2>7. Stutters(c)
    BY <1>1, <2>3 DEF Stutters, Shows, Reported, IsReady, Attempt
  <2> QED BY <2>5, <2>6, <2>7, OthersReport, Simulates
<1> QED BY <1>2, <1>3

LEMMA CheckReports ==
  ASSUME TypeOK, ReportInv, NEW c \in Component, NEW d \in Component,
         CheckDependency(c, d)
  PROVE  /\ \A x \in Component : ReportsDeployed(x)'
         /\ [Ordered!Next]_(Ordered!vars)
<1>1. /\ worker[c] \in Object /\ pc[c] = "check"
      /\ UNCHANGED <<components, deployed, applied>>
  BY DEF CheckDependency, TypeOK, apiVars, clusterVars
<1>2. CASE Fail(c, worker[c])
  BY <1>1, <1>2, FailSimulates
<1>3. CASE UNCHANGED <<pc, worker>>
  <2>1. OthersStay(c)
    BY <1>1, <1>3 DEF OthersStay
  <2>2. ReportsDeployed(c)'
    BY <1>1, <1>3 DEF ReportInv, ReportsDeployed, IsReady
  <2>3. Stutters(c)
    BY <1>1 DEF Stutters, Shows, Reported, IsReady, Attempt
  <2> QED BY <2>1, <2>2, <2>3, OthersReport, Simulates
<1> QED BY <1>2, <1>3 DEF CheckDependency

LEMMA AppliesPermitted ==
  ASSUME TypeOK, ReportInv, NEW c \in Component,
         pc[c] = "check", todo[c] = {}, UNCHANGED <<components, applied>>,
         deployed' = [deployed EXCEPT ![c] = Attempt(worker[c])]
  PROVE  \E rollout \in Rolled : Deploys(c, rollout)
<1>1. Attempt(worker[c]) \in Rolled
  BY AttemptType DEF TypeOK
<1>2. Shows(c)' = Shows(c)
  BY DEF Shows, Reported, IsReady, Attempt
<1>3. \A d \in Attempt(worker[c]).dependencies : Cleared(Attempt(worker[c]), d)
  BY ClearedWorker DEF ReportInv
<1> QED BY <1>1, <1>2, <1>3 DEF Deploys

LEMMA ApplyReadyReports ==
  ASSUME TypeOK, ReportInv, NEW c \in Component, ApplyReady(c)
  PROVE  /\ \A x \in Component : ReportsDeployed(x)'
         /\ [Ordered!Next]_(Ordered!vars)
<1>1. /\ worker[c] \in Object /\ pc[c] = "check" /\ todo[c] = {}
      /\ deployed' = [deployed EXCEPT ![c] = Attempt(worker[c])]
      /\ UNCHANGED <<components, applied>>
  BY DEF ApplyReady, TypeOK, apiVars
<1>2. worker'[c] = Completed(worker[c]) /\ pc'[c] = "finish"
  BY DEF ApplyReady, TypeOK
<1>3. /\ Completed(worker[c]).generation = worker[c].generation
      /\ Completed(worker[c]).deleting = worker[c].deleting
      /\ Completed(worker[c]).spec = worker[c].spec
      /\ Completed(worker[c]).status.lastAttempted = worker[c].status.lastAttempted
  BY <1>1 DEF Completed, PostReconcile, Object, ComponentStatus
<1>4. deployed'[c] = Attempt(worker'[c])
  BY <1>1, <1>2, <1>3 DEF Attempt, TypeOK
<1>5. ReportsDeployed(c)'
  BY <1>1, <1>2, <1>3, <1>4 DEF ReportInv, ReportsDeployed, IsReady, Attempt
<1>6. OthersStay(c)
  BY <1>1 DEF ApplyReady, OthersStay, TypeOK
<1> QED BY <1>1, <1>5, <1>6, AppliesPermitted, OthersReport, Simulates

LEMMA ApplyUnreadyReports ==
  ASSUME TypeOK, ReportInv, NEW c \in Component, ApplyUnready(c)
  PROVE  /\ \A x \in Component : ReportsDeployed(x)'
         /\ [Ordered!Next]_(Ordered!vars)
<1> DEFINE running == [worker[c] EXCEPT !.status.processing = "running"]
<1>1. /\ worker[c] \in Object /\ pc[c] = "check" /\ todo[c] = {}
      /\ UNCHANGED <<components, applied>>
  BY DEF ApplyUnready, TypeOK, apiVars
<1>2. Fail(c, worker[c]) \/ Fail(c, running)
  BY DEF ApplyUnready
<1>3. /\ running \in Object
      /\ running.generation = worker[c].generation
      /\ running.deleting = worker[c].deleting
  BY <1>1, StatusTypes DEF Object
<1>4. ReportsDeployed(c)'
  BY <1>1, <1>2, <1>3, FailReports
<1>5. \/ deployed' = [deployed EXCEPT ![c] = Attempt(worker[c])]
      \/ UNCHANGED deployed
  BY DEF ApplyUnready
<1>6. OthersStay(c)
  BY <1>1, <1>2, <1>5 DEF Fail, OthersStay, TypeOK
<1>7. Stutters(c) \/ \E rollout \in Rolled : Deploys(c, rollout)
  BY <1>1, <1>5, AppliesPermitted DEF Stutters, Shows, Reported, IsReady, Attempt
<1> QED BY <1>4, <1>6, <1>7, OthersReport, Simulates

(* The status turns ready only in the generation the worker has read, and  *)
(* with what it has deployed.                                              *)
LEMMA FinishReports ==
  ASSUME TypeOK, ReportInv, NEW c \in Component, FinishReconcile(c)
  PROVE  /\ \A x \in Component : ReportsDeployed(x)'
         /\ [Ordered!Next]_(Ordered!vars)
<1>1. /\ worker[c] \in Object /\ components[c] \in Object
      /\ pc[c] = "finish" /\ pc' = [pc EXCEPT ![c] = "idle"]
      /\ worker' = [worker EXCEPT ![c] = None]
      /\ UNCHANGED deployed
      /\ ReportsDeployed(c) /\ WorkerCopy(c)
  BY DEF FinishReconcile, TypeOK, ReportInv, OrderInv, ComponentOrder
<1>2. PICK p :
        LET status == [worker[c].status EXCEPT
                         !.observedGeneration = worker[c].generation,
                         !.processing = p]
        IN  IF components[c].exists /\ components[c].generation = worker[c].generation
              THEN /\ components' = [components EXCEPT ![c].status = status]
                   /\ applied' = IF status.ready
                        THEN [applied EXCEPT ![c] = @ \cup {Attempt(worker[c])}]
                        ELSE applied
              ELSE UNCHANGED <<components, applied>>
  BY DEF FinishReconcile
<1>3. pc'[c] = "idle"
  BY <1>1 DEF TypeOK
<1>4. CASE UNCHANGED <<components, applied>>
  <2>1. ReportsDeployed(c)'
    BY <1>1, <1>3, <1>4 DEF ReportsDeployed, IsReady
  <2>2. OthersStay(c)
    BY <1>1, <1>4 DEF OthersStay, TypeOK
  <2>3. Stutters(c)
    BY <1>1, <1>4 DEF Stutters, Shows, Reported, IsReady, Attempt
  <2> QED BY <2>1, <2>2, <2>3, OthersReport, Simulates
<1> DEFINE status == [worker[c].status EXCEPT
                        !.observedGeneration = worker[c].generation,
                        !.processing = p]
           ready == worker[c].status.ready
<1>5. /\ status.ready = ready
      /\ status.observedGeneration = worker[c].generation
      /\ status.lastAttempted = worker[c].status.lastAttempted
  BY <1>1 DEF Object, ComponentStatus
<1> HIDE DEF status
<1>6. CASE /\ components[c].exists
           /\ components[c].generation = worker[c].generation
           /\ components' = [components EXCEPT ![c].status = status]
           /\ applied' = IF ready
                THEN [applied EXCEPT ![c] = @ \cup {Attempt(worker[c])}]
                ELSE applied
  <2>1. /\ components'[c].status = status
        /\ components'[c].exists
        /\ components'[c].generation = worker[c].generation
        /\ components'[c].deleting = worker[c].deleting
        /\ components'[c].spec = worker[c].spec
    BY <1>1, <1>6 DEF ReportsDeployed, WorkerCopy, TypeOK, Object
  <2>2. IsReady(components'[c]) <=> ready
    BY <1>5, <2>1 DEF IsReady
  <2>3. ready => deployed[c] = Attempt(worker[c]) /\ ~worker[c].deleting
    BY <1>1 DEF ReportsDeployed
  <2>4. ReportsDeployed(c)'
    BY <1>3, <2>1, <2>2, <2>3 DEF ReportsDeployed, IsReady
  <2>5. OthersStay(c)
    BY <1>1, <1>6 DEF OthersStay, TypeOK
  <2>6. CASE ready
    <3>1. Attempt(components'[c]) = Attempt(worker[c])
      BY <1>5, <2>1 DEF Attempt
    <3>2. Shows(c)' = deployed[c]
      BY <2>2, <2>3, <2>6, <3>1 DEF Shows, Reported, IsReady, Attempt
    <3>3. deployed[c] \in Rolled
      BY <1>1, <2>3, <2>6, AttemptType
    <3>4. Reports(c)
      BY <1>1, <1>6, <2>3, <2>6, <3>2, <3>3 DEF Reports
    <3> QED BY <2>4, <2>5, <3>4, OthersReport, Simulates
  <2>7. CASE ~ready
    <3>1. Withdraws(c)
      BY <1>1, <1>6, <2>2, <2>7 DEF Withdraws, Shows, Reported, IsReady
    <3> QED BY <2>4, <2>5, <3>1, OthersReport, Simulates
  <2> QED BY <2>6, <2>7
<1> QED BY <1>2, <1>4, <1>5, <1>6 DEF status

LEMMA PreDeleteReports ==
  ASSUME TypeOK, ReportInv, NEW c \in Component, PreDelete(c)
  PROVE  /\ \A x \in Component : ReportsDeployed(x)'
         /\ [Ordered!Next]_(Ordered!vars)
<1>1. /\ worker[c] \in Object /\ pc[c] = "load" /\ worker[c].deleting
      /\ UNCHANGED <<components, deployed, applied>>
  BY DEF PreDelete, TypeOK, apiVars, clusterVars
<1>2. CASE Fail(c, worker[c])
  BY <1>1, <1>2, FailSimulates
<1>3. CASE pc' = [pc EXCEPT ![c] = "delete"] /\ UNCHANGED worker
  <2>1. pc'[c] = "delete"
    BY <1>3 DEF TypeOK
  <2>2. ReportsDeployed(c)'
    BY <1>1, <1>3, <2>1 DEF ReportInv, ReportsDeployed, IsReady
  <2>3. OthersStay(c)
    BY <1>1, <1>3 DEF OthersStay, TypeOK
  <2>4. Stutters(c)
    BY <1>1 DEF Stutters, Shows, Reported, IsReady, Attempt
  <2> QED BY <2>2, <2>3, <2>4, OthersReport, Simulates
<1> QED BY <1>2, <1>3 DEF PreDelete

(* The worker tears down a component that is being deleted, which shows    *)
(* nothing any more.                                                       *)
LEMMA TeardownReports ==
  ASSUME TypeOK, ReportInv, NEW c \in Component, TeardownDone(c)
  PROVE  /\ \A x \in Component : ReportsDeployed(x)'
         /\ [Ordered!Next]_(Ordered!vars)
<1>1. /\ worker[c] \in Object /\ components[c] \in Object /\ pc[c] = "delete"
      /\ deployed' = [deployed EXCEPT ![c] = None]
      /\ UNCHANGED applied
      /\ ReportsDeployed(c)
  BY DEF TeardownDone, TypeOK, ReportInv
<1>2. Shows(c) = None
  BY <1>1 DEF ReportsDeployed, Shows, Reported
<1>3. CASE Fail(c, worker[c]) /\ UNCHANGED components
  <2>1. ReportsDeployed(c)'
    BY <1>1, <1>3, FailReports
  <2>2. OthersStay(c)
    BY <1>1, <1>3 DEF Fail, OthersStay, TypeOK
  <2>3. Shows(c)' = Shows(c)
    BY <1>3 DEF Shows, Reported, IsReady, Attempt
  <2>4. Removes(c)
    BY <1>1, <1>2, <2>3 DEF Removes
  <2> QED BY <2>1, <2>2, <2>4, OthersReport, Simulates
<1>4. CASE /\ components' = [components EXCEPT ![c] = RemovedObject(@)]
           /\ pc' = [pc EXCEPT ![c] = "idle"]
           /\ worker' = [worker EXCEPT ![c] = None]
  <2>1. /\ ~components'[c].exists
        /\ ~components'[c].deleting
        /\ pc'[c] = "idle"
    BY <1>1, <1>4 DEF RemovedObject, Object, TypeOK
  <2>2. ReportsDeployed(c)'
    BY <2>1 DEF ReportsDeployed
  <2>3. OthersStay(c)
    BY <1>1, <1>4 DEF OthersStay, TypeOK
  <2>4. Shows(c)' = None
    BY <2>1 DEF Shows, Reported, IsReady
  <2>5. Removes(c)
    BY <1>1, <1>2, <2>4 DEF Removes
  <2> QED BY <2>2, <2>3, <2>5, OthersReport, Simulates
<1> QED BY <1>3, <1>4 DEF TeardownDone

LEMMA TeardownContinuesReports ==
  ASSUME TypeOK, ReportInv, NEW c \in Component, TeardownContinues(c)
  PROVE  /\ \A x \in Component : ReportsDeployed(x)'
         /\ [Ordered!Next]_(Ordered!vars)
<1>1. /\ worker[c] \in Object /\ pc[c] # "idle"
      /\ Fail(c, worker[c]) /\ UNCHANGED <<components, deployed, applied>>
  BY DEF TeardownContinues, TypeOK, apiVars, clusterVars
<1> QED BY <1>1, FailSimulates

-----------------------------------------------------------------------------

(* Steps that neither the cluster nor any worker takes part in.            *)
LEMMA NothingShown ==
  ASSUME ReportInv, UNCHANGED <<components, deployed, applied>>,
         \/ UNCHANGED <<pc, worker>>
         \/ \A x \in Component : pc'[x] = "idle"
  PROVE  /\ \A x \in Component : ReportsDeployed(x)'
         /\ [Ordered!Next]_(Ordered!vars)
<1>1. ASSUME NEW x \in Component
      PROVE  ReportsDeployed(x)'
  <2>1. ReportsDeployed(x)
    BY DEF ReportInv
  <2> QED BY <2>1 DEF ReportsDeployed, IsReady, Attempt
<1>2. UNCHANGED (Ordered!vars)
  BY DEF Ordered!vars, Reported, IsReady, Attempt
<1> QED BY <1>1, <1>2

(* Every step of the controller keeps ReportInv and is a step of           *)
(* OrderedRollout, or changes nothing it shows.                            *)
LEMMA NextRefines ==
  TypeOK /\ ReportInv /\ [Next]_vars => ReportInv' /\ [Ordered!Next]_(Ordered!vars)
<1> SUFFICES ASSUME TypeOK, ReportInv, [Next]_vars
             PROVE  /\ \A x \in Component : ReportsDeployed(x)'
                    /\ [Ordered!Next]_(Ordered!vars)
  BY NextOrder DEF ReportInv
<1> DEFINE Kept == /\ \A x \in Component : ReportsDeployed(x)'
                   /\ [Ordered!Next]_(Ordered!vars)
<1> HIDE DEF Kept
<1> SUFFICES Kept
  BY DEF Kept
<1> USE DEF apiVars, sourceVars, queueVars, workerVars, clusterVars
<1>1. ASSUME NEW c \in Component, User(c)
      PROVE  Kept
  BY <1>1, UserReports DEF Kept
<1>2. ASSUME NEW c \in Component, Start(c)
      PROVE  Kept
  <2>1. CASE components[c].exists
    BY <1>2, <2>1, StartReports DEF Kept
  <2>2. CASE ~components[c].exists
    BY <1>2, <2>2, NothingShown DEF Start, Kept
  <2> QED BY <2>1, <2>2
<1>3. ASSUME NEW c \in Component, Reconcile(c)
      PROVE  Kept
  BY <1>2, <1>3, LoadFailsReports, LoadReports, CheckReports, ApplyReadyReports,
     ApplyUnreadyReports, FinishReports, PreDeleteReports, TeardownReports,
     TeardownContinuesReports
  DEF Reconcile, Kept
<1>4. ASSUME NEW c \in Component,
             ComponentEvent(c) \/ CheckHttpRepository(c) \/ TimerFires(c)
      PROVE  Kept
  BY <1>4, NothingShown DEF ComponentEvent, CheckHttpRepository, TimerFires, Kept
<1>5. ASSUME NEW s \in Source,
             \/ \E a \in Artifact \cup {NoArtifact} : SourceChange(s, a)
             \/ SourceEvent(s)
      PROVE  Kept
  BY <1>5, NothingShown DEF SourceChange, SourceEvent, Kept
<1>6. ASSUME Crash
      PROVE  Kept
  BY <1>6, NothingShown DEF Crash, Kept
<1>7. ASSUME UNCHANGED vars
      PROVE  Kept
  BY <1>7, NothingShown DEF vars, Kept
<1> QED BY <1>1, <1>3, <1>4, <1>5, <1>6, <1>7 DEF Next

(* The component controller implements OrderedRollout: with lagging reads, *)
(* refused writes, edits, deletions and crashes, what the cluster shows    *)
(* changes only as OrderedRollout allows, dependencies first.              *)
THEOREM RolloutImplementsOrdered == Spec => ImplementsOrderedRollout
<1>1. Init => TypeOK /\ ReportInv
  BY InitType, InitReport
<1>2. TypeOK /\ ReportInv /\ [Next]_vars => TypeOK' /\ ReportInv'
  BY NextType, NextRefines
<1>3. Init => Ordered!Init
  <2> SUFFICES ASSUME Init PROVE Ordered!Init
    OBVIOUS
  <2>1. PICK spec : components = [x \in Component |->
                          IF x \in Initial THEN NewObject(spec[x], 1)
                          ELSE RemovedObject(NewObject(spec[x], 0))]
    BY DEF Init
  <2>2. \A x \in Component : ~components[x].status.ready
    BY <2>1 DEF NewObject, RemovedObject, NewStatus
  <2>3. \A x \in Component : Reported(components[x]) = None
    BY <2>2 DEF Reported, IsReady
  <2> QED BY <2>3 DEF Init, Ordered!Init
<1>4. TypeOK /\ ReportInv /\ [Next]_vars => [Ordered!Next]_(Ordered!vars)
  BY NextRefines
<1> QED
  BY <1>1, <1>2, <1>3, <1>4, PTL DEF Spec, ImplementsOrderedRollout, Ordered!Spec
=============================================================================
