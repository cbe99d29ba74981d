---------------------------- MODULE OrderedRollout ----------------------------
(***************************************************************************)
(* What the component controller promises to those who watch the cluster:  *)
(* dependencies first. It knows nothing of workers, queues, caches or      *)
(* retries: a component is deployed, or shows in its status that it is     *)
(* ready, and a dependency, once ready with an artifact, has cleared the   *)
(* way for the components that build on it.                                *)
(***************************************************************************)

CONSTANTS
  Component,
  Rollout,  \* what can be deployed: records with sourceRef, artifact and dependencies
  None

VARIABLES
  deployed,  \* the rollout the objects of a component were generated from, or None
  reported,  \* the rollout a component shows itself ready with, or None
  cleared    \* all the rollouts a component has ever been ready with

vars == <<deployed, reported, cleared>>

Init ==
  /\ deployed = [c \in Component |-> None]
  /\ reported = [c \in Component |-> None]
  /\ cleared = [c \in Component |-> {}]

(* Every dependency has been ready, and with the same artifact where it    *)
(* comes from the same source.                                             *)
Permitted(rollout) ==
  \A d \in rollout.dependencies :
    \E p \in cleared[d] :
      p.sourceRef = rollout.sourceRef => p.artifact = rollout.artifact

Deploy(c, rollout) ==
  /\ Permitted(rollout)
  /\ deployed' = [deployed EXCEPT ![c] = rollout]
  /\ UNCHANGED <<reported, cleared>>

(* A component becomes ready with nothing but what it is deployed from.    *)
Report(c) ==
  /\ deployed[c] \in Rollout
  /\ reported' = [reported EXCEPT ![c] = deployed[c]]
  /\ cleared' = [cleared EXCEPT ![c] = @ \cup {deployed[c]}]
  /\ UNCHANGED deployed

(* An edit, a failure or a deletion.                                       *)
Withdraw(c) ==
  /\ reported' = [reported EXCEPT ![c] = None]
  /\ UNCHANGED <<deployed, cleared>>

(* Nothing is taken away from under a component that says it is ready.     *)
Remove(c) ==
  /\ reported[c] = None
  /\ deployed' = [deployed EXCEPT ![c] = None]
  /\ UNCHANGED <<reported, cleared>>

Next ==
  \E c \in Component :
    \/ \E rollout \in Rollout : Deploy(c, rollout)
    \/ Report(c)
    \/ Withdraw(c)
    \/ Remove(c)

Spec == Init /\ [][Next]_vars
=============================================================================
