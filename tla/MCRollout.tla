------------------------------ MODULE MCRollout ------------------------------
(***************************************************************************)
(* Instances of Rollout for TLC. `lib' is a library component, `app'       *)
(* builds on it; `git' is a flux source, `tgz' an http repository;         *)
(* `qualified' is a reference that names the namespace of git.             *)
(***************************************************************************)
EXTENDS RolloutProperties

CONSTANTS app, lib, git, tgz, qualified, d1, d2, r1

(* References name their source; all references mean the same source.      *)
AsWritten == [c \in Component |-> [ref \in Reference |-> ref]]
AllGit == [c \in Component |-> [ref \in Reference |-> git]]

NoChoice(sourceRef, dependencies) ==
  [sourceRef |-> sourceRef, digest |-> None, revision |-> None,
   sticky |-> FALSE, dependencies |-> dependencies]

Sticky(spec) == [spec EXCEPT !.sticky = TRUE]
Pinned(spec, digest) == [spec EXCEPT !.digest = digest]

AllFlux == [s \in Source |-> "flux"]
GitAndTgz == [s \in Source |-> IF s = tgz THEN "http" ELSE "flux"]

(* app builds on lib or not; lib can move to another source. *)
EditableSpecs ==
  [c \in Component |->
     IF c = lib THEN {NoChoice(ref, {}) : ref \in Reference}
     ELSE {NoChoice(git, {lib}), NoChoice(git, {})}]

(* app alone, sticky, pinned or not. *)
StickySpecs ==
  [c \in Component |-> {Sticky(NoChoice(git, {})),
                        Sticky(Pinned(NoChoice(git, {}), d1))}]

PairSpecs ==
  [c \in Component |-> {NoChoice(git, IF c = lib THEN {} ELSE {lib})}]

(* app builds on lib; both write their references as they like.            *)
AnyReferenceSpecs ==
  [c \in Component |->
     {NoChoice(ref, IF c = lib THEN {} ELSE {lib}) : ref \in Reference}]

(* app builds on lib, and lib on nothing or, in a cycle, on app.           *)
LoopSpecs ==
  [c \in Component |-> IF c = lib THEN {NoChoice(git, {}), NoChoice(git, {app})}
                       ELSE {NoChoice(git, {lib})}]
=============================================================================
