------------------------- MODULE MCGeneratorFactory -------------------------
(***************************************************************************)
(* Instances of GeneratorFactory for TLC. One repository redirects, over a *)
(* hop, to an archive per content: the hop tells the digest of x itself,   *)
(* that of y is told by its archive. Content y is encrypted and contains   *)
(* the markers of two formats. Another repository serves its contents      *)
(* itself.                                                                 *)
(***************************************************************************)
EXTENDS GeneratorFactory

CONSTANTS app, lib, x, y, repository, hop, archiveX, archiveY, yaml, ini,
          key, note, deploy

Redirecting == [content \in Content |-> IF content = x THEN archiveX ELSE archiveY]
Serving == [content \in Content |-> repository]

OverHop ==
  [url \in Url |-> [content \in Content |->
     IF url = repository THEN hop ELSE IF url = hop THEN Redirecting[content] ELSE None]]
Nowhere == [url \in Url |-> [content \in Content |-> None]]

HopTells == {<<hop, x>>, <<archiveX, x>>, <<archiveY, y>>}
RepositoryTells == {repository} \X Content

InYaml == [content \in Content |-> yaml]
ForKey == [content \in Content |-> IF content = x THEN {} ELSE {key}]
TwoMarkers == [content \in Content |-> IF content = x THEN {} ELSE {yaml, ini}]
Deployments == [content \in Content |-> {deploy}]

Encrypted == [path |-> deploy, provider |-> "sops", keys |-> {key, note}]
Unset == [path |-> deploy, provider |-> "other", keys |-> {}]
BothSettings == {Encrypted, Unset}
AppMoves ==
  [c \in Component |-> IF c = app THEN {Encrypted, Unset} ELSE {Encrypted}]
Stays == [c \in Component |-> {Unset}]
=============================================================================
