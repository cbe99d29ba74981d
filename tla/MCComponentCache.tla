-------------------------- MODULE MCComponentCache --------------------------
(***************************************************************************)
(* An instance of ComponentCache for TLC: app in namespace a moves between *)
(* sources of all kinds, in its own and in the other namespace; lib in     *)
(* namespace b refers to sources of the same name and depends on app.      *)
(***************************************************************************)
EXTENDS ComponentCache

CONSTANTS a, b, app, lib, source, url, x, y

Components == {<<a, app>>, <<b, lib>>}

AppSources ==
  (ObjectKind \X {<<Unset, source>>, <<b, source>>}) \cup {<<"HttpRepository", url>>}

SpecsOf ==
  [c \in Component |->
     IF c = <<a, app>>
       THEN [sourceRef : AppSources, dependencies : {{<<Unset, lib>>, <<b, lib>>}}]
       ELSE [sourceRef : {<<"Blueprint", <<Unset, source>>>>},
             dependencies : {{}, {<<a, app>>}}]]
=============================================================================
