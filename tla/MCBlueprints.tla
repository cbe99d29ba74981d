---------------------------- MODULE MCBlueprints ----------------------------
(***************************************************************************)
(* Instances of Blueprints for TLC.                                        *)
(***************************************************************************)
EXTENDS Blueprints

CONSTANTS c1, b1, x, y
=============================================================================
