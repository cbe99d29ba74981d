---------------------------- MODULE MCInformers ----------------------------
(***************************************************************************)
(* An instance of Informers for TLC: two goroutines of the program, one of *)
(* which only waits and shuts down, two types, a handler that uses the     *)
(* factory too, and two contexts.                                          *)
(***************************************************************************)
EXTENDS Informers

CONSTANTS main, other, component, blueprint, ctx1, ctx2

Calls == [a \in Caller |-> IF a = main THEN Op ELSE {"Shutdown", "WaitForCacheSync"}]
=============================================================================
