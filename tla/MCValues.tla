------------------------------ MODULE MCValues ------------------------------
(***************************************************************************)
(* Instances of Values for TLC: a holds a scalar or a map nested once more *)
(* or twice, b a scalar; each can be missing, each map can be empty.       *)
(***************************************************************************)
EXTENDS NestedValues

CONSTANTS a, b

(* A map with v under k.                                                   *)
Under(k, v) ==
  [p \in {<<k>>} \cup {<<k>> \o q : q \in DOMAIN v} |->
     IF p = <<k>> THEN MapNode ELSE v[Tail(p)]]

(* Nothing, a scalar, or one of the maps under k.                          *)
Entry(k, i, Maps) == {<<>>, <<k>> :> Scalar(i)} \cup {Under(k, v) : v \in Maps}

Inner(i) == {v @@ w : v \in Entry(a, i, {}), w \in Entry(b, i, {})}
Outer(i) == {v @@ w : v \in Entry(a, i, Entry(a, i, Inner(i))), w \in Entry(b, i, {})}

LayerOf == [i \in 1..MaxLayers |-> Outer(i)]
=============================================================================
