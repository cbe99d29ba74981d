------------------------------- MODULE Values -------------------------------
(***************************************************************************)
(* How the generator puts values and substitutions together: one layer     *)
(* after the other, secrets (valuesFrom, substituteFrom) first, inline     *)
(* ones (values, substitute) last. Values are nested maps and merged       *)
(* deeply, substitutions are flat and merged shallowly. Neither merge sees *)
(* what the other does, so a behaviour is about one of them.               *)
(*                                                                         *)
(* Nested maps are given by their paths: which there are, and what is at   *)
(* the end of each, a map again or a scalar (a string, number, list or     *)
(* null, known by the layer it comes from). What deepMerge does at a path  *)
(* is then a definition without recursion; NestedValues has the recursion  *)
(* call by call, and the run checks that both agree.                       *)
(***************************************************************************)
EXTENDS Naturals, Sequences, SequencesExt

CONSTANTS Key,        \* keys of the maps, names of the substitutions
          Depth,      \* how deep values are nested
          MaxLayers,  \* how many layers there are at most
          Layer       \* the values that can be the layer of each number

Path == UNION {[1..n -> Key] : n \in 1..Depth}

Scalar(layer) == [kind |-> "scalar", layer |-> layer]
MapNode == [kind |-> "map"]

(* What a failed type assertion leaves behind: a map, but nil. Reading     *)
(* from it is fine, writing to it panics.                                  *)
NilMap == [kind |-> "nil"]

IsMap(node) == node.kind \in {"map", "nil"}

(* Something is at p only inside of maps.                                  *)
IsTree(v, Node) ==
  /\ v \in [DOMAIN v -> Node]
  /\ DOMAIN v \subseteq Path
  /\ \A p \in DOMAIN v, q \in Path :
       IsStrictPrefix(q, p) => q \in DOMAIN v /\ v[q] = MapNode

ASSUME ValuesAssumption ==
  /\ Depth \in Nat
  /\ MaxLayers \in Nat
  /\ \A i \in 1..MaxLayers : \A v \in Layer[i] : IsTree(v, {MapNode, Scalar(i)})

VARIABLES merge,    \* "deepMerge" for values, "shallowMerge" for substitutions
          layers,   \* the layers merged so far
          merged,   \* what came out of them
          status    \* "merging", "failed", "panicked"

vars == <<merge, layers, merged, status>>

-----------------------------------------------------------------------------
(* A scalar in y has a path above p: a map there is replaced as a whole.   *)
Covered(y, p) == \E q \in DOMAIN y : IsStrictPrefix(q, p) /\ ~IsMap(y[q])

(* Mutation of Overlay: what is there stays.                               *)
OverlayKeepsScalar(v, w) ==
  IF IsMap(v) /\ ~IsMap(w) THEN NilMap ELSE v

(* Mutation of Overlay: a scalar replaces a map.                           *)
OverlayScalar(v, w) == IF IsMap(v) /\ IsMap(w) THEN v ELSE w

(* What becomes of an entry v under w. Two maps are merged by a call of    *)
(* their own; a scalar that meets a map puts the nil map of the failed     *)
(* type assertion in its place.                                            *)
Overlay(v, w) ==
  IF ~IsMap(v) THEN w ELSE IF IsMap(w) THEN v ELSE NilMap

(* Mutation of DeepMerge: the maps of y replace those of x.                *)
DeepMergeTop(x, y) ==
  [p \in {p \in DOMAIN x : <<Head(p)>> \notin DOMAIN y} \cup DOMAIN y |->
     IF p \in DOMAIN y THEN y[p] ELSE x[p]]

DeepMerge(x, y) ==
  [p \in {p \in DOMAIN x : ~Covered(y, p)} \cup DOMAIN y |->
     IF p \notin DOMAIN y THEN x[p]
     ELSE IF p \notin DOMAIN x THEN y[p]
     ELSE Overlay(x[p], y[p])]

(* y has an entry to write into the map at p.                              *)
WritesInto(y, p) == \E k \in Key : Append(p, k) \in DOMAIN y

Panics(x, y) == \E p \in DOMAIN x : x[p] = NilMap /\ WritesInto(y, p)

(* Mutation of ShallowMerge: earlier layers win.                           *)
ShallowMergeFirst(x, y) ==
  [k \in DOMAIN x \cup DOMAIN y |-> IF k \in DOMAIN x THEN x[k] ELSE y[k]]

ShallowMerge(x, y) ==
  [k \in DOMAIN x \cup DOMAIN y |-> IF k \in DOMAIN y THEN y[k] ELSE x[k]]

-----------------------------------------------------------------------------
Init ==
  /\ merge \in {"deepMerge", "shallowMerge"}
  /\ layers = <<>>
  /\ merged = <<>>
  /\ status = "merging"

MergeValues(v) ==
  /\ merge = "deepMerge"
  /\ status = "merging"
  /\ layers' = Append(layers, v)
  /\ IF Panics(merged, v)
       THEN status' = "panicked" /\ UNCHANGED merged
       ELSE merged' = DeepMerge(merged, v) /\ UNCHANGED status
  /\ UNCHANGED merge

MergeSubstitutions(v) ==
  /\ merge = "shallowMerge"
  /\ status = "merging"
  /\ layers' = Append(layers, v)
  /\ merged' = ShallowMerge(merged, v)
  /\ UNCHANGED <<merge, status>>

(* A layer of values that cannot be parsed ends the generation.            *)
Unreadable ==
  /\ merge = "deepMerge"
  /\ status = "merging"
  /\ status' = "failed"
  /\ UNCHANGED <<merge, layers, merged>>

Substitutions(layer) == UNION {[K -> {Scalar(layer)}] : K \in SUBSET Key}

Next ==
  /\ Len(layers) < MaxLayers
  /\ \/ \E v \in Layer[Len(layers) + 1] : MergeValues(v)
     \/ \E v \in Substitutions(Len(layers) + 1) : MergeSubstitutions(v)
     \/ Unreadable

Spec == Init /\ [][Next]_vars

-----------------------------------------------------------------------------
HasMap(v, p) == p \in DOMAIN v /\ IsMap(v[p])
IsLeaf(v, p) == p \in DOMAIN v /\ ~IsMap(v[p])

(* The layer says something about p: it has p, or a scalar above it.       *)
Sets(v, p) == p \in DOMAIN v \/ Covered(v, p)

LastToSet(i, p) == \A j \in (i + 1)..Len(layers) : ~Sets(layers[j], p)

(* A value that a later layer has replaced, directly or with the map it is *)
(* in, is never used: whatever the kinds of the values that meet.          *)
NothingStale ==
  merge = "deepMerge" =>
    \A p \in Path : IsLeaf(merged, p) /\ status = "merging" =>
      LET i == merged[p].layer
      IN  /\ i \in DOMAIN layers
          /\ IsLeaf(layers[i], p)
          /\ LastToSet(i, p)

(* A value that no later layer replaces is used, unless it replaced a map: *)
(* then deepMerge stores neither, but nil.                                 *)
NothingLost ==
  merge = "deepMerge" /\ status = "merging" =>
    \A p \in Path, i \in DOMAIN layers :
      IsLeaf(layers[i], p) /\ LastToSet(i, p) =>
        \/ p \in DOMAIN merged /\ merged[p] = Scalar(i)
        \/ \E j \in 1..(i - 1) : HasMap(layers[j], p)

(* The merge panics exactly if, at one path, a scalar follows a map and    *)
(* something to write into it follows the scalar: with one secret and      *)
(* inline values, or with values of one kind everywhere, it never does.    *)
PanicsOnThirdKind ==
  merge = "deepMerge" =>
    (status = "panicked" <=>
       \E p \in Path : \E i, j, k \in DOMAIN layers :
         /\ i < j /\ j < k
         /\ HasMap(layers[i], p)
         /\ IsLeaf(layers[j], p)
         /\ WritesInto(layers[k], p))

(* Substitutions of later secrets have precedence, and inline ones over    *)
(* all of them, as the documentation of postBuild says.                    *)
LaterHasPrecedence ==
  merge = "shallowMerge" =>
    \A k \in Key :
      LET from == {i \in DOMAIN layers : k \in DOMAIN layers[i]} IN
      /\ k \in DOMAIN merged <=> from # {}
      /\ \A i \in from :
           merged[k] = Scalar(i) <=> \A j \in from : j <= i
=============================================================================
