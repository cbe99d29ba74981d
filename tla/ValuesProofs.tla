---------------------------- MODULE ValuesProofs ----------------------------
(***************************************************************************)
(* What the merges of values and substitutions keep, lose and when the     *)
(* merge of values panics, for any keys, depth and layers.                 *)
(***************************************************************************)
EXTENDS Values, TLAPS

(* Paths are not empty, and their elements are keys.                       *)
LEMMA PathType ==
  ASSUME NEW p \in Path
  PROVE  /\ p \in Seq(Key)
         /\ Len(p) \in 1..Depth
         /\ DOMAIN p = 1..Len(p)
         /\ \A n \in 1..Len(p) : p[n] \in Key
<1>1. PICK n \in 1..Depth : p \in [1..n -> Key]
  BY DEF Path
<1>2. Depth \in Nat
  BY ValuesAssumption
<1>. QED BY <1>1, <1>2

LEMMA PathIntro ==
  ASSUME NEW p \in Seq(Key), Len(p) \in 1..Depth
  PROVE  p \in Path
<1>. p \in [1..Len(p) -> Key]
  OBVIOUS
<1>. QED BY DEF Path

(* What it means for one path to be above another.                         *)
LEMMA Above ==
  ASSUME NEW p \in Path, NEW q \in Path
  PROVE  IsStrictPrefix(q, p) <=>
           Len(q) < Len(p) /\ \A n \in 1..Len(q) : q[n] = p[n]
<1>1. /\ p \in Seq(Key) /\ q \in Seq(Key)
      /\ Len(p) \in Nat \ {0} /\ Len(q) \in Nat \ {0}
  BY PathType, ValuesAssumption
<1>2. SubSeq(q, 1, Len(q)) = q
  BY <1>1
<1>3. ASSUME Len(q) <= Len(p)
      PROVE  SubSeq(p, 1, Len(q)) = q <=> \A n \in 1..Len(q) : q[n] = p[n]
  BY <1>1, <1>3
<1>4. ASSUME Len(q) = Len(p), \A n \in 1..Len(q) : q[n] = p[n]
      PROVE  q = p
  BY <1>1, <1>4
<1>. QED BY <1>1, <1>2, <1>3, <1>4 DEF IsStrictPrefix, IsPrefix

LEMMA AboveTransitive ==
  ASSUME NEW p \in Path, NEW q \in Path, NEW r \in Path,
         IsStrictPrefix(r, q), IsStrictPrefix(q, p)
  PROVE  IsStrictPrefix(r, p)
BY Above, PathType

(* Below a path is an entry of its map.                                    *)
LEMMA ChildBelow ==
  ASSUME NEW p \in Path, NEW q \in Path, IsStrictPrefix(q, p)
  PROVE  \E k \in Key : /\ Append(q, k) \in Path
                        /\ Append(q, k) = p \/ IsStrictPrefix(Append(q, k), p)
<1>1. /\ p \in Seq(Key) /\ q \in Seq(Key)
      /\ Len(p) \in 1..Depth /\ Len(q) \in 1..Depth /\ Depth \in Nat
      /\ \A n \in 1..Len(p) : p[n] \in Key
  BY PathType, ValuesAssumption
<1>2. Len(q) < Len(p) /\ \A n \in 1..Len(q) : q[n] = p[n]
  BY Above
<1>. DEFINE k == p[Len(q) + 1]
            c == Append(q, k)
<1>3. k \in Key
  BY <1>1, <1>2
<1>4. /\ c \in Seq(Key) /\ Len(c) = Len(q) + 1
      /\ \A n \in 1..Len(q) : c[n] = q[n]
      /\ c[Len(q) + 1] = k
  BY <1>1, <1>3
<1>5. c \in Path
  <2>1. Len(c) \in 1..Depth
    BY <1>1, <1>2, <1>4
  <2>. HIDE DEF c
  <2>. QED BY <1>4, <2>1, PathIntro
<1>6. \A n \in 1..Len(c) : c[n] = p[n]
  BY <1>1, <1>2, <1>4
<1>7. CASE Len(c) = Len(p)
  BY <1>1, <1>3, <1>4, <1>5, <1>6, <1>7
<1>8. CASE Len(c) < Len(p)
  <2>. IsStrictPrefix(c, p)
    BY <1>5, <1>6, <1>8, Above
  <2>. QED BY <1>3, <1>5
<1>. QED BY <1>1, <1>2, <1>4, <1>7, <1>8

-----------------------------------------------------------------------------
(* What is merged are trees over scalars of the layers so far.             *)
Node(n) == {MapNode, NilMap} \cup {Scalar(i) : i \in 1..n}

LEMMA Kinds ==
  /\ IsMap(MapNode) /\ IsMap(NilMap) /\ MapNode # NilMap
  /\ \A i : ~IsMap(Scalar(i)) /\ Scalar(i).layer = i
  /\ \A i : Scalar(i) # MapNode /\ Scalar(i) # NilMap
  /\ \A n, v : v \in Node(n) /\ IsMap(v) => v \in {MapNode, NilMap}
BY DEF IsMap, MapNode, NilMap, Scalar, Node

(* The cases of a merge.                                                   *)
LEMMA MergeAt ==
  ASSUME NEW x, NEW y, NEW p
  PROVE  /\ p \in DOMAIN DeepMerge(x, y) <=>
              p \in DOMAIN y \/ (p \in DOMAIN x /\ ~Covered(y, p))
         /\ p \in DOMAIN y /\ p \notin DOMAIN x => DeepMerge(x, y)[p] = y[p]
         /\ p \in DOMAIN y /\ p \in DOMAIN x =>
              DeepMerge(x, y)[p] = Overlay(x[p], y[p])
         /\ p \notin DOMAIN y /\ p \in DOMAIN DeepMerge(x, y) =>
              DeepMerge(x, y)[p] = x[p]
BY DEF DeepMerge

(* A layer that has a path writes into the maps above it.                  *)
LEMMA WritesAbove ==
  ASSUME NEW y, NEW N, IsTree(y, N), NEW p \in DOMAIN y, NEW q \in Path,
         IsStrictPrefix(q, p)
  PROVE  WritesInto(y, q)
<1>1. p \in Path
  BY DEF IsTree
<1>2. PICK k \in Key : /\ Append(q, k) \in Path
                       /\ Append(q, k) = p \/ IsStrictPrefix(Append(q, k), p)
  BY <1>1, ChildBelow
<1>3. Append(q, k) \in DOMAIN y
  BY <1>2 DEF IsTree
<1>. QED BY <1>3 DEF WritesInto

(* Values and a layer that can be merged without a panic.                  *)
Mergeable(x, y, n) ==
  /\ n \in Nat
  /\ IsTree(x, Node(n))
  /\ IsTree(y, {MapNode, Scalar(n + 1)})
  /\ ~Panics(x, y)

LEMMA MergedTree ==
  ASSUME NEW x, NEW y, NEW n, Mergeable(x, y, n)
  PROVE  IsTree(DeepMerge(x, y), Node(n + 1))
<1>. DEFINE z == DeepMerge(x, y)
<1>1. z \in [DOMAIN z -> Node(n + 1)]
  <2>1. z = [p \in DOMAIN z |-> z[p]]
    BY DEF DeepMerge
  <2>2. ASSUME NEW p \in DOMAIN z
        PROVE  z[p] \in Node(n + 1)
    <3>1. p \in DOMAIN y => y[p] \in Node(n + 1)
      BY DEF Mergeable, IsTree, Node
    <3>2. p \in DOMAIN x => x[p] \in Node(n + 1)
      BY DEF Mergeable, IsTree, Node
    <3>3. NilMap \in Node(n + 1)
      BY DEF Node
    <3>. QED BY <3>1, <3>2, <3>3, MergeAt DEF Overlay
  <2>. HIDE DEF z
  <2>. QED BY <2>1, <2>2
<1>2. DOMAIN z \subseteq Path
  BY MergeAt DEF Mergeable, IsTree
<1>3. ASSUME NEW p \in DOMAIN z, NEW q \in Path, IsStrictPrefix(q, p)
      PROVE  q \in DOMAIN z /\ z[q] = MapNode
  <2>1. CASE p \in DOMAIN y
    <3>1. q \in DOMAIN y /\ y[q] = MapNode
      BY <1>3, <2>1 DEF Mergeable, IsTree
    <3>2. q \in DOMAIN x => x[q] # NilMap
      BY <1>3, <2>1, WritesAbove DEF Mergeable, Panics
    <3>3. q \in DOMAIN x => Overlay(x[q], y[q]) = MapNode
      <4>. q \in DOMAIN x => x[q] \in Node(n)
        BY DEF Mergeable, IsTree
      <4>. QED BY <3>1, <3>2, Kinds DEF Overlay
    <3>. QED BY <3>1, <3>3, MergeAt
  <2>2. CASE p \notin DOMAIN y
    <3>1. p \in DOMAIN x /\ ~Covered(y, p)
      BY <2>2, MergeAt
    <3>2. q \in DOMAIN x /\ x[q] = MapNode
      BY <1>3, <3>1 DEF Mergeable, IsTree
    <3>3. ~Covered(y, q)
      <4>1. \A r \in DOMAIN y : IsStrictPrefix(r, q) => IsStrictPrefix(r, p)
        BY <1>2, <1>3, AboveTransitive DEF Mergeable, IsTree
      <4>. QED BY <3>1, <4>1 DEF Covered
    <3>4. q \in DOMAIN y => Overlay(x[q], y[q]) = MapNode
      BY <1>3, <3>1, <3>2, Kinds DEF Covered, Overlay
    <3>. QED BY <3>2, <3>3, <3>4, MergeAt
  <2>. QED BY <2>1, <2>2
<1>. QED BY <1>1, <1>2, <1>3 DEF IsTree

(* Where there is a map, there is a map or nil ever after, or nil above.   *)
NilAt(v, p) == p \in DOMAIN v /\ v[p] = NilMap
NilAbove(v, p) == \E q \in DOMAIN v : IsStrictPrefix(q, p) /\ v[q] = NilMap

LEMMA MapsKept ==
  ASSUME NEW x, NEW y, NEW n, Mergeable(x, y, n),
         NEW p \in DOMAIN x, IsMap(x[p])
  PROVE  \/ HasMap(DeepMerge(x, y), p) /\ (x[p] = NilMap => NilAt(DeepMerge(x, y), p))
         \/ NilAbove(DeepMerge(x, y), p)
<1>1. CASE Covered(y, p)
  <2>1. PICK q \in DOMAIN y : IsStrictPrefix(q, p) /\ ~IsMap(y[q])
    BY <1>1 DEF Covered
  <2>2. q \in DOMAIN x /\ x[q] = MapNode
    BY <2>1 DEF Mergeable, IsTree
  <2>3. DeepMerge(x, y)[q] = NilMap
    BY <2>1, <2>2, MergeAt, Kinds DEF Overlay
  <2>. QED BY <2>1, <2>3, MergeAt DEF NilAbove
<1>2. CASE ~Covered(y, p)
  <2>1. p \in DOMAIN DeepMerge(x, y)
    BY <1>2, MergeAt
  <2>2. CASE p \notin DOMAIN y
    BY <2>1, <2>2, MergeAt DEF HasMap, NilAt
  <2>3. CASE p \in DOMAIN y
    BY <2>1, <2>3, MergeAt, Kinds DEF HasMap, NilAt, Overlay
  <2>. QED BY <2>2, <2>3
<1>. QED BY <1>1, <1>2

-----------------------------------------------------------------------------
LEMMA NilsKept ==
  ASSUME NEW x, NEW y, NEW n, Mergeable(x, y, n), NEW p \in Path
  PROVE  /\ NilAbove(x, p) => NilAbove(DeepMerge(x, y), p)
         /\ NilAt(x, p) => NilAt(DeepMerge(x, y), p) \/ NilAbove(DeepMerge(x, y), p)
<1>. DEFINE z == DeepMerge(x, y)
<1>1. ASSUME NEW q \in DOMAIN x, x[q] = NilMap
      PROVE  NilAt(z, q) \/ NilAbove(z, q)
  BY <1>1, MapsKept, Kinds
<1>2. ASSUME NilAbove(x, p)
      PROVE  NilAbove(z, p)
  <2>1. PICK q \in DOMAIN x : IsStrictPrefix(q, p) /\ x[q] = NilMap
    BY <1>2 DEF NilAbove
  <2>2. NilAt(z, q) \/ NilAbove(z, q)
    BY <1>1, <2>1
  <2>3. q \in Path /\ DOMAIN z \subseteq Path
    BY MergedTree DEF Mergeable, IsTree
  <2>. HIDE DEF z
  <2>. QED BY <2>1, <2>2, <2>3, AboveTransitive DEF NilAbove, NilAt
<1>. QED BY <1>1, <1>2 DEF NilAt

(* The layers so far and what they make: a tree, unless the merge has      *)
(* panicked. Its maps are maps of layers; nil is where a scalar of a later *)
(* layer met a map, and remains there or moves up.                         *)
AnyLayer == UNION {Layer[i] \cup Substitutions(i) : i \in 1..MaxLayers}

LayersTyped ==
  /\ merge \in {"deepMerge", "shallowMerge"}
  /\ status \in {"merging", "failed", "panicked"}
  /\ layers \in Seq(AnyLayer)
  /\ Len(layers) <= MaxLayers
  /\ merge = "deepMerge" => \A i \in DOMAIN layers : layers[i] \in Layer[i]

MapsFound ==
  /\ \A p \in Path : HasMap(merged, p) =>
       \E i \in DOMAIN layers : HasMap(layers[i], p)
  /\ \A p \in Path : NilAt(merged, p) =>
       \E i, j \in DOMAIN layers :
         i < j /\ HasMap(layers[i], p) /\ IsLeaf(layers[j], p)

MapsStay ==
  \A p \in Path, i \in DOMAIN layers : HasMap(layers[i], p) =>
    /\ HasMap(merged, p) \/ NilAbove(merged, p)
    /\ \A j \in DOMAIN layers : i < j /\ IsLeaf(layers[j], p) =>
         NilAt(merged, p) \/ NilAbove(merged, p)

DeepInv ==
  merge = "deepMerge" /\ status # "panicked" =>
    /\ IsTree(merged, Node(Len(layers)))
    /\ MapsFound
    /\ MapsStay

ValuesInv == LayersTyped /\ DeepInv

LEMMA Appended ==
  ASSUME LayersTyped, NEW v \in AnyLayer, layers' = Append(layers, v)
  PROVE  /\ layers' \in Seq(AnyLayer)
         /\ Len(layers) \in Nat /\ Len(layers') = Len(layers) + 1
         /\ DOMAIN layers = 1..Len(layers)
         /\ DOMAIN layers' = 1..Len(layers) + 1
         /\ layers'[Len(layers) + 1] = v
         /\ \A i \in DOMAIN layers : layers'[i] = layers[i]
BY DEF LayersTyped

LEMMA InitValues == Init => ValuesInv
<1>. SUFFICES ASSUME Init PROVE ValuesInv
  OBVIOUS
<1>1. LayersTyped
  BY ValuesAssumption DEF Init, LayersTyped
<1>2. layers = <<>> /\ DOMAIN layers = {} /\ DOMAIN merged = {} /\ merged = [p \in {} |-> p]
  BY DEF Init
<1>3. IsTree(merged, Node(Len(layers)))
  BY <1>2 DEF IsTree
<1>. QED BY <1>1, <1>2, <1>3 DEF ValuesInv, DeepInv, MapsFound, MapsStay, HasMap, NilAt

LEMMA LayerTyped ==
  ASSUME LayersTyped, Len(layers) < MaxLayers, NEW v \in Layer[Len(layers) + 1]
  PROVE  IsTree(v, {MapNode, Scalar(Len(layers) + 1)}) /\ v \in AnyLayer
<1>1. Len(layers) + 1 \in 1..MaxLayers
  BY ValuesAssumption DEF LayersTyped
<1>. QED BY <1>1, ValuesAssumption DEF AnyLayer

(* Maps and nil appear, and stay, as layers merge.                         *)
LEMMA MergeMaps ==
  ASSUME ValuesInv, Len(layers) < MaxLayers,
         NEW v \in Layer[Len(layers) + 1], MergeValues(v), ~Panics(merged, v)
  PROVE  DeepInv'
<1>. DEFINE n == Len(layers)
<1>1. /\ LayersTyped /\ IsTree(merged, Node(n)) /\ MapsFound /\ MapsStay
      /\ layers' = Append(layers, v) /\ merged' = DeepMerge(merged, v)
  BY DEF ValuesInv, DeepInv, MergeValues
<1>2. IsTree(v, {MapNode, Scalar(n + 1)}) /\ v \in AnyLayer
  BY <1>1, LayerTyped
<1>3. /\ n \in Nat /\ Len(layers') = n + 1
      /\ DOMAIN layers = 1..n /\ DOMAIN layers' = 1..n + 1
      /\ layers'[n + 1] = v
      /\ \A i \in 1..n : layers'[i] = layers[i]
  BY <1>1, <1>2, Appended
<1>4. Mergeable(merged, v, n)
  BY <1>1, <1>2, <1>3 DEF Mergeable
<1>5. IsTree(merged', Node(Len(layers')))
  BY <1>1, <1>3, <1>4, MergedTree
<1>6. ASSUME NEW p \in Path, NEW i \in 1..n, HasMap(layers[i], p)
      PROVE  HasMap(merged', p) \/ NilAbove(merged', p)
  <2>1. HasMap(merged, p) \/ NilAbove(merged, p)
    BY <1>1, <1>3, <1>6 DEF MapsStay
  <2>. QED BY <1>1, <1>4, <2>1, MapsKept, NilsKept DEF HasMap
<1>. HIDE DEF n
<1>7. MapsFound'
  <2>1. ASSUME NEW p \in Path, HasMap(merged', p)
        PROVE  HasMap(v, p) \/ HasMap(merged, p)
    BY <1>1, <2>1, MergeAt DEF HasMap, Overlay
  <2>2. ASSUME NEW p \in Path, NilAt(merged', p)
        PROVE  NilAt(merged, p) \/ (HasMap(merged, p) /\ IsLeaf(v, p))
    <3>1. p \in DOMAIN v => v[p] # NilMap
      BY <1>2, Kinds DEF IsTree
    <3>. QED BY <1>1, <2>2, <3>1, MergeAt DEF NilAt, HasMap, IsLeaf, Overlay
  <2>3. ASSUME NEW p \in Path, HasMap(merged, p)
        PROVE  \E i \in 1..n : HasMap(layers'[i], p)
    BY <1>1, <1>3, <2>3 DEF MapsFound
  <2>4. ASSUME NEW p \in Path, NilAt(merged, p)
        PROVE  \E i, j \in 1..n : i < j /\ HasMap(layers'[i], p) /\ IsLeaf(layers'[j], p)
    BY <1>1, <1>3, <2>4 DEF MapsFound
  <2>5. ASSUME NEW p \in Path, HasMap(merged', p)
        PROVE  \E i \in DOMAIN layers' : HasMap(layers'[i], p)
    BY <1>3, <2>1, <2>3, <2>5
  <2>6. ASSUME NEW p \in Path, NilAt(merged', p)
        PROVE  \E i, j \in DOMAIN layers' :
                 i < j /\ HasMap(layers'[i], p) /\ IsLeaf(layers'[j], p)
    BY <1>3, <2>2, <2>3, <2>4, <2>6
  <2>. QED BY <2>5, <2>6 DEF MapsFound
<1>8. MapsStay'
  <2>1. ASSUME NEW p \in Path, NEW i \in 1..n + 1, HasMap(layers'[i], p)
        PROVE  HasMap(merged', p) \/ NilAbove(merged', p)
    <3>1. CASE i = n + 1
      BY <1>1, <1>3, <2>1, <3>1, MergeAt DEF HasMap, Overlay
    <3>2. CASE i \in 1..n
      BY <1>3, <1>6, <2>1, <3>2
    <3>. QED BY <1>3, <3>1, <3>2
  <2>2. ASSUME NEW p \in Path, NEW i \in 1..n + 1, NEW j \in 1..n + 1, i < j,
               HasMap(layers'[i], p), IsLeaf(layers'[j], p)
        PROVE  NilAt(merged', p) \/ NilAbove(merged', p)
    <3>1. i \in 1..n /\ HasMap(layers[i], p)
      BY <1>3, <2>2
    <3>2. CASE j = n + 1
      <4>1. IsLeaf(v, p)
        BY <1>3, <2>2, <3>2
      <4>2. ~NilAbove(merged, p)
        BY <1>2, <1>4, <4>1, WritesAbove DEF NilAbove, IsLeaf, Mergeable, Panics, IsTree
      <4>3. HasMap(merged, p)
        BY <1>1, <1>3, <3>1, <4>2 DEF MapsStay
      <4>. QED BY <1>1, <4>1, <4>3, MergeAt DEF HasMap, IsLeaf, NilAt, Overlay
    <3>3. CASE j \in 1..n
      <4>1. NilAt(merged, p) \/ NilAbove(merged, p)
        BY <1>1, <1>3, <2>2, <3>1, <3>3 DEF MapsStay
      <4>. QED BY <1>1, <1>4, <4>1, NilsKept
    <3>. QED BY <1>3, <3>2, <3>3
  <2>. QED BY <1>3, <2>1, <2>2 DEF MapsStay
<1>. QED BY <1>5, <1>7, <1>8 DEF DeepInv

LEMMA NextValues == ValuesInv /\ [Next]_vars => ValuesInv'
<1>. SUFFICES ASSUME ValuesInv, [Next]_vars PROVE ValuesInv'
  OBVIOUS
<1>1. CASE UNCHANGED vars
  BY <1>1 DEF vars, ValuesInv, LayersTyped, DeepInv, MapsFound, MapsStay,
              HasMap, NilAt, NilAbove, IsLeaf
<1>2. ASSUME Len(layers) < MaxLayers,
             NEW v \in Layer[Len(layers) + 1], MergeValues(v)
      PROVE  ValuesInv'
  <2>1. LayersTyped /\ v \in AnyLayer /\ layers' = Append(layers, v)
    BY <1>2, LayerTyped DEF ValuesInv, MergeValues
  <2>2. LayersTyped'
    BY <1>2, <2>1, Appended, ValuesAssumption DEF LayersTyped, MergeValues
  <2>3. DeepInv'
    <3>1. CASE Panics(merged, v)
      BY <1>2, <3>1 DEF MergeValues, DeepInv
    <3>2. CASE ~Panics(merged, v)
      BY <1>2, <3>2, MergeMaps
    <3>. QED BY <3>1, <3>2
  <2>. QED BY <2>2, <2>3 DEF ValuesInv
<1>3. ASSUME Len(layers) < MaxLayers,
             NEW v \in Substitutions(Len(layers) + 1), MergeSubstitutions(v)
      PROVE  ValuesInv'
  <2>1. LayersTyped
    BY DEF ValuesInv
  <2>2. Len(layers) + 1 \in 1..MaxLayers
    BY <1>3, <2>1, ValuesAssumption DEF LayersTyped
  <2>3. v \in AnyLayer /\ layers' = Append(layers, v)
    BY <1>3, <2>2 DEF AnyLayer, MergeSubstitutions
  <2>. QED BY <1>3, <2>1, <2>3, Appended, ValuesAssumption
           DEF LayersTyped, MergeSubstitutions, ValuesInv, DeepInv
<1>4. CASE Unreadable
  BY <1>4 DEF Unreadable, ValuesInv, LayersTyped, DeepInv, MapsFound, MapsStay,
              HasMap, NilAt, NilAbove, IsLeaf
<1>. QED BY <1>1, <1>2, <1>3, <1>4 DEF Next

LEMMA ValuesKept == Spec => []ValuesInv
BY InitValues, NextValues, PTL DEF Spec

-----------------------------------------------------------------------------
(* deepMerge recurs: it merges two maps entry by entry, and two maps met   *)
(* under one key by a call of its own. DeepMerge does as much.             *)

(* The entries of the map under k, and all that is in them.                *)
In(k, p) == [n \in 1..Len(p) + 1 |-> IF n = 1 THEN k ELSE p[n - 1]]
Sub(v, k) == [p \in {p \in Path : In(k, p) \in DOMAIN v} |-> v[In(k, p)]]

(* v and w have the same under k.                                          *)
SameEntry(v, w, k) ==
  /\ <<k>> \in DOMAIN v <=> <<k>> \in DOMAIN w
  /\ <<k>> \in DOMAIN w => v[<<k>>] = w[<<k>>]
  /\ Sub(v, k) = Sub(w, k)

(* The paths in the map under k.                                           *)
LEMMA InType ==
  ASSUME NEW k \in Key, NEW p \in Seq(Key)
  PROVE  /\ In(k, p) \in Seq(Key)
         /\ Len(In(k, p)) = Len(p) + 1
         /\ In(k, p)[1] = k
         /\ \A n \in 1..Len(p) : In(k, p)[n + 1] = p[n]
<1>1. Len(p) \in Nat /\ \A n \in 1..Len(p) : p[n] \in Key
  OBVIOUS
<1>2. ASSUME NEW n \in 1..Len(p) + 1
      PROVE  (IF n = 1 THEN k ELSE p[n - 1]) \in Key
  <2>. n # 1 => n - 1 \in 1..Len(p)
    BY <1>1
  <2>. QED BY <1>1
<1>3. In(k, p) \in [1..Len(p) + 1 -> Key]
  BY <1>2 DEF In
<1>. QED BY <1>1, <1>3 DEF In

LEMMA InAppend ==
  ASSUME NEW k \in Key, NEW l \in Key, NEW p \in Seq(Key)
  PROVE  In(k, Append(p, l)) = Append(In(k, p), l)
<1>. DEFINE s == Append(p, l)
            t == Append(In(k, p), l)
<1>1. /\ s \in Seq(Key) /\ Len(s) = Len(p) + 1 /\ Len(p) \in Nat
      /\ \A n \in 1..Len(p) : s[n] = p[n]
      /\ s[Len(p) + 1] = l
  OBVIOUS
<1>2. /\ t \in Seq(Key) /\ Len(t) = Len(p) + 2
      /\ \A n \in 1..Len(p) + 1 : t[n] = In(k, p)[n]
      /\ t[Len(p) + 2] = l
  <2>1. In(k, p) \in Seq(Key) /\ Len(In(k, p)) = Len(p) + 1
    BY InType
  <2>. QED BY <1>1, <2>1
<1>. HIDE DEF s, t
<1>3. In(k, s) \in Seq(Key) /\ Len(In(k, s)) = Len(p) + 2
  BY <1>1, InType
<1>4. ASSUME NEW n \in 1..Len(p) + 2
      PROVE  In(k, s)[n] = t[n]
  <2>1. CASE n = 1
    <3>1. In(k, s)[1] = k /\ In(k, p)[1] = k
      BY <1>1, InType
    <3>2. t[1] = In(k, p)[1]
      BY <1>1, <1>2
    <3>. QED BY <2>1, <3>1, <3>2
  <2>2. CASE n # 1
    <3>. DEFINE m == n - 1
    <3>1. m \in 1..Len(s) /\ n = m + 1
      BY <1>1, <2>2
    <3>2. In(k, s)[n] = s[m]
      <4>1. \A i \in 1..Len(s) : In(k, s)[i + 1] = s[i]
        BY <1>1, InType
      <4>. QED BY <3>1, <4>1
    <3>3. CASE m = Len(p) + 1
      BY <1>1, <1>2, <3>1, <3>2, <3>3
    <3>4. CASE m # Len(p) + 1
      <4>1. m \in 1..Len(p) /\ n \in 1..Len(p) + 1
        BY <1>1, <3>1, <3>4
      <4>2. In(k, p)[n] = p[m]
        BY <3>1, <4>1, InType
      <4>. QED BY <1>1, <1>2, <3>2, <4>1, <4>2
    <3>. QED BY <3>3, <3>4
  <2>. QED BY <2>1, <2>2
<1>5. In(k, s) = t
  BY <1>2, <1>3, <1>4
<1>. QED BY <1>5 DEF s, t

LEMMA InSingle ==
  ASSUME NEW k \in Key, NEW l \in Key
  PROVE  In(k, <<l>>) = Append(<<k>>, l)
<1>. DEFINE e == <<l>>
            t == Append(<<k>>, l)
<1>1. e \in Seq(Key) /\ Len(e) = 1 /\ e[1] = l
  OBVIOUS
<1>2. t \in Seq(Key) /\ Len(t) = 2 /\ t[1] = k /\ t[2] = l
  OBVIOUS
<1>. HIDE DEF e, t
<1>3. In(k, e) \in Seq(Key) /\ Len(In(k, e)) = 2 /\ In(k, e)[1] = k
  <2>1. In(k, e) \in Seq(Key) /\ Len(In(k, e)) = Len(e) + 1 /\ In(k, e)[1] = k
    BY <1>1, InType
  <2>. QED BY <1>1, <2>1
<1>4. In(k, e)[2] = l
  <2>1. \A m \in 1..Len(e) : In(k, e)[m + 1] = e[m]
    BY <1>1, InType
  <2>2. 1 \in 1..Len(e) /\ 1 + 1 = 2
    BY <1>1
  <2>. QED BY <1>1, <2>1, <2>2
<1>5. In(k, e) = t
  BY <1>2, <1>3, <1>4
<1>. QED BY <1>5 DEF e, t

LEMMA InSplit ==
  ASSUME NEW r \in Path, Len(r) # 1
  PROVE  r[1] \in Key /\ \E q \in Path : r = In(r[1], q)
<1>1. /\ r \in Seq(Key) /\ Len(r) \in 1..Depth
      /\ \A n \in 1..Len(r) : r[n] \in Key
  BY PathType
<1>2. Len(r) - 1 \in 1..Depth
  <2>. \A l \in 1..Depth : l # 1 => l - 1 \in 1..Depth
    BY ValuesAssumption
  <2>. QED BY <1>1
<1>. DEFINE q == [n \in 1..(Len(r) - 1) |-> r[n + 1]]
<1>3. ASSUME NEW n \in 1..(Len(r) - 1)
      PROVE  r[n + 1] \in Key
  <2>. n + 1 \in 1..Len(r)
    BY <1>1, ValuesAssumption
  <2>. QED BY <1>1
<1>4. q \in Path /\ q \in Seq(Key) /\ Len(q) = Len(r) - 1
  BY <1>2, <1>3 DEF Path
<1>5. r = In(r[1], q)
  <2>1. Len(q) + 1 = Len(r)
    BY <1>1, <1>4, ValuesAssumption
  <2>2. In(r[1], q) = [n \in 1..Len(r) |-> IF n = 1 THEN r[1] ELSE q[n - 1]]
    BY <2>1 DEF In
  <2>3. ASSUME NEW n \in 1..Len(r), n # 1
        PROVE  q[n - 1] = r[n]
    <3>. n - 1 \in 1..(Len(r) - 1) /\ (n - 1) + 1 = n
      BY <1>1, <2>3, ValuesAssumption
    <3>. QED OBVIOUS
  <2>4. r = [n \in 1..Len(r) |-> r[n]]
    BY <1>1, PathType
  <2>. HIDE DEF q
  <2>. QED BY <2>2, <2>3, <2>4
<1>6. r[1] \in Key
  BY <1>1, ValuesAssumption
<1>. QED BY <1>4, <1>5, <1>6

LEMMA InPath ==
  ASSUME NEW k \in Key, NEW p \in Path, In(k, p) \in Path
  PROVE  /\ Len(In(k, p)) = Len(p) + 1
         /\ In(k, p)[1] = k
         /\ \A n \in 1..Len(p) : In(k, p)[n + 1] = p[n]
         /\ <<k>> \in Path
         /\ IsStrictPrefix(<<k>>, In(k, p))
<1>1. p \in Seq(Key) /\ Len(p) \in Nat \ {0} /\ <<k>> \in Seq(Key) /\ Depth \in Nat
  BY PathType, ValuesAssumption
<1>2. /\ Len(In(k, p)) = Len(p) + 1
      /\ In(k, p)[1] = k
      /\ \A n \in 1..Len(p) : In(k, p)[n + 1] = p[n]
  BY <1>1, InType
<1>3. Len(<<k>>) = 1 /\ <<k>>[1] = k
  OBVIOUS
<1>4. Len(In(k, p)) <= Depth
  BY PathType
<1>5. <<k>> \in Path
  <2>. Len(<<k>>) \in 1..Depth
    BY <1>1, <1>2, <1>3, <1>4
  <2>. QED BY <1>1, PathIntro
<1>6. IsStrictPrefix(<<k>>, In(k, p)) <=>
        /\ Len(<<k>>) < Len(In(k, p))
        /\ \A n \in 1..Len(<<k>>) : <<k>>[n] = In(k, p)[n]
  BY <1>5, Above
<1>. QED BY <1>1, <1>2, <1>3, <1>5, <1>6

(* Paths below k are above one another as they are without k; what else is *)
(* above them is k itself.                                                 *)
LEMMA InAbove ==
  ASSUME NEW k \in Key, NEW p \in Path, In(k, p) \in Path, NEW r \in Path
  PROVE  /\ \A q \in Path : r = In(k, q) =>
              (IsStrictPrefix(r, In(k, p)) <=> IsStrictPrefix(q, p))
         /\ IsStrictPrefix(r, In(k, p)) =>
              r = <<k>> \/ \E q \in Path : r = In(k, q)
<1>1. ASSUME NEW q \in Path, r = In(k, q)
      PROVE  IsStrictPrefix(r, In(k, p)) <=> IsStrictPrefix(q, p)
  <2>1. /\ Len(p) \in Nat /\ Len(q) \in Nat
        /\ Len(In(k, p)) = Len(p) + 1 /\ Len(r) = Len(q) + 1
        /\ In(k, p)[1] = k /\ r[1] = k
        /\ \A n \in 1..Len(p) : In(k, p)[n + 1] = p[n]
        /\ \A n \in 1..Len(q) : r[n + 1] = q[n]
    <3>1. Len(p) \in Nat /\ Len(q) \in Nat
      BY PathType, ValuesAssumption
    <3>2. In(k, q) \in Path
      BY <1>1
    <3>3. /\ Len(In(k, p)) = Len(p) + 1 /\ In(k, p)[1] = k
          /\ \A n \in 1..Len(p) : In(k, p)[n + 1] = p[n]
      BY InPath
    <3>4. /\ Len(In(k, q)) = Len(q) + 1 /\ In(k, q)[1] = k
          /\ \A n \in 1..Len(q) : In(k, q)[n + 1] = q[n]
      BY <3>2, InPath
    <3>. QED BY <1>1, <3>1, <3>3, <3>4
  <2>2. IsStrictPrefix(r, In(k, p)) <=>
          Len(r) < Len(In(k, p)) /\ \A n \in 1..Len(r) : r[n] = In(k, p)[n]
    BY Above
  <2>3. IsStrictPrefix(q, p) <=>
          Len(q) < Len(p) /\ \A n \in 1..Len(q) : q[n] = p[n]
    BY Above
  <2>4. ASSUME Len(q) < Len(p)
        PROVE  (\A n \in 1..Len(r) : r[n] = In(k, p)[n]) <=>
               (\A n \in 1..Len(q) : q[n] = p[n])
    <3>1. ASSUME \A n \in 1..Len(r) : r[n] = In(k, p)[n], NEW n \in 1..Len(q)
          PROVE  q[n] = p[n]
      <4>. n + 1 \in 1..Len(r) /\ n \in 1..Len(p)
        BY <2>1, <2>4
      <4>. QED BY <2>1, <3>1
    <3>2. ASSUME \A n \in 1..Len(q) : q[n] = p[n], NEW n \in 1..Len(r)
          PROVE  r[n] = In(k, p)[n]
      <4>1. CASE n = 1
        BY <2>1, <4>1
      <4>2. CASE n # 1
        <5>1. n - 1 \in 1..Len(q) /\ n - 1 \in 1..Len(p) /\ (n - 1) + 1 = n
          BY <2>1, <2>4, <4>2
        <5>. QED BY <2>1, <3>2, <5>1
      <4>. QED BY <4>1, <4>2
    <3>. QED BY <3>1, <3>2
  <2>. QED BY <2>1, <2>2, <2>3, <2>4
<1>2. ASSUME IsStrictPrefix(r, In(k, p)), r # <<k>>
      PROVE  \E q \in Path : r = In(k, q)
  <2>1. /\ r \in Seq(Key) /\ Len(r) \in 1..Depth /\ Depth \in Nat
        /\ \A n \in 1..Len(r) : r[n] \in Key
    BY PathType, ValuesAssumption
  <2>2. r[1] = k
    <3>1. \A n \in 1..Len(r) : r[n] = In(k, p)[n]
      BY <1>2, Above
    <3>2. In(k, p)[1] = k
      BY InPath
    <3>. QED BY <2>1, <3>1, <3>2
  <2>3. Len(r) # 1
    <3>. SUFFICES ASSUME Len(r) = 1 PROVE r = <<k>>
      BY <1>2
    <3>. r \in Seq(Key) /\ <<k>> \in Seq(Key) /\ Len(<<k>>) = 1 /\ <<k>>[1] = k
      BY <2>1
    <3>. QED BY <2>2
  <2>. QED BY <2>2, <2>3, InSplit
<1>. QED BY <1>1, <1>2

(* What is in a map does not cover, and is not covered from, elsewhere.    *)
LEMMA SubCovered ==
  ASSUME NEW y, NEW N, IsTree(y, N), NEW k \in Key,
         NEW p \in Path, In(k, p) \in Path
  PROVE  Covered(y, In(k, p)) <=> Covered(Sub(y, k), p) \/ IsLeaf(y, <<k>>)
<1>1. ASSUME Covered(y, In(k, p)), ~IsLeaf(y, <<k>>)
      PROVE  Covered(Sub(y, k), p)
  <2>1. PICK r \in DOMAIN y : IsStrictPrefix(r, In(k, p)) /\ ~IsMap(y[r])
    BY <1>1 DEF Covered
  <2>2. r \in Path /\ r # <<k>>
    BY <1>1, <2>1 DEF IsTree, IsLeaf
  <2>3. PICK q \in Path : r = In(k, q)
    BY <2>1, <2>2, InAbove
  <2>4. IsStrictPrefix(q, p)
    BY <2>1, <2>2, <2>3, InAbove
  <2>5. q \in DOMAIN Sub(y, k) /\ Sub(y, k)[q] = y[r]
    BY <2>1, <2>3 DEF Sub
  <2>. QED BY <2>1, <2>4, <2>5 DEF Covered
<1>2. ASSUME Covered(Sub(y, k), p)
      PROVE  Covered(y, In(k, p))
  <2>1. PICK q \in DOMAIN Sub(y, k) : IsStrictPrefix(q, p) /\ ~IsMap(Sub(y, k)[q])
    BY <1>2 DEF Covered
  <2>2. q \in Path /\ In(k, q) \in DOMAIN y /\ Sub(y, k)[q] = y[In(k, q)]
    BY <2>1 DEF Sub
  <2>3. In(k, q) \in Path
    BY <2>2 DEF IsTree
  <2>4. IsStrictPrefix(In(k, q), In(k, p))
    BY <2>1, <2>2, <2>3, InAbove
  <2>. QED BY <2>1, <2>2, <2>4 DEF Covered
<1>3. ASSUME IsLeaf(y, <<k>>)
      PROVE  Covered(y, In(k, p))
  BY <1>3, InPath DEF Covered, IsLeaf
<1>. QED BY <1>1, <1>2, <1>3

(* A path that is there has a map above it.                                *)
LEMMA SubOfMap ==
  ASSUME NEW v, NEW N, IsTree(v, N), NEW k \in Key, NEW p \in DOMAIN Sub(v, k)
  PROVE  /\ p \in Path /\ In(k, p) \in DOMAIN v /\ In(k, p) \in Path
         /\ Sub(v, k)[p] = v[In(k, p)]
         /\ <<k>> \in DOMAIN v /\ v[<<k>>] = MapNode
<1>1. p \in Path /\ In(k, p) \in DOMAIN v /\ Sub(v, k)[p] = v[In(k, p)]
  BY DEF Sub
<1>2. In(k, p) \in Path
  BY <1>1 DEF IsTree
<1>3. <<k>> \in Path /\ IsStrictPrefix(<<k>>, In(k, p))
  BY <1>1, <1>2, InPath
<1>. QED BY <1>1, <1>2, <1>3 DEF IsTree

LEMMA SubEqual ==
  ASSUME NEW v, NEW w, NEW k,
         \A p \in Path : In(k, p) \in DOMAIN v <=> In(k, p) \in DOMAIN w,
         \A p \in Path : In(k, p) \in DOMAIN v => v[In(k, p)] = w[In(k, p)]
  PROVE  Sub(v, k) = Sub(w, k)
BY DEF Sub

(* The merge by paths satisfies the equations of deepMerge: entry by entry,*)
(* with a merge of its own where two maps meet.                            *)
THEOREM MergeRecurs ==
  ASSUME NEW n \in Nat, NEW x, IsTree(x, Node(n)),
         NEW y, IsTree(y, {MapNode, Scalar(n + 1)}), NEW k \in Key
  PROVE  LET z == DeepMerge(x, y)
             K == <<k>>
         IN  /\ K \notin DOMAIN y => SameEntry(z, x, k)
             /\ K \in DOMAIN y /\ ~HasMap(x, K) => SameEntry(z, y, k)
             /\ HasMap(x, K) /\ HasMap(y, K) =>
                  /\ K \in DOMAIN z /\ z[K] = x[K]
                  /\ Sub(z, k) = DeepMerge(Sub(x, k), Sub(y, k))
             /\ HasMap(x, K) /\ IsLeaf(y, K) =>
                  /\ NilAt(z, K)
                  /\ DOMAIN Sub(z, k) = {}
<1>. DEFINE z == DeepMerge(x, y)
            K == <<k>>
<1>0. \A p \in DOMAIN x \cup DOMAIN y : p \in Path
  BY DEF IsTree
<1>1. ASSUME NEW p \in Path, In(k, p) \in DOMAIN x
      PROVE  In(k, p) \in Path /\ K \in DOMAIN x /\ x[K] = MapNode
  BY <1>1, SubOfMap DEF Sub
<1>2. ASSUME NEW p \in Path, In(k, p) \in DOMAIN y
      PROVE  In(k, p) \in Path /\ K \in DOMAIN y /\ y[K] = MapNode
  BY <1>2, SubOfMap DEF Sub
<1>3. ~Covered(y, K)
  <2>1. ASSUME NEW q \in DOMAIN y, IsStrictPrefix(q, K)
        PROVE  FALSE
    <3>1. q \in Seq(Key) /\ Len(q) \in Nat \ {0}
      BY <1>0, PathType, ValuesAssumption
    <3>2. Len(q) <= 1 /\ q # K /\ SubSeq(q, 1, Len(q)) = SubSeq(K, 1, Len(q))
      BY <2>1 DEF IsStrictPrefix, IsPrefix
    <3>3. Len(q) = 1
      BY <3>1, <3>2
    <3>4. SubSeq(q, 1, 1) = q /\ SubSeq(K, 1, 1) = K
      <4>1. \A r \in Seq(Key) : SubSeq(r, 1, Len(r)) = r
        OBVIOUS
      <4>2. K \in Seq(Key) /\ Len(K) = 1
        OBVIOUS
      <4>. HIDE DEF K
      <4>. QED BY <3>1, <3>3, <4>1, <4>2
    <3>. QED BY <3>2, <3>3, <3>4
  <2>. QED BY <2>1 DEF Covered
<1>4. /\ K \in DOMAIN z <=> K \in DOMAIN x \cup DOMAIN y
      /\ K \in DOMAIN x /\ K \notin DOMAIN y => z[K] = x[K]
      /\ K \in DOMAIN y /\ K \notin DOMAIN x => z[K] = y[K]
      /\ K \in DOMAIN y /\ K \in DOMAIN x => z[K] = Overlay(x[K], y[K])
  BY <1>3, MergeAt
<1>5. ASSUME NEW p \in Path, In(k, p) \in Path
      PROVE  Covered(y, In(k, p)) <=> Covered(Sub(y, k), p) \/ IsLeaf(y, K)
  BY <1>5, SubCovered
<1>6. ASSUME K \notin DOMAIN y
      PROVE  SameEntry(z, x, k)
  <2>1. \A p \in Path : In(k, p) \notin DOMAIN y
    BY <1>2, <1>6
  <2>2. \A p \in Path : In(k, p) \in DOMAIN x => ~Covered(y, In(k, p))
    <3>. SUFFICES ASSUME NEW p \in Path, In(k, p) \in DOMAIN x PROVE ~Covered(y, In(k, p))
      OBVIOUS
    <3>1. In(k, p) \in Path /\ ~IsLeaf(y, K)
      BY <1>1, <1>6 DEF IsLeaf
    <3>2. ~Covered(Sub(y, k), p)
      BY <2>1 DEF Covered, Sub
    <3>. QED BY <1>5, <3>1, <3>2
  <2>3. \A p \in Path : /\ In(k, p) \in DOMAIN z <=> In(k, p) \in DOMAIN x
                        /\ In(k, p) \in DOMAIN z => z[In(k, p)] = x[In(k, p)]
    BY <2>1, <2>2, MergeAt
  <2>. QED BY <1>4, <1>6, <2>3, SubEqual DEF SameEntry
<1>7. ASSUME K \in DOMAIN y, ~HasMap(x, K)
      PROVE  SameEntry(z, y, k)
  <2>1. \A p \in Path : In(k, p) \notin DOMAIN x
    BY <1>1, <1>7, Kinds DEF HasMap
  <2>2. \A p \in Path : /\ In(k, p) \in DOMAIN z <=> In(k, p) \in DOMAIN y
                        /\ In(k, p) \in DOMAIN z => z[In(k, p)] = y[In(k, p)]
    BY <2>1, MergeAt
  <2>3. K \in DOMAIN z /\ z[K] = y[K]
    BY <1>4, <1>7 DEF HasMap, Overlay
  <2>. QED BY <1>7, <2>2, <2>3, SubEqual DEF SameEntry
<1>8. ASSUME HasMap(x, K), HasMap(y, K)
      PROVE  /\ K \in DOMAIN z /\ z[K] = x[K]
             /\ Sub(z, k) = DeepMerge(Sub(x, k), Sub(y, k))
  <2>1. K \in DOMAIN z /\ z[K] = x[K]
    BY <1>4, <1>8 DEF HasMap, Overlay
  <2>2. ~IsLeaf(y, K)
    BY <1>8 DEF HasMap, IsLeaf
  <2>. DEFINE s == DeepMerge(Sub(x, k), Sub(y, k))
  <2>3. ASSUME NEW p
        PROVE  /\ p \in DOMAIN Sub(z, k) <=> p \in DOMAIN s
               /\ p \in DOMAIN s => Sub(z, k)[p] = s[p]
    <3>1. \A v : /\ p \in DOMAIN Sub(v, k) <=> p \in Path /\ In(k, p) \in DOMAIN v
                 /\ p \in DOMAIN Sub(v, k) => Sub(v, k)[p] = v[In(k, p)]
      BY DEF Sub
    <3>2. p \in Path /\ In(k, p) \in DOMAIN x =>
            (Covered(y, In(k, p)) <=> Covered(Sub(y, k), p))
      BY <1>1, <1>5, <2>2
    <3>3. p \in DOMAIN s <=> p \in Path /\ In(k, p) \in DOMAIN z
      BY <3>1, <3>2, MergeAt
    <3>4. p \in DOMAIN s => s[p] = z[In(k, p)]
      BY <3>1, <3>3, MergeAt
    <3>. QED BY <3>1, <3>3, <3>4
  <2>4. Sub(z, k) = [p \in DOMAIN Sub(z, k) |-> Sub(z, k)[p]]
    BY DEF Sub
  <2>5. s = [p \in DOMAIN s |-> s[p]]
    BY DEF DeepMerge
  <2>6. DOMAIN Sub(z, k) = DOMAIN s
    BY <2>3
  <2>. HIDE DEF s, z
  <2>7. Sub(z, k) = s
    BY <2>3, <2>4, <2>5, <2>6
  <2>. QED BY <2>1, <2>7 DEF s
<1>9. ASSUME HasMap(x, K), IsLeaf(y, K)
      PROVE  NilAt(z, K) /\ DOMAIN Sub(z, k) = {}
  <2>1. NilAt(z, K)
    BY <1>4, <1>9 DEF HasMap, IsLeaf, NilAt, Overlay
  <2>2. \A p \in Path : In(k, p) \notin DOMAIN y
    BY <1>2, <1>9, Kinds DEF IsLeaf
  <2>3. \A p \in Path : In(k, p) \in DOMAIN x => Covered(y, In(k, p))
    BY <1>1, <1>5, <1>9
  <2>4. \A p \in Path : In(k, p) \notin DOMAIN z
    BY <2>2, <2>3, MergeAt
  <2>. QED BY <2>1, <2>4 DEF Sub
<1>. HIDE DEF z, K
<1>10. /\ K \notin DOMAIN y => SameEntry(z, x, k)
       /\ K \in DOMAIN y /\ ~HasMap(x, K) => SameEntry(z, y, k)
       /\ HasMap(x, K) /\ HasMap(y, K) =>
            /\ K \in DOMAIN z /\ z[K] = x[K]
            /\ Sub(z, k) = DeepMerge(Sub(x, k), Sub(y, k))
       /\ HasMap(x, K) /\ IsLeaf(y, K) =>
            /\ NilAt(z, K)
            /\ DOMAIN Sub(z, k) = {}
  BY <1>6, <1>7, <1>8, <1>9
<1>. QED BY <1>10 DEF z, K

(* ... and panics where deepMerge does: where a call at some depth writes  *)
(* into nil.                                                               *)
THEOREM PanicRecurs ==
  ASSUME NEW n \in Nat, NEW x, IsTree(x, Node(n)),
         NEW y, IsTree(y, {MapNode, Scalar(n + 1)})
  PROVE  Panics(x, y) <=>
           \E k \in Key : /\ HasMap(x, <<k>>) /\ HasMap(y, <<k>>)
                          /\ \/ NilAt(x, <<k>>) /\ DOMAIN Sub(y, k) # {}
                             \/ Panics(Sub(x, k), Sub(y, k))
<1>. DEFINE Clash(k) == /\ HasMap(x, <<k>>) /\ HasMap(y, <<k>>)
                        /\ \/ NilAt(x, <<k>>) /\ DOMAIN Sub(y, k) # {}
                           \/ Panics(Sub(x, k), Sub(y, k))
<1>1. \A p \in DOMAIN x \cup DOMAIN y : p \in Path
  BY DEF IsTree
<1>2. ASSUME Panics(x, y)
      PROVE  \E k \in Key : Clash(k)
  <2>1. PICK p \in DOMAIN x, l \in Key : x[p] = NilMap /\ Append(p, l) \in DOMAIN y
    BY <1>2 DEF Panics, WritesInto
  <2>2. p \in Path /\ Append(p, l) \in Path /\ p \in Seq(Key)
    BY <1>1, <2>1, PathType
  <2>3. IsStrictPrefix(p, Append(p, l))
    <3>1. \A m \in 1..Len(p) : Append(p, l)[m] = p[m]
      BY <2>2
    <3>2. Len(p) < Len(Append(p, l))
      BY <2>2
    <3>. QED BY <2>2, <3>1, <3>2, Above
  <2>4. HasMap(y, p)
    BY <2>1, <2>2, <2>3, Kinds DEF IsTree, HasMap
  <2>5. CASE Len(p) = 1
    <3>1. p[1] \in Key /\ p = <<p[1]>>
      <4>1. p[1] \in Key
        BY <2>2, <2>5, PathType
      <4>. QED BY <2>2, <2>5, <4>1
    <3>2. PICK k \in Key : p = <<k>>
      BY <3>1
    <3>3. <<l>> \in Path
      <4>1. <<l>> \in Seq(Key) /\ Len(<<l>>) = 1
        OBVIOUS
      <4>2. 1 \in 1..Depth
        BY <2>2, <2>5, PathType
      <4>. HIDE DEF Path
      <4>. QED BY <4>1, <4>2, PathIntro
    <3>4. Append(p, l) = In(k, <<l>>)
      BY <3>2, InSingle
    <3>5. <<l>> \in DOMAIN Sub(y, k)
      BY <2>1, <3>3, <3>4 DEF Sub
    <3>6. NilAt(x, <<k>>) /\ HasMap(x, <<k>>) /\ HasMap(y, <<k>>)
      BY <2>1, <2>4, <3>2, Kinds DEF NilAt, HasMap
    <3>. QED BY <3>5, <3>6
  <2>6. CASE Len(p) # 1
    <3>1. PICK k \in Key, q \in Path : p = In(k, q)
      BY <2>2, <2>6, InSplit
    <3>2. Append(p, l) = In(k, Append(q, l))
      BY <3>1, PathType, InAppend
    <3>3. Append(q, l) \in Path
      <4>1. q \in Seq(Key) /\ Append(q, l) \in Seq(Key) /\ Len(Append(q, l)) = Len(q) + 1
        BY <3>1, PathType
      <4>2. Len(p) = Len(q) + 1 /\ Len(p) \in 1..Depth
        BY <2>2, <3>1, <4>1, InType, PathType
      <4>. QED BY <4>1, <4>2, PathIntro
    <3>4. q \in DOMAIN Sub(x, k) /\ Sub(x, k)[q] = NilMap
      BY <2>1, <3>1 DEF Sub
    <3>5. Append(q, l) \in DOMAIN Sub(y, k)
      BY <2>1, <3>2, <3>3 DEF Sub
    <3>6. HasMap(x, <<k>>) /\ HasMap(y, <<k>>)
      BY <3>4, <3>5, SubOfMap, Kinds DEF HasMap
    <3>. QED BY <3>4, <3>5, <3>6 DEF Panics, WritesInto
  <2>. QED BY <2>5, <2>6
<1>3. ASSUME NEW k \in Key, Clash(k)
      PROVE  Panics(x, y)
  <2>1. CASE NilAt(x, <<k>>) /\ DOMAIN Sub(y, k) # {}
    <3>1. PICK q : q \in DOMAIN Sub(y, k)
      BY <2>1
    <3>2. q \in Path /\ In(k, q) \in DOMAIN y /\ In(k, q) \in Path
      BY <3>1, SubOfMap
    <3>3. WritesInto(y, <<k>>)
      BY <3>2, InPath, WritesAbove
    <3>. QED BY <2>1, <3>3 DEF NilAt, Panics
  <2>2. CASE Panics(Sub(x, k), Sub(y, k))
    <3>1. PICK q \in DOMAIN Sub(x, k), l \in Key :
            Sub(x, k)[q] = NilMap /\ Append(q, l) \in DOMAIN Sub(y, k)
      BY <2>2 DEF Panics, WritesInto
    <3>2. q \in Path /\ q \in Seq(Key) /\ In(k, q) \in DOMAIN x /\ x[In(k, q)] = NilMap
      BY <3>1, PathType DEF Sub
    <3>3. In(k, Append(q, l)) \in DOMAIN y
      BY <3>1 DEF Sub
    <3>4. Append(In(k, q), l) \in DOMAIN y
      BY <3>2, <3>3, InAppend
    <3>. QED BY <3>2, <3>4 DEF Panics, WritesInto
  <2>. QED BY <1>3, <2>1, <2>2
<1>. QED BY <1>2, <1>3

-----------------------------------------------------------------------------
(* A step of the merge of values that does not panic.                      *)
Merging(v) ==
  /\ LayersTyped
  /\ LayersTyped'
  /\ IsTree(v, {MapNode, Scalar(Len(layers) + 1)})
  /\ v \in AnyLayer
  /\ layers' = Append(layers, v)
  /\ merged' = DeepMerge(merged, v)
  /\ Mergeable(merged, v, Len(layers))

LEMMA MergingSteps ==
  ASSUME ValuesInv, ValuesInv', [Next]_vars, merge' = "deepMerge", status' = "merging"
  PROVE  /\ merge = "deepMerge" /\ status = "merging"
         /\ UNCHANGED <<layers, merged>> \/ \E v : Merging(v)
<1>1. CASE UNCHANGED vars
  BY <1>1 DEF vars
<1>2. ASSUME Len(layers) < MaxLayers,
             NEW v \in Layer[Len(layers) + 1], MergeValues(v)
      PROVE  merge = "deepMerge" /\ status = "merging" /\ Merging(v)
  <2>1. LayersTyped /\ LayersTyped' /\ IsTree(merged, Node(Len(layers)))
    BY <1>2 DEF ValuesInv, DeepInv, MergeValues
  <2>2. IsTree(v, {MapNode, Scalar(Len(layers) + 1)}) /\ v \in AnyLayer
    BY <1>2, <2>1, LayerTyped
  <2>3. ~Panics(merged, v)
    BY <1>2 DEF MergeValues
  <2>4. Len(layers) \in Nat
    BY <2>1 DEF LayersTyped
  <2>. QED BY <1>2, <2>1, <2>2, <2>3, <2>4 DEF MergeValues, Merging, Mergeable
<1>3. ~(\E v \in Substitutions(Len(layers) + 1) : MergeSubstitutions(v)) /\ ~Unreadable
  BY DEF MergeSubstitutions, Unreadable
<1>. QED BY <1>1, <1>2, <1>3 DEF Next

(* A scalar that survives a merge is not overruled by the layer; one that  *)
(* the layer does not speak of survives.                                   *)
LEMMA LeavesKept ==
  ASSUME NEW x, NEW y, NEW n, Mergeable(x, y, n), NEW p \in Path
  PROVE  /\ IsLeaf(DeepMerge(x, y), p) =>
              \/ IsLeaf(y, p) /\ DeepMerge(x, y)[p] = Scalar(n + 1)
              \/ IsLeaf(x, p) /\ DeepMerge(x, y)[p] = x[p] /\ ~Sets(y, p)
         /\ IsLeaf(x, p) /\ ~Sets(y, p) =>
              p \in DOMAIN DeepMerge(x, y) /\ DeepMerge(x, y)[p] = x[p]
         /\ IsLeaf(y, p) =>
              \/ p \in DOMAIN DeepMerge(x, y) /\ DeepMerge(x, y)[p] = Scalar(n + 1)
              \/ HasMap(x, p)
<1>1. IsLeaf(y, p) => y[p] = Scalar(n + 1)
  BY Kinds DEF Mergeable, IsTree, IsLeaf
<1>. QED BY <1>1, MergeAt, Kinds DEF IsLeaf, Sets, HasMap, Overlay

(* The scalars of a layer and of what is merged.                           *)
LEMMA StaleStep ==
  ASSUME NothingStale, NEW v, Merging(v), merge = "deepMerge", status = "merging"
  PROVE  \A p \in Path : IsLeaf(merged', p) =>
           /\ merged'[p].layer \in DOMAIN layers'
           /\ IsLeaf(layers'[merged'[p].layer], p)
           /\ \A j \in (merged'[p].layer + 1)..Len(layers') : ~Sets(layers'[j], p)
<1>. DEFINE n == Len(layers)
<1>1. /\ n \in Nat /\ Len(layers') = n + 1
      /\ DOMAIN layers = 1..n /\ DOMAIN layers' = 1..n + 1
      /\ layers'[n + 1] = v
      /\ \A i \in 1..n : layers'[i] = layers[i]
  BY Appended DEF Merging
<1>. SUFFICES ASSUME NEW p \in Path, IsLeaf(merged', p)
     PROVE  /\ merged'[p].layer \in DOMAIN layers'
            /\ IsLeaf(layers'[merged'[p].layer], p)
            /\ \A j \in (merged'[p].layer + 1)..Len(layers') : ~Sets(layers'[j], p)
  OBVIOUS
<1>. HIDE DEF n
<1>2. \/ IsLeaf(v, p) /\ merged'[p] = Scalar(n + 1)
      \/ IsLeaf(merged, p) /\ merged'[p] = merged[p] /\ ~Sets(v, p)
  BY LeavesKept DEF Merging, n
<1>3. CASE IsLeaf(v, p) /\ merged'[p] = Scalar(n + 1)
  <2>1. merged'[p].layer = n + 1
    BY <1>3, Kinds
  <2>2. ((n + 1) + 1)..Len(layers') = {}
    BY <1>1
  <2>. QED BY <1>1, <1>3, <2>1, <2>2
<1>4. CASE IsLeaf(merged, p) /\ merged'[p] = merged[p] /\ ~Sets(v, p)
  <2>. DEFINE i == merged[p].layer
  <2>1. i \in 1..n /\ IsLeaf(layers[i], p) /\ LastToSet(i, p)
    BY <1>1, <1>4 DEF NothingStale
  <2>. HIDE DEF i
  <2>2. \A j \in (i + 1)..n + 1 : ~Sets(layers'[j], p)
    <3>1. ASSUME NEW j \in (i + 1)..n + 1
          PROVE  j = n + 1 \/ (j \in (i + 1)..n /\ j \in 1..n)
      BY <1>1, <2>1
    <3>. QED BY <1>1, <1>4, <2>1, <3>1 DEF LastToSet, n
  <2>3. merged'[p].layer = i
    BY <1>4 DEF i
  <2>. QED BY <1>1, <2>1, <2>2, <2>3
<1>. QED BY <1>2, <1>3, <1>4

(* No replaced value is ever used (deepMerge), for all keys, depths and    *)
(* layers.                                                                 *)
THEOREM NoValueStale == Spec => []NothingStale
<1>1. Init => NothingStale
  BY DEF Init, NothingStale, IsLeaf
<1>2. NothingStale /\ ValuesInv /\ ValuesInv' /\ [Next]_vars => NothingStale'
  <2>. SUFFICES ASSUME NothingStale, ValuesInv, ValuesInv', [Next]_vars,
                       merge' = "deepMerge", status' = "merging"
       PROVE  NothingStale'
    BY DEF NothingStale
  <2>1. merge = "deepMerge" /\ status = "merging"
    BY MergingSteps
  <2>2. CASE UNCHANGED <<layers, merged>>
    BY <2>1, <2>2 DEF NothingStale, LastToSet, IsLeaf
  <2>3. CASE \E v : Merging(v)
    BY <2>1, <2>3, StaleStep DEF NothingStale, LastToSet, IsLeaf
  <2>. QED BY <2>2, <2>3, MergingSteps
<1>. QED BY <1>1, <1>2, ValuesKept, PTL DEF Spec

(* No value that nobody replaces is lost, unless it met a map (deepMerge), *)
(* for all keys, depths and layers.                                        *)
THEOREM NoValueLost == Spec => []NothingLost
<1>1. Init => NothingLost
  BY DEF Init, NothingLost
<1>2. ASSUME NothingLost, ValuesInv, NEW v, Merging(v),
             merge = "deepMerge", status = "merging"
      PROVE  NothingLost'
  <2>. DEFINE n == Len(layers)
  <2>1. /\ n \in Nat /\ Len(layers') = n + 1
        /\ DOMAIN layers = 1..n /\ DOMAIN layers' = 1..n + 1
        /\ layers'[n + 1] = v
        /\ \A i \in 1..n : layers'[i] = layers[i]
    BY <1>2, Appended DEF Merging
  <2>2. Mergeable(merged, v, n) /\ merged' = DeepMerge(merged, v)
    BY <1>2 DEF Merging
  <2>3. MapsFound
    BY <1>2 DEF ValuesInv, DeepInv
  <2>. SUFFICES ASSUME NEW p \in Path, NEW i \in 1..n + 1, IsLeaf(layers'[i], p),
                       \A j \in (i + 1)..n + 1 : ~Sets(layers'[j], p)
       PROVE  \/ p \in DOMAIN merged' /\ merged'[p] = Scalar(i)
              \/ \E j \in 1..(i - 1) : HasMap(layers'[j], p)
    BY <2>1 DEF NothingLost, LastToSet
  <2>. HIDE DEF n
  <2>4. CASE i = n + 1
    <3>1. (p \in DOMAIN merged' /\ merged'[p] = Scalar(n + 1)) \/ HasMap(merged, p)
      BY <2>1, <2>2, <2>4, LeavesKept
    <3>2. HasMap(merged, p) => \E j \in 1..n : HasMap(layers[j], p)
      BY <2>1, <2>3 DEF MapsFound
    <3>3. 1..(i - 1) = 1..n
      BY <2>1, <2>4
    <3>. QED BY <2>1, <2>4, <3>1, <3>2, <3>3
  <2>5. CASE i \in 1..n
    <3>1. IsLeaf(layers[i], p) /\ ~Sets(v, p)
      BY <2>1, <2>5
    <3>2. LastToSet(i, p)
      <4>1. \A j \in (i + 1)..n : j \in (i + 1)..n + 1 /\ j \in 1..n
        BY <2>1, <2>5
      <4>. QED BY <2>1, <4>1 DEF LastToSet, n
    <3>3. \/ p \in DOMAIN merged /\ merged[p] = Scalar(i)
          \/ \E j \in 1..(i - 1) : HasMap(layers[j], p)
      BY <1>2, <2>1, <2>5, <3>1, <3>2 DEF NothingLost
    <3>4. CASE p \in DOMAIN merged /\ merged[p] = Scalar(i)
      BY <2>2, <3>1, <3>4, LeavesKept, Kinds DEF IsLeaf
    <3>5. CASE \E j \in 1..(i - 1) : HasMap(layers[j], p)
      BY <2>1, <2>5, <3>5
    <3>. QED BY <3>3, <3>4, <3>5
  <2>. QED BY <2>1, <2>4, <2>5
<1>3. NothingLost /\ ValuesInv /\ ValuesInv' /\ [Next]_vars => NothingLost'
  <2>. SUFFICES ASSUME NothingLost, ValuesInv, ValuesInv', [Next]_vars,
                       merge' = "deepMerge", status' = "merging"
       PROVE  NothingLost'
    BY DEF NothingLost
  <2>1. merge = "deepMerge" /\ status = "merging"
    BY MergingSteps
  <2>2. CASE UNCHANGED <<layers, merged>>
    BY <2>1, <2>2 DEF NothingLost, LastToSet
  <2>3. CASE \E v : Merging(v)
    BY <1>2, <2>1, <2>3
  <2>. QED BY <2>2, <2>3, MergingSteps
<1>. QED BY <1>1, <1>3, ValuesKept, PTL DEF Spec

-----------------------------------------------------------------------------
(* What PanicsOnThirdKind says leads to a panic.                           *)
ThirdKind(all, p, i, j, k) ==
  /\ i < j /\ j < k
  /\ HasMap(all[i], p)
  /\ IsLeaf(all[j], p)
  /\ WritesInto(all[k], p)

(* The merge of values panics exactly when a map follows a scalar that     *)
(* followed a map, for all keys, depths and layers.                        *)
THEOREM PanicsExplained == Spec => []PanicsOnThirdKind
<1>1. Init => PanicsOnThirdKind
  BY DEF Init, PanicsOnThirdKind
<1>2. ASSUME PanicsOnThirdKind, ValuesInv, merge = "deepMerge",
             Len(layers) < MaxLayers, NEW v \in Layer[Len(layers) + 1], MergeValues(v)
      PROVE  PanicsOnThirdKind'
  <2>. DEFINE n == Len(layers)
  <2>1. /\ LayersTyped /\ IsTree(merged, Node(n)) /\ MapsFound /\ MapsStay
        /\ layers' = Append(layers, v)
    BY <1>2 DEF ValuesInv, DeepInv, MergeValues
  <2>2. IsTree(v, {MapNode, Scalar(n + 1)}) /\ v \in AnyLayer
    BY <1>2, <2>1, LayerTyped
  <2>3. /\ n \in Nat
        /\ DOMAIN layers = 1..n /\ DOMAIN layers' = 1..n + 1
        /\ layers'[n + 1] = v
        /\ \A i \in 1..n : layers'[i] = layers[i]
    BY <2>1, <2>2, Appended
  <2>. HIDE DEF n
  <2>4. ~\E p \in Path : \E i, j, k \in 1..n : ThirdKind(layers, p, i, j, k)
    BY <1>2, <2>3 DEF PanicsOnThirdKind, MergeValues, ThirdKind
  <2>5. status' = "panicked" <=> Panics(merged, v)
    BY <1>2 DEF MergeValues
  <2>6. ASSUME Panics(merged, v)
        PROVE  \E p \in Path : \E i, j, k \in 1..n + 1 : ThirdKind(layers', p, i, j, k)
    <3>1. PICK p \in DOMAIN merged : merged[p] = NilMap /\ WritesInto(v, p)
      BY <2>6 DEF Panics
    <3>2. p \in Path
      BY <2>1, <3>1 DEF IsTree
    <3>3. PICK i \in 1..n, j \in 1..n :
            i < j /\ HasMap(layers[i], p) /\ IsLeaf(layers[j], p)
      BY <2>1, <2>3, <3>1, <3>2 DEF MapsFound, NilAt
    <3>4. i < j /\ j < n + 1 /\ {i, j, n + 1} \subseteq 1..n + 1
      BY <2>3, <3>3
    <3>5. ThirdKind(layers', p, i, j, n + 1)
      BY <2>3, <3>1, <3>3, <3>4 DEF ThirdKind
    <3>. QED BY <3>2, <3>4, <3>5
  <2>7. ASSUME NEW p \in Path, NEW i \in 1..n + 1, NEW j \in 1..n + 1, NEW k \in 1..n + 1,
               ThirdKind(layers', p, i, j, k)
        PROVE  Panics(merged, v)
    <3>1. /\ i \in 1..n /\ j \in 1..n /\ i < j
          /\ HasMap(layers[i], p) /\ IsLeaf(layers[j], p)
      BY <2>3, <2>7 DEF ThirdKind
    <3>2. k = n + 1 /\ WritesInto(v, p)
      <4>1. k # n + 1 => k \in 1..n
        BY <2>3
      <4>2. k # n + 1 => ThirdKind(layers, p, i, j, k)
        BY <2>3, <2>7, <3>1, <4>1 DEF ThirdKind
      <4>. QED BY <2>3, <2>4, <2>7, <3>1, <4>1, <4>2 DEF ThirdKind
    <3>3. NilAt(merged, p) \/ NilAbove(merged, p)
      BY <2>1, <2>3, <3>1 DEF MapsStay
    <3>4. CASE NilAt(merged, p)
      BY <3>2, <3>4 DEF NilAt, Panics
    <3>5. CASE NilAbove(merged, p)
      <4>1. PICK q \in DOMAIN merged : IsStrictPrefix(q, p) /\ merged[q] = NilMap
        BY <3>5 DEF NilAbove
      <4>2. PICK l \in Key : Append(p, l) \in DOMAIN v
        BY <3>2 DEF WritesInto
      <4>3. Append(p, l) \in Path /\ q \in Path
        BY <2>1, <2>2, <4>2 DEF IsTree
      <4>4. IsStrictPrefix(p, Append(p, l))
        <5>1. p \in Seq(Key) /\ Len(p) \in Nat
          BY PathType, ValuesAssumption
        <5>2. /\ Len(Append(p, l)) = Len(p) + 1
              /\ \A m \in 1..Len(p) : Append(p, l)[m] = p[m]
          BY <5>1
        <5>3. \A c \in Path : Len(c) = Len(p) + 1 /\ (\A m \in 1..Len(p) : c[m] = p[m])
                => IsStrictPrefix(p, c)
          BY <5>1, Above
        <5>. QED BY <4>3, <5>2, <5>3
      <4>5. WritesInto(v, q)
        <5>1. IsStrictPrefix(q, Append(p, l))
          BY <4>1, <4>3, <4>4, AboveTransitive
        <5>. QED BY <2>2, <4>2, <4>3, <5>1, WritesAbove
      <4>. QED BY <4>1, <4>5 DEF Panics
    <3>. QED BY <3>3, <3>4, <3>5
  <2>8. status' = "panicked" <=>
          \E p \in Path : \E i, j, k \in 1..n + 1 : ThirdKind(layers', p, i, j, k)
    BY <2>5, <2>6, <2>7
  <2>. QED BY <2>3, <2>8 DEF PanicsOnThirdKind, ThirdKind
<1>3. PanicsOnThirdKind /\ ValuesInv /\ [Next]_vars => PanicsOnThirdKind'
  <2>. SUFFICES ASSUME PanicsOnThirdKind, ValuesInv, [Next]_vars, merge' = "deepMerge"
       PROVE  PanicsOnThirdKind'
    BY DEF PanicsOnThirdKind
  <2>1. CASE UNCHANGED vars
    BY <2>1 DEF PanicsOnThirdKind, vars
  <2>2. ASSUME Len(layers) < MaxLayers,
               NEW v \in Layer[Len(layers) + 1], MergeValues(v)
        PROVE  PanicsOnThirdKind'
    BY <1>2, <2>2 DEF MergeValues
  <2>3. CASE Unreadable
    BY <2>3 DEF PanicsOnThirdKind, Unreadable
  <2>4. ~\E v \in Substitutions(Len(layers) + 1) : MergeSubstitutions(v)
    BY DEF MergeSubstitutions
  <2>. QED BY <2>1, <2>2, <2>3, <2>4 DEF Next
<1>. QED BY <1>1, <1>3, ValuesKept, PTL DEF Spec

-----------------------------------------------------------------------------
(* Later substitutions have precedence (shallowMerge), for all keys and    *)
(* layers.                                                                 *)
THEOREM SubstitutionsOrdered == Spec => []LaterHasPrecedence
<1>1. Init => LaterHasPrecedence
  BY DEF Init, LaterHasPrecedence
<1>2. ASSUME LaterHasPrecedence, ValuesInv, merge = "shallowMerge",
             Len(layers) < MaxLayers,
             NEW v \in Substitutions(Len(layers) + 1), MergeSubstitutions(v)
      PROVE  LaterHasPrecedence'
  <2>. DEFINE n == Len(layers)
  <2>1. LayersTyped /\ layers' = Append(layers, v) /\ merged' = ShallowMerge(merged, v)
    BY <1>2 DEF ValuesInv, MergeSubstitutions
  <2>2. Len(layers) + 1 \in 1..MaxLayers
    BY <1>2, <2>1, ValuesAssumption DEF LayersTyped
  <2>3. v \in AnyLayer
    BY <1>2, <2>2 DEF AnyLayer
  <2>4. /\ n \in Nat
        /\ DOMAIN layers = 1..n /\ DOMAIN layers' = 1..n + 1
        /\ layers'[n + 1] = v
        /\ \A i \in 1..n : layers'[i] = layers[i]
    BY <2>1, <2>3, Appended
  <2>5. \A k \in DOMAIN v : v[k] = Scalar(n + 1)
    BY <1>2 DEF Substitutions
  <2>. HIDE DEF n
  <2>. SUFFICES ASSUME NEW k \in Key
       PROVE  LET from == {i \in 1..n + 1 : k \in DOMAIN layers'[i]} IN
              /\ k \in DOMAIN merged' <=> from # {}
              /\ \A i \in from :
                   merged'[k] = Scalar(i) <=> \A j \in from : j <= i
    BY <2>4 DEF LaterHasPrecedence
  <2>. DEFINE from == {i \in 1..n : k \in DOMAIN layers[i]}
              later == {i \in 1..n + 1 : k \in DOMAIN layers'[i]}
  <2>6. /\ k \in DOMAIN merged <=> from # {}
        /\ \A i \in from : merged[k] = Scalar(i) <=> \A j \in from : j <= i
    BY <1>2, <2>4 DEF LaterHasPrecedence
  <2>7. CASE k \in DOMAIN v
    <3>1. later = from \cup {n + 1}
      BY <2>4, <2>7
    <3>2. k \in DOMAIN merged' /\ merged'[k] = Scalar(n + 1)
      BY <2>1, <2>5, <2>7 DEF ShallowMerge
    <3>3. \A i \in from : i \in Nat /\ i < n + 1
      BY <2>4
    <3>4. \A i : Scalar(i) = Scalar(n + 1) <=> i = n + 1
      BY Kinds
    <3>. HIDE DEF from, later
    <3>5. \A i \in later : merged'[k] = Scalar(i) <=> \A j \in later : j <= i
      BY <2>4, <3>1, <3>2, <3>3, <3>4
    <3>. QED BY <3>1, <3>2, <3>5 DEF later
  <2>8. CASE k \notin DOMAIN v
    <3>1. later = from
      BY <2>4, <2>8
    <3>2. /\ k \in DOMAIN merged' <=> k \in DOMAIN merged
          /\ k \in DOMAIN merged => merged'[k] = merged[k]
      BY <2>1, <2>8 DEF ShallowMerge
    <3>3. from # {} => k \in DOMAIN merged
      BY <2>6
    <3>. HIDE DEF from, later
    <3>4. /\ k \in DOMAIN merged' <=> later # {}
          /\ \A i \in later : merged'[k] = Scalar(i) <=> \A j \in later : j <= i
      BY <2>6, <3>1, <3>2, <3>3
    <3>. QED BY <3>4 DEF later
  <2>. QED BY <2>7, <2>8
<1>3. LaterHasPrecedence /\ ValuesInv /\ [Next]_vars => LaterHasPrecedence'
  <2>. SUFFICES ASSUME LaterHasPrecedence, ValuesInv, [Next]_vars, merge' = "shallowMerge"
       PROVE  LaterHasPrecedence'
    BY DEF LaterHasPrecedence
  <2>1. CASE UNCHANGED vars
    BY <2>1 DEF LaterHasPrecedence, vars
  <2>2. ASSUME Len(layers) < MaxLayers,
               NEW v \in Substitutions(Len(layers) + 1), MergeSubstitutions(v)
        PROVE  LaterHasPrecedence'
    BY <1>2, <2>2 DEF MergeSubstitutions
  <2>3. ~Unreadable /\ ~\E v \in Layer[Len(layers) + 1] : MergeValues(v)
    BY DEF Unreadable, MergeValues
  <2>. QED BY <2>1, <2>2, <2>3 DEF Next
<1>. QED BY <1>1, <1>3, ValuesKept, PTL DEF Spec
=============================================================================
