---------------------------- MODULE NestedValues ----------------------------
(***************************************************************************)
(* deepMerge as it is written: nested maps, merged call by call. Values    *)
(* says the same path by path; MergesCallByCall compares the two on every  *)
(* sequence of layers TLC reaches. TLC only: it recurs.                    *)
(***************************************************************************)
EXTENDS Values

Map(entries) == [kind |-> "map", entries |-> entries]
Entries(v) == IF v.kind = "map" THEN v.entries ELSE <<>>

(* A write into a nil map.                                                 *)
Panic == [kind |-> "panic"]

RECURSIVE DeepMergeCall(_, _)

(* Mutation of Assign: a missing type assertion, a scalar replaces a map.  *)
AssignUnasserted(v, w) ==
  IF IsMap(v) /\ IsMap(w) THEN DeepMergeCall(v, w) ELSE w

(* x[k] becomes v merged with w, w, or the nil map the assertion returns.  *)
Assign(v, w) ==
  IF ~IsMap(v) THEN w
  ELSE IF IsMap(w) THEN DeepMergeCall(v, w) ELSE NilMap

DeepMergeCall(x, y) ==
  LET old == DOMAIN Entries(x)
      new == DOMAIN Entries(y)
      entries == [k \in old \cup new |->
                    IF k \notin new THEN Entries(x)[k]
                    ELSE IF k \notin old THEN Entries(y)[k]
                    ELSE Assign(Entries(x)[k], Entries(y)[k])]
  IN  CASE x = NilMap -> IF new = {} THEN x ELSE Panic
        [] \E k \in old \cup new : entries[k] = Panic -> Panic
        [] OTHER -> Map(entries)

-----------------------------------------------------------------------------
RECURSIVE NestedAt(_, _)

(* The map at a path of v.                                                 *)
NestedAt(v, p) ==
  Map([k \in {k \in Key : Append(p, k) \in DOMAIN v} |->
         LET q == Append(p, k)
         IN  IF v[q] = MapNode THEN NestedAt(v, q) ELSE v[q]])

Nested(v) == NestedAt(v, <<>>)

(* Merging the nested maps call by call, as the code does, panics where    *)
(* the merge by paths does and gives the same values otherwise.            *)
MergesCallByCall ==
  merge = "deepMerge" =>
    LET result == FoldLeft(LAMBDA x, v : IF x = Panic THEN x ELSE DeepMergeCall(x, Nested(v)),
                           Map(<<>>), layers)
    IN  IF status = "panicked" THEN result = Panic ELSE result = Nested(merged)
=============================================================================
