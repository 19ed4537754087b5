------------------------------ MODULE JsonPatch ------------------------------
(***************************************************************************)
(* responses/ingest/patch.py: the JSON patch a reasoning item seals of a   *)
(* thread or of the memory, and what applying it does (the jsonpatch       *)
(* package, RFC 6902).  Elements of an array that stay are matched, first  *)
(* the equal ones in order, then equal ones anywhere, then ones that are   *)
(* cheaper to edit than to send again; the rest is removed, the matched    *)
(* ones are moved into order, the new ones added, the edited ones patched. *)
(*                                                                         *)
(* A path is the sequence of its parts, array indices counted from 0 as in *)
(* a patch; equality of encoded values is equality.  A matching of arrays  *)
(* is a function from target to source positions.                          *)
(***************************************************************************)
EXTENDS JsonValue

RECURSIVE Weight(_), Distance(_, _)

Weight(x) ==
  CASE IsArray(x)  -> 1 + FoldLeft(LAMBDA n, y: n + Weight(y), 0, x.items)
    [] IsObject(x) -> 1 + FoldSet(LAMBDA k, n: n + Weight(x.fields[k]), 0, Names(x))
    [] OTHER       -> 1

Distance(x, y) ==
  CASE x = y -> 0
    [] x # y /\ IsObject(x) /\ IsObject(y) ->
         LET gone == FoldSet(LAMBDA k, n: n + Weight(x.fields[k]), 0, Names(x) \ Names(y))
             new  == FoldSet(LAMBDA k, n: n + Weight(y.fields[k]), 0, Names(y) \ Names(x))
             kept == FoldSet(LAMBDA k, n: n + Distance(x.fields[k], y.fields[k]), 0,
                             Names(x) \cap Names(y))
         IN  gone + new + kept
    [] x # y /\ IsArray(x) /\ IsArray(y) ->
         LET d[i \in 0 .. Len(x.items), j \in 0 .. Len(y.items)] ==
               IF i = 0 /\ j = 0 THEN 0
               ELSE Min((IF i > 0 THEN {d[i - 1, j] + Weight(x.items[i])} ELSE {})
                     \cup (IF j > 0 THEN {d[i, j - 1] + Weight(y.items[j])} ELSE {})
                     \cup (IF i > 0 /\ j > 0
                           THEN {d[i - 1, j - 1] + Distance(x.items[i], y.items[j])} ELSE {}))
         IN  d[Len(x.items), Len(y.items)]
    [] OTHER -> IF x.t = y.t THEN 1 ELSE Weight(x) + Weight(y)

CanAlign(x, y) ==
  /\ x.t = y.t
  /\ (IsArray(x) \/ IsObject(x)) => Distance(x, y) < Min({Weight(x), Weight(y)})

-----------------------------------------------------------------------------
(* _exact_array_matches: a longest common subsequence, the source skipped  *)
(* first where there is a choice.                                          *)
ExactMatches(src, dst) ==
  LET n == Len(src)  m == Len(dst)
      long[i \in 1 .. n + 1, j \in 1 .. m + 1] ==
        IF i > n \/ j > m THEN 0
        ELSE IF src[i] = dst[j] THEN long[i + 1, j + 1] + 1
        ELSE Max({long[i + 1, j], long[i, j + 1]})
      walk[i \in 1 .. n + 1, j \in 1 .. m + 1] ==
        IF i > n \/ j > m THEN << >>
        ELSE IF src[i] = dst[j] THEN WithField(walk[i + 1, j + 1], j, i)
        ELSE IF long[i + 1, j] >= long[i, j + 1] THEN walk[i + 1, j] ELSE walk[i, j + 1]
  IN  walk[1, 1]

(* _array_correspondence: equal elements that have moved, the nearest      *)
(* first and the later of two.                                             *)
MovedMatches(src, dst, exact) ==
  LET Abs(k) == IF k < 0 THEN -k ELSE k
      Match(found, j) ==
        LET free == {i \in DOMAIN src : src[i] = dst[j] /\ i \notin Range(found)}
            near == {i \in free : \A k \in free : Abs(i - j) <= Abs(k - j)}
        IN  IF j \in DOMAIN exact \/ free = {} THEN found
            ELSE WithField(found, j, Max(near))
  IN  FoldLeft(Match, exact, [j \in DOMAIN dst |-> j])

(* ... and the cheapest alignment of what is left, src and dst now being   *)
(* the unmatched elements.                                                 *)
Costs(src, dst) ==
  LET n == Len(src)  m == Len(dst)
      cost[i \in 1 .. n + 1, j \in 1 .. m + 1] ==
        IF i > n /\ j > m THEN 0
        ELSE Min((IF i <= n THEN {cost[i + 1, j] + Weight(src[i])} ELSE {})
              \cup (IF j <= m THEN {cost[i, j + 1] + Weight(dst[j])} ELSE {})
              \cup (IF i <= n /\ j <= m /\ CanAlign(src[i], dst[j])
                    THEN {cost[i + 1, j + 1] + Distance(src[i], dst[j])} ELSE {}))
  IN  cost

Cheapest(src, dst, cost) ==
  LET n == Len(src)  m == Len(dst)
      delete(i, j) == cost[i + 1, j] + Weight(src[i]) = cost[i, j]
      add(i, j)    == cost[i, j + 1] + Weight(dst[j]) = cost[i, j]
      align(i, j)  == /\ CanAlign(src[i], dst[j])
                      /\ cost[i + 1, j + 1] + Distance(src[i], dst[j]) = cost[i, j]
      walk[i \in 1 .. n + 1, j \in 1 .. m + 1] ==
        IF i > n \/ j > m THEN << >>
        ELSE IF n - i > m - j /\ delete(i, j) THEN walk[i + 1, j]
        ELSE IF m - j > n - i /\ add(i, j) THEN walk[i, j + 1]
        ELSE IF align(i, j) THEN WithField(walk[i + 1, j + 1], j, i)
        ELSE IF delete(i, j) THEN walk[i + 1, j] ELSE walk[i, j + 1]
  IN  walk[1, 1]

EditedMatches(src, dst) == Cheapest(src, dst, Costs(src, dst))

InOrder(set)    == SetToSortSeq(set, <)
Picked(seq, at) == [i \in DOMAIN at |-> seq[at[i]]]

(* edits matches the elements at restS with those at restD.                *)
WithEdits(equal, restS, restD, edits) ==
  [j \in DOMAIN equal \cup {restD[k] : k \in DOMAIN edits} |->
     IF j \in DOMAIN equal THEN equal[j]
     ELSE restS[edits[CHOOSE k \in DOMAIN edits : restD[k] = j]]]
EditedBetween(src, dst, equal, restS, restD) ==
  WithEdits(equal, restS, restD, EditedMatches(Picked(src, restS), Picked(dst, restD)))
WithEdited(src, dst, equal) ==
  EditedBetween(src, dst, equal, InOrder(DOMAIN src \ Range(equal)), InOrder(DOMAIN dst \ DOMAIN equal))
Correspondence(src, dst) ==
  WithEdited(src, dst, MovedMatches(src, dst, ExactMatches(src, dst)))

-----------------------------------------------------------------------------
(* _longest_increasing_positions, by patience: tails[k] is the position of *)
(* the least value that ends an increasing run of k.                       *)
IncreasingPositions(values) ==
  LET Place(s, p) ==
        LET k == Cardinality({q \in DOMAIN s.tails : values[s.tails[q]] < values[p]}) + 1
        IN  [tails |-> IF k > Len(s.tails) THEN Append(s.tails, p)
                       ELSE [s.tails EXCEPT ![k] = p],
             prev  |-> Append(s.prev, IF k = 1 THEN 0 ELSE s.tails[k - 1])]
      done == FoldLeft(Place, [tails |-> <<>>, prev |-> <<>>], [p \in DOMAIN values |-> p])
      back[p \in 0 .. Len(values)] == IF p = 0 THEN {} ELSE {p} \cup back[done.prev[p]]
  IN  IF values = <<>> THEN {} ELSE back[Last(done.tails)]

(* _reorder_array: what is not in the longest run moves, from the right,   *)
(* to before its right neighbour.                                          *)
Position(order, marker) == SelectInSeq(order, LAMBDA x: x = marker)
Moved(order, from, to)  == InsertAt(RemoveAt(order, from), to, order[from])
DestinationShifted(order, from, right) == IF right = 0 THEN Len(order) ELSE right
Destination(order, from, right) ==
  IF right = 0 THEN Len(order) ELSE right - (IF from < right THEN 1 ELSE 0)

Moves(path, start, order) ==
  LET still == {order[p] : p \in IncreasingPositions(order)}
      Move(s, p) ==
        LET from  == Position(s.now, order[p])
            right == IF p = Len(order) THEN 0 ELSE Position(s.now, order[p + 1])
            to    == Destination(s.now, from, right)
        IN  IF order[p] \in still \/ from = to THEN s
            ELSE [now |-> Moved(s.now, from, to),
                  ops |-> Append(s.ops, [op |-> "move", from |-> Append(path, from - 1),
                                         path |-> Append(path, to - 1)])]
  IN  FoldRight(LAMBDA p, s: Move(s, p), [p \in DOMAIN order |-> p],
                [now |-> start, ops |-> <<>>]).ops

-----------------------------------------------------------------------------
Removal(path, part) == [op |-> "remove", path |-> Append(path, part)]
Addition(path, part, x) == [op |-> "add", path |-> Append(path, part), value |-> x]

(* diff: _append, _append_object, _append_array.  Names are numbers here,  *)
(* in their sorting order.                                                 *)
RECURSIVE Diff(_, _, _)

ObjectDiff(path, x, y) ==
  LET gone == InOrder(DOMAIN x \ DOMAIN y)
      new  == InOrder(DOMAIN y \ DOMAIN x)
      both == InOrder(DOMAIN x \cap DOMAIN y)
  IN  [i \in DOMAIN gone |-> Removal(path, gone[i])]
        \o [i \in DOMAIN new |-> Addition(path, new[i], y[new[i]])]
        \o FlattenSeq([i \in DOMAIN both |-> Diff(Append(path, both[i]), x[both[i]], y[both[i]])])

ArrayDiff(path, x, y, match) ==
  LET gone == Reverse(InOrder(DOMAIN x \ Range(match)))
      at   == InOrder(DOMAIN match)
      new  == InOrder(DOMAIN y \ DOMAIN match)
  IN  [i \in DOMAIN gone |-> Removal(path, gone[i] - 1)]
        \o Moves(path, InOrder(Range(match)), Picked(match, at))
        \o [i \in DOMAIN new |-> Addition(path, new[i] - 1, y[new[i]])]
        \o FlattenSeq([i \in DOMAIN at |->
              Diff(Append(path, at[i] - 1), x[match[at[i]]], y[at[i]])])

Diff(path, x, y) ==
  CASE x = y -> <<>>
    [] x # y /\ IsObject(x) /\ IsObject(y) -> ObjectDiff(path, x.fields, y.fields)
    [] x # y /\ IsArray(x) /\ IsArray(y) ->
         ArrayDiff(path, x.items, y.items, Correspondence(x.items, y.items))
    [] OTHER -> <<[op |-> "replace", path |-> path, value |-> y]>>

-----------------------------------------------------------------------------
(* jsonpatch.apply_patch, for the operations above.                        *)
RECURSIVE At(_, _), Put(_, _, _)

Child(x, part) == IF IsArray(x) THEN x.items[part + 1] ELSE x.fields[part]
WithChild(x, part, y) ==
  IF IsArray(x) THEN Arr([x.items EXCEPT ![part + 1] = y]) ELSE Obj([x.fields EXCEPT ![part] = y])

At(x, path) == IF path = <<>> THEN x ELSE At(Child(x, Head(path)), Tail(path))
Put(x, path, y) ==
  IF path = <<>> THEN y
  ELSE WithChild(x, Head(path), Put(Child(x, Head(path)), Tail(path), y))

Removed(x, path) ==
  LET p == At(x, Front(path))
  IN  Put(x, Front(path),
          IF IsArray(p) THEN Arr(RemoveAt(p.items, Last(path) + 1))
          ELSE Obj(Without(p.fields, Last(path))))
Added(x, path, y) ==
  LET p == At(x, Front(path))
  IN  Put(x, Front(path),
          IF IsArray(p) THEN Arr(InsertAt(p.items, Last(path) + 1, y))
          ELSE Obj(WithField(p.fields, Last(path), y)))

ApplyOp(x, o) ==
  CASE o.op = "remove"  -> Removed(x, o.path)
    [] o.op = "add"     -> Added(x, o.path, o.value)
    [] o.op = "move"    -> Added(Removed(x, o.from), o.path, At(x, o.from))
    [] o.op = "replace" -> Put(x, o.path, o.value)

Patched(x, ops) == FoldLeft(ApplyOp, x, ops)
=============================================================================
