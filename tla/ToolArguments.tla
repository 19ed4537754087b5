----------------------------- MODULE ToolArguments -----------------------------
(***************************************************************************)
(* The arguments of a tool call, as the loop takes them: recovered from    *)
(* what the model wrote (JsonRecovery) and, once it is whole, normalized   *)
(* to the tool's schema (llms/json/normalize.py; llms/accumulator.py,      *)
(* _repair_tool_call).                                                     *)
(***************************************************************************)
EXTENDS JsonRecovery

Scalars  == {"string", "number", "boolean", "null"}
TypesOf(s) == IF Known(s, "type") THEN s.type ELSE {}

(* What a node's const and enum name.                                      *)
Targets(s) ==
  {x \in (IF Known(s, "const") THEN {s.const} ELSE {})
           \cup (IF Known(s, "enum") THEN s.enum ELSE {}) : x.t \in Scalars}

(* _normalized_string_candidates: the target the text is, or the only one  *)
(* it is but for case.                                                     *)
TextTargets(text, targets) ==
  LET exact  == {x \in targets : x.s = text}
      folded == {x \in targets : Lowered(x.s) = Lowered(text)}
  IN  IF exact # {} THEN exact ELSE IF Cardinality(folded) = 1 THEN folded ELSE {}

Boolean(text) ==
  CASE Lowered(text) = <<"true">>  -> {Bool(TRUE)}
    [] Lowered(text) = <<"false">> -> {Bool(FALSE)} [] OTHER -> {}
Nothing(text) == IF Lowered(text) \in {<<"null">>, <<"none">>} THEN {Null} ELSE {}
Number(text)  == {NumberOf(text)} \ {Unknown}

(* _normalized_scalar_candidates.                                          *)
Candidates(text, s) ==
  LET strings == {x \in Targets(s) : x.t = "string"}
      others  == Targets(s) \ strings
      meant   == Number(text) \cup Boolean(text) \cup Nothing(text)
      typed   == {x \in meant : Types(x) \cap TypesOf(s) # {}}
  IN  TextTargets(text, strings) \cup (meant \cap others) \cup typed

OnlyOr(v, valid) == IF Cardinality(valid) = 1 THEN CHOOSE x \in valid : TRUE ELSE v
NormalScalar(v, s) ==
  IF v.t = "string" THEN OnlyOr(v, {x \in Candidates(Stripped(v.s), s) : Validated(s, x)}) ELSE v

TargetsArray(s) ==
  \/ "array" \in TypesOf(s)
  \/ \E k \in {"items", "prefixItems", "additionalItems", "contains", "unevaluatedItems"} : Known(s, k)
  \/ Known(s, "const") /\ IsArray(s.const)
  \/ Known(s, "enum") /\ \E x \in s.enum : IsArray(x)

(* _normalize_node.  A value that is not valid is tried as the only one of *)
(* an array, once in the same place; else its members are normalized, each *)
(* in the context of those before it.                                      *)
RECURSIVE Normal(_, _, _, _, _)

NormalArray(items, root, path, ctx, wraps) ==
  Arr(FoldLeft(LAMBDA done, x: Append(done, Normal(x, root, Append(path, Index(Len(done) + 1)),
                                                   WithField(ctx, path, Arr(done)), wraps)),
               <<>>, items))

NormalObject(o, root, path, ctx, wraps) ==
  FoldLeft(LAMBDA done, name:
             WithMember(done, name, Normal(o.fields[name], root, Append(path, Key(name)),
                                           WithField(ctx, path, done), wraps)),
           NoMembers, o.order)

Inside(s, v, root, path, ctx, wraps) ==
  CASE IsArray(v)  -> NormalArray(v.items, root, path, ctx, wraps)
    [] IsObject(v) -> NormalObject(v, root, path, ctx, wraps)
    [] OTHER       -> NormalScalar(v, s)

WrappedOr(s, wrapped, otherwise) == IF Validated(s, wrapped) THEN wrapped ELSE otherwise

NormalAs(s, v, root, path, ctx, wraps) ==
  IF s = Unknown \/ Validated(s, v) THEN v
  ELSE IF TargetsArray(s) /\ <<s, v>> \notin wraps
  THEN WrappedOr(s, NormalArray(<<v>>, root, path, ctx, wraps \cup {<<s, v>>}),
                 Inside(s, v, root, path, ctx, wraps))
  ELSE Inside(s, v, root, path, ctx, wraps)

Normal(v, root, path, ctx, wraps) ==
  NormalAs(SchemaForPath(root, path, ctx), v, root, path, ctx, wraps)

Normalized(v, schema) ==
  IF schema = Unknown \/ Validated(schema, v) THEN v ELSE Normal(v, schema, <<>>, Nowhere, {})

(* _repair_tool_call: the object the arguments become, or Unknown when     *)
(* they stay as they are.                                                  *)
RepairedAs(r, partial, schema) ==
  IF r.outcome = "rejected" \/ ~IsObject(r.value) THEN Unknown
  ELSE IF partial THEN r.value ELSE Normalized(r.value, schema)
Repaired(text, partial, schema) ==
  RepairedAs(Recover(text, partial, schema), partial, schema)
=============================================================================
