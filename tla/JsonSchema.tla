------------------------------ MODULE JsonSchema ------------------------------
(***************************************************************************)
(* llms/json/schema.py: what a tool's JSON schema says of the place in a   *)
(* value that is being read or normalized, and (external, jsonschema_rs)   *)
(* what makes a value valid.                                               *)
(*                                                                         *)
(* A schema is a record of the keywords it has, named as in JSON Schema    *)
(* but for ref, any, one, all, cond, yes and no.  `type` is the set of its *)
(* types; a pattern is the set of names it matches; a keyword that takes   *)
(* true or false as well is On or Off then; `defs` is what a $ref names.   *)
(* Texts, names among them, are sequences of symbols.  A number n stands   *)
(* for n/10.  An object keeps the order of its members.                    *)
(*                                                                         *)
(* ctx maps the paths of the containers under construction to what they    *)
(* hold so far, Nowhere when there is none.                                *)
(***************************************************************************)
EXTENDS JsonValue, TLC

On  == [bool |-> TRUE]
Off == [bool |-> FALSE]
Known(s, k)    == k \in DOMAIN s
Opened(s, k)   == Known(s, k) /\ s[k] # Off
Subschema(s, k) == Known(s, k) /\ s[k] \notin {On, Off}
Anything == [k \in {} |-> k]
Unknown  == [unknown |-> TRUE]
Nowhere  == [path \in {} |-> path]

NoMembers == [t |-> "object", fields |-> [n \in {} |-> n], order |-> <<>>]
WithMember(o, name, v) ==
  [o EXCEPT !.fields = WithField(@, name, v),
            !.order  = IF name \in DOMAIN o.fields THEN @ ELSE Append(@, name)]
Members(pairs) == FoldLeft(LAMBDA o, p: WithMember(o, p[1], p[2]), NoMembers, pairs)

-----------------------------------------------------------------------------
(* What makes a value valid: the keywords it breaks.                       *)
Types(v) == {v.t} \cup (IF v.t = "number" THEN (IF v.n % 10 = 0 THEN {"integer"} ELSE {}) ELSE {})

Target(root, ref) ==
  IF ref = "#" THEN root
  ELSE IF Known(root, "defs") /\ ref \in DOMAIN root.defs THEN root.defs[ref] ELSE Unknown

(* A node whose references its own definitions do not resolve is one no    *)
(* validator can be made of.                                               *)
RECURSIVE Refs(_), Errors(_, _, _)
Refs(s) ==
  LET of(k) == IF ~Known(s, k) THEN {}
               ELSE IF k \in {"properties", "patternProperties", "dependentSchemas", "defs"}
               THEN UNION {Refs(s[k][n]) : n \in DOMAIN s[k]}
               ELSE IF k \in {"any", "one", "all", "prefixItems"}
               THEN UNION {Refs(s[k][i]) : i \in DOMAIN s[k]}
               ELSE IF Subschema(s, k) THEN Refs(s[k]) ELSE {}
  IN  (IF Known(s, "ref") THEN {s.ref} ELSE {})
        \cup UNION {of(k) : k \in {"properties", "patternProperties", "dependentSchemas", "defs",
                                   "any", "one", "all", "prefixItems", "items",
                                   "additionalProperties", "cond", "yes", "no"}}
Compiles(s) == \A r \in Refs(s) : Target(s, r) # Unknown

Errors(root, s, v) ==
  LET breaks(k, bad) == IF Known(s, k) /\ bad THEN {k} ELSE {}
      sub(k, w)      == IF Subschema(s, k) THEN Errors(root, s[k], w) ELSE {}
      fits(t)        == Errors(root, t, v) = {}
      named(n)       == Known(s, "properties") /\ n \in DOMAIN s.properties
      patterns(n)    == IF Known(s, "patternProperties")
                        THEN {p \in DOMAIN s.patternProperties : n \in p} ELSE {}
      member(n) ==
        (IF named(n) THEN Errors(root, s.properties[n], v.fields[n]) ELSE {})
          \cup UNION {Errors(root, s.patternProperties[p], v.fields[n]) : p \in patterns(n)}
          \cup breaks("propertyNames", n \notin s.propertyNames)
          \cup IF named(n) \/ patterns(n) # {} THEN {}
               ELSE breaks("additionalProperties", s.additionalProperties = Off)
                      \cup sub("additionalProperties", v.fields[n])
      fixed == IF Known(s, "prefixItems") THEN Len(s.prefixItems) ELSE 0
      item(i) == IF i <= fixed THEN Errors(root, s.prefixItems[i], v.items[i])
                 ELSE sub("items", v.items[i])
  IN  breaks("type", Types(v) \cap s.type = {})
        \cup breaks("enum", v \notin s.enum) \cup breaks("const", v # s.const)
        \cup (IF Known(s, "ref") THEN Errors(root, Target(root, s.ref), v) ELSE {})
        \cup (IF ~IsObject(v) THEN {}
              ELSE breaks("required", ~(s.required \subseteq Names(v)))
                     \cup UNION {member(n) : n \in Names(v)}
                     \cup IF ~Known(s, "dependentSchemas") THEN {}
                          ELSE UNION {Errors(root, s.dependentSchemas[n], v) :
                                      n \in Names(v) \cap DOMAIN s.dependentSchemas})
        \cup (IF ~IsArray(v) THEN {} ELSE UNION {item(i) : i \in DOMAIN v.items})
        \cup breaks("any", \A i \in DOMAIN s.any : ~fits(s.any[i]))
        \cup breaks("one", Cardinality({i \in DOMAIN s.one : fits(s.one[i])}) # 1)
        \cup (IF Known(s, "all") THEN UNION {Errors(root, t, v) : t \in Range(s.all)} ELSE {})
        \cup (IF Known(s, "cond") THEN sub(IF fits(s.cond) THEN "yes" ELSE "no", v) ELSE {})

(* _validated: a node is its own root.                                     *)
Validated(s, v) == s # Unknown /\ Compiles(s) /\ Errors(s, s, v) = {}

-----------------------------------------------------------------------------
(* Merging what several schemas say.                                       *)
Overriding == {"type", "items", "prefixItems", "additionalItems", "additionalProperties", "contains",
               "unevaluatedItems", "unevaluatedProperties", "propertyNames"}
Tables     == {"properties", "patternProperties"}

MergedHints(base, overlay) ==
  [k \in DOMAIN base \cup (DOMAIN overlay \ {"ref"}) |->
     CASE k \notin DOMAIN overlay -> base[k]
       [] k \notin DOMAIN base -> overlay[k]
       [] k \in DOMAIN base \cap DOMAIN overlay ->
            IF k \in Tables THEN overlay[k] @@ base[k]
            ELSE IF k \in Overriding THEN overlay[k] ELSE base[k]]

MergedAlternatives(alternatives) ==
  LET merged == FoldLeft(MergedHints, Anything, alternatives)
      open   == SelectSeq(alternatives, LAMBDA s: Opened(s, "additionalProperties"))
  IN  IF open = <<>> THEN merged
      ELSE WithField(merged, "additionalProperties", Last(open).additionalProperties)

-----------------------------------------------------------------------------
(* _resolve_schema_node: references followed, combinations merged into one *)
(* node.  Alternatives that what is there already excludes are left out; a *)
(* condition counts once it is decided.                                    *)
Soft == {"required", "minItems", "minProperties", "contains", "dependentRequired"}

RECURSIVE Dereferenced(_, _, _), Resolved(_, _, _, _, _)

Dereferenced(root, s, seen) ==
  IF ~Known(s, "ref") THEN [node |-> s, seen |-> seen, done |-> FALSE]
  ELSE IF s.ref \in seen \/ Target(root, s.ref) = Unknown
  THEN [node |-> s, seen |-> seen, done |-> TRUE]
  ELSE Dereferenced(root, MergedHints(Target(root, s.ref), Without(s, "ref")), seen \cup {s.ref})

Held(ctx, path) == IF path \in DOMAIN ctx THEN ctx[path] ELSE Null

Own(s) == [k \in DOMAIN s \ {"all", "any", "one"} |-> s[k]]
Alternatives(s) ==
  IF Known(s, "any") THEN s.any ELSE IF Known(s, "one") THEN s.one ELSE <<>>

(* at is the place asked about: its root, ctx and path, the references     *)
(* seen on the way, and what is held there.                                *)
Sub(at, t) == Resolved(at.root, t, at.ctx, at.path, at.seen)

Verdict(errors) ==
  IF errors = {} THEN "match" ELSE IF errors \subseteq Soft THEN "unknown" ELSE "mismatch"
StateOf(node, held) == IF Compiles(node) THEN Verdict(Errors(node, node, held)) ELSE "unknown"
State(at, t) == StateOf(Resolved(at.root, t, Nowhere, <<>>, at.seen), at.held)

OpenOf(at, ts) ==
  SelectSeq([i \in DOMAIN ts |-> Sub(at, ts[i])],
            LAMBDA t: at.held = Null \/ State(at, t) # "mismatch")
WithAlternatives(s, open) ==
  IF open = <<>> THEN s ELSE MergedHints(MergedAlternatives(open), Own(s))
Combined(at, s) ==
  IF Known(s, "all")
  THEN MergedHints(FoldLeft(LAMBDA m, t: MergedHints(m, Sub(at, t)), Anything, s.all), Own(s))
  ELSE WithAlternatives(s, OpenOf(at, Alternatives(s)))

Depending(at, s) ==
  IF ~IsObject(at.held) \/ ~Known(s, "dependentSchemas") THEN s
  ELSE FoldLeft(MergedHints, s,
         [i \in DOMAIN at.held.order |->
            IF at.held.order[i] \in DOMAIN s.dependentSchemas
            THEN Sub(at, s.dependentSchemas[at.held.order[i]]) ELSE Anything])

Branches == [match |-> "yes", mismatch |-> "no", unknown |-> "undecided"]
WithBranch(at, s, k) == IF Known(s, k) THEN MergedHints(s, Sub(at, s[k])) ELSE s
Conditional(at, s) ==
  IF ~IsObject(at.held) \/ ~Known(s, "cond") THEN s
  ELSE WithBranch(at, s, Branches[State(at, s.cond)])

ResolvedAt(at, d) ==
  IF d.done THEN d.node ELSE Conditional(at, Depending(at, Combined(at, d.node)))
ResolvedFrom(root, ctx, path, d) ==
  ResolvedAt([root |-> root, ctx |-> ctx, path |-> path, seen |-> d.seen,
              held |-> Held(ctx, path)], d)
Resolved(root, s, ctx, path, seen) == ResolvedFrom(root, ctx, path, Dereferenced(root, s, seen))

-----------------------------------------------------------------------------
(* _schema_for_path.                                                       *)
NameMatches(s, name) == Known(s, "propertyNames") /\ name \in s.propertyNames

ForKey(s, name) ==
  LET pattern == IF Known(s, "patternProperties")
                 THEN {p \in DOMAIN s.patternProperties : name \in p} ELSE {}
  IN  CASE Known(s, "properties") /\ name \in DOMAIN s.properties -> s.properties[name]
        [] ~(Known(s, "properties") /\ name \in DOMAIN s.properties) /\ pattern # {} ->
             s.patternProperties[CHOOSE p \in pattern : TRUE]
        [] OTHER ->
             LET k == IF Subschema(s, "additionalProperties") THEN "additionalProperties"
                      ELSE "unevaluatedProperties"
             IN  IF Subschema(s, k) /\ (Known(s, "propertyNames") => NameMatches(s, name))
                 THEN s[k] ELSE Unknown
ForIndex(s, i) ==
  LET further == SelectSeq(<<"items", "additionalItems", "unevaluatedItems", "contains">>,
                           LAMBDA k: Subschema(s, k))
  IN  IF Known(s, "prefixItems") /\ i <= Len(s.prefixItems) THEN s.prefixItems[i]
      ELSE IF further # <<>> THEN s[further[1]] ELSE Unknown

(* A path's segments are indices (records, from 1) or names.               *)
Index(i)  == [index |-> i]
ForSegment(s, seg) ==
  IF s = Unknown THEN Unknown
  ELSE IF "index" \in DOMAIN seg THEN ForIndex(s, seg.index) ELSE ForKey(s, seg.key)
ResolvedIn(root, s, ctx, path) ==
  IF s = Unknown THEN Unknown ELSE Resolved(root, s, ctx, path, {})
SchemaForPath(root, path, ctx) ==
  FoldLeft(LAMBDA s, k: ResolvedIn(root, ForSegment(s, path[k]), ctx, SubSeq(path, 1, k)),
           ResolvedIn(root, root, ctx, <<>>), [k \in DOMAIN path |-> k])
Key(name) == [key |-> name]

HasSpecificKeys(s) ==
  Known(s, "properties") \/ Known(s, "patternProperties") \/ Known(s, "propertyNames")
IsSpecificKey(s, name) ==
  \/ Known(s, "properties") /\ name \in DOMAIN s.properties
  \/ Known(s, "patternProperties") /\ \E p \in DOMAIN s.patternProperties : name \in p
  \/ NameMatches(s, name)

(* _schema_accepts_key, _schema_expects_object: of the node at the place.  *)
AcceptsKey(s, name) ==
  \/ IsSpecificKey(s, name)
  \/ /\ ~(Known(s, "additionalProperties") /\ s.additionalProperties = Off)
     /\ \/ /\ Opened(s, "additionalProperties") \/ Opened(s, "unevaluatedProperties")
           /\ ~Known(s, "propertyNames")
        \/ Known(s, "properties") \/ Known(s, "patternProperties")
ExpectsObject(s) == HasSpecificKeys(s) \/ (Known(s, "type") /\ "object" \in s.type)
=============================================================================
