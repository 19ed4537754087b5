------------------------------ MODULE JsonValue ------------------------------
(***************************************************************************)
(* JSON values.  An array carries its items, an object its fields (a       *)
(* function from names to values); a scalar is a string, a number, a       *)
(* Boolean or null and carries what tells it from the others of its type.  *)
(***************************************************************************)
EXTENDS Integers, Sequences, FiniteSets, SequencesExt, FiniteSetsExt, Functions

Arr(items)  == [t |-> "array", items |-> items]
Obj(fields) == [t |-> "object", fields |-> fields]
Num(n)      == [t |-> "number", n |-> n]
Str(s)      == [t |-> "string", s |-> s]
Bool(b)     == [t |-> "boolean", b |-> b]
Null        == [t |-> "null"]

IsArray(x)  == x.t = "array"
IsObject(x) == x.t = "object"
Names(x)    == DOMAIN x.fields

Without(fields, name)      == [n \in DOMAIN fields \ {name} |-> fields[n]]
WithField(fields, name, x) ==
  [n \in DOMAIN fields \cup {name} |-> IF n = name THEN x ELSE fields[n]]
=============================================================================
