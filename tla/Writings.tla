------------------------------- MODULE Writings -------------------------------
(***************************************************************************)
(* How a model writes the arguments it means: JSON, or nearly.  These are  *)
(* the references ToolArguments is checked against: whatever the manner,   *)
(* the repaired arguments are the value meant, and a text that is cut off  *)
(* gives what had been written by then.                                    *)
(*                                                                         *)
(* A manner is a record:                                                   *)
(*   quote    the quote of strings and keys                                *)
(*   bare     whether keys are written without quotes                      *)
(*   comma    between members: "one", "trailing" or "none"; arrays have    *)
(*            theirs always                                                *)
(*   gap      what stands between symbols: nothing, or a comment           *)
(*   braces   "all", "inner" without those of inner objects, "root"        *)
(*            without the outer ones                                       *)
(*   loose    scalars as strings, arrays of one without brackets           *)
(*   closed   FALSE if the closing brackets at the end are missing         *)
(*   prose    what comes before                                            *)
(***************************************************************************)
EXTENDS ToolArguments

Escaped(text, quote) ==
  FlattenSeq([i \in DOMAIN text |->
                CASE text[i] = "\n" -> <<"\\", "n">>
                  [] text[i] \in {quote, "\\"} -> <<"\\", text[i]>>
                  [] OTHER -> <<text[i]>>])
InQuotes(text, quote) == <<quote>> \o Escaped(text, quote) \o <<quote>>

Symbol(d) == <<"0", "1", "2", "3">>[d + 1]
WholePart(n) == IF n < 10 THEN <<Symbol(n)>> ELSE <<Symbol(n \div 10), Symbol(n % 10)>>
Literal(v, loose) ==
  CASE v.t = "number"  -> WholePart(v.n \div 10) \o IF v.n % 10 = 0 THEN <<>> ELSE <<".", Symbol(v.n % 10)>>
    [] v.t = "boolean" -> <<IF ~v.b THEN "false" ELSE IF loose THEN "True" ELSE "true">>
    [] OTHER           -> <<IF loose THEN "None" ELSE "null">>

Joined(texts, between) ==
  FlattenSeq([i \in DOMAIN texts |-> texts[i] \o IF i < Len(texts) THEN between ELSE <<>>])

RECURSIVE Write(_, _, _)
Write(v, m, outer) ==
  LET comma    == <<",">> \o m.gap
      trailing == IF m.comma = "trailing" THEN comma ELSE <<>>
      between  == IF m.comma = "none" THEN m.gap \o <<" ">> ELSE comma
      member(name) == (IF m.bare THEN name ELSE InQuotes(name, m.quote)) \o <<":">> \o m.gap
                        \o Write(v.fields[name], m, FALSE)
      braced   == IF outer THEN m.braces # "root" ELSE m.braces # "inner"
      members  == m.gap \o Joined([i \in DOMAIN v.order |-> member(v.order[i])], between)
                    \o trailing
  IN  CASE v.t = "string" -> InQuotes(v.s, m.quote)
        [] v.t \in Scalars \ {"string"} ->
             IF m.loose THEN InQuotes(Literal(v, TRUE), m.quote) ELSE Literal(v, FALSE)
        [] IsArray(v) ->
             IF m.loose /\ Len(v.items) = 1 /\ ~(IsObject(v.items[1]) /\ m.braces = "inner")
             THEN Write(v.items[1], m, FALSE)
             ELSE <<"[">> \o m.gap
                    \o Joined([i \in DOMAIN v.items |-> Write(v.items[i], m, FALSE)], comma)
                    \o trailing \o <<"]">>
        [] IsObject(v) -> IF braced THEN <<"{">> \o members \o <<"}">> ELSE members

Written(v, m) ==
  LET text == Write(v, m, TRUE)
      last == Max({i \in DOMAIN text : text[i] \notin {"}", "]", ",", " "}})
  IN  m.prose \o IF m.closed THEN text ELSE SubSeq(text, 1, last)

(* Without its outer braces an object is found only by a key the schema    *)
(* names: nothing in brackets may come before the end, no quote before the *)
(* key.                                                                    *)
Readable(v, m) ==
  m.braces = "root" =>
    /\ \A name \in Names(v) : v.fields[name].t \in Scalars
    /\ Range(m.prose) \cap Quotes = {}

(* Manners a text keeps its meaning in wherever it is cut.  (Without a     *)
(* comma the next key is read as part of the text until its colon comes.)  *)
Steady(m) == /\ m.braces = "all" /\ m.comma # "none" /\ m.prose = <<>>
             /\ m.closed /\ ~m.loose

-----------------------------------------------------------------------------
(* w is what v is when its text is cut off: the last member may be cut     *)
(* itself, or be a key without a value; a string that is cut is not        *)
(* decoded while more may come.                                            *)
RECURSIVE CutFrom(_, _, _, _)
CutFrom(v, w, m, partial) ==
  CASE w = v \/ w = Null -> TRUE
    [] IsArray(v) /\ IsArray(w) ->
         LET n == Len(w.items)
         IN  n <= Len(v.items) /\ (n > 0 => /\ Front(w.items) = SubSeq(v.items, 1, n - 1)
                                            /\ CutFrom(v.items[n], w.items[n], m, partial))
    [] IsObject(v) /\ IsObject(w) ->
         LET n == Len(w.order)
         IN  /\ n <= Len(v.order)
             /\ \A i \in 1 .. n - 1 : /\ w.order[i] = v.order[i]
                                      /\ w.fields[w.order[i]] = v.fields[w.order[i]]
             /\ n > 0 => IF w.order[n] = v.order[n]
                         THEN CutFrom(v.fields[v.order[n]], w.fields[v.order[n]], m, partial)
                         ELSE w.fields[w.order[n]] = Null /\ IsPrefix(w.order[n], v.order[n])
    [] v.t = "string" /\ w.t = "string" ->
         LET raw == Escaped(v.s, m.quote)
         IN  \E n \in 0 .. Len(raw) :
               w.s = IF partial THEN SubSeq(raw, 1, n) ELSE Decoded(SubSeq(raw, 1, n))
    [] OTHER -> v.t \in {"number", "boolean"} /\ w.t \in Scalars
=============================================================================
