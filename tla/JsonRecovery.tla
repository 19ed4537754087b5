----------------------------- MODULE JsonRecovery -----------------------------
(***************************************************************************)
(* llms/json/recovery.py: the value a model meant by the arguments it      *)
(* wrote, when they are not JSON.                                          *)
(*                                                                         *)
(* A text is a sequence of symbols: the characters that matter, "//", "/*" *)
(* and "*/" as one symbol each, and words or letters, which are whatever   *)
(* is no sign and no digit.  Hexadecimal numbers, exponents and \u and \x  *)
(* are left out.  Positions are from 1; the end is the length plus 1.      *)
(***************************************************************************)
EXTENDS JsonSchema

Spaces == {" ", "\n"}
Apostrophe == "'"
Quotes == {"\"", Apostrophe}
Digits == {"0", "1", "2", "3"}
Signs  == Spaces \cup Quotes \cup {"{", "}", "[", "]", "(", ")", ",", ":", "\\", "//", "/*", "*/",
                                   "+", "-", ".", "_", "@", "$", "!"}
End  == "end of text"
NoKey == <<End>>

At(text, i)  == IF i <= Len(text) THEN text[i] ELSE End
IsAlpha(c)   == c \notin Signs \cup Digits \cup {End}
IsAlnum(c)   == IsAlpha(c) \/ c \in Digits
FirstFrom(text, i, P(_)) == Min({j \in i .. Len(text) : P(text[j])} \cup {Len(text) + 1})

(* Letter case: what these words are in lower case.                        *)
Lower(c) == CASE c = "True" -> "true" [] c = "ON" -> "on" [] c = "User" -> "user"
              [] c = "None" -> "none" [] OTHER -> c
Lowered(text) == [i \in DOMAIN text |-> Lower(text[i])]

Stripped(text) ==
  LET said == {i \in DOMAIN text : text[i] \notin Spaces}
  IN  IF said = {} THEN <<>> ELSE SubSeq(text, Min(said), Max(said))

RECURSIVE Skip(_, _), NextQuote(_, _, _), Decoded(_)

(* _skip_ignorable: spaces and comments.                                   *)
SkipSpaces(text, i) == FirstFrom(text, i, LAMBDA c: c \notin Spaces)
SkipComment(text, j) ==
  CASE At(text, j) = "//" -> Skip(text, FirstFrom(text, j, LAMBDA c: c = "\n"))
    [] At(text, j) = "/*" -> Skip(text, FirstFrom(text, j, LAMBDA c: c = "*/") + 1)
    [] OTHER -> j
Skip(text, i) == SkipComment(text, SkipSpaces(text, i))

(* The first unescaped quote from i on, or the end.                        *)
NextQuote(text, i, quote) ==
  IF i > Len(text) THEN Len(text) + 1
  ELSE IF text[i] = "\\" THEN NextQuote(text, i + 2, quote)
  ELSE IF text[i] = quote THEN i ELSE NextQuote(text, i + 1, quote)

(* _decode_relaxed_string.                                                 *)
Decoded(text) ==
  IF text = <<>> THEN <<>>
  ELSE IF Head(text) # "\\" \/ Len(text) = 1 THEN <<Head(text)>> \o Decoded(Tail(text))
  ELSE (CASE text[2] = "\n" -> <<>>
          [] text[2] = "n" -> <<"\n">>
          [] text[2] \in Quotes \cup {"\\"} -> <<text[2]>>
          [] OTHER -> <<"\\", text[2]>>) \o Decoded(SubSeq(text, 3, Len(text)))

-----------------------------------------------------------------------------
(* What comes before the value.                                            *)
RECURSIVE FirstContainer(_, _), Uncommented(_)

(* _trim_to_first_container: its position, or 0.                           *)
IsInWord(text, i) ==
  text[i] = Apostrophe /\ i > 1 /\ IsAlnum(text[i - 1]) /\ IsAlnum(At(text, i + 1))
FirstContainer(text, i) ==
  CASE At(text, i) = End -> 0
    [] At(text, i) \in {"{", "["} -> i
    [] At(text, i) \in Quotes /\ ~IsInWord(text, i) ->
         FirstContainer(text, NextQuote(text, i + 1, text[i]) + 1)
    [] OTHER -> FirstContainer(text, i + 1)
FromPlace(text, i) == IF i = 0 THEN text ELSE SubSeq(text, i, Len(text))
Trimmed(text) == FromPlace(text, FirstContainer(text, 1))
HasContainer(text) ==
  Trimmed(text) # text \/ (Stripped(text) # <<>> /\ Stripped(text)[1] \in {"{", "["})

(* _strip_comments.                                                        *)
LeadEnd(text) ==
  CASE text[1] \in Quotes -> NextQuote(text, 2, text[1])
    [] text[1] = "//" -> FirstFrom(text, 1, LAMBDA c: c = "\n") - 1
    [] text[1] = "/*" -> FirstFrom(text, 1, LAMBDA c: c = "*/")
    [] OTHER -> 1
LeadKept(text, e) == IF text[1] \in {"//", "/*"} THEN <<>> ELSE SubSeq(text, 1, e)
UncommentedAfter(text, e) == LeadKept(text, e) \o Uncommented(SubSeq(text, e + 1, Len(text)))
Uncommented(text) ==
  IF text = <<>> THEN <<>> ELSE UncommentedAfter(text, Min({LeadEnd(text), Len(text)}))

Keyword(word) == Len(word) = 1 /\ Lower(word[1]) \in {"true", "false", "null", "none"}
IsSimpleToken(text) ==
  LET t == Stripped(text)
  IN  t # <<>> /\ \/ t[1] \in Quotes \cup Digits \cup {"+", "-", "."}
                  \/ Range(t) \cap Spaces = {}

IdentifierEnd(text, i) ==
  IF IsAlpha(At(text, i)) \/ At(text, i) \in {"_", "$"}
  THEN FirstFrom(text, i, LAMBDA c: ~IsAlnum(c) /\ c \notin {"_", ".", "$", "-"}) ELSE i

(* _looks_like_next_key, _starts_with_schema_key: a key the schema takes,  *)
(* and a colon behind it.                                                  *)
KeyEnd(text, i) ==
  IF At(text, i) \in Quotes THEN NextQuote(text, i + 1, text[i]) ELSE IdentifierEnd(text, i)
KeyBetween(text, i, e) ==
  [key |-> SubSeq(text, IF At(text, i) \in Quotes THEN i + 1 ELSE i, e - 1),
   colon |-> /\ e <= Len(text)
             /\ At(text, Skip(text, IF At(text, i) \in Quotes THEN e + 1 ELSE e)) = ":"]
KeyHere(text, i) == KeyBetween(text, i, KeyEnd(text, i))
KeyAhead(text, i, Takes(_)) ==
  LET k == KeyHere(text, Skip(text, i)) IN k.colon /\ k.key # <<>> /\ Takes(k.key)

(* _trim_to_first_schema_key: 0 when there is none.                        *)
FirstKey(text, Takes(_)) ==
  LET at == {i \in Skip(text, 1) .. Len(text) :
               /\ text[i] \in Quotes \cup {"_"} \/ IsAlpha(text[i])
               /\ KeyAhead(text, i, Takes)
               /\ \A j \in 1 .. i - 1 : text[j] \notin Quotes \cup {",", "{", "}", "[", "]"}}
  IN  IF at = {} THEN 0 ELSE Min(at)

-----------------------------------------------------------------------------
(* The parser.  A text, its schema and whether it is partial make an       *)
(* environment; the result of reading a value is the value, the position   *)
(* behind it, and whether the text ended within it or was not understood.  *)
Got(v, i)     == [v |-> v, i |-> i, cut |-> FALSE, rejected |-> FALSE]
CutOff(v, i)  == [v |-> v, i |-> i, cut |-> TRUE, rejected |-> FALSE]
Rejected(i)   == [v |-> Null, i |-> i, cut |-> FALSE, rejected |-> TRUE]

Node(env, path, ctx) == SchemaForPath(env.schema, path, ctx)
NextKey(env, path, ctx, i) ==
  KeyAhead(env.text, i, LAMBDA key: AcceptsKey(Node(env, path, ctx), key))

(* _normalize_number.                                                      *)
ValueOf(digits) ==
  FoldLeft(LAMBDA n, d: 10 * n + (CASE d = "0" -> 0 [] d = "1" -> 1 [] d = "2" -> 2 [] OTHER -> 3),
           0, digits)
Split(body, dot) == <<SubSeq(body, 1, dot - 1), SubSeq(body, dot + 1, Len(body))>>
Tenths(whole, part) == 10 * ValueOf(whole) + (IF part = <<>> THEN 0 ELSE ValueOf(<<part[1]>>))
Signed(negative, parts) ==
  IF parts[1] \o parts[2] = <<>> \/ ~(Range(parts[1] \o parts[2]) \subseteq Digits) THEN Unknown
  ELSE Num((IF negative THEN -1 ELSE 1) * Tenths(parts[1], parts[2]))
NumberOf(token) ==
  LET signed == token # <<>> /\ token[1] \in {"+", "-"}
      body   == IF signed THEN Tail(token) ELSE token
  IN  Signed(signed /\ token[1] = "-", Split(body, FirstFrom(body, 1, LAMBDA c: c = ".")))
ScalarOf(token) ==
  CASE Keyword(token) -> CASE Lower(token[1]) = "true" -> Bool(TRUE)
                           [] Lower(token[1]) = "false" -> Bool(FALSE) [] OTHER -> Null
    [] ~Keyword(token) /\ NumberOf(token) # Unknown -> NumberOf(token)
    [] OTHER -> Str(token)

RECURSIVE GreedyEnd(_, _, _, _, _, _), StringFrom(_, _, _, _, _, _, _),
          ArrayFrom(_, _, _, _, _), ObjectFrom(_, _, _, _, _, _), ValueFrom(_, _, _, _, _)

(* _capture_greedy_value: up to what ends a value outside of quotes and    *)
(* brackets.                                                               *)
Closing(c) == CASE c = "(" -> ")" [] c = "[" -> "]" [] OTHER -> "}"
GreedyEnd(env, i, stack, path, ctx, member) ==
  LET c == At(env.text, i)
      On1(s) == GreedyEnd(env, i + 1, s, path, ctx, member)
  IN  CASE c = End -> Len(env.text) + 1
        [] /\ stack = <<>>
           /\ c \in {",", "}", "]"} \/ (member /\ NextKey(env, Front(path), ctx, i)) -> i
        [] c \in Quotes ->
             GreedyEnd(env, NextQuote(env.text, i + 1, c) + 1, stack, path, ctx, member)
        [] c \in {"(", "[", "{"} -> On1(Append(stack, c))
        [] c \in {")", "]", "}"} /\ stack # <<>> /\ Closing(Last(stack)) = c -> On1(Front(stack))
        [] c \in {"]", "}"} -> i
        [] OTHER -> On1(stack)
Until(env, i, e) == Got(Stripped(SubSeq(env.text, i, e - 1)), e)
Greedy(env, i, path, ctx, member) ==
  Until(env, i, GreedyEnd(env, i, <<>>, path, ctx, member))

(* _parity_normalize_quoted_expression.                                    *)
Unquoted(text) ==
  LET inner == SubSeq(text, 2, Len(text) - 1)
      more  == Cardinality({i \in DOMAIN inner : /\ inner[i] = text[1]
                                                 /\ i > 1 => inner[i - 1] # "\\"})
  IN  IF /\ Len(text) >= 2 /\ text[1] \in Quotes /\ Last(text) = text[1]
         /\ more % 2 = 1 \/ more = 0
      THEN Decoded(inner) ELSE Decoded(text)

(* _parse_string_value, from the quote at `start`; `seen` is whether a     *)
(* quote has been met that does not close it.                              *)
ClosesValue(env, path, ctx, i, member) ==
  \/ At(env.text, Skip(env.text, i)) \in {End, ",", "}", "]"}
  \/ member /\ NextKey(env, Front(path), ctx, i)
IsExpression(env, i, e) ==
  LET between == SubSeq(env.text, i, e - 1)
  IN  /\ e <= Len(env.text) /\ Stripped(between) # <<>>
      /\ \/ between # Stripped(between)
         \/ \E k \in DOMAIN between : ~IsAlnum(between[k]) /\ between[k] \notin {"_", ".", "$", "-"}
Expression(all) == Got(Str(Unquoted(all.v)), all.i)

StringUntil(env, start, e, seen, path, ctx, member) ==
  LET raw == SubSeq(env.text, start + 1, e - 1)
  IN  CASE e > Len(env.text) -> CutOff(Str(IF env.partial THEN raw ELSE Decoded(raw)), e)
        [] e <= Len(env.text) /\ ClosesValue(env, path, ctx, e + 1, member) ->
             Got(Str(Decoded(raw)), e + 1)
        [] OTHER ->
             IF ~seen /\ IsExpression(env, e + 1, NextQuote(env.text, e + 1, env.text[start]))
             THEN Expression(Greedy(env, start, path, ctx, member))
             ELSE StringFrom(env, start, e + 1, TRUE, path, ctx, member)
StringFrom(env, start, i, seen, path, ctx, member) ==
  StringUntil(env, start, NextQuote(env.text, i, env.text[start]),
              seen, path, ctx, member)

(* _parse_number_or_token.                                                 *)
TokenEnd(text, i) ==
  FirstFrom(text, i, LAMBDA c: c \in Spaces \cup Quotes \cup {",", "]", "}", "[", "{", "(", ")"})
AsScalar(r) == Got(ScalarOf(r.v), r.i)
TokenFrom(env, i, path, ctx, member) ==
  AsScalar(IF env.text[i] \in Digits \cup {"+", "-", "."}
           THEN Until(env, i, TokenEnd(env.text, i)) ELSE Greedy(env, i, path, ctx, member))

(* _parse_key: it is NoKey when there is none at i.                        *)
KeyUntil(env, i, e) ==
  LET raw == SubSeq(env.text, i + 1, e - 1)
  IN  IF e <= Len(env.text) THEN Got(Decoded(raw), e + 1)
      ELSE CutOff(IF env.partial THEN raw ELSE Decoded(raw), e)
NumberEnd(text, i) ==
  FirstFrom(text, IF text[i] = "-" THEN i + 1 ELSE i,
            LAMBDA d: d \notin Digits \cup {".", "+", "-"})
NumericKey(text, i, e) ==
  IF \E k \in i .. e - 1 : text[k] \in Digits THEN Got(SubSeq(text, i, e - 1), e) ELSE Got(NoKey, i)
BareKey(text, i, e) == IF e = i THEN Got(NoKey, i) ELSE Got(SubSeq(text, i, e - 1), e)
KeyFrom(env, i) ==
  LET c == At(env.text, i)
  IN  CASE c \in Quotes ->
             KeyUntil(env, i, NextQuote(env.text, i + 1, c))
        [] c \in Digits \cup {"-"} -> NumericKey(env.text, i, NumberEnd(env.text, i))
        [] OTHER -> BareKey(env.text, i, IdentifierEnd(env.text, i))

AlsoCut(result, r) == [result EXCEPT !.cut = @ \/ r.cut]

(* _parse_array, with the items it holds so far: from the place j of its   *)
(* next symbol, and behind an item that was read as r.                     *)
AfterItem(env, j, path, ctx, items, r) ==
  IF r.rejected \/ r.i = j THEN Rejected(j)
  ELSE AlsoCut(ArrayFrom(env, r.i, path, ctx, Append(items, r.v)), r)
ArrayAt(env, j, path, ctx, items) ==
  CASE At(env.text, j) \in {End, "}"} -> CutOff(Arr(items), j)
    [] At(env.text, j) = "]" -> Got(Arr(items), j + 1)
    [] At(env.text, j) = "," -> ArrayFrom(env, j + 1, path, ctx, items)
    [] OTHER ->
         AfterItem(env, j, path, ctx, items,
                   ValueFrom(env, j, Append(path, Index(Len(items) + 1)),
                             WithField(ctx, path, Arr(items)), FALSE))
ArrayFrom(env, i, path, ctx, items) == ArrayAt(env, Skip(env.text, i), path, ctx, items)

(* _parse_object, with the members it holds so far: from the place j of    *)
(* its next symbol, behind a key, at what follows the key's colon, and     *)
(* behind a member that was read as r.                                     *)
IsMemberEnd(env, path, ctx, o, i) ==
  At(env.text, i) \in {",", "}", End} \/ NextKey(env, path, WithField(ctx, path, o), i)
AfterMember(env, path, ctx, o, implicit, r) ==
  IF implicit /\ ~IsMemberEnd(env, path, ctx, o, Skip(env.text, r.i))
  THEN [r EXCEPT !.v = o, !.i = Skip(env.text, r.i)]
  ELSE AlsoCut(ObjectFrom(env, r.i, path, ctx, o, implicit), r)
AfterValue(env, start, path, ctx, o, implicit, key, r) ==
  IF r.rejected \/ r.i = start THEN Rejected(start)
  ELSE AfterMember(env, path, ctx, WithMember(o, key, r.v), implicit, r)
AfterColon(env, start, path, ctx, o, implicit, key) ==
  CASE At(env.text, start) = End -> CutOff(WithMember(o, key, Null), start)
    [] At(env.text, start) \in {",", "}"} ->
         ObjectFrom(env, start, path, ctx, WithMember(o, key, Null), implicit)
    [] OTHER ->
         AfterValue(env, start, path, ctx, o, implicit, key,
                    ValueFrom(env, start, Append(path, Key(key)), WithField(ctx, path, o), TRUE))
AfterKey(env, j, path, ctx, o, implicit, key, colon) ==
  CASE At(env.text, colon) = End -> CutOff(WithMember(o, key, Null), colon)
    [] At(env.text, colon) \notin {End, ":"} ->
         ObjectFrom(env, colon, path, ctx, WithMember(o, key, Null), implicit)
    [] At(env.text, colon) = ":" /\ implicit /\ key \in Names(o) -> Got(o, j)
    [] OTHER -> AfterColon(env, Skip(env.text, colon + 1), path, ctx, o, implicit, key)
MemberFrom(env, j, path, ctx, o, implicit, k) ==
  CASE k.v # NoKey -> AfterKey(env, j, path, ctx, o, implicit, k.v, Skip(env.text, k.i))
    [] k.v = NoKey /\ At(env.text, k.i) = End -> CutOff(o, k.i)
    [] OTHER -> ObjectFrom(env, k.i + 1, path, ctx, o, implicit)
ObjectAt(env, j, path, ctx, o, implicit) ==
  CASE At(env.text, j) = End -> CutOff(o, j)
    [] At(env.text, j) = "}" -> Got(o, j + 1)
    [] At(env.text, j) = "]" /\ implicit -> Got(o, j)
    [] At(env.text, j) = "," -> ObjectFrom(env, j + 1, path, ctx, o, implicit)
    [] OTHER -> MemberFrom(env, j, path, ctx, o, implicit, KeyFrom(env, j))
ObjectFrom(env, i, path, ctx, o, implicit) ==
  ObjectAt(env, Skip(env.text, i), path, ctx, o, implicit)

(* _parse_value.                                                           *)
AsText(r) == Got(Str(r.v), r.i)
ValueAt(env, j, path, ctx, member) ==
  LET c == At(env.text, j)
  IN  CASE c = End -> CutOff(Null, j)
        [] c = "{" -> ObjectFrom(env, j + 1, path, ctx, NoMembers, FALSE)
        [] ExpectsObject(Node(env, path, ctx)) /\ NextKey(env, path, ctx, j) ->
             ObjectFrom(env, j, path, ctx, NoMembers, TRUE)
        [] c = "[" -> ArrayFrom(env, j + 1, path, ctx, <<>>)
        [] c \in Quotes -> StringFrom(env, j, j + 1, FALSE, path, ctx, member)
        [] IsAlnum(c) \/ c \in {"+", "-", ".", "_", "@", "$"} -> TokenFrom(env, j, path, ctx, member)
        [] OTHER -> AsText(Greedy(env, j, path, ctx, member))
ValueFrom(env, i, path, ctx, member) == ValueAt(env, Skip(env.text, i), path, ctx, member)

RECURSIVE ValueStart(_, _)
StartsValue(c) == c = End \/ IsAlnum(c) \/ c \in Quotes \cup {"{", "[", "+", "-", ".", "_"}
StartAt(text, j) == IF StartsValue(At(text, j)) THEN j ELSE ValueStart(text, j + 1)
ValueStart(text, i) == StartAt(text, Skip(text, i))

ParsedAt(env, i) ==
  IF i > Len(env.text) THEN Rejected(i) ELSE ValueAt(env, i, <<>>, Nowhere, FALSE)
Parsed(env) == ParsedAt(env, ValueStart(env.text, 1))

-----------------------------------------------------------------------------
(* recover, of a text that is not JSON: with a value, or without one.      *)
TakesKey(root, key) ==
  IF HasSpecificKeys(root) THEN IsSpecificKey(root, key) ELSE AcceptsKey(root, key)
FromKey(text, root) == FromPlace(text, FirstKey(text, LAMBDA key: IsSpecificKey(root, key)))
StartingAtKey(text, root) ==
  IF KeyAhead(text, 1, LAMBDA key: TakesKey(root, key)) THEN text ELSE <<>>

PreparedFor(root, bare, text) ==
  CASE HasContainer(text) -> bare
    [] ~HasContainer(text) /\ ~ExpectsObject(root) -> IF IsSimpleToken(bare) THEN bare ELSE <<>>
    [] OTHER -> IF StartingAtKey(bare, root) # <<>> THEN bare
                ELSE StartingAtKey(FromKey(bare, root), root)
Prepared(text, schema) ==
  PreparedFor(SchemaForPath(schema, <<>>, Nowhere), Uncommented(Trimmed(text)), text)

Outcome(r, partial) ==
  IF r.rejected THEN [outcome |-> "rejected", value |-> Null]
  ELSE [outcome |-> IF partial /\ r.cut THEN "incomplete" ELSE "complete", value |-> r.v]
Recover(text, partial, schema) ==
  Outcome(Parsed([text |-> IF partial THEN text ELSE Prepared(text, schema),
                  partial |-> partial, schema |-> schema]), partial)
=============================================================================
