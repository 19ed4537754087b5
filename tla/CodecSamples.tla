----------------------------- MODULE CodecSamples -----------------------------
(***************************************************************************)
(* Samples for Codecs: lists to patch, messages to seal, arguments and     *)
(* manners to write, turns and requests of the chat completions API.       *)
(***************************************************************************)
EXTENDS Codecs

LOCAL INSTANCE SequencesExt
LOCAL INSTANCE FiniteSets

Elements == {P!Str("a"), P!Num(1), P!Obj([n \in {1} |-> P!Str("a")]),
             P!Obj([n \in {1, 2} |-> IF n = 1 THEN P!Str("a") ELSE P!Str("b")])}
MCLists == SeqOf(Elements, 3)
             \cup {[i \in 1 .. 4 |-> P!Num(p[i])] :
                   p \in {q \in [1 .. 4 -> 1 .. 4] : Cardinality({q[i] : i \in 1 .. 4}) = 4}}

BareMessage ==
  [role |-> "user", content |-> None, name |-> None, refusal |-> None, tool_calls |-> <<>>,
   tool_call_id |-> None, reasoning_content |-> None, memory |-> P!Obj(<<>>)]
UserSays(content) == [BareMessage EXCEPT !.content = content]
ModelSays(content, calls) ==
  [BareMessage EXCEPT !.role = "assistant", !.content = content, !.tool_calls = calls]
BodyPart(type, body) == [type |-> type, body |-> body]
Calling(id, arguments) == [id |-> id, name |-> "tool", arguments |-> arguments]
MemoryOf(n) == P!Obj([k \in {1} |-> P!Arr(<<P!Num(n), P!Null>>)])
MediaParts ==
  <<P!TextPart("text", ""), BodyPart("input_audio", [data |-> "d", format |-> "wav"]),
    BodyPart("image_url", [url |-> "u", detail |-> "original", file_id |-> None]),
    BodyPart("file", [file_data |-> "", file_id |-> None, filename |-> "n", file_url |-> None,
                      detail |-> "low"])>>
SampleMessages ==
  {UserSays(P!Text("")),
   UserSays(P!Parts(<<>>)), UserSays(P!Parts(MediaParts)),
   [UserSays(P!Text("a")) EXCEPT !.name = "", !.memory = MemoryOf(1)],
   [UserSays(P!Text("o")) EXCEPT !.role = "tool", !.tool_call_id = "c1", !.memory = MemoryOf(2)],
   [ModelSays(None, <<Calling("c1", "{}")>>) EXCEPT !.reasoning_content = "r"],
   [ModelSays(P!Text("a"), <<Calling("c1", "{}"), Calling("c2", "{1}")>>)
      EXCEPT !.reasoning_content = "", !.refusal = ""],
   ModelSays(P!Text("a"), <<Calling("c1", "")>>)}
MCThreads == SeqOf(SampleMessages, 2)
MCUpdates == MCThreads \cup {Append(t, [message |-> m]) : t \in SeqOf(SampleMessages, 1),
                                m \in {x \in SampleMessages : x.role = "assistant"}}

St == [type |-> {"string"}]
It == [type |-> {"integer"}]
Name == <<"name">>
Age  == <<"age">>
Kind == <<"kind">>
List(s) == [type |-> {"array"}, items |-> s]
Object(props) == [type |-> {"object"}, properties |-> props]
T(text) == P!Str(text)
V(pairs) == W!Members(pairs)
N(n) == P!Num(10 * n)
A(items) == P!Arr(items)
User == Object(Name :> St @@ Age :> It)

Flat == [type |-> {"object"}, properties |-> Name :> St @@ Age :> It, required |-> {Name},
         additionalProperties |-> W!Off]
Texts == {<<"w">>, <<"a", " ", "b">>, <<"a", ",", " ", "b">>, <<"a", ":", " ", "b">>,
          <<"{", "a", "}">>, <<"a", "\"", "b">>, <<"a", "'", "b">>, <<"a", "\n", "b">>,
          <<"a", " ", "//", " ", "b">>, <<"name", ":", " ", "a">>, <<"1", "2">>, <<>>}
FlatValues == {V(<<<<Name, T(t)>>, <<Age, N(12)>>>>) : t \in Texts}
                \cup {V(<<<<Age, N(3)>>, <<Name, T(<<"w">>)>>>>), V(<<<<Name, T(<<"w">>)>>>>)}

Lists2 == Object(Name :> List(St) @@ Age :> List(It))
ListValues == {V(<<<<Name, A(<<T(<<"a">>), T(<<"b", " ", "c">>)>>)>>, <<Age, A(<<N(1), N(2)>>)>>>>),
               V(<<<<Name, A(<<T(<<"a">>)>>)>>, <<Age, A(<<N(1)>>)>>>>),
               V(<<<<Age, A(<<>>)>>>>), V(<<<<Name, A(<<T(<<"a", ",", " ", "b">>)>>)>>>>)}

Nest == Object(Name :> List(User) @@ Kind :> St)
NestValues ==
  {V(<<<<Name, A(<<V(<<<<Name, T(<<"a">>)>>, <<Age, N(1)>>>>),
                   V(<<<<Name, T(<<"b">>)>>, <<Age, N(2)>>>>)>>)>>, <<Kind, T(<<"k">>)>>>>),
   V(<<<<Kind, T(<<"a">>)>>, <<Name, A(<<V(<<<<Age, N(1)>>>>)>>)>>>>)}

Sort(k, s) == [type |-> {"object"}, required |-> {Kind},
               properties |-> Kind :> [const |-> T(<<k>>)] @@ Age :> s]
AnyOf == [any |-> <<Sort("user", It), Sort("org", St)>>]
AnyValues == {V(<<<<Kind, T(<<"user">>)>>, <<Age, N(1)>>>>),
              V(<<<<Kind, T(<<"org">>)>>, <<Age, T(<<"1", "2">>)>>>>)}

Ref == [ref |-> "u", defs |-> [u |-> Object(Name :> St @@ Kind :> [ref |-> "u"])]]
RefValues == {V(<<<<Name, T(<<"a">>)>>,
                  <<Kind, V(<<<<Name, T(<<"b">>)>>, <<Kind, V(<<<<Name, T(<<"a", " ", "b">>)>>>>)>>>>)>>>>)}

Enum == Object(Name :> [enum |-> {T(<<"user">>), T(<<"org">>), P!Null, P!Bool(TRUE)}]
                 @@ Kind :> [type |-> {"boolean", "null"}] @@ Age :> [type |-> {"number"}])
EnumValues == {V(<<<<Name, T(<<"user">>)>>, <<Kind, P!Bool(TRUE)>>>>),
               V(<<<<Name, P!Null>>, <<Age, P!Num(12)>>>>),
               V(<<<<Kind, P!Null>>, <<Name, P!Bool(TRUE)>>>>)}

Cond == [type |-> {"object"}, properties |-> Kind :> St,
         cond |-> [properties |-> Kind :> [const |-> T(<<"user">>)], required |-> {Kind}],
         yes |-> [properties |-> Age :> It], no |-> [properties |-> Age :> St]]
CondValues == {V(<<<<Kind, T(<<"user">>)>>, <<Age, N(1)>>>>),
               V(<<<<Kind, T(<<"org">>)>>, <<Age, T(<<"1", "2">>)>>>>)}

Of(schema, values) == {[schema |-> schema, value |-> v] : v \in values}
MCMeanings == Of(Flat, FlatValues) \cup Of(Lists2, ListValues) \cup Of(Nest, NestValues)
                \cup Of(AnyOf, AnyValues) \cup Of(Ref, RefValues) \cup Of(Enum, EnumValues)
                \cup Of(Cond, CondValues)

Proses == {<<>>, <<"here", " ", "it", ":", " ">>, <<"don", "'", "t", ":", " ">>}
MCManners ==
  [quote : {"\"", "'"}, bare : BOOLEAN, comma : {"one", "trailing", "none"},
   gap : {<<>>, <<"//", "c", "\n">>, <<"/*", "c", "*/", " ">>}, braces : {"all", "inner", "root"},
   loose : BOOLEAN, closed : BOOLEAN, prose : Proses]

(* Ids of a provider: of the narrow alphabet, with characters outside of   *)
(* it, not ASCII, and of lengths that fill and do not fill a byte.         *)
Ids == {<<65>>, <<46, 97>>, <<46, 46, 46, 46, 46, 46, 46, 46>>, <<0>>, <<233>>,
        <<45, 95, 122, 57, 48>>, <<97, 2047, 46>>}
CallOf(id, pieces) == [id |-> id, name |-> "tool", arguments |-> pieces]
Calls == {<<>>} \cup {<<CallOf(id, <<"open", "close">>)>> : id \in Ids}
           \cup {<<CallOf(<<65>>, <<"open">>), CallOf(<<66>>, <<>>)>>}
Summaries == {<<>>, <<<<"a", "b">>, <<>>, <<"c">>>>}
MCTurns ==
  {t \in [content : {None, H!Text(<<>>), H!Text(<<"a">>), H!Text(<<"a", "b">>)},
           refusal : {None, <<>>, <<"no">>}, calls : Calls,
           side : {<<>>, <<CallOf(<<65>>, <<"x">>)>>}, summary : Summaries, reasoned : BOOLEAN] :
     (t.calls # <<>> \/ t.side # <<>> \/ t.summary # <<>>) => t.reasoned}
Ending(status, reason, error) == [status |-> status, reason |-> reason, error |-> error, usage |-> "u"]
MCEnds == {Ending("completed", None, None), Ending("incomplete", "content_filter", None),
           Ending("incomplete", "max_output_tokens", None), Ending("failed", None, "server_error")}
MCWriter  == <<"k1">>
MCReaders == {<<"k1">>, <<"k2", "k1">>, <<"k2">>}

Each(r, k, vs) == {[r EXCEPT ![k] = v] : v \in vs}
FileOf(data, id) == [type |-> "file", file_data |-> data, file_id |-> id, filename |-> "n"]
UserParts == H!Parts(<<H!TextPart("text", <<"q">>), FileOf("d", None), FileOf(None, "f"),
                       [type |-> "image_url", url |-> "u", detail |-> "low"]>>)
Said(content, refusal, details, calls) ==
  [role |-> "assistant", content |-> content, refusal |-> refusal, reasoning_details |-> details,
   tool_calls |-> calls]
Orphan == <<[type |-> "reasoning.summary", text |-> <<"s">>], [type |-> "reasoning.text", text |-> None]>>
Answer(id, content) == [role |-> "tool", tool_call_id |-> id, content |-> content]
Told(role, content) == [role |-> role, content |-> content]
OwnId(id) == [prefix |-> id, bytes |-> <<>>]
Talks ==
  {<<Told("system", H!Text(<<"s">>)), Told("user", UserParts)>>,
   <<Told("developer", H!Parts(<<H!TextPart("text", <<"s">>)>>)), Told("user", H!Parts(<<>>)),
     Said(H!Text(<<"a">>), <<"no">>, Orphan, <<>>), Told("user", H!Text(<<"q">>))>>,
   <<Said(None, None, <<>>, <<[id |-> OwnId("call_"), name |-> "tool", arguments |-> <<"x">>]>>),
     Answer(OwnId("call_"), H!Text(<<"o">>)), Said(None, <<"no">>, <<>>, <<>>),
     Answer(OwnId("mine"), H!Parts(<<H!TextPart("text", <<"o">>)>>))>>}
Ask == [messages |-> <<Told("user", H!Text(<<"q">>))>>, model |-> "m", parallel_tool_calls |-> None,
        prompt_cache_key |-> None, metadata |-> None, temperature |-> None, top_p |-> None,
        tool_choice |-> None, user |-> None, stream |-> FALSE, max_completion_tokens |-> None,
        reasoning |-> None, reasoning_effort |-> None, store |-> None, response_format |-> None,
        tools |-> <<>>, logprobs |-> None, top_logprobs |-> None]
Effort == {None, "low", "high"}
Logged == UNION {Each(a, "top_logprobs", {None, 0, 20}) : a \in Each(Ask, "logprobs", {None, FALSE, TRUE})}
Reasoned ==
  UNION {Each(a, "reasoning_effort", Effort) :
           a \in Each(Ask, "reasoning", {None} \cup {[effort |-> e, summary |-> None] : e \in Effort})}
MCAsks ==
  UNION {Each(a, "temperature", {None, 0, 2}) : a \in Logged} \cup Reasoned
    \cup Each(Ask, "messages", Talks) \cup Each(Ask, "store", BOOLEAN) \cup Each(Ask, "top_p", {1})
    \cup Each([Ask EXCEPT !.tools = <<[name |-> "t1"], [name |-> "t2"]>>], "tool_choice",
              {<<"auto">>, <<"function", "t1">>})
    \cup Each(Ask, "response_format", {"text", "json_schema"})

Transforms ==
  {None} \cup {[fixed |-> f, default |-> d, disabled |-> FALSE, min |-> low, max |-> high,
                scale |-> 2, offset |-> k] :
                 f \in {None, 1}, d \in {None, 30}, low \in {None, -3, 3}, high \in {None, -3, 3},
                 k \in {0, -5}}
          \cup {[fixed |-> 1, default |-> 1, disabled |-> TRUE, min |-> 1, max |-> 1, scale |-> 1,
                 offset |-> 0]}
MCConfigs ==
  {[sampling |-> s, display_name |-> <<"p">>, model |-> "upstream", max_completion_tokens |-> 9,
    reasoning_effort |-> "high", service_tier |-> None] :
     s \in {[k \in DOMAIN H!Bounds \cup {"top_logprobs"} |-> t] : t \in Transforms}}
=============================================================================
