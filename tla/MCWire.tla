-------------------------------- MODULE MCWire --------------------------------
(***************************************************************************)
(* The model call of ModelStream with its requests, and beside it the      *)
(* algorithms of Codecs on their samples: a behaviour is one or the other. *)
(***************************************************************************)
EXTENDS ModelStream, CodecSamples

Tool(name) == [name |-> name, parameters |-> "schema", strict |-> "true"]
Few  == [model |-> "model", tool_choice |-> <<"auto">>]
Many == [model |-> "model", stream_options |-> "usage", max_completion_tokens |-> "9",
         top_k |-> "5", min_p |-> "0", user |-> "u", metadata |-> "m",
         service_tier |-> "s", parallel_tool_calls |-> "false"]

With(o, name, vs) == {IF v = "absent" THEN o ELSE WithName(o, name, v) : v \in vs}

Says(role, text) == [role |-> role, content |-> Text(text)]
File(field)   == [type |-> "file", file |-> [n \in {field, "detail"} |-> n]]
Image(detail) == [type |-> "image_url", image_url |-> [url |-> "u", detail |-> detail]]
TextPart      == [type |-> "text", text |-> "t"]
Media(role, parts) == [role |-> role, content |-> Parts(parts)]

Plain == <<Says("developer", "d"), Says("user", "q")>>
Past  == <<Says("developer", "d"), Says("user", "q"),
           [role |-> "assistant", content |-> Text("a"), reasoning_content |-> <<"r">>,
            name |-> "main", tool_calls |-> <<[id |-> <<0, 0>>, name |-> "t1",
                                               arguments |-> <<"open", "close">>]>>],
           [role |-> "tool", tool_call_id |-> <<0, 0>>, content |-> Text("o")],
           [role |-> "assistant", content |-> Text("a"), refusal |-> "no"],
           Says("user", "q")>>
Mixed == <<Media("developer", <<TextPart, Image("original"), TextPart, TextPart, Image("low")>>),
           Media("system", <<>>), Media("user", <<TextPart, Image("high")>>)>>
Files == {<<Media("user", <<TextPart, File(f)>>)>> : f \in {"file_id", "file_url", "file_data"}}

ToolChoices == {<<"required">>, <<"function", "t1">>}
Toolsets == {<<>>, <<Tool("t1")>>, <<Tool("t1"), Tool("t2")>>}
Formats == {"absent", "text", "json_object", "json_schema"}
Efforts == {"absent", "none", "low"}

Params ==
  UNION {UNION {UNION {
    With(WithName(WithName(p, "tools", ts), "tool_choice", c), "reasoning_effort", Efforts) :
      c \in ToolChoices} : ts \in Toolsets} : p \in {Few, Many}}
MCRequests ==
  {[params |-> p, messages |-> Past] : p \in Params}
    \cup {[params |-> p, messages |-> Plain] : p \in With(Many, "response_format", Formats)}
    \cup {[params |-> Many, messages |-> m] : m \in Files \cup {Mixed}}

Asked(choice) ==
  [params |-> [model |-> "model", tool_choice |-> choice, tools |-> <<Tool("t1"), Tool("t2")>>],
   messages |-> Plain]
Spoken == {c \in Chains : \/ c.provider = "cerebras" /\ Last(c.quirks).q = "RateLimit"
                                 /\ c.quirks[Len(c.quirks) - 1].q = "MoveOutput"
                          \/ c.provider = "gmicloud" /\ Last(c.quirks).q = "RejectIf"}
MCStreamed == {[request |-> Asked(IF c.provider = "cerebras" THEN <<"required">> ELSE <<"auto">>),
                chain |-> c] : c \in Spoken}
AllRequests == MCRequests \cup {r.request : r \in MCStreamed}

Streaming == [kind |-> "stream"]
WireInit ==
  /\ Init
  /\ \/ sample = Streaming
     \/ sample = Idle /\ [request |-> request, chain |-> chain] = CHOOSE r \in MCStreamed : TRUE
WireNext == \/ sample = Streaming /\ Next /\ UNCHANGED sample
            \/ CodecNext /\ UNCHANGED vars
WireSpec == WireInit /\ [][WireNext]_<<vars, sample>>
=============================================================================
