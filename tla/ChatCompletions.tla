---------------------------- MODULE ChatCompletions ----------------------------
(***************************************************************************)
(* The chat completions API on top of responses                            *)
(* (plugins/chat_completions: contracts, translation, routes): a chat      *)
(* request as a Responses request, a response as a completion, and the     *)
(* events of a response (responses/streaming.py) as the chunks of one.     *)
(*                                                                         *)
(* A response holds its output items, its status, and what its terminal    *)
(* event says; log probabilities, names and times are left out.            *)
(***************************************************************************)
EXTENDS RequestBuilding

Mapped(s, F(_)) == [i \in DOMAIN s |-> F(s[i])]
NilIfNone(s)    == IF s = <<>> THEN Nil ELSE s

-----------------------------------------------------------------------------
(* What StreamCoordinator publishes of the items one commit puts out: the  *)
(* reasoning item from its draft, a summary part at a time, the others     *)
(* whole.                                                                  *)
ItemEvent(which, item) == [type |-> "output_item." \o which, item |-> item]
InItem(type, item, n, text) == [type |-> type, id |-> item.id, n |-> n, text |-> text]

SummaryEvents(item, n) ==
  LET text == item.summary[n]
  IN  <<InItem("reasoning_summary_part.added", item, n, <<>>)>>
        \o [i \in DOMAIN text |-> InItem("reasoning_summary_text.delta", item, n, <<text[i]>>)]
        \o <<InItem("reasoning_summary_text.done", item, n, text),
             InItem("reasoning_summary_part.done", item, n, text)>>

PartEvents(item, n) ==
  LET part == item.content[n]
      said == IF part.type = "refusal" THEN part.refusal ELSE part.text
      kind == IF part.type = "refusal" THEN "refusal" ELSE "output_text"
  IN  <<InItem("content_part.added", item, n, said), InItem(kind \o ".delta", item, n, said),
        InItem(kind \o ".done", item, n, said), InItem("content_part.done", item, n, said)>>

InnerEvents(item) ==
  CASE item.type = "reasoning" ->
         FlattenSeq([n \in DOMAIN item.summary |-> SummaryEvents(item, n)])
    [] item.type = "message" -> FlattenSeq([n \in DOMAIN item.content |-> PartEvents(item, n)])
    [] item.type = "function_call" ->
         <<InItem("function_call_arguments.delta", item, 0, item.arguments),
           InItem("function_call_arguments.done", item, 0, item.arguments)>>
EmitItem(item) == <<ItemEvent("added", item)>> \o InnerEvents(item) \o <<ItemEvent("done", item)>>

OfResponse(type, response) == [type |-> type, response |-> response]
Events(response) ==
  LET started == [response EXCEPT !.output = <<>>, !.status = "in_progress"]
  IN  <<OfResponse("created", started), OfResponse("in_progress", started)>>
        \o FlattenSeq(Mapped(response.output, EmitItem))
        \o <<OfResponse(response.status, response)>>

-----------------------------------------------------------------------------
(* A response as a completion: _reasoning_details, _completion_message,    *)
(* _finish_reason, to_chat_completion.  A failed one is an error.          *)
Detail(type, item, n, index, text) ==
  [type |-> "reasoning." \o type, id |-> item, n |-> n, index |-> index, text |-> text]
EncryptedDetail(item, index) ==
  [type |-> "reasoning.encrypted", id |-> item.id, index |-> index, data |-> item.encrypted_content]

ReasoningDetails(item, start) ==
  [n \in DOMAIN item.summary |-> Detail("summary", item.id, n, start + n - 1, item.summary[n])]
    \o <<EncryptedDetail(item, start + Len(item.summary))>>

ToolCall(item) == [id |-> item.call_id, name |-> item.name, arguments |-> item.arguments]

CompletionMessage(output) ==
  LET of(type)  == SelectSeq(output, LAMBDA x: x.type = type)
      parts     == FlattenSeq(Mapped(of("message"), LAMBDA x: x.content))
      texts     == OfType(parts, "output_text")
      refusals  == OfType(parts, "refusal")
      details   == FoldLeft(LAMBDA ds, x: ds \o ReasoningDetails(x, Len(ds)), <<>>, of("reasoning"))
  IN  [content |-> IF texts = <<>> THEN Nil ELSE FlattenSeq(Mapped(texts, LAMBDA p: p.text)),
       refusal |-> IF refusals = <<>> THEN Nil ELSE FlattenSeq(Mapped(refusals, LAMBDA p: p.refusal)),
       reasoning_details |-> NilIfNone(details),
       tool_calls |-> NilIfNone(Mapped(of("function_call"), ToolCall))]

FinishReason(response) ==
  IF response.status = "incomplete"
  THEN IF response.reason = "content_filter" THEN "content_filter" ELSE "length"
  ELSE IF \E i \in DOMAIN response.output : response.output[i].type = "function_call"
  THEN "tool_calls" ELSE "stop"

ToChatCompletion(response) ==
  IF response.status = "failed" THEN [error |-> response.error]
  ELSE [message |-> CompletionMessage(response.output), finish |-> FinishReason(response),
        usage |-> response.usage]

-----------------------------------------------------------------------------
(* chat_completion_stream: what one event adds to the chunks.  index       *)
(* counts the reasoning details, tools holds the items of the calls.       *)
Delta(field, x) == [delta |-> field, value |-> x]

Chunk(s, e) ==
  LET Say(x)      == [s EXCEPT !.chunks = Append(@, x)]
      Think(d)    == [s EXCEPT !.chunks = Append(@, Delta("reasoning_details", d)), !.index = @ + 1]
      tool        == SelectInSeq(s.tools, LAMBDA id: id = e.id) - 1
  IN  CASE e.type = "created" -> Say(Delta("role", "assistant"))
        [] e.type = "output_item.done" /\ e.item.type = "reasoning" ->
             Think(EncryptedDetail(e.item, s.index))
        [] e.type = "reasoning_summary_part.done" ->
             Think(Detail("summary", e.id, e.n, s.index, e.text))
        [] e.type = "output_text.delta" -> Say(Delta("content", e.text))
        [] e.type = "refusal.delta" -> Say(Delta("refusal", e.text))
        [] e.type = "output_item.added" /\ e.item.type = "function_call" ->
             [Say(Delta("tool_calls", [index |-> Len(s.tools), id |-> e.item.call_id,
                                       name |-> e.item.name, arguments |-> <<>>]))
                EXCEPT !.tools = Append(@, e.item.id)]
        [] e.type = "function_call_arguments.delta" ->
             Say(Delta("tool_calls", [index |-> tool, id |-> Nil, name |-> Nil,
                                      arguments |-> e.text]))
        [] e.type = "failed" -> Say([error |-> e.response.error])
        [] e.type \in {"completed", "incomplete"} ->
             LET last == Say([finish |-> FinishReason(e.response)])
             IN  IF s.include_usage THEN [last EXCEPT !.chunks = Append(@, [usage |-> e.response.usage])]
                 ELSE last
        [] OTHER -> s
Chunks(events, include_usage) ==
  FoldLeft(Chunk, [chunks |-> <<>>, index |-> 0, tools |-> <<>>, include_usage |-> include_usage],
           events).chunks

-----------------------------------------------------------------------------
(* A chat request as a Responses request.                                  *)
UserPart(p) ==
  CASE p.type = "text" -> TextPart("input_text", p.text)
    [] p.type = "image_url" -> [type |-> "input_image", image_url |-> p.url, detail |-> p.detail,
                                file_id |-> Nil]
    [] p.type = "file" -> [type |-> "input_file", file_data |-> p.file_data, file_id |-> p.file_id,
                           filename |-> p.filename, file_url |-> Nil, detail |-> Nil]
UserContent(content) == IF IsText(content) THEN content ELSE Parts(Mapped(content.parts, UserPart))

(* _reasoning_items: the details up to an encrypted one make an item; what *)
(* follows the last is dropped.                                            *)
ReasoningItems(details) ==
  LET Read(s, d) ==
        CASE d.type = "reasoning.summary" -> [s EXCEPT !.summary = Append(@, d.text)]
          [] d.type = "reasoning.text" ->
               IF d.text = Nil THEN s ELSE [s EXCEPT !.content = Append(@, d.text)]
          [] d.type = "reasoning.encrypted" ->
               [items |-> Append(s.items, [type |-> "reasoning", id |-> d.id, summary |-> s.summary,
                                           content |-> NilIfNone(s.content),
                                           encrypted_content |-> d.data]),
                summary |-> <<>>, content |-> <<>>]
  IN  FoldLeft(Read, [items |-> <<>>, summary |-> <<>>, content |-> <<>>], details).items

(* _assistant_content, _assistant_items.                                   *)
MessageItem(role, content) == [type |-> "message", role |-> role, content |-> content]
CallItem(call) ==
  [type |-> "function_call", call_id |-> call.id, name |-> call.name, arguments |-> call.arguments]

AssistantItems(m) ==
  LET thoughts == ReasoningItems(m.reasoning_details)
      said     == IF m.content = Nil THEN <<>> ELSE <<TextPart("output_text", m.content.text)>>
      content  == IF m.refusal = Nil THEN m.content ELSE Parts(said \o <<Refusal(m.refusal)>>)
      message  == IF content = Nil THEN (IF thoughts = <<>> THEN <<Text(<<>>)>> ELSE <<>>)
                  ELSE <<content>>
  IN  thoughts \o Mapped(message, LAMBDA c: MessageItem("assistant", c))
        \o Mapped(m.tool_calls, CallItem)

MessageItems(m) ==
  CASE m.role = "assistant" -> AssistantItems(m)
    [] m.role = "tool" -> <<[type |-> "function_call_output", call_id |-> m.tool_call_id,
                             output |-> UserContent(m.content)]>>
    [] m.role \in {"system", "developer", "user"} -> <<MessageItem(m.role, UserContent(m.content))>>

Include == {"reasoning.encrypted_content"}

ReasoningConfig(r) ==
  CASE r.reasoning # Nil ->
         [effort |-> IF r.reasoning.effort # Nil THEN r.reasoning.effort ELSE r.reasoning_effort,
          summary |-> r.reasoning.summary]
    [] r.reasoning = Nil /\ r.reasoning_effort # Nil ->
         [effort |-> r.reasoning_effort, summary |-> Nil]
    [] OTHER -> Nil

Carried == {"model", "parallel_tool_calls", "prompt_cache_key", "metadata", "temperature", "top_p",
            "tool_choice", "user", "stream"}
ToResponseRequest(r) ==
  [k \in Carried |-> r[k]]
    @@ [include |-> Include, input |-> FlattenSeq(Mapped(r.messages, MessageItems)),
        instructions |-> Nil, max_output_tokens |-> r.max_completion_tokens,
        reasoning |-> ReasoningConfig(r), store |-> IF r.store = Nil THEN FALSE ELSE r.store,
        text |-> IF r.response_format = Nil THEN Nil ELSE [format |-> r.response_format],
        tools |-> Mapped(r.tools, LAMBDA t: t @@ [type |-> "function"]),
        top_logprobs |-> IF r.logprobs = TRUE /\ r.top_logprobs = Nil THEN 0 ELSE r.top_logprobs]

(* What the contracts refuse.                                              *)
ValidChat(r) ==
  /\ r.messages # <<>>
  /\ r.reasoning # Nil /\ r.reasoning.effort # Nil /\ r.reasoning_effort # Nil
       => r.reasoning.effort = r.reasoning_effort
  /\ r.top_logprobs # Nil => r.logprobs = TRUE
ValidCreate(request) == request.store = FALSE => Include \subseteq request.include
=============================================================================
