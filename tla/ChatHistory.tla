------------------------------ MODULE ChatHistory ------------------------------
(***************************************************************************)
(* A turn as its client sees it through the chat completions API, whole    *)
(* and as a stream, and as it comes back when the client sends it again:   *)
(* ChatCompletions, and Sealing under it, against the turn itself.         *)
(*                                                                         *)
(* A turn is what State.commit puts out: the message of the main thread,   *)
(* [content, refusal, calls], the open calls of a side thread, and a       *)
(* reasoning item with its summary and its sealed payload if it has one.   *)
(***************************************************************************)
EXTENDS ChatCompletions, Sealing

ThreadCodes == [main |-> 0, advisor |-> 1024]

(* State._message_item, _function_items and the order of commit.           *)
FunctionItem(call, thread, n, ring) ==
  [type |-> "function_call", id |-> <<"fc", n>>, name |-> call.name, arguments |-> call.arguments,
   call_id |-> SealCallId(CallId(thread, call.id), ring, ThreadCodes)]
FunctionItems(turn, ring) ==
  [n \in DOMAIN turn.calls |-> FunctionItem(turn.calls[n], "main", n, ring)]
    \o [n \in DOMAIN turn.side |-> FunctionItem(turn.side[n], "advisor", Len(turn.calls) + n, ring)]

Payload(turn) == [id |-> <<"rs", 1>>, main |-> turn.calls]
ReasoningItem(turn, ring) ==
  [type |-> "reasoning", id |-> <<"rs", 1>>, summary |-> turn.summary, content |-> Nil,
   encrypted_content |-> SealPayload("reasoning", Payload(turn), ring)]

Output(turn, ring) ==
  LET said == AssistantOutput(Message("assistant", turn.content, turn.refusal))
  IN  (IF turn.reasoned THEN <<ReasoningItem(turn, ring)>> ELSE <<>>)
        \o (IF said = <<>> THEN <<>>
            ELSE <<[type |-> "message", id |-> <<"msg", 1>>, role |-> "assistant",
                    content |-> Parts(said).parts]>>)
        \o FunctionItems(turn, ring)

-----------------------------------------------------------------------------
(* The client (external): it puts the deltas of a stream together, and     *)
(* sends a completion's message back as it is.                             *)
Plus(x, y)   == IF x = Nil THEN y ELSE x \o y
Silent == [content |-> Nil, refusal |-> Nil, reasoning_details |-> Nil, tool_calls |-> Nil]

WithCall(calls, c) ==
  IF c.id # Nil THEN Plus(calls, <<[id |-> c.id, name |-> c.name, arguments |-> c.arguments]>>)
  ELSE [calls EXCEPT ![c.index + 1].arguments = @ \o c.arguments]

Gathered(chunks) ==
  LET Take(got, c) ==
        IF "delta" \notin DOMAIN c THEN c @@ got
        ELSE CASE c.delta = "role" -> got
               [] c.delta = "tool_calls" -> [got EXCEPT !.message.tool_calls = WithCall(@, c.value)]
               [] c.delta = "reasoning_details" ->
                    [got EXCEPT !.message.reasoning_details = Plus(@, <<c.value>>)]
               [] OTHER -> [got EXCEPT !.message[c.delta] = Plus(@, c.value)]
  IN  FoldLeft(Take, [message |-> Silent], chunks)

OrNone(x) == IF x = Nil THEN <<>> ELSE x
Resent(message) ==
  [role |-> "assistant", content |-> IF message.content = Nil THEN Nil ELSE Text(message.content),
   refusal |-> message.refusal, reasoning_details |-> OrNone(message.reasoning_details),
   tool_calls |-> OrNone(message.tool_calls)]

(* A client of the Responses API sends the items back.                     *)
AsItem(item) == IF item.type = "message" THEN [item EXCEPT !.content = Parts(@)] ELSE item

-----------------------------------------------------------------------------
(* _decode_item: what an item of a request is to the threads.              *)
OwnUnless(call, text) == IF call = Foreign THEN [own |-> text] ELSE call
CallRead(text, ring)  == OwnUnless(OpenCallId(text, ring, ThreadCodes), text)
Read(item, ring) ==
  CASE item.type = "message" -> FromItem(item)
    [] item.type = "function_call" ->
         [call |-> CallRead(item.call_id, ring), name |-> item.name, arguments |-> item.arguments]
    [] item.type = "function_call_output" ->
         [call |-> CallRead(item.call_id, ring), output |-> Content(item.output)]
    [] item.type = "reasoning" ->
         IF /\ item.encrypted_content # Nil /\ Opens("reasoning", item.encrypted_content, ring)
            /\ item.id \in {Nil, item.encrypted_content.envelope.payload.id}
         THEN item.encrypted_content.envelope.payload ELSE [refused |-> "reasoning"]

History(items, ring) == Mapped(items, LAMBDA item: Read(item, ring))

-----------------------------------------------------------------------------
(* What a turn is, without any of the above.  Nothing that was sealed      *)
(* under a root the keyring has lost opens: a call is the client's own     *)
(* then, and a reasoning item is refused.                                  *)
Meant(turn, writer, reader) ==
  LET opens == \E i \in DOMAIN reader : reader[i] = writer[1]
      content == IF turn.content = Text(<<>>) THEN Nil ELSE turn.content
      refusal == IF turn.refusal = <<>> THEN Nil ELSE turn.refusal
      Call(call, thread) ==
        [call |-> IF opens THEN CallId(thread, call.id)
                  ELSE [own |-> SealCallId(CallId(thread, call.id), writer, ThreadCodes)],
         name |-> call.name, arguments |-> call.arguments]
  IN  (IF ~turn.reasoned THEN <<>>
       ELSE IF opens THEN <<Payload(turn)>> ELSE <<[refused |-> "reasoning"]>>)
        \o (IF content = Nil /\ refusal = Nil THEN <<>>
            ELSE <<Message("assistant", content, refusal)>>)
        \o Mapped(turn.calls, LAMBDA c: Call(c, "main"))
        \o Mapped(turn.side, LAMBDA c: Call(c, "advisor"))

(* An empty response has no message: its completion is sent back as one.   *)
Nothing == <<Message("assistant", Text(<<>>), Nil)>>

(* The response a turn ends with.                                          *)
Response(turn, end, ring) == end @@ [output |-> Output(turn, ring)]

AsStream(response, include_usage) == Gathered(Chunks(Events(response), include_usage))

SameAnswer(streamed, completion, asked) ==
  DOMAIN streamed = asked /\ \A k \in asked : streamed[k] = completion[k]
Answer(include_usage) == {"message", "finish"} \cup IF include_usage THEN {"usage"} ELSE {}

Remembered(response, streamed, reader, meant) ==
  /\ History(Mapped(response.output, AsItem), reader) = meant
  /\ History(MessageItems(Resent(streamed.message)), reader) = IF meant = <<>> THEN Nothing ELSE meant

ToldSame(response, streamed, include_usage, reader, meant) ==
  IF response.status = "failed" THEN streamed.error = ToChatCompletion(response).error
  ELSE /\ SameAnswer(streamed, ToChatCompletion(response), Answer(include_usage))
       /\ Remembered(response, streamed, reader, meant)
Told(response, include_usage, reader, meant) ==
  ToldSame(response, AsStream(response, include_usage), include_usage, reader, meant)
TurnKept(turn, end, include_usage, writer, reader) ==
  Told(Response(turn, end, writer), include_usage, reader, Meant(turn, writer, reader))

-----------------------------------------------------------------------------
(* What a chat request asks for is what the model is asked.                *)
SentParts(content) ==
  LET Sent(p) ==
        CASE p.type = "text" -> p
          [] p.type = "image_url" -> p @@ [file_id |-> Nil]
          [] p.type = "file" -> p @@ [file_url |-> Nil, detail |-> Nil]
  IN  IF IsText(content) THEN content ELSE Parts(Mapped(content.parts, Sent))

SentMessage(m) ==
  CASE m.role = "assistant" ->
         <<Message("assistant", IF m.content = Nil /\ m.refusal = Nil THEN Text(<<>>) ELSE m.content,
                   m.refusal)>>
           \o Mapped(m.tool_calls, LAMBDA c: [call |-> [own |-> c.id], name |-> c.name,
                                              arguments |-> c.arguments])
    [] m.role = "tool" -> <<[call |-> [own |-> m.tool_call_id], output |-> SentParts(m.content)]>>
    [] OTHER -> <<Message(m.role, SentParts(m.content), Nil)>>

InBounds(v, low, high) == (low # Nil => v >= low) /\ (high # Nil => v <= high)

CarriedOver(r, config, built) ==
  /\ Tail(built.messages) = FlattenSeq(Mapped(r.messages, SentMessage))
  /\ built.response_format = r.response_format
  /\ \A k \in {"tool_choice", "parallel_tool_calls", "user", "metadata"} : built[k] = r[k]
  /\ Mapped(built.tools, LAMBDA t: t.name) = Mapped(r.tools, LAMBDA t: t.name)
  /\ config.sampling.top_logprobs = Nil =>
       /\ (built.logprobs = TRUE) = (r.logprobs = TRUE)
       /\ r.top_logprobs # Nil => built.top_logprobs = r.top_logprobs
  /\ built.logprobs = TRUE => InBounds(built.top_logprobs, 0, 20)
  /\ \A k \in DOMAIN Bounds :
       LET v == built.sampled[k]
       IN  /\ v # Nil => InBounds(v, Bounds[k][1], Bounds[k][2])
           /\ k \in Requested /\ config.sampling[k] = Nil => v = r[k]

AskedAs(r, config, request, ring) ==
  ValidCreate(request)
    /\ CarriedOver(r, config, BuildResponseRequest(config, request, History(request.input, ring)))
RequestKept(r, config, ring) == ValidChat(r) => AskedAs(r, config, ToResponseRequest(r), ring)
=============================================================================
