----------------------------- MODULE ProviderBody -----------------------------
(***************************************************************************)
(* The body of a model call: common.py builds it from the request, and the *)
(* quirks of the provider and of the model (quirks.py, providers/) rewrite *)
(* it one after another, in the order the provider lists them; then the    *)
(* OpenAI SDK's call moves what it has no argument for into `extra_body`.  *)
(*                                                                         *)
(* A JSON object is a function from names to values; None is absence.  A   *)
(* path is a sequence of names.  A message's content is absent, a text or  *)
(* a sequence of parts.  Parameters that are only copied have values that  *)
(* tell them apart.                                                        *)
(***************************************************************************)
EXTENDS Integers, Sequences, FiniteSets, SequencesExt, FiniteSetsExt, Functions

RECURSIVE Has(_, _), Pick(_, _), Put(_, _, _), Cut(_, _), Merged(_, _)

(* _nested_mapping_get, _set and _pop.                                     *)
Has(o, path) ==
  Head(path) \in DOMAIN o /\ (Len(path) > 1 => Has(o[Head(path)], Tail(path)))
Pick(o, path) ==
  IF Len(path) = 1 THEN o[Head(path)] ELSE Pick(o[Head(path)], Tail(path))

WithName(o, name, v) ==
  [n \in DOMAIN o \cup {name} |-> IF n = name THEN v ELSE o[n]]
WithoutName(o, name) == [n \in DOMAIN o \ {name} |-> o[n]]
Empty == [n \in {} |-> n]

Put(o, path, v) ==
  LET name == Head(path)
  IN  WithName(o, name,
        IF Len(path) = 1 THEN v
        ELSE Put(IF name \in DOMAIN o THEN o[name] ELSE Empty, Tail(path), v))
Cut(o, path) ==
  IF Len(path) = 1 THEN WithoutName(o, Head(path))
  ELSE WithName(o, Head(path), Cut(o[Head(path)], Tail(path)))

(* _merge_dicts; which names hold objects is known: those of Nests.        *)
Nests == {"reasoning", "provider", "providerOptions", "gateway", "chat_template_kwargs"}
Merged(left, right) ==
  [n \in DOMAIN left \cup DOMAIN right |->
     IF n \notin DOMAIN right THEN left[n]
     ELSE IF n \in DOMAIN left /\ n \in Nests THEN Merged(left[n], right[n])
     ELSE right[n]]

-----------------------------------------------------------------------------
(* build_chat_body.  The request's parameters are a function over the      *)
(* names that are set.                                                     *)
IsParts(m)  == "content" \in DOMAIN m /\ m.content.kind = "parts"
IsSystem(m) == m.role \in {"system", "developer"}
IsText(p)   == p.type = "text"

(* _wire_message: a provider takes no media in a system message, so runs   *)
(* of media become user messages between the runs of text.                 *)
PartRuns(parts) ==
  LET Join(runs, p) ==
        IF runs # <<>> /\ (IsText(Last(Last(runs))) <=> IsText(p))
        THEN Append(Front(runs), Append(Last(runs), p))
        ELSE Append(runs, <<p>>)
  IN  FoldLeft(Join, <<>>, parts)
Parts(ps) == [kind |-> "parts", parts |-> ps]
Text(x)   == [kind |-> "text", text |-> x]

WireMessage(m) ==
  IF ~IsSystem(m) \/ ~IsParts(m) THEN <<m>>
  ELSE IF m.content.parts = <<>> THEN <<[m EXCEPT !.content = Text("")]>>
  ELSE LET runs == PartRuns(m.content.parts)
       IN  [i \in DOMAIN runs |->
              IF IsText(runs[i][1]) THEN [m EXCEPT !.content = Parts(runs[i])]
              ELSE [n \in {"role", "content"} |->
                      IF n = "role" THEN "user" ELSE Parts(runs[i])]]

(* _content_part_to_wire.                                                  *)
WirePart(p) ==
  CASE p.type = "image_url" ->
         IF Has(p, <<"image_url", "detail">>) /\ p.image_url.detail = "original"
         THEN Put(p, <<"image_url", "detail">>, "high") ELSE p
    [] p.type = "file" ->
         IF Has(p, <<"file", "detail">>) THEN Cut(p, <<"file", "detail">>) ELSE p
    [] OTHER -> p

(* _message_body: the refusal and the reasoning are an assistant's only.   *)
MessageBody(m) ==
  LET kept == (DOMAIN m \cap {"role", "content", "name", "tool_call_id", "tool_calls"})
              \cup (IF m.role = "assistant"
                    THEN DOMAIN m \cap {"refusal", "reasoning_content"} ELSE {})
  IN  [n \in kept |-> IF n = "content" /\ IsParts(m)
                      THEN Parts([i \in DOMAIN m.content.parts |->
                                    WirePart(m.content.parts[i])])
                      ELSE m[n]]

WireMessages(messages) == FlattenSeq([i \in DOMAIN messages |-> WireMessage(messages[i])])

BuildBody(request, stream) ==
  LET wire == WireMessages(request.messages)
      own  == [n \in {"messages", "stream"} |->
                 IF n = "messages" THEN [i \in DOMAIN wire |-> MessageBody(wire[i])]
                 ELSE stream]
      kept == {n \in DOMAIN request.params :
                 /\ n = "tools" => request.params.tools # <<>>
                 /\ n = "stream_options" => stream}
  IN  [n \in kept \cup DOMAIN own |->
         IF n \in kept THEN request.params[n] ELSE own[n]]

-----------------------------------------------------------------------------
(* The quirks.                                                             *)
Only(names)             == [q |-> "Only", names |-> names]
Move(from, to)          == [q |-> "Move", from |-> from, to |-> to]
Drop(name)              == [q |-> "Drop", name |-> name]
DropIf(name, v)         == [q |-> "DropIf", name |-> name, v |-> v]
Set(name, v)            == [q |-> "Set", name |-> name, v |-> v]
SystemRole              == [q |-> "SystemRole"]
DropMessageField(name)  == [q |-> "DropMessageField", name |-> name]
MoveAssistantField(from, to) ==
  [q |-> "MoveMessageField", from |-> <<from>>, to |-> <<to>>, role |-> "assistant", type |-> "any"]
MoveFileField(from, to) ==
  [q |-> "MoveMessageField", from |-> <<"file", from>>, to |-> <<"file", to>>,
   role |-> "any", type |-> "file"]
RejectFileField(name)   == [q |-> "RejectMessageField", path |-> <<"file", name>>]
DropToolField(name)     == [q |-> "DropToolFunctionField", name |-> name]
ExtraBody(o)            == [q |-> "ExtraBody", value |-> o]
ExtraBodyIf(name, vs, o, negate) ==
  [q |-> "ExtraBodyIf", name |-> name, values |-> vs, value |-> o, negate |-> negate]
RejectIf(name, v)       == [q |-> "RejectIf", name |-> name, v |-> v]
EnsureReasoning         == [q |-> "EnsureAssistantReasoningContent"]
ForceRequired           == [q |-> "ForceRequiredToolChoice"]
ForceNamed              == [q |-> "ForceNamedToolChoice"]
RejectFormat(types)     == [q |-> "RejectResponseFormat", types |-> types]
MoveOutput(old, new)    == [q |-> "MoveOutput", old |-> old, new |-> new]
PromoteOutput           == [q |-> "PromoteOutput"]
RateLimit               == [q |-> "RateLimit"]

Value(body, name)  == IF name \in DOMAIN body THEN body[name] ELSE "absent"
Tools(request)     == IF "tools" \in DOMAIN request.params THEN request.params.tools ELSE <<>>
Choice(request)    ==
  IF "tool_choice" \in DOMAIN request.params THEN request.params.tool_choice ELSE <<>>
IsNamed(choice)    == choice # <<>> /\ choice[1] = "function"
IsRequired(choice) == choice # <<>> /\ choice[1] = "required"

OnMessages(body, F(_)) ==
  [body EXCEPT !.messages = [i \in DOMAIN @ |-> F(@[i])]]
OnParts(m, type, F(_)) ==
  IF ~IsParts(m) THEN m
  ELSE [m EXCEPT !.content.parts =
          [i \in DOMAIN @ |-> IF @[i].type = type THEN F(@[i]) ELSE @[i]]]

MovedField(target, from, to) ==
  IF ~Has(target, from) THEN target
  ELSE IF Has(target, to) THEN Cut(target, from)
  ELSE Put(Cut(target, from), to, Pick(target, from))

WithExtraAlone(body, o) == WithName(body, "extra_body", o)
WithExtra(body, o) ==
  WithName(body, "extra_body",
           IF "extra_body" \in DOMAIN body THEN Merged(body.extra_body, o) ELSE o)

Matches(q, body) == (Value(body, q.name) \in q.values) # q.negate

(* What a quirk makes of the body; Refuses says when it raises             *)
(* ChatCompletionUnsupportedRequestError instead.                          *)
Rewrite(q, body, request) ==
  CASE q.q = "Only" -> [n \in DOMAIN body \cap q.names |-> body[n]]
    [] q.q = "Move" ->
         IF q.from \notin DOMAIN body THEN body
         ELSE Put(WithoutName(body, q.from), q.to, body[q.from])
    [] q.q = "Drop" -> WithoutName(body, q.name)
    [] q.q = "DropIf" ->
         IF Value(body, q.name) = q.v THEN WithoutName(body, q.name) ELSE body
    [] q.q = "Set" -> WithName(body, q.name, q.v)
    [] q.q = "SystemRole" ->
         OnMessages(body, LAMBDA m: IF m.role = "developer"
                                    THEN [m EXCEPT !.role = "system"] ELSE m)
    [] q.q = "DropMessageField" -> OnMessages(body, LAMBDA m: WithoutName(m, q.name))
    [] q.q = "MoveMessageField" ->
         OnMessages(body, LAMBDA m:
           IF q.role # "any" /\ m.role # q.role THEN m
           ELSE IF q.type = "any" THEN MovedField(m, q.from, q.to)
           ELSE OnParts(m, q.type, LAMBDA p: MovedField(p, q.from, q.to)))
    [] q.q = "DropToolFunctionField" ->
         IF "tools" \notin DOMAIN body THEN body
         ELSE [body EXCEPT !.tools = [i \in DOMAIN @ |-> WithoutName(@[i], q.name)]]
    [] q.q = "ExtraBody" -> WithExtra(body, q.value)
    [] q.q = "ExtraBodyIf" -> IF Matches(q, body) THEN WithExtra(body, q.value) ELSE body
    [] q.q = "EnsureAssistantReasoningContent" ->
         OnMessages(body, LAMBDA m:
           IF m.role = "assistant" /\ "reasoning_content" \notin DOMAIN m
           THEN WithName(m, "reasoning_content", "") ELSE m)
    [] q.q = "ForceRequiredToolChoice" /\ IsNamed(Choice(request)) ->
         WithName(body, "tool_choice", <<"required">>)
    [] q.q = "ForceNamedToolChoice" /\ IsRequired(Choice(request)) ->
         WithName(body, "tool_choice", <<"function", Tools(request)[1].name>>)
    [] OTHER -> body

Refuses(q, body, request) ==
  \/ /\ q.q = "RejectMessageField"
     /\ \E i \in DOMAIN body.messages :
          /\ IsParts(body.messages[i])
          /\ \E j \in DOMAIN body.messages[i].content.parts :
               LET p == body.messages[i].content.parts[j]
               IN  p.type = "file" /\ Has(p, q.path)
  \/ q.q = "RejectIf" /\ Value(body, q.name) = q.v
  \/ /\ q.q = "ForceRequiredToolChoice"
     /\ IsNamed(Choice(request))
     /\ Len(Tools(request)) # 1 \/ Tools(request)[1].name # Choice(request)[2]
  \/ /\ q.q = "ForceNamedToolChoice"
     /\ IsRequired(Choice(request))
     /\ Len(Tools(request)) # 1
  \/ /\ q.q = "RejectResponseFormat"
     /\ "response_format" \in DOMAIN request.params
     /\ q.types = {} \/ request.params.response_format \in q.types

Refused == [refused |-> TRUE]
IsRefused(body) == "refused" \in DOMAIN body
Rewritten(quirks, body, request) ==
  FoldLeft(LAMBDA b, q: IF IsRefused(b) \/ Refuses(q, b, request) THEN Refused
                        ELSE Rewrite(q, b, request), body, quirks)
=============================================================================
