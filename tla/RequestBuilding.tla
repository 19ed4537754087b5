---------------------------- MODULE RequestBuilding ----------------------------
(***************************************************************************)
(* plugins/core/request.py: the request the model gets of a Responses      *)
(* request, the configuration of the model and the main thread.            *)
(*                                                                         *)
(* A transform is Nil or a record of what the configuration says of one    *)
(* sampling value; numbers are integers here, in the value's own step.     *)
(***************************************************************************)
EXTENDS MessageContent

AtLeast(v, low)  == IF low # Nil /\ v < low THEN low ELSE v
AtMost(v, high)  == IF high # Nil /\ v > high THEN high ELSE v

(* apply_float_transform, and apply_int_transform, whose transforms have   *)
(* scale 1 and offset 0.                                                   *)
Transform(value, t, minimum, maximum) ==
  LET resolved == CASE t.fixed # Nil -> t.fixed
                    [] t.fixed = Nil /\ value = Nil -> t.default
                    [] OTHER -> value * t.scale + t.offset
  IN  IF t = Nil THEN value
      ELSE IF t.disabled \/ resolved = Nil THEN Nil
      ELSE AtMost(AtLeast(AtMost(AtLeast(resolved, t.min), t.max), minimum), maximum)

(* What a provider takes of each sampling value; those of the request.     *)
Bounds == [temperature |-> <<0, 2>>, top_p |-> <<0, 1>>, min_p |-> <<0, 1>>, top_k |-> <<0, Nil>>,
           frequency_penalty |-> <<-2, 2>>, presence_penalty |-> <<-2, 2>>,
           repetition_penalty |-> <<0, 2>>, seed |-> <<Nil, Nil>>]
Requested == {"temperature", "top_p"}

Sampled(sampling, request) ==
  [k \in DOMAIN Bounds |->
     Transform(IF k \in Requested THEN request[k] ELSE Nil, sampling[k],
               Bounds[k][1], Bounds[k][2])]

(* build_response_request with build_chat_request.  The thread's messages  *)
(* follow the model's own instructions and the request's.                  *)
Instructions(config, request) ==
  <<Message("developer", Text(config.display_name), Nil)>>
    \o IF request.instructions = Nil THEN <<>>
       ELSE <<Message("developer", Text(request.instructions), Nil)>>

BuildResponseRequest(config, request, main) ==
  LET top == Transform(request.top_logprobs, config.sampling.top_logprobs, 0, 20)
  IN  [messages |-> Instructions(config, request) \o main,
       model |-> config.model, max_completion_tokens |-> config.max_completion_tokens,
       reasoning_effort |-> config.reasoning_effort, service_tier |-> config.service_tier,
       sampled |-> Sampled(config.sampling, request),
       tools |-> SelectSeq(request.tools, LAMBDA t: t.type = "function"),
       tool_choice |-> request.tool_choice, parallel_tool_calls |-> request.parallel_tool_calls,
       response_format |-> IF request.text = Nil THEN Nil ELSE request.text.format,
       logprobs |-> IF top = Nil THEN Nil ELSE TRUE, top_logprobs |-> top,
       include_usage |-> TRUE,
       user |-> request.user, prompt_cache_key |-> request.prompt_cache_key,
       metadata |-> request.metadata]
=============================================================================
