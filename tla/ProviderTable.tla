----------------------------- MODULE ProviderTable -----------------------------
(***************************************************************************)
(* providers/: the fields each provider takes and the quirks of each and   *)
(* of its models.  Models of one provider that have the same quirks are    *)
(* one entry.                                                              *)
(***************************************************************************)
EXTENDS ProviderBody

Common == {"model", "messages", "stream", "stream_options", "tools", "tool_choice",
           "parallel_tool_calls", "response_format", "max_completion_tokens",
           "temperature", "top_p", "frequency_penalty", "presence_penalty", "stop",
           "seed", "n", "reasoning_effort"}

Fields ==
  [lightning  |-> Common \cup {"logit_bias", "logprobs", "top_logprobs", "user", "metadata"},
   gmicloud   |-> Common \cup {"top_k", "logit_bias"},
   groq       |-> Common \cup {"user", "service_tier"},
   cerebras   |-> Common \cup {"logit_bias", "user", "metadata"},
   novita     |-> Common \cup {"top_k", "logit_bias", "logprobs"},
   crof       |-> Common \cup {"logit_bias"},
   qubrid     |-> Common \cup {"logit_bias", "user", "metadata"},
   vercel     |-> Common \cup {"top_k", "logit_bias", "logprobs", "top_logprobs", "user",
                               "prompt_cache_key", "metadata", "service_tier", "prediction"},
   wandb      |-> Common \cup {"min_p", "top_k", "repetition_penalty", "logit_bias",
                               "logprobs", "top_logprobs", "user", "prompt_cache_key",
                               "metadata", "service_tier", "prediction"},
   openrouter |-> Common \cup {"min_p", "top_k", "repetition_penalty", "logit_bias",
                               "logprobs", "top_logprobs", "user", "prompt_cache_key",
                               "metadata", "service_tier", "prediction"},
   fireworks  |-> Common \cup {"min_p", "top_k", "repetition_penalty", "logit_bias",
                               "logprobs", "top_logprobs", "user", "prompt_cache_key",
                               "metadata", "service_tier", "prediction",
                               "context_length_exceeded_behavior"}]

Inline    == <<RejectFileField("file_id"), RejectFileField("file_url")>>
Reasoning == <<MoveAssistantField("reasoning_content", "reasoning"),
               MoveOutput("reasoning", "reasoning_content")>>
Start(p)  == <<SystemRole, Only(Fields[p])>>

ProviderQuirks ==
  [lightning  |-> Start("lightning") \o Inline,
   gmicloud   |-> Start("gmicloud") \o Inline
                    \o <<EnsureReasoning, Move("max_completion_tokens", <<"max_tokens">>),
                         ExtraBody([context_length_exceeded_behavior |-> "error"])>>,
   groq       |-> Start("groq") \o Inline \o <<DropMessageField("name")>> \o Reasoning,
   cerebras   |-> Start("cerebras") \o Inline \o Reasoning,
   novita     |-> Start("novita") \o Inline
                    \o <<Move("max_completion_tokens", <<"max_tokens">>)>>,
   crof       |-> <<Only(Fields["crof"])>> \o Inline
                    \o <<Move("max_completion_tokens", <<"max_tokens">>)>>,
   qubrid     |-> Start("qubrid") \o Inline,
   wandb      |-> Start("wandb") \o Inline \o Reasoning,
   openrouter |-> Start("openrouter") \o <<MoveFileField("file_url", "file_data")>> \o Reasoning,
   vercel     |-> Start("vercel") \o Inline
                    \o <<MoveFileField("file_data", "data"),
                         Move("max_completion_tokens", <<"max_tokens">>),
                         Move("reasoning_effort", <<"extra_body", "reasoning", "effort">>)>>
                    \o Reasoning \o <<PromoteOutput>>,
   fireworks  |-> Start("fireworks") \o Inline
                    \o <<Set("context_length_exceeded_behavior", "error")>>]

(* The models.  "absent" stands for None among the values a condition      *)
(* lists.                                                                  *)
Thinking(on, off) == <<ExtraBodyIf("reasoning_effort", {"none"}, off, FALSE),
                       ExtraBodyIf("reasoning_effort", {"absent", "none"}, on, TRUE)>>
TemplateThinking ==
  Thinking([chat_template_kwargs |-> [enable_thinking |-> TRUE]],
           [chat_template_kwargs |-> [enable_thinking |-> FALSE]])
OpenRouterThinking ==
  Thinking([reasoning |-> [enabled |-> TRUE]], [reasoning |-> [enabled |-> FALSE]])
IncludeReasoning == ExtraBody([include_reasoning |-> TRUE])

(* A model name with suffixes pins the upstream order (OpenRouter and      *)
(* Vercel); a special suffix stays in the name.                            *)
Pinned(order) == <<Set("model", "base"),
                   ExtraBody([provider |-> [order |-> order, allow_fallbacks |-> FALSE]])>>
GatewayPinned(order) ==
  <<Set("model", "base"),
    ExtraBody([providerOptions |-> [gateway |-> [only |-> order, order |-> order]]])>>

ModelQuirks ==
  [lightning  |-> {<<>>, <<RateLimit>>, <<RejectFormat({}), RateLimit>>},
   groq       |-> {<<Set("parallel_tool_calls", "false"), IncludeReasoning, RateLimit, RateLimit>>,
                   <<RateLimit, RateLimit>>,
                   <<RejectFormat({"json_schema"}), IncludeReasoning, RateLimit, RateLimit>>,
                   <<RejectFormat({"json_schema"}), RateLimit, RateLimit>>},
   cerebras   |-> {<<RateLimit>>, <<ExtraBody([clear_thinking |-> FALSE]), RateLimit>>},
   novita     |-> {<<>>, <<ForceRequired>>},
   gmicloud   |-> {TemplateThinking \o <<DropIf("reasoning_effort", "none")>>,
                   <<RejectIf("reasoning_effort", "none")>>},
   crof       |-> {<<>>, <<RejectFormat({})>>, <<RejectFormat({"json_schema"})>>,
                   <<RejectFormat({"json_object"})>>},
   qubrid     |-> {<<ForceRequired>>,
                   <<Drop("parallel_tool_calls"), DropToolField("strict"), ForceNamed>>},
   wandb      |-> {<<>>, TemplateThinking,
                   TemplateThinking \o <<DropIf("reasoning_effort", "none")>>,
                   <<RejectIf("reasoning_effort", "none")>>},
   fireworks  |-> {<<>>},
   openrouter |-> {<<>>, OpenRouterThinking, <<Set("model", "base:free")>>,
                   Pinned("upstream"), Pinned("upstream") \o OpenRouterThinking},
   vercel     |-> {<<>>, GatewayPinned("upstream")}]

(* Provider.lookup: the quirks of a call, the provider's first.            *)
Chains == UNION {{[provider |-> p, quirks |-> ProviderQuirks[p] \o m] : m \in ModelQuirks[p]} :
                 p \in DOMAIN ProviderQuirks}

(* _normalize_openai_sdk_body, but for Fireworks, whose client takes the   *)
(* body as it is.  The names are the SDK's arguments.                      *)
SdkFields == (Common \cup {"max_tokens", "logit_bias", "logprobs", "top_logprobs", "user",
                           "prompt_cache_key", "metadata", "service_tier", "prediction"})
SdkBody(provider, body) ==
  LET other == DOMAIN body \ (SdkFields \cup {"extra_body"})
      extra == IF "extra_body" \in DOMAIN body THEN body.extra_body ELSE Empty
      top   == [n \in DOMAIN body \cap SdkFields |-> body[n]]
      moved == [n \in DOMAIN extra \cup other |-> IF n \in other THEN body[n] ELSE extra[n]]
  IN  IF provider = "fireworks" THEN body
      ELSE IF DOMAIN moved = {} THEN top ELSE WithName(top, "extra_body", moved)
=============================================================================
