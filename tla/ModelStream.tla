------------------------------ MODULE ModelStream ------------------------------
(***************************************************************************)
(* One model call with its attempts, from the request to the answer that   *)
(* is taken: retry.stream sends a body (ProviderBody, ProviderTable), the  *)
(* client turns the chunks the provider sends into deltas with one         *)
(* terminal delta at the end (client.py, common.py), the accumulator makes *)
(* a message of them, and the validators take it or have the model asked   *)
(* again with what it said and what was wrong.                             *)
(*                                                                         *)
(* The provider is outside: it says anything, chunk by chunk, may stop     *)
(* anywhere and may fail anywhere.  `said` is what it has said in this     *)
(* attempt, put together as its non-streaming answer would be.             *)
(*                                                                         *)
(* A text is a sequence of pieces, None is Nil.  The arguments of a call   *)
(* are over the pieces "open" and "close": an object that is cut off is    *)
(* completed and anything else kept as it is, which is what recover and    *)
(* normalize do with these texts.                                          *)
(***************************************************************************)
EXTENDS ProviderTable

CONSTANTS Nil,           \* None
          Requests,      \* the requests bodies are built of
          Streamed,      \* the requests and quirks whose answers are explored
          MaxAttempts,   \* max_attempts of retry.stream
          MaxPieces      \* the chunks a provider says, but late ones

VARIABLES request, chain, attempts, history, body, said, stream, acc, last, outcome, refused

vars == <<request, chain, attempts, history, body, said, stream, acc, last, outcome, refused>>

-----------------------------------------------------------------------------
(* Quirks on output: MoveOutput, on a delta and on a whole message alike.  *)
Got(o, name) == IF name \in DOMAIN o THEN o[name] ELSE Nil

OutputMoved(quirks, o) ==
  LET Step(d, q) == IF q.q = "MoveOutput" /\ q.old \in DOMAIN d /\ Got(d, q.new) = Nil
                    THEN WithName(d, q.new, d[q.old]) ELSE d
  IN  FoldRight(LAMBDA q, d: Step(d, q), quirks, o)

(* The name the provider gives its reasoning.                              *)
ReasoningName(quirks) ==
  IF \E i \in DOMAIN quirks : quirks[i].q = "MoveOutput" THEN "reasoning" ELSE "reasoning_content"

(* delta_from_data.  Of several tool call deltas in a chunk it takes the   *)
(* first.                                                                  *)
DeltaFromData(chunk) ==
  LET d == chunk.delta
      calls == IF "tool_calls" \in DOMAIN d THEN d.tool_calls ELSE <<>>
  IN  [content |-> Got(d, "content"), refusal |-> Got(d, "refusal"),
       reasoning |-> Got(d, "reasoning_content"),
       call |-> IF calls = <<>> THEN Nil ELSE calls[1],
       finish |-> chunk.finish, usage |-> chunk.usage]

HasOutput(d) == d.content # Nil \/ d.refusal # Nil \/ d.reasoning # Nil \/ d.call # Nil

TerminalReason(finish, sawCalls, sawOutput) ==
  CASE sawCalls                                   -> "tool_calls"
    [] ~sawCalls /\ finish \in {"tool_calls", "function_call"} -> "stop"
    [] ~sawCalls /\ finish = Nil /\ sawOutput     -> "stop"
    [] OTHER                                      -> finish

(* completion_result_from_data, with the same quirks.                      *)
ResultFromData(quirks, whole) ==
  LET m == OutputMoved(quirks, whole.message)
      calls == Got(m, "tool_calls")
  IN  [content |-> Got(m, "content"), refusal |-> Got(m, "refusal"),
       reasoning |-> Got(m, "reasoning_content"),
       calls |-> IF calls = Nil THEN <<>> ELSE calls,
       finish |-> TerminalReason(whole.finish, calls \notin {Nil, <<>>},
                    {Got(m, n) : n \in {"content", "refusal", "reasoning_content", "tool_calls"}}
                      # {Nil}),
       usage |-> whole.usage]

-----------------------------------------------------------------------------
(* StreamState: the terminal delta is held back, so that a usage that      *)
(* comes after it is part of it.                                           *)
NoStream == [terminal |-> Nil, sawOutput |-> FALSE, sawCalls |-> FALSE, sawFinish |-> FALSE]

Tracked(s, d) ==
  [s EXCEPT !.sawOutput = @ \/ HasOutput(d), !.sawCalls = @ \/ d.call # Nil,
            !.sawFinish = @ \/ d.finish # Nil]
Normalized(s, d) ==
  IF d.finish = Nil THEN d
  ELSE [d EXCEPT !.finish = TerminalReason(d.finish, s.sawCalls, s.sawOutput)]
WithoutLate(terminal, d) == terminal
WithLate(terminal, d) ==
  [terminal EXCEPT !.usage = IF d.usage # Nil THEN d.usage ELSE @]

(* apply: the new state, what is yielded, and whether it raises.           *)
Applied(s, raw) ==
  LET t == Tracked(s, raw)
      d == Normalized(t, raw)
  IN  CASE s.terminal = Nil /\ d.finish # Nil ->
             [state |-> [t EXCEPT !.terminal = d], out |-> Nil, raises |-> FALSE]
        [] s.terminal = Nil /\ d.finish = Nil ->
             [state |-> t, out |-> d, raises |-> FALSE]
        [] s.terminal # Nil /\ d.finish = Nil /\ ~HasOutput(d) ->
             [state |-> [t EXCEPT !.terminal = WithLate(s.terminal, d)],
              out |-> Nil, raises |-> FALSE]
        [] OTHER -> [state |-> t, out |-> Nil, raises |-> TRUE]

InferredTerminal(s) ==
  LET finish == TerminalReason(Nil, s.sawCalls, s.sawOutput)
  IN  IF s.sawFinish \/ finish = Nil THEN Nil
      ELSE [content |-> Nil, refusal |-> Nil, reasoning |-> Nil, call |-> Nil,
            finish |-> finish, usage |-> Nil]
Finished(s) == IF s.terminal # Nil THEN s.terminal ELSE InferredTerminal(s)

-----------------------------------------------------------------------------
(* The accumulator.                                                        *)
NoAcc == [content |-> Nil, refusal |-> Nil, reasoning |-> <<>>, calls |-> Empty,
          finish |-> Nil, usage |-> Nil]

Joined(old, new) == IF new = Nil THEN old ELSE IF old = Nil THEN new ELSE old \o new
JoinedCall(old, new) ==
  [id   |-> IF new.id # Nil THEN new.id ELSE old.id,
   name |-> IF new.name # Nil THEN new.name ELSE old.name,
   arguments |-> Joined(old.arguments, new.arguments)]

Accumulated(a, d) ==
  [content   |-> Joined(a.content, d.content),
   refusal   |-> Joined(a.refusal, d.refusal),
   reasoning |-> Joined(a.reasoning, d.reasoning),
   calls     |-> IF d.call = Nil THEN a.calls
                 ELSE LET i == d.call.index
                          old == IF i \in DOMAIN a.calls THEN a.calls[i]
                                 ELSE [id |-> Nil, name |-> Nil, arguments |-> <<>>]
                      IN  WithName(a.calls, i, JoinedCall(old, d.call)),
   finish    |-> IF d.finish # Nil THEN d.finish ELSE a.finish,
   usage     |-> IF d.usage # Nil THEN d.usage ELSE a.usage]

(* _repair_tool_call.                                                      *)
Repaired(arguments) ==
  IF arguments # <<>> /\ arguments[1] = "open" THEN <<"open", "close">> ELSE arguments
RepairedCall(c) == [c EXCEPT !.arguments = Repaired(@)]

MessageOf(a) ==
  LET order == SetToSortSeq(DOMAIN a.calls, <)
  IN  [content |-> a.content, refusal |-> a.refusal,
       reasoning |-> IF a.reasoning = <<>> THEN Nil ELSE a.reasoning,
       calls |-> [i \in DOMAIN order |-> RepairedCall(a.calls[order[i]])],
       finish |-> a.finish, usage |-> a.usage]

(* A call whose id or name has not come raises in _message.                *)
Nameless(a) == \E i \in DOMAIN a.calls : Nil \in {a.calls[i].id, a.calls[i].name}

-----------------------------------------------------------------------------
(* The validators (retry.py): what is wrong with a result, or Nil.         *)
WrongChoice(result) ==
  LET n == Len(result.calls)  choice == Choice(request)
  IN  \/ Value(request.params, "parallel_tool_calls") = "false" /\ n > 1
      \/ choice # <<>> /\ choice[1] = "none" /\ n > 0
      \/ IsRequired(choice) /\ n = 0
      \/ IsNamed(choice) /\ (n # 1 \/ result.calls[1].name # choice[2])
UnusableCall(c) ==
  \/ \A i \in DOMAIN Tools(request) : Tools(request)[i].name # c.name
  \/ c.arguments # <<"open", "close">>
Wrong(result) ==
  WrongChoice(result) \/ \E i \in DOMAIN result.calls : UnusableCall(result.calls[i])

(* What a refused attempt adds to the next: the answer, a stub for each of *)
(* its calls, the correction.                                              *)
AssistantMessage(r) ==
  LET all == [role |-> "assistant", content |-> r.content, refusal |-> r.refusal,
              reasoning_content |-> r.reasoning, tool_calls |-> r.calls]
      set == {n \in DOMAIN all : n = "role" \/ (all[n] # Nil /\ ~(n = "tool_calls" /\ r.calls = <<>>))}
  IN  [n \in set |-> IF n = "content" THEN Text(all[n]) ELSE all[n]]
ToolStubs(r) ==
  [i \in DOMAIN r.calls |-> [role |-> "tool", tool_call_id |-> r.calls[i].id,
                             content |-> Text("not executed")]]
Correction == [role |-> "user", content |-> Text("correction")]

BodyOf(added) ==
  LET r == [request EXCEPT !.messages = @ \o added]
      b == Rewritten(chain.quirks, BuildBody(r, TRUE), r)
  IN  IF IsRefused(b) THEN b ELSE SdkBody(chain.provider, b)

-----------------------------------------------------------------------------
NoSaid == [message |-> Empty, finish |-> Nil, usage |-> Nil, pieces |-> 0, bundled |-> FALSE]

Init ==
  /\ request \in Requests /\ chain \in Chains
  /\ attempts = 0 /\ history = <<>> /\ body = Nil
  /\ said = NoSaid /\ stream = NoStream /\ acc = NoAcc /\ last = Nil
  /\ outcome = "open" /\ refused = <<>>

(* An attempt.  A request the provider's quirks refuse is not one that is  *)
(* tried again.                                                            *)
Begin ==
  /\ outcome = "open" /\ body = Nil /\ attempts < MaxAttempts
  /\ attempts' = attempts + 1 /\ body' = BodyOf(history)
  /\ said' = NoSaid /\ stream' = NoStream /\ acc' = NoAcc /\ last' = Nil
  /\ outcome' = IF IsRefused(body') THEN "unsupported" ELSE "open"
  /\ UNCHANGED <<request, chain, history, refused>>

GiveUp ==
  /\ outcome = "open" /\ body = Nil /\ attempts = MaxAttempts
  /\ outcome' = "gaveUp"
  /\ UNCHANGED <<request, chain, attempts, history, body, said, stream, acc, last, refused>>

Speaking == /\ outcome = "open" /\ body # Nil
            /\ [request |-> request, chain |-> chain] \in Streamed

(* The consumer's side of a delta that is yielded.                         *)
Yield(d) ==
  /\ acc' = Accumulated(acc, d)
  /\ last' = [result |-> IF d.finish = Nil THEN Nil ELSE MessageOf(acc')]

Hear(chunk) ==
  LET r == Applied(stream, DeltaFromData([chunk EXCEPT !.delta = OutputMoved(chain.quirks, @)]))
  IN  /\ stream' = r.state
      /\ outcome' = IF r.raises THEN "protocol" ELSE "open"
      /\ IF r.out = Nil THEN UNCHANGED <<acc, last>> ELSE Yield(r.out)
      /\ UNCHANGED <<request, chain, attempts, history, body, refused>>

(* The provider says something, and perhaps with it that it ends.          *)
Reasons == {"stop", "length", "tool_calls"}
Pieces  == FoldLeft(LAMBDA n, r: n + r.pieces, said.pieces, refused)
Say(message, delta, bundled) ==
  \E finish \in Reasons \cup {Nil} :
    /\ Speaking /\ said.finish = Nil /\ Pieces < MaxPieces
    /\ said' = [message |-> message, finish |-> finish, usage |-> Nil,
                pieces |-> said.pieces + 1, bundled |-> said.bundled \/ bundled]
    /\ Hear([delta |-> delta, finish |-> finish, usage |-> Nil])

SayText ==
  \E name \in {"content", ReasoningName(chain.quirks)}, text \in {<<>>, <<"word">>} :
    Say(WithName(said.message, name, Joined(Got(said.message, name), text)),
        [n \in {name} |-> text], FALSE)

SaidCalls == IF Got(said.message, "tool_calls") = Nil THEN <<>> ELSE said.message.tool_calls
NewCall(i, name, arguments) == [id |-> <<attempts, i>>, name |-> name, arguments |-> arguments]
AsDelta(i, call) == [index |-> i, id |-> call.id, name |-> call.name, arguments |-> call.arguments]

SayCall ==
  \E name \in {"t1", "t9"}, arguments \in {<<>>, <<"open">>, <<"open", "close">>} :
    LET i == Len(SaidCalls)  c == NewCall(i, name, arguments)
    IN  Say(WithName(said.message, "tool_calls", Append(SaidCalls, c)),
            [tool_calls |-> <<AsDelta(i, c)>>], FALSE)

(* Two calls in one chunk.                                                 *)
SayCalls ==
  LET i == Len(SaidCalls)
      c == NewCall(i, "t1", <<"open", "close">>)
      d == NewCall(i + 1, "t1", <<"open", "close">>)
  IN  Say(WithName(said.message, "tool_calls", SaidCalls \o <<c, d>>),
          [tool_calls |-> <<AsDelta(i, c), AsDelta(i + 1, d)>>], TRUE)

SayArguments ==
  \E i \in DOMAIN SaidCalls : \E piece \in {"open", "close"} :
    Say(WithName(said.message, "tool_calls",
                 [SaidCalls EXCEPT ![i].arguments = Append(@, piece)]),
        [tool_calls |-> <<[index |-> i - 1, id |-> Nil, name |-> Nil,
                           arguments |-> <<piece>>]>>], FALSE)

SayFinish == Say(said.message, Empty, FALSE)

(* After its finish a provider sends the usage, some with an empty text.   *)
SayLate ==
  \E delta \in {Empty, [content |-> <<>>]} :
    /\ Speaking /\ said.finish # Nil /\ said.usage = Nil
    /\ said' = [said EXCEPT !.usage = "usage"]
    /\ Hear([delta |-> delta, finish |-> Nil, usage |-> "usage"])

-----------------------------------------------------------------------------
(* The end of an attempt: what retry.stream does with its result.          *)
Judge(result) ==
  IF Wrong(result)
  THEN /\ history' = history \o <<AssistantMessage(result)>> \o ToolStubs(result)
                       \o <<Correction>>
       /\ refused' = Append(refused, said)
       /\ body' = Nil /\ outcome' = "open"
  ELSE /\ outcome' = "taken" /\ UNCHANGED <<history, refused, body>>

Failed ==
  /\ UNCHANGED <<acc, last, history, refused>>
  /\ IF last = Nil THEN outcome' = "providerError" /\ UNCHANGED body
     ELSE outcome' = "open" /\ body' = Nil

(* The stream ends: the terminal delta is yielded, if need be inferred; a  *)
(* stream nothing can be inferred from is a provider's error.              *)
End ==
  LET t == Finished(stream)
  IN  /\ Speaking
      /\ IF t = Nil THEN Failed ELSE Yield(t) /\ Judge(last'.result)
      /\ UNCHANGED <<request, chain, attempts, said, stream>>

(* The provider fails: a terminal delta that was held back is yielded      *)
(* first, and makes the answer one to be judged.                           *)
Fail ==
  /\ Speaking
  /\ IF stream.terminal = Nil THEN Failed ELSE Yield(stream.terminal) /\ Judge(last'.result)
  /\ UNCHANGED <<request, chain, attempts, said, stream>>

Next == \/ Begin \/ GiveUp \/ SayText \/ SayCall \/ SayCalls \/ SayArguments \/ SayFinish
        \/ SayLate \/ End \/ Fail

Spec == Init /\ [][Next]_vars

-----------------------------------------------------------------------------
(* The properties' words.                                                  *)
Full(text) == IF text = Nil THEN <<>> ELSE text
Same(a, b) ==
  /\ \A n \in {"content", "refusal", "reasoning"} : Full(a[n]) = Full(b[n])
  /\ a.calls = b.calls

(* However the provider cuts its answer into chunks, and wherever it fails *)
(* after its finish, the result the validators judge is what the same      *)
(* answer is in one piece, its arguments repaired: the same texts, calls,  *)
(* reason and usage.  Before that, what the consumer has is what was said. *)
(* (A chunk with two calls is the exception: delta_from_data takes one.)   *)
StreamWhole ==
  LET whole  == ResultFromData(chain.quirks, said)
      result == [whole EXCEPT !.calls = [i \in DOMAIN @ |-> RepairedCall(@[i])]]
      heard  == MessageOf(acc)
  IN  last # Nil /\ ~said.bundled =>
        /\ said.finish = Nil /\ last.result = Nil => Same(heard, result)
        /\ last.result # Nil => /\ Same(last.result, result)
                                /\ last.result.finish = result.finish
                                /\ last.result.usage = result.usage

(* Where the provider finds a field of the body.                           *)
Extra == IF "extra_body" \in DOMAIN body THEN body.extra_body ELSE Empty
Present == (DOMAIN body \cup DOMAIN Extra) \ {"extra_body"}
Found(name) == IF name \in DOMAIN body THEN body[name] ELSE Extra[name]
Reached(path) ==
  IF path[1] = "extra_body" THEN Has(body, path) /\ Pick(body, path) # Nil
  ELSE path[1] \in Present
AtPath(path) == IF path[1] = "extra_body" THEN Pick(body, path) ELSE Found(path[1])

RECURSIVE Included(_, _)
Included(o, e) ==
  \A n \in DOMAIN o :
    /\ n \in DOMAIN e
    /\ IF n \in Nests THEN Included(o[n], e[n]) ELSE o[n] = e[n]

(* The fields a quirk brings in.                                           *)
Introduced(q) ==
  CASE q.q = "Move" -> {q.to[1]} \cup (IF Len(q.to) > 1 THEN {q.to[2]} ELSE {})
    [] q.q = "Set" -> {q.name}
    [] q.q \in {"ExtraBody", "ExtraBodyIf"} -> DOMAIN q.value
    [] q.q \in {"ForceRequiredToolChoice", "ForceNamedToolChoice"} -> {"tool_choice"}
    [] OTHER -> {}

FilesOf(m) == {p \in (IF IsParts(m) THEN Range(m.content.parts) ELSE {}) : p.type = "file"}
AllFiles   == UNION {FilesOf(m) : m \in Range(body.messages)}
Assistants == SelectSeq(body.messages, LAMBDA m: m.role = "assistant")

(* What the i-th quirk is for, of the body that is sent.                   *)
Effect(i) ==
  LET q == chain.quirks[i]  params == request.params  fields == Fields[chain.provider]
  IN  CASE q.q = "Only" ->
             Present \subseteq q.names \cup UNION {Introduced(chain.quirks[j]) :
                                                   j \in i + 1 .. Len(chain.quirks)}
        [] q.q = "Move" ->
             /\ q.from \notin Present
             /\ q.from \in DOMAIN params \cap fields =>
                  Reached(q.to) /\ AtPath(q.to) = params[q.from]
        [] q.q = "Drop"   -> q.name \notin Present
        [] q.q = "DropIf" -> q.name \in Present => Found(q.name) # q.v
        [] q.q = "Set"    -> q.name \in Present /\ Found(q.name) = q.v
        [] q.q = "SystemRole" -> \A m \in Range(body.messages) : m.role # "developer"
        [] q.q = "DropMessageField" ->
             \A m \in Range(body.messages) : q.name \notin DOMAIN m
        [] q.q = "MoveMessageField" ->
             IF q.type = "file"
             THEN \A p \in AllFiles : ~Has(p, q.from)
             ELSE \A m \in Range(Assistants) : ~Has(m, q.from)
        [] q.q = "RejectMessageField" -> \A p \in AllFiles : ~Has(p, q.path)
        [] q.q = "DropToolFunctionField" ->
             "tools" \in Present => \A t \in Range(Found("tools")) : q.name \notin DOMAIN t
        [] q.q = "ExtraBody" -> Included(q.value, Extra)
        [] q.q = "ExtraBodyIf" ->
             (Value(params, q.name) \in q.values) # q.negate => Included(q.value, Extra)
        [] q.q = "RejectIf" -> Value(params, q.name) # q.v
        [] q.q = "EnsureAssistantReasoningContent" ->
             \A m \in Range(Assistants) : "reasoning_content" \in DOMAIN m
        [] q.q = "ForceRequiredToolChoice" -> ~IsNamed(IF "tool_choice" \in Present
                                                       THEN Found("tool_choice") ELSE <<>>)
        [] q.q = "ForceNamedToolChoice" -> ~IsRequired(IF "tool_choice" \in Present
                                                       THEN Found("tool_choice") ELSE <<>>)
        [] OTHER -> TRUE

(* The parameters no quirk is about reach the provider as they were.       *)
Changed == UNION {CASE chain.quirks[i].q = "Move" -> {chain.quirks[i].from}
                    [] chain.quirks[i].q \in {"Drop", "DropIf", "Set"} -> {chain.quirks[i].name}
                    [] chain.quirks[i].q = "DropToolFunctionField" -> {"tools"}
                    [] OTHER -> Introduced(chain.quirks[i]) : i \in DOMAIN chain.quirks}
Untouched ==
  \A n \in (DOMAIN request.params \cap Fields[chain.provider]) \ Changed :
    (n = "tools" /\ Tools(request) = <<>>) \/ (n \in Present /\ Found(n) = request.params[n])

(* Every call of the history has its answer right behind it.               *)
Answered ==
  \A i \in DOMAIN body.messages :
    LET calls == IF "tool_calls" \in DOMAIN body.messages[i]
                 THEN body.messages[i].tool_calls ELSE <<>>
    IN  \A k \in DOMAIN calls :
          /\ i + k <= Len(body.messages)
          /\ body.messages[i + k].role = "tool"
          /\ body.messages[i + k].tool_call_id = calls[k].id

(* What the provider said and was refused comes back to it as it said it,  *)
(* the reasoning under the name it gave it.                                *)
Returned ==
  LET own  == SelectSeq(request.messages, LAMBDA m: m.role = "assistant")
      name == ReasoningName(chain.quirks)
      back(i) == Assistants[Len(own) + i]
  IN  /\ Len(Assistants) = Len(own) + Len(refused)
      /\ \A i \in DOMAIN refused : ~refused[i].bundled =>
           /\ Full(IF name \in DOMAIN back(i) /\ back(i)[name] # "" THEN back(i)[name] ELSE Nil)
                = Full(Got(refused[i].message, name))
           /\ ("content" \in DOMAIN back(i)) => back(i).content.text = refused[i].message.content
           /\ ("tool_calls" \in DOMAIN back(i)) <=>
                Full(Got(refused[i].message, "tool_calls")) # <<>>

(* The order of what the request's messages say is kept, and no media is   *)
(* said by the system.                                                     *)
PartsOf(messages) ==
  FlattenSeq([i \in DOMAIN messages |->
                IF IsParts(messages[i])
                THEN [j \in DOMAIN messages[i].content.parts |-> messages[i].content.parts[j].type]
                ELSE <<>>])
Lowered ==
  /\ PartsOf(body.messages) = PartsOf(request.messages)
  /\ \A m \in Range(body.messages) :
       IsSystem(m) /\ IsParts(m) => \A p \in Range(m.content.parts) : IsText(p)

(* The body of every attempt is one its provider takes: no quirk is undone *)
(* by another one of the chain, what none is about arrives as it was, the  *)
(* messages keep their order, each call has its answer behind it, and what *)
(* the model said in a refused attempt comes back under the provider's own *)
(* names.                                                                  *)
SentBack ==
  body # Nil /\ ~IsRefused(body) =>
    /\ \A i \in DOMAIN chain.quirks : Effect(i)
    /\ Untouched /\ Answered /\ Returned /\ Lowered
=============================================================================
