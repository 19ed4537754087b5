----------------------------- MODULE MainReplay -----------------------------
(***************************************************************************)
(* MainReplay (responses/ingest/main.py): the main thread rebuilt from the *)
(* private main updates of reasoning items and the public message, call    *)
(* and output items between them.                                          *)
(*                                                                         *)
(* The operators take and return a replay r, a record of                   *)
(*   nodes  the thread: plain messages and assistant bundles,              *)
(*   auth   the bundle the last authenticated assistant is in (its uid),   *)
(*   pend   the bundle that waits for its public message, or NoMsg,        *)
(*   n      the counter that orders calls and names bundles,               *)
(*   err    "" or the reason the replay was refused.                       *)
(***************************************************************************)
EXTENDS Transcript

FreshMain == [nodes |-> <<>>, auth |-> 0, pend |-> NoMsg, n |-> 1, err |-> ""]

Raise(r, why) == IF r.err = "" THEN [r EXCEPT !.err = why] ELSE r

Plain(m)    == [kind |-> "plain", m |-> m]
IsBundle(x) == x.kind = "bundle"

CallOf(c, order, phase) == [id |-> c, order |-> order, phase |-> phase]
HasCall(b, c) == \E i \in DOMAIN b.calls : b.calls[i].id = c

(* assistant(): the private message with the public content, if there is   *)
(* one, and the calls in the order they were declared.  _copy_assistant    *)
(* leaves the private message's memory behind.                             *)
CopyAssistant(private, public, calls) ==
  Assistant(IF public = NoMsg THEN private.id ELSE public.id,
            IF public = NoMsg THEN private.text ELSE public.text,
            private.thoughts, calls, {})

Inserted(sorted, call) ==
  InsertAt(sorted, SelectLastInSeq(sorted, LAMBDA x: x.order < call.order) + 1, call)
InOrder(calls) ==
  LET upTo[i \in 0 .. Len(calls)] ==
        IF i = 0 THEN <<>> ELSE Inserted(upTo[i - 1], calls[i])
  IN  upTo[Len(calls)]

BundleMessages(b) ==
  LET sorted == InOrder(b.calls)
  IN  <<CopyAssistant(b.private, b.public, [i \in DOMAIN sorted |-> sorted[i].id])>>
        \o b.outputs

MainMessages(r) ==
  FlattenSeq([i \in DOMAIN r.nodes |->
    IF IsBundle(r.nodes[i]) THEN BundleMessages(r.nodes[i]) ELSE <<r.nodes[i].m>>])

-----------------------------------------------------------------------------
(* _find_call looks at the pending bundle first, then from the end: 0 is   *)
(* "no such call", -1 the pending bundle, otherwise the node.              *)
FindCall(r, c) ==
  IF r.pend # NoMsg /\ HasCall(r.pend, c) THEN -1
  ELSE SelectLastInSeq(r.nodes, LAMBDA x: IsBundle(x) /\ HasCall(x, c))

BundleAt(r, i) == IF i = -1 THEN r.pend ELSE r.nodes[i]
PutBundle(r, i, b) ==
  IF i = -1 THEN [r EXCEPT !.pend = b] ELSE [r EXCEPT !.nodes[i] = b]

LastAssistant(r) == SelectLastInSeq(r.nodes, IsBundle)
NodeOf(r, uid)   == SelectInSeq(r.nodes, LAMBDA x: IsBundle(x) /\ x.uid = uid)

(* phases(): of the bundles in the thread, not of the pending one.         *)
Phased(r, phase) ==
  UNION {{x.calls[k].id : k \in {j \in DOMAIN x.calls : x.calls[j].phase = phase}} :
           x \in {y \in ToSet(r.nodes) : IsBundle(y)}}

WithPhase(b, c, phase) ==
  [b EXCEPT !.calls = [i \in DOMAIN b.calls |->
     IF b.calls[i].id = c THEN [b.calls[i] EXCEPT !.phase = phase] ELSE b.calls[i]]]

CallIn(b, c) == b.calls[SelectInSeq(b.calls, LAMBDA x: x.id = c)]

(* _new_bundle.  The caller stores it; r comes back with the counter moved *)
(* on, or refused when a call id is already in the thread.                 *)
Bundle(r, m, source, public) ==
  [kind |-> "bundle", uid |-> r.n, private |-> m, source |-> source,
   public |-> public, outputs |-> <<>>,
   calls |-> [i \in DOMAIN m.calls |-> CallOf(m.calls[i], r.n + i, "declared")]]

Counted(r, m) ==
  IF \E i \in DOMAIN m.calls : FindCall(r, m.calls[i]) # 0
  THEN Raise(r, "duplicate_tool_call_id_in_history")
  ELSE [r EXCEPT !.n = @ + Len(m.calls) + 1]

-----------------------------------------------------------------------------
(* _apply_hidden_output: a sealed tool output closes a call of bundle i.   *)
WithOutput(b, m) == [WithPhase(b, m.ref, "closed") EXCEPT !.outputs = Append(@, m)]

HiddenOutput(r, i, m) ==
  IF r.err # "" THEN r
  ELSE IF i = 0 \/ ~HasCall(BundleAt(r, i), m.ref)
       THEN Raise(r, "reasoning_message_invalid")
  ELSE IF CallIn(BundleAt(r, i), m.ref).phase = "closed"
       THEN Raise(r, "function_call_output_without_pending_function_call")
  ELSE PutBundle(r, i, WithOutput(BundleAt(r, i), m))

HiddenMessage(r, m) ==
  IF r.err # "" THEN r
  ELSE IF IsTool(m) THEN HiddenOutput(r, FindCall(r, m.ref), m)
  ELSE IF IsAssistant(m)
       THEN [Counted(r, m) EXCEPT
               !.nodes = Append(@, Bundle(r, m, m, NoMsg)), !.auth = r.n]
  ELSE [r EXCEPT !.nodes = Append(@, Plain(m))]

HiddenMessages(r, msgs) ==
  LET upTo[i \in 0 .. Len(msgs)] == IF i = 0 THEN r ELSE HiddenMessage(upTo[i - 1], msgs[i])
  IN  upTo[Len(msgs)]

(* _stage_patch: the patch is for the authenticated assistant when it says *)
(* the same, which leaves the thread until it is public; otherwise it      *)
(* brings an assistant of its own.                                         *)
AuthSource(r) ==
  IF r.auth = 0 \/ NodeOf(r, r.auth) = 0 THEN NoMsg
  ELSE r.nodes[NodeOf(r, r.auth)].source

PatchMatches(r, updates) ==
  LET p == SplitMainUpdates(updates).patch
  IN  p # NoMsg /\ AuthSource(r) = p

StagedBundle(r, m) ==
  IF AuthSource(r) = m THEN r.nodes[NodeOf(r, r.auth)] ELSE Bundle(r, m, m, NoMsg)

StagedRest(r, m) ==
  IF AuthSource(r) = m THEN [r EXCEPT !.nodes = RemoveAt(@, NodeOf(r, r.auth))]
  ELSE [Counted(r, m) EXCEPT !.auth = r.n]

(* apply_update.  Leading outputs belong to the assistant authenticated    *)
(* before the update when the update brings messages of its own, else to   *)
(* the patched one.  A patched assistant with text then waits for its      *)
(* message item; one without text takes its place at once.                 *)
AnsweringOutputs(r, outputs, uid) ==
  LET upTo[i \in 0 .. Len(outputs)] ==
        IF i = 0 THEN r ELSE HiddenOutput(upTo[i - 1], NodeOf(upTo[i - 1], uid), outputs[i])
  IN  upTo[Len(outputs)]
SuffixOutputs(r, outputs) == AnsweringOutputs(r, outputs, r.auth)

LocalMessages(r, u) ==
  HiddenMessages(
    SuffixOutputs(HiddenMessages(r, u.prefix \o (IF u.anchor = NoMsg THEN <<>> ELSE <<u.anchor>>)),
                  u.suffix),
    u.after)
HasMessages(u) == u.prefix # <<>> \/ u.anchor # NoMsg \/ u.after # <<>>

LeadingOutputs(r, u, uid) == AnsweringOutputs(r, u.leading, IF uid = 0 THEN r.auth ELSE uid)

WithNode(r, b) == [r EXCEPT !.nodes = Append(@, b)]
Patched(rest, u, before, staged) ==
  IF HasMessages(u) THEN WithNode(LeadingOutputs(rest, u, before), staged)
  ELSE LeadingOutputs(WithNode(rest, staged), u, staged.uid)

Awaited(r) ==
  IF r.err = "" /\ Last(r.nodes).private.text
  THEN [r EXCEPT !.nodes = Front(@), !.pend = Last(r.nodes)] ELSE r

Updated(r, u, before) ==
  IF u.patch = NoMsg THEN LeadingOutputs(r, u, before)
  ELSE Awaited(Patched(StagedRest(r, u.patch), u, before, StagedBundle(r, u.patch)))

UpdatedBy(r, u) == Updated(LocalMessages(r, u), u, r.auth)
ApplyUpdate(r, updates) ==
  IF r.err # "" THEN r
  ELSE IF r.pend # NoMsg THEN Raise(r, "main_message_patch_target_missing")
  ELSE UpdatedBy(r, SplitMainUpdates(updates))

-----------------------------------------------------------------------------
(* append_message, add_call, add_output: the public items.                 *)
AppendMessage(r, m) ==
  IF IsAssistant(m) /\ r.pend # NoMsg
  THEN [r EXCEPT !.nodes = Append(@, [r.pend EXCEPT !.public = m]), !.pend = NoMsg]
  ELSE IF IsAssistant(m)
  THEN [r EXCEPT !.nodes = Append(@, Bundle(r, m, NoMsg, m)), !.n = @ + 1]
  ELSE [r EXCEPT !.nodes = Append(@, Plain(m))]

OpenCall(r, call, found, owner) ==
  IF call.phase = "closed" THEN Raise(r, "function_call_already_satisfied")
  ELSE IF call.phase = "open" THEN Raise(r, "duplicate_pending_function_call")
  ELSE IF found = owner THEN [r EXCEPT !.nodes[owner] = WithPhase(@, call.id, "open")]
  ELSE [r EXCEPT
          !.nodes[found].calls = Where(@, LAMBDA x: x.id # call.id),
          !.nodes[owner].calls = Append(@, [call EXCEPT !.phase = "open"])]

AddCallTo(r, c, found, owner) ==
  IF r.pend # NoMsg THEN Raise(r, "main_message_patch_target_missing")
  ELSE IF owner = 0 THEN Raise(r, "sealed_function_call_without_attachment_owner")
  ELSE IF found = 0
       THEN [r EXCEPT !.nodes[owner].calls = Append(@, CallOf(c, r.n, "open")), !.n = @ + 1]
  ELSE OpenCall(r, CallIn(r.nodes[found], c), found, owner)
AddCall(r, c) == AddCallTo(r, c, FindCall(r, c), LastAssistant(r))

AddOutputAt(r, i, m) ==
  IF i = 0 \/ CallIn(BundleAt(r, i), m.ref).phase # "open"
  THEN Raise(r, "function_call_output_without_pending_function_call")
  ELSE PutBundle(r, i, WithOutput(BundleAt(r, i), m))
AddOutput(r, c, id) == AddOutputAt(r, FindCall(r, c), Output(c, id, {}))

(* interrupt_declared: every call nobody published gets an output.         *)
InterruptDeclared(r) ==
  LET Close(b) ==
        LET open == Where(b.calls, LAMBDA x: x.phase = "declared")
            ids  == [i \in DOMAIN open |-> open[i].id]
        IN  [b EXCEPT
               !.calls = [i \in DOMAIN b.calls |->
                  IF b.calls[i].phase = "declared"
                  THEN [b.calls[i] EXCEPT !.phase = "closed"] ELSE b.calls[i]],
               !.outputs = @ \o Stubs(ids, Aborted, {})]
  IN  IF r.pend # NoMsg THEN Raise(r, "main_message_patch_target_missing")
      ELSE [r EXCEPT !.nodes = [i \in DOMAIN r.nodes |->
              IF IsBundle(r.nodes[i]) THEN Close(r.nodes[i]) ELSE r.nodes[i]]]

(* tail(): whether the last assistant is public, and the sealed message    *)
(* behind it.                                                              *)
NoTail == [kind |-> "none", source |-> NoMsg]
MainTail(r) ==
  LET i == LastAssistant(r)
  IN  IF i = 0 THEN NoTail
      ELSE [kind   |-> IF r.nodes[i].public = NoMsg THEN "hidden" ELSE "public",
            source |-> r.nodes[i].source]
=============================================================================
