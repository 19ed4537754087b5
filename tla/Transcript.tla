----------------------------- MODULE Transcript -----------------------------
(***************************************************************************)
(* Messages, histories and the items of the wire: the value types of       *)
(* responses/ingest/models.py and responses/ingest/content.py.             *)
(*                                                                         *)
(* The text of a message is its "id" (equal ids are equal texts); "text"   *)
(* says whether there is any.  Reasoning content is the flag "thoughts".   *)
(* A message's plugin memory is the set "mem": the ids of the calls the    *)
(* server owns (server_tools.call_ids), or {Artifact} for what the advisor *)
(* put into the main thread.  "begun" is false of an assistant that calls  *)
(* a tool with empty arguments.                                            *)
(***************************************************************************)
EXTENDS Integers, Sequences, SequencesExt

NoMsg    == [role |-> "none"]
Artifact == 0        \* advisor.artifact = true in a message's memory

(* What the texts of the server's own tool outputs are told apart by.      *)
Interrupted == -1    \* state.py INTERRUPTED_TOOL_OUTPUT
Aborted     == -2    \* ingest.py INTERRUPTED_TOOL_OUTPUT
Cancelled   == -3    \* advisor ABORTED_TOOL_OUTPUT
Placeholder == -4    \* retry.py RETRY_TOOL_PLACEHOLDER
Advised     == -5    \* advisor ADVISOR_TOOL_OUTPUT

Note(role, id, mem) ==
  [role |-> role, id |-> id, text |-> TRUE, thoughts |-> FALSE,
   mem |-> mem, calls |-> <<>>, begun |-> TRUE, ref |-> 0]

User(id) == Note("user", id, {})

Assistant(id, text, thoughts, calls, mem) ==
  [role |-> "assistant", id |-> id, text |-> text, thoughts |-> thoughts,
   mem |-> mem, calls |-> calls, begun |-> TRUE, ref |-> 0]

Output(ref, id, mem) ==
  [role |-> "tool", id |-> id, text |-> TRUE, thoughts |-> FALSE,
   mem |-> mem, calls |-> <<>>, begun |-> TRUE, ref |-> ref]

(* ChatToolCall.from_primitive refuses the call when the message is read.  *)
WithoutArguments(m) == [m EXCEPT !.begun = FALSE]

IsAssistant(m) == m.role = "assistant"
IsTool(m)      == m.role = "tool"

(* The elements of s that pass a test, in their order.                     *)
Among(s, I) ==
  LET upTo[i \in 0 .. Len(s)] ==
        IF i = 0 THEN <<>>
        ELSE IF i \in I THEN Append(upTo[i - 1], s[i]) ELSE upTo[i - 1]
  IN  upTo[Len(s)]
Where(s, Test(_)) == Among(s, {i \in DOMAIN s : Test(s[i])})

Stubs(calls, id, mem) == [i \in DOMAIN calls |-> Output(calls[i], id, mem)]

(* What a client reads of an assistant message, and what ingest makes of   *)
(* the message item: no thoughts, no calls, no memory.                     *)
PublicForm(m) == Assistant(m.id, m.text, FALSE, <<>>, {})

-----------------------------------------------------------------------------
(* split_tail: everything before the last assistant, that assistant, the   *)
(* tool outputs right after it, and the rest.                              *)
PastTools(msgs, i) ==
  LET stop == SelectInSubSeq(msgs, i, Len(msgs), LAMBDA m: ~IsTool(m))
  IN  IF stop = 0 THEN Len(msgs) + 1 ELSE stop

SplitAt(msgs, a, past) ==
  IF a = 0
  THEN [prefix |-> <<>>, anchor |-> NoMsg, suffix |-> <<>>, after |-> msgs]
  ELSE [prefix |-> SubSeq(msgs, 1, a - 1),
        anchor |-> msgs[a],
        suffix |-> SubSeq(msgs, a + 1, past - 1),
        after  |-> SubSeq(msgs, past, Len(msgs))]

SplitFrom(msgs, a) == SplitAt(msgs, a, PastTools(msgs, a + 1))
SplitTail(msgs)    == SplitFrom(msgs, SelectLastInSeq(msgs, IsAssistant))

Refs(msgs) == {msgs[i].ref : i \in {j \in DOMAIN msgs : IsTool(msgs[j])}}

(* The calls of the last assistant that no tool message has answered.      *)
OpenIn(split) ==
  IF split.anchor = NoMsg THEN <<>>
  ELSE Where(split.anchor.calls, LAMBDA c: c \notin Refs(split.suffix))
OpenCalls(msgs) == OpenIn(SplitTail(msgs))

(* A history in which every tool output answers, once, a call of the       *)
(* nearest assistant before it, and only the last assistant has calls      *)
(* without an output, with nothing after it then.                          *)
Answers(msgs, i, a) ==
  /\ a # 0
  /\ \E k \in DOMAIN msgs[a].calls : msgs[a].calls[k] = msgs[i].ref
  /\ \A j \in a + 1 .. i - 1 : IsTool(msgs[j]) /\ msgs[j].ref # msgs[i].ref

Coherent(msgs) ==
  \A i \in DOMAIN msgs :
    IF IsTool(msgs[i])
    THEN Answers(msgs, i, SelectLastInSubSeq(msgs, 1, i - 1, IsAssistant))
    ELSE OpenCalls(SubSeq(msgs, 1, i - 1)) = <<>>

-----------------------------------------------------------------------------
(* split_main_updates: a reasoning item's main update is a sequence of     *)
(* messages and at most one message patch, its last element.               *)
Patch(m) == [role |-> "patch", msg |-> m]

AllBegun(msgs) ==
  \A i \in DOMAIN msgs : IF msgs[i].role = "patch" THEN msgs[i].msg.begun ELSE msgs[i].begun

IsPatched(updates) == updates # <<>> /\ Last(updates).role = "patch"
Unpatched(updates) == IF IsPatched(updates) THEN Front(updates) ELSE updates

WithLead(split, leading, patch) ==
  [leading |-> leading, prefix |-> split.prefix, anchor |-> split.anchor,
   suffix  |-> split.suffix, after  |-> split.after, patch |-> patch]
SplitLead(msgs, past, patch) ==
  WithLead(SplitTail(SubSeq(msgs, past, Len(msgs))), SubSeq(msgs, 1, past - 1), patch)
SplitPatched(msgs, patch) == SplitLead(msgs, PastTools(msgs, 1), patch)
SplitMainUpdates(updates) ==
  SplitPatched(Unpatched(updates), IF IsPatched(updates) THEN Last(updates).msg ELSE NoMsg)

(* What split_main_updates accepts.                                        *)
AfterLead(msgs) == SubSeq(msgs, PastTools(msgs, 1), Len(msgs))
UpdateOK(updates) ==
  /\ \A i \in DOMAIN updates : updates[i].role = "patch" => i = Len(updates)
  /\ Coherent(AfterLead(Unpatched(updates)))
  /\ IsPatched(updates) => SplitMainUpdates(updates).after = <<>>

-----------------------------------------------------------------------------
(* Items.  A sealed call id names its thread; a fabricated one (a history  *)
(* another server produced) names none and belongs to main.                *)
MsgItem(role, id)      == [t |-> "message", role |-> role, id |-> id]
CallItem(thread, c)    == [t |-> "call", thread |-> thread, id |-> c]
OutItem(thread, c, id) == [t |-> "output", thread |-> thread, id |-> c, out |-> id]
ReasoningItem(rid, prev, state, main) ==
  [t |-> "reasoning", id |-> rid, prev |-> prev, state |-> state, main |-> main]

MessageOf(item) ==
  IF item.role = "assistant" THEN Assistant(item.id, TRUE, FALSE, <<>>, {})
  ELSE Note(item.role, item.id, {})
=============================================================================
