------------------------------- MODULE Ingest -------------------------------
(***************************************************************************)
(* responses/ingest/ingest.py: the items of a request replayed into the    *)
(* threads and the memory a response starts from.                          *)
(*                                                                         *)
(* There is one side thread, the advisor's; main is always enabled.  The   *)
(* state a reasoning item seals is a checkpoint, which brings the memory,  *)
(* the side thread, its enablement and the block on main whole, or a       *)
(* patch, which holds what the response changed.  A patch of a list is     *)
(* what a JSON patch of it is: the result, with the elements it keeps      *)
(* named by their index in the list it was made against.                   *)
(***************************************************************************)
EXTENDS MainReplay

NoChange  == [type |-> "no change"]
To(value) == [type |-> "to", value |-> value]
Applied(old, change) == IF change = NoChange THEN old ELSE change.value

IndexIn(base, m) == SelectInSeq(base, LAMBDA x: x = m)
CellAt(j, m) == [keep |-> j, msg |-> IF j = 0 THEN m ELSE NoMsg]
ListDiff(base, now) ==
  [type  |-> "list", over |-> Len(base),
   cells |-> [i \in DOMAIN now |-> CellAt(IndexIn(base, now[i]), now[i])]]

ListPatched(list, patch) ==
  [i \in DOMAIN patch.cells |->
     IF patch.cells[i].keep = 0 THEN patch.cells[i].msg ELSE list[patch.cells[i].keep]]

Checkpoint(now) ==
  [type |-> "checkpoint", memory |-> now.memory, adv |-> now.adv,
   enabled |-> now.enabled, blocked |-> now.blocked]

Delta(base, now) == IF base = now THEN NoChange ELSE To(now)

StatePatch(base, now) ==
  [type    |-> "patch",
   memory  |-> Delta(base.memory, now.memory),
   adv     |-> IF base.adv = now.adv THEN NoChange ELSE ListDiff(base.adv, now.adv),
   enabled |-> Delta(base.enabled, now.enabled),
   blocked |-> Delta(base.blocked, now.blocked)]

-----------------------------------------------------------------------------
(* _Replay, of which "main" is the main thread's MainReplay.  "calls" is   *)
(* the advisor thread's _ThreadCalls: every call in its history with its   *)
(* phase.  "ck" is checkpoint_required, "deferred" deferred_main_interrupt. *)
Fresh ==
  [main |-> FreshMain, err |-> "", memory |-> 0, adv |-> <<>>, enabled |-> FALSE, blocked |-> FALSE,
   calls |-> <<>>, last |-> 0, ck |-> FALSE, deferred |-> FALSE]

(* Why the replay was refused, by itself or by the main thread's.          *)
Refusal(r) == IF r.err # "" THEN r.err ELSE r.main.err

SidePhased(r, phase) ==
  {r.calls[i].id : i \in {j \in DOMAIN r.calls : r.calls[j].phase = phase}}

(* _ThreadCalls.rebuild and what it refuses.                               *)
Rebuild(r) ==
  LET all == FlattenSeq([i \in DOMAIN r.adv |-> r.adv[i].calls])
      done == Refs(r.adv)
  IN  IF ~Coherent(r.adv) THEN Raise(r, "pending_tool_outputs_block_message")
      ELSE [r EXCEPT !.calls = [i \in DOMAIN all |->
              CallOf(all[i], i, IF all[i] \in done THEN "closed" ELSE "declared")]]

(* _validate_call_boundary and _validate_reasoning: "" or the refusal.     *)
BoundaryRefusal(r, allowDeferred) ==
  IF r.main.pend # NoMsg THEN "main_message_patch_target_missing"
  ELSE IF \/ Phased(r.main, "open") # {}
          \/ ~r.blocked /\ Phased(r.main, "declared") # {} /\ ~allowDeferred
          \/ SidePhased(r, "open") # {}
          \/ r.enabled /\ SidePhased(r, "declared") # {}
  THEN "pending_tool_outputs_block_message" ELSE ""

ChainIgnored(r, item) == FALSE
ChainBroken(r, item) == item.prev # r.last

ReasoningRefusal(r, item) ==
  LET isCk  == item.state.type = "checkpoint"
      bound == BoundaryRefusal(r, isCk /\ r.deferred)
  IN  IF bound # "" THEN bound
      ELSE IF isCk /\ ~r.ck THEN "reasoning_checkpoint_unexpected"
      ELSE IF isCk /\ item.prev # 0 THEN "reasoning_checkpoint_has_predecessor"
      ELSE IF ~isCk /\ r.ck THEN "reasoning_checkpoint_required"
      ELSE IF ~isCk /\ ChainBroken(r, item)
           THEN "reasoning_previous_reasoning_id_mismatch"
      ELSE ""

ApplyCheckpoint(r, s) ==
  Rebuild([r EXCEPT !.memory = s.memory, !.adv = s.adv, !.enabled = s.enabled,
                    !.blocked = s.blocked, !.ck = FALSE])

HeadPatched(r, s) ==
  [r EXCEPT !.memory = Applied(@, s.memory), !.enabled = Applied(@, s.enabled),
            !.blocked = Applied(@, s.blocked)]

ApplyPatch(r, s) ==
  IF s.adv = NoChange THEN HeadPatched(r, s)
  ELSE IF s.adv.over # Len(r.adv) \/ ~AllBegun(ListPatched(r.adv, s.adv))
       THEN Raise(r, "reasoning_thread_patch_invalid")
  ELSE Rebuild([HeadPatched(r, s) EXCEPT !.adv = ListPatched(@, s.adv)])

FreedFor(r, updates) ==
  IF r.deferred /\ ~PatchMatches(r.main, updates)
  THEN [r EXCEPT !.main = InterruptDeclared(@)] ELSE r
WithState(r, item) ==
  IF item.state.type = "checkpoint"
  THEN ApplyCheckpoint([FreedFor(r, item.main) EXCEPT !.deferred = FALSE], item.state)
  ELSE ApplyPatch(r, item.state)

WithMain(r, updates) ==
  IF r.err # "" THEN r ELSE [r EXCEPT !.main = ApplyUpdate(@, updates)]

Authenticated(r, item, refusal) ==
  IF refusal # "" THEN Raise(r, refusal)
  ELSE [WithMain(WithState(r, item), item.main) EXCEPT !.last = item.id]
StepReasoning(r, item) == Authenticated(r, item, ReasoningRefusal(r, item))

-----------------------------------------------------------------------------
(* _handle_main_message_boundary: a message reaches a main thread that a   *)
(* side thread blocks.  Its unpublished calls end here, for a user message *)
(* only once it is known which reasoning item follows.                     *)
AtBoundary(r, user) ==
  IF ~r.blocked \/ r.deferred THEN r
  ELSE IF user /\ Phased(r.main, "declared") # {} THEN [r EXCEPT !.deferred = TRUE]
  ELSE [r EXCEPT !.main = InterruptDeclared(@)]

StepMessage(r, item) ==
  LET user == item.role = "user"
  IN  [AtBoundary(r, user) EXCEPT !.ck = @ \/ user, !.main = AppendMessage(@, MessageOf(item))]

SetSidePhase(r, c, phase) ==
  [r EXCEPT !.calls = [i \in DOMAIN r.calls |->
     IF r.calls[i].id = c THEN [r.calls[i] EXCEPT !.phase = phase] ELSE r.calls[i]]]

StepCall(r, item) ==
  LET known == \E i \in DOMAIN r.calls : r.calls[i].id = item.id
  IN  CASE item.thread = "advisor" /\ ~known -> r
      [] item.thread = "advisor" /\ known ->
           IF ~r.enabled THEN Raise(r, "inactive_thread_function_call")
           ELSE IF item.id \in SidePhased(r, "closed")
                THEN Raise(r, "function_call_already_satisfied")
           ELSE IF item.id \in SidePhased(r, "open")
                THEN Raise(r, "duplicate_pending_function_call")
           ELSE SetSidePhase(r, item.id, "open")
      [] item.thread # "advisor" ->
           IF item.thread = "main" /\ r.blocked /\ item.id \in Phased(r.main, "declared")
           THEN Raise(r, "inactive_thread_function_call")
           ELSE [r EXCEPT !.main = AddCall(@, item.id)]

StepOutput(r, item) ==
  LET known == \E i \in DOMAIN r.calls : r.calls[i].id = item.id
  IN  CASE item.thread = "advisor" /\ ~known -> r
      [] item.thread = "advisor" /\ known ->
           IF item.id \notin SidePhased(r, "open")
           THEN Raise(r, "function_call_output_without_pending_function_call")
           ELSE [SetSidePhase(r, item.id, "closed")
                   EXCEPT !.adv = Append(@, Output(item.id, item.out, {}))]
      [] item.thread # "advisor" -> [r EXCEPT !.main = AddOutput(@, item.id, item.out)]

Step(r, item) ==
  IF Refusal(r) # "" THEN r
  ELSE CASE item.t = "reasoning" -> StepReasoning(r, item)
         [] item.t = "message"   -> StepMessage(r, item)
         [] item.t = "call"      -> StepCall(r, item)
         [] item.t = "output"    -> StepOutput(r, item)

(* _validate_finish.                                                       *)
Finished(r) ==
  IF Refusal(r) # "" THEN r
  ELSE IF r.main.pend # NoMsg THEN Raise(r, "main_message_patch_target_missing")
  ELSE IF Phased(r.main, "open") # {} \/ SidePhased(r, "open") # {}
       THEN Raise(r, "function_call_missing_function_call_output")
  ELSE IF \/ ~r.blocked /\ Phased(r.main, "declared") # {}
          \/ r.enabled /\ SidePhased(r, "declared") # {}
       THEN Raise(r, "reasoning_tool_call_missing_function_call_item")
  ELSE r
Finish(r) ==
  Finished(IF r.deferred THEN [r EXCEPT !.main = InterruptDeclared(@), !.deferred = FALSE] ELSE r)

(* _open_reasoning_item, of all items first: a call without arguments      *)
(* cannot be read.  One in a patch is read when the patch is applied.      *)
Readable(item) ==
  item.t = "reasoning" =>
    AllBegun(item.main) /\ (item.state.type = "checkpoint" => AllBegun(item.state.adv))

(* ingest_response_request: what a response starts from.                   *)
After(items) ==
  LET upTo[i \in 0 .. Len(items)] == IF i = 0 THEN Fresh ELSE Step(upTo[i - 1], items[i])
  IN  upTo[Len(items)]
Replay(items) ==
  IF \A i \in DOMAIN items : Readable(items[i]) THEN After(items)
  ELSE Raise(Fresh, "reasoning_payload_invalid")

Outcome(r) ==
  [err |-> Refusal(r), memory |-> r.memory, main |-> MainMessages(r.main), adv |-> r.adv,
   enabled |-> r.enabled, blocked |-> r.blocked, tail |-> MainTail(r.main),
   last |-> r.last, ck |-> r.ck]

Ingested(items) ==
  Outcome(Finish(Replay(items)))
=============================================================================
