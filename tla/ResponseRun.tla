---------------------------- MODULE ResponseRun ----------------------------
(***************************************************************************)
(* One stored response from acceptance to its terminal status: the         *)
(* executor task (_execute_response, run_response, the retried completion, *)
(* State.commit), the task that narrates reasoning (default_summary), the  *)
(* summarizer the summary plugin may put in front of it, the               *)
(* StreamCoordinator they share, and the client at the other end of the    *)
(* event channel.                                                          *)
(*                                                                         *)
(* The tasks are cooperative: a step here runs from one await that can     *)
(* suspend to the next.  A store write is one step, because its commit is  *)
(* shielded from cancellation and what follows it does not suspend;        *)
(* publishing to the in-memory channel never suspends.  Texts, messages    *)
(* and usage are left out, up to whether they are empty.                   *)
(***************************************************************************)
EXTENDS Totals

CONSTANTS
    MaxAttempts,   \* max_attempts of the retry stream
    MaxTurns,      \* bound: turns of one response loop
    MaxDeltas,     \* bound: deltas of one attempt before its last
    MaxTexts,      \* bound: texts of one summarized fragment
    MaxVisible,    \* bound: public items of one commit
    Capacity,      \* max_buffer_size of the memory streams
    FlushAt,       \* SUMMARY_HARD_FLUSH_CHARS, in deltas
    MaxFaults      \* bound: store writes that raise

ASSUME RunAssumption ==
    /\ MaxAttempts \in Nat \ {0} /\ MaxTurns \in Nat \ {0} /\ Capacity \in Nat \ {0}
    /\ MaxDeltas \in Nat /\ MaxTexts \in Nat /\ MaxVisible \in Nat /\ MaxFaults \in Nat
    /\ FlushAt \in Nat \ {0}

VARIABLES
    exec,         \* where the executor is
    cause,        \* what took it off the path to a result
    turn, attempt, deltas,
    history,      \* the retry stream holds corrections
    suffix,       \* main[suffix:] is not empty
    outbox,       \* what the current snapshot still has to send
    result,       \* finish reason of the accepted result
    budget,       \* CompletionBudget: "left" or "spent"
    visible,      \* public items the commit has still to emit
    source,       \* the stream from the executor to the summary task
    closed,       \* its send end is closed
    cond,         \* the summarizer: where it is, its buffer, texts of the fragment
    down,         \* the stream from the summarizer to default_summary
    summary,      \* where default_summary is
    openPart, accumulated,
    draft,        \* StreamCoordinator._draft
    reasoningId,  \* State._reasoning_id: position of the item, or 0
    output,       \* StreamCoordinator._items
    status,       \* StreamCoordinator._response.status
    stored,       \* the record's status in the store
    storedOutput, \* the record's output items in the store
    feed,         \* what the events published so far mean to a client
    gone,         \* the client has left and the executor's scope is cancelled
    faults,       \* store writes that have raised
    summarize,    \* the request asks for a summary
    stateful      \* the update has more than main[suffix:]: a checkpoint, memory, threads

turnVars == <<turn, attempt, deltas, history, suffix, outbox, result, budget>>
summaryVars == <<source, closed, cond, down, summary, openPart, accumulated>>
coordinator == <<draft, reasoningId, output, status, stored, storedOutput, feed>>
request == <<stateful, summarize>>
vars == <<exec, cause, turnVars, visible, summaryVars, coordinator, gone, faults, request>>

InTurn == {"opening", "streaming", "judging", "joining", "looping"}
Shielded == {"committing", "sealing", "emitting", "saving", "dropping", "ending"}
Places == {"accepting", "starting", "leaving", "over"} \cup InTurn \cup Shielded
Causes == {"none", "cancel", "anchor", "budget", "attempts", "provider", "inactive", "store"}
Terminal == {"completed", "incomplete", "failed", "cancelled"}
NoDraft == [at |-> 0, pending |-> FALSE, parts |-> 0]
CondAt(at, buffered, texts) == [at |-> at, buffered |-> buffered, texts |-> texts]

Init ==
    /\ exec = "accepting" /\ cause = "none"
    /\ turn = 1 /\ attempt = 0 /\ deltas = 0
    /\ history = FALSE /\ suffix = FALSE /\ outbox = <<>> /\ result = "none"
    /\ budget = "left" /\ visible = 0
    /\ source = <<>> /\ closed = FALSE /\ cond = CondAt("over", FALSE, 0) /\ down = <<>>
    /\ summary = "over" /\ openPart = FALSE /\ accumulated = 0
    /\ draft = NoDraft /\ reasoningId = 0 /\ output = <<>>
    /\ status = "in_progress" /\ stored = "absent" /\ storedOutput = <<>>
    /\ feed = [at |-> "new", parts |-> 0] /\ gone = FALSE /\ faults = 0
    /\ summarize \in BOOLEAN /\ stateful \in BOOLEAN

-----------------------------------------------------------------------------
(* The channel, as a client reads it.  Every event is one the previous ones *)
(* prepare for, or the feed is broken; parts counts the completed ones.     *)

Feeds == [at : {"new", "created", "live", "item", "part", "over", "broken"}, parts : Nat]
At(state, f) == [f EXCEPT !.at = state]
After(f, e) ==
    CASE f.at = "new" /\ e = "created" -> At("created", f)
      [] f.at = "created" /\ e = "in_progress" -> At("live", f)
      [] f.at = "live" /\ e = "item.added" -> At("item", f)
      [] f.at = "item" /\ e = "part.added" -> At("part", f)
      [] f.at = "part" /\ e = "text.delta" -> f
      [] f.at = "part" /\ e = "part.done" -> [at |-> "item", parts |-> f.parts + 1]
      [] f.at = "item" /\ e = "item.done" -> At("live", f)
      [] f.at = "live" /\ e = "terminal" -> At("over", f)
      [] f.at \in {"live", "item", "part"} /\ e = "cancelled" -> At("over", f)
      [] OTHER -> At("broken", f)

\* What a feed in state f means once the events have been read, one by one.
Read(f, events) ==
    LET after[n \in 0..Len(events)] == IF n = 0 THEN f ELSE After(after[n - 1], events[n])
    IN  after[Len(events)]

Publish(events) == feed' = Read(feed, events)

-----------------------------------------------------------------------------
(* Coordinator operations, as functions of the draft and the items.        *)

Item(kind, st, parts) == [kind |-> kind, status |-> st, parts |-> parts]
\* Mutated form: the summary is left out of the item.
DraftItemBare(d, st) == Item("reasoning", st, 0)
DraftItem(d, st) == Item("reasoning", st, d.parts)

\* begin_reasoning: append the item, remember the draft, announce it.
BeginReasoning ==
    LET new == Item("reasoning", "in_progress", 0)
    IN  /\ output' = Append(output, new)
        /\ storedOutput' = Append(storedOutput, new)
        /\ draft' = [at |-> Len(output) + 1, pending |-> FALSE, parts |-> 0]
        /\ reasoningId' = Len(output) + 1

\* Mutated form: the store is not told.
ReplaceInMemory(st) ==
    /\ output' = [output EXCEPT ![draft.at] = DraftItem(draft, st)]
    /\ UNCHANGED storedOutput

\* _replace_item with the draft's item.
ReplaceDraft(st) ==
    /\ output' = [output EXCEPT ![draft.at] = DraftItem(draft, st)]
    /\ storedOutput' = [storedOutput EXCEPT ![draft.at] = DraftItem(draft, st)]

\* summary_done: the pending text becomes a part of the item, in memory only.
SummaryDone(d) == [d EXCEPT !.pending = FALSE, !.parts = @ + 1]

\* summary_delta's events: a text, preceded by its part if none is open.
DeltaEvents(d) == IF d.pending THEN <<"text.delta">> ELSE <<"part.added", "text.delta">>

\* _update_empty, for save_progress.
HasUpdate == suffix \/ stateful

-----------------------------------------------------------------------------
(* Acceptance and the client.                                              *)

\* _accept_response and created: the record is stored, then announced.
Accept ==
    /\ exec = "accepting" /\ ~gone
    /\ stored' = "in_progress"
    /\ Publish(<<"created">>)
    /\ exec' = "starting"
    /\ UNCHANGED <<cause, turnVars, visible, summaryVars, draft, reasoningId, output, status,
                   storedOutput, gone, faults, request>>

\* Cancelled or refused by the store before the record exists.
NotAccepted ==
    /\ exec = "accepting"
    /\ gone \/ faults < MaxFaults
    /\ faults' = IF gone THEN faults ELSE faults + 1
    /\ exec' = "over"
    /\ UNCHANGED <<cause, turnVars, visible, summaryVars, coordinator, gone, request>>

\* The client disconnects; the executor's scope is cancelled.
Disconnect ==
    /\ ~gone
    /\ gone' = TRUE
    /\ UNCHANGED <<exec, cause, turnVars, visible, summaryVars, coordinator, faults, request>>

\* wrap_summary starts a summarizer only when a summary is asked for.
NewCond == CondAt(IF summarize THEN "receiving" ELSE "over", FALSE, 0)

\* in_progress, then response_loop, which has nothing to run when main is
\* blocked or waits for the client's tool outputs.
Start ==
    /\ exec = "starting"
    /\ Publish(<<"in_progress">>)
    /\ \/ exec' = "committing" /\ UNCHANGED <<summary, cond>>
       \/ /\ exec' = "opening"
          /\ summary' = "receiving"
          /\ cond' = NewCond
    /\ UNCHANGED <<cause, turnVars, visible, source, closed, down, openPart, accumulated, draft,
                   reasoningId, output, status, stored, storedOutput, gone, faults, request>>

-----------------------------------------------------------------------------
(* A turn: response_completion over the retry stream.                      *)

idleTurn == <<turn, history, result, budget>>

\* Leave the turn: the stream is closed and the children are cancelled.
Leave(why) ==
    /\ exec' = "leaving"
    /\ cause' = why
    /\ closed' = TRUE
    /\ outbox' = <<>>
    /\ UNCHANGED <<turn, attempt, deltas, history, suffix, result, budget, visible, source, cond,
                   down, summary, openPart, accumulated, coordinator, gone, faults, request>>

\* _limit_request.
SpentBudget == budget = "spent"

\* The next attempt of the retry stream.
OpenAttempt ==
    /\ exec = "opening" /\ outbox = <<>> /\ cause = "none"
    /\ attempt < MaxAttempts /\ ~SpentBudget
    /\ attempt' = attempt + 1 /\ deltas' = 0
    /\ exec' = "streaming"
    /\ UNCHANGED <<cause, idleTurn, suffix, outbox, visible, summaryVars, coordinator, gone,
                   faults, request>>

NoAttempt ==
    /\ exec = "opening" /\ outbox = <<>> /\ cause = "none"
    /\ attempt = MaxAttempts \/ SpentBudget
    /\ Leave(IF attempt = MaxAttempts THEN "attempts" ELSE "budget")

\* A delta: what it makes the executor send depends on what it carries.
Delta ==
    /\ exec = "streaming" /\ outbox = <<>> /\ cause = "none"
    /\ deltas < MaxDeltas
    /\ deltas' = deltas + 1
    /\ suffix' = TRUE
    /\ outbox' \in {<<>>, <<"delta">>, <<"done">>, <<"delta", "done">>}
    /\ UNCHANGED <<exec, cause, turn, attempt, history, result, budget, visible, summaryVars,
                   coordinator, gone, faults, request>>

\* The usage of an attempt is recorded when its generator ends, however it does.
Record == budget' \in {budget, "spent"}

\* The delta with the finish reason; the attempt has its result.
LastDelta ==
    /\ exec = "streaming" /\ outbox = <<>> /\ cause = "none"
    /\ exec' = "judging"
    /\ suffix' = TRUE
    /\ result' \in {"stop", "length"}
    /\ outbox' \in {<<"done">>, <<"delta", "done">>}
    /\ UNCHANGED <<cause, turn, attempt, deltas, history, budget, visible, summaryVars,
                   coordinator, gone, faults, request>>

\* The provider fails before the first delta, or ends without a result.
ProviderFails ==
    /\ exec = "streaming" /\ outbox = <<>> /\ cause = "none"
    /\ Leave("provider")

\* The provider fails after some deltas: main goes back to the history, and the
\* retry stream goes on to its next attempt.
Interrupted ==
    /\ exec = "streaming" /\ outbox = <<>> /\ cause = "none"
    /\ deltas > 0
    /\ suffix' = (history \/ turn > 1)
    /\ outbox' = <<"done">>
    /\ exec' = "opening"
    /\ Record
    /\ UNCHANGED <<cause, turn, attempt, deltas, history, result, visible, summaryVars,
                   coordinator, gone, faults, request>>

\* A validator rejects the result: its correction joins the history.
Reject ==
    /\ exec = "judging" /\ outbox = <<>> /\ cause = "none"
    /\ history' = TRUE /\ suffix' = TRUE
    /\ outbox' = <<"done">>
    /\ exec' = "opening"
    /\ Record
    /\ UNCHANGED <<cause, turn, attempt, deltas, result, visible, summaryVars, coordinator, gone,
                   faults, request>>

\* The result stands: the stream is closed and the summary task is awaited.
AcceptResult ==
    /\ exec = "judging" /\ outbox = <<>> /\ cause = "none"
    /\ closed' = TRUE
    /\ exec' = "joining"
    /\ Record
    /\ UNCHANGED <<cause, turn, attempt, deltas, history, suffix, outbox, result, visible, source, cond, down, summary, openPart, accumulated,
                   coordinator, gone, faults, request>>

\* Mutated form: the buffer has no limit.
SendUnbounded ==
    /\ exec \in InTurn /\ outbox # <<>> /\ cause = "none"
    /\ source' = Append(source, Head(outbox))
    /\ outbox' = Tail(outbox)
    /\ UNCHANGED <<exec, cause, turn, attempt, deltas, history, suffix, result, budget, visible,
                   closed, cond, down, summary, openPart, accumulated, coordinator, gone, faults,
                   request>>

\* summary_send.send, which waits while the buffer is full.
Send ==
    /\ exec \in InTurn /\ outbox # <<>> /\ cause = "none"
    /\ Len(source) < Capacity
    /\ source' = Append(source, Head(outbox))
    /\ outbox' = Tail(outbox)
    /\ UNCHANGED <<exec, cause, turn, attempt, deltas, history, suffix, result, budget, visible,
                   closed, cond, down, summary, openPart, accumulated, coordinator, gone, faults,
                   request>>

\* The snapshot with the turn's first usage is being sent.  The attempt's generator
\* is suspended: left now, it is closed by the event loop, some iterations later.
UsageUnrecorded == exec = "judging" /\ outbox # <<>> /\ ~history /\ turn = 1

\* Cancellation is delivered where the executor is suspended.  budget.anchor, which
\* then looks for the first usage, raises if it is still not recorded.
Cancelled ==
    /\ gone /\ exec \in InTurn /\ cause = "none"
    /\ exec \in {"streaming", "joining", "looping"} \/ outbox # <<>>
    /\ Leave("cancel") \/ (UsageUnrecorded /\ Leave("anchor"))

\* A child raised: the task group cancels the executor's body.
ChildRaised ==
    /\ exec \in InTurn /\ cause # "none"
    /\ Leave(cause)

\* Mutated form: the summary task is not awaited.
ChildrenNotAwaited == cond.at = "over"
ChildrenOver == summary = "over" /\ cond.at = "over"

\* The task group is left with the result; the loop ends or takes another turn.
EndTurn ==
    /\ exec = "joining" /\ cause = "none" /\ ChildrenOver
    /\ \/ exec' = "committing" /\ UNCHANGED turn
       \/ turn < MaxTurns /\ turn' = turn + 1 /\ exec' = "looping"
    /\ UNCHANGED <<cause, attempt, deltas, history, suffix, outbox, result, budget, visible,
                   summaryVars, coordinator, gone, faults, request>>

\* The next turn's request and streams.
NextTurn ==
    /\ exec = "looping" /\ cause = "none"
    /\ exec' = "opening"
    /\ attempt' = 0 /\ deltas' = 0 /\ history' = FALSE /\ result' = "none"
    /\ source' = <<>> /\ down' = <<>> /\ closed' = FALSE
    /\ summary' = "receiving" /\ openPart' = FALSE /\ accumulated' = 0
    /\ cond' = NewCond
    /\ UNCHANGED <<cause, turn, suffix, outbox, budget, visible, coordinator, gone, faults,
                   request>>

\* Mutated form: the handler is not shielded, and a client that left stops it.
EndLeavingUnshielded ==
    /\ exec = "leaving" /\ ChildrenOver
    /\ exec' = IF cause = "budget" THEN "committing" ELSE IF gone THEN "over" ELSE "saving"
    /\ UNCHANGED <<cause, turnVars, visible, summaryVars, coordinator, gone, faults, request>>

\* The task group is left with an exception: run_response commits when the
\* budget is exhausted, _execute_response saves and stops on any other.
EndLeaving ==
    /\ exec = "leaving" /\ ChildrenOver
    /\ exec' = IF cause = "budget" THEN "committing" ELSE "saving"
    /\ UNCHANGED <<cause, turnVars, visible, summaryVars, coordinator, gone, faults, request>>

-----------------------------------------------------------------------------
(* The summarizer: _run_summarizer and _emit_summary_fragment.             *)

others == <<visible, gone, request>>

\* A child whose group is cancelled stops where it is suspended.  A write it is
\* in may still commit; an item handed to it at that moment counts as taken before.
Halted == exec = "leaving" \/ cause # "none"

\* A fragment of the buffer is summarized, unless the budget is spent.
Fragment(rest) ==
    cond' = CondAt(IF SpentBudget THEN "receiving" ELSE "texting", rest, 0)

CondTakes ==
    /\ ~Halted /\ cond.at = "receiving" /\ source # <<>>
    /\ source' = Tail(source)
    /\ CASE Head(source) = "delta" ->
                \/ cond' = CondAt("receiving", TRUE, 0)
                \/ \E rest \in BOOLEAN : Fragment(rest)
         [] Head(source) = "done" ->
                IF cond.buffered THEN Fragment(FALSE) ELSE UNCHANGED cond
    /\ UNCHANGED <<exec, cause, turnVars, closed, down, summary, openPart, accumulated,
                   coordinator, faults, others>>

CondSourceEnds ==
    /\ ~Halted /\ cond.at = "receiving" /\ source = <<>> /\ closed
    /\ IF cond.buffered THEN Fragment(FALSE) ELSE cond' = CondAt("over", FALSE, 0)
    /\ UNCHANGED <<exec, cause, turnVars, source, closed, down, summary, openPart, accumulated,
                   coordinator, faults, others>>

CondText ==
    /\ ~Halted /\ cond.at = "texting" /\ cond.texts < MaxTexts /\ Len(down) < Capacity
    /\ down' = Append(down, "delta")
    /\ cond' = [cond EXCEPT !.texts = @ + 1]
    /\ UNCHANGED <<exec, cause, turnVars, source, closed, summary, openPart, accumulated,
                   coordinator, faults, others>>

CondFragmentEnds ==
    /\ ~Halted /\ cond.at = "texting"
    /\ IF cond.texts = 0 THEN UNCHANGED down
       ELSE Len(down) < Capacity /\ down' = Append(down, "done")
    /\ cond' = CondAt("receiving", cond.buffered, 0)
    /\ Record
    /\ UNCHANGED <<exec, cause, turn, attempt, deltas, history, suffix, outbox, result, source,
                   closed, summary, openPart, accumulated, coordinator, faults, others>>

\* Its provider fails, and it has no retry.
CondFails ==
    /\ ~Halted /\ cond.at = "texting"
    /\ cond' = CondAt("over", FALSE, 0)
    /\ cause' = "provider"
    /\ UNCHANGED <<exec, turnVars, source, closed, down, summary, openPart, accumulated,
                   coordinator, faults, others>>

CondHalted ==
    /\ Halted /\ cond.at # "over"
    /\ cond' = CondAt("over", FALSE, 0)
    /\ UNCHANGED <<exec, cause, turnVars, source, closed, down, summary, openPart, accumulated,
                   coordinator, faults, others>>

-----------------------------------------------------------------------------
(* default_summary.                                                        *)

Inbox == IF summarize THEN down ELSE source
InboxEnds == Inbox = <<>> /\ IF summarize THEN cond.at = "over" ELSE closed
TakeInbox ==
    IF summarize THEN down' = Tail(down) /\ UNCHANGED source
    ELSE source' = Tail(source) /\ UNCHANGED down

\* summary_delta on draft d, after the given events, and the flush that follows
\* once enough has accumulated.
Narrate(d, events) ==
    LET full == accumulated + 1 >= FlushAt
        texted == [d EXCEPT !.pending = TRUE]
    IN  /\ openPart' = TRUE
        /\ accumulated' = accumulated + 1
        /\ draft' = IF full THEN SummaryDone(texted) ELSE texted
        /\ summary' = IF full THEN "flushing" ELSE "receiving"
        /\ Publish(events \o DeltaEvents(d) \o (IF full THEN <<"part.done">> ELSE <<>>))

\* summary_done alone shows the part in memory: save_progress will store it.
ShowParts(items, d) == [items EXCEPT ![d.at] = DraftItem(d, "in_progress")]

\* A delta: the first of a part makes sure that the item is there.
SummaryTakesDelta ==
    /\ ~Halted /\ summary = "receiving" /\ Inbox # <<>> /\ Head(Inbox) = "delta"
    /\ TakeInbox
    /\ \/ /\ openPart \/ reasoningId # 0
          /\ Narrate(draft, <<>>)
          /\ output' = ShowParts(output, draft')
          /\ UNCHANGED cause
       \/ /\ ~openPart /\ reasoningId = 0 /\ HasUpdate
          /\ summary' = "beginning"
          /\ UNCHANGED <<openPart, accumulated, draft, output, feed, cause>>
       \/ /\ ~openPart /\ reasoningId = 0 /\ ~HasUpdate
          /\ summary' = "over" /\ cause' = "inactive"
          /\ UNCHANGED <<openPart, accumulated, draft, output, feed>>
    /\ UNCHANGED <<exec, turnVars, closed, cond, reasoningId, status, stored, storedOutput,
                   faults, others>>

SummaryBegins ==
    LET new == Item("reasoning", "in_progress", 0)
        d == [at |-> Len(output) + 1, pending |-> FALSE, parts |-> 0]
    IN  /\ summary = "beginning"
        /\ storedOutput' = Append(storedOutput, new)
        /\ reasoningId' = d.at
        /\ Narrate(d, <<"item.added">>)
        /\ output' = ShowParts(Append(output, new), draft')
        /\ UNCHANGED <<exec, cause, turnVars, source, closed, cond, down, status, stored, faults,
                       others>>

\* The end of a part, or of the stream: an open part is flushed.
SummaryTakesDone ==
    /\ ~Halted /\ summary = "receiving"
    /\ \/ Inbox # <<>> /\ Head(Inbox) = "done" /\ TakeInbox
       \/ InboxEnds /\ openPart /\ UNCHANGED <<source, down>>
    /\ IF openPart
       THEN /\ draft' = SummaryDone(draft)
            /\ output' = ShowParts(output, draft')
            /\ summary' = "flushing"
            /\ Publish(<<"part.done">>)
       ELSE UNCHANGED <<draft, output, summary, feed>>
    /\ UNCHANGED <<exec, cause, turnVars, closed, cond, openPart, accumulated, reasoningId,
                   status, stored, storedOutput, faults, others>>

\* save_progress after a flush.
SummarySaves ==
    /\ summary = "flushing"
    /\ ReplaceDraft("in_progress")
    /\ openPart' = FALSE /\ accumulated' = 0
    /\ summary' = "receiving"
    /\ UNCHANGED <<exec, cause, turnVars, source, closed, cond, down, draft, reasoningId, status,
                   stored, feed, faults, others>>

SummaryWriteFails ==
    /\ summary \in {"beginning", "flushing"} /\ faults < MaxFaults
    /\ faults' = faults + 1
    /\ cause' = "store" /\ summary' = "over"
    /\ UNCHANGED <<exec, turnVars, source, closed, cond, down, openPart, accumulated,
                   coordinator, others>>

SummaryEnds ==
    /\ ~Halted /\ summary = "receiving" /\ InboxEnds /\ ~openPart
    /\ summary' = "over"
    /\ UNCHANGED <<exec, cause, turnVars, source, closed, cond, down, openPart, accumulated,
                   coordinator, faults, others>>

\* Cancelled while it waits for an item, or in a write, which is rolled back.
SummaryHalted ==
    /\ Halted /\ summary # "over"
    /\ summary' = "over"
    /\ UNCHANGED <<exec, cause, turnVars, source, closed, cond, down, openPart, accumulated,
                   coordinator, faults, others>>

-----------------------------------------------------------------------------
(* The shielded endings.                                                   *)

ended == <<cause, turnVars, summaryVars, gone, faults, request>>

\* State.commit up to begin_reasoning.  A message that is published whole may
\* leave the update empty.
Commit ==
    /\ exec = "committing"
    /\ visible' \in {n \in 0..MaxVisible : n > 0 => HasUpdate}
    /\ \/ /\ reasoningId = 0 /\ ~stateful
          /\ ~suffix \/ visible' > 0
          /\ exec' = "emitting"
          /\ UNCHANGED <<draft, reasoningId, output, storedOutput, feed>>
       \/ /\ reasoningId = 0 /\ HasUpdate
          /\ BeginReasoning /\ Publish(<<"item.added">>)
          /\ exec' = "sealing"
       \/ /\ reasoningId # 0
          /\ exec' = "sealing"
          /\ UNCHANGED <<draft, reasoningId, output, storedOutput, feed>>
    /\ UNCHANGED <<ended, status, stored>>

\* Mutated form: State keeps the id of the finished item.
FinishKeepsId ==
    /\ exec = "sealing" /\ ~draft.pending
    /\ ReplaceDraft("completed")
    /\ draft' = NoDraft
    /\ Publish(<<"item.done">>)
    /\ exec' = "emitting"
    /\ UNCHANGED <<ended, visible, reasoningId, status, stored>>

\* finish_reasoning.
FinishReasoning ==
    /\ exec = "sealing" /\ ~draft.pending
    /\ ReplaceDraft("completed")
    /\ draft' = NoDraft /\ reasoningId' = 0
    /\ Publish(<<"item.done">>)
    /\ exec' = "emitting"
    /\ UNCHANGED <<ended, visible, status, stored>>

\* _assert_no_pending_summary raises: ResponseFinalizationError.
PendingAtFinish ==
    /\ exec = "sealing" /\ draft.pending
    /\ exec' = "over"
    /\ UNCHANGED <<ended, visible, coordinator>>

\* emit, for the message and each public call.
Emit ==
    /\ exec = "emitting" /\ visible > 0
    /\ visible' = visible - 1
    /\ output' = Append(output, Item("visible", "completed", 0))
    /\ storedOutput' = Append(storedOutput, Item("visible", "completed", 0))
    /\ Publish(<<"item.added", "item.done">>)
    /\ UNCHANGED <<exec, ended, draft, reasoningId, status, stored>>

Final(st, event) ==
    /\ stored' = st /\ status' = st
    /\ Publish(<<event>>)
    /\ exec' = "over"

\* completed and incomplete.
Finish ==
    /\ exec = "emitting" /\ visible = 0
    /\ Final(IF cause = "budget" \/ result = "length" THEN "incomplete" ELSE "completed",
             "terminal")
    /\ UNCHANGED <<ended, visible, draft, reasoningId, output, storedOutput>>

\* save_progress, before cancelled() and failed().
SaveProgress ==
    /\ exec = "saving"
    /\ IF reasoningId # 0 THEN ReplaceDraft("in_progress") /\ UNCHANGED <<draft, reasoningId, feed>>
       ELSE IF HasUpdate THEN BeginReasoning /\ Publish(<<"item.added">>)
       ELSE UNCHANGED <<draft, reasoningId, output, storedOutput, feed>>
    /\ exec' = IF draft' = NoDraft THEN "ending" ELSE "dropping"
    /\ UNCHANGED <<ended, visible, status, stored>>

\* The draft in cancelled(): it is stored once more and dropped without an event.
DropDraft ==
    /\ exec = "dropping" /\ cause = "cancel"
    /\ ReplaceDraft("in_progress")
    /\ draft' = NoDraft
    /\ exec' = "ending"
    /\ UNCHANGED <<ended, visible, reasoningId, status, stored, feed>>

\* Mutated form: the pending text is not flushed.
FailDraftPending ==
    LET item == DraftItem(draft, "incomplete")
    IN  /\ exec = "dropping" /\ cause # "cancel"
        /\ output' = [output EXCEPT ![draft.at] = item]
        /\ storedOutput' = [storedOutput EXCEPT ![draft.at] = item]
        /\ draft' = NoDraft
        /\ Publish(<<"item.done">>)
        /\ exec' = "ending"
        /\ UNCHANGED <<ended, visible, reasoningId, status, stored>>

\* The draft in failed(): the pending text becomes a part, the item incomplete.
FailDraft ==
    LET d == IF draft.pending THEN SummaryDone(draft) ELSE draft
        item == DraftItem(d, "incomplete")
    IN  /\ exec = "dropping" /\ cause # "cancel"
        /\ output' = [output EXCEPT ![draft.at] = item]
        /\ storedOutput' = [storedOutput EXCEPT ![draft.at] = item]
        /\ draft' = NoDraft
        /\ Publish((IF draft.pending THEN <<"part.done">> ELSE <<>>) \o <<"item.done">>)
        /\ exec' = "ending"
        /\ UNCHANGED <<ended, visible, reasoningId, status, stored>>

\* cancel_response and fail_response.
Stop ==
    /\ exec = "ending"
    /\ IF cause = "cancel" THEN Final("cancelled", "cancelled") ELSE Final("failed", "terminal")
    /\ UNCHANGED <<ended, visible, draft, reasoningId, output, storedOutput>>

\* A write of an ending raises: nothing more is written.
EndingFails ==
    /\ exec \in Shielded /\ faults < MaxFaults
    /\ faults' = faults + 1
    /\ exec' = "over"
    /\ UNCHANGED <<cause, turnVars, visible, summaryVars, coordinator, gone, request>>

-----------------------------------------------------------------------------
Executor ==
    \/ Accept \/ Start
    \/ OpenAttempt \/ NoAttempt \/ LastDelta \/ ProviderFails \/ Interrupted
    \/ Reject \/ AcceptResult \/ Send \/ ChildRaised \/ EndTurn \/ NextTurn \/ EndLeaving
    \/ Cancelled
    \/ Commit \/ FinishReasoning \/ PendingAtFinish \/ Emit \/ Finish
    \/ SaveProgress \/ DropDraft \/ FailDraft \/ Stop

Summarizer ==
    CondTakes \/ CondSourceEnds \/ CondText \/ CondFragmentEnds \/ CondFails \/ CondHalted

DefaultSummary ==
    \/ SummaryTakesDelta \/ SummaryBegins \/ SummaryTakesDone \/ SummarySaves \/ SummaryEnds
    \/ SummaryHalted

Environment == Disconnect \/ Delta \/ NotAccepted \/ SummaryWriteFails \/ EndingFails

Over == exec = "over" /\ UNCHANGED vars

Next == Executor \/ Summarizer \/ DefaultSummary \/ Environment \/ Over

Spec == Init /\ [][Next]_vars

\* The event loop runs every task that can go on, and a provider's stream ends.
\* Clients, further deltas and store failures are not owed.
Fairness == WF_vars(Executor) /\ WF_vars(Summarizer) /\ WF_vars(DefaultSummary)

FairSpec == Spec /\ Fairness

-----------------------------------------------------------------------------
(* Properties.                                                             *)

Items == [kind : {"reasoning", "visible"},
          status : {"in_progress", "completed", "incomplete"}, parts : Nat]

TypeOK ==
    /\ exec \in Places /\ cause \in Causes
    /\ turn \in 1..MaxTurns /\ attempt \in 0..MaxAttempts /\ deltas \in 0..MaxDeltas
    /\ history \in BOOLEAN /\ suffix \in BOOLEAN /\ stateful \in BOOLEAN
    /\ summarize \in BOOLEAN /\ gone \in BOOLEAN
    /\ outbox \in Seq({"delta", "done"}) /\ Len(outbox) <= 2
    /\ result \in {"none", "stop", "length"} /\ budget \in {"left", "spent"}
    /\ visible \in 0..MaxVisible /\ faults \in 0..MaxFaults
    /\ source \in Seq({"delta", "done"}) /\ Len(source) <= Capacity
    /\ down \in Seq({"delta", "done"}) /\ Len(down) <= Capacity
    /\ closed \in BOOLEAN /\ openPart \in BOOLEAN /\ accumulated \in 0..FlushAt
    /\ cond \in [at : {"receiving", "texting", "over"}, buffered : BOOLEAN, texts : 0..MaxTexts]
    /\ summary \in {"receiving", "beginning", "flushing", "over"}
    /\ draft \in [at : Nat, pending : BOOLEAN, parts : Nat]
    /\ output \in Seq(Items) /\ storedOutput \in Seq(Items)
    /\ reasoningId \in 0..Len(output)
    /\ status \in Terminal \cup {"in_progress"}
    /\ stored \in Terminal \cup {"absent", "in_progress"}
    /\ feed \in Feeds

\* A client never reads an event its predecessors did not prepare: items and
\* summary parts open before they grow, close before the next one opens, and
\* nothing follows the terminal event, whichever task published what.
FeedWellFormed == feed.at # "broken"

\* Two tasks write items, one of them also rewrites them in memory between
\* stores; once the response has its terminal status, the items in the store are
\* those the coordinator reported to the client.
OutputStored == stored \in Terminal => storedOutput = output

\* Only a cancelled response keeps an item that is still in progress.
ItemsSettled ==
    stored \in {"completed", "incomplete", "failed"} =>
        \A i \in 1..Len(storedOutput) : storedOutput[i].status # "in_progress"

\* State and coordinator each remember the active reasoning item; they agree at
\* every point where a save could be asked for, so that begin_reasoning never
\* finds an active item and replace_reasoning always finds one.
DraftTracked ==
    exec \in InTurn \cup {"leaving", "committing", "sealing", "emitting", "saving", "dropping"} =>
        draft.at = reasoningId

\* The completed parts of a response's items.
PartsOf(items) == Total([i \in DOMAIN items |-> items[i].parts])

\* Once the response has its terminal status, its stored items hold every summary
\* part that a client saw completed, and no other, though parts reach the store in
\* a later write than the client, which a failure or a cancellation may precede.
PartsStored ==
    stored \in Terminal =>
        feed.parts = PartsOf(storedOutput)

\* Every accepted response gets a terminal status, whatever the client, the
\* provider and the summarizer do, unless a store write raised or the final
\* commit met pending summary text.
Settles ==
    stored = "in_progress" ~>
        stored \in Terminal \/ (exec = "over" /\ (faults > 0 \/ draft.pending))

\* docs/llms/retries.md: another attempt follows a provider failure after partial
\* output.  So a response fails only when the attempts are used up, a provider
\* fails with no retry to make, or the store does.
FailuresHaveReasons ==
    stored = "failed" /\ ~gone => cause \in {"attempts", "provider", "store"}

\* test_async_openai_client_sse_disconnect_cancels_response: a client that leaves
\* cancels its response.  So no response fails for that alone.
DisconnectsCancel ==
    stored = "failed" => cause \in {"attempts", "provider", "store", "inactive"}

\* test_run_response_budget_exhaustion_marks_incomplete: a response whose budget
\* ran out ends incomplete, unless a store write raised.
BudgetEndsIncomplete ==
    exec = "over" /\ cause = "budget" /\ faults = 0 => stored = "incomplete"
=============================================================================
