------------------------------ MODULE Dialogue ------------------------------
(***************************************************************************)
(* A conversation over several responses: the client resends what it was   *)
(* given, with outputs for the calls it was asked to run and new messages; *)
(* ingest rebuilds the threads; the main model takes turns; server tools   *)
(* run; the advisor reviews each turn in a thread of its own, may call     *)
(* tools of the server or the client, and blocks main until it is done;    *)
(* commit, cancellation or failure writes the items the client sees.       *)
(* (responses/ingest, responses/state.py, plugins/core/loop.py,            *)
(* plugins/advisor, plugins/easy/server_tools.py.)                         *)
(*                                                                         *)
(* A model call and what the code does with its result up to the next      *)
(* await is one action.  Cancellation and failure may come between any two.*)
(***************************************************************************)
EXTENDS ResponseState, FiniteSets

CONSTANT Starts  \* how a conversation may begin and how long it may be:
                 \* records of
                 \*   history    what the client brings from elsewhere
                 \*   first      the first id the server gives out
                 \*   bounds     of responses in the conversation, of model
                 \*              calls, of main and advisor together, and of
                 \*              faults (cancellations, failures, refused results)

Roles == {"user", "assistant", "system", "developer"}
Foreign(ids) ==
  [t: {"message"}, role: Roles, id: ids]
    \cup [t: {"call"}, thread: {"none"}, id: ids]
    \cup [t: {"output"}, thread: {"none"}, id: ids, out: ids]

ASSUME DialogueAssumption ==
  \A s \in Starts :
    /\ s.first \in Nat \ {0} /\ s.history \in Seq(Foreign(1 .. s.first - 1))
    /\ s.bounds \in [responses: Nat, calls: Nat, faults: Nat]

VARIABLES items,     \* the transcript, as the client has it
          pc,        \* where the response is
          st,        \* State: memory, main, adv, enabled, blocked
          base,      \* what ingest returned, when the response began
          draft,     \* the open reasoning item: id, state, main
          next,      \* the next unused id
          bound,     \* what is left of the bounds
          kept,      \* what the transcript should rebuild (history variable)
          sealed,    \* what each reasoning item sealed (history variable)
          alarm      \* "" or what refused or raised

vars == <<items, pc, st, base, draft, next, bound, kept, sealed, alarm>>

NoDraft == [id |-> 0]

-----------------------------------------------------------------------------
(* The advisor's thread.                                                   *)
AdvNote(id, phase, anchor, shown) ==
  [role |-> "user", id |-> id, calls |-> <<>>, begun |-> TRUE, ref |-> 0,
   phase |-> phase, anchor |-> anchor, shown |-> shown]
AdvTurn(id, calls) ==
  [role |-> "assistant", id |-> id, calls |-> calls, begun |-> TRUE, ref |-> 0]

PhaseMarks(adv) ==
  {i \in DOMAIN adv : adv[i].role = "user" /\ adv[i].phase # "none"}
ActivePhase(adv) == adv[CHOOSE i \in PhaseMarks(adv) : TRUE].phase

Projected(main) == Where(main, LAMBDA m: m.mem # {Artifact})

(* _latest_main_turn: the last message, or the last run of tool outputs    *)
(* with the assistant they answer.                                         *)
LatestTurn(msgs) ==
  LET first == SelectLastInSeq(msgs, LAMBDA m: ~IsTool(m))
  IN  IF ~IsTool(Last(msgs)) THEN 1
      ELSE IF first # 0 /\ IsAssistant(msgs[first]) THEN Len(msgs) - first + 1
      ELSE Len(msgs) - first

(* _append_main_update: what main has said since the advisor's last        *)
(* update, found by the transcript it ended with; if main no longer begins *)
(* with that transcript, only the latest turn.                             *)
UpdateStartLate(anchor, told) ==
  IF IsPrefix(anchor, told) THEN Len(anchor) + 1 ELSE Len(told) - LatestTurn(told)
UpdateStart(anchor, told) ==
  IF IsPrefix(anchor, told) THEN Len(anchor) ELSE Len(told) - LatestTurn(told)

LastUpdate(adv) == SelectLastInSeq(adv, LAMBDA m: m.role = "user" /\ m.anchor # <<>>)

WithMainUpdate(s, id) ==
  LET told  == Projected(s.main)
      lastU == LastUpdate(s.adv)
      start == IF lastU = 0 THEN 0 ELSE UpdateStart(s.adv[lastU].anchor, told)
  IN  IF told = <<>> \/ start >= Len(told) THEN s
      ELSE [s EXCEPT !.adv = Append(@, AdvNote(id, "none", told,
              {<<told[i].role, told[i].id, told[i].ref>> : i \in start + 1 .. Len(told)}))]

(* _start_phase.                                                           *)
PhaseStarted(s, phase, id) ==
  LET u == WithMainUpdate(s, id)
  IN  [u EXCEPT !.adv = Append(@, AdvNote(id + 1, phase, <<>>, {})),
                !.enabled = TRUE, !.blocked = TRUE]

(* _finalize_phase: the marker goes, the advisor is disabled, main is      *)
(* unblocked; advice ends main's open calls and enters main.               *)
StillMarked(adv) == adv
Unmarked(adv) == Where(adv, LAMBDA m: m.role # "user" \/ m.phase = "none")

AbortedOutputs(s) == Stubs(OpenCalls(s.main), Cancelled, {Artifact})

PhaseFinal(s, says, id) ==
  LET ended == IF ActivePhase(s.adv) = "before_tool_call" THEN AbortedOutputs(s) ELSE <<>>
  IN  [s EXCEPT !.adv = Unmarked(@),
                !.enabled = FALSE, !.blocked = FALSE,
                !.main = IF says = "advice"
                         THEN @ \o ended \o <<Note("developer", id, {Artifact})>>
                         ELSE @]

-----------------------------------------------------------------------------
(* Drafts: save_progress and the open reasoning item.                      *)
DraftId == IF draft.id = 0 THEN next ELSE draft.id
DraftAt(snap) ==
  [id |-> DraftId, state |-> StateUpdate(base, snap, base.ck),
   main |-> MainSuffix(base, snap)]
DraftOf(s) == DraftAt(Snapshot(s))

Worth(d) == IF draft.id = 0 /\ NothingToSave(d.state, d.main) THEN NoDraft ELSE d
Saved(s) == Worth(DraftOf(s))

(* ensure_progress.                                                        *)
Ensured(s) == IF draft.id = 0 THEN Saved(s) ELSE draft

Reasoning(d) ==
  ReasoningItem(d.id, IF d.state.type = "checkpoint" THEN 0 ELSE base.last,
                d.state, d.main)

Check(s, update) == IF Writable(base, s, update) THEN alarm ELSE "the response raised"

(* The response ends with item sequence out, which should rebuild s.       *)
End(d, out, s) ==
  /\ items' = items \o (IF d.id = 0 THEN <<>> ELSE <<Reasoning(d)>>) \o out
  /\ kept' = s
  /\ sealed' = IF d.id = 0 THEN sealed
               ELSE [i \in DOMAIN sealed \cup {d.id} |-> IF i = d.id THEN s ELSE sealed[i]]
  /\ pc' = "idle"
  /\ draft' = NoDraft
  /\ next' = next + 1
  /\ UNCHANGED <<st, base>>

-----------------------------------------------------------------------------
(* The client.                                                             *)
Unanswered ==
  Where(items, LAMBDA x: x.t = "call" /\
    ~\E i \in DOMAIN items : items[i].t = "output" /\ items[i].id = x.id)

Outputs == [i \in DOMAIN Unanswered |->
              OutItem(Unanswered[i].thread, Unanswered[i].id, next + i)]

(* What a request may add: the outputs it owes, with or without a message  *)
(* of the user before or after them.                                       *)
Additions ==
  LET user == <<MsgItem("user", next)>>
  IN  {user \o Outputs, Outputs \o user} \cup (IF items = <<>> THEN {} ELSE {Outputs})

(* _prepare_create, and the checks of response.start.                      *)
Request ==
  /\ pc = "idle" /\ bound.responses > 0 /\ alarm = ""
  /\ \E new \in Additions :
       LET in == Ingested(items \o new)
       IN  /\ items' = items \o new
           /\ alarm' = in.err
           /\ base' = in
           /\ st' = StateOf(in)
           /\ pc' = IF in.err # "" THEN "idle" ELSE IF in.ck THEN "user" ELSE "loop"
  /\ next' = next + Len(Unanswered) + 1
  /\ bound' = [bound EXCEPT !.responses = @ - 1]
  /\ UNCHANGED <<draft, kept, sealed>>

-----------------------------------------------------------------------------
(* interrupt_advisor: a user message ends a review that was under way.     *)
UserTurn ==
  /\ pc = "user"
  /\ st' = IF PhaseMarks(st.adv) = {} THEN st
           ELSE PhaseFinal(WithMainUpdate(st, next), "nothing", next)
  /\ next' = next + 1
  /\ pc' = "loop"
  /\ UNCHANGED <<items, base, draft, bound, kept, sealed, alarm>>

MainReady(s) == ~s.blocked /\ OpenCalls(s.main) = <<>>
EndsWith(main, P(_)) == main # <<>> /\ P(Last(main))

(* resume_advisor around response_loop: an unfinished review goes on, tool *)
(* outputs that arrived are reviewed, otherwise main takes its turn.       *)
Resume ==
  /\ pc = "loop"
  /\ IF st.enabled
     THEN pc' = (IF OpenCalls(st.adv) = <<>> THEN "review" ELSE "commit") /\ UNCHANGED <<st, next>>
     ELSE IF MainReady(st) /\ EndsWith(st.main, IsTool)
     THEN pc' = "review" /\ st' = PhaseStarted(st, "after_tool_call", next) /\ next' = next + 2
     ELSE pc' = (IF MainReady(st) THEN "turn" ELSE "commit") /\ UNCHANGED <<st, next>>
  /\ UNCHANGED <<items, base, draft, bound, kept, sealed, alarm>>

(* Where the loop goes when a review of s is over: resume_advisor asks     *)
(* whether main can run, response_loop whether the turn was the last.      *)
AfterReview(s) ==
  IF MainReady(s) /\ ~EndsWith(s.main, IsAssistant) THEN "turn" ELSE "commit"

-----------------------------------------------------------------------------
(* The main model's turn.                                                  *)
Results ==
  {[m |-> m, finish |-> "stop"] :
     m \in {Assistant(next, TRUE, FALSE, <<>>, {}), Assistant(next, TRUE, TRUE, <<>>, {})}}
  \cup {[m |-> Assistant(next, text, TRUE, <<>>, {}), finish |-> "length"] : text \in BOOLEAN}
  \cup {[m |-> m, finish |-> "tool_calls"] :
     m \in {Assistant(next, FALSE, TRUE, <<next + 1>>, {}),
            Assistant(next, TRUE, TRUE, <<next + 1>>, {}),
            Assistant(next, FALSE, TRUE, <<next + 1>>, {next + 1}),
            Assistant(next, TRUE, TRUE, <<next + 1, next + 2>>, {next + 1})}}

Partials == {Assistant(next, FALSE, TRUE, <<>>, {}),
             Assistant(next, TRUE, TRUE, <<next + 1>>, {}),
             WithoutArguments(Assistant(next, TRUE, TRUE, <<next + 1>>, {}))}

Faulty == bound.faults > 0
Spend(faults) == bound' = [bound EXCEPT !.calls = @ - 1, !.faults = @ - faults]

(* Some of a result has arrived.  It is only seen if a fault follows: the  *)
(* next snapshot overwrites it.                                            *)
StreamPart ==
  /\ pc = "turn" /\ bound.calls > 0 /\ Faulty
  /\ \E m \in Partials : st' = [st EXCEPT !.main = Append(@, m)]
  /\ next' = next + 3
  /\ pc' = "stream"
  /\ UNCHANGED <<items, base, draft, bound, kept, sealed, alarm>>

(* The summary task saves while the stream runs.                           *)
SaveProgress ==
  /\ pc = "stream"
  /\ draft' = Saved(st)
  /\ draft' # draft
  /\ next' = next + 1
  /\ alarm' = Check(st, DraftOf(st).main)
  /\ UNCHANGED <<items, pc, st, base, bound, kept, sealed>>

(* What is in main before the result under way.                            *)
Settled == IF pc = "stream" THEN Front(st.main) ELSE st.main

(* The provider's stream breaks off, or a validator refuses the result:    *)
(* the next attempt sees the refused message, stubs for its calls and what *)
(* was wrong.  Empty arguments are among what is refused.                  *)
Attempted(m, id) == <<m, Output(m.calls[1], Placeholder, {}), User(id)>>

Retry ==
  /\ pc \in {"turn", "stream"} /\ bound.calls > 0 /\ Faulty
  /\ LET m == Assistant(next, FALSE, TRUE, <<next + 1>>, {})
     IN  \E left \in {Attempted(m, next + 2), Attempted(WithoutArguments(m), next + 2)}
                       \cup (IF pc = "stream" THEN {<<>>} ELSE {}) :
           st' = [st EXCEPT !.main = Settled \o left]
  /\ next' = next + 3
  /\ Spend(1)
  /\ pc' = "turn"
  /\ UNCHANGED <<items, base, draft, kept, sealed, alarm>>

(* advise_turn: which review follows result r with main thread s.main.     *)
Reviewed(r, s) ==
  CASE r.finish = "tool_calls" /\ OpenCalls(s.main) # <<>> -> "before_tool_call"
    [] r.finish = "tool_calls" /\ OpenCalls(s.main) = <<>> -> "after_tool_call"
    [] r.finish = "stop" -> "before_return"
    [] OTHER -> "none"

TurnDone(r, s, id) ==
  /\ IF Reviewed(r, s) = "none"
     THEN st' = s /\ pc' = AfterReview(s)
     ELSE st' = PhaseStarted(s, Reviewed(r, s), id) /\ pc' = "review"

(* A result is accepted: response_completion returns it.                   *)
Result ==
  /\ pc \in {"turn", "stream"} /\ bound.calls > 0
  /\ \E r \in Results :
       LET s == [st EXCEPT !.main = Append(Settled, r.m)]
       IN  IF r.m.mem = {} THEN TurnDone(r, s, next + 3)
           ELSE st' = s /\ pc' = "tools"
  /\ next' = next + 5
  /\ Spend(0)
  /\ UNCHANGED <<items, base, draft, kept, sealed, alarm>>

ServerOutputs(msg, owned, id) ==
  LET mine == Where(msg.calls, LAMBDA c: c \in owned)
  IN  [i \in DOMAIN mine |-> Output(mine[i], id, {mine[i]})]

(* _execute_server_tools: the calls the message's memory names run; a tool *)
(* may also write plugin memory.                                           *)
ServerTools ==
  /\ pc = "tools"
  /\ LET m == Last(st.main)
         s == [st EXCEPT !.main = @ \o ServerOutputs(m, m.mem, next), !.memory = @ + 1]
     IN  TurnDone([finish |-> "tool_calls"], s, next + 1)
  /\ next' = next + 3
  /\ UNCHANGED <<items, base, draft, bound, kept, sealed, alarm>>

(* CompletionBudgetExhaustedError from the main model: the loop is left.   *)
Exhausted ==
  /\ pc = "turn" /\ (bound.calls = 0 \/ Faulty)
  /\ pc' = "commit"
  /\ bound' = [bound EXCEPT !.faults = IF bound.calls = 0 THEN @ ELSE @ - 1]
  /\ UNCHANGED <<items, st, base, draft, next, kept, sealed, alarm>>

-----------------------------------------------------------------------------
(* The review: _continue_phase.                                            *)
Annotated(s) == draft' = Ensured(s) /\ alarm' = Check(s, DraftOf(s).main)
ConcludedAs(s, says) ==
  /\ st' = s /\ pc' = AfterReview(s)
  /\ IF says = "nothing" THEN UNCHANGED <<draft, alarm>> ELSE Annotated(s)
Conclude(s, says, id) == ConcludedAs(PhaseFinal(s, says, id), says)

(* What a refused attempt of the advisor leaves in its thread.             *)
Refused(turn, id) == <<turn, Output(turn.calls[1], Placeholder, {}),
                       AdvNote(id, "none", <<>>, {})>>
Attempts ==
  LET turn == AdvTurn(next, <<next + 1>>)
  IN  {<<>>} \cup IF Faulty /\ bound.calls > 1
                  THEN {Refused(turn, next + 2), Refused(WithoutArguments(turn), next + 2)} ELSE {}
SpendAttempts(before) ==
  LET n == IF before = <<>> THEN 0 ELSE 1
  IN  bound' = [bound EXCEPT !.calls = @ - 1 - n, !.faults = @ - n]

(* The advisor calls advise, with advice, a note or neither.               *)
Advise ==
  /\ pc = "review" /\ bound.calls > 0
  /\ \E says \in {"nothing", "note", "advice"}, before \in Attempts :
       /\ Conclude([st EXCEPT !.adv = @ \o before \o
                       <<AdvTurn(next + 3, <<next + 4>>), Output(next + 4, Advised, {})>>],
                   says, next + 5)
       /\ SpendAttempts(before)
  /\ next' = next + 7
  /\ UNCHANGED <<items, base, kept, sealed>>

(* It calls a tool of the server, of the client, or both.                  *)
Explore ==
  /\ pc = "review" /\ bound.calls > 0
  /\ \E calls \in {<<next + 4>>, <<next + 5>>, <<next + 4, next + 5>>},
        before \in Attempts :
       /\ st' = [st EXCEPT !.adv = @ \o before \o <<AdvTurn(next + 3, calls)>>]
       /\ pc' = IF calls = <<next + 5>> THEN "commit" ELSE "side tools"
       /\ SpendAttempts(before)
  /\ next' = next + 6
  /\ UNCHANGED <<items, base, draft, kept, sealed, alarm>>

(* The server's tools among them run; the first call is theirs.            *)
SideTools ==
  /\ pc = "side tools"
  /\ LET c == Head(Last(st.adv).calls)
         s == [st EXCEPT !.adv = Append(@, Output(c, next, {c})), !.memory = @ + 1]
     IN  st' = s /\ pc' = IF OpenCalls(s.adv) = <<>> THEN "review" ELSE "commit"
  /\ next' = next + 1
  /\ UNCHANGED <<items, base, draft, bound, kept, sealed, alarm>>

(* The budget is exhausted or the advisor's results were refused too often.*)
SkipReview ==
  /\ pc = "review" /\ (bound.calls = 0 \/ Faulty)
  /\ Conclude(st, "nothing", next)
  /\ bound' = [bound EXCEPT !.faults = IF bound.calls = 0 THEN @ ELSE @ - 1]
  /\ UNCHANGED <<items, base, next, kept, sealed>>

-----------------------------------------------------------------------------
(* The end of a response.                                                  *)
Commit ==
  /\ pc = "commit"
  /\ End(Worth([id |-> DraftId, state |-> StateUpdate(base, st, base.ck),
                main |-> MainUpdate(base, st)]),
         PublicItems(base, st), st)
  /\ alarm' = Check(st, MainUpdate(base, st))
  /\ UNCHANGED bound

(* The client goes away, or a model call or a tool raises, once the        *)
(* response is accepted: _execute_response saves its progress and the      *)
(* reasoning item stays as saved.  The commit is shielded from both.       *)
Interrupt ==
  /\ pc \notin {"idle", "commit"} /\ Faulty
  /\ End(Saved(st), <<>>, Snapshot(st))
  /\ alarm' = Check(st, DraftOf(st).main)
  /\ bound' = [bound EXCEPT !.faults = @ - 1]

-----------------------------------------------------------------------------
(* What a history from elsewhere rebuilds, to start with.                  *)
Init ==
  /\ \E s \in Starts : items = s.history /\ next = s.first /\ bound = s.bounds
  /\ pc = "idle"
  /\ st = StateOf(Ingested(items))
  /\ base = Ingested(items)
  /\ draft = NoDraft
  /\ kept = StateOf(Ingested(items))
  /\ sealed = [i \in {} |-> st]
  /\ alarm = ""

Next ==
  \/ Request \/ UserTurn \/ Resume
  \/ StreamPart \/ SaveProgress \/ Retry \/ Result \/ ServerTools \/ Exhausted
  \/ Advise \/ Explore \/ SideTools \/ SkipReview
  \/ Commit \/ Interrupt

Spec == Init /\ [][Next]_vars

-----------------------------------------------------------------------------
(* Replay forgets the memory of the assistants in main (CopyAssistant).    *)
Forgotten(main) ==
  [i \in DOMAIN main |-> IF IsAssistant(main[i]) THEN [main[i] EXCEPT !.mem = {}] ELSE main[i]]

Returned(new, thread) ==
  LET mine == Where(new, LAMBDA x: x.t = "output" /\ x.thread \in thread)
  IN  [i \in DOMAIN mine |-> Output(mine[i].id, mine[i].out, {})]

Said(new) ==
  LET mine == Where(new, LAMBDA x: x.t = "message")
  IN  [i \in DOMAIN mine |-> User(mine[i].id)]

(* What the state k and a request with the items new should make.          *)
Continued(k, new) ==
  LET ended == IF k.blocked /\ Said(new) # <<>>
               THEN Stubs(OpenCalls(k.main), Aborted, {}) ELSE <<>>
  IN  [k EXCEPT !.main = Forgotten(@) \o Returned(new, {"main", "none"}) \o ended \o Said(new),
                !.adv = @ \o Returned(new, {"advisor"})]

(* What a sealed state brings of the advisor's messages.                   *)
Sealed(state) ==
  CASE state.type = "checkpoint" -> state.adv
    [] state.type = "patch" /\ state.adv = NoChange -> <<>>
    [] state.type = "patch" /\ state.adv # NoChange ->
         LET new == Where(state.adv.cells, LAMBDA c: c.keep = 0)
         IN  [i \in DOMAIN new |-> new[i].msg]

(* A response has sealed a call with empty arguments, of an attempt that   *)
(* was refused for them, or because it was interrupted between the name of *)
(* the call and its arguments: no request that has its item is accepted.   *)
Unreadable ==
  \E i \in DOMAIN items :
    items[i].t = "reasoning" /\ ~AllBegun(items[i].main \o Sealed(items[i].state))



-----------------------------------------------------------------------------
(* A transcript a client has lost, swapped or repeated an item of, with    *)
(* outputs for the calls it then leaves open.                              *)
Swapped(i) ==
  [k \in DOMAIN items |->
     IF k = i THEN items[i + 1] ELSE IF k = i + 1 THEN items[i] ELSE items[k]]
Tampered ==
  {RemoveAt(items, i) : i \in DOMAIN items}
    \cup {Swapped(i) : i \in 1 .. Len(items) - 1}
    \cup {Append(items, items[i]) : i \in {j \in DOMAIN items : items[j].t = "reasoning"}}

(* A transcript that ends in the state s, and perhaps in outputs for calls *)
(* of the advisor, brings that state's memory, enablement and block, and   *)
(* the advisor's thread with the outputs after it.                         *)
Brings(in, s) ==
  /\ <<in.memory, in.enabled, in.blocked>> = <<s.memory, s.enabled, s.blocked>>
  /\ IsPrefix(s.adv, in.adv)
  /\ \A i \in Len(s.adv) + 1 .. Len(in.adv) : IsTool(in.adv[i])

(* A request that is accepted is told what the response before sealed,     *)
(* however that one ended.                                                 *)
Restored ==
  pc = "idle" /\ alarm = "" =>
    \A new \in Additions :
      LET in == Ingested(items \o new) IN in.err = "" => Brings(in, kept)

(* What is believed of a transcript is what the last reasoning item in it  *)
(* sealed: a patch is only ever applied to the state it was made against.  *)
Believed(in) ==
  IF in.last \in DOMAIN sealed THEN Brings(in, sealed[in.last])
  ELSE in.memory = 0 /\ in.adv = <<>> /\ ~in.enabled /\ ~in.blocked

(* Dropping, swapping or repeating an item never makes the server believe  *)
(* a memory or an advisor thread that no response sealed.                  *)
Authentic ==
  pc = "idle" /\ bound.responses = 0 =>
    \A t \in Tampered :
      LET open == Where(t, LAMBDA x: x.t = "call" /\
                    ~\E i \in DOMAIN t : t[i].t = "output" /\ t[i].id = x.id)
          in   == Ingested(t \o [i \in DOMAIN open |->
                            OutItem(open[i].thread, open[i].id, next + i)])
      IN  in.err = "" => Believed(in)

-----------------------------------------------------------------------------
(* A response interrupted before its user turn (the first await of         *)
(* _execute_response) seals the review its user message should have ended; *)
(* a request that adds no message then takes it up again.                  *)
StaleReview == ~base.ck /\ EndsWith(st.main, LAMBDA m: m.role = "user")

(* The advisor blocks main exactly while it has a phase, and then one,     *)
(* through retries, cancellations, failures and replays.                   *)
BlockedInPhase ==
  /\ st.enabled = st.blocked
  /\ Cardinality(PhaseMarks(st.adv)) = (IF st.enabled THEN 1 ELSE 0)

(* Replay forgot memory that a message of main was sealed with.            *)
MemoryLost ==
  \E i \in DOMAIN base.main : IsAssistant(base.main[i]) /\
    \E k \in DOMAIN sealed : \E j \in DOMAIN sealed[k].main :
      sealed[k].main[j].id = base.main[i].id /\ sealed[k].main[j].mem # {}

(* When a review runs its phase is the one main is in: calls to approve,   *)
(* outputs to look at, or an answer to return.  And the advisor, which     *)
(* receives the transcript incrementally (ADVISOR_PROMPT), has all of it:  *)
(* every message of main is in one of its updates, unless replay lost the  *)
(* memory of a message, which makes the transcript it last saw             *)
(* unrecognisable.                                                         *)
ReviewFits ==
  pc = "review" /\ ~StaleReview =>
    LET told  == Projected(st.main)
        shown == UNION {st.adv[i].shown : i \in {j \in DOMAIN st.adv : st.adv[j].role = "user"}}
    IN  /\ CASE ActivePhase(st.adv) = "before_tool_call" -> OpenCalls(st.main) # <<>>
              [] ActivePhase(st.adv) = "after_tool_call" ->
                   OpenCalls(st.main) = <<>> /\ EndsWith(st.main, IsTool)
              [] ActivePhase(st.adv) = "before_return" ->
                   OpenCalls(st.main) = <<>> /\ EndsWith(st.main, IsAssistant)
        /\ ~MemoryLost =>
             \A i \in DOMAIN told : <<told[i].role, told[i].id, told[i].ref>> \in shown

-----------------------------------------------------------------------------
OnWire(item) == \E i \in DOMAIN items : items[i] = item

(* docs/threads.md:149: output already returned is not returned twice.     *)
PublishedOnce ==
  \A i, j \in DOMAIN items :
    i < j /\ items[i].t \in {"message", "call"} => items[i] # items[j]

(* docs/threads.md:78: while main is blocked over an answer or over calls, *)
(* that answer and those calls stay private.                               *)
DraftsPrivate ==
  pc = "idle" /\ kept.blocked /\ ActivePhase(kept.adv) # "after_tool_call" =>
    LET m == SplitTail(kept.main).anchor
    IN  /\ ~OnWire(MsgItem("assistant", m.id))
        /\ \A i \in DOMAIN OpenCalls(kept.main) :
              ~OnWire(CallItem("main", OpenCalls(kept.main)[i]))

(* A response that commits with main active has shown main's last answer   *)
(* and its open calls, in this response or an earlier one.                 *)
Delivered ==
  [][ pc = "commit" /\ pc' = "idle" /\ ~st.blocked /\ LogicalMain(st) # NoMsg =>
        LET has(item) == \E i \in DOMAIN items' : items'[i] = item
            m == LogicalMain(st)
        IN  /\ m.text => has(MsgItem("assistant", m.id))
            /\ \A i \in DOMAIN OpenCalls(st.main) :
                  has(CallItem("main", OpenCalls(st.main)[i])) ]_vars
=============================================================================
