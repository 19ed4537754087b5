--------------------------- MODULE ResponseState ---------------------------
(***************************************************************************)
(* responses/state.py: what a response writes of its state.  A state s has *)
(* the memory, the main and the advisor thread, whether the advisor is     *)
(* enabled and whether it blocks main; the base b is the state the         *)
(* response started from, with the tail ingest found.  Main is active when *)
(* nothing blocks it, the advisor when it is enabled.                      *)
(***************************************************************************)
EXTENDS Ingest

StateOf(x) == [memory |-> x.memory, main |-> x.main, adv |-> x.adv,
               enabled |-> x.enabled, blocked |-> x.blocked]

MainSuffix(b, s) == SubSeq(s.main, Len(b.main) + 1, Len(s.main))

(* _build_update.                                                          *)
StateUpdate(b, s, ck) == IF ck THEN Checkpoint(s) ELSE StatePatch(b, s)

(* _update_empty.                                                          *)
NothingToSave(state, update) ==
  /\ update = <<>>
  /\ state.type = "patch"
  /\ state.memory = NoChange /\ state.adv = NoChange
  /\ state.enabled = NoChange /\ state.blocked = NoChange

(* _logical_main: the last assistant, unless it has been answered.         *)
LastUnanswered(split) ==
  IF split.after # <<>> \/ (split.suffix # <<>> /\ OpenIn(split) = <<>>) THEN NoMsg
  ELSE split.anchor
LogicalMain(s) == LastUnanswered(SplitTail(s.main))

(* _main_publication: the assistant to show, and the sealed message it     *)
(* stands for when an earlier response wrote it and kept it private.       *)
PersistedAny(b) == b.tail # NoTail
PersistedNever(b) == FALSE
Persisted(b) == b.tail.kind = "hidden"

Private == [shown |-> NoMsg, source |-> NoMsg]

Shown(b, m, mine) ==
  CASE m # NoMsg /\ mine -> [shown |-> m, source |-> NoMsg]
    [] m # NoMsg /\ ~mine /\ Persisted(b) -> [shown |-> m, source |-> b.tail.source]
    [] OTHER -> Private
Showable(b, s) ==
  Shown(b, LogicalMain(s), SelectLastInSeq(s.main, IsAssistant) > Len(b.main))

PublicationEager(b, s) == Showable(b, s)
Publication(b, s) == IF s.blocked THEN Private ELSE Showable(b, s)

(* _main_update: what the reasoning item says of main.  An assistant the   *)
(* client sees whole is left out; one with a private side follows as a     *)
(* patch.                                                                  *)
Announced(pub, suffix, open) ==
  IF pub.shown = NoMsg \/ (~pub.shown.text /\ open = <<>>) THEN suffix
  ELSE IF pub.source # NoMsg THEN Append(suffix, Patch(pub.source))
  ELSE IF ~pub.shown.text THEN suffix
  ELSE IF pub.shown = PublicForm(pub.shown)
       THEN RemoveAt(suffix, SelectLastInSeq(suffix, IsAssistant))
  ELSE Append(suffix, Patch(pub.shown))
MainUpdate(b, s) == Announced(Publication(b, s), MainSuffix(b, s), OpenCalls(s.main))

CallItems(thread, calls) == [i \in DOMAIN calls |-> CallItem(thread, calls[i])]

(* commit: the items after the reasoning item.                             *)
ItemsOf(m, open) ==
  IF m = NoMsg THEN <<>>
  ELSE (IF m.text THEN <<MsgItem("assistant", m.id)>> ELSE <<>>) \o CallItems("main", open)
PublicItems(b, s) ==
  ItemsOf(Publication(b, s).shown, OpenCalls(s.main))
    \o IF s.enabled THEN CallItems("advisor", OpenCalls(s.adv)) ELSE <<>>

(* _progress_snapshot: the state with an output for every open call of an  *)
(* active thread, so that it can be continued if nothing else is written.  *)
Stubbed(msgs) == msgs \o Stubs(OpenCalls(msgs), Interrupted, {})


Snapshot(s) ==
  [s EXCEPT !.main = IF s.blocked THEN @ ELSE Stubbed(@),
            !.adv  = IF s.enabled THEN Stubbed(@) ELSE @]

(* The checks of commit, save_progress, _split_tail and ReasoningPayload:  *)
(* the response fails when one of them raises.                             *)
Writable(b, s, update) ==
  /\ IsPrefix(b.main, s.main)
  /\ Coherent(s.main)
  /\ Coherent(s.adv)
  /\ UpdateOK(update)
=============================================================================
