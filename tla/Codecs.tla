-------------------------------- MODULE Codecs --------------------------------
(***************************************************************************)
(* The pure algorithms of the wire, run on samples: the patches a          *)
(* reasoning item seals (JsonPatch) and the messages it seals with them    *)
(* (MessagePrimitive), the arguments of a tool call                        *)
(* (ToolArguments), and what a client of the chat completions API gets and *)
(* sends (ChatHistory).  A sample is chosen in two steps, so that a run    *)
(* shares the work between its workers; the properties are about whole     *)
(* samples.                                                                *)
(***************************************************************************)
EXTENDS Integers, Sequences

CONSTANTS Lists,             \* lists, before and after
          Threads, Updates,  \* threads of messages, and main updates
          Meanings, Manners, \* arguments and how they are written
          Turns, Ends,       \* what the server answers and how it ends
          Writer, Readers,   \* the keyring it seals with, those it opens with
          Asks, Configs,     \* chat requests and configurations of a model
          None

VARIABLE sample

P == INSTANCE MessagePrimitive WITH Nil <- None
W == INSTANCE Writings
H == INSTANCE ChatHistory WITH Nil <- None

Idle == [kind |-> "idle"]

ChooseSource == /\ sample.kind = "idle"
                /\ \E x \in Lists : sample' = [kind |-> "source", x |-> x]
ChooseTarget == /\ sample.kind = "source"
                /\ \E y \in Lists : sample' = [kind |-> "patch", x |-> sample.x, y |-> y]

ChooseThread == /\ sample.kind = "idle"
                /\ \E x \in Threads : sample' = [kind |-> "thread", x |-> x]
ChooseResult == /\ sample.kind = "thread" /\ P!ReadThread(P!ThreadPrimitive(sample.x)) = sample.x
                /\ \E y \in Threads : sample' = [kind |-> "rethreaded", x |-> sample.x, y |-> y]
ChooseUpdates == /\ sample.kind = "idle"
                 /\ \E u \in Updates : sample' = [kind |-> "updates", u |-> u]

(* A meaning is a tool's schema and the arguments the model means by it.   *)
ChooseMeaning == /\ sample.kind = "idle"
                 /\ \E a \in Meanings : sample' = [kind |-> "meaning", meant |-> a]
ChooseManner ==
  /\ sample.kind = "meaning"
  /\ \E m \in Manners :
       /\ W!Readable(sample.meant.value, m)
       /\ sample' = [kind |-> "written", meant |-> sample.meant, manner |-> m]
ChooseCut ==
  /\ sample.kind = "meaning"
  /\ \E m \in {k \in Manners : W!Steady(k)} :
       \E n \in 1 .. Len(W!Written(sample.meant.value, m)), partial \in BOOLEAN :
         sample' = [kind |-> "cut", meant |-> sample.meant, manner |-> m, length |-> n,
                    partial |-> partial]

ChooseTurn == /\ sample.kind = "idle"
              /\ \E t \in Turns : sample' = [kind |-> "turn", turn |-> t]
ChooseReader ==
  /\ sample.kind = "turn"
  /\ \E e \in Ends, r \in Readers, usage \in BOOLEAN :
       sample' = [kind |-> "told", turn |-> sample.turn, end |-> e, reader |-> r, usage |-> usage]
ChooseAsk == /\ sample.kind = "idle"
             /\ \E a \in Asks : sample' = [kind |-> "ask", ask |-> a]
ChooseConfig ==
  /\ sample.kind = "ask"
  /\ \E c \in Configs : sample' = [kind |-> "asked", ask |-> sample.ask, config |-> c]

CodecNext ==
  \/ ChooseSource \/ ChooseTarget \/ ChooseThread \/ ChooseResult \/ ChooseUpdates
  \/ ChooseMeaning \/ ChooseManner \/ ChooseCut
  \/ ChooseTurn \/ ChooseReader \/ ChooseAsk \/ ChooseConfig

-----------------------------------------------------------------------------
(* A call with empty arguments is written, and then refused by its reader. *)
Legible(m) == \A i \in DOMAIN m.tool_calls : m.tool_calls[i].arguments # ""
Within(u)  == IF P!IsPatch(u) THEN u.message ELSE u
AllOrNone(list, legible) == IF legible THEN list ELSE None

(* A reader that applies a sealed patch to the thread it had before gets   *)
(* the thread as it was sealed, whatever was kept, moved, edited, removed  *)
(* and added, and reads the messages and main updates that were sealed,    *)
(* nothing empty taken for nothing or the reverse, unless one calls a tool *)
(* with empty arguments (ingest/patch.py:253, ingest.py:190, chat.py:407). *)
PatchRebuilds ==
  CASE sample.kind = "patch" ->
         LET within(list) == P!Obj([n \in {1} |-> P!Arr(list)])
             x == within(sample.x)  y == within(sample.y)
         IN  P!Patched(x, P!Diff(<<>>, x, y)) = y
    [] sample.kind = "rethreaded" ->
         P!Rebuilt(sample.x, sample.y)
           = AllOrNone(sample.y, \A i \in DOMAIN sample.y : Legible(sample.y[i]))
    [] sample.kind = "updates" ->
         P!ReadUpdates(P!UpdatesPrimitive(sample.u))
           = AllOrNone(sample.u, \A i \in DOMAIN sample.u : Legible(Within(sample.u[i])))
    [] OTHER -> TRUE

(* Arguments a model writes as JSON or nearly are the ones it meant, and   *)
(* those of a call that is cut off are what it had written by then, an     *)
(* object all along: what a client is shown of a call while it is streamed *)
(* never turns into something else (recovery.py:92, normalize.py:23,       *)
(* accumulator.py:171).                                                    *)
ArgumentsMeant ==
  sample.kind = "written" =>
    W!Repaired(W!Written(sample.meant.value, sample.manner), FALSE, sample.meant.schema)
      = sample.meant.value
ShownOf(got, whole) ==
  /\ got.outcome # "rejected" /\ W!IsObject(got.value)
  /\ W!CutFrom(sample.meant.value, got.value, sample.manner, sample.partial)
  /\ sample.partial => (got.outcome = "complete" <=> sample.length = Len(whole))
CutWell(whole) ==
  ShownOf(W!Recover(SubSeq(whole, 1, sample.length), sample.partial, sample.meant.schema), whole)
ArgumentsCut ==
  sample.kind = "cut" => CutWell(W!Written(sample.meant.value, sample.manner))
Recovered == ArgumentsMeant /\ ArgumentsCut

(* A turn is the same turn whole, streamed, and sent back: the message a   *)
(* client puts together from the chunks is the one it gets at once, and    *)
(* when it sends it back every part is read as what it was, the calls on   *)
(* the thread they were made on, under any keyring that still holds the    *)
(* root.  What a chat request says, and nothing that the model does not    *)
(* take, is what the model is sent (translation.py:264, translation.py:540,*)
(* sealing.py:544, request.py:44).                                         *)
ChatSame ==
  CASE sample.kind = "told" ->
         H!TurnKept(sample.turn, sample.end, sample.usage, Writer, sample.reader)
    [] sample.kind = "asked" -> H!RequestKept(sample.ask, sample.config, Writer)
    [] OTHER -> TRUE
=============================================================================
