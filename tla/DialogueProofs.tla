--------------------------- MODULE DialogueProofs ---------------------------
(***************************************************************************)
(* What a conversation keeps, however long it is and however its responses *)
(* end: the advisor blocks main exactly while it has a phase; what the     *)
(* last response sealed is what the next one is told; and a request is     *)
(* told nothing that was not sealed, whichever reasoning items it leaves   *)
(* out, repeats or puts elsewhere.                                         *)
(***************************************************************************)
EXTENDS ReplayProofs

-----------------------------------------------------------------------------
(* The advisor's phase.                                                    *)

\* A note that tells the advisor its phase.
IsMark(m) == m.role = "user" /\ m.phase # "none"

\* The advisor blocks main while it has a phase, of which there is one.
Marked(x) ==
  /\ x.enabled = x.blocked
  /\ x.enabled => \E k \in PhaseMarks(x.adv) : PhaseMarks(x.adv) = {k}
  /\ ~x.enabled => PhaseMarks(x.adv) = {}

\* The mark is a matter of the side state alone.
LEMMA MarkedSide ==
  ASSUME NEW x, NEW y, Side(y) = Side(x), Marked(x) PROVE Marked(y)
<1>1. y.adv = x.adv /\ y.enabled = x.enabled /\ y.blocked = x.blocked
  BY DEF Side
<1> QED  BY <1>1 DEF Marked

\* Nothing but a phase note makes a phase.
LEMMA MarksKept ==
  ASSUME NEW s \in Seq(AdvMsgs), NEW t \in Seq(AdvMsgs), Len(s) <= Len(t),
         \A i \in 1..Len(s) : t[i] = s[i],
         \A i \in (Len(s) + 1)..Len(t) : ~IsMark(t[i])
  PROVE  PhaseMarks(t) = PhaseMarks(s)
<1> PICK m \in Nat, n \in Nat : m = Len(s) /\ n = Len(t)
  OBVIOUS
<1>1. DOMAIN s = 1..m /\ DOMAIN t = 1..n /\ m <= n
  OBVIOUS
<1>2. PhaseMarks(s) = {i \in 1..m : IsMark(s[i])} /\ PhaseMarks(t) = {i \in 1..n : IsMark(t[i])}
  BY <1>1 DEF PhaseMarks, IsMark
<1>3. \A i \in 1..n : i \in 1..m \/ i \in (m + 1)..n
  OBVIOUS
<1>4. \A i \in 1..m : i \in 1..n
  BY <1>1
<1> HIDE DEF IsMark
<1> QED  BY <1>2, <1>3, <1>4

\* Messages without a mark, put at the end, leave the marks as they are.
LEMMA MarksAfter ==
  ASSUME NEW s \in Seq(AdvMsgs), NEW t \in Seq(AdvMsgs), \A i \in 1..Len(t) : ~IsMark(t[i])
  PROVE  s \o t \in Seq(AdvMsgs) /\ PhaseMarks(s \o t) = PhaseMarks(s)
<1> PICK u \in Seq(AdvMsgs) : u = s \o t
  <2>1. s \o t \in Seq(AdvMsgs)
    OBVIOUS
  <2> QED  BY <2>1
<1> PICK m \in Nat, n \in Nat : m = Len(s) /\ n = Len(t)
  OBVIOUS
<1>1. Len(u) = m + n /\ \A i \in 1..m : u[i] = s[i]
  OBVIOUS
<1>2. \A i \in (m + 1)..(m + n) : u[i] = t[i - m] /\ i - m \in 1..n
  OBVIOUS
<1>3. m <= Len(u)
  BY <1>1
<1> HIDE DEF IsMark
<1>4. \A i \in (m + 1)..Len(u) : ~IsMark(u[i])
  BY <1>1, <1>2
<1>5. PhaseMarks(u) = PhaseMarks(s)
  BY <1>1, <1>3, <1>4, MarksKept
<1> QED  BY <1>5

\* A phase note makes one.
LEMMA MarksAppend ==
  ASSUME NEW s \in Seq(AdvMsgs), NEW m \in AdvMsgs
  PROVE  /\ Append(s, m) \in Seq(AdvMsgs)
         /\ ~IsMark(m) => PhaseMarks(Append(s, m)) = PhaseMarks(s)
         /\ IsMark(m) => PhaseMarks(Append(s, m)) = PhaseMarks(s) \cup {Len(s) + 1}
<1> PICK n \in Nat : n = Len(s)
  OBVIOUS
<1> PICK u \in Seq(AdvMsgs) : u = Append(s, m)
  <2>1. Append(s, m) \in Seq(AdvMsgs)
    OBVIOUS
  <2> QED  BY <2>1
<1>1. Len(u) = n + 1 /\ u[n + 1] = m /\ \A i \in 1..n : u[i] = s[i]
  OBVIOUS
<1>2. PhaseMarks(s) = {i \in 1..n : IsMark(s[i])} /\ PhaseMarks(u) = {i \in 1..(n + 1) : IsMark(u[i])}
  <2>1. DOMAIN s = 1..n /\ DOMAIN u = 1..(n + 1)
    BY <1>1
  <2> QED  BY <2>1 DEF PhaseMarks, IsMark
<1>3. 1..(n + 1) = (1..n) \cup {n + 1}
  OBVIOUS
<1> HIDE DEF IsMark
<1>4. \A i \in 1..n : IsMark(u[i]) <=> IsMark(s[i])
  BY <1>1
<1>5. PhaseMarks(u) = PhaseMarks(s) \cup {i \in {n + 1} : IsMark(u[i])}
  BY <1>2, <1>3, <1>4
<1> QED  BY <1>1, <1>5

\* Where a selection of elements comes from.
From(r, s, I) == \A k \in 1..Len(r) : \E i \in I : r[k] = s[i]

\* A selection takes its elements from the places that were selected.
LEMMA AmongFrom ==
  ASSUME NEW T, NEW s \in Seq(T), NEW I, NEW r, r = Among(s, I)
  PROVE  r \in Seq(T) /\ From(r, s, I)
<1>1. r \in Seq(T)
  BY AmongKeeps
<1>2. PICK g \in [1..Len(r) -> 1..Len(s)] :
        /\ \A k \in 1..Len(r) : g[k] \in I /\ r[k] = s[g[k]]
        /\ \A k, l \in 1..Len(r) : k < l => g[k] < g[l]
        /\ \A i \in 1..Len(s) : i \in I => \E k \in 1..Len(r) : g[k] = i
  BY AmongKeeps
<1> QED  BY <1>1, <1>2 DEF From

\* Ending a phase leaves none.
LEMMA MarksGone ==
  ASSUME NEW s \in Seq(AdvMsgs)
  PROVE  Unmarked(s) \in Seq(AdvMsgs) /\ PhaseMarks(Unmarked(s)) = {}
<1> PICK I : I = {i \in DOMAIN s : s[i].role # "user" \/ s[i].phase = "none"}
  OBVIOUS
<1>1. Unmarked(s) = Among(s, I)
  BY DEF Unmarked, Where
<1> PICK r : r = Among(s, I)
  OBVIOUS
<1>4. r \in Seq(AdvMsgs) /\ From(r, s, I)
  BY AmongFrom
<1>2. \A i \in I : ~IsMark(s[i])
  BY DEF IsMark
<1>3. PhaseMarks(r) = {i \in 1..Len(r) : IsMark(r[i])}
  <2>1. DOMAIN r = 1..Len(r)
    BY <1>4
  <2> QED  BY <2>1 DEF PhaseMarks, IsMark
<1> HIDE DEF IsMark
<1> QED  BY <1>1, <1>2, <1>3, <1>4 DEF From

\* Outputs and turns are none.
LEMMA NoMarks ==
  /\ \A m \in AdvOutputs : ~IsMark(m)
  /\ \A m \in AdvTurns : ~IsMark(m)
  /\ \A m \in AdvMsgs : IsTool(m) => ~IsMark(m)
BY DEF IsMark, AdvOutputs, AdvTurns, IsTool

\* Outputs that a replay adds keep the phase.
LEMMA MarkedExtends ==
  ASSUME NEW r, NEW q, r.adv \in Seq(AdvMsgs), q.adv \in Seq(AdvMsgs), Extends(r, q), Marked(r)
  PROVE  Marked(q)
<1> PICK s \in Seq(AdvMsgs), t \in Seq(AdvMsgs) : s = r.adv /\ t = q.adv
  OBVIOUS
<1>1. /\ Len(s) <= Len(t) /\ \A i \in 1..Len(s) : t[i] = s[i]
      /\ \A i \in (Len(s) + 1)..Len(t) : IsTool(t[i])
  BY DEF Extends
<1>2. \A i \in (Len(s) + 1)..Len(t) : t[i] \in AdvMsgs
  <2>1. \A i \in (Len(s) + 1)..Len(t) : i \in 1..Len(t)
    OBVIOUS
  <2> QED  BY <2>1
<1>3. \A i \in (Len(s) + 1)..Len(t) : ~IsMark(t[i])
  BY <1>1, <1>2, NoMarks
<1>4. PhaseMarks(t) = PhaseMarks(s)
  BY <1>1, <1>3, MarksKept
<1>5. q.enabled = r.enabled /\ q.blocked = r.blocked
  BY DEF Extends
<1> QED  BY <1>4, <1>5 DEF Marked

-----------------------------------------------------------------------------
(* The threads of a response.                                              *)

\* What is open in the advisor's thread.
LEMMA AdvOpenType ==
  ASSUME NEW msgs \in Seq(AdvMsgs) PROVE OpenCalls(msgs) \in Seq(Int)
<1> PICK a : a = SelectLastInSeq(msgs, IsAssistant)
  OBVIOUS
<1>1. a \in 0..Len(msgs)
  BY LastAssistantAt
<1>2. SplitTail(msgs) = SplitAt(msgs, a, PastTools(msgs, a + 1))
  BY DEF SplitTail, SplitFrom
<1> PICK split : split = SplitTail(msgs)
  OBVIOUS
<1>3. CASE split.anchor = NoMsg
  BY <1>3 DEF OpenCalls, OpenIn
<1>4. CASE split.anchor # NoMsg
  <2>1. split.anchor = IF a = 0 THEN NoMsg ELSE msgs[a]
    BY <1>2 DEF SplitAt
  <2>2. a # 0 /\ split.anchor = msgs[a] /\ msgs[a] \in AdvMsgs
    <3>1. a # 0
      BY <1>4, <2>1
    <3> QED  BY <1>1, <2>1, <3>1
  <2>3. split.anchor.calls \in Seq(Int)
    BY <2>2, AdvCalls
  <2>4. OpenCalls(msgs) = Where(split.anchor.calls, LAMBDA c : c \notin Refs(split.suffix))
    BY <1>4 DEF OpenCalls, OpenIn
  <2>5. \E I : OpenCalls(msgs) = Among(split.anchor.calls, I)
    BY <2>4 DEF Where
  <2> QED  BY <2>3, <2>5, AmongKeeps
<1> QED  BY <1>3, <1>4

\* Outputs the server makes up, after a thread.
LEMMA StubsAfter ==
  ASSUME NEW calls \in Seq(Int), NEW id \in Int, NEW mem \in SUBSET Int
  PROVE  /\ \A s \in Seq(Msgs) : s \o Stubs(calls, id, mem) \in Seq(Msgs)
         /\ \A s \in Seq(AdvMsgs) :
              /\ s \o Stubs(calls, id, mem) \in Seq(AdvMsgs)
              /\ PhaseMarks(s \o Stubs(calls, id, mem)) = PhaseMarks(s)
<1> PICK t : t = Stubs(calls, id, mem)
  OBVIOUS
<1>1. t \in Seq(AdvOutputs)
  BY StubsType
<1>2. Len(t) \in Nat /\ \A i \in 1..Len(t) : t[i] \in AdvOutputs
  BY <1>1
<1>3. t \in Seq(Msgs)
  <2>1. \A m \in AdvOutputs : m \in Msgs
    BY DEF AdvOutputs
  <2> HIDE DEF AdvOutputs
  <2> QED  BY <1>1, <2>1
<1>4. t \in Seq(AdvMsgs)
  <2>1. \A m \in AdvOutputs : m \in AdvMsgs
    BY DEF AdvMsgs
  <2> QED  BY <1>1, <2>1
<1>5. \A i \in 1..Len(t) : ~IsMark(t[i])
  BY <1>2, NoMarks
<1>6. \A s \in Seq(AdvMsgs) : s \o t \in Seq(AdvMsgs) /\ PhaseMarks(s \o t) = PhaseMarks(s)
  BY <1>4, <1>5, MarksAfter
<1> QED  BY <1>3, <1>6

\* What a state with outputs for what is open says.
LEMMA SnapshotType ==
  ASSUME NEW s \in States
  PROVE  /\ Snapshot(s) \in States
         /\ Marked(s) => Marked(Snapshot(s))
<1>1. s.main \in Seq(Msgs) /\ s.adv \in Seq(AdvMsgs)
  BY DEF States
<1>2. OpenCalls(s.main) \in Seq(Int) /\ OpenCalls(s.adv) \in Seq(Int)
  BY <1>1, OpenType, AdvOpenType
<1>3. Interrupted \in Int /\ {} \in SUBSET Int
  BY DEF Interrupted
<1>4. /\ Stubbed(s.main) \in Seq(Msgs)
      /\ Stubbed(s.adv) \in Seq(AdvMsgs) /\ PhaseMarks(Stubbed(s.adv)) = PhaseMarks(s.adv)
  BY <1>1, <1>2, <1>3, StubsAfter DEF Stubbed
<1> PICK main \in Seq(Msgs), adv \in Seq(AdvMsgs) :
      /\ Snapshot(s) = [s EXCEPT !.main = main, !.adv = adv]
      /\ PhaseMarks(adv) = PhaseMarks(s.adv)
  <2>1. PICK m \in Seq(Msgs) : m = IF s.blocked THEN s.main ELSE Stubbed(s.main)
    BY <1>1, <1>4
  <2>2. PICK a \in Seq(AdvMsgs) : a = IF s.enabled THEN Stubbed(s.adv) ELSE s.adv
    BY <1>1, <1>4
  <2>3. PhaseMarks(a) = PhaseMarks(s.adv)
    BY <1>4, <2>2
  <2>4. Snapshot(s) = [s EXCEPT !.main = m, !.adv = a]
    BY <2>1, <2>2 DEF Snapshot
  <2> QED  BY <2>3, <2>4
<1>5. /\ Snapshot(s) \in States /\ Snapshot(s).adv = adv
      /\ Snapshot(s).enabled = s.enabled /\ Snapshot(s).blocked = s.blocked
  BY DEF States
<1> QED  BY <1>5 DEF Marked

\* Where main's last turn starts.
LEMMA TurnStart ==
  ASSUME NEW told \in Seq(Msgs), told # <<>>, NEW anchor \in Seq(Msgs)
  PROVE  UpdateStart(anchor, told) \in Nat
<1> PICK I : I = {i \in 1..Len(told) : ~IsTool(told[i])}
  OBVIOUS
<1> PICK n \in Nat : n = Len(told) /\ n > 0
  OBVIOUS
<1> PICK first : first = SelectLastInSeq(told, LAMBDA m : ~IsTool(m))
  OBVIOUS
<1>1. first = IF I # {} THEN Max(I) ELSE 0
  BY DEF SelectLastInSeq
<1>2. I # {} => Max(I) \in I
  <2>1. I \in SUBSET (1..Len(told)) /\ 1 \in Int /\ Len(told) \in Int
    OBVIOUS
  <2> QED  BY <2>1, Extremes
<1>3. first \in 0..n
  BY <1>1, <1>2
<1>4. LatestTurn(told)
        = IF ~IsTool(Last(told)) THEN 1
          ELSE IF first # 0 /\ IsAssistant(told[first]) THEN n - first + 1 ELSE n - first
  BY DEF LatestTurn
<1> PICK turn : turn = LatestTurn(told)
  OBVIOUS
<1>5. turn \in 0..n
  <2>1. turn = 1 \/ (first # 0 /\ turn = n - first + 1) \/ turn = n - first
    BY <1>4
  <2> QED  BY <1>3, <2>1
<1>6. UpdateStart(anchor, told) = Len(anchor) \/ UpdateStart(anchor, told) = n - turn
  BY DEF UpdateStart
<1>7. Len(anchor) \in Nat /\ n - turn \in Nat
  BY <1>5
<1> QED  BY <1>6, <1>7

\* The advisor's last update of main.
LEMMA LastUpdateAt ==
  ASSUME NEW adv \in Seq(AdvMsgs), NEW u, u = LastUpdate(adv)
  PROVE  u = 0 \/ (u \in 1..Len(adv) /\ adv[u].anchor \in Seq(Msgs))
<1> PICK I : I = {i \in 1..Len(adv) : adv[i].role = "user" /\ adv[i].anchor # <<>>}
  OBVIOUS
<1>1. u = IF I # {} THEN Max(I) ELSE 0
  BY DEF LastUpdate, SelectLastInSeq
<1>2. I # {} => Max(I) \in I
  <2>1. I \in SUBSET (1..Len(adv)) /\ 1 \in Int /\ Len(adv) \in Int
    OBVIOUS
  <2> QED  BY <2>1, Extremes
<1>3. \A m \in AdvMsgs : m.role = "user" => m \in AdvNotes
  BY DEF AdvMsgs, AdvTurns, AdvOutputs
<1>4. \A m \in AdvNotes : m.anchor \in Seq(Msgs)
  BY DEF AdvNotes
<1>5. \A i \in I : i \in 1..Len(adv) /\ adv[i] \in AdvMsgs /\ adv[i].role = "user"
  OBVIOUS
<1>6. \A i \in I : i \in 1..Len(adv) /\ adv[i].anchor \in Seq(Msgs)
  BY <1>3, <1>4, <1>5
<1> QED  BY <1>1, <1>2, <1>6

\* A note for the advisor.
LEMMA NoteType ==
  ASSUME NEW id \in Int, NEW phase \in Phases, NEW anchor \in Seq(Msgs),
         NEW shown \in SUBSET ((Roles \cup {"tool"}) \X Int \X Int)
  PROVE  /\ AdvNote(id, phase, anchor, shown) \in AdvMsgs
         /\ IsMark(AdvNote(id, phase, anchor, shown)) <=> phase # "none"
<1>1. AdvNote(id, phase, anchor, shown) \in AdvNotes
  BY DEF AdvNote, AdvNotes
<1>2. AdvNote(id, phase, anchor, shown).role = "user"
      /\ AdvNote(id, phase, anchor, shown).phase = phase
  BY DEF AdvNote
<1> QED  BY <1>1, <1>2 DEF AdvMsgs, IsMark

\* The advisor is told what main said.
LEMMA MainUpdateKeeps ==
  ASSUME NEW s \in States, NEW id \in Int
  PROVE  /\ WithMainUpdate(s, id) \in States
         /\ PhaseMarks(WithMainUpdate(s, id).adv) = PhaseMarks(s.adv)
         /\ WithMainUpdate(s, id).enabled = s.enabled
         /\ WithMainUpdate(s, id).blocked = s.blocked
         /\ \/ WithMainUpdate(s, id).adv = s.adv
            \/ \E note \in AdvMsgs :
                 note.role = "user" /\ WithMainUpdate(s, id).adv = Append(s.adv, note)
<1> PICK told : told = Projected(s.main)
  OBVIOUS
<1>1. s.main \in Seq(Msgs) /\ s.adv \in Seq(AdvMsgs)
  BY DEF States
<1>2. told \in Seq(Msgs)
  <2>1. \E I : told = Among(s.main, I)
    BY DEF Projected, Where
  <2> QED  BY <1>1, <2>1, AmongKeeps
<1> PICK u : u = LastUpdate(s.adv)
  OBVIOUS
<1>3. u = 0 \/ s.adv[u].anchor \in Seq(Msgs)
  BY <1>1, LastUpdateAt
<1> PICK start : start = IF u = 0 THEN 0 ELSE UpdateStart(s.adv[u].anchor, told)
  OBVIOUS
<1> PICK shown : shown = {<<told[i].role, told[i].id, told[i].ref>> : i \in start + 1 .. Len(told)}
  OBVIOUS
<1>4. WithMainUpdate(s, id)
        = IF told = <<>> \/ start >= Len(told) THEN s
          ELSE [s EXCEPT !.adv = Append(s.adv, AdvNote(id, "none", told, shown))]
  BY DEF WithMainUpdate
<1>5. CASE told = <<>> \/ start >= Len(told)
  <2>1. WithMainUpdate(s, id) = s
    BY <1>4, <1>5
  <2> QED  BY <2>1
<1>6. CASE ~(told = <<>> \/ start >= Len(told))
  <2>1. start \in Nat
    BY <1>2, <1>3, <1>6, TurnStart
  <2>2. \A i \in start + 1 .. Len(told) : told[i] \in Msgs
    BY <1>2, <2>1
  <2>3. \A m \in Msgs : <<m.role, m.id, m.ref>> \in (Roles \cup {"tool"}) \X Int \X Int
    BY DEF Msgs
  <2>4. shown \in SUBSET ((Roles \cup {"tool"}) \X Int \X Int)
    <3> HIDE DEF Msgs, Roles
    <3> QED  BY <2>2, <2>3
  <2>5. "none" \in Phases
    BY DEF Phases
  <2> PICK note \in AdvMsgs : note = AdvNote(id, "none", told, shown) /\ ~IsMark(note)
    <3>1. /\ AdvNote(id, "none", told, shown) \in AdvMsgs
          /\ ~IsMark(AdvNote(id, "none", told, shown))
      BY <1>2, <2>4, <2>5, NoteType
    <3> QED  BY <3>1
  <2> PICK adv \in Seq(AdvMsgs) : adv = Append(s.adv, note) /\ PhaseMarks(adv) = PhaseMarks(s.adv)
    <3>1. Append(s.adv, note) \in Seq(AdvMsgs) /\ PhaseMarks(Append(s.adv, note)) = PhaseMarks(s.adv)
      BY <1>1, MarksAppend
    <3> QED  BY <3>1
  <2>6. WithMainUpdate(s, id) = [s EXCEPT !.adv = adv]
    BY <1>4, <1>6
  <2> PICK w : w = WithMainUpdate(s, id)
    OBVIOUS
  <2>7. w \in States /\ w.adv = adv /\ w.enabled = s.enabled /\ w.blocked = s.blocked
    BY <2>6 DEF States
  <2>8. note.role = "user"
    BY DEF AdvNote
  <2> QED  BY <2>7, <2>8
<1> QED  BY <1>5, <1>6

\* A phase starts when there is none.
LEMMA PhaseStarts ==
  ASSUME NEW s \in States, Marked(s), ~s.enabled, NEW phase \in Phases, phase # "none",
         NEW id \in Int
  PROVE  PhaseStarted(s, phase, id) \in States /\ Marked(PhaseStarted(s, phase, id))
<1> PICK u \in States :
      u = WithMainUpdate(s, id) /\ PhaseMarks(u.adv) = PhaseMarks(s.adv)
  <2>1. WithMainUpdate(s, id) \in States
        /\ PhaseMarks(WithMainUpdate(s, id).adv) = PhaseMarks(s.adv)
    BY MainUpdateKeeps
  <2> QED  BY <2>1
<1> PICK note \in AdvMsgs : note = AdvNote(id + 1, phase, <<>>, {}) /\ IsMark(note)
  <2>1. <<>> \in Seq(Msgs) /\ {} \in SUBSET ((Roles \cup {"tool"}) \X Int \X Int) /\ id + 1 \in Int
    OBVIOUS
  <2>2. AdvNote(id + 1, phase, <<>>, {}) \in AdvMsgs /\ IsMark(AdvNote(id + 1, phase, <<>>, {}))
    BY <2>1, NoteType
  <2> QED  BY <2>2
<1>1. u.adv \in Seq(AdvMsgs)
  BY DEF States
<1> PICK adv \in Seq(AdvMsgs) :
      adv = Append(u.adv, note) /\ PhaseMarks(adv) = PhaseMarks(u.adv) \cup {Len(u.adv) + 1}
  <2>1. /\ Append(u.adv, note) \in Seq(AdvMsgs)
        /\ PhaseMarks(Append(u.adv, note)) = PhaseMarks(u.adv) \cup {Len(u.adv) + 1}
    BY <1>1, MarksAppend
  <2> QED  BY <2>1
<1>2. PhaseStarted(s, phase, id) = [u EXCEPT !.adv = adv, !.enabled = TRUE, !.blocked = TRUE]
  BY DEF PhaseStarted
<1>3. PhaseMarks(u.adv) = {}
  BY DEF Marked
<1>4. PhaseMarks(adv) = {Len(u.adv) + 1}
  BY <1>3
<1> PICK p : p = PhaseStarted(s, phase, id)
  OBVIOUS
<1>5. p \in States /\ p.adv = adv /\ p.enabled = TRUE /\ p.blocked = TRUE
  BY <1>2 DEF States
<1> QED  BY <1>4, <1>5 DEF Marked

\* No phase is left when it ends.
LEMMA PhaseEnds ==
  ASSUME NEW s \in States, NEW says, NEW id \in Int
  PROVE  /\ PhaseFinal(s, says, id) \in States /\ Marked(PhaseFinal(s, says, id))
         /\ ~PhaseFinal(s, says, id).enabled
<1>1. s.main \in Seq(Msgs) /\ s.adv \in Seq(AdvMsgs)
  BY DEF States
<1> PICK ended : ended = IF ActivePhase(s.adv) = "before_tool_call" THEN AbortedOutputs(s) ELSE <<>>
  OBVIOUS
<1>2. s.main \o ended \in Seq(Msgs)
  <2>1. s.main \o AbortedOutputs(s) \in Seq(Msgs)
    <3>1. OpenCalls(s.main) \in Seq(Int) /\ Cancelled \in Int /\ {Artifact} \in SUBSET Int
      BY <1>1, OpenType DEF Cancelled, Artifact
    <3> QED  BY <1>1, <3>1, StubsAfter DEF AbortedOutputs
  <2>2. s.main \o <<>> \in Seq(Msgs)
    BY <1>1
  <2> QED  BY <2>1, <2>2
<1>3. Note("developer", id, {Artifact}) \in Msgs
  BY DEF Note, Msgs, Roles, Artifact
<1> PICK main \in Seq(Msgs) :
      main = IF says = "advice" THEN s.main \o ended \o <<Note("developer", id, {Artifact})>> ELSE s.main
  <2>1. s.main \o ended \o <<Note("developer", id, {Artifact})>> \in Seq(Msgs)
    <3> PICK q \in Seq(Msgs) : q = s.main \o ended
      BY <1>2
    <3> PICK m \in Msgs : m = Note("developer", id, {Artifact})
      BY <1>3
    <3>1. q \o <<m>> \in Seq(Msgs)
      OBVIOUS
    <3> QED  BY <3>1
  <2> QED  BY <1>1, <2>1
<1> PICK adv \in Seq(AdvMsgs) : adv = Unmarked(s.adv) /\ PhaseMarks(adv) = {}
  <2>1. Unmarked(s.adv) \in Seq(AdvMsgs) /\ PhaseMarks(Unmarked(s.adv)) = {}
    BY <1>1, MarksGone
  <2> QED  BY <2>1
<1>4. PhaseFinal(s, says, id)
        = [s EXCEPT !.adv = adv, !.enabled = FALSE, !.blocked = FALSE, !.main = main]
  BY DEF PhaseFinal
<1> PICK p : p = PhaseFinal(s, says, id)
  OBVIOUS
<1>5. p \in States /\ p.adv = adv /\ p.enabled = FALSE /\ p.blocked = FALSE
  BY <1>4 DEF States
<1> QED  BY <1>5 DEF Marked
-----------------------------------------------------------------------------
(* What a response writes.                                                 *)

\* What of main is shown, and what the reasoning item says of it.
LEMMA MainUpdateType ==
  ASSUME NEW b \in Bases, NEW s \in States
  PROVE  /\ Publication(b, s).shown \in Msgs \cup {NoMsg}
         /\ MainSuffix(b, s) \in Seq(Msgs) /\ MainUpdate(b, s) \in MainUpdates
<1>1. s.main \in Seq(Msgs) /\ b.main \in Seq(Msgs) /\ b.tail \in Tails
  BY DEF States, Bases
<1> PICK suffix \in Seq(Msgs) : suffix = MainSuffix(b, s)
  <2>1. /\ Len(b.main) + 1 \in Int /\ Len(s.main) \in Int
        /\ 1 <= Len(b.main) + 1 /\ Len(s.main) <= Len(s.main)
    BY <1>1
  <2>2. MainSuffix(b, s) \in Seq(Msgs)
    BY <1>1, <2>1, Part DEF MainSuffix
  <2> QED  BY <2>2
<1>2. LogicalMain(s) \in Msgs \cup {NoMsg}
  <2>1. SplitTail(s.main) \in Splits
    BY <1>1, TailType
  <2> QED  BY <2>1 DEF LogicalMain, LastUnanswered, Splits
<1>3. b.tail.kind = "hidden" => b.tail.source \in Msgs \cup {NoMsg}
  BY <1>1 DEF Tails
<1> PICK pub : pub = Publication(b, s)
  OBVIOUS
<1>4. pub.shown \in Msgs \cup {NoMsg} /\ pub.source \in Msgs \cup {NoMsg}
  <2>1. \/ pub = [shown |-> LogicalMain(s), source |-> NoMsg]
        \/ b.tail.kind = "hidden" /\ pub = [shown |-> LogicalMain(s), source |-> b.tail.source]
        \/ pub = [shown |-> NoMsg, source |-> NoMsg]
    BY DEF Publication, Showable, Shown, Persisted, Private
  <2> QED  BY <1>2, <1>3, <2>1
<1>5. MainUpdate(b, s) \in MainUpdates
  <2> PICK a : a = SelectLastInSeq(suffix, IsAssistant)
    OBVIOUS
  <2>1. RemoveAt(suffix, a) \in Seq(Msgs)
    <3>1. a \in 0..Len(suffix)
      BY LastAssistantAt
    <3>2. /\ 1 \in Int /\ a - 1 \in Int /\ 1 <= 1 /\ a - 1 <= Len(suffix)
          /\ a + 1 \in Int /\ 1 <= a + 1 /\ Len(suffix) \in Int /\ Len(suffix) <= Len(suffix)
      BY <3>1
    <3>3. SubSeq(suffix, 1, a - 1) \in Seq(Msgs) /\ SubSeq(suffix, a + 1, Len(suffix)) \in Seq(Msgs)
      BY <3>1, <3>2, Part
    <3> PICK l \in Seq(Msgs), r \in Seq(Msgs) :
          l = SubSeq(suffix, 1, a - 1) /\ r = SubSeq(suffix, a + 1, Len(suffix))
      BY <3>3
    <3>4. RemoveAt(suffix, a) = l \o r
      BY DEF RemoveAt
    <3> QED  BY <3>4
  <2>2. \A m \in Msgs : Append(suffix, Patch(m)) \in MainUpdates
    BY DEF MainUpdates
  <2>3. \/ MainUpdate(b, s) = suffix
        \/ pub.source # NoMsg /\ MainUpdate(b, s) = Append(suffix, Patch(pub.source))
        \/ MainUpdate(b, s) = RemoveAt(suffix, a)
        \/ pub.shown # NoMsg /\ MainUpdate(b, s) = Append(suffix, Patch(pub.shown))
    BY DEF MainUpdate, Announced
  <2>4. \A q \in Seq(Msgs) : q \in MainUpdates
    BY DEF MainUpdates
  <2> QED  BY <1>4, <2>1, <2>2, <2>3, <2>4
<1> QED  BY <1>4, <1>5

\* The items a response shows are no outputs.
LEMMA PublicItemsType ==
  ASSUME NEW b \in Bases, NEW s \in States
  PROVE  /\ PublicItems(b, s) \in Seq(PlainItems)
         /\ \A i \in 1..Len(PublicItems(b, s)) : PublicItems(b, s)[i].t # "output"
<1> DEFINE Quiet == {x \in PlainItems : x.t # "output"}
<1>1. \A thread \in Threads, calls \in Seq(Int) : CallItems(thread, calls) \in Seq(Quiet)
  <2> TAKE thread \in Threads, calls \in Seq(Int)
  <2>1. \A c \in Int : CallItem(thread, c) \in Quiet
    BY DEF CallItem, PlainItems
  <2> HIDE DEF Quiet
  <2>2. CallItems(thread, calls) = [i \in 1..Len(calls) |-> CallItem(thread, calls[i])]
    BY DEF CallItems
  <2> QED  BY <2>1, <2>2
<1>2. \A m \in Msgs : <<MsgItem("assistant", m.id)>> \in Seq(Quiet)
  <2>1. \A m \in Msgs : MsgItem("assistant", m.id) \in Quiet
    BY DEF MsgItem, PlainItems, Msgs, Roles
  <2> HIDE DEF Quiet
  <2> QED  BY <2>1
<1>3. OpenCalls(s.main) \in Seq(Int) /\ OpenCalls(s.adv) \in Seq(Int)
  BY OpenType, AdvOpenType DEF States
<1>4. "main" \in Threads /\ "advisor" \in Threads
  BY DEF Threads
<1> PICK m \in Msgs \cup {NoMsg} : m = Publication(b, s).shown
  BY MainUpdateType
<1>5. <<>> \in Seq(Quiet)
  OBVIOUS
<1> HIDE DEF Quiet
<1> PICK calls \in Seq(Quiet), side \in Seq(Quiet) :
      /\ calls = CallItems("main", OpenCalls(s.main))
      /\ side = IF s.enabled THEN CallItems("advisor", OpenCalls(s.adv)) ELSE <<>>
  BY <1>1, <1>3, <1>4, <1>5
<1> PICK head \in Seq(Quiet) :
      head = IF m # NoMsg /\ m.text THEN <<MsgItem("assistant", m.id)>> ELSE <<>>
  BY <1>2, <1>5
<1> PICK mine \in Seq(Quiet) : mine = ItemsOf(m, OpenCalls(s.main))
  <2>1. ItemsOf(m, OpenCalls(s.main)) = IF m = NoMsg THEN <<>> ELSE head \o calls
    BY DEF ItemsOf
  <2>2. head \o calls \in Seq(Quiet)
    OBVIOUS
  <2> QED  BY <1>5, <2>1, <2>2
<1>6. PublicItems(b, s) = mine \o side
  BY DEF PublicItems
<1> PICK out \in Seq(Quiet) : out = PublicItems(b, s)
  <2>1. mine \o side \in Seq(Quiet)
    OBVIOUS
  <2> QED  BY <1>6, <2>1
<1>7. \A i \in 1..Len(out) : out[i] \in Quiet
  OBVIOUS
<1>8. out \in Seq(PlainItems)
  BY DEF Quiet
<1> QED  BY <1>7, <1>8 DEF Quiet

\* What a client adds are messages and outputs.
LEMMA AdditionsType ==
  ASSUME items \in Seq(Items), next \in Int, NEW new \in Additions
  PROVE  new \in Seq(PlainItems)
<1> PICK I : I = {i \in DOMAIN items : items[i].t = "call" /\
                    ~\E j \in DOMAIN items : items[j].t = "output" /\ items[j].id = items[i].id}
  OBVIOUS
<1> PICK open : open = Unanswered
  OBVIOUS
<1>1. open = Among(items, I)
  BY DEF Unanswered, Where
<1>2. open \in Seq(Items) /\ From(open, items, I)
  BY <1>1, AmongFrom
<1> PICK n \in Nat : n = Len(open)
  BY <1>2
<1>3. \A i \in I : items[i] \in Items /\ items[i].t = "call"
  OBVIOUS
<1>4. \A x \in Items : x.t = "call" => x.thread \in Threads /\ x.id \in Int
  BY DEF Items, PlainItems, ReasoningItems
<1>5. \A k \in 1..n : open[k].thread \in Threads /\ open[k].id \in Int
  BY <1>2, <1>3, <1>4 DEF From
<1>6. Outputs = [k \in 1..n |-> OutItem(open[k].thread, open[k].id, next + k)]
  <2>1. DOMAIN open = 1..n
    BY <1>2
  <2> QED  BY <2>1 DEF Outputs
<1>7. \A k \in 1..n : OutItem(open[k].thread, open[k].id, next + k) \in PlainItems
  BY <1>5 DEF OutItem, PlainItems
<1>8. Outputs \in Seq(PlainItems)
  <2> PICK f : f = [k \in 1..n |-> OutItem(open[k].thread, open[k].id, next + k)]
    OBVIOUS
  <2>1. f \in [1..n -> PlainItems]
    BY <1>7
  <2>2. f \in Seq(PlainItems)
    BY <2>1
  <2>3. f = Outputs
    BY <1>6
  <2> QED  BY <2>2, <2>3
<1>9. MsgItem("user", next) \in PlainItems
  BY DEF MsgItem, PlainItems, Roles
<1> PICK user \in Seq(PlainItems) : user = <<MsgItem("user", next)>>
  <2> PICK x \in PlainItems : x = MsgItem("user", next)
    BY <1>9
  <2>1. <<x>> \in Seq(PlainItems)
    OBVIOUS
  <2> QED  BY <2>1
<1> PICK owed \in Seq(PlainItems) : owed = Outputs
  BY <1>8
<1>10. new = user \o owed \/ new = owed \o user \/ new = owed
  BY DEF Additions
<1>11. user \o owed \in Seq(PlainItems) /\ owed \o user \in Seq(PlainItems)
  OBVIOUS
<1> QED  BY <1>10, <1>11

\* An update that says nothing leaves the state.
LEMMA NothingSaved ==
  ASSUME NEW b \in Bases, NEW s \in States, NEW ck, NEW update,
         NothingToSave(StateUpdate(b, s, ck), update)
  PROVE  Side(s) = Side(b)
<1> PICK u : u = StateUpdate(b, s, ck)
  OBVIOUS
<1>1. /\ u.type = "patch" /\ u.memory = NoChange /\ u.adv = NoChange
      /\ u.enabled = NoChange /\ u.blocked = NoChange
  BY DEF NothingToSave
<1>2. u = StatePatch(b, s)
  <2>1. Checkpoint(s).type = "checkpoint"
    BY DEF Checkpoint
  <2> QED  BY <1>1, <2>1 DEF StateUpdate
<1>3. s.memory = b.memory /\ s.enabled = b.enabled /\ s.blocked = b.blocked
  BY <1>1, <1>2, AppliedDelta DEF StatePatch
<1>4. s.adv = b.adv
  <2>1. ListDiff(b.adv, s.adv) # NoChange
    BY DEF ListDiff, NoChange
  <2> QED  BY <1>1, <1>2, <2>1 DEF StatePatch
<1> QED  BY <1>3, <1>4 DEF Side

\* The transcript with the items that a response ends with.
EndItems(d, out) == items \o (IF d.id = 0 THEN <<>> ELSE <<Reasoning(d)>>) \o out

\* The reasoning item and what is shown after it are replayed to the state that was sealed,
\* or refused.
LEMMA EndReplayed ==
  ASSUME items \in Seq(Items), base \in Bases, ~Stopped(After(items)),
         Side(After(items)) = Side(base), Marked(After(items)),
         NEW s \in States, Marked(s),
         NEW out \in Seq(PlainItems), \A i \in 1..Len(out) : out[i].t # "output",
         NEW d, d.id \in Nat,
         d.id # 0 => d.state = StateUpdate(base, s, base.ck) /\ d.main \in MainUpdates,
         d.id = 0 => Side(s) = Side(base),
         NEW q, q = EndItems(d, out)
  PROVE  /\ q \in Seq(Items) /\ Marked(After(q))
         /\ ~Stopped(After(q)) => Side(After(q)) = Side(s)
<1>1. MsgItem("user", 0) \in Items
  BY DEF MsgItem, Items, PlainItems, Roles
<1> PICK r \in Replays : r = After(items)
  BY <1>1, AfterAppend
<1> DEFINE Fits(t) == \/ Side(t) = Side(s)
                      \/ Stopped(t) /\ Side(t) = Side(r)
<1> PICK mid \in Seq(Items) :
      mid = items \o (IF d.id = 0 THEN <<>> ELSE <<Reasoning(d)>>) /\ Fits(After(mid))
  <2>1. CASE d.id = 0
    <3>1. items \o <<>> = items
      OBVIOUS
    <3> QED  BY <2>1, <3>1
  <2>2. CASE d.id # 0
    <3> PICK x : x = Reasoning(d)
      OBVIOUS
    <3>1. base.ck \in BOOLEAN /\ base.last \in Int
      BY DEF Bases
    <3>2. d.state \in Checkpoints \cup StatePatches
      BY <2>2, <3>1, StateUpdateType
    <3>3. x \in ReasoningItems /\ x.state = d.state /\ x.t = "reasoning"
      BY <2>2, <3>1, <3>2 DEF Reasoning, ReasoningItem, ReasoningItems
    <3>4. x \in Items
      BY <3>3 DEF Items
    <3>5. After(Append(items, x)) = Step(r, x)
      BY <3>4, AfterAppend
    <3>6. Step(r, x) = StepReasoning(r, x)
      BY <3>3 DEF Step, Stopped
    <3>7. \/ Side(StepReasoning(r, x)) = Side(s)
          \/ Refusal(StepReasoning(r, x)) # "" /\ Side(StepReasoning(r, x)) = Side(r)
      <4> PICK ck \in BOOLEAN : ck = base.ck
        BY <3>1
      <4>1. x.state = StateUpdate(base, s, ck)
        BY <2>2, <3>3
      <4>2. Takes(StepReasoning(r, x), r, s)
        BY <3>3, <4>1, StepSealed
      <4> QED  BY <4>2 DEF Takes
    <3>8. Fits(StepReasoning(r, x))
      BY <3>7 DEF Stopped
    <3> HIDE DEF Fits
    <3> PICK m \in Seq(Items) : m = Append(items, x) /\ m = items \o <<x>>
      <4>1. Append(items, x) \in Seq(Items) /\ Append(items, x) = items \o <<x>>
        BY <3>4, AppendIsConcat
      <4> QED  BY <4>1
    <3>9. Fits(After(m))
      BY <3>5, <3>6, <3>8
    <3> QED  BY <2>2, <3>9
  <2> QED  BY <2>1, <2>2
<1> HIDE DEF Fits
<1>2. q = mid \o out
  BY DEF EndItems
<1>3. /\ q \in Seq(Items) /\ Side(After(q)) = Side(After(mid))
      /\ Stopped(After(mid)) => After(q) = After(mid)
  <2>1. /\ mid \o out \in Seq(Items) /\ Side(After(mid \o out)) = Side(After(mid))
        /\ Stopped(After(mid)) => After(mid \o out) = After(mid)
    BY AfterPlain
  <2> QED  BY <1>2, <2>1
<1>4. Side(After(q)) = Side(s) \/ (Stopped(After(q)) /\ Side(After(q)) = Side(r))
  BY <1>3 DEF Fits
<1>5. Marked(After(q))
  <2>1. Marked(r)
    OBVIOUS
  <2> QED  BY <1>4, <2>1, MarkedSide
<1> QED  BY <1>3, <1>4, <1>5
-----------------------------------------------------------------------------
(* The invariant.                                                          *)

\* The types of the variables that the invariant speaks of.
Types ==
  /\ items \in Seq(Items) /\ st \in States /\ kept \in States /\ base \in Bases
  /\ draft.id \in Nat /\ next \in Nat \ {0}

\* Nothing was raised.
Calm == alarm = ""

\* The transcript brings what the last response left, and what this one began with.
Brought ==
  /\ pc = "idle" /\ Calm /\ ~Stopped(After(items)) => Side(After(items)) = Side(kept)
  /\ pc # "idle" => ~Stopped(After(items)) /\ Side(After(items)) = Side(base)

\* Main takes no turn while the advisor has its phase; who runs tools has called them.
Turns(where, s) ==
  /\ where \in {"turn", "stream", "tools"} => ~s.enabled
  /\ where = "tools" => s.main # <<>>
  /\ where = "side tools" => s.adv # <<>> /\ Last(s.adv).calls # <<>>

\* The inductive invariant.
DInv == Types /\ Marked(st) /\ Marked(After(items)) /\ Brought /\ Turns(pc, st)

\* What a step of a running response has to keep.
LEMMA GoesOn ==
  ASSUME DInv, pc # "idle", pc' # "idle", UNCHANGED <<items, base, kept>>,
         st' \in States, Marked(st'), Turns(pc', st'), draft'.id \in Nat, next' \in Nat \ {0}
  PROVE  DInv'
<1>1. Types'
  BY DEF DInv, Types
<1>2. Marked(st)' /\ Turns(pc, st)'
  OBVIOUS
<1>3. After(items)' = After(items)
  OBVIOUS
<1>4. Marked(After(items))'
  <2>1. Marked(After(items))
    BY DEF DInv
  <2> QED  BY <1>3, <2>1
<1>5. Brought'
  <2>1. ~Stopped(After(items)) /\ Side(After(items)) = Side(base)
    BY DEF DInv, Brought
  <2> QED  BY <1>3, <2>1 DEF Brought
<1> QED  BY <1>1, <1>2, <1>4, <1>5 DEF DInv

\* A response starts from the state it was brought.
LEMMA StateOfBase ==
  ASSUME NEW b \in Bases PROVE StateOf(b) \in States /\ Side(StateOf(b)) = Side(b)
BY DEF Bases, States, StateOf, Side

\* Nothing has no phase.
LEMMA NothingMarked == After(<<>>) = Fresh /\ Marked(Fresh) /\ Fresh.adv \in Seq(AdvMsgs)
<1>1. <<>> \in Seq(Items) /\ Len(<<>>) = 0
  OBVIOUS
<1> PICK in \in Seq(Items) : in = <<>> /\ Len(in) = 0
  BY <1>1
<1>2. \E f \in [0..Len(in) -> Replays] :
        /\ f[0] = Fresh /\ f[Len(in)] = After(in)
        /\ \A i \in 1..Len(in) : f[i] = Step(f[i - 1], in[i])
  BY AfterUnroll
<1>3. After(in) = Fresh
  BY <1>2
<1>4. Fresh.adv = <<>> /\ Fresh.enabled = FALSE /\ Fresh.blocked = FALSE
  BY DEF Fresh
<1>5. PhaseMarks(<<>>) = {}
  BY DEF PhaseMarks
<1>6. <<>> \in Seq(AdvMsgs)
  OBVIOUS
<1> QED  BY <1>3, <1>4, <1>5, <1>6 DEF Marked

\* It holds at first.
LEMMA DInit == Init => DInv
<1> SUFFICES ASSUME Init PROVE DInv
  OBVIOUS
<1> PICK start \in Starts : items = start.history /\ next = start.first
  BY DEF Init
<1>1. items \in Seq(PlainItems) /\ next \in Nat \ {0}
  <2> PICK first \in Nat \ {0} : first = start.first
    BY DialogueAssumption
  <2>1. \A x \in Foreign(1 .. first - 1) : x \in PlainItems
    BY DEF Foreign, PlainItems, Threads
  <2> PICK T : T = Foreign(1 .. first - 1)
    OBVIOUS
  <2>2. start.history \in Seq(T)
    BY DialogueAssumption
  <2> QED  BY <2>1, <2>2
<1> PICK in \in Seq(PlainItems) : in = items
  BY <1>1
<1>2. <<>> \in Seq(Items) /\ <<>> \o in = in
  OBVIOUS
<1>3. in \in Seq(Items) /\ After(in) \in Replays /\ Extends(Fresh, After(in))
  BY <1>2, AfterPlain, NothingMarked
<1>4. Marked(After(in))
  <2>1. After(in).adv \in Seq(AdvMsgs)
    BY <1>3 DEF Replays
  <2> QED  BY <1>3, <2>1, NothingMarked, MarkedExtends
<1>5. \A i \in DOMAIN in : Readable(in[i])
  <2>1. \A x \in PlainItems : Readable(x)
    BY DEF PlainItems, Readable
  <2>2. \A i \in DOMAIN in : in[i] \in PlainItems
    OBVIOUS
  <2> QED  BY <2>1, <2>2
<1> PICK b \in Bases : b = Ingested(in) /\ Side(b) = Side(After(in))
  BY <1>3, <1>5, OutcomeType
<1> PICK s \in States : s = StateOf(b) /\ Side(s) = Side(After(in))
  BY StateOfBase
<1>6. items = in /\ pc = "idle" /\ st = s /\ base = b /\ kept = s /\ draft = NoDraft
  BY DEF Init
<1>7. Types
  <2>1. draft.id = 0
    BY <1>6 DEF NoDraft
  <2> QED  BY <1>1, <1>3, <1>6, <2>1 DEF Types
<1>8. Marked(st)
  BY <1>4, <1>6, MarkedSide
<1>9. Brought
  BY <1>6 DEF Brought
<1>10. Turns(pc, st)
  BY <1>6 DEF Turns
<1> QED  BY <1>4, <1>6, <1>7, <1>8, <1>9, <1>10 DEF DInv

\* A request is accepted when nothing is wrong with its items.
Accepted(b) == b.err = ""

\* What a request brings is typed, and is the replay of its items once accepted.
LEMMA Accepts ==
  ASSUME NEW in \in Seq(Items)
  PROVE  /\ Ingested(in) \in Bases /\ After(in) \in Replays
         /\ Side(Ingested(in)) = Side(After(in)) \/ Side(Ingested(in)) = Side(Fresh)
         /\ Accepted(Ingested(in)) =>
              ~Stopped(After(in)) /\ Side(Ingested(in)) = Side(After(in))
<1>1. Accepted(Ingested(in)) => Ingested(in).err = ""
  BY DEF Accepted
<1>2. Refusal(After(in)) = "" => ~Stopped(After(in))
  BY DEF Stopped
<1>3. Accepted(Ingested(in)) => Refusal(After(in)) = "" /\ Side(Ingested(in)) = Side(After(in))
  BY <1>1, OutcomeType
<1>4. Ingested(in) \in Bases /\ After(in) \in Replays
  BY OutcomeType
<1>5. Side(Ingested(in)) = Side(After(in)) \/ Side(Ingested(in)) = Side(Fresh)
  BY OutcomeType
<1> QED  BY <1>2, <1>3, <1>4, <1>5

\* A request.
LEMMA DRequest == ASSUME DInv, Request PROVE DInv'
<1>1. Types /\ Marked(After(items))
  BY DEF DInv
<1>2. items \in Seq(Items) /\ next \in Nat \ {0}
  BY <1>1 DEF Types
<1>3. PICK new \in Additions :
        /\ items' = items \o new
        /\ alarm' = Ingested(items \o new).err /\ base' = Ingested(items \o new)
        /\ st' = StateOf(Ingested(items \o new))
        /\ pc' = IF Ingested(items \o new).err # "" THEN "idle"
                 ELSE IF Ingested(items \o new).ck THEN "user" ELSE "loop"
  BY DEF Request
<1>4. new \in Seq(PlainItems)
  BY <1>2, AdditionsType
<1> PICK more \in Seq(Items) :
      more = items \o new /\ After(more) \in Replays /\ Extends(After(items), After(more))
  <2>1. /\ items \o new \in Seq(Items) /\ After(items \o new) \in Replays
        /\ Extends(After(items), After(items \o new))
    BY <1>2, <1>4, AfterPlain
  <2> QED  BY <2>1
<1> PICK in \in Bases : in = Ingested(more)
  <2>1. Ingested(more) \in Bases
    BY Accepts
  <2> QED  BY <2>1
<1>5. /\ Side(in) = Side(After(more)) \/ Side(in) = Side(Fresh)
      /\ Accepted(in) => ~Stopped(After(more)) /\ Side(in) = Side(After(more))
  BY Accepts
<1>6. Marked(After(more)) /\ Marked(in)
  <2>1. After(items).adv \in Seq(AdvMsgs) /\ After(more).adv \in Seq(AdvMsgs)
    <3>1. After(items) \in Replays
      BY <1>2, Accepts
    <3> QED  BY <3>1 DEF Replays
  <2>2. Marked(After(more))
    BY <1>1, <2>1, MarkedExtends
  <2> QED  BY <1>5, <2>2, MarkedSide, NothingMarked
<1> PICK s \in States : s = StateOf(in) /\ Side(s) = Side(in)
  BY StateOfBase
<1>7. items' = more /\ base' = in /\ st' = s /\ kept' = kept /\ draft' = draft
  BY <1>3 DEF Request
<1>8. /\ Accepted(in) => pc' \in {"user", "loop"}
      /\ ~Accepted(in) => pc' = "idle" /\ ~Calm'
  <2>1. alarm' = in.err /\ pc' = IF in.err # "" THEN "idle" ELSE IF in.ck THEN "user" ELSE "loop"
    BY <1>3
  <2> QED  BY <2>1 DEF Accepted, Calm
<1>9. next' \in Nat \ {0}
  <2>1. Len(Unanswered) \in Nat
    <3>1. \E I : Unanswered = Among(items, I)
      BY DEF Unanswered, Where
    <3>2. Unanswered \in Seq(Items)
      BY <1>2, <3>1, AmongKeeps
    <3> QED  BY <3>2
  <2>2. next' = next + Len(Unanswered) + 1
    BY DEF Request
  <2> QED  BY <1>2, <2>1, <2>2
<1>10. Types'
  BY <1>1, <1>7, <1>9 DEF Types
<1>11. Marked(st)' /\ Marked(After(items))'
  <2>1. Marked(s)
    BY <1>6, MarkedSide
  <2>2. After(items)' = After(more)
    BY <1>7
  <2> QED  BY <1>6, <1>7, <2>1, <2>2
<1>12. Brought'
  <2>1. After(items)' = After(more) /\ base' = in
    BY <1>7
  <2>2. CASE Accepted(in)
    <3>1. pc' # "idle"
      BY <1>8, <2>2
    <3>2. ~Stopped(After(items)') /\ Side(After(items)') = Side(base')
      BY <1>5, <2>1, <2>2
    <3> QED  BY <3>1, <3>2 DEF Brought
  <2>3. CASE ~Accepted(in)
    <3>1. pc' = "idle" /\ ~Calm'
      BY <1>8, <2>3
    <3> QED  BY <3>1 DEF Brought
  <2> QED  BY <2>2, <2>3
<1>13. Turns(pc, st)'
  BY <1>8 DEF Turns
<1> QED  BY <1>10, <1>11, <1>12, <1>13 DEF DInv

\* Where the loop goes after a review.
LEMMA ReviewOver ==
  ASSUME NEW s \in States, Marked(s)
  PROVE  AfterReview(s) \in {"turn", "commit"} /\ Turns(AfterReview(s), s)
<1>1. AfterReview(s) \in {"turn", "commit"}
  BY DEF AfterReview
<1>2. AfterReview(s) = "turn" => ~s.blocked
  BY DEF AfterReview, MainReady
<1>3. s.enabled = s.blocked
  BY DEF Marked
<1> QED  BY <1>1, <1>2, <1>3 DEF Turns

\* A user's turn.
LEMMA DUserTurn == ASSUME DInv, UserTurn PROVE DInv'
<1>1. st \in States /\ next \in Nat \ {0} /\ draft.id \in Nat /\ Marked(st)
  BY DEF DInv, Types
<1> PICK u \in States : u = WithMainUpdate(st, next)
  <2>1. WithMainUpdate(st, next) \in States
    BY <1>1, MainUpdateKeeps
  <2> QED  BY <2>1
<1>2. PhaseFinal(u, "nothing", next) \in States /\ Marked(PhaseFinal(u, "nothing", next))
  BY <1>1, PhaseEnds
<1>3. st' \in States /\ Marked(st')
  BY <1>1, <1>2 DEF UserTurn
<1>4. /\ pc # "idle" /\ pc' = "loop" /\ draft' = draft /\ next' = next + 1
      /\ UNCHANGED <<items, base, kept>>
  BY DEF UserTurn
<1>5. Turns(pc', st') /\ pc' # "idle"
  BY <1>4 DEF Turns
<1>6. next' \in Nat \ {0} /\ draft'.id \in Nat
  BY <1>1, <1>4
<1> QED  BY <1>3, <1>4, <1>5, <1>6, GoesOn

\* The loop entered.
LEMMA DResume == ASSUME DInv, Resume PROVE DInv'
<1>1. st \in States /\ next \in Nat \ {0} /\ draft.id \in Nat /\ Marked(st)
  BY DEF DInv, Types
<1>2. pc # "idle" /\ draft' = draft /\ UNCHANGED <<items, base, kept>>
  BY DEF Resume
<1>3. \/ pc' \in {"review", "commit"} /\ st' = st /\ next' = next
      \/ /\ ~st.enabled /\ pc' = "review"
         /\ st' = PhaseStarted(st, "after_tool_call", next) /\ next' = next + 2
      \/ ~st.enabled /\ pc' \in {"turn", "commit"} /\ st' = st /\ next' = next
  BY DEF Resume
<1>4. ~st.enabled => /\ PhaseStarted(st, "after_tool_call", next) \in States
                     /\ Marked(PhaseStarted(st, "after_tool_call", next))
  <2>1. "after_tool_call" \in Phases
    BY DEF Phases
  <2> QED  BY <1>1, <2>1, PhaseStarts
<1>5. st' \in States /\ Marked(st')
  BY <1>1, <1>3, <1>4
<1>6. Turns(pc', st') /\ pc' # "idle"
  BY <1>3 DEF Turns
<1>7. next' \in Nat \ {0} /\ draft'.id \in Nat
  BY <1>1, <1>2, <1>3
<1> QED  BY <1>2, <1>5, <1>6, <1>7, GoesOn

\* Messages of main's model.
LEMMA NewMessages ==
  ASSUME NEW n \in Nat \ {0}
  PROVE  /\ \A text \in BOOLEAN, thoughts \in BOOLEAN :
              Assistant(n, text, thoughts, <<>>, {}) \in Msgs
         /\ \A text \in BOOLEAN, mem \in SUBSET Int :
              /\ Assistant(n, text, TRUE, <<n + 1>>, mem) \in Msgs
              /\ Assistant(n, text, TRUE, <<n + 1, n + 2>>, mem) \in Msgs
         /\ \A m \in Msgs : WithoutArguments(m) \in Msgs /\ WithoutArguments(m).calls = m.calls
<1>1. <<>> \in Seq(Int) /\ <<n + 1>> \in Seq(Int) /\ <<n + 1, n + 2>> \in Seq(Int) /\ {} \in SUBSET Int
  OBVIOUS
<1>2. \A m \in Msgs : WithoutArguments(m) \in Msgs /\ WithoutArguments(m).calls = m.calls
  BY DEF WithoutArguments, Msgs
<1>3. n \in Int
  OBVIOUS
<1>4. ASSUME NEW text \in BOOLEAN, NEW thoughts \in BOOLEAN, NEW calls \in Seq(Int),
             NEW mem \in SUBSET Int
      PROVE  Assistant(n, text, thoughts, calls, mem) \in Msgs
  BY <1>3, AssistantType
<1>5. TRUE \in BOOLEAN
  OBVIOUS
<1> QED  BY <1>1, <1>2, <1>4, <1>5

\* Some of a result.
LEMMA DStreamPart == ASSUME DInv, StreamPart PROVE DInv'
<1>1. st \in States /\ next \in Nat \ {0} /\ draft.id \in Nat /\ Marked(st) /\ Turns(pc, st)
  BY DEF DInv, Types
<1>2. PICK m \in Partials : st' = [st EXCEPT !.main = Append(@, m)]
  BY DEF StreamPart
<1>3. m \in Msgs
  <2>1. FALSE \in BOOLEAN /\ TRUE \in BOOLEAN /\ {} \in SUBSET Int
    OBVIOUS
  <2>2. Assistant(next, FALSE, TRUE, <<>>, {}) \in Msgs
    BY <1>1, <2>1, NewMessages
  <2>3. Assistant(next, TRUE, TRUE, <<next + 1>>, {}) \in Msgs
    BY <1>1, <2>1, NewMessages
  <2>4. WithoutArguments(Assistant(next, TRUE, TRUE, <<next + 1>>, {})) \in Msgs
    BY <1>1, <2>3, NewMessages
  <2> QED  BY <2>2, <2>3, <2>4 DEF Partials
<1>4. /\ pc # "idle" /\ pc = "turn" /\ pc' = "stream" /\ draft' = draft /\ next' = next + 3
      /\ UNCHANGED <<items, base, kept>>
  BY DEF StreamPart
<1> PICK main \in Seq(Msgs) : main = Append(st.main, m)
  <2>1. st.main \in Seq(Msgs)
    BY <1>1 DEF States
  <2>2. Append(st.main, m) \in Seq(Msgs)
    BY <1>3, <2>1
  <2> QED  BY <2>2
<1>5. st' = [st EXCEPT !.main = main]
  BY <1>2
<1>6. /\ st' \in States /\ st'.adv = st.adv /\ st'.enabled = st.enabled
      /\ st'.blocked = st.blocked
  BY <1>1, <1>5 DEF States
<1>7. Marked(st') /\ ~st.enabled
  BY <1>1, <1>4, <1>6 DEF Marked, Turns
<1>8. Turns(pc', st') /\ pc' # "idle"
  BY <1>4, <1>6, <1>7 DEF Turns
<1>9. next' \in Nat \ {0} /\ draft'.id \in Nat
  BY <1>1, <1>4
<1> QED  BY <1>4, <1>6, <1>7, <1>8, <1>9, GoesOn

\* The id of a draft.
LEMMA DraftIds ==
  ASSUME draft.id \in Nat, next \in Nat \ {0}, NEW s
  PROVE  DraftId \in Nat \ {0} /\ Saved(s).id \in Nat /\ Ensured(s).id \in Nat
<1>1. DraftId \in Nat \ {0}
  BY DEF DraftId
<1>2. DraftOf(s).id = DraftId /\ NoDraft.id = 0
  BY DEF DraftOf, DraftAt, NoDraft
<1>3. Saved(s).id \in Nat
  BY <1>1, <1>2 DEF Saved, Worth
<1>4. Ensured(s).id \in Nat
  BY <1>3 DEF Ensured
<1> QED  BY <1>1, <1>3, <1>4

\* A draft saved while the model streams.
LEMMA DSaveProgress == ASSUME DInv, SaveProgress PROVE DInv'
<1>1. st \in States /\ next \in Nat \ {0} /\ draft.id \in Nat /\ Marked(st) /\ Turns(pc, st)
  BY DEF DInv, Types
<1>2. /\ pc # "idle" /\ pc' = pc /\ st' = st /\ draft' = Saved(st) /\ next' = next + 1
      /\ UNCHANGED <<items, base, kept>>
  BY DEF SaveProgress
<1>3. st' \in States /\ Marked(st') /\ Turns(pc', st') /\ pc' # "idle"
  BY <1>1, <1>2
<1>4. Saved(st).id \in Nat
  BY <1>1, DraftIds
<1>5. next' \in Nat \ {0} /\ draft'.id \in Nat
  BY <1>1, <1>2, <1>4
<1> QED  BY <1>2, <1>3, <1>5, GoesOn

\* What was in main before the result under way.
LEMMA SettledType == ASSUME st \in States PROVE Settled \in Seq(Msgs)
<1>1. st.main \in Seq(Msgs)
  BY DEF States
<1> PICK n \in Nat : n = Len(st.main)
  BY <1>1
<1>2. 1 \in Int /\ n - 1 \in Int /\ 1 <= 1 /\ n - 1 <= Len(st.main)
  OBVIOUS
<1>3. Front(st.main) \in Seq(Msgs)
  <2>1. SubSeq(st.main, 1, n - 1) \in Seq(Msgs)
    BY <1>1, <1>2, Part
  <2> QED  BY <2>1 DEF Front
<1> QED  BY <1>1, <1>3 DEF Settled

\* Few elements.
LEMMA Three ==
  ASSUME NEW T, NEW a \in T, NEW b \in T, NEW c \in T
  PROVE  <<a, b, c>> \in Seq(T) /\ <<a, b>> \in Seq(T) /\ <<a>> \in Seq(T) /\ <<>> \in Seq(T)
OBVIOUS

\* A result refused.
LEMMA DRetry == ASSUME DInv, Retry PROVE DInv'
<1>1. st \in States /\ next \in Nat \ {0} /\ draft.id \in Nat /\ Marked(st) /\ Turns(pc, st)
  BY DEF DInv, Types
<1> PICK m \in Msgs : m = Assistant(next, FALSE, TRUE, <<next + 1>>, {})
  <2>1. FALSE \in BOOLEAN /\ {} \in SUBSET Int
    OBVIOUS
  <2>2. Assistant(next, FALSE, TRUE, <<next + 1>>, {}) \in Msgs
    BY <1>1, <2>1, NewMessages
  <2> QED  BY <2>2
<1> PICK n \in Msgs : n = WithoutArguments(m) /\ n.calls = m.calls
  BY <1>1, NewMessages
<1>2. PICK left : /\ left \in {Attempted(m, next + 2), Attempted(n, next + 2), <<>>}
                  /\ st' = [st EXCEPT !.main = Settled \o left]
  BY DEF Retry
<1>3. left \in Seq(Msgs)
  <2>1. m.calls[1] = next + 1 /\ n.calls[1] = next + 1
    <3>1. m.calls = <<next + 1>> /\ n.calls = <<next + 1>>
      BY DEF Assistant
    <3>2. ASSUME NEW calls, calls = <<next + 1>> PROVE calls[1] = next + 1
      BY <3>2
    <3> QED  BY <3>1, <3>2
  <2>2. Output(next + 1, Placeholder, {}) \in Msgs
    BY <1>1, OutputType DEF Placeholder
  <2>3. User(next + 2) \in Msgs
    BY <1>1 DEF User, Note, Msgs, Roles
  <2> PICK o \in Msgs, u \in Msgs : o = Output(next + 1, Placeholder, {}) /\ u = User(next + 2)
    BY <2>2, <2>3
  <2>4. Attempted(m, next + 2) = <<m, o, u>> /\ Attempted(n, next + 2) = <<n, o, u>>
    BY <2>1 DEF Attempted
  <2>5. <<m, o, u>> \in Seq(Msgs) /\ <<n, o, u>> \in Seq(Msgs) /\ <<>> \in Seq(Msgs)
    BY Three
  <2> QED  BY <1>2, <2>4, <2>5
<1> PICK main \in Seq(Msgs) : main = Settled \o left
  <2>1. Settled \in Seq(Msgs)
    BY <1>1, SettledType
  <2>2. Settled \o left \in Seq(Msgs)
    BY <1>3, <2>1
  <2> QED  BY <2>2
<1>4. st' = [st EXCEPT !.main = main]
  BY <1>2
<1>5. /\ pc # "idle" /\ pc \in {"turn", "stream"} /\ pc' = "turn" /\ draft' = draft
      /\ next' = next + 3 /\ UNCHANGED <<items, base, kept>>
  BY DEF Retry
<1>6. /\ st' \in States /\ st'.adv = st.adv /\ st'.enabled = st.enabled
      /\ st'.blocked = st.blocked
  BY <1>1, <1>4 DEF States
<1>7. Marked(st') /\ ~st.enabled
  BY <1>1, <1>5, <1>6 DEF Marked, Turns
<1>8. Turns(pc', st') /\ pc' # "idle"
  BY <1>5, <1>6, <1>7 DEF Turns
<1>9. next' \in Nat \ {0} /\ draft'.id \in Nat
  BY <1>1, <1>5
<1> QED  BY <1>5, <1>6, <1>7, <1>8, <1>9, GoesOn

\* What follows a turn.
LEMMA TurnFollowed ==
  ASSUME NEW s \in States, Marked(s), ~s.enabled, NEW r, NEW id \in Int, TurnDone(r, s, id)
  PROVE  st' \in States /\ Marked(st') /\ Turns(pc', st') /\ pc' # "idle"
<1> PICK phase : phase = Reviewed(r, s)
  OBVIOUS
<1>1. phase \in Phases
  BY DEF Reviewed, Phases
<1>2. CASE phase = "none"
  <2>1. st' = s /\ pc' = AfterReview(s)
    BY <1>2 DEF TurnDone
  <2>2. AfterReview(s) \in {"turn", "commit"} /\ Turns(AfterReview(s), s)
    BY ReviewOver
  <2> QED  BY <2>1, <2>2
<1>3. CASE phase # "none"
  <2>1. st' = PhaseStarted(s, phase, id) /\ pc' = "review"
    BY <1>3 DEF TurnDone
  <2>2. st' \in States /\ Marked(st')
    BY <1>1, <1>3, <2>1, PhaseStarts
  <2> QED  BY <2>1, <2>2 DEF Turns
<1> QED  BY <1>2, <1>3

\* What a result makes of the state.
LEMMA ResultTurn ==
  ASSUME st \in States, next \in Nat \ {0}, Result
  PROVE  \E s \in States :
           /\ s.adv = st.adv /\ s.enabled = st.enabled /\ s.blocked = st.blocked /\ s.main # <<>>
           /\ (\E r : TurnDone(r, s, next + 3)) \/ (st' = s /\ pc' = "tools")
<1>4. PICK r \in Results :
        LET s == [st EXCEPT !.main = Append(Settled, r.m)]
        IN  \/ TurnDone(r, s, next + 3)
            \/ st' = s /\ pc' = "tools"
  BY DEF Result
<1>5. r.m \in Msgs
  <2>1. FALSE \in BOOLEAN /\ TRUE \in BOOLEAN /\ {} \in SUBSET Int /\ {next + 1} \in SUBSET Int
    OBVIOUS
  <2>2. \A text \in BOOLEAN, thoughts \in BOOLEAN :
          Assistant(next, text, thoughts, <<>>, {}) \in Msgs
    BY NewMessages
  <2>3. \A text \in BOOLEAN, mem \in SUBSET Int :
          /\ Assistant(next, text, TRUE, <<next + 1>>, mem) \in Msgs
          /\ Assistant(next, text, TRUE, <<next + 1, next + 2>>, mem) \in Msgs
    BY NewMessages
  <2>4. CASE \E m \in {Assistant(next, TRUE, FALSE, <<>>, {}), Assistant(next, TRUE, TRUE, <<>>, {})} :
               r = [m |-> m, finish |-> "stop"]
    <3> PICK m : /\ m \in {Assistant(next, TRUE, FALSE, <<>>, {}), Assistant(next, TRUE, TRUE, <<>>, {})}
                 /\ r = [m |-> m, finish |-> "stop"]
      BY <2>4
    <3>1. m \in Msgs
      BY <2>1, <2>2
    <3> QED  BY <3>1
  <2>5. CASE \E text \in BOOLEAN :
               r = [m |-> Assistant(next, text, TRUE, <<>>, {}), finish |-> "length"]
    <3> PICK text \in BOOLEAN : r = [m |-> Assistant(next, text, TRUE, <<>>, {}), finish |-> "length"]
      BY <2>5
    <3>1. Assistant(next, text, TRUE, <<>>, {}) \in Msgs
      BY <2>1, <2>2
    <3> QED  BY <3>1
  <2>6. CASE \E m \in {Assistant(next, FALSE, TRUE, <<next + 1>>, {}),
                        Assistant(next, TRUE, TRUE, <<next + 1>>, {}),
                        Assistant(next, FALSE, TRUE, <<next + 1>>, {next + 1}),
                        Assistant(next, TRUE, TRUE, <<next + 1, next + 2>>, {next + 1})} :
               r = [m |-> m, finish |-> "tool_calls"]
    <3> PICK m : /\ m \in {Assistant(next, FALSE, TRUE, <<next + 1>>, {}),
                           Assistant(next, TRUE, TRUE, <<next + 1>>, {}),
                           Assistant(next, FALSE, TRUE, <<next + 1>>, {next + 1}),
                           Assistant(next, TRUE, TRUE, <<next + 1, next + 2>>, {next + 1})}
                 /\ r = [m |-> m, finish |-> "tool_calls"]
      BY <2>6
    <3>1. m \in Msgs
      BY <2>1, <2>3
    <3> QED  BY <3>1
  <2> QED  BY <2>4, <2>5, <2>6 DEF Results
<1> PICK main \in Seq(Msgs) : main = Append(Settled, r.m) /\ main # <<>>
  <2> PICK before \in Seq(Msgs) : before = Settled
    BY SettledType
  <2> PICK m \in Msgs : m = r.m
    BY <1>5
  <2>1. Append(before, m) \in Seq(Msgs) /\ Append(before, m) # <<>>
    OBVIOUS
  <2> QED  BY <2>1
<1> PICK s : s = [st EXCEPT !.main = main]
  OBVIOUS
<1>9. /\ s \in States /\ s.adv = st.adv /\ s.enabled = st.enabled
      /\ s.blocked = st.blocked /\ s.main # <<>>
  BY DEF States
<1>6. TurnDone(r, s, next + 3) \/ (st' = s /\ pc' = "tools")
  BY <1>4
<1> QED  BY <1>6, <1>9

\* A result.
LEMMA DResult == ASSUME DInv, Result PROVE DInv'
<1>1. st \in States /\ next \in Nat \ {0} /\ draft.id \in Nat /\ Marked(st) /\ Turns(pc, st)
  BY DEF DInv, Types
<1>2. /\ pc # "idle" /\ pc \in {"turn", "stream"} /\ draft' = draft
      /\ next' = next + 5 /\ UNCHANGED <<items, base, kept>>
  BY DEF Result
<1>3. ~st.enabled
  BY <1>1, <1>2 DEF Turns
<1>4. PICK s \in States :
        /\ s.adv = st.adv /\ s.enabled = st.enabled /\ s.blocked = st.blocked /\ s.main # <<>>
        /\ (\E r : TurnDone(r, s, next + 3)) \/ (st' = s /\ pc' = "tools")
  BY <1>1, ResultTurn
<1>9. Marked(s) /\ ~s.enabled
  BY <1>1, <1>3, <1>4 DEF Marked
<1>7. st' \in States /\ Marked(st') /\ Turns(pc', st') /\ pc' # "idle"
  <2>1. CASE \E r : TurnDone(r, s, next + 3)
    <3>1. next + 3 \in Int
      BY <1>1
    <3> QED  BY <1>9, <2>1, <3>1, TurnFollowed
  <2>2. CASE st' = s /\ pc' = "tools"
    BY <1>4, <1>9, <2>2 DEF Turns
  <2> QED  BY <1>4, <2>1, <2>2
<1>8. next' \in Nat \ {0} /\ draft'.id \in Nat
  BY <1>1, <1>2
<1> QED  BY <1>2, <1>7, <1>8, GoesOn

\* A function on an interval is a sequence.
LEMMA IsSequence == ASSUME NEW T, NEW n \in Nat, NEW f \in [1..n -> T] PROVE f \in Seq(T)
OBVIOUS

\* Outputs of the server's tools.
LEMMA OutputsType ==
  ASSUME NEW mine \in Seq(Int), NEW id \in Nat
  PROVE  [i \in DOMAIN mine |-> Output(mine[i], id, {mine[i]})] \in Seq(Msgs)
<1> PICK n \in Nat : n = Len(mine)
  OBVIOUS
<1> PICK f : f = [i \in 1..n |-> Output(mine[i], id, {mine[i]})]
  OBVIOUS
<1>1. \A c \in Int : Output(c, id, {c}) \in Msgs
  <2> TAKE c \in Int
  <2>1. {c} \in SUBSET Int /\ id \in Int
    OBVIOUS
  <2> QED  BY <2>1, OutputType
<1>2. \A i \in 1..n : mine[i] \in Int
  OBVIOUS
<1>3. f \in [1..n -> Msgs]
  BY <1>1, <1>2
<1>4. f \in Seq(Msgs)
  BY <1>3, IsSequence
<1>5. DOMAIN mine = 1..n
  OBVIOUS
<1> QED  BY <1>4, <1>5

\* What the server's tools make of the state.
LEMMA ToolsTurn ==
  ASSUME st \in States, next \in Nat \ {0}, st.main # <<>>, ServerTools
  PROVE  \E s \in States :
           /\ s.adv = st.adv /\ s.enabled = st.enabled /\ s.blocked = st.blocked
           /\ \E r : TurnDone(r, s, next + 1)
<1>4. st.main \in Seq(Msgs) /\ st.memory + 1 \in Int
  BY DEF States
<1> PICK m \in Msgs : m = Last(st.main)
  <2>1. Last(st.main) \in Msgs
    BY <1>4 DEF Last
  <2> QED  BY <2>1
<1>5. ServerOutputs(m, m.mem, next) \in Seq(Msgs)
  <2>1. m.calls \in Seq(Int)
    BY DEF Msgs
  <2>2. \E I : ServerOutputs(m, m.mem, next)
               = [i \in DOMAIN Among(m.calls, I) |->
                    Output(Among(m.calls, I)[i], next, {Among(m.calls, I)[i]})]
    BY DEF ServerOutputs, Where
  <2>3. PICK I : ServerOutputs(m, m.mem, next)
                   = [i \in DOMAIN Among(m.calls, I) |->
                        Output(Among(m.calls, I)[i], next, {Among(m.calls, I)[i]})]
    BY <2>2
  <2>4. Among(m.calls, I) \in Seq(Int)
    BY <2>1, AmongKeeps
  <2> QED  BY <2>3, <2>4, OutputsType
<1> PICK main \in Seq(Msgs) : main = st.main \o ServerOutputs(m, m.mem, next)
  <2>1. st.main \o ServerOutputs(m, m.mem, next) \in Seq(Msgs)
    BY <1>4, <1>5
  <2> QED  BY <2>1
<1> PICK s : s = [st EXCEPT !.main = main, !.memory = st.memory + 1]
  OBVIOUS
<1>9. s \in States /\ s.adv = st.adv /\ s.enabled = st.enabled /\ s.blocked = st.blocked
  BY <1>4 DEF States
<1>6. TurnDone([finish |-> "tool_calls"], s, next + 1)
  BY DEF ServerTools
<1> QED  BY <1>6, <1>9

\* The server's tools.
LEMMA DServerTools == ASSUME DInv, ServerTools PROVE DInv'
<1>1. st \in States /\ next \in Nat \ {0} /\ draft.id \in Nat /\ Marked(st) /\ Turns(pc, st)
  BY DEF DInv, Types
<1>2. /\ pc # "idle" /\ pc = "tools" /\ draft' = draft
      /\ next' = next + 3 /\ UNCHANGED <<items, base, kept>>
  BY DEF ServerTools
<1>3. ~st.enabled /\ st.main # <<>>
  BY <1>1, <1>2 DEF Turns
<1>4. PICK s \in States :
        /\ s.adv = st.adv /\ s.enabled = st.enabled /\ s.blocked = st.blocked
        /\ \E r : TurnDone(r, s, next + 1)
  BY <1>1, <1>3, ToolsTurn
<1>9. Marked(s) /\ ~s.enabled
  BY <1>1, <1>3, <1>4 DEF Marked
<1>7. st' \in States /\ Marked(st') /\ Turns(pc', st') /\ pc' # "idle"
  <2>1. next + 1 \in Int
    BY <1>1
  <2> QED  BY <1>4, <1>9, <2>1, TurnFollowed
<1>8. next' \in Nat \ {0} /\ draft'.id \in Nat
  BY <1>1, <1>2
<1> QED  BY <1>2, <1>7, <1>8, GoesOn

\* The budget exhausted in main's turn.
LEMMA DExhausted == ASSUME DInv, Exhausted PROVE DInv'
<1>1. st \in States /\ next \in Nat \ {0} /\ draft.id \in Nat /\ Marked(st)
  BY DEF DInv, Types
<1>2. /\ pc # "idle" /\ pc' # "idle" /\ pc' = "commit" /\ st' = st /\ draft' = draft
      /\ next' = next /\ UNCHANGED <<items, base, kept>>
  BY DEF Exhausted
<1>3. st' \in States /\ Marked(st') /\ Turns(pc', st')
  BY <1>1, <1>2 DEF Turns
<1>4. next' \in Nat \ {0} /\ draft'.id \in Nat
  BY <1>1, <1>2
<1> QED  BY <1>2, <1>3, <1>4, GoesOn

\* The advisor's turns, refused or not.
LEMMA AdvTurnType ==
  ASSUME NEW id \in Int, NEW calls \in Seq(Int)
  PROVE  /\ AdvTurn(id, calls) \in AdvTurns /\ WithoutArguments(AdvTurn(id, calls)) \in AdvTurns
         /\ AdvTurn(id, calls).calls = calls
         /\ WithoutArguments(AdvTurn(id, calls)).calls = calls
BY DEF AdvTurn, AdvTurns, WithoutArguments

\* The attempts that the advisor saw before are typed, and carry no mark.
LEMMA AttemptsType ==
  ASSUME next \in Nat \ {0}, NEW before \in Attempts
  PROVE  before \in Seq(AdvMsgs) /\ \A i \in 1..Len(before) : ~IsMark(before[i])
<1> DEFINE Plainly == {m \in AdvMsgs : ~IsMark(m)}
<1> PICK calls \in Seq(Int) : calls = <<next + 1>> /\ calls[1] = next + 1
  <2>1. next + 1 \in Int
    OBVIOUS
  <2>2. <<next + 1>> \in Seq(Int)
    BY <2>1, Three
  <2>3. ASSUME NEW calls, calls = <<next + 1>> PROVE calls[1] = next + 1
    BY <2>3
  <2> QED  BY <2>2, <2>3
<1> PICK t \in AdvTurns, u \in AdvTurns :
      /\ t = AdvTurn(next, calls) /\ u = WithoutArguments(t)
      /\ t.calls[1] = next + 1 /\ u.calls[1] = next + 1
  <2>1. next \in Int
    OBVIOUS
  <2>2. /\ AdvTurn(next, calls) \in AdvTurns /\ WithoutArguments(AdvTurn(next, calls)) \in AdvTurns
        /\ AdvTurn(next, calls).calls = calls
        /\ WithoutArguments(AdvTurn(next, calls)).calls = calls
    BY <2>1, AdvTurnType
  <2> QED  BY <2>2
<1>1. t \in Plainly /\ u \in Plainly
  BY NoMarks DEF AdvMsgs
<1>2. Output(next + 1, Placeholder, {}) \in Plainly
  <2>1. next + 1 \in Int /\ Placeholder \in Int /\ {} \in SUBSET Int
    BY DEF Placeholder
  <2>2. Output(next + 1, Placeholder, {}) \in AdvOutputs
    BY <2>1, OutputType
  <2> QED  BY <2>2, NoMarks DEF AdvMsgs
<1>3. AdvNote(next + 2, "none", <<>>, {}) \in Plainly
  <2>1. <<>> \in Seq(Msgs) /\ {} \in SUBSET ((Roles \cup {"tool"}) \X Int \X Int) /\ next + 2 \in Int
    OBVIOUS
  <2>2. "none" \in Phases
    BY DEF Phases
  <2>3. /\ AdvNote(next + 2, "none", <<>>, {}) \in AdvMsgs
        /\ ~IsMark(AdvNote(next + 2, "none", <<>>, {}))
    BY <2>1, <2>2, NoteType
  <2> QED  BY <2>3
<1> HIDE DEF Plainly
<1> PICK o \in Plainly, n \in Plainly :
      o = Output(next + 1, Placeholder, {}) /\ n = AdvNote(next + 2, "none", <<>>, {})
  BY <1>2, <1>3
<1>4. Refused(t, next + 2) = <<t, o, n>> /\ Refused(u, next + 2) = <<u, o, n>>
  BY DEF Refused
<1>5. before \in {<<>>, Refused(t, next + 2), Refused(u, next + 2)}
  BY DEF Attempts
<1>6. <<t, o, n>> \in Seq(Plainly) /\ <<u, o, n>> \in Seq(Plainly) /\ <<>> \in Seq(Plainly)
  BY <1>1, Three
<1>7. before \in Seq(Plainly)
  BY <1>4, <1>5, <1>6
<1>8. \A i \in 1..Len(before) : before[i] \in Plainly
  BY <1>7
<1>9. before \in Seq(AdvMsgs)
  <2>1. \A m \in Plainly : m \in AdvMsgs
    BY DEF Plainly
  <2> QED  BY <1>7, <2>1
<1> QED  BY <1>8, <1>9 DEF Plainly

\* What an attempt and the turn after it add.
LEMMA TurnAdds ==
  ASSUME st \in States, next \in Nat \ {0}, NEW before \in Attempts, NEW calls \in Seq(Int),
         NEW out \in Seq(AdvOutputs)
  PROVE  /\ st.adv \o before \o (<<AdvTurn(next + 3, calls)>> \o out) \in Seq(AdvMsgs)
         /\ PhaseMarks(st.adv \o before \o (<<AdvTurn(next + 3, calls)>> \o out))
              = PhaseMarks(st.adv)
<1>1. st.adv \in Seq(AdvMsgs)
  BY DEF States
<1>2. before \in Seq(AdvMsgs) /\ \A i \in 1..Len(before) : ~IsMark(before[i])
  BY AttemptsType
<1> PICK mid \in Seq(AdvMsgs) : mid = st.adv \o before /\ PhaseMarks(mid) = PhaseMarks(st.adv)
  <2>1. st.adv \o before \in Seq(AdvMsgs) /\ PhaseMarks(st.adv \o before) = PhaseMarks(st.adv)
    BY <1>1, <1>2, MarksAfter
  <2> QED  BY <2>1
<1> DEFINE Plainly == {m \in AdvMsgs : ~IsMark(m)}
<1>3. AdvTurn(next + 3, calls) \in Plainly
  <2>1. AdvTurn(next + 3, calls) \in AdvTurns
    BY AdvTurnType
  <2> QED  BY <2>1, NoMarks DEF AdvMsgs
<1>4. \A m \in AdvOutputs : m \in Plainly
  BY NoMarks DEF AdvMsgs
<1>5. \A m \in Plainly : m \in AdvMsgs /\ ~IsMark(m)
  OBVIOUS
<1> HIDE DEF Plainly
<1> PICK more \in Seq(Plainly) : more = <<AdvTurn(next + 3, calls)>> \o out
  <2>1. out \in Seq(Plainly)
    BY <1>4
  <2>2. <<AdvTurn(next + 3, calls)>> \in Seq(Plainly)
    BY <1>3, Three
  <2>3. <<AdvTurn(next + 3, calls)>> \o out \in Seq(Plainly)
    BY <2>1, <2>2, <1>3, Longer
  <2> QED  BY <2>3
<1>6. more \in Seq(AdvMsgs)
  BY <1>5
<1>7. \A i \in 1..Len(more) : ~IsMark(more[i])
  BY <1>5
<1> QED  BY <1>6, <1>7, MarksAfter

\* A review concluded.
LEMMA DConcluded ==
  ASSUME DInv, pc = "review", NEW s \in States, NEW says, NEW id \in Int, Conclude(s, says, id),
         UNCHANGED <<items, base, kept>>, next' \in Nat \ {0}
  PROVE  DInv'
<1>1. next \in Nat \ {0} /\ draft.id \in Nat
  BY DEF DInv, Types
<1> PICK p \in States : p = PhaseFinal(s, says, id) /\ Marked(p)
  <2>1. PhaseFinal(s, says, id) \in States /\ Marked(PhaseFinal(s, says, id))
    BY PhaseEnds
  <2> QED  BY <2>1
<1>2. st' = p /\ pc' = AfterReview(p)
  BY DEF Conclude, ConcludedAs
<1>3. draft' = draft \/ draft' = Ensured(p)
  BY DEF Conclude, ConcludedAs, Annotated
<1>4. draft'.id \in Nat
  BY <1>1, <1>3, DraftIds
<1>5. AfterReview(p) \in {"turn", "commit"} /\ Turns(AfterReview(p), p)
  BY ReviewOver
<1>6. pc # "idle" /\ pc' # "idle" /\ Turns(pc', st') /\ st' \in States /\ Marked(st')
  BY <1>2, <1>5
<1> QED  BY <1>4, <1>6, GoesOn

\* Two elements, one after the other.
LEMMA Pair == ASSUME NEW a, NEW b PROVE <<a>> \o <<b>> = <<a, b>>
<1> PICK T : T = {a, b}
  OBVIOUS
<1>1. a \in T /\ b \in T
  OBVIOUS
<1>2. <<a>> \in Seq(T) /\ <<a, b>> \in Seq(T)
  BY <1>1, Three
<1>3. Len(<<a, b>>) = 2 /\ <<a, b>>[1] = a /\ <<a, b>>[2] = b /\ Len(<<a>>) = 1 /\ <<a>>[1] = a
  OBVIOUS
<1> PICK s \in Seq(T), u \in Seq(T) :
      s = <<a>> /\ u = <<a, b>> /\ Len(s) = 1 /\ s[1] = a /\ Len(u) = 2 /\ u[1] = a /\ u[2] = b
  BY <1>2, <1>3
<1> PICK v \in Seq(T) : v = Append(s, b) /\ Len(v) = 2 /\ v[1] = a /\ v[2] = b
  <2>1. /\ Append(s, b) \in Seq(T) /\ Len(Append(s, b)) = 2
        /\ Append(s, b)[1] = a /\ Append(s, b)[2] = b
    BY <1>1
  <2> QED  BY <2>1
<1>4. v = u
  <2>1. \A i \in 1..Len(v) : i = 1 \/ i = 2
    OBVIOUS
  <2>2. \A i \in 1..Len(v) : v[i] = u[i]
    BY <2>1
  <2> QED  BY <2>2, SeqEqual
<1>5. s \o <<b>> = v
  BY <1>1, AppendIsConcat
<1> QED  BY <1>4, <1>5

\* The advisor advises.
LEMMA DAdvise == ASSUME DInv, Advise PROVE DInv'
<1>1. st \in States /\ next \in Nat \ {0}
  BY DEF DInv, Types
<1>2. pc = "review" /\ next' = next + 7 /\ UNCHANGED <<items, base, kept>>
  BY DEF Advise
<1>3. PICK says \in {"nothing", "note", "advice"}, before \in Attempts :
        Conclude([st EXCEPT !.adv = @ \o before \o
                    <<AdvTurn(next + 3, <<next + 4>>), Output(next + 4, Advised, {})>>],
                 says, next + 5)
  BY DEF Advise
<1> PICK calls \in Seq(Int) : calls = <<next + 4>>
  <2>1. next + 4 \in Int
    BY <1>1
  <2>2. <<next + 4>> \in Seq(Int)
    BY <2>1, Three
  <2> QED  BY <2>2
<1> PICK o \in AdvOutputs : o = Output(next + 4, Advised, {})
  <2>1. next + 4 \in Int /\ Advised \in Int /\ {} \in SUBSET Int
    BY <1>1 DEF Advised
  <2>2. Output(next + 4, Advised, {}) \in AdvOutputs
    BY <2>1, OutputType
  <2> QED  BY <2>2
<1> PICK t : t = AdvTurn(next + 3, calls)
  OBVIOUS
<1>4. <<o>> \in Seq(AdvOutputs)
  BY Three
<1>5. <<t>> \o <<o>> = <<t, o>>
  BY Pair
<1> PICK adv \in Seq(AdvMsgs) : adv = st.adv \o before \o <<t, o>>
  <2>1. st.adv \o before \o (<<t>> \o <<o>>) \in Seq(AdvMsgs)
    BY <1>1, <1>4, TurnAdds
  <2>2. st.adv \o before \o <<t, o>> \in Seq(AdvMsgs)
    BY <1>5, <2>1
  <2> QED  BY <2>2
<1> PICK s : s = [st EXCEPT !.adv = adv]
  OBVIOUS
<1>6. s \in States
  BY <1>1 DEF States
<1>7. Conclude(s, says, next + 5)
  BY <1>3
<1>8. next + 5 \in Int /\ next' \in Nat \ {0}
  BY <1>1, <1>2
<1> QED  BY <1>2, <1>6, <1>7, <1>8, DConcluded

\* The review is given up.
LEMMA DSkipReview == ASSUME DInv, SkipReview PROVE DInv'
<1>1. st \in States /\ next \in Nat \ {0} /\ next \in Int
  BY DEF DInv, Types
<1>2. pc = "review" /\ next' = next /\ UNCHANGED <<items, base, kept>>
  BY DEF SkipReview
<1>3. Conclude(st, "nothing", next)
  BY DEF SkipReview
<1>4. next' \in Nat \ {0}
  BY <1>1, <1>2
<1> QED  BY <1>1, <1>2, <1>3, <1>4, DConcluded

\* The last of a sequence.
LEMMA LastAppended ==
  ASSUME NEW T, NEW s \in Seq(T), NEW x \in T
  PROVE  s \o <<x>> \in Seq(T) /\ s \o <<x>> # <<>> /\ Last(s \o <<x>>) = x
<1>2. s \o <<x>> = Append(s, x) /\ Append(s, x) \in Seq(T)
  BY AppendIsConcat
<1>3. Len(Append(s, x)) = Len(s) + 1 /\ Append(s, x)[Len(s) + 1] = x
  OBVIOUS
<1> PICK u \in Seq(T) : u = s \o <<x>> /\ Len(u) = Len(s) + 1 /\ u[Len(s) + 1] = x
  BY <1>2, <1>3
<1>1. u # <<>> /\ Last(u) = x
  BY DEF Last
<1> QED  BY <1>1

\* The advisor calls tools.
LEMMA DExplore == ASSUME DInv, Explore PROVE DInv'
<1>1. st \in States /\ next \in Nat \ {0} /\ draft.id \in Nat /\ Marked(st)
  BY DEF DInv, Types
<1>2. /\ pc # "idle" /\ pc' \in {"commit", "side tools"} /\ draft' = draft /\ next' = next + 6
      /\ UNCHANGED <<items, base, kept>>
  BY DEF Explore
<1>11. next' \in Nat \ {0} /\ draft'.id \in Nat
  <2>1. next + 6 \in Nat \ {0}
    BY <1>1
  <2> QED  BY <1>1, <1>2, <2>1
<1>3. PICK calls \in {<<next + 4>>, <<next + 5>>, <<next + 4, next + 5>>}, before \in Attempts :
        st' = [st EXCEPT !.adv = @ \o before \o <<AdvTurn(next + 3, calls)>>]
  BY DEF Explore
<1>4. calls \in Seq(Int) /\ calls # <<>>
  <2>1. next + 4 \in Int /\ next + 5 \in Int
    BY <1>1
  <2>2. <<next + 4>> \in Seq(Int) /\ <<next + 5>> \in Seq(Int) /\ <<next + 4, next + 5>> \in Seq(Int)
    BY <2>1, Three
  <2>3. <<next + 4>> # <<>> /\ <<next + 5>> # <<>> /\ <<next + 4, next + 5>> # <<>>
    OBVIOUS
  <2> QED  BY <1>3, <2>2, <2>3
<1> PICK t \in AdvMsgs : t = AdvTurn(next + 3, calls) /\ t.calls # <<>>
  <2>1. next + 3 \in Int
    BY <1>1
  <2>2. AdvTurn(next + 3, calls) \in AdvTurns /\ AdvTurn(next + 3, calls).calls = calls
    BY <1>4, <2>1, AdvTurnType
  <2> QED  BY <1>4, <2>2 DEF AdvMsgs
<1>5. <<>> \in Seq(AdvOutputs) /\ <<t>> \o <<>> = <<t>>
  OBVIOUS
<1>6. /\ st.adv \o before \o (<<t>> \o <<>>) \in Seq(AdvMsgs)
      /\ PhaseMarks(st.adv \o before \o (<<t>> \o <<>>)) = PhaseMarks(st.adv)
  BY <1>1, <1>4, <1>5, TurnAdds
<1> PICK mid \in Seq(AdvMsgs) : mid = st.adv \o before
  <2>1. st.adv \in Seq(AdvMsgs) /\ before \in Seq(AdvMsgs)
    BY <1>1, AttemptsType DEF States
  <2>2. st.adv \o before \in Seq(AdvMsgs)
    BY <2>1
  <2> QED  BY <2>2
<1> PICK adv \in Seq(AdvMsgs) :
      /\ adv = st.adv \o before \o <<t>> /\ PhaseMarks(adv) = PhaseMarks(st.adv)
      /\ adv # <<>> /\ Last(adv) = t
  <2>1. ASSUME NEW a \in Seq(AdvMsgs), NEW b \in AdvMsgs PROVE a \o <<b>> # <<>> /\ Last(a \o <<b>>) = b
    BY LastAppended
  <2> QED  BY <1>5, <1>6, <2>1
<1>7. st' = [st EXCEPT !.adv = adv]
  BY <1>3
<1>8. /\ st' \in States /\ st'.adv = adv /\ st'.enabled = st.enabled
      /\ st'.blocked = st.blocked
  BY <1>1, <1>7 DEF States
<1>9. Marked(st')
  BY <1>1, <1>8 DEF Marked
<1>10. Turns(pc', st') /\ pc' # "idle"
  BY <1>2, <1>8 DEF Turns
<1> QED  BY <1>2, <1>8, <1>9, <1>10, <1>11, GoesOn

\* The server's tools run for the advisor.
LEMMA DSideTools == ASSUME DInv, SideTools PROVE DInv'
<1>1. st \in States /\ next \in Nat \ {0} /\ draft.id \in Nat /\ Marked(st) /\ Turns(pc, st)
  BY DEF DInv, Types
<1>2. /\ pc # "idle" /\ pc = "side tools" /\ pc' \in {"review", "commit"} /\ draft' = draft
      /\ next' = next + 1 /\ UNCHANGED <<items, base, kept>>
  BY DEF SideTools
<1>8. next' \in Nat \ {0} /\ draft'.id \in Nat
  <2>1. next + 1 \in Nat \ {0}
    BY <1>1
  <2> QED  BY <1>1, <1>2, <2>1
<1>3. /\ st.adv # <<>> /\ Last(st.adv).calls # <<>>
      /\ st.adv \in Seq(AdvMsgs) /\ st.memory + 1 \in Int
  <2>1. st.adv # <<>> /\ Last(st.adv).calls # <<>>
    BY <1>1, <1>2 DEF Turns
  <2>2. st.adv \in Seq(AdvMsgs) /\ st.memory + 1 \in Int
    BY <1>1 DEF States
  <2> QED  BY <2>1, <2>2
<1> PICK c \in Int : c = Head(Last(st.adv).calls)
  <2>1. Last(st.adv) \in AdvMsgs
    BY <1>3 DEF Last
  <2> PICK calls \in Seq(Int) : calls = Last(st.adv).calls /\ calls # <<>>
    BY <1>3, <2>1, AdvCalls
  <2>2. Head(calls) \in Int
    OBVIOUS
  <2> QED  BY <2>2
<1> PICK o \in AdvMsgs : o = Output(c, next, {c}) /\ ~IsMark(o)
  <2>1. next \in Int /\ {c} \in SUBSET Int
    BY <1>1
  <2>2. Output(c, next, {c}) \in AdvOutputs
    BY <2>1, OutputType
  <2> QED  BY <2>2, NoMarks DEF AdvMsgs
<1> PICK adv \in Seq(AdvMsgs) : adv = Append(st.adv, o) /\ PhaseMarks(adv) = PhaseMarks(st.adv)
  <2>1. Append(st.adv, o) \in Seq(AdvMsgs) /\ PhaseMarks(Append(st.adv, o)) = PhaseMarks(st.adv)
    BY <1>3, MarksAppend
  <2> QED  BY <2>1
<1>4. st' = [st EXCEPT !.adv = adv, !.memory = st.memory + 1]
  BY DEF SideTools
<1>5. /\ st' \in States /\ st'.adv = adv /\ st'.enabled = st.enabled
      /\ st'.blocked = st.blocked
  BY <1>1, <1>3, <1>4 DEF States
<1>6. Marked(st')
  BY <1>1, <1>5 DEF Marked
<1>7. Turns(pc', st') /\ pc' # "idle"
  BY <1>2 DEF Turns
<1> QED  BY <1>2, <1>5, <1>6, <1>7, <1>8, GoesOn

\* The end of a response.
LEMMA DEnd ==
  ASSUME DInv, pc # "idle", NEW s \in States, Marked(s),
         NEW out \in Seq(PlainItems), \A i \in 1..Len(out) : out[i].t # "output",
         NEW d, d.id \in Nat,
         d.id # 0 => d.state = StateUpdate(base, s, base.ck) /\ d.main \in MainUpdates,
         d.id = 0 => Side(s) = Side(base),
         End(d, out, s)
  PROVE  DInv'
<1>1. /\ st \in States /\ next \in Nat \ {0} /\ base \in Bases /\ items \in Seq(Items)
      /\ Marked(st) /\ Marked(After(items))
      /\ ~Stopped(After(items)) /\ Side(After(items)) = Side(base)
  BY DEF DInv, Types, Brought
<1> PICK q : q = EndItems(d, out)
  OBVIOUS
<1>2. /\ q \in Seq(Items) /\ Marked(After(q))
      /\ ~Stopped(After(q)) => Side(After(q)) = Side(s)
  BY <1>1, EndReplayed
<1>3. /\ items' = q /\ kept' = s /\ pc' = "idle" /\ draft' = NoDraft /\ next' = next + 1
      /\ st' = st /\ base' = base
  BY DEF End, EndItems
<1>4. Types'
  <2>1. NoDraft.id = 0
    BY DEF NoDraft
  <2> QED  BY <1>1, <1>2, <1>3, <2>1 DEF Types
<1>5. Marked(st)' /\ Marked(After(items))'
  BY <1>1, <1>2, <1>3
<1>6. Brought'
  BY <1>2, <1>3 DEF Brought
<1>7. Turns(pc, st)'
  BY <1>3 DEF Turns
<1> QED  BY <1>4, <1>5, <1>6, <1>7 DEF DInv

\* What is worth saving.
LEMMA WorthSaving ==
  ASSUME draft.id \in Nat, next \in Nat \ {0}, NEW d, d.id = DraftId
  PROVE  /\ Worth(d).id \in Nat
         /\ Worth(d).id # 0 => Worth(d) = d
         /\ Worth(d).id = 0 => NothingToSave(d.state, d.main)
<1>1. DraftId \in Nat \ {0}
  BY DraftIds
<1>2. NoDraft.id = 0
  BY DEF NoDraft
<1> QED  BY <1>1, <1>2 DEF Worth

\* The end of a response that is complete keeps the invariant.
LEMMA DCommit == ASSUME DInv, Commit PROVE DInv'
<1>1. st \in States /\ next \in Nat \ {0} /\ draft.id \in Nat /\ base \in Bases /\ Marked(st)
  BY DEF DInv, Types
<1> PICK d : d = [id |-> DraftId, state |-> StateUpdate(base, st, base.ck),
                  main |-> MainUpdate(base, st)]
  OBVIOUS
<1>2. /\ d.id = DraftId /\ d.state = StateUpdate(base, st, base.ck)
      /\ d.main = MainUpdate(base, st)
  OBVIOUS
<1> PICK w : w = Worth(d)
  OBVIOUS
<1>3. pc # "idle" /\ End(w, PublicItems(base, st), st)
  BY DEF Commit
<1>4. /\ w.id \in Nat
      /\ w.id # 0 => w = d
      /\ w.id = 0 => NothingToSave(d.state, d.main)
  BY <1>1, <1>2, WorthSaving
<1>5. w.id # 0 => w.state = StateUpdate(base, st, base.ck) /\ w.main \in MainUpdates
  BY <1>1, <1>2, <1>4, MainUpdateType
<1>6. w.id = 0 => Side(st) = Side(base)
  BY <1>1, <1>2, <1>4, NothingSaved
<1>7. /\ PublicItems(base, st) \in Seq(PlainItems)
      /\ \A i \in 1..Len(PublicItems(base, st)) : PublicItems(base, st)[i].t # "output"
  BY <1>1, PublicItemsType
<1> QED  BY <1>1, <1>3, <1>4, <1>5, <1>6, <1>7, DEnd

\* The end of a response that was interrupted keeps the invariant.
LEMMA DInterrupt == ASSUME DInv, Interrupt PROVE DInv'
<1>1. st \in States /\ next \in Nat \ {0} /\ draft.id \in Nat /\ base \in Bases /\ Marked(st)
  BY DEF DInv, Types
<1> PICK s \in States : s = Snapshot(st) /\ Marked(s)
  <2>1. Snapshot(st) \in States /\ Marked(Snapshot(st))
    BY <1>1, SnapshotType
  <2> QED  BY <2>1
<1> PICK d : d = DraftOf(st)
  OBVIOUS
<1>2. /\ d.id = DraftId /\ d.state = StateUpdate(base, s, base.ck)
      /\ d.main = MainSuffix(base, s)
  BY DEF DraftOf, DraftAt
<1> PICK w : w = Worth(d)
  OBVIOUS
<1>3. pc # "idle" /\ End(w, <<>>, s)
  BY DEF Interrupt, Saved
<1>4. /\ w.id \in Nat
      /\ w.id # 0 => w = d
      /\ w.id = 0 => NothingToSave(d.state, d.main)
  BY <1>1, <1>2, WorthSaving
<1>5. w.id # 0 => w.state = StateUpdate(base, s, base.ck) /\ w.main \in MainUpdates
  <2>1. MainSuffix(base, s) \in MainUpdates
    BY <1>1, MainUpdateType DEF MainUpdates
  <2> QED  BY <1>2, <1>4, <2>1
<1>6. w.id = 0 => Side(s) = Side(base)
  BY <1>1, <1>2, <1>4, NothingSaved
<1>7. <<>> \in Seq(PlainItems) /\ \A i \in 1..Len(<<>>) : <<>>[i].t # "output"
  OBVIOUS
<1> QED  BY <1>3, <1>4, <1>5, <1>6, <1>7, DEnd

-----------------------------------------------------------------------------
(* Every step keeps it.                                                    *)

\* Whatever the next step is.
LEMMA DNext == DInv /\ [Next]_vars => DInv'
<1> SUFFICES ASSUME DInv, [Next]_vars PROVE DInv'
  OBVIOUS
<1>1. CASE Request
  BY <1>1, DRequest
<1>2. CASE UserTurn
  BY <1>2, DUserTurn
<1>3. CASE Resume
  BY <1>3, DResume
<1>4. CASE StreamPart
  BY <1>4, DStreamPart
<1>5. CASE SaveProgress
  BY <1>5, DSaveProgress
<1>6. CASE Retry
  BY <1>6, DRetry
<1>7. CASE Result
  BY <1>7, DResult
<1>8. CASE ServerTools
  BY <1>8, DServerTools
<1>9. CASE Exhausted
  BY <1>9, DExhausted
<1>10. CASE Advise
  BY <1>10, DAdvise
<1>11. CASE Explore
  BY <1>11, DExplore
<1>12. CASE SideTools
  BY <1>12, DSideTools
<1>13. CASE SkipReview
  BY <1>13, DSkipReview
<1>14. CASE Commit
  BY <1>14, DCommit
<1>15. CASE Interrupt
  BY <1>15, DInterrupt
<1>16. CASE UNCHANGED vars
  BY <1>16 DEF vars, DInv, Types, Calm, Brought, Turns, Marked
<1> QED
  BY <1>1, <1>2, <1>3, <1>4, <1>5, <1>6, <1>7, <1>8, <1>9, <1>10, <1>11, <1>12, <1>13, <1>14,
     <1>15, <1>16 DEF Next

\* Of every conversation.
LEMMA DAlways == Spec => []DInv
BY DInit, DNext, PTL DEF Spec

\* Through retries, cancellations, failures and replays the advisor blocks main exactly
\* while it has a phase, and then one.
THEOREM BlocksInOnePhase == Spec => []BlockedInPhase
<1>1. DInv => BlockedInPhase
  <2> SUFFICES ASSUME Marked(st) PROVE BlockedInPhase
    BY DEF DInv
  <2>1. st.enabled = st.blocked
    BY DEF Marked
  <2>2. CASE st.enabled
    <3>1. PICK k : PhaseMarks(st.adv) = {k}
      BY <2>2 DEF Marked
    <3>2. Cardinality(PhaseMarks(st.adv)) = 1
      BY <3>1, FS_Singleton
    <3> QED  BY <2>1, <2>2, <3>2 DEF BlockedInPhase
  <2>3. CASE ~st.enabled
    <3>1. PhaseMarks(st.adv) = {}
      BY <2>3 DEF Marked
    <3>2. Cardinality(PhaseMarks(st.adv)) = 0
      BY <3>1, FS_EmptySet
    <3> QED  BY <2>1, <2>3, <3>2 DEF BlockedInPhase
  <2> QED  BY <2>2, <2>3
<1> QED  BY <1>1, DAlways, PTL

\* What an accepted request is told, of what the last response left.
LEMMA BringsWhatWasLeft ==
  ASSUME NEW r, NEW q, NEW in, NEW s \in States, r.adv \in Seq(AdvMsgs), q.adv \in Seq(AdvMsgs),
         Extends(r, q), Side(in) = Side(q), Side(r) = Side(s)
  PROVE  Brings(in, s)
<1>1. /\ in.memory = q.memory /\ in.adv = q.adv /\ in.enabled = q.enabled /\ in.blocked = q.blocked
      /\ r.memory = s.memory /\ r.adv = s.adv /\ r.enabled = s.enabled /\ r.blocked = s.blocked
  BY DEF Side
<1> PICK a \in Seq(AdvMsgs), b \in Seq(AdvMsgs) : a = r.adv /\ b = q.adv
  OBVIOUS
<1>2. /\ q.memory = r.memory /\ q.enabled = r.enabled /\ q.blocked = r.blocked
      /\ Len(a) <= Len(b) /\ \A i \in 1..Len(a) : b[i] = a[i]
      /\ \A i \in (Len(a) + 1)..Len(b) : IsTool(b[i])
  BY DEF Extends
<1>3. IsPrefix(a, b)
  <2> PICK n \in Nat : n = Len(a)
    OBVIOUS
  <2>1. 1 \in Int /\ n \in Int /\ 1 <= 1 /\ n <= Len(a) /\ n <= Len(b)
    BY <1>2
  <2> PICK x \in Seq(AdvMsgs), y \in Seq(AdvMsgs) : x = SubSeq(a, 1, n) /\ y = SubSeq(b, 1, n)
    BY <2>1, Part
  <2>2. Len(x) = n /\ Len(y) = n /\ \A i \in 1..n : x[i] = a[i] /\ y[i] = b[i]
    BY <2>1
  <2>3. x = y
    BY <1>2, <2>2, SeqEqual
  <2> QED  BY <1>2, <2>3 DEF IsPrefix
<1>4. in.adv = b /\ s.adv = a
  BY <1>1
<1>5. <<in.memory, in.enabled, in.blocked>> = <<s.memory, s.enabled, s.blocked>>
  BY <1>1, <1>2
<1> QED  BY <1>2, <1>3, <1>4, <1>5 DEF Brings

\* Nothing is kept between requests, yet one that is accepted brings the memory, the
\* advisor's thread, its enablement and the block of the response before, whether that
\* committed, was cancelled or failed, and whatever it had saved by then.
THEOREM BelievesWhatWasSealed == Spec => []Restored
<1>1. DInv => Restored
  <2> SUFFICES ASSUME DInv, pc = "idle" /\ Calm, NEW new \in Additions,
                      Accepted(Ingested(items \o new))
               PROVE  Brings(Ingested(items \o new), kept)
    BY DEF Restored, Calm, Accepted
  <2>1. items \in Seq(Items) /\ next \in Int /\ kept \in States
    BY DEF DInv, Types
  <2>2. new \in Seq(PlainItems)
    BY <2>1, AdditionsType
  <2> PICK more \in Seq(Items) :
        /\ more = items \o new /\ Extends(After(items), After(more))
        /\ Stopped(After(items)) => After(more) = After(items)
    <3>1. /\ items \o new \in Seq(Items) /\ Extends(After(items), After(items \o new))
          /\ Stopped(After(items)) => After(items \o new) = After(items)
      BY <2>1, <2>2, AfterPlain
    <3> QED  BY <3>1
  <2>3. ~Stopped(After(more)) /\ Side(Ingested(more)) = Side(After(more))
    BY Accepts
  <2>4. Side(After(items)) = Side(kept)
    BY <2>3 DEF DInv, Brought
  <2>5. After(items).adv \in Seq(AdvMsgs) /\ After(more).adv \in Seq(AdvMsgs)
    <3>1. After(items) \in Replays /\ After(more) \in Replays
      BY <2>1, Accepts
    <3> QED  BY <3>1 DEF Replays
  <2>6. Brings(Ingested(more), kept)
    BY <2>1, <2>3, <2>4, <2>5, BringsWhatWasLeft
  <2> QED  BY <2>6
<1> QED  BY <1>1, DAlways, PTL

-----------------------------------------------------------------------------
(* Calls of the advisor and their outputs.                                 *)

\* The advisor calls c.
Calls(adv, c) == \E i \in DOMAIN adv : \E k \in DOMAIN adv[i].calls : adv[i].calls[k] = c

\* The calls that nothing in the thread answers.
Pending(adv) == {c \in Int : Calls(adv, c) /\ c \notin Refs(adv)}

\* The call c of message a is answered by one of the outputs right after it.
AnsweredAt(adv, a, c) ==
  \E j \in (a + 1)..Len(adv) : adv[j].ref = c /\ \A m \in (a + 1)..j : IsTool(adv[m])

\* Every call is.
Squared(adv) ==
  \A a \in 1..Len(adv) : \A k \in 1..Len(adv[a].calls) : AnsweredAt(adv, a, adv[a].calls[k])

\* Every call but c, for which an output may follow.
Owes(adv, c) ==
  /\ Calls(adv, c) /\ c \notin Refs(adv)
  /\ \A a \in 1..Len(adv) : \A k \in 1..Len(adv[a].calls) :
       \/ AnsweredAt(adv, a, adv[a].calls[k])
       \/ adv[a].calls[k] = c /\ \A m \in (a + 1)..Len(adv) : IsTool(adv[m])

\* The calls and the outputs of the thread are of ids given out already.
Early(adv, n) ==
  \A i \in 1..Len(adv) : adv[i].ref < n /\ \A k \in 1..Len(adv[i].calls) : adv[i].calls[k] < n

\* What a call and its output are in a message.
LEMMA AdvMsgFields ==
  ASSUME NEW m \in AdvMsgs
  PROVE  /\ m.calls \in Seq(Int) /\ m.ref \in Int
         /\ IsTool(m) => m.calls = <<>>
         /\ m.role = "user" => m.calls = <<>> /\ ~IsTool(m) /\ m.ref = 0
         /\ m.calls # <<>> => IsAssistant(m)
<1>1. m \in AdvNotes => m.calls = <<>> /\ m.ref = 0 /\ m.role = "user"
  BY DEF AdvNotes
<1>2. m \in AdvTurns => m.calls \in Seq(Int) /\ m.ref = 0 /\ m.role = "assistant"
  BY DEF AdvTurns
<1>3. m \in AdvOutputs => m.calls = <<>> /\ m.ref \in Int /\ m.role = "tool"
  BY DEF AdvOutputs, Msgs
<1>4. <<>> \in Seq(Int) /\ 0 \in Int
  OBVIOUS
<1> QED  BY <1>1, <1>2, <1>3, <1>4 DEF AdvMsgs, IsTool, IsAssistant

\* The elements of a thread.
LEMMA AdvAt ==
  ASSUME NEW adv \in Seq(AdvMsgs), NEW i \in 1..Len(adv)
  PROVE  adv[i] \in AdvMsgs /\ adv[i].calls \in Seq(Int) /\ adv[i].ref \in Int
<1>1. adv[i] \in AdvMsgs
  OBVIOUS
<1> QED  BY <1>1, AdvMsgFields

\* What is answered.
LEMMA RefsAre ==
  ASSUME NEW adv \in Seq(AdvMsgs), NEW c
  PROVE  c \in Refs(adv) <=> \E j \in 1..Len(adv) : IsTool(adv[j]) /\ adv[j].ref = c
<1>1. DOMAIN adv = 1..Len(adv)
  OBVIOUS
<1> QED  BY <1>1 DEF Refs

\* What is called.
LEMMA CallsAre ==
  ASSUME NEW adv \in Seq(AdvMsgs), NEW c
  PROVE  /\ Calls(adv, c) <=> \E i \in 1..Len(adv) : \E k \in 1..Len(adv[i].calls) : adv[i].calls[k] = c
         /\ Calls(adv, c) => c \in Int
<1>1. DOMAIN adv = 1..Len(adv)
  OBVIOUS
<1>2. \A i \in 1..Len(adv) : adv[i].calls \in Seq(Int)
  BY AdvAt
<1>3. \A i \in 1..Len(adv) : DOMAIN adv[i].calls = 1..Len(adv[i].calls)
  BY <1>2
<1>4. \A i \in 1..Len(adv) : \A k \in 1..Len(adv[i].calls) : adv[i].calls[k] \in Int
  BY <1>2
<1> QED  BY <1>1, <1>3, <1>4 DEF Calls

\* A thread without unanswered calls has none pending.
LEMMA SquaredPending ==
  ASSUME NEW adv \in Seq(AdvMsgs)
  PROVE  /\ Squared(adv) => Pending(adv) = {}
         /\ \A c : Owes(adv, c) => Pending(adv) = {c}
<1>1. ASSUME NEW a \in 1..Len(adv), NEW c, AnsweredAt(adv, a, c) PROVE c \in Refs(adv)
  <2>1. PICK j \in (a + 1)..Len(adv) : adv[j].ref = c /\ \A m \in (a + 1)..j : IsTool(adv[m])
    BY <1>1 DEF AnsweredAt
  <2>2. j \in 1..Len(adv) /\ IsTool(adv[j])
    BY <2>1
  <2> QED  BY <2>1, <2>2, RefsAre
<1>2. ASSUME Squared(adv), NEW c, Calls(adv, c) PROVE c \in Refs(adv)
  BY <1>1, <1>2, CallsAre DEF Squared
<1>3. ASSUME NEW c, Owes(adv, c), NEW d, Calls(adv, d), d \notin Refs(adv) PROVE d = c
  BY <1>1, <1>3, CallsAre DEF Owes
<1>4. ASSUME NEW c, Owes(adv, c) PROVE c \in Pending(adv)
  BY <1>4, CallsAre DEF Owes, Pending
<1> QED  BY <1>2, <1>3, <1>4 DEF Pending

\* Two sequences in one.
LEMMA Joins ==
  ASSUME NEW T, NEW s \in Seq(T), NEW t \in Seq(T)
  PROVE  /\ s \o t \in Seq(T) /\ Len(s \o t) = Len(s) + Len(t)
         /\ Len(s) \in Nat /\ Len(t) \in Nat
         /\ \A i \in 1..Len(s) : (s \o t)[i] = s[i]
         /\ \A i \in 1..Len(t) : (s \o t)[Len(s) + i] = t[i]
OBVIOUS

\* An answer is one in a longer thread.
LEMMA AnsweredJoined ==
  ASSUME NEW s \in Seq(AdvMsgs), NEW t \in Seq(AdvMsgs), NEW c, NEW q, q = s \o t
  PROVE  /\ \A a \in 1..Len(s) : AnsweredAt(s, a, c) => AnsweredAt(q, a, c)
         /\ \A a \in 1..Len(t) : AnsweredAt(t, a, c) => AnsweredAt(q, Len(s) + a, c)
<1>1. /\ Len(q) = Len(s) + Len(t) /\ Len(s) \in Nat /\ Len(t) \in Nat
      /\ \A i \in 1..Len(s) : q[i] = s[i]
      /\ \A i \in 1..Len(t) : q[Len(s) + i] = t[i]
  BY Joins
<1>2. ASSUME NEW a \in 1..Len(s), AnsweredAt(s, a, c) PROVE AnsweredAt(q, a, c)
  <2>1. PICK j \in (a + 1)..Len(s) : s[j].ref = c /\ \A m \in (a + 1)..j : IsTool(s[m])
    BY <1>2 DEF AnsweredAt
  <2>2. j \in (a + 1)..Len(q) /\ q[j].ref = c
    BY <1>1, <2>1
  <2>3. \A m \in (a + 1)..j : m \in 1..Len(s)
    BY <1>1
  <2>4. \A m \in (a + 1)..j : IsTool(q[m])
    BY <1>1, <2>1, <2>3
  <2> QED  BY <2>2, <2>4 DEF AnsweredAt
<1>3. ASSUME NEW a \in 1..Len(t), AnsweredAt(t, a, c) PROVE AnsweredAt(q, Len(s) + a, c)
  <2>1. PICK j \in (a + 1)..Len(t) : t[j].ref = c /\ \A m \in (a + 1)..j : IsTool(t[m])
    BY <1>3 DEF AnsweredAt
  <2> PICK n \in Nat : n = Len(s)
    BY <1>1
  <2>2. n + j \in (n + a + 1)..Len(q) /\ q[n + j].ref = c
    BY <1>1, <2>1
  <2>3. ASSUME NEW m \in (n + a + 1)..(n + j) PROVE IsTool(q[m])
    <3>1. m - n \in (a + 1)..j /\ m - n \in 1..Len(t) /\ m = n + (m - n)
      BY <1>1
    <3>2. q[n + (m - n)] = t[m - n]
      BY <1>1, <3>1
    <3> QED  BY <2>1, <3>1, <3>2
  <2> QED  BY <2>2, <2>3 DEF AnsweredAt
<1> QED  BY <1>2, <1>3

\* Threads whose calls are answered, one after the other.
LEMMA SquaredJoined ==
  ASSUME NEW s \in Seq(AdvMsgs), NEW t \in Seq(AdvMsgs), Squared(s), Squared(t)
  PROVE  s \o t \in Seq(AdvMsgs) /\ Squared(s \o t)
<1> PICK q : q = s \o t
  OBVIOUS
<1>1. /\ q \in Seq(AdvMsgs) /\ Len(q) = Len(s) + Len(t) /\ Len(s) \in Nat /\ Len(t) \in Nat
      /\ \A i \in 1..Len(s) : q[i] = s[i]
      /\ \A i \in 1..Len(t) : q[Len(s) + i] = t[i]
  BY Joins
<1>2. ASSUME NEW a \in 1..Len(q), NEW k \in 1..Len(q[a].calls)
      PROVE  AnsweredAt(q, a, q[a].calls[k])
  <2>1. CASE a \in 1..Len(s)
    <3>1. q[a] = s[a]
      BY <1>1, <2>1
    <3>2. AnsweredAt(s, a, s[a].calls[k])
      BY <2>1, <3>1 DEF Squared
    <3> QED  BY <2>1, <3>1, <3>2, AnsweredJoined
  <2>2. CASE a \notin 1..Len(s)
    <3>1. PICK b \in 1..Len(t) : a = Len(s) + b
      <4>1. a - Len(s) \in 1..Len(t) /\ a = Len(s) + (a - Len(s))
        BY <1>1, <2>2
      <4> QED  BY <4>1
    <3>2. q[a] = t[b]
      BY <1>1, <3>1
    <3>3. AnsweredAt(t, b, t[b].calls[k])
      BY <3>2 DEF Squared
    <3> QED  BY <3>1, <3>2, <3>3, AnsweredJoined
  <2> QED  BY <2>1, <2>2
<1> QED  BY <1>1, <1>2 DEF Squared

\* Early ids stay early, in threads put together.
LEMMA EarlyJoined ==
  ASSUME NEW s \in Seq(AdvMsgs), NEW t \in Seq(AdvMsgs), NEW n \in Int, Early(s, n), Early(t, n)
  PROVE  Early(s \o t, n)
<1> PICK q : q = s \o t
  OBVIOUS
<1>1. /\ q \in Seq(AdvMsgs) /\ Len(q) = Len(s) + Len(t) /\ Len(s) \in Nat /\ Len(t) \in Nat
      /\ \A i \in 1..Len(s) : q[i] = s[i]
      /\ \A i \in 1..Len(t) : q[Len(s) + i] = t[i]
  BY Joins
<1>2. ASSUME NEW a \in 1..Len(q)
      PROVE  q[a].ref < n /\ \A k \in 1..Len(q[a].calls) : q[a].calls[k] < n
  <2>1. CASE a \in 1..Len(s)
    BY <1>1, <2>1 DEF Early
  <2>2. CASE a \notin 1..Len(s)
    <3>1. PICK b \in 1..Len(t) : a = Len(s) + b
      <4>1. a - Len(s) \in 1..Len(t) /\ a = Len(s) + (a - Len(s))
        BY <1>1, <2>2
      <4> QED  BY <4>1
    <3>2. q[a] = t[b]
      BY <1>1, <3>1
    <3> QED  BY <3>2 DEF Early
  <2> QED  BY <2>1, <2>2
<1> QED  BY <1>2 DEF Early

\* As ids are given out, they stay early.
LEMMA EarlyLater ==
  ASSUME NEW s \in Seq(AdvMsgs), NEW n \in Int, NEW m \in Int, n <= m, Early(s, n)
  PROVE  Early(s, m)
<1>1. ASSUME NEW i \in 1..Len(s) PROVE s[i].ref < m
  <2>1. s[i].ref \in Int /\ s[i].ref < n
    BY AdvAt DEF Early
  <2> QED  BY <2>1
<1>2. ASSUME NEW i \in 1..Len(s), NEW k \in 1..Len(s[i].calls) PROVE s[i].calls[k] < m
  <2>1. s[i].calls \in Seq(Int) /\ s[i].calls[k] < n
    BY AdvAt DEF Early
  <2>2. s[i].calls[k] \in Int
    BY <2>1
  <2> QED  BY <2>1, <2>2
<1> QED  BY <1>1, <1>2 DEF Early

\* A thread that calls nothing.
LEMMA SquaredNone ==
  ASSUME NEW s \in Seq(AdvMsgs), \A i \in 1..Len(s) : s[i].calls = <<>>
  PROVE  Squared(s)
<1>1. \A i \in 1..Len(s) : 1..Len(s[i].calls) = {}
  OBVIOUS
<1> QED  BY <1>1 DEF Squared

\* Few messages that call nothing.
LEMMA SquaredNote ==
  ASSUME NEW m \in AdvMsgs, m.calls = <<>>
  PROVE  /\ <<m>> \in Seq(AdvMsgs) /\ Squared(<<m>>)
         /\ \A n \in Int : m.ref < n => Early(<<m>>, n)
<1>1. <<m>> \in Seq(AdvMsgs) /\ Len(<<m>>) = 1 /\ <<m>>[1] = m
  OBVIOUS
<1>2. \A i \in 1..Len(<<m>>) : <<m>>[i] = m
  BY <1>1
<1>3. 1..Len(m.calls) = {}
  OBVIOUS
<1> QED  BY <1>1, <1>2, <1>3, SquaredNone DEF Early

\* A turn with one call, and its output.
LEMMA SquaredPair ==
  ASSUME NEW m \in AdvMsgs, NEW o \in AdvMsgs, NEW c \in Int, m.calls = <<c>>, IsTool(o), o.ref = c
  PROVE  /\ <<m, o>> \in Seq(AdvMsgs) /\ Squared(<<m, o>>)
         /\ \A n \in Int : c < n /\ m.ref < n => Early(<<m, o>>, n)
<1> PICK q : q = <<m, o>>
  OBVIOUS
<1>1. q \in Seq(AdvMsgs) /\ Len(q) = 2 /\ q[1] = m /\ q[2] = o
  OBVIOUS
<1>2. o.calls = <<>>
  BY AdvMsgFields
<1>3. 1..Len(m.calls) = {1} /\ m.calls[1] = c /\ 1..Len(o.calls) = {}
  BY <1>2
<1>4. AnsweredAt(q, 1, c)
  BY <1>1 DEF AnsweredAt
<1>5. Squared(q)
  BY <1>1, <1>3, <1>4 DEF Squared
<1>6. \A n \in Int : c < n /\ m.ref < n => Early(q, n)
  BY <1>1, <1>3 DEF Early
<1> QED  BY <1>1, <1>5, <1>6

\* A selection of messages that drops no output keeps what is answered.
LEMMA SquaredAmong ==
  ASSUME NEW s \in Seq(AdvMsgs), NEW I, \A i \in 1..Len(s) : IsTool(s[i]) => i \in I,
         NEW r, r = Among(s, I)
  PROVE  /\ r \in Seq(AdvMsgs) /\ (Squared(s) => Squared(r))
         /\ \A n \in Int : Early(s, n) => Early(r, n)
<1>1. r \in Seq(AdvMsgs)
  BY AmongKeeps
<1>2. PICK g \in [1..Len(r) -> 1..Len(s)] :
        /\ \A k \in 1..Len(r) : g[k] \in I /\ r[k] = s[g[k]]
        /\ \A k, l \in 1..Len(r) : k < l => g[k] < g[l]
        /\ \A i \in 1..Len(s) : i \in I => \E k \in 1..Len(r) : g[k] = i
  BY AmongKeeps
<1>3. ASSUME NEW a \in 1..Len(r), NEW c, AnsweredAt(s, g[a], c) PROVE AnsweredAt(r, a, c)
  <2> PICK b \in 1..Len(s) : b = g[a]
    BY <1>2
  <2>1. PICK j \in (b + 1)..Len(s) : s[j].ref = c /\ \A m \in (b + 1)..j : IsTool(s[m])
    BY <1>3 DEF AnsweredAt
  <2>2. PICK k \in 1..Len(r) : g[k] = j
    <3>1. j \in 1..Len(s) /\ j \in I
      BY <2>1
    <3> QED  BY <1>2, <3>1
  <2>3. a < k
    <3>1. k = a => g[k] = b
      OBVIOUS
    <3>2. k < a => g[k] < b
      BY <1>2
    <3> QED  BY <2>2, <3>1, <3>2
  <2>4. ASSUME NEW m \in (a + 1)..k PROVE IsTool(r[m])
    <3>1. m \in 1..Len(r) /\ a < m /\ (m = k \/ m < k)
      OBVIOUS
    <3>2. g[m] \in 1..Len(s) /\ b < g[m]
      BY <1>2, <3>1
    <3>3. g[m] <= j
      <4>1. m < k => g[m] < g[k]
        BY <1>2, <3>1
      <4> QED  BY <2>2, <3>1, <3>2, <4>1
    <3>4. g[m] \in (b + 1)..j
      BY <3>2, <3>3
    <3> QED  BY <1>2, <2>1, <3>1, <3>4
  <2>5. k \in (a + 1)..Len(r) /\ r[k].ref = c
    BY <1>2, <2>1, <2>2, <2>3
  <2> QED  BY <2>4, <2>5 DEF AnsweredAt
<1>4. ASSUME Squared(s) PROVE Squared(r)
  <2>1. ASSUME NEW a \in 1..Len(r), NEW k \in 1..Len(r[a].calls)
        PROVE  AnsweredAt(r, a, r[a].calls[k])
    <3>1. g[a] \in 1..Len(s) /\ r[a] = s[g[a]]
      BY <1>2
    <3>2. AnsweredAt(s, g[a], r[a].calls[k])
      BY <1>4, <3>1 DEF Squared
    <3> QED  BY <1>3, <3>2
  <2> QED  BY <2>1 DEF Squared
<1>5. ASSUME NEW n \in Int, Early(s, n) PROVE Early(r, n)
  <2>1. ASSUME NEW a \in 1..Len(r)
        PROVE  r[a].ref < n /\ \A k \in 1..Len(r[a].calls) : r[a].calls[k] < n
    <3>1. g[a] \in 1..Len(s) /\ r[a] = s[g[a]]
      BY <1>2
    <3> QED  BY <1>5, <3>1 DEF Early
  <2> QED  BY <2>1 DEF Early
<1> QED  BY <1>1, <1>4, <1>5

\* So does ending the phase.
LEMMA UnmarkedKeeps ==
  ASSUME NEW s \in Seq(AdvMsgs)
  PROVE  /\ Unmarked(s) \in Seq(AdvMsgs) /\ (Squared(s) => Squared(Unmarked(s)))
         /\ \A n \in Int : Early(s, n) => Early(Unmarked(s), n)
<1> PICK I : I = {i \in DOMAIN s : s[i].role # "user" \/ s[i].phase = "none"}
  OBVIOUS
<1>1. Unmarked(s) = Among(s, I)
  BY DEF Unmarked, Where
<1>2. \A i \in 1..Len(s) : IsTool(s[i]) => i \in I
  BY DEF IsTool
<1> QED  BY <1>1, <1>2, SquaredAmong

\* The calls of a turn that are not among the ids given.
Left(calls, R) == Among(calls, {i \in DOMAIN calls : calls[i] \notin R})

\* What is answered in a part of a thread.
LEMMA RefsOfPart ==
  ASSUME NEW s \in Seq(AdvMsgs), NEW a \in 1..Len(s), NEW p \in (a + 1)..(Len(s) + 1), NEW c
  PROVE  c \in Refs(SubSeq(s, a + 1, p - 1))
           <=> \E j \in (a + 1)..(p - 1) : IsTool(s[j]) /\ s[j].ref = c
<1> PICK t : t = SubSeq(s, a + 1, p - 1)
  OBVIOUS
<1>1. /\ t \in Seq(AdvMsgs) /\ Len(t) = p - 1 - a
      /\ \A i \in 1..(p - 1 - a) : t[i] = s[a + i]
  OBVIOUS
<1>2. c \in Refs(t) <=> \E i \in 1..Len(t) : IsTool(t[i]) /\ t[i].ref = c
  BY <1>1, RefsAre
<1>3. ASSUME NEW j \in (a + 1)..(p - 1), IsTool(s[j]), s[j].ref = c PROVE c \in Refs(t)
  <2>1. j - a \in 1..Len(t) /\ t[j - a] = s[j]
    BY <1>1
  <2> QED  BY <1>2, <1>3, <2>1
<1>4. ASSUME NEW i \in 1..Len(t), IsTool(t[i]), t[i].ref = c
      PROVE  \E j \in (a + 1)..(p - 1) : IsTool(s[j]) /\ s[j].ref = c
  <2>1. a + i \in (a + 1)..(p - 1) /\ t[i] = s[a + i]
    BY <1>1
  <2> QED  BY <1>4, <2>1
<1> QED  BY <1>2, <1>3, <1>4

\* What is open in a thread.
LEMMA OpenAre ==
  ASSUME NEW s \in Seq(AdvMsgs)
  PROVE  \/ /\ OpenCalls(s) = <<>> /\ \A i \in 1..Len(s) : ~IsAssistant(s[i])
         \/ \E a \in 1..Len(s) : \E p \in (a + 1)..(Len(s) + 1) :
              /\ IsAssistant(s[a]) /\ \A i \in 1..Len(s) : IsAssistant(s[i]) => i <= a
              /\ \A j \in (a + 1)..(p - 1) : IsTool(s[j])
              /\ p <= Len(s) => ~IsTool(s[p])
              /\ OpenCalls(s) = Left(s[a].calls, Refs(SubSeq(s, a + 1, p - 1)))
<1> PICK a : a = SelectLastInSeq(s, IsAssistant)
  OBVIOUS
<1>1. /\ a \in 0..Len(s) /\ (a # 0 => IsAssistant(s[a]))
      /\ \A i \in 1..Len(s) : IsAssistant(s[i]) => i <= a
  BY LastAssistantAt
<1> PICK p : p = PastTools(s, a + 1)
  OBVIOUS
<1>2. SplitTail(s) = SplitAt(s, a, p)
  BY DEF SplitTail, SplitFrom
<1>3. CASE a = 0
  <2>1. SplitTail(s).anchor = NoMsg
    BY <1>2, <1>3 DEF SplitAt
  <2>2. OpenCalls(s) = <<>>
    BY <2>1 DEF OpenCalls, OpenIn
  <2> QED  BY <1>1, <1>3, <2>2
<1>4. CASE a # 0
  <2>1. a \in 1..Len(s) /\ a + 1 \in 1..(Len(s) + 1)
    BY <1>1, <1>4
  <2>2. /\ p \in (a + 1)..(Len(s) + 1)
        /\ \A j \in (a + 1)..(p - 1) : IsTool(s[j])
        /\ p <= Len(s) => ~IsTool(s[p])
    BY <2>1, PastToolsAt
  <2>3. SplitTail(s).anchor = s[a] /\ SplitTail(s).suffix = SubSeq(s, a + 1, p - 1)
    <3>1. SplitAt(s, a, p) = [prefix |-> SubSeq(s, 1, a - 1), anchor |-> s[a],
                              suffix |-> SubSeq(s, a + 1, p - 1), after |-> SubSeq(s, p, Len(s))]
      BY <1>4 DEF SplitAt
    <3> QED  BY <1>2, <3>1
  <2>4. s[a] # NoMsg
    BY <2>1, NoMsgApart, AdvAt
  <2>5. OpenCalls(s) = Left(s[a].calls, Refs(SubSeq(s, a + 1, p - 1)))
    BY <2>3, <2>4 DEF OpenCalls, OpenIn, Where, Left
  <2> QED  BY <1>1, <1>4, <2>1, <2>2, <2>5
<1> QED  BY <1>3, <1>4

\* Nothing is selected from places where there is nothing.
LEMMA AmongNothing ==
  ASSUME NEW T, NEW s \in Seq(T), NEW I, \A i \in 1..Len(s) : i \notin I
  PROVE  Among(s, I) = <<>>
<1>1. \A r : r = Among(s, I) => r \in Seq(T) /\ From(r, s, I)
  BY AmongFrom
<1> PICK r : r = Among(s, I)
  OBVIOUS
<1>2. PICK g \in [1..Len(r) -> 1..Len(s)] :
        /\ \A k \in 1..Len(r) : g[k] \in I /\ r[k] = s[g[k]]
        /\ \A k, l \in 1..Len(r) : k < l => g[k] < g[l]
        /\ \A i \in 1..Len(s) : i \in I => \E k \in 1..Len(r) : g[k] = i
  BY AmongKeeps
<1>3. ASSUME NEW k \in 1..Len(r) PROVE FALSE
  BY <1>2, <1>3
<1>4. r \in Seq(T)
  BY <1>1
<1> QED  BY <1>3, <1>4, EmptySeq

\* What a selection has.
Has(r, s, I) == \A i \in 1..Len(s) : i \in I => \E k \in 1..Len(r) : r[k] = s[i]

\* A selection has what is at the places.
LEMMA AmongHas ==
  ASSUME NEW T, NEW s \in Seq(T), NEW I, NEW r, r = Among(s, I)
  PROVE  Has(r, s, I)
<1>2. PICK g \in [1..Len(r) -> 1..Len(s)] :
        /\ \A k \in 1..Len(r) : g[k] \in I /\ r[k] = s[g[k]]
        /\ \A k, l \in 1..Len(r) : k < l => g[k] < g[l]
        /\ \A j \in 1..Len(s) : j \in I => \E k \in 1..Len(r) : g[k] = j
  BY AmongKeeps
<1>3. ASSUME NEW i \in 1..Len(s), i \in I PROVE \E k \in 1..Len(r) : r[k] = s[i]
  <2>1. PICK k \in 1..Len(r) : g[k] = i
    BY <1>2, <1>3
  <2> QED  BY <1>2, <2>1
<1> QED  BY <1>3 DEF Has

\* The calls of a turn that are not among the ids given.
LEMMA LeftAre ==
  ASSUME NEW T, NEW calls \in Seq(T), NEW R
  PROVE  /\ Left(calls, R) \in Seq(T)
         /\ (\A k \in 1..Len(calls) : calls[k] \in R) => Left(calls, R) = <<>>
         /\ \A k \in 1..Len(calls) : calls[k] \notin R =>
              \E l \in 1..Len(Left(calls, R)) : Left(calls, R)[l] = calls[k]
<1> PICK I : I = {i \in DOMAIN calls : calls[i] \notin R}
  OBVIOUS
<1>1. DOMAIN calls = 1..Len(calls)
  OBVIOUS
<1> PICK r : r = Among(calls, I)
  OBVIOUS
<1>2. Left(calls, R) = r
  BY DEF Left
<1>3. r \in Seq(T)
  BY AmongFrom
<1>4. (\A k \in 1..Len(calls) : calls[k] \in R) => r = <<>>
  <2>1. (\A k \in 1..Len(calls) : calls[k] \in R) => \A i \in 1..Len(calls) : i \notin I
    OBVIOUS
  <2> QED  BY <2>1, AmongNothing
<1>5. Has(r, calls, I)
  BY AmongHas
<1>6. \A k \in 1..Len(calls) : calls[k] \notin R => k \in I
  BY <1>1
<1> QED  BY <1>2, <1>3, <1>4, <1>5, <1>6 DEF Has

\* A selection from one element, and from two.
LEMMA AmongFew ==
  ASSUME NEW T, NEW s \in Seq(T), NEW I
  PROVE  /\ Len(s) = 1 /\ 1 \in I => Among(s, I) = <<s[1]>>
         /\ Len(s) = 2 /\ 1 \notin I /\ 2 \in I => Among(s, I) = <<s[2]>>
<1> PICK N \in Nat : N = Len(s)
  OBVIOUS
<1> PICK r : r = Among(s, I)
  OBVIOUS
<1>1. PICK f \in [0..N -> Seq(T)] :
        /\ f[0] = <<>> /\ f[N] = r
        /\ \A i \in 1..N : f[i] = IF i \in I THEN Append(f[i - 1], s[i]) ELSE f[i - 1]
  BY AmongUnrolls
<1>2. \A x : Append(<<>>, x) = <<x>>
  OBVIOUS
<1>3. ASSUME Len(s) = 1, 1 \in I PROVE Among(s, I) = <<s[1]>>
  <2>1. f[1] = Append(f[0], s[1])
    BY <1>1, <1>3
  <2>2. f[1] = <<s[1]>>
    BY <1>1, <1>2, <2>1
  <2>3. f[N] = f[1]
    BY <1>3
  <2> QED  BY <1>1, <2>2, <2>3
<1>4. ASSUME Len(s) = 2, 1 \notin I, 2 \in I PROVE Among(s, I) = <<s[2]>>
  <2>1. f[1] = f[0] /\ f[2] = Append(f[1], s[2])
    BY <1>1, <1>4
  <2>2. f[2] = <<s[2]>>
    BY <1>1, <1>2, <2>1
  <2>3. f[N] = f[2]
    BY <1>4
  <2> QED  BY <1>1, <2>2, <2>3
<1> QED  BY <1>3, <1>4

\* What is left of one call, and of two.
LEMMA LeftFew ==
  ASSUME NEW c, NEW d, NEW R, c \notin R
  PROVE  Left(<<c>>, R) = <<c>> /\ (d \in R => Left(<<d, c>>, R) = <<c>>)
<1>1. ASSUME NEW s \in Seq({c, d}), Len(s) = 1, s[1] = c PROVE Left(s, R) = <<c>>
  <2> PICK I : I = {i \in DOMAIN s : s[i] \notin R}
    OBVIOUS
  <2>1. 1 \in I
    BY <1>1
  <2> QED  BY <1>1, <2>1, AmongFew DEF Left
<1>2. ASSUME d \in R, NEW s \in Seq({c, d}), Len(s) = 2, s[1] = d, s[2] = c PROVE Left(s, R) = <<c>>
  <2> PICK I : I = {i \in DOMAIN s : s[i] \notin R}
    OBVIOUS
  <2>1. 1 \notin I /\ 2 \in I
    BY <1>2
  <2> QED  BY <1>2, <2>1, AmongFew DEF Left
<1>3. <<c>> \in Seq({c, d}) /\ Len(<<c>>) = 1 /\ <<c>>[1] = c
  OBVIOUS
<1>4. <<d, c>> \in Seq({c, d}) /\ Len(<<d, c>>) = 2 /\ <<d, c>>[1] = d /\ <<d, c>>[2] = c
  OBVIOUS
<1> QED  BY <1>1, <1>2, <1>3, <1>4

\* Nothing is open in a thread whose calls are answered.
LEMMA SquaredOpen ==
  ASSUME NEW s \in Seq(AdvMsgs), Squared(s)
  PROVE  OpenCalls(s) = <<>>
<1>1. CASE OpenCalls(s) = <<>>
  BY <1>1
<1>2. CASE OpenCalls(s) # <<>>
  <2> PICK a \in 1..Len(s) : \E p \in (a + 1)..(Len(s) + 1) :
        /\ IsAssistant(s[a]) /\ \A i \in 1..Len(s) : IsAssistant(s[i]) => i <= a
        /\ \A j \in (a + 1)..(p - 1) : IsTool(s[j])
        /\ p <= Len(s) => ~IsTool(s[p])
        /\ OpenCalls(s) = Left(s[a].calls, Refs(SubSeq(s, a + 1, p - 1)))
    BY <1>2, OpenAre
  <2>1. PICK p \in (a + 1)..(Len(s) + 1) :
          /\ \A j \in (a + 1)..(p - 1) : IsTool(s[j])
          /\ p <= Len(s) => ~IsTool(s[p])
          /\ OpenCalls(s) = Left(s[a].calls, Refs(SubSeq(s, a + 1, p - 1)))
    OBVIOUS
  <2>2. ASSUME NEW k \in 1..Len(s[a].calls)
        PROVE  s[a].calls[k] \in Refs(SubSeq(s, a + 1, p - 1))
    <3> PICK c : c = s[a].calls[k]
      OBVIOUS
    <3>1. AnsweredAt(s, a, c)
      BY DEF Squared
    <3>2. PICK j \in (a + 1)..Len(s) : s[j].ref = c /\ \A m \in (a + 1)..j : IsTool(s[m])
      BY <3>1 DEF AnsweredAt
    <3>3. j < p
      <4>1. p <= j => p \in (a + 1)..j /\ p <= Len(s)
        OBVIOUS
      <4> QED  BY <2>1, <3>2, <4>1
    <3>4. j \in (a + 1)..(p - 1)
      BY <3>3
    <3> QED  BY <2>1, <3>2, <3>4, RefsOfPart
  <2> PICK calls \in Seq(Int) : calls = s[a].calls
    BY AdvAt
  <2> PICK R : R = Refs(SubSeq(s, a + 1, p - 1))
    OBVIOUS
  <2>3. \A k \in 1..Len(calls) : calls[k] \in R
    BY <2>2
  <2>4. OpenCalls(s) = Left(calls, R)
    BY <2>1
  <2>5. \A y : \A x \in Seq(Int) : (\A k \in 1..Len(x) : x[k] \in y) => Left(x, y) = <<>>
    BY LeftAre
  <2> QED  BY <1>2, <2>3, <2>4, <2>5
<1> QED  BY <1>1, <1>2

\* What is answered in two threads put together.
LEMMA RefsJoined ==
  ASSUME NEW s \in Seq(AdvMsgs), NEW t \in Seq(AdvMsgs), NEW c
  PROVE  c \in Refs(s \o t) <=> c \in Refs(s) \/ c \in Refs(t)
<1> PICK q : q = s \o t
  OBVIOUS
<1>1. /\ q \in Seq(AdvMsgs) /\ Len(q) = Len(s) + Len(t) /\ Len(s) \in Nat /\ Len(t) \in Nat
      /\ \A i \in 1..Len(s) : q[i] = s[i]
      /\ \A i \in 1..Len(t) : q[Len(s) + i] = t[i]
  BY Joins
<1>2. /\ c \in Refs(q) <=> \E j \in 1..Len(q) : IsTool(q[j]) /\ q[j].ref = c
      /\ c \in Refs(s) <=> \E j \in 1..Len(s) : IsTool(s[j]) /\ s[j].ref = c
      /\ c \in Refs(t) <=> \E j \in 1..Len(t) : IsTool(t[j]) /\ t[j].ref = c
  BY <1>1, RefsAre
<1>3. ASSUME NEW j \in 1..Len(s), IsTool(s[j]), s[j].ref = c PROVE c \in Refs(q)
  <2>1. j \in 1..Len(q) /\ q[j] = s[j]
    BY <1>1
  <2> QED  BY <1>2, <1>3, <2>1
<1>4. ASSUME NEW j \in 1..Len(t), IsTool(t[j]), t[j].ref = c PROVE c \in Refs(q)
  <2>1. Len(s) + j \in 1..Len(q) /\ q[Len(s) + j] = t[j]
    BY <1>1
  <2> QED  BY <1>2, <1>4, <2>1
<1>5. ASSUME NEW j \in 1..Len(q), IsTool(q[j]), q[j].ref = c PROVE c \in Refs(s) \/ c \in Refs(t)
  <2>1. CASE j \in 1..Len(s)
    <3>1. q[j] = s[j]
      BY <1>1, <2>1
    <3> QED  BY <1>2, <1>5, <2>1, <3>1
  <2>2. CASE j \notin 1..Len(s)
    <3>1. j - Len(s) \in 1..Len(t) /\ j = Len(s) + (j - Len(s))
      BY <1>1, <2>2
    <3>2. q[j] = t[j - Len(s)]
      BY <1>1, <3>1
    <3> QED  BY <1>2, <1>5, <3>1, <3>2
  <2> QED  BY <2>1, <2>2
<1> QED  BY <1>2, <1>3, <1>4, <1>5

\* What is called in them.
LEMMA CallsJoined ==
  ASSUME NEW s \in Seq(AdvMsgs), NEW t \in Seq(AdvMsgs), NEW c, Calls(t, c)
  PROVE  Calls(s \o t, c)
<1> PICK q : q = s \o t
  OBVIOUS
<1>1. /\ q \in Seq(AdvMsgs) /\ Len(q) = Len(s) + Len(t) /\ Len(s) \in Nat /\ Len(t) \in Nat
      /\ \A i \in 1..Len(t) : q[Len(s) + i] = t[i]
  BY Joins
<1>2. PICK i \in 1..Len(t) : \E k \in 1..Len(t[i].calls) : t[i].calls[k] = c
  BY CallsAre
<1>3. Len(s) + i \in 1..Len(q) /\ q[Len(s) + i] = t[i]
  BY <1>1
<1>4. \E a \in 1..Len(q) : \E k \in 1..Len(q[a].calls) : q[a].calls[k] = c
  BY <1>2, <1>3
<1> QED  BY <1>1, <1>4, CallsAre

\* A call that is owed is owed after a thread whose calls are answered.
LEMMA OwesJoined ==
  ASSUME NEW s \in Seq(AdvMsgs), NEW t \in Seq(AdvMsgs), NEW c,
         Squared(s), c \notin Refs(s), Owes(t, c)
  PROVE  Owes(s \o t, c)
<1> PICK q : q = s \o t
  OBVIOUS
<1>1. /\ q \in Seq(AdvMsgs) /\ Len(q) = Len(s) + Len(t) /\ Len(s) \in Nat /\ Len(t) \in Nat
      /\ \A i \in 1..Len(s) : q[i] = s[i]
      /\ \A i \in 1..Len(t) : q[Len(s) + i] = t[i]
  BY Joins
<1>2. Calls(q, c) /\ c \notin Refs(q)
  BY CallsJoined, RefsJoined DEF Owes
<1>3. ASSUME NEW a \in 1..Len(q), NEW k \in 1..Len(q[a].calls)
      PROVE  \/ AnsweredAt(q, a, q[a].calls[k])
             \/ q[a].calls[k] = c /\ \A m \in (a + 1)..Len(q) : IsTool(q[m])
  <2>1. CASE a \in 1..Len(s)
    <3>1. q[a] = s[a]
      BY <1>1, <2>1
    <3>2. AnsweredAt(s, a, s[a].calls[k])
      BY <2>1, <3>1 DEF Squared
    <3> QED  BY <2>1, <3>1, <3>2, AnsweredJoined
  <2>2. CASE a \notin 1..Len(s)
    <3>1. PICK b \in 1..Len(t) : a = Len(s) + b
      <4>1. a - Len(s) \in 1..Len(t) /\ a = Len(s) + (a - Len(s))
        BY <1>1, <2>2
      <4> QED  BY <4>1
    <3>2. q[a] = t[b]
      BY <1>1, <3>1
    <3>3. CASE AnsweredAt(t, b, t[b].calls[k])
      BY <3>1, <3>2, <3>3, AnsweredJoined
    <3>4. CASE t[b].calls[k] = c /\ \A m \in (b + 1)..Len(t) : IsTool(t[m])
      <4>1. ASSUME NEW m \in (a + 1)..Len(q) PROVE IsTool(q[m])
        <5>1. m - Len(s) \in (b + 1)..Len(t) /\ m - Len(s) \in 1..Len(t) /\ m = Len(s) + (m - Len(s))
          BY <1>1, <3>1
        <5>2. q[m] = t[m - Len(s)]
          BY <1>1, <5>1
        <5> QED  BY <3>4, <5>1, <5>2
      <4> QED  BY <3>2, <3>4, <4>1
    <3>5. k \in 1..Len(t[b].calls)
      BY <3>2
    <3> QED  BY <3>3, <3>4, <3>5 DEF Owes
  <2> QED  BY <2>1, <2>2
<1> QED  BY <1>2, <1>3 DEF Owes

\* The output for the call that is owed.
LEMMA OwesAnswered ==
  ASSUME NEW s \in Seq(AdvMsgs), NEW c, Owes(s, c), NEW o \in AdvMsgs, IsTool(o), o.ref = c
  PROVE  Append(s, o) \in Seq(AdvMsgs) /\ Squared(Append(s, o))
<1> PICK q : q = Append(s, o)
  OBVIOUS
<1>1. /\ q \in Seq(AdvMsgs) /\ Len(q) = Len(s) + 1 /\ Len(s) \in Nat /\ q[Len(s) + 1] = o
      /\ \A i \in 1..Len(s) : q[i] = s[i]
  OBVIOUS
<1>2. q = s \o <<o>> /\ <<o>> \in Seq(AdvMsgs)
  OBVIOUS
<1>3. o.calls = <<>>
  BY AdvMsgFields
<1>4. ASSUME NEW a \in 1..Len(q), NEW k \in 1..Len(q[a].calls)
      PROVE  AnsweredAt(q, a, q[a].calls[k])
  <2>1. a \in 1..Len(s) /\ q[a] = s[a]
    <3>1. a = Len(s) + 1 => 1..Len(q[a].calls) = {}
      BY <1>1, <1>3
    <3>2. a \in 1..Len(s)
      BY <1>1, <3>1
    <3> QED  BY <1>1, <3>2
  <2>2. CASE AnsweredAt(s, a, s[a].calls[k])
    BY <1>2, <2>1, <2>2, AnsweredJoined
  <2>3. CASE s[a].calls[k] = c /\ \A m \in (a + 1)..Len(s) : IsTool(s[m])
    <3>1. Len(s) + 1 \in (a + 1)..Len(q) /\ q[Len(s) + 1].ref = c
      BY <1>1, <2>1
    <3>2. ASSUME NEW m \in (a + 1)..(Len(s) + 1) PROVE IsTool(q[m])
      <4>1. m = Len(s) + 1 \/ (m \in (a + 1)..Len(s) /\ m \in 1..Len(s))
        BY <1>1, <2>1
      <4> QED  BY <1>1, <2>3, <4>1
    <3> QED  BY <2>1, <2>3, <3>1, <3>2 DEF AnsweredAt
  <2> QED  BY <2>1, <2>2, <2>3 DEF Owes
<1> QED  BY <1>1, <1>4 DEF Squared

\* A turn and the outputs for its calls.
Turn(m, outs) == <<m>> \o outs

\* What a turn and the outputs after it leave.
LEMMA TurnAlone ==
  ASSUME NEW m \in AdvMsgs, IsAssistant(m), NEW outs \in Seq(AdvMsgs),
         \A i \in 1..Len(outs) : IsTool(outs[i])
  PROVE  /\ Turn(m, outs) \in Seq(AdvMsgs)
         /\ (\A k \in 1..Len(m.calls) : m.calls[k] \in Refs(outs)) => Squared(Turn(m, outs))
         /\ \A c : /\ c \notin Refs(outs) /\ \E k \in 1..Len(m.calls) : m.calls[k] = c
                   /\ \A k \in 1..Len(m.calls) : m.calls[k] = c \/ m.calls[k] \in Refs(outs)
                   => Owes(Turn(m, outs), c)
<1> PICK q : q = Turn(m, outs)
  OBVIOUS
<1>1. /\ q \in Seq(AdvMsgs) /\ Len(q) = 1 + Len(outs) /\ Len(outs) \in Nat /\ q[1] = m
      /\ \A i \in 1..Len(outs) : q[1 + i] = outs[i]
  BY DEF Turn
<1>2. \A i \in 1..Len(q) : i = 1 \/ (i \in 2..Len(q) /\ i - 1 \in 1..Len(outs) /\ q[i] = outs[i - 1])
  BY <1>1
<1>3. \A i \in 2..Len(q) : i \in 1..Len(q) /\ IsTool(q[i]) /\ q[i].calls = <<>>
  <2>1. \A i \in 1..Len(outs) : outs[i].calls = <<>>
    BY AdvMsgFields
  <2> TAKE i \in 2..Len(q)
  <2>2. i \in 1..Len(q) /\ i - 1 \in 1..Len(outs) /\ q[i] = outs[i - 1]
    <3>1. i \in 1..Len(q) /\ i # 1
      BY <1>1
    <3> QED  BY <1>2, <3>1
  <2>3. IsTool(outs[i - 1]) /\ outs[i - 1].calls = <<>>
    BY <2>1, <2>2
  <2> QED  BY <2>2, <2>3
<1>4. ASSUME NEW c, c \in Refs(outs) PROVE AnsweredAt(q, 1, c)
  <2>1. PICK j \in 1..Len(outs) : outs[j].ref = c
    BY <1>4, RefsAre
  <2>2. 1 + j \in 2..Len(q) /\ q[1 + j].ref = c
    BY <1>1, <2>1
  <2>3. \A i \in 2..(1 + j) : IsTool(q[i])
    BY <1>3, <2>2
  <2> QED  BY <2>2, <2>3 DEF AnsweredAt
<1>5. ASSUME NEW a \in 1..Len(q), NEW k \in 1..Len(q[a].calls)
      PROVE  a = 1 /\ k \in 1..Len(m.calls)
  <2>1. a # 1 => a \in 2..Len(q)
    OBVIOUS
  <2>2. a # 1 => 1..Len(q[a].calls) = {}
    BY <1>3, <2>1
  <2>3. a = 1
    BY <2>2
  <2> QED  BY <1>1, <2>3
<1>6. ASSUME \A k \in 1..Len(m.calls) : m.calls[k] \in Refs(outs) PROVE Squared(q)
  <2>1. ASSUME NEW a \in 1..Len(q), NEW k \in 1..Len(q[a].calls)
        PROVE  AnsweredAt(q, a, q[a].calls[k])
    <3>1. a = 1 /\ k \in 1..Len(m.calls) /\ q[a].calls[k] = m.calls[k]
      BY <1>1, <1>5
    <3> QED  BY <1>4, <1>6, <3>1
  <2> QED  BY <2>1 DEF Squared
<1>7. ASSUME NEW c, c \notin Refs(outs), \E k \in 1..Len(m.calls) : m.calls[k] = c,
             \A k \in 1..Len(m.calls) : m.calls[k] = c \/ m.calls[k] \in Refs(outs)
      PROVE  Owes(q, c)
  <2>1. Calls(q, c)
    <3>1. \E i \in 1..Len(q) : \E k \in 1..Len(q[i].calls) : q[i].calls[k] = c
      BY <1>1, <1>7
    <3> QED  BY <1>1, <3>1, CallsAre
  <2>2. c \notin Refs(q)
    <3> PICK x : x = <<m>>
      OBVIOUS
    <3>1. x \in Seq(AdvMsgs) /\ Len(x) = 1 /\ x[1] = m
      OBVIOUS
    <3>2. ~IsTool(m)
      BY DEF IsTool, IsAssistant
    <3>3. c \in Refs(x) <=> \E j \in 1..Len(x) : IsTool(x[j]) /\ x[j].ref = c
      BY <3>1, RefsAre
    <3>4. c \notin Refs(x)
      BY <3>1, <3>2, <3>3
    <3>5. q = x \o outs
      BY DEF Turn
    <3> QED  BY <1>7, <3>1, <3>4, <3>5, RefsJoined
  <2>3. ASSUME NEW a \in 1..Len(q), NEW k \in 1..Len(q[a].calls)
        PROVE  \/ AnsweredAt(q, a, q[a].calls[k])
               \/ q[a].calls[k] = c /\ \A i \in (a + 1)..Len(q) : IsTool(q[i])
    <3>1. a = 1 /\ k \in 1..Len(m.calls) /\ q[a].calls[k] = m.calls[k]
      BY <1>1, <1>5
    <3> QED  BY <1>3, <1>4, <1>7, <3>1
  <2> QED  BY <2>1, <2>2, <2>3 DEF Owes
<1> QED  BY <1>1, <1>6, <1>7

\* What of a sequence comes after its first elements.
IsRest(x, s, n) == Len(x) = Len(s) - n /\ \A i \in 1..(Len(s) - n) : x[i] = s[n + i]

\* The rest of a sequence.
LEMMA RestOf ==
  ASSUME NEW T, NEW s \in Seq(T), NEW n \in 1..Len(s), NEW x, x = SubSeq(s, n + 1, Len(s))
  PROVE  x \in Seq(T) /\ IsRest(x, s, n)
BY DEF IsRest

\* Sequences with the same elements.
LEMMA SameSeq ==
  ASSUME NEW T, NEW s \in Seq(T), NEW t \in Seq(T), Len(s) = Len(t),
         \A i \in 1..Len(t) : s[i] = t[i]
  PROVE  s = t
BY SeqEqual

\* What is open when only outputs follow the last turn.
LEMMA OpenAfter ==
  ASSUME NEW s \in Seq(AdvMsgs), NEW n \in 1..Len(s), IsAssistant(s[n]),
         \A i \in (n + 1)..Len(s) : IsTool(s[i])
  PROVE  OpenCalls(s) = Left(s[n].calls, Refs(SubSeq(s, n + 1, Len(s))))
<1> PICK a \in 1..Len(s) : \E p \in (a + 1)..(Len(s) + 1) :
      /\ IsAssistant(s[a]) /\ \A i \in 1..Len(s) : IsAssistant(s[i]) => i <= a
      /\ \A j \in (a + 1)..(p - 1) : IsTool(s[j])
      /\ p <= Len(s) => ~IsTool(s[p])
      /\ OpenCalls(s) = Left(s[a].calls, Refs(SubSeq(s, a + 1, p - 1)))
  BY OpenAre
<1>1. PICK p \in (a + 1)..(Len(s) + 1) :
        /\ IsAssistant(s[a]) /\ \A i \in 1..Len(s) : IsAssistant(s[i]) => i <= a
        /\ p <= Len(s) => ~IsTool(s[p])
        /\ OpenCalls(s) = Left(s[a].calls, Refs(SubSeq(s, a + 1, p - 1)))
  OBVIOUS
<1>2. a = n
  <2>1. n <= a
    BY <1>1
  <2>2. ~(n < a)
    <3>1. n < a => IsTool(s[a])
      OBVIOUS
    <3> QED  BY <1>1, <3>1 DEF IsTool, IsAssistant
  <2> QED  BY <2>1, <2>2
<1>3. p = Len(s) + 1
  <2>1. ~(p <= Len(s))
    BY <1>1, <1>2
  <2> QED  BY <2>1
<1>4. p - 1 = Len(s)
  BY <1>3
<1> QED  BY <1>1, <1>2, <1>4

\* What is open after a turn and outputs.
LEMMA TurnOpen ==
  ASSUME NEW s \in Seq(AdvMsgs), NEW m \in AdvMsgs, IsAssistant(m), NEW outs \in Seq(AdvMsgs),
         \A i \in 1..Len(outs) : IsTool(outs[i])
  PROVE  OpenCalls(s \o Turn(m, outs)) = Left(m.calls, Refs(outs))
<1> PICK t \in Seq(AdvMsgs) : t = Turn(m, outs)
  BY TurnAlone
<1>1. /\ Len(t) = 1 + Len(outs) /\ Len(outs) \in Nat /\ t[1] = m
      /\ \A i \in 1..Len(outs) : t[1 + i] = outs[i]
  BY DEF Turn
<1> PICK q \in Seq(AdvMsgs) : q = s \o t
  BY Joins
<1>2. /\ Len(q) = Len(s) + Len(t) /\ Len(s) \in Nat
      /\ \A i \in 1..Len(t) : q[Len(s) + i] = t[i]
  BY Joins
<1> PICK n \in Nat : n = Len(s) + 1
  BY <1>2
<1>3. n \in 1..Len(q) /\ IsAssistant(q[n]) /\ q[n] = m /\ Len(q) = n + Len(outs)
  BY <1>1, <1>2
<1>4. \A i \in 1..Len(outs) : q[n + i] = outs[i]
  <2>1. \A i \in 1..Len(outs) : 1 + i \in 1..Len(t) /\ n + i = Len(s) + (1 + i)
    BY <1>1, <1>2
  <2> QED  BY <1>1, <1>2, <2>1
<1>5. ASSUME NEW i \in (n + 1)..Len(q) PROVE IsTool(q[i])
  <2>1. i - n \in 1..Len(outs) /\ i = n + (i - n)
    BY <1>3
  <2> QED  BY <1>4, <2>1
<1>6. OpenCalls(q) = Left(q[n].calls, Refs(SubSeq(q, n + 1, Len(q))))
  BY <1>3, <1>5, OpenAfter
<1> PICK x : x = SubSeq(q, n + 1, Len(q))
  OBVIOUS
<1>7. x \in Seq(AdvMsgs) /\ IsRest(x, q, n)
  <2>1. n \in 1..Len(q)
    BY <1>3
  <2> QED  BY <2>1, RestOf
<1>8. Len(q) - n = Len(outs)
  <2>1. Len(outs) \in Nat /\ Len(q) = n + Len(outs)
    BY <1>1, <1>3
  <2> QED  BY <2>1
<1>9. Len(x) = Len(outs) /\ \A i \in 1..Len(outs) : x[i] = outs[i]
  <2>1. Len(x) = Len(outs) /\ \A i \in 1..Len(outs) : x[i] = q[n + i]
    BY <1>7, <1>8 DEF IsRest
  <2> QED  BY <1>4, <2>1
<1>10. x = outs
  BY <1>7, <1>9, SameSeq
<1> QED  BY <1>3, <1>6, <1>10

-----------------------------------------------------------------------------
(* The calls that a replay waits for.                                      *)

\* The call c is counted and has no output yet.
IsLoose(r, c) == \E i \in 1..Len(r.calls) : r.calls[i].id = c /\ r.calls[i].phase # "closed"

\* All of them.
Loose(r) == {c \in Int : IsLoose(r, c)}

\* The replay counts as loose what is pending in the advisor's thread.
Balanced(r) == Loose(r) = Pending(r.adv)

\* The calls of an advisor's thread, in one list.
LEMMA AllCalls ==
  ASSUME NEW s \in Seq(AdvMsgs)
  PROVE  \E all \in Seq(Int) :
           /\ all = FlattenSeq([i \in DOMAIN s |-> s[i].calls])
           /\ \A c : Elem(all, c) <=> Calls(s, c)
<1> PICK N \in Nat : N = Len(s)
  OBVIOUS
<1>1. \A i \in 1..N : s[i].calls \in Seq(Int)
  BY AdvAt
<1>2. DOMAIN s = 1..N
  OBVIOUS
<1>3. PICK ss \in Seq(Seq(Int)) :
        /\ ss = [i \in DOMAIN s |-> s[i].calls] /\ Len(ss) = N
        /\ \A i \in 1..N : ss[i] = s[i].calls
  <2>1. [i \in 1..N |-> s[i].calls] \in [1..N -> Seq(Int)]
    BY <1>1
  <2> PICK ss \in [1..N -> Seq(Int)] : ss = [i \in 1..N |-> s[i].calls]
    BY <2>1
  <2>2. ss \in Seq(Seq(Int)) /\ Len(ss) = N /\ \A i \in 1..N : ss[i] = s[i].calls
    OBVIOUS
  <2> QED  BY <1>2, <2>2
<1>4. PICK all : all = FlattenSeq(ss)
  OBVIOUS
<1>5. all \in Seq(Int)
  BY <1>4, Flattened
<1>6. ASSUME NEW c PROVE Elem(all, c) <=> Calls(s, c)
  <2>1. Elem(all, c) <=> \E i \in 1..Len(ss) : Elem(ss[i], c)
    BY <1>4, Flattened
  <2>2. Calls(s, c) <=> \E i \in 1..N : Elem(s[i].calls, c)
    BY CallsAre DEF Elem
  <2> QED  BY <1>3, <2>1, <2>2
<1> QED  BY <1>3, <1>4, <1>5, <1>6

\* Counting the calls again leaves as loose what is pending.
LEMMA RebuildCounts ==
  ASSUME NEW r \in Replays
  PROVE  /\ Stopped(Rebuild(r)) \/ Balanced(Rebuild(r))
         /\ Rebuild(r).last = r.last /\ (Stopped(r) => Stopped(Rebuild(r)))
<1> PICK s \in Seq(AdvMsgs) : s = r.adv
  BY DEF Replays
<1> PICK T : T = Int
  OBVIOUS
<1>0. PICK all \in Seq(T) :
        /\ all = FlattenSeq([i \in DOMAIN s |-> s[i].calls])
        /\ \A c : Elem(all, c) <=> Calls(s, c)
  BY AllCalls
<1> PICK N \in Nat : N = Len(all) /\ DOMAIN all = 1..N
  OBVIOUS
<1>9. ASSUME NEW c PROVE Elem(all, c) <=> \E i \in 1..N : all[i] = c
  <2>1. 1..N = 1..Len(all)
    OBVIOUS
  <2> QED  BY <2>1 DEF Elem
<1> PICK R : R = Refs(s)
  OBVIOUS
<1> DEFINE F(i) == CallOf(all[i], i, IF all[i] \in R THEN "closed" ELSE "declared")
<1> PICK calls : calls = [i \in 1..N |-> F(i)]
  OBVIOUS
<1>1. Len(calls) = N /\ DOMAIN calls = 1..N
  OBVIOUS
<1>2. \A i \in 1..N : calls[i].id = all[i] /\ (calls[i].phase # "closed" <=> all[i] \notin R)
  <2>1. \A x, i, p : CallOf(x, i, p).id = x /\ CallOf(x, i, p).phase = p
    BY DEF CallOf
  <2>2. \A i \in 1..N : calls[i] = F(i)
    OBVIOUS
  <2> QED  BY <2>1, <2>2
<1> HIDE DEF F
<1>3. Rebuild(r) = IF ~Coherent(r.adv) THEN Raise(r, "pending_tool_outputs_block_message")
                   ELSE [r EXCEPT !.calls = calls]
  BY <1>0 DEF Rebuild, F
<1>4. CASE ~Coherent(r.adv)
  <2>1. Rebuild(r) = Raise(r, "pending_tool_outputs_block_message")
    BY <1>3, <1>4
  <2>2. Stopped(Raise(r, "pending_tool_outputs_block_message"))
    BY Reasons, RefuseType DEF Stopped
  <2>3. Raise(r, "pending_tool_outputs_block_message").last = r.last
    BY DEF Raise, Replays
  <2> QED  BY <2>1, <2>2, <2>3
<1>5. CASE Coherent(r.adv)
  <2> PICK q : q = [r EXCEPT !.calls = calls]
    OBVIOUS
  <2>1. q = Rebuild(r)
    BY <1>3, <1>5
  <2>2. q.calls = calls /\ q.adv = s /\ q.last = r.last /\ q.err = r.err /\ q.main = r.main
    BY DEF Replays
  <2>3. ASSUME NEW c PROVE IsLoose(q, c) <=> Calls(s, c) /\ c \notin R
    <3>0. 1..Len(q.calls) = 1..N /\ \A i \in 1..N : q.calls[i] = calls[i]
      BY <1>1, <2>2
    <3>1. IsLoose(q, c) <=> \E i \in 1..N : all[i] = c /\ all[i] \notin R
      <4>1. ASSUME IsLoose(q, c) PROVE \E i \in 1..N : all[i] = c /\ all[i] \notin R
        <5>1. PICK i \in 1..N : q.calls[i].id = c /\ q.calls[i].phase # "closed"
          BY <3>0, <4>1 DEF IsLoose
        <5> QED  BY <1>2, <3>0, <5>1
      <4>2. ASSUME NEW i \in 1..N, all[i] = c, all[i] \notin R PROVE IsLoose(q, c)
        <5>1. q.calls[i].id = c /\ q.calls[i].phase # "closed"
          BY <1>2, <3>0, <4>2
        <5> QED  BY <3>0, <5>1 DEF IsLoose
      <4> QED  BY <4>1, <4>2
    <3>2. (\E i \in 1..N : all[i] = c) <=> Elem(all, c)
      BY <1>9
    <3>3. Elem(all, c) <=> Calls(s, c)
      BY <1>0
    <3> QED  BY <3>1, <3>2, <3>3
  <2>5. Loose(q) = Pending(q.adv)
    BY <2>2, <2>3 DEF Loose, Pending
  <2> QED  BY <2>1, <2>2, <2>5 DEF Balanced, Stopped, Refusal
<1> QED  BY <1>4, <1>5

\* The same calls and the same thread count the same.
LEMMA CountedSame ==
  ASSUME NEW r, NEW q, q.calls = r.calls, q.adv = r.adv
  PROVE  Loose(q) = Loose(r) /\ (Balanced(r) => Balanced(q))
<1>1. \A c : IsLoose(q, c) <=> IsLoose(r, c)
  BY DEF IsLoose
<1>2. Loose(q) = Loose(r)
  BY <1>1 DEF Loose
<1> QED  BY <1>2 DEF Balanced

\* A replay with the side of a checkpoint.
LEMMA CheckpointPut ==
  ASSUME NEW r \in Replays, NEW s \in Checkpoints
  PROVE  [r EXCEPT !.memory = s.memory, !.adv = s.adv, !.enabled = s.enabled,
                   !.blocked = s.blocked, !.ck = FALSE] \in Replays
BY DEF Replays, Checkpoints

\* A state taken over is counted.
LEMMA WithStateCounts ==
  ASSUME NEW r \in Replays, NEW item \in ReasoningItems, Balanced(r)
  PROVE  Stopped(WithState(r, item)) \/ Balanced(WithState(r, item))
<1> PICK s : s = item.state
  OBVIOUS
<1>1. CASE s \in Checkpoints
  <2> PICK f \in Replays : f = FreedFor(r, item.main)
    <3>1. InterruptDeclared(r.main) \in Mains
      BY InterruptType DEF Replays
    <3> PICK p \in Replays : p = [r EXCEPT !.main = InterruptDeclared(r.main)]
      BY <3>1, MainPut
    <3>2. FreedFor(r, item.main) = p \/ FreedFor(r, item.main) = r
      BY DEF FreedFor
    <3> QED  BY <3>2
  <2> PICK g \in Replays : g = [f EXCEPT !.deferred = FALSE]
    BY DEF Replays
  <2> DEFINE q == [g EXCEPT !.memory = s.memory, !.adv = s.adv, !.enabled = s.enabled,
                            !.blocked = s.blocked, !.ck = FALSE]
  <2>1. q \in Replays
    BY <1>1, CheckpointPut
  <2>2. WithState(r, item) = Rebuild(q)
    <3>1. s.type = "checkpoint"
      BY <1>1 DEF Checkpoints
    <3> QED  BY <3>1 DEF WithState, ApplyCheckpoint
  <2> HIDE DEF q
  <2> QED  BY <2>1, <2>2, RebuildCounts
<1>2. CASE s \in StatePatches
  <2>1. WithState(r, item) = ApplyPatch(r, s)
    BY <1>2, WithStateType
  <2> PICK h \in Replays : h = HeadPatched(r, s)
    BY <1>2, HeadPatchedType
  <2>2. h.calls = r.calls /\ h.adv = r.adv
    BY DEF HeadPatched, Replays
  <2>3. CASE s.adv = NoChange
    <3>1. ApplyPatch(r, s) = h
      BY <2>3 DEF ApplyPatch
    <3> QED  BY <2>1, <2>2, <3>1, CountedSame
  <2>4. CASE s.adv # NoChange /\ (s.adv.over # Len(r.adv) \/ ~AllBegun(ListPatched(r.adv, s.adv)))
    <3>1. ApplyPatch(r, s) = Raise(r, "reasoning_thread_patch_invalid")
      BY <2>4 DEF ApplyPatch
    <3>2. Stopped(Raise(r, "reasoning_thread_patch_invalid"))
      BY Reasons, RefuseType DEF Stopped
    <3> QED  BY <2>1, <3>1, <3>2
  <2>5. CASE s.adv # NoChange /\ ~(s.adv.over # Len(r.adv) \/ ~AllBegun(ListPatched(r.adv, s.adv)))
    <3> PICK adv \in Seq(AdvMsgs) : adv = ListPatched(r.adv, s.adv)
      <4>1. r.adv \in Seq(AdvMsgs) /\ s.adv \in ListPatches /\ s.adv.over = Len(r.adv)
        BY <1>2, <2>5 DEF Replays, StatePatches
      <4> QED  BY <4>1, ListPatchedType
    <3>1. ApplyPatch(r, s) = Rebuild([h EXCEPT !.adv = adv])
      BY <2>2, <2>5 DEF ApplyPatch
    <3>2. [h EXCEPT !.adv = adv] \in Replays
      BY DEF Replays
    <3> QED  BY <2>1, <3>1, <3>2, RebuildCounts
  <2> QED  BY <2>3, <2>4, <2>5
<1> QED  BY <1>1, <1>2 DEF ReasoningItems

\* Nothing is against the reasoning item.
Allowed(r, item) == ReasoningRefusal(r, item) = ""

\* A reasoning item that is believed is the last, and leaves the replay counted.
LEMMA ReasoningCounts ==
  ASSUME NEW r \in Replays, NEW item \in ReasoningItems, Balanced(r), ~Stopped(StepReasoning(r, item))
  PROVE  /\ Balanced(StepReasoning(r, item)) /\ StepReasoning(r, item).last = item.id
         /\ Allowed(r, item)
<1> PICK why \in Errors : why = ReasoningRefusal(r, item)
  BY ReasoningRefusalType
<1>1. why = ""
  <2>1. why # "" => StepReasoning(r, item) = Raise(r, why)
    BY DEF StepReasoning, Authenticated
  <2>2. why # "" => Stopped(Raise(r, why))
    BY RefuseType DEF Stopped
  <2> QED  BY <2>1, <2>2
<1> PICK q \in Replays : q = WithState(r, item)
  BY WithStateType
<1> PICK t \in Replays : t = WithMain(q, item.main) /\ (Stopped(q) => Stopped(t))
  <2>1. item.main \in MainUpdates
    BY DEF ReasoningItems
  <2> QED  BY <2>1, WithMainType DEF Stopped
<1>2. StepReasoning(r, item) = [t EXCEPT !.last = item.id]
  BY <1>1 DEF StepReasoning, Authenticated
<1> PICK p : p = [t EXCEPT !.last = item.id]
  OBVIOUS
<1>3. p.last = item.id /\ p.calls = t.calls /\ p.adv = t.adv /\ p.err = t.err /\ p.main = t.main
  BY DEF Replays
<1>4. Stopped(p) <=> Stopped(t)
  BY <1>3 DEF Stopped, Refusal
<1>5. Balanced(q)
  <2>1. ~Stopped(q)
    BY <1>2, <1>4
  <2> QED  BY <2>1, WithStateCounts
<1>6. t.calls = q.calls /\ t.adv = q.adv
  BY DEF WithMain, Replays
<1>7. Balanced(t)
  BY <1>5, <1>6, CountedSame
<1>8. Balanced(p)
  <2>1. p.calls = t.calls /\ p.adv = t.adv
    BY <1>3
  <2> QED  BY <1>7, <2>1, CountedSame
<1> QED  BY <1>1, <1>2, <1>3, <1>8 DEF Allowed

\* An output in the thread answers its call.
LEMMA PendingAnswered ==
  ASSUME NEW s \in Seq(AdvMsgs), NEW o \in AdvMsgs, IsTool(o)
  PROVE  Pending(Append(s, o)) = Pending(s) \ {o.ref}
<1>2. o.calls = <<>>
  BY AdvMsgFields
<1> PICK t \in Seq(AdvMsgs) : t = <<o>>
  BY <1>2, SquaredNote
<1>1. Len(t) = 1 /\ t[1] = o /\ Append(s, o) = s \o t
  OBVIOUS
<1> PICK q \in Seq(AdvMsgs) : q = s \o t
  BY Joins
<1>3. ASSUME NEW c PROVE c \in Refs(q) <=> c \in Refs(s) \/ c = o.ref
  <2>1. c \in Refs(t) <=> \E j \in 1..Len(t) : IsTool(t[j]) /\ t[j].ref = c
    BY RefsAre
  <2>2. c \in Refs(t) <=> c = o.ref
    BY <1>1, <2>1
  <2> QED  BY <2>2, RefsJoined
<1>4. ASSUME NEW c PROVE Calls(q, c) <=> Calls(s, c)
  <2>1. /\ Len(q) = Len(s) + 1 /\ Len(s) \in Nat /\ \A i \in 1..Len(s) : q[i] = s[i]
        /\ q[Len(s) + 1] = o
    BY <1>1
  <2>2. ASSUME NEW i \in 1..Len(q), NEW k \in 1..Len(q[i].calls), q[i].calls[k] = c PROVE Calls(s, c)
    <3>1. i # Len(s) + 1
      <4>1. i = Len(s) + 1 => 1..Len(q[i].calls) = {}
        BY <1>2, <2>1
      <4> QED  BY <4>1
    <3>2. i \in 1..Len(s) /\ q[i] = s[i]
      BY <2>1, <3>1
    <3> QED  BY <2>2, <3>2, CallsAre
  <2>3. ASSUME NEW i \in 1..Len(s), NEW k \in 1..Len(s[i].calls), s[i].calls[k] = c PROVE Calls(q, c)
    <3>1. i \in 1..Len(q) /\ q[i] = s[i]
      BY <2>1
    <3> QED  BY <2>3, <3>1, CallsAre
  <2>4. Calls(q, c) <=> \E i \in 1..Len(q) : \E k \in 1..Len(q[i].calls) : q[i].calls[k] = c
    BY CallsAre
  <2>5. Calls(s, c) <=> \E i \in 1..Len(s) : \E k \in 1..Len(s[i].calls) : s[i].calls[k] = c
    BY CallsAre
  <2> QED  BY <2>2, <2>3, <2>4, <2>5
<1>5. Pending(q) = Pending(s) \ {o.ref}
  BY <1>3, <1>4 DEF Pending
<1> QED  BY <1>1, <1>5

\* What a call in another phase is, and that the others stay.
LEMMA PhaseLoose ==
  ASSUME NEW r \in Replays, NEW c, NEW ph, NEW q, q = SetSidePhase(r, c, ph)
  PROVE  /\ \A d : d # c => (IsLoose(q, d) <=> IsLoose(r, d))
         /\ ph = "closed" => ~IsLoose(q, c)
         /\ ph # "closed" /\ IsLoose(r, c) => IsLoose(q, c)
<1> PICK T : T = CallRecords
  OBVIOUS
<1> PICK s \in Seq(T) : s = r.calls
  BY DEF Replays
<1> PICK N \in Nat : N = Len(s) /\ DOMAIN s = 1..N
  OBVIOUS
<1>1. \A x \in T : x = [id |-> x.id, order |-> x.order, phase |-> x.phase]
  BY DEF CallRecords
<1> PICK calls : calls = [i \in 1..N |-> IF s[i].id = c THEN [s[i] EXCEPT !.phase = ph] ELSE s[i]]
  OBVIOUS
<1>2. q.calls = calls
  BY DEF SetSidePhase, Replays
<1>3. Len(calls) = N
  OBVIOUS
<1>4. ASSUME NEW i \in 1..N
      PROVE  /\ calls[i].id = s[i].id
             /\ calls[i].phase = IF s[i].id = c THEN ph ELSE s[i].phase
  <2> PICK x \in T : x = s[i]
    OBVIOUS
  <2>1. calls[i] = IF x.id = c THEN [x EXCEPT !.phase = ph] ELSE x
    OBVIOUS
  <2> QED  BY <1>1, <2>1
<1>5. \A d : IsLoose(q, d) <=> \E i \in 1..N : calls[i].id = d /\ calls[i].phase # "closed"
  BY <1>2, <1>3 DEF IsLoose
<1>6. \A d : IsLoose(r, d) <=> \E i \in 1..N : s[i].id = d /\ s[i].phase # "closed"
  BY DEF IsLoose
<1>7. ASSUME NEW d, d # c PROVE IsLoose(q, d) <=> IsLoose(r, d)
  BY <1>4, <1>5, <1>6, <1>7
<1>8. ph = "closed" => ~IsLoose(q, c)
  BY <1>4, <1>5
<1>9. ph # "closed" /\ IsLoose(r, c) => IsLoose(q, c)
  BY <1>4, <1>5, <1>6
<1> QED  BY <1>7, <1>8, <1>9

\* What a replay, a base or a state says beside the advisor's thread.
Gist(x) == <<x.memory, x.enabled, x.blocked>>

\* q waits for what r waits for.
Stays(r, q) == q.last = r.last /\ Gist(q) = Gist(r) /\ q.adv = r.adv /\ Loose(q) = Loose(r)

\* The item is an output for a call that r waits for.
Gives(r, q, item) ==
  /\ item.t = "output" /\ item.thread = "advisor" /\ item.id \in Loose(r)
  /\ q.last = r.last /\ Gist(q) = Gist(r)
  /\ q.adv = Append(r.adv, Output(item.id, item.out, {}))
  /\ Loose(q) = Loose(r) \ {item.id}

\* Nothing but main's half changes.
LEMMA MainStays ==
  ASSUME NEW r, NEW q, q.last = r.last, q.memory = r.memory, q.enabled = r.enabled,
         q.blocked = r.blocked, q.adv = r.adv, q.calls = r.calls
  PROVE  Stays(r, q)
BY CountedSame DEF Stays, Gist

\* A message changes nothing of the advisor.
LEMMA MessageStays ==
  ASSUME NEW r \in Replays, NEW item PROVE Stays(r, StepMessage(r, item))
<1> PICK user \in BOOLEAN : user = (item.role = "user")
  OBVIOUS
<1> PICK a \in Replays : a = AtBoundary(r, user)
  BY AtBoundaryType
<1>1. /\ a.last = r.last /\ a.memory = r.memory /\ a.enabled = r.enabled
      /\ a.blocked = r.blocked /\ a.adv = r.adv /\ a.calls = r.calls
  BY DEF AtBoundary, Replays
<1> PICK q : q = [a EXCEPT !.ck = @ \/ user, !.main = AppendMessage(@, MessageOf(item))]
  OBVIOUS
<1>2. StepMessage(r, item) = q
  BY DEF StepMessage
<1>3. /\ q.last = a.last /\ q.memory = a.memory /\ q.enabled = a.enabled
      /\ q.blocked = a.blocked /\ q.adv = a.adv /\ q.calls = a.calls
  BY DEF Replays
<1>4. /\ q.last = r.last /\ q.memory = r.memory /\ q.enabled = r.enabled
      /\ q.blocked = r.blocked /\ q.adv = r.adv /\ q.calls = r.calls
  BY <1>1, <1>3
<1>5. Stays(r, q)
  BY <1>4, MainStays
<1> QED  BY <1>2, <1>5

\* An advisor's call is opened, or the replay is refused.
LEMMA CallStays ==
  ASSUME NEW r \in Replays, NEW item \in [t : {"call"}, thread : Threads, id : Int],
         ~Stopped(StepCall(r, item))
  PROVE  Stays(r, StepCall(r, item))
<1>1. ASSUME NEW why \in Errors, why # "" PROVE Stopped(Raise(r, why))
  BY <1>1, RefuseType DEF Stopped
<1>2. CASE item.thread # "advisor"
  <2>1. StepCall(r, item) # Raise(r, "inactive_thread_function_call")
    BY <1>1, Reasons
  <2>2. StepCall(r, item) = [r EXCEPT !.main = AddCall(@, item.id)]
    BY <1>2, <2>1 DEF StepCall
  <2> PICK q : q = [r EXCEPT !.main = AddCall(@, item.id)]
    OBVIOUS
  <2>3. /\ q.last = r.last /\ q.memory = r.memory /\ q.enabled = r.enabled
        /\ q.blocked = r.blocked /\ q.adv = r.adv /\ q.calls = r.calls
    BY DEF Replays
  <2> QED  BY <2>2, <2>3, MainStays
<1>3. CASE item.thread = "advisor"
  <2> PICK q : q = SetSidePhase(r, item.id, "open")
    OBVIOUS
  <2>1. /\ StepCall(r, item) # Raise(r, "inactive_thread_function_call")
        /\ StepCall(r, item) # Raise(r, "function_call_already_satisfied")
        /\ StepCall(r, item) # Raise(r, "duplicate_pending_function_call")
    BY <1>1, Reasons
  <2>2. \/ StepCall(r, item) = r
        \/ /\ StepCall(r, item) = q
           /\ item.id \notin SidePhased(r, "closed") /\ \E i \in DOMAIN r.calls : r.calls[i].id = item.id
    BY <1>3, <2>1 DEF StepCall
  <2>3. CASE StepCall(r, item) = r
    BY <2>3 DEF Stays
  <2>4. CASE /\ StepCall(r, item) = q
             /\ item.id \notin SidePhased(r, "closed") /\ \E i \in DOMAIN r.calls : r.calls[i].id = item.id
    <3>1. IsLoose(r, item.id)
      <4> PICK s \in Seq(CallRecords) : s = r.calls
        BY DEF Replays
      <4>1. DOMAIN r.calls = 1..Len(r.calls)
        OBVIOUS
      <4> QED  BY <2>4, <4>1 DEF SidePhased, IsLoose
    <3>2. \A d : IsLoose(q, d) <=> IsLoose(r, d)
      <4>1. IsLoose(q, item.id)
        BY <3>1, PhaseLoose
      <4>2. \A d : d # item.id => (IsLoose(q, d) <=> IsLoose(r, d))
        BY PhaseLoose
      <4> QED  BY <3>1, <4>1, <4>2
    <3>3. Loose(q) = Loose(r)
      BY <3>2 DEF Loose
    <3>4. /\ q.last = r.last /\ q.memory = r.memory /\ q.enabled = r.enabled
          /\ q.blocked = r.blocked /\ q.adv = r.adv
      BY DEF SetSidePhase, Replays
    <3> QED  BY <2>4, <3>3, <3>4 DEF Stays, Gist
  <2> QED  BY <2>2, <2>3, <2>4
<1> QED  BY <1>2, <1>3

\* An output for the advisor answers a call that is loose, or changes nothing.
LEMMA OutputStays ==
  ASSUME NEW r \in Replays, NEW item \in [t : {"output"}, thread : Threads, id : Int, out : Int],
         ~Stopped(StepOutput(r, item))
  PROVE  Stays(r, StepOutput(r, item)) \/ Gives(r, StepOutput(r, item), item)
<1>1. CASE item.thread # "advisor"
  <2>1. StepOutput(r, item) = [r EXCEPT !.main = AddOutput(@, item.id, item.out)]
    BY <1>1 DEF StepOutput
  <2> PICK q : q = [r EXCEPT !.main = AddOutput(@, item.id, item.out)]
    OBVIOUS
  <2>2. /\ q.last = r.last /\ q.memory = r.memory /\ q.enabled = r.enabled
        /\ q.blocked = r.blocked /\ q.adv = r.adv /\ q.calls = r.calls
    BY DEF Replays
  <2> QED  BY <2>1, <2>2, MainStays
<1>2. CASE item.thread = "advisor"
  <2> PICK q : q = SetSidePhase(r, item.id, "closed")
    OBVIOUS
  <2> PICK p : p = [q EXCEPT !.adv = Append(@, Output(item.id, item.out, {}))]
    OBVIOUS
  <2>1. StepOutput(r, item) # Raise(r, "function_call_output_without_pending_function_call")
    BY Reasons, RefuseType DEF Stopped
  <2>2. \/ StepOutput(r, item) = r
        \/ StepOutput(r, item) = p /\ item.id \in SidePhased(r, "open")
    BY <1>2, <2>1 DEF StepOutput
  <2>3. CASE StepOutput(r, item) = r
    BY <2>3 DEF Stays
  <2>4. CASE StepOutput(r, item) = p /\ item.id \in SidePhased(r, "open")
    <3>1. IsLoose(r, item.id) /\ item.id \in Int
      <4> PICK s \in Seq(CallRecords) : s = r.calls
        BY DEF Replays
      <4>1. DOMAIN r.calls = 1..Len(r.calls)
        OBVIOUS
      <4> QED  BY <2>4, <4>1 DEF SidePhased, IsLoose
    <3>2. \A d : IsLoose(q, d) <=> IsLoose(r, d) /\ d # item.id
      <4>1. ~IsLoose(q, item.id)
        BY PhaseLoose
      <4>2. \A d : d # item.id => (IsLoose(q, d) <=> IsLoose(r, d))
        BY PhaseLoose
      <4> QED  BY <4>1, <4>2
    <3>3. /\ q.last = r.last /\ q.memory = r.memory /\ q.enabled = r.enabled
          /\ q.blocked = r.blocked /\ q.adv = r.adv
      BY DEF SetSidePhase, Replays
    <3>4. /\ p.last = q.last /\ p.memory = q.memory /\ p.enabled = q.enabled
          /\ p.blocked = q.blocked /\ p.calls = q.calls
          /\ p.adv = Append(q.adv, Output(item.id, item.out, {}))
      BY DEF SetSidePhase, Replays
    <3>5. \A d : IsLoose(p, d) <=> IsLoose(r, d) /\ d # item.id
      <4>1. \A d : IsLoose(p, d) <=> IsLoose(q, d)
        BY <3>4 DEF IsLoose
      <4> QED  BY <3>2, <4>1
    <3>6. Loose(p) = Loose(r) \ {item.id} /\ item.id \in Loose(r)
      BY <3>1, <3>5 DEF Loose
    <3> QED  BY <1>2, <2>4, <3>3, <3>4, <3>6 DEF Gives, Gist
  <2> QED  BY <2>2, <2>3, <2>4
<1> QED  BY <1>1, <1>2

\* An item of another kind leaves what r waits for, or answers it.
LEMMA PlainStays ==
  ASSUME NEW r \in Replays, NEW item \in PlainItems, ~Stopped(Step(r, item)), ~Stopped(r)
  PROVE  Stays(r, Step(r, item)) \/ Gives(r, Step(r, item), item)
<1>1. CASE item \in [t : {"message"}, role : Roles, id : Int]
  <2>1. Step(r, item) = StepMessage(r, item)
    BY <1>1 DEF Step, Stopped
  <2> QED  BY <2>1, MessageStays
<1>2. CASE item \in [t : {"call"}, thread : Threads, id : Int]
  <2>1. Step(r, item) = StepCall(r, item)
    BY <1>2 DEF Step, Stopped
  <2> QED  BY <1>2, <2>1, CallStays
<1>3. CASE item \in [t : {"output"}, thread : Threads, id : Int, out : Int]
  <2>1. Step(r, item) = StepOutput(r, item)
    BY <1>3 DEF Step, Stopped
  <2> QED  BY <1>3, <2>1, OutputStays
<1> QED  BY <1>1, <1>2, <1>3 DEF PlainItems

-----------------------------------------------------------------------------
(* The chain of reasoning items.                                           *)

\* What the reasoning item with this id sealed; nothing, if there is none.
Origin(sl, id) == IF id \in DOMAIN sl THEN sl[id] ELSE Fresh
Known(sl, id) == id \in DOMAIN sl \/ id = 0

\* The item is the output that the thread waits for, and what it adds.
IsOutput(y) == y.t = "output" /\ y.thread = "advisor"
AnswerTo(y, adv) == IsOutput(y) /\ y.id \in Pending(adv)
Reply(y) == Output(y.id, y.out, {})

\* b is what s was sealed as, with the output it waited for if it did for one of W.
Told(b, s, W) ==
  /\ Gist(b) = Gist(s)
  /\ Pending(s.adv) = {} => b.adv = s.adv
  /\ Pending(s.adv) # {} => \E y \in W : AnswerTo(y, s.adv) /\ b.adv = Append(s.adv, Reply(y))

\* No two outputs for one call.
UniqueOuts(W) == \A y, z \in W : IsOutput(y) /\ IsOutput(z) /\ y.id = z.id => y = z

\* Every call of the sealed thread is answered, but for one a client may answer.
WellKept(s, n) ==
  /\ Early(s.adv, n)
  /\ Squared(s.adv) \/ (s.enabled /\ \E c : Owes(s.adv, c))
SealsWell(sl, n) ==
  DOMAIN sl \subseteq 1..(n - 1) /\ \A k \in DOMAIN sl : sl[k] \in States /\ WellKept(sl[k], n)

\* What a reasoning item says is what was sealed, against what the item before it sealed.
Linked(x, sl, W) ==
  /\ x.id \in DOMAIN sl
  /\ \/ x.state = Checkpoint(sl[x.id])
     \/ /\ Known(sl, x.prev)
        /\ \E b \in Bases : Told(b, Origin(sl, x.prev), W) /\ x.state = StatePatch(b, sl[x.id])

\* The replay is where its last reasoning item was sealed, or has heard the output after.
Follow(r, sl, W) ==
  /\ Balanced(r) /\ Known(sl, r.last) /\ Gist(r) = Gist(Origin(sl, r.last))
  /\ \/ r.adv = Origin(sl, r.last).adv
     \/ \E y \in W : /\ AnswerTo(y, Origin(sl, r.last).adv)
                     /\ r.adv = Append(Origin(sl, r.last).adv, Reply(y))

\* What is sealed waits for one output at most.
LEMMA OriginWell ==
  ASSUME NEW n \in Nat \ {0}, NEW sl, SealsWell(sl, n), NEW id, NEW s, s = Origin(sl, id)
  PROVE  /\ s.adv \in Seq(AdvMsgs) /\ WellKept(s, n)
         /\ Pending(s.adv) # {} => s.enabled /\ \E c : Owes(s.adv, c) /\ Pending(s.adv) = {c}
<1>1. s.adv \in Seq(AdvMsgs) /\ WellKept(s, n)
  <2>1. CASE id \in DOMAIN sl
    BY <2>1 DEF Origin, SealsWell, States
  <2>2. CASE id \notin DOMAIN sl
    <3>1. s.adv = <<>>
      BY <2>2 DEF Origin, Fresh
    <3>2. Squared(<<>>) /\ Early(<<>>, n) /\ <<>> \in Seq(AdvMsgs)
      BY DEF Squared, Early
    <3> QED  BY <3>1, <3>2 DEF WellKept
  <2> QED  BY <2>1, <2>2
<1> PICK adv \in Seq(AdvMsgs) : adv = s.adv
  BY <1>1
<1>2. Squared(adv) => Pending(adv) = {}
  BY SquaredPending
<1>3. \A c : Owes(adv, c) => Pending(adv) = {c}
  BY SquaredPending
<1> QED  BY <1>1, <1>2, <1>3 DEF WellKept

\* A thread waits for one output at most.
AwaitsOne(adv) == \A c, d : c \in Pending(adv) /\ d \in Pending(adv) => c = d

\* So does what is sealed.
LEMMA OriginOne ==
  ASSUME NEW n \in Nat \ {0}, NEW sl, SealsWell(sl, n), NEW id
  PROVE  AwaitsOne(Origin(sl, id).adv)
<1> PICK s : s = Origin(sl, id)
  OBVIOUS
<1> PICK p : p = Pending(s.adv)
  OBVIOUS
<1>1. p = {} \/ \E e : p = {e}
  BY OriginWell
<1> QED  BY <1>1 DEF AwaitsOne

\* A reply is a message of the advisor's thread.
LEMMA ReplyType ==
  ASSUME NEW y \in Items, y.t = "output"
  PROVE  Reply(y) \in AdvMsgs /\ IsTool(Reply(y)) /\ Reply(y).ref = y.id /\ Reply(y).calls = <<>>
<1>1. y.id \in Int /\ y.out \in Int
  BY DEF Items, PlainItems, ReasoningItems
<1>2. {} \in SUBSET Int
  OBVIOUS
<1>3. Output(y.id, y.out, {}) \in AdvOutputs
  BY <1>1, <1>2, OutputType
<1>4. Reply(y).ref = y.id /\ Reply(y).role = "tool" /\ Reply(y).calls = <<>>
  BY DEF Reply, Output
<1> QED  BY <1>3, <1>4 DEF Reply, AdvMsgs, IsTool

\* Every call is answered when none is open and none declared.
LEMMA PhasedLoose ==
  ASSUME NEW r \in Replays, SidePhased(r, "open") = {}, SidePhased(r, "declared") = {}
  PROVE  Loose(r) = {}
<1> PICK s \in Seq(CallRecords) : s = r.calls
  BY DEF Replays
<1>1. SidePhased(r, "open") = {} /\ SidePhased(r, "declared") = {}
  OBVIOUS
<1>2. DOMAIN s = 1..Len(s)
  OBVIOUS
<1>3. ASSUME NEW i \in 1..Len(s) PROVE s[i].phase = "closed"
  <2>1. s[i].phase \in {"declared", "open", "closed"}
    <3>1. s[i] \in CallRecords
      OBVIOUS
    <3> QED  BY <3>1 DEF CallRecords
  <2>2. ASSUME NEW ph, s[i].phase = ph PROVE s[i].id \in SidePhased(r, ph)
    <3>1. i \in {j \in DOMAIN r.calls : r.calls[j].phase = ph}
      BY <1>2, <2>2
    <3>2. r.calls[i].id \in {r.calls[k].id : k \in {j \in DOMAIN r.calls : r.calls[j].phase = ph}}
      BY <3>1, Zenon
    <3> QED  BY <3>2 DEF SidePhased
  <2> QED  BY <1>1, <2>1, <2>2
<1> QED  BY <1>3 DEF Loose, IsLoose

\* A new link may begin.
Passes(r, allowed) == BoundaryRefusal(r, allowed) = ""

\* Once an item starts a new link, an enabled advisor waits for nothing.
LEMMA BoundaryPassed ==
  ASSUME NEW r \in Replays, NEW allowed, Passes(r, allowed), r.enabled
  PROVE  Loose(r) = {}
<1>1. SidePhased(r, "open") = {} /\ SidePhased(r, "declared") = {}
  BY DEF Passes, BoundaryRefusal
<1> QED  BY <1>1, PhasedLoose

\* An item of another kind leaves the replay where it is, or is what it waits for.
LEMMA FollowPlain ==
  ASSUME NEW n \in Nat \ {0}, NEW sl, SealsWell(sl, n), NEW W, W \subseteq Items,
         NEW r \in Replays, NEW x \in PlainItems, x \in W, Follow(r, sl, W), ~Stopped(r),
         ~Stopped(Step(r, x))
  PROVE  Follow(Step(r, x), sl, W) /\ Step(r, x).last = r.last
<1> PICK q : q = Step(r, x)
  OBVIOUS
<1> PICK s : s = Origin(sl, r.last)
  OBVIOUS
<1>1. s.adv \in Seq(AdvMsgs) /\ \A c, d : c \in Pending(s.adv) /\ d \in Pending(s.adv) => c = d
  BY OriginWell
<1>2. Balanced(r) /\ Known(sl, r.last) /\ Gist(r) = Gist(s)
  BY DEF Follow
<1>3. r.adv = s.adv \/ \E y \in W : AnswerTo(y, s.adv) /\ r.adv = Append(s.adv, Reply(y))
  BY DEF Follow
<1>4. Stays(r, q) \/ Gives(r, q, x)
  BY PlainStays
<1>5. CASE Stays(r, q)
  <2>1. q.last = r.last /\ Gist(q) = Gist(r) /\ q.adv = r.adv /\ Loose(q) = Loose(r)
    BY <1>5 DEF Stays
  <2>2. Balanced(q)
    BY <1>2, <2>1 DEF Balanced
  <2> QED  BY <1>2, <1>3, <2>1, <2>2 DEF Follow
<1>6. CASE Gives(r, q, x)
  <2>1. /\ x.t = "output" /\ x.thread = "advisor" /\ x.id \in Loose(r)
        /\ q.last = r.last /\ Gist(q) = Gist(r)
        /\ q.adv = Append(r.adv, Reply(x)) /\ Loose(q) = Loose(r) \ {x.id}
    BY <1>6 DEF Gives, Reply
  <2>2. x.id \in Pending(r.adv)
    BY <1>2, <2>1 DEF Balanced
  <2>3. r.adv = s.adv
    <3>1. ASSUME NEW y \in W, AnswerTo(y, s.adv), r.adv = Append(s.adv, Reply(y)) PROVE FALSE
      <4>1. y \in Items /\ y.t = "output" /\ y.id \in Pending(s.adv)
        BY <3>1 DEF AnswerTo, IsOutput
      <4>2. Reply(y) \in AdvMsgs /\ IsTool(Reply(y)) /\ Reply(y).ref = y.id
        BY <4>1, ReplyType
      <4>3. Pending(Append(s.adv, Reply(y))) = Pending(s.adv) \ {Reply(y).ref}
        BY <1>1, <4>2, PendingAnswered
      <4>4. x.id \in Pending(s.adv) /\ x.id # y.id
        BY <2>2, <3>1, <4>2, <4>3
      <4> QED  BY <1>1, <4>1, <4>4
    <3> QED  BY <1>3, <3>1
  <2>4. AnswerTo(x, s.adv)
    BY <2>1, <2>2, <2>3 DEF AnswerTo, IsOutput
  <2>5. Balanced(q)
    <3>1. Reply(x) \in AdvMsgs /\ IsTool(Reply(x)) /\ Reply(x).ref = x.id
      BY <2>1, ReplyType
    <3>2. Pending(Append(s.adv, Reply(x))) = Pending(s.adv) \ {Reply(x).ref}
      BY <1>1, <3>1, PendingAnswered
    <3> QED  BY <1>2, <2>1, <2>3, <3>1, <3>2 DEF Balanced
  <2>6. \E y \in W : AnswerTo(y, s.adv) /\ q.adv = Append(s.adv, Reply(y))
    BY <2>1, <2>3, <2>4
  <2> QED  BY <1>2, <2>1, <2>5, <2>6 DEF Follow
<1> QED  BY <1>4, <1>5, <1>6

\* A patch is only allowed after the item it was made against.
LEMMA PatchAllowed ==
  ASSUME NEW r, NEW item, Allowed(r, item), item.state.type # "checkpoint"
  PROVE  item.prev = r.last /\ \E allowed : Passes(r, allowed)
<1>1. \E allowed : BoundaryRefusal(r, allowed) = ""
  BY DEF Allowed, ReasoningRefusal
<1>2. item.prev = r.last
  BY DEF Allowed, ReasoningRefusal, ChainBroken
<1> QED  BY <1>1, <1>2 DEF Passes

\* A reasoning item that is believed takes the replay to what it sealed.
LEMMA FollowSealed ==
  ASSUME NEW n \in Nat \ {0}, NEW sl, SealsWell(sl, n), NEW W, W \subseteq Items, UniqueOuts(W),
         NEW r \in Replays, NEW x \in ReasoningItems, Linked(x, sl, W), Follow(r, sl, W),
         ~Stopped(r), ~Stopped(Step(r, x))
  PROVE  /\ Follow(Step(r, x), sl, W) /\ Step(r, x).last = x.id
         /\ Side(Step(r, x)) = Side(sl[x.id])
<1> PICK q : q = StepReasoning(r, x)
  OBVIOUS
<1>1. Step(r, x) = q
  <2>1. x.t = "reasoning"
    BY DEF ReasoningItems
  <2> QED  BY <2>1 DEF Step, Stopped
<1>2. Balanced(r) /\ ~Stopped(q)
  BY <1>1 DEF Follow
<1>3. Balanced(q) /\ q.last = x.id /\ Allowed(r, x)
  BY <1>2, ReasoningCounts
<1> PICK now \in States : now = sl[x.id] /\ now = Origin(sl, x.id) /\ x.id \in DOMAIN sl
  BY DEF Linked, SealsWell, Origin
<1>4. Side(q) = Side(now)
  <2>1. CASE x.state = Checkpoint(now)
    <3>1. Checkpoint(now) \in Checkpoints
      BY DEF Checkpoint, Checkpoints, States
    <3>2. /\ x.state.memory = now.memory /\ x.state.adv = now.adv
          /\ x.state.enabled = now.enabled /\ x.state.blocked = now.blocked
      BY <2>1 DEF Checkpoint
    <3>3. Side(WithState(r, x)) = Side(now)
      BY <2>1, <3>1, <3>2, WithStateType DEF Side
    <3> QED  BY <1>2, <3>3, StepReasoningType DEF Stopped
  <2>2. CASE x.state # Checkpoint(now)
    <3> PICK s : s = Origin(sl, x.prev)
      OBVIOUS
    <3> PICK b \in Bases : Told(b, s, W) /\ x.state = StatePatch(b, now)
      BY <2>2 DEF Linked
    <3>1. x.state.type # "checkpoint"
      BY DEF StatePatch
    <3>2. x.prev = r.last /\ \E allowed : Passes(r, allowed)
      BY <1>3, <3>1, PatchAllowed
    <3>3. Gist(r) = Gist(b) /\ Gist(r) = Gist(s)
      BY <3>2 DEF Told, Follow
    <3>10. ASSUME Pending(s.adv) # {} PROVE s.enabled
      BY <3>10, OriginWell
    <3>5. r.adv = s.adv \/ \E y \in W : AnswerTo(y, s.adv) /\ r.adv = Append(s.adv, Reply(y))
      BY <3>2 DEF Follow
    <3>6. r.adv = b.adv
      <4>1. CASE Pending(s.adv) = {}
        BY <3>5, <4>1 DEF Told, AnswerTo
      <4>2. CASE Pending(s.adv) # {}
        <5>1. r.enabled
          BY <3>3, <3>10, <4>2 DEF Gist
        <5>2. Pending(r.adv) = {}
          BY <1>2, <3>2, <5>1, BoundaryPassed DEF Balanced
        <5>3. r.adv # s.adv
          BY <4>2, <5>2
        <5> PICK y \in W : AnswerTo(y, s.adv) /\ r.adv = Append(s.adv, Reply(y))
          BY <3>5, <5>3
        <5> PICK z \in W : AnswerTo(z, s.adv) /\ b.adv = Append(s.adv, Reply(z))
          BY <4>2 DEF Told
        <5>4. y = z
          <6> PICK c, d : c = y.id /\ d = z.id
            OBVIOUS
          <6>1. c \in Pending(s.adv) /\ d \in Pending(s.adv) /\ IsOutput(y) /\ IsOutput(z)
            BY DEF AnswerTo
          <6>2. AwaitsOne(s.adv)
            BY OriginOne
          <6>3. c = d
            BY <6>1, <6>2 DEF AwaitsOne
          <6> QED  BY <6>1, <6>3 DEF UniqueOuts
        <5> QED  BY <5>4
      <4> QED  BY <4>1, <4>2
    <3>7. Side(r) = Side(b)
      BY <3>3, <3>6 DEF Gist, Side
    <3>8. x.state = StateUpdate(b, now, FALSE)
      BY DEF StateUpdate
    <3>9. Takes(q, r, now)
      BY <3>7, <3>8, StepSealed
    <3> QED  BY <1>2, <3>9 DEF Takes, Stopped
  <2> QED  BY <2>1, <2>2
<1>5. Gist(q) = Gist(Origin(sl, q.last)) /\ q.adv = Origin(sl, q.last).adv
  BY <1>3, <1>4 DEF Side, Gist
<1> QED  BY <1>1, <1>3, <1>4, <1>5 DEF Follow, Known

\* The items of a transcript.
Wire(q) == {q[i] : i \in 1..Len(q)}

\* What is on the wire.
LEMMA WireHas ==
  ASSUME NEW T, NEW q \in Seq(T)
  PROVE  /\ Wire(q) \subseteq T /\ \A i \in 1..Len(q) : q[i] \in Wire(q)
         /\ \A y \in Wire(q) : \E i \in 1..Len(q) : y = q[i]
BY DEF Wire

\* With more items it is where it was.
LEMMA FollowMore ==
  ASSUME NEW r, NEW sl, NEW W, NEW V, W \subseteq V, Follow(r, sl, W)
  PROVE  Follow(r, sl, V)
BY DEF Follow

\* With more items a reasoning item says what it said.
LEMMA LinkedMore ==
  ASSUME NEW x, NEW sl, NEW W, NEW V, W \subseteq V, Linked(x, sl, W)
  PROVE  Linked(x, sl, V)
BY DEF Linked, Told

\* A replay begins where nothing was sealed.
LEMMA FreshFollows ==
  ASSUME NEW n \in Nat \ {0}, NEW sl, SealsWell(sl, n), NEW W
  PROVE  Follow(Fresh, sl, W)
<1>1. Fresh.calls = <<>> /\ Fresh.adv = <<>> /\ Fresh.last = 0
  BY DEF Fresh
<1>2. Origin(sl, 0) = Fresh /\ Known(sl, 0)
  BY DEF SealsWell, Origin, Known
<1>3. Loose(Fresh) = {}
  BY <1>1 DEF Loose, IsLoose
<1>4. Pending(<<>>) = {}
  BY DEF Pending, Calls
<1> QED  BY <1>1, <1>2, <1>3, <1>4 DEF Follow, Balanced

\* Every item of a transcript is on the wire, and its reasoning items are linked.
Chained(t, sl, W) ==
  \A i \in 1..Len(t) : t[i] \in W /\ (t[i] \in ReasoningItems => Linked(t[i], sl, W))

\* One item more of a linked transcript.
LEMMA FollowStep ==
  ASSUME NEW n \in Nat \ {0}, NEW sl, SealsWell(sl, n), NEW W, W \subseteq Items, UniqueOuts(W),
         NEW r \in Replays, NEW x \in W, x \in ReasoningItems => Linked(x, sl, W),
         Stopped(r) \/ Follow(r, sl, W)
  PROVE  Stopped(Step(r, x)) \/ Follow(Step(r, x), sl, W)
<1>1. CASE Stopped(r)
  BY <1>1 DEF Step, Stopped
<1>2. CASE ~Stopped(r) /\ ~Stopped(Step(r, x)) /\ x \in ReasoningItems
  BY <1>2, FollowSealed
<1>3. CASE ~Stopped(r) /\ ~Stopped(Step(r, x)) /\ x \in PlainItems
  BY <1>3, FollowPlain
<1> QED  BY <1>1, <1>2, <1>3 DEF Items

\* The replay of linked items is where the last reasoning item was sealed.
LEMMA FollowAll ==
  ASSUME NEW n \in Nat \ {0}, NEW sl, SealsWell(sl, n), NEW W, W \subseteq Items, UniqueOuts(W),
         NEW t \in Seq(Items), Chained(t, sl, W)
  PROVE  Stopped(After(t)) \/ Follow(After(t), sl, W)
<1> PICK N \in Nat : N = Len(t)
  OBVIOUS
<1> PICK f \in [0..N -> Replays] :
      f[0] = Fresh /\ f[N] = After(t) /\ \A i \in 1..N : f[i] = Step(f[i - 1], t[i])
  BY AfterUnroll
<1> DEFINE Fits(r) == Stopped(r) \/ Follow(r, sl, W)
           Good == {i \in 0..N : Fits(f[i])}
<1>1. 0 \in Good
  BY FreshFollows
<1>2. ASSUME NEW i \in 0..(N - 1), i \in Good PROVE i + 1 \in Good
  <2>1. i + 1 \in 1..N /\ (i + 1) - 1 = i /\ i \in 0..N /\ i + 1 \in 0..N
    OBVIOUS
  <2> PICK x : x = t[i + 1]
    OBVIOUS
  <2> PICK r \in Replays : r = f[i]
    BY <2>1
  <2>2. f[i + 1] = Step(r, x)
    BY <2>1
  <2>3. x \in W /\ (x \in ReasoningItems => Linked(x, sl, W))
    BY <2>1 DEF Chained
  <2>4. Fits(r)
    BY <1>2
  <2>5. Fits(Step(r, x))
    BY <2>3, <2>4, FollowStep
  <2> HIDE DEF Fits
  <2> QED  BY <2>1, <2>2, <2>5
<1>3. N \in Good
  <2> HIDE DEF Good
  <2>1. Inductive(Good, N)
    BY <1>1, <1>2 DEF Inductive
  <2> QED  BY <2>1, UptoInduction
<1> QED  BY <1>3

\* One item of another kind more, of what the client answers.
LEMMA FollowOnce ==
  ASSUME NEW n \in Nat \ {0}, NEW sl, SealsWell(sl, n), NEW W, W \subseteq Items,
         NEW r \in Replays, NEW x \in PlainItems, x \in W, Stopped(r) \/ Follow(r, sl, W)
  PROVE  Stopped(Step(r, x)) \/ Follow(Step(r, x), sl, W)
<1>1. CASE Stopped(r)
  BY <1>1 DEF Step, Stopped
<1>2. CASE ~Stopped(r) /\ ~Stopped(Step(r, x))
  BY <1>2, FollowPlain
<1> QED  BY <1>1, <1>2

\* What a client answers to a linked transcript leaves the replay there.
LEMMA FollowOn ==
  ASSUME NEW n \in Nat \ {0}, NEW sl, SealsWell(sl, n), NEW W, W \subseteq Items,
         NEW t \in Seq(Items), NEW new \in Seq(PlainItems), Wire(new) \subseteq W,
         Stopped(After(t)) \/ Follow(After(t), sl, W)
  PROVE  Stopped(After(t \o new)) \/ Follow(After(t \o new), sl, W)
<1> PICK N \in Nat : N = Len(new)
  OBVIOUS
<1>1. new \in Seq(Items)
  BY DEF Items
<1> DEFINE Fits(r) == Stopped(r) \/ Follow(r, sl, W)
           At(i) == After(t \o SubSeq(new, 1, i))
           Good == {i \in 0..N : At(i) \in Replays /\ Fits(At(i))}
<1>2. 0 \in Good
  <2>1. SubSeq(new, 1, 0) = <<>> /\ t \o <<>> = t
    OBVIOUS
  <2>2. At(0) = After(t)
    BY <2>1
  <2>3. After(t) \in Replays
    BY OutcomeType
  <2> HIDE DEF At
  <2> QED  BY <2>2, <2>3
<1>3. ASSUME NEW i \in 0..(N - 1), i \in Good PROVE i + 1 \in Good
  <2>1. /\ t \o SubSeq(new, 1, i) \in Seq(Items)
        /\ t \o SubSeq(new, 1, i + 1) = Append(t \o SubSeq(new, 1, i), new[i + 1])
    BY <1>1, OneMore
  <2>2. /\ new[i + 1] \in PlainItems /\ new[i + 1] \in Items /\ new[i + 1] \in Wire(new)
        /\ i + 1 \in 0..N
    BY <1>1 DEF Wire
  <2> PICK x \in PlainItems : x = new[i + 1] /\ x \in Items /\ x \in W
    BY <2>2
  <2>3. At(i + 1) = Step(At(i), x)
    <3> PICK q \in Seq(Items) : q = t \o SubSeq(new, 1, i)
      BY <2>1
    <3>1. After(Append(q, x)) = Step(After(q), x)
      BY AfterAppend
    <3> QED  BY <2>1, <3>1
  <2> HIDE DEF At
  <2> PICK r \in Replays : r = At(i) /\ Fits(r)
    BY <1>3
  <2>4. Fits(Step(r, x))
    BY FollowOnce
  <2>5. Step(r, x) \in Replays
    BY StepType
  <2> HIDE DEF Fits
  <2> QED  BY <2>2, <2>3, <2>4, <2>5
<1>4. N \in Good
  <2> HIDE DEF Good
  <2>1. Inductive(Good, N)
    BY <1>2, <1>3 DEF Inductive
  <2> QED  BY <2>1, UptoInduction
<1>5. SubSeq(new, 1, N) = new
  OBVIOUS
<1>6. At(N) = After(t \o new)
  BY <1>5
<1> HIDE DEF At
<1> QED  BY <1>4, <1>6

\* What a request is told, of what was sealed where its items lead.
LEMMA Heard ==
  ASSUME NEW n \in Nat \ {0}, NEW sl, SealsWell(sl, n), NEW W, W \subseteq Items,
         NEW r \in Replays, Follow(r, sl, W), r.enabled => Loose(r) = {}, NEW s, s = Origin(sl, r.last)
  PROVE  Told(r, s, W)
<1>1. Gist(r) = Gist(s) /\ Balanced(r)
  BY DEF Follow
<1>2. r.adv = s.adv \/ \E y \in W : AnswerTo(y, s.adv) /\ r.adv = Append(s.adv, Reply(y))
  BY DEF Follow
<1>3. CASE Pending(s.adv) = {}
  BY <1>1, <1>2, <1>3 DEF Told, AnswerTo
<1>4. CASE Pending(s.adv) # {}
  <2>1. s.enabled
    BY <1>4, OriginWell
  <2>2. r.enabled
    BY <1>1, <2>1 DEF Gist
  <2>3. Pending(r.adv) = {}
    BY <1>1, <2>2 DEF Balanced
  <2>4. r.adv # s.adv
    BY <1>4, <2>3
  <2> QED  BY <1>1, <1>2, <1>4, <2>4 DEF Told
<1> QED  BY <1>3, <1>4

\* A request finds every call of the advisor answered.
LEMMA ToldWell ==
  ASSUME NEW n \in Nat \ {0}, NEW sl, SealsWell(sl, n), NEW W, W \subseteq Items,
         NEW id, NEW s, s = Origin(sl, id), NEW b, b.adv \in Seq(AdvMsgs), Told(b, s, W)
  PROVE  Squared(b.adv) /\ Early(b.adv, n)
<1> PICK a \in Seq(AdvMsgs) : a = s.adv
  BY OriginWell
<1> PICK t \in Seq(AdvMsgs) : t = b.adv
  OBVIOUS
<1>1. WellKept(s, n)
  BY OriginWell
<1>2. \A c : Owes(a, c) => Pending(a) = {c}
  BY SquaredPending
<1>3. CASE Pending(a) = {}
  <2>1. Squared(a) /\ Early(a, n)
    BY <1>1, <1>2, <1>3 DEF WellKept
  <2> QED  BY <1>3, <2>1 DEF Told
<1>4. CASE Pending(a) # {}
  <2> PICK y \in W : AnswerTo(y, a) /\ t = Append(a, Reply(y))
    BY <1>4 DEF Told
  <2>1. y \in Items /\ y.t = "output" /\ y.id \in Pending(a)
    BY DEF AnswerTo, IsOutput
  <2> PICK o \in AdvMsgs : o = Reply(y) /\ IsTool(o) /\ o.ref = y.id /\ o.calls = <<>>
    BY <2>1, ReplyType
  <2> PICK c : Owes(a, c) /\ Pending(a) = {c}
    <3>1. Squared(a) => Pending(a) = {}
      BY SquaredPending
    <3>2. \E c : Owes(a, c)
      BY <1>1, <1>4, <3>1 DEF WellKept
    <3> QED  BY <1>2, <3>2
  <2>2. o.ref = c /\ c \in Int
    BY <2>1 DEF Pending
  <2>3. Squared(Append(a, o))
    BY <2>2, OwesAnswered
  <2>4. c < n
    <3>1. Calls(a, c)
      BY DEF Owes
    <3>2. \E i \in 1..Len(a) : \E k \in 1..Len(a[i].calls) : a[i].calls[k] = c
      BY <3>1, CallsAre
    <3>3. Early(a, n)
      BY <1>1 DEF WellKept
    <3> QED  BY <3>2, <3>3 DEF Early
  <2> PICK single \in Seq(AdvMsgs) : single = <<o>> /\ Early(single, n)
    <3>1. n \in Int /\ o.ref < n
      BY <2>2, <2>4
    <3> QED  BY <3>1, SquaredNote
  <2>6. Early(a, n)
    BY <1>1 DEF WellKept
  <2>7. Early(a \o single, n)
    <3>1. n \in Int
      OBVIOUS
    <3> QED  BY <2>6, <3>1, EarlyJoined
  <2>8. ASSUME NEW T, NEW u \in Seq(T), NEW x \in T PROVE u \o <<x>> = Append(u, x)
    BY AppendIsConcat
  <2>9. t = Append(a, o) /\ a \o single = t
    BY <2>8
  <2> QED  BY <2>3, <2>7, <2>9
<1> QED  BY <1>3, <1>4

\* What is believed of a transcript is where its replay is.
LEMMA FollowBrings ==
  ASSUME NEW n \in Nat \ {0}, NEW sl, SealsWell(sl, n), NEW W, W \subseteq Items,
         NEW r \in Replays, Follow(r, sl, W), NEW in, Side(in) = Side(r), NEW s, s = Origin(sl, r.last)
  PROVE  /\ r.last \in DOMAIN sl => Brings(in, s)
         /\ r.last \notin DOMAIN sl => in.memory = 0 /\ in.adv = <<>> /\ ~in.enabled /\ ~in.blocked
<1>1. Gist(r) = Gist(s)
  BY DEF Follow
<1>2. r.adv = s.adv \/ \E y \in W : AnswerTo(y, s.adv) /\ r.adv = Append(s.adv, Reply(y))
  BY DEF Follow
<1>3. CASE r.last \in DOMAIN sl
  <2>1. s \in States /\ s.adv \in Seq(AdvMsgs)
    BY <1>3, OriginWell DEF Origin, SealsWell
  <2> PICK a \in Seq(AdvMsgs) : a = s.adv
    BY <2>1
  <2> PICK q : q = [s EXCEPT !.adv = r.adv]
    OBVIOUS
  <2>2. /\ q.adv = r.adv /\ q.memory = s.memory /\ q.enabled = s.enabled /\ q.blocked = s.blocked
    BY <2>1 DEF States
  <2>3. r.adv \in Seq(AdvMsgs)
    BY DEF Replays
  <2>4. Side(in) = Side(q)
    BY <1>1, <2>2 DEF Gist, Side
  <2>5. Extends(s, q)
    <3>1. CASE r.adv = a
      BY <2>2, <3>1 DEF Extends
    <3>2. CASE r.adv # a
      <4> PICK y \in W : AnswerTo(y, a) /\ r.adv = Append(a, Reply(y))
        BY <1>2, <3>2
      <4>1. y \in Items /\ y.t = "output"
        BY DEF AnswerTo, IsOutput
      <4> PICK o \in AdvMsgs : o = Reply(y) /\ IsTool(o)
        BY <4>1, ReplyType
      <4> PICK m \in Nat : m = Len(a)
        OBVIOUS
      <4> PICK u \in Seq(AdvMsgs) : u = Append(a, o) /\ u = r.adv
        BY <2>3
      <4>2. Len(u) = m + 1 /\ u[m + 1] = o /\ \A i \in 1..m : u[i] = a[i]
        OBVIOUS
      <4>3. \A i \in (m + 1)..(m + 1) : i = m + 1
        OBVIOUS
      <4> QED  BY <2>2, <4>2, <4>3 DEF Extends
    <3> QED  BY <3>1, <3>2
  <2> QED  BY <1>3, <2>1, <2>2, <2>3, <2>4, <2>5, BringsWhatWasLeft
<1>4. CASE r.last \notin DOMAIN sl
  <2>1. Fresh.memory = 0 /\ Fresh.adv = <<>> /\ Fresh.enabled = FALSE /\ Fresh.blocked = FALSE
    BY DEF Fresh
  <2>2. s.memory = 0 /\ s.adv = <<>> /\ s.enabled = FALSE /\ s.blocked = FALSE
    BY <1>4, <2>1 DEF Origin
  <2>3. Pending(<<>>) = {}
    BY DEF Pending, Calls
  <2>4. r.adv = <<>>
    BY <1>2, <2>2, <2>3 DEF AnswerTo
  <2>5. r.memory = 0 /\ r.enabled = FALSE /\ r.blocked = FALSE
    BY <1>1, <2>2 DEF Gist
  <2>6. in.memory = 0 /\ in.enabled = FALSE /\ in.blocked = FALSE /\ in.adv = <<>>
    BY <2>4, <2>5 DEF Side
  <2> QED  BY <1>4, <2>6
<1> QED  BY <1>3, <1>4

\* The replay can end.
Ends(d) == Refusal(Finished(d)) = ""

\* Where a replay can end, an enabled advisor waits for nothing.
LEMMA FinishedEnds ==
  ASSUME NEW d \in Replays, Ends(d)
  PROVE  Finished(d) = d /\ (d.enabled => Loose(d) = {})
<1>1. /\ "main_message_patch_target_missing" \in Errors
      /\ "function_call_missing_function_call_output" \in Errors
      /\ "reasoning_tool_call_missing_function_call_item" \in Errors
      /\ "main_message_patch_target_missing" # ""
      /\ "function_call_missing_function_call_output" # ""
      /\ "reasoning_tool_call_missing_function_call_item" # ""
  BY Reasons
<1>2. /\ Refusal(Raise(d, "main_message_patch_target_missing")) # ""
      /\ Refusal(Raise(d, "function_call_missing_function_call_output")) # ""
      /\ Refusal(Raise(d, "reasoning_tool_call_missing_function_call_item")) # ""
  BY <1>1, RefuseType
<1>3. /\ Finished(d) # Raise(d, "main_message_patch_target_missing")
      /\ Finished(d) # Raise(d, "function_call_missing_function_call_output")
      /\ Finished(d) # Raise(d, "reasoning_tool_call_missing_function_call_item")
  BY <1>2 DEF Ends
<1>4. /\ Finished(d) = d
      /\ \/ Refusal(d) # ""
         \/ SidePhased(d, "open") = {} /\ ~(d.enabled /\ SidePhased(d, "declared") # {})
  BY <1>3 DEF Finished
<1>5. Refusal(d) = ""
  BY <1>4 DEF Ends
<1>6. SidePhased(d, "open") = {} /\ (d.enabled => SidePhased(d, "declared") = {})
  BY <1>4, <1>5
<1> QED  BY <1>4, <1>6, PhasedLoose

\* Ending changes nothing but main's half.
LEMMA FinishStays ==
  ASSUME NEW r \in Replays, NEW d,
         d = IF r.deferred THEN [r EXCEPT !.main = InterruptDeclared(@), !.deferred = FALSE] ELSE r
  PROVE  d \in Replays /\ Stays(r, d) /\ Side(d) = Side(r)
<1> PICK m \in Mains : m = InterruptDeclared(r.main)
  <2>1. InterruptDeclared(r.main) \in Mains
    BY InterruptType DEF Replays
  <2> QED  BY <2>1
<1> PICK q : q = [r EXCEPT !.main = m, !.deferred = FALSE]
  OBVIOUS
<1>1. /\ q \in Replays /\ q.last = r.last /\ q.memory = r.memory /\ q.enabled = r.enabled
      /\ q.blocked = r.blocked /\ q.adv = r.adv /\ q.calls = r.calls
  BY DEF Replays
<1>2. Stays(r, q) /\ Side(q) = Side(r)
  BY <1>1, MainStays DEF Side
<1>3. Stays(r, r)
  BY MainStays
<1> QED  BY <1>1, <1>2, <1>3

\* A request that is accepted is where its items lead, with nothing left to answer.
LEMMA OutcomeEnds ==
  ASSUME NEW in \in Seq(Items), Accepted(Ingested(in))
  PROVE  /\ After(in) \in Replays /\ ~Stopped(After(in)) /\ Ingested(in) \in Bases
         /\ Side(Ingested(in)) = Side(After(in)) /\ Ingested(in).last = After(in).last
         /\ After(in).enabled => Loose(After(in)) = {}
<1>1. /\ After(in) \in Replays /\ ~Stopped(After(in)) /\ Ingested(in) \in Bases
      /\ Side(Ingested(in)) = Side(After(in))
  BY Accepts
<1> PICK r \in Replays : r = After(in)
  BY <1>1
<1> PICK d : d = IF r.deferred THEN [r EXCEPT !.main = InterruptDeclared(@), !.deferred = FALSE] ELSE r
  OBVIOUS
<1>2. d \in Replays /\ Stays(r, d) /\ Side(d) = Side(r)
  BY FinishStays
<1>3. Replay(in) = r
  <2>1. Ingested(in).err = ""
    BY DEF Accepted
  <2>2. \A i \in DOMAIN in : Readable(in[i])
    BY <2>1, OutcomeType
  <2> DEFINE all == \A i \in DOMAIN in : Readable(in[i])
  <2>3. Replay(in) = IF all THEN After(in) ELSE Raise(Fresh, "reasoning_payload_invalid")
    BY DEF Replay
  <2>4. all
    BY <2>2
  <2> HIDE DEF all
  <2> QED  BY <2>3, <2>4
<1>4. Ingested(in) = Outcome(Finished(d))
  BY <1>3 DEF Ingested, Finish
<1>5. Ends(d)
  <2>1. Ingested(in).err = ""
    BY DEF Accepted
  <2> PICK q : q = Finished(d)
    OBVIOUS
  <2>2. Outcome(q).err = Refusal(q)
    BY DEF Outcome
  <2> QED  BY <1>4, <2>1, <2>2 DEF Ends
<1>6. Finished(d) = d /\ (d.enabled => Loose(d) = {})
  BY <1>2, <1>5, FinishedEnds
<1>7. Ingested(in).last = d.last
  <2>1. Outcome(d).last = d.last
    BY DEF Outcome
  <2> QED  BY <1>4, <1>6, <2>1
<1>8. d.last = r.last /\ Loose(d) = Loose(r) /\ d.enabled = r.enabled
  BY <1>2 DEF Stays, Gist
<1> QED  BY <1>1, <1>6, <1>7, <1>8

-----------------------------------------------------------------------------
(* The advisor's thread while a response runs.                             *)

\* Every call of the thread is answered, and its ids are given out.
Tidy(adv, n) == Squared(adv) /\ Early(adv, n)

\* Tidy threads, one after the other.
LEMMA TidyJoined ==
  ASSUME NEW n \in Int, NEW s \in Seq(AdvMsgs), NEW t \in Seq(AdvMsgs), Tidy(s, n), Tidy(t, n)
  PROVE  s \o t \in Seq(AdvMsgs) /\ Tidy(s \o t, n)
<1>1. Squared(s) /\ Squared(t) /\ Early(s, n) /\ Early(t, n)
  BY DEF Tidy
<1>2. s \o t \in Seq(AdvMsgs) /\ Squared(s \o t)
  BY <1>1, SquaredJoined
<1>3. Early(s \o t, n)
  BY <1>1, EarlyJoined
<1> QED  BY <1>2, <1>3 DEF Tidy

\* As ids are given out, a tidy thread stays tidy.
LEMMA TidyLater ==
  ASSUME NEW n \in Int, NEW m \in Int, n <= m, NEW s \in Seq(AdvMsgs), Tidy(s, n)
  PROVE  Tidy(s, m)
BY EarlyLater DEF Tidy

\* A note leaves it tidy.
LEMMA TidyNoted ==
  ASSUME NEW n \in Nat \ {0}, NEW s \in Seq(AdvMsgs), Tidy(s, n), NEW m \in AdvMsgs, m.role = "user"
  PROVE  Append(s, m) \in Seq(AdvMsgs) /\ Tidy(Append(s, m), n)
<1>1. m.calls = <<>> /\ m.ref = 0
  BY AdvMsgFields
<1> PICK t \in Seq(AdvMsgs) : t = <<m>> /\ Squared(t) /\ Early(t, n)
  <2>1. n \in Int /\ m.ref < n
    BY <1>1
  <2> QED  BY <1>1, <2>1, SquaredNote
<1>2. n \in Int /\ Tidy(t, n)
  BY DEF Tidy
<1>3. s \o t \in Seq(AdvMsgs) /\ Tidy(s \o t, n)
  BY <1>2, TidyJoined
<1>4. ASSUME NEW T, NEW u \in Seq(T), NEW x \in T PROVE u \o <<x>> = Append(u, x)
  BY AppendIsConcat
<1>5. s \o t = Append(s, m)
  BY <1>4
<1> QED  BY <1>3, <1>5

\* So does what the advisor is told of main.
LEMMA TidyUpdate ==
  ASSUME NEW n \in Nat \ {0}, NEW s \in States, Tidy(s.adv, n), NEW id \in Int
  PROVE  WithMainUpdate(s, id) \in States /\ Tidy(WithMainUpdate(s, id).adv, n)
<1> PICK u \in States : u = WithMainUpdate(s, id)
  BY MainUpdateKeeps
<1>1. s.adv \in Seq(AdvMsgs)
  BY DEF States
<1>2. u.adv = s.adv \/ \E note \in AdvMsgs : note.role = "user" /\ u.adv = Append(s.adv, note)
  BY MainUpdateKeeps
<1> QED  BY <1>1, <1>2, TidyNoted

\* So does the start of a phase.
LEMMA TidyStarted ==
  ASSUME NEW n \in Nat \ {0}, NEW s \in States, Tidy(s.adv, n), NEW phase \in Phases, NEW id \in Int
  PROVE  Tidy(PhaseStarted(s, phase, id).adv, n) /\ PhaseStarted(s, phase, id).enabled = TRUE
<1> PICK u \in States : u = WithMainUpdate(s, id) /\ Tidy(u.adv, n)
  BY TidyUpdate
<1> PICK note \in AdvMsgs : note = AdvNote(id + 1, phase, <<>>, {})
  <2>1. <<>> \in Seq(Msgs) /\ {} \in SUBSET ((Roles \cup {"tool"}) \X Int \X Int) /\ id + 1 \in Int
    OBVIOUS
  <2>2. AdvNote(id + 1, phase, <<>>, {}) \in AdvMsgs
    BY <2>1, NoteType
  <2> QED  BY <2>2
<1>1. note.role = "user"
  BY DEF AdvNote
<1>2. u.adv \in Seq(AdvMsgs)
  BY DEF States
<1> PICK adv \in Seq(AdvMsgs) : adv = Append(u.adv, note) /\ Tidy(adv, n)
  BY <1>1, <1>2, TidyNoted
<1>3. PhaseStarted(s, phase, id) = [u EXCEPT !.adv = adv, !.enabled = TRUE, !.blocked = TRUE]
  BY DEF PhaseStarted
<1> PICK p : p = PhaseStarted(s, phase, id)
  OBVIOUS
<1>4. p.adv = adv /\ p.enabled = TRUE
  BY <1>3 DEF States
<1> QED  BY <1>4

\* So does its end.
LEMMA TidyFinal ==
  ASSUME NEW n \in Nat \ {0}, NEW s \in States, Tidy(s.adv, n), NEW says, NEW id
  PROVE  Tidy(PhaseFinal(s, says, id).adv, n)
<1>1. s.adv \in Seq(AdvMsgs)
  BY DEF States
<1>2. Tidy(Unmarked(s.adv), n)
  <2>1. n \in Int /\ Squared(s.adv) /\ Early(s.adv, n)
    BY DEF Tidy
  <2> QED  BY <1>1, <2>1, UnmarkedKeeps DEF Tidy
<1>3. PhaseFinal(s, says, id).adv = Unmarked(s.adv)
  BY DEF PhaseFinal, States
<1> QED  BY <1>2, <1>3

\* A third element.
LEMMA AppendThird ==
  ASSUME NEW T, NEW a \in T, NEW b \in T, NEW c \in T
  PROVE  Append(<<a, b>>, c) = <<a, b, c>>
<1>1. <<a, b>> \in Seq(T) /\ <<a, b, c>> \in Seq(T)
  BY Three
<1>2. Len(<<a, b>>) = 2 /\ <<a, b>>[1] = a /\ <<a, b>>[2] = b
  OBVIOUS
<1>3. Len(<<a, b, c>>) = 3 /\ <<a, b, c>>[1] = a /\ <<a, b, c>>[2] = b /\ <<a, b, c>>[3] = c
  OBVIOUS
<1>4. ASSUME NEW p \in Seq(T), Len(p) = 2, p[1] = a, p[2] = b
      PROVE  /\ Append(p, c) \in Seq(T) /\ Len(Append(p, c)) = 3
             /\ Append(p, c)[1] = a /\ Append(p, c)[2] = b /\ Append(p, c)[3] = c
  <2>1. Append(p, c) \in Seq(T) /\ Len(Append(p, c)) = Len(p) + 1 /\ Append(p, c)[Len(p) + 1] = c
    OBVIOUS
  <2>2. \A i \in 1..Len(p) : Append(p, c)[i] = p[i]
    OBVIOUS
  <2> QED  BY <1>4, <2>1, <2>2
<1>5. ASSUME NEW r \in Seq(T), NEW q \in Seq(T), Len(r) = 3, Len(q) = 3,
             r[1] = q[1], r[2] = q[2], r[3] = q[3]
      PROVE  r = q
  <2>1. \A i \in 1..Len(q) : r[i] = q[i]
    BY <1>5
  <2> QED  BY <1>5, <2>1, SameSeq
<1> QED  BY <1>1, <1>2, <1>3, <1>4, <1>5

\* What refused attempts leave is tidy.
LEMMA TidyAttempts ==
  ASSUME next \in Nat \ {0}, NEW before \in Attempts
  PROVE  before \in Seq(AdvMsgs) /\ Tidy(before, next + 3)
<1> PICK n \in Int : n = next + 3 /\ next < n /\ next + 1 < n /\ 0 < n
  OBVIOUS
<1> PICK c \in Int : c = next + 1
  OBVIOUS
<1> PICK calls \in Seq(Int) : calls = <<c>> /\ calls[1] = c
  <2>1. <<c>> \in Seq(Int)
    BY Three
  <2>2. <<c>>[1] = c
    OBVIOUS
  <2> QED  BY <2>1, <2>2
<1>8. next \in Int
  OBVIOUS
<1> PICK t \in AdvTurns : t = AdvTurn(next, calls) /\ t.calls = calls
  BY <1>8, AdvTurnType
<1> PICK u \in AdvTurns : u = WithoutArguments(t) /\ u.calls = calls
  BY <1>8, AdvTurnType
<1> PICK o \in AdvOutputs : o = Output(c, Placeholder, {}) /\ IsTool(o) /\ o.ref = c
  <2>1. Placeholder \in Int /\ {} \in SUBSET Int
    BY DEF Placeholder
  <2>2. Output(c, Placeholder, {}) \in AdvOutputs
    BY <2>1, OutputType
  <2>3. Output(c, Placeholder, {}).ref = c /\ IsTool(Output(c, Placeholder, {}))
    BY DEF Output, IsTool
  <2> QED  BY <2>2, <2>3
<1> PICK note \in AdvMsgs : note = AdvNote(next + 2, "none", <<>>, {}) /\ note.role = "user"
  <2>1. <<>> \in Seq(Msgs) /\ {} \in SUBSET ((Roles \cup {"tool"}) \X Int \X Int) /\ next + 2 \in Int
    OBVIOUS
  <2>2. "none" \in Phases
    BY DEF Phases
  <2>3. AdvNote(next + 2, "none", <<>>, {}) \in AdvMsgs
    BY <2>1, <2>2, NoteType
  <2>4. AdvNote(next + 2, "none", <<>>, {}).role = "user"
    BY DEF AdvNote
  <2> QED  BY <2>3, <2>4
<1>1. t \in AdvMsgs /\ u \in AdvMsgs /\ o \in AdvMsgs /\ t.ref = 0 /\ u.ref = 0
  BY DEF AdvMsgs, AdvTurns
<1>2. ASSUME NEW m \in AdvMsgs, m.calls = calls, m.ref = 0
      PROVE  <<m, o, note>> \in Seq(AdvMsgs) /\ Tidy(<<m, o, note>>, n)
  <2> PICK p \in Seq(AdvMsgs) : p = <<m, o>> /\ Squared(p) /\ Early(p, n)
    <3>1. m.calls = <<c>> /\ o \in AdvMsgs /\ c < n /\ m.ref < n
      BY <1>1, <1>2
    <3> QED  BY <3>1, SquaredPair
  <2>1. n \in Nat \ {0} /\ Tidy(p, n)
    BY DEF Tidy
  <2>2. Append(p, note) \in Seq(AdvMsgs) /\ Tidy(Append(p, note), n)
    BY <2>1, TidyNoted
  <2>3. Append(<<m, o>>, note) = <<m, o, note>>
    BY AppendThird
  <2> QED  BY <2>2, <2>3
<1>3. Refused(t, next + 2) = <<t, o, note>> /\ Refused(u, next + 2) = <<u, o, note>>
  BY DEF Refused
<1>4. before \in {<<>>, Refused(t, next + 2), Refused(u, next + 2)}
  BY DEF Attempts
<1>5. <<>> \in Seq(AdvMsgs) /\ Tidy(<<>>, n)
  BY DEF Tidy, Squared, Early
<1>6. Tidy(<<t, o, note>>, n) /\ Tidy(<<u, o, note>>, n)
  BY <1>1, <1>2
<1> QED  BY <1>1, <1>3, <1>4, <1>5, <1>6, AttemptsType

-----------------------------------------------------------------------------
(* What makes every transcript authentic.                                  *)

\* The client is asked for this call of the advisor.
IsCall(y) == y.t = "call" /\ y.thread = "advisor"
Unshown(q, c) == \A i \in 1..Len(q) : IsCall(q[i]) => q[i].id # c

\* It is asked for each call once.
ShownOnce(q, n) ==
  /\ \A i \in 1..Len(q) : IsCall(q[i]) => q[i].id < n
  /\ \A i, j \in 1..Len(q) : IsCall(q[i]) /\ IsCall(q[j]) /\ q[i].id = q[j].id => i = j

\* It answers each once, and the reasoning items it has are linked.
Script(q, sl, n) == ShownOnce(q, n) /\ UniqueOuts(Wire(q)) /\ Chained(q, sl, Wire(q))

\* The open reasoning item has an id of its own.
Drafted(d, sl, n) == d.id # 0 => d.id \in 1..(n - 1) /\ d.id \notin DOMAIN sl

\* The response started from what a reasoning item sealed.
Learned(b, sl, q) == Known(sl, b.last) /\ Told(b, Origin(sl, b.last), Wire(q))

\* The advisor's last turn calls tools that nothing has answered or shown.
Exploring(adv, q) ==
  \E old \in Seq(AdvMsgs), m \in AdvMsgs, c \in Int, d \in Int :
    /\ adv = old \o <<m>> /\ Squared(old) /\ IsAssistant(m)
    /\ m.calls = <<c>> \/ (m.calls = <<c, d>> /\ c # d)
    /\ c \notin Refs(old) /\ d \notin Refs(old) /\ Unshown(q, d)

\* The thread waits for the call c, and nothing else is open.
Awaits(adv, c) == Owes(adv, c) /\ OpenCalls(adv) = <<c>>

\* It waits for one call of the client's, or for none.
Waiting(s, q) ==
  \/ Squared(s.adv)
  \/ /\ s.enabled
     /\ \E c \in Int : Awaits(s.adv, c) /\ Unshown(q, c)

\* The advisor's thread, where the response is.
Thread(where, s, q, n) ==
  /\ Early(s.adv, n)
  /\ where \in {"review", "side tools"} => s.enabled
  /\ where = "side tools" => Exploring(s.adv, q)
  /\ where = "commit" => Waiting(s, q)
  /\ where \notin {"side tools", "commit"} => Squared(s.adv)

\* The inductive invariant.
AInv ==
  /\ SealsWell(sealed, next) /\ Drafted(draft, sealed, next) /\ Script(items, sealed, next)
  /\ pc # "idle" => Learned(base, sealed, items) /\ Thread(pc, st, items, next)

\* As ids are given out, what was sealed stays well kept.
LEMMA SealsLater ==
  ASSUME NEW n \in Nat \ {0}, NEW m \in Nat \ {0}, n <= m, NEW sl, SealsWell(sl, n)
  PROVE  SealsWell(sl, m)
<1>1. DOMAIN sl \subseteq 1..(n - 1) /\ \A k \in DOMAIN sl : sl[k] \in States /\ WellKept(sl[k], n)
  BY DEF SealsWell
<1>2. DOMAIN sl \subseteq 1..(m - 1)
  BY <1>1
<1>3. ASSUME NEW s \in States, WellKept(s, n) PROVE WellKept(s, m)
  <2>1. s.adv \in Seq(AdvMsgs) /\ n \in Int /\ m \in Int /\ Early(s.adv, n)
    BY <1>3 DEF States, WellKept
  <2>2. Early(s.adv, m)
    BY <2>1, EarlyLater
  <2> QED  BY <1>3, <2>2 DEF WellKept
<1> QED  BY <1>1, <1>2, <1>3 DEF SealsWell

\* So does what the client has.
LEMMA ShownLater ==
  ASSUME NEW n \in Int, NEW m \in Int, n <= m, NEW q \in Seq(Items), ShownOnce(q, n)
  PROVE  ShownOnce(q, m)
<1>1. ASSUME NEW i \in 1..Len(q), IsCall(q[i]) PROVE q[i].id < m
  <2> PICK x \in Items : x = q[i]
    OBVIOUS
  <2>1. x.id \in Int
    <3>1. x.t = "call"
      BY <1>1 DEF IsCall
    <3> QED  BY <3>1 DEF Items, PlainItems, ReasoningItems
  <2>2. x.id < n
    BY <1>1 DEF ShownOnce
  <2> QED  BY <2>1, <2>2
<1> QED  BY <1>1 DEF ShownOnce

\* And the draft.
LEMMA DraftedLater ==
  ASSUME NEW n \in Nat \ {0}, NEW m \in Nat \ {0}, n <= m, NEW sl, NEW d, d.id \in Nat,
         Drafted(d, sl, n)
  PROVE  Drafted(d, sl, m)
<1>1. d.id \in 1..(n - 1) => d.id \in 1..(m - 1)
  OBVIOUS
<1> QED  BY <1>1 DEF Drafted

\* A draft that is saved keeps its id, or has a new one.
LEMMA DraftedSaved ==
  ASSUME next \in Nat \ {0}, draft.id \in Nat, SealsWell(sealed, next),
         Drafted(draft, sealed, next), NEW m \in Nat \ {0}, next < m,
         NEW d, d.id = 0 \/ d.id = DraftId
  PROVE  Drafted(d, sealed, m)
<1>1. DOMAIN sealed \subseteq 1..(next - 1)
  BY DEF SealsWell
<1>2. next \notin DOMAIN sealed /\ next \in 1..(m - 1)
  BY <1>1
<1>3. draft.id # 0 => draft.id \in 1..(m - 1) /\ draft.id \notin DOMAIN sealed
  BY DEF Drafted
<1>4. DraftId \in 1..(m - 1) /\ DraftId \notin DOMAIN sealed
  BY <1>2, <1>3 DEF DraftId
<1> QED  BY <1>4 DEF Drafted

\* The id of what is saved.
LEMMA SavedId ==
  ASSUME draft.id \in Nat, next \in Nat \ {0}, NEW s
  PROVE  Saved(s).id = 0 \/ Saved(s).id = DraftId
<1> PICK d : d = DraftOf(s)
  OBVIOUS
<1>1. d.id = DraftId
  BY DEF DraftOf, DraftAt
<1>2. Worth(d).id # 0 => Worth(d) = d
  BY <1>1, WorthSaving
<1> QED  BY <1>1, <1>2 DEF Saved

\* What a step of a running response has to keep.
LEMMA AGoesOn ==
  ASSUME DInv, DInv', AInv, pc # "idle", UNCHANGED <<items, base, sealed>>, next <= next',
         Drafted(draft', sealed, next'), Thread(pc', st', items, next')
  PROVE  AInv'
<1>1. next \in Nat \ {0} /\ next' \in Nat \ {0} /\ items \in Seq(Items)
  BY DEF DInv, Types
<1>2. SealsWell(sealed, next) /\ Script(items, sealed, next) /\ Learned(base, sealed, items)
  BY DEF AInv
<1>3. SealsWell(sealed, next')
  BY <1>1, <1>2, SealsLater
<1>4. Script(items, sealed, next')
  <2>1. next \in Int /\ next' \in Int /\ ShownOnce(items, next)
    BY <1>1, <1>2 DEF Script
  <2>2. ShownOnce(items, next')
    BY <1>1, <2>1, ShownLater
  <2> QED  BY <1>2, <2>2 DEF Script
<1>5. items' = items /\ base' = base /\ sealed' = sealed
  OBVIOUS
<1>6. SealsWell(sealed', next') /\ Script(items', sealed', next') /\ Learned(base', sealed', items')
  BY <1>2, <1>3, <1>4, <1>5
<1>7. Drafted(draft', sealed', next') /\ Thread(pc', st', items', next')
  BY <1>5
<1> QED  BY <1>6, <1>7 DEF AInv

\* The next id is one.
LEMMA NextType == ASSUME DInv' PROVE next' \in Nat \ {0} /\ next' \in Int
<1>1. Types'
  BY DEF DInv
<1>2. next' \in Nat \ {0}
  BY <1>1 DEF Types
<1> QED  BY <1>2

\* No call of the advisor is open where the response is.
AtRest(where) == where \notin {"idle", "side tools", "commit"}

\* The advisor's thread while nothing is asked of its tools.
LEMMA TidyNow ==
  ASSUME DInv, AInv, AtRest(pc)
  PROVE  st \in States /\ next \in Nat \ {0} /\ next \in Int /\ st.adv \in Seq(AdvMsgs) /\ Tidy(st.adv, next)
<1>1. st \in States /\ next \in Nat \ {0}
  BY DEF DInv, Types
<1>2. st.adv \in Seq(AdvMsgs) /\ next \in Int
  BY <1>1 DEF States
<1>3. Thread(pc, st, items, next)
  BY DEF AInv, AtRest
<1> QED  BY <1>1, <1>2, <1>3 DEF Thread, Tidy, AtRest

\* A step that leaves the thread tidy.
LEMMA ATidily ==
  ASSUME DInv, DInv', AInv, pc # "idle", UNCHANGED <<items, base, sealed>>, next <= next',
         Drafted(draft', sealed, next'), Tidy(st'.adv, next'), pc' # "side tools",
         pc' = "review" => st'.enabled
  PROVE  AInv'
<1>1. Squared(st'.adv) /\ Early(st'.adv, next')
  BY DEF Tidy
<1>2. Thread(pc', st', items, next')
  BY <1>1 DEF Thread, Waiting
<1> QED  BY <1>2, AGoesOn

\* One that leaves the draft, too.
LEMMA AQuietly ==
  ASSUME DInv, DInv', AInv, pc # "idle", UNCHANGED <<items, base, sealed, draft>>, next <= next',
         Tidy(st'.adv, next'), pc' # "side tools", pc' = "review" => st'.enabled
  PROVE  AInv'
<1>1. next \in Nat \ {0} /\ next' \in Nat \ {0} /\ draft.id \in Nat
  BY DEF DInv, Types
<1>2. Drafted(draft, sealed, next)
  BY DEF AInv
<1>3. Drafted(draft', sealed, next')
  BY <1>1, <1>2, DraftedLater
<1> QED  BY <1>3, ATidily

\* A user's turn.
LEMMA AUserTurn == ASSUME DInv, DInv', AInv, UserTurn PROVE AInv'
<1>1. pc = "user" /\ pc' = "loop" /\ next' = next + 1 /\ UNCHANGED <<items, base, sealed, draft>>
  BY DEF UserTurn
<1>2. st \in States /\ next \in Nat \ {0} /\ next \in Int /\ st.adv \in Seq(AdvMsgs) /\ Tidy(st.adv, next)
  BY <1>1, TidyNow DEF AtRest
<1> PICK u \in States : u = WithMainUpdate(st, next) /\ Tidy(u.adv, next)
  BY <1>2, TidyUpdate
<1>3. st' = st \/ st' = PhaseFinal(u, "nothing", next)
  BY DEF UserTurn
<1>4. Tidy(PhaseFinal(u, "nothing", next).adv, next)
  BY <1>2, TidyFinal
<1>5. st'.adv \in Seq(AdvMsgs) /\ Tidy(st'.adv, next)
  <2>1. st' \in States
    BY DEF DInv, Types
  <2> QED  BY <1>2, <1>3, <1>4, <2>1 DEF States
<1>6. next' \in Int /\ next <= next'
  BY <1>1, <1>2
<1>7. Tidy(st'.adv, next')
  BY <1>2, <1>5, <1>6, TidyLater
<1> QED  BY <1>1, <1>6, <1>7, AQuietly

\* The loop entered.
LEMMA AResume == ASSUME DInv, DInv', AInv, Resume PROVE AInv'
<1>1. pc = "loop" /\ UNCHANGED <<items, base, sealed, draft>>
  BY DEF Resume
<1>2. st \in States /\ next \in Nat \ {0} /\ next \in Int /\ st.adv \in Seq(AdvMsgs) /\ Tidy(st.adv, next)
  BY <1>1, TidyNow DEF AtRest
<1>3. \/ st.enabled /\ pc' \in {"review", "commit"} /\ st' = st /\ next' = next
      \/ /\ pc' = "review"
         /\ st' = PhaseStarted(st, "after_tool_call", next) /\ next' = next + 2
      \/ pc' \in {"turn", "commit"} /\ st' = st /\ next' = next
  BY DEF Resume
<1>4. /\ Tidy(PhaseStarted(st, "after_tool_call", next).adv, next)
      /\ PhaseStarted(st, "after_tool_call", next).enabled = TRUE
  <2>1. "after_tool_call" \in Phases
    BY DEF Phases
  <2> QED  BY <1>2, <2>1, TidyStarted
<1>5. /\ st'.adv \in Seq(AdvMsgs) /\ Tidy(st'.adv, next) /\ pc' # "side tools"
      /\ pc' = "review" => st'.enabled
  <2>1. st' \in States
    BY DEF DInv, Types
  <2>2. st'.adv \in Seq(AdvMsgs)
    BY <2>1 DEF States
  <2> QED  BY <1>2, <1>3, <1>4, <2>2
<1>6. next' \in Int /\ next <= next'
  BY <1>2, <1>3
<1>7. Tidy(st'.adv, next')
  BY <1>2, <1>5, <1>6, TidyLater
<1> QED  BY <1>1, <1>5, <1>6, <1>7, AQuietly

\* A step of main that leaves the thread as it is.
LEMMA AMainly ==
  ASSUME DInv, DInv', AInv, AtRest(pc),
         UNCHANGED <<items, base, sealed, draft>>, next <= next', st'.adv = st.adv,
         pc' # "review", pc' # "side tools"
  PROVE  AInv'
<1>1. st \in States /\ next \in Nat \ {0} /\ next \in Int /\ st.adv \in Seq(AdvMsgs) /\ Tidy(st.adv, next)
  BY TidyNow
<1>2. next' \in Int
  BY NextType
<1>3. Tidy(st'.adv, next')
  BY <1>1, <1>2, TidyLater
<1>4. pc # "idle"
  BY DEF AtRest
<1> QED  BY <1>3, <1>4, AQuietly

\* Some of a result.
LEMMA AStreamPart == ASSUME DInv, DInv', AInv, StreamPart PROVE AInv'
<1>1. /\ pc = "turn" /\ pc' = "stream" /\ next' = next + 3
      /\ UNCHANGED <<items, base, sealed, draft>>
  BY DEF StreamPart
<1>2. PICK m \in Partials : st' = [st EXCEPT !.main = Append(@, m)]
  BY DEF StreamPart
<1>3. st \in States /\ next \in Int
  BY DEF DInv, Types
<1>4. st'.adv = st.adv
  BY <1>2, <1>3 DEF States
<1>5. next <= next'
  BY <1>1, <1>3
<1> QED  BY <1>1, <1>4, <1>5, AMainly DEF AtRest

\* A result refused.
LEMMA ARetry == ASSUME DInv, DInv', AInv, Retry PROVE AInv'
<1>1. /\ pc \in {"turn", "stream"} /\ pc' = "turn" /\ next' = next + 3
      /\ UNCHANGED <<items, base, sealed, draft>>
  BY DEF Retry
<1>2. PICK main : st' = [st EXCEPT !.main = main]
  BY DEF Retry
<1>3. st \in States /\ next \in Int
  BY DEF DInv, Types
<1>4. st'.adv = st.adv
  BY <1>2, <1>3 DEF States
<1>5. next <= next'
  BY <1>1, <1>3
<1> QED  BY <1>1, <1>4, <1>5, AMainly DEF AtRest

\* The budget exhausted in main's turn.
LEMMA AExhausted == ASSUME DInv, DInv', AInv, Exhausted PROVE AInv'
<1>1. pc = "turn" /\ pc' = "commit" /\ next' = next /\ UNCHANGED <<items, base, sealed, draft, st>>
  BY DEF Exhausted
<1>2. next \in Int
  BY DEF DInv, Types
<1>3. next <= next' /\ st'.adv = st.adv
  BY <1>1, <1>2
<1> QED  BY <1>1, <1>3, AMainly DEF AtRest

\* A draft saved while the model streams.
LEMMA ASaveProgress == ASSUME DInv, DInv', AInv, SaveProgress PROVE AInv'
<1>1. /\ pc = "stream" /\ pc' = pc /\ st' = st /\ draft' = Saved(st) /\ next' = next + 1
      /\ UNCHANGED <<items, base, sealed>>
  BY DEF SaveProgress
<1>2. st \in States /\ next \in Nat \ {0} /\ next \in Int /\ st.adv \in Seq(AdvMsgs) /\ Tidy(st.adv, next)
  BY <1>1, TidyNow DEF AtRest
<1>3. next' \in Nat \ {0} /\ next' \in Int /\ next < next' /\ next <= next'
  BY <1>1, <1>2
<1>4. Drafted(draft', sealed, next')
  <2>1. draft.id \in Nat
    BY DEF DInv, Types
  <2>2. draft'.id = 0 \/ draft'.id = DraftId
    BY <1>1, <1>2, <2>1, SavedId
  <2>3. SealsWell(sealed, next) /\ Drafted(draft, sealed, next)
    BY DEF AInv
  <2> QED  BY <1>2, <1>3, <2>1, <2>2, <2>3, DraftedSaved
<1>5. Tidy(st'.adv, next')
  BY <1>1, <1>2, <1>3, TidyLater
<1> QED  BY <1>1, <1>3, <1>4, <1>5, ATidily

\* What follows a turn.
LEMMA ATurnFollowed ==
  ASSUME NEW n \in Nat \ {0}, NEW s \in States, Tidy(s.adv, n), NEW r, NEW id \in Int,
         TurnDone(r, s, id)
  PROVE  Tidy(st'.adv, n) /\ pc' # "side tools" /\ (pc' = "review" => st'.enabled)
<1> PICK phase : phase = Reviewed(r, s)
  OBVIOUS
<1>1. phase \in Phases
  BY DEF Reviewed, Phases
<1>2. \/ st' = s /\ pc' = AfterReview(s)
      \/ st' = PhaseStarted(s, phase, id) /\ pc' = "review"
  BY DEF TurnDone
<1>3. AfterReview(s) \in {"turn", "commit"}
  BY DEF AfterReview
<1>4. Tidy(PhaseStarted(s, phase, id).adv, n) /\ PhaseStarted(s, phase, id).enabled = TRUE
  BY <1>1, TidyStarted
<1> QED  BY <1>2, <1>3, <1>4

\* A turn done leaves it tidy.
LEMMA ATurned ==
  ASSUME DInv, DInv', AInv, AtRest(pc),
         UNCHANGED <<items, base, sealed, draft>>, next <= next',
         NEW s \in States, s.adv = st.adv, NEW r, NEW id \in Int, TurnDone(r, s, id)
  PROVE  AInv'
<1>1. st \in States /\ next \in Nat \ {0} /\ next \in Int /\ st.adv \in Seq(AdvMsgs) /\ Tidy(st.adv, next)
  BY TidyNow
<1>2. next' \in Int /\ next' \in Nat \ {0}
  BY NextType
<1>3. Tidy(s.adv, next')
  BY <1>1, <1>2, TidyLater
<1>4. Tidy(st'.adv, next') /\ pc' # "side tools" /\ (pc' = "review" => st'.enabled)
  BY <1>2, <1>3, ATurnFollowed
<1>5. pc # "idle"
  BY DEF AtRest
<1> QED  BY <1>4, <1>5, AQuietly

\* A result.
LEMMA AResult == ASSUME DInv, DInv', AInv, Result PROVE AInv'
<1>1. /\ pc \in {"turn", "stream"} /\ next' = next + 5
      /\ UNCHANGED <<items, base, sealed, draft>>
  BY DEF Result
<1>2. st \in States /\ next \in Nat \ {0}
  BY DEF DInv, Types
<1>3. PICK s \in States :
        /\ s.adv = st.adv /\ s.enabled = st.enabled /\ s.blocked = st.blocked /\ s.main # <<>>
        /\ (\E r : TurnDone(r, s, next + 3)) \/ (st' = s /\ pc' = "tools")
  BY <1>2, ResultTurn
<1>4. next + 3 \in Int /\ next <= next'
  BY <1>1, <1>2
<1>5. CASE \E r : TurnDone(r, s, next + 3)
  BY <1>1, <1>3, <1>4, <1>5, ATurned DEF AtRest
<1>6. CASE st' = s /\ pc' = "tools"
  BY <1>1, <1>3, <1>4, <1>6, AMainly DEF AtRest
<1> QED  BY <1>3, <1>5, <1>6

\* The server's tools.
LEMMA AServerTools == ASSUME DInv, DInv', AInv, ServerTools PROVE AInv'
<1>1. pc = "tools" /\ next' = next + 3 /\ UNCHANGED <<items, base, sealed, draft>>
  BY DEF ServerTools
<1>2. st \in States /\ next \in Nat \ {0} /\ st.main # <<>>
  BY <1>1 DEF DInv, Types, Turns
<1>3. PICK s \in States :
        /\ s.adv = st.adv /\ s.enabled = st.enabled /\ s.blocked = st.blocked
        /\ \E r : TurnDone(r, s, next + 1)
  BY <1>2, ToolsTurn
<1>4. next + 1 \in Int /\ next <= next'
  BY <1>1, <1>2
<1> QED  BY <1>1, <1>3, <1>4, ATurned DEF AtRest

\* A review concluded.
LEMMA AConcluded ==
  ASSUME DInv, DInv', AInv, pc = "review", NEW s \in States, NEW says, NEW id,
         Conclude(s, says, id), UNCHANGED <<items, base, sealed>>, next <= next',
         says = "nothing" \/ next < next', Tidy(s.adv, next')
  PROVE  AInv'
<1>1. next \in Nat \ {0} /\ draft.id \in Nat
  BY DEF DInv, Types
<1>2. next' \in Nat \ {0} /\ next' \in Int
  BY NextType
<1> PICK p : p = PhaseFinal(s, says, id)
  OBVIOUS
<1>3. st' = p /\ pc' = AfterReview(p)
  BY DEF Conclude, ConcludedAs
<1>4. Tidy(st'.adv, next')
  BY <1>2, <1>3, TidyFinal
<1>5. pc' \in {"turn", "commit"}
  BY <1>3 DEF AfterReview
<1>6. SealsWell(sealed, next) /\ Drafted(draft, sealed, next)
  BY DEF AInv
<1>7. Drafted(draft', sealed, next')
  <2>1. CASE draft' = draft
    <3>1. Drafted(draft, sealed, next')
      BY <1>1, <1>2, <1>6, DraftedLater
    <3> QED  BY <2>1, <3>1
  <2>2. CASE draft' # draft
    <3>1. draft' = Ensured(p) /\ next < next'
      BY <2>2 DEF Conclude, ConcludedAs, Annotated
    <3>2. draft.id = 0 /\ draft' = Saved(p)
      BY <2>2, <3>1 DEF Ensured
    <3>3. draft'.id = 0 \/ draft'.id = DraftId
      BY <1>1, <3>2, SavedId
    <3> QED  BY <1>1, <1>2, <1>6, <3>1, <3>3, DraftedSaved
  <2> QED  BY <2>1, <2>2
<1>8. pc # "idle" /\ pc' # "side tools" /\ pc' # "review"
  BY <1>5
<1> QED  BY <1>4, <1>7, <1>8, ATidily

\* The review is given up.
LEMMA ASkipReview == ASSUME DInv, DInv', AInv, SkipReview PROVE AInv'
<1>1. /\ pc = "review" /\ Conclude(st, "nothing", next) /\ next' = next
      /\ UNCHANGED <<items, base, sealed>>
  BY DEF SkipReview
<1>2. st \in States /\ next \in Nat \ {0} /\ next \in Int /\ st.adv \in Seq(AdvMsgs) /\ Tidy(st.adv, next)
  BY <1>1, TidyNow DEF AtRest
<1>3. next <= next' /\ Tidy(st.adv, next')
  BY <1>1, <1>2
<1> QED  BY <1>1, <1>2, <1>3, AConcluded

\* The thread with what refused attempts leave.
LEMMA TidyTried ==
  ASSUME st \in States, next \in Nat \ {0}, Tidy(st.adv, next), NEW before \in Attempts,
         NEW n \in Int, next + 3 <= n
  PROVE  st.adv \o before \in Seq(AdvMsgs) /\ Tidy(st.adv \o before, n)
<1>1. st.adv \in Seq(AdvMsgs)
  BY DEF States
<1>2. before \in Seq(AdvMsgs) /\ Tidy(before, next + 3)
  BY TidyAttempts
<1>3. next \in Int /\ next + 3 \in Int /\ next <= n
  OBVIOUS
<1>4. Tidy(st.adv, n) /\ Tidy(before, n)
  BY <1>1, <1>2, <1>3, TidyLater
<1> QED  BY <1>1, <1>2, <1>4, TidyJoined

\* The advisor advises.
LEMMA AAdvise == ASSUME DInv, DInv', AInv, Advise PROVE AInv'
<1>1. pc = "review" /\ next' = next + 7 /\ UNCHANGED <<items, base, sealed>>
  BY DEF Advise
<1>2. st \in States /\ next \in Nat \ {0} /\ next \in Int /\ st.adv \in Seq(AdvMsgs) /\ Tidy(st.adv, next)
  BY <1>1, TidyNow DEF AtRest
<1>3. PICK says \in {"nothing", "note", "advice"}, before \in Attempts :
        Conclude([st EXCEPT !.adv = @ \o before \o
                    <<AdvTurn(next + 3, <<next + 4>>), Output(next + 4, Advised, {})>>],
                 says, next + 5)
  BY DEF Advise
<1> PICK n \in Nat \ {0} : n = next' /\ n = next + 7
  BY <1>1, <1>2
<1> PICK c \in Int : c = next + 4 /\ c < n
  BY <1>2
<1>4. n \in Int /\ next + 3 \in Int /\ next + 3 <= n
  BY <1>2
<1> PICK mid \in Seq(AdvMsgs) : mid = st.adv \o before /\ Tidy(mid, n)
  BY <1>2, <1>4, TidyTried
<1> PICK calls \in Seq(Int) : calls = <<c>>
  <2>1. <<c>> \in Seq(Int)
    BY Three
  <2> QED  BY <2>1
<1> PICK t \in AdvMsgs : t = AdvTurn(next + 3, calls) /\ t.calls = calls /\ t.ref = 0
  <2>1. AdvTurn(next + 3, calls) \in AdvTurns /\ AdvTurn(next + 3, calls).calls = calls
    BY <1>4, AdvTurnType
  <2> QED  BY <2>1 DEF AdvMsgs, AdvTurns
<1> PICK o \in AdvMsgs : o = Output(c, Advised, {}) /\ IsTool(o) /\ o.ref = c
  <2>1. Advised \in Int /\ {} \in SUBSET Int
    BY DEF Advised
  <2>2. Output(c, Advised, {}) \in AdvOutputs
    BY <2>1, OutputType
  <2>3. Output(c, Advised, {}).ref = c /\ IsTool(Output(c, Advised, {}))
    BY DEF Output, IsTool
  <2> QED  BY <2>2, <2>3 DEF AdvMsgs
<1> PICK two \in Seq(AdvMsgs) : two = <<t, o>> /\ Tidy(two, n)
  <2>1. t.calls = <<c>>
    OBVIOUS
  <2>3. t.ref < n
    OBVIOUS
  <2>2. <<t, o>> \in Seq(AdvMsgs) /\ Squared(<<t, o>>) /\ Early(<<t, o>>, n)
    BY <1>4, <2>1, <2>3, SquaredPair
  <2> QED  BY <2>2 DEF Tidy
<1> PICK adv \in Seq(AdvMsgs) : adv = mid \o two /\ Tidy(adv, n)
  BY <1>4, TidyJoined
<1> PICK s : s = [st EXCEPT !.adv = adv]
  OBVIOUS
<1>5. s \in States /\ s.adv = adv
  BY <1>2 DEF States
<1>6. Conclude(s, says, next + 5)
  BY <1>3
<1>7. next <= next' /\ next < next'
  BY <1>1, <1>2
<1> QED  BY <1>1, <1>5, <1>6, <1>7, AConcluded

\* A turn alone, and that no output is in nothing.
LEMMA TurnOnly ==
  ASSUME NEW m \in AdvMsgs
  PROVE  /\ <<m>> \in Seq(AdvMsgs) /\ Turn(m, <<>>) = <<m>> /\ <<>> \in Seq(AdvMsgs)
         /\ \A c : c \notin Refs(<<>>)
<1>1. <<m>> \in Seq(AdvMsgs) /\ <<>> \in Seq(AdvMsgs)
  BY Three
<1>2. <<m>> \o <<>> = <<m>>
  OBVIOUS
<1> PICK e \in Seq(AdvMsgs) : e = <<>> /\ Len(e) = 0
  BY <1>1
<1>3. \A c : c \notin Refs(e)
  <2> TAKE c
  <2>1. ~\E j \in 1..Len(e) : IsTool(e[j]) /\ e[j].ref = c
    OBVIOUS
  <2> QED  BY <2>1, RefsAre
<1>4. \A c : c \notin Refs(<<>>)
  BY <1>3
<1> QED  BY <1>1, <1>2, <1>4 DEF Turn

\* The ids of a turn that is new.
LEMMA EarlyTurn ==
  ASSUME NEW n \in Int, NEW m \in AdvMsgs, m.ref < n, \A k \in 1..Len(m.calls) : m.calls[k] < n
  PROVE  Early(<<m>>, n)
<1> PICK s \in Seq(AdvMsgs) : s = <<m>> /\ Len(s) = 1 /\ s[1] = m
  <2>1. <<m>> \in Seq(AdvMsgs)
    BY Three
  <2>2. Len(<<m>>) = 1 /\ <<m>>[1] = m
    OBVIOUS
  <2> QED  BY <2>1, <2>2
<1>1. \A i \in 1..Len(s) : s[i] = m
  OBVIOUS
<1> QED  BY <1>1 DEF Early

\* Of these calls only c is not among the ids given.
OnlyLeft(calls, c, R) ==
  /\ \E k \in 1..Len(calls) : calls[k] = c
  /\ \A k \in 1..Len(calls) : calls[k] = c \/ calls[k] \in R
  /\ Left(calls, R) = <<c>>

\* One call, or the other of two.
LEMMA OnlyLeftFew ==
  ASSUME NEW c, NEW d, NEW R, c \notin R
  PROVE  OnlyLeft(<<c>>, c, R) /\ (d \in R => OnlyLeft(<<d, c>>, c, R))
<1>1. OnlyLeft(<<c>>, c, R)
  <2>1. Len(<<c>>) = 1 /\ <<c>>[1] = c
    OBVIOUS
  <2>2. 1 \in 1..1 /\ \A k \in 1..1 : k = 1
    OBVIOUS
  <2>3. Left(<<c>>, R) = <<c>>
    BY LeftFew
  <2> QED  BY <2>1, <2>2, <2>3 DEF OnlyLeft
<1>2. ASSUME d \in R PROVE OnlyLeft(<<d, c>>, c, R)
  <2>1. Len(<<d, c>>) = 2 /\ <<d, c>>[1] = d /\ <<d, c>>[2] = c
    OBVIOUS
  <2>2. 2 \in 1..2 /\ \A k \in 1..2 : k = 1 \/ k = 2
    OBVIOUS
  <2>3. Left(<<d, c>>, R) = <<c>>
    BY <1>2, LeftFew
  <2> QED  BY <1>2, <2>1, <2>2, <2>3 DEF OnlyLeft
<1> QED  BY <1>1, <1>2

\* One call of a turn is left, after the outputs for the others.
LEMMA TurnWaits ==
  ASSUME NEW old \in Seq(AdvMsgs), Squared(old), NEW m \in AdvMsgs, IsAssistant(m),
         NEW outs \in Seq(AdvMsgs), \A i \in 1..Len(outs) : IsTool(outs[i]),
         NEW c \in Int, c \notin Refs(old), c \notin Refs(outs),
         OnlyLeft(m.calls, c, Refs(outs))
  PROVE  Awaits(old \o Turn(m, outs), c)
<1> PICK t \in Seq(AdvMsgs) : t = Turn(m, outs)
  BY TurnAlone
<1>1. Owes(t, c)
  BY TurnAlone DEF OnlyLeft
<1>2. Owes(old \o t, c)
  BY <1>1, OwesJoined
<1>3. OpenCalls(old \o Turn(m, outs)) = Left(m.calls, Refs(outs))
  BY TurnOpen
<1>4. OpenCalls(old \o Turn(m, outs)) = <<c>>
  BY <1>3 DEF OnlyLeft
<1> QED  BY <1>2, <1>4 DEF Awaits

\* The call of a turn that has one is left.
LEMMA TurnAsks ==
  ASSUME NEW old \in Seq(AdvMsgs), Squared(old), NEW m \in AdvMsgs, IsAssistant(m),
         NEW c \in Int, c \notin Refs(old), m.calls = <<c>>
  PROVE  Awaits(old \o <<m>>, c)
<1>1. <<>> \in Seq(AdvMsgs) /\ Turn(m, <<>>) = <<m>> /\ c \notin Refs(<<>>)
  BY TurnOnly
<1>2. OnlyLeft(m.calls, c, Refs(<<>>))
  BY <1>1, OnlyLeftFew
<1> PICK e \in Seq(AdvMsgs) :
      /\ Turn(m, e) = <<m>> /\ c \notin Refs(e) /\ OnlyLeft(m.calls, c, Refs(e))
      /\ \A i \in 1..Len(e) : IsTool(e[i])
  <2>1. \A i \in 1..Len(<<>>) : IsTool(<<>>[i])
    OBVIOUS
  <2> QED  BY <1>1, <1>2, <2>1
<1>3. Awaits(old \o Turn(m, e), c)
  BY TurnWaits
<1> QED  BY <1>3

\* None is left after the outputs for all.
LEMMA TurnServed ==
  ASSUME NEW old \in Seq(AdvMsgs), Squared(old), NEW m \in AdvMsgs, IsAssistant(m),
         NEW outs \in Seq(AdvMsgs), \A i \in 1..Len(outs) : IsTool(outs[i]),
         \A k \in 1..Len(m.calls) : m.calls[k] \in Refs(outs)
  PROVE  old \o Turn(m, outs) \in Seq(AdvMsgs) /\ Squared(old \o Turn(m, outs))
<1> PICK t \in Seq(AdvMsgs) : t = Turn(m, outs) /\ Squared(t)
  BY TurnAlone
<1> QED  BY SquaredJoined

\* An id not given out is not shown.
LEMMA UnshownNew ==
  ASSUME NEW q \in Seq(Items), NEW n \in Int, ShownOnce(q, n), NEW c \in Int, n <= c
  PROVE  Unshown(q, c)
<1>1. ASSUME NEW i \in 1..Len(q), IsCall(q[i]) PROVE q[i].id # c
  <2> PICK x \in Items : x = q[i]
    OBVIOUS
  <2>1. x.id \in Int
    <3>1. x.t = "call"
      BY <1>1 DEF IsCall
    <3> QED  BY <3>1 DEF Items, PlainItems, ReasoningItems
  <2>2. x.id < n
    BY <1>1 DEF ShownOnce
  <2> QED  BY <2>1, <2>2
<1> QED  BY <1>1 DEF Unshown

\* An id not given out is not answered.
LEMMA RefsNew ==
  ASSUME NEW s \in Seq(AdvMsgs), NEW n \in Int, Early(s, n), NEW c \in Int, n <= c
  PROVE  c \notin Refs(s)
<1>1. ASSUME NEW i \in 1..Len(s) PROVE s[i].ref # c
  <2>1. s[i].ref < n /\ s[i].ref \in Int
    BY AdvAt DEF Early
  <2> QED  BY <2>1
<1> QED  BY <1>1, RefsAre

\* The advisor calls tools.
LEMMA AExplore == ASSUME DInv, DInv', AInv, Explore PROVE AInv'
<1>1. pc = "review" /\ next' = next + 6 /\ UNCHANGED <<items, base, sealed, draft>>
  BY DEF Explore
<1>2. st \in States /\ next \in Nat \ {0} /\ next \in Int /\ st.adv \in Seq(AdvMsgs) /\ Tidy(st.adv, next)
  BY <1>1, TidyNow DEF AtRest
<1>3. PICK calls \in {<<next + 4>>, <<next + 5>>, <<next + 4, next + 5>>}, before \in Attempts :
        /\ st' = [st EXCEPT !.adv = @ \o before \o <<AdvTurn(next + 3, calls)>>]
        /\ pc' = IF calls = <<next + 5>> THEN "commit" ELSE "side tools"
  BY DEF Explore
<1>4. items \in Seq(Items) /\ draft.id \in Nat /\ next' \in Nat \ {0}
  BY NextType DEF DInv, Types
<1>5. Drafted(draft, sealed, next) /\ ShownOnce(items, next) /\ st.enabled
  BY <1>1 DEF AInv, Script, Thread
<1> PICK n \in Nat \ {0} : n = next' /\ n = next + 6
  BY <1>1, <1>2
<1> PICK b \in Int : b = next + 3 /\ b <= n /\ next + 3 <= b
  BY <1>2
<1> PICK c \in Int : c = next + 4 /\ c < n /\ b <= c /\ next <= c
  BY <1>2
<1> PICK d \in Int : d = next + 5 /\ d < n /\ b <= d /\ c # d /\ next <= d
  BY <1>2
<1> PICK mid \in Seq(AdvMsgs) : mid = st.adv \o before /\ Tidy(mid, b)
  BY <1>2, TidyTried
<1>6. c \notin Refs(mid) /\ d \notin Refs(mid) /\ Unshown(items, c) /\ Unshown(items, d)
  <2>1. Early(mid, b)
    BY DEF Tidy
  <2>2. c \notin Refs(mid) /\ d \notin Refs(mid)
    BY <2>1, RefsNew
  <2> QED  BY <1>2, <1>4, <1>5, <2>2, UnshownNew
<1>7. calls \in Seq(Int) /\ \A k \in 1..Len(calls) : calls[k] < n
  <2>1. <<c>> \in Seq(Int) /\ <<d>> \in Seq(Int) /\ <<c, d>> \in Seq(Int)
    BY Three
  <2>2. \A k \in 1..Len(<<c>>) : <<c>>[k] < n
    OBVIOUS
  <2>3. \A k \in 1..Len(<<d>>) : <<d>>[k] < n
    OBVIOUS
  <2>4. \A k \in 1..Len(<<c, d>>) : <<c, d>>[k] < n
    <3>1. <<c, d>>[1] < n /\ <<c, d>>[2] < n
      OBVIOUS
    <3>2. \A k \in 1..Len(<<c, d>>) : k = 1 \/ k = 2
      OBVIOUS
    <3> QED  BY <3>1, <3>2
  <2> QED  BY <1>3, <2>1, <2>2, <2>3, <2>4
<1> PICK t \in AdvMsgs : t = AdvTurn(b, calls) /\ t.calls = calls /\ t.ref = 0 /\ IsAssistant(t)
  <2>1. AdvTurn(b, calls) \in AdvTurns /\ AdvTurn(b, calls).calls = calls
    BY <1>7, AdvTurnType
  <2>2. IsAssistant(AdvTurn(b, calls)) /\ AdvTurn(b, calls).ref = 0
    BY DEF AdvTurn, IsAssistant
  <2> QED  BY <2>1, <2>2 DEF AdvMsgs
<1> PICK adv \in Seq(AdvMsgs) : adv = mid \o <<t>> /\ Early(adv, n)
  <2>1. n \in Int /\ t.ref < n
    OBVIOUS
  <2>2. <<t>> \in Seq(AdvMsgs) /\ Early(<<t>>, n)
    BY <1>7, <2>1, EarlyTurn, TurnOnly
  <2>3. Early(mid, n)
    BY <2>1, TidyLater DEF Tidy
  <2>4. mid \o <<t>> \in Seq(AdvMsgs)
    BY <2>2, Joins
  <2> QED  BY <2>1, <2>2, <2>3, <2>4, EarlyJoined
<1>8. st'.adv = adv /\ st'.enabled = st.enabled
  <2>1. st' = [st EXCEPT !.adv = adv]
    BY <1>3
  <2> QED  BY <1>2, <2>1 DEF States
<1>9. Squared(mid)
  BY DEF Tidy
<1>10. ASSUME calls = <<d>> PROVE Thread(pc', st', items, next')
  <2>1. pc' = "commit"
    BY <1>3, <1>10
  <2>2. t.calls = <<d>>
    BY <1>10
  <2>5. Awaits(adv, d)
    BY <1>6, <1>9, <2>2, TurnAsks
  <2>6. Waiting(st', items)
    BY <1>5, <1>6, <1>8, <2>5 DEF Waiting
  <2>7. Thread(pc', st', items, next')
    BY <1>8, <2>1, <2>6 DEF Thread
  <2> QED  BY <2>7
<1>11. ASSUME calls # <<d>> PROVE Thread(pc', st', items, next')
  <2>1. pc' = "side tools"
    BY <1>3, <1>11
  <2>2. t.calls = <<c>> \/ (t.calls = <<c, d>> /\ c # d)
    BY <1>3, <1>11
  <2>3. Exploring(adv, items)
    BY <1>6, <1>9, <2>2 DEF Exploring
  <2>4. Thread(pc', st', items, next')
    BY <1>5, <1>8, <2>1, <2>3 DEF Thread
  <2> QED  BY <2>4
<1>12. next <= next' /\ Drafted(draft', sealed, next')
  <2>1. next <= next'
    BY <1>1, <1>2
  <2>2. Drafted(draft, sealed, next')
    BY <1>2, <1>4, <1>5, <2>1, DraftedLater
  <2> QED  BY <1>1, <2>1, <2>2
<1>13. pc # "idle"
  BY <1>1
<1>14. Thread(pc', st', items, next')
  BY <1>10, <1>11
<1> QED  BY <1>1, <1>12, <1>13, <1>14, AGoesOn

\* Outputs the server makes up answer what they are for.
LEMMA StubsTidy ==
  ASSUME NEW n \in Int, NEW calls \in Seq(Int), \A k \in 1..Len(calls) : calls[k] < n, NEW id \in Int,
         NEW outs, outs = Stubs(calls, id, {})
  PROVE  /\ outs \in Seq(AdvMsgs) /\ \A i \in 1..Len(outs) : IsTool(outs[i])
         /\ Tidy(outs, n) /\ \A k \in 1..Len(calls) : calls[k] \in Refs(outs)
<1>1. \A c \in Int : /\ Output(c, id, {}) \in AdvMsgs /\ IsTool(Output(c, id, {}))
                     /\ Output(c, id, {}).ref = c /\ Output(c, id, {}).calls = <<>>
  <2> TAKE c \in Int
  <2>1. {} \in SUBSET Int
    OBVIOUS
  <2>2. Output(c, id, {}) \in AdvMsgs
    BY <2>1, OutputType DEF AdvMsgs
  <2>3. IsTool(Output(c, id, {})) /\ Output(c, id, {}).ref = c /\ Output(c, id, {}).calls = <<>>
    BY DEF Output, IsTool
  <2> QED  BY <2>2, <2>3
<1> PICK l \in Nat : l = Len(calls)
  OBVIOUS
<1>2. outs = [i \in 1..l |-> Output(calls[i], id, {})]
  <2>1. DOMAIN calls = 1..l
    OBVIOUS
  <2> QED  BY <2>1 DEF Stubs
<1>3. \A i \in 1..l : calls[i] \in Int
  OBVIOUS
<1>4. outs \in [1..l -> AdvMsgs]
  BY <1>1, <1>2, <1>3
<1>5. outs \in Seq(AdvMsgs) /\ Len(outs) = l
  <2>1. outs \in Seq(AdvMsgs)
    BY <1>4, IsSequence
  <2>2. DOMAIN outs = 1..l /\ DOMAIN outs = 1..Len(outs) /\ Len(outs) \in Nat
    BY <1>2, <2>1
  <2>3. \A a \in Nat, b \in Nat : 1..a = 1..b => a = b
    OBVIOUS
  <2> QED  BY <2>1, <2>2, <2>3
<1>6. \A i \in 1..l : IsTool(outs[i]) /\ outs[i].ref = calls[i] /\ outs[i].calls = <<>>
  BY <1>1, <1>2, <1>3
<1>7. Squared(outs)
  BY <1>5, <1>6, SquaredNone
<1>8. Early(outs, n)
  <2>1. Len(<<>>) = 0
    OBVIOUS
  <2>2. \A i \in 1..l : outs[i].ref < n /\ \A k \in 1..Len(outs[i].calls) : outs[i].calls[k] < n
    BY <1>6, <2>1
  <2> QED  BY <1>5, <2>2 DEF Early
<1>9. \A k \in 1..l : calls[k] \in Refs(outs)
  BY <1>5, <1>6, RefsAre
<1> QED  BY <1>5, <1>6, <1>7, <1>8, <1>9 DEF Tidy

\* What is open in a thread is called in it.
LEMMA OpenEarly ==
  ASSUME NEW n \in Int, NEW s \in Seq(AdvMsgs), Early(s, n)
  PROVE  OpenCalls(s) \in Seq(Int) /\ \A k \in 1..Len(OpenCalls(s)) : OpenCalls(s)[k] < n
<1>1. CASE OpenCalls(s) = <<>>
  <2>1. <<>> \in Seq(Int) /\ Len(<<>>) = 0
    OBVIOUS
  <2> QED  BY <1>1, <2>1
<1>2. CASE OpenCalls(s) # <<>>
  <2> PICK a \in 1..Len(s) : \E R : OpenCalls(s) = Left(s[a].calls, R)
    BY <1>2, OpenAre
  <2> PICK R : OpenCalls(s) = Left(s[a].calls, R)
    OBVIOUS
  <2> DEFINE T == {x \in Int : x < n}
  <2>1. s[a].calls \in Seq(Int) /\ \A k \in 1..Len(s[a].calls) : s[a].calls[k] < n
    BY AdvAt DEF Early
  <2> PICK calls \in Seq(Int) : calls = s[a].calls /\ \A k \in 1..Len(calls) : calls[k] < n
    BY <2>1
  <2>2. calls \in Seq(T)
    OBVIOUS
  <2>3. \A x \in T : x \in Int /\ x < n
    OBVIOUS
  <2> HIDE DEF T
  <2>4. Left(calls, R) \in Seq(T)
    BY <2>2, LeftAre
  <2> PICK open \in Seq(T) : open = OpenCalls(s)
    BY <2>4
  <2>5. open \in Seq(Int) /\ \A k \in 1..Len(open) : open[k] < n
    BY <2>3
  <2> QED  BY <2>5
<1> QED  BY <1>1, <1>2

\* Every element of one sequence is in another.
Within(s, t) == \A k \in 1..Len(s) : \E l \in 1..Len(t) : t[l] = s[k]

\* All are left when none is among the ids given.
LEMMA AllLeft ==
  ASSUME NEW calls \in Seq(Int), NEW R, \A c : c \notin R
  PROVE  Within(calls, Left(calls, R))
<1>1. \A k \in 1..Len(calls) : calls[k] \notin R =>
         \E l \in 1..Len(Left(calls, R)) : Left(calls, R)[l] = calls[k]
  BY LeftAre
<1> PICK left : left = Left(calls, R)
  OBVIOUS
<1>2. \A k \in 1..Len(calls) : \E l \in 1..Len(left) : left[l] = calls[k]
  BY <1>1
<1> QED  BY <1>2 DEF Within

\* All calls of a turn are open when nothing has answered them.
LEMMA TurnAllOpen ==
  ASSUME NEW old \in Seq(AdvMsgs), NEW m \in AdvMsgs, IsAssistant(m)
  PROVE  Within(m.calls, OpenCalls(old \o <<m>>))
<1>1. <<>> \in Seq(AdvMsgs) /\ Turn(m, <<>>) = <<m>> /\ \A c : c \notin Refs(<<>>)
  BY TurnOnly
<1>2. \A i \in 1..Len(<<>>) : IsTool(<<>>[i])
  OBVIOUS
<1> PICK e \in Seq(AdvMsgs) :
      /\ Turn(m, e) = <<m>> /\ (\A c : c \notin Refs(e)) /\ \A i \in 1..Len(e) : IsTool(e[i])
  BY <1>1, <1>2
<1>3. OpenCalls(old \o Turn(m, e)) = Left(m.calls, Refs(e))
  BY TurnOpen
<1>4. m.calls \in Seq(Int)
  BY AdvMsgFields
<1>5. Within(m.calls, Left(m.calls, Refs(e)))
  BY <1>4, AllLeft
<1> QED  BY <1>3, <1>5

\* Outputs for what is open, when a response is interrupted, leave the thread tidy.
LEMMA SnapshotTidy ==
  ASSUME NEW n \in Int, NEW s \in States, NEW where, where # "commit", NEW q,
         Thread(where, s, q, n)
  PROVE  Tidy(Snapshot(s).adv, n)
<1>1. s.adv \in Seq(AdvMsgs) /\ Early(s.adv, n)
  BY DEF States, Thread
<1> PICK open \in Seq(Int) : open = OpenCalls(s.adv) /\ \A k \in 1..Len(open) : open[k] < n
  BY <1>1, OpenEarly
<1> PICK outs \in Seq(AdvMsgs) :
      /\ outs = Stubs(open, Interrupted, {}) /\ \A i \in 1..Len(outs) : IsTool(outs[i])
      /\ Tidy(outs, n) /\ \A k \in 1..Len(open) : open[k] \in Refs(outs)
  <2>1. Interrupted \in Int
    BY DEF Interrupted
  <2> QED  BY <2>1, StubsTidy
<1>2. Snapshot(s).adv = IF s.enabled THEN s.adv \o outs ELSE s.adv
  BY DEF Snapshot, Stubbed, States
<1>3. ASSUME Squared(s.adv) PROVE Tidy(Snapshot(s).adv, n)
  <2>1. Tidy(s.adv, n)
    BY <1>1, <1>3 DEF Tidy
  <2>2. Tidy(s.adv \o outs, n)
    BY <1>1, <2>1, TidyJoined
  <2> QED  BY <1>2, <2>1, <2>2
<1>4. ASSUME where = "side tools" PROVE Tidy(Snapshot(s).adv, n)
  <2>1. s.enabled /\ Exploring(s.adv, q)
    BY <1>4 DEF Thread
  <2> PICK old \in Seq(AdvMsgs), m \in AdvMsgs : s.adv = old \o <<m>> /\ Squared(old) /\ IsAssistant(m)
    BY <2>1 DEF Exploring
  <2>5. Within(m.calls, open)
    BY TurnAllOpen
  <2>6. \A k \in 1..Len(m.calls) : m.calls[k] \in Refs(outs)
    BY <2>5 DEF Within
  <2>7. Squared(old \o Turn(m, outs))
    BY <2>6, TurnServed
  <2>8. <<m>> \in Seq(AdvMsgs) /\ s.adv \o outs = old \o Turn(m, outs)
    <3>1. <<m>> \in Seq(AdvMsgs)
      BY Three
    <3> PICK one \in Seq(AdvMsgs) : one = <<m>>
      BY <3>1
    <3>2. (old \o one) \o outs = old \o (one \o outs)
      BY ConcatAssociative
    <3> QED  BY <3>1, <3>2 DEF Turn
  <2>9. Early(s.adv \o outs, n)
    BY <1>1, EarlyJoined DEF Tidy
  <2> QED  BY <1>2, <2>1, <2>7, <2>8, <2>9 DEF Tidy
<1>5. where = "side tools" \/ Squared(s.adv)
  BY DEF Thread
<1> QED  BY <1>3, <1>4, <1>5

\* A turn with an output after it.
LEMMA TurnOutput ==
  ASSUME NEW old \in Seq(AdvMsgs), NEW m \in AdvMsgs, NEW o \in AdvMsgs
  PROVE  /\ <<o>> \in Seq(AdvMsgs) /\ Append(old \o <<m>>, o) = old \o Turn(m, <<o>>)
         /\ \A c : c \in Refs(<<o>>) <=> IsTool(o) /\ o.ref = c
<1> PICK x \in Seq(AdvMsgs), y \in Seq(AdvMsgs) : x = <<m>> /\ y = <<o>>
  <2>1. <<m>> \in Seq(AdvMsgs) /\ <<o>> \in Seq(AdvMsgs)
    BY Three
  <2> QED  BY <2>1
<1>1. (old \o x) \o y = old \o (x \o y)
  BY ConcatAssociative
<1> PICK z \in Seq(AdvMsgs) : z = old \o x
  BY Joins
<1>2. z \o <<o>> = Append(z, o)
  BY AppendIsConcat
<1>3. Append(z, o) = old \o (x \o y)
  BY <1>1, <1>2
<1>4. Append(old \o <<m>>, o) = old \o Turn(m, <<o>>)
  BY <1>3 DEF Turn
<1>5. Len(y) = 1 /\ y[1] = o
  <2>1. Len(<<o>>) = 1 /\ <<o>>[1] = o
    OBVIOUS
  <2> QED  BY <2>1
<1>6. ASSUME NEW c PROVE c \in Refs(y) <=> IsTool(o) /\ o.ref = c
  <2>1. c \in Refs(y) <=> \E j \in 1..Len(y) : IsTool(y[j]) /\ y[j].ref = c
    BY RefsAre
  <2>2. 1 \in 1..1 /\ \A j \in 1..1 : j = 1
    OBVIOUS
  <2> QED  BY <1>5, <2>1, <2>2
<1> QED  BY <1>4, <1>6

\* An output of the server's for the turn's first call: the second waits, or none.
LEMMA FirstServed ==
  ASSUME NEW old \in Seq(AdvMsgs), Squared(old), NEW m \in AdvMsgs, IsAssistant(m),
         NEW c \in Int, NEW d \in Int, c \notin Refs(old), d \notin Refs(old),
         m.calls = <<c>> \/ (m.calls = <<c, d>> /\ c # d),
         NEW o \in AdvMsgs, IsTool(o), o.ref = c
  PROVE  Squared(Append(old \o <<m>>, o)) \/ Awaits(Append(old \o <<m>>, o), d)
<1>1. <<o>> \in Seq(AdvMsgs) /\ Append(old \o <<m>>, o) = old \o Turn(m, <<o>>)
  BY TurnOutput
<1> PICK y \in Seq(AdvMsgs) :
      /\ Append(old \o <<m>>, o) = old \o Turn(m, y)
      /\ \A i \in 1..Len(y) : IsTool(y[i])
      /\ \A e : e \in Refs(y) <=> e = c
  <2>1. \A e : e \in Refs(<<o>>) <=> e = c
    BY TurnOutput
  <2>2. \A i \in 1..Len(<<o>>) : IsTool(<<o>>[i])
    OBVIOUS
  <2> QED  BY <1>1, <2>1, <2>2
<1>2. CASE m.calls = <<c>>
  <2>1. Len(<<c>>) = 1 /\ <<c>>[1] = c /\ \A k \in 1..1 : k = 1
    OBVIOUS
  <2>2. \A k \in 1..Len(m.calls) : m.calls[k] \in Refs(y)
    BY <1>2, <2>1
  <2> QED  BY <2>2, TurnServed
<1>3. CASE m.calls = <<c, d>> /\ c # d
  <2>1. d \notin Refs(y) /\ c \in Refs(y)
    BY <1>3
  <2>2. OnlyLeft(m.calls, d, Refs(y))
    BY <1>3, <2>1, OnlyLeftFew
  <2> QED  BY <2>1, <2>2, TurnWaits
<1> QED  BY <1>2, <1>3

\* The server's tools run for the advisor.
LEMMA ASideTools == ASSUME DInv, DInv', AInv, SideTools PROVE AInv'
<1>1. /\ pc = "side tools" /\ next' = next + 1 /\ UNCHANGED <<items, base, sealed, draft>>
      /\ pc' = IF OpenCalls(st'.adv) = <<>> THEN "review" ELSE "commit"
  BY DEF SideTools
<1>2. st \in States /\ next \in Nat \ {0} /\ next \in Int /\ items \in Seq(Items) /\ draft.id \in Nat
  BY DEF DInv, Types
<1>a. next' \in Nat \ {0} /\ next' \in Int
  BY NextType
<1>b. next' = next + 1
  BY DEF SideTools
<1>3. next' \in Nat \ {0} /\ next' \in Int /\ next <= next'
  BY <1>a, <1>b, <1>2
<1>4. Drafted(draft, sealed, next) /\ Thread(pc, st, items, next)
  BY <1>1 DEF AInv
<1>5. Exploring(st.adv, items) /\ st.enabled /\ Early(st.adv, next) /\ st.adv \in Seq(AdvMsgs)
  BY <1>1, <1>2, <1>4 DEF Thread, States
<1> PICK old \in Seq(AdvMsgs), m \in AdvMsgs, c \in Int, d \in Int :
      /\ st.adv = old \o <<m>> /\ Squared(old) /\ IsAssistant(m)
      /\ m.calls = <<c>> \/ (m.calls = <<c, d>> /\ c # d)
      /\ c \notin Refs(old) /\ d \notin Refs(old) /\ Unshown(items, d)
  BY <1>5 DEF Exploring
<1>6. Head(Last(st.adv).calls) = c
  <2>1. Last(st.adv) = m
    BY LastAppended
  <2>2. Head(<<c>>) = c /\ Head(<<c, d>>) = c
    OBVIOUS
  <2> QED  BY <2>1, <2>2
<1> PICK o \in AdvMsgs : o = Output(c, next, {c}) /\ IsTool(o) /\ o.ref = c
  <2>1. {c} \in SUBSET Int
    OBVIOUS
  <2>2. Output(c, next, {c}) \in AdvOutputs
    BY <1>2, <2>1, OutputType
  <2>3. Output(c, next, {c}).ref = c /\ IsTool(Output(c, next, {c}))
    BY DEF Output, IsTool
  <2> QED  BY <2>2, <2>3 DEF AdvMsgs
<1> PICK adv : adv = Append(st.adv, o)
  OBVIOUS
<1>7. st' = [st EXCEPT !.adv = adv, !.memory = @ + 1]
  BY <1>6 DEF SideTools
<1>8. st'.adv = adv /\ st'.enabled = st.enabled
  BY <1>2, <1>7 DEF States
<1>9. Squared(adv) \/ Awaits(adv, d)
  BY FirstServed
<1>10. adv \in Seq(AdvMsgs) /\ Early(adv, next')
  <2>1. st.adv \o <<o>> = adv /\ adv \in Seq(AdvMsgs) /\ <<o>> \in Seq(AdvMsgs)
    BY <1>5, AppendIsConcat, TurnOutput
  <2>2. c < next
    <3>1. <<m>> \in Seq(AdvMsgs) /\ Len(<<m>>) = 1 /\ <<m>>[1] = m
      BY Three
    <3> PICK one \in Seq(AdvMsgs) : one = <<m>> /\ Len(one) = 1 /\ one[1] = m
      BY <3>1
    <3> PICK a : a = Len(old) + 1
      OBVIOUS
    <3>2. a \in 1..Len(st.adv) /\ st.adv[a] = m
      BY Joins
    <3>3. 1 \in 1..Len(m.calls) /\ m.calls[1] = c
      <4>1. Len(<<c>>) = 1 /\ <<c>>[1] = c /\ Len(<<c, d>>) = 2 /\ <<c, d>>[1] = c
        OBVIOUS
      <4>2. 1 \in 1..1 /\ 1 \in 1..2
        OBVIOUS
      <4> QED  BY <4>1, <4>2
    <3> QED  BY <1>5, <3>2, <3>3 DEF Early
  <2>3. o.ref < next' /\ o.calls = <<>>
    <3>1. o.calls = <<>>
      BY AdvMsgFields
    <3> QED  BY <1>b, <1>2, <2>2, <3>1
  <2>4. Early(<<o>>, next')
    BY <1>3, <2>3, SquaredNote
  <2>5. Early(st.adv, next')
    BY <1>2, <1>3, <1>5, EarlyLater
  <2>6. Early(st.adv \o <<o>>, next')
    BY <1>3, <1>5, <2>1, <2>4, <2>5, EarlyJoined
  <2> QED  BY <2>1, <2>6
<1>11. pc' = "review" => Squared(adv)
  <2>1. <<d>> # <<>>
    OBVIOUS
  <2>2. pc' = "review" => OpenCalls(adv) = <<>>
    BY <1>1, <1>8
  <2> QED  BY <1>9, <2>1, <2>2 DEF Awaits
<1>12. Waiting(st', items)
  BY <1>5, <1>8, <1>9 DEF Waiting
<1>13. pc' \in {"review", "commit"}
  BY <1>1
<1>14. Thread(pc', st', items, next')
  BY <1>5, <1>8, <1>10, <1>11, <1>12, <1>13 DEF Thread
<1>15. Drafted(draft', sealed, next')
  <2>1. Drafted(draft, sealed, next')
    BY <1>2, <1>3, <1>4, DraftedLater
  <2> QED  BY <1>1, <2>1
<1>16. pc # "idle"
  BY <1>1
<1> QED  BY <1>1, <1>3, <1>14, <1>15, <1>16, AGoesOn

-----------------------------------------------------------------------------
(* What the client has after a response.                                   *)

\* A sequence after another has the items of both.
LEMMA WireJoined ==
  ASSUME NEW s \in Seq(Items), NEW t \in Seq(Items), NEW q, q = s \o t
  PROVE  /\ q \in Seq(Items) /\ Wire(q) = Wire(s) \cup Wire(t)
         /\ \A i \in 1..Len(q) :
              \/ i \in 1..Len(s) /\ q[i] = s[i]
              \/ i - Len(s) \in 1..Len(t) /\ q[i] = t[i - Len(s)]
<1>1. q \in Seq(Items) /\ Len(q) = Len(s) + Len(t) /\ Len(s) \in Nat /\ Len(t) \in Nat
  OBVIOUS
<1>2. \A i \in 1..Len(s) : q[i] = s[i]
  OBVIOUS
<1>3. \A i \in 1..Len(t) : q[Len(s) + i] = t[i]
  OBVIOUS
<1>4. ASSUME NEW i \in 1..Len(q)
      PROVE  \/ i \in 1..Len(s) /\ q[i] = s[i]
             \/ i - Len(s) \in 1..Len(t) /\ q[i] = t[i - Len(s)]
  <2>1. CASE i <= Len(s)
    BY <1>1, <1>2, <2>1
  <2>2. CASE i > Len(s)
    <3> PICK a \in Nat, b \in Nat : a = Len(s) /\ b = Len(t) /\ Len(q) = a + b
      BY <1>1
    <3>1. i - a \in 1..b /\ i = a + (i - a)
      BY <2>2
    <3> QED  BY <1>3, <3>1
  <2> QED  BY <1>1, <2>1, <2>2
<1>5. Wire(q) \subseteq Wire(s) \cup Wire(t)
  BY <1>4 DEF Wire
<1>9. ASSUME NEW i \in 1..Len(s) PROVE s[i] \in Wire(q)
  <2>1. i \in 1..Len(q) /\ q[i] = s[i]
    BY <1>1, <1>2
  <2> QED  BY <2>1 DEF Wire
<1>6. Wire(s) \subseteq Wire(q)
  BY <1>9 DEF Wire
<1>7. ASSUME NEW i \in 1..Len(t) PROVE t[i] \in Wire(q)
  <2> PICK k \in 1..Len(q) : k = Len(s) + i
    BY <1>1
  <2>1. q[k] = t[i]
    BY <1>3
  <2> QED  BY <2>1 DEF Wire
<1>8. Wire(t) \subseteq Wire(q)
  BY <1>7 DEF Wire
<1> QED  BY <1>1, <1>4, <1>5, <1>6, <1>8

\* Linked items after linked items.
LEMMA ChainedJoined ==
  ASSUME NEW sl, NEW V, NEW s \in Seq(Items), NEW t \in Seq(Items), NEW q, q = s \o t,
         Chained(s, sl, V), Chained(t, sl, V)
  PROVE  Chained(q, sl, V)
<1>1. \A i \in 1..Len(q) :
              \/ i \in 1..Len(s) /\ q[i] = s[i]
              \/ i - Len(s) \in 1..Len(t) /\ q[i] = t[i - Len(s)]
  BY WireJoined
<1> DEFINE Fits(x) == x \in V /\ (x \in ReasoningItems => Linked(x, sl, V))
<1>2. (\A i \in 1..Len(s) : Fits(s[i])) /\ (\A i \in 1..Len(t) : Fits(t[i]))
  BY DEF Chained
<1> HIDE DEF Fits
<1>3. \A i \in 1..Len(q) : Fits(q[i])
  BY <1>1, <1>2
<1> QED  BY <1>3 DEF Chained, Fits

\* Linked items stay so, however many more there are.
LEMMA ChainedMore ==
  ASSUME NEW sl, NEW V, NEW W, V \subseteq W, NEW s \in Seq(Items), Chained(s, sl, V)
  PROVE  Chained(s, sl, W)
<1>1. ASSUME NEW i \in 1..Len(s), s[i] \in ReasoningItems PROVE Linked(s[i], sl, W)
  <2>1. Linked(s[i], sl, V)
    BY <1>1 DEF Chained
  <2> QED  BY <2>1, LinkedMore
<1> QED  BY <1>1 DEF Chained

\* Items of another kind need no link.
LEMMA ChainedPlain ==
  ASSUME NEW sl, NEW V, NEW s \in Seq(PlainItems), Wire(s) \subseteq V
  PROVE  s \in Seq(Items) /\ Chained(s, sl, V)
<1>1. \A x \in PlainItems : x \notin ReasoningItems
  BY DEF PlainItems, ReasoningItems
<1>2. \A i \in 1..Len(s) : s[i] \in PlainItems /\ s[i] \in Wire(s)
  BY DEF Wire
<1>3. s \in Seq(Items)
  BY DEF Items
<1> QED  BY <1>1, <1>2, <1>3 DEF Chained

\* Calls of the advisor after others.
LEMMA ShownJoined ==
  ASSUME NEW n \in Int, NEW s \in Seq(Items), NEW t \in Seq(Items), NEW q, q = s \o t,
         ShownOnce(s, n), ShownOnce(t, n),
         \A i \in 1..Len(t) : IsCall(t[i]) => Unshown(s, t[i].id)
  PROVE  ShownOnce(q, n)
<1>1. \A i \in 1..Len(q) :
              \/ i \in 1..Len(s) /\ q[i] = s[i]
              \/ i - Len(s) \in 1..Len(t) /\ q[i] = t[i - Len(s)]
  BY WireJoined
<1>2. Len(s) \in Nat /\ Len(q) \in Nat
  BY WireJoined
<1>3. \A i \in 1..Len(q) : IsCall(q[i]) => q[i].id < n
  BY <1>1 DEF ShownOnce
<1>4. \A i \in 1..Len(s), j \in 1..Len(t) : ~(IsCall(s[i]) /\ IsCall(t[j]) /\ s[i].id = t[j].id)
  BY DEF Unshown
<1>5. ASSUME NEW i \in 1..Len(q), NEW j \in 1..Len(q), IsCall(q[i]), IsCall(q[j]), q[i].id = q[j].id
      PROVE  i = j
  <2>1. CASE i \in 1..Len(s) /\ q[i] = s[i] /\ j \in 1..Len(s) /\ q[j] = s[j]
    BY <1>5, <2>1 DEF ShownOnce
  <2>2. CASE i - Len(s) \in 1..Len(t) /\ q[i] = t[i - Len(s)] /\ j - Len(s) \in 1..Len(t) /\ q[j] = t[j - Len(s)]
    <3> PICK a, b : a = i - Len(s) /\ b = j - Len(s)
      OBVIOUS
    <3>1. a = b
      BY <1>5, <2>2 DEF ShownOnce
    <3> QED  BY <1>2, <3>1
  <2> QED  BY <1>1, <1>4, <1>5, <2>1, <2>2
<1> QED  BY <1>3, <1>5 DEF ShownOnce

\* What is sealed once s is, as k.
SealedToo(sl, k, s) == [i \in DOMAIN sl \cup {k} |-> IF i = k THEN s ELSE sl[i]]

\* What that says.
Grown(new, sl, k, s) ==
  /\ DOMAIN new = DOMAIN sl \cup {k} /\ new[k] = s
  /\ \A i \in DOMAIN sl : i # k => new[i] = sl[i]

\* So is what the store has when the item is sealed.
LEMMA SealedOn == ASSUME NEW sl, NEW k, NEW s PROVE Grown(SealedToo(sl, k, s), sl, k, s)
BY DEF SealedToo, Grown

\* What was sealed before is sealed after another state is, and so the beginning.
LEMMA OriginOn ==
  ASSUME NEW sl, 0 \notin DOMAIN sl, NEW k, k # 0, k \notin DOMAIN sl, NEW s, NEW id, Known(sl, id)
  PROVE  Known(SealedToo(sl, k, s), id) /\ Origin(SealedToo(sl, k, s), id) = Origin(sl, id)
<1> PICK new : new = SealedToo(sl, k, s)
  OBVIOUS
<1>0. Grown(new, sl, k, s)
  BY SealedOn
<1>1. DOMAIN new = DOMAIN sl \cup {k} /\ \A i \in DOMAIN sl : i # k => new[i] = sl[i]
  BY <1>0 DEF Grown
<1>2. CASE id \in DOMAIN sl
  <2>1. id \in DOMAIN new /\ new[id] = sl[id]
    BY <1>1, <1>2
  <2> QED  BY <1>2, <2>1 DEF Known, Origin
<1>3. CASE id \notin DOMAIN sl /\ id = 0
  <2>1. id \notin DOMAIN new
    BY <1>1, <1>3
  <2> QED  BY <1>3, <2>1 DEF Known, Origin
<1> QED  BY <1>2, <1>3 DEF Known

\* What was linked is.
LEMMA LinkedOn ==
  ASSUME NEW sl, 0 \notin DOMAIN sl, NEW k, k # 0, k \notin DOMAIN sl, NEW s,
         NEW x, NEW V, Linked(x, sl, V)
  PROVE  Linked(x, SealedToo(sl, k, s), V)
<1> PICK new : new = SealedToo(sl, k, s)
  OBVIOUS
<1>1. x.id \in DOMAIN new /\ new[x.id] = sl[x.id]
  <2>1. x.id \in DOMAIN sl
    BY DEF Linked
  <2>2. Grown(new, sl, k, s)
    BY SealedOn
  <2> QED  BY <2>1, <2>2 DEF Grown
<1>2. Known(sl, x.prev) => Known(new, x.prev) /\ Origin(new, x.prev) = Origin(sl, x.prev)
  BY OriginOn
<1> QED  BY <1>1, <1>2 DEF Linked

\* What the open reasoning item becomes is linked.
LEMMA LinkedNew ==
  ASSUME base \in Bases, next \in Nat \ {0}, SealsWell(sealed, next), Learned(base, sealed, items),
         NEW s \in States, NEW d, d.id \in Nat \ {0}, d.id \notin DOMAIN sealed,
         d.state = StateUpdate(base, s, base.ck), d.main \in MainUpdates,
         NEW sl, sl = SealedToo(sealed, d.id, s)
  PROVE  Reasoning(d) \in ReasoningItems /\ Linked(Reasoning(d), sl, Wire(items))
<1> PICK x : x = Reasoning(d)
  OBVIOUS
<1> PICK ck \in BOOLEAN : ck = base.ck
  BY DEF Bases
<1>1. d.state \in Checkpoints \cup StatePatches /\ base.last \in Int
  <2>1. d.state \in Checkpoints \cup StatePatches
    BY StateUpdateType
  <2> QED  BY <2>1 DEF Bases
<1>2. x \in ReasoningItems /\ x.id = d.id /\ x.state = d.state
  BY <1>1 DEF Reasoning, ReasoningItem, ReasoningItems
<1>6. 0 \notin DOMAIN sealed /\ d.id # 0
  BY DEF SealsWell
<1>3. d.id \in DOMAIN sl /\ sl[d.id] = s
  <2>1. Grown(sl, sealed, d.id, s)
    BY SealedOn
  <2> QED  BY <2>1 DEF Grown
<1>4. CASE ck
  <2>1. x.state = Checkpoint(s)
    BY <1>2, <1>4 DEF StateUpdate
  <2> QED  BY <1>2, <1>3, <2>1 DEF Linked
<1>5. CASE ~ck
  <2>1. x.state = StatePatch(base, s)
    BY <1>2, <1>5 DEF StateUpdate
  <2>2. x.prev = base.last
    <3>1. d.state.type # "checkpoint"
      BY <1>2, <2>1 DEF StatePatch
    <3> QED  BY <3>1 DEF Reasoning, ReasoningItem
  <2>3. Known(sl, base.last) /\ Origin(sl, base.last) = Origin(sealed, base.last)
    BY <1>6, OriginOn DEF Learned
  <2>4. Told(base, Origin(sl, x.prev), Wire(items))
    BY <2>2, <2>3 DEF Learned
  <2> QED  BY <1>2, <1>3, <2>1, <2>2, <2>3, <2>4 DEF Linked
<1> QED  BY <1>2, <1>4, <1>5

\* What is sealed at last is well kept.
LEMMA SealsOn ==
  ASSUME NEW n \in Nat \ {0}, NEW m \in Nat \ {0}, n < m, NEW sl, SealsWell(sl, n),
         NEW k \in 1..(m - 1), NEW s \in States, WellKept(s, n), k \notin DOMAIN sl,
         NEW sl2, sl2 = SealedToo(sl, k, s)
  PROVE  SealsWell(sl2, m)
<1>1. SealsWell(sl, m)
  BY SealsLater
<1>2. 0 \notin DOMAIN sl /\ k # 0
  BY DEF SealsWell
<1>3. DOMAIN sl2 = DOMAIN sl \cup {k} /\ sl2[k] = s /\ \A i \in DOMAIN sl : sl2[i] = sl[i]
  <2>1. Grown(sl2, sl, k, s)
    BY SealedOn
  <2> QED  BY <2>1 DEF Grown
<1>4. WellKept(s, m)
  <2>1. s.adv \in Seq(AdvMsgs) /\ n \in Int /\ m \in Int /\ Early(s.adv, n)
    BY DEF States, WellKept
  <2>2. Early(s.adv, m)
    BY <2>1, EarlyLater
  <2> QED  BY <2>2 DEF WellKept
<1> QED  BY <1>1, <1>3, <1>4 DEF SealsWell

\* The client is asked for these calls now.
Asks(out, q, n) ==
  /\ ShownOnce(out, n)
  /\ \A i \in 1..Len(out) : out[i].t # "output" /\ (IsCall(out[i]) => Unshown(q, out[i].id))

\* Items of one kind are items.
LEMMA MoreKinds ==
  /\ \A s \in Seq(ReasoningItems) : s \in Seq(Items)
  /\ \A t \in Seq(PlainItems) : t \in Seq(Items)
<1>1. ReasoningItems \subseteq Items /\ PlainItems \subseteq Items
  BY DEF Items
<1>2. ASSUME NEW T, NEW U, T \subseteq U, NEW u \in Seq(T) PROVE u \in Seq(U)
  <2>1. \A i \in 1..Len(u) : u[i] \in U
    BY <1>2
  <2> QED  BY <2>1
<1> QED  BY <1>1, <1>2

\* No item, or one.
LEMMA FewItems ==
  ASSUME NEW T
  PROVE  /\ <<>> \in Seq(T) /\ Len(<<>>) = 0
         /\ \A x \in T : <<x>> \in Seq(T) /\ \A i \in 1..Len(<<x>>) : <<x>>[i] = x
OBVIOUS

\* What a response writes leaves the answers as they are.
LEMMA ScriptOn ==
  ASSUME NEW n \in Nat \ {0}, NEW m \in Nat \ {0}, n < m, NEW sl, NEW sl2,
         NEW q \in Seq(Items), Script(q, sl, n), NEW mid \in Seq(ReasoningItems),
         NEW out \in Seq(PlainItems), Asks(out, q, n), Chained(q, sl2, Wire(q)),
         \A i \in 1..Len(mid) : Linked(mid[i], sl2, Wire(q)),
         NEW all, all = (q \o mid) \o out
  PROVE  Script(all, sl2, m)
<1>1. mid \in Seq(Items) /\ out \in Seq(Items) /\ n \in Int /\ m \in Int
  BY MoreKinds
<1> PICK s \in Seq(Items) : s = q \o mid
  BY <1>1, Joins
<1>2. all \in Seq(Items) /\ Wire(all) = (Wire(q) \cup Wire(mid)) \cup Wire(out)
  <2>1. Wire(s) = Wire(q) \cup Wire(mid)
    BY <1>1, WireJoined
  <2>2. all \in Seq(Items) /\ Wire(all) = Wire(s) \cup Wire(out)
    BY <1>1, WireJoined
  <2> QED  BY <2>1, <2>2
<1>3. \A i \in 1..Len(mid) : mid[i] \in ReasoningItems /\ mid[i].t = "reasoning"
  <2>1. \A x \in ReasoningItems : x.t = "reasoning"
    BY DEF ReasoningItems
  <2>2. ASSUME NEW T, NEW u \in Seq(T) PROVE \A i \in 1..Len(u) : u[i] \in T
    OBVIOUS
  <2> QED  BY <2>1, <2>2
<1>4. \A i \in 1..Len(mid) : ~IsCall(mid[i]) /\ ~IsOutput(mid[i])
  BY <1>3 DEF IsCall, IsOutput
<1>5. ShownOnce(all, m)
  <2>1. ShownOnce(mid, n) /\ \A i \in 1..Len(mid) : IsCall(mid[i]) => Unshown(q, mid[i].id)
    BY <1>4 DEF ShownOnce
  <2>2. ShownOnce(q, n) /\ ShownOnce(out, n)
    BY DEF Script, Asks
  <2>3. ShownOnce(s, n)
    BY <1>1, <2>1, <2>2, ShownJoined
  <2>4. ASSUME NEW i \in 1..Len(out), IsCall(out[i]) PROVE Unshown(s, out[i].id)
    <3>1. Unshown(q, out[i].id)
      BY <2>4 DEF Asks
    <3>2. \A j \in 1..Len(s) :
            \/ j \in 1..Len(q) /\ s[j] = q[j]
            \/ j - Len(q) \in 1..Len(mid) /\ s[j] = mid[j - Len(q)]
      BY <1>1, WireJoined
    <3> QED  BY <1>4, <3>1, <3>2 DEF Unshown
  <2>5. ShownOnce(all, n)
    BY <1>1, <2>2, <2>3, <2>4, ShownJoined
  <2>6. n <= m
    OBVIOUS
  <2> QED  BY <1>1, <1>2, <2>5, <2>6, ShownLater
<1>6. UniqueOuts(Wire(all))
  <2>1. \A y \in Wire(out) : ~IsOutput(y)
    BY DEF Wire, Asks, IsOutput
  <2>2. \A y \in Wire(mid) : ~IsOutput(y)
    BY <1>4 DEF Wire
  <2>3. \A y \in Wire(all) : IsOutput(y) => y \in Wire(q)
    BY <1>2, <2>1, <2>2
  <2> QED  BY <2>3 DEF UniqueOuts, Script
<1>7. Chained(all, sl2, Wire(all))
  <2> PICK W : W = Wire(all)
    OBVIOUS
  <2>1. Chained(q, sl2, W)
    BY <1>2, ChainedMore
  <2>2. Chained(mid, sl2, W)
    <3>1. ASSUME NEW i \in 1..Len(mid) PROVE mid[i] \in W /\ Linked(mid[i], sl2, W)
      <4>1. mid[i] \in Wire(mid)
        BY DEF Wire
      <4> QED  BY <1>2, <4>1, LinkedMore
    <3> QED  BY <3>1 DEF Chained
  <2>3. Chained(out, sl2, W)
    BY <1>2, ChainedPlain
  <2>4. Chained(s, sl2, W)
    BY <1>1, <2>1, <2>2, ChainedJoined
  <2> QED  BY <1>1, <2>3, <2>4, ChainedJoined
<1> QED  BY <1>5, <1>6, <1>7 DEF Script

\* What is written of the open reasoning item.
Written(d) == IF d.id = 0 THEN <<>> ELSE <<Reasoning(d)>>

\* The end of a response.
LEMMA AEnd ==
  ASSUME DInv, DInv', AInv, pc # "idle", NEW s \in States, WellKept(s, next),
         NEW out \in Seq(PlainItems), Asks(out, items, next),
         NEW d, d.id = 0 \/ d.id = DraftId,
         d.id # 0 => d.state = StateUpdate(base, s, base.ck) /\ d.main \in MainUpdates,
         End(d, out, s)
  PROVE  AInv'
<1>1. /\ next \in Nat \ {0} /\ base \in Bases /\ items \in Seq(Items) /\ draft.id \in Nat
  BY DEF DInv, Types
<1>2. /\ SealsWell(sealed, next) /\ Drafted(draft, sealed, next) /\ Script(items, sealed, next)
      /\ Learned(base, sealed, items)
  BY DEF AInv
<1> PICK m \in Nat \ {0} : m = next + 1 /\ next < m
  BY <1>1
<1> PICK mid : mid = Written(d)
  OBVIOUS
<1>3. /\ items' = (items \o mid) \o out /\ next' = m /\ pc' = "idle" /\ draft'.id = 0
      /\ sealed' = IF d.id = 0 THEN sealed ELSE SealedToo(sealed, d.id, s)
  BY DEF End, NoDraft, SealedToo, Written
<1>4. Drafted(draft', sealed', next')
  BY <1>3 DEF Drafted
<1>5. CASE d.id = 0
  <2>1. sealed' = sealed
    BY <1>3, <1>5
  <2>2. SealsWell(sealed', next')
    <3>1. SealsWell(sealed, m)
      BY <1>1, <1>2, SealsLater
    <3> QED  BY <1>3, <2>1, <3>1
  <2>3. Chained(items, sealed, Wire(items))
    BY <1>2 DEF Script
  <2> PICK e \in Seq(ReasoningItems) : e = mid /\ Len(e) = 0
    BY <1>5, FewItems DEF Written
  <2>4. \A i \in 1..Len(e) : Linked(e[i], sealed, Wire(items))
    OBVIOUS
  <2>5. Script(items', sealed', next')
    <3>1. Script((items \o e) \o out, sealed, m)
      BY <1>1, <1>2, <2>3, <2>4, ScriptOn
    <3> QED  BY <1>3, <2>1, <3>1
  <2> QED  BY <1>3, <1>4, <2>2, <2>5 DEF AInv
<1>6. CASE d.id # 0
  <2>1. Drafted(d, sealed, m)
    BY <1>1, <1>2, DraftedSaved
  <2>2. d.id \in 1..(m - 1) /\ d.id \notin DOMAIN sealed /\ d.id \in Nat \ {0}
    <3>1. d.id \in 1..(m - 1) /\ d.id \notin DOMAIN sealed
      BY <1>6, <2>1 DEF Drafted
    <3> QED  BY <3>1
  <2> PICK k \in 1..(m - 1) : k = d.id /\ k \notin DOMAIN sealed /\ k \in Nat \ {0}
    BY <2>2
  <2> PICK sl : sl = sealed' /\ sl = SealedToo(sealed, k, s)
    BY <1>3, <1>6
  <2>4. SealsWell(sl, m)
    BY <1>1, <1>2, SealsOn
  <2> PICK x \in ReasoningItems : x = Reasoning(d) /\ Linked(x, sl, Wire(items))
    BY <1>1, <1>2, <1>6, <2>2, LinkedNew
  <2>3. 0 \notin DOMAIN sealed /\ k # 0
    BY <1>2 DEF SealsWell
  <2>5. \A y, V : Linked(y, sealed, V) => Linked(y, sl, V)
    BY <2>3, LinkedOn
  <2>6. Chained(items, sl, Wire(items))
    <3>1. Chained(items, sealed, Wire(items))
      BY <1>2 DEF Script
    <3> QED  BY <2>5, <3>1 DEF Chained
  <2> PICK e \in Seq(ReasoningItems) : e = mid /\ \A i \in 1..Len(e) : e[i] = x
    <3>1. <<x>> \in Seq(ReasoningItems) /\ \A i \in 1..Len(<<x>>) : <<x>>[i] = x
      BY FewItems
    <3> QED  BY <1>6, <3>1 DEF Written
  <2>7. \A i \in 1..Len(e) : Linked(e[i], sl, Wire(items))
    OBVIOUS
  <2>8. Script((items \o e) \o out, sl, m)
    BY <1>1, <1>2, <2>6, <2>7, ScriptOn
  <2> QED  BY <1>3, <1>4, <2>4, <2>8 DEF AInv
<1> QED  BY <1>5, <1>6

\* The items a response shows: of main, and calls of the advisor.
LEMMA PublicCalls ==
  ASSUME NEW b \in Bases, NEW s \in States
  PROVE  \E mine \in Seq(PlainItems) :
           /\ \A i \in 1..Len(mine) : ~IsCall(mine[i])
           /\ PublicItems(b, s) =
                mine \o (IF s.enabled THEN CallItems("advisor", OpenCalls(s.adv)) ELSE <<>>)
<1> DEFINE Own == {x \in PlainItems : ~IsCall(x)}
<1>1. \A calls \in Seq(Int) : CallItems("main", calls) \in Seq(Own)
  <2> TAKE calls \in Seq(Int)
  <2>1. \A c \in Int : CallItem("main", c) \in Own
    BY DEF CallItem, PlainItems, Threads, IsCall
  <2> HIDE DEF Own
  <2>2. CallItems("main", calls) = [i \in 1..Len(calls) |-> CallItem("main", calls[i])]
    BY DEF CallItems
  <2> QED  BY <2>1, <2>2
<1>2. \A m \in Msgs : <<MsgItem("assistant", m.id)>> \in Seq(Own)
  <2>1. \A m \in Msgs : MsgItem("assistant", m.id) \in Own
    BY DEF MsgItem, PlainItems, Msgs, Roles, IsCall
  <2> HIDE DEF Own
  <2> QED  BY <2>1
<1>3. OpenCalls(s.main) \in Seq(Int)
  BY OpenType DEF States
<1> PICK m \in Msgs \cup {NoMsg} : m = Publication(b, s).shown
  BY MainUpdateType
<1>5. <<>> \in Seq(Own)
  OBVIOUS
<1> HIDE DEF Own
<1> PICK calls \in Seq(Own) : calls = CallItems("main", OpenCalls(s.main))
  BY <1>1, <1>3
<1> PICK head \in Seq(Own) :
      head = IF m # NoMsg /\ m.text THEN <<MsgItem("assistant", m.id)>> ELSE <<>>
  BY <1>2, <1>5
<1> PICK mine \in Seq(Own) : mine = ItemsOf(m, OpenCalls(s.main))
  <2>1. ItemsOf(m, OpenCalls(s.main)) = IF m = NoMsg THEN <<>> ELSE head \o calls
    BY DEF ItemsOf
  <2>2. head \o calls \in Seq(Own)
    OBVIOUS
  <2> QED  BY <1>5, <2>1, <2>2
<1>6. PublicItems(b, s) =
        mine \o (IF s.enabled THEN CallItems("advisor", OpenCalls(s.adv)) ELSE <<>>)
  BY DEF PublicItems
<1>7. \A i \in 1..Len(mine) : mine[i] \in Own
  OBVIOUS
<1>8. mine \in Seq(PlainItems)
  BY DEF Own
<1> QED  BY <1>6, <1>7, <1>8 DEF Own

\* A call of the advisor on the wire.
LEMMA OneCall ==
  ASSUME NEW c \in Int
  PROVE  /\ CallItems("advisor", <<c>>) = <<CallItem("advisor", c)>>
         /\ CallItem("advisor", c) \in PlainItems /\ IsCall(CallItem("advisor", c))
         /\ CallItem("advisor", c).id = c
<1>1. Len(<<c>>) = 1 /\ <<c>>[1] = c /\ DOMAIN <<c>> = 1..1
  OBVIOUS
<1> PICK f : f = CallItems("advisor", <<c>>)
  OBVIOUS
<1> PICK x : x = CallItem("advisor", c)
  OBVIOUS
<1>2. f = [i \in 1..1 |-> CallItem("advisor", <<c>>[i])]
  BY <1>1 DEF CallItems
<1>3. f = [i \in 1..1 |-> x]
  BY <1>1, <1>2
<1>4. f = <<x>>
  BY <1>3
<1>5. "advisor" \in Threads
  BY DEF Threads
<1>6. x.t = "call" /\ x.thread = "advisor" /\ x.id = c /\ x \in PlainItems
  BY <1>5 DEF CallItem, PlainItems
<1> QED  BY <1>4, <1>6 DEF IsCall

\* What is shown when the advisor waits for one call at most.
LEMMA AsksOnce ==
  ASSUME NEW n \in Nat \ {0}, NEW q, NEW mine \in Seq(PlainItems), \A i \in 1..Len(mine) : ~IsCall(mine[i]),
         NEW side \in Seq(PlainItems), Len(side) \in {0, 1},
         \A i \in 1..Len(side) : side[i].id < n /\ Unshown(q, side[i].id),
         NEW out \in Seq(PlainItems), out = mine \o side, \A i \in 1..Len(out) : out[i].t # "output"
  PROVE  Asks(out, q, n)
<1>1. mine \in Seq(Items) /\ side \in Seq(Items) /\ n \in Int
  BY MoreKinds
<1>2. ShownOnce(mine, n)
  BY DEF ShownOnce
<1>3. ShownOnce(side, n)
  <2>1. \A i, j \in 1..Len(side) : i = j
    OBVIOUS
  <2> QED  BY <2>1 DEF ShownOnce
<1>4. \A i \in 1..Len(side) : IsCall(side[i]) => Unshown(mine, side[i].id)
  BY DEF Unshown
<1>5. ShownOnce(out, n)
  BY <1>1, <1>2, <1>3, <1>4, ShownJoined
<1>6. \A i \in 1..Len(out) :
              \/ i \in 1..Len(mine) /\ out[i] = mine[i]
              \/ i - Len(mine) \in 1..Len(side) /\ out[i] = side[i - Len(mine)]
  BY <1>1, WireJoined
<1>7. \A i \in 1..Len(out) : IsCall(out[i]) => Unshown(q, out[i].id)
  BY <1>6
<1> QED  BY <1>5, <1>7 DEF Asks

\* The end of a response that is complete.
LEMMA ACommit == ASSUME DInv, DInv', AInv, Commit PROVE AInv'
<1>1. st \in States /\ next \in Nat \ {0} /\ draft.id \in Nat /\ base \in Bases /\ items \in Seq(Items)
  BY DEF DInv, Types
<1>2. pc # "idle" /\ pc = "commit"
  BY DEF Commit
<1>3. Early(st.adv, next) /\ Waiting(st, items) /\ Script(items, sealed, next)
  BY <1>2 DEF AInv, Thread
<1> PICK d : d = [id |-> DraftId, state |-> StateUpdate(base, st, base.ck),
                  main |-> MainUpdate(base, st)]
  OBVIOUS
<1>4. /\ d.id = DraftId /\ d.state = StateUpdate(base, st, base.ck)
      /\ d.main = MainUpdate(base, st)
  OBVIOUS
<1> PICK w : w = Worth(d)
  OBVIOUS
<1> PICK out \in Seq(PlainItems) :
      out = PublicItems(base, st) /\ \A i \in 1..Len(out) : out[i].t # "output"
  BY <1>1, PublicItemsType
<1>5. End(w, out, st)
  BY DEF Commit
<1>6. w.id # 0 => w = d
  BY <1>1, <1>4, WorthSaving
<1>7. w.id # 0 => w.state = StateUpdate(base, st, base.ck) /\ w.main \in MainUpdates
  BY <1>1, <1>4, <1>6, MainUpdateType
<1>8. w.id = 0 \/ w.id = DraftId
  BY <1>4, <1>6
<1>9. WellKept(st, next)
  BY <1>3 DEF Waiting, WellKept, Awaits
<1>10. st.adv \in Seq(AdvMsgs)
  BY <1>1 DEF States
<1>11. Asks(out, items, next)
  <2> PICK mine \in Seq(PlainItems) :
        /\ \A i \in 1..Len(mine) : ~IsCall(mine[i])
        /\ out = mine \o (IF st.enabled THEN CallItems("advisor", OpenCalls(st.adv)) ELSE <<>>)
    BY <1>1, PublicCalls
  <2>1. ASSUME NEW side \in Seq(PlainItems), Len(side) \in {0, 1},
               \A i \in 1..Len(side) : side[i].id < next /\ Unshown(items, side[i].id),
               side = IF st.enabled THEN CallItems("advisor", OpenCalls(st.adv)) ELSE <<>>
        PROVE  Asks(out, items, next)
    BY <1>1, <2>1, AsksOnce
  <2>2. CASE Squared(st.adv) \/ ~st.enabled
    <3>1. OpenCalls(st.adv) = <<>> \/ ~st.enabled
      BY <1>10, <2>2, SquaredOpen
    <3>2. CallItems("advisor", <<>>) = <<>>
      BY DEF CallItems
    <3> PICK side \in Seq(PlainItems) : side = <<>> /\ Len(side) = 0
      BY FewItems
    <3>3. side = IF st.enabled THEN CallItems("advisor", OpenCalls(st.adv)) ELSE <<>>
      BY <3>1, <3>2
    <3>4. Len(side) \in {0, 1} /\ ~\E i : i \in 1..Len(side)
      OBVIOUS
    <3> QED  BY <2>1, <3>3, <3>4
  <2>3. CASE ~Squared(st.adv) /\ st.enabled
    <3> PICK c \in Int : Owes(st.adv, c) /\ OpenCalls(st.adv) = <<c>> /\ Unshown(items, c)
      BY <1>3, <2>3 DEF Waiting, Awaits
    <3> PICK x \in PlainItems :
          CallItems("advisor", <<c>>) = <<x>> /\ IsCall(x) /\ x.id = c
      BY OneCall
    <3> PICK side \in Seq(PlainItems) : side = <<x>> /\ Len(side) = 1 /\ \A i \in 1..Len(side) : side[i] = x
      BY FewItems
    <3>1. c < next
      <4>1. Calls(st.adv, c)
        BY DEF Owes
      <4>2. \E i \in 1..Len(st.adv) : \E k \in 1..Len(st.adv[i].calls) : st.adv[i].calls[k] = c
        BY <1>10, <4>1, CallsAre
      <4> QED  BY <1>3, <4>2 DEF Early
    <3>2. side = IF st.enabled THEN CallItems("advisor", OpenCalls(st.adv)) ELSE <<>>
      BY <2>3
    <3> QED  BY <2>1, <3>1, <3>2
  <2> QED  BY <2>2, <2>3
<1> QED  BY <1>1, <1>2, <1>5, <1>7, <1>8, <1>9, <1>11, AEnd

\* Nothing is asked when nothing is shown.
LEMMA AsksNothing == ASSUME NEW q, NEW n PROVE <<>> \in Seq(PlainItems) /\ Asks(<<>>, q, n)
<1> PICK e \in Seq(PlainItems) : e = <<>> /\ Len(e) = 0
  BY FewItems
<1>1. ~\E i : i \in 1..Len(e)
  OBVIOUS
<1>2. Asks(e, q, n)
  BY <1>1 DEF Asks, ShownOnce
<1> QED  BY <1>2

\* The end of a response that was interrupted.
LEMMA AInterrupt == ASSUME DInv, DInv', AInv, Interrupt PROVE AInv'
<1>1. st \in States /\ next \in Nat \ {0} /\ draft.id \in Nat /\ base \in Bases /\ items \in Seq(Items)
      /\ next \in Int /\ Marked(st)
  BY DEF DInv, Types
<1>2. pc # "idle" /\ pc # "commit"
  BY DEF Interrupt
<1>3. Thread(pc, st, items, next)
  BY <1>2 DEF AInv
<1> PICK s \in States : s = Snapshot(st)
  BY <1>1, SnapshotType
<1>4. Tidy(s.adv, next)
  BY <1>1, <1>2, <1>3, SnapshotTidy
<1>5. WellKept(s, next)
  BY <1>4 DEF Tidy, WellKept
<1> PICK d : d = DraftOf(st)
  OBVIOUS
<1>6. /\ d.id = DraftId /\ d.state = StateUpdate(base, s, base.ck)
      /\ d.main = MainSuffix(base, s)
  BY DEF DraftOf, DraftAt
<1> PICK w : w = Worth(d)
  OBVIOUS
<1> PICK out \in Seq(PlainItems) : out = <<>> /\ Asks(out, items, next)
  BY AsksNothing
<1>7. End(w, out, s)
  BY DEF Interrupt, Saved
<1>8. w.id # 0 => w = d
  BY <1>1, <1>6, WorthSaving
<1>9. w.id # 0 => w.state = StateUpdate(base, s, base.ck) /\ w.main \in MainUpdates
  <2>1. MainSuffix(base, s) \in MainUpdates
    BY <1>1, MainUpdateType DEF MainUpdates
  <2> QED  BY <1>6, <1>8, <2>1
<1>10. w.id = 0 \/ w.id = DraftId
  BY <1>6, <1>8
<1> QED  BY <1>2, <1>5, <1>7, <1>9, <1>10, AEnd

-----------------------------------------------------------------------------
(* What a request makes of it.                                             *)

\* Outputs for the open calls of a transcript.
Unheard(q) ==
  Where(q, LAMBDA x: x.t = "call" /\
    ~\E i \in DOMAIN q : q[i].t = "output" /\ q[i].id = x.id)
OutputsTo(open, n) == [i \in DOMAIN open |-> OutItem(open[i].thread, open[i].id, n + i)]

\* r is what s has at the places in I, in that order.
Selects(g, r, s, I) ==
  /\ g \in [1..Len(r) -> 1..Len(s)] /\ \A k \in 1..Len(r) : g[k] \in I /\ r[k] = s[g[k]]
  /\ \A k, l \in 1..Len(r) : k < l => g[k] < g[l]

\* So is a selection.
LEMMA AmongOrdered ==
  ASSUME NEW T, NEW s \in Seq(T), NEW I, NEW r, r = Among(s, I)
  PROVE  \E g : Selects(g, r, s, I)
<1>1. /\ r \in Seq(T)
      /\ \E g \in [1..Len(r) -> 1..Len(s)] :
           /\ \A k \in 1..Len(r) : g[k] \in I /\ r[k] = s[g[k]]
           /\ \A k, l \in 1..Len(r) : k < l => g[k] < g[l]
           /\ \A i \in 1..Len(s) : i \in I => \E k \in 1..Len(r) : g[k] = i
  BY AmongKeeps
<1> QED  BY <1>1, Zenon DEF Selects

\* Each is for a call of its own.
Answering(outs, q, g) ==
  /\ \A k \in 1..Len(outs) :
       outs[k].thread = q[g[k]].thread /\ outs[k].id = q[g[k]].id /\ q[g[k]].t = "call"
  /\ \A k, l \in 1..Len(outs) : k < l => g[k] < g[l]

\* No call has an output yet.
Replies(outs, q) ==
  /\ outs \in Seq(PlainItems)
  /\ \A i \in 1..Len(outs) :
       /\ ~IsCall(outs[i])
       /\ \A j \in 1..Len(q) : q[j].t = "output" => q[j].id # outs[i].id

\* They are of one kind, and answer the advisor's calls once.
LEMMA OutputsOnce ==
  ASSUME NEW n \in Int, NEW q \in Seq(Items), NEW outs, outs = OutputsTo(Unheard(q), n)
  PROVE  /\ Replies(outs, q)
         /\ \E g \in [1..Len(outs) -> 1..Len(q)] : Answering(outs, q, g)
<1> DEFINE Opens(i) == q[i].t = "call" /\ ~\E j \in DOMAIN q : q[j].t = "output" /\ q[j].id = q[i].id
<1> PICK I : I = {i \in DOMAIN q : Opens(i)}
  OBVIOUS
<1> PICK open : open = Unheard(q)
  OBVIOUS
<1>1. open = Among(q, I)
  BY DEF Unheard, Where
<1>2. open \in Seq(Items)
  BY <1>1, AmongKeeps
<1> HIDE DEF Opens
<1>3. \A i \in I : Opens(i)
  OBVIOUS
<1>a. PICK g : Selects(g, open, q, I)
  BY <1>1, AmongOrdered
<1> PICK N \in Nat : N = Len(open) /\ DOMAIN open = 1..N
  BY <1>2
<1>b. /\ g \in [1..N -> 1..Len(q)] /\ \A k \in 1..N : g[k] \in I /\ open[k] = q[g[k]]
      /\ \A k, l \in 1..N : k < l => g[k] < g[l]
  BY <1>a DEF Selects
<1>4. \A k \in 1..N : Opens(g[k]) /\ open[k] = q[g[k]]
  BY <1>3, <1>b
<1>5. \A k \in 1..N : open[k].t = "call"
  BY <1>4 DEF Opens
<1>6. \A x \in Items : x.t = "call" => x.thread \in Threads /\ x.id \in Int
  BY DEF Items, PlainItems, ReasoningItems
<1>7. \A k \in 1..N : open[k].thread \in Threads /\ open[k].id \in Int
  BY <1>2, <1>5, <1>6
<1> PICK f : f = outs
  OBVIOUS
<1>8. f = [k \in 1..N |-> OutItem(open[k].thread, open[k].id, n + k)]
  BY DEF OutputsTo
<1>9. \A k \in 1..N : f[k] \in PlainItems
  BY <1>7, <1>8 DEF OutItem, PlainItems
<1>10. f \in Seq(PlainItems) /\ Len(f) = N
  <2>1. f \in [1..N -> PlainItems]
    BY <1>8, <1>9
  <2> QED  BY <2>1
<1>11. \A k \in 1..N : f[k].t = "output" /\ f[k].t # "call" /\ f[k].thread = open[k].thread /\ f[k].id = open[k].id
  BY <1>8 DEF OutItem
<1>12. \A k \in 1..N : \A j \in 1..Len(q) : q[j].t = "output" => q[j].id # f[k].id
  BY <1>4, <1>11 DEF Opens
<1>13. \A k \in 1..N : f[k].thread = q[g[k]].thread /\ f[k].id = q[g[k]].id /\ q[g[k]].t = "call"
  BY <1>4, <1>11 DEF Opens
<1>14. Answering(f, q, g)
  BY <1>b, <1>10, <1>13 DEF Answering
<1>15. \E h \in [1..Len(f) -> 1..Len(q)] : Answering(f, q, h)
  BY <1>b, <1>10, <1>14
<1>16. Replies(f, q)
  <2>1. \A k \in 1..N : ~IsCall(f[k])
    BY <1>11 DEF IsCall
  <2> QED  BY <1>10, <1>12, <2>1 DEF Replies
<1> QED  BY <1>15, <1>16

\* No call of the advisor's has two outputs then.
LEMMA OutputsUnique ==
  ASSUME NEW n \in Int, NEW k \in Int, NEW q \in Seq(Items), ShownOnce(q, n), UniqueOuts(Wire(q)),
         NEW outs, outs = OutputsTo(Unheard(q), k)
  PROVE  UniqueOuts(Wire(q) \cup Wire(outs))
<1>a. Replies(outs, q)
  BY OutputsOnce
<1>1. /\ outs \in Seq(PlainItems)
      /\ \A i \in 1..Len(outs) :
           \A j \in 1..Len(q) : q[j].t = "output" => q[j].id # outs[i].id
  BY <1>a DEF Replies
<1> PICK g \in [1..Len(outs) -> 1..Len(q)] : Answering(outs, q, g)
  BY OutputsOnce
<1>2. ASSUME NEW y \in Wire(q), NEW z \in Wire(outs), IsOutput(y) PROVE y.id # z.id
  <2> PICK j \in 1..Len(q) : y = q[j]
    BY DEF Wire
  <2> PICK i \in 1..Len(outs) : z = outs[i]
    BY DEF Wire
  <2> QED  BY <1>1, <1>2 DEF IsOutput
<1>3. ASSUME NEW y \in Wire(outs), NEW z \in Wire(outs), IsOutput(y), IsOutput(z), y.id = z.id
      PROVE  y = z
  <2> PICK i \in 1..Len(outs) : y = outs[i]
    BY DEF Wire
  <2> PICK j \in 1..Len(outs) : z = outs[j]
    BY DEF Wire
  <2>1. /\ outs[i].thread = q[g[i]].thread /\ outs[i].id = q[g[i]].id /\ q[g[i]].t = "call"
        /\ outs[j].thread = q[g[j]].thread /\ outs[j].id = q[g[j]].id /\ q[g[j]].t = "call"
    BY DEF Answering
  <2>2. IsCall(q[g[i]]) /\ IsCall(q[g[j]]) /\ q[g[i]].id = q[g[j]].id
    BY <1>3, <2>1 DEF IsCall, IsOutput
  <2> PICK a \in 1..Len(q), b \in 1..Len(q) : a = g[i] /\ b = g[j]
    OBVIOUS
  <2>3. a = b
    BY <2>2 DEF ShownOnce
  <2>4. (i < j => g[i] < g[j]) /\ (j < i => g[j] < g[i])
    BY DEF Answering
  <2>5. i = j
    <3>1. Len(q) \in Nat /\ Len(outs) \in Nat
      BY <1>1
    <3> QED  BY <2>3, <2>4, <3>1
  <2> QED  BY <2>5
<1>4. \A y, z \in Wire(q) : IsOutput(y) /\ IsOutput(z) /\ y.id = z.id => y = z
  BY DEF UniqueOuts
<1> QED  BY <1>2, <1>3, <1>4 DEF UniqueOuts

\* What a client adds asks for nothing, and answers what it owes.
LEMMA AdditionsAnswer ==
  ASSUME items \in Seq(Items), next \in Int, NEW new \in Additions,
         NEW outs, outs = OutputsTo(Unheard(items), next)
  PROVE  /\ new \in Seq(PlainItems) /\ \A i \in 1..Len(new) : ~IsCall(new[i])
         /\ \A y \in Wire(new) : IsOutput(y) => y \in Wire(outs)
<1>a. Replies(outs, items)
  BY OutputsOnce
<1>1. outs \in Seq(PlainItems) /\ \A i \in 1..Len(outs) : ~IsCall(outs[i])
  BY <1>a DEF Replies
<1>2. Outputs = outs
  BY DEF Outputs, Unanswered, Unheard, OutputsTo
<1> PICK x \in PlainItems : x = MsgItem("user", next) /\ ~IsCall(x) /\ ~IsOutput(x)
  <2>1. MsgItem("user", next) \in PlainItems
    BY DEF MsgItem, PlainItems, Roles
  <2>2. MsgItem("user", next).t = "message"
    BY DEF MsgItem
  <2>3. ~IsCall(MsgItem("user", next)) /\ ~IsOutput(MsgItem("user", next))
    BY <2>2 DEF IsCall, IsOutput
  <2> QED  BY <2>1, <2>3
<1> PICK user \in Seq(PlainItems) : user = <<x>> /\ \A i \in 1..Len(user) : user[i] = x
  BY FewItems
<1>3. \A i \in 1..Len(user) : ~IsCall(user[i]) /\ ~IsOutput(user[i])
  OBVIOUS
<1>4. \A i \in 1..Len(outs) : ~IsCall(outs[i])
  BY <1>1
<1>5. new = user \o outs \/ new = outs \o user \/ new = outs
  BY <1>2 DEF Additions
<1>6. user \in Seq(Items) /\ outs \in Seq(Items)
  BY <1>1, MoreKinds
<1>7. \A y \in Wire(user) : ~IsOutput(y)
  BY <1>3 DEF Wire
<1>8. ASSUME NEW s \in Seq(Items), NEW t \in Seq(Items),
             \A i \in 1..Len(s) : ~IsCall(s[i]), \A i \in 1..Len(t) : ~IsCall(t[i]),
             NEW u, u = s \o t
      PROVE  \A i \in 1..Len(u) : ~IsCall(u[i])
  <2>1. \A i \in 1..Len(u) :
              \/ i \in 1..Len(s) /\ u[i] = s[i]
              \/ i - Len(s) \in 1..Len(t) /\ u[i] = t[i - Len(s)]
    BY <1>8, WireJoined
  <2> QED  BY <1>8, <2>1
<1>9. \A i \in 1..Len(new) : ~IsCall(new[i])
  <2>1. \A i \in 1..Len(user) : ~IsCall(user[i])
    BY <1>3
  <2>2. CASE new = user \o outs
    BY <1>4, <1>6, <1>8, <2>1, <2>2
  <2>3. CASE new = outs \o user
    BY <1>4, <1>6, <1>8, <2>1, <2>3
  <2>4. CASE new = outs
    BY <1>4, <2>4
  <2> QED  BY <1>5, <2>2, <2>3, <2>4
<1>10. Wire(new) \subseteq Wire(user) \cup Wire(outs)
  <2>1. ASSUME NEW s \in Seq(Items), NEW t \in Seq(Items) PROVE Wire(s \o t) = Wire(s) \cup Wire(t)
    BY WireJoined
  <2>2. Wire(user \o outs) = Wire(user) \cup Wire(outs)
    BY <1>6, <2>1
  <2>3. Wire(outs \o user) = Wire(outs) \cup Wire(user)
    BY <1>6, <2>1
  <2> QED  BY <1>5, <2>2, <2>3
<1>11. new \in Seq(PlainItems)
  BY AdditionsType
<1> QED  BY <1>7, <1>9, <1>10, <1>11

\* What a client adds leaves its transcript linked.
LEMMA ScriptAdded ==
  ASSUME items \in Seq(Items), next \in Nat \ {0}, NEW new \in Additions, Script(items, sealed, next),
         NEW m \in Int, next <= m, NEW q, q = items \o new
  PROVE  q \in Seq(Items) /\ new \in Seq(PlainItems) /\ Script(q, sealed, m)
<1>1. next \in Int
  OBVIOUS
<1> PICK outs : outs = OutputsTo(Unheard(items), next)
  OBVIOUS
<1>2. /\ new \in Seq(PlainItems) /\ \A i \in 1..Len(new) : ~IsCall(new[i])
      /\ \A y \in Wire(new) : IsOutput(y) => y \in Wire(outs)
  BY <1>1, AdditionsAnswer
<1>3. new \in Seq(Items)
  BY <1>2, MoreKinds
<1>4. ShownOnce(items, next) /\ UniqueOuts(Wire(items)) /\ Chained(items, sealed, Wire(items))
  BY DEF Script
<1>5. q \in Seq(Items) /\ Wire(q) = Wire(items) \cup Wire(new)
  BY <1>3, WireJoined
<1>6. ShownOnce(q, m)
  <2>1. ShownOnce(new, next)
    BY <1>2 DEF ShownOnce
  <2>2. \A i \in 1..Len(new) : IsCall(new[i]) => Unshown(items, new[i].id)
    BY <1>2
  <2>3. ShownOnce(q, next)
    BY <1>1, <1>3, <1>4, <2>1, <2>2, ShownJoined
  <2> QED  BY <1>1, <1>5, <2>3, ShownLater
<1>7. UniqueOuts(Wire(q))
  <2>1. UniqueOuts(Wire(items) \cup Wire(outs))
    BY <1>1, <1>4, OutputsUnique
  <2>2. \A y \in Wire(q) : IsOutput(y) => y \in Wire(items) \cup Wire(outs)
    BY <1>2, <1>5
  <2> QED  BY <2>1, <2>2 DEF UniqueOuts
<1>8. Chained(q, sealed, Wire(q))
  <2> PICK W : W = Wire(q)
    OBVIOUS
  <2>1. Chained(items, sealed, W)
    BY <1>4, <1>5, ChainedMore
  <2>2. Chained(new, sealed, W)
    BY <1>2, <1>5, ChainedPlain
  <2> QED  BY <1>3, <2>1, <2>2, ChainedJoined
<1> QED  BY <1>2, <1>5, <1>6, <1>7, <1>8 DEF Script

\* What an accepted request is told, and that it can go on.
LEMMA LearnedNow ==
  ASSUME NEW n \in Nat \ {0}, NEW sl, SealsWell(sl, n), NEW q \in Seq(Items), Script(q, sl, n),
         NEW b, b = Ingested(q), Accepted(b)
  PROVE  Learned(b, sl, q) /\ Squared(b.adv) /\ Early(b.adv, n)
<1> PICK W : W = Wire(q)
  OBVIOUS
<1>1. W \subseteq Items /\ UniqueOuts(W) /\ Chained(q, sl, W)
  <2>1. W \subseteq Items
    BY WireHas
  <2> QED  BY <2>1 DEF Script
<1> PICK r \in Replays :
      /\ r = After(q) /\ ~Stopped(r) /\ b \in Bases /\ Side(b) = Side(r) /\ b.last = r.last
      /\ (r.enabled => Loose(r) = {})
  BY OutcomeEnds
<1>2. Follow(r, sl, W)
  BY <1>1, FollowAll
<1> PICK s : s = Origin(sl, r.last)
  OBVIOUS
<1>3. Told(r, s, W)
  BY <1>1, <1>2, Heard
<1>4. b.memory = r.memory /\ b.adv = r.adv /\ b.enabled = r.enabled /\ b.blocked = r.blocked
  BY DEF Side
<1>5. Told(b, s, W)
  BY <1>3, <1>4 DEF Told, Gist
<1>6. Known(sl, b.last)
  BY <1>2 DEF Follow
<1>7. b.adv \in Seq(AdvMsgs)
  BY DEF Bases
<1>8. Squared(b.adv) /\ Early(b.adv, n)
  BY <1>1, <1>5, <1>7, ToldWell
<1> QED  BY <1>5, <1>6, <1>8 DEF Learned

\* A request.
LEMMA ARequest == ASSUME DInv, DInv', AInv, Request PROVE AInv'
<1>1. items \in Seq(Items) /\ next \in Nat \ {0} /\ next \in Int /\ draft.id \in Nat
  BY DEF DInv, Types
<1>2. SealsWell(sealed, next) /\ Drafted(draft, sealed, next) /\ Script(items, sealed, next)
  BY DEF AInv
<1>3. PICK new \in Additions :
        /\ items' = items \o new
        /\ alarm' = Ingested(items \o new).err /\ base' = Ingested(items \o new)
        /\ st' = StateOf(Ingested(items \o new))
        /\ pc' = IF Ingested(items \o new).err # "" THEN "idle"
                 ELSE IF Ingested(items \o new).ck THEN "user" ELSE "loop"
  BY DEF Request
<1>4. sealed' = sealed /\ draft' = draft
  BY DEF Request
<1>5. next' \in Nat \ {0} /\ next' \in Int
  BY NextType
<1>6. next <= next'
  <2>1. next' = next + Len(Unanswered) + 1
    BY DEF Request
  <2>2. Unanswered \in Seq(Items)
    <3> PICK I : I = {i \in DOMAIN items : items[i].t = "call" /\
                        ~\E j \in DOMAIN items : items[j].t = "output" /\ items[j].id = items[i].id}
      OBVIOUS
    <3>1. Unanswered = Among(items, I)
      BY DEF Unanswered, Where
    <3> QED  BY <1>1, <3>1, AmongFrom
  <2>3. Len(Unanswered) \in Nat
    BY <2>2
  <2> QED  BY <1>1, <2>1, <2>3
<1> PICK q : q = items \o new
  OBVIOUS
<1>7. q \in Seq(Items) /\ Script(q, sealed, next') /\ Script(q, sealed, next)
  <2>1. next <= next
    BY <1>1
  <2>2. q \in Seq(Items) /\ Script(q, sealed, next)
    BY <1>1, <1>2, <2>1, ScriptAdded
  <2>3. Script(q, sealed, next')
    BY <1>1, <1>2, <1>5, <1>6, ScriptAdded
  <2> QED  BY <2>2, <2>3
<1>8. SealsWell(sealed, next') /\ Drafted(draft, sealed, next')
  BY <1>1, <1>2, <1>5, <1>6, SealsLater, DraftedLater
<1> PICK b : b = Ingested(q)
  OBVIOUS
<1>9. ASSUME pc' # "idle"
      PROVE  Learned(base', sealed', items') /\ Thread(pc', st', items', next')
  <2>1. Accepted(b) /\ pc' \in {"user", "loop"}
    BY <1>3, <1>9 DEF Accepted
  <2>2. Learned(b, sealed, q) /\ Squared(b.adv) /\ Early(b.adv, next)
    BY <1>1, <1>2, <1>7, <2>1, LearnedNow
  <2>3. b \in Bases /\ b.adv \in Seq(AdvMsgs)
    <3>1. b \in Bases
      BY <1>7, Accepts
    <3> QED  BY <3>1 DEF Bases
  <2>4. StateOf(b).adv = b.adv
    BY <2>3, StateOfBase DEF Side
  <2>5. Early(b.adv, next')
    BY <1>1, <1>5, <1>6, <2>2, <2>3, EarlyLater
  <2>6. base' = b /\ items' = q /\ st' = StateOf(b)
    BY <1>3
  <2>7. Thread(pc', st', items', next')
    BY <2>1, <2>2, <2>4, <2>5, <2>6 DEF Thread
  <2> QED  BY <1>4, <2>2, <2>6, <2>7
<1> QED  BY <1>3, <1>4, <1>7, <1>8, <1>9 DEF AInv

-----------------------------------------------------------------------------
(* Every step keeps it, and what it is for.                                *)

\* A history from elsewhere has nothing of the advisor's.
LEMMA AInit == Init => AInv
<1> SUFFICES ASSUME Init PROVE AInv
  OBVIOUS
<1> PICK start \in Starts : items = start.history /\ next = start.first
  BY DEF Init
<1> PICK first \in Nat \ {0} : first = start.first
  BY DialogueAssumption
<1> PICK F : F = Foreign(1 .. first - 1)
  OBVIOUS
<1>1. \A x \in F : x \in PlainItems /\ ~IsCall(x) /\ ~IsOutput(x)
  <2>1. \A x \in F : x \in PlainItems
    BY DEF Foreign, PlainItems, Threads
  <2>2. \A x \in F : ~IsCall(x) /\ ~IsOutput(x)
    BY DEF Foreign, IsCall, IsOutput
  <2> QED  BY <2>1, <2>2
<1> PICK q \in Seq(F) : q = items
  BY DialogueAssumption
<1>2. \A i \in 1..Len(q) : q[i] \in F
  OBVIOUS
<1>3. q \in Seq(PlainItems)
  BY <1>1
<1>4. ShownOnce(q, next)
  BY <1>1, <1>2 DEF ShownOnce
<1>5. UniqueOuts(Wire(q))
  BY <1>1, <1>2 DEF UniqueOuts, Wire
<1>6. Chained(q, sealed, Wire(q))
  BY <1>3, ChainedPlain
<1>7. DOMAIN sealed = {} /\ pc = "idle" /\ draft.id = 0
  BY DEF Init, NoDraft
<1>8. SealsWell(sealed, next) /\ Drafted(draft, sealed, next)
  BY <1>7 DEF SealsWell, Drafted
<1> QED  BY <1>4, <1>5, <1>6, <1>7, <1>8 DEF AInv, Script

\* Whatever the next step is.
LEMMA ANext == DInv /\ DInv' /\ AInv /\ [Next]_vars => AInv'
<1> SUFFICES ASSUME DInv, DInv', AInv, [Next]_vars PROVE AInv'
  OBVIOUS
<1>1. CASE Request
  BY <1>1, ARequest
<1>2. CASE UserTurn
  BY <1>2, AUserTurn
<1>3. CASE Resume
  BY <1>3, AResume
<1>4. CASE StreamPart
  BY <1>4, AStreamPart
<1>5. CASE SaveProgress
  BY <1>5, ASaveProgress
<1>6. CASE Retry
  BY <1>6, ARetry
<1>7. CASE Result
  BY <1>7, AResult
<1>8. CASE ServerTools
  BY <1>8, AServerTools
<1>9. CASE Exhausted
  BY <1>9, AExhausted
<1>10. CASE Advise
  BY <1>10, AAdvise
<1>11. CASE Explore
  BY <1>11, AExplore
<1>12. CASE SideTools
  BY <1>12, ASideTools
<1>13. CASE SkipReview
  BY <1>13, ASkipReview
<1>14. CASE Commit
  BY <1>14, ACommit
<1>15. CASE Interrupt
  BY <1>15, AInterrupt
<1>16. CASE UNCHANGED vars
  BY <1>16 DEF vars, AInv
<1> QED
  BY <1>1, <1>2, <1>3, <1>4, <1>5, <1>6, <1>7, <1>8, <1>9, <1>10, <1>11, <1>12, <1>13, <1>14,
     <1>15, <1>16 DEF Next

\* Of every conversation.
LEMMA AAlways == Spec => []AInv
<1>1. DInv /\ [Next]_vars => DInv'
  BY DNext
<1>2. Init => DInv
  BY DInit
<1> QED  BY <1>1, <1>2, AInit, ANext, PTL DEF Spec

\* A transcript tampered with has only items the client was given.
LEMMA TamperedItems ==
  ASSUME NEW T, NEW q \in Seq(T), q = items, NEW t \in Tampered
  PROVE  t \in Seq(T)
<1> PICK N \in Nat : N = Len(q) /\ DOMAIN q = 1..N
  OBVIOUS
<1>1. ASSUME NEW i \in 1..N PROVE RemoveAt(q, i) \in Seq(T)
  <2>1. /\ 1 \in Int /\ i - 1 \in Int /\ 1 <= 1 /\ i - 1 <= Len(q)
        /\ i + 1 \in Int /\ 1 <= i + 1 /\ Len(q) \in Int /\ Len(q) <= Len(q)
    OBVIOUS
  <2>2. SubSeq(q, 1, i - 1) \in Seq(T) /\ SubSeq(q, i + 1, Len(q)) \in Seq(T)
    BY <2>1, Part
  <2> PICK l \in Seq(T), r \in Seq(T) : l = SubSeq(q, 1, i - 1) /\ r = SubSeq(q, i + 1, Len(q))
    BY <2>2
  <2>3. RemoveAt(q, i) = l \o r
    BY DEF RemoveAt
  <2> QED  BY <2>3
<1>2. ASSUME NEW i \in 1..(N - 1) PROVE Swapped(i) \in Seq(T)
  <2> PICK f : f = [k \in 1..N |-> IF k = i THEN q[i + 1] ELSE IF k = i + 1 THEN q[i] ELSE q[k]]
    OBVIOUS
  <2>1. Swapped(i) = f
    BY DEF Swapped
  <2>2. i + 1 \in 1..N /\ i \in 1..N
    OBVIOUS
  <2>3. f \in [1..N -> T]
    BY <2>2
  <2>4. f \in Seq(T)
    BY <2>3
  <2> QED  BY <2>1, <2>4
<1>3. ASSUME NEW i \in 1..N PROVE Append(q, q[i]) \in Seq(T)
  OBVIOUS
<1>4. \/ \E i \in 1..N : t = RemoveAt(q, i)
      \/ \E i \in 1..(N - 1) : t = Swapped(i)
      \/ \E i \in 1..N : t = Append(q, q[i])
  BY DEF Tampered
<1> QED  BY <1>1, <1>2, <1>3, <1>4

\* What is believed of items that the client was given, whatever it makes of them.
LEMMA BelievedOf ==
  ASSUME next \in Nat \ {0}, SealsWell(sealed, next), NEW W, W \subseteq Items, UniqueOuts(W),
         NEW t \in Seq(Items), Chained(t, sealed, W),
         NEW outs, outs = OutputsTo(Unheard(t), next),
         NEW in, in = Ingested(t \o outs), Accepted(in)
  PROVE  Believed(in)
<1>1. outs \in Seq(PlainItems)
  <2>1. next \in Int
    OBVIOUS
  <2> QED  BY <2>1, OutputsOnce DEF Replies
<1>2. outs \in Seq(Items)
  BY <1>1, MoreKinds
<1> PICK q \in Seq(Items) : q = t \o outs
  BY <1>2, Joins
<1> PICK V : V = W \cup Wire(outs)
  OBVIOUS
<1>3. V \subseteq Items /\ Wire(outs) \subseteq V /\ W \subseteq V
  BY <1>2, WireHas
<1>4. Stopped(After(t)) \/ Follow(After(t), sealed, W)
  BY FollowAll
<1>5. Stopped(After(t)) \/ Follow(After(t), sealed, V)
  BY <1>3, <1>4, FollowMore
<1>6. Stopped(After(q)) \/ Follow(After(q), sealed, V)
  BY <1>1, <1>3, <1>5, FollowOn
<1> PICK r \in Replays :
      r = After(q) /\ ~Stopped(r) /\ Side(in) = Side(r) /\ in.last = r.last
  BY OutcomeEnds
<1>7. Follow(r, sealed, V)
  BY <1>6
<1> PICK s : s = Origin(sealed, r.last)
  OBVIOUS
<1>8. /\ r.last \in DOMAIN sealed => Brings(in, s)
      /\ r.last \notin DOMAIN sealed => in.memory = 0 /\ in.adv = <<>> /\ ~in.enabled /\ ~in.blocked
  BY <1>3, <1>7, FollowBrings
<1> QED  BY <1>8 DEF Believed, Origin

\* A transcript made of the items a client has, in any order and number, with outputs for
\* the calls it then leaves open, is refused, or is believed to be what its last reasoning
\* item sealed.
BelievesOneResponse ==
  pc = "idle" =>
    \A t \in Seq(Wire(items)) :
      LET in == Ingested(t \o OutputsTo(Unheard(t), next)) IN in.err = "" => Believed(in)

\* Whatever a client makes of the items it has, the server never believes a memory or an
\* advisor's thread that no response sealed.
THEOREM BelievesOnlyWhatItSealed == Spec => []BelievesOneResponse
<1>1. DInv /\ AInv => BelievesOneResponse
  <2> SUFFICES ASSUME DInv, AInv, NEW t \in Seq(Wire(items)),
                      Accepted(Ingested(t \o OutputsTo(Unheard(t), next)))
               PROVE  Believed(Ingested(t \o OutputsTo(Unheard(t), next)))
    BY DEF BelievesOneResponse, Accepted
  <2>1. items \in Seq(Items) /\ next \in Nat \ {0}
    BY DEF DInv, Types
  <2>2. SealsWell(sealed, next) /\ UniqueOuts(Wire(items)) /\ Chained(items, sealed, Wire(items))
    BY DEF AInv, Script
  <2> PICK W : W = Wire(items)
    OBVIOUS
  <2>3. W \subseteq Items
    BY <2>1, WireHas
  <2>4. t \in Seq(W)
    OBVIOUS
  <2>5. t \in Seq(Items)
    BY <2>3, <2>4
  <2>6. Chained(t, sealed, W)
    <3>1. \A i \in 1..Len(t) : t[i] \in W
      BY <2>4
    <3>2. ASSUME NEW x \in W, x \in ReasoningItems PROVE Linked(x, sealed, W)
      <4> PICK i \in 1..Len(items) : x = items[i]
        BY <2>1, WireHas
      <4> QED  BY <2>2, <3>2 DEF Chained
    <3> QED  BY <3>1, <3>2 DEF Chained
  <2> QED  BY <2>1, <2>2, <2>3, <2>5, <2>6, BelievedOf
<1> QED  BY <1>1, DAlways, AAlways, PTL

\* Dropping, swapping or repeating an item of a transcript is a way to do so: a patch is only
\* ever applied to the state it was made against.
THEOREM BelievesOnlyWhatWasSealed == Spec => []Authentic
<1>1. DInv /\ BelievesOneResponse => Authentic
  <2> SUFFICES ASSUME DInv, BelievesOneResponse, pc = "idle", NEW t \in Tampered
               PROVE  LET in == Ingested(t \o OutputsTo(Unheard(t), next)) IN in.err = "" => Believed(in)
    BY DEF Authentic, Unheard, OutputsTo
  <2> PICK W : W = Wire(items)
    OBVIOUS
  <2>1. items \in Seq(Items)
    BY DEF DInv, Types
  <2>2. items \in Seq(W)
    BY <2>1, WireHas
  <2> PICK q \in Seq(W) : q = items
    BY <2>2
  <2>3. t \in Seq(W)
    BY TamperedItems
  <2> QED  BY <2>3 DEF BelievesOneResponse
<1> QED  BY <1>1, DAlways, BelievesOnlyWhatItSealed, PTL

=============================================================================
