---------------------------- MODULE ReplayProofs ----------------------------
(***************************************************************************)
(* What a server that keeps nothing believes of a transcript, for          *)
(* conversations of any length, and what the advisor's block on main       *)
(* rests on.                                                               *)
(***************************************************************************)
EXTENDS Dialogue, NumberLemmas, SequenceTheorems

-----------------------------------------------------------------------------
(* Types.                                                                  *)

\* A main message.
Msgs ==
  [role : Roles \cup {"tool"}, id : Int, text : BOOLEAN, thoughts : BOOLEAN, mem : SUBSET Int,
   calls : Seq(Int), begun : BOOLEAN, ref : Int]

\* What a main update may say: messages, and a patch at the end.
MainUpdates == Seq(Msgs) \cup {Append(s, Patch(m)) : s \in Seq(Msgs), m \in Msgs}

\* The phases of a note to the advisor.
Phases == {"none", "before_tool_call", "after_tool_call", "before_return"}

\* Why a replay is refused.
Errors ==
  {"", "duplicate_pending_function_call", "duplicate_tool_call_id_in_history",
   "function_call_already_satisfied", "function_call_missing_function_call_output",
   "function_call_output_without_pending_function_call", "inactive_thread_function_call",
   "main_message_patch_target_missing", "pending_tool_outputs_block_message",
   "reasoning_checkpoint_has_predecessor", "reasoning_checkpoint_required",
   "reasoning_checkpoint_unexpected", "reasoning_message_invalid", "reasoning_payload_invalid",
   "reasoning_previous_reasoning_id_mismatch", "reasoning_thread_patch_invalid",
   "reasoning_tool_call_missing_function_call_item",
   "sealed_function_call_without_attachment_owner"}

\* The advisor's messages: what it is told, its turns and the outputs it got.
AdvNotes ==
  [role : {"user"}, id : Int, calls : {<<>>}, begun : {TRUE}, ref : {0}, phase : Phases,
   anchor : Seq(Msgs), shown : SUBSET ((Roles \cup {"tool"}) \X Int \X Int)]

\* A turn of the advisor, which may call tools.
AdvTurns == [role : {"assistant"}, id : Int, calls : Seq(Int), begun : BOOLEAN, ref : {0}]

\* The output of a tool that the advisor called.
AdvOutputs == {m \in Msgs : m.role = "tool" /\ m.calls = <<>>}

\* Whatever stands in the transcript of the advisor.
AdvMsgs == AdvNotes \cup AdvTurns \cup AdvOutputs

\* The state of a running response.
States ==
  [memory : Int, main : Seq(Msgs), adv : Seq(AdvMsgs), enabled : BOOLEAN, blocked : BOOLEAN]

\* What a replay knows of a call.
CallRecords == [id : Int, order : Int, phase : {"declared", "open", "closed"}]

\* A node that holds one message.
Plains  == [kind : {"plain"}, m : Msgs]

\* A node that joins a private turn, its public copy, its calls and their outputs.
Bundles ==
  [kind : {"bundle"}, uid : Int, private : Msgs, source : Msgs \cup {NoMsg},
   public : Msgs \cup {NoMsg}, outputs : Seq(Msgs), calls : Seq(CallRecords)]

\* A node of the main thread.
Nodes == Plains \cup Bundles

\* The main thread under replay.
Mains == [nodes : Seq(Nodes), auth : Int, pend : Bundles \cup {NoMsg}, n : Int, err : Errors]

\* An update split around its anchor.
Splits ==
  [prefix : Seq(Msgs), anchor : Msgs \cup {NoMsg}, suffix : Seq(Msgs), after : Seq(Msgs)]

\* An update split with its leading messages and its closing patch.
Leads ==
  [leading : Seq(Msgs), prefix : Seq(Msgs), anchor : Msgs \cup {NoMsg}, suffix : Seq(Msgs),
   after : Seq(Msgs), patch : Msgs \cup {NoMsg}]

-----------------------------------------------------------------------------
(* Sequences.                                                              *)

\* The elements of a sequence.
LEMMA Elements ==
  ASSUME NEW T, NEW s \in Seq(T)
  PROVE  /\ Len(s) \in Nat /\ DOMAIN s = 1..Len(s) /\ \A i \in 1..Len(s) : s[i] \in T
         /\ s = [i \in 1..Len(s) |-> s[i]]
OBVIOUS

\* A number of an interval that is the largest, or the least, of its kind.
LEMMA Extremes ==
  ASSUME NEW a \in Int, NEW b \in Int, NEW I \in SUBSET (a..b), I # {}
  PROVE  /\ Max(I) \in I /\ \A x \in I : x <= Max(I)
         /\ Min(I) \in I /\ \A x \in I : Min(I) <= x
<1>1. IsFiniteSet(I)
  <2>1. IsFiniteSet(a..b)
    BY FS_Interval
  <2> QED  BY <2>1, FS_Subset
<1>2. \E n \in I : \A m \in I : n >= m
  BY <1>1, LargestNumber
<1>3. \E n \in I : \A m \in I : n <= m
  <2> DEFINE J == {x - a : x \in I}
  <2>1. J \in SUBSET Nat /\ J # {}
    <3>1. \A x \in I : x \in a..b /\ x - a \in Nat
      OBVIOUS
    <3> QED  BY <3>1
  <2>2. PICK n \in J : \A m \in J : n <= m
    <3> HIDE DEF J
    <3> QED  BY <2>1, LeastNumber
  <2>3. PICK y \in I : n = y - a
    BY <2>2
  <2>4. ASSUME NEW x \in I PROVE y <= x
    <3>1. n <= x - a
      BY <2>2
    <3> QED  BY <3>1, <2>3
  <2> QED  BY <2>3, <2>4
<1> QED  BY <1>2, <1>3 DEF Max, Min

\* h goes from a through S by step, N times.
Unrolls(h, S, a, N, step) ==
  /\ h \in [0..N -> S] /\ h[0] = a
  /\ \A i \in 1..N : h[i] = step[<<h[i - 1], i>>]

\* A definition by recursion up to a number defines something.
LEMMA Recursion ==
  ASSUME NEW S, NEW a \in S, NEW N \in Nat, NEW step \in [S \X (1..N) -> S]
  PROVE  \E h : Unrolls(h, S, a, N, step)
<1> DEFINE Upto(h, k) == h[0] = a /\ \A i \in 1..k : h[i] = step[<<h[i - 1], i>>]
           Good == {k \in 0..N : \E h \in [0..k -> S] : Upto(h, k)}
<1>1. 0 \in Good
  <2> DEFINE h == [n \in 0..0 |-> a]
  <2>1. h \in [0..0 -> S] /\ Upto(h, 0)
    OBVIOUS
  <2> HIDE DEF h, Upto
  <2> QED  BY <2>1
<1>2. ASSUME NEW k \in 0..(N - 1), k \in Good PROVE k + 1 \in Good
  <2>1. PICK h \in [0..k -> S] : Upto(h, k)
    BY <1>2
  <2> DEFINE v == step[<<h[k], k + 1>>]
             g == [n \in 0..(k + 1) |-> IF n = k + 1 THEN v ELSE h[n]]
  <2>2. v \in S
    <3>1. <<h[k], k + 1>> \in S \X (1..N)
      BY <2>1
    <3> QED  BY <3>1
  <2>3. g \in [0..(k + 1) -> S]
    <3> HIDE DEF v
    <3> QED  BY <2>1, <2>2
  <2>4. Upto(g, k + 1)
    <3>1. \A n \in 0..k : g[n] = h[n]
      OBVIOUS
    <3>2. g[k + 1] = step[<<g[k], k + 1>>]
      <4>1. g[k + 1] = v /\ g[k] = h[k]
        <5> HIDE DEF v
        <5> QED  BY <3>1
      <4> HIDE DEF g
      <4> QED  BY <4>1
    <3>3. ASSUME NEW i \in 1..k PROVE g[i] = step[<<g[i - 1], i>>]
      <4>1. i \in 0..k /\ i - 1 \in 0..k
        OBVIOUS
      <4>2. g[i] = h[i] /\ g[i - 1] = h[i - 1]
        BY <3>1, <4>1
      <4> HIDE DEF g
      <4> QED  BY <2>1, <4>2
    <3>4. g[0] = a
      BY <2>1, <3>1
    <3>5. (k + 1) - 1 = k /\ 1..(k + 1) = (1..k) \cup {k + 1}
      OBVIOUS
    <3> HIDE DEF g, v
    <3> QED  BY <3>2, <3>3, <3>4, <3>5
  <2> HIDE DEF g, Upto
  <2> QED  BY <2>3, <2>4
<1>3. N \in Good
  <2> HIDE DEF Good
  <2>1. Inductive(Good, N)
    BY <1>1, <1>2 DEF Inductive
  <2> QED  BY <2>1, UptoInduction
<1> QED  BY <1>3 DEF Unrolls

\* It stays in S.
LEMMA RecursionStays ==
  ASSUME NEW S, NEW a \in S, NEW N \in Nat, NEW step \in [S \X (1..N) -> S], NEW h,
         h = [i \in 0..N |-> h[i]], h[0] = a,
         \A i \in 1..N : h[i - 1] \in S => h[i] = step[<<h[i - 1], i>>]
  PROVE  Unrolls(h, S, a, N, step)
<1> DEFINE Good == {i \in 0..N : h[i] \in S}
<1>1. ASSUME NEW n \in 0..(N - 1), n \in Good PROVE n + 1 \in Good
  <2>1. n + 1 \in 1..N /\ (n + 1) - 1 = n /\ h[n] \in S
    BY <1>1
  <2>2. h[n + 1] = step[<<h[n], n + 1>>] /\ <<h[n], n + 1>> \in S \X (1..N)
    BY <2>1
  <2> QED  BY <2>1, <2>2
<1>2. Inductive(Good, N)
  <2>1. 0 \in Good
    OBVIOUS
  <2> HIDE DEF Good
  <2> QED  BY <1>1, <2>1 DEF Inductive
<1>3. \A i \in 0..N : h[i] \in S
  <2> HIDE DEF Good
  <2>1. \A i \in 0..N : i \in Good
    BY <1>2, UptoInduction
  <2> QED  BY <2>1 DEF Good
<1>4. h \in [0..N -> S]
  BY <1>3
<1>5. ASSUME NEW i \in 1..N PROVE h[i] = step[<<h[i - 1], i>>]
  <2>1. i - 1 \in 0..N
    OBVIOUS
  <2> QED  BY <2>1, <1>3
<1> QED  BY <1>4, <1>5 DEF Unrolls

\* The sequence that Among puts together.
LEMMA AmongUnrolls ==
  ASSUME NEW T, NEW s \in Seq(T), NEW I
  PROVE  \E f \in [0..Len(s) -> Seq(T)] :
           /\ f[0] = <<>> /\ f[Len(s)] = Among(s, I)
           /\ \A i \in 1..Len(s) : f[i] = IF i \in I THEN Append(f[i - 1], s[i]) ELSE f[i - 1]
<1> PICK N \in Nat : N = Len(s)
  OBVIOUS
<1> DEFINE step == [x \in Seq(T) \X (1..N) |-> IF x[2] \in I THEN Append(x[1], s[x[2]]) ELSE x[1]]
           Is(h) == h = [i \in 0..N |-> IF i = 0 THEN <<>>
                                        ELSE IF i \in I THEN Append(h[i - 1], s[i]) ELSE h[i - 1]]
<1>1. step \in [Seq(T) \X (1..N) -> Seq(T)]
  OBVIOUS
<1>2. \A q \in Seq(T), i \in 1..N : step[<<q, i>>] = IF i \in I THEN Append(q, s[i]) ELSE q
  OBVIOUS
<1>3. <<>> \in Seq(T)
  OBVIOUS
<1> HIDE DEF step
<1>4. PICK g : Unrolls(g, Seq(T), <<>>, N, step)
  BY <1>1, <1>3, Recursion
<1>5. Is(g)
  <2>1. ASSUME NEW i \in 1..N
        PROVE  g[i] = IF i \in I THEN Append(g[i - 1], s[i]) ELSE g[i - 1]
    <3>1. i - 1 \in 0..N /\ i \in 0..N
      OBVIOUS
    <3> QED  BY <3>1, <1>4, <1>2 DEF Unrolls
  <2>2. g = [i \in 0..N |-> g[i]] /\ g[0] = <<>>
    BY <1>4 DEF Unrolls
  <2>3. ASSUME NEW i \in 0..N
        PROVE  g[i] = IF i = 0 THEN <<>> ELSE IF i \in I THEN Append(g[i - 1], s[i]) ELSE g[i - 1]
    <3>1. i # 0 => i \in 1..N
      OBVIOUS
    <3> QED  BY <3>1, <2>1, <2>2, Zenon
  <2> QED  BY <2>2, <2>3
<1>6. PICK h : h = CHOOSE f : Is(f)
  OBVIOUS
<1>7. Is(h)
  <2> HIDE DEF Is
  <2> QED  BY <1>5, <1>6
<1>8. h[N] = Among(s, I)
  BY <1>6 DEF Among
<1>9. ASSUME NEW i \in 1..N
      PROVE  h[i] = IF i \in I THEN Append(h[i - 1], s[i]) ELSE h[i - 1]
  <2>1. i \in 0..N /\ i # 0
    OBVIOUS
  <2> QED  BY <1>7, <2>1
<1>10. h[0] = <<>> /\ h = [i \in 0..N |-> h[i]]
  BY <1>7
<1>11. Unrolls(h, Seq(T), <<>>, N, step)
  <2> HIDE DEF Is
  <2>1. \A i \in 1..N : h[i - 1] \in Seq(T) => h[i] = step[<<h[i - 1], i>>]
    BY <1>2, <1>9
  <2> QED  BY <1>1, <1>3, <1>10, <2>1, RecursionStays
<1> QED  BY <1>8, <1>9, <1>11 DEF Unrolls

\* Among keeps the elements at I, in their order.
LEMMA AmongKeeps ==
  ASSUME NEW T, NEW s \in Seq(T), NEW I, NEW r, r = Among(s, I)
  PROVE  /\ r \in Seq(T)
         /\ \E g \in [1..Len(r) -> 1..Len(s)] :
              /\ \A k \in 1..Len(r) : g[k] \in I /\ r[k] = s[g[k]]
              /\ \A k, l \in 1..Len(r) : k < l => g[k] < g[l]
              /\ \A i \in 1..Len(s) : i \in I => \E k \in 1..Len(r) : g[k] = i
<1> PICK N \in Nat : N = Len(s)
  OBVIOUS
<1>1. PICK f \in [0..N -> Seq(T)] :
        /\ f[0] = <<>> /\ f[N] = r
        /\ \A i \in 1..N : f[i] = IF i \in I THEN Append(f[i - 1], s[i]) ELSE f[i - 1]
  BY AmongUnrolls
<1> DEFINE Maps(n, g) ==
      /\ \A k \in 1..Len(f[n]) : g[k] \in 1..n /\ g[k] \in I /\ f[n][k] = s[g[k]]
      /\ \A k, l \in 1..Len(f[n]) : k < l => g[k] < g[l]
      /\ \A i \in 1..n : i \in I => \E k \in 1..Len(f[n]) : g[k] = i
    Good == {n \in 0..N : \E g \in [1..Len(f[n]) -> 1..N] : Maps(n, g)}
<1>2. Inductive(Good, N)
  <2>1. 0 \in Good
    <3>1. f[0] = <<>>
      BY <1>1
    <3>2. [k \in 1..0 |-> 1] \in [1..Len(f[0]) -> 1..N] /\ Maps(0, [k \in 1..0 |-> 1])
      BY <3>1
    <3>3. 0 \in 0..N
      OBVIOUS
    <3> HIDE DEF Maps
    <3> QED  BY <3>2, <3>3
  <2>2. ASSUME NEW n \in 0..(N - 1), n \in Good PROVE n + 1 \in Good
    <3>1. PICK g \in [1..Len(f[n]) -> 1..N] : Maps(n, g)
      BY <2>2
    <3>2. n \in 0..N /\ n + 1 \in 0..N /\ f[n] \in Seq(T) /\ s[n + 1] \in T
      <4>1. n \in 0..N /\ n + 1 \in 0..N /\ n + 1 \in 1..N
        BY <2>2
      <4>2. f[n] \in Seq(T)
        BY <4>1, Zenon
      <4>3. s[n + 1] \in T
        BY <4>1
      <4> QED  BY <4>1, <4>2, <4>3
    <3>3. f[n + 1] = IF n + 1 \in I THEN Append(f[n], s[n + 1]) ELSE f[n]
      <4>1. n + 1 \in 1..N /\ (n + 1) - 1 = n
        BY <2>2
      <4> QED  BY <1>1, <4>1
    <3>4. CASE n + 1 \notin I
      <4>1. f[n + 1] = f[n]
        BY <3>3, <3>4
      <4>2. Maps(n + 1, g)
        <5>1. 1..(n + 1) = (1..n) \cup {n + 1}
          BY <2>2
        <5> QED  BY <3>1, <3>4, <4>1, <5>1
      <4> QED  BY <3>2, <4>1, <4>2
    <3>5. CASE n + 1 \in I
      <4>1. PICK m : m = Len(f[n])
        OBVIOUS
      <4>2. m \in Nat /\ Len(f[n + 1]) = m + 1 /\ f[n + 1][m + 1] = s[n + 1]
            /\ \A k \in 1..m : f[n + 1][k] = f[n][k]
        BY <3>2, <3>3, <3>5, <4>1
      <4> DEFINE h == [k \in 1..(m + 1) |-> IF k = m + 1 THEN n + 1 ELSE g[k]]
      <4>3. h \in [1..Len(f[n + 1]) -> 1..N]
        BY <3>1, <3>2, <4>1, <4>2
      <4>4. \A k \in 1..m : h[k] = g[k] /\ g[k] \in 1..n /\ g[k] \in I /\ f[n][k] = s[g[k]]
        BY <3>1, <4>1, <4>2
      <4>5. h[m + 1] = n + 1
        BY <4>2
      <4>6. \A k, l \in 1..m : k < l => g[k] < g[l]
        BY <3>1, <4>1
      <4>7. \A i \in 1..n : i \in I => \E k \in 1..m : g[k] = i
        BY <3>1, <4>1
      <4> HIDE DEF h
      <4>8. \A k \in 1..(m + 1) : h[k] \in 1..(n + 1) /\ h[k] \in I /\ f[n + 1][k] = s[h[k]]
        BY <4>2, <4>4, <4>5, <3>5, <3>2
      <4>9. \A k, l \in 1..(m + 1) : k < l => h[k] < h[l]
        BY <4>2, <4>4, <4>5, <4>6, <3>2
      <4>10. \A i \in 1..(n + 1) : i \in I => \E k \in 1..(m + 1) : h[k] = i
        <5>1. ASSUME NEW i \in 1..n, i \in I PROVE \E k \in 1..(m + 1) : h[k] = i
          <6>1. PICK k \in 1..m : g[k] = i
            BY <5>1, <4>7
          <6>2. h[k] = i /\ k \in 1..(m + 1)
            BY <6>1, <4>4, <4>2
          <6> QED  BY <6>2
        <5>2. m + 1 \in 1..(m + 1)
          BY <4>2
        <5> QED  BY <5>1, <5>2, <4>5, <3>2
      <4>11. Maps(n + 1, h)
        BY <4>2, <4>8, <4>9, <4>10
      <4> HIDE DEF Maps
      <4> QED  BY <3>2, <4>3, <4>11
    <3> QED  BY <3>4, <3>5
  <2> QED  BY <2>1, <2>2 DEF Inductive
<1>3. N \in Good
  <2> HIDE DEF Good
  <2> QED  BY <1>2, UptoInduction
<1>4. PICK g \in [1..Len(f[N]) -> 1..N] : Maps(N, g)
  BY <1>3
<1>5. \A k \in 1..Len(r) : g[k] \in I /\ r[k] = s[g[k]]
  BY <1>1, <1>4
<1>6. \A k, l \in 1..Len(r) : k < l => g[k] < g[l]
  BY <1>1, <1>4
<1>7. \A i \in 1..Len(s) : i \in I => \E k \in 1..Len(r) : g[k] = i
  BY <1>1, <1>4
<1>8. r \in Seq(T) /\ g \in [1..Len(r) -> 1..Len(s)]
  BY <1>1, <1>4
<1> HIDE DEF Maps
<1> QED  BY <1>5, <1>6, <1>7, <1>8

\* A sequence has the element c.
Elem(q, c) == \E k \in 1..Len(q) : q[k] = c

\* A sequence of sequences, flattened, has their elements.
LEMMA Flattened ==
  ASSUME NEW T, NEW ss \in Seq(Seq(T)), NEW r, r = FlattenSeq(ss)
  PROVE  r \in Seq(T) /\ \A c : Elem(r, c) <=> \E i \in 1..Len(ss) : Elem(ss[i], c)
<1> PICK N \in Nat : N = Len(ss)
  OBVIOUS
<1>1. CASE N = 0
  <2>1. Len(ss) = 0
    BY <1>1
  <2>2. r = ss
    BY <2>1, Zenon DEF FlattenSeq
  <2>3. r = <<>> /\ ss = <<>>
    BY <2>1, <2>2
  <2> QED  BY <2>3 DEF Elem
<1>2. CASE N # 0
  <2> DEFINE step == [x \in Seq(T) \X (1..N) |-> x[1] \o ss[x[2]]]
             Is(h) == h = [i \in 1..N |-> IF i = 1 THEN ss[i] ELSE h[i - 1] \o ss[i]]
  <2>1. \A i \in 1..N : ss[i] \in Seq(T)
    OBVIOUS
  <2>2. step \in [Seq(T) \X (1..N) -> Seq(T)]
    BY <2>1
  <2>3. \A q \in Seq(T), i \in 1..N : step[<<q, i>>] = q \o ss[i]
    OBVIOUS
  <2>4. <<>> \in Seq(T) /\ \A q \in Seq(T) : <<>> \o q = q
    OBVIOUS
  <2> HIDE DEF step
  <2>5. PICK g : Unrolls(g, Seq(T), <<>>, N, step)
    BY <2>2, <2>4, Recursion
  <2>6. ASSUME NEW i \in 1..N
        PROVE  g[i] = IF i = 1 THEN ss[i] ELSE g[i - 1] \o ss[i]
    <3>0. i - 1 \in 0..N
      OBVIOUS
    <3>1. g[i - 1] \in Seq(T)
      BY <3>0, <2>5 DEF Unrolls
    <3>2. g[i] = g[i - 1] \o ss[i]
      BY <3>1, <2>3, <2>5 DEF Unrolls
    <3>3. CASE i = 1
      BY <3>2, <3>3, <2>1, <2>4, <2>5 DEF Unrolls
    <3> QED  BY <3>2, <3>3
  <2>7. Is([i \in 1..N |-> g[i]])
    <3>1. PICK f : f = [i \in 1..N |-> g[i]]
      OBVIOUS
    <3>2. ASSUME NEW i \in 1..N PROVE f[i] = IF i = 1 THEN ss[i] ELSE f[i - 1] \o ss[i]
      <4>1. i = 1 \/ i - 1 \in 1..N
        OBVIOUS
      <4> QED  BY <4>1, <3>1, <2>6
    <3>3. Is(f)
      BY <3>1, <3>2
    <3> QED  BY <3>1, <3>3
  <2>8. PICK h : h = CHOOSE f : Is(f)
    OBVIOUS
  <2>9. Is(h)
    <3> HIDE DEF Is
    <3> QED  BY <2>7, <2>8
  <2>10. r = h[N]
    BY <1>2, <2>8 DEF FlattenSeq
  <2>11. PICK k : k = [i \in 0..N |-> IF i = 0 THEN <<>> ELSE h[i]]
    OBVIOUS
  <2>12. ASSUME NEW i \in 1..N, k[i - 1] \in Seq(T) PROVE k[i] = step[<<k[i - 1], i>>]
    <3>1. i \in 0..N /\ i # 0 /\ i - 1 \in 0..N /\ (i # 1 => i - 1 # 0)
      OBVIOUS
    <3>2. k[i] = h[i] /\ h[i] = IF i = 1 THEN ss[i] ELSE h[i - 1] \o ss[i]
      BY <2>9, <2>11, <3>1
    <3>3. CASE i = 1
      <4>1. k[i - 1] = <<>>
        BY <2>11, <3>3
      <4> QED  BY <3>2, <3>3, <4>1, <2>1, <2>3, <2>4
    <3>4. CASE i # 1
      <4>1. k[i - 1] = h[i - 1]
        BY <2>11, <3>1, <3>4
      <4> QED  BY <3>2, <3>4, <4>1, <2>12, <2>3
    <3> QED  BY <3>3, <3>4
  <2>13. Unrolls(k, Seq(T), <<>>, N, step)
    <3>1. k[0] = <<>> /\ k = [i \in 0..N |-> k[i]]
      BY <2>11
    <3> QED  BY <2>2, <2>4, <2>12, <3>1, RecursionStays
  <2>14. ASSUME NEW n \in 1..N
         PROVE  n \in 0..N /\ n - 1 \in 0..N /\ k[n - 1] \in Seq(T) /\ k[n] = k[n - 1] \o ss[n]
    <3>1. n \in 0..N /\ n - 1 \in 0..N
      OBVIOUS
    <3> QED  BY <3>1, <2>13, <2>3 DEF Unrolls
  <2>15. k[N] = r /\ k[0] = <<>> /\ N \in 0..N /\ k[N] \in Seq(T)
    BY <1>2, <2>10, <2>11, <2>13 DEF Unrolls
  <2> DEFINE Has(n, c) == (\E x \in 1..Len(k[n]) : k[n][x] = c)
                            <=> \E i \in 1..n : \E x \in 1..Len(ss[i]) : ss[i][x] = c
             Good == {n \in 0..N : \A c : Has(n, c)}
  <2>16. Inductive(Good, N)
    <3>1. 0 \in Good
      <4>1. k[0] = <<>>
        BY <2>15
      <4> QED  BY <4>1
    <3>2. ASSUME NEW n \in 0..(N - 1), n \in Good PROVE n + 1 \in Good
      <4>1. PICK a \in Seq(T) : a = k[n]
        <5>1. n \in 0..N
          BY <3>2
        <5> QED  BY <5>1, <2>13 DEF Unrolls
      <4>2. n + 1 \in 1..N /\ (n + 1) - 1 = n /\ n + 1 \in 0..N
        BY <3>2
      <4>3. PICK b \in Seq(T) : b = ss[n + 1]
        BY <4>2, <2>1
      <4>4. k[n + 1] = a \o b
        BY <4>1, <4>2, <4>3, <2>14
      <4>5. \A c : (\E x \in 1..Len(a \o b) : (a \o b)[x] = c)
                     <=> (\E x \in 1..Len(a) : a[x] = c) \/ \E x \in 1..Len(b) : b[x] = c
        <5>1. ASSUME NEW x \in 1..Len(a \o b)
              PROVE  \/ x \in 1..Len(a) /\ (a \o b)[x] = a[x]
                     \/ x - Len(a) \in 1..Len(b) /\ (a \o b)[x] = b[x - Len(a)]
          OBVIOUS
        <5>2. ASSUME NEW x \in 1..Len(a) PROVE x \in 1..Len(a \o b) /\ (a \o b)[x] = a[x]
          OBVIOUS
        <5>3. ASSUME NEW x \in 1..Len(b)
              PROVE  x + Len(a) \in 1..Len(a \o b) /\ (a \o b)[x + Len(a)] = b[x]
          OBVIOUS
        <5> QED  BY <5>1, <5>2, <5>3
      <4>6. \A c : (\E x \in 1..Len(a) : a[x] = c)
                     <=> \E i \in 1..n : \E x \in 1..Len(ss[i]) : ss[i][x] = c
        BY <3>2, <4>1
      <4>7. n \in Nat /\ 1..(n + 1) = (1..n) \cup {n + 1}
        <5>1. n \in Nat
          OBVIOUS
        <5> QED  BY <5>1
      <4>8. ASSUME NEW c PROVE Has(n + 1, c)
        <5>1. (\E i \in 1..(n + 1) : \E x \in 1..Len(ss[i]) : ss[i][x] = c)
                <=> \/ \E i \in 1..n : \E x \in 1..Len(ss[i]) : ss[i][x] = c
                    \/ \E x \in 1..Len(b) : b[x] = c
          BY <4>3, <4>7
        <5>2. (\E x \in 1..Len(k[n + 1]) : k[n + 1][x] = c)
                <=> (\E x \in 1..Len(a) : a[x] = c) \/ \E x \in 1..Len(b) : b[x] = c
          BY <4>4, <4>5
        <5> QED  BY <5>1, <5>2, <4>6
      <4> QED  BY <4>2, <4>8
    <3> QED  BY <3>1, <3>2 DEF Inductive
  <2>17. N \in Good
    <3> HIDE DEF Good
    <3> QED  BY <2>16, UptoInduction
  <2>18. \A c : Has(N, c)
    BY <2>17
  <2>19. ASSUME NEW c
         PROVE  Elem(r, c) <=> \E i \in 1..N : Elem(ss[i], c)
    <3>1. Has(N, c)
      BY <2>18
    <3>2. k[N] = r
      BY <2>15
    <3> QED  BY <3>1, <3>2, Zenon DEF Elem
  <2>20. r \in Seq(T)
    BY <2>15
  <2> HIDE DEF Has, Good
  <2> QED  BY <2>19, <2>20, Zenon
<1> QED  BY <1>1, <1>2

\* Two sequences over T, one after the other, and one with an element more.
LEMMA Longer ==
  ASSUME NEW T, NEW a \in Seq(T), NEW b \in Seq(T), NEW x \in T
  PROVE  a \o b \in Seq(T) /\ Append(a, x) \in Seq(T) /\ <<x>> \in Seq(T) /\ <<>> \in Seq(T)
OBVIOUS

\* A part of a sequence.
LEMMA Part ==
  ASSUME NEW T, NEW s \in Seq(T), NEW a \in Int, NEW b \in Int, 1 <= a, b <= Len(s)
  PROVE  SubSeq(s, a, b) \in Seq(T)
OBVIOUS

\* Where the last assistant is.
LEMMA LastAssistantAt ==
  ASSUME NEW T, NEW s \in Seq(T), NEW a, a = SelectLastInSeq(s, IsAssistant)
  PROVE  /\ a \in 0..Len(s)
         /\ a # 0 => IsAssistant(s[a])
         /\ \A i \in 1..Len(s) : IsAssistant(s[i]) => i <= a
<1> PICK I : I = {i \in 1..Len(s) : IsAssistant(s[i])}
  OBVIOUS
<1>1. a = IF I # {} THEN Max(I) ELSE 0
  BY DEF SelectLastInSeq
<1>2. I # {} => Max(I) \in I /\ \A i \in I : i <= Max(I)
  <2>1. I \in SUBSET (1..Len(s)) /\ 1 \in Int /\ Len(s) \in Int
    OBVIOUS
  <2> QED  BY <2>1, Extremes
<1> QED  BY <1>1, <1>2

\* How far a run of tool outputs goes.
LEMMA PastToolsAt ==
  ASSUME NEW T, NEW s \in Seq(T), NEW i \in 1..(Len(s) + 1), NEW p, p = PastTools(s, i)
  PROVE  /\ p \in i..(Len(s) + 1)
         /\ \A j \in i..(p - 1) : IsTool(s[j])
         /\ p <= Len(s) => ~IsTool(s[p])
<1> PICK I : I = {j \in i..Len(s) : ~IsTool(s[j])}
  OBVIOUS
<1>1. p = IF I # {} THEN Min(I) ELSE Len(s) + 1
  <2>1. p = IF SelectInSubSeq(s, i, Len(s), LAMBDA m : ~IsTool(m)) = 0 THEN Len(s) + 1
            ELSE SelectInSubSeq(s, i, Len(s), LAMBDA m : ~IsTool(m))
    BY DEF PastTools
  <2>2. SelectInSubSeq(s, i, Len(s), LAMBDA m : ~IsTool(m)) = IF I # {} THEN Min(I) ELSE 0
    BY DEF SelectInSubSeq
  <2>3. I # {} => Min(I) # 0
    <3>1. I \in SUBSET (i..Len(s)) /\ i \in Int /\ Len(s) \in Int
      OBVIOUS
    <3>2. I # {} => Min(I) \in I
      BY <3>1, Extremes
    <3>3. \A j \in I : j # 0
      OBVIOUS
    <3> HIDE DEF Min
    <3> QED  BY <3>2, <3>3
  <2> QED  BY <2>1, <2>2, <2>3
<1>2. I # {} => Min(I) \in I /\ \A j \in I : Min(I) <= j
  <2>1. I \in SUBSET (i..Len(s)) /\ i \in Int /\ Len(s) \in Int
    OBVIOUS
  <2> QED  BY <2>1, Extremes
<1>3. p \in i..(Len(s) + 1)
  BY <1>1, <1>2
<1>4. ASSUME NEW j \in i..(p - 1) PROVE IsTool(s[j])
  <2>1. j \in i..Len(s)
    BY <1>3
  <2>2. j \notin I
    <3>1. I # {} => p = Min(I) /\ \A x \in I : Min(I) <= x
      BY <1>1, <1>2
    <3> HIDE DEF Min
    <3>2. j \in I => p <= j
      BY <3>1
    <3> QED  BY <1>3, <3>2
  <2> QED  BY <2>1, <2>2
<1>5. p <= Len(s) => ~IsTool(s[p])
  BY <1>1, <1>2
<1> QED  BY <1>3, <1>4, <1>5

\* A message is no missing one.
LEMMA NoMsgApart == NoMsg \notin Msgs /\ NoMsg \notin Bundles /\ NoMsg \notin AdvMsgs
<1>1. \A m \in Msgs : m.role # "none"
  BY DEF Msgs, Roles
<1>2. \A m \in AdvMsgs : m.role # "none"
  BY <1>1 DEF AdvMsgs, AdvNotes, AdvTurns, AdvOutputs
<1>3. NoMsg \notin Bundles
  <2> SUFFICES ASSUME NoMsg \in Bundles PROVE FALSE
    OBVIOUS
  <2>1. DOMAIN NoMsg = {"role"}
    BY DEF NoMsg
  <2>2. "kind" \in DOMAIN NoMsg
    BY DEF Bundles
  <2> QED  BY <2>1, <2>2
<1> QED  BY <1>1, <1>2, <1>3 DEF NoMsg

\* What a thread of main splits into.
LEMMA TailType ==
  ASSUME NEW msgs \in Seq(Msgs) PROVE SplitTail(msgs) \in Splits
<1> PICK a : a = SelectLastInSeq(msgs, IsAssistant)
  OBVIOUS
<1>1. a \in 0..Len(msgs)
  BY LastAssistantAt
<1>2. SplitTail(msgs) = SplitAt(msgs, a, PastTools(msgs, a + 1))
  BY DEF SplitTail, SplitFrom
<1>3. CASE a = 0
  BY <1>2, <1>3 DEF SplitAt, Splits
<1>4. CASE a # 0
  <2> PICK p : p = PastTools(msgs, a + 1)
    OBVIOUS
  <2>1. p \in (a + 1)..(Len(msgs) + 1)
    BY <1>1, PastToolsAt
  <2>2. /\ SubSeq(msgs, 1, a - 1) \in Seq(Msgs) /\ SubSeq(msgs, a + 1, p - 1) \in Seq(Msgs)
        /\ SubSeq(msgs, p, Len(msgs)) \in Seq(Msgs) /\ msgs[a] \in Msgs
    BY <1>1, <1>4, <2>1
  <2>3. SplitTail(msgs) = [prefix |-> SubSeq(msgs, 1, a - 1), anchor |-> msgs[a],
                           suffix |-> SubSeq(msgs, a + 1, p - 1),
                           after |-> SubSeq(msgs, p, Len(msgs))]
    BY <1>2, <1>4 DEF SplitAt
  <2> PICK x \in Seq(Msgs), y \in Seq(Msgs), z \in Seq(Msgs), m \in Msgs :
        x = SubSeq(msgs, 1, a - 1) /\ m = msgs[a] /\ y = SubSeq(msgs, a + 1, p - 1)
          /\ z = SubSeq(msgs, p, Len(msgs))
    BY <2>2
  <2>4. SplitTail(msgs) = [prefix |-> x, anchor |-> m, suffix |-> y, after |-> z]
    BY <2>3
  <2>5. [prefix |-> x, anchor |-> m, suffix |-> y, after |-> z] \in Splits
    BY DEF Splits
  <2> QED  BY <2>4, <2>5
<1> QED  BY <1>3, <1>4

\* What is open in main.
LEMMA OpenType ==
  ASSUME NEW msgs \in Seq(Msgs) PROVE OpenCalls(msgs) \in Seq(Int)
<1> PICK split \in Splits : split = SplitTail(msgs)
  BY TailType
<1>1. CASE split.anchor = NoMsg
  BY <1>1 DEF OpenCalls, OpenIn
<1>2. CASE split.anchor # NoMsg
  <2>1. split.anchor.calls \in Seq(Int)
    BY <1>2 DEF Splits, Msgs
  <2>2. OpenCalls(msgs) = Where(split.anchor.calls, LAMBDA c : c \notin Refs(split.suffix))
    BY <1>2 DEF OpenCalls, OpenIn
  <2>3. \E I : OpenCalls(msgs) = Among(split.anchor.calls, I)
    BY <2>2 DEF Where
  <2> QED  BY <2>1, <2>3, AmongKeeps
<1> QED  BY <1>1, <1>2

\* A turn of main's model, a message of anybody else, and what clients read of it.
LEMMA AssistantType ==
  ASSUME NEW id \in Int, NEW text \in BOOLEAN, NEW thoughts \in BOOLEAN, NEW calls \in Seq(Int),
         NEW mem, mem \in SUBSET Int
  PROVE  Assistant(id, text, thoughts, calls, mem) \in Msgs
BY DEF Assistant, Msgs, Roles

\* An output.
LEMMA OutputType ==
  ASSUME NEW c \in Int, NEW id \in Int, NEW mem \in SUBSET Int
  PROVE  Output(c, id, mem) \in AdvOutputs /\ Output(c, id, mem) \in Msgs
BY DEF Output, AdvOutputs, Msgs, Roles

\* Outputs that the server makes up.
LEMMA StubsType ==
  ASSUME NEW calls \in Seq(Int), NEW id \in Int, NEW mem \in SUBSET Int
  PROVE  Stubs(calls, id, mem) \in Seq(AdvOutputs)
<1>1. \A c \in Int : Output(c, id, mem) \in AdvOutputs
  BY DEF Output, AdvOutputs, Msgs, Roles
<1>2. Stubs(calls, id, mem) = [i \in 1..Len(calls) |-> Output(calls[i], id, mem)]
  BY DEF Stubs
<1> QED  BY <1>1, <1>2

\* A main update taken apart.
LEMMA UpdateSplits ==
  ASSUME NEW updates \in MainUpdates PROVE SplitMainUpdates(updates) \in Leads
<1>1. ASSUME NEW msgs \in Seq(Msgs), NEW patch \in Msgs \cup {NoMsg}
      PROVE  SplitPatched(msgs, patch) \in Leads
  <2> PICK p : p = PastTools(msgs, 1)
    OBVIOUS
  <2>1. p \in 1..(Len(msgs) + 1)
    <3>1. 1 \in 1..(Len(msgs) + 1)
      OBVIOUS
    <3> QED  BY <3>1, PastToolsAt
  <2>2. SubSeq(msgs, p, Len(msgs)) \in Seq(Msgs) /\ SubSeq(msgs, 1, p - 1) \in Seq(Msgs)
    BY <2>1
  <2>3. PICK split \in Splits : split = SplitTail(SubSeq(msgs, p, Len(msgs)))
    BY <2>2, TailType
  <2>4. SplitPatched(msgs, patch) = WithLead(split, SubSeq(msgs, 1, p - 1), patch)
    BY <2>3 DEF SplitPatched, SplitLead
  <2> QED  BY <2>2, <2>4 DEF WithLead, Splits, Leads
<1>2. CASE updates \in Seq(Msgs)
  <2>1. ~IsPatched(updates)
    <3>1. updates # <<>> => Last(updates) \in Msgs
      BY <1>2 DEF Last
    <3> QED  BY <3>1 DEF IsPatched, Msgs, Roles
  <2> QED  BY <1>1, <1>2, <2>1 DEF SplitMainUpdates, Unpatched
<1>3. ASSUME NEW s \in Seq(Msgs), NEW m \in Msgs, updates = Append(s, Patch(m))
      PROVE  SplitMainUpdates(updates) \in Leads
  <2> PICK T : T = Msgs \cup {Patch(m)}
    OBVIOUS
  <2>1. s \in Seq(T) /\ Patch(m) \in T
    OBVIOUS
  <2>2. updates # <<>> /\ Last(updates) = Patch(m) /\ Front(updates) = s
    BY <1>3, <2>1 DEF Last, Front
  <2>3. IsPatched(updates) /\ Last(updates).msg = m
    BY <2>2 DEF IsPatched, Patch
  <2> QED  BY <1>1, <2>2, <2>3 DEF SplitMainUpdates, Unpatched
<1> QED  BY <1>2, <1>3 DEF MainUpdates

-----------------------------------------------------------------------------
(* The replay of main keeps its types.                                     *)

\* Where a call is found.
LEMMA FindCallAt ==
  ASSUME NEW r \in Mains, NEW c, NEW i, i = FindCall(r, c)
  PROVE  /\ i = -1 \/ i \in 0..Len(r.nodes)
         /\ i # 0 => BundleAt(r, i) \in Bundles /\ HasCall(BundleAt(r, i), c)
         /\ i = -1 => r.pend \in Bundles
         /\ i # 0 /\ i # -1 => r.nodes[i] \in Bundles
<1>1. CASE r.pend # NoMsg /\ HasCall(r.pend, c)
  <2>1. i = -1 /\ r.pend \in Bundles
    BY <1>1 DEF FindCall, Mains
  <2> QED  BY <1>1, <2>1 DEF BundleAt
<1>2. CASE ~(r.pend # NoMsg /\ HasCall(r.pend, c))
  <2> PICK I : I = {k \in 1..Len(r.nodes) : IsBundle(r.nodes[k]) /\ HasCall(r.nodes[k], c)}
    OBVIOUS
  <2>1. i = IF I # {} THEN Max(I) ELSE 0
    BY <1>2 DEF FindCall, SelectLastInSeq
  <2>2. Len(r.nodes) \in Nat /\ \A k \in 1..Len(r.nodes) : r.nodes[k] \in Nodes
    BY Elements DEF Mains
  <2>3. I # {} => Max(I) \in I
    <3>1. I \in SUBSET (1..Len(r.nodes)) /\ 1 \in Int /\ Len(r.nodes) \in Int
      BY <2>2
    <3> QED  BY <3>1, Extremes
  <2>4. \A k \in I : r.nodes[k] \in Bundles
    BY <2>2 DEF Nodes, Plains, IsBundle
  <2>5. CASE I = {}
    <3>1. i = 0
      BY <2>1, <2>5
    <3> QED  BY <2>2, <3>1
  <2>6. CASE I # {}
    <3>1. i \in I
      BY <2>1, <2>3, <2>6
    <3>2. i \in 1..Len(r.nodes) /\ HasCall(r.nodes[i], c) /\ i # 0 /\ i # -1
      BY <2>2, <3>1
    <3>3. BundleAt(r, i) = r.nodes[i]
      BY <3>2 DEF BundleAt
    <3> QED  BY <2>2, <2>4, <3>1, <3>2, <3>3
  <2> QED  BY <2>5, <2>6
<1> QED  BY <1>1, <1>2

\* The bundle with a name.
LEMMA NodeOfAt ==
  ASSUME NEW r \in Mains, NEW uid, NEW i, i = NodeOf(r, uid)
  PROVE  /\ i \in 0..Len(r.nodes)
         /\ i # 0 => r.nodes[i] \in Bundles
<1> PICK I : I = {k \in 1..Len(r.nodes) : IsBundle(r.nodes[k]) /\ r.nodes[k].uid = uid}
  OBVIOUS
<1>1. i = IF I # {} THEN Min(I) ELSE 0
  BY DEF NodeOf, SelectInSeq
<1>2. Len(r.nodes) \in Nat /\ \A k \in 1..Len(r.nodes) : r.nodes[k] \in Nodes
  BY Elements DEF Mains
<1>3. I # {} => Min(I) \in I
  <2>1. I \in SUBSET (1..Len(r.nodes)) /\ 1 \in Int /\ Len(r.nodes) \in Int
    BY <1>2
  <2> QED  BY <2>1, Extremes
<1>4. \A k \in I : r.nodes[k] \in Bundles
  BY <1>2 DEF Nodes, Plains, IsBundle
<1>5. CASE I = {}
  <2>1. i = 0
    BY <1>1, <1>5
  <2> QED  BY <1>2, <2>1
<1>6. CASE I # {}
  <2>1. i \in I
    BY <1>1, <1>3, <1>6
  <2>2. i \in 1..Len(r.nodes)
    BY <2>1
  <2> QED  BY <1>2, <1>4, <2>1, <2>2
<1> QED  BY <1>5, <1>6

\* The last bundle.
LEMMA LastBundleAt ==
  ASSUME NEW r \in Mains, NEW i, i = LastAssistant(r)
  PROVE  /\ i \in 0..Len(r.nodes)
         /\ i # 0 => r.nodes[i] \in Bundles
<1> PICK I : I = {k \in 1..Len(r.nodes) : IsBundle(r.nodes[k])}
  OBVIOUS
<1>1. i = IF I # {} THEN Max(I) ELSE 0
  BY DEF LastAssistant, SelectLastInSeq
<1>2. Len(r.nodes) \in Nat /\ \A k \in 1..Len(r.nodes) : r.nodes[k] \in Nodes
  BY Elements DEF Mains
<1>3. I # {} => Max(I) \in I
  <2>1. I \in SUBSET (1..Len(r.nodes)) /\ 1 \in Int /\ Len(r.nodes) \in Int
    BY <1>2
  <2> QED  BY <2>1, Extremes
<1>4. \A k \in I : r.nodes[k] \in Bundles
  BY <1>2 DEF Nodes, Plains, IsBundle
<1>5. CASE I = {}
  <2>1. i = 0
    BY <1>1, <1>5
  <2> QED  BY <1>2, <2>1
<1>6. CASE I # {}
  <2>1. i \in I
    BY <1>1, <1>3, <1>6
  <2>2. i \in 1..Len(r.nodes)
    BY <2>1
  <2> QED  BY <1>2, <1>4, <2>1, <2>2
<1> QED  BY <1>5, <1>6

\* A call of a bundle.
LEMMA CallInType ==
  ASSUME NEW b \in Bundles, NEW c, HasCall(b, c)
  PROVE  CallIn(b, c) \in CallRecords
<1> PICK s \in Seq(CallRecords) : s = b.calls
  BY DEF Bundles
<1> PICK I : I = {k \in 1..Len(s) : s[k].id = c}
  OBVIOUS
<1>1. I # {}
  BY DEF HasCall
<1>2. Min(I) \in I
  <2>1. I \in SUBSET (1..Len(s)) /\ 1 \in Int /\ Len(s) \in Int
    OBVIOUS
  <2> QED  BY <1>1, <2>1, Extremes
<1>3. SelectInSeq(s, LAMBDA x : x.id = c) = Min(I)
  BY <1>1 DEF SelectInSeq
<1>4. CallIn(b, c) = s[Min(I)]
  BY <1>3 DEF CallIn
<1> PICK k \in 1..Len(s) : k = Min(I)
  BY <1>2
<1>5. s[k] \in CallRecords
  BY Elements
<1>6. CallIn(b, c) = s[k]
  BY <1>4
<1> QED  BY <1>5, <1>6

\* Refusing.
LEMMA RaiseType ==
  ASSUME NEW r \in Mains, NEW why \in Errors PROVE Raise(r, why) \in Mains
BY DEF Raise, Mains

\* A call in another phase.
LEMMA OpenedType ==
  ASSUME NEW b \in Bundles, NEW id, NEW ph \in {"declared", "open", "closed"}
  PROVE  WithPhase(b, id, ph) \in Bundles
<1> PICK s \in Seq(CallRecords) : s = b.calls
  BY DEF Bundles
<1>1. \A x \in CallRecords : [x EXCEPT !.phase = ph] \in CallRecords
  BY DEF CallRecords
<1>2. [k \in DOMAIN s |-> IF s[k].id = id THEN [s[k] EXCEPT !.phase = ph] ELSE s[k]]
        \in Seq(CallRecords)
  BY <1>1
<1> PICK q \in Seq(CallRecords) :
      q = [k \in DOMAIN s |-> IF s[k].id = id THEN [s[k] EXCEPT !.phase = ph] ELSE s[k]]
  BY <1>2
<1>3. WithPhase(b, id, ph) = [b EXCEPT !.calls = q]
  BY DEF WithPhase
<1> QED  BY <1>3 DEF Bundles

\* A bundle with an output.
LEMMA WithOutputType ==
  ASSUME NEW b \in Bundles, NEW m \in Msgs PROVE WithOutput(b, m) \in Bundles
<1> PICK x \in Bundles : x = WithPhase(b, m.ref, "closed")
  <2>1. "closed" \in {"declared", "open", "closed"}
    OBVIOUS
  <2>2. WithPhase(b, m.ref, "closed") \in Bundles
    BY <2>1, OpenedType
  <2> QED  BY <2>2
<1>1. WithOutput(b, m) = [x EXCEPT !.outputs = Append(@, m)]
  BY DEF WithOutput
<1>2. Append(x.outputs, m) \in Seq(Msgs)
  BY DEF Bundles
<1>3. WithOutput(b, m) \in Bundles
  BY <1>1, <1>2 DEF Bundles
<1> QED  BY <1>3

\* A bundle stored, at the end of the thread or in its place.
LEMMA PutType ==
  ASSUME NEW r \in Mains, NEW b \in Bundles
  PROVE  /\ WithNode(r, b) \in Mains
         /\ \A i \in {-1} \cup 1..Len(r.nodes) : PutBundle(r, i, b) \in Mains
<1>1. b \in Nodes /\ r.nodes \in Seq(Nodes)
  BY DEF Nodes, Mains
<1>2. Append(r.nodes, b) \in Seq(Nodes)
  BY <1>1
<1>3. \A i \in 1..Len(r.nodes) : [r.nodes EXCEPT ![i] = b] \in Seq(Nodes)
  BY <1>1
<1>4. PutBundle(r, -1, b) \in Mains
  BY DEF PutBundle, Mains
<1>5. ASSUME NEW i \in 1..Len(r.nodes) PROVE PutBundle(r, i, b) \in Mains
  <2>1. PutBundle(r, i, b) = [r EXCEPT !.nodes = [r.nodes EXCEPT ![i] = b]]
    BY <1>1 DEF PutBundle, Mains
  <2> QED  BY <1>3, <2>1 DEF Mains
<1> QED  BY <1>2, <1>4, <1>5 DEF WithNode, Mains

\* A new bundle, and the counter past it.
LEMMA BundleType ==
  ASSUME NEW r \in Mains, NEW m \in Msgs, NEW source \in Msgs \cup {NoMsg},
         NEW public \in Msgs \cup {NoMsg}
  PROVE  Bundle(r, m, source, public) \in Bundles /\ Counted(r, m) \in Mains
<1>1. PICK s \in Seq(Int) : s = m.calls
  BY DEF Msgs
<1>2. r.n \in Int
  BY DEF Mains
<1>3. [i \in DOMAIN s |-> CallOf(s[i], r.n + i, "declared")] \in Seq(CallRecords)
  <2>1. \A i \in 1..Len(s) : CallOf(s[i], r.n + i, "declared") \in CallRecords
    <3>1. \A i \in 1..Len(s) : s[i] \in Int /\ r.n + i \in Int
      BY <1>1, <1>2
    <3> QED  BY <3>1 DEF CallOf, CallRecords
  <2> QED  BY <2>1
<1> PICK q \in Seq(CallRecords) : q = [i \in DOMAIN s |-> CallOf(s[i], r.n + i, "declared")]
  BY <1>3
<1>4. Bundle(r, m, source, public) \in Bundles
  <2>1. Bundle(r, m, source, public) =
          [kind |-> "bundle", uid |-> r.n, private |-> m, source |-> source,
           public |-> public, outputs |-> <<>>, calls |-> q]
    BY <1>1 DEF Bundle
  <2> QED  BY <1>2, <2>1 DEF Bundles
<1>5. Counted(r, m) \in Mains
  <2>1. Raise(r, "duplicate_tool_call_id_in_history") \in Mains
    <3>1. "duplicate_tool_call_id_in_history" \in Errors
      BY DEF Errors
    <3> QED  BY <3>1, RaiseType
  <2>2. r.n + Len(m.calls) + 1 \in Int
    BY <1>1, <1>2
  <2>3. [r EXCEPT !.n = @ + Len(m.calls) + 1] \in Mains
    BY <2>2 DEF Mains
  <2> QED  BY <2>1, <2>3 DEF Counted
<1> QED  BY <1>4, <1>5

\* A thread that ends with a bundle.
Ended == {r \in Mains : r.nodes # <<>> /\ IsBundle(r.nodes[Len(r.nodes)])}

\* A place where a bundle may be found: none, the pending one, or a node.
IsAt(r, i) == i = 0 \/ (i \in {-1} \cup 1..Len(r.nodes) /\ BundleAt(r, i) \in Bundles)

\* An output for a bundle.
LEMMA HiddenOutputType ==
  ASSUME NEW r \in Mains, NEW m \in Msgs, NEW i, IsAt(r, i)
  PROVE  HiddenOutput(r, i, m) \in Mains /\ (r \in Ended => HiddenOutput(r, i, m) \in Ended)
<1> DEFINE o == HiddenOutput(r, i, m)
<1>1. /\ Raise(r, "reasoning_message_invalid") \in Mains
      /\ Raise(r, "function_call_output_without_pending_function_call") \in Mains
  <2>1. /\ "reasoning_message_invalid" \in Errors
        /\ "function_call_output_without_pending_function_call" \in Errors
    BY DEF Errors
  <2>2. Raise(r, "reasoning_message_invalid") \in Mains
    BY <2>1, RaiseType
  <2>3. Raise(r, "function_call_output_without_pending_function_call") \in Mains
    BY <2>1, RaiseType
  <2> QED  BY <2>2, <2>3
<1>2. \A why : Raise(r, why).nodes = r.nodes
  BY DEF Raise, Mains
<1>3. CASE i = 0
  <2>1. o = r \/ o = Raise(r, "reasoning_message_invalid")
    BY <1>3 DEF HiddenOutput
  <2> QED  BY <1>1, <1>2, <2>1 DEF Ended
<1>4. CASE i # 0
  <2> PICK b \in Bundles : b = BundleAt(r, i)
    BY <1>4 DEF IsAt
  <2> PICK c \in Bundles : c = WithOutput(b, m)
    BY WithOutputType
  <2>1. \/ o = r \/ o = Raise(r, "reasoning_message_invalid")
        \/ o = Raise(r, "function_call_output_without_pending_function_call")
        \/ o = PutBundle(r, i, c)
    BY DEF HiddenOutput
  <2>2. PutBundle(r, i, c) \in Mains
    BY <1>4, PutType DEF IsAt
  <2>3. r \in Ended => PutBundle(r, i, c) \in Ended
    <3> SUFFICES ASSUME r \in Ended PROVE PutBundle(r, i, c) \in Ended
      OBVIOUS
    <3> PICK s \in Seq(Nodes) : s = r.nodes
      BY DEF Mains
    <3>1. IsBundle(c)
      BY DEF Bundles, IsBundle
    <3>2. \/ PutBundle(r, i, c).nodes = s
          \/ i \in 1..Len(s) /\ PutBundle(r, i, c).nodes = [s EXCEPT ![i] = c]
      BY <1>4 DEF PutBundle, Mains, IsAt
    <3>3. s # <<>> /\ IsBundle(s[Len(s)])
      BY DEF Ended
    <3>4. CASE PutBundle(r, i, c).nodes = s
      BY <2>2, <3>3, <3>4 DEF Ended
    <3>5. CASE i \in 1..Len(s) /\ PutBundle(r, i, c).nodes = [s EXCEPT ![i] = c]
      <4> PICK q : q = [s EXCEPT ![i] = c]
        OBVIOUS
      <4>1. Len(q) = Len(s) /\ Len(s) \in 1..Len(s) /\ q # <<>>
        BY <3>3, <3>5
      <4>2. q[Len(s)] = IF Len(s) = i THEN c ELSE s[Len(s)]
        BY <4>1
      <4>3. IsBundle(q[Len(q)])
        BY <3>1, <3>3, <4>1, <4>2
      <4> QED  BY <2>2, <3>5, <4>1, <4>3 DEF Ended
    <3> QED  BY <3>2, <3>4, <3>5
  <2>4. o \in Mains
    BY <1>1, <2>1, <2>2
  <2>5. ASSUME r \in Ended, o # PutBundle(r, i, c) PROVE o \in Ended
    <3>1. o.nodes = r.nodes
      BY <1>2, <2>1, <2>5
    <3> HIDE DEF o
    <3> QED  BY <2>4, <2>5, <3>1 DEF Ended
  <2> QED  BY <2>3, <2>4, <2>5
<1> QED  BY <1>3, <1>4

\* A sealed message.
LEMMA HiddenMessageType ==
  ASSUME NEW r \in Mains, NEW m \in Msgs PROVE HiddenMessage(r, m) \in Mains
<1>1. CASE IsTool(m)
  <2> PICK i : i = FindCall(r, m.ref)
    OBVIOUS
  <2>1. IsAt(r, i)
    <3>1. \/ i = -1 \/ i \in 0..Len(r.nodes)
      BY FindCallAt
    <3>2. i # 0 => BundleAt(r, i) \in Bundles
      BY FindCallAt
    <3>3. Len(r.nodes) \in Nat
      BY DEF Mains
    <3>4. i = 0 \/ i \in {-1} \cup 1..Len(r.nodes)
      BY <3>1, <3>3
    <3>5. CASE i = 0
      BY <3>5 DEF IsAt
    <3>6. CASE i # 0
      BY <3>2, <3>4, <3>6 DEF IsAt
    <3> QED  BY <3>5, <3>6
  <2>2. HiddenOutput(r, i, m) \in Mains
    BY <2>1, HiddenOutputType
  <2> QED  BY <1>1, <2>2 DEF HiddenMessage
<1>2. CASE ~IsTool(m) /\ IsAssistant(m)
  <2> PICK b \in Bundles : b = Bundle(r, m, m, NoMsg)
    BY BundleType
  <2> PICK q \in Mains : q = Counted(r, m)
    BY BundleType
  <2>1. WithNode(q, b) \in Mains
    BY PutType
  <2>2. r.n \in Int
    BY DEF Mains
  <2>3. [q EXCEPT !.nodes = Append(@, b), !.auth = r.n] = [WithNode(q, b) EXCEPT !.auth = r.n]
    BY DEF WithNode, Mains
  <2>4. [WithNode(q, b) EXCEPT !.auth = r.n] \in Mains
    <3> HIDE DEF WithNode
    <3> QED  BY <2>1, <2>2 DEF Mains
  <2> QED  BY <1>2, <2>3, <2>4 DEF HiddenMessage
<1>3. CASE ~IsTool(m) /\ ~IsAssistant(m)
  <2>1. Plain(m) \in Nodes
    BY DEF Plain, Nodes, Plains
  <2>2. Append(r.nodes, Plain(m)) \in Seq(Nodes)
    BY <2>1 DEF Mains
  <2> QED  BY <1>3, <2>2 DEF HiddenMessage, Mains
<1> QED  BY <1>1, <1>2, <1>3

\* Sealed messages, one after the other.
LEMMA HiddenMessagesUnroll ==
  ASSUME NEW r \in Mains, NEW msgs \in Seq(Msgs)
  PROVE  \E f \in [0..Len(msgs) -> Mains] :
           /\ f[0] = r /\ f[Len(msgs)] = HiddenMessages(r, msgs)
           /\ \A i \in 1..Len(msgs) : f[i] = HiddenMessage(f[i - 1], msgs[i])
<1> PICK N \in Nat : N = Len(msgs)
  OBVIOUS
<1> DEFINE step == [x \in Mains \X (1..N) |-> HiddenMessage(x[1], msgs[x[2]])]
           Is(h) == h = [i \in 0..N |-> IF i = 0 THEN r ELSE HiddenMessage(h[i - 1], msgs[i])]
<1>1. \A q \in Mains, i \in 1..N : HiddenMessage(q, msgs[i]) \in Mains
  <2>1. \A i \in 1..N : msgs[i] \in Msgs
    OBVIOUS
  <2> QED  BY <2>1, HiddenMessageType
<1>2. step \in [Mains \X (1..N) -> Mains]
  BY <1>1
<1>3. \A q \in Mains, i \in 1..N : step[<<q, i>>] = HiddenMessage(q, msgs[i])
  OBVIOUS
<1> HIDE DEF step
<1>4. PICK g : Unrolls(g, Mains, r, N, step)
  BY <1>2, Recursion
<1>5. Is(g)
  <2>1. ASSUME NEW i \in 1..N PROVE g[i] = HiddenMessage(g[i - 1], msgs[i])
    <3>1. i - 1 \in 0..N
      OBVIOUS
    <3> QED  BY <3>1, <1>4, <1>3 DEF Unrolls
  <2>2. g = [i \in 0..N |-> g[i]] /\ g[0] = r
    BY <1>4 DEF Unrolls
  <2>3. \A i \in 0..N : g[i] = IF i = 0 THEN r ELSE HiddenMessage(g[i - 1], msgs[i])
    BY <2>1, <2>2
  <2> QED  BY <2>2, <2>3
<1>6. PICK h : h = CHOOSE f : Is(f)
  OBVIOUS
<1>7. Is(h)
  <2> HIDE DEF Is
  <2> QED  BY <1>5, <1>6
<1>8. h[N] = HiddenMessages(r, msgs)
  BY <1>6 DEF HiddenMessages
<1>9. ASSUME NEW i \in 1..N PROVE h[i] = HiddenMessage(h[i - 1], msgs[i])
  <2>1. i \in 0..N /\ i # 0
    OBVIOUS
  <2> QED  BY <1>7, <2>1
<1>10. h[0] = r /\ h = [i \in 0..N |-> h[i]]
  BY <1>7
<1>11. Unrolls(h, Mains, r, N, step)
  <2> HIDE DEF Is
  <2>1. \A i \in 1..N : h[i - 1] \in Mains => h[i] = step[<<h[i - 1], i>>]
    BY <1>3, <1>9
  <2> QED  BY <1>2, <1>10, <2>1, RecursionStays
<1> QED  BY <1>8, <1>9, <1>11 DEF Unrolls


\* Sealed outputs for one bundle, one after the other.
LEMMA AnsweringUnroll ==
  ASSUME NEW S, NEW r \in S, NEW msgs \in Seq(Msgs), NEW uid,
         S = Mains \/ S = Ended
  PROVE  \E f \in [0..Len(msgs) -> S] :
           /\ f[0] = r /\ f[Len(msgs)] = AnsweringOutputs(r, msgs, uid)
           /\ \A i \in 1..Len(msgs) : f[i] = HiddenOutput(f[i - 1], NodeOf(f[i - 1], uid), msgs[i])
<1> PICK N \in Nat : N = Len(msgs)
  OBVIOUS
<1> DEFINE step == [x \in S \X (1..N) |-> HiddenOutput(x[1], NodeOf(x[1], uid), msgs[x[2]])]
           Is(h) == h = [i \in 0..N |-> IF i = 0 THEN r ELSE HiddenOutput(h[i - 1], NodeOf(h[i - 1], uid), msgs[i])]
<1>1. \A q \in S, i \in 1..N : HiddenOutput(q, NodeOf(q, uid), msgs[i]) \in S
  <2>1. ASSUME NEW q \in S, NEW m \in Msgs PROVE HiddenOutput(q, NodeOf(q, uid), m) \in S
    <3>1. q \in Mains
      BY DEF Ended
    <3> PICK k : k = NodeOf(q, uid)
      OBVIOUS
    <3>2. k \in 0..Len(q.nodes) /\ (k # 0 => q.nodes[k] \in Bundles) /\ Len(q.nodes) \in Nat
      BY <3>1, NodeOfAt, Elements DEF Mains
    <3>3. IsAt(q, k)
      <4>1. CASE k = 0
        BY <4>1 DEF IsAt
      <4>2. CASE k # 0
        <5>1. k \in 1..Len(q.nodes) /\ k # -1
          BY <3>2, <4>2
        <5> QED  BY <3>2, <4>2, <5>1 DEF IsAt, BundleAt
      <4> QED  BY <4>1, <4>2
    <3> QED  BY <3>1, <3>3, HiddenOutputType
  <2>2. \A i \in 1..N : msgs[i] \in Msgs
    OBVIOUS
  <2> QED  BY <2>1, <2>2
<1>2. step \in [S \X (1..N) -> S]
  BY <1>1
<1>3. \A q \in S, i \in 1..N : step[<<q, i>>] = HiddenOutput(q, NodeOf(q, uid), msgs[i])
  OBVIOUS
<1> HIDE DEF step
<1>4. PICK g : Unrolls(g, S, r, N, step)
  BY <1>2, Recursion
<1>5. Is(g)
  <2>1. ASSUME NEW i \in 1..N PROVE g[i] = HiddenOutput(g[i - 1], NodeOf(g[i - 1], uid), msgs[i])
    <3>1. i - 1 \in 0..N
      OBVIOUS
    <3> QED  BY <3>1, <1>4, <1>3 DEF Unrolls
  <2>2. g = [i \in 0..N |-> g[i]] /\ g[0] = r
    BY <1>4 DEF Unrolls
  <2>3. \A i \in 0..N : g[i] = IF i = 0 THEN r ELSE HiddenOutput(g[i - 1], NodeOf(g[i - 1], uid), msgs[i])
    <3>1. \A i \in 0..N : i = 0 \/ i \in 1..N
      OBVIOUS
    <3>2. g[0] = r
      BY <2>2
    <3> QED  BY <2>1, <3>1, <3>2
  <2> QED  BY <2>2, <2>3
<1>6. PICK h : h = CHOOSE f : Is(f)
  OBVIOUS
<1>7. Is(h)
  <2> HIDE DEF Is
  <2> QED  BY <1>5, <1>6
<1>8. h[N] = AnsweringOutputs(r, msgs, uid)
  BY <1>6 DEF AnsweringOutputs
<1>9. ASSUME NEW i \in 1..N PROVE h[i] = HiddenOutput(h[i - 1], NodeOf(h[i - 1], uid), msgs[i])
  <2>1. i \in 0..N /\ i # 0
    OBVIOUS
  <2> QED  BY <1>7, <2>1
<1>10. h[0] = r /\ h = [i \in 0..N |-> h[i]]
  BY <1>7
<1>11. Unrolls(h, S, r, N, step)
  <2> HIDE DEF Is
  <2>1. \A i \in 1..N : h[i - 1] \in S => h[i] = step[<<h[i - 1], i>>]
    BY <1>3, <1>9
  <2> QED  BY <1>2, <1>10, <2>1, RecursionStays
<1> QED  BY <1>8, <1>9, <1>11 DEF Unrolls

\* Sealed messages keep the types.
LEMMA HiddenMessagesType ==
  ASSUME NEW r \in Mains, NEW msgs \in Seq(Msgs) PROVE HiddenMessages(r, msgs) \in Mains
<1>1. Len(msgs) \in 0..Len(msgs)
  OBVIOUS
<1> QED  BY <1>1, HiddenMessagesUnroll

\* Outputs for one bundle keep them too, and the bundle at the end.
LEMMA AnsweringType ==
  ASSUME NEW r \in Mains, NEW msgs \in Seq(Msgs), NEW uid
  PROVE  /\ AnsweringOutputs(r, msgs, uid) \in Mains
         /\ r \in Ended => AnsweringOutputs(r, msgs, uid) \in Ended
<1>1. Len(msgs) \in 0..Len(msgs)
  OBVIOUS
<1>2. AnsweringOutputs(r, msgs, uid) \in Mains
  BY <1>1, AnsweringUnroll
<1>3. ASSUME r \in Ended PROVE AnsweringOutputs(r, msgs, uid) \in Ended
  BY <1>1, <1>3, AnsweringUnroll
<1> QED  BY <1>2, <1>3

\* The messages an update brings of its own.
LEMMA LocalType ==
  ASSUME NEW r \in Mains, NEW u \in Leads PROVE LocalMessages(r, u) \in Mains
<1>1. /\ u.prefix \in Seq(Msgs) /\ u.suffix \in Seq(Msgs) /\ u.after \in Seq(Msgs)
      /\ u.anchor \in Msgs \cup {NoMsg}
  BY DEF Leads
<1> PICK own : own = u.prefix \o (IF u.anchor = NoMsg THEN <<>> ELSE <<u.anchor>>)
  OBVIOUS
<1>2. own \in Seq(Msgs)
  <2>1. (IF u.anchor = NoMsg THEN <<>> ELSE <<u.anchor>>) \in Seq(Msgs)
    BY <1>1
  <2> QED  BY <1>1, <2>1, Longer
<1> PICK a \in Mains : a = HiddenMessages(r, own)
  BY <1>2, HiddenMessagesType
<1> PICK b \in Mains : b = AnsweringOutputs(a, u.suffix, a.auth)
  BY <1>1, AnsweringType
<1>3. HiddenMessages(b, u.after) \in Mains
  BY <1>1, HiddenMessagesType
<1>4. LocalMessages(r, u) = HiddenMessages(b, u.after)
  BY DEF LocalMessages, SuffixOutputs
<1> QED  BY <1>3, <1>4

\* The bundle a patch is for, and what is left without it.
LEMMA StagedType ==
  ASSUME NEW r \in Mains, NEW m \in Msgs
  PROVE  StagedBundle(r, m) \in Bundles /\ StagedRest(r, m) \in Mains
<1>1. CASE AuthSource(r) = m
  <2> PICK k : k = NodeOf(r, r.auth)
    OBVIOUS
  <2>1. k # 0
    <3>1. m # NoMsg
      BY NoMsgApart
    <3> QED  BY <1>1, <3>1 DEF AuthSource
  <2>2. k \in 0..Len(r.nodes) /\ r.nodes[k] \in Bundles /\ r.nodes \in Seq(Nodes)
    BY <2>1, NodeOfAt DEF Mains
  <2>3. StagedBundle(r, m) = r.nodes[k]
    BY <1>1 DEF StagedBundle
  <2>4. RemoveAt(r.nodes, k) \in Seq(Nodes)
    <3> PICK s \in Seq(Nodes) : s = r.nodes
      BY <2>2
    <3>1. k \in 1..Len(s) /\ Len(s) \in Nat
      BY <2>1, <2>2
    <3>2. SubSeq(s, 1, k - 1) \in Seq(Nodes) /\ SubSeq(s, k + 1, Len(s)) \in Seq(Nodes)
      BY <3>1
    <3>3. RemoveAt(s, k) = SubSeq(s, 1, k - 1) \o SubSeq(s, k + 1, Len(s))
      BY DEF RemoveAt
    <3> QED  BY <3>2, <3>3, Longer
  <2>5. [r EXCEPT !.nodes = RemoveAt(r.nodes, k)] \in Mains
    <3> HIDE DEF RemoveAt
    <3> QED  BY <2>4 DEF Mains
  <2>6. StagedRest(r, m) = [r EXCEPT !.nodes = RemoveAt(r.nodes, k)]
    BY <1>1 DEF StagedRest
  <2> QED  BY <2>2, <2>3, <2>5, <2>6
<1>2. CASE AuthSource(r) # m
  <2>1. StagedBundle(r, m) \in Bundles
    BY <1>2, BundleType DEF StagedBundle
  <2> PICK q \in Mains : q = Counted(r, m)
    BY BundleType
  <2>2. StagedRest(r, m) = [q EXCEPT !.auth = r.n]
    BY <1>2 DEF StagedRest
  <2>3. [q EXCEPT !.auth = r.n] \in Mains
    BY DEF Mains
  <2> QED  BY <2>1, <2>2, <2>3
<1> QED  BY <1>1, <1>2

\* A thread with a bundle put at its end ends with it.
LEMMA WithNodeEnds ==
  ASSUME NEW r \in Mains, NEW b \in Bundles PROVE WithNode(r, b) \in Ended
<1>1. WithNode(r, b) \in Mains
  BY PutType
<1> PICK s \in Seq(Nodes) : s = r.nodes
  BY DEF Mains
<1>2. b \in Nodes /\ IsBundle(b)
  BY DEF Nodes, Bundles, IsBundle
<1> PICK q : q = Append(s, b)
  OBVIOUS
<1>3. q # <<>> /\ q[Len(q)] = b
  BY <1>2
<1>4. WithNode(r, b).nodes = q
  BY DEF WithNode, Mains
<1> HIDE DEF WithNode
<1> QED  BY <1>1, <1>2, <1>3, <1>4 DEF Ended

\* A patched assistant in its place, which waits for its message if it has text.
LEMMA PatchedType ==
  ASSUME NEW r \in Mains, NEW u \in Leads, NEW before, NEW staged \in Bundles
  PROVE  Awaited(Patched(r, u, before, staged)) \in Mains
<1>1. u.leading \in Seq(Msgs)
  BY DEF Leads
<1> PICK p : p = Patched(r, u, before, staged)
  OBVIOUS
<1>2. p \in Ended
  <2>1. CASE HasMessages(u)
    <3> PICK q : q = LeadingOutputs(r, u, before)
      OBVIOUS
    <3>1. q \in Mains
      BY <1>1, AnsweringType DEF LeadingOutputs
    <3>2. p = WithNode(q, staged)
      BY <2>1 DEF Patched
    <3> QED  BY <3>1, <3>2, WithNodeEnds
  <2>2. CASE ~HasMessages(u)
    <3> PICK q : q = WithNode(r, staged)
      OBVIOUS
    <3>1. q \in Ended /\ q \in Mains
      BY WithNodeEnds DEF Ended
    <3>2. p = LeadingOutputs(q, u, staged.uid)
      BY <2>2 DEF Patched
    <3> QED  BY <1>1, <3>1, <3>2, AnsweringType DEF LeadingOutputs
  <2> QED  BY <2>1, <2>2
<1> PICK s \in Seq(Nodes) : s = p.nodes
  BY <1>2 DEF Ended, Mains
<1>3. s # <<>> /\ Last(s) \in Bundles /\ Front(s) \in Seq(Nodes)
  <2>1. s # <<>> /\ IsBundle(s[Len(s)])
    BY <1>2 DEF Ended
  <2>2. s[Len(s)] \in Nodes
    BY <2>1
  <2>3. s[Len(s)] \in Bundles
    BY <2>1, <2>2 DEF Nodes, Plains, IsBundle
  <2>4. Front(s) \in Seq(Nodes)
    BY <2>1 DEF Front
  <2> QED  BY <2>1, <2>3, <2>4 DEF Last
<1>4. [p EXCEPT !.nodes = Front(s), !.pend = Last(s)] \in Mains
  BY <1>2, <1>3 DEF Ended, Mains
<1>5. Awaited(p) = p \/ Awaited(p) = [p EXCEPT !.nodes = Front(s), !.pend = Last(s)]
  BY <1>2 DEF Awaited, Ended, Mains
<1> QED  BY <1>2, <1>4, <1>5 DEF Ended

\* A main update applied.
LEMMA ApplyUpdateType ==
  ASSUME NEW r \in Mains, NEW updates \in MainUpdates
  PROVE  ApplyUpdate(r, updates) \in Mains
<1>1. Raise(r, "main_message_patch_target_missing") \in Mains
  <2>1. "main_message_patch_target_missing" \in Errors
    BY DEF Errors
  <2> QED  BY <2>1, RaiseType
<1> PICK u \in Leads : u = SplitMainUpdates(updates)
  BY UpdateSplits
<1> PICK q \in Mains : q = LocalMessages(r, u)
  BY LocalType
<1>2. Updated(q, u, r.auth) \in Mains
  <2>1. CASE u.patch = NoMsg
    <3>1. Updated(q, u, r.auth) = LeadingOutputs(q, u, r.auth)
      BY <2>1 DEF Updated
    <3>2. u.leading \in Seq(Msgs)
      BY DEF Leads
    <3> QED  BY <3>1, <3>2, AnsweringType DEF LeadingOutputs
  <2>2. CASE u.patch # NoMsg
    <3> PICK m \in Msgs : m = u.patch
      BY <2>2 DEF Leads
    <3> PICK b \in Bundles : b = StagedBundle(q, m)
      BY StagedType
    <3> PICK t \in Mains : t = StagedRest(q, m)
      BY StagedType
    <3>1. Updated(q, u, r.auth) = Awaited(Patched(t, u, r.auth, b))
      BY <2>2 DEF Updated
    <3> QED  BY <3>1, PatchedType
  <2> QED  BY <2>1, <2>2
<1> QED  BY <1>1, <1>2 DEF ApplyUpdate, UpdatedBy

\* A message item.
LEMMA AppendMessageType ==
  ASSUME NEW r \in Mains, NEW m \in Msgs PROVE AppendMessage(r, m) \in Mains
<1>1. CASE IsAssistant(m) /\ r.pend # NoMsg
  <2> PICK b \in Bundles : b = r.pend
    BY <1>1 DEF Mains
  <2>1. [b EXCEPT !.public = m] \in Bundles
    BY DEF Bundles
  <2> PICK c \in Bundles : c = [b EXCEPT !.public = m]
    BY <2>1
  <2> PICK q \in Mains : q = WithNode(r, c)
    BY PutType
  <2>2. AppendMessage(r, m) = [q EXCEPT !.pend = NoMsg]
    BY <1>1 DEF AppendMessage, WithNode, Mains
  <2>3. [q EXCEPT !.pend = NoMsg] \in Mains
    BY DEF Mains
  <2> QED  BY <2>2, <2>3
<1>2. CASE IsAssistant(m) /\ ~(r.pend # NoMsg)
  <2> PICK b \in Bundles : b = Bundle(r, m, NoMsg, m)
    BY BundleType
  <2> PICK q \in Mains : q = WithNode(r, b)
    BY PutType
  <2>1. q.n = r.n
    BY DEF WithNode, Mains
  <2>2. AppendMessage(r, m) = [q EXCEPT !.n = @ + 1]
    BY <1>2 DEF AppendMessage, WithNode, Mains
  <2>3. [q EXCEPT !.n = @ + 1] \in Mains
    BY DEF Mains
  <2> QED  BY <2>2, <2>3
<1>3. CASE ~IsAssistant(m)
  <2>1. Plain(m) \in Nodes
    BY DEF Plain, Nodes, Plains
  <2>2. Append(r.nodes, Plain(m)) \in Seq(Nodes)
    BY <2>1 DEF Mains
  <2> QED  BY <1>3, <2>2 DEF AppendMessage, Mains
<1> QED  BY <1>1, <1>2, <1>3

\* A bundle whose calls are others.
LEMMA CallsChanged ==
  ASSUME NEW r \in Mains, NEW i \in 1..Len(r.nodes), r.nodes[i] \in Bundles,
         NEW cs \in Seq(CallRecords)
  PROVE  /\ [r EXCEPT !.nodes = [r.nodes EXCEPT ![i] = [r.nodes[i] EXCEPT !.calls = cs]]] \in Mains
         /\ r.nodes[i].calls \in Seq(CallRecords)
<1> PICK b \in Bundles : b = r.nodes[i]
  OBVIOUS
<1>1. [b EXCEPT !.calls = cs] \in Bundles /\ b.calls \in Seq(CallRecords)
  BY DEF Bundles
<1> PICK c \in Bundles : c = [b EXCEPT !.calls = cs]
  BY <1>1
<1>2. PutBundle(r, i, c) \in Mains
  BY PutType
<1>3. i # -1
  OBVIOUS
<1>4. PutBundle(r, i, c) = [r EXCEPT !.nodes = [r.nodes EXCEPT ![i] = c]]
  BY <1>3 DEF PutBundle, Mains
<1> QED  BY <1>1, <1>2, <1>4

\* A call item.
LEMMA AddCallType == ASSUME NEW r \in Mains, NEW c \in Int PROVE AddCall(r, c) \in Mains
<1> PICK found : found = FindCall(r, c)
  OBVIOUS
<1> PICK owner : owner = LastAssistant(r)
  OBVIOUS
<1>1. /\ Raise(r, "main_message_patch_target_missing") \in Mains
      /\ Raise(r, "sealed_function_call_without_attachment_owner") \in Mains
      /\ Raise(r, "function_call_already_satisfied") \in Mains
      /\ Raise(r, "duplicate_pending_function_call") \in Mains
  <2>1. ASSUME NEW why \in Errors PROVE Raise(r, why) \in Mains
    BY RaiseType
  <2>2. /\ "main_message_patch_target_missing" \in Errors
        /\ "sealed_function_call_without_attachment_owner" \in Errors
        /\ "function_call_already_satisfied" \in Errors
        /\ "duplicate_pending_function_call" \in Errors
    BY DEF Errors
  <2> QED  BY <2>1, <2>2
<1>2. CASE r.pend # NoMsg \/ owner = 0
  BY <1>1, <1>2 DEF AddCall, AddCallTo
<1>3. CASE r.pend = NoMsg /\ owner # 0
  <2>1. owner \in 1..Len(r.nodes) /\ r.nodes[owner] \in Bundles
    <3>1. owner \in 0..Len(r.nodes) /\ (owner # 0 => r.nodes[owner] \in Bundles)
      BY LastBundleAt
    <3> QED  BY <1>3, <3>1
  <2> PICK s \in Seq(Nodes) : s = r.nodes
    BY DEF Mains
  <2>2. CASE found = 0
    <3> PICK x \in CallRecords : x = CallOf(c, r.n, "open")
      BY DEF CallOf, CallRecords, Mains
    <3> PICK cs \in Seq(CallRecords) : cs = Append(s[owner].calls, x)
      <4>1. s[owner].calls \in Seq(CallRecords)
        BY <2>1 DEF Bundles
      <4>2. Append(s[owner].calls, x) \in Seq(CallRecords)
        BY <4>1, Longer
      <4> QED  BY <4>2
    <3> PICK q \in Mains : q = [r EXCEPT !.nodes = [s EXCEPT ![owner] = [s[owner] EXCEPT !.calls = cs]]]
      BY <2>1, CallsChanged
    <3>1. [q EXCEPT !.n = r.n + 1] \in Mains
      <4>1. r.n + 1 \in Int
        BY DEF Mains
      <4> QED  BY <4>1 DEF Mains
    <3>2. AddCall(r, c) = [q EXCEPT !.n = r.n + 1]
      BY <1>3, <2>1, <2>2 DEF AddCall, AddCallTo, Mains
    <3> QED  BY <3>1, <3>2
  <2>3. CASE found # 0
    <3>1. found \in 1..Len(s) /\ s[found] \in Bundles /\ HasCall(s[found], c)
      <4>1. found # -1
        <5>1. found = -1 => r.pend \in Bundles
          BY FindCallAt
        <5> QED  BY <1>3, <5>1, NoMsgApart
      <4>2. found \in 0..Len(s) /\ s[found] \in Bundles /\ HasCall(BundleAt(r, found), c)
        BY <2>3, <4>1, FindCallAt
      <4> QED  BY <2>3, <4>1, <4>2 DEF BundleAt
    <3> PICK x \in CallRecords : x = CallIn(s[found], c)
      BY <3>1, CallInType
    <3>2. AddCall(r, c) = OpenCall(r, x, found, owner)
      BY <1>3, <2>3 DEF AddCall, AddCallTo
    <3>3. CASE x.phase = "closed" \/ x.phase = "open"
      BY <1>1, <3>2, <3>3 DEF OpenCall
    <3>4. CASE x.phase # "closed" /\ x.phase # "open" /\ found = owner
      <4> PICK b \in Bundles : b = s[owner]
        BY <2>1
      <4> PICK w \in Bundles : w = WithPhase(b, x.id, "open")
        <5>1. "open" \in {"declared", "open", "closed"}
          OBVIOUS
        <5>2. WithPhase(b, x.id, "open") \in Bundles
          BY <5>1, OpenedType
        <5> QED  BY <5>2
      <4>1. PutBundle(r, owner, w) \in Mains
        BY <2>1, PutType
      <4>2. OpenCall(r, x, found, owner) = PutBundle(r, owner, w)
        <5>1. owner # -1
          BY <2>1
        <5>2. WithPhase(r.nodes[owner], x.id, "open") = w
          OBVIOUS
        <5>3. OpenCall(r, x, found, owner) =
                [r EXCEPT !.nodes[owner] = WithPhase(r.nodes[owner], x.id, "open")]
          BY <3>4 DEF OpenCall
        <5> QED  BY <5>1, <5>2, <5>3 DEF PutBundle
      <4> QED  BY <3>2, <4>1, <4>2
    <3>5. CASE x.phase # "closed" /\ x.phase # "open" /\ found # owner
      <4> PICK fewer : fewer = Where(s[found].calls, LAMBDA y : y.id # x.id)
        OBVIOUS
      <4>1. fewer \in Seq(CallRecords)
        <5>1. s[found].calls \in Seq(CallRecords)
          BY <3>1 DEF Bundles
        <5>2. \E I : fewer = Among(s[found].calls, I)
          BY DEF Where
        <5> QED  BY <5>1, <5>2, AmongKeeps
      <4> PICK q \in Mains : q = [r EXCEPT !.nodes = [s EXCEPT ![found] = [s[found] EXCEPT !.calls = fewer]]]
        BY <3>1, <4>1, CallsChanged
      <4> PICK y \in CallRecords : y = [x EXCEPT !.phase = "open"]
        BY DEF CallRecords
      <4> PICK t \in Seq(Nodes) : t = [s EXCEPT ![found] = [s[found] EXCEPT !.calls = fewer]]
        BY DEF Mains
      <4>2. q.nodes = t /\ Len(t) = Len(s) /\ t[owner] = s[owner]
        BY <2>1, <3>1, <3>5 DEF Mains
      <4> PICK cs \in Seq(CallRecords) : cs = Append(s[owner].calls, y)
        <5>1. s[owner].calls \in Seq(CallRecords)
          BY <2>1 DEF Bundles
        <5>2. Append(s[owner].calls, y) \in Seq(CallRecords)
          BY <5>1, Longer
        <5> QED  BY <5>2
      <4>3. [q EXCEPT !.nodes = [t EXCEPT ![owner] = [t[owner] EXCEPT !.calls = cs]]] \in Mains
        <5>1. owner \in 1..Len(q.nodes) /\ q.nodes[owner] \in Bundles
          BY <2>1, <4>2
        <5> QED  BY <4>2, <5>1, CallsChanged
      <4>4. OpenCall(r, x, found, owner)
              = [q EXCEPT !.nodes = [t EXCEPT ![owner] = [t[owner] EXCEPT !.calls = cs]]]
        <5>1. OpenCall(r, x, found, owner)
                = [r EXCEPT !.nodes[found].calls = fewer, !.nodes[owner].calls = Append(@, y)]
          BY <3>5 DEF OpenCall
        <5> QED  BY <2>1, <3>1, <4>2, <5>1 DEF Mains
      <4> QED  BY <3>2, <4>3, <4>4
    <3> QED  BY <3>3, <3>4, <3>5
  <2> QED  BY <2>2, <2>3
<1> QED  BY <1>2, <1>3

\* An output item.
LEMMA AddOutputType ==
  ASSUME NEW r \in Mains, NEW c \in Int, NEW id \in Int PROVE AddOutput(r, c, id) \in Mains
<1> PICK i : i = FindCall(r, c)
  OBVIOUS
<1> PICK m \in Msgs : m = Output(c, id, {})
  <2>1. {} \in SUBSET Int
    OBVIOUS
  <2>2. Output(c, id, {}) \in Msgs
    BY <2>1, OutputType
  <2> QED  BY <2>2
<1>1. Raise(r, "function_call_output_without_pending_function_call") \in Mains
  <2>1. "function_call_output_without_pending_function_call" \in Errors
    BY DEF Errors
  <2> QED  BY <2>1, RaiseType
<1>2. CASE i = 0
  BY <1>1, <1>2 DEF AddOutput, AddOutputAt
<1>3. CASE i # 0
  <2> PICK b \in Bundles : b = BundleAt(r, i)
    BY <1>3, FindCallAt
  <2> PICK w \in Bundles : w = WithOutput(b, m)
    BY WithOutputType
  <2>1. i = -1 \/ i \in 1..Len(r.nodes)
    <3>1. i = -1 \/ i \in 0..Len(r.nodes)
      BY FindCallAt
    <3>2. Len(r.nodes) \in Nat
      BY DEF Mains
    <3> QED  BY <1>3, <3>1, <3>2
  <2>2. PutBundle(r, i, w) \in Mains
    BY <2>1, PutType
  <2>3. AddOutput(r, c, id) = IF CallIn(b, m.ref).phase # "open"
                              THEN Raise(r, "function_call_output_without_pending_function_call")
                              ELSE PutBundle(r, i, w)
    BY <1>3 DEF AddOutput, AddOutputAt
  <2> QED  BY <1>1, <2>2, <2>3
<1> QED  BY <1>2, <1>3

\* The calls nobody published, ended.
LEMMA InterruptType == ASSUME NEW r \in Mains PROVE InterruptDeclared(r) \in Mains
<1>1. Raise(r, "main_message_patch_target_missing") \in Mains
  <2>1. "main_message_patch_target_missing" \in Errors
    BY DEF Errors
  <2> QED  BY <2>1, RaiseType
<1> DEFINE Open(b) == Where(b.calls, LAMBDA x : x.phase = "declared")
           Ids(b) == [i \in DOMAIN Open(b) |-> Open(b)[i].id]
           Closed(b) == [i \in DOMAIN b.calls |->
                           IF b.calls[i].phase = "declared"
                           THEN [b.calls[i] EXCEPT !.phase = "closed"] ELSE b.calls[i]]
           Close(b) == [b EXCEPT !.calls = Closed(b), !.outputs = @ \o Stubs(Ids(b), Aborted, {})]
<1>2. ASSUME NEW b \in Bundles PROVE Close(b) \in Nodes
  <2> PICK s \in Seq(CallRecords) : s = b.calls
    BY DEF Bundles
  <2>1. PICK open \in Seq(CallRecords) : open = Open(b)
    <3>1. \E I : Open(b) = Among(s, I)
      BY DEF Where
    <3> QED  BY <3>1, AmongKeeps
  <2>2. Ids(b) \in Seq(Int)
    <3>1. Ids(b) = [i \in DOMAIN open |-> open[i].id]
      BY <2>1
    <3>2. \A x \in CallRecords : x.id \in Int
      BY DEF CallRecords
    <3> HIDE DEF Ids
    <3> QED  BY <3>1, <3>2
  <2>3. Stubs(Ids(b), Aborted, {}) \in Seq(Msgs)
    <3>1. Aborted \in Int /\ {} \in SUBSET Int
      BY DEF Aborted
    <3> HIDE DEF Ids
    <3>2. Stubs(Ids(b), Aborted, {}) \in Seq(AdvOutputs)
      BY <2>2, <3>1, StubsType
    <3> QED  BY <3>2 DEF AdvOutputs
  <2>4. Closed(b) \in Seq(CallRecords)
    <3>1. \A x \in CallRecords : [x EXCEPT !.phase = "closed"] \in CallRecords
      BY DEF CallRecords
    <3>2. Closed(b) = [i \in DOMAIN s |-> IF s[i].phase = "declared"
                                          THEN [s[i] EXCEPT !.phase = "closed"] ELSE s[i]]
      OBVIOUS
    <3> DEFINE F(x) == IF x.phase = "declared" THEN [x EXCEPT !.phase = "closed"] ELSE x
    <3>3. \A x \in CallRecords : F(x) \in CallRecords
      BY <3>1
    <3>4. Closed(b) = [i \in DOMAIN s |-> F(s[i])]
      BY <3>2
    <3> HIDE DEF Closed, F
    <3>5. [i \in DOMAIN s |-> F(s[i])] \in Seq(CallRecords)
      BY <3>3
    <3> QED  BY <3>4, <3>5
  <2> PICK q \in Seq(Msgs) : q = b.outputs \o Stubs(Ids(b), Aborted, {})
    <3> HIDE DEF Ids
    <3>1. b.outputs \in Seq(Msgs)
      BY DEF Bundles
    <3>2. b.outputs \o Stubs(Ids(b), Aborted, {}) \in Seq(Msgs)
      BY <2>3, <3>1, Longer
    <3> QED  BY <3>2
  <2> HIDE DEF Closed, Ids, Open
  <2>5. Close(b) = [b EXCEPT !.calls = Closed(b), !.outputs = q]
    BY DEF Bundles
  <2> QED  BY <2>4, <2>5 DEF Bundles, Nodes
<1> PICK s \in Seq(Nodes) : s = r.nodes
  BY DEF Mains
<1>3. [i \in DOMAIN s |-> IF IsBundle(s[i]) THEN Close(s[i]) ELSE s[i]] \in Seq(Nodes)
  <2>1. \A x \in Nodes : IsBundle(x) => Close(x) \in Nodes
    <3> HIDE DEF Close
    <3> QED  BY <1>2 DEF Nodes, Plains, IsBundle
  <2> HIDE DEF Close
  <2> QED  BY <2>1
<1>4. InterruptDeclared(r) =
        IF r.pend # NoMsg THEN Raise(r, "main_message_patch_target_missing")
        ELSE [r EXCEPT !.nodes = [i \in DOMAIN s |-> IF IsBundle(s[i]) THEN Close(s[i]) ELSE s[i]]]
  BY SMT DEF InterruptDeclared
<1> HIDE DEF Close
<1> PICK t \in Seq(Nodes) :
      t = [i \in DOMAIN s |-> IF IsBundle(s[i]) THEN Close(s[i]) ELSE s[i]]
  BY <1>3
<1>5. [r EXCEPT !.nodes = t] \in Mains
  BY DEF Mains
<1> QED  BY <1>1, <1>4, <1>5

\* A call put in its place.
LEMMA InsertedType ==
  ASSUME NEW q \in Seq(CallRecords), NEW c \in CallRecords
  PROVE  Inserted(q, c) \in Seq(CallRecords)
<1> PICK I : I = {i \in 1..Len(q) : q[i].order < c.order}
  OBVIOUS
<1> PICK k : k = IF I # {} THEN Max(I) ELSE 0
  OBVIOUS
<1>1. k \in 0..Len(q)
  <2>1. I \in SUBSET (1..Len(q)) /\ 1 \in Int /\ Len(q) \in Int /\ Len(q) >= 0
    OBVIOUS
  <2>2. I # {} => Max(I) \in I
    BY <2>1, Extremes
  <2> QED  BY <2>1, <2>2
<1>2. Inserted(q, c) = InsertAt(q, k + 1, c)
  <2>1. SelectLastInSeq(q, LAMBDA x : x.order < c.order) = k
    BY DEF SelectLastInSeq
  <2> QED  BY <2>1 DEF Inserted
<1>3. InsertAt(q, k + 1, c) = SubSeq(q, 1, k) \o <<c>> \o SubSeq(q, k + 1, Len(q))
  <2>1. (k + 1) - 1 = k
    BY <1>1
  <2> QED  BY <2>1 DEF InsertAt
<1> PICK T : T = CallRecords
  OBVIOUS
<1> PICK front \in Seq(T) : front = SubSeq(q, 1, k)
  <2>1. SubSeq(q, 1, k) \in Seq(T)
    <3>1. q \in Seq(T) /\ 1 \in Int /\ k \in Int /\ 1 <= 1 /\ k <= Len(q)
      BY <1>1
    <3> QED  BY <3>1, Part
  <2> QED  BY <2>1
<1> PICK back \in Seq(T) : back = SubSeq(q, k + 1, Len(q))
  <2>1. SubSeq(q, k + 1, Len(q)) \in Seq(T)
    <3>1. q \in Seq(T) /\ k + 1 \in Int /\ Len(q) \in Int /\ 1 <= k + 1 /\ Len(q) <= Len(q)
      BY <1>1
    <3> QED  BY <3>1, Part
  <2> QED  BY <2>1
<1>4. front \o <<c>> \in Seq(T)
  <2>1. <<c>> \in Seq(T)
    BY Longer
  <2> QED  BY <2>1, Longer
<1>5. front \o <<c>> \o back \in Seq(T)
  BY <1>4, Longer
<1> QED  BY <1>2, <1>3, <1>5

\* The calls of a bundle, one put in its place after the other.
LEMMA InOrderUnroll ==
  ASSUME NEW calls \in Seq(CallRecords)
  PROVE  \E f \in [0..Len(calls) -> Seq(CallRecords)] :
           /\ f[0] = <<>> /\ f[Len(calls)] = InOrder(calls)
           /\ \A i \in 1..Len(calls) : f[i] = Inserted(f[i - 1], calls[i])
<1> PICK N \in Nat : N = Len(calls)
  OBVIOUS
<1> DEFINE step == [x \in Seq(CallRecords) \X (1..N) |-> Inserted(x[1], calls[x[2]])]
           Is(h) == h = [i \in 0..N |-> IF i = 0 THEN <<>> ELSE Inserted(h[i - 1], calls[i])]
<1>1. \A q \in Seq(CallRecords), i \in 1..N : Inserted(q, calls[i]) \in Seq(CallRecords)
  <2>1. \A i \in 1..N : calls[i] \in CallRecords
    OBVIOUS
  <2> QED  BY <2>1, InsertedType
<1>2. step \in [Seq(CallRecords) \X (1..N) -> Seq(CallRecords)]
  BY <1>1
<1>3. \A q \in Seq(CallRecords), i \in 1..N : step[<<q, i>>] = Inserted(q, calls[i])
  OBVIOUS
<1> HIDE DEF step
<1>4. PICK g : Unrolls(g, Seq(CallRecords), <<>>, N, step)
  <2>1. <<>> \in Seq(CallRecords)
    OBVIOUS
  <2> QED  BY <1>2, <2>1, Recursion
<1>5. Is(g)
  <2>1. ASSUME NEW i \in 1..N PROVE g[i] = Inserted(g[i - 1], calls[i])
    <3>1. i - 1 \in 0..N
      OBVIOUS
    <3> QED  BY <3>1, <1>4, <1>3 DEF Unrolls
  <2>2. g = [i \in 0..N |-> g[i]] /\ g[0] = <<>>
    BY <1>4 DEF Unrolls
  <2>3. \A i \in 0..N : g[i] = IF i = 0 THEN <<>> ELSE Inserted(g[i - 1], calls[i])
    BY <2>1, <2>2
  <2> QED  BY <2>2, <2>3
<1>6. PICK h : h = CHOOSE f : Is(f)
  OBVIOUS
<1>7. Is(h)
  <2> HIDE DEF Is
  <2> QED  BY <1>5, <1>6
<1>8. h[N] = InOrder(calls)
  BY <1>6 DEF InOrder
<1>9. ASSUME NEW i \in 1..N PROVE h[i] = Inserted(h[i - 1], calls[i])
  <2>1. i \in 0..N /\ i # 0
    OBVIOUS
  <2> QED  BY <1>7, <2>1
<1>10. h[0] = <<>> /\ h = [i \in 0..N |-> h[i]]
  BY <1>7
<1>11. Unrolls(h, Seq(CallRecords), <<>>, N, step)
  <2> HIDE DEF Is
  <2>1. \A i \in 1..N : h[i - 1] \in Seq(CallRecords) => h[i] = step[<<h[i - 1], i>>]
    BY <1>3, <1>9
  <2>2. <<>> \in Seq(CallRecords)
    OBVIOUS
  <2> QED  BY <1>2, <1>10, <2>1, <2>2, RecursionStays
<1> QED  BY <1>8, <1>9, <1>11 DEF Unrolls

\* The thread that the replay has rebuilt.
LEMMA MainMessagesType == ASSUME NEW r \in Mains PROVE MainMessages(r) \in Seq(Msgs)
<1>1. ASSUME NEW b \in Bundles PROVE BundleMessages(b) \in Seq(Msgs)
  <2>1. b.calls \in Seq(CallRecords) /\ b.outputs \in Seq(Msgs)
    BY DEF Bundles
  <2> PICK sorted \in Seq(CallRecords) : sorted = InOrder(b.calls)
    <3>1. Len(b.calls) \in 0..Len(b.calls)
      BY <2>1
    <3> QED  BY <2>1, <3>1, InOrderUnroll
  <2> PICK ids \in Seq(Int) : ids = [i \in DOMAIN sorted |-> sorted[i].id]
    <3>1. \A x \in CallRecords : x.id \in Int
      BY DEF CallRecords
    <3>2. [i \in DOMAIN sorted |-> sorted[i].id] \in Seq(Int)
      BY <3>1
    <3> QED  BY <3>2
  <2> PICK m \in Msgs : m = CopyAssistant(b.private, b.public, ids)
    <3>1. b.private \in Msgs /\ (b.public = NoMsg \/ b.public \in Msgs)
      BY DEF Bundles
    <3> PICK id \in Int, text \in BOOLEAN, thoughts \in BOOLEAN :
          CopyAssistant(b.private, b.public, ids) = Assistant(id, text, thoughts, ids, {})
      <4>1. \A x \in Msgs : x.id \in Int /\ x.text \in BOOLEAN /\ x.thoughts \in BOOLEAN
        BY DEF Msgs
      <4> QED  BY <3>1, <4>1 DEF CopyAssistant
    <3>2. Assistant(id, text, thoughts, ids, {}) \in Msgs
      <4>1. {} \in SUBSET Int
        OBVIOUS
      <4> QED  BY <4>1, AssistantType
    <3> QED  BY <3>2
  <2>2. BundleMessages(b) = <<m>> \o b.outputs
    BY DEF BundleMessages
  <2>3. <<m>> \in Seq(Msgs)
    OBVIOUS
  <2> QED  BY <2>1, <2>2, <2>3, Longer
<1> PICK s \in Seq(Nodes) : s = r.nodes
  BY DEF Mains
<1> DEFINE MessagesAt(x) == IF IsBundle(x) THEN BundleMessages(x) ELSE <<x.m>>
<1>2. \A x \in Nodes : MessagesAt(x) \in Seq(Msgs)
  <2>1. \A x \in Plains : ~IsBundle(x) /\ <<x.m>> \in Seq(Msgs)
    BY DEF Plains, IsBundle
  <2>2. \A x \in Bundles : IsBundle(x)
    BY DEF Bundles, IsBundle
  <2> QED  BY <1>1, <2>1, <2>2 DEF Nodes
<1>3. [i \in DOMAIN s |-> MessagesAt(s[i])] \in Seq(Seq(Msgs))
  <2> HIDE DEF MessagesAt
  <2>1. \A i \in 1..Len(s) : MessagesAt(s[i]) \in Seq(Msgs)
    BY <1>2
  <2> PICK T : T = Seq(Msgs)
    OBVIOUS
  <2>2. \A i \in 1..Len(s) : MessagesAt(s[i]) \in T
    BY <2>1
  <2>3. [i \in DOMAIN s |-> MessagesAt(s[i])] \in Seq(T)
    BY <2>2
  <2> QED  BY <2>3
<1>4. MainMessages(r) = FlattenSeq([i \in DOMAIN s |-> MessagesAt(s[i])])
  BY DEF MainMessages
<1> HIDE DEF MessagesAt
<1> QED  BY <1>3, <1>4, Flattened

\* Its tail.
Tails == [kind : {"none", "hidden", "public"}, source : Msgs \cup {NoMsg}]

\* The tail of a thread is typed.
LEMMA MainTailType == ASSUME NEW r \in Mains PROVE MainTail(r) \in Tails
<1> PICK i : i = LastAssistant(r)
  OBVIOUS
<1>1. i # 0 => r.nodes[i] \in Bundles
  BY LastBundleAt
<1>2. i # 0 => r.nodes[i].source \in Msgs \cup {NoMsg}
  BY <1>1 DEF Bundles
<1> QED  BY <1>2 DEF MainTail, NoTail, Tails

-----------------------------------------------------------------------------
(* Items, and the replay of items.                                         *)

\* The threads that may own a call.
Threads == {"main", "advisor", "none"}

\* An item that is no reasoning.
PlainItems ==
  [t : {"message"}, role : Roles, id : Int]
    \cup [t : {"call"}, thread : Threads, id : Int]
    \cup [t : {"output"}, thread : Threads, id : Int, out : Int]

\* A state update that holds the whole side state.
Checkpoints ==
  [type : {"checkpoint"}, memory : Int, adv : Seq(AdvMsgs), enabled : BOOLEAN, blocked : BOOLEAN]

\* A step of a list patch: a run that is kept, or a message that is put in.
Cells == [keep : {0}, msg : AdvMsgs] \cup [keep : Nat \ {0}, msg : {NoMsg}]

\* A patch of a list, over its length.
ListPatches ==
  {p \in [type : {"list"}, over : Nat, cells : Seq(Cells)] :
     \A i \in 1..Len(p.cells) : p.cells[i].keep <= p.over}

\* No change, or a new value.
Changes(T) == {NoChange} \cup {To(v) : v \in T}

\* A state update that holds what changed.
StatePatches ==
  [type : {"patch"}, memory : Changes(Int), adv : {NoChange} \cup ListPatches,
   enabled : Changes(BOOLEAN), blocked : Changes(BOOLEAN)]

\* A reasoning item: a link of the chain, its state update and its main update.
ReasoningItems ==
  [t : {"reasoning"}, id : Int, prev : Int, state : Checkpoints \cup StatePatches,
   main : MainUpdates]

\* Whatever a request may bring.
Items == PlainItems \cup ReasoningItems

\* A replay of items, finished or under way.
Replays ==
  [main : Mains, err : Errors, memory : Int, adv : Seq(AdvMsgs), enabled : BOOLEAN,
   blocked : BOOLEAN, calls : Seq(CallRecords), last : Int, ck : BOOLEAN, deferred : BOOLEAN]

\* What a replay, an outcome or a state says of the memory and the advisor.
Side(x) == <<x.memory, x.adv, x.enabled, x.blocked>>

\* Every advisor message has calls.
LEMMA AdvCalls == ASSUME NEW m \in AdvMsgs PROVE m.calls \in Seq(Int)
<1>1. m \in AdvNotes => m.calls = <<>>
  BY DEF AdvNotes
<1>2. m \in AdvTurns => m.calls \in Seq(Int)
  BY DEF AdvTurns
<1>3. m \in AdvOutputs => m.calls = <<>>
  BY DEF AdvOutputs
<1>4. <<>> \in Seq(Int)
  OBVIOUS
<1> QED  BY <1>1, <1>2, <1>3, <1>4 DEF AdvMsgs

\* Refusing changes nothing else.
LEMMA RefuseType ==
  ASSUME NEW r \in Replays, NEW why \in Errors
  PROVE  /\ Raise(r, why) \in Replays /\ Side(Raise(r, why)) = Side(r)
         /\ why # "" => Refusal(Raise(r, why)) # ""
BY DEF Raise, Replays, Side, Refusal

\* The reasons there are.
LEMMA Reasons ==
  /\ "pending_tool_outputs_block_message" \in Errors
  /\ "reasoning_checkpoint_unexpected" \in Errors
  /\ "reasoning_checkpoint_has_predecessor" \in Errors
  /\ "reasoning_checkpoint_required" \in Errors
  /\ "reasoning_previous_reasoning_id_mismatch" \in Errors
  /\ "main_message_patch_target_missing" \in Errors
  /\ "reasoning_thread_patch_invalid" \in Errors
  /\ "inactive_thread_function_call" \in Errors
  /\ "function_call_already_satisfied" \in Errors
  /\ "duplicate_pending_function_call" \in Errors
  /\ "function_call_output_without_pending_function_call" \in Errors
  /\ "function_call_missing_function_call_output" \in Errors
  /\ "reasoning_tool_call_missing_function_call_item" \in Errors
  /\ "reasoning_payload_invalid" \in Errors
BY DEF Errors

\* The calls of the advisor's thread counted again.
LEMMA RebuildType ==
  ASSUME NEW r \in Replays
  PROVE  Rebuild(r) \in Replays /\ Side(Rebuild(r)) = Side(r)
<1> PICK s \in Seq(AdvMsgs) : s = r.adv
  BY DEF Replays
<1>1. [i \in DOMAIN s |-> s[i].calls] \in Seq(Seq(Int))
  <2>1. \A x \in AdvMsgs : x.calls \in Seq(Int)
    BY AdvCalls
  <2> QED  BY <2>1
<1> PICK all \in Seq(Int) : all = FlattenSeq([i \in DOMAIN s |-> s[i].calls])
  <2>1. FlattenSeq([i \in DOMAIN s |-> s[i].calls]) \in Seq(Int)
    BY <1>1, Flattened
  <2> QED  BY <2>1
<1> DEFINE Counts == [i \in DOMAIN all |->
                        CallOf(all[i], i, IF all[i] \in Refs(s) THEN "closed" ELSE "declared")]
<1>2. Counts \in Seq(CallRecords)
  <2>1. \A c, i \in Int, b \in BOOLEAN : CallOf(c, i, IF b THEN "closed" ELSE "declared") \in CallRecords
    BY DEF CallOf, CallRecords
  <2>2. \A i \in 1..Len(all) : all[i] \in Int /\ i \in Int
    OBVIOUS
  <2> DEFINE F(i) == CallOf(all[i], i, IF all[i] \in Refs(s) THEN "closed" ELSE "declared")
  <2>3. ASSUME NEW i \in 1..Len(all) PROVE F(i) \in CallRecords
    <3>1. all[i] \in Int /\ i \in Int
      BY <2>2
    <3>2. F(i) = CallOf(all[i], i, IF TRUE THEN "closed" ELSE "declared")
            \/ F(i) = CallOf(all[i], i, IF FALSE THEN "closed" ELSE "declared")
      OBVIOUS
    <3> HIDE DEF F
    <3> QED  BY <2>1, <3>1, <3>2
  <2>4. Counts = [i \in 1..Len(all) |-> F(i)]
    OBVIOUS
  <2> HIDE DEF F, Counts
  <2> QED  BY <2>3, <2>4
<1> PICK calls \in Seq(CallRecords) : calls = Counts
  BY <1>2
<1>3. Rebuild(r) = IF ~Coherent(r.adv) THEN Raise(r, "pending_tool_outputs_block_message")
                   ELSE [r EXCEPT !.calls = calls]
  BY DEF Rebuild
<1>4. Raise(r, "pending_tool_outputs_block_message") \in Replays
      /\ Side(Raise(r, "pending_tool_outputs_block_message")) = Side(r)
  BY Reasons, RefuseType
<1>5. [r EXCEPT !.calls = calls] \in Replays /\ Side([r EXCEPT !.calls = calls]) = Side(r)
  BY DEF Replays, Side
<1> QED  BY <1>3, <1>4, <1>5

\* Where an element is in a sequence.
LEMMA IndexOf ==
  ASSUME NEW T, NEW s \in Seq(T), NEW x, NEW j, j = IndexIn(s, x)
  PROVE  j \in 0..Len(s) /\ (j # 0 => s[j] = x)
<1> PICK I : I = {i \in 1..Len(s) : s[i] = x}
  OBVIOUS
<1>1. j = IF I # {} THEN Min(I) ELSE 0
  BY DEF IndexIn, SelectInSeq
<1>2. I # {} => Min(I) \in I
  <2>1. I \in SUBSET (1..Len(s)) /\ 1 \in Int /\ Len(s) \in Int
    OBVIOUS
  <2> QED  BY <2>1, Extremes
<1>3. CASE I = {}
  <2>1. j = 0
    BY <1>1, <1>3
  <2> QED  BY <2>1
<1>4. CASE I # {}
  <2>1. j \in I
    BY <1>1, <1>2, <1>4
  <2> QED  BY <2>1
<1> QED  BY <1>3, <1>4

\* A list patch applied to the list it was made against.
LEMMA ListRebuilt ==
  ASSUME NEW old \in Seq(AdvMsgs), NEW now \in Seq(AdvMsgs)
  PROVE  /\ ListDiff(old, now) \in ListPatches
         /\ ListDiff(old, now).over = Len(old)
         /\ ListPatched(old, ListDiff(old, now)) = now
<1> DEFINE At(i) == IndexIn(old, now[i])
           Cell(i) == CellAt(At(i), now[i])
<1> PICK N \in Nat : N = Len(now)
  OBVIOUS
<1>1. ASSUME NEW i \in 1..N PROVE At(i) \in 0..Len(old) /\ (At(i) # 0 => old[At(i)] = now[i])
  BY IndexOf
<1>2. ASSUME NEW i \in 1..N
      PROVE  Cell(i) \in Cells /\ Cell(i).keep \in 0..Len(old)
             /\ (IF Cell(i).keep = 0 THEN Cell(i).msg ELSE old[Cell(i).keep]) = now[i]
  <2> PICK j \in 0..Len(old) : j = At(i) /\ (j # 0 => old[j] = now[i])
    BY <1>1
  <2>1. Cell(i) = [keep |-> j, msg |-> IF j = 0 THEN now[i] ELSE NoMsg] /\ now[i] \in AdvMsgs
    BY DEF CellAt
  <2> HIDE DEF Cell, At
  <2>2. Cell(i) \in Cells
    <3>1. CASE j = 0
      BY <2>1, <3>1 DEF Cells
    <3>2. CASE j # 0
      BY <2>1, <3>2 DEF Cells
    <3> QED  BY <3>1, <3>2
  <2>3. Cell(i).keep = j /\ (j = 0 => Cell(i).msg = now[i])
    BY <2>1
  <2> QED  BY <2>2, <2>3
<1>3. DOMAIN now = 1..N
  OBVIOUS
<1> PICK p : p = ListDiff(old, now)
  OBVIOUS
<1>4. p = [type |-> "list", over |-> Len(old), cells |-> [i \in 1..N |-> Cell(i)]]
  BY <1>3 DEF ListDiff
<1> HIDE DEF Cell, At
<1> PICK cells \in Seq(Cells) : cells = [i \in 1..N |-> Cell(i)]
  <2>1. [i \in 1..N |-> Cell(i)] \in Seq(Cells)
    BY <1>2
  <2> QED  BY <2>1
<1>5. p.cells = cells /\ p.over = Len(old) /\ Len(cells) = N /\ DOMAIN cells = 1..N
      /\ Len(old) \in Nat
  BY <1>4
<1>6. \A i \in 1..N : cells[i] = Cell(i)
  OBVIOUS
<1>7. p \in ListPatches
  <2>1. \A i \in 1..Len(p.cells) : p.cells[i].keep <= p.over
    BY <1>2, <1>5, <1>6
  <2>2. p = [type |-> "list", over |-> Len(old), cells |-> cells]
    BY <1>4
  <2>3. p \in [type : {"list"}, over : Nat, cells : Seq(Cells)]
    BY <1>5, <2>2
  <2> QED  BY <2>1, <2>3 DEF ListPatches
<1>8. ListPatched(old, p) = now
  <2>1. ListPatched(old, p) =
          [i \in 1..N |-> IF cells[i].keep = 0 THEN cells[i].msg ELSE old[cells[i].keep]]
    BY <1>5 DEF ListPatched
  <2>2. \A i \in 1..N : (IF cells[i].keep = 0 THEN cells[i].msg ELSE old[cells[i].keep]) = now[i]
    BY <1>2, <1>6
  <2>3. now = [i \in 1..N |-> now[i]]
    OBVIOUS
  <2> QED  BY <2>1, <2>2, <2>3
<1> QED  BY <1>5, <1>7, <1>8

\* A list patch of any kind leaves a list.
LEMMA ListPatchedType ==
  ASSUME NEW old \in Seq(AdvMsgs), NEW p \in ListPatches, p.over = Len(old)
  PROVE  ListPatched(old, p) \in Seq(AdvMsgs)
<1> PICK cells \in Seq(Cells) : cells = p.cells
  BY DEF ListPatches
<1>1. ASSUME NEW i \in 1..Len(cells)
      PROVE  (IF cells[i].keep = 0 THEN cells[i].msg ELSE old[cells[i].keep]) \in AdvMsgs
  <2>1. cells[i] \in Cells /\ cells[i].keep <= Len(old)
    BY DEF ListPatches
  <2>2. CASE cells[i].keep = 0
    BY <2>1, <2>2 DEF Cells
  <2>3. CASE cells[i].keep # 0
    <3>1. cells[i].keep \in 1..Len(old)
      BY <2>1, <2>3 DEF Cells
    <3> QED  BY <2>3, <3>1
  <2> QED  BY <2>2, <2>3
<1>2. ListPatched(old, p) = [i \in 1..Len(cells) |->
         IF cells[i].keep = 0 THEN cells[i].msg ELSE old[cells[i].keep]]
  BY DEF ListPatched
<1> QED  BY <1>1, <1>2

\* A value and its change.
LEMMA AppliedDelta ==
  ASSUME NEW a, NEW b
  PROVE  Applied(a, Delta(a, b)) = b /\ (Delta(a, b) = NoChange => a = b)
<1>1. To(b) # NoChange /\ To(b).value = b
  <2>1. To(b).type = "to" /\ NoChange.type = "no change"
    BY DEF To, NoChange
  <2> QED  BY <2>1 DEF To
<1> QED  BY <1>1 DEF Applied, Delta

\* Their types.
LEMMA DeltaType == ASSUME NEW T, NEW a \in T, NEW b \in T PROVE Delta(a, b) \in Changes(T)
BY DEF Delta, Changes

\* A change that is applied keeps the type.
LEMMA ChangeTypes == ASSUME NEW T, NEW a \in T, NEW c \in Changes(T) PROVE Applied(a, c) \in T
<1>1. \A v : To(v).value = v
  BY DEF To
<1> QED  BY <1>1 DEF Applied, Delta, Changes

\* A checkpoint taken over.
LEMMA CheckpointApplied ==
  ASSUME NEW r \in Replays, NEW s \in Checkpoints
  PROVE  /\ ApplyCheckpoint(r, s) \in Replays
         /\ Side(ApplyCheckpoint(r, s)) = <<s.memory, s.adv, s.enabled, s.blocked>>
<1> DEFINE q == [r EXCEPT !.memory = s.memory, !.adv = s.adv, !.enabled = s.enabled,
                          !.blocked = s.blocked, !.ck = FALSE]
<1>1. q \in Replays /\ Side(q) = <<s.memory, s.adv, s.enabled, s.blocked>>
  BY DEF Replays, Checkpoints, Side
<1>2. ApplyCheckpoint(r, s) = Rebuild(q)
  BY DEF ApplyCheckpoint
<1> HIDE DEF q
<1> QED  BY <1>1, <1>2, RebuildType

\* The head of a patch.
LEMMA HeadPatchedType ==
  ASSUME NEW r \in Replays, NEW s \in StatePatches
  PROVE  /\ HeadPatched(r, s) \in Replays
         /\ Side(HeadPatched(r, s))
              = <<Applied(r.memory, s.memory), r.adv, Applied(r.enabled, s.enabled),
                  Applied(r.blocked, s.blocked)>>
<1>1. r.memory \in Int /\ s.memory \in Changes(Int) /\ r.enabled \in BOOLEAN
      /\ s.enabled \in Changes(BOOLEAN) /\ r.blocked \in BOOLEAN /\ s.blocked \in Changes(BOOLEAN)
  BY DEF Replays, StatePatches
<1>2. Applied(r.memory, s.memory) \in Int
  BY <1>1, ChangeTypes
<1>3. Applied(r.enabled, s.enabled) \in BOOLEAN
  BY <1>1, ChangeTypes
<1>4. Applied(r.blocked, s.blocked) \in BOOLEAN
  BY <1>1, ChangeTypes
<1> PICK memory \in Int : memory = Applied(r.memory, s.memory)
  BY <1>2
<1> PICK enabled \in BOOLEAN : enabled = Applied(r.enabled, s.enabled)
  BY <1>3
<1> PICK blocked \in BOOLEAN : blocked = Applied(r.blocked, s.blocked)
  BY <1>4
<1>5. HeadPatched(r, s) = [r EXCEPT !.memory = memory, !.enabled = enabled, !.blocked = blocked]
  BY DEF HeadPatched
<1>6. /\ [r EXCEPT !.memory = memory, !.enabled = enabled, !.blocked = blocked] \in Replays
      /\ Side([r EXCEPT !.memory = memory, !.enabled = enabled, !.blocked = blocked])
           = <<memory, r.adv, enabled, blocked>>
  BY DEF Replays, Side
<1> QED  BY <1>5, <1>6

\* A patch applied.
LEMMA PatchApplied ==
  ASSUME NEW r \in Replays, NEW s \in StatePatches
  PROVE  /\ ApplyPatch(r, s) \in Replays
         /\ \/ Refusal(ApplyPatch(r, s)) # "" /\ Side(ApplyPatch(r, s)) = Side(r)
            \/ Side(ApplyPatch(r, s))
                 = <<Applied(r.memory, s.memory),
                     IF s.adv = NoChange THEN r.adv ELSE ListPatched(r.adv, s.adv),
                     Applied(r.enabled, s.enabled), Applied(r.blocked, s.blocked)>>
<1> PICK h \in Replays : h = HeadPatched(r, s)
  BY HeadPatchedType
<1>1. Side(h) = <<Applied(r.memory, s.memory), r.adv, Applied(r.enabled, s.enabled),
                  Applied(r.blocked, s.blocked)>>
  BY HeadPatchedType
<1>2. CASE s.adv = NoChange
  BY <1>1, <1>2 DEF ApplyPatch
<1>3. CASE s.adv # NoChange /\ (s.adv.over # Len(r.adv) \/ ~AllBegun(ListPatched(r.adv, s.adv)))
  <2>1. ApplyPatch(r, s) = Raise(r, "reasoning_thread_patch_invalid")
    BY <1>3 DEF ApplyPatch
  <2>2. "reasoning_thread_patch_invalid" \in Errors
    BY Reasons
  <2>3. /\ Raise(r, "reasoning_thread_patch_invalid") \in Replays
        /\ Side(Raise(r, "reasoning_thread_patch_invalid")) = Side(r)
        /\ Refusal(Raise(r, "reasoning_thread_patch_invalid")) # ""
    BY <2>2, RefuseType
  <2> QED  BY <2>1, <2>3
<1>4. CASE s.adv # NoChange /\ ~(s.adv.over # Len(r.adv) \/ ~AllBegun(ListPatched(r.adv, s.adv)))
  <2> PICK adv \in Seq(AdvMsgs) : adv = ListPatched(r.adv, s.adv)
    <3>1. r.adv \in Seq(AdvMsgs) /\ s.adv \in ListPatches /\ s.adv.over = Len(r.adv)
      BY <1>4 DEF Replays, StatePatches
    <3>2. ListPatched(r.adv, s.adv) \in Seq(AdvMsgs)
      BY <3>1, ListPatchedType
    <3> QED  BY <3>2
  <2>1. h.adv = r.adv
    BY <1>1 DEF Side
  <2>2. ApplyPatch(r, s) = Rebuild([h EXCEPT !.adv = adv])
    BY <1>4, <2>1 DEF ApplyPatch
  <2>3. [h EXCEPT !.adv = adv] \in Replays
        /\ Side([h EXCEPT !.adv = adv]) = <<h.memory, adv, h.enabled, h.blocked>>
    BY DEF Replays, Side
  <2>4. ApplyPatch(r, s) \in Replays
        /\ Side(ApplyPatch(r, s)) = <<h.memory, adv, h.enabled, h.blocked>>
    BY <2>2, <2>3, RebuildType
  <2> QED  BY <1>1, <1>4, <2>4 DEF Side
<1> QED  BY <1>2, <1>3, <1>4

\* What a response starts from.
Bases ==
  [err : Errors, memory : Int, main : Seq(Msgs), adv : Seq(AdvMsgs), enabled : BOOLEAN,
   blocked : BOOLEAN, tail : Tails, last : Int, ck : BOOLEAN]

\* What a response seals of its state.
LEMMA StateUpdateType ==
  ASSUME NEW b \in Bases, NEW now \in States
  PROVE  /\ Checkpoint(now) \in Checkpoints /\ StatePatch(b, now) \in StatePatches
         /\ \A ck \in BOOLEAN : StateUpdate(b, now, ck) \in Checkpoints \cup StatePatches
<1>1. Checkpoint(now) \in Checkpoints
  BY DEF Checkpoint, Checkpoints, States
<1>2. StatePatch(b, now) \in StatePatches
  <2>1. b.memory \in Int /\ now.memory \in Int /\ b.enabled \in BOOLEAN /\ now.enabled \in BOOLEAN
        /\ b.blocked \in BOOLEAN /\ now.blocked \in BOOLEAN
        /\ b.adv \in Seq(AdvMsgs) /\ now.adv \in Seq(AdvMsgs)
    BY DEF Bases, States
  <2>2. Delta(b.memory, now.memory) \in Changes(Int)
    BY <2>1, DeltaType
  <2>3. Delta(b.enabled, now.enabled) \in Changes(BOOLEAN)
    BY <2>1, DeltaType
  <2>4. Delta(b.blocked, now.blocked) \in Changes(BOOLEAN)
    BY <2>1, DeltaType
  <2>5. ListDiff(b.adv, now.adv) \in ListPatches
    BY <2>1, ListRebuilt
  <2> QED  BY <2>2, <2>3, <2>4, <2>5 DEF StatePatch, StatePatches
<1> QED  BY <1>1, <1>2 DEF StateUpdate

\* The replay of the state a response sealed, where the response began.
LEMMA SealedRebuilt ==
  ASSUME NEW b \in Bases, NEW now \in States, NEW r \in Replays, Side(r) = Side(b)
  PROVE  /\ Side(ApplyCheckpoint(r, Checkpoint(now))) = Side(now)
         /\ \/ Side(ApplyPatch(r, StatePatch(b, now))) = Side(now)
            \/ /\ Refusal(ApplyPatch(r, StatePatch(b, now))) # ""
               /\ Side(ApplyPatch(r, StatePatch(b, now))) = Side(r)
<1>1. Side(ApplyCheckpoint(r, Checkpoint(now))) = Side(now)
  <2>1. Checkpoint(now) \in Checkpoints
    BY DEF Checkpoint, Checkpoints, States
  <2> PICK c \in Checkpoints : c = Checkpoint(now)
    BY <2>1
  <2>2. Checkpoint(now) = c
    OBVIOUS
  <2>3. Side(ApplyCheckpoint(r, c)) = <<c.memory, c.adv, c.enabled, c.blocked>>
    BY CheckpointApplied
  <2>4. c.memory = now.memory /\ c.adv = now.adv /\ c.enabled = now.enabled
        /\ c.blocked = now.blocked
    BY DEF Checkpoint
  <2>5. <<c.memory, c.adv, c.enabled, c.blocked>> = Side(now)
    BY <2>4 DEF Side
  <2> QED  BY <2>2, <2>3, <2>5
<1>2. r.memory = b.memory /\ r.adv = b.adv /\ r.enabled = b.enabled /\ r.blocked = b.blocked
  BY DEF Side
<1> PICK s \in StatePatches : s = StatePatch(b, now)
  <2>1. StatePatch(b, now) \in StatePatches
    BY StateUpdateType
  <2> QED  BY <2>1
<1>3. /\ s.memory = Delta(b.memory, now.memory) /\ s.enabled = Delta(b.enabled, now.enabled)
      /\ s.blocked = Delta(b.blocked, now.blocked)
      /\ s.adv = IF b.adv = now.adv THEN NoChange ELSE ListDiff(b.adv, now.adv)
  BY DEF StatePatch
<1>4. Applied(r.memory, s.memory) = now.memory
  BY <1>2, <1>3, AppliedDelta
<1>5. Applied(r.enabled, s.enabled) = now.enabled
  BY <1>2, <1>3, AppliedDelta
<1>6. Applied(r.blocked, s.blocked) = now.blocked
  BY <1>2, <1>3, AppliedDelta
<1>7. (IF s.adv = NoChange THEN r.adv ELSE ListPatched(r.adv, s.adv)) = now.adv
  <2>1. b.adv \in Seq(AdvMsgs) /\ now.adv \in Seq(AdvMsgs)
    BY DEF Bases, States
  <2>2. ListDiff(b.adv, now.adv) # NoChange /\ ListPatched(b.adv, ListDiff(b.adv, now.adv)) = now.adv
    <3>1. ListDiff(b.adv, now.adv) \in ListPatches
      BY <2>1, ListRebuilt
    <3>2. ListDiff(b.adv, now.adv) # NoChange
      <4>1. ListDiff(b.adv, now.adv).type = "list" /\ NoChange.type = "no change"
        BY <3>1 DEF ListPatches, NoChange
      <4> QED  BY <4>1
    <3> QED  BY <2>1, <3>2, ListRebuilt
  <2> QED  BY <1>2, <1>3, <2>2
<1>8. \/ Refusal(ApplyPatch(r, s)) # "" /\ Side(ApplyPatch(r, s)) = Side(r)
      \/ Side(ApplyPatch(r, s)) = Side(now)
  BY <1>4, <1>5, <1>6, <1>7, PatchApplied DEF Side
<1> QED  BY <1>1, <1>8

\* A replay with another main thread and another checkpoint mark.
LEMMA MessagePut ==
  ASSUME NEW r \in Replays, NEW m \in Mains, NEW ck \in BOOLEAN
  PROVE  [r EXCEPT !.ck = ck, !.main = m] \in Replays /\ Side([r EXCEPT !.ck = ck, !.main = m]) = Side(r)
BY DEF Replays, Side

\* A main thread that was refused stays refused when its declared calls are interrupted.
LEMMA InterruptKeeps ==
  ASSUME NEW x \in Mains, x.err # ""
  PROVE  InterruptDeclared(x).err # ""
<1>1. CASE x.pend = NoMsg
  BY <1>1 DEF InterruptDeclared, Mains
<1>2. CASE x.pend # NoMsg
  BY <1>2 DEF InterruptDeclared, Raise
<1> QED  BY <1>1, <1>2

\* A replay with another main thread.
LEMMA MainPut ==
  ASSUME NEW r \in Replays, NEW m \in Mains
  PROVE  /\ [r EXCEPT !.main = m] \in Replays /\ Side([r EXCEPT !.main = m]) = Side(r)
         /\ [r EXCEPT !.main = m].main = m /\ [r EXCEPT !.main = m].err = r.err
         /\ [r EXCEPT !.main = m].calls = r.calls
BY DEF Replays, Side

\* A state taken over from a reasoning item.
LEMMA WithStateType ==
  ASSUME NEW r \in Replays, NEW item \in ReasoningItems
  PROVE  /\ WithState(r, item) \in Replays
         /\ item.state \in Checkpoints =>
              Side(WithState(r, item))
                = <<item.state.memory, item.state.adv, item.state.enabled, item.state.blocked>>
         /\ item.state \in StatePatches => WithState(r, item) = ApplyPatch(r, item.state)
<1> PICK s : s = item.state
  OBVIOUS
<1>1. s \in Checkpoints \/ s \in StatePatches
  BY DEF ReasoningItems
<1>2. CASE s \in Checkpoints
  <2> PICK f \in Replays : f = FreedFor(r, item.main)
    <3>1. InterruptDeclared(r.main) \in Mains
      BY InterruptType DEF Replays
    <3>2. [r EXCEPT !.main = InterruptDeclared(r.main)] \in Replays
      BY <3>1, MainPut
    <3> QED  BY <3>2 DEF FreedFor
  <2>1. [f EXCEPT !.deferred = FALSE] \in Replays
    BY DEF Replays
  <2>2. s.type = "checkpoint" /\ s \notin StatePatches
    BY <1>2 DEF Checkpoints, StatePatches
  <2>3. WithState(r, item) = ApplyCheckpoint([f EXCEPT !.deferred = FALSE], s)
    BY <2>2 DEF WithState
  <2> QED  BY <1>2, <2>1, <2>2, <2>3, CheckpointApplied
<1>3. CASE s \in StatePatches
  <2>1. s.type # "checkpoint" /\ s \notin Checkpoints
    BY <1>3 DEF Checkpoints, StatePatches
  <2>2. WithState(r, item) = ApplyPatch(r, s)
    BY <2>1 DEF WithState
  <2> QED  BY <1>3, <2>1, <2>2, PatchApplied
<1> QED  BY <1>1, <1>2, <1>3

\* The main update of a reasoning item.
LEMMA WithMainType ==
  ASSUME NEW r \in Replays, NEW updates \in MainUpdates
  PROVE  /\ WithMain(r, updates) \in Replays /\ Side(WithMain(r, updates)) = Side(r)
         /\ Refusal(r) # "" => Refusal(WithMain(r, updates)) # ""
<1> PICK m \in Mains : m = ApplyUpdate(r.main, updates)
  <2>1. ApplyUpdate(r.main, updates) \in Mains
    BY ApplyUpdateType DEF Replays
  <2> QED  BY <2>1
<1>1. r.main.err # "" => m.err # ""
  BY DEF ApplyUpdate
<1>2. WithMain(r, updates) = IF r.err # "" THEN r ELSE [r EXCEPT !.main = m]
  BY DEF WithMain
<1>3. /\ [r EXCEPT !.main = m] \in Replays /\ Side([r EXCEPT !.main = m]) = Side(r)
      /\ [r EXCEPT !.main = m].main = m /\ [r EXCEPT !.main = m].err = r.err
  BY MainPut
<1> QED  BY <1>1, <1>2, <1>3 DEF Refusal

\* Why a reasoning item is refused.
LEMMA ReasoningRefusalType ==
  ASSUME NEW r, NEW item PROVE ReasoningRefusal(r, item) \in Errors
BY DEF ReasoningRefusal, BoundaryRefusal, Errors

\* A reasoning item replayed.
LEMMA StepReasoningType ==
  ASSUME NEW r \in Replays, NEW item \in ReasoningItems
  PROVE  /\ StepReasoning(r, item) \in Replays
         /\ \/ Refusal(StepReasoning(r, item)) # "" /\ Side(StepReasoning(r, item)) = Side(r)
            \/ Side(StepReasoning(r, item)) = Side(WithState(r, item))
<1> PICK why \in Errors : why = ReasoningRefusal(r, item)
  BY ReasoningRefusalType
<1>1. CASE why # ""
  <2>1. StepReasoning(r, item) = Raise(r, why)
    BY <1>1 DEF StepReasoning, Authenticated
  <2>2. /\ Raise(r, why) \in Replays /\ Side(Raise(r, why)) = Side(r)
        /\ Refusal(Raise(r, why)) # ""
    BY <1>1, RefuseType
  <2> QED  BY <2>1, <2>2
<1>2. CASE why = ""
  <2> PICK q \in Replays : q = WithState(r, item)
    BY WithStateType
  <2> PICK t \in Replays : t = WithMain(q, item.main) /\ Side(t) = Side(q)
    <3>1. item.main \in MainUpdates
      BY DEF ReasoningItems
    <3> QED  BY <3>1, WithMainType
  <2>1. item.id \in Int
    BY DEF ReasoningItems
  <2>2. StepReasoning(r, item) = [t EXCEPT !.last = item.id]
    BY <1>2 DEF StepReasoning, Authenticated
  <2>3. [t EXCEPT !.last = item.id] \in Replays /\ Side([t EXCEPT !.last = item.id]) = Side(t)
    BY <2>1 DEF Replays, Side
  <2> QED  BY <2>2, <2>3
<1> QED  BY <1>1, <1>2

\* p has taken the advisor's side of now, or has refused it and kept r's.
Takes(p, r, now) == Side(p) = Side(now) \/ (Refusal(p) # "" /\ Side(p) = Side(r))

\* The reasoning item of a response, replayed where the response began.
LEMMA StepSealed ==
  ASSUME NEW b \in Bases, NEW now \in States, NEW ck \in BOOLEAN, NEW r \in Replays,
         Side(r) = Side(b), NEW item \in ReasoningItems, item.state = StateUpdate(b, now, ck)
  PROVE  Takes(StepReasoning(r, item), r, now)
<1> USE DEF Takes
<1>1. CASE ck
  <2>1. item.state = Checkpoint(now) /\ item.state \in Checkpoints
    BY <1>1, StateUpdateType DEF StateUpdate
  <2>2. /\ item.state.memory = now.memory /\ item.state.adv = now.adv
        /\ item.state.enabled = now.enabled /\ item.state.blocked = now.blocked
    BY <2>1 DEF Checkpoint
  <2>3. Side(WithState(r, item)) = Side(now)
    BY <2>1, <2>2, WithStateType DEF Side
  <2> QED  BY <2>3, StepReasoningType
<1>2. CASE ~ck
  <2> PICK q : q = WithState(r, item)
    OBVIOUS
  <2>1. item.state = StatePatch(b, now) /\ item.state \in StatePatches
    BY <1>2, StateUpdateType DEF StateUpdate
  <2>2. q \in Replays /\ q = ApplyPatch(r, item.state)
    BY <2>1, WithStateType
  <2>3. Side(q) = Side(now) \/ (Refusal(q) # "" /\ Side(q) = Side(r))
    <3> PICK s : s = StatePatch(b, now)
      OBVIOUS
    <3>1. \/ Side(ApplyPatch(r, s)) = Side(now)
          \/ /\ Refusal(ApplyPatch(r, s)) # ""
             /\ Side(ApplyPatch(r, s)) = Side(r)
      BY SealedRebuilt
    <3>2. q = ApplyPatch(r, s)
      BY <2>1, <2>2
    <3> QED  BY <3>1, <3>2
  <2>4. CASE Side(q) = Side(now)
    BY <2>4, StepReasoningType
  <2>5. CASE Refusal(q) # "" /\ Side(q) = Side(r)
    <3> PICK why \in Errors : why = ReasoningRefusal(r, item)
      BY ReasoningRefusalType
    <3>1. CASE why # ""
      <4>1. StepReasoning(r, item) = Raise(r, why)
        BY <3>1 DEF StepReasoning, Authenticated
      <4> QED  BY <3>1, <4>1, RefuseType
    <3>2. CASE why = ""
      <4> PICK t \in Replays : t = WithMain(q, item.main) /\ Side(t) = Side(q) /\ Refusal(t) # ""
        <5>1. item.main \in MainUpdates
          BY DEF ReasoningItems
        <5> QED  BY <2>2, <2>5, <5>1, WithMainType
      <4>1. StepReasoning(r, item) = [t EXCEPT !.last = item.id]
        BY <3>2 DEF StepReasoning, Authenticated
      <4>2. /\ Side([t EXCEPT !.last = item.id]) = Side(t)
            /\ Refusal([t EXCEPT !.last = item.id]) = Refusal(t)
        BY DEF Replays, Side, Refusal
      <4> QED  BY <2>5, <4>1, <4>2
    <3> QED  BY <3>1, <3>2
  <2> QED  BY <2>3, <2>4, <2>5
<1> QED  BY <1>1, <1>2

\* q is r with outputs for the advisor.
Extends(r, q) ==
  /\ q.memory = r.memory /\ q.enabled = r.enabled /\ q.blocked = r.blocked
  /\ Len(r.adv) <= Len(q.adv)
  /\ \A i \in 1..Len(r.adv) : q.adv[i] = r.adv[i]
  /\ \A i \in (Len(r.adv) + 1)..Len(q.adv) : IsTool(q.adv[i])

\* So is what says the same.
LEMMA SameExtends ==
  ASSUME NEW r \in Replays, NEW q \in Replays, Side(q) = Side(r) PROVE Extends(r, q)
<1>1. q.memory = r.memory /\ q.enabled = r.enabled /\ q.blocked = r.blocked /\ q.adv = r.adv
  BY DEF Side
<1>2. Len(r.adv) \in Nat
  BY DEF Replays
<1> QED  BY <1>1, <1>2 DEF Extends

\* The messages of other threads end what blocks them.
LEMMA AtBoundaryType ==
  ASSUME NEW r \in Replays, NEW user \in BOOLEAN
  PROVE  AtBoundary(r, user) \in Replays /\ Side(AtBoundary(r, user)) = Side(r)
<1>1. InterruptDeclared(r.main) \in Mains
  BY InterruptType DEF Replays
<1>2. /\ [r EXCEPT !.main = InterruptDeclared(r.main)] \in Replays
      /\ Side([r EXCEPT !.main = InterruptDeclared(r.main)]) = Side(r)
  BY <1>1, MainPut
<1>3. [r EXCEPT !.deferred = TRUE] \in Replays /\ Side([r EXCEPT !.deferred = TRUE]) = Side(r)
  BY DEF Replays, Side
<1> QED  BY <1>2, <1>3 DEF AtBoundary

\* A message.
LEMMA StepMessageType ==
  ASSUME NEW r \in Replays, NEW item \in [t : {"message"}, role : Roles, id : Int]
  PROVE  StepMessage(r, item) \in Replays /\ Side(StepMessage(r, item)) = Side(r)
<1> PICK user \in BOOLEAN : user = (item.role = "user")
  OBVIOUS
<1> PICK q \in Replays : q = AtBoundary(r, user) /\ Side(q) = Side(r)
  BY AtBoundaryType
<1> PICK m \in Msgs : m = MessageOf(item)
  <2>1. MessageOf(item) \in Msgs
    BY DEF MessageOf, Assistant, Note, Msgs
  <2> QED  BY <2>1
<1> PICK main \in Mains : main = AppendMessage(q.main, m)
  <2>1. AppendMessage(q.main, m) \in Mains
    BY AppendMessageType DEF Replays
  <2> QED  BY <2>1
<1> PICK ck \in BOOLEAN : ck = (q.ck \/ user)
  OBVIOUS
<1>1. StepMessage(r, item) = [q EXCEPT !.ck = ck, !.main = main]
  BY DEF StepMessage
<1>2. [q EXCEPT !.ck = ck, !.main = main] \in Replays /\ Side([q EXCEPT !.ck = ck, !.main = main]) = Side(q)
  BY MessagePut
<1> QED  BY <1>1, <1>2

\* A call of the advisor in another phase.
LEMMA SidePhaseType ==
  ASSUME NEW r \in Replays, NEW c, NEW ph \in {"declared", "open", "closed"}
  PROVE  SetSidePhase(r, c, ph) \in Replays /\ Side(SetSidePhase(r, c, ph)) = Side(r)
<1> PICK s \in Seq(CallRecords) : s = r.calls
  BY DEF Replays
<1>1. \A x \in CallRecords : [x EXCEPT !.phase = ph] \in CallRecords
  BY DEF CallRecords
<1>2. [k \in DOMAIN s |-> IF s[k].id = c THEN [s[k] EXCEPT !.phase = ph] ELSE s[k]]
        \in Seq(CallRecords)
  BY <1>1
<1> PICK q \in Seq(CallRecords) :
      q = [k \in DOMAIN s |-> IF s[k].id = c THEN [s[k] EXCEPT !.phase = ph] ELSE s[k]]
  BY <1>2
<1>3. SetSidePhase(r, c, ph) = [r EXCEPT !.calls = q]
  BY DEF SetSidePhase
<1>4. [r EXCEPT !.calls = q] \in Replays /\ Side([r EXCEPT !.calls = q]) = Side(r)
  BY DEF Replays, Side
<1> QED  BY <1>3, <1>4

\* A call.
LEMMA StepCallType ==
  ASSUME NEW r \in Replays, NEW item \in [t : {"call"}, thread : Threads, id : Int]
  PROVE  StepCall(r, item) \in Replays /\ Side(StepCall(r, item)) = Side(r)
<1>1. ASSUME NEW why \in Errors
      PROVE  Raise(r, why) \in Replays /\ Side(Raise(r, why)) = Side(r)
  BY RefuseType
<1>2. /\ "inactive_thread_function_call" \in Errors /\ "function_call_already_satisfied" \in Errors
      /\ "duplicate_pending_function_call" \in Errors
  BY Reasons
<1>3. CASE item.thread = "advisor"
  <2> PICK q \in Replays : q = SetSidePhase(r, item.id, "open") /\ Side(q) = Side(r)
    <3>1. "open" \in {"declared", "open", "closed"}
      OBVIOUS
    <3>2. /\ SetSidePhase(r, item.id, "open") \in Replays
          /\ Side(SetSidePhase(r, item.id, "open")) = Side(r)
      BY <3>1, SidePhaseType
    <3> QED  BY <3>2
  <2>1. \/ StepCall(r, item) = r
        \/ StepCall(r, item) = Raise(r, "inactive_thread_function_call")
        \/ StepCall(r, item) = Raise(r, "function_call_already_satisfied")
        \/ StepCall(r, item) = Raise(r, "duplicate_pending_function_call")
        \/ StepCall(r, item) = q
    BY <1>3 DEF StepCall
  <2> QED  BY <1>1, <1>2, <2>1
<1>4. CASE item.thread # "advisor"
  <2> PICK main \in Mains : main = AddCall(r.main, item.id)
    <3>1. r.main \in Mains /\ item.id \in Int
      BY DEF Replays
    <3>2. AddCall(r.main, item.id) \in Mains
      BY <3>1, AddCallType
    <3> QED  BY <3>2
  <2>1. [r EXCEPT !.main = main] \in Replays /\ Side([r EXCEPT !.main = main]) = Side(r)
    BY MainPut
  <2>2. \/ StepCall(r, item) = Raise(r, "inactive_thread_function_call")
        \/ StepCall(r, item) = [r EXCEPT !.main = main]
    BY <1>4 DEF StepCall
  <2> QED  BY <1>1, <1>2, <2>1, <2>2
<1> QED  BY <1>3, <1>4

\* An output.
LEMMA StepOutputType ==
  ASSUME NEW r \in Replays, NEW item \in [t : {"output"}, thread : Threads, id : Int, out : Int]
  PROVE  StepOutput(r, item) \in Replays /\ Extends(r, StepOutput(r, item))
<1>1. item.id \in Int /\ item.out \in Int /\ r.main \in Mains
  BY DEF Replays
<1>2. CASE item.thread = "advisor"
  <2> PICK q \in Replays : q = SetSidePhase(r, item.id, "closed") /\ Side(q) = Side(r)
    <3>1. "closed" \in {"declared", "open", "closed"}
      OBVIOUS
    <3>2. /\ SetSidePhase(r, item.id, "closed") \in Replays
          /\ Side(SetSidePhase(r, item.id, "closed")) = Side(r)
      BY <3>1, SidePhaseType
    <3> QED  BY <3>2
  <2> PICK out \in AdvOutputs : out = Output(item.id, item.out, {})
    <3>1. {} \in SUBSET Int
      OBVIOUS
    <3>2. Output(item.id, item.out, {}) \in AdvOutputs
      BY <1>1, <3>1, OutputType
    <3> QED  BY <3>2
  <2> PICK s \in Seq(AdvMsgs) : s = r.adv
    BY DEF Replays
  <2>1. q.adv = s /\ q.memory = r.memory /\ q.enabled = r.enabled /\ q.blocked = r.blocked
    BY DEF Side
  <2>2. out \in AdvMsgs /\ IsTool(out)
    BY DEF AdvMsgs, AdvOutputs, IsTool
  <2> PICK t \in Seq(AdvMsgs) : t = Append(s, out)
    <3>1. Append(s, out) \in Seq(AdvMsgs)
      BY <2>2
    <3> QED  BY <3>1
  <2>3. /\ Len(t) = Len(s) + 1 /\ t[Len(s) + 1] = out /\ \A i \in 1..Len(s) : t[i] = s[i]
        /\ Len(s) \in Nat
    BY <2>2
  <2> PICK p \in Replays : p = [q EXCEPT !.adv = t]
    <3>1. [q EXCEPT !.adv = t] \in Replays
      BY DEF Replays
    <3> QED  BY <3>1
  <2>4. p.adv = t /\ p.memory = r.memory /\ p.enabled = r.enabled /\ p.blocked = r.blocked
    BY <2>1 DEF Replays
  <2>5. Extends(r, p)
    <3>1. \A i \in (Len(s) + 1)..Len(t) : i = Len(s) + 1
      BY <2>3
    <3> QED  BY <2>2, <2>3, <2>4, <3>1 DEF Extends
  <2>6. /\ Raise(r, "function_call_output_without_pending_function_call") \in Replays
        /\ Side(Raise(r, "function_call_output_without_pending_function_call")) = Side(r)
    <3>1. "function_call_output_without_pending_function_call" \in Errors
      BY Reasons
    <3> QED  BY <3>1, RefuseType
  <2>7. \/ StepOutput(r, item) = r
        \/ StepOutput(r, item) = Raise(r, "function_call_output_without_pending_function_call")
        \/ StepOutput(r, item) = p
    BY <1>2, <2>1 DEF StepOutput
  <2> QED  BY <2>5, <2>6, <2>7, SameExtends
<1>3. CASE item.thread # "advisor"
  <2> PICK main \in Mains : main = AddOutput(r.main, item.id, item.out)
    <3>1. AddOutput(r.main, item.id, item.out) \in Mains
      BY <1>1, AddOutputType
    <3> QED  BY <3>1
  <2>1. [r EXCEPT !.main = main] \in Replays /\ Side([r EXCEPT !.main = main]) = Side(r)
    BY MainPut
  <2>2. StepOutput(r, item) = [r EXCEPT !.main = main]
    BY <1>3 DEF StepOutput
  <2> QED  BY <2>1, <2>2, SameExtends
<1> QED  BY <1>2, <1>3

\* A refused replay.
Stopped(r) == Refusal(r) # ""

\* Items of other kinds.
LEMMA StepPlain ==
  ASSUME NEW r \in Replays, NEW item \in PlainItems
  PROVE  /\ Step(r, item) \in Replays /\ Extends(r, Step(r, item))
         /\ item.t # "output" => Side(Step(r, item)) = Side(r)
         /\ Refusal(r) # "" => Step(r, item) = r
<1>1. Extends(r, r)
  BY SameExtends
<1>2. CASE Refusal(r) # ""
  BY <1>1, <1>2 DEF Step
<1>3. CASE ~(Refusal(r) # "") /\ item \in [t : {"message"}, role : Roles, id : Int]
  <2>1. Step(r, item) = StepMessage(r, item)
    BY <1>3 DEF Step
  <2> QED  BY <1>3, <2>1, StepMessageType, SameExtends
<1>4. CASE ~(Refusal(r) # "") /\ item \in [t : {"call"}, thread : Threads, id : Int]
  <2>1. Step(r, item) = StepCall(r, item)
    BY <1>4 DEF Step
  <2> QED  BY <1>4, <2>1, StepCallType, SameExtends
<1>5. CASE ~(Refusal(r) # "") /\ item \in [t : {"output"}, thread : Threads, id : Int, out : Int]
  <2>1. Step(r, item) = StepOutput(r, item) /\ item.t = "output"
    BY <1>5 DEF Step
  <2> QED  BY <1>5, <2>1, StepOutputType
<1> QED  BY <1>2, <1>3, <1>4, <1>5 DEF PlainItems

\* Any item.
LEMMA StepType ==
  ASSUME NEW r \in Replays, NEW item \in Items PROVE Step(r, item) \in Replays
<1>1. CASE item \in PlainItems
  BY <1>1, StepPlain
<1>2. CASE item \in ReasoningItems
  <2>1. item.t = "reasoning"
    BY <1>2 DEF ReasoningItems
  <2>2. Step(r, item) = IF Refusal(r) # "" THEN r ELSE StepReasoning(r, item)
    BY <2>1 DEF Step
  <2> QED  BY <1>2, <2>2, StepReasoningType
<1> QED  BY <1>1, <1>2 DEF Items

\* A replay begins with nothing.
LEMMA FreshType == Fresh \in Replays
<1>1. \A T : <<>> \in Seq(T)
  OBVIOUS
<1>2. ASSUME NEW nodes \in Seq(Nodes), NEW err \in Errors
      PROVE  [nodes |-> nodes, auth |-> 0, pend |-> NoMsg, n |-> 1, err |-> err] \in Mains
  BY DEF Mains
<1>3. ASSUME NEW main \in Mains, NEW err \in Errors, NEW adv \in Seq(AdvMsgs),
             NEW calls \in Seq(CallRecords)
      PROVE  [main |-> main, err |-> err, memory |-> 0, adv |-> adv, enabled |-> FALSE,
              blocked |-> FALSE, calls |-> calls, last |-> 0, ck |-> FALSE, deferred |-> FALSE]
               \in Replays
  BY DEF Replays
<1>4. "" \in Errors
  BY DEF Errors
<1>5. FreshMain \in Mains
  <2>1. <<>> \in Seq(Nodes)
    BY <1>1
  <2> QED  BY <1>2, <1>4, <2>1 DEF FreshMain
<1>6. <<>> \in Seq(AdvMsgs)
  BY <1>1
<1>7. <<>> \in Seq(CallRecords)
  BY <1>1
<1> QED  BY <1>3, <1>4, <1>5, <1>6, <1>7 DEF Fresh

\* The replay of items, one after the other.
LEMMA AfterUnroll ==
  ASSUME NEW in \in Seq(Items)
  PROVE  \E f \in [0..Len(in) -> Replays] :
           /\ f[0] = Fresh /\ f[Len(in)] = After(in)
           /\ \A i \in 1..Len(in) : f[i] = Step(f[i - 1], in[i])
<1> PICK N \in Nat : N = Len(in)
  OBVIOUS
<1> DEFINE step == [x \in Replays \X (1..N) |-> Step(x[1], in[x[2]])]
           Is(h) == h = [i \in 0..N |-> IF i = 0 THEN Fresh ELSE Step(h[i - 1], in[i])]
<1>1. \A q \in Replays, i \in 1..N : Step(q, in[i]) \in Replays
  <2>1. \A i \in 1..N : in[i] \in Items
    OBVIOUS
  <2> QED  BY <2>1, StepType
<1>2. step \in [Replays \X (1..N) -> Replays]
  BY <1>1
<1>3. \A q \in Replays, i \in 1..N : step[<<q, i>>] = Step(q, in[i])
  OBVIOUS
<1> HIDE DEF step
<1>4. PICK g : Unrolls(g, Replays, Fresh, N, step)
  BY <1>2, FreshType, Recursion
<1>5. Is(g)
  <2>1. ASSUME NEW i \in 1..N PROVE g[i] = Step(g[i - 1], in[i])
    <3>1. i - 1 \in 0..N
      OBVIOUS
    <3> QED  BY <3>1, <1>4, <1>3 DEF Unrolls
  <2>2. g = [i \in 0..N |-> g[i]] /\ g[0] = Fresh
    BY <1>4 DEF Unrolls
  <2>3. \A i \in 0..N : g[i] = IF i = 0 THEN Fresh ELSE Step(g[i - 1], in[i])
    BY <2>1, <2>2
  <2> QED  BY <2>2, <2>3
<1>6. PICK h : h = CHOOSE f : Is(f)
  OBVIOUS
<1>7. Is(h)
  <2> HIDE DEF Is
  <2> QED  BY <1>5, <1>6
<1>8. h[N] = After(in)
  BY <1>6 DEF After
<1>9. ASSUME NEW i \in 1..N PROVE h[i] = Step(h[i - 1], in[i])
  <2>1. i \in 0..N /\ i # 0
    OBVIOUS
  <2> QED  BY <1>7, <2>1
<1>10. h[0] = Fresh /\ h = [i \in 0..N |-> h[i]]
  BY <1>7
<1>11. Unrolls(h, Replays, Fresh, N, step)
  <2> HIDE DEF Is
  <2>1. \A i \in 1..N : h[i - 1] \in Replays => h[i] = step[<<h[i - 1], i>>]
    BY <1>3, <1>9
  <2> QED  BY <1>2, <1>10, <2>1, FreshType, RecursionStays
<1> QED  BY <1>8, <1>9, <1>11 DEF Unrolls


\* One item more.
LEMMA AfterAppend ==
  ASSUME NEW in \in Seq(Items), NEW x \in Items
  PROVE  After(in) \in Replays /\ After(Append(in, x)) = Step(After(in), x)
<1> PICK N \in Nat : N = Len(in)
  OBVIOUS
<1> PICK more \in Seq(Items) : more = Append(in, x)
  <2>1. Append(in, x) \in Seq(Items)
    OBVIOUS
  <2> QED  BY <2>1
<1>1. Len(more) = N + 1 /\ more[N + 1] = x /\ \A i \in 1..N : more[i] = in[i]
  OBVIOUS
<1> PICK f \in [0..N -> Replays] :
      f[0] = Fresh /\ f[N] = After(in) /\ \A i \in 1..N : f[i] = Step(f[i - 1], in[i])
  BY AfterUnroll
<1> PICK M \in Nat : M = Len(more)
  OBVIOUS
<1> PICK g \in [0..M -> Replays] :
      /\ g[0] = Fresh /\ g[M] = After(more)
      /\ \A i \in 1..M : g[i] = Step(g[i - 1], more[i])
  BY AfterUnroll
<1> M = N + 1
  BY <1>1
<1> DEFINE Good == {i \in 0..N : g[i] = f[i]}
<1>2. ASSUME NEW n \in 0..(N - 1), n \in Good PROVE n + 1 \in Good
  <2>1. n + 1 \in 1..N /\ n + 1 \in 1..(N + 1) /\ (n + 1) - 1 = n
    OBVIOUS
  <2>0. n + 1 \in 1..M
    BY <2>1
  <2>2. g[n + 1] = Step(g[n], more[n + 1]) /\ f[n + 1] = Step(f[n], in[n + 1])
    BY <2>0, <2>1
  <2>3. g[n] = f[n] /\ more[n + 1] = in[n + 1]
    BY <1>1, <1>2, <2>1
  <2> QED  BY <2>1, <2>2, <2>3
<1>3. 0 \in Good
  OBVIOUS
<1>4. N \in Good
  <2> HIDE DEF Good
  <2>1. Inductive(Good, N)
    BY <1>2, <1>3 DEF Inductive
  <2> QED  BY <2>1, UptoInduction
<1>5. g[M] = Step(g[N], more[M])
  <2>1. M \in 1..M /\ M - 1 = N
    OBVIOUS
  <2> QED  BY <2>1
<1>6. After(in) = f[N] /\ f[N] \in Replays
  OBVIOUS
<1> QED  BY <1>1, <1>4, <1>5, <1>6

\* Outputs after outputs.
LEMMA ExtendsOn ==
  ASSUME NEW a \in Replays, NEW b \in Replays, NEW c \in Replays, Extends(a, b), Extends(b, c)
  PROVE  Extends(a, c)
<1> PICK k \in Nat, l \in Nat, m \in Nat : k = Len(a.adv) /\ l = Len(b.adv) /\ m = Len(c.adv)
  BY DEF Replays
<1>1. k <= l /\ l <= m
  BY DEF Extends
<1>2. ASSUME NEW i \in 1..k PROVE c.adv[i] = a.adv[i]
  <2>1. i \in 1..l
    BY <1>1
  <2> QED  BY <2>1 DEF Extends
<1>3. ASSUME NEW i \in (k + 1)..m PROVE IsTool(c.adv[i])
  <2>1. CASE i <= l
    <3>1. i \in (k + 1)..l /\ i \in 1..l
      BY <2>1
    <3> QED  BY <3>1 DEF Extends
  <2>2. CASE i > l
    <3>1. i \in (l + 1)..m
      BY <2>2
    <3> QED  BY <3>1 DEF Extends
  <2> QED  BY <2>1, <2>2
<1>4. c.memory = a.memory /\ c.enabled = a.enabled /\ c.blocked = a.blocked /\ k <= m
  BY <1>1 DEF Extends
<1> QED  BY <1>2, <1>3, <1>4 DEF Extends

\* One element more of a sequence, after another.
LEMMA OneMore ==
  ASSUME NEW T, NEW a \in Seq(T), NEW b \in Seq(T), NEW n \in 0..(Len(b) - 1)
  PROVE  /\ a \o SubSeq(b, 1, n) \in Seq(T) /\ b[n + 1] \in T
         /\ a \o SubSeq(b, 1, n + 1) = Append(a \o SubSeq(b, 1, n), b[n + 1])
<1> PICK s \in Seq(T) : s = SubSeq(b, 1, n)
  <2>1. 1 \in Int /\ n \in Int /\ 1 <= 1 /\ n <= Len(b)
    OBVIOUS
  <2>2. SubSeq(b, 1, n) \in Seq(T)
    BY <2>1, Part
  <2> QED  BY <2>2
<1> PICK t \in Seq(T) : t = SubSeq(b, 1, n + 1)
  <2>1. 1 \in Int /\ n + 1 \in Int /\ 1 <= 1 /\ n + 1 <= Len(b)
    OBVIOUS
  <2>2. SubSeq(b, 1, n + 1) \in Seq(T)
    BY <2>1, Part
  <2> QED  BY <2>2
<1>1. Len(s) = n /\ \A i \in 1..n : s[i] = b[i]
  OBVIOUS
<1>2. Len(t) = n + 1 /\ \A i \in 1..(n + 1) : t[i] = b[i]
  OBVIOUS
<1>3. b[n + 1] \in T
  OBVIOUS
<1> PICK x \in T : x = b[n + 1]
  BY <1>3
<1>4. t = Append(s, x)
  <2> PICK u \in Seq(T) : u = Append(s, x)
    <3>1. Append(s, x) \in Seq(T)
      OBVIOUS
    <3> QED  BY <3>1
  <2>1. Len(u) = n + 1 /\ \A i \in 1..(n + 1) : u[i] = IF i = n + 1 THEN x ELSE s[i]
    BY <1>1
  <2>2. \A i \in 1..(n + 1) : u[i] = t[i]
    BY <1>1, <1>2, <2>1
  <2>3. u = t
    BY <1>2, <2>1, <2>2
  <2> QED  BY <2>3
<1>5. a \o Append(s, x) = Append(a \o s, x)
  <2>1. Append(s, x) = s \o <<x>> /\ Append(a \o s, x) = (a \o s) \o <<x>> /\ <<x>> \in Seq(T)
    <3>1. Append(s, x) = s \o <<x>> /\ <<x>> \in Seq(T)
      BY AppendIsConcat
    <3>2. a \o s \in Seq(T)
      OBVIOUS
    <3>3. Append(a \o s, x) = (a \o s) \o <<x>>
      BY <3>2, AppendIsConcat
    <3> QED  BY <3>1, <3>3
  <2>2. a \o (s \o <<x>>) = (a \o s) \o <<x>>
    BY <2>1, ConcatAssociative
  <2> QED  BY <2>1, <2>2
<1>6. a \o s \in Seq(T)
  OBVIOUS
<1> QED  BY <1>3, <1>4, <1>5, <1>6

\* Items of other kinds, one after the other.
LEMMA AfterPlain ==
  ASSUME NEW in \in Seq(Items), NEW new \in Seq(PlainItems)
  PROVE  /\ in \o new \in Seq(Items) /\ After(in \o new) \in Replays
         /\ Extends(After(in), After(in \o new))
         /\ (\A i \in 1..Len(new) : new[i].t # "output") => Side(After(in \o new)) = Side(After(in))
         /\ Stopped(After(in)) => After(in \o new) = After(in)
<1> PICK N \in Nat : N = Len(new)
  OBVIOUS
<1>1. new \in Seq(Items)
  BY DEF Items
<1> DEFINE At(i) == After(in \o SubSeq(new, 1, i))
           Quiet(i) == \A k \in 1..i : new[k].t # "output"
           Fits(i) == /\ At(i) \in Replays /\ Extends(After(in), At(i))
                      /\ Quiet(i) => Side(At(i)) = Side(After(in))
                      /\ Stopped(After(in)) => At(i) = After(in)
           Good == {i \in 0..N : Fits(i)}
<1>2. After(in) \in Replays
  <2>1. \A x \in Items : After(in) \in Replays
    BY AfterAppend
  <2>2. MsgItem("user", 0) \in Items
    BY DEF MsgItem, Items, PlainItems, Roles
  <2> QED  BY <2>1, <2>2
<1>3. 0 \in Good
  <2>1. SubSeq(new, 1, 0) = <<>>
    OBVIOUS
  <2>2. in \o <<>> = in
    OBVIOUS
  <2>3. At(0) = After(in)
    BY <2>1, <2>2
  <2> HIDE DEF At
  <2>4. Fits(0)
    BY <1>2, <2>3, SameExtends
  <2> HIDE DEF Fits
  <2> QED  BY <2>4
<1>4. ASSUME NEW n \in 0..(N - 1), n \in Good PROVE n + 1 \in Good
  <2>1. /\ in \o SubSeq(new, 1, n) \in Seq(Items)
        /\ in \o SubSeq(new, 1, n + 1) = Append(in \o SubSeq(new, 1, n), new[n + 1])
    BY <1>1, OneMore
  <2>2. new[n + 1] \in PlainItems /\ new[n + 1] \in Items /\ n + 1 \in 0..N
    BY <1>1
  <2>3. At(n + 1) = Step(At(n), new[n + 1])
    <3> PICK q \in Seq(Items) : q = in \o SubSeq(new, 1, n)
      BY <2>1
    <3> PICK x \in Items : x = new[n + 1]
      BY <2>2
    <3>1. After(Append(q, x)) = Step(After(q), x)
      BY AfterAppend
    <3> QED  BY <2>1, <3>1
  <2> HIDE DEF At
  <2>4. /\ At(n) \in Replays /\ Extends(After(in), At(n))
        /\ Quiet(n) => Side(At(n)) = Side(After(in))
        /\ Stopped(After(in)) => At(n) = After(in)
    BY <1>4
  <2>5. /\ At(n + 1) \in Replays /\ Extends(At(n), At(n + 1))
        /\ new[n + 1].t # "output" => Side(At(n + 1)) = Side(At(n))
        /\ Stopped(At(n)) => At(n + 1) = At(n)
    BY <2>2, <2>3, <2>4, StepPlain DEF Stopped
  <2>6. Extends(After(in), At(n + 1))
    BY <1>2, <2>4, <2>5, ExtendsOn
  <2>7. Quiet(n + 1) => Quiet(n) /\ new[n + 1].t # "output"
    <3>1. 1..n \subseteq 1..(n + 1) /\ n + 1 \in 1..(n + 1)
      OBVIOUS
    <3> QED  BY <3>1
  <2>8. Quiet(n + 1) => Side(At(n + 1)) = Side(After(in))
    BY <2>4, <2>5, <2>7
  <2> HIDE DEF Quiet
  <2>9. Stopped(After(in)) => At(n + 1) = After(in)
    BY <2>4, <2>5
  <2>10. Fits(n + 1)
    BY <2>5, <2>6, <2>8, <2>9
  <2> HIDE DEF Fits
  <2> QED  BY <2>2, <2>10
<1>5. N \in Good
  <2> HIDE DEF Good
  <2>1. Inductive(Good, N)
    BY <1>3, <1>4 DEF Inductive
  <2> QED  BY <2>1, UptoInduction
<1>6. SubSeq(new, 1, N) = new
  OBVIOUS
<1>7. At(N) = After(in \o new)
  BY <1>6
<1>8. Fits(N)
  <2> HIDE DEF Fits
  <2> QED  BY <1>5
<1>9. in \o new \in Seq(Items)
  BY <1>1, Longer
<1> HIDE DEF At
<1> QED  BY <1>7, <1>8, <1>9

\* What is not refused has been replayed item by item, and finishing changes nothing
\* of the advisor.
LEMMA OutcomeType ==
  ASSUME NEW in \in Seq(Items)
  PROVE  /\ After(in) \in Replays
         /\ Ingested(in) \in Bases
         /\ \/ Side(Ingested(in)) = Side(After(in))
            \/ Side(Ingested(in)) = Side(Fresh)
         /\ (\A i \in DOMAIN in : Readable(in[i])) => Side(Ingested(in)) = Side(After(in))
         /\ Ingested(in).err = "" =>
              /\ \A i \in DOMAIN in : Readable(in[i])
              /\ Refusal(After(in)) = "" /\ Side(Ingested(in)) = Side(After(in))
<1>1. After(in) \in Replays
  <2>1. in \o <<>> = in /\ <<>> \in Seq(PlainItems)
    OBVIOUS
  <2>2. After(in \o <<>>) \in Replays
    BY <2>1, AfterPlain
  <2> QED  BY <2>1, <2>2
<1> DEFINE all == \A i \in DOMAIN in : Readable(in[i])
<1> PICK r \in Replays : r = Replay(in) /\ (all => r = After(in))
                         /\ (~all => Side(r) = Side(Fresh) /\ Refusal(r) # "")
  <2>1. "reasoning_payload_invalid" \in Errors
    BY Reasons
  <2>2. /\ Raise(Fresh, "reasoning_payload_invalid") \in Replays
        /\ Side(Raise(Fresh, "reasoning_payload_invalid")) = Side(Fresh)
        /\ Refusal(Raise(Fresh, "reasoning_payload_invalid")) # ""
    BY <2>1, FreshType, RefuseType
  <2>3. Replay(in) = IF all THEN After(in) ELSE Raise(Fresh, "reasoning_payload_invalid")
    BY DEF Replay
  <2> HIDE DEF all
  <2> QED  BY <1>1, <2>2, <2>3
<1> PICK d \in Replays :
      /\ d = IF r.deferred THEN [r EXCEPT !.main = InterruptDeclared(@), !.deferred = FALSE] ELSE r
      /\ Side(d) = Side(r) /\ d.err = r.err
      /\ r.main.err # "" => d.main.err # ""
  <2>1. PICK m \in Mains : m = InterruptDeclared(r.main)
    <3>1. InterruptDeclared(r.main) \in Mains
      BY InterruptType DEF Replays
    <3> QED  BY <3>1
  <2>2. r.main.err # "" => m.err # ""
    BY <2>1, InterruptKeeps DEF Replays
  <2>3. /\ [r EXCEPT !.main = m, !.deferred = FALSE] \in Replays
        /\ Side([r EXCEPT !.main = m, !.deferred = FALSE]) = Side(r)
        /\ [r EXCEPT !.main = m, !.deferred = FALSE].err = r.err
        /\ [r EXCEPT !.main = m, !.deferred = FALSE].main = m
    BY DEF Replays, Side
  <2> QED  BY <2>1, <2>2, <2>3
<1> PICK q \in Replays : q = Finished(d) /\ Side(q) = Side(r) /\ (Refusal(r) # "" => Refusal(q) # "")
  <2>1. ASSUME NEW why \in Errors PROVE Raise(d, why) \in Replays /\ Side(Raise(d, why)) = Side(d)
    BY RefuseType
  <2>2. Refusal(r) # "" => Refusal(d) # ""
    BY DEF Refusal
  <2>3. /\ "main_message_patch_target_missing" \in Errors
        /\ "function_call_missing_function_call_output" \in Errors
        /\ "reasoning_tool_call_missing_function_call_item" \in Errors
    BY Reasons
  <2>4. Refusal(d) # "" => Finished(d) = d
    BY DEF Finished
  <2>5. \/ Finished(d) = d
        \/ Finished(d) = Raise(d, "main_message_patch_target_missing")
        \/ Finished(d) = Raise(d, "function_call_missing_function_call_output")
        \/ Finished(d) = Raise(d, "reasoning_tool_call_missing_function_call_item")
    BY DEF Finished
  <2>6. Finished(d) \in Replays /\ Side(Finished(d)) = Side(d)
    BY <2>1, <2>3, <2>5
  <2> QED  BY <2>2, <2>4, <2>6
<1>2. Ingested(in) = Outcome(q)
  BY DEF Ingested, Finish
<1>3. Outcome(q) \in Bases
  <2>1. MainMessages(q.main) \in Seq(Msgs) /\ MainTail(q.main) \in Tails
    BY MainMessagesType, MainTailType DEF Replays
  <2>2. Refusal(q) \in Errors
    BY DEF Refusal, Replays, Mains
  <2> QED  BY <2>1, <2>2 DEF Outcome, Replays, Bases
<1>4. Side(Outcome(q)) = Side(q) /\ Outcome(q).err = Refusal(q)
  BY DEF Outcome, Side
<1>5. Ingested(in) \in Bases /\ Side(Ingested(in)) = Side(r) /\ (Ingested(in).err = "" => Refusal(r) = "")
  BY <1>2, <1>3, <1>4
<1>6. all \/ ~all
  OBVIOUS
<1> HIDE DEF all
<1>7. Side(Ingested(in)) = Side(After(in)) \/ Side(Ingested(in)) = Side(Fresh)
  BY <1>5, <1>6
<1>8. Ingested(in).err = "" =>
        all /\ Refusal(After(in)) = "" /\ Side(Ingested(in)) = Side(After(in))
  BY <1>5, <1>6
<1>9. all => Side(Ingested(in)) = Side(After(in))
  BY <1>5
<1> QED  BY <1>1, <1>5, <1>7, <1>8, <1>9 DEF all
=============================================================================
