------------------------- MODULE ResponseRunProofs -------------------------
(***************************************************************************)
(* The properties of a stored response's run, for any number of attempts,  *)
(* turns, deltas and texts, buffers of any capacity, any flush limit and   *)
(* any number of failing writes: two tasks write one response's items and  *)
(* one feed, and every step of either keeps them in agreement.             *)
(***************************************************************************)
EXTENDS ResponseRun, NumberLemmas, SequenceTheorems

-----------------------------------------------------------------------------
(* The inductive invariant.                                                *)

Live == InTurn \cup {"leaving", "committing", "sealing", "emitting", "saving", "dropping"}

\* No child outlives the task group it was started in.
ChildrenEnd == exec \notin InTurn \cup {"leaving"} => ChildrenOver

\* A part is flushed before it holds more than the limit.
FlushDue ==
    /\ summary \in {"receiving", "beginning"} => accumulated < FlushAt
    /\ exec \in {"accepting", "starting"} => accumulated = 0 /\ ~openPart

\* An exception other than the budget's leads to no commit.
CommitsWithoutError ==
    exec \in {"accepting", "starting", "committing", "sealing", "emitting"} =>
        cause \in {"none", "budget"}

\* Where there is a draft, and that it is the item State remembers.
DraftFits ==
    /\ draft.at = 0 => draft = NoDraft
    /\ draft.at <= Len(output)
    /\ exec \notin {"ending", "over"} => draft.at = reasoningId
    /\ exec \in {"accepting", "starting", "emitting", "ending"} => draft.at = 0
    /\ exec \in {"sealing", "dropping"} => draft.at # 0

\* What default_summary knows of the draft.
SummaryFits ==
    /\ summary = "beginning" => draft.at = 0
    /\ summary = "receiving" /\ openPart => draft.pending
    /\ summary = "flushing" => draft.at # 0

\* The event the draft makes the client wait for.
Shown(d) == IF d.at = 0 THEN "live" ELSE IF d.pending THEN "part" ELSE "item"

FeedFits ==
    /\ exec = "accepting" => feed.at = "new"
    /\ exec = "starting" => feed.at = "created"
    /\ exec \in Live => feed.at = Shown(draft)
    /\ exec = "ending" => feed.at = "live" \/ (cause = "cancel" /\ feed.at \in {"item", "part"})
    /\ FeedWellFormed

\* Memory and store differ in the draft's item at most, and no other item is in
\* progress unless the response is being cancelled.
ItemsFit ==
    /\ Len(storedOutput) = Len(output)
    /\ \A i \in 1..Len(output) : i # draft.at => storedOutput[i] = output[i]
    /\ \A i \in 1..Len(output) :
          storedOutput[i].status = "in_progress" =>
              i = draft.at \/ (cause = "cancel" /\ exec \in {"ending", "over"})

\* The items in memory hold the parts that the feed has shown.
PartsFit ==
    /\ draft.at # 0 => output[draft.at].parts = draft.parts
    /\ feed.parts = PartsOf(output)

\* A terminal status is the last thing written, and after the draft was dropped.
EndedOnce ==
    stored \in Terminal =>
        exec = "over" /\ draft.at = 0 /\ (cause = "cancel" => stored = "cancelled")

RunInv ==
    /\ TypeOK /\ ChildrenEnd /\ FlushDue /\ CommitsWithoutError /\ DraftFits /\ SummaryFits
    /\ FeedFits /\ ItemsFit /\ PartsFit /\ EndedOnce

-----------------------------------------------------------------------------
(* The feed.                                                               *)

\* A feed after the events up to the n-th.
ReadsTo(after, f, events) ==
    /\ after \in [0..Len(events) -> Feeds]
    /\ \A n \in 0..Len(events) : after[n] = IF n = 0 THEN f ELSE After(after[n - 1], events[n])

\* The events.
Names == {"created", "in_progress", "item.added", "part.added", "text.delta", "part.done",
          "item.done", "terminal", "cancelled"}

\* The events that the stream sends.
LEMMA EventNames ==
    /\ "created" \in Names /\ "in_progress" \in Names /\ "item.added" \in Names
    /\ "part.added" \in Names /\ "text.delta" \in Names /\ "part.done" \in Names
    /\ "item.done" \in Names /\ "terminal" \in Names /\ "cancelled" \in Names
BY DEF Names

\* A client's reading of the feed stays a reading, whatever comes next.
LEMMA AfterType ==
    ASSUME NEW f \in Feeds, NEW e
    PROVE  After(f, e) \in Feeds
<1>1. \A s \in {"new", "created", "live", "item", "part", "over", "broken"} : At(s, f) \in Feeds
  BY DEF At, Feeds
<1>2. [at |-> "item", parts |-> f.parts + 1] \in Feeds
  BY DEF Feeds
<1> QED  BY <1>1, <1>2 DEF After

\* What the events of the two tasks make of a feed that waits for them.
LEMMA AfterEvents ==
    ASSUME NEW n \in Nat
    PROVE  /\ After([at |-> "new", parts |-> n], "created") = [at |-> "created", parts |-> n]
           /\ After([at |-> "created", parts |-> n], "in_progress") = [at |-> "live", parts |-> n]
           /\ After([at |-> "live", parts |-> n], "item.added") = [at |-> "item", parts |-> n]
           /\ After([at |-> "item", parts |-> n], "part.added") = [at |-> "part", parts |-> n]
           /\ After([at |-> "part", parts |-> n], "text.delta") = [at |-> "part", parts |-> n]
           /\ After([at |-> "part", parts |-> n], "part.done") = [at |-> "item", parts |-> n + 1]
           /\ After([at |-> "item", parts |-> n], "item.done") = [at |-> "live", parts |-> n]
           /\ After([at |-> "live", parts |-> n], "terminal") = [at |-> "over", parts |-> n]
           /\ \A a \in {"live", "item", "part"} :
                 After([at |-> a, parts |-> n], "cancelled") = [at |-> "over", parts |-> n]
BY DEF After, At

\* A feed is its two fields.
LEMMA FeedFields ==
    ASSUME NEW f \in Feeds
    PROVE  f = [at |-> f.at, parts |-> f.parts] /\ f.parts \in Nat
BY DEF Feeds

\* The recursion of Read has a solution: that of fewer events is extended.
LEMMA ReadsExist ==
    ASSUME NEW f \in Feeds, NEW S, NEW events \in Seq(S)
    PROVE  \E after : ReadsTo(after, f, events)
<1> DEFINE Upto(a, k) == \A n \in 0..k : a[n] = IF n = 0 THEN f ELSE After(a[n - 1], events[n])
           Good == {k \in 0..Len(events) : \E a \in [0..k -> Feeds] : Upto(a, k)}
<1>1. 0 \in Good
  <2> DEFINE a == [n \in 0..0 |-> f]
  <2>1. a \in [0..0 -> Feeds] /\ Upto(a, 0)
    OBVIOUS
  <2> HIDE DEF a, Upto
  <2> QED  BY <2>1
<1>2. ASSUME NEW k \in 0..(Len(events) - 1), k \in Good PROVE k + 1 \in Good
  <2>1. PICK a \in [0..k -> Feeds] : Upto(a, k)
    BY <1>2
  <2> DEFINE b == [n \in 0..(k + 1) |-> IF n = k + 1 THEN After(a[k], events[k + 1]) ELSE a[n]]
  <2>2. After(a[k], events[k + 1]) \in Feeds
    BY <2>1, AfterType
  <2>3. b \in [0..(k + 1) -> Feeds]
    BY <2>1, <2>2
  <2>4. Upto(b, k + 1)
    BY <2>1
  <2> HIDE DEF b, Upto
  <2> QED  BY <2>3, <2>4
<1>3. Len(events) \in Good
  <2> HIDE DEF Good
  <2>1. Inductive(Good, Len(events))
    BY <1>1, <1>2 DEF Inductive
  <2> QED  BY <2>1, UptoInduction
<1> QED  BY <1>3 DEF ReadsTo

\* Read is the last of its feeds.
LEMMA ReadUnrolls ==
    ASSUME NEW f \in Feeds, NEW S, NEW events \in Seq(S)
    PROVE  \E after : ReadsTo(after, f, events) /\ Read(f, events) = after[Len(events)]
<1> DEFINE Fits(a) == a = [n \in 0..Len(events) |-> IF n = 0 THEN f ELSE After(a[n - 1], events[n])]
           after == CHOOSE a : Fits(a)
<1>1. PICK a : ReadsTo(a, f, events)
  BY ReadsExist
<1>2. Fits(a)
  BY <1>1 DEF ReadsTo
<1>3. Fits(after)
  <2> HIDE DEF Fits
  <2> QED  BY <1>2
<1>4. ReadsTo(after, f, events)
  <2> HIDE DEF after
  <2>1. /\ DOMAIN after = 0..Len(events)
        /\ \A n \in 0..Len(events) : after[n] = IF n = 0 THEN f ELSE After(after[n - 1], events[n])
    BY <1>3
  <2> DEFINE Good == {k \in 0..Len(events) : after[k] \in Feeds}
  <2>2. ASSUME NEW n \in 0..(Len(events) - 1), after[n] \in Feeds PROVE after[n + 1] \in Feeds
    <3>1. after[n + 1] = After(after[n], events[n + 1])
      BY <2>1
    <3> QED  BY <2>2, <3>1, AfterType
  <2>3. Inductive(Good, Len(events))
    BY <2>1, <2>2 DEF Inductive
  <2>4. \A n \in 0..Len(events) : n \in Good
    <3> HIDE DEF Good
    <3> QED  BY <2>3, UptoInduction
  <2>5. after = [n \in 0..Len(events) |-> after[n]]
    BY <1>3
  <2> QED  BY <2>1, <2>4, <2>5 DEF ReadsTo
<1>5. Read(f, events) = after[Len(events)]
  BY DEF Read
<1> QED  BY <1>4, <1>5

\* A feed stays one, whatever is published.
LEMMA ReadType ==
    ASSUME NEW f \in Feeds, NEW S, NEW events \in Seq(S)
    PROVE  Read(f, events) \in Feeds
BY ReadUnrolls DEF ReadsTo

\* Events are read one after the other.
LEMMA ReadAppend ==
    ASSUME NEW f \in Feeds, NEW S, NEW events \in Seq(S), NEW e \in S
    PROVE  Read(f, Append(events, e)) = After(Read(f, events), e)
<1> DEFINE more == Append(events, e)
<1>1. more \in Seq(S) /\ Len(more) = Len(events) + 1 /\ more[Len(events) + 1] = e
  OBVIOUS
<1>2. \A i \in 1..Len(events) : more[i] = events[i]
  OBVIOUS
<1> HIDE DEF more
<1>3. PICK a : ReadsTo(a, f, events) /\ Read(f, events) = a[Len(events)]
  BY ReadUnrolls
<1>4. PICK b : ReadsTo(b, f, more) /\ Read(f, more) = b[Len(more)]
  BY <1>1, ReadUnrolls
<1> DEFINE Good == {n \in 0..Len(events) : b[n] = a[n]}
<1>5. Inductive(Good, Len(events))
  <2>1. 0 \in Good
    BY <1>1, <1>3, <1>4 DEF ReadsTo
  <2>2. ASSUME NEW n \in 0..(Len(events) - 1), n \in Good PROVE n + 1 \in Good
    <3>1. n + 1 \in 1..Len(events) /\ n + 1 \in 0..Len(more) /\ n + 1 \in 0..Len(events)
      BY <1>1
    <3>2. a[n + 1] = After(a[n], events[n + 1])
      BY <1>3, <3>1 DEF ReadsTo
    <3>3. b[n + 1] = After(b[n], more[n + 1])
      BY <1>4, <3>1 DEF ReadsTo
    <3> QED  BY <1>2, <2>2, <3>1, <3>2, <3>3
  <2> HIDE DEF Good
  <2> QED  BY <2>1, <2>2 DEF Inductive
<1>6. b[Len(events)] = a[Len(events)]
  <2> HIDE DEF Good
  <2>1. Len(events) \in Good
    BY <1>5, UptoInduction
  <2> QED  BY <2>1 DEF Good
<1>7. b[Len(events) + 1] = After(b[Len(events)], e)
  <2>1. Len(events) + 1 \in 0..Len(more)
    BY <1>1
  <2> QED  BY <1>1, <1>4, <2>1 DEF ReadsTo
<1> QED  BY <1>1, <1>3, <1>4, <1>6, <1>7 DEF more

\* No event changes nothing.
LEMMA ReadEmpty ==
    ASSUME NEW f \in Feeds
    PROVE  Read(f, <<>>) = f
<1>1. <<>> \in Seq(Names) /\ Len(<<>>) = 0
  OBVIOUS
<1>2. PICK a : ReadsTo(a, f, <<>>) /\ Read(f, <<>>) = a[Len(<<>>)]
  BY <1>1, ReadUnrolls
<1>3. a[0] = f
  BY <1>2, <1>1 DEF ReadsTo
<1> QED  BY <1>2, <1>3, <1>1

\* Short sequences.
LEMMA Pairs ==
    ASSUME NEW S, NEW d \in S, NEW e \in S
    PROVE  /\ <<d>> \in Seq(S) /\ <<e>> \in Seq(S) /\ <<d, e>> \in Seq(S)
           /\ <<d, e>> = Append(<<d>>, e)
OBVIOUS

\* A publication of one event, or two.
LEMMA ReadOne ==
    ASSUME NEW f \in Feeds, NEW e \in Names
    PROVE  Read(f, <<e>>) = After(f, e)
<1>1. <<>> \in Seq(Names) /\ <<e>> = Append(<<>>, e)
  OBVIOUS
<1>2. Read(f, Append(<<>>, e)) = After(Read(f, <<>>), e)
  BY <1>1, ReadAppend
<1> QED  BY <1>1, <1>2, ReadEmpty

\* Two events in a row are read one after the other.
LEMMA ReadTwo ==
    ASSUME NEW f \in Feeds, NEW d \in Names, NEW e \in Names
    PROVE  Read(f, <<d, e>>) = After(After(f, d), e)
<1>1. <<d>> \in Seq(Names) /\ <<d, e>> = Append(<<d>>, e)
  BY Pairs
<1>2. Read(f, Append(<<d>>, e)) = After(Read(f, <<d>>), e)
  BY <1>1, ReadAppend
<1> QED  BY <1>1, <1>2, ReadOne

\* One or two more events, or none.
LEMMA ReadMore ==
    ASSUME NEW f \in Feeds, NEW events \in Seq(Names), NEW d \in Names, NEW e \in Names
    PROVE  /\ events \o <<>> \in Seq(Names) /\ Read(f, events \o <<>>) = Read(f, events)
           /\ events \o <<d>> \in Seq(Names) /\ Read(f, events \o <<d>>) = After(Read(f, events), d)
           /\ events \o <<d, e>> \in Seq(Names)
           /\ Read(f, events \o <<d, e>>) = After(After(Read(f, events), d), e)
<1>1. events \o <<>> = events
  BY ConcatEmptySeq
<1>2. /\ Append(events, d) \in Seq(Names) /\ Append(Append(events, d), e) \in Seq(Names)
      /\ <<d, e>> \in Seq(Names) /\ <<d>> \in Seq(Names)
  OBVIOUS
<1>3. events \o <<d>> = Append(events, d)
  BY AppendIsConcat
<1>4. events \o <<d, e>> = Append(Append(events, d), e)
  <2>1. <<d, e>> = <<d>> \o <<e>> /\ <<e>> \in Seq(Names)
    <3>1. Append(<<d>>, e) = <<d, e>>
      BY Pairs
    <3>2. Append(<<d>>, e) = <<d>> \o <<e>>
      BY <1>2, AppendIsConcat
    <3>3. <<e>> \in Seq(Names)
      OBVIOUS
    <3> QED  BY <3>1, <3>2, <3>3
  <2>2. events \o (<<d>> \o <<e>>) = (events \o <<d>>) \o <<e>>
    BY <1>2, <2>1, ConcatAssociative
  <2>3. Append(events, d) \o <<e>> = Append(Append(events, d), e)
    BY <1>2, AppendIsConcat
  <2> QED  BY <1>3, <2>1, <2>2, <2>3
<1>5. Read(f, Append(events, d)) = After(Read(f, events), d)
  BY ReadAppend
<1>6. Read(f, Append(Append(events, d), e)) = After(Read(f, Append(events, d)), e)
  BY <1>2, ReadAppend
<1> QED  BY <1>1, <1>2, <1>3, <1>4, <1>5, <1>6

-----------------------------------------------------------------------------
(* Items.                                                                  *)

\* An item as appended, and an item made of a draft, are items.
LEMMA ItemType ==
    ASSUME NEW st \in {"in_progress", "completed", "incomplete"}
    PROVE  /\ \A n \in Nat, k \in {"reasoning", "visible"} :
                 Item(k, st, n) \in Items /\ Item(k, st, n).parts = n /\ Item(k, st, n).status = st
           /\ \A d \in [at : Nat, pending : BOOLEAN, parts : Nat] :
                 /\ DraftItem(d, st) \in Items
                 /\ DraftItem(d, st).parts = d.parts /\ DraftItem(d, st).status = st
BY DEF Item, DraftItem, Items

\* The numbers of parts of the items are whole numbers, item by item.
LEMMA PartsType ==
    ASSUME NEW items \in Seq(Items)
    PROVE  /\ [i \in DOMAIN items |-> items[i].parts] \in Seq(Int)
           /\ Len([i \in DOMAIN items |-> items[i].parts]) = Len(items)
           /\ \A i \in 1..Len(items) : [j \in DOMAIN items |-> items[j].parts][i] = items[i].parts
           /\ \A i \in 1..Len(items) : items[i] \in Items /\ items[i].parts \in Nat
<1>1. \A i \in 1..Len(items) : items[i] \in Items /\ items[i].parts \in Nat
  <2>1. \A i \in 1..Len(items) : items[i] \in Items
    OBVIOUS
  <2>2. \A item \in Items : item.parts \in Nat
    BY DEF Items
  <2> QED  BY <2>1, <2>2
<1>2. DOMAIN items = 1..Len(items) /\ Len(items) \in Nat
  OBVIOUS
<1>3. [i \in 1..Len(items) |-> items[i].parts] \in [1..Len(items) -> Int]
  BY <1>1
<1> DEFINE parts == [i \in 1..Len(items) |-> items[i].parts]
<1>4. parts \in Seq(Int) /\ Len(parts) = Len(items)
  <2> HIDE DEF parts
  <2> QED  BY <1>2, <1>3, LenProperties, SeqDef DEF parts
<1> QED  BY <1>1, <1>2, <1>4

\* A new item adds its parts.
LEMMA PartsAppend ==
    ASSUME NEW items \in Seq(Items), NEW item \in Items
    PROVE  /\ Append(items, item) \in Seq(Items)
           /\ Len(Append(items, item)) = Len(items) + 1
           /\ Append(items, item)[Len(items) + 1] = item
           /\ \A i \in 1..Len(items) : Append(items, item)[i] = items[i]
           /\ PartsOf(Append(items, item)) = PartsOf(items) + item.parts
<1> DEFINE parts == [i \in DOMAIN items |-> items[i].parts]
           more == Append(items, item)
           moreParts == [i \in DOMAIN more |-> more[i].parts]
<1>1. more \in Seq(Items) /\ Len(more) = Len(items) + 1 /\ more[Len(items) + 1] = item
  OBVIOUS
<1>2. \A i \in 1..Len(items) : more[i] = items[i]
  OBVIOUS
<1>3. /\ parts \in Seq(Int) /\ Len(parts) = Len(items)
      /\ \A i \in 1..Len(items) : parts[i] = items[i].parts
  BY PartsType
<1>4. /\ moreParts \in Seq(Int) /\ Len(moreParts) = Len(more)
      /\ \A i \in 1..Len(more) : moreParts[i] = more[i].parts
  <2> HIDE DEF more
  <2> QED  BY <1>1, PartsType
<1>5. item.parts \in Int
  BY DEF Items
<1>6. moreParts = Append(parts, item.parts)
  <2> HIDE DEF more, parts, moreParts
  <2>1. /\ Append(parts, item.parts) \in Seq(Int)
        /\ Len(Append(parts, item.parts)) = Len(parts) + 1
        /\ Append(parts, item.parts)[Len(parts) + 1] = item.parts
        /\ \A i \in 1..Len(parts) : Append(parts, item.parts)[i] = parts[i]
    BY <1>3, <1>5
  <2>2. ASSUME NEW i \in 1..Len(moreParts)
        PROVE  moreParts[i] = Append(parts, item.parts)[i]
    <3>1. CASE i = Len(items) + 1
      BY <3>1, <1>1, <1>3, <1>4, <2>1
    <3>2. CASE i \in 1..Len(items)
      BY <3>2, <1>1, <1>2, <1>3, <1>4, <2>1
    <3>3. Len(items) \in Nat /\ Len(moreParts) = Len(items) + 1
      BY <1>1, <1>4
    <3>4. i \in 1..(Len(items) + 1)
      BY <3>3
    <3>5. i = Len(items) + 1 \/ i \in 1..Len(items)
      BY <3>3, <3>4
    <3> QED  BY <3>1, <3>2, <3>5
  <2>3. Len(moreParts) = Len(Append(parts, item.parts))
    BY <1>1, <1>3, <1>4, <2>1
  <2> QED  BY <1>4, <2>1, <2>2, <2>3, SeqEqual
<1>7. Total(moreParts) = Total(parts) + item.parts
  <2> HIDE DEF parts, moreParts
  <2> QED  BY <1>3, <1>5, <1>6, TotalAppend
<1> QED  BY <1>1, <1>2, <1>7 DEF PartsOf

\* A replaced item changes the sum by the difference in parts.
LEMMA PartsReplace ==
    ASSUME NEW items \in Seq(Items), NEW k \in 0..Len(items), NEW item \in Items
    PROVE  /\ [items EXCEPT ![k] = item] \in Seq(Items)
           /\ Len([items EXCEPT ![k] = item]) = Len(items)
           /\ k # 0 => [items EXCEPT ![k] = item][k] = item
           /\ \A i \in 1..Len(items) : i # k => [items EXCEPT ![k] = item][i] = items[i]
           /\ k = 0 => [items EXCEPT ![k] = item] = items
           /\ k # 0 => PartsOf([items EXCEPT ![k] = item])
                       = PartsOf(items) + (item.parts - items[k].parts)
<1> DEFINE parts == [i \in DOMAIN items |-> items[i].parts]
           new == [items EXCEPT ![k] = item]
           newParts == [i \in DOMAIN new |-> new[i].parts]
<1>0. k = 0 => new = items
  <2> SUFFICES ASSUME k = 0 PROVE new = items
    OBVIOUS
  <2>1. k \notin DOMAIN items
    OBVIOUS
  <2>2. \A i \in DOMAIN items : new[i] = items[i]
    BY <2>1
  <2> QED  BY <2>2
<1>1. new \in Seq(Items) /\ Len(new) = Len(items)
  <2>1. CASE k = 0
    BY <2>1, <1>0
  <2>2. CASE k # 0
    BY <2>2, ExceptSeq
  <2> QED  BY <2>1, <2>2
<1>2. /\ k # 0 => new[k] = item
      /\ \A i \in 1..Len(items) : i # k => new[i] = items[i]
  OBVIOUS
<1>4. k # 0 => PartsOf(new) = PartsOf(items) + (item.parts - items[k].parts)
  <2> SUFFICES ASSUME k # 0 PROVE PartsOf(new) = PartsOf(items) + (item.parts - items[k].parts)
    OBVIOUS
  <2>1. /\ parts \in Seq(Int) /\ Len(parts) = Len(items)
        /\ \A i \in 1..Len(items) : parts[i] = items[i].parts
    BY PartsType
  <2>2. /\ newParts \in Seq(Int) /\ Len(newParts) = Len(new)
        /\ \A i \in 1..Len(new) : newParts[i] = new[i].parts
    <3> HIDE DEF new
    <3> QED  BY <1>1, PartsType
  <2> HIDE DEF new, parts, newParts
  <2>3. k \in 1..Len(parts) /\ Len(newParts) = Len(parts)
    BY <1>1, <2>1, <2>2
  <2>4. \A i \in 1..Len(parts) : i # k => newParts[i] = parts[i]
    BY <1>1, <1>2, <2>1, <2>2
  <2>5. Total(newParts) = Total(parts) + (newParts[k] - parts[k])
    BY <2>1, <2>2, <2>3, <2>4, TotalChange
  <2>6. newParts[k] = item.parts /\ parts[k] = items[k].parts
    BY <1>1, <1>2, <2>1, <2>2, <2>3
  <2> QED  BY <2>5, <2>6 DEF PartsOf, new, parts, newParts
<1> QED  BY <1>0, <1>1, <1>2, <1>4

-----------------------------------------------------------------------------
(* Types.                                                                  *)

Marks == {"delta", "done"}
Outboxes == {s \in Seq(Marks) : Len(s) <= 2}
Conds == [at : {"receiving", "texting", "over"}, buffered : BOOLEAN, texts : 0..MaxTexts]

TurnType ==
    /\ exec \in Places /\ cause \in Causes
    /\ turn \in 1..MaxTurns /\ attempt \in 0..MaxAttempts /\ deltas \in 0..MaxDeltas
    /\ history \in BOOLEAN /\ suffix \in BOOLEAN /\ stateful \in BOOLEAN
    /\ summarize \in BOOLEAN /\ gone \in BOOLEAN
    /\ outbox \in Outboxes
    /\ result \in {"none", "stop", "length"} /\ budget \in {"left", "spent"}
    /\ visible \in 0..MaxVisible /\ faults \in 0..MaxFaults

StreamType ==
    /\ source \in Seq(Marks) /\ Len(source) <= Capacity
    /\ down \in Seq(Marks) /\ Len(down) <= Capacity
    /\ closed \in BOOLEAN /\ openPart \in BOOLEAN /\ accumulated \in 0..FlushAt
    /\ cond \in Conds
    /\ summary \in {"receiving", "beginning", "flushing", "over"}

Drafts == [at : Nat, pending : BOOLEAN, parts : Nat]

ItemsType ==
    /\ draft \in Drafts
    /\ output \in Seq(Items) /\ storedOutput \in Seq(Items)
    /\ reasoningId \in 0..Len(output)
    /\ status \in Terminal \cup {"in_progress"}
    /\ stored \in Terminal \cup {"absent", "in_progress"}
    /\ feed \in Feeds

\* The type invariant, by what the step groups below touch.
LEMMA Types == TypeOK <=> TurnType /\ StreamType /\ ItemsType
BY DEF TypeOK, TurnType, StreamType, ItemsType, Drafts, Marks, Outboxes, Conds

\* The summarizer's place in its source is one of those it can be at.
LEMMA CondType ==
    /\ \A b \in BOOLEAN : /\ CondAt("receiving", b, 0) \in Conds
                          /\ CondAt("texting", b, 0) \in Conds
                          /\ CondAt("over", b, 0) \in Conds
    /\ CondAt("receiving", TRUE, 0) \in Conds /\ CondAt("over", FALSE, 0) \in Conds
    /\ NewCond \in Conds
    /\ Fragment(FALSE) => cond' \in Conds
    /\ \A b \in BOOLEAN : Fragment(b) => cond' \in Conds
<1>1. 0 \in 0..MaxTexts
  BY RunAssumption
<1>2. TRUE \in BOOLEAN /\ FALSE \in BOOLEAN
  OBVIOUS
<1>3. \A at \in {"receiving", "texting", "over"}, b \in BOOLEAN : CondAt(at, b, 0) \in Conds
  BY <1>1 DEF CondAt, Conds
<1>4. \A b \in BOOLEAN : /\ CondAt("receiving", b, 0) \in Conds
                       /\ CondAt("texting", b, 0) \in Conds
                       /\ CondAt("over", b, 0) \in Conds
  BY <1>3
<1>5. CondAt("receiving", FALSE, 0) \in Conds /\ CondAt("over", FALSE, 0) \in Conds /\ CondAt("receiving", TRUE, 0) \in Conds
  BY <1>2, <1>4
<1>6. NewCond \in Conds
  <2>1. CASE summarize
    BY <2>1, <1>5 DEF NewCond
  <2>2. CASE ~summarize
    BY <2>2, <1>5 DEF NewCond
  <2> QED  BY <2>1, <2>2
<1>7. \A b \in BOOLEAN : Fragment(b) => cond' \in Conds
  <2> TAKE b \in BOOLEAN
  <2>1. CASE SpentBudget
    BY <2>1, <1>4 DEF Fragment
  <2>2. CASE ~SpentBudget
    BY <2>2, <1>4 DEF Fragment
  <2> QED  BY <2>1, <2>2
<1> QED  BY <1>2, <1>4, <1>5, <1>6, <1>7

\* What the executor sends.
LEMMA OutboxType ==
    /\ <<>> \in Outboxes /\ <<"delta">> \in Outboxes
    /\ <<"done">> \in Outboxes /\ <<"delta", "done">> \in Outboxes
<1>1. "delta" \in Marks /\ "done" \in Marks
  BY DEF Marks
<1>2. \A d \in Marks, e \in Marks :
          /\ <<>> \in Seq(Marks) /\ Len(<<>>) = 0
          /\ <<d>> \in Seq(Marks) /\ Len(<<d>>) = 1
          /\ <<d, e>> \in Seq(Marks) /\ Len(<<d, e>>) = 2
  OBVIOUS
<1> QED  BY <1>1, <1>2 DEF Outboxes

\* What a stream holds after an item is taken or put.
LEMMA StreamSteps ==
    ASSUME NEW s \in Seq(Marks)
    PROVE  /\ Len(s) \in Nat
           /\ s # <<>> => /\ Head(s) \in Marks /\ Tail(s) \in Seq(Marks)
                          /\ Len(Tail(s)) = Len(s) - 1 /\ Len(s) > 0
           /\ \A m \in Marks : Append(s, m) \in Seq(Marks) /\ Len(Append(s, m)) = Len(s) + 1
BY HeadTailProperties, AppendProperties

\* What default_summary takes leaves both streams within their capacity.
LEMMA InboxTaken ==
    ASSUME StreamType, Inbox # <<>>, TakeInbox
    PROVE  /\ source' \in Seq(Marks) /\ Len(source') <= Capacity
           /\ down' \in Seq(Marks) /\ Len(down') <= Capacity
<1>1. Capacity \in Nat
  BY RunAssumption
<1>2. CASE summarize
  <2>1. down # <<>> /\ down' = Tail(down) /\ source' = source
    BY <1>2 DEF Inbox, TakeInbox
  <2>2. Tail(down) \in Seq(Marks) /\ Len(Tail(down)) = Len(down) - 1 /\ Len(down) \in Nat
    BY <2>1, StreamSteps DEF StreamType
  <2> QED  BY <1>1, <2>1, <2>2 DEF StreamType
<1>3. CASE ~summarize
  <2>1. source # <<>> /\ source' = Tail(source) /\ down' = down
    BY <1>3 DEF Inbox, TakeInbox
  <2>2. Tail(source) \in Seq(Marks) /\ Len(Tail(source)) = Len(source) - 1 /\ Len(source) \in Nat
    BY <2>1, StreamSteps DEF StreamType
  <2> QED  BY <1>1, <2>1, <2>2 DEF StreamType
<1> QED  BY <1>2, <1>3

\* The executor's own state.
LEMMA TurnTypeStep ==
    ASSUME TurnType, Next
    PROVE  TurnType'
<1>1. CASE Accept
  BY <1>1 DEF TurnType, Accept, turnVars, request, Places, InTurn, Shielded, Causes
<1>2. CASE Start
  BY <1>2 DEF TurnType, Start, turnVars, request, Places, InTurn, Shielded, Causes
<1>3. CASE OpenAttempt
  BY <1>3, RunAssumption DEF TurnType, OpenAttempt, idleTurn, turnVars, request, Places, InTurn, Shielded, Causes
<1>4. CASE NoAttempt
  BY <1>4, OutboxType DEF TurnType, NoAttempt, Leave, turnVars, request, Places, InTurn, Shielded, Causes
<1>5. CASE LastDelta
  BY <1>5, OutboxType DEF TurnType, LastDelta, turnVars, request, Places, InTurn, Shielded, Causes
<1>6. CASE ProviderFails
  BY <1>6, OutboxType DEF TurnType, ProviderFails, Leave, turnVars, request, Places, InTurn, Shielded, Causes
<1>7. CASE Interrupted
  BY <1>7, OutboxType DEF TurnType, Interrupted, Record, turnVars, request, Places, InTurn, Shielded, Causes
<1>8. CASE Reject
  BY <1>8, OutboxType DEF TurnType, Reject, Record, turnVars, request, Places, InTurn, Shielded, Causes
<1>9. CASE AcceptResult
  BY <1>9 DEF TurnType, AcceptResult, Record, turnVars, request, Places, InTurn, Shielded, Causes
<1>10. CASE Send
  <2>1. outbox # <<>> /\ outbox \in Seq(Marks) /\ Len(outbox) <= 2 /\ outbox' = Tail(outbox)
    BY <1>10 DEF Send, TurnType, Outboxes
  <2>2. outbox' \in Outboxes
    BY <2>1, StreamSteps DEF Outboxes
  <2> QED  BY <1>10, <2>2 DEF TurnType, Send, turnVars, request, Places, InTurn, Shielded, Causes
<1>11. CASE ChildRaised
  BY <1>11, OutboxType DEF TurnType, ChildRaised, Leave, turnVars, request, Places, InTurn, Shielded, Causes
<1>12. CASE EndTurn
  BY <1>12, RunAssumption DEF TurnType, EndTurn, turnVars, request, Places, InTurn, Shielded, Causes
<1>13. CASE NextTurn
  <2>1. attempt' \in 0..MaxAttempts /\ deltas' \in 0..MaxDeltas
    BY <1>13, RunAssumption DEF NextTurn
  <2>2. history' \in BOOLEAN /\ exec' \in Places
    BY <1>13 DEF NextTurn, Places, InTurn
  <2>3. UNCHANGED <<cause, turn, suffix, outbox, budget, visible, gone, faults, request>> /\ result' = "none"
    BY <1>13 DEF NextTurn
  <2> QED  BY <2>1, <2>2, <2>3 DEF TurnType, request
<1>14. CASE EndLeaving
  BY <1>14 DEF TurnType, EndLeaving, turnVars, request, Places, InTurn, Shielded, Causes
<1>15. CASE Cancelled
  BY <1>15, OutboxType DEF TurnType, Cancelled, Leave, turnVars, request, Places, InTurn, Shielded, Causes
<1>16. CASE Commit
  BY <1>16 DEF TurnType, Commit, ended, turnVars, request, Places, InTurn, Shielded, Causes
<1>17. CASE FinishReasoning
  BY <1>17 DEF TurnType, FinishReasoning, ended, turnVars, request, Places, InTurn, Shielded, Causes
<1>18. CASE PendingAtFinish
  BY <1>18 DEF TurnType, PendingAtFinish, ended, turnVars, request, Places, InTurn, Shielded, Causes
<1>19. CASE Emit
  BY <1>19, RunAssumption DEF TurnType, Emit, ended, turnVars, request, Places, InTurn, Shielded, Causes
<1>20. CASE Finish
  BY <1>20 DEF TurnType, Finish, ended, Final, turnVars, request, Places, InTurn, Shielded, Causes
<1>21. CASE SaveProgress
  BY <1>21 DEF TurnType, SaveProgress, ended, turnVars, request, Places, InTurn, Shielded, Causes
<1>22. CASE DropDraft
  BY <1>22 DEF TurnType, DropDraft, ended, turnVars, request, Places, InTurn, Shielded, Causes
<1>23. CASE FailDraft
  BY <1>23 DEF TurnType, FailDraft, ended, turnVars, request, Places, InTurn, Shielded, Causes
<1>24. CASE Stop
  BY <1>24 DEF TurnType, Stop, ended, Final, turnVars, request, Places, InTurn, Shielded, Causes
<1>25. CASE CondTakes
  BY <1>25 DEF TurnType, CondTakes, others, turnVars, request, Places, InTurn, Shielded, Causes
<1>26. CASE CondSourceEnds
  BY <1>26 DEF TurnType, CondSourceEnds, others, turnVars, request, Places, InTurn, Shielded, Causes
<1>27. CASE CondText
  BY <1>27 DEF TurnType, CondText, others, turnVars, request, Places, InTurn, Shielded, Causes
<1>28. CASE CondFragmentEnds
  BY <1>28 DEF TurnType, CondFragmentEnds, Record, others, turnVars, request, Places, InTurn, Shielded, Causes
<1>29. CASE CondFails
  BY <1>29 DEF TurnType, CondFails, others, turnVars, request, Places, InTurn, Shielded, Causes
<1>30. CASE CondHalted
  BY <1>30 DEF TurnType, CondHalted, others, turnVars, request, Places, InTurn, Shielded, Causes
<1>31. CASE SummaryTakesDelta
  BY <1>31 DEF TurnType, SummaryTakesDelta, others, turnVars, request, Places, InTurn, Shielded, Causes
<1>32. CASE SummaryBegins
  BY <1>32 DEF TurnType, SummaryBegins, others, turnVars, request, Places, InTurn, Shielded, Causes
<1>33. CASE SummaryTakesDone
  BY <1>33 DEF TurnType, SummaryTakesDone, others, turnVars, request, Places, InTurn, Shielded, Causes
<1>34. CASE SummarySaves
  BY <1>34 DEF TurnType, SummarySaves, others, turnVars, request, Places, InTurn, Shielded, Causes
<1>35. CASE SummaryEnds
  BY <1>35 DEF TurnType, SummaryEnds, others, turnVars, request, Places, InTurn, Shielded, Causes
<1>36. CASE SummaryHalted
  BY <1>36 DEF TurnType, SummaryHalted, others, turnVars, request, Places, InTurn, Shielded, Causes
<1>37. CASE Disconnect
  BY <1>37 DEF TurnType, Disconnect, turnVars, request, Places, InTurn, Shielded, Causes
<1>38. CASE Delta
  <2>1. deltas' \in 0..MaxDeltas
    BY <1>38, RunAssumption DEF TurnType, Delta
  <2>2. outbox' \in Outboxes
    BY <1>38, OutboxType DEF Delta
  <2> QED  BY <1>38, <2>1, <2>2 DEF TurnType, Delta, turnVars, request, Places, InTurn, Shielded, Causes
<1>39. CASE NotAccepted
  BY <1>39, RunAssumption DEF TurnType, NotAccepted, turnVars, request, Places, InTurn, Shielded, Causes
<1>40. CASE SummaryWriteFails
  BY <1>40, RunAssumption DEF TurnType, SummaryWriteFails, others, turnVars, request, Places, InTurn, Shielded, Causes
<1>41. CASE EndingFails
  BY <1>41, RunAssumption DEF TurnType, EndingFails, turnVars, request, Places, InTurn, Shielded, Causes
<1>42. CASE Over
  BY <1>42 DEF TurnType, Over, vars, turnVars, summaryVars, coordinator, request
<1> QED
  BY <1>1, <1>2, <1>3, <1>4, <1>5, <1>6, <1>7, <1>8, <1>9, <1>10, <1>11, <1>12, <1>13, <1>14, <1>15, <1>16, <1>17, <1>18, <1>19, <1>20, <1>21, <1>22, <1>23, <1>24, <1>25, <1>26, <1>27, <1>28, <1>29, <1>30, <1>31, <1>32, <1>33, <1>34, <1>35, <1>36, <1>37, <1>38, <1>39, <1>40, <1>41, <1>42
     DEF Next, Executor, Summarizer, DefaultSummary, Environment

\* The two streams and the tasks that read them.
LEMMA StreamTypeStep ==
    ASSUME StreamType, FlushDue, TurnType, Next
    PROVE  StreamType'
<1>1. CASE Accept
  BY <1>1 DEF StreamType, Accept, summaryVars
<1>2. CASE Start
  BY <1>2, CondType DEF Start, StreamType
<1>3. CASE OpenAttempt
  BY <1>3 DEF StreamType, OpenAttempt, summaryVars
<1>4. CASE NoAttempt
  BY <1>4 DEF StreamType, NoAttempt, Leave, summaryVars
<1>5. CASE LastDelta
  BY <1>5 DEF StreamType, LastDelta, summaryVars
<1>6. CASE ProviderFails
  BY <1>6 DEF StreamType, ProviderFails, Leave, summaryVars
<1>7. CASE Interrupted
  BY <1>7 DEF StreamType, Interrupted, summaryVars
<1>8. CASE Reject
  BY <1>8 DEF StreamType, Reject, summaryVars
<1>9. CASE AcceptResult
  BY <1>9 DEF StreamType, AcceptResult, summaryVars
<1>10. CASE Send
  <2>1. outbox # <<>> /\ outbox \in Seq(Marks)
    BY <1>10 DEF Send, TurnType, Outboxes
  <2>2. source' \in Seq(Marks) /\ Len(source') <= Capacity
    BY <1>10, <2>1, StreamSteps, RunAssumption DEF Send, StreamType
  <2> QED  BY <1>10, <2>2 DEF Send, StreamType
<1>11. CASE ChildRaised
  BY <1>11 DEF StreamType, ChildRaised, Leave, summaryVars
<1>12. CASE EndTurn
  BY <1>12 DEF StreamType, EndTurn, summaryVars
<1>13. CASE NextTurn
  <2>1. <<>> \in Seq(Marks) /\ Len(<<>>) = 0
    OBVIOUS
  <2>2. cond' \in Conds
    BY <1>13, CondType DEF NextTurn
  <2>3. accumulated' \in 0..FlushAt
    BY <1>13, RunAssumption DEF NextTurn
  <2>4. closed' \in BOOLEAN /\ openPart' \in BOOLEAN
    BY <1>13 DEF NextTurn
  <2>5. /\ source' \in Seq(Marks) /\ Len(source') <= Capacity
        /\ down' \in Seq(Marks) /\ Len(down') <= Capacity
    BY <1>13, <2>1, RunAssumption DEF NextTurn
  <2>6. summary' = "receiving"
    BY <1>13 DEF NextTurn
  <2> QED  BY <2>2, <2>3, <2>4, <2>5, <2>6 DEF StreamType
<1>14. CASE EndLeaving
  BY <1>14 DEF StreamType, EndLeaving, summaryVars
<1>15. CASE Cancelled
  BY <1>15 DEF StreamType, Cancelled, Leave, summaryVars
<1>16. CASE Commit
  BY <1>16 DEF StreamType, Commit, ended, summaryVars
<1>17. CASE FinishReasoning
  BY <1>17 DEF StreamType, FinishReasoning, ended, summaryVars
<1>18. CASE PendingAtFinish
  BY <1>18 DEF StreamType, PendingAtFinish, ended, summaryVars
<1>19. CASE Emit
  BY <1>19 DEF StreamType, Emit, ended, summaryVars
<1>20. CASE Finish
  BY <1>20 DEF StreamType, Finish, ended, summaryVars
<1>21. CASE SaveProgress
  BY <1>21 DEF StreamType, SaveProgress, ended, summaryVars
<1>22. CASE DropDraft
  BY <1>22 DEF StreamType, DropDraft, ended, summaryVars
<1>23. CASE FailDraft
  BY <1>23 DEF StreamType, FailDraft, ended, summaryVars
<1>24. CASE Stop
  BY <1>24 DEF StreamType, Stop, ended, summaryVars
<1>25. CASE CondTakes
  <2>1. source' \in Seq(Marks) /\ Len(source') <= Capacity
    BY <1>25, StreamSteps, RunAssumption DEF CondTakes, StreamType
  <2>2. Head(source) = "delta" \/ Head(source) = "done"
    BY <1>25, StreamSteps DEF CondTakes, StreamType, Marks
  <2>3. cond' \in Conds
    <3>1. cond \in Conds
      BY DEF StreamType
    <3>2. CASE Head(source) = "delta"
      BY <1>25, <3>2, CondType DEF CondTakes
    <3>3. CASE Head(source) = "done"
      BY <1>25, <3>1, <3>3, CondType DEF CondTakes
    <3> QED  BY <2>2, <3>2, <3>3
  <2> QED  BY <1>25, <2>1, <2>3 DEF CondTakes, StreamType
<1>26. CASE CondSourceEnds
  <2>1. cond' \in Conds
    BY <1>26, CondType, ZenonT(20) DEF CondSourceEnds
  <2> QED  BY <1>26, <2>1 DEF CondSourceEnds, StreamType
<1>27. CASE CondText
  <2>1. cond' \in Conds
    <3>1. cond \in Conds /\ cond.texts < MaxTexts /\ cond' = [cond EXCEPT !.texts = @ + 1]
      BY <1>27 DEF CondText, StreamType
    <3>2. cond.texts + 1 \in 0..MaxTexts
      BY <3>1, RunAssumption DEF Conds
    <3> QED  BY <3>1, <3>2 DEF Conds
  <2>2. down' \in Seq(Marks) /\ Len(down') <= Capacity
    BY <1>27, StreamSteps, RunAssumption DEF CondText, StreamType, Marks
  <2> QED  BY <1>27, <2>1, <2>2 DEF CondText, StreamType
<1>28. CASE CondFragmentEnds
  <2>1. cond.buffered \in BOOLEAN
    BY DEF StreamType, Conds
  <2>2. cond' \in Conds
    BY <1>28, <2>1, CondType DEF CondFragmentEnds
  <2>3. down' \in Seq(Marks) /\ Len(down') <= Capacity
    <3> PICK s \in Seq(Marks) : s = down /\ Len(s) <= Capacity
      BY DEF StreamType
    <3>1. "done" \in Marks
      BY DEF Marks
    <3>2. down' = s \/ (Len(s) < Capacity /\ down' = Append(s, "done"))
      BY <1>28 DEF CondFragmentEnds
    <3>3. Len(s) \in Nat /\ Append(s, "done") \in Seq(Marks) /\ Len(Append(s, "done")) = Len(s) + 1
      BY <3>1, StreamSteps
    <3>4. Capacity \in Nat
      BY RunAssumption
    <3> QED  BY <3>2, <3>3, <3>4
  <2> QED  BY <1>28, <2>2, <2>3 DEF CondFragmentEnds, StreamType
<1>29. CASE CondFails
  BY <1>29, CondType DEF CondFails, StreamType
<1>30. CASE CondHalted
  BY <1>30, CondType DEF CondHalted, StreamType
<1>31. CASE SummaryTakesDelta
  <2>1. /\ source' \in Seq(Marks) /\ Len(source') <= Capacity
        /\ down' \in Seq(Marks) /\ Len(down') <= Capacity
    BY <1>31, InboxTaken DEF SummaryTakesDelta
  <2>2. accumulated' \in 0..FlushAt
    BY <1>31, RunAssumption DEF SummaryTakesDelta, Narrate, StreamType, FlushDue
  <2>3. openPart' \in BOOLEAN /\ summary' \in {"receiving", "beginning", "flushing", "over"}
    BY <1>31 DEF SummaryTakesDelta, Narrate, StreamType
  <2> QED  BY <1>31, <2>1, <2>2, <2>3 DEF SummaryTakesDelta, StreamType
<1>32. CASE SummaryBegins
  <2>1. accumulated' \in 0..FlushAt
    BY <1>32, RunAssumption DEF SummaryBegins, Narrate, StreamType, FlushDue
  <2>2. openPart' \in BOOLEAN /\ summary' \in {"receiving", "beginning", "flushing", "over"}
    BY <1>32 DEF SummaryBegins, Narrate, StreamType
  <2> QED  BY <1>32, <2>1, <2>2 DEF SummaryBegins, StreamType
<1>33. CASE SummaryTakesDone
  <2>1. /\ source' \in Seq(Marks) /\ Len(source') <= Capacity
        /\ down' \in Seq(Marks) /\ Len(down') <= Capacity
    <3>1. CASE UNCHANGED <<source, down>>
      BY <3>1 DEF StreamType
    <3>2. CASE Inbox # <<>> /\ TakeInbox
      BY <3>2, InboxTaken
    <3> QED  BY <1>33, <3>1, <3>2 DEF SummaryTakesDone
  <2>2. summary' \in {"receiving", "beginning", "flushing", "over"}
    BY <1>33 DEF SummaryTakesDone, StreamType
  <2> QED  BY <1>33, <2>1, <2>2 DEF SummaryTakesDone, StreamType
<1>34. CASE SummarySaves
  <2>1. accumulated' \in 0..FlushAt
    BY <1>34, RunAssumption DEF SummarySaves
  <2> QED  BY <1>34, <2>1 DEF SummarySaves, StreamType
<1>35. CASE SummaryEnds
  BY <1>35 DEF StreamType, SummaryEnds, summaryVars
<1>36. CASE SummaryHalted
  BY <1>36 DEF StreamType, SummaryHalted, summaryVars
<1>37. CASE Disconnect
  BY <1>37 DEF StreamType, Disconnect, summaryVars
<1>38. CASE Delta
  BY <1>38 DEF StreamType, Delta, summaryVars
<1>39. CASE NotAccepted
  BY <1>39 DEF StreamType, NotAccepted, summaryVars
<1>40. CASE SummaryWriteFails
  BY <1>40 DEF StreamType, SummaryWriteFails, summaryVars
<1>41. CASE EndingFails
  BY <1>41 DEF StreamType, EndingFails, summaryVars
<1>42. CASE Over
  BY <1>42 DEF StreamType, Over, vars, turnVars, summaryVars, coordinator, request
<1> QED
  BY <1>1, <1>2, <1>3, <1>4, <1>5, <1>6, <1>7, <1>8, <1>9, <1>10, <1>11, <1>12, <1>13, <1>14, <1>15, <1>16, <1>17, <1>18, <1>19, <1>20, <1>21, <1>22, <1>23, <1>24, <1>25, <1>26, <1>27, <1>28, <1>29, <1>30, <1>31, <1>32, <1>33, <1>34, <1>35, <1>36, <1>37, <1>38, <1>39, <1>40, <1>41, <1>42
     DEF Next, Executor, Summarizer, DefaultSummary, Environment

-----------------------------------------------------------------------------
(* Where the tasks are.                                                    *)

\* Children end before their group does, parts are flushed at the limit, and only
\* the budget's exception leads to a commit.
LEMMA ControlStep ==
    ASSUME TurnType, StreamType, ChildrenEnd, FlushDue, CommitsWithoutError, Next
    PROVE  ChildrenEnd' /\ FlushDue' /\ CommitsWithoutError'
<1>1. CASE Accept
  BY <1>1 DEF ChildrenEnd, FlushDue, CommitsWithoutError, ChildrenOver, Accept, summaryVars, InTurn, Shielded
<1>2. CASE Start
  BY <1>2, RunAssumption DEF ChildrenEnd, FlushDue, CommitsWithoutError, ChildrenOver, Start, NewCond, CondAt, summaryVars, InTurn, Shielded
<1>3. CASE OpenAttempt
  BY <1>3 DEF ChildrenEnd, FlushDue, CommitsWithoutError, ChildrenOver, OpenAttempt, summaryVars, InTurn, Shielded
<1>4. CASE NoAttempt
  BY <1>4 DEF ChildrenEnd, FlushDue, CommitsWithoutError, ChildrenOver, NoAttempt, Leave, summaryVars, InTurn, Shielded
<1>5. CASE LastDelta
  BY <1>5 DEF ChildrenEnd, FlushDue, CommitsWithoutError, ChildrenOver, LastDelta, summaryVars, InTurn, Shielded
<1>6. CASE ProviderFails
  BY <1>6 DEF ChildrenEnd, FlushDue, CommitsWithoutError, ChildrenOver, ProviderFails, Leave, summaryVars, InTurn, Shielded
<1>7. CASE Interrupted
  BY <1>7 DEF ChildrenEnd, FlushDue, CommitsWithoutError, ChildrenOver, Interrupted, summaryVars, InTurn, Shielded
<1>8. CASE Reject
  BY <1>8 DEF ChildrenEnd, FlushDue, CommitsWithoutError, ChildrenOver, Reject, summaryVars, InTurn, Shielded
<1>9. CASE AcceptResult
  BY <1>9 DEF ChildrenEnd, FlushDue, CommitsWithoutError, ChildrenOver, AcceptResult, summaryVars, InTurn, Shielded
<1>10. CASE Send
  BY <1>10 DEF ChildrenEnd, FlushDue, CommitsWithoutError, ChildrenOver, Send, summaryVars, InTurn, Shielded
<1>11. CASE ChildRaised
  BY <1>11 DEF ChildrenEnd, FlushDue, CommitsWithoutError, ChildrenOver, ChildRaised, Leave, summaryVars, InTurn, Shielded
<1>12. CASE EndTurn
  BY <1>12 DEF ChildrenEnd, FlushDue, CommitsWithoutError, ChildrenOver, EndTurn, summaryVars, InTurn, Shielded
<1>13. CASE NextTurn
  BY <1>13, RunAssumption DEF ChildrenEnd, FlushDue, CommitsWithoutError, ChildrenOver, NextTurn, NewCond, CondAt, summaryVars, InTurn, Shielded
<1>14. CASE EndLeaving
  BY <1>14 DEF ChildrenEnd, FlushDue, CommitsWithoutError, ChildrenOver, EndLeaving, summaryVars, InTurn, Shielded
<1>15. CASE Cancelled
  BY <1>15 DEF ChildrenEnd, FlushDue, CommitsWithoutError, ChildrenOver, Cancelled, Leave, summaryVars, InTurn, Shielded
<1>16. CASE Commit
  BY <1>16 DEF ChildrenEnd, FlushDue, CommitsWithoutError, ChildrenOver, Commit, ended, summaryVars, InTurn, Shielded
<1>17. CASE FinishReasoning
  BY <1>17 DEF ChildrenEnd, FlushDue, CommitsWithoutError, ChildrenOver, FinishReasoning, ended, summaryVars, InTurn, Shielded
<1>18. CASE PendingAtFinish
  BY <1>18 DEF ChildrenEnd, FlushDue, CommitsWithoutError, ChildrenOver, PendingAtFinish, ended, summaryVars, InTurn, Shielded
<1>19. CASE Emit
  BY <1>19 DEF ChildrenEnd, FlushDue, CommitsWithoutError, ChildrenOver, Emit, ended, summaryVars, InTurn, Shielded
<1>20. CASE Finish
  BY <1>20 DEF ChildrenEnd, FlushDue, CommitsWithoutError, ChildrenOver, Finish, ended, Final, summaryVars, InTurn, Shielded
<1>21. CASE SaveProgress
  BY <1>21 DEF ChildrenEnd, FlushDue, CommitsWithoutError, ChildrenOver, SaveProgress, ended, summaryVars, InTurn, Shielded
<1>22. CASE DropDraft
  BY <1>22 DEF ChildrenEnd, FlushDue, CommitsWithoutError, ChildrenOver, DropDraft, ended, summaryVars, InTurn, Shielded
<1>23. CASE FailDraft
  BY <1>23 DEF ChildrenEnd, FlushDue, CommitsWithoutError, ChildrenOver, FailDraft, ended, summaryVars, InTurn, Shielded
<1>24. CASE Stop
  BY <1>24 DEF ChildrenEnd, FlushDue, CommitsWithoutError, ChildrenOver, Stop, ended, Final, summaryVars, InTurn, Shielded
<1>25. CASE CondTakes
  BY <1>25 DEF ChildrenEnd, FlushDue, CommitsWithoutError, ChildrenOver, CondTakes, CondAt, Fragment, others, summaryVars, InTurn, Shielded, Halted
<1>26. CASE CondSourceEnds
  BY <1>26 DEF ChildrenEnd, FlushDue, CommitsWithoutError, ChildrenOver, CondSourceEnds, CondAt, Fragment, others, summaryVars, InTurn, Shielded, Halted
<1>27. CASE CondText
  BY <1>27 DEF ChildrenEnd, FlushDue, CommitsWithoutError, ChildrenOver, CondText, CondAt, others, summaryVars, InTurn, Shielded, Halted
<1>28. CASE CondFragmentEnds
  BY <1>28 DEF ChildrenEnd, FlushDue, CommitsWithoutError, ChildrenOver, CondFragmentEnds, CondAt, others, summaryVars, InTurn, Shielded, Halted
<1>29. CASE CondFails
  BY <1>29 DEF ChildrenEnd, FlushDue, CommitsWithoutError, ChildrenOver, CondFails, CondAt, others, summaryVars, InTurn, Shielded, Halted
<1>30. CASE CondHalted
  BY <1>30 DEF ChildrenEnd, FlushDue, CommitsWithoutError, ChildrenOver, CondHalted, CondAt, others, summaryVars, InTurn, Shielded, Halted
<1>31. CASE SummaryTakesDelta
  <2>1. summary = "receiving" /\ exec \in InTurn \cup {"leaving"} /\ exec' = exec
    BY <1>31 DEF SummaryTakesDelta, ChildrenEnd, ChildrenOver
  <2>2. accumulated \in Nat /\ accumulated < FlushAt /\ FlushAt \in Nat
    BY <2>1, RunAssumption DEF StreamType, FlushDue
  <2>3. summary' \in {"receiving", "beginning"} => accumulated' < FlushAt
    <3>1. CASE UNCHANGED accumulated
      BY <3>1, <2>2
    <3>2. CASE \E e \in {<<>>} : Narrate(draft, e)
      BY <3>2, <2>2 DEF Narrate
    <3> QED  BY <1>31, <3>1, <3>2 DEF SummaryTakesDelta
  <2>4. exec \notin {"accepting", "starting", "committing", "sealing", "emitting"}
    BY <2>1 DEF InTurn
  <2> QED  BY <2>1, <2>3, <2>4 DEF ChildrenEnd, FlushDue, CommitsWithoutError
<1>32. CASE SummaryBegins
  BY <1>32, RunAssumption DEF ChildrenEnd, FlushDue, CommitsWithoutError, ChildrenOver, SummaryBegins, Narrate, others, summaryVars, InTurn, Shielded, Halted, StreamType
<1>33. CASE SummaryTakesDone
  BY <1>33 DEF ChildrenEnd, FlushDue, CommitsWithoutError, ChildrenOver, SummaryTakesDone, others, summaryVars, InTurn, Shielded, Halted
<1>34. CASE SummarySaves
  BY <1>34, RunAssumption DEF ChildrenEnd, FlushDue, CommitsWithoutError, ChildrenOver, SummarySaves, others, summaryVars, InTurn, Shielded
<1>35. CASE SummaryEnds
  BY <1>35 DEF ChildrenEnd, FlushDue, CommitsWithoutError, ChildrenOver, SummaryEnds, others, summaryVars, InTurn, Shielded, Halted
<1>36. CASE SummaryHalted
  BY <1>36 DEF ChildrenEnd, FlushDue, CommitsWithoutError, ChildrenOver, SummaryHalted, others, summaryVars, InTurn, Shielded, Halted
<1>37. CASE Disconnect
  BY <1>37 DEF ChildrenEnd, FlushDue, CommitsWithoutError, ChildrenOver, Disconnect, summaryVars, InTurn, Shielded
<1>38. CASE Delta
  BY <1>38 DEF ChildrenEnd, FlushDue, CommitsWithoutError, ChildrenOver, Delta, summaryVars, InTurn, Shielded
<1>39. CASE NotAccepted
  BY <1>39 DEF ChildrenEnd, FlushDue, CommitsWithoutError, ChildrenOver, NotAccepted, summaryVars, InTurn, Shielded
<1>40. CASE SummaryWriteFails
  BY <1>40 DEF ChildrenEnd, FlushDue, CommitsWithoutError, ChildrenOver, SummaryWriteFails, others, summaryVars, InTurn, Shielded, Halted
<1>41. CASE EndingFails
  BY <1>41 DEF ChildrenEnd, FlushDue, CommitsWithoutError, ChildrenOver, EndingFails, summaryVars, InTurn, Shielded
<1>42. CASE Over
  BY <1>42 DEF ChildrenEnd, ChildrenOver, FlushDue, CommitsWithoutError, Over, vars, turnVars, summaryVars, coordinator, request
<1> QED
  BY <1>1, <1>2, <1>3, <1>4, <1>5, <1>6, <1>7, <1>8, <1>9, <1>10, <1>11, <1>12, <1>13, <1>14, <1>15, <1>16, <1>17, <1>18, <1>19, <1>20, <1>21, <1>22, <1>23, <1>24, <1>25, <1>26, <1>27, <1>28, <1>29, <1>30, <1>31, <1>32, <1>33, <1>34, <1>35, <1>36, <1>37, <1>38, <1>39, <1>40, <1>41, <1>42
     DEF Next, Executor, Summarizer, DefaultSummary, Environment

-----------------------------------------------------------------------------
(* The draft, the items and the feed.                                      *)

InGroup == InTurn \cup {"leaving"}

\* What the two tasks' writes keep in agreement.
Kept ==
    ItemsType /\ DraftFits /\ SummaryFits /\ FeedFits /\ ItemsFit /\ PartsFit /\ EndedOnce

\* Until the executor is over, no status is terminal.
LEMMA NotTerminal ==
    ASSUME Kept, exec # "over"
    PROVE  stored \notin Terminal
BY DEF Kept, EndedOnce

\* A step of a response that is live writes nothing.
LEMMA QuietKept ==
    ASSUME Kept, exec \in Live, exec' \in Live, UNCHANGED coordinator, SummaryFits',
           exec' = "emitting" => draft.at = 0, exec' \in {"sealing", "dropping"} => draft.at # 0
    PROVE  Kept'
<1>1. /\ exec \notin {"accepting", "starting", "ending", "over"}
      /\ exec' \notin {"accepting", "starting", "ending", "over"}
  BY DEF InTurn, Live
<1>2. stored \notin Terminal
  BY <1>1, NotTerminal
<1>3. ItemsType'
  BY DEF Kept, ItemsType, coordinator
<1>4. DraftFits'
  BY <1>1 DEF Kept, DraftFits, coordinator
<1>5. FeedFits'
  BY <1>1 DEF Kept, FeedFits, FeedWellFormed, Shown, coordinator
<1>6. ItemsFit'
  BY <1>1 DEF Kept, ItemsFit, coordinator
<1>7. PartsFit'
  BY DEF Kept, PartsFit, PartsOf, coordinator
<1>8. EndedOnce'
  BY <1>2 DEF Kept, EndedOnce, coordinator
<1> QED  BY <1>3, <1>4, <1>5, <1>6, <1>7, <1>8 DEF Kept

\* The same, inside the task group, or out of it to a commit or a save.
LEMMA GroupKept ==
    ASSUME Kept, exec \in InGroup, exec' \in InGroup \cup {"committing", "saving"},
           UNCHANGED coordinator, SummaryFits'
    PROVE  Kept'
<1>1. /\ exec \in Live /\ exec' \in Live
      /\ exec' \notin {"sealing", "dropping", "emitting"}
  BY DEF InGroup, InTurn, Live
<1> QED  BY <1>1, QuietKept

\* A step that moves neither the executor nor the items.
LEMMA StillKept ==
    ASSUME Kept, UNCHANGED <<exec, cause, coordinator, summary, openPart>>
    PROVE  Kept'
BY DEF Kept, ItemsType, DraftFits, SummaryFits, FeedFits, FeedWellFormed, Shown, ItemsFit,
       PartsFit, PartsOf, EndedOnce, coordinator

\* The executor stops without a terminal status.
LEMMA AbandonedKept ==
    ASSUME Kept, exec # "over", exec' = "over", UNCHANGED <<cause, coordinator, summary, openPart>>
    PROVE  Kept'
<1>1. stored \notin Terminal
  BY NotTerminal
<1>2. ItemsType' /\ PartsFit' /\ SummaryFits'
  BY DEF Kept, ItemsType, PartsFit, PartsOf, SummaryFits, coordinator
<1>3. DraftFits'
  BY DEF Kept, DraftFits, coordinator
<1>4. FeedFits'
  BY DEF Kept, FeedFits, FeedWellFormed, Live, InTurn, coordinator
<1>5. ItemsFit'
  BY DEF Kept, ItemsFit, coordinator
<1>6. EndedOnce'
  BY <1>1 DEF EndedOnce, coordinator
<1> QED  BY <1>2, <1>3, <1>4, <1>5, <1>6 DEF Kept

\* What default_summary publishes when it narrates on draft d.
LEMMA NarrationShows ==
    ASSUME feed \in Feeds, NEW d \in Drafts, d.at # 0, NEW events,
           \/ events = <<>> /\ feed.at = Shown(d)
           \/ events = <<"item.added">> /\ feed.at = "live" /\ ~d.pending,
           Narrate(d, events)
    PROVE  /\ draft' \in Drafts /\ draft'.at = d.at /\ feed' \in Feeds
           /\ feed' = [at |-> Shown(draft'), parts |-> feed.parts + (draft'.parts - d.parts)]
           /\ summary' = "flushing" \/ (summary' = "receiving" /\ draft'.pending)
<1> DEFINE full == accumulated + 1 >= FlushAt
           texted == [d EXCEPT !.pending = TRUE]
           last == IF full THEN <<"part.done">> ELSE <<>>
<1>1. PICK n \in Nat : feed.parts = n /\ feed = [at |-> feed.at, parts |-> n]
  BY FeedFields
<1>2. /\ draft' = IF full THEN SummaryDone(texted) ELSE texted
      /\ summary' = IF full THEN "flushing" ELSE "receiving"
      /\ feed' = Read(feed, (events \o DeltaEvents(d)) \o last)
  BY DEF Narrate, Publish
<1>3. /\ draft' \in Drafts /\ draft'.at = d.at
      /\ full => ~draft'.pending /\ draft'.parts = d.parts + 1
      /\ ~full => draft'.pending /\ draft'.parts = d.parts
  <2>1. CASE full
    <3>1. draft' = SummaryDone(texted)
      BY <2>1, <1>2
    <3>2. draft' = [at |-> d.at, pending |-> FALSE, parts |-> d.parts + 1]
      BY <3>1 DEF SummaryDone, Drafts
    <3> QED  BY <2>1, <3>2 DEF Drafts
  <2>2. CASE ~full
    <3>1. draft' = texted
      BY <2>2, <1>2
    <3>2. draft' = [at |-> d.at, pending |-> TRUE, parts |-> d.parts]
      BY <3>1 DEF Drafts
    <3> QED  BY <2>2, <3>2 DEF Drafts
  <2> QED  BY <2>1, <2>2
<1>4. events \in Seq(Names) /\ Read(feed, events) = [at |-> Shown(d), parts |-> n]
  <2>1. CASE events = <<>> /\ feed.at = Shown(d)
    <3>1. <<>> \in Seq(Names)
      OBVIOUS
    <3> QED  BY <2>1, <3>1, <1>1, ReadEmpty
  <2>2. CASE events = <<"item.added">> /\ feed.at = "live" /\ ~d.pending
    <3>1. events \in Seq(Names)
      <4>1. \A e \in Names : <<e>> \in Seq(Names)
        OBVIOUS
      <4> QED  BY <2>2, <4>1, EventNames
    <3>2. Read(feed, events) = After(feed, "item.added")
      BY <2>2, ReadOne, EventNames
    <3>3. Shown(d) = "item"
      BY <2>2 DEF Shown
    <3> QED  BY <2>2, <3>1, <3>2, <3>3, <1>1, AfterEvents
  <2> QED  BY <2>1, <2>2
<1>5. /\ events \o DeltaEvents(d) \in Seq(Names)
      /\ Read(feed, events \o DeltaEvents(d)) = [at |-> "part", parts |-> n]
  <2>3. ASSUME NEW a \in Names, NEW b \in Names
        PROVE  /\ events \o <<b>> \in Seq(Names)
               /\ Read(feed, events \o <<b>>) = After(Read(feed, events), b)
               /\ events \o <<a, b>> \in Seq(Names)
               /\ Read(feed, events \o <<a, b>>) = After(After(Read(feed, events), a), b)
    <3> HIDE DEF full, texted, last
    <3>1. events \o <<b>> \in Seq(Names) /\ Read(feed, events \o <<b>>) = After(Read(feed, events), b)
      BY <1>4, ReadMore, Zenon
    <3>2. /\ events \o <<a, b>> \in Seq(Names)
          /\ Read(feed, events \o <<a, b>>) = After(After(Read(feed, events), a), b)
      BY <1>4, ReadMore, Zenon
    <3> QED  BY <3>1, <3>2
  <2>1. CASE d.pending
    <3>1. Shown(d) = "part" /\ DeltaEvents(d) = <<"text.delta">>
      BY <2>1 DEF Shown, DeltaEvents
    <3>2. /\ events \o <<"text.delta">> \in Seq(Names)
          /\ Read(feed, events \o <<"text.delta">>) = After(Read(feed, events), "text.delta")
      BY <2>3, EventNames
    <3> QED  BY <3>1, <3>2, <1>4, AfterEvents
  <2>2. CASE ~d.pending
    <3>1. Shown(d) = "item" /\ DeltaEvents(d) = <<"part.added", "text.delta">>
      BY <2>2 DEF Shown, DeltaEvents
    <3>2. /\ events \o <<"part.added", "text.delta">> \in Seq(Names)
          /\ Read(feed, events \o <<"part.added", "text.delta">>)
             = After(After(Read(feed, events), "part.added"), "text.delta")
      BY <2>3, EventNames
    <3>3. Read(feed, events) = [at |-> "item", parts |-> n]
      BY <3>1, <1>4
    <3>4. After(Read(feed, events), "part.added") = [at |-> "part", parts |-> n]
      BY <3>3, AfterEvents
    <3> QED  BY <3>1, <3>2, <3>4, AfterEvents
  <2> QED  BY <2>1, <2>2
<1> DEFINE shown == events \o DeltaEvents(d)
<1> HIDE DEF shown
<1>6. Read(feed, shown \o last) = IF full THEN [at |-> "item", parts |-> n + 1]
                                  ELSE [at |-> "part", parts |-> n]
  <2>1. shown \in Seq(Names) /\ Read(feed, shown) = [at |-> "part", parts |-> n]
    BY <1>5 DEF shown
  <2>2. /\ Read(feed, shown \o <<>>) = Read(feed, shown)
        /\ Read(feed, shown \o <<"part.done">>) = After(Read(feed, shown), "part.done")
    <3>1. feed \in Feeds /\ shown \in Seq(Names) /\ "part.done" \in Names
      BY <2>1, EventNames
    <3> QED  BY <3>1, ReadMore
  <2> QED  BY <2>1, <2>2, AfterEvents
<1>7. feed' = [at |-> Shown(draft'), parts |-> n + (draft'.parts - d.parts)]
  <2>1. d.parts \in Nat
    BY DEF Drafts
  <2>2. CASE full
    BY <2>1, <2>2, <1>2, <1>3, <1>6 DEF shown, Shown
  <2>3. CASE ~full
    BY <2>1, <2>3, <1>2, <1>3, <1>6 DEF shown, Shown
  <2> QED  BY <2>2, <2>3
<1>8. feed' \in Feeds
  BY <1>1, <1>2, <1>6 DEF shown, Feeds
<1> QED  BY <1>1, <1>2, <1>3, <1>7, <1>8

\* The draft's item written again, in memory and in the store.
LEMMA Rewritten ==
    ASSUME Kept, draft.at # 0, NEW item \in Items
    PROVE  /\ draft.at \in 1..Len(output) /\ draft.at \in 1..Len(storedOutput)
           /\ [output EXCEPT ![draft.at] = item] \in Seq(Items)
           /\ [storedOutput EXCEPT ![draft.at] = item] \in Seq(Items)
           /\ Len([output EXCEPT ![draft.at] = item]) = Len(output)
           /\ Len([storedOutput EXCEPT ![draft.at] = item]) = Len(output)
           /\ [output EXCEPT ![draft.at] = item][draft.at] = item
           /\ [storedOutput EXCEPT ![draft.at] = item][draft.at] = item
           /\ \A i \in 1..Len(output) : i # draft.at =>
                 /\ [output EXCEPT ![draft.at] = item][i] = output[i]
                 /\ [storedOutput EXCEPT ![draft.at] = item][i] = storedOutput[i]
           /\ PartsOf([output EXCEPT ![draft.at] = item]) = feed.parts + (item.parts - draft.parts)
<1>1. PICK k \in 0..Len(output) : k = draft.at /\ k # 0 /\ k \in 1..Len(output)
  BY DEF Kept, DraftFits, ItemsType, Drafts
<1>2. PICK a \in Seq(Items) : a = output
  BY DEF Kept, ItemsType
<1>3. PICK b \in Seq(Items) : b = storedOutput /\ Len(b) = Len(a)
  BY <1>2 DEF Kept, ItemsType, ItemsFit
<1>4. a[k].parts = draft.parts /\ feed.parts = PartsOf(a)
  BY <1>1, <1>2 DEF Kept, PartsFit
<1>5. /\ [a EXCEPT ![k] = item] \in Seq(Items) /\ Len([a EXCEPT ![k] = item]) = Len(a)
      /\ [a EXCEPT ![k] = item][k] = item
      /\ \A i \in 1..Len(a) : i # k => [a EXCEPT ![k] = item][i] = a[i]
      /\ PartsOf([a EXCEPT ![k] = item]) = PartsOf(a) + (item.parts - a[k].parts)
  BY <1>1, <1>2, PartsReplace
<1>6. /\ [b EXCEPT ![k] = item] \in Seq(Items) /\ Len([b EXCEPT ![k] = item]) = Len(b)
      /\ [b EXCEPT ![k] = item][k] = item
      /\ \A i \in 1..Len(b) : i # k => [b EXCEPT ![k] = item][i] = b[i]
  BY <1>1, <1>2, <1>3, PartsReplace
<1> QED  BY <1>1, <1>2, <1>3, <1>4, <1>5, <1>6

\* default_summary shows what it has added to the draft.
LEMMA ShownKept ==
    ASSUME Kept, exec \in InGroup, exec' = exec, draft.at # 0,
           draft' \in Drafts, draft'.at = draft.at, output' = ShowParts(output, draft'),
           feed' = [at |-> Shown(draft'), parts |-> feed.parts + (draft'.parts - draft.parts)],
           feed' \in Feeds, UNCHANGED <<reasoningId, storedOutput, status, stored>>, SummaryFits'
    PROVE  Kept'
<1>1. PICK d \in Drafts : d = draft' /\ d.at = draft.at
  OBVIOUS
<1>2. /\ DraftItem(d, "in_progress") \in Items
      /\ DraftItem(d, "in_progress").parts = d.parts
  BY ItemType DEF Drafts
<1>3. PICK new \in Seq(Items) :
          /\ output' = new /\ Len(new) = Len(output)
          /\ new[draft.at].parts = d.parts
          /\ \A i \in 1..Len(output) : i # draft.at => new[i] = output[i]
          /\ PartsOf(new) = feed.parts + (d.parts - draft.parts)
  <2> DEFINE new == [output EXCEPT ![draft.at] = DraftItem(d, "in_progress")]
  <2>1. output' = new
    BY <1>1 DEF ShowParts
  <2>2. /\ new \in Seq(Items) /\ Len(new) = Len(output)
        /\ new[draft.at] = DraftItem(d, "in_progress")
        /\ \A i \in 1..Len(output) : i # draft.at => new[i] = output[i]
        /\ PartsOf(new) = feed.parts + (DraftItem(d, "in_progress").parts - draft.parts)
    BY <1>2, Rewritten
  <2> HIDE DEF new
  <2> QED  BY <1>2, <2>1, <2>2
<1>4. stored \notin Terminal /\ exec \notin {"ending", "over"} /\ exec \in Live
      /\ exec \notin {"accepting", "starting", "emitting", "sealing", "dropping"}
  BY NotTerminal DEF InGroup, InTurn, Live
<1>5. ItemsType'
  BY <1>3 DEF Kept, ItemsType
<1>6. DraftFits'
  BY <1>3, <1>4 DEF Kept, DraftFits
<1>7. FeedFits'
  BY <1>1, <1>4 DEF FeedFits, FeedWellFormed, Shown
<1>8. ItemsFit'
  BY <1>3, <1>4 DEF Kept, ItemsFit
<1>9. PartsFit'
  BY <1>1, <1>3 DEF PartsFit
<1>10. EndedOnce'
  BY <1>4 DEF EndedOnce
<1> QED  BY <1>5, <1>6, <1>7, <1>8, <1>9, <1>10 DEF Kept

\* An item added, in memory and in the store.
LEMMA Added ==
    ASSUME Kept, NEW item \in Items
    PROVE  /\ Append(output, item) \in Seq(Items) /\ Append(storedOutput, item) \in Seq(Items)
           /\ Len(Append(output, item)) = Len(output) + 1
           /\ Len(Append(storedOutput, item)) = Len(output) + 1
           /\ Append(output, item)[Len(output) + 1] = item
           /\ Append(storedOutput, item)[Len(output) + 1] = item
           /\ \A i \in 1..Len(output) : /\ Append(output, item)[i] = output[i]
                                        /\ Append(storedOutput, item)[i] = storedOutput[i]
           /\ PartsOf(Append(output, item)) = feed.parts + item.parts
           /\ Len(output) \in Nat
<1>1. PICK a \in Seq(Items) : a = output
  BY DEF Kept, ItemsType
<1>2. PICK b \in Seq(Items) : b = storedOutput /\ Len(b) = Len(a)
  BY <1>1 DEF Kept, ItemsType, ItemsFit
<1>3. feed.parts = PartsOf(a)
  BY <1>1 DEF Kept, PartsFit
<1>4. /\ Append(a, item) \in Seq(Items) /\ Len(Append(a, item)) = Len(a) + 1
      /\ Append(a, item)[Len(a) + 1] = item
      /\ \A i \in 1..Len(a) : Append(a, item)[i] = a[i]
      /\ PartsOf(Append(a, item)) = PartsOf(a) + item.parts
  BY PartsAppend
<1>5. /\ Append(b, item) \in Seq(Items) /\ Len(Append(b, item)) = Len(b) + 1
      /\ Append(b, item)[Len(b) + 1] = item
      /\ \A i \in 1..Len(b) : Append(b, item)[i] = b[i]
  BY PartsAppend
<1>6. Len(a) \in Nat
  OBVIOUS
<1> QED  BY <1>1, <1>2, <1>3, <1>4, <1>5, <1>6

\* begin_reasoning, by default_summary before the first part.
LEMMA BeginsKept ==
    ASSUME Kept, ChildrenEnd, SummaryBegins
    PROVE  Kept'
<1> DEFINE new == Item("reasoning", "in_progress", 0)
           k == Len(output) + 1
           d == [at |-> k, pending |-> FALSE, parts |-> 0]
<1>1. summary = "beginning" /\ exec \in InGroup /\ exec' = exec /\ draft.at = 0
  BY DEF Kept, SummaryBegins, SummaryFits, ChildrenEnd, ChildrenOver, InGroup, others
<1>2. feed \in Feeds /\ feed.at = "live" /\ exec \in Live
  BY <1>1 DEF Kept, FeedFits, ItemsType, Shown, Live, InGroup
<1>3. /\ new \in Items /\ new.parts = 0 /\ new.status = "in_progress"
  BY DEF Item, Items
<1> HIDE DEF new
<1>4. /\ Append(output, new) \in Seq(Items) /\ Append(storedOutput, new) \in Seq(Items)
      /\ Len(Append(output, new)) = k /\ Len(Append(storedOutput, new)) = k
      /\ Append(output, new)[k] = new
      /\ \A i \in 1..Len(output) : /\ Append(output, new)[i] = output[i]
                                   /\ Append(storedOutput, new)[i] = storedOutput[i]
      /\ PartsOf(Append(output, new)) = feed.parts
      /\ Len(output) \in Nat /\ feed.parts \in Nat
  <2>1. feed.parts \in Nat
    BY <1>2, FeedFields
  <2> QED  BY <1>3, <2>1, Added
<1>5. d \in Drafts /\ d.at # 0 /\ d.at = k /\ ~d.pending /\ d.parts = 0
  BY <1>4 DEF Drafts
<1>6. /\ storedOutput' = Append(storedOutput, new) /\ reasoningId' = k
      /\ Narrate(d, <<"item.added">>)
      /\ output' = ShowParts(Append(output, new), draft')
      /\ UNCHANGED <<cause, status, stored>>
  BY DEF SummaryBegins, new
<1> HIDE DEF d
<1>7. /\ draft' \in Drafts /\ draft'.at = k
      /\ feed' = [at |-> Shown(draft'), parts |-> feed.parts + draft'.parts]
      /\ summary' = "flushing" \/ (summary' = "receiving" /\ draft'.pending)
  <2>1. /\ draft' \in Drafts /\ draft'.at = d.at
        /\ feed' = [at |-> Shown(draft'), parts |-> feed.parts + (draft'.parts - d.parts)]
        /\ summary' = "flushing" \/ (summary' = "receiving" /\ draft'.pending)
    BY <1>2, <1>5, <1>6, NarrationShows
  <2>2. draft'.parts \in Nat
    BY <2>1 DEF Drafts
  <2>3. draft'.parts - d.parts = draft'.parts
    BY <1>5, <2>2
  <2> QED  BY <1>5, <2>1, <2>3
<1>8. PICK e \in Drafts : e = draft' /\ e.at = k
  BY <1>7
<1>9. DraftItem(e, "in_progress") \in Items /\ DraftItem(e, "in_progress").parts = e.parts
  BY ItemType DEF Drafts
<1>10. PICK items \in Seq(Items) :
          /\ output' = items /\ Len(items) = k
          /\ items[k].parts = e.parts
          /\ \A i \in 1..Len(output) : items[i] = output[i]
          /\ PartsOf(items) = feed.parts + e.parts
  <2>1. PICK a \in Seq(Items) : a = Append(output, new)
    BY <1>4
  <2> DEFINE items == [a EXCEPT ![k] = DraftItem(e, "in_progress")]
  <2>2. output' = items
    BY <1>6, <1>8, <2>1 DEF ShowParts
  <2>3. k \in 0..Len(a) /\ k # 0 /\ a[k].parts = 0 /\ e.parts \in Nat
    BY <1>3, <1>4, <2>1, <1>8 DEF Drafts
  <2>4. /\ items \in Seq(Items) /\ Len(items) = Len(a) /\ items[k] = DraftItem(e, "in_progress")
        /\ \A i \in 1..Len(a) : i # k => items[i] = a[i]
        /\ PartsOf(items) = PartsOf(a) + (e.parts - a[k].parts)
    BY <1>9, <2>3, PartsReplace
  <2> HIDE DEF items
  <2>5. PartsOf(items) = feed.parts + e.parts
    BY <1>4, <2>1, <2>3, <2>4
  <2>6. ASSUME NEW i \in 1..Len(output) PROVE items[i] = output[i]
    <3>1. i \in 1..Len(a) /\ i # k
      BY <1>4, <2>1
    <3> QED  BY <1>4, <2>1, <2>4, <3>1
  <2> QED  BY <1>4, <1>9, <2>1, <2>2, <2>4, <2>5, <2>6
<1>11. stored \notin Terminal /\ exec \notin {"ending", "over"}
       /\ exec \notin {"accepting", "starting", "emitting", "sealing", "dropping"}
  BY <1>1, NotTerminal DEF InGroup, InTurn
<1>12. feed' \in Feeds
  BY <1>4, <1>7, <1>8 DEF Feeds, Shown, Drafts
<1>13. ItemsType'
  BY <1>4, <1>6, <1>7, <1>10, <1>12 DEF Kept, ItemsType
<1>14. DraftFits' /\ SummaryFits'
  BY <1>1, <1>4, <1>6, <1>7, <1>10, <1>11 DEF DraftFits, SummaryFits
<1>15. FeedFits'
  BY <1>1, <1>2, <1>7, <1>11 DEF FeedFits, FeedWellFormed, Shown
<1>16. ItemsFit'
  BY <1>1, <1>4, <1>6, <1>7, <1>10, <1>11 DEF Kept, ItemsFit
<1>17. PartsFit'
  BY <1>7, <1>8, <1>10 DEF PartsFit
<1>18. EndedOnce'
  BY <1>6, <1>11 DEF EndedOnce
<1> QED  BY <1>13, <1>14, <1>15, <1>16, <1>17, <1>18 DEF Kept

\* summary_delta.
LEMMA DeltaKept ==
    ASSUME Kept, ChildrenEnd, SummaryTakesDelta
    PROVE  Kept'
<1>1. summary = "receiving" /\ exec \in InGroup /\ exec' = exec /\ draft.at = reasoningId
  BY DEF Kept, SummaryTakesDelta, DraftFits, ChildrenEnd, ChildrenOver, InGroup, InTurn
<1>2. UNCHANGED <<reasoningId, status, stored, storedOutput>>
  BY DEF SummaryTakesDelta
<1>3. CASE (openPart \/ reasoningId # 0) /\ Narrate(draft, <<>>) /\ output' = ShowParts(output, draft')
  <2>1. draft.at # 0
    BY <1>1, <1>3 DEF Kept, SummaryFits, DraftFits, NoDraft
  <2>2. feed \in Feeds /\ draft \in Drafts /\ feed.at = Shown(draft)
    BY <1>1 DEF Kept, ItemsType, FeedFits, Live, InGroup
  <2>3. /\ draft' \in Drafts /\ draft'.at = draft.at /\ feed' \in Feeds
        /\ feed' = [at |-> Shown(draft'), parts |-> feed.parts + (draft'.parts - draft.parts)]
        /\ summary' = "flushing" \/ (summary' = "receiving" /\ draft'.pending)
    BY <1>3, <2>1, <2>2, NarrationShows
  <2>5. SummaryFits'
    BY <2>1, <2>3 DEF SummaryFits
  <2> QED  BY <1>1, <1>2, <1>3, <2>1, <2>3, <2>5, ShownKept
<1>4. CASE /\ ~openPart /\ reasoningId = 0
           /\ summary' \in {"beginning", "over"}
           /\ UNCHANGED <<openPart, draft, output, feed>>
  <2>1. UNCHANGED coordinator
    BY <1>2, <1>4 DEF coordinator
  <2>2. SummaryFits'
    BY <1>1, <1>4 DEF SummaryFits
  <2> QED  BY <1>1, <2>1, <2>2, GroupKept
<1> QED  BY <1>3, <1>4 DEF SummaryTakesDelta

\* summary_done, or nothing to flush.
LEMMA DoneKept ==
    ASSUME Kept, ChildrenEnd, SummaryTakesDone
    PROVE  Kept'
<1>1. summary = "receiving" /\ exec \in InGroup /\ exec' = exec
  BY DEF SummaryTakesDone, ChildrenEnd, ChildrenOver, InGroup
<1>2. UNCHANGED <<cause, openPart, reasoningId, status, stored, storedOutput>>
  BY DEF SummaryTakesDone
<1>3. CASE openPart
  <2>1. draft \in Drafts /\ draft.pending /\ draft.at # 0 /\ feed \in Feeds /\ feed.at = "part"
    BY <1>1, <1>3 DEF Kept, ItemsType, SummaryFits, DraftFits, NoDraft, FeedFits, Shown, Live, InGroup
  <2>2. /\ draft' = [at |-> draft.at, pending |-> FALSE, parts |-> draft.parts + 1]
        /\ draft.parts \in Nat
    BY <1>3, <2>1 DEF SummaryTakesDone, SummaryDone, Drafts
  <2>3. draft' \in Drafts /\ draft'.at = draft.at /\ Shown(draft') = "item"
        /\ draft'.parts - draft.parts = 1
    BY <2>1, <2>2 DEF Drafts, Shown
  <2>4. PICK n \in Nat : feed.parts = n /\ feed = [at |-> "part", parts |-> n]
    BY <2>1, FeedFields
  <2>5. feed' = [at |-> "item", parts |-> n + 1]
    <3>1. feed' = Read(feed, <<"part.done">>)
      BY <1>3 DEF SummaryTakesDone, Publish
    <3>2. feed' = After(feed, "part.done")
      BY <2>1, <3>1, ReadOne, EventNames
    <3> QED  BY <2>4, <3>2, AfterEvents
  <2>6. feed' \in Feeds
    BY <2>5 DEF Feeds
  <2>7. output' = ShowParts(output, draft') /\ summary' = "flushing"
    BY <1>3 DEF SummaryTakesDone
  <2>8. SummaryFits'
    BY <2>1, <2>3, <2>7 DEF SummaryFits
  <2> QED  BY <1>1, <1>2, <2>1, <2>3, <2>4, <2>5, <2>6, <2>7, <2>8, ShownKept
<1>4. CASE ~openPart
  <2>1. UNCHANGED <<draft, output, summary, feed>>
    BY <1>4 DEF SummaryTakesDone
  <2> QED  BY <1>1, <1>2, <2>1, StillKept DEF coordinator
<1> QED  BY <1>3, <1>4

\* The draft written to both, still in progress, with the same parts: save_progress.
LEMMA SavedKept ==
    ASSUME Kept, exec \in Live, exec' \in Live, draft.at # 0, ReplaceDraft("in_progress"),
           exec' = exec \/ exec' = "dropping", exec # "emitting",
           UNCHANGED <<draft, reasoningId, status, stored, feed>>, SummaryFits'
    PROVE  Kept'
<1>1. draft \in Drafts
  BY DEF Kept, ItemsType
<1>2. PICK item \in Items :
         /\ item = DraftItem(draft, "in_progress") /\ item.parts = draft.parts
         /\ item.status = "in_progress"
  BY <1>1, ItemType DEF Drafts
<1>3. /\ output' = [output EXCEPT ![draft.at] = item]
      /\ storedOutput' = [storedOutput EXCEPT ![draft.at] = item]
  BY <1>2 DEF ReplaceDraft
<1>4. /\ output' \in Seq(Items) /\ storedOutput' \in Seq(Items)
      /\ Len(output') = Len(output) /\ Len(storedOutput') = Len(output)
      /\ output'[draft.at] = item /\ draft.at \in 1..Len(output)
      /\ \A i \in 1..Len(output) : i # draft.at =>
            output'[i] = output[i] /\ storedOutput'[i] = storedOutput[i]
      /\ PartsOf(output') = feed.parts + (item.parts - draft.parts)
  BY <1>2, <1>3, Rewritten
<1>5. PartsOf(output') = feed.parts
  <2>1. feed.parts \in Nat /\ draft.parts \in Nat
    BY <1>1, FeedFields DEF Kept, ItemsType, Drafts
  <2> QED  BY <1>2, <1>4, <2>1
<1>6. stored \notin Terminal /\ exec \notin {"ending", "over", "accepting", "starting"}
      /\ exec' \notin {"ending", "over", "accepting", "starting", "emitting"}
  BY NotTerminal DEF Live, InTurn
<1>7. ItemsType'
  BY <1>4 DEF Kept, ItemsType
<1>8. DraftFits'
  BY <1>4, <1>6 DEF Kept, DraftFits
<1>9. FeedFits'
  BY <1>6 DEF Kept, FeedFits, FeedWellFormed, Shown
<1>10. ItemsFit'
  BY <1>4, <1>6 DEF Kept, ItemsFit
<1>11. PartsFit'
  BY <1>2, <1>4, <1>5 DEF PartsFit
<1>12. EndedOnce'
  BY <1>6 DEF EndedOnce
<1> QED  BY <1>7, <1>8, <1>9, <1>10, <1>11, <1>12 DEF Kept

\* A flush brings the store to the parts that the memory and the feed already have.
LEMMA FlushKept ==
    ASSUME Kept, ChildrenEnd, SummarySaves
    PROVE  Kept'
<1>1. summary = "flushing" /\ exec \in InGroup /\ exec' = exec /\ draft.at # 0
  BY DEF Kept, SummaryFits, SummarySaves, ChildrenEnd, ChildrenOver, InGroup, others
<1>2. exec \in Live /\ exec # "emitting"
  BY <1>1 DEF Live, InGroup, InTurn
<1>3. /\ ReplaceDraft("in_progress") /\ ~openPart' /\ summary' = "receiving"
      /\ UNCHANGED <<draft, reasoningId, status, stored, feed>>
  BY DEF SummarySaves
<1>4. SummaryFits'
  BY <1>3 DEF SummaryFits
<1> QED  BY <1>1, <1>2, <1>3, <1>4, SavedKept

-----------------------------------------------------------------------------
(* The executor's writes.                                                  *)

\* _accept_response, created and in_progress.
LEMMA AcceptKept ==
    ASSUME Kept, ChildrenEnd, Accept
    PROVE  Kept'
<1>1. PICK n \in Nat : feed.parts = n /\ feed = [at |-> "new", parts |-> n] /\ feed \in Feeds
  BY FeedFields DEF Kept, ItemsType, FeedFits, Accept
<1>2. feed' = [at |-> "created", parts |-> n]
  <2>1. feed' = After(feed, "created")
    BY <1>1, ReadOne, EventNames DEF Accept, Publish
  <2> QED  BY <1>1, <2>1, AfterEvents
<1>3. /\ exec = "accepting" /\ exec' = "starting" /\ stored' = "in_progress"
      /\ UNCHANGED <<draft, reasoningId, output, status, storedOutput, summary, openPart>>
  BY DEF Accept, summaryVars
<1>4. ItemsType'
  BY <1>2, <1>3 DEF Kept, ItemsType, Feeds
<1>5. DraftFits' /\ SummaryFits'
  BY <1>3 DEF Kept, DraftFits, SummaryFits
<1>6. FeedFits'
  BY <1>2, <1>3 DEF FeedFits, FeedWellFormed, Live, InTurn
<1>7. ItemsFit'
  BY <1>3 DEF Kept, ItemsFit
<1>8. PartsFit'
  BY <1>1, <1>2, <1>3 DEF Kept, PartsFit, PartsOf
<1>9. EndedOnce'
  BY <1>3 DEF EndedOnce, Terminal
<1> QED  BY <1>4, <1>5, <1>6, <1>7, <1>8, <1>9 DEF Kept

\* The start announces the response and leaves items and draft alone.
LEMMA StartKept ==
    ASSUME Kept, ChildrenEnd, FlushDue, Start
    PROVE  Kept'
<1>1. PICK n \in Nat : feed.parts = n /\ feed = [at |-> "created", parts |-> n] /\ feed \in Feeds
  BY FeedFields DEF Kept, ItemsType, FeedFits, Start
<1>2. feed' = [at |-> "live", parts |-> n]
  <2>1. feed' = After(feed, "in_progress")
    BY <1>1, ReadOne, EventNames DEF Start, Publish
  <2> QED  BY <1>1, <2>1, AfterEvents
<1>3. /\ exec = "starting" /\ exec' \in {"committing", "opening"} /\ ~openPart /\ draft.at = 0
      /\ summary' \in {"over", "receiving"}
      /\ UNCHANGED <<draft, reasoningId, output, status, stored, storedOutput, openPart>>
  BY DEF Start, FlushDue, ChildrenEnd, ChildrenOver, InTurn, Kept, DraftFits
<1>4. ItemsType'
  BY <1>2, <1>3 DEF Kept, ItemsType, Feeds
<1>5. DraftFits' /\ SummaryFits'
  BY <1>3 DEF Kept, DraftFits, SummaryFits
<1>6. FeedFits'
  BY <1>2, <1>3 DEF FeedFits, FeedWellFormed, Live, InTurn, Shown
<1>7. ItemsFit'
  BY <1>3 DEF Kept, ItemsFit
<1>8. PartsFit'
  BY <1>1, <1>2, <1>3 DEF Kept, PartsFit, PartsOf
<1>9. EndedOnce'
  BY <1>3 DEF Kept, EndedOnce
<1> QED  BY <1>4, <1>5, <1>6, <1>7, <1>8, <1>9 DEF Kept

\* begin_reasoning, by a commit or a save that finds no item.
LEMMA BegunKept ==
    ASSUME Kept, exec \in Live, exec' \in {"sealing", "dropping"}, draft.at = 0,
           BeginReasoning, Publish(<<"item.added">>), UNCHANGED <<status, stored>>, summary' = "over"
    PROVE  Kept'
<1> DEFINE new == Item("reasoning", "in_progress", 0)
           k == Len(output) + 1
<1>1. PICK n \in Nat : feed.parts = n /\ feed = [at |-> "live", parts |-> n] /\ feed \in Feeds
  BY FeedFields DEF Kept, ItemsType, FeedFits, Shown
<1>2. feed' = [at |-> "item", parts |-> n]
  <2>1. feed' = After(feed, "item.added")
    BY <1>1, ReadOne, EventNames DEF Publish
  <2> QED  BY <1>1, <2>1, AfterEvents
<1>3. new \in Items /\ new.parts = 0
  BY DEF Item, Items
<1>4. /\ output' = Append(output, new) /\ storedOutput' = Append(storedOutput, new)
      /\ draft' = [at |-> k, pending |-> FALSE, parts |-> 0] /\ reasoningId' = k
  BY DEF BeginReasoning
<1> HIDE DEF new
<1>5. /\ output' \in Seq(Items) /\ storedOutput' \in Seq(Items)
      /\ Len(output') = k /\ Len(storedOutput') = k /\ output'[k] = new /\ storedOutput'[k] = new
      /\ \A i \in 1..Len(output) : output'[i] = output[i] /\ storedOutput'[i] = storedOutput[i]
      /\ PartsOf(output') = n + new.parts
      /\ Len(output) \in Nat
  BY <1>1, <1>3, <1>4, Added
<1>6. /\ stored \notin Terminal
      /\ exec \notin {"ending", "over"} /\ exec' \in Live
      /\ exec' \notin {"accepting", "starting", "emitting", "ending", "over"}
  BY NotTerminal DEF Live, InTurn
<1>7. ItemsType'
  BY <1>2, <1>4, <1>5 DEF Kept, ItemsType, Feeds, Drafts
<1>8. DraftFits' /\ SummaryFits'
  BY <1>4, <1>5, <1>6 DEF DraftFits, SummaryFits
<1>9. FeedFits'
  <2>1. Shown(draft') = "item"
    BY <1>4, <1>5 DEF Shown
  <2> QED  BY <1>2, <1>6, <2>1 DEF FeedFits, FeedWellFormed
<1>10. ItemsFit'
  BY <1>4, <1>5, <1>6 DEF Kept, ItemsFit
<1>11. PartsFit'
  BY <1>2, <1>3, <1>4, <1>5 DEF PartsFit
<1>12. EndedOnce'
  BY <1>6 DEF EndedOnce
<1> QED  BY <1>7, <1>8, <1>9, <1>10, <1>11, <1>12 DEF Kept

\* A commit that opens a draft adds its item to the memory, the store and the feed.
LEMMA CommitKept ==
    ASSUME Kept, ChildrenEnd, Commit
    PROVE  Kept'
<1>1. /\ exec = "committing" /\ exec \in Live /\ summary = "over" /\ summary' = "over"
      /\ UNCHANGED <<status, stored>> /\ draft.at = reasoningId
  BY DEF Commit, ended, summaryVars, ChildrenEnd, ChildrenOver, Live, InTurn, Kept, DraftFits
<1>2. SummaryFits'
  BY <1>1 DEF SummaryFits
<1>3. CASE /\ exec' = "emitting" \/ exec' = "sealing"
           /\ exec' = "emitting" => reasoningId = 0
           /\ exec' = "sealing" => reasoningId # 0
           /\ UNCHANGED <<draft, reasoningId, output, storedOutput, feed>>
  BY <1>1, <1>2, <1>3, QuietKept DEF coordinator, Live
<1>4. CASE reasoningId = 0 /\ BeginReasoning /\ Publish(<<"item.added">>) /\ exec' = "sealing"
  BY <1>1, <1>4, BegunKept
<1> QED  BY <1>3, <1>4 DEF Commit

\* The draft's item written for the last time, and the draft dropped.
LEMMA DroppedKept ==
    ASSUME Kept, exec \in Live, draft.at # 0, exec' \in {"emitting", "ending"}, NEW item \in Items,
           output' = [output EXCEPT ![draft.at] = item],
           storedOutput' = [storedOutput EXCEPT ![draft.at] = item],
           item.status = "in_progress" => cause = "cancel" /\ exec' = "ending",
           draft' = NoDraft, reasoningId' \in {0, reasoningId}, exec' = "emitting" => reasoningId' = 0,
           feed' \in Feeds, feed'.parts = feed.parts + (item.parts - draft.parts),
           feed'.at = "live" \/ (exec' = "ending" /\ cause = "cancel" /\ feed'.at \in {"item", "part"}),
           UNCHANGED <<cause, status, stored>>, summary' = "over"
    PROVE  Kept'
<1>1. /\ output' \in Seq(Items) /\ storedOutput' \in Seq(Items)
      /\ Len(output') = Len(output) /\ Len(storedOutput') = Len(output)
      /\ output'[draft.at] = item /\ storedOutput'[draft.at] = item
      /\ \A i \in 1..Len(output) : i # draft.at =>
            output'[i] = output[i] /\ storedOutput'[i] = storedOutput[i]
      /\ PartsOf(output') = feed.parts + (item.parts - draft.parts)
  BY Rewritten
<1>2. NoDraft \in Drafts /\ NoDraft.at = 0
  BY DEF NoDraft, Drafts
<1>3. /\ stored \notin Terminal /\ exec \notin {"ending", "over", "accepting", "starting"}
      /\ exec' \notin {"over", "accepting", "starting", "sealing", "dropping"}
  BY NotTerminal DEF Live, InTurn
<1>4. ItemsType'
  BY <1>1, <1>2 DEF Kept, ItemsType
<1>5. DraftFits' /\ SummaryFits'
  BY <1>1, <1>2, <1>3 DEF DraftFits, SummaryFits, Kept, ItemsType
<1>6. FeedFits'
  BY <1>2, <1>3 DEF FeedFits, FeedWellFormed, Shown, Live, InTurn
<1>7. ItemsFit'
  <2>1. ASSUME NEW i \in 1..Len(output), storedOutput'[i] # output'[i] PROVE FALSE
    BY <2>1, <1>1 DEF Kept, ItemsFit
  <2>2. ASSUME NEW i \in 1..Len(output), storedOutput'[i].status = "in_progress"
        PROVE  cause = "cancel" /\ exec' = "ending"
    BY <2>2, <1>1, <1>3 DEF Kept, ItemsFit
  <2> QED  BY <1>1, <1>2, <2>1, <2>2 DEF ItemsFit
<1>8. PartsFit'
  BY <1>1, <1>2 DEF PartsFit
<1>9. EndedOnce'
  BY <1>3 DEF EndedOnce
<1> QED  BY <1>4, <1>5, <1>6, <1>7, <1>8, <1>9 DEF Kept

\* finish_reasoning.
LEMMA SealedKept ==
    ASSUME Kept, ChildrenEnd, FinishReasoning
    PROVE  Kept'
<1>1. /\ exec = "sealing" /\ exec \in Live /\ exec' = "emitting" /\ ~draft.pending
      /\ summary' = "over" /\ UNCHANGED <<cause, status, stored>> /\ draft.at # 0
      /\ draft \in Drafts /\ draft' = NoDraft /\ reasoningId' = 0
  BY DEF FinishReasoning, ended, summaryVars, ChildrenEnd, ChildrenOver, Live, InTurn, Kept,
         DraftFits, ItemsType
<1>2. PICK item \in Items :
         /\ item = DraftItem(draft, "completed") /\ item.parts = draft.parts
         /\ item.status = "completed"
  BY <1>1, ItemType DEF Drafts
<1>3. /\ output' = [output EXCEPT ![draft.at] = item]
      /\ storedOutput' = [storedOutput EXCEPT ![draft.at] = item]
  BY <1>2 DEF FinishReasoning, ReplaceDraft
<1>4. PICK n \in Nat : feed.parts = n /\ feed = [at |-> "item", parts |-> n] /\ feed \in Feeds
  BY <1>1, FeedFields DEF Kept, ItemsType, FeedFits, Shown
<1>5. feed' = [at |-> "live", parts |-> n]
  <2>1. feed' = After(feed, "item.done")
    BY <1>4, ReadOne, EventNames DEF FinishReasoning, Publish
  <2> QED  BY <1>4, <2>1, AfterEvents
<1>6. feed' \in Feeds /\ feed'.parts = feed.parts + (item.parts - draft.parts) /\ feed'.at = "live"
  <2>1. draft.parts \in Nat
    BY <1>1 DEF Drafts
  <2> QED  BY <1>2, <1>4, <1>5, <2>1 DEF Feeds
<1> QED  BY <1>1, <1>2, <1>3, <1>6, DroppedKept

\* A save of progress stores the draft that is open, or opens one and announces it.
LEMMA SaveKept ==
    ASSUME Kept, ChildrenEnd, SaveProgress
    PROVE  Kept'
<1>1. /\ exec = "saving" /\ exec \in Live /\ summary = "over" /\ summary' = "over"
      /\ UNCHANGED <<cause, status, stored>> /\ draft.at = reasoningId
      /\ exec' = IF draft' = NoDraft THEN "ending" ELSE "dropping"
  BY DEF SaveProgress, ended, summaryVars, ChildrenEnd, ChildrenOver, Live, InTurn, Kept, DraftFits
<1>2. SummaryFits' <=> TRUE
  BY <1>1 DEF SummaryFits
<1>3. CASE reasoningId # 0
  <2>1. ReplaceDraft("in_progress") /\ UNCHANGED <<draft, reasoningId, feed>>
    BY <1>3 DEF SaveProgress
  <2>2. draft # NoDraft
    BY <1>1, <1>3 DEF NoDraft
  <2>3. exec' = "dropping" /\ exec' \in Live /\ exec # "emitting"
    BY <1>1, <2>1, <2>2 DEF Live
  <2> QED  BY <1>1, <1>2, <1>3, <2>1, <2>3, SavedKept
<1>4. CASE reasoningId = 0 /\ HasUpdate
  <2>1. BeginReasoning /\ Publish(<<"item.added">>)
    BY <1>4 DEF SaveProgress
  <2>2. draft'.at = Len(output) + 1 /\ Len(output) \in Nat
    BY <2>1 DEF BeginReasoning, Kept, ItemsType
  <2>3. exec' = "dropping"
    BY <1>1, <2>2 DEF NoDraft
  <2> QED  BY <1>1, <1>4, <2>1, <2>3, BegunKept
<1>5. CASE reasoningId = 0 /\ ~HasUpdate
  <2>1. UNCHANGED coordinator /\ draft' = NoDraft /\ draft = NoDraft
    BY <1>1, <1>5 DEF SaveProgress, coordinator, Kept, DraftFits
  <2>2. exec' = "ending" /\ draft.at = 0 /\ draft'.at = 0
    BY <1>1, <1>5, <2>1
  <2>3. stored \notin Terminal
    BY <1>1, NotTerminal
  <2>4. ItemsType' /\ PartsFit'
    BY <2>1 DEF Kept, ItemsType, PartsFit, PartsOf, coordinator
  <2>5. DraftFits'
    BY <2>1, <2>2 DEF Kept, DraftFits, coordinator
  <2>6. FeedFits'
    BY <1>1, <2>1, <2>2 DEF Kept, FeedFits, FeedWellFormed, Shown, Live, InTurn, coordinator
  <2>7. ItemsFit'
    BY <1>1, <2>1, <2>2 DEF Kept, ItemsFit, coordinator
  <2>8. EndedOnce'
    BY <2>1, <2>3 DEF EndedOnce, coordinator
  <2> QED  BY <1>2, <2>4, <2>5, <2>6, <2>7, <2>8 DEF Kept
<1> QED  BY <1>3, <1>4, <1>5

\* The draft in cancelled(), and in failed().
LEMMA DropKept ==
    ASSUME Kept, ChildrenEnd, DropDraft
    PROVE  Kept'
<1>1. /\ exec = "dropping" /\ exec \in Live /\ exec' = "ending" /\ cause = "cancel"
      /\ summary' = "over" /\ UNCHANGED <<cause, reasoningId, status, stored, feed>>
      /\ draft.at # 0 /\ draft \in Drafts /\ draft' = NoDraft
  BY DEF DropDraft, ended, summaryVars, ChildrenEnd, ChildrenOver, Live, InTurn, Kept, DraftFits,
         ItemsType
<1>2. PICK item \in Items :
         item = DraftItem(draft, "in_progress") /\ item.parts = draft.parts
  BY <1>1, ItemType DEF Drafts
<1>3. /\ output' = [output EXCEPT ![draft.at] = item]
      /\ storedOutput' = [storedOutput EXCEPT ![draft.at] = item]
  BY <1>2 DEF DropDraft, ReplaceDraft
<1>4. /\ feed' \in Feeds /\ feed'.parts = feed.parts + (item.parts - draft.parts)
      /\ feed'.at \in {"item", "part"}
  <2>1. feed.parts \in Nat /\ draft.parts \in Nat /\ feed \in Feeds /\ feed.at \in {"item", "part"}
    BY <1>1, FeedFields DEF Drafts, Kept, ItemsType, FeedFits, Shown
  <2> QED  BY <1>1, <1>2, <2>1
<1> QED  BY <1>1, <1>2, <1>3, <1>4, DroppedKept

\* A turn that fails leaves its draft's item incomplete, in the memory and the store.
LEMMA FailKept ==
    ASSUME Kept, ChildrenEnd, FailDraft
    PROVE  Kept'
<1> DEFINE d == IF draft.pending THEN SummaryDone(draft) ELSE draft
<1>1. /\ exec = "dropping" /\ exec \in Live /\ exec' = "ending"
      /\ summary' = "over" /\ UNCHANGED <<cause, reasoningId, status, stored>>
      /\ draft.at # 0 /\ draft \in Drafts /\ draft' = NoDraft
  BY DEF FailDraft, ended, summaryVars, ChildrenEnd, ChildrenOver, Live, InTurn, Kept, DraftFits,
         ItemsType
<1>2. /\ draft.pending => d = [at |-> draft.at, pending |-> FALSE, parts |-> draft.parts + 1]
      /\ ~draft.pending => d = draft
      /\ d \in Drafts /\ draft.parts \in Nat
  <2>1. CASE draft.pending
    <3>1. d = SummaryDone(draft)
      BY <2>1
    <3>2. d = [at |-> draft.at, pending |-> FALSE, parts |-> draft.parts + 1]
      BY <1>1, <3>1 DEF SummaryDone, Drafts
    <3> HIDE DEF d
    <3> QED  BY <1>1, <2>1, <3>2 DEF Drafts
  <2>2. CASE ~draft.pending
    BY <1>1, <2>2 DEF Drafts
  <2> QED  BY <2>1, <2>2
<1>3. PICK item \in Items :
         item = DraftItem(d, "incomplete") /\ item.parts = d.parts /\ item.status = "incomplete"
  BY <1>2, ItemType DEF Drafts
<1>4. /\ output' = [output EXCEPT ![draft.at] = item]
      /\ storedOutput' = [storedOutput EXCEPT ![draft.at] = item]
      /\ Publish((IF draft.pending THEN <<"part.done">> ELSE <<>>) \o <<"item.done">>)
  BY <1>3 DEF FailDraft
<1>5. PICK n \in Nat : feed.parts = n /\ feed = [at |-> feed.at, parts |-> n] /\ feed \in Feeds
  BY FeedFields DEF Kept, ItemsType
<1>6. feed' = [at |-> "live", parts |-> n + (d.parts - draft.parts)]
  <2>1. CASE draft.pending
    <3>1. feed = [at |-> "part", parts |-> n]
      BY <1>1, <1>5, <2>1 DEF Kept, FeedFits, Shown
    <3>2. Read(feed, <<"part.done">>) = [at |-> "item", parts |-> n + 1]
      <4>1. Read(feed, <<"part.done">>) = After(feed, "part.done")
        BY <1>5, ReadOne, EventNames
      <4> QED  BY <3>1, <4>1, AfterEvents
    <3>3. feed' = After(Read(feed, <<"part.done">>), "item.done")
      <4>1. feed \in Feeds /\ <<"part.done">> \in Seq(Names) /\ "item.done" \in Names
        BY <1>5, Pairs, EventNames
      <4>2. Read(feed, <<"part.done">> \o <<"item.done">>)
            = After(Read(feed, <<"part.done">>), "item.done")
        BY <4>1, ReadMore
      <4> QED  BY <1>4, <2>1, <4>2 DEF Publish
    <3>4. n + (d.parts - draft.parts) = n + 1 /\ n + 1 \in Nat
      BY <1>2, <2>1
    <3> HIDE DEF d
    <3> QED  BY <3>2, <3>3, <3>4, AfterEvents
  <2>2. CASE ~draft.pending
    <3>1. feed = [at |-> "item", parts |-> n]
      BY <1>1, <1>5, <2>2 DEF Kept, FeedFits, Shown
    <3>2. feed' = After(Read(feed, <<>>), "item.done")
      <4>1. feed \in Feeds /\ <<>> \in Seq(Names) /\ "item.done" \in Names
        BY <1>5, EventNames
      <4>2. Read(feed, <<>> \o <<"item.done">>) = After(Read(feed, <<>>), "item.done")
        BY <4>1, ReadMore
      <4> QED  BY <1>4, <2>2, <4>2 DEF Publish
    <3>3. Read(feed, <<>>) = feed /\ n + (d.parts - draft.parts) = n
      BY <1>2, <1>5, <2>2, ReadEmpty
    <3> HIDE DEF d
    <3> QED  BY <3>1, <3>2, <3>3, AfterEvents
  <2> QED  BY <2>1, <2>2
<1>7. feed' \in Feeds /\ feed'.parts = feed.parts + (item.parts - draft.parts) /\ feed'.at = "live"
  BY <1>2, <1>3, <1>5, <1>6 DEF Feeds, Drafts
<1> QED  BY <1>1, <1>3, <1>4, <1>7, DroppedKept

\* emit.
LEMMA EmitKept ==
    ASSUME Kept, ChildrenEnd, Emit
    PROVE  Kept'
<1> DEFINE new == Item("visible", "completed", 0)
           k == Len(output) + 1
<1>1. /\ exec = "emitting" /\ exec' = exec /\ draft.at = 0 /\ summary' = "over"
      /\ UNCHANGED <<cause, draft, reasoningId, status, stored>>
  BY DEF Emit, ended, summaryVars, ChildrenEnd, ChildrenOver, InTurn, Kept, DraftFits
<1>2. PICK n \in Nat : feed.parts = n /\ feed = [at |-> "live", parts |-> n] /\ feed \in Feeds
  BY <1>1, FeedFields DEF Kept, ItemsType, FeedFits, Shown, Live
<1>3. feed' = [at |-> "live", parts |-> n]
  <2>1. feed' = After(After(feed, "item.added"), "item.done")
    <3>1. ASSUME NEW a \in Names, NEW b \in Names PROVE Read(feed, <<a, b>>) = After(After(feed, a), b)
      BY <1>2, ReadTwo
    <3>2. feed' = Read(feed, <<"item.added", "item.done">>)
      BY DEF Emit, Publish
    <3> QED  BY <3>1, <3>2, EventNames
  <2> QED  BY <1>2, <2>1, AfterEvents
<1>4. new \in Items /\ new.parts = 0 /\ new.status = "completed"
  BY DEF Item, Items
<1>5. output' = Append(output, new) /\ storedOutput' = Append(storedOutput, new)
  BY DEF Emit
<1> HIDE DEF new
<1>6. /\ output' \in Seq(Items) /\ storedOutput' \in Seq(Items)
      /\ Len(output') = k /\ Len(storedOutput') = k /\ output'[k] = new /\ storedOutput'[k] = new
      /\ \A i \in 1..Len(output) : output'[i] = output[i] /\ storedOutput'[i] = storedOutput[i]
      /\ PartsOf(output') = n + new.parts
      /\ Len(output) \in Nat
  BY <1>2, <1>4, <1>5, Added
<1>7. stored \notin Terminal
  BY <1>1, NotTerminal
<1>8. ItemsType'
  BY <1>1, <1>3, <1>6 DEF Kept, ItemsType, Feeds
<1>9. DraftFits' /\ SummaryFits'
  BY <1>1, <1>6 DEF Kept, DraftFits, SummaryFits
<1>10. FeedFits'
  BY <1>1, <1>3 DEF FeedFits, FeedWellFormed, Shown
<1>11. ItemsFit'
  BY <1>1, <1>4, <1>6 DEF Kept, ItemsFit
<1>12. PartsFit'
  BY <1>1, <1>3, <1>4, <1>6 DEF PartsFit
<1>13. EndedOnce'
  BY <1>1, <1>7 DEF EndedOnce
<1> QED  BY <1>8, <1>9, <1>10, <1>11, <1>12, <1>13 DEF Kept

\* The terminal status and its event.
LEMMA FinalKept ==
    ASSUME Kept, exec \in {"emitting", "ending"}, draft.at = 0, NEW st \in Terminal, NEW event \in Names,
           Final(st, event), cause = "cancel" => st = "cancelled",
           \/ event = "terminal" /\ feed.at = "live"
           \/ event = "cancelled" /\ feed.at \in {"live", "item", "part"},
           UNCHANGED <<cause, draft, reasoningId, output, storedOutput>>, summary' = "over"
    PROVE  Kept'
<1>1. PICK n \in Nat : feed.parts = n /\ feed = [at |-> feed.at, parts |-> n] /\ feed \in Feeds
  BY FeedFields DEF Kept, ItemsType
<1>2. feed' = [at |-> "over", parts |-> n]
  <2>1. feed' = After(feed, event)
    BY <1>1, ReadOne DEF Final, Publish
  <2> QED  BY <1>1, <2>1, AfterEvents
<1>3. exec' = "over" /\ stored' = st /\ status' = st
  BY DEF Final
<1>4. ItemsType'
  BY <1>2, <1>3 DEF Kept, ItemsType, Feeds
<1>5. DraftFits' /\ SummaryFits'
  BY <1>3 DEF Kept, DraftFits, SummaryFits
<1>6. FeedFits'
  BY <1>2, <1>3 DEF FeedFits, FeedWellFormed, Live, InTurn
<1>7. ItemsFit'
  BY <1>3 DEF Kept, ItemsFit
<1>8. PartsFit'
  BY <1>1, <1>2 DEF Kept, PartsFit, PartsOf
<1>9. EndedOnce'
  BY <1>3 DEF EndedOnce
<1> QED  BY <1>4, <1>5, <1>6, <1>7, <1>8, <1>9 DEF Kept

\* The response ends completed or incomplete only when no draft is left open.
LEMMA FinishKept ==
    ASSUME Kept, ChildrenEnd, CommitsWithoutError, Finish
    PROVE  Kept'
<1> DEFINE st == IF cause = "budget" \/ result = "length" THEN "incomplete" ELSE "completed"
<1>1. /\ exec = "emitting" /\ draft.at = 0 /\ cause # "cancel" /\ summary' = "over"
      /\ UNCHANGED <<cause, draft, reasoningId, output, storedOutput>>
  BY DEF Finish, ended, summaryVars, ChildrenEnd, ChildrenOver, InTurn, Kept, DraftFits,
         CommitsWithoutError
<1>2. feed.at = "live"
  BY <1>1 DEF Kept, FeedFits, Shown, Live
<1>3. st \in Terminal /\ Final(st, "terminal")
  BY DEF Finish, Terminal
<1> HIDE DEF st
<1> QED  BY <1>1, <1>2, <1>3, FinalKept, EventNames

\* A response ends cancelled or failed only after its draft was dropped.
LEMMA StopKept ==
    ASSUME Kept, ChildrenEnd, Stop
    PROVE  Kept'
<1>1. /\ exec = "ending" /\ draft.at = 0 /\ summary' = "over"
      /\ UNCHANGED <<cause, draft, reasoningId, output, storedOutput>>
      /\ feed.at = "live" \/ (cause = "cancel" /\ feed.at \in {"item", "part"})
  BY DEF Stop, ended, summaryVars, ChildrenEnd, ChildrenOver, InTurn, Kept, DraftFits, FeedFits
<1>2. "cancelled" \in Terminal /\ "failed" \in Terminal
  BY DEF Terminal
<1>3. CASE cause = "cancel" /\ Final("cancelled", "cancelled")
  BY <1>1, <1>2, <1>3, FinalKept, EventNames
<1>4. CASE cause # "cancel" /\ Final("failed", "terminal")
  BY <1>1, <1>2, <1>4, FinalKept, EventNames
<1> QED  BY <1>3, <1>4 DEF Stop

\* Every step keeps the draft, the items and the feed in agreement.
LEMMA KeptStep ==
    ASSUME Kept, ChildrenEnd, FlushDue, CommitsWithoutError, Next
    PROVE  Kept'

<1>1. CASE Accept
  BY <1>1, AcceptKept
<1>2. CASE Start
  BY <1>2, StartKept
<1>3. CASE OpenAttempt
  <2>1. /\ exec \in InGroup /\ exec' \in InGroup \cup {"committing", "saving"} /\ UNCHANGED coordinator
        /\ UNCHANGED <<summary, openPart>>
    BY <1>3 DEF OpenAttempt, InGroup, InTurn, summaryVars
  <2>2. SummaryFits'
    BY <2>1 DEF Kept, SummaryFits, coordinator
  <2> QED  BY <2>1, <2>2, GroupKept
<1>4. CASE NoAttempt
  <2>1. /\ exec \in InGroup /\ exec' \in InGroup \cup {"committing", "saving"} /\ UNCHANGED coordinator
        /\ UNCHANGED <<summary, openPart>>
    BY <1>4 DEF NoAttempt, Leave, InGroup, InTurn, summaryVars
  <2>2. SummaryFits'
    BY <2>1 DEF Kept, SummaryFits, coordinator
  <2> QED  BY <2>1, <2>2, GroupKept
<1>5. CASE LastDelta
  <2>1. /\ exec \in InGroup /\ exec' \in InGroup \cup {"committing", "saving"} /\ UNCHANGED coordinator
        /\ UNCHANGED <<summary, openPart>>
    BY <1>5 DEF LastDelta, InGroup, InTurn, summaryVars
  <2>2. SummaryFits'
    BY <2>1 DEF Kept, SummaryFits, coordinator
  <2> QED  BY <2>1, <2>2, GroupKept
<1>6. CASE ProviderFails
  <2>1. /\ exec \in InGroup /\ exec' \in InGroup \cup {"committing", "saving"} /\ UNCHANGED coordinator
        /\ UNCHANGED <<summary, openPart>>
    BY <1>6 DEF ProviderFails, Leave, InGroup, InTurn, summaryVars
  <2>2. SummaryFits'
    BY <2>1 DEF Kept, SummaryFits, coordinator
  <2> QED  BY <2>1, <2>2, GroupKept
<1>7. CASE Interrupted
  <2>1. /\ exec \in InGroup /\ exec' \in InGroup \cup {"committing", "saving"} /\ UNCHANGED coordinator
        /\ UNCHANGED <<summary, openPart>>
    BY <1>7 DEF Interrupted, InGroup, InTurn, summaryVars
  <2>2. SummaryFits'
    BY <2>1 DEF Kept, SummaryFits, coordinator
  <2> QED  BY <2>1, <2>2, GroupKept
<1>8. CASE Reject
  <2>1. /\ exec \in InGroup /\ exec' \in InGroup \cup {"committing", "saving"} /\ UNCHANGED coordinator
        /\ UNCHANGED <<summary, openPart>>
    BY <1>8 DEF Reject, InGroup, InTurn, summaryVars
  <2>2. SummaryFits'
    BY <2>1 DEF Kept, SummaryFits, coordinator
  <2> QED  BY <2>1, <2>2, GroupKept
<1>9. CASE AcceptResult
  <2>1. /\ exec \in InGroup /\ exec' \in InGroup \cup {"committing", "saving"} /\ UNCHANGED coordinator
        /\ UNCHANGED <<summary, openPart>>
    BY <1>9 DEF AcceptResult, InGroup, InTurn, summaryVars
  <2>2. SummaryFits'
    BY <2>1 DEF Kept, SummaryFits, coordinator
  <2> QED  BY <2>1, <2>2, GroupKept
<1>10. CASE Send
  <2>1. /\ exec \in InGroup /\ exec' \in InGroup \cup {"committing", "saving"} /\ UNCHANGED coordinator
        /\ UNCHANGED <<summary, openPart>>
    BY <1>10 DEF Send, InGroup, InTurn, summaryVars
  <2>2. SummaryFits'
    BY <2>1 DEF Kept, SummaryFits, coordinator
  <2> QED  BY <2>1, <2>2, GroupKept
<1>11. CASE ChildRaised
  <2>1. /\ exec \in InGroup /\ exec' \in InGroup \cup {"committing", "saving"} /\ UNCHANGED coordinator
        /\ UNCHANGED <<summary, openPart>>
    BY <1>11 DEF ChildRaised, Leave, InGroup, InTurn, summaryVars
  <2>2. SummaryFits'
    BY <2>1 DEF Kept, SummaryFits, coordinator
  <2> QED  BY <2>1, <2>2, GroupKept
<1>12. CASE EndTurn
  <2>1. /\ exec \in InGroup /\ exec' \in InGroup \cup {"committing", "saving"} /\ UNCHANGED coordinator
        /\ UNCHANGED <<summary, openPart>>
    BY <1>12 DEF EndTurn, InGroup, InTurn, summaryVars
  <2>2. SummaryFits'
    BY <2>1 DEF Kept, SummaryFits, coordinator
  <2> QED  BY <2>1, <2>2, GroupKept
<1>13. CASE NextTurn
  <2>1. /\ exec \in InGroup /\ exec' \in InGroup \cup {"committing", "saving"} /\ UNCHANGED coordinator
        /\ ~openPart' /\ summary' = "receiving"
    BY <1>13 DEF NextTurn, InGroup, InTurn, summaryVars
  <2>2. SummaryFits'
    BY <2>1 DEF Kept, SummaryFits, coordinator
  <2> QED  BY <2>1, <2>2, GroupKept
<1>14. CASE EndLeaving
  <2>1. /\ exec \in InGroup /\ exec' \in InGroup \cup {"committing", "saving"} /\ UNCHANGED coordinator
        /\ UNCHANGED <<summary, openPart>>
    BY <1>14 DEF EndLeaving, InGroup, InTurn, summaryVars
  <2>2. SummaryFits'
    BY <2>1 DEF Kept, SummaryFits, coordinator
  <2> QED  BY <2>1, <2>2, GroupKept
<1>15. CASE Cancelled
  <2>1. /\ exec \in InGroup /\ exec' \in InGroup \cup {"committing", "saving"} /\ UNCHANGED coordinator
        /\ UNCHANGED <<summary, openPart>>
    BY <1>15 DEF Cancelled, Leave, InGroup, InTurn, summaryVars
  <2>2. SummaryFits'
    BY <2>1 DEF Kept, SummaryFits, coordinator
  <2> QED  BY <2>1, <2>2, GroupKept
<1>16. CASE Commit
  BY <1>16, CommitKept
<1>17. CASE FinishReasoning
  BY <1>17, SealedKept
<1>18. CASE PendingAtFinish
  BY <1>18, AbandonedKept DEF PendingAtFinish, ended, summaryVars, Shielded
<1>19. CASE Emit
  BY <1>19, EmitKept
<1>20. CASE Finish
  BY <1>20, FinishKept
<1>21. CASE SaveProgress
  BY <1>21, SaveKept
<1>22. CASE DropDraft
  BY <1>22, DropKept
<1>23. CASE FailDraft
  BY <1>23, FailKept
<1>24. CASE Stop
  BY <1>24, StopKept
<1>25. CASE CondTakes
  BY <1>25, StillKept DEF CondTakes
<1>26. CASE CondSourceEnds
  BY <1>26, StillKept DEF CondSourceEnds
<1>27. CASE CondText
  BY <1>27, StillKept DEF CondText
<1>28. CASE CondFragmentEnds
  BY <1>28, StillKept DEF CondFragmentEnds
<1>29. CASE CondFails
  <2>1. /\ exec \in InGroup /\ exec' = exec /\ UNCHANGED <<coordinator, summary, openPart>>
    BY <1>29 DEF CondFails, ChildrenEnd, ChildrenOver, InGroup
  <2>2. SummaryFits'
    BY <2>1 DEF Kept, SummaryFits, coordinator
  <2> QED  BY <2>1, <2>2, GroupKept
<1>30. CASE CondHalted
  BY <1>30, StillKept DEF CondHalted
<1>31. CASE SummaryTakesDelta
  BY <1>31, DeltaKept
<1>32. CASE SummaryBegins
  BY <1>32, BeginsKept
<1>33. CASE SummaryTakesDone
  BY <1>33, DoneKept
<1>34. CASE SummarySaves
  BY <1>34, FlushKept
<1>35. CASE SummaryEnds
  <2>1. exec \in InGroup /\ exec' = exec /\ UNCHANGED coordinator /\ summary' = "over"
    BY <1>35 DEF SummaryEnds, ChildrenEnd, ChildrenOver, InGroup
  <2>2. SummaryFits'
    BY <2>1 DEF SummaryFits
  <2> QED  BY <2>1, <2>2, GroupKept
<1>36. CASE SummaryHalted
  <2>1. exec \in InGroup /\ exec' = exec /\ UNCHANGED coordinator /\ summary' = "over"
    BY <1>36 DEF SummaryHalted, ChildrenEnd, ChildrenOver, InGroup
  <2>2. SummaryFits'
    BY <2>1 DEF SummaryFits
  <2> QED  BY <2>1, <2>2, GroupKept
<1>37. CASE Disconnect
  BY <1>37, StillKept DEF Disconnect, summaryVars
<1>38. CASE Delta
  <2>1. /\ exec \in InGroup /\ exec' \in InGroup \cup {"committing", "saving"} /\ UNCHANGED coordinator
        /\ UNCHANGED <<summary, openPart>>
    BY <1>38 DEF Delta, InGroup, InTurn, summaryVars
  <2>2. SummaryFits'
    BY <2>1 DEF Kept, SummaryFits, coordinator
  <2> QED  BY <2>1, <2>2, GroupKept
<1>39. CASE NotAccepted
  BY <1>39, AbandonedKept DEF NotAccepted, ended, summaryVars, Shielded
<1>40. CASE SummaryWriteFails
  <2>1. exec \in InGroup /\ exec' = exec /\ UNCHANGED coordinator /\ summary' = "over"
    BY <1>40 DEF SummaryWriteFails, ChildrenEnd, ChildrenOver, InGroup
  <2>2. SummaryFits'
    BY <2>1 DEF SummaryFits
  <2> QED  BY <2>1, <2>2, GroupKept
<1>41. CASE EndingFails
  BY <1>41, AbandonedKept DEF EndingFails, ended, summaryVars, Shielded
<1>42. CASE Over
  BY <1>42, StillKept DEF Over, vars, summaryVars
<1> QED
  BY <1>1, <1>2, <1>3, <1>4, <1>5, <1>6, <1>7, <1>8, <1>9, <1>10, <1>11, <1>12, <1>13, <1>14, <1>15, <1>16, <1>17, <1>18, <1>19, <1>20, <1>21, <1>22, <1>23, <1>24, <1>25, <1>26, <1>27, <1>28, <1>29, <1>30, <1>31, <1>32, <1>33, <1>34, <1>35, <1>36, <1>37, <1>38, <1>39, <1>40, <1>41, <1>42
     DEF Next, Executor, Summarizer, DefaultSummary, Environment

-----------------------------------------------------------------------------
(* The theorems.                                                           *)

\* The invariant, sorted by what the step lemmas above establish.
LEMMA RunParts ==
    RunInv <=> TurnType /\ StreamType /\ ChildrenEnd /\ FlushDue /\ CommitsWithoutError /\ Kept
BY Types DEF RunInv, Kept, TypeOK, ItemsType

\* The same of the next state.
LEMMA RunPartsNext ==
    ( TurnType /\ StreamType /\ ChildrenEnd /\ FlushDue /\ CommitsWithoutError /\ Kept
        => RunInv )'
<1>1. TurnType /\ StreamType /\ ChildrenEnd /\ FlushDue /\ CommitsWithoutError /\ Kept => RunInv
  BY RunParts
<1> QED  BY <1>1, PTL

\* Without a draft, memory and store hold the same items.
LEMMA SameItems == ASSUME RunInv, draft.at = 0 PROVE storedOutput = output
<1>1. output \in Seq(Items) /\ storedOutput \in Seq(Items)
  BY DEF RunInv, TypeOK
<1>2. Len(storedOutput) = Len(output)
  BY DEF RunInv, ItemsFit
<1>3. \A i \in 1..Len(output) : i # 0
  BY <1>1
<1>4. \A i \in 1..Len(output) : storedOutput[i] = output[i]
  BY <1>3 DEF RunInv, ItemsFit
<1>5. \A i \in 1..Len(storedOutput) : storedOutput[i] = output[i]
  BY <1>2, <1>4
<1> QED  BY <1>1, <1>2, <1>5, SeqEqual

\* An accepted response starts with no draft, no item and no event.
LEMMA InitRunInv == ASSUME Init PROVE RunInv
<1>1. TurnType
  <2>1. exec \in Places /\ cause \in Causes
    BY DEF Init, Places, Causes
  <2>2. 1 \in 1..MaxTurns /\ 0 \in 0..MaxAttempts /\ 0 \in 0..MaxDeltas
        /\ 0 \in 0..MaxVisible /\ 0 \in 0..MaxFaults
    BY RunAssumption
  <2>3. /\ turn \in 1..MaxTurns /\ attempt \in 0..MaxAttempts /\ deltas \in 0..MaxDeltas
        /\ visible \in 0..MaxVisible /\ faults \in 0..MaxFaults
    BY <2>2 DEF Init
  <2>4. history \in BOOLEAN /\ suffix \in BOOLEAN /\ gone \in BOOLEAN
    BY DEF Init
  <2>5. stateful \in BOOLEAN /\ summarize \in BOOLEAN
    BY DEF Init
  <2>6. outbox \in Outboxes
    BY OutboxType DEF Init
  <2>7. result \in {"none", "stop", "length"} /\ budget \in {"left", "spent"}
    BY DEF Init
  <2> QED  BY <2>1, <2>3, <2>4, <2>5, <2>6, <2>7 DEF TurnType
<1>2. StreamType
  <2>1. <<>> \in Seq(Marks) /\ Len(<<>>) = 0
    OBVIOUS
  <2>2. cond \in Conds
    BY CondType DEF Init
  <2>3. 0 \in 0..FlushAt /\ 0 <= Capacity
    BY RunAssumption
  <2>4. accumulated \in 0..FlushAt
    BY <2>3 DEF Init
  <2>5. closed \in BOOLEAN /\ openPart \in BOOLEAN
    BY DEF Init
  <2>6. source = <<>> /\ down = <<>> /\ summary = "over"
    BY DEF Init
  <2>7. source \in Seq(Marks) /\ Len(source) <= Capacity /\ down \in Seq(Marks)
        /\ Len(down) <= Capacity
    BY <2>1, <2>3, <2>6
  <2> QED  BY <2>2, <2>4, <2>5, <2>6, <2>7 DEF StreamType
<1>3. ChildrenEnd /\ FlushDue /\ CommitsWithoutError
  BY RunAssumption DEF Init, ChildrenEnd, ChildrenOver, FlushDue, CommitsWithoutError, CondAt
<1>4. output = <<>> /\ storedOutput = <<>> /\ <<>> \in Seq(Items) /\ Len(<<>>) = 0
  BY DEF Init
<1>5. NoDraft \in Drafts /\ NoDraft.at = 0
  BY DEF NoDraft, Drafts
<1>6. feed \in Feeds /\ feed.at = "new" /\ feed.parts = 0
  BY DEF Init, Feeds
<1>7. exec = "accepting" /\ draft = NoDraft /\ reasoningId = 0 /\ summary = "over"
      /\ stored = "absent" /\ status = "in_progress"
  BY DEF Init
<1>8. ItemsType
  BY <1>4, <1>5, <1>6, <1>7 DEF ItemsType
<1>9. DraftFits /\ SummaryFits /\ FeedFits /\ EndedOnce
  BY <1>4, <1>5, <1>6, <1>7 DEF DraftFits, SummaryFits, FeedFits, FeedWellFormed, EndedOnce,
     Live, InTurn, Terminal
<1>10. ItemsFit
  BY <1>4 DEF ItemsFit
<1>11. PartsFit
  <2>1. PartsOf(output) = 0
    <3>1. [i \in DOMAIN output |-> output[i].parts] = <<>>
      BY <1>4
    <3> QED  BY <3>1, TotalEmpty DEF PartsOf
  <2> QED  BY <1>5, <1>6, <1>7, <2>1 DEF PartsFit
<1> QED  BY <1>1, <1>2, <1>3, <1>8, <1>9, <1>10, <1>11, RunParts DEF Kept

\* Every step of every task keeps the invariant.
LEMMA RunInvStep == ASSUME RunInv, [Next]_vars PROVE RunInv'
<1>1. TurnType /\ StreamType /\ ChildrenEnd /\ FlushDue /\ CommitsWithoutError /\ Kept
  BY RunParts
<1>2. CASE Next
  <2>1. TurnType' /\ StreamType'
    BY <1>1, <1>2, TurnTypeStep, StreamTypeStep
  <2>2. ChildrenEnd' /\ FlushDue' /\ CommitsWithoutError'
    BY <1>1, <1>2, ControlStep
  <2>3. Kept'
    BY <1>1, <1>2, KeptStep
  <2> QED  BY <2>1, <2>2, <2>3, RunPartsNext
<1>3. CASE UNCHANGED vars
  BY <1>3 DEF vars, turnVars, summaryVars, coordinator, request, RunInv, TypeOK, ChildrenEnd,
     ChildrenOver, FlushDue, CommitsWithoutError, DraftFits, SummaryFits, FeedFits, FeedWellFormed,
     Shown, ItemsFit, PartsFit, PartsOf, EndedOnce
<1> QED  BY <1>2, <1>3

\* The invariant holds in every state of every run.
THEOREM RunInvariance == Spec => []RunInv
<1>1. Init => RunInv
  BY InitRunInv
<1>2. RunInv /\ [Next]_vars => RunInv'
  BY RunInvStep
<1> QED  BY <1>1, <1>2, PTL DEF Spec

\* Every variable keeps its type: in particular no stream exceeds the buffer's
\* capacity, and no part grows past the flush limit.
THEOREM RunTypes == Spec => []TypeOK
<1>1. RunInv => TypeOK
  BY DEF RunInv
<1> QED  BY <1>1, RunInvariance, PTL

\* Whichever of the two tasks publishes, a client of the channel can make sense
\* of every event.
THEOREM FeedNeverBreaks == Spec => []FeedWellFormed
<1>1. RunInv => FeedWellFormed
  BY DEF RunInv, FeedFits
<1> QED  BY <1>1, RunInvariance, PTL

\* State and coordinator agree on the active reasoning item wherever one of them
\* may save it.
THEOREM DraftsAgree == Spec => []DraftTracked
<1>1. RunInv => DraftTracked
  BY DEF RunInv, DraftFits, DraftTracked, InTurn
<1> QED  BY <1>1, RunInvariance, PTL

\* What the store holds of a finished response is what the coordinator reported.
THEOREM StoredAsReported == Spec => []OutputStored
<1>1. RunInv => OutputStored
  <2> SUFFICES ASSUME RunInv, stored \in Terminal PROVE storedOutput = output
    BY DEF OutputStored
  <2>1. draft.at = 0
    BY DEF RunInv, EndedOnce
  <2> QED  BY <2>1, SameItems
<1> QED  BY <1>1, RunInvariance, PTL

\* A response that was not cancelled leaves no item in progress.
THEOREM NothingLeftOpen == Spec => []ItemsSettled
<1>1. RunInv => ItemsSettled
  <2> SUFFICES ASSUME RunInv, stored \in {"completed", "incomplete", "failed"},
                      NEW i \in 1..Len(storedOutput), storedOutput[i].status = "in_progress"
               PROVE  FALSE
    BY DEF ItemsSettled
  <2>1. draft.at = 0 /\ cause # "cancel"
    BY DEF RunInv, EndedOnce, Terminal
  <2>2. i \in 1..Len(output) /\ Len(output) \in Nat
    BY DEF RunInv, ItemsFit, TypeOK
  <2> QED  BY <2>1, <2>2 DEF RunInv, ItemsFit
<1> QED  BY <1>1, RunInvariance, PTL

\* The parts of a finished response are those its client saw completed.
THEOREM PartsAsShown == Spec => []PartsStored
<1>1. RunInv => PartsStored
  <2> SUFFICES ASSUME RunInv, stored \in Terminal PROVE feed.parts = PartsOf(storedOutput)
    BY DEF PartsStored
  <2>1. draft.at = 0
    BY DEF RunInv, EndedOnce
  <2>2. storedOutput = output
    BY <2>1, SameItems
  <2> QED  BY <2>2 DEF RunInv, PartsFit
<1> QED  BY <1>1, RunInvariance, PTL
=============================================================================
