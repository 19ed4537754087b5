------------------------ MODULE ItemReferencesProofs ------------------------
(***************************************************************************)
(* What a continued response runs on, for any number of requests that name,*)
(* resend and delete each other's items.                                   *)
(***************************************************************************)
EXTENDS ItemReferences, NumberLemmas, SequenceTheorems

-----------------------------------------------------------------------------
(* The inductive invariant.                                                *)

ItemIds  == Requests \X Nat
Items    == [type : {"message", "item_reference", "reasoning", "refused"},
             id : ItemIds \cup {NoId}, body : {"whole", "part", "none"}]
Stages   == {"idle", "read", "prepared", "refused", "running", "ended"}
Prepared == {"prepared", "running", "ended"}

Types ==
  /\ stage \in [Requests -> Stages]
  /\ follows \in [Requests -> Requests \cup {NoId}]
  /\ asked \in [Requests -> Seq(Items)]
  /\ replayed \in [Requests -> Seq(Items)]
  /\ executed \in [Requests -> Seq(Items)]
  /\ emitted \in [Requests -> Seq(Items)]
  /\ deleted \subseteq Requests
  /\ IsFiniteSet(Stored)

\* A response's own item is announced, and replaced, while it runs.
Emissions ==
  \A r \in Requests :
    \/ emitted[r] = <<>>
    \/ stage[r] \in {"running", "ended"}
         /\ \E b \in {"part", "whole"} : emitted[r] = <<Reasoning(<<r, 0>>, b)>>

\* An item in full: a client's message, or what a response ended with.
IsMessage(it) ==
  \E q \in Requests, k \in Nat \ {0} :
    it = [type |-> "message", id |-> <<q, k>>, body |-> "whole"]
IsFinal(it) == IsMessage(it) \/ \E q \in Requests : stage[q] = "ended" /\ emitted[q] = <<it>>

\* Somebody was told the item in full.
Known(x) ==
  \E q \in Stored :
    \/ \E i \in DOMAIN asked[q] : asked[q][i].id = x /\ asked[q][i].type \in {"message", "reasoning"}
    \/ emitted[q] # <<>> /\ x = <<q, 0>>

\* What is stored is in full, or names what somebody was told in full.
IsRow(it) == IsFinal(it) \/ \E x \in ItemIds : Known(x) /\ it = Reference(x)
IsInput(it) == IsRow(it) \/ it = Message \/ \E x \in ItemIds : Known(x) /\ it = Bare(x)

AskedRows ==
  \A r \in Requests :
    /\ stage[r] = "idle" => asked[r] = <<>>
    /\ \A i \in 1..Len(asked[r]) :
          IF stage[r] = "read" THEN IsInput(asked[r][i]) ELSE IsRow(asked[r][i])
Replays == \A r \in Requests : \A i \in 1..Len(replayed[r]) : IsRow(replayed[r][i])

\* A request replays what its predecessor, which has ended, replayed, asked for
\* and said.
Parents ==
  \A r \in Requests :
    IF follows[r] = NoId THEN replayed[r] = <<>>
    ELSE stage[follows[r]] = "ended" /\ replayed[r] = replayed[follows[r]] \o Rows(follows[r])

Descends(rank) == \A r \in Requests : follows[r] # NoId => rank[follows[r]] < rank[r]
Acyclic == \E rank \in [Requests -> Nat] : Descends(rank)

\* A response runs on what it replays and is asked, a name standing for the
\* item as it was at the time.
Was(it) ==
  IsMessage(it) \/ \E q \in Requests : \E now \in Later(it) : emitted[q] = <<now>>
Stands(row, it) == IF row.type = "item_reference" THEN it.id = row.id /\ Was(it) ELSE it = row
Transcript(r) == replayed[r] \o asked[r]
Executions ==
  \A r \in Requests :
    stage[r] \in Prepared =>
      /\ Len(executed[r]) = Len(Transcript(r))
      /\ \A i \in 1..Len(Transcript(r)) : Stands(Transcript(r)[i], executed[r][i])

RefInv ==
  Types /\ Emissions /\ AskedRows /\ Replays /\ Parents /\ Acyclic /\ Executions

-----------------------------------------------------------------------------
(* Items.                                                                  *)

\* The id of an item is never the missing one.
LEMMA IdsDiffer == NoId \notin ItemIds /\ \A q \in Requests, k \in Nat : <<q, k>> \in ItemIds
BY NoIdAssumption DEF ItemIds

\* The forms an item may have.
LEMMA MessageForm ==
  ASSUME NEW it, IsMessage(it)
  PROVE  /\ it \in Items /\ it.type = "message" /\ it.body = "whole" /\ it.id \in ItemIds
         /\ it.id # NoId /\ it = [type |-> "message", id |-> it.id, body |-> "whole"]
         /\ \A q \in Requests : it.id # <<q, 0>>
<1>1. PICK q \in Requests, k \in Nat \ {0} : it = [type |-> "message", id |-> <<q, k>>, body |-> "whole"]
  BY DEF IsMessage
<1> QED  BY <1>1, IdsDiffer DEF Items

\* A response's own item is a reasoning item under the response's own id.
LEMMA SaidForm ==
  ASSUME NEW q \in Requests, NEW b \in {"part", "whole"}
  PROVE  LET it == Reasoning(<<q, 0>>, b)
         IN  /\ it \in Items /\ it.type = "reasoning" /\ it.body = b /\ it.id = <<q, 0>>
             /\ it.id \in ItemIds /\ it.id # NoId
BY IdsDiffer DEF Items, Reasoning

\* A name has an id and no content.
LEMMA NameForm ==
  ASSUME NEW x \in ItemIds
  PROVE  /\ Reference(x) \in Items /\ Bare(x) \in Items
         /\ Reference(x).id = x /\ Bare(x).id = x /\ x # NoId
         /\ Reference(x).type = "item_reference" /\ Reference(x).body = "none"
         /\ Bare(x).type = "reasoning" /\ Bare(x).body = "none"
BY IdsDiffer DEF Items, Reference, Bare

\* A client's message comes in full and without an id.
LEMMA MessageType == Message \in Items /\ Message.type = "message" /\ Message.id = NoId /\ Message.body = "whole"
BY DEF Items, Message

\* Of its item a response has said one version.
LEMMA OneSaid ==
  ASSUME Emissions, NEW q \in Requests, NEW it, emitted[q] = <<it>>
  PROVE  \E b \in {"part", "whole"} : it = Reasoning(<<q, 0>>, b)
<1>1. PICK b \in {"part", "whole"} : emitted[q] = <<Reasoning(<<q, 0>>, b)>>
  BY DEF Emissions
<1> QED  BY <1>1

\* An item in full is neither a name nor a refusal.
Full(it) ==
  /\ it \in Items /\ it.type \in {"message", "reasoning"} /\ it.body # "none"
  /\ it.id \in ItemIds /\ it.id # NoId

\* A client's message as stored, and the item an ended response said, are in full.
LEMMA FinalForm == ASSUME Emissions, NEW it, IsFinal(it) PROVE Full(it)
<1>1. CASE IsMessage(it)
  BY <1>1, MessageForm DEF Full
<1>2. ASSUME NEW q \in Requests, emitted[q] = <<it>> PROVE Full(it)
  <2>1. PICK b \in {"part", "whole"} : it = Reasoning(<<q, 0>>, b)
    BY <1>2, OneSaid
  <2> QED  BY <2>1, SaidForm DEF Full
<1> QED  BY <1>1, <1>2 DEF IsFinal

\* An item in full is left by the look-up as it is.
LEMMA FullIsNoName ==
  ASSUME NEW it, Full(it)
  PROVE  ~IsName(it) /\ ~IsImplicit(it) /\ it # Refused /\ Resolved(it) = it
<1>1. it.type # "item_reference" /\ it.type # "refused" /\ it.body # "none"
  BY DEF Full
<1>2. ~IsName(it) /\ ~IsImplicit(it)
  BY <1>1 DEF IsName, IsImplicit
<1>3. it # Refused
  BY <1>1 DEF Refused
<1>4. Resolved(it) = it
  BY <1>2, FS_EmptySet DEF Resolved
<1> QED  BY <1>2, <1>3, <1>4

\* A stored row is an item in full or a reference: never a reasoning item without content.
LEMMA RowForm ==
  ASSUME Emissions, NEW it, IsRow(it)
  PROVE  /\ it \in Items /\ it.id # NoId /\ it.id \in ItemIds /\ ~IsImplicit(it)
         /\ Full(it) \/ (it = Reference(it.id) /\ Known(it.id))
<1>1. CASE IsFinal(it)
  BY <1>1, FinalForm, FullIsNoName DEF Full
<1>2. ASSUME NEW x \in ItemIds, Known(x), it = Reference(x) PROVE it.id = x /\ ~IsImplicit(it)
  BY <1>2, NameForm DEF IsImplicit
<1> QED  BY <1>1, <1>2, NameForm DEF IsRow

-----------------------------------------------------------------------------
(* Sequences of items.                                                     *)

\* Where the elements of a concatenation come from.
LEMMA Cat ==
  ASSUME NEW s \in Seq(Items), NEW t \in Seq(Items)
  PROVE  /\ s \o t \in Seq(Items) /\ Len(s \o t) = Len(s) + Len(t)
         /\ Len(s) \in Nat /\ Len(t) \in Nat
         /\ \A i \in 1..Len(s) : i \in 1..Len(s \o t) /\ (s \o t)[i] = s[i]
         /\ \A i \in 1..Len(t) : Len(s) + i \in 1..Len(s \o t) /\ (s \o t)[Len(s) + i] = t[i]
         /\ \A i \in 1..Len(s \o t) :
               \/ i \in 1..Len(s)
               \/ i - Len(s) \in 1..Len(t) /\ (s \o t)[i] = t[i - Len(s)]
OBVIOUS

\* Concatenation is associative.
LEMMA CatAssoc ==
  ASSUME NEW s \in Seq(Items), NEW t \in Seq(Items), NEW u \in Seq(Items)
  PROVE  (s \o t) \o u = s \o (t \o u)
BY ConcatAssociative

\* The empty sequence adds nothing.
LEMMA CatEmpty == \A s \in Seq(Items) : <<>> \o s = s
BY ConcatEmptySeq

\* A sequence of one.
LEMMA OneItem ==
  \A it \in Items : /\ <<it>> \in Seq(Items) /\ Len(<<it>>) = 1 /\ <<it>>[1] = it /\ <<it>> # <<>>
                    /\ <<>> \in Seq(Items)
OBVIOUS

\* A sequence is indexed by its positions.
LEMMA SeqDomain == \A s \in Seq(Items) : DOMAIN s = 1..Len(s) /\ \A i \in 1..Len(s) : s[i] \in Items
OBVIOUS

\* A sequence of items can be made item by item.
LEMMA Mapped ==
  ASSUME NEW n \in Nat, NEW t, t = [i \in 1..n |-> t[i]], \A i \in 1..n : t[i] \in Items
  PROVE  t \in Seq(Items) /\ Len(t) = n
<1>1. t \in [1..n -> Items]
  OBVIOUS
<1> QED  BY <1>1

-----------------------------------------------------------------------------
(* Looking an item up.                                                     *)

\* An item in full, as it is now.
IsNow(it) == IsMessage(it) \/ \E q \in Requests : emitted[q] = <<it>>

\* What is stored now is in full or in part, and no name.
LEMMA NowForm == ASSUME Emissions, NEW it, IsNow(it) PROVE Full(it)
<1>1. CASE IsMessage(it)
  BY <1>1, MessageForm DEF Full
<1>2. ASSUME NEW q \in Requests, emitted[q] = <<it>> PROVE Full(it)
  <2>1. PICK b \in {"part", "whole"} : it = Reasoning(<<q, 0>>, b)
    BY <1>2, OneSaid
  <2> QED  BY <2>1, SaidForm DEF Full
<1> QED  BY <1>1, <1>2 DEF IsNow

\* A response says one item, under its own id.
LEMMA EmittedItems ==
  ASSUME Types, Emissions, NEW q \in Requests, NEW i \in 1..Len(emitted[q])
  PROVE  i = 1 /\ emitted[q] = <<emitted[q][i]>> /\ emitted[q][i].id = <<q, 0>>
<1>1. emitted[q] \in Seq(Items) /\ emitted[q] # <<>>
  BY DEF Types
<1>2. PICK b \in {"part", "whole"} : emitted[q] = <<Reasoning(<<q, 0>>, b)>>
  BY <1>1 DEF Emissions
<1> QED  BY <1>2, SaidForm

\* The rows of a stored response.
LEMMA StoredRows ==
  ASSUME Types, Emissions, AskedRows, NEW q \in Stored, NEW i \in 1..Len(Rows(q))
  PROVE  /\ Rows(q) \in Seq(Items) /\ DOMAIN Rows(q) = 1..Len(Rows(q))
         /\ \/ i \in 1..Len(asked[q]) /\ Rows(q)[i] = asked[q][i] /\ IsRow(asked[q][i])
            \/ emitted[q] = <<Rows(q)[i]>> /\ Rows(q)[i].id = <<q, 0>>
<1>1. q \in Requests /\ stage[q] \in {"running", "ended"}
  BY DEF Stored
<1>2. asked[q] \in Seq(Items) /\ emitted[q] \in Seq(Items)
  BY <1>1 DEF Types
<1>3. /\ Rows(q) \in Seq(Items)
      /\ \/ i \in 1..Len(asked[q]) /\ Rows(q)[i] = asked[q][i]
         \/ i - Len(asked[q]) \in 1..Len(emitted[q]) /\ Rows(q)[i] = emitted[q][i - Len(asked[q])]
  <2>1. ASSUME NEW a \in Seq(Items), NEW e \in Seq(Items), NEW k \in 1..Len(a \o e)
        PROVE  /\ a \o e \in Seq(Items)
               /\ \/ k \in 1..Len(a) /\ (a \o e)[k] = a[k]
                  \/ k - Len(a) \in 1..Len(e) /\ (a \o e)[k] = e[k - Len(a)]
    BY Cat
  <2> QED  BY <1>2, <2>1 DEF Rows
<1>4. \A j \in 1..Len(asked[q]) : IsRow(asked[q][j])
  BY <1>1 DEF AskedRows
<1>5. ASSUME NEW j \in 1..Len(emitted[q]) PROVE emitted[q] = <<emitted[q][j]>> /\ emitted[q][j].id = <<q, 0>>
  BY <1>1, EmittedItems
<1> QED  BY <1>3, <1>4, <1>5, SeqDomain

\* What is found is what was told, as it is now.
LEMMA FoundForm ==
  ASSUME Types, Emissions, AskedRows, NEW x, NEW row \in Found(x)
  PROVE  LET it == Rows(row[1])[row[2]] IN IsNow(it) /\ it.id = x
<1>1. PICK q \in Stored \ deleted : row \in {<<q, i>> : i \in RowsOf(x, q)}
  BY DEF Found
<1>2. PICK i \in RowsOf(x, q) : row = <<q, i>>
  BY <1>1
<1> DEFINE it == Rows(q)[i]
<1>3. i \in DOMAIN Rows(q) /\ it.id = x /\ it.type # "item_reference" /\ q \in Stored
  BY <1>1, <1>2 DEF RowsOf
<1>4. q \in Requests /\ Rows(q) \in Seq(Items) /\ i \in 1..Len(Rows(q))
  <2>1. q \in Requests
    BY <1>3 DEF Stored
  <2>2. asked[q] \in Seq(Items) /\ emitted[q] \in Seq(Items)
    BY <2>1 DEF Types
  <2>3. Rows(q) \in Seq(Items)
    BY <2>2, Cat DEF Rows
  <2> QED  BY <1>3, <2>1, <2>3, SeqDomain
<1>5. \/ IsRow(it)
      \/ emitted[q] = <<it>>
  BY <1>3, <1>4, StoredRows
<1>6. IsNow(it)
  <2>1. CASE emitted[q] = <<it>>
    BY <1>4, <2>1 DEF IsNow
  <2>2. CASE IsFinal(it)
    BY <2>2 DEF IsFinal, IsNow
  <2>3. ASSUME NEW y \in ItemIds, it = Reference(y) PROVE FALSE
    BY <1>3, <2>3, NameForm
  <2> QED  BY <1>5, <2>1, <2>2, <2>3 DEF IsRow
<1> QED  BY <1>2, <1>3, <1>6

\* A name stands for the one item found, or is refused.
LEMMA ReferenceResolves ==
  ASSUME NEW x \in ItemIds
  PROVE  \/ Cardinality(Found(x)) # 1 /\ Resolved(Reference(x)) = Refused
         \/ \E row \in Found(x) : Resolved(Reference(x)) = Rows(row[1])[row[2]]
<1>1. IsName(Reference(x)) /\ ~IsImplicit(Reference(x)) /\ Reference(x).id = x
  BY NameForm DEF IsName, IsImplicit
<1> DEFINE row == CHOOSE row \in Found(x) : TRUE
<1>2. CASE Cardinality(Found(x)) # 1
  <2>1. Resolved(Reference(x)) = Refused
    BY <1>1, <1>2 DEF Resolved
  <2> QED  BY <1>2, <2>1
<1>3. CASE Cardinality(Found(x)) = 1
  <2>1. Found(x) # {}
    BY <1>3, FS_EmptySet
  <2>2. row \in Found(x)
    BY <2>1
  <2>3. Resolved(Reference(x)) = Rows(row[1])[row[2]]
    BY <1>1, <1>3 DEF Resolved
  <2> QED  BY <2>2, <2>3
<1> QED  BY <1>2, <1>3

\* A reasoning item without its content stands for the one found, is refused,
\* or stays as it came.
LEMMA BareResolves ==
  ASSUME NEW x \in ItemIds
  PROVE  \/ Resolved(Bare(x)) \in {Bare(x), Refused}
         \/ \E row \in Found(x) : Resolved(Bare(x)) = Rows(row[1])[row[2]]
<1>1. IsName(Bare(x)) /\ IsImplicit(Bare(x)) /\ Bare(x).id = x
  BY NameForm DEF IsName, IsImplicit
<1> DEFINE row == CHOOSE row \in Found(x) : TRUE
<1>2. CASE Found(x) = {}
  <2>1. Resolved(Bare(x)) = Bare(x)
    BY <1>1, <1>2, FS_EmptySet DEF Resolved
  <2> QED  BY <2>1
<1>3. CASE Found(x) # {} /\ Cardinality(Found(x)) # 1
  <2>1. Resolved(Bare(x)) = Refused
    BY <1>1, <1>3 DEF Resolved
  <2> QED  BY <2>1
<1>4. CASE Found(x) # {} /\ Cardinality(Found(x)) = 1
  <2>1. Resolved(Bare(x)) \in {Bare(x), Rows(row[1])[row[2]]}
    BY <1>1, <1>4 DEF Resolved
  <2> QED  BY <1>4, <2>1
<1> QED  BY <1>2, <1>3, <1>4

\* A refusal is no name.
LEMMA RefusedForm == Refused \in Items /\ Refused.type = "refused"
BY DEF Items, Refused

\* What an item is now, it was at some time.
LEMMA NowWas == ASSUME NEW it, IsNow(it) PROVE Was(it)
<1>1. it \in Later(it)
  BY DEF Later
<1> QED  BY <1>1 DEF IsNow, Was

\* What a stored row stands for.
LEMMA RowResolves ==
  ASSUME Types, Emissions, AskedRows, NEW it, IsRow(it)
  PROVE  /\ Resolved(it) \in Items /\ ~IsImplicit(Resolved(it))
         /\ Resolved(it) # Refused => Stands(it, Resolved(it))
         /\ Resolved(it) = Refused =>
               it = Reference(it.id) /\ Known(it.id) /\ Cardinality(Found(it.id)) # 1
<1>1. CASE Full(it)
  <2>1. Resolved(it) = it /\ ~IsImplicit(it) /\ it # Refused
    BY <1>1, FullIsNoName
  <2> QED  BY <1>1, <2>1 DEF Full, Stands
<1>2. CASE ~Full(it)
  <2>1. it = Reference(it.id) /\ Known(it.id) /\ it.id \in ItemIds
    BY <1>2, RowForm
  <2>2. it.type = "item_reference"
    BY <2>1, NameForm
  <2>3. CASE Cardinality(Found(it.id)) # 1 /\ Resolved(it) = Refused
    BY <2>1, <2>3, RefusedForm DEF IsImplicit
  <2>4. ASSUME NEW row \in Found(it.id), Resolved(it) = Rows(row[1])[row[2]]
        PROVE  Full(Resolved(it)) /\ Stands(it, Resolved(it))
    <3>1. IsNow(Resolved(it)) /\ Resolved(it).id = it.id
      BY <2>4, FoundForm
    <3> QED  BY <2>2, <3>1, NowForm, NowWas DEF Stands
  <2>5. ASSUME Full(Resolved(it)) PROVE Resolved(it) \in Items /\ ~IsImplicit(Resolved(it)) /\ Resolved(it) # Refused
    BY <2>5, FullIsNoName DEF Full
  <2>6. \/ Cardinality(Found(it.id)) # 1 /\ Resolved(it) = Refused
        \/ \E row \in Found(it.id) : Resolved(it) = Rows(row[1])[row[2]]
    BY <2>1, ReferenceResolves
  <2> QED  BY <2>3, <2>4, <2>5, <2>6
<1> QED  BY <1>1, <1>2

\* A request's inputs, as they are executed and as they are stored.
LEMMA InputResolves ==
  ASSUME Types, Emissions, AskedRows, NEW r \in Requests, stage[r] = "read", NEW i \in 1..Len(asked[r])
  PROVE  LET named == NamedInput(r, asked[r])[i]
             row   == StoredInput(r, asked[r])[i]
         IN  /\ IsRow(row) /\ Resolved(named) \in Items
             /\ Resolved(named) # Refused /\ ~IsImplicit(Resolved(named)) => Stands(row, Resolved(named))
             /\ Full(Resolved(named)) \/ asked[r][i] \in {Reference(asked[r][i].id), Bare(asked[r][i].id)}
<1> DEFINE it == asked[r][i]
           named == NamedInput(r, asked[r])[i]
           row == StoredInput(r, asked[r])[i]
           Good == /\ IsRow(row) /\ Resolved(named) \in Items
                   /\ Resolved(named) # Refused /\ ~IsImplicit(Resolved(named)) => Stands(row, Resolved(named))
                   /\ Full(Resolved(named)) \/ it \in {Reference(it.id), Bare(it.id)}
<1>1. asked[r] \in Seq(Items) /\ i \in DOMAIN asked[r] /\ IsInput(it) /\ it \in Items
  BY SeqDomain DEF Types, AskedRows
<1>2. /\ named = IF it.id = NoId THEN [it EXCEPT !.id = <<r, i>>] ELSE it
      /\ row = IF IsImplicit(it) THEN Reference(it.id) ELSE named
  BY <1>1 DEF NamedInput, StoredInput
<1>3. ASSUME IsRow(it) PROVE Good
  <2>1. named = it /\ row = it
    BY <1>2, <1>3, RowForm
  <2>2. Full(it) => Full(Resolved(it))
    BY FullIsNoName
  <2> HIDE DEF named, row
  <2> QED  BY <1>3, <2>1, <2>2, RowResolves, RowForm
<1>4. ASSUME it = Message PROVE Good
  <2>1. i \in Nat \ {0}
    BY <1>1
  <2>2. named = [type |-> "message", id |-> <<r, i>>, body |-> "whole"]
    BY <1>2, <1>4 DEF Message
  <2>3. IsMessage(named)
    BY <2>1, <2>2 DEF IsMessage
  <2>4. Full(named) /\ IsFinal(named) /\ named.type = "message"
    BY <2>3, FinalForm, MessageForm DEF IsFinal
  <2>5. row = named
    BY <1>2, <1>4 DEF Message, IsImplicit
  <2> HIDE DEF named, row
  <2> QED  BY <2>4, <2>5, FullIsNoName DEF IsRow, Stands, Full
<1>5. ASSUME NEW x \in ItemIds, Known(x), it = Bare(x) PROVE Good
  <2>1. it.id = x /\ IsImplicit(it) /\ named = it /\ row = Reference(x) /\ x # NoId
    BY <1>2, <1>5, NameForm DEF IsImplicit
  <2>2. IsRow(row)
    BY <1>5, <2>1 DEF IsRow
  <2>3. \/ Resolved(named) \in {Bare(x), Refused}
        \/ \E found \in Found(x) : Resolved(named) = Rows(found[1])[found[2]]
    BY <1>5, <2>1, BareResolves
  <2>4. ASSUME NEW found \in Found(x), Resolved(named) = Rows(found[1])[found[2]]
        PROVE  Resolved(named) \in Items /\ Stands(row, Resolved(named))
    <3>1. IsNow(Resolved(named)) /\ Resolved(named).id = x
      BY <2>4, FoundForm
    <3>2. Full(Resolved(named)) /\ Was(Resolved(named))
      BY <3>1, NowForm, NowWas
    <3> QED  BY <2>1, <3>1, <3>2, NameForm DEF Stands, Full
  <2>5. Bare(x) \in Items /\ IsImplicit(Bare(x))
    BY <1>5, <2>1, NameForm
  <2> HIDE DEF named, row
  <2> QED  BY <1>5, <2>1, <2>2, <2>3, <2>4, <2>5, RefusedForm
<1>6. Good
  <2> HIDE DEF Good
  <2> QED  BY <1>1, <1>3, <1>4, <1>5 DEF IsInput
<1> QED  BY <1>6

\* The inputs under their ids.
LEMMA NamedType ==
  ASSUME Types, NEW r \in Requests
  PROVE  /\ NamedInput(r, asked[r]) \in Seq(Items)
         /\ Len(NamedInput(r, asked[r])) = Len(asked[r])
<1>1. asked[r] \in Seq(Items) /\ DOMAIN asked[r] = 1..Len(asked[r]) /\ Len(asked[r]) \in Nat
  BY SeqDomain DEF Types
<1>2. ASSUME NEW i \in 1..Len(asked[r]) PROVE NamedInput(r, asked[r])[i] \in Items
  <2>1. asked[r][i] \in Items /\ <<r, i>> \in ItemIds
    BY <1>1, IdsDiffer
  <2>2. [asked[r][i] EXCEPT !.id = <<r, i>>] \in Items
    BY <2>1 DEF Items
  <2> QED  BY <1>1, <2>1, <2>2 DEF NamedInput
<1>3. NamedInput(r, asked[r]) = [i \in 1..Len(asked[r]) |-> NamedInput(r, asked[r])[i]]
  BY <1>1 DEF NamedInput
<1> QED  BY <1>1, <1>2, <1>3, Mapped

\* What is stored of them.
LEMMA StoredType ==
  ASSUME Types, Emissions, AskedRows, NEW r \in Requests, stage[r] = "read"
  PROVE  /\ StoredInput(r, asked[r]) \in Seq(Items)
         /\ Len(StoredInput(r, asked[r])) = Len(asked[r])
         /\ \A i \in 1..Len(asked[r]) : IsRow(StoredInput(r, asked[r])[i])
<1>1. asked[r] \in Seq(Items) /\ DOMAIN asked[r] = 1..Len(asked[r]) /\ Len(asked[r]) \in Nat
  BY SeqDomain DEF Types
<1>2. \A i \in 1..Len(asked[r]) : IsRow(StoredInput(r, asked[r])[i])
  BY InputResolves
<1>3. \A i \in 1..Len(asked[r]) : StoredInput(r, asked[r])[i] \in Items
  BY <1>2, RowForm
<1>4. StoredInput(r, asked[r]) = [i \in 1..Len(asked[r]) |-> StoredInput(r, asked[r])[i]]
  BY <1>1 DEF StoredInput
<1> QED  BY <1>1, <1>2, <1>3, <1>4, Mapped

\* What the request is executed with: the replayed rows, then the inputs.
LEMMA ExecutedForm ==
  ASSUME Types, Emissions, AskedRows, Replays, NEW r \in Requests, stage[r] = "read"
  PROVE  LET named == NamedInput(r, asked[r])
             items == Executed(r, named)
             n     == Len(replayed[r])
         IN  /\ items \in Seq(Items) /\ Len(items) = n + Len(asked[r])
             /\ DOMAIN items = 1..Len(items)
             /\ \A i \in 1..n : items[i] = Resolved(replayed[r][i])
             /\ \A j \in 1..Len(asked[r]) : items[n + j] = Resolved(named[j])
             /\ \A i \in 1..Len(items) : i \in 1..n \/ i - n \in 1..Len(asked[r])
<1> DEFINE named == NamedInput(r, asked[r])
           items == Executed(r, named)
           n == Len(replayed[r])
           all == replayed[r] \o named
<1>1. /\ named \in Seq(Items) /\ replayed[r] \in Seq(Items) /\ Len(named) = Len(asked[r])
      /\ n \in Nat /\ Len(asked[r]) \in Nat
  BY NamedType DEF Types
<1>0. /\ all \in Seq(Items) /\ Len(all) = n + Len(asked[r]) /\ DOMAIN all = 1..Len(all)
      /\ Len(all) \in Nat
  <2> HIDE DEF named
  <2>1. all \in Seq(Items) /\ Len(all) = n + Len(named)
    BY <1>1, Cat
  <2> HIDE DEF all, n
  <2>2. DOMAIN all = 1..Len(all)
    BY <2>1, SeqDomain
  <2> QED  BY <1>1, <2>1, <2>2
<1>2. /\ \A i \in 1..n : i \in 1..Len(all) /\ all[i] = replayed[r][i]
      /\ \A j \in 1..Len(asked[r]) : n + j \in 1..Len(all) /\ all[n + j] = named[j]
      /\ \A i \in 1..Len(all) : \/ i \in 1..n
                                \/ i - n \in 1..Len(asked[r]) /\ all[i] = named[i - n]
  <2> HIDE DEF named
  <2>1. /\ \A i \in 1..Len(replayed[r]) : i \in 1..Len(all) /\ all[i] = replayed[r][i]
        /\ \A j \in 1..Len(named) : Len(replayed[r]) + j \in 1..Len(all) /\ all[Len(replayed[r]) + j] = named[j]
        /\ \A i \in 1..Len(all) :
              \/ i \in 1..Len(replayed[r])
              \/ i - Len(replayed[r]) \in 1..Len(named) /\ all[i] = named[i - Len(replayed[r])]
    BY <1>1, Cat
  <2> QED  BY <1>1, <2>1
<1>3. items = [i \in 1..Len(all) |-> Resolved(all[i])]
  BY <1>0 DEF Executed
<1>4. \A i \in 1..n : Resolved(replayed[r][i]) \in Items
  BY RowResolves DEF Replays
<1>5. \A j \in 1..Len(asked[r]) : Resolved(named[j]) \in Items
  BY InputResolves
<1>6. ASSUME NEW i \in 1..Len(all) PROVE items[i] \in Items
  <2>1. items[i] = Resolved(all[i])
    BY <1>3
  <2> HIDE DEF items, named, all
  <2> QED  BY <1>0, <1>2, <1>4, <1>5, <2>1
<1>7. items \in Seq(Items) /\ Len(items) = Len(all)
  <2>1. items = [i \in 1..Len(all) |-> items[i]]
    BY <1>3
  <2> HIDE DEF items, named, all
  <2> QED  BY <1>0, <1>6, <2>1, Mapped
<1>8. /\ \A i \in 1..n : items[i] = Resolved(replayed[r][i])
      /\ \A j \in 1..Len(asked[r]) : items[n + j] = Resolved(named[j])
  <2>1. \A i \in 1..Len(all) : items[i] = Resolved(all[i])
    BY <1>3
  <2> HIDE DEF items, named, all
  <2> QED  BY <1>2, <2>1
<1>9. DOMAIN items = 1..Len(items)
  BY <1>7, SeqDomain
<1> HIDE DEF items, named, all
<1>10. \A i \in 1..Len(items) : i \in 1..n \/ i - n \in 1..Len(asked[r])
  BY <1>1, <1>2, <1>7
<1> QED  BY <1>0, <1>2, <1>7, <1>8, <1>9, <1>10 DEF items, named

-----------------------------------------------------------------------------
(* Steps.                                                                  *)

Same(q) ==
  /\ stage'[q] = stage[q] /\ follows'[q] = follows[q] /\ asked'[q] = asked[q]
  /\ replayed'[q] = replayed[q] /\ executed'[q] = executed[q] /\ emitted'[q] = emitted[q]
Reads(q) == \E p \in Requests \cup {NoId}, input \in Inputs : ReadParent(q, p, input)

\* A step is one request's.
LEMMA AtRequest ==
  ASSUME Types, [ReferencesNext]_references, NEW q \in Requests
  PROVE  Same(q) \/ Reads(q) \/ Resolve(q) \/ Accept(q) \/ Emit(q) \/ EndResponse(q)
<1>1. ASSUME NEW r \in Requests, NEW p \in Requests \cup {NoId}, NEW input \in Inputs,
             ReadParent(r, p, input)
      PROVE  Same(q) \/ Reads(q)
  BY <1>1 DEF Types, ReadParent, Same, Reads
<1>2. ASSUME NEW r \in Requests, Resolve(r) PROVE Same(q) \/ Resolve(q)
  <2>1. CASE r # q
    BY <1>2, <2>1 DEF Types, Resolve, Same
  <2> QED  BY <1>2, <2>1
<1>3. ASSUME NEW r \in Requests, Accept(r) PROVE Same(q) \/ Accept(q)
  BY <1>3 DEF Types, Accept, Same
<1>4. ASSUME NEW r \in Requests, Emit(r) PROVE Same(q) \/ Emit(q)
  <2>1. CASE r # q
    BY <1>4, <2>1 DEF Types, Emit, Same
  <2> QED  BY <1>4, <2>1
<1>5. ASSUME NEW r \in Requests, EndResponse(r) PROVE Same(q) \/ EndResponse(q)
  BY <1>5 DEF Types, EndResponse, Same
<1>6. ASSUME NEW r \in Requests, DeleteResponse(r) PROVE Same(q)
  BY <1>6 DEF DeleteResponse, Same
<1>7. CASE UNCHANGED references
  BY <1>7 DEF references, Same
<1> QED  BY <1>1, <1>2, <1>3, <1>4, <1>5, <1>6, <1>7 DEF ReferencesNext

\* What each of its own steps leaves of a request.
LEMMA OwnSteps ==
  ASSUME Types, Emissions, NEW q \in Requests
  PROVE  /\ Reads(q) => /\ stage[q] = "idle" /\ stage'[q] = "read"
                        /\ emitted'[q] = emitted[q] /\ executed'[q] = executed[q]
         /\ Resolve(q) => /\ stage[q] = "read" /\ stage'[q] \in {"prepared", "refused"}
                          /\ emitted'[q] = emitted[q] /\ follows'[q] = follows[q]
                          /\ replayed'[q] = replayed[q]
         /\ Accept(q) => /\ stage[q] = "prepared" /\ stage'[q] = "running"
                         /\ asked'[q] = asked[q] /\ emitted'[q] = emitted[q] /\ follows'[q] = follows[q]
                         /\ replayed'[q] = replayed[q] /\ executed'[q] = executed[q]
         /\ Emit(q) => /\ stage[q] = "running" /\ stage'[q] = "running"
                       /\ asked'[q] = asked[q] /\ follows'[q] = follows[q]
                       /\ replayed'[q] = replayed[q] /\ executed'[q] = executed[q]
                       /\ \/ emitted[q] = <<>> /\ emitted'[q] = <<Reasoning(<<q, 0>>, "part")>>
                          \/ /\ emitted[q] = <<Reasoning(<<q, 0>>, "part")>>
                             /\ emitted'[q] = <<Reasoning(<<q, 0>>, "whole")>>
         /\ EndResponse(q) => /\ stage[q] = "running" /\ stage'[q] = "ended"
                              /\ asked'[q] = asked[q] /\ emitted'[q] = emitted[q] /\ follows'[q] = follows[q]
                              /\ replayed'[q] = replayed[q] /\ executed'[q] = executed[q]
<1>1. ASSUME Reads(q)
      PROVE  /\ stage[q] = "idle" /\ stage'[q] = "read"
             /\ emitted'[q] = emitted[q] /\ executed'[q] = executed[q]
  BY <1>1 DEF Reads, ReadParent, Types
<1>2. ASSUME Resolve(q)
      PROVE  /\ stage[q] = "read" /\ stage'[q] \in {"prepared", "refused"}
             /\ emitted'[q] = emitted[q] /\ follows'[q] = follows[q] /\ replayed'[q] = replayed[q]
  BY <1>2 DEF Resolve, Types
<1>3. ASSUME Accept(q)
      PROVE  /\ stage[q] = "prepared" /\ stage'[q] = "running"
             /\ asked'[q] = asked[q] /\ emitted'[q] = emitted[q] /\ follows'[q] = follows[q]
             /\ replayed'[q] = replayed[q] /\ executed'[q] = executed[q]
  BY <1>3 DEF Accept, Types
<1>4. ASSUME Emit(q)
      PROVE  /\ stage[q] = "running" /\ stage'[q] = "running"
             /\ asked'[q] = asked[q] /\ follows'[q] = follows[q]
             /\ replayed'[q] = replayed[q] /\ executed'[q] = executed[q]
             /\ \/ emitted[q] = <<>> /\ emitted'[q] = <<Reasoning(<<q, 0>>, "part")>>
                \/ /\ emitted[q] = <<Reasoning(<<q, 0>>, "part")>>
                   /\ emitted'[q] = <<Reasoning(<<q, 0>>, "whole")>>
  BY <1>4 DEF Emit, Types
<1>5. ASSUME EndResponse(q)
      PROVE  /\ stage[q] = "running" /\ stage'[q] = "ended"
             /\ asked'[q] = asked[q] /\ emitted'[q] = emitted[q] /\ follows'[q] = follows[q]
             /\ replayed'[q] = replayed[q] /\ executed'[q] = executed[q]
  BY <1>5 DEF EndResponse, Types
<1> QED  BY <1>1, <1>2, <1>3, <1>4, <1>5

\* Who has ended stays as it is.
LEMMA EndedStays ==
  ASSUME Types, Emissions, [ReferencesNext]_references, NEW q \in Requests, stage[q] = "ended"
  PROVE  Same(q)
BY AtRequest, OwnSteps

\* What a response said becomes what it said next.
LEMMA SaidLater ==
  ASSUME Types, Emissions, [ReferencesNext]_references,
         NEW q \in Requests, NEW now, emitted[q] = <<now>>
  PROVE  \E then \in Later(now) : emitted'[q] = <<then>>
<1>1. CASE emitted'[q] = emitted[q]
  <2>1. now \in Later(now)
    BY DEF Later
  <2> QED  BY <1>1, <2>1
<1>2. CASE Emit(q)
  <2>1. emitted[q] # <<>>
    OBVIOUS
  <2>2. now = Reasoning(<<q, 0>>, "part") /\ emitted'[q] = <<Reasoning(<<q, 0>>, "whole")>>
    BY <1>2, <2>1, OwnSteps
  <2>3. Reasoning(<<q, 0>>, "whole") \in Later(now)
    BY <2>2 DEF Later, Reasoning
  <2> QED  BY <2>2, <2>3
<1> QED  BY <1>1, <1>2, AtRequest, OwnSteps DEF Same

\* A later version of a later version is a later version.
LEMMA LaterAgain == ASSUME NEW it, NEW now \in Later(it), NEW then \in Later(now) PROVE then \in Later(it)
<1>1. CASE it.body = "part"
  BY <1>1 DEF Later
<1>2. CASE it.body # "part"
  BY <1>2 DEF Later
<1> QED  BY <1>1, <1>2

\* What an item once was stays in its past, though the store replaces it.
LEMMA WasStays ==
  ASSUME Types, Emissions, [ReferencesNext]_references, NEW it, Was(it)
  PROVE  Was(it)'
<1>1. ASSUME NEW q \in Requests, NEW now \in Later(it), emitted[q] = <<now>> PROVE Was(it)'
  <2>1. PICK then \in Later(now) : emitted'[q] = <<then>>
    BY <1>1, SaidLater
  <2>2. then \in Later(it)
    BY LaterAgain
  <2> QED  BY <2>1, <2>2 DEF Was
<1>2. CASE IsMessage(it)
  BY <1>2 DEF Was
<1> QED  BY <1>1, <1>2 DEF Was

\* Rows stay rows, and what is known stays so.
LEMMA StoredStays ==
  ASSUME Types, Emissions, [ReferencesNext]_references, NEW q \in Stored
  PROVE  q \in Stored' /\ asked'[q] = asked[q] /\ (emitted[q] # <<>> => emitted'[q] # <<>>)
<1>1. q \in Requests /\ stage[q] \in {"running", "ended"}
  BY DEF Stored
<1>2. /\ stage'[q] \in {"running", "ended"} /\ asked'[q] = asked[q]
      /\ emitted[q] # <<>> => emitted'[q] # <<>>
  <2>1. CASE Emit(q)
    <3>1. <<Reasoning(<<q, 0>>, "part")>> # <<>> /\ <<Reasoning(<<q, 0>>, "whole")>> # <<>>
      OBVIOUS
    <3>2. stage'[q] = "running" /\ asked'[q] = asked[q]
      BY <1>1, <2>1, OwnSteps
    <3>3. \/ emitted'[q] = <<Reasoning(<<q, 0>>, "part")>>
          \/ emitted'[q] = <<Reasoning(<<q, 0>>, "whole")>>
      BY <1>1, <2>1, OwnSteps
    <3>4. emitted'[q] # <<>>
      BY <3>1, <3>3
    <3> QED  BY <3>2, <3>4
  <2>2. CASE Same(q) \/ EndResponse(q)
    BY <1>1, <2>2, OwnSteps DEF Same
  <2>3. ~Reads(q) /\ ~Resolve(q) /\ ~Accept(q)
    BY <1>1, OwnSteps
  <2> QED  BY <1>1, <2>1, <2>2, <2>3, AtRequest
<1> QED  BY <1>1, <1>2 DEF Stored

\* What somebody was told stays told: a tombstone hides rows and removes none.
LEMMA KnownStays ==
  ASSUME Types, Emissions, [ReferencesNext]_references, NEW x, Known(x)
  PROVE  Known(x)'
<1>1. PICK q \in Stored : \/ \E i \in DOMAIN asked[q] : asked[q][i].id = x /\ asked[q][i].type \in {"message", "reasoning"}
                          \/ emitted[q] # <<>> /\ x = <<q, 0>>
  BY DEF Known
<1>2. q \in Stored' /\ asked'[q] = asked[q] /\ (emitted[q] # <<>> => emitted'[q] # <<>>)
  BY StoredStays
<1> QED  BY <1>1, <1>2 DEF Known

\* An item in full stays in full.
LEMMA FinalStays ==
  ASSUME Types, Emissions, [ReferencesNext]_references, NEW it, IsFinal(it)
  PROVE  IsFinal(it)'
<1>1. ASSUME NEW q \in Requests, stage[q] = "ended", emitted[q] = <<it>> PROVE IsFinal(it)'
  BY <1>1, EndedStays DEF Same, IsFinal
<1> QED  BY <1>1 DEF IsFinal

\* A row that may be stored stays one that may be stored.
LEMMA RowStays ==
  ASSUME Types, Emissions, [ReferencesNext]_references, NEW it, IsRow(it)
  PROVE  IsRow(it)'
<1>1. ASSUME NEW x \in ItemIds, Known(x), it = Reference(x) PROVE IsRow(it)'
  BY <1>1, KnownStays DEF IsRow
<1> QED  BY <1>1, FinalStays DEF IsRow

-----------------------------------------------------------------------------
(* The replay.                                                             *)

\* The lineages' rows, put together.
Joined(g) ==
  g = [x \in Requests |-> IF follows[x] = NoId THEN Rows(x) ELSE g[follows[x]] \o Rows(x)]
Lineages == [x \in Requests |-> replayed[x] \o Rows(x)]

\* Rows and replays are sequences of items.
LEMMA RowsType ==
  ASSUME Types, NEW q \in Requests
  PROVE  Rows(q) \in Seq(Items) /\ replayed[q] \in Seq(Items)
BY Cat DEF Rows, Types

\* Replaying a lineage from its first response gives, response by response, what was replayed.
LEMMA LineagesJoin == ASSUME Types, Parents PROVE Joined(Lineages)
<1>1. ASSUME NEW x \in Requests
      PROVE  Lineages[x] = IF follows[x] = NoId THEN Rows(x) ELSE Lineages[follows[x]] \o Rows(x)
  <2>1. CASE follows[x] = NoId
    <3>1. replayed[x] = <<>> /\ Rows(x) \in Seq(Items)
      BY <2>1, RowsType DEF Parents
    <3> QED  BY <2>1, <3>1, CatEmpty DEF Lineages
  <2>2. CASE follows[x] # NoId
    <3>1. follows[x] \in Requests
      BY <2>2 DEF Types
    <3> QED  BY <2>2, <3>1 DEF Parents, Lineages
  <2> QED  BY <2>1, <2>2
<1>2. Lineages = [x \in Requests |-> Lineages[x]]
  BY DEF Lineages
<1> QED  BY <1>1, <1>2 DEF Joined

\* They can be put together in one way only: a lineage has a first response.
LEMMA OneWay ==
  ASSUME Types, Acyclic, NEW f, NEW g, Joined(f), Joined(g)
  PROVE  f = g
<1>1. PICK rank \in [Requests -> Nat] : Descends(rank)
  BY DEF Acyclic
<1>2. /\ \A x \in Requests : f[x] = IF follows[x] = NoId THEN Rows(x) ELSE f[follows[x]] \o Rows(x)
      /\ \A x \in Requests : g[x] = IF follows[x] = NoId THEN Rows(x) ELSE g[follows[x]] \o Rows(x)
      /\ f = [x \in Requests |-> f[x]] /\ g = [x \in Requests |-> g[x]]
  BY DEF Joined
<1> DEFINE Bad == {x \in Requests : f[x] # g[x]}
           Ranks == {rank[x] : x \in Bad}
<1>3. Bad = {}
  <2> SUFFICES ASSUME Bad # {} PROVE FALSE
    OBVIOUS
  <2>1. Ranks \in SUBSET Nat /\ Ranks # {}
    OBVIOUS
  <2>2. PICK n \in Ranks : \A m \in Ranks : n <= m
    <3> HIDE DEF Ranks
    <3> QED  BY <2>1, LeastNumber
  <2>3. PICK x \in Bad : n = rank[x]
    OBVIOUS
  <2>4. x \in Requests /\ f[x] # g[x]
    OBVIOUS
  <2>5. follows[x] # NoId /\ follows[x] \in Requests
    BY <1>2, <2>4 DEF Types
  <2>6. rank[follows[x]] < n /\ n \in Nat /\ rank[follows[x]] \in Nat
    BY <1>1, <2>3, <2>4, <2>5 DEF Descends
  <2>7. follows[x] \notin Bad
    <3>1. \A y \in Bad : rank[y] \in Ranks
      OBVIOUS
    <3> HIDE DEF Bad, Ranks
    <3> QED  BY <2>2, <2>6, <3>1
  <2>8. f[follows[x]] = g[follows[x]]
    BY <2>5, <2>7
  <2> HIDE DEF Bad, Ranks
  <2> QED  BY <1>2, <2>4, <2>5, <2>8
<1>4. \A x \in Requests : f[x] = g[x]
  BY <1>3
<1> HIDE DEF Bad, Ranks
<1> QED  BY <1>2, <1>4

\* list_response_replay returns what the response replayed, asked for and said.
LEMMA ReplayRowsAre ==
  ASSUME Types, Parents, Acyclic, NEW p \in Requests
  PROVE  ReplayRows(p) = replayed[p] \o Rows(p)
<1>1. ReplayRows(p) = (CHOOSE g : Joined(g))[p]
  BY DEF ReplayRows, Joined
<1>2. Joined(CHOOSE g : Joined(g))
  BY LineagesJoin
<1>3. (CHOOSE g : Joined(g)) = Lineages
  BY <1>2, LineagesJoin, OneWay
<1> QED  BY <1>1, <1>3 DEF Lineages

-----------------------------------------------------------------------------
(* What a client sends.                                                    *)

\* A client names what somebody was told.
LEMMA SeenKnown ==
  ASSUME Types, Emissions, AskedRows, NEW x \in Seen
  PROVE  x \in ItemIds /\ Known(x)
<1>1. PICK q \in Stored : x \in {Rows(q)[i].id : i \in DOMAIN Rows(q)}
  BY DEF Seen
<1>2. q \in Requests /\ asked[q] \in Seq(Items)
  BY DEF Stored, Types
<1>3. DOMAIN Rows(q) = 1..Len(Rows(q)) /\ DOMAIN asked[q] = 1..Len(asked[q])
  BY <1>2, RowsType, SeqDomain
<1>4. PICK i \in 1..Len(Rows(q)) : x = Rows(q)[i].id
  BY <1>1, <1>3
<1>5. CASE emitted[q] = <<Rows(q)[i]>> /\ Rows(q)[i].id = <<q, 0>>
  <2>1. emitted[q] # <<>> /\ x = <<q, 0>> /\ 0 \in Nat
    BY <1>4, <1>5
  <2> QED  BY <1>2, <2>1, IdsDiffer DEF Known
<1>6. ASSUME i \in 1..Len(asked[q]), Rows(q)[i] = asked[q][i], IsRow(asked[q][i])
      PROVE  x \in ItemIds /\ Known(x)
  <2>1. x = asked[q][i].id /\ asked[q][i].id \in ItemIds
    BY <1>4, <1>6, RowForm
  <2>2. CASE Full(asked[q][i])
    BY <1>3, <1>6, <2>1, <2>2 DEF Known, Full
  <2> QED  BY <1>6, <2>1, <2>2, RowForm
<1> QED  BY <1>5, <1>6, StoredRows

\* A client resends an item as a response ended with it.
LEMMA AgainFinal ==
  ASSUME Types, Emissions, AskedRows, NEW it \in Again
  PROVE  IsFinal(it)
<1>1. PICK q \in Requests : /\ stage[q] = "ended" /\ it.type # "item_reference"
                            /\ it \in {Rows(q)[i] : i \in DOMAIN Rows(q)}
  BY DEF Again
<1>2. q \in Stored
  BY <1>1 DEF Stored
<1>3. PICK i \in 1..Len(Rows(q)) : it = Rows(q)[i]
  BY <1>1, RowsType, SeqDomain
<1>4. \/ IsRow(it)
      \/ emitted[q] = <<it>>
  BY <1>2, <1>3, StoredRows
<1>5. \A x \in ItemIds : it # Reference(x)
  BY <1>1, NameForm
<1> QED  BY <1>1, <1>4, <1>5 DEF IsRow, IsFinal

\* So whatever a client sends is a message, a name of something told or such an item.
LEMMA InputsFit ==
  ASSUME Types, Emissions, AskedRows, NEW input \in Inputs
  PROVE  input \in Seq(Items) /\ \A i \in 1..Len(input) : IsInput(input[i])
<1>1. ASSUME NEW it, it = Message \/ it \in Names \cup Again PROVE it \in Items /\ IsInput(it)
  <2>1. CASE it = Message
    BY <2>1, MessageType DEF IsInput
  <2>2. ASSUME NEW x \in Seen, it = Reference(x) PROVE it \in Items /\ IsInput(it)
    BY <2>2, SeenKnown, NameForm DEF IsInput, IsRow
  <2>3. ASSUME NEW x \in Seen, it = Bare(x) PROVE it \in Items /\ IsInput(it)
    BY <2>3, SeenKnown, NameForm DEF IsInput
  <2>4. CASE it \in Again
    BY <2>4, AgainFinal, FinalForm DEF IsInput, IsRow, Full
  <2> QED  BY <1>1, <2>1, <2>2, <2>3, <2>4 DEF Names
<1>2. CASE input = <<>>
  BY <1>2
<1>3. ASSUME NEW it, it = Message \/ it \in Names \cup Again, input = <<it>>
      PROVE  input \in Seq(Items) /\ \A i \in 1..Len(input) : IsInput(input[i])
  <2>1. it \in Items /\ IsInput(it)
    BY <1>1, <1>3
  <2>2. input \in Seq(Items) /\ Len(input) = 1 /\ input[1] = it
    BY <1>3, <2>1
  <2> QED  BY <2>1, <2>2
<1>4. ASSUME NEW n \in Names, NEW it \in Again, input = <<n, it>>
      PROVE  input \in Seq(Items) /\ \A i \in 1..Len(input) : IsInput(input[i])
  <2>1. n \in Items /\ IsInput(n) /\ it \in Items /\ IsInput(it)
    BY <1>1
  <2>2. input \in Seq(Items) /\ Len(input) = 2 /\ input[1] = n /\ input[2] = it
    BY <1>4, <2>1
  <2> QED  BY <2>1, <2>2
<1> QED  BY <1>2, <1>3, <1>4 DEF Inputs

-----------------------------------------------------------------------------
(* Every step keeps the invariant.                                         *)

\* A new request has its inputs and its predecessor's replay.
LEMMA ReadsWhat ==
  ASSUME RefInv, NEW q \in Requests, Reads(q)
  PROVE  /\ asked'[q] \in Seq(Items) /\ \A i \in 1..Len(asked'[q]) : IsInput(asked'[q][i])
         /\ replayed'[q] \in Seq(Items) /\ \A i \in 1..Len(replayed'[q]) : IsRow(replayed'[q][i])
         /\ follows'[q] \in Requests \cup {NoId}
         /\ follows'[q] = NoId => replayed'[q] = <<>>
         /\ follows'[q] # NoId => /\ stage[follows'[q]] = "ended"
                                  /\ replayed'[q] = replayed[follows'[q]] \o Rows(follows'[q])
<1>1. PICK p \in Requests \cup {NoId}, input \in Inputs : ReadParent(q, p, input)
  BY DEF Reads
<1>2. /\ asked'[q] = input /\ follows'[q] = p
      /\ replayed'[q] = IF p = NoId THEN <<>> ELSE ReplayRows(p)
      /\ p # NoId => stage[p] = "ended"
  BY <1>1 DEF RefInv, Types, ReadParent
<1>3. input \in Seq(Items) /\ \A i \in 1..Len(input) : IsInput(input[i])
  BY InputsFit DEF RefInv
<1>4. CASE p = NoId
  <2>1. <<>> \in Seq(Items) /\ Len(<<>>) = 0
    OBVIOUS
  <2> QED  BY <1>2, <1>3, <1>4, <2>1
<1>5. CASE p # NoId
  <2>1. p \in Requests /\ stage[p] = "ended" /\ p \in Stored
    BY <1>2, <1>5 DEF Stored
  <2>2. replayed'[q] = replayed[p] \o Rows(p)
    BY <1>2, <1>5, <2>1, ReplayRowsAre DEF RefInv
  <2>3. replayed[p] \in Seq(Items) /\ Rows(p) \in Seq(Items)
    BY <2>1, RowsType DEF RefInv
  <2>4. \A i \in 1..Len(replayed[p]) : IsRow(replayed[p][i])
    BY <2>1 DEF RefInv, Replays
  <2>5. ASSUME NEW i \in 1..Len(Rows(p)) PROVE IsRow(Rows(p)[i])
    <3>1. CASE emitted[p] = <<Rows(p)[i]>>
      BY <2>1, <3>1 DEF IsRow, IsFinal
    <3> QED  BY <2>1, <3>1, StoredRows DEF RefInv
  <2>6. replayed'[q] \in Seq(Items) /\ \A i \in 1..Len(replayed'[q]) : IsRow(replayed'[q][i])
    BY <2>2, <2>3, <2>4, <2>5, Cat
  <2> QED  BY <1>2, <1>3, <1>5, <2>1, <2>2, <2>6
<1> QED  BY <1>4, <1>5

\* A request that is resolved has its inputs stored, and is executed with what
\* they and its replay stand for.
LEMMA ResolvesWhat ==
  ASSUME RefInv, NEW q \in Requests, Resolve(q)
  PROVE  LET items == Executed(q, NamedInput(q, asked[q]))
         IN  /\ stage[q] = "read" /\ executed'[q] = items /\ asked'[q] = StoredInput(q, asked[q])
             /\ asked'[q] \in Seq(Items) /\ executed'[q] \in Seq(Items)
             /\ Len(asked'[q]) = Len(asked[q]) /\ \A i \in 1..Len(asked'[q]) : IsRow(asked'[q][i])
             /\ stage'[q] = IF IsAccepted(items) THEN "prepared" ELSE "refused"
<1>1. /\ stage[q] = "read" /\ asked'[q] = StoredInput(q, asked[q])
      /\ executed'[q] = Executed(q, NamedInput(q, asked[q]))
      /\ stage'[q] = IF IsAccepted(Executed(q, NamedInput(q, asked[q]))) THEN "prepared" ELSE "refused"
  BY DEF RefInv, Types, Resolve
<1>2. /\ StoredInput(q, asked[q]) \in Seq(Items) /\ Len(StoredInput(q, asked[q])) = Len(asked[q])
      /\ \A i \in 1..Len(asked[q]) : IsRow(StoredInput(q, asked[q])[i])
  BY <1>1, StoredType DEF RefInv
<1>3. Executed(q, NamedInput(q, asked[q])) \in Seq(Items)
  BY <1>1, ExecutedForm DEF RefInv
<1> QED  BY <1>1, <1>2, <1>3

\* Every variable stays a function of the requests.
OnRequests(f) == f = [q \in Requests |-> f[q]]

\* No step adds a request.
LEMMA DomainsStay ==
  ASSUME Types, [ReferencesNext]_references
  PROVE  /\ OnRequests(stage') /\ OnRequests(follows') /\ OnRequests(asked') /\ OnRequests(replayed')
         /\ OnRequests(executed') /\ OnRequests(emitted') /\ deleted' \subseteq Requests
<1>1. ASSUME NEW r \in Requests, NEW p, NEW input, ReadParent(r, p, input)
      PROVE  /\ OnRequests(stage') /\ OnRequests(follows') /\ OnRequests(asked') /\ OnRequests(replayed')
             /\ OnRequests(executed') /\ OnRequests(emitted') /\ deleted' \subseteq Requests
  BY <1>1 DEF Types, ReadParent, OnRequests
<1>2. ASSUME NEW r \in Requests, Resolve(r)
      PROVE  /\ OnRequests(stage') /\ OnRequests(follows') /\ OnRequests(asked') /\ OnRequests(replayed')
             /\ OnRequests(executed') /\ OnRequests(emitted') /\ deleted' \subseteq Requests
  BY <1>2 DEF Types, Resolve, OnRequests
<1>3. ASSUME NEW r \in Requests, Accept(r) \/ EndResponse(r) \/ DeleteResponse(r)
      PROVE  /\ OnRequests(stage') /\ OnRequests(follows') /\ OnRequests(asked') /\ OnRequests(replayed')
             /\ OnRequests(executed') /\ OnRequests(emitted') /\ deleted' \subseteq Requests
  BY <1>3 DEF Types, Accept, EndResponse, DeleteResponse, Stored, OnRequests
<1>4. ASSUME NEW r \in Requests, Emit(r)
      PROVE  /\ OnRequests(stage') /\ OnRequests(follows') /\ OnRequests(asked') /\ OnRequests(replayed')
             /\ OnRequests(executed') /\ OnRequests(emitted') /\ deleted' \subseteq Requests
  BY <1>4 DEF Types, Emit, OnRequests
<1>5. CASE UNCHANGED references
  BY <1>5 DEF Types, references, OnRequests
<1> QED  BY <1>1, <1>2, <1>3, <1>4, <1>5 DEF ReferencesNext

\* A step stores one response at most.
LEMMA FewStored ==
  ASSUME Types, Emissions, [ReferencesNext]_references
  PROVE  IsFiniteSet(Stored')
<1>1. IsFiniteSet(Stored)
  BY DEF Types
<1>2. ASSUME NEW r \in Requests, Accept(r) PROVE IsFiniteSet(Stored')
  <2>1. Stored' = Stored \cup {r}
    BY <1>2 DEF Types, Accept, Stored
  <2> QED  BY <1>1, <2>1, FS_AddElement
<1>3. ASSUME \A r \in Requests : ~Accept(r) PROVE IsFiniteSet(Stored')
  <2>1. ASSUME NEW q \in Stored' PROVE q \in Stored
    <3>1. q \in Requests /\ stage'[q] \in {"running", "ended"}
      BY <2>1 DEF Stored
    <3>2. stage[q] \in {"running", "ended"}
      BY <1>3, <3>1, AtRequest, OwnSteps DEF Same
    <3> QED  BY <3>1, <3>2 DEF Stored
  <2> QED  BY <1>1, <2>1, FS_Subset
<1> QED  BY <1>2, <1>3

\* Every step keeps the types.
LEMMA TypesStep == ASSUME RefInv, [ReferencesNext]_references PROVE Types'
<1>0. Types /\ Emissions
  BY DEF RefInv
<1>1. ASSUME NEW q \in Requests
      PROVE  /\ stage'[q] \in Stages /\ follows'[q] \in Requests \cup {NoId}
             /\ asked'[q] \in Seq(Items) /\ replayed'[q] \in Seq(Items)
             /\ executed'[q] \in Seq(Items) /\ emitted'[q] \in Seq(Items)
  <2>0. /\ stage[q] \in Stages /\ follows[q] \in Requests \cup {NoId}
        /\ asked[q] \in Seq(Items) /\ replayed[q] \in Seq(Items)
        /\ executed[q] \in Seq(Items) /\ emitted[q] \in Seq(Items)
    BY <1>0 DEF Types
  <2>1. CASE Same(q)
    BY <2>0, <2>1 DEF Same
  <2>2. CASE Reads(q)
    BY <1>0, <2>0, <2>2, ReadsWhat, OwnSteps DEF Stages
  <2>3. CASE Resolve(q)
    BY <1>0, <2>0, <2>3, ResolvesWhat, OwnSteps DEF Stages
  <2>4. CASE Accept(q) \/ EndResponse(q)
    BY <1>0, <2>0, <2>4, OwnSteps DEF Stages
  <2>5. CASE Emit(q)
    <3>1. <<Reasoning(<<q, 0>>, "part")>> \in Seq(Items) /\ <<Reasoning(<<q, 0>>, "whole")>> \in Seq(Items)
      BY SaidForm, OneItem
    <3> QED  BY <1>0, <2>0, <2>5, <3>1, OwnSteps DEF Stages
  <2> QED  BY <1>0, <2>1, <2>2, <2>3, <2>4, <2>5, AtRequest
<1>2. /\ stage' \in [Requests -> Stages] /\ follows' \in [Requests -> Requests \cup {NoId}]
      /\ asked' \in [Requests -> Seq(Items)] /\ replayed' \in [Requests -> Seq(Items)]
      /\ executed' \in [Requests -> Seq(Items)] /\ emitted' \in [Requests -> Seq(Items)]
  BY <1>0, <1>1, DomainsStay DEF OnRequests
<1> QED  BY <1>0, <1>2, DomainsStay, FewStored DEF Types

\* A response's item is announced and replaced by its own steps alone.
LEMMA EmissionsStep == ASSUME RefInv, [ReferencesNext]_references PROVE Emissions'
<1>0. Types /\ Emissions
  BY DEF RefInv
<1> SUFFICES ASSUME NEW q \in Requests
             PROVE  \/ emitted'[q] = <<>>
                    \/ stage'[q] \in {"running", "ended"}
                         /\ \E b \in {"part", "whole"} : emitted'[q] = <<Reasoning(<<q, 0>>, b)>>
  BY DEF Emissions
<1>1. CASE emitted'[q] = emitted[q]
  <2>1. stage[q] \in {"running", "ended"} => stage'[q] \in {"running", "ended"}
    BY <1>0, AtRequest, OwnSteps DEF Same
  <2> QED  BY <1>0, <1>1, <2>1 DEF Emissions
<1>2. CASE Emit(q)
  BY <1>0, <1>2, OwnSteps
<1> QED  BY <1>0, <1>1, <1>2, AtRequest, OwnSteps DEF Same

\* What a client sent is stored as rows when it is looked up, and rows stay rows.
LEMMA AskedStep == ASSUME RefInv, [ReferencesNext]_references PROVE AskedRows'
<1>0. Types /\ Emissions /\ AskedRows
  BY DEF RefInv
<1>1. ASSUME NEW it, IsInput(it) PROVE IsInput(it)'
  BY <1>0, <1>1, RowStays, KnownStays DEF IsInput
<1>2. ASSUME NEW q \in Requests, stage'[q] = "idle" PROVE asked'[q] = <<>>
  BY <1>0, <1>2, AtRequest, OwnSteps DEF Same, AskedRows
<1>3. ASSUME NEW q \in Requests, NEW i \in 1..Len(asked'[q])
      PROVE  (IF stage[q] = "read" THEN IsInput(asked[q][i]) ELSE IsRow(asked[q][i]))'
  <2>1. PICK z : z = asked'[q][i]
    OBVIOUS
  <2>2. CASE Reads(q)
    <3>1. IsInput(z)
      BY <2>1, <2>2, ReadsWhat
    <3>2. IsInput(z)'
      BY <1>1, <3>1
    <3> QED  BY <1>0, <2>1, <2>2, <3>2, OwnSteps
  <2>3. CASE Resolve(q)
    <3>1. IsRow(z)
      BY <2>1, <2>3, ResolvesWhat
    <3>2. IsRow(z)'
      BY <1>0, <3>1, RowStays
    <3>3. stage'[q] # "read"
      BY <1>0, <2>3, OwnSteps
    <3> QED  BY <2>1, <3>2, <3>3
  <2>4. CASE Same(q) \/ Accept(q) \/ Emit(q) \/ EndResponse(q)
    <3>1. /\ asked'[q] = asked[q]
          /\ stage'[q] = stage[q] \/ (stage[q] # "read" /\ stage'[q] # "read")
      BY <1>0, <2>4, OwnSteps DEF Same
    <3>2. IF stage[q] = "read" THEN IsInput(z) ELSE IsRow(z)
      BY <1>0, <2>1, <3>1 DEF AskedRows
    <3>3. IF stage[q] = "read" THEN IsInput(z)' ELSE IsRow(z)'
      BY <1>0, <1>1, <3>2, RowStays
    <3> QED  BY <2>1, <3>1, <3>3
  <2> QED  BY <1>0, <2>2, <2>3, <2>4, AtRequest
<1> QED  BY <1>2, <1>3 DEF AskedRows

\* What is replayed is rows, and they stay rows.
LEMMA ReplaysStep == ASSUME RefInv, [ReferencesNext]_references PROVE Replays'
<1>0. Types /\ Emissions /\ Replays
  BY DEF RefInv
<1>1. ASSUME NEW q \in Requests, NEW i \in 1..Len(replayed'[q]) PROVE IsRow(replayed[q][i])'
  <2>1. PICK z : z = replayed'[q][i]
    OBVIOUS
  <2>2. IsRow(z)
    <3>1. CASE Reads(q)
      BY <2>1, <3>1, ReadsWhat
    <3>2. CASE ~Reads(q)
      <4>1. replayed'[q] = replayed[q]
        BY <1>0, <3>2, AtRequest, OwnSteps DEF Same
      <4> QED  BY <1>0, <2>1, <4>1 DEF Replays
    <3> QED  BY <3>1, <3>2
  <2>3. IsRow(z)'
    BY <1>0, <2>2, RowStays
  <2> QED  BY <2>1, <2>3
<1> QED  BY <1>1 DEF Replays

\* A request replays what its predecessor replayed, asked and said, and none of that
\* changes after the predecessor ended.
LEMMA ParentsStep == ASSUME RefInv, [ReferencesNext]_references PROVE Parents'
<1>0. Types /\ Emissions /\ Parents
  BY DEF RefInv
<1> SUFFICES ASSUME NEW q \in Requests
             PROVE  IF follows'[q] = NoId THEN replayed'[q] = <<>>
                    ELSE /\ stage'[follows'[q]] = "ended"
                         /\ replayed'[q] = replayed'[follows'[q]] \o (asked'[follows'[q]] \o emitted'[follows'[q]])
  BY DEF Parents, Rows
<1>1. /\ follows'[q] \in Requests \cup {NoId}
      /\ follows'[q] = NoId => replayed'[q] = <<>>
      /\ follows'[q] # NoId => /\ stage[follows'[q]] = "ended"
                               /\ replayed'[q] = replayed[follows'[q]] \o Rows(follows'[q])
  <2>1. CASE Reads(q)
    BY <2>1, ReadsWhat
  <2>2. CASE ~Reads(q)
    <3>1. replayed'[q] = replayed[q] /\ follows'[q] = follows[q]
      BY <1>0, <2>2, AtRequest, OwnSteps DEF Same
    <3>2. follows[q] \in Requests \cup {NoId}
      BY <1>0 DEF Types
    <3> QED  BY <1>0, <3>1, <3>2 DEF Parents
  <2> QED  BY <2>1, <2>2
<1>2. CASE follows'[q] # NoId
  <2>1. PICK p : p = follows'[q]
    OBVIOUS
  <2>2. p \in Requests /\ stage[p] = "ended" /\ replayed'[q] = replayed[p] \o Rows(p)
    BY <1>1, <1>2, <2>1
  <2>3. stage'[p] = "ended" /\ replayed'[p] = replayed[p] /\ asked'[p] = asked[p] /\ emitted'[p] = emitted[p]
    BY <1>0, <2>2, EndedStays DEF Same
  <2>4. replayed'[q] = replayed'[p] \o (asked'[p] \o emitted'[p])
    BY <2>2, <2>3 DEF Rows
  <2> QED  BY <1>2, <2>1, <2>3, <2>4
<1> QED  BY <1>1, <1>2

\* A request continues one that was there before it, so no chain closes.
LEMMA AcyclicStep == ASSUME RefInv, [ReferencesNext]_references PROVE Acyclic'
<1>0. Types /\ Emissions /\ Parents
  BY DEF RefInv
<1>1. PICK rank \in [Requests -> Nat] : Descends(rank)
  BY DEF RefInv, Acyclic
<1>2. ASSUME NEW r \in Requests, NEW p \in Requests \cup {NoId}, NEW input \in Inputs,
             ReadParent(r, p, input)
      PROVE  Acyclic'
  <2>1. /\ follows' = [follows EXCEPT ![r] = p] /\ stage[r] = "idle"
        /\ p # NoId => stage[p] = "ended" /\ p \in Requests
    BY <1>2 DEF ReadParent
  <2> DEFINE new == [rank EXCEPT ![r] = IF p = NoId THEN 0 ELSE rank[p] + 1]
  <2>2. new \in [Requests -> Nat]
    BY <2>1
  <2>3. ASSUME NEW q \in Requests, follows'[q] # NoId PROVE new[follows'[q]] < new[q]
    <3>1. CASE q = r
      <4>1. follows'[q] = p /\ p # NoId /\ p # r /\ p \in Requests
        BY <1>0, <2>1, <2>3, <3>1 DEF Types
      <4>2. new[p] = rank[p] /\ new[q] = rank[p] + 1 /\ rank[p] \in Nat
        BY <3>1, <4>1
      <4> QED  BY <4>1, <4>2
    <3>2. CASE q # r
      <4>1. follows'[q] = follows[q] /\ follows[q] # NoId /\ follows[q] \in Requests
        BY <1>0, <2>1, <2>3, <3>2 DEF Types
      <4>2. stage[follows[q]] = "ended" /\ follows[q] # r
        BY <1>0, <2>1, <4>1 DEF Parents
      <4>3. rank[follows[q]] < rank[q]
        BY <1>1, <4>1 DEF Descends
      <4>4. new[q] = rank[q] /\ new[follows[q]] = rank[follows[q]]
        BY <3>2, <4>1, <4>2
      <4> QED  BY <4>1, <4>3, <4>4
    <3> QED  BY <3>1, <3>2
  <2> HIDE DEF new
  <2>4. Descends(new)'
    BY <2>3 DEF Descends
  <2> QED  BY <2>2, <2>4 DEF Acyclic
<1>3. ASSUME follows' = follows PROVE Acyclic'
  <2>1. Descends(rank)'
    BY <1>1, <1>3 DEF Descends
  <2> QED  BY <2>1 DEF Acyclic
<1>4. ASSUME NEW r \in Requests,
             Resolve(r) \/ Accept(r) \/ Emit(r) \/ EndResponse(r) \/ DeleteResponse(r)
      PROVE  follows' = follows
  BY <1>4 DEF Resolve, Accept, Emit, EndResponse, DeleteResponse
<1>5. CASE UNCHANGED references
  BY <1>3, <1>5 DEF references
<1> QED  BY <1>2, <1>3, <1>4, <1>5 DEF ReferencesNext

\* What a request runs on is what its rows stand for, the moment it is resolved.
LEMMA ResolvedStands ==
  ASSUME RefInv, NEW q \in Requests, Resolve(q), stage'[q] = "prepared"
  PROVE  LET rows == replayed[q] \o asked'[q]
         IN  /\ Len(executed'[q]) = Len(rows)
             /\ \A i \in 1..Len(rows) : Stands(rows[i], executed'[q][i])
<1>0. Types /\ Emissions /\ AskedRows /\ Replays
  BY DEF RefInv
<1> DEFINE rows == replayed[q] \o asked'[q]
           named == NamedInput(q, asked[q])
           items == Executed(q, named)
           n == Len(replayed[q])
<1>1. /\ stage[q] = "read" /\ executed'[q] = items /\ asked'[q] = StoredInput(q, asked[q])
      /\ asked'[q] \in Seq(Items) /\ Len(asked'[q]) = Len(asked[q]) /\ IsAccepted(items)
  BY ResolvesWhat
<1>2. /\ items \in Seq(Items) /\ Len(items) = n + Len(asked[q]) /\ DOMAIN items = 1..Len(items)
      /\ \A i \in 1..n : items[i] = Resolved(replayed[q][i])
      /\ \A j \in 1..Len(asked[q]) : items[n + j] = Resolved(named[j])
  BY <1>0, <1>1, ExecutedForm
<1>3. \A i \in 1..Len(items) : items[i] # Refused /\ ~IsImplicit(items[i])
  BY <1>1, <1>2 DEF IsAccepted
<1>4. replayed[q] \in Seq(Items) /\ n \in Nat /\ Len(asked[q]) \in Nat
  BY <1>0 DEF Types
<1> HIDE DEF items, named
<1>5. /\ Len(rows) = n + Len(asked[q])
      /\ \A i \in 1..n : rows[i] = replayed[q][i]
      /\ \A j \in 1..Len(asked[q]) : rows[n + j] = asked'[q][j]
  <2>1. /\ Len(rows) = Len(replayed[q]) + Len(asked'[q])
        /\ \A i \in 1..Len(replayed[q]) : rows[i] = replayed[q][i]
        /\ \A j \in 1..Len(asked'[q]) : rows[Len(replayed[q]) + j] = asked'[q][j]
    BY <1>1, <1>4, Cat
  <2> HIDE DEF rows
  <2> QED  BY <1>1, <2>1
<1> HIDE DEF n, rows
<1>6. ASSUME NEW i \in 1..n PROVE Stands(rows[i], executed'[q][i])
  <2>1. IsRow(replayed[q][i])
    BY <1>0 DEF Replays, n
  <2>2. items[i] = Resolved(replayed[q][i]) /\ items[i] # Refused
    BY <1>2, <1>3, <1>4
  <2> QED  BY <1>0, <1>1, <1>5, <2>1, <2>2, RowResolves
<1>7. ASSUME NEW j \in 1..Len(asked[q]) PROVE Stands(rows[n + j], executed'[q][n + j])
  <2>1. n + j \in 1..Len(items)
    BY <1>2, <1>4
  <2>2. items[n + j] = Resolved(named[j]) /\ items[n + j] # Refused /\ ~IsImplicit(items[n + j])
    BY <1>2, <1>3, <2>1
  <2>3. Stands(StoredInput(q, asked[q])[j], items[n + j])
    BY <1>0, <1>1, <2>2, InputResolves DEF named
  <2>4. rows[n + j] = StoredInput(q, asked[q])[j]
    BY <1>1, <1>5
  <2> QED  BY <1>1, <2>3, <2>4
<1>8. ASSUME NEW i \in 1..Len(rows) PROVE Stands(rows[i], executed'[q][i])
  <2>1. CASE i <= n
    BY <1>4, <1>6, <2>1
  <2>2. CASE i > n
    <3>1. i - n \in 1..Len(asked[q]) /\ i = n + (i - n)
      BY <1>4, <1>5, <2>2
    <3> QED  BY <1>7, <3>1
  <2> QED  BY <1>4, <2>1, <2>2
<1>9. Len(executed'[q]) = Len(rows)
  BY <1>1, <1>2, <1>5
<1> QED  BY <1>8, <1>9 DEF rows

\* A prepared request's execution input stands for its transcript, name by name.
LEMMA ExecutionsStep == ASSUME RefInv, [ReferencesNext]_references PROVE Executions'
<1>0. Types /\ Emissions
  BY DEF RefInv
<1>1. ASSUME NEW row, NEW it, Stands(row, it) PROVE Stands(row, it)'
  BY <1>0, <1>1, WasStays DEF Stands
<1>2. ASSUME NEW q \in Requests, stage'[q] \in Prepared
      PROVE  LET rows == replayed'[q] \o asked'[q]
             IN  /\ Len(executed'[q]) = Len(rows)
                 /\ \A i \in 1..Len(rows) : Stands(rows[i], executed'[q][i])
  <2>1. CASE Resolve(q)
    <3>1. stage'[q] = "prepared" /\ replayed'[q] = replayed[q]
      BY <1>0, <1>2, <2>1, OwnSteps DEF Prepared
    <3> QED  BY <2>1, <3>1, ResolvedStands
  <2>2. CASE ~Resolve(q)
    <3>1. /\ ~Reads(q)
          /\ stage[q] \in Prepared /\ replayed'[q] = replayed[q] /\ asked'[q] = asked[q]
          /\ executed'[q] = executed[q]
      BY <1>0, <1>2, <2>2, AtRequest, OwnSteps DEF Same, Prepared
    <3> QED  BY <3>1 DEF RefInv, Executions, Transcript
  <2> QED  BY <2>1, <2>2
<1>3. ASSUME NEW q \in Requests, stage'[q] \in Prepared, NEW i \in 1..Len(Transcript(q)')
      PROVE  Stands(Transcript(q)[i], executed[q][i])'
  <2>1. PICK row, it : row = Transcript(q)'[i] /\ it = executed'[q][i]
    OBVIOUS
  <2>2. Transcript(q)' = replayed'[q] \o asked'[q]
    BY DEF Transcript
  <2>3. Stands(row, it)
    BY <1>2, <1>3, <2>1, <2>2
  <2>4. Stands(row, it)'
    BY <1>1, <2>3
  <2> QED  BY <2>1, <2>4
<1>4. ASSUME NEW q \in Requests, stage'[q] \in Prepared
      PROVE  Len(executed'[q]) = Len(Transcript(q)')
  BY <1>2, <1>4 DEF Transcript
<1> QED  BY <1>3, <1>4 DEF Executions

\* Every step of prepare_request, begin_response, the output writes and delete_response
\* keeps the invariant.
LEMMA RefInvStep == ASSUME RefInv, [ReferencesNext]_references PROVE RefInv'
BY TypesStep, EmissionsStep, AskedStep, ReplaysStep, ParentsStep, AcyclicStep, ExecutionsStep DEF RefInv

\* It holds before the first request.
LEMMA RefInvInit == ASSUME ReferencesInit PROVE RefInv
<1>1. <<>> \in Seq(Items) /\ Len(<<>>) = 0 /\ <<>> = <<>>
  OBVIOUS
<1>2. Stored = {}
  BY DEF ReferencesInit, Stored
<1>3. Types
  BY <1>1, <1>2, FS_EmptySet DEF ReferencesInit, Types, Stages
<1>4. Emissions /\ Parents
  BY DEF ReferencesInit, Emissions, Parents
<1>5. AskedRows /\ Replays
  BY <1>1 DEF ReferencesInit, AskedRows, Replays
<1>6. Executions
  BY DEF ReferencesInit, Executions, Prepared
<1>7. Acyclic
  <2>1. [q \in Requests |-> 0] \in [Requests -> Nat]
    OBVIOUS
  <2>2. Descends([q \in Requests |-> 0])
    BY DEF ReferencesInit, Descends
  <2> QED  BY <2>1, <2>2 DEF Acyclic
<1> QED  BY <1>3, <1>4, <1>5, <1>6, <1>7 DEF RefInv

-----------------------------------------------------------------------------
(* A continued response's context.                                         *)

\* Of two items that said the same name, the later is the other one's future.
LEMMA SameName ==
  ASSUME Emissions, NEW old, NEW now, Was(old), IsNow(now), old.id = now.id
  PROVE  now \in Later(old)
<1>1. ASSUME NEW q \in Requests, emitted[q] = <<now>> PROVE now.id = <<q, 0>>
  <2>1. PICK b \in {"part", "whole"} : now = Reasoning(<<q, 0>>, b)
    BY <1>1, OneSaid
  <2> QED  BY <2>1, SaidForm
<1>2. CASE IsMessage(old)
  <2>1. IsMessage(now)
    BY <1>1, <1>2, MessageForm DEF IsNow
  <2>2. now = old
    BY <1>2, <2>1, MessageForm
  <2> QED  BY <2>2 DEF Later
<1>3. ASSUME NEW q \in Requests, NEW v \in Later(old), emitted[q] = <<v>> PROVE now \in Later(old)
  <2>1. v.id = <<q, 0>>
    <3>1. PICK b \in {"part", "whole"} : v = Reasoning(<<q, 0>>, b)
      BY <1>3, OneSaid
    <3> QED  BY <3>1, SaidForm
  <2>2. v = old \/ v = [old EXCEPT !.body = "whole"]
    BY <1>3 DEF Later
  <2>3. old.id = <<q, 0>>
    <3>1. CASE v = old
      BY <2>1, <3>1
    <3>2. CASE v = [old EXCEPT !.body = "whole"]
      <4>1. PICK b \in {"part", "whole"} : v = Reasoning(<<q, 0>>, b)
        BY <1>3, OneSaid
      <4>2. DOMAIN v = {"type", "id", "body"} /\ DOMAIN v = DOMAIN old
        BY <3>2, <4>1 DEF Reasoning
      <4>3. v.id = old.id
        BY <3>2, <4>2
      <4> QED  BY <2>1, <4>3
    <3> QED  BY <2>2, <3>1, <3>2
  <2>4. ~IsMessage(now)
    BY <2>3, MessageForm
  <2>5. PICK y \in Requests : emitted[y] = <<now>>
    BY <2>4 DEF IsNow
  <2>6. y = q
    BY <1>1, <2>3, <2>5
  <2>7. now = v
    BY <1>3, <2>5, <2>6
  <2> QED  BY <1>3, <2>7
<1> QED  BY <1>2, <1>3 DEF Was

\* A row that is resolved again stands for what it stood for, or its future.
LEMMA StandsAgain ==
  ASSUME Types, Emissions, AskedRows, NEW row, IsRow(row), NEW old, Stands(row, old),
         Resolved(row) # Refused
  PROVE  Resolved(row) \in Later(old)
<1>1. CASE Full(row)
  <2>1. row.type # "item_reference" /\ Resolved(row) = row
    BY <1>1, FullIsNoName DEF Full
  <2>2. old = row
    BY <2>1 DEF Stands
  <2> QED  BY <2>1, <2>2 DEF Later
<1>2. CASE ~Full(row)
  <2>1. row = Reference(row.id) /\ row.id \in ItemIds
    BY <1>2, RowForm
  <2>2. old.id = row.id /\ Was(old)
    BY <2>1, NameForm DEF Stands
  <2>3. PICK found \in Found(row.id) : Resolved(row) = Rows(found[1])[found[2]]
    BY <2>1, ReferenceResolves
  <2>4. IsNow(Resolved(row)) /\ Resolved(row).id = row.id
    BY <2>3, FoundForm
  <2> QED  BY <2>2, <2>4, SameName
<1> QED  BY <1>1, <1>2

\* Items taken one by one from two sequences follow their concatenation.
LEMMA Along ==
  ASSUME NEW ran \in Seq(Items), NEW said \in Seq(Items), NEW items, NEW more \in Nat,
         Len(items) = Len(ran) + Len(said) + more,
         \A i \in 1..Len(ran) : items[i] \in Later(ran[i]),
         \A j \in 1..Len(said) : items[Len(ran) + j] \in Later(said[j])
  PROVE  Len(items) >= Len(ran \o said) /\ \A i \in DOMAIN (ran \o said) : items[i] \in Later((ran \o said)[i])
<1>1. PICK both \in Seq(Items) :
        /\ both = ran \o said /\ Len(both) = Len(ran) + Len(said)
        /\ \A i \in 1..Len(ran) : both[i] = ran[i]
        /\ \A i \in 1..Len(both) : \/ i \in 1..Len(ran)
                                   \/ i - Len(ran) \in 1..Len(said) /\ both[i] = said[i - Len(ran)]
  <2>1. PICK both : both = ran \o said
    OBVIOUS
  <2>2. /\ both \in Seq(Items) /\ Len(both) = Len(ran) + Len(said)
        /\ \A i \in 1..Len(ran) : both[i] = ran[i]
        /\ \A i \in 1..Len(both) : \/ i \in 1..Len(ran)
                                   \/ i - Len(ran) \in 1..Len(said) /\ both[i] = said[i - Len(ran)]
    BY <2>1, Cat
  <2> QED  BY <2>1, <2>2
<1>2. Len(ran) \in Nat /\ Len(said) \in Nat /\ DOMAIN both = 1..Len(both)
  BY <1>1, SeqDomain
<1>3. ASSUME NEW i \in 1..Len(both) PROVE items[i] \in Later(both[i])
  <2>1. CASE i \in 1..Len(ran)
    <3>1. both[i] = ran[i]
      BY <1>1, <2>1
    <3> QED  BY <2>1, <3>1
  <2>2. CASE i - Len(ran) \in 1..Len(said) /\ both[i] = said[i - Len(ran)]
    <3>1. i = Len(ran) + (i - Len(ran))
      BY <1>2
    <3> QED  BY <2>2, <3>1
  <2> QED  BY <1>1, <2>1, <2>2
<1>4. Len(items) >= Len(both)
  BY <1>1, <1>2
<1> QED  BY <1>1, <1>2, <1>3, <1>4

\* A request that is accepted runs on what its predecessor ran on and said.
LEMMA AcceptedContinues ==
  ASSUME RefInv, NEW r \in Requests, Resolve(r), stage'[r] = "prepared", follows[r] # NoId
  PROVE  SameContext(executed'[r], follows[r])
<1>0. Types /\ Emissions /\ AskedRows /\ Replays
  BY DEF RefInv
<1>1. PICK p \in Requests : p = follows[r] /\ stage[p] = "ended" /\ replayed[r] = replayed[p] \o Rows(p)
  BY <1>0 DEF RefInv, Types, Parents
<1>2. PICK tr : tr = Transcript(p)
  OBVIOUS
<1>3. PICK items : items = Executed(r, NamedInput(r, asked[r]))
  OBVIOUS
<1>4. PICK said \in Seq(Items) : said = emitted[p]
  BY <1>0 DEF Types
<1>5. PICK old \in Seq(Items) : old = executed[p]
  BY <1>0 DEF Types
<1>6. tr \in Seq(Items) /\ replayed[r] = tr \o said
  <2>1. replayed[p] \in Seq(Items) /\ asked[p] \in Seq(Items)
    BY <1>0 DEF Types
  <2>2. tr = replayed[p] \o asked[p] /\ replayed[r] = replayed[p] \o (asked[p] \o said)
    BY <1>1, <1>2, <1>4 DEF Transcript, Rows
  <2>3. replayed[p] \o asked[p] \in Seq(Items)
    BY <2>1, Cat
  <2>4. (replayed[p] \o asked[p]) \o said = replayed[p] \o (asked[p] \o said)
    <3>1. ASSUME NEW a \in Seq(Items), NEW b \in Seq(Items) PROVE (a \o b) \o said = a \o (b \o said)
      BY CatAssoc
    <3> QED  BY <2>1, <3>1
  <2> QED  BY <2>2, <2>3, <2>4
<1>7. PICK all \in Seq(Items) : all = replayed[r]
  BY <1>0 DEF Types
<1>8. /\ Len(all) = Len(tr) + Len(said) /\ Len(tr) \in Nat /\ Len(said) \in Nat
      /\ \A i \in 1..Len(tr) : i \in 1..Len(all) /\ all[i] = tr[i]
      /\ \A j \in 1..Len(said) : Len(tr) + j \in 1..Len(all) /\ all[Len(tr) + j] = said[j]
  BY <1>6, <1>7, Cat
<1>9. Len(old) = Len(tr) /\ \A i \in 1..Len(tr) : Stands(tr[i], old[i])
  BY <1>1, <1>2, <1>5 DEF RefInv, Executions, Prepared
<1>10. stage[r] = "read" /\ executed'[r] = items /\ IsAccepted(items)
  BY <1>3, ResolvesWhat
<1>11. PICK more \in Nat : more = Len(asked[r])
  BY <1>0 DEF Types
<1>12. /\ Len(items) = Len(all) + more /\ DOMAIN items = 1..Len(items)
       /\ \A i \in 1..Len(all) : items[i] = Resolved(all[i])
  BY <1>0, <1>3, <1>7, <1>10, <1>11, ExecutedForm
<1>13. \A i \in 1..Len(all) : items[i] # Refused /\ IsRow(all[i])
  <2>1. \A i \in 1..Len(all) : i \in DOMAIN items
    BY <1>8, <1>12
  <2> QED  BY <1>0, <1>7, <1>10, <2>1 DEF IsAccepted, Replays
<1>14. ASSUME NEW i \in 1..Len(old) PROVE items[i] \in Later(old[i])
  <2>1. items[i] = Resolved(tr[i]) /\ items[i] # Refused /\ IsRow(tr[i]) /\ Stands(tr[i], old[i])
    BY <1>8, <1>9, <1>12, <1>13
  <2>2. Resolved(tr[i]) \in Later(old[i])
    BY <1>0, <2>1, StandsAgain
  <2> QED  BY <2>1, <2>2
<1>15. ASSUME NEW j \in 1..Len(said) PROVE items[Len(old) + j] \in Later(said[j])
  <2>1. items[Len(old) + j] = Resolved(said[j])
    BY <1>8, <1>9, <1>12
  <2>2. emitted[p] = <<said[j]>>
    BY <1>0, <1>4, EmittedItems
  <2>3. IsNow(said[j])
    BY <2>2 DEF IsNow
  <2>4. Resolved(said[j]) = said[j]
    BY <1>0, <2>3, NowForm, FullIsNoName
  <2> QED  BY <2>1, <2>4 DEF Later
<1>16. Len(items) = Len(old) + Len(said) + more
  BY <1>8, <1>9, <1>12
<1>17. Len(items) >= Len(old \o said) /\ \A i \in DOMAIN (old \o said) : items[i] \in Later((old \o said)[i])
  BY <1>14, <1>15, <1>16, Along
<1>18. Ran(follows[r]) = old \o said
  BY <1>1, <1>4, <1>5 DEF Ran
<1> QED  BY <1>10, <1>17, <1>18 DEF SameContext

\* As many values as arguments.
LEMMA FiniteImage ==
  ASSUME NEW S, IsFiniteSet(S), NEW f, f = [s \in S |-> f[s]]
  PROVE  IsFiniteSet({f[s] : s \in S})
<1> DEFINE T == {f[s] : s \in S}
<1>1. f \in [S -> T] /\ \A t \in T : \E s \in S : f[s] = t
  OBVIOUS
<1> HIDE DEF T
<1>2. f \in Surjection(S, T)
  BY <1>1 DEF Surjection
<1>3. IsFiniteSet(T)
  BY <1>2, FS_Surjection
<1> QED  BY <1>3 DEF T

ToldBy(x, q) == {<<q, i>> : i \in {j \in RowsOf(x, q) : Rows(q)[j].body # "none"}}

\* An item was told so many times.
LEMMA FewTold ==
  ASSUME Types, NEW x
  PROVE  IsFiniteSet(Told(x))
<1>1. ASSUME NEW q \in Stored PROVE IsFiniteSet(ToldBy(x, q))
  <2>1. q \in Requests
    BY DEF Stored
  <2>2. asked[q] \in Seq(Items) /\ emitted[q] \in Seq(Items)
    BY <2>1 DEF Types
  <2>3. Rows(q) \in Seq(Items)
    BY <2>2, Cat DEF Rows
  <2>4. PICK S : S = {j \in RowsOf(x, q) : Rows(q)[j].body # "none"}
    OBVIOUS
  <2>5. DOMAIN Rows(q) = 1..Len(Rows(q)) /\ Len(Rows(q)) \in Nat
    BY <2>3, SeqDomain
  <2>6. S \in SUBSET (1..Len(Rows(q)))
    BY <2>4, <2>5 DEF RowsOf
  <2>7. IsFiniteSet(S)
    <3>1. IsFiniteSet(1..Len(Rows(q)))
      BY <2>5, FS_Interval
    <3> QED  BY <2>6, <3>1, FS_Subset
  <2>8. PICK f : f = [i \in S |-> <<q, i>>]
    OBVIOUS
  <2>9. f = [i \in S |-> f[i]] /\ {f[i] : i \in S} = {<<q, i>> : i \in S}
    BY <2>8
  <2>10. IsFiniteSet({f[i] : i \in S})
    BY <2>7, <2>9, FiniteImage
  <2>11. ToldBy(x, q) = {<<q, i>> : i \in S}
    BY <2>4 DEF ToldBy
  <2> QED  BY <2>9, <2>10, <2>11
<1>2. PICK f : f = [q \in Stored |-> ToldBy(x, q)]
  OBVIOUS
<1>3. IsFiniteSet({f[q] : q \in Stored})
  <2>1. IsFiniteSet(Stored) /\ f = [q \in Stored |-> f[q]]
    BY <1>2 DEF Types
  <2> QED  BY <2>1, FiniteImage
<1>4. \A T \in {f[q] : q \in Stored} : IsFiniteSet(T)
  BY <1>1, <1>2
<1>5. IsFiniteSet(UNION {f[q] : q \in Stored})
  BY <1>3, <1>4, FS_UNION
<1>6. {f[q] : q \in Stored} = {ToldBy(x, q) : q \in Stored}
  BY <1>2
<1>7. Told(x) = UNION {ToldBy(x, q) : q \in Stored}
  BY DEF Told, ToldBy
<1> QED  BY <1>5, <1>6, <1>7

\* What is found was told, and what was told by a response that is not deleted
\* is found.
LEMMA FoundAndTold ==
  ASSUME Types, Emissions, AskedRows, NEW x
  PROVE  /\ Found(x) \subseteq Told(x)
         /\ \A t \in Told(x) : t[1] \in deleted \/ t \in Found(x)
<1>1. ASSUME NEW row \in Found(x) PROVE row \in Told(x)
  <2>1. PICK q \in Stored \ deleted : row \in {<<q, i>> : i \in RowsOf(x, q)}
    BY DEF Found
  <2>2. PICK i \in RowsOf(x, q) : row = <<q, i>>
    BY <2>1
  <2>3. Full(Rows(q)[i])
    BY <2>2, FoundForm, NowForm
  <2>4. Rows(q)[i].body # "none"
    BY <2>3 DEF Full
  <2>5. row \in ToldBy(x, q)
    BY <2>2, <2>4 DEF ToldBy
  <2> QED  BY <2>1, <2>5 DEF Told, ToldBy
<1>2. ASSUME NEW t \in Told(x) PROVE t[1] \in deleted \/ t \in Found(x)
  <2>1. PICK q \in Stored : t \in ToldBy(x, q)
    BY DEF Told, ToldBy
  <2>2. PICK i \in RowsOf(x, q) : t = <<q, i>>
    BY <2>1 DEF ToldBy
  <2>3. CASE q \notin deleted
    BY <2>1, <2>2, <2>3 DEF Found
  <2> QED  BY <2>2, <2>3
<1> QED  BY <1>1, <1>2

\* What somebody was told is told by a response.
LEMMA KnownIsTold ==
  ASSUME Types, Emissions, AskedRows, NEW x \in ItemIds, Known(x)
  PROVE  Told(x) # {}
<1>1. PICK q \in Stored :
        \/ \E i \in DOMAIN asked[q] : asked[q][i].id = x /\ asked[q][i].type \in {"message", "reasoning"}
        \/ emitted[q] # <<>> /\ x = <<q, 0>>
  BY DEF Known
<1>2. q \in Requests /\ stage[q] \in {"running", "ended"}
  BY DEF Stored
<1>3. asked[q] \in Seq(Items) /\ emitted[q] \in Seq(Items)
  BY <1>2 DEF Types
<1>4. PICK rows : rows = Rows(q)
  OBVIOUS
<1>5. /\ rows \in Seq(Items) /\ DOMAIN rows = 1..Len(rows)
      /\ DOMAIN asked[q] = 1..Len(asked[q])
      /\ \A i \in 1..Len(asked[q]) : i \in 1..Len(rows) /\ rows[i] = asked[q][i]
      /\ \A i \in 1..Len(emitted[q]) : Len(asked[q]) + i \in 1..Len(rows) /\ rows[Len(asked[q]) + i] = emitted[q][i]
  <2>1. rows = asked[q] \o emitted[q]
    BY <1>4 DEF Rows
  <2>2. rows \in Seq(Items)
    BY <1>3, <2>1, Cat
  <2>3. /\ \A i \in 1..Len(asked[q]) : i \in 1..Len(rows) /\ rows[i] = asked[q][i]
        /\ \A i \in 1..Len(emitted[q]) : Len(asked[q]) + i \in 1..Len(rows) /\ rows[Len(asked[q]) + i] = emitted[q][i]
    BY <1>3, <2>1, Cat
  <2> QED  BY <1>3, <2>2, <2>3, SeqDomain
<1>6. ASSUME NEW i \in 1..Len(rows), rows[i].id = x, Full(rows[i]) PROVE Told(x) # {}
  <2>1. rows[i].type # "item_reference" /\ rows[i].body # "none"
    BY <1>6 DEF Full
  <2>2. i \in RowsOf(x, q)
    BY <1>4, <1>5, <1>6, <2>1 DEF RowsOf
  <2>3. <<q, i>> \in ToldBy(x, q)
    BY <1>4, <2>1, <2>2 DEF ToldBy
  <2>4. ToldBy(x, q) \in {ToldBy(x, y) : y \in Stored}
    OBVIOUS
  <2>5. Told(x) = UNION {ToldBy(x, y) : y \in Stored}
    BY DEF Told, ToldBy
  <2> QED  BY <2>3, <2>4, <2>5
<1>7. ASSUME NEW i \in DOMAIN asked[q], asked[q][i].id = x, asked[q][i].type \in {"message", "reasoning"}
      PROVE  Told(x) # {}
  <2>1. i \in 1..Len(asked[q]) /\ IsRow(asked[q][i])
    BY <1>2, <1>5 DEF AskedRows
  <2>2. Full(asked[q][i])
    BY <1>7, <2>1, RowForm, NameForm
  <2> QED  BY <1>5, <1>6, <1>7, <2>1, <2>2
<1>8. CASE emitted[q] # <<>> /\ x = <<q, 0>>
  <2>1. PICK b \in {"part", "whole"} : emitted[q] = <<Reasoning(<<q, 0>>, b)>>
    BY <1>2, <1>8 DEF Emissions
  <2>2. 1 \in 1..Len(emitted[q]) /\ emitted[q][1] = Reasoning(<<q, 0>>, b)
    BY <2>1
  <2>3. Full(emitted[q][1]) /\ emitted[q][1].id = x
    BY <1>2, <1>8, <2>2, SaidForm DEF Full
  <2> QED  BY <1>5, <1>6, <2>2, <2>3
<1> QED  BY <1>1, <1>7, <1>8

\* A request that names nothing of its own is refused over a name it replays
\* that was told twice, or that a deleted response told.
LEMMA RefusedOverNames ==
  ASSUME RefInv, NEW r \in Requests, Resolve(r), stage'[r] = "refused", NamesIn(asked[r]) = {}
  PROVE  \E x \in NamesIn(replayed[r]) : Cardinality(Told(x)) > 1 \/ \E t \in Told(x) : t[1] \in deleted
<1>0. Types /\ Emissions /\ AskedRows /\ Replays
  BY DEF RefInv
<1>1. PICK items : items = Executed(r, NamedInput(r, asked[r]))
  OBVIOUS
<1>2. stage[r] = "read" /\ ~IsAccepted(items)
  BY <1>1, ResolvesWhat
<1>3. PICK all \in Seq(Items), mine \in Seq(Items) : all = replayed[r] /\ mine = asked[r]
  BY <1>0 DEF Types
<1>4. PICK named : named = NamedInput(r, mine)
  OBVIOUS
<1>5. /\ Len(items) = Len(all) + Len(mine) /\ DOMAIN items = 1..Len(items)
      /\ \A i \in 1..Len(all) : items[i] = Resolved(all[i])
      /\ \A j \in 1..Len(mine) : items[Len(all) + j] = Resolved(named[j])
      /\ \A i \in 1..Len(items) : i \in 1..Len(all) \/ i - Len(all) \in 1..Len(mine)
  BY <1>0, <1>1, <1>2, <1>3, <1>4, ExecutedForm
<1>6. PICK i \in 1..Len(items) : items[i] = Refused \/ IsImplicit(items[i])
  BY <1>2, <1>5 DEF IsAccepted
<1>7. DOMAIN all = 1..Len(all) /\ DOMAIN mine = 1..Len(mine) /\ Len(all) \in Nat
  BY <1>3, SeqDomain
<1>8. i \notin {Len(all) + j : j \in 1..Len(mine)}
  <2> SUFFICES ASSUME NEW j \in 1..Len(mine), i = Len(all) + j PROVE FALSE
    OBVIOUS
  <2>1. items[i] = Resolved(named[j])
    BY <1>5
  <2>2. Full(Resolved(named[j])) \/ mine[j] \in {Reference(mine[j].id), Bare(mine[j].id)}
    BY <1>0, <1>2, <1>3, <1>4, InputResolves
  <2>3. mine[j] \in {Reference(mine[j].id), Bare(mine[j].id)}
    BY <1>6, <2>1, <2>2, FullIsNoName
  <2>4. mine[j].id \in NamesIn(mine) \/ mine[j] = Bare(NoId)
    <3>1. CASE mine[j] = Reference(mine[j].id)
      <4>1. mine[j].type = "item_reference"
        BY <3>1 DEF Reference
      <4> QED  BY <1>7, <4>1 DEF NamesIn, IsName
    <3>2. CASE mine[j] = Bare(mine[j].id) /\ mine[j].id # NoId
      <4>1. IsImplicit(mine[j])
        BY <3>2 DEF Bare, IsImplicit
      <4> QED  BY <1>7, <4>1 DEF NamesIn, IsName
    <3> QED  BY <2>3, <3>1, <3>2
  <2>5. mine[j] # Bare(NoId)
    <3>1. IsInput(mine[j])
      BY <1>0, <1>2, <1>3 DEF AskedRows
    <3>2. Bare(NoId).id = NoId /\ Bare(NoId).type = "reasoning"
      BY DEF Bare
    <3> QED  BY <1>0, <3>1, <3>2, RowForm, MessageType, NameForm DEF IsInput
  <2> QED  BY <1>3, <2>4, <2>5
<1>9. i \in 1..Len(all)
  <2>1. CASE i - Len(all) \in 1..Len(mine)
    <3>1. i = Len(all) + (i - Len(all))
      BY <1>7
    <3> QED  BY <1>8, <2>1, <3>1
  <2> QED  BY <1>5, <2>1
<1>10. IsRow(all[i]) /\ items[i] = Resolved(all[i])
  BY <1>0, <1>3, <1>5, <1>9 DEF Replays
<1>11. PICK x \in ItemIds : all[i] = Reference(x) /\ Known(x) /\ Cardinality(Found(x)) # 1
  <2>1. ~IsImplicit(Resolved(all[i]))
    BY <1>0, <1>10, RowResolves
  <2>2. /\ all[i] = Reference(all[i].id) /\ Known(all[i].id) /\ Cardinality(Found(all[i].id)) # 1
    BY <1>0, <1>6, <1>10, <2>1, RowResolves
  <2> QED  BY <1>0, <1>10, <2>2, RowForm
<1>12. x \in NamesIn(all)
  BY <1>7, <1>9, <1>11, NameForm DEF NamesIn, IsName
<1>13. CASE \A t \in Told(x) : t[1] \notin deleted
  <2>1. Found(x) = Told(x)
    <3>1. Found(x) \subseteq Told(x)
      BY <1>0, FoundAndTold
    <3>2. ASSUME NEW t \in Told(x) PROVE t \in Found(x)
      BY <1>0, <1>13, <3>2, FoundAndTold
    <3> QED  BY <3>1, <3>2
  <2>2. IsFiniteSet(Told(x)) /\ Told(x) # {}
    BY <1>0, <1>11, FewTold, KnownIsTold
  <2>3. Cardinality(Told(x)) \in Nat /\ Cardinality(Told(x)) # 0
    BY <2>2, FS_CardinalityType, FS_EmptySet
  <2>4. Cardinality(Told(x)) > 1
    BY <1>11, <2>1, <2>3
  <2> QED  BY <1>3, <1>12, <2>4
<1> QED  BY <1>3, <1>12, <1>13

-----------------------------------------------------------------------------
(* The theorems.                                                           *)

\* The invariant holds of every execution, with any number of requests.
THEOREM ReferencesInvariance == ReferencesSpec => []RefInv
<1>1. ReferencesInit => RefInv
  BY RefInvInit
<1>2. RefInv /\ [ReferencesNext]_references => RefInv'
  BY RefInvStep
<1> QED  BY <1>1, <1>2, PTL DEF ReferencesSpec

\* What Continued says of one step.
ContinuedStep ==
  \A r \in Requests :
    stage[r] = "read" /\ stage'[r] # "read" /\ follows[r] # NoId =>
      \/ stage'[r] = "prepared" /\ SameContext(executed'[r], follows[r])
      \/ stage'[r] = "refused"
           /\ \/ NamesIn(asked[r]) # {}
              \/ \E x \in NamesIn(replayed[r]) :
                   Cardinality(Told(x)) > 1 \/ \E t \in Told(x) : t[1] \in deleted

\* A continued response runs on what its predecessor ran on and said, where an item met in
\* part may be whole by now, whatever was stored, resent or deleted in between; and a
\* continuation that names nothing itself is refused only over an item of its lineage that
\* was sent again in full or belongs to a deleted response.
THEOREM ContextContinues == ReferencesSpec => Continued
<1>1. ASSUME RefInv, [ReferencesNext]_references PROVE [ContinuedStep]_references
  <2>1. ASSUME NEW r \in Requests, stage[r] = "read", stage'[r] # "read", follows[r] # NoId
        PROVE  Resolve(r) /\ stage'[r] \in {"prepared", "refused"}
    <3>1. Resolve(r)
      BY <1>1, <2>1, AtRequest, OwnSteps DEF RefInv, Same
    <3> QED  BY <1>1, <3>1, ResolvesWhat
  <2>2. ContinuedStep
    BY <1>1, <2>1, AcceptedContinues, RefusedOverNames DEF ContinuedStep
  <2> QED  BY <2>2
<1> QED  BY <1>1, ReferencesInvariance, PTL DEF ReferencesSpec, Continued, ContinuedStep
=============================================================================
